------------------------------ MODULE LogRange ------------------------------
(***************************************************************************)
(* GET /v2/vllm/instances/{id}/log of scripts/launcher/launcher.py: the    *)
(* Range header, get_log_bytes, and the answer; with a child that appends  *)
(* to its log file all the while, and a client that follows the log by     *)
(* asking, each time, for what comes after the bytes it has.               *)
(*                                                                         *)
(* A byte of the log is its position, so a piece of the log is an interval *)
(* lo .. hi.  get_log_bytes takes the size of the file before it opens and *)
(* reads it; the child may append between the two.                         *)
(***************************************************************************)
EXTENDS Integers, Sequences

CONSTANTS
  MaxResponse, \* MAX_LOG_RESPONSE_BYTES
  MaxLog       \* bound of the model: how long a log file gets

ASSUME MaxResponseAssumption == MaxResponse \in Nat \ {0}
ASSUME MaxLogAssumption == MaxLog \in Nat

VARIABLES
  size,    \* the length of the log file
  asked,   \* the size get_log_bytes has seen, while it answers the follower; -1: it does not
  next,    \* the follower has the bytes 0 .. next - 1, as far as it knows
  copy     \* history: the positions of the bytes in the follower's copy, in order

vars == <<size, asked, next, copy>>

None == -1

(* A header: malformed, or bytes=first-second with either left out. *)
Header == [first : Nat \cup {None}, second : Nat \cup {None}]

Malformed == [first |-> None, second |-> None]

(* No Range header at all. *)
Whole == [first |-> 0, second |-> None]

(* parse_range_header: whether it accepts; what does not match its pattern is
   no better than "bytes=-". *)
Accepted(h) ==
  /\ h.first = None => h.second # None /\ h.second > 0
  /\ h.first # None /\ h.second # None => h.second >= h.first

Least(a, b) == IF a < b THEN a ELSE b

(* Mutated forms of ReadLog: the limit is off by one; the last byte counts as
   beyond the log. *)
ReadLogOneMore(h, total) ==
  IF h.first = None THEN [ok |-> TRUE, lo |-> total - Least(h.second, total), hi |-> total - 1]
  ELSE IF h.first >= total THEN [ok |-> FALSE, lo |-> 0, hi |-> -1]
  ELSE [ok |-> TRUE, lo |-> h.first,
        hi |-> Least(total - 1, IF h.second = None THEN h.first + MaxResponse ELSE h.second)]

ReadLogLate(h, total) ==
  IF h.first = None THEN [ok |-> TRUE, lo |-> total - Least(h.second, total), hi |-> total - 1]
  ELSE IF h.first >= total - 1 THEN [ok |-> FALSE, lo |-> 0, hi |-> -1]
  ELSE [ok |-> TRUE, lo |-> h.first,
        hi |-> Least(total - 1, IF h.second = None THEN h.first + MaxResponse - 1 ELSE h.second)]

(* get_log_bytes for a file of length total: not available, or the interval
   that is read; a suffix is cut to the log, the rest to the log and, when no
   end is given, to MaxResponse bytes. *)
ReadLog(h, total) ==
  IF h.first = None THEN [ok |-> TRUE, lo |-> total - Least(h.second, total), hi |-> total - 1]
  ELSE IF h.first >= total THEN [ok |-> FALSE, lo |-> 0, hi |-> -1]
  ELSE [ok |-> TRUE, lo |-> h.first,
        hi |-> Least(total - 1, IF h.second = None THEN h.first + MaxResponse - 1 ELSE h.second)]

(* Mutated form: Content-Range and body run to the end that was asked for. *)
AnswerUncut(h, success, total) ==
  LET r == ReadLog(h, total) IN
  IF ~ Accepted(h) THEN [status |-> 400, lo |-> 0, hi |-> -1]
  ELSE IF ~ r.ok THEN [status |-> 416, lo |-> 0, hi |-> -1]
  ELSE [status |-> success, lo |-> r.lo,
        hi |-> IF h.second = None THEN r.lo + MaxResponse - 1 ELSE r.hi]

(* get_vllm_instance_log: the status and the interval of the body; `success` is
   206 for a request with a Range header, 200 for one without.  An answer that
   has no byte has no Content-Range. *)
Answer(h, success, total) ==
  LET r == ReadLog(h, total) IN
  IF ~ Accepted(h) THEN [status |-> 400, lo |-> 0, hi |-> -1]
  ELSE IF ~ r.ok THEN [status |-> 416, lo |-> 0, hi |-> -1]
  ELSE [status |-> success, lo |-> r.lo, hi |-> r.hi]

----------------------------------------------------------------------------
(* The child writes. *)
Grow ==
  /\ size < MaxLog
  /\ \E n \in 1 .. 3 : size + n <= MaxLog /\ size' = size + n
  /\ UNCHANGED <<asked, next, copy>>

(* The follower's request reaches get_log_bytes, which takes the size. *)
Ask ==
  /\ asked = None
  /\ asked' = size
  /\ UNCHANGED <<size, next, copy>>

(* The file is read, by now perhaps longer, and the answer reaches the
   follower. *)
Reply ==
  /\ asked # None
  /\ asked' = None
  /\ LET a == Answer([first |-> next, second |-> None], 206, asked) IN
     /\ next' = IF a.status = 206 THEN a.hi + 1 ELSE next
     /\ copy' = IF a.status = 206 THEN copy \o [k \in 1 .. a.hi - a.lo + 1 |-> a.lo + k - 1] ELSE copy
  /\ UNCHANGED size

Init ==
  /\ size = 0
  /\ asked = None
  /\ next = 0
  /\ copy = <<>>

Next == Grow \/ Ask \/ Reply

Spec == Init /\ [][Next]_vars /\ WF_vars(Ask) /\ WF_vars(Reply)

----------------------------------------------------------------------------
(* The variables have their types. *)
TypeOK ==
  /\ size \in Nat
  /\ asked \in Nat \cup {None}
  /\ next \in Nat
  /\ copy \in Seq(Nat)

(* The headers worth telling apart when a log has at most MaxLog bytes. *)
Headers == [first : -1 .. MaxLog + 1, second : -1 .. MaxLog + 1]

(* The bytes that a header asks for, of a log of length total: RFC 9110, with
   an open end cut to MaxResponse bytes. *)
Selected(h, total) ==
  {k \in 0 .. total - 1 :
     /\ h.first = None => k >= total - h.second
     /\ h.first # None => k >= h.first
     /\ h.first # None /\ h.second # None => k <= h.second
     /\ h.first # None /\ h.second = None => k < h.first + MaxResponse}

(* Answers of a log of length total are right: the body is what the header asks
   for, and "not satisfiable" is said exactly of a first byte that is not there. *)
RightFor(h, total) ==
  LET a == Answer(h, 206, total) IN
  Accepted(h) =>
    /\ a.status \in {206, 416}
    /\ a.lo .. a.hi = Selected(h, total)
    /\ a.status = 416 <=> h.first >= total /\ h.first # None

(* Whatever the header and however long the log is by now, the client gets the
   bytes it asked for; the arithmetic has six boundaries (start, end, suffix,
   limit, end of file, empty file). *)
AnswerIsTheRange == \A h \in Headers : RightFor(h, size)

(* A client that follows a growing log has a prefix of it, without a gap or a
   byte twice, although the log grows between getsize, read and the next
   request. *)
FollowerHasPrefix ==
  /\ next <= size
  /\ Len(copy) = next
  /\ \A k \in 1 .. next : copy[k] = k - 1

(* It gets everything that was ever written. *)
FollowerCatchesUp == \A n \in 1 .. MaxLog : size >= n ~> next >= n

(* What the endpoint's docstring says: "Without a Range header the full log (up
   to 1 MB) is returned with 200 OK", an empty log being only an answer without
   Content-Range. *)
PlainGetIsOk == Answer(Whole, 200, size).status = 200
=============================================================================
