--------------------------- MODULE LogRangeProofs ---------------------------
(* The log endpoint's arithmetic for every header, log length and limit, and *)
(* what it gives a client that follows the log.                              *)
EXTENDS LogRange, SequenceTheorems, TLAPS

(* What Answer computes for an accepted header, case by case: a suffix, ... *)
LEMMA SuffixAnswer ==
  ASSUME NEW h \in Header, NEW total \in Nat, Accepted(h), h.first = None
  PROVE  /\ h.second \in Nat \ {0}
         /\ Answer(h, 206, total) =
              [status |-> 206, lo |-> total - Least(h.second, total), hi |-> total - 1]
<1>1. h.second \in Nat \ {0}
  BY DEF Header, Accepted, None
<1>2. ReadLog(h, total) = [ok |-> TRUE, lo |-> total - Least(h.second, total), hi |-> total - 1]
  BY DEF ReadLog
<1> QED  BY <1>1, <1>2 DEF Answer

(* ... a first byte beyond the log, ... *)
LEMMA BeyondAnswer ==
  ASSUME NEW h \in Header, NEW total \in Nat, Accepted(h), h.first # None, h.first >= total
  PROVE  Answer(h, 206, total) = [status |-> 416, lo |-> 0, hi |-> -1]
<1>1. ReadLog(h, total) = [ok |-> FALSE, lo |-> 0, hi |-> -1]
  BY DEF ReadLog
<1> QED  BY <1>1 DEF Answer

(* ... and a first byte in the log. *)
End(h) == IF h.second = None THEN h.first + MaxResponse - 1 ELSE h.second

(* ... or a first byte inside it. *)
LEMMA InsideAnswer ==
  ASSUME NEW h \in Header, NEW total \in Nat, Accepted(h), h.first # None, ~ (h.first >= total)
  PROVE  Answer(h, 206, total) =
           [status |-> 206, lo |-> h.first, hi |-> Least(total - 1, End(h))]
<1>1. ReadLog(h, total) = [ok |-> TRUE, lo |-> h.first, hi |-> Least(total - 1, End(h))]
  BY DEF ReadLog, End
<1> QED  BY <1>1 DEF Answer

(* Every accepted header is answered with exactly the bytes it asks for. *)
THEOREM RangesCorrect ==
  ASSUME NEW h \in Header, NEW total \in Nat
  PROVE  RightFor(h, total)
<1> DEFINE a == Answer(h, 206, total)
<1>0. h.first \in Nat \cup {None} /\ h.second \in Nat \cup {None}
  BY DEF Header
<1> SUFFICES ASSUME Accepted(h)
             PROVE  /\ a.status \in {206, 416}
                    /\ a.lo .. a.hi = Selected(h, total)
                    /\ a.status = 416 <=> h.first >= total /\ h.first # None
  BY DEF RightFor
<1>1. CASE h.first = None
  <2>1. h.second \in Nat \ {0}
    BY <1>1, SuffixAnswer
  <2>2. a.status = 206 /\ a.lo = total - Least(h.second, total) /\ a.hi = total - 1
    BY <1>1, SuffixAnswer
  <2>3. Selected(h, total) = {k \in 0 .. total - 1 : k >= total - h.second}
    BY <1>1 DEF Selected
  <2>4. a.lo .. a.hi = {k \in 0 .. total - 1 : k >= total - h.second}
    BY <2>1, <2>2 DEF Least
  <2> QED  BY <2>2, <2>3, <2>4, <1>1
<1>2. CASE h.first # None /\ h.first >= total
  <2>1. a.status = 416 /\ a.lo = 0 /\ a.hi = -1
    BY <1>2, BeyondAnswer
  <2>2. h.first \in Nat
    BY <1>0, <1>2
  <2>3. Selected(h, total) = {}
    BY <1>2, <2>2 DEF Selected
  <2>4. 0 .. -1 = {}
    OBVIOUS
  <2> QED  BY <2>1, <2>3, <2>4, <1>2
<1>3. CASE h.first # None /\ ~ (h.first >= total)
  <2>1. h.first \in Nat /\ h.first < total
    BY <1>0, <1>3
  <2>2. a.status = 206 /\ a.lo = h.first /\ a.hi = Least(total - 1, End(h))
    BY <1>3, InsideAnswer
  <2>3. End(h) \in Int
    BY <2>1, <1>0, MaxResponseAssumption DEF End
  <2>4. Selected(h, total) = {k \in 0 .. total - 1 : k >= h.first /\ k <= End(h)}
    <3>1. CASE h.second = None
      BY <1>3, <2>1, <3>1, MaxResponseAssumption DEF Selected, End
    <3>2. CASE h.second # None
      BY <1>3, <2>1, <3>2 DEF Selected, End
    <3> QED  BY <3>1, <3>2
  <2>5. a.lo .. a.hi = {k \in 0 .. total - 1 : k >= h.first /\ k <= End(h)}
    <3> HIDE DEF End, a
    <3> QED  BY <2>1, <2>2, <2>3 DEF Least
  <2> QED  BY <2>2, <2>4, <2>5, <1>3
<1> QED  BY <1>1, <1>2, <1>3

(* Headers, whose bounds depend on MaxLog, are headers. *)
LEMMA HeadersAreHeaders == Headers \subseteq Header
<1>1. -1 .. MaxLog + 1 \subseteq Nat \cup {None}
  BY MaxLogAssumption DEF None
<1> QED  BY <1>1 DEF Headers, Header

(* However long the log has become, each header is answered with its bytes. *)
THEOREM AnswersCorrect == Spec => []AnswerIsTheRange
<1>1. Init => size \in Nat
  BY DEF Init
<1>2. size \in Nat /\ [Next]_vars => (size \in Nat)'
  BY MaxLogAssumption DEF Next, Grow, Ask, Reply, vars
<1>3. size \in Nat => AnswerIsTheRange
  BY RangesCorrect, HeadersAreHeaders DEF AnswerIsTheRange
<1> QED  BY <1>1, <1>2, <1>3, PTL DEF Spec

----------------------------------------------------------------------------
(* The size that was taken is one the log had: it never shrinks. *)
FInv ==
  /\ TypeOK
  /\ asked <= size
  /\ FollowerHasPrefix

(* What one answer adds to the follower's copy. *)
LEMMA ReplyExtends ==
  ASSUME FInv, Reply
  PROVE  \/ UNCHANGED <<next, copy>>
         \/ \E n \in Nat :
              /\ next + n <= asked
              /\ next' = next + n
              /\ copy' = copy \o [k \in 1 .. n |-> next + k - 1]
<1> DEFINE h == [first |-> next, second |-> None]
           a == Answer(h, 206, asked)
<1>1. asked \in Nat /\ next \in Nat
  BY DEF FInv, TypeOK, Reply
<1>2. h \in Header /\ Accepted(h) /\ h.first # None /\ End(h) = next + MaxResponse - 1
  BY <1>1 DEF Header, Accepted, None, End
<1>3. CASE next >= asked
  <2>1. a.status = 416
    BY <1>1, <1>2, <1>3, BeyondAnswer
  <2> QED  BY <2>1 DEF Reply
<1>4. CASE ~ (next >= asked)
  <2> DEFINE hi == Least(asked - 1, next + MaxResponse - 1)
  <2>1. a.status = 206 /\ a.lo = next /\ a.hi = hi
    BY <1>1, <1>2, <1>4, InsideAnswer
  <2>2. hi \in Nat /\ hi >= next /\ hi < asked
    BY <1>1, <1>4, MaxResponseAssumption DEF Least
  <2> DEFINE n == hi - next + 1
  <2>3. n \in Nat /\ next + n <= asked /\ next + n = hi + 1
    <3> HIDE DEF hi
    <3> QED  BY <1>1, <2>2
  <2>4. next' = a.hi + 1 /\ copy' = copy \o [k \in 1 .. a.hi - a.lo + 1 |-> a.lo + k - 1]
    BY <2>1 DEF Reply
  <2>5. next' = next + n /\ copy' = copy \o [k \in 1 .. n |-> next + k - 1]
    <3> HIDE DEF hi, a
    <3> QED  BY <2>1, <2>3, <2>4
  <2> QED  BY <2>3, <2>5
<1> QED  BY <1>1, <1>3, <1>4

(* FInv is inductive. *)
THEOREM FollowerInvariant == Spec => []FInv
<1>1. Init => FInv
  BY DEF Init, FInv, TypeOK, FollowerHasPrefix, None
<1>2. FInv /\ [Next]_vars => FInv'
  <2> SUFFICES ASSUME FInv, [Next]_vars PROVE FInv'
    OBVIOUS
  <2>1. CASE Grow
    BY <2>1 DEF Grow, FInv, TypeOK, FollowerHasPrefix, None
  <2>2. CASE Ask
    BY <2>2 DEF Ask, FInv, TypeOK, FollowerHasPrefix
  <2>3. CASE Reply
    <3>1. asked' = None /\ size' = size /\ asked \in Nat /\ asked <= size
      BY <2>3 DEF Reply, FInv, TypeOK
    <3>2. CASE UNCHANGED <<next, copy>>
      BY <3>1, <3>2 DEF FInv, TypeOK, FollowerHasPrefix, None
    <3>3. ASSUME NEW n \in Nat, next + n <= asked, next' = next + n,
                 copy' = copy \o [k \in 1 .. n |-> next + k - 1]
          PROVE  FInv'
      <4> DEFINE piece == [k \in 1 .. n |-> next + k - 1]
      <4>0. next \in Nat /\ size \in Nat /\ copy \in Seq(Nat) /\ Len(copy) = next
        BY DEF FInv, TypeOK, FollowerHasPrefix
      <4>1. piece \in Seq(Nat) /\ Len(piece) = n
        BY <4>0
      <4>2. copy' \in Seq(Nat) /\ Len(copy') = next + n
        BY <3>3, <4>0, <4>1
      <4>3. ASSUME NEW k \in 1 .. next + n PROVE copy'[k] = k - 1
        <5>1. CASE k <= next
          BY <3>3, <4>0, <4>1, <5>1 DEF FInv, FollowerHasPrefix
        <5>2. CASE k > next
          <6>0. k \in Nat /\ k > Len(copy) /\ k <= Len(copy) + Len(piece)
            <7> HIDE DEF piece
            <7> QED  BY <4>0, <4>1, <5>2
          <6>1. copy'[k] = piece[k - next]
            <7>1. copy' = copy \o piece
              BY <3>3
            <7>2. k \in 1 .. Len(copy) + Len(piece) /\ ~ (k <= Len(copy)) /\ Len(copy) = next
              BY <4>0, <4>1, <6>0
            <7> HIDE DEF piece
            <7> QED  BY <4>0, <4>1, <7>1, <7>2, ConcatProperties
          <6>2. k - next \in 1 .. n /\ next + (k - next) - 1 = k - 1
            BY <4>0, <4>3, <5>2
          <6> QED  BY <6>1, <6>2
        <5> QED  BY <4>0, <5>1, <5>2
      <4>4. next' \in Nat /\ next' <= size'
        BY <3>1, <3>3, <4>0
      <4>5. asked' \in Nat \cup {None} /\ asked' <= size' /\ size' \in Nat
        BY <3>1, <4>0 DEF None
      <4> QED  BY <3>3, <4>2, <4>3, <4>4, <4>5 DEF FInv, TypeOK, FollowerHasPrefix
    <3>4. CASE \E n \in Nat : /\ next + n <= asked
                              /\ next' = next + n
                              /\ copy' = copy \o [k \in 1 .. n |-> next + k - 1]
      <4>1. PICK n \in Nat : /\ next + n <= asked
                             /\ next' = next + n
                             /\ copy' = copy \o [k \in 1 .. n |-> next + k - 1]
        BY <3>4
      <4> QED  BY <3>3, <4>1
    <3>5. \/ UNCHANGED <<next, copy>>
          \/ \E n \in Nat : /\ next + n <= asked
                            /\ next' = next + n
                            /\ copy' = copy \o [k \in 1 .. n |-> next + k - 1]
      BY <2>3, ReplyExtends
    <3> QED  BY <3>2, <3>4, <3>5
  <2>4. CASE UNCHANGED vars
    BY <2>4 DEF vars, FInv, TypeOK, FollowerHasPrefix
  <2> QED  BY <2>1, <2>2, <2>3, <2>4 DEF Next
<1> QED  BY <1>1, <1>2, PTL DEF Spec

(* A follower's copy is a prefix of the log, for every limit and log. *)
THEOREM FollowerCorrect == Spec => []FollowerHasPrefix
<1>1. FInv => FollowerHasPrefix
  BY DEF FInv
<1> QED  BY <1>1, FollowerInvariant, PTL
=============================================================================
