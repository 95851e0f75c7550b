---------------------------- MODULE ReportProofs ----------------------------
(***************************************************************************)
(* Proofs about the report, for traces of any number of lines: the phase   *)
(* table adds up to the window, every tick is credited as the docstring of *)
(* sweep_phases() says, coverage is what the processes reported, the wall  *)
(* times and counters are measures, and the dark spans are dark.           *)
(***************************************************************************)
EXTENDS RunReport, WellFoundedInduction, FiniteSetTheorems, SequenceTheorems, TLAPS

----------------------------------------------------------------------------
(* Least and greatest elements: what Min, Max, min() and max() rest on. *)

(* A set of natural numbers has a least element. *)
LEMMA LeastNatural ==
  ASSUME NEW S, S \subseteq Nat, S # {}
  PROVE \E x \in S : \A y \in S : x <= y
<1> DEFINE R == OpToRel(<, Nat)
<1>1. IsWellFoundedOn(R, Nat)
  BY NatLessThanWellFounded
<1>2. \A x, y \in Nat : y < x => <<y, x>> \in R
  BY DEF OpToRel
<1> HIDE DEF R
<1>3. PICK x \in S : \A y \in S : ~ (<<y, x>> \in R)
  BY <1>1, WFMin
<1>4. ASSUME NEW y \in S PROVE x <= y
  <2>1. x \in Nat /\ y \in Nat
    OBVIOUS
  <2>2. ~ (y < x)
    BY <1>2, <1>3, <2>1
  <2> QED BY <2>1, <2>2
<1> QED BY <1>4

(* And so does a set of integers with a lower bound. *)
LEMMA LeastInteger ==
  ASSUME NEW S, S \subseteq Int, S # {}, NEW n \in Int, \A x \in S : n <= x
  PROVE \E x \in S : \A y \in S : x <= y
<1> DEFINE T == {k \in Nat : n + k \in S}
<1>1. T \subseteq Nat
  OBVIOUS
<1>2. T # {}
  <2>1. PICK x \in S : TRUE
    OBVIOUS
  <2>2. x - n \in Nat /\ n + (x - n) = x
    BY <2>1
  <2> QED BY <2>1, <2>2
<1>3. PICK t \in T : \A u \in T : t <= u
  <2> HIDE DEF T
  <2> QED BY <1>1, <1>2, LeastNatural
<1>4. ASSUME NEW y \in S PROVE n + t <= y
  <2>1. y - n \in Nat /\ n + (y - n) = y
    OBVIOUS
  <2>2. y - n \in T
    BY <2>1
  <2>3. t <= y - n
    BY <2>2, <1>3
  <2> QED BY <2>3, <2>1
<1> QED BY <1>4

(* Min() of a set of integers with a lower bound. *)
LEMMA MinOf ==
  ASSUME NEW S, S \subseteq Int, S # {}, NEW n \in Int, \A x \in S : n <= x
  PROVE Min(S) \in S /\ \A y \in S : Min(S) <= y
BY LeastInteger DEF Min

(* Max() and Min() of two. *)
LEMMA TwoOf ==
  ASSUME NEW a \in Int, NEW b \in Int
  PROVE /\ Max({a, b}) = IF a >= b THEN a ELSE b
        /\ Min({a, b}) = IF a <= b THEN a ELSE b
<1>1. Max({a, b}) \in {a, b} /\ \A y \in {a, b} : Max({a, b}) >= y
  <2>1. \E x \in {a, b} : \A y \in {a, b} : x >= y
    OBVIOUS
  <2> QED BY <2>1 DEF Max
<1>2. Min({a, b}) \in {a, b} /\ \A y \in {a, b} : Min({a, b}) <= y
  <2>1. \E x \in {a, b} : \A y \in {a, b} : x <= y
    OBVIOUS
  <2> QED BY <2>1 DEF Min
<1> QED BY <1>1, <1>2

(* A finite set has an element that nothing in it is above. *)
LEMMA Topmost ==
  ASSUME NEW C, IsFiniteSet(C), C # {}, NEW Above, \A c \in C : <<c, c>> \notin Above,
         \A c, d, e \in C : <<c, d>> \in Above /\ <<d, e>> \in Above => <<c, e>> \in Above
  PROVE \E c \in C : \A d \in C : <<d, c>> \notin Above
<1> DEFINE T == {U \in SUBSET C : U # {} /\ \A u \in U, d \in C : <<d, u>> \in Above => d \in U}
           R == StrictSubsetOrdering(C)
<1>1. IsWellFoundedOn(R, FiniteSubsetsOf(C))
  BY FS_StrictSubsetOrderingWellFounded
<1>2. T \subseteq FiniteSubsetsOf(C)
  BY FS_Subset DEF FiniteSubsetsOf
<1>3. C \in T
  OBVIOUS
<1>4. \A U, V \in SUBSET C : V \subseteq U /\ V # U => <<V, U>> \in R
  BY DEF StrictSubsetOrdering
<1>5. PICK U \in T : \A V \in T : ~ (<<V, U>> \in R)
  <2> HIDE DEF T, R
  <2> QED BY <1>1, <1>2, <1>3, WFMin
<1>6. PICK c \in U : TRUE
  BY <1>5
<1>7. c \in C
  BY <1>5, <1>6
<1> DEFINE V == {d \in C : <<d, c>> \in Above}
<1>8. V \subseteq U
  BY <1>5, <1>6
<1>9. c \notin V
  BY <1>7
<1>10. \A u \in V, d \in C : <<d, u>> \in Above => d \in V
  BY <1>7
<1>11. V = {}
  <2>1. V # {} => V \in T
    BY <1>10
  <2>2. V # U
    BY <1>6, <1>9
  <2>3. V \in T => <<V, U>> \in R
    BY <1>4, <1>8, <2>2, <1>5
  <2> QED BY <2>1, <2>3, <1>5
<1> QED BY <1>7, <1>11

(* Max() of a finite set of integers. *)
LEMMA MaxOf ==
  ASSUME NEW S, S \subseteq Int, S # {}, IsFiniteSet(S)
  PROVE Max(S) \in S /\ \A y \in S : Max(S) >= y
<1> DEFINE A == {z \in S \X S : z[1] > z[2]}
<1>1. \A x, y \in S : <<x, y>> \in A <=> x > y
  OBVIOUS
<1>2. \A c \in S : <<c, c>> \notin A
  BY <1>1
<1>3. \A c, d, e \in S : <<c, d>> \in A /\ <<d, e>> \in A => <<c, e>> \in A
  BY <1>1
<1> HIDE DEF A
<1>4. \E c \in S : \A d \in S : <<d, c>> \notin A
  BY <1>2, <1>3, Topmost
<1>5. PICK c \in S : \A d \in S : <<d, c>> \notin A
  BY <1>4
<1>6. ASSUME NEW d \in S PROVE c >= d
  <2>1. ~ (d > c)
    BY <1>1, <1>5
  <2>2. c \in Int /\ d \in Int
    OBVIOUS
  <2> QED BY <2>1, <2>2
<1> QED BY <1>6 DEF Max

(* The image of a finite set. *)
LEMMA ImageIsFinite ==
  ASSUME NEW S, IsFiniteSet(S), NEW f, DOMAIN f = S, f = [s \in S |-> f[s]]
  PROVE IsFiniteSet({f[s] : s \in S})
<1> DEFINE T == {f[s] : s \in S}
<1>1. f \in Surjection(S, T)
  BY DEF Surjection
<1> QED BY <1>1, FS_Surjection

----------------------------------------------------------------------------
(* The tables of phases. *)

Named == {"boot", "imports", "config", "hub", "download", "ipc", "device", "registry", "weights",
          "compile", "cudagraph", "kvcache", "warmup", "apiserver", "engine", "other"}

(* Every span belongs to a phase of the table. *)
LEMMA ClassifyIsPhase ==
  ASSUME NEW s
  PROVE Classify(s) \in Named
<1>1. DOMAIN CatPhase = {"import", "config", "platform", "ipc", "device", "collective", "gpu", "registry",
                         "weights", "compile", "cudagraph", "kvcache", "warmup", "apiserver", "entrypoint",
                         "engine", "executor", "telemetry", "fileio", "misc", "probe"}
  BY DEF CatPhase
<1>2. \A c \in DOMAIN CatPhase : CatPhase[c] \in Named
  BY <1>1 DEF CatPhase, Named
<1>3. (IF s.cat \in DOMAIN CatPhase THEN CatPhase[s.cat] ELSE "other") \in Named
  BY <1>2 DEF Named
<1>4. "boot" \in Named /\ "registry" \in Named /\ "download" \in Named /\ "hub" \in Named
  BY DEF Named
<1> HIDE DEF Named, CatPhase
<1>5. CASE s.name = "interpreter.startup" \/ s.name \in RegistryNames
  BY <1>5, <1>4 DEF Classify, RegistryNames
<1>6. CASE s.name # "interpreter.startup" /\ s.name \notin RegistryNames /\ s.cat = "network"
  BY <1>6, <1>4 DEF Classify
<1>7. CASE s.name # "interpreter.startup" /\ s.name \notin RegistryNames /\ s.cat # "network"
  BY <1>7, <1>3 DEF Classify
<1> QED BY <1>5, <1>6, <1>7

(* The phases are the keys of the priority table, and each has a row. *)
LEMMA PhaseTable ==
  /\ Phase = Named
  /\ \A p \in Named : Priority[p] \in Nat
BY DEF Phase, Named, Priority
----------------------------------------------------------------------------
(* What a readable trace holds once it is loaded. *)

Loaded ==
  /\ spans = {l \in lines : l.ph = "X"}
  /\ instants = {l \in lines : l.ph = "i"}
  /\ metas = {l \in lines : l.ph = "M"}

(* Times of spans, instants and process headers are natural numbers. *)
LEMMA LoadedTimes ==
  ASSUME lines \in Traces, Loaded
  PROVE /\ IsFiniteSet(spans) /\ spans \subseteq SpanLine
        /\ \A i \in instants : i.ts \in Nat
        /\ \A m \in metas : m.name \in {"process.exec", "process.fork"} => m.ts \in Nat
<1>1. Readable(lines)
  BY TracesAssumption
<1>2. IsFiniteSet(spans)
  BY <1>1, FS_Subset DEF Loaded, Readable
<1>3. spans \subseteq SpanLine
  BY <1>1 DEF Loaded, Readable
<1> QED BY <1>1, <1>2, <1>3 DEF Loaded, Readable

(* Where a span ends. *)
LEMMA SpanTimes ==
  ASSUME NEW s \in SpanLine
  PROVE s.ts \in Nat /\ s.dur \in Nat /\ s.depth \in Nat /\ End(s) \in Nat /\ s.ts <= End(s)
BY DEF SpanLine, End

(* The start of an exec'd process is a time. *)
LEMMA IndexedExec ==
  ASSUME lines \in Traces, Loaded, NEW p, Indexed(p).kind = "process.exec"
  PROVE Indexed(p).exec \in Nat
<1> DEFINE heads == {m \in metas : m.pid = p /\ m.name \in {"process.exec", "process.fork"}}
           head == CHOOSE m \in heads : TRUE
<1>1. heads = {m \in {n \in metas : n.pid = p} : m.name \in {"process.exec", "process.fork"}}
  OBVIOUS
<1>2. /\ Indexed(p).kind = IF heads = {} THEN None ELSE head.name
      /\ Indexed(p).exec = IF heads = {} THEN 0 ELSE head.ts
  BY <1>1 DEF Indexed
<1>3. heads # {}
  BY <1>2 DEF None
<1>4. head \in heads
  BY <1>3
<1>5. head \in metas /\ head.name \in {"process.exec", "process.fork"}
  BY <1>4
<1>6. head.ts \in Nat
  <2> HIDE DEF head
  <2> QED BY <1>5, LoadedTimes
<1> QED BY <1>2, <1>3, <1>6

(* The window begins at a time. *)
LEMMA T0IsTime ==
  ASSUME lines \in Traces, Loaded, NEW D, NEW ps, ps = [p \in D |-> Indexed(p)]
  PROVE T0(ps) \in Nat
<1> DEFINE execs == {ps[p].exec : p \in {q \in DOMAIN ps : ps[q].kind = "process.exec"}}
           cands == IF execs # {} THEN execs ELSE {s.ts : s \in spans}
<1>1. \A p \in DOMAIN ps : ps[p].kind = "process.exec" => ps[p].exec \in Nat
  BY IndexedExec
<1>2. execs \subseteq Nat
  BY <1>1
<1>3. {s.ts : s \in spans} \subseteq Nat
  BY LoadedTimes, SpanTimes
<1>4. cands \subseteq Nat
  BY <1>2, <1>3
<1>5. T0(ps) = IF cands = {} THEN 0 ELSE Min(cands)
  BY DEF T0
<1> HIDE DEF cands, execs
<1>6. ASSUME cands # {} PROVE Min(cands) \in cands
  <2>1. \E x \in cands : \A y \in cands : x <= y
    BY <1>4, <1>6, LeastNatural
  <2> QED BY <2>1 DEF Min
<1>7. CASE cands # {}
  BY <1>4, <1>5, <1>6, <1>7
<1>8. CASE cands = {}
  BY <1>5, <1>8
<1> QED BY <1>7, <1>8

(* And it ends at one, or where it begins. *)
LEMMA ReadyIsTime ==
  ASSUME lines \in Traces, Loaded, NEW ps, T0(ps) \in Nat
  PROVE TReady(ps) \in Nat
<1> DEFINE seen == {i \in DOMAIN ReadyKeys : ReadyKeys[i] \in Edges}
           ends == {End(s) : s \in spans}
<1>1. TReady(ps) = IF seen # {} THEN EdgeAt(ReadyKeys[Min(seen)])
                   ELSE IF spans # {} THEN Max(ends) ELSE T0(ps)
  BY DEF TReady
<1>2. ASSUME NEW e \in Edges PROVE EdgeAt(e) \in Nat
  <2> DEFINE ats == {i.ts : i \in {x \in instants : x.name = e}}
  <2>1. ats \subseteq Nat
    BY LoadedTimes
  <2>2. ats # {}
    BY DEF Edges
  <2>3. EdgeAt(e) = Min(ats)
    BY DEF EdgeAt
  <2> HIDE DEF ats
  <2> QED BY <2>1, <2>2, <2>3, LeastNatural DEF Min
<1>3. ASSUME seen # {} PROVE ReadyKeys[Min(seen)] \in Edges
  <2>1. DOMAIN ReadyKeys = 1 .. 4
    BY DEF ReadyKeys
  <2>2. seen \subseteq Nat
    BY <2>1
  <2> HIDE DEF seen
  <2>3. Min(seen) \in seen
    BY <1>3, <2>2, LeastNatural DEF Min
  <2> QED BY <2>3 DEF seen
<1>4. ASSUME spans # {} PROVE Max(ends) \in Nat
  <2>1. ends \subseteq Nat
    BY LoadedTimes, SpanTimes
  <2>2. IsFiniteSet(ends)
    <3> DEFINE f == [s \in spans |-> End(s)]
    <3>1. ends = {f[s] : s \in spans}
      OBVIOUS
    <3>2. DOMAIN f = spans /\ f = [s \in spans |-> f[s]]
      OBVIOUS
    <3> HIDE DEF f, ends
    <3>3. IsFiniteSet(spans)
      BY LoadedTimes
    <3>4. IsFiniteSet({f[s] : s \in spans})
      BY <3>2, <3>3, ImageIsFinite
    <3> QED BY <3>1, <3>4
  <2>3. ends # {}
    BY <1>4
  <2> HIDE DEF ends
  <2>4. ends \subseteq Int
    BY <2>1
  <2>5. Max(ends) \in ends
    BY <2>2, <2>3, <2>4, MaxOf
  <2> QED BY <2>1, <2>5
<1> HIDE DEF seen, ends
<1> QED BY <1>1, <1>2, <1>3, <1>4
----------------------------------------------------------------------------
(* The sweep: types, its next boundary, and the sum of the table. *)

Stages == {"load", "index", "sweep", "done"}

SweepTypes ==
  /\ lines \in Traces /\ stage \in Stages
  /\ IF stage = "load" THEN spans = {} ELSE Loaded
  /\ window \in Nat \X Nat /\ cursor \in Nat /\ window[1] <= cursor
  /\ credit \in [Named -> Nat] /\ unaccounted \in Nat /\ concurrent \in Nat
  /\ DOMAIN waiting = Procs /\ DOMAIN active = Procs
  /\ \E S : owner \in Seq(S)

(* Nothing is credited before the window is known. *)
Unswept ==
  stage \in {"load", "index"} =>
    /\ window = <<0, 0>> /\ cursor = 0
    /\ credit = [p \in Named |-> 0] /\ unaccounted = 0 /\ concurrent = 0 /\ owner = <<>>

Four(c, p, q, r, s) == c[p] + c[q] + c[r] + c[s]
Credited(c) ==
  Four(c, "boot", "imports", "config", "registry") + Four(c, "hub", "download", "ipc", "device")
    + Four(c, "weights", "kvcache", "compile", "cudagraph") + Four(c, "warmup", "apiserver", "engine", "other")
Total(c, rest) == Credited(c) + rest

(* Every phase has one row. *)
LEMMA Rows ==
  /\ DOMAIN ReportOrder = 1 .. 16
  /\ ReportOrder[1] = "boot" /\ ReportOrder[2] = "imports" /\ ReportOrder[3] = "config"
  /\ ReportOrder[4] = "registry" /\ ReportOrder[5] = "hub" /\ ReportOrder[6] = "download"
  /\ ReportOrder[7] = "ipc" /\ ReportOrder[8] = "device" /\ ReportOrder[9] = "weights"
  /\ ReportOrder[10] = "kvcache" /\ ReportOrder[11] = "compile" /\ ReportOrder[12] = "cudagraph"
  /\ ReportOrder[13] = "warmup" /\ ReportOrder[14] = "apiserver" /\ ReportOrder[15] = "engine"
  /\ ReportOrder[16] = "other"
BY DEF ReportOrder

(* So the table's total is the sum over the phases and the remainder. *)
LEMMA TableSum ==
  /\ TableTotal = Total(credit, unaccounted)
  /\ TableTotal' = Total(credit', unaccounted')
<1>1. /\ FourRows(1) = Four(credit, "boot", "imports", "config", "registry")
      /\ FourRows(1)' = Four(credit', "boot", "imports", "config", "registry")
  BY Rows DEF FourRows, Row, Four
<1>2. /\ FourRows(5) = Four(credit, "hub", "download", "ipc", "device")
      /\ FourRows(5)' = Four(credit', "hub", "download", "ipc", "device")
  BY Rows DEF FourRows, Row, Four
<1>3. /\ FourRows(9) = Four(credit, "weights", "kvcache", "compile", "cudagraph")
      /\ FourRows(9)' = Four(credit', "weights", "kvcache", "compile", "cudagraph")
  BY Rows DEF FourRows, Row, Four
<1>4. /\ FourRows(13) = Four(credit, "warmup", "apiserver", "engine", "other")
      /\ FourRows(13)' = Four(credit', "warmup", "apiserver", "engine", "other")
  BY Rows DEF FourRows, Row, Four
<1> QED BY <1>1, <1>2, <1>3, <1>4 DEF TableTotal, Total, Credited

(* What is credited to one phase, or to none, is added to the total. *)
LEMMA CreditAdds ==
  ASSUME NEW c \in [Named -> Nat], NEW w \in Nat, NEW rest \in Nat
  PROVE /\ \A p \in Named : Total([c EXCEPT ![p] = @ + w], rest) = Total(c, rest) + w
        /\ Total(c, rest + w) = Total(c, rest) + w
<1> DEFINE more(p) == [c EXCEPT ![p] = @ + w]
<1>1. ASSUME NEW p \in Named, NEW q \in Named, NEW r \in Named, NEW s \in Named, NEW u \in Named,
             p # q, p # r, p # s, q # r, q # s, r # s
      PROVE /\ Four(c, p, q, r, s) \in Nat
            /\ Four(more(u), p, q, r, s) = Four(c, p, q, r, s) + (IF u \in {p, q, r, s} THEN w ELSE 0)
  <2>1. c[p] \in Nat /\ c[q] \in Nat /\ c[r] \in Nat /\ c[s] \in Nat
    OBVIOUS
  <2>2. \A x \in Named : more(u)[x] = IF x = u THEN c[x] + w ELSE c[x]
    OBVIOUS
  <2> HIDE DEF more
  <2>3. Four(c, p, q, r, s) \in Nat
    BY <2>1 DEF Four
  <2>4. CASE u = p
    BY <2>1, <2>2, <2>4, <1>1 DEF Four
  <2>5. CASE u = q
    BY <2>1, <2>2, <2>5, <1>1 DEF Four
  <2>6. CASE u = r
    BY <2>1, <2>2, <2>6, <1>1 DEF Four
  <2>7. CASE u = s
    BY <2>1, <2>2, <2>7, <1>1 DEF Four
  <2>8. CASE u \notin {p, q, r, s}
    BY <2>1, <2>2, <2>3, <2>8 DEF Four
  <2> QED BY <2>3, <2>4, <2>5, <2>6, <2>7, <2>8
<1> HIDE DEF more
<1>2. ASSUME NEW u \in Named
      PROVE /\ Four(c, "boot", "imports", "config", "registry") \in Nat
            /\ Four(c, "hub", "download", "ipc", "device") \in Nat
            /\ Four(c, "weights", "kvcache", "compile", "cudagraph") \in Nat
            /\ Four(c, "warmup", "apiserver", "engine", "other") \in Nat
            /\ Credited(more(u)) = Credited(c) + w
  <2>1. /\ Four(c, "boot", "imports", "config", "registry") \in Nat
        /\ Four(more(u), "boot", "imports", "config", "registry")
             = Four(c, "boot", "imports", "config", "registry")
               + (IF u \in {"boot", "imports", "config", "registry"} THEN w ELSE 0)
    <3>1. "boot" \in Named /\ "imports" \in Named /\ "config" \in Named /\ "registry" \in Named
      BY DEF Named
    <3>2. "boot" # "imports" /\ "boot" # "config" /\ "boot" # "registry" /\ "imports" # "config" /\ "imports" # "registry" /\ "config" # "registry"
      OBVIOUS
    <3> QED BY <1>1, <3>1, <3>2
  <2>2. /\ Four(c, "hub", "download", "ipc", "device") \in Nat
        /\ Four(more(u), "hub", "download", "ipc", "device")
             = Four(c, "hub", "download", "ipc", "device")
               + (IF u \in {"hub", "download", "ipc", "device"} THEN w ELSE 0)
    <3>1. "hub" \in Named /\ "download" \in Named /\ "ipc" \in Named /\ "device" \in Named
      BY DEF Named
    <3>2. "hub" # "download" /\ "hub" # "ipc" /\ "hub" # "device" /\ "download" # "ipc" /\ "download" # "device" /\ "ipc" # "device"
      OBVIOUS
    <3> QED BY <1>1, <3>1, <3>2
  <2>3. /\ Four(c, "weights", "kvcache", "compile", "cudagraph") \in Nat
        /\ Four(more(u), "weights", "kvcache", "compile", "cudagraph")
             = Four(c, "weights", "kvcache", "compile", "cudagraph")
               + (IF u \in {"weights", "kvcache", "compile", "cudagraph"} THEN w ELSE 0)
    <3>1. "weights" \in Named /\ "kvcache" \in Named /\ "compile" \in Named /\ "cudagraph" \in Named
      BY DEF Named
    <3>2. "weights" # "kvcache" /\ "weights" # "compile" /\ "weights" # "cudagraph" /\ "kvcache" # "compile" /\ "kvcache" # "cudagraph" /\ "compile" # "cudagraph"
      OBVIOUS
    <3> QED BY <1>1, <3>1, <3>2
  <2>4. /\ Four(c, "warmup", "apiserver", "engine", "other") \in Nat
        /\ Four(more(u), "warmup", "apiserver", "engine", "other")
             = Four(c, "warmup", "apiserver", "engine", "other")
               + (IF u \in {"warmup", "apiserver", "engine", "other"} THEN w ELSE 0)
    <3>1. "warmup" \in Named /\ "apiserver" \in Named /\ "engine" \in Named /\ "other" \in Named
      BY DEF Named
    <3>2. "warmup" # "apiserver" /\ "warmup" # "engine" /\ "warmup" # "other" /\ "apiserver" # "engine" /\ "apiserver" # "other" /\ "engine" # "other"
      OBVIOUS
    <3> QED BY <1>1, <3>1, <3>2
  <2>5. Credited(more(u)) = Credited(c) + w
    <3>1. CASE u \in {"boot", "imports", "config", "registry"}
      BY <2>1, <2>2, <2>3, <2>4, <3>1 DEF Credited
    <3>2. CASE u \in {"hub", "download", "ipc", "device"}
      BY <2>1, <2>2, <2>3, <2>4, <3>2 DEF Credited
    <3>3. CASE u \in {"weights", "kvcache", "compile", "cudagraph"}
      BY <2>1, <2>2, <2>3, <2>4, <3>3 DEF Credited
    <3>4. CASE u \in {"warmup", "apiserver", "engine", "other"}
      BY <2>1, <2>2, <2>3, <2>4, <3>4 DEF Credited
    <3> QED BY <3>1, <3>2, <3>3, <3>4 DEF Named
  <2> QED BY <2>1, <2>2, <2>3, <2>4, <2>5
<1>3. Credited(c) \in Nat
  <2>1. "boot" \in Named
    BY DEF Named
  <2> QED BY <1>2, <2>1 DEF Credited
<1>4. \A p \in Named : Total(more(p), rest) = Total(c, rest) + w
  BY <1>2, <1>3 DEF Total
<1>5. Total(c, rest + w) = Total(c, rest) + w
  BY <1>3 DEF Total
<1> QED BY <1>4, <1>5 DEF more

(* A span that reaches into the window is cut at both edges. *)
LEMMA ClipTimes ==
  ASSUME SweepTypes, NEW s \in Inside(window), spans \subseteq SpanLine
  PROVE /\ Clip(s, window).span = s
        /\ Clip(s, window).from = IF s.ts >= window[1] THEN s.ts ELSE window[1]
        /\ Clip(s, window).to = IF End(s) <= window[2] THEN End(s) ELSE window[2]
        /\ Clip(s, window).from \in Nat /\ Clip(s, window).to \in Nat
<1>1. s \in SpanLine
  BY DEF Inside
<1>2. s.ts \in Nat /\ End(s) \in Nat
  BY <1>1, SpanTimes
<1>3. window[1] \in Nat /\ window[2] \in Nat
  BY DEF SweepTypes
<1>4. /\ Max({s.ts, window[1]}) = IF s.ts >= window[1] THEN s.ts ELSE window[1]
      /\ Min({End(s), window[2]}) = IF End(s) <= window[2] THEN End(s) ELSE window[2]
  <2>1. s.ts \in Int /\ End(s) \in Int /\ window[1] \in Int /\ window[2] \in Int
    BY <1>2, <1>3
  <2>2. Max({s.ts, window[1]}) = IF s.ts >= window[1] THEN s.ts ELSE window[1]
    BY <2>1, TwoOf
  <2>3. Min({End(s), window[2]}) = IF End(s) <= window[2] THEN End(s) ELSE window[2]
    BY <2>1, TwoOf
  <2> QED BY <2>2, <2>3
<1>5. Clip(s, window) = [span |-> s, from |-> Max({s.ts, window[1]}), to |-> Min({End(s), window[2]})]
  BY DEF Clip
<1> QED BY <1>2, <1>3, <1>4, <1>5

(* The next boundary is the first one after the cursor, in the window. *)
LEMMA Boundary ==
  ASSUME SweepTypes, spans \subseteq SpanLine, ~ Swept
  PROVE /\ NextBound \in Nat /\ cursor < NextBound /\ NextBound <= window[2]
        /\ \A s \in Inside(window) :
             /\ Clip(s, window).from > cursor => NextBound <= Clip(s, window).from
             /\ Clip(s, window).to > cursor => NextBound <= Clip(s, window).to
<1> DEFINE clips == {Clip(s, window) : s \in Inside(window)}
           ahead == {b \in Bounds : b > cursor}
<1>1. window[1] \in Nat /\ window[2] \in Nat /\ cursor \in Nat
  BY DEF SweepTypes
<1>2. cursor < window[2]
  BY DEF Swept
<1>3. \A b \in Bounds : b \in Nat
  <2>1. \A c \in clips : c.from \in Nat /\ c.to \in Nat
    BY ClipTimes
  <2> QED BY <1>1, <2>1 DEF Bounds
<1>4. window[2] \in ahead
  BY <1>1, <1>2 DEF Bounds
<1>5. \A s \in Inside(window) : Clip(s, window).from \in Bounds /\ Clip(s, window).to \in Bounds
  BY DEF Bounds
<1>6. NextBound = Min(ahead)
  BY DEF NextBound
<1>7. ahead \subseteq Int /\ \A x \in ahead : cursor <= x
  BY <1>1, <1>3
<1>8. \A b \in Bounds : b > cursor => b \in ahead
  OBVIOUS
<1>9. \A b \in ahead : b \in Nat /\ b > cursor
  BY <1>3
<1> HIDE DEF ahead
<1>10. Min(ahead) \in ahead /\ \A y \in ahead : Min(ahead) <= y
  <2>1. ahead # {} /\ cursor \in Int
    BY <1>1, <1>4
  <2> QED BY <2>1, <1>7, MinOf
<1> QED BY <1>4, <1>5, <1>6, <1>8, <1>9, <1>10
----------------------------------------------------------------------------
(* The rows and the remainder are the window. *)

ReportInv == SweepTypes /\ Unswept /\ PhasesReconcile

(* One interval more: what is credited is what the cursor moved by. *)
LEMMA OwnerGrows ==
  ASSUME NEW w \in Nat, NEW e, owner' = owner \o [i \in 1 .. w |-> e], \E S : owner \in Seq(S)
  PROVE /\ \E S : owner' \in Seq(S)
        /\ Len(owner') = Len(owner) + w
        /\ \A i \in 1 .. Len(owner) : owner'[i] = owner[i]
        /\ \A i \in Len(owner) + 1 .. Len(owner) + w : owner'[i] = e
<1>1. PICK S : owner \in Seq(S)
  OBVIOUS
<1> DEFINE R == S \cup {e}
           more == [i \in 1 .. w |-> e]
<1>2. owner \in Seq(R)
  BY <1>1
<1>3. more \in Seq(R) /\ Len(more) = w
  OBVIOUS
<1> HIDE DEF R, more
<1>4. Len(owner) \in Nat
  BY <1>2
<1>5. owner' = owner \o more
  BY DEF more
<1>6. /\ owner' \in Seq(R) /\ Len(owner') = Len(owner) + w
      /\ \A i \in 1 .. Len(owner) + w : owner'[i] = IF i <= Len(owner) THEN owner[i] ELSE more[i - Len(owner)]
  BY <1>2, <1>3, <1>5, ConcatProperties
<1>7. \A i \in 1 .. Len(owner) : owner'[i] = owner[i]
  BY <1>4, <1>6
<1>8. ASSUME NEW i \in Len(owner) + 1 .. Len(owner) + w PROVE owner'[i] = e
  <2>1. i - Len(owner) \in 1 .. w
    BY <1>4
  <2>2. more[i - Len(owner)] = e
    BY <2>1 DEF more
  <2>3. ~ (i <= Len(owner)) /\ i \in 1 .. Len(owner) + w
    BY <1>4
  <2> QED BY <1>6, <2>2, <2>3
<1> QED BY <1>6, <1>7, <1>8

(* An iteration of the loop keeps table, history and clock together. *)
LEMMA StepReconciles ==
  ASSUME ReportInv, SweepOn
  PROVE ReportInv'
<1> DEFINE w == NextBound - cursor
<1>1. /\ stage = "sweep" /\ Step
      /\ UNCHANGED <<lines, stage, instants, samples, metas, bad, procs, report, spans, window>>
  BY DEF SweepOn, Step, reportVars
<1>2. spans \subseteq SpanLine
  BY <1>1, LoadedTimes DEF ReportInv, SweepTypes
<1>3. ~ Swept /\ cursor' = NextBound
  BY <1>1 DEF Step
<1>4. NextBound \in Nat /\ cursor < NextBound /\ w \in Nat
  BY <1>2, <1>3, Boundary DEF ReportInv, SweepTypes
<1>5. SweepTypes
  BY DEF ReportInv
<1>6. /\ TableTotal = cursor - window[1] /\ Len(owner) = cursor - window[1]
      /\ concurrent + unaccounted <= cursor - window[1]
  BY DEF ReportInv, PhasesReconcile
<1>7. /\ Len(owner) \in Nat /\ window[1] \in Nat /\ cursor \in Nat
      /\ concurrent \in Nat /\ unaccounted \in Nat /\ credit \in [Named -> Nat]
  BY <1>5 DEF SweepTypes
<1>8. Working \subseteq Cands
  BY DEF Working
<1>9. \E e : owner' = owner \o [i \in 1 .. w |-> e]
  BY <1>1 DEF Step
<1>10. /\ \E S : owner' \in Seq(S)
       /\ Len(owner') = Len(owner) + w
  <2> HIDE DEF w
  <2> QED BY <1>4, <1>5, <1>9, OwnerGrows DEF SweepTypes
<1>11. Len(owner') = cursor' - window[1]
  <2>1. \A a, b, c \in Nat : (b - a) + (c - b) = c - a
    OBVIOUS
  <2>2. (cursor - window[1]) + (NextBound - cursor) = NextBound - window[1]
    BY <1>4, <1>7, <2>1
  <2> QED BY <1>3, <1>6, <1>10, <2>2
<1>12. /\ credit' \in [Named -> Nat] /\ unaccounted' \in Nat /\ concurrent' \in Nat
       /\ TableTotal' = TableTotal + w
       /\ concurrent' + unaccounted' <= concurrent + unaccounted + w
  <2>1. CASE Cands = {}
    <3>1. unaccounted' = unaccounted + w /\ credit' = credit
      BY <1>1, <2>1 DEF Step
    <3>2. Cardinality(Working) = 0
      BY <1>8, <2>1, FS_EmptySet
    <3>3. concurrent' = concurrent
      BY <1>1, <1>5, <3>2 DEF Step, SweepTypes
    <3>4. Total(credit, unaccounted + w) = Total(credit, unaccounted) + w
      <4> HIDE DEF w
      <4> QED BY <1>4, <1>7, CreditAdds
    <3> HIDE DEF w
    <3>5. TableTotal' = TableTotal + w
      BY <3>1, <3>4, TableSum
    <3> QED BY <1>4, <1>7, <3>1, <3>3, <3>5
  <2>2. CASE Cands # {}
    <3>1. unaccounted' = unaccounted /\ credit' = [credit EXCEPT ![Classify(Best.span)] = @ + w]
      BY <1>1, <2>2 DEF Step
    <3>2. Classify(Best.span) \in Named
      BY ClassifyIsPhase
    <3>3. concurrent' = concurrent + (IF Cardinality(Working) > 1 THEN w ELSE 0)
      BY <1>1 DEF Step
    <3>4. Total(credit', unaccounted) = Total(credit, unaccounted) + w
      <4> HIDE DEF w
      <4> QED BY <1>4, <1>5, <3>1, <3>2, CreditAdds DEF SweepTypes
    <3>5. credit' \in [Named -> Nat]
      <4> HIDE DEF w
      <4> QED BY <1>4, <1>5, <3>1, <3>2 DEF SweepTypes
    <3> HIDE DEF w
    <3>6. concurrent' \in Nat /\ concurrent' <= concurrent + w
      BY <1>4, <1>5, <3>3 DEF SweepTypes
    <3>7. TableTotal' = TableTotal + w
      BY <3>1, <3>4, TableSum
    <3>8. concurrent' + unaccounted' <= concurrent + unaccounted + w
      <4>1. \A c, d, u, n \in Nat : d <= c + n => d + u <= c + u + n
        OBVIOUS
      <4> QED BY <1>4, <1>7, <3>1, <3>6, <4>1
    <3> QED BY <1>7, <3>1, <3>5, <3>6, <3>7, <3>8
  <2> QED BY <2>1, <2>2
<1>13. TableTotal' = cursor' - window'[1] /\ concurrent' + unaccounted' <= cursor' - window'[1]
  <2>1. cursor' = cursor + w /\ window'[1] = window[1]
    BY <1>1, <1>3, <1>4, <1>7
  <2> HIDE DEF w
  <2>2. TableTotal' = (cursor - window[1]) + w
    BY <1>6, <1>12
  <2>3. concurrent' + unaccounted' <= (cursor - window[1]) + w
    <3>1. \A n, m, k \in Int, j \in Nat : n <= m + j /\ m <= k => n <= k + j
      OBVIOUS
    <3>2. concurrent' + unaccounted' \in Int /\ concurrent + unaccounted \in Int /\ cursor - window[1] \in Int
      BY <1>7, <1>12
    <3> QED BY <1>4, <1>6, <1>12, <3>1, <3>2
  <2>4. \A a, b \in Nat, n \in Nat : (b - a) + n = (b + n) - a
    OBVIOUS
  <2>5. (cursor - window[1]) + w = cursor' - window'[1]
    BY <1>4, <1>7, <2>1, <2>4
  <2> QED BY <2>2, <2>3, <2>5
<1>14. Procs' = Procs /\ DOMAIN waiting' = Procs /\ DOMAIN active' = Procs
  BY <1>1 DEF Step, Procs, Now
<1>15. SweepTypes'
  BY <1>1, <1>3, <1>4, <1>5, <1>7, <1>10, <1>12, <1>14 DEF SweepTypes, Loaded
<1>16. Unswept'
  BY <1>1 DEF Unswept
<1> QED BY <1>1, <1>11, <1>13, <1>15, <1>16 DEF ReportInv, PhasesReconcile
(* Loading the lines, and indexing them, credit nothing. *)
LEMMA LoadReconciles ==
  ASSUME ReportInv, Load
  PROVE ReportInv'
<1>1. /\ stage = "load" /\ stage' = "index"
      /\ UNCHANGED <<window, cursor, credit, unaccounted, concurrent, owner, lines>>
      /\ DOMAIN waiting' = {l.pid : l \in spans'} /\ active' = waiting'
  BY DEF Load
<1>2. Loaded'
  BY <1>1 DEF Load, Loaded
<1>3. SweepTypes'
  BY <1>1, <1>2 DEF ReportInv, SweepTypes, Stages, Procs
<1>4. TableTotal' = TableTotal
  BY <1>1, TableSum
<1> QED BY <1>1, <1>3, <1>4 DEF ReportInv, Unswept, PhasesReconcile

LEMMA IndexReconciles ==
  ASSUME ReportInv, Index
  PROVE ReportInv'
<1>1. /\ stage = "index" /\ stage' = "sweep"
      /\ window' = <<T0(procs'), TReady(procs')>> /\ cursor' = window'[1]
      /\ DOMAIN waiting' = Procs /\ active' = active
      /\ UNCHANGED <<lines, instants, metas, spans, credit, unaccounted, concurrent, owner>>
  BY DEF Index, StartSweep
<1>2. lines \in Traces /\ Loaded
  BY <1>1 DEF ReportInv, SweepTypes
<1>3. \E D : procs' = [p \in D |-> Indexed(p)]
  BY DEF Index
<1>4. T0(procs') \in Nat
  BY <1>2, <1>3, T0IsTime
<1>5. TReady(procs') \in Nat
  BY <1>2, <1>4, ReadyIsTime
<1>6. window' \in Nat \X Nat /\ window'[1] \in Nat /\ cursor' \in Nat
  BY <1>1, <1>4, <1>5
<1>7. /\ window = <<0, 0>> /\ cursor = 0 /\ unaccounted = 0 /\ concurrent = 0 /\ owner = <<>>
      /\ TableTotal = cursor - window[1]
  BY <1>1 DEF ReportInv, Unswept, PhasesReconcile
<1>8. TableTotal' = TableTotal
  BY <1>1, TableSum
<1>9. SweepTypes'
  <2>1. Loaded' /\ Procs' = Procs
    BY <1>1, <1>2 DEF Loaded, Procs
  <2> QED BY <1>1, <1>6, <2>1 DEF ReportInv, SweepTypes, Stages
<1>10. Unswept'
  BY <1>1 DEF Unswept
<1>11. PhasesReconcile'
  <2>1. cursor' - window'[1] = 0
    BY <1>1, <1>6
  <2>2. Len(owner') = 0 /\ concurrent' + unaccounted' = 0 /\ TableTotal' = 0
    BY <1>1, <1>7, <1>8
  <2> QED BY <2>1, <2>2 DEF PhasesReconcile
<1> QED BY <1>9, <1>10, <1>11 DEF ReportInv

(* The invariant: types, an untouched table before the sweep, and the sums. *)
THEOREM SweepInvariant == ReportSpec => []ReportInv
<1>1. ReportInit => ReportInv
  <2> SUFFICES ASSUME ReportInit PROVE ReportInv
    OBVIOUS
  <2>1. /\ lines \in Traces /\ spans = {} /\ stage = "load"
        /\ window = <<0, 0>> /\ cursor = 0 /\ credit = [p \in Named |-> 0]
        /\ unaccounted = 0 /\ concurrent = 0 /\ owner = <<>>
        /\ DOMAIN waiting = Procs /\ DOMAIN active = Procs
    BY PhaseTable DEF ReportInit, SweepInit
  <2>2. \E S : owner \in Seq(S)
    <3>1. <<>> \in Seq({})
      OBVIOUS
    <3> QED BY <2>1, <3>1
  <2>3. SweepTypes
    BY <2>1, <2>2 DEF SweepTypes, Stages
  <2>4. Unswept
    BY <2>1 DEF Unswept
  <2>5. Credited(credit) = 0
    BY <2>1 DEF Credited, Four, Named
  <2>6. PhasesReconcile
    BY <2>1, <2>5, TableSum DEF PhasesReconcile, Total
  <2> QED BY <2>3, <2>4, <2>6 DEF ReportInv
<1>2. ReportInv /\ [ReportNext]_vars => ReportInv'
  <2> SUFFICES ASSUME ReportInv, [ReportNext]_vars PROVE ReportInv'
    OBVIOUS
  <2>1. CASE Load
    BY <2>1, LoadReconciles
  <2>2. CASE Index
    BY <2>2, IndexReconciles
  <2>3. CASE SweepOn
    BY <2>3, StepReconciles
  <2>4. CASE Report
    <3>1. /\ UNCHANGED <<spans, window, cursor, waiting, active, credit, unaccounted, concurrent, owner,
                         lines, instants, samples, metas, bad, procs>>
          /\ stage = "sweep" /\ stage' = "done"
      BY <2>4 DEF Report, sweepVars
    <3>2. TableTotal' = TableTotal
      BY <3>1, TableSum
    <3>3. SweepTypes' /\ Unswept'
      BY <3>1 DEF ReportInv, SweepTypes, Unswept, Stages, Loaded, Procs
    <3> QED BY <3>1, <3>2, <3>3 DEF ReportInv, PhasesReconcile
  <2>5. CASE UNCHANGED vars
    <3>1. UNCHANGED <<spans, window, cursor, waiting, active, credit, unaccounted, concurrent, owner,
                      lines, stage, instants, samples, metas, bad, procs, report>>
      BY <2>5 DEF vars, sweepVars, reportVars
    <3>2. TableTotal' = TableTotal
      BY <3>1, TableSum
    <3>3. SweepTypes' /\ Unswept'
      BY <3>1 DEF ReportInv, SweepTypes, Unswept, Loaded, Procs
    <3> QED BY <3>1, <3>2, <3>3 DEF ReportInv, PhasesReconcile
  <2> QED BY <2>1, <2>2, <2>3, <2>4, <2>5 DEF ReportNext
<1> QED BY <1>1, <1>2, PTL DEF ReportSpec

(* The rows of the table and the remainder are the part of the window that
   has been swept, at every boundary and for every trace. *)
THEOREM PhasesAddUp == ReportSpec => []PhasesReconcile
<1>1. ReportInv => PhasesReconcile
  BY DEF ReportInv
<1> QED BY <1>1, SweepInvariant, PTL
----------------------------------------------------------------------------
(* Coverage is what the processes reported. *)

Resolved == Declared # {} \/ \E t \in Target : Reported(t) # {}

(* Once the report is there it says what Coverage says; a run it calls warm
   has no coverage that speaks against the probe of the registry. *)
CoverInv ==
  /\ lines \in Traces /\ IF stage = "load" THEN spans = {} ELSE Loaded
  /\ Reporting =>
       /\ report.coverage = Coverage
       /\ "registry warm" \in report.findings
            => RegistryTarget \notin report.coverage.notApplied \cup report.coverage.never

(* What the report prints as applied, not applied and never imported is what
   the processes said, and a run is called warm only with the probe in place. *)
THEOREM CoverageCorrect == ReportSpec => []CoverageIsTrue
<1>1. ReportInit => CoverInv
  BY DEF ReportInit, CoverInv, Reporting
<1>2. CoverInv /\ [ReportNext]_vars => CoverInv'
  <2> SUFFICES ASSUME CoverInv, [ReportNext]_vars PROVE CoverInv'
    OBVIOUS
  <2>1. CASE Load
    BY <2>1 DEF Load, CoverInv, Reporting, Loaded
  <2>2. CASE Index \/ SweepOn
    BY <2>2 DEF Index, StartSweep, SweepOn, Step, reportVars, CoverInv, Reporting, Loaded
  <2>3. CASE Report
    <3>1. report'.coverage = Coverage /\ report'.findings = Findings(Coverage)
      BY <2>3 DEF Report
    <3>2. Coverage' = Coverage
      BY <2>3 DEF Report, sweepVars, Coverage, LegacyCoverage, Declared, Reported
    <3>3. "registry warm" \in Findings(Coverage) => RegistrySubprocess(Coverage) = 0
      BY DEF Findings
    <3>4. "registry warm" \in Findings(Coverage)
            => RegistryTarget \notin Coverage.notApplied \cup Coverage.never
      <4>1. RegistryTarget \in Coverage.notApplied \cup Coverage.never
              => RegistrySubprocess(Coverage) = -1
        BY Zenon DEF RegistrySubprocess
      <4>2. ~ (0 = -1)
        OBVIOUS
      <4> QED BY <3>3, <4>1, <4>2, Zenon
    <3>5. /\ lines' = lines /\ spans' = spans /\ instants' = instants /\ metas' = metas
          /\ stage = "sweep" /\ stage' = "done"
      BY <2>3 DEF Report, sweepVars
    <3> QED BY <3>1, <3>2, <3>4, <3>5 DEF CoverInv, Loaded
  <2>4. CASE UNCHANGED vars
    <3>1. /\ lines' = lines /\ spans' = spans /\ instants' = instants /\ metas' = metas
          /\ stage' = stage /\ report' = report
      BY <2>4 DEF vars, sweepVars, reportVars
    <3>2. Coverage' = Coverage
      BY <3>1 DEF Coverage, LegacyCoverage, Declared, Reported
    <3> QED BY <3>1, <3>2 DEF CoverInv, Loaded, Reporting
  <2> QED BY <2>1, <2>2, <2>3, <2>4 DEF ReportNext
<1>3. CoverInv => CoverageIsTrue
  <2> SUFFICES ASSUME CoverInv, Reporting, Resolved
               PROVE /\ \A t \in report.coverage.applied :
                          \E i \in instants : i.name = "probe.patch" /\ i.target = t /\ i.status = "ok"
                     /\ \A t \in report.coverage.notApplied : "ok" \notin Reported(t) /\ Reported(t) # {}
                     /\ \A t \in report.coverage.never : Reported(t) = {}
                     /\ Declared \subseteq report.coverage.applied \cup report.coverage.notApplied
                                             \cup report.coverage.never
                     /\ RegistryTarget \in Declared /\ "registry warm" \in report.findings
                          => "ok" \in Reported(RegistryTarget)
    BY DEF CoverageIsTrue, Resolved
  <2> DEFINE seen == {t \in Target : Reported(t) # {}}
             cov == report.coverage
  <2>1. Declared \subseteq Target
    <3>1. Readable(lines) /\ metas = {l \in lines : l.ph = "M"}
      BY TracesAssumption DEF CoverInv, Loaded, Reporting
    <3> QED BY <3>1 DEF Readable, Declared
  <2>2. /\ cov.applied = {t \in seen : "ok" \in Reported(t)}
        /\ cov.notApplied = {t \in seen : "ok" \notin Reported(t)}
        /\ cov.never = Declared \ seen
    <3>1. ~ (Declared = {} /\ seen = {})
      BY DEF Resolved
    <3>2. Coverage = [applied |-> {t \in seen : "ok" \in Reported(t)},
                      notApplied |-> {t \in seen : "ok" \notin Reported(t)},
                      never |-> Declared \ seen, by |-> 0, known |-> TRUE]
      BY <3>1, Zenon DEF Coverage
    <3>3. cov = Coverage
      BY DEF CoverInv
    <3> HIDE DEF seen, cov
    <3> QED BY <3>2, <3>3
  <2>3. \A t \in Target : "ok" \in Reported(t) =>
          \E i \in instants : i.name = "probe.patch" /\ i.target = t /\ i.status = "ok"
    BY DEF Reported
  <2>4. ASSUME RegistryTarget \in Declared, "registry warm" \in report.findings
        PROVE "ok" \in Reported(RegistryTarget)
    <3>1. RegistryTarget \notin cov.notApplied \cup cov.never
      BY <2>4 DEF CoverInv
    <3> HIDE DEF cov
    <3> QED BY <2>2, <2>4, <3>1
  <2> HIDE DEF cov
  <2>5. \A t \in cov.never : Reported(t) = {}
    BY <2>1, <2>2
  <2>6. Declared \subseteq cov.applied \cup cov.notApplied \cup cov.never
    BY <2>1, <2>2
  <2>7. \A t \in cov.applied : t \in Target /\ "ok" \in Reported(t)
    BY <2>2
  <2>8. \A t \in cov.notApplied : "ok" \notin Reported(t) /\ Reported(t) # {}
    BY <2>2
  <2> QED BY <2>3, <2>4, <2>5, <2>6, <2>7, <2>8 DEF cov
<1> QED BY <1>1, <1>2, <1>3, PTL DEF ReportSpec

----------------------------------------------------------------------------
(* Every tick is credited as the docstring says. *)

Clips(p) == {Clip(s, window) : s \in {x \in Inside(window) : x.pid = p}}

(* The lists of a process are its clipped spans, less those that are over. *)
ListsFit ==
  \A p \in Procs :
    /\ stage \in {"load", "index"} => active[p] = {}
    /\ stage = "sweep" =>
         /\ waiting[p] \subseteq Clips(p) /\ active[p] \subseteq Clips(p)
         /\ \A c \in Clips(p) : c \in waiting[p] \/ c \in active[p] \/ c.to <= cursor
         /\ \A c \in active[p] : c.from <= cursor

OwnerInv == ReportInv /\ ListsFit /\ OwnerIsJustified

(* A clip knows its span, its times, and its process. *)
LEMMA ClipsAre ==
  ASSUME SweepTypes, spans \subseteq SpanLine, NEW p \in Procs, NEW c \in Clips(p)
  PROVE /\ c.span \in Inside(window) /\ c.span.pid = p /\ c = Clip(c.span, window)
        /\ c.span \in spans /\ c.span \in SpanLine
        /\ c.from \in Nat /\ c.to \in Nat
<1>1. PICK s \in Inside(window) : s.pid = p /\ c = Clip(s, window)
  BY DEF Clips
<1>2. s \in spans
  BY DEF Inside
<1> QED BY <1>1, <1>2, ClipTimes

(* What a process shows are its clips around the cursor. *)
LEMMA NowIs ==
  ASSUME SweepTypes, ListsFit, stage = "sweep", spans \subseteq SpanLine, NEW p \in Procs
  PROVE Now[p] = {c \in Clips(p) : c.from <= cursor /\ cursor < c.to}
<1>1. Now[p] = {c \in active[p] \cup {x \in waiting[p] : x.from <= cursor} : c.to > cursor}
  BY DEF Now, Admit
<1>2. cursor \in Nat /\ \A c \in Clips(p) : c.from \in Nat /\ c.to \in Nat
  BY ClipsAre DEF SweepTypes
<1>3. /\ waiting[p] \subseteq Clips(p) /\ active[p] \subseteq Clips(p)
      /\ \A c \in Clips(p) : c \in waiting[p] \/ c \in active[p] \/ c.to <= cursor
      /\ \A c \in active[p] : c.from <= cursor
  BY DEF ListsFit
<1>4. ASSUME NEW c \in Clips(p)
      PROVE c \in Now[p] <=> c.from <= cursor /\ cursor < c.to
  <2>1. c.to \in Nat /\ cursor \in Nat
    BY <1>2
  <2>2. c.to > cursor <=> ~ (c.to <= cursor)
    BY <2>1
  <2>3. c.to > cursor <=> cursor < c.to
    BY <2>1
  <2> QED BY <1>1, <1>3, <2>2, <2>3
<1>5. Now[p] \subseteq Clips(p)
  BY <1>1, <1>3
<1> QED BY <1>4, <1>5

(* Up to the next boundary these are the spans that cover a tick. *)
LEMMA CoveringIs ==
  ASSUME SweepTypes, ListsFit, stage = "sweep", spans \subseteq SpanLine, ~ Swept, NEW p \in Procs,
         NEW t \in Nat, cursor < t, t <= NextBound
  PROVE Covering(spans, p, t) = {c.span : c \in Now[p]}
<1>1. /\ NextBound \in Nat /\ NextBound <= window[2]
      /\ \A s \in Inside(window) :
           /\ Clip(s, window).from > cursor => NextBound <= Clip(s, window).from
           /\ Clip(s, window).to > cursor => NextBound <= Clip(s, window).to
  BY Boundary
<1>2. cursor \in Nat /\ window[1] \in Nat /\ window[2] \in Nat /\ window[1] <= cursor
  BY DEF SweepTypes
<1>3. Now[p] = {c \in Clips(p) : c.from <= cursor /\ cursor < c.to}
  BY NowIs
<1>4. ASSUME NEW s \in Covering(spans, p, t)
      PROVE \E c \in Now[p] : s = c.span
  <2>1. s \in spans /\ s.pid = p /\ s.ts < t /\ t <= End(s)
    BY DEF Covering
  <2>2. s.ts \in Nat /\ End(s) \in Nat
    BY <2>1, SpanTimes
  <2>3. End(s) > window[1] /\ s.ts < window[2]
    BY <1>1, <1>2, <2>1, <2>2
  <2>4. s \in Inside(window)
    BY <2>1, <2>3 DEF Inside
  <2> DEFINE c == Clip(s, window)
  <2>5. c \in Clips(p)
    BY <2>1, <2>4 DEF Clips
  <2>6. /\ c.span = s
        /\ c.from = IF s.ts >= window[1] THEN s.ts ELSE window[1]
        /\ c.to = IF End(s) <= window[2] THEN End(s) ELSE window[2]
        /\ c.from \in Nat /\ c.to \in Nat
    BY <2>4, ClipTimes
  <2>7. c.from > cursor => NextBound <= c.from
    BY <1>1, <2>4
  <2> HIDE DEF c
  <2>8. c.from <= cursor
    <3>1. c.from < t
      BY <1>2, <2>1, <2>2, <2>6
    <3> QED BY <1>1, <1>2, <2>6, <2>7, <3>1
  <2>9. cursor < c.to
    BY <1>1, <1>2, <2>1, <2>2, <2>6
  <2> QED BY <1>3, <2>5, <2>6, <2>8, <2>9
<1>5. ASSUME NEW c \in Now[p]
      PROVE c.span \in Covering(spans, p, t)
  <2>1. c \in Clips(p) /\ c.from <= cursor /\ cursor < c.to
    BY <1>3
  <2>2. /\ c.span \in Inside(window) /\ c.span.pid = p /\ c = Clip(c.span, window)
        /\ c.span \in spans /\ c.span \in SpanLine
        /\ c.from \in Nat /\ c.to \in Nat
    BY <2>1, ClipsAre
  <2>3. /\ c.from = IF c.span.ts >= window[1] THEN c.span.ts ELSE window[1]
        /\ c.to = IF End(c.span) <= window[2] THEN End(c.span) ELSE window[2]
    BY <2>2, ClipTimes
  <2>4. c.to > cursor => NextBound <= c.to
    BY <1>1, <2>2
  <2>5. c.span.ts \in Nat /\ End(c.span) \in Nat
    BY <2>2, SpanTimes
  <2>6. c.span.ts < t
    BY <1>2, <2>1, <2>2, <2>3, <2>5
  <2>7. t <= End(c.span)
    <3>1. NextBound <= c.to
      BY <1>2, <2>1, <2>2, <2>4
    <3> QED BY <1>1, <1>2, <2>2, <2>3, <2>5, <3>1
  <2> QED BY <2>2, <2>6, <2>7 DEF Covering
<1> QED BY <1>4, <1>5
(* How specific a span is, is a number. *)
LEMMA SpecificityIs ==
  ASSUME NEW s
  PROVE Specificity(s) \in Nat
BY ClassifyIsPhase, PhaseTable DEF Specificity

(* max() over the spans of a process, by depth and then by phase. *)
LEMMA DeepestIs ==
  ASSUME NEW pool, IsFiniteSet(pool), pool # {}, \A c \in pool : c.span \in SpanLine
  PROVE \E c \in pool : \A d \in pool : ~ Deeper(d, c)
<1> DEFINE R == {z \in pool \X pool : Deeper(z[1], z[2])}
<1>1. \A c \in pool : c.span.depth \in Nat /\ Specificity(c.span) \in Nat
  BY SpanTimes, SpecificityIs
<1>2. \A c, d \in pool : <<c, d>> \in R <=> Deeper(c, d)
  OBVIOUS
<1>3. \A c \in pool : <<c, c>> \notin R
  <2>1. \A c \in pool : ~ Deeper(c, c)
    BY <1>1 DEF Deeper
  <2> HIDE DEF R
  <2> QED BY <1>2, <2>1
<1>4. \A c, d, e \in pool : <<c, d>> \in R /\ <<d, e>> \in R => <<c, e>> \in R
  <2>1. \A c, d, e \in pool : Deeper(c, d) /\ Deeper(d, e) => Deeper(c, e)
    BY <1>1 DEF Deeper
  <2> HIDE DEF R
  <2> QED BY <1>2, <2>1
<1> HIDE DEF R
<1>5. \E c \in pool : \A d \in pool : <<d, c>> \notin R
  BY <1>3, <1>4, Topmost
<1> QED BY <1>2, <1>5

(* So nothing a process could show is deeper than what it does show. *)
LEMMA InnermostIs ==
  ASSUME NEW A, IsFiniteSet(A), A # {}, \A c \in A : c.span \in SpanLine,
         NEW pool, pool = IF {c \in A : ~ IsTransparent(c.span)} = {} THEN A
                          ELSE {c \in A : ~ IsTransparent(c.span)}
  PROVE /\ Innermost(A) \in pool
        /\ \A d \in pool : ~ Deeper(d, Innermost(A))
<1>1. IsFiniteSet(pool) /\ pool # {} /\ pool \subseteq A
  BY FS_Subset
<1>2. \E c \in pool : \A d \in pool : ~ Deeper(d, c)
  BY <1>1, DeepestIs
<1>3. Innermost(A) = CHOOSE c \in pool : \A d \in pool : ~ Deeper(d, c)
  BY DEF Innermost
<1> QED BY <1>2, <1>3

(* And over the processes, by phase and then by depth. *)
LEMMA WinnerIs ==
  ASSUME NEW C, IsFiniteSet(C), C # {}, \A c \in C : c.span \in SpanLine
  PROVE Winner(C) \in C /\ \A d \in C : ~ Outranks(d, Winner(C))
<1> DEFINE R == {z \in C \X C : Outranks(z[1], z[2])}
<1>1. \A c \in C : c.span.depth \in Nat /\ Specificity(c.span) \in Nat
  BY SpanTimes, SpecificityIs
<1>2. \A c, d \in C : <<c, d>> \in R <=> Outranks(c, d)
  OBVIOUS
<1>3. \A c \in C : <<c, c>> \notin R
  <2>1. \A c \in C : ~ Outranks(c, c)
    BY <1>1 DEF Outranks
  <2> HIDE DEF R
  <2> QED BY <1>2, <2>1
<1>4. \A c, d, e \in C : <<c, d>> \in R /\ <<d, e>> \in R => <<c, e>> \in R
  <2>1. \A c, d, e \in C : Outranks(c, d) /\ Outranks(d, e) => Outranks(c, e)
    BY <1>1 DEF Outranks
  <2> HIDE DEF R
  <2> QED BY <1>2, <2>1
<1> HIDE DEF R
<1>5. \E c \in C : \A d \in C : <<d, c>> \notin R
  BY <1>3, <1>4, Topmost
<1>6. \E c \in C : \A d \in C : ~ Outranks(d, c)
  BY <1>2, <1>5
<1> QED BY <1>6 DEF Winner

(* What a process shows is a leaf of its spans, and none is more specific. *)
LEMMA InnermostIsLeaf ==
  ASSUME SweepTypes, ListsFit, stage = "sweep", spans \subseteq SpanLine, IsFiniteSet(spans), ~ Swept,
         NEW p \in Procs, NEW t \in Nat, cursor < t, t <= NextBound
  PROVE /\ Now[p] = {} => Leaves(spans, p, t) = {}
        /\ Now[p] # {} =>
             /\ Innermost(Now[p]) \in Now[p]
             /\ Innermost(Now[p]).span \in Leaves(spans, p, t)
             /\ \A x \in Leaves(spans, p, t) : Specificity(x) <= Specificity(Innermost(Now[p]).span)
<1> DEFINE A == Now[p]
           C == Covering(spans, p, t)
           opaque == {s \in C : ~ IsTransparent(s)}
           pool == IF opaque = {} THEN C ELSE opaque
           clear == {c \in A : ~ IsTransparent(c.span)}
           among == IF clear = {} THEN A ELSE clear
<1>1. C = {c.span : c \in A}
  BY CoveringIs
<1>2. A \subseteq Clips(p)
  BY NowIs
<1>3. \A c \in A : c.span \in SpanLine
  BY <1>2, ClipsAre
<1>4. IsFiniteSet(A)
  <2> DEFINE mine == {x \in Inside(window) : x.pid = p}
             f == [s \in mine |-> Clip(s, window)]
  <2>1. IsFiniteSet(mine)
    <3>1. mine \subseteq spans
      BY DEF Inside
    <3> QED BY <3>1, FS_Subset
  <2>2. Clips(p) = {f[s] : s \in mine}
    BY DEF Clips
  <2>3. DOMAIN f = mine /\ f = [s \in mine |-> f[s]]
    OBVIOUS
  <2> HIDE DEF f, mine
  <2>4. IsFiniteSet(Clips(p))
    BY <2>1, <2>2, <2>3, ImageIsFinite
  <2> QED BY <1>2, <2>4, FS_Subset
<1>5. Leaves(spans, p, t) = {s \in pool : \A x \in pool : x.depth <= s.depth}
  BY DEF Leaves
<1> HIDE DEF A, C
<1>6. opaque = {c.span : c \in clear}
  BY <1>1
<1>7. pool = {c.span : c \in among}
  BY <1>1, <1>6
<1>8. among = {} <=> A = {}
  OBVIOUS
<1>9. ASSUME A = {} PROVE Leaves(spans, p, t) = {}
  BY <1>5, <1>7, <1>8, <1>9
<1>10. ASSUME A # {}
       PROVE /\ Innermost(A) \in A
             /\ Innermost(A).span \in Leaves(spans, p, t)
             /\ \A x \in Leaves(spans, p, t) : Specificity(x) <= Specificity(Innermost(A).span)
  <2> DEFINE best == Innermost(A)
  <2>1. best \in among /\ \A d \in among : ~ Deeper(d, best)
    BY <1>3, <1>4, <1>10, InnermostIs
  <2>2. among \subseteq A
    OBVIOUS
  <2>3. \A c \in among : c.span.depth \in Nat /\ Specificity(c.span) \in Nat
    BY <1>3, <2>2, SpanTimes, SpecificityIs
  <2> HIDE DEF pool, among, best
  <2>4. best.span \in pool
    BY <1>7, <2>1
  <2>5. ASSUME NEW x \in pool PROVE x.depth <= best.span.depth
    <3>1. PICK c \in among : x = c.span
      BY <1>7
    <3>2. ~ (c.span.depth > best.span.depth)
      BY <2>1 DEF Deeper
    <3> QED BY <2>1, <2>3, <3>1, <3>2
  <2>6. best.span \in Leaves(spans, p, t)
    BY <1>5, <2>4, <2>5
  <2>7. ASSUME NEW x \in Leaves(spans, p, t) PROVE Specificity(x) <= Specificity(best.span)
    <3>1. x \in pool /\ best.span.depth <= x.depth /\ x.depth <= best.span.depth
      BY <1>5, <2>4, <2>5
    <3>2. PICK c \in among : x = c.span
      BY <1>7, <3>1
    <3>3. c.span.depth = best.span.depth
      BY <2>1, <2>3, <3>1, <3>2
    <3>4. ~ (Specificity(c.span) > Specificity(best.span))
      BY <2>1, <3>3 DEF Deeper
    <3> QED BY <2>1, <2>3, <3>2, <3>4
  <2> QED BY <2>1, <2>2, <2>6, <2>7 DEF best
<1> QED BY <1>9, <1>10 DEF A
(* No span is the mark of an unaccounted tick. *)
LEMMA NoSpanIsNone ==
  ASSUME NEW s \in SpanLine
  PROVE s # NoSpan
<1>1. DOMAIN s = {"ph", "pid", "ts", "dur", "depth", "name", "cat", "blocking"}
  BY DEF SpanLine
<1>2. DOMAIN NoSpan = {"name"}
  BY DEF NoSpan
<1> QED BY <1>1, <1>2

(* The candidate of a process: what it shows, and of which process it is. *)
LEMMA CandidatesAre ==
  ASSUME SweepTypes, ListsFit, stage = "sweep", spans \subseteq SpanLine, IsFiniteSet(spans), ~ Swept
  PROVE /\ IsFiniteSet(Cands)
        /\ \A c \in Cands : /\ c.span \in spans /\ c.span.pid \in Procs
                            /\ Now[c.span.pid] # {} /\ c = Innermost(Now[c.span.pid])
        /\ \A p \in Procs : Now[p] # {} => Innermost(Now[p]) \in Cands
<1> DEFINE shows == {q \in Procs : Now[q] # {}}
           f == [s \in spans |-> s.pid]
           g == [p \in shows |-> Innermost(Now[p])]
<1>1. Procs = {f[s] : s \in spans}
  BY DEF Procs
<1>2. DOMAIN f = spans /\ f = [s \in spans |-> f[s]]
  OBVIOUS
<1>3. IsFiniteSet(Procs)
  <2> HIDE DEF f
  <2> QED BY <1>1, <1>2, ImageIsFinite
<1>4. IsFiniteSet(shows)
  BY <1>3, FS_Subset
<1>5. Cands = {g[p] : p \in shows}
  BY DEF Cands
<1>6. DOMAIN g = shows /\ g = [p \in shows |-> g[p]]
  OBVIOUS
<1>7. IsFiniteSet(Cands)
  <2> HIDE DEF g, shows
  <2> QED BY <1>4, <1>5, <1>6, ImageIsFinite
<1>8. ASSUME NEW p \in Procs, Now[p] # {}
      PROVE LET c == Innermost(Now[p]) IN c \in Cands /\ c.span \in spans /\ c.span.pid = p
  <2>1. Innermost(Now[p]) \in Now[p]
    <3>1. NextBound \in Nat /\ cursor < NextBound /\ NextBound <= NextBound
      BY Boundary
    <3> QED BY <1>8, <3>1, InnermostIsLeaf
  <2>2. Innermost(Now[p]) \in Clips(p)
    BY <2>1, NowIs
  <2>3. Innermost(Now[p]).span \in spans /\ Innermost(Now[p]).span.pid = p
    BY <2>2, ClipsAre
  <2> QED BY <1>8, <2>3 DEF Cands
<1>9. ASSUME NEW c \in Cands
      PROVE /\ c.span \in spans /\ c.span.pid \in Procs
            /\ Now[c.span.pid] # {} /\ c = Innermost(Now[c.span.pid])
  <2>1. PICK p \in Procs : Now[p] # {} /\ c = Innermost(Now[p])
    BY DEF Cands
  <2> QED BY <1>8, <2>1
<1> QED BY <1>7, <1>8, <1>9

(* The owner of an interval is justified in each of its ticks. *)
LEMMA CreditIsJustified ==
  ASSUME SweepTypes, ListsFit, stage = "sweep", spans \subseteq SpanLine, IsFiniteSet(spans), ~ Swept,
         NEW t \in Nat, cursor < t, t <= NextBound
  PROVE Justified(spans, IF Cands = {} THEN NoSpan ELSE Best.span, t)
<1>1. Pids(spans) = Procs
  BY DEF Pids, Procs
<1>2. ASSUME NEW p \in Procs
      PROVE /\ Now[p] = {} => Leaves(spans, p, t) = {}
            /\ Now[p] # {} =>
                 /\ Innermost(Now[p]).span \in Leaves(spans, p, t)
                 /\ \A x \in Leaves(spans, p, t) : Specificity(x) <= Specificity(Innermost(Now[p]).span)
  BY InnermostIsLeaf
<1>3. /\ IsFiniteSet(Cands)
      /\ \A c \in Cands : /\ c.span \in spans /\ c.span.pid \in Procs
                          /\ Now[c.span.pid] # {} /\ c = Innermost(Now[c.span.pid])
      /\ \A p \in Procs : Now[p] # {} => Innermost(Now[p]) \in Cands
  BY CandidatesAre
<1>4. CASE Cands = {}
  <2>1. \A p \in Procs : Leaves(spans, p, t) = {}
    BY <1>2, <1>3, <1>4
  <2> QED BY <1>1, <1>4, <2>1 DEF Justified
<1>5. CASE Cands # {}
  <2>1. Working \subseteq Cands /\ IsFiniteSet(Working)
    <3>1. Working \subseteq Cands
      BY DEF Working
    <3> QED BY <1>3, <3>1, FS_Subset
  <2>2. \A c \in Cands : c \in Working <=> ~ IsBlocking(c.span)
    BY DEF Working, Blocked
  <2>3. Best \in Cands /\ (Working # {} => Best \in Working /\ \A d \in Working : ~ Outranks(d, Best))
    <3>1. \A c \in Cands : c.span \in SpanLine
      BY <1>3
    <3>2. CASE Working # {}
      <4>1. Best = Winner(Working)
        BY <3>2 DEF Best
      <4>2. Winner(Working) \in Working /\ \A d \in Working : ~ Outranks(d, Winner(Working))
        BY <2>1, <3>1, <3>2, WinnerIs
      <4> QED BY <2>1, <4>1, <4>2
    <3>3. CASE Working = {}
      <4>1. Best = Winner(Cands)
        BY <3>3 DEF Best
      <4>2. Winner(Cands) \in Cands
        BY <1>3, <1>5, <3>1, WinnerIs
      <4> QED BY <3>3, <4>1, <4>2
    <3> QED BY <3>2, <3>3
  <2> DEFINE s == Best.span
  <2>4. s \in spans /\ s.pid \in Procs /\ s \in Leaves(spans, s.pid, t)
    BY <1>2, <1>3, <2>3
  <2>5. s # NoSpan
    BY <2>4, NoSpanIsNone
  <2>6. ASSUME NEW p \in AtWork(spans, t)
        PROVE /\ p \in Procs /\ Innermost(Now[p]) \in Working
              /\ \A x \in Leaves(spans, p, t) : Specificity(x) <= Specificity(Innermost(Now[p]).span)
    <3>1. p \in Procs /\ Leaves(spans, p, t) # {} /\ \A x \in Leaves(spans, p, t) : ~ IsBlocking(x)
      BY <1>1 DEF AtWork
    <3>2. Now[p] # {}
      BY <1>2, <3>1
    <3> QED BY <1>2, <1>3, <2>2, <3>1, <3>2
  <2>7. IsBlocking(s) => AtWork(spans, t) = {}
    BY <2>2, <2>3, <2>6
  <2>8. ASSUME ~ IsBlocking(s), NEW p \in AtWork(spans, t), NEW x \in Leaves(spans, p, t)
        PROVE Specificity(s) >= Specificity(x)
    <3> DEFINE d == Innermost(Now[p])
    <3>1. d \in Working /\ Specificity(x) <= Specificity(d.span)
      BY <2>6
    <3>2. ~ (Specificity(d.span) > Specificity(s))
      BY <2>3, <3>1 DEF Outranks
    <3>3. Specificity(d.span) \in Nat /\ Specificity(s) \in Nat /\ Specificity(x) \in Nat
      BY SpecificityIs
    <3> HIDE DEF d, s
    <3> QED BY <3>1, <3>2, <3>3
  <2>9. ~ \A p \in Pids(spans) : Leaves(spans, p, t) = {}
    BY <1>1, <2>4
  <2>10. Justified(spans, s, t)
    <3> HIDE DEF s
    <3> QED BY <2>4, <2>5, <2>7, <2>8, <2>9 DEF Justified
  <2> QED BY <1>5, <2>10
<1> QED BY <1>4, <1>5
(* The lists after an iteration. *)
LEMMA StepKeepsLists ==
  ASSUME OwnerInv, SweepOn
  PROVE ListsFit'
<1>1. /\ stage = "sweep" /\ Step /\ UNCHANGED <<lines, stage, spans, window>>
  BY DEF SweepOn, Step, reportVars
<1>2. SweepTypes /\ ListsFit
  BY DEF OwnerInv, ReportInv
<1>3. spans \subseteq SpanLine
  BY <1>1, <1>2, LoadedTimes DEF SweepTypes
<1>4. /\ ~ Swept /\ cursor' = NextBound /\ active' = Now
      /\ waiting' = [p \in Procs |-> {x \in waiting[p] : x.from > cursor}]
  BY <1>1 DEF Step
<1>5. NextBound \in Nat /\ cursor < NextBound /\ cursor \in Nat
  BY <1>2, <1>3, <1>4, Boundary DEF SweepTypes
<1>6. Procs' = Procs /\ \A p : Clips(p)' = Clips(p)
  BY <1>1 DEF Procs, Clips, Inside
<1>7. ASSUME NEW p \in Procs
      PROVE /\ waiting'[p] \subseteq Clips(p) /\ active'[p] \subseteq Clips(p)
            /\ \A c \in Clips(p) : c \in waiting'[p] \/ c \in active'[p] \/ c.to <= cursor'
            /\ \A c \in active'[p] : c.from <= cursor'
  <2>1. active'[p] = {c \in Clips(p) : c.from <= cursor /\ cursor < c.to}
    BY <1>1, <1>2, <1>3, <1>4, NowIs
  <2>2. waiting'[p] = {x \in waiting[p] : x.from > cursor}
    BY <1>4
  <2>3. \A c \in Clips(p) : c.from \in Nat /\ c.to \in Nat
    BY <1>2, <1>3, ClipsAre
  <2>4. /\ waiting[p] \subseteq Clips(p)
        /\ \A c \in Clips(p) : c \in waiting[p] \/ c \in active[p] \/ c.to <= cursor
        /\ \A c \in active[p] : c.from <= cursor
    BY <1>1, <1>2 DEF ListsFit
  <2>5. ASSUME NEW c \in Clips(p), c \notin waiting'[p], c \notin active'[p]
        PROVE c.to <= cursor'
    <3>1. c.from <= cursor \/ c.to <= cursor
      BY <1>5, <2>2, <2>3, <2>4, <2>5
    <3>2. c.to <= cursor
      BY <1>5, <2>1, <2>3, <2>5, <3>1
    <3> QED BY <1>4, <1>5, <2>3, <3>2
  <2>6. ASSUME NEW c \in active'[p] PROVE c.from <= cursor'
    <3>1. c \in Clips(p) /\ c.from <= cursor
      BY <2>1
    <3> QED BY <1>4, <1>5, <2>3, <3>1
  <2> QED BY <2>1, <2>2, <2>4, <2>5, <2>6
<1> QED BY <1>1, <1>6, <1>7 DEF ListsFit

(* The ticks of an iteration are justified, and those before it still are. *)
LEMMA StepJustifies ==
  ASSUME OwnerInv, SweepOn
  PROVE OwnerIsJustified'
<1> DEFINE w == NextBound - cursor
           e == IF Cands = {} THEN NoSpan ELSE Best.span
<1>1. /\ stage = "sweep" /\ Step /\ UNCHANGED <<lines, stage, spans, window>>
  BY DEF SweepOn, Step, reportVars
<1>2. SweepTypes /\ ListsFit /\ Len(owner) = cursor - window[1]
  BY DEF OwnerInv, ReportInv, PhasesReconcile
<1>3. spans \subseteq SpanLine /\ IsFiniteSet(spans)
  BY <1>1, <1>2, LoadedTimes DEF SweepTypes
<1>4. ~ Swept
  BY <1>1 DEF Step
<1>5. /\ NextBound \in Nat /\ cursor < NextBound /\ w \in Nat
      /\ cursor \in Nat /\ window[1] \in Nat /\ window[1] <= cursor
  BY <1>2, <1>3, <1>4, Boundary DEF SweepTypes
<1>6. owner' = owner \o [i \in 1 .. w |-> e]
  <2>1. CASE Cands = {}
    BY <1>1, <2>1 DEF Step
  <2>2. CASE Cands # {}
    BY <1>1, <2>2 DEF Step
  <2> QED BY <2>1, <2>2
<1>7. /\ Len(owner') = Len(owner) + w
      /\ \A i \in 1 .. Len(owner) : owner'[i] = owner[i]
      /\ \A i \in Len(owner) + 1 .. Len(owner) + w : owner'[i] = e
  <2> HIDE DEF w, e
  <2> QED BY <1>2, <1>5, <1>6, OwnerGrows DEF SweepTypes
<1>8. ASSUME NEW i \in 1 .. Len(owner) PROVE Justified(spans, owner'[i], window[1] + i)
  BY <1>7 DEF OwnerInv, OwnerIsJustified
<1>9. ASSUME NEW i \in Len(owner) + 1 .. Len(owner) + w
      PROVE Justified(spans, owner'[i], window[1] + i)
  <2> DEFINE t == window[1] + i
  <2>1. t \in Nat /\ cursor < t /\ t <= NextBound
    BY <1>2, <1>5, SMTT(20)
  <2>2. Justified(spans, e, t)
    <3> HIDE DEF t
    <3> QED BY <1>1, <1>2, <1>3, <1>4, <2>1, CreditIsJustified
  <2> HIDE DEF e
  <2> QED BY <1>7, <2>2
<1>10. Len(owner) \in Nat
  BY <1>2, <1>5
<1>11. ASSUME NEW i \in 1 .. Len(owner') PROVE Justified(spans, owner'[i], window[1] + i)
  <2>1. i \in 1 .. Len(owner) \/ i \in Len(owner) + 1 .. Len(owner) + w
    BY <1>5, <1>7, <1>10
  <2> QED BY <1>8, <1>9, <2>1
<1> QED BY <1>1, <1>11 DEF OwnerIsJustified

(* Each tick of the window is credited to the span that the docstring's rule
   demands, for any trace, any number of processes and any window. *)
THEOREM OwnersJustified == ReportSpec => []OwnerIsJustified
<1>1. ReportInit => ListsFit /\ OwnerIsJustified
  <2> SUFFICES ASSUME ReportInit PROVE ListsFit /\ OwnerIsJustified
    OBVIOUS
  <2>1. Procs = {} /\ owner = <<>>
    BY DEF ReportInit, SweepInit, Procs
  <2> QED BY <2>1 DEF ListsFit, OwnerIsJustified
<1>2. ReportInv /\ ListsFit /\ OwnerIsJustified /\ [ReportNext]_vars => (ListsFit /\ OwnerIsJustified)'
  <2> SUFFICES ASSUME ReportInv, ListsFit, OwnerIsJustified, [ReportNext]_vars
               PROVE ListsFit' /\ OwnerIsJustified'
    OBVIOUS
  <2>1. CASE Load
    <3>1. /\ stage = "load" /\ stage' = "index" /\ owner' = owner
          /\ waiting' = [p \in {l.pid : l \in spans'} |-> {}] /\ active' = waiting'
      BY <2>1 DEF Load
    <3>2. owner = <<>>
      BY <3>1 DEF ReportInv, Unswept
    <3>3. OwnerIsJustified'
      BY <3>1, <3>2 DEF OwnerIsJustified
    <3> QED BY <3>1, <3>3 DEF ListsFit, Procs
  <2>2. CASE Index
    <3> DEFINE win == <<T0(procs'), TReady(procs')>>
    <3>1. /\ stage = "index" /\ stage' = "sweep" /\ owner' = owner /\ spans' = spans /\ active' = active
          /\ window' = win
          /\ waiting' = [p \in Procs |-> {Clip(s, win) : s \in {x \in Inside(win) : x.pid = p}}]
      BY <2>2 DEF Index, StartSweep
    <3> HIDE DEF win
    <3>2. owner = <<>>
      BY <3>1 DEF ReportInv, Unswept
    <3>3. OwnerIsJustified'
      BY <3>1, <3>2 DEF OwnerIsJustified
    <3>4. Procs' = Procs /\ \A p \in Procs : waiting'[p] = Clips(p)' /\ active'[p] = {}
      BY <3>1 DEF Procs, Clips, Inside, ListsFit
    <3> QED BY <3>1, <3>3, <3>4 DEF ListsFit
  <2>3. CASE SweepOn
    BY <2>3, StepKeepsLists, StepJustifies DEF OwnerInv
  <2>4. CASE Report
    <3>1. stage' = "done" /\ UNCHANGED <<owner, spans, window>>
      BY <2>4 DEF Report, sweepVars
    <3> QED BY <3>1 DEF ListsFit, OwnerIsJustified
  <2>5. CASE UNCHANGED vars
    <3>1. UNCHANGED <<owner, spans, window, stage, waiting, active, cursor>>
      BY <2>5 DEF vars, sweepVars, reportVars
    <3>2. Procs' = Procs /\ \A p : Clips(p)' = Clips(p)
      BY <3>1 DEF Procs, Clips, Inside
    <3> QED BY <3>1, <3>2 DEF ListsFit, OwnerIsJustified
  <2> QED BY <2>1, <2>2, <2>3, <2>4, <2>5 DEF ReportNext
<1> QED BY <1>1, <1>2, SweepInvariant, PTL DEF ReportSpec
----------------------------------------------------------------------------
(* Loops over a sequence: induction, recurrences and sorting. *)

(* Induction over the natural numbers, as membership in a set. *)
LEMMA SetInduction ==
  ASSUME NEW S, 0 \in S, \A n \in Nat : n \in S => n + 1 \in S
  PROVE Nat \subseteq S
<1> SUFFICES ASSUME NEW m \in Nat, m \notin S PROVE FALSE
  OBVIOUS
<1> DEFINE B == {n \in Nat : n \notin S}
<1>1. PICK n \in B : \A k \in B : n <= k
  <2>1. B \subseteq Nat /\ B # {}
    OBVIOUS
  <2> HIDE DEF B
  <2> QED BY <2>1, LeastNatural
<1>2. n - 1 \in Nat /\ (n - 1) + 1 = n /\ ~ (n <= n - 1)
  BY <1>1
<1>3. n - 1 \in S
  BY <1>1, <1>2
<1> QED BY <1>1, <1>2, <1>3

(* Induction along a loop of n steps. *)
LEMMA LoopInduction ==
  ASSUME NEW n \in Nat, NEW S, 0 \in S, \A i \in 1 .. n : i - 1 \in S => i \in S
  PROVE 0 .. n \subseteq S
<1> DEFINE N == {k \in Nat : k <= n => k \in S}
<1>1. 0 \in N
  OBVIOUS
<1>2. ASSUME NEW k \in Nat, k \in N PROVE k + 1 \in N
  <2>1. k + 1 <= n => k <= n /\ k + 1 \in 1 .. n /\ (k + 1) - 1 = k
    OBVIOUS
  <2> QED BY <1>2, <2>1
<1>3. Nat \subseteq N
  <2> HIDE DEF N
  <2> QED BY <1>1, <1>2, SetInduction
<1>4. ASSUME NEW i \in 0 .. n PROVE i \in S
  <2>1. i \in Nat /\ i <= n
    OBVIOUS
  <2> QED BY <1>3, <2>1
<1> QED BY <1>4

(* The loop that starts with b and computes each element from the one before. *)
IsLoop(f, T, b, n, F) ==
  f \in [0 .. n -> T] /\ f[0] = b /\ \A i \in 1 .. n : f[i] = F[<<f[i - 1], i>>]

LEMMA Recurrence ==
  ASSUME NEW T, NEW b \in T, NEW n \in Nat, NEW F \in [T \X (1 .. n) -> T]
  PROVE \E f : IsLoop(f, T, b, n, F)
<1> USE DEF IsLoop
<1> DEFINE Fits(f, m) == IsLoop(f, T, b, m, F)
           S == {m \in Nat : m <= n => \E f : Fits(f, m)}
<1>1. 0 \in S
  <2>1. Fits([i \in 0 .. 0 |-> b], 0)
    OBVIOUS
  <2> QED BY <2>1
<1>2. ASSUME NEW m \in Nat, m \in S PROVE m + 1 \in S
  <2> SUFFICES ASSUME m + 1 <= n PROVE \E f : Fits(f, m + 1)
    OBVIOUS
  <2>1. PICK f : Fits(f, m)
    BY <1>2
  <2> DEFINE g == [i \in 0 .. m + 1 |-> IF i = m + 1 THEN F[<<f[m], m + 1>>] ELSE f[i]]
  <2>2. f[m] \in T /\ m + 1 \in 1 .. n
    BY <2>1
  <2>3. F[<<f[m], m + 1>>] \in T
    BY <2>2
  <2>4. g \in [0 .. m + 1 -> T]
    BY <2>1, <2>3
  <2>5. g[0] = b
    BY <2>1
  <2>6. ASSUME NEW i \in 1 .. m + 1 PROVE g[i] = F[<<g[i - 1], i>>]
    <3>1. CASE i = m + 1
      <4>1. i - 1 = m /\ m \in 0 .. m + 1 /\ m # m + 1 /\ i \in 0 .. m + 1
        BY <3>1
      <4>2. g[i] = F[<<f[m], m + 1>>] /\ g[i - 1] = f[m]
        BY <3>1, <4>1
      <4> QED BY <3>1, <4>2
    <3>2. CASE i # m + 1
      <4>1. i \in 1 .. m /\ i - 1 \in 0 .. m + 1 /\ i - 1 # m + 1
        BY <3>2
      <4> QED BY <2>1, <4>1
    <3> QED BY <3>1, <3>2
  <2> QED BY <2>4, <2>5, <2>6
<1>3. n \in S
  <2> HIDE DEF S
  <2> QED BY <1>1, <1>2, SetInduction
<1> QED BY <1>3

(* q lists S without repeating, and nothing comes after what R puts behind it. *)
IsSorting(q, S, R) ==
  /\ q \in [1 .. Cardinality(S) -> S]
  /\ \A i, j \in 1 .. Cardinality(S) : i < j => q[i] # q[j] /\ <<q[j], q[i]>> \notin R

Strict(R, S) ==
  /\ \A c \in S : <<c, c>> \notin R
  /\ \A c, d, e \in S : <<c, d>> \in R /\ <<d, e>> \in R => <<c, e>> \in R

(* A finite set can be sorted: something comes first, and then the rest. *)
LEMMA SortingExists ==
  ASSUME NEW S, IsFiniteSet(S), NEW R, Strict(R, S)
  PROVE \E q : IsSorting(q, S, R)
<1> DEFINE N == {n \in Nat : \A U \in SUBSET S : Cardinality(U) = n => \E q : IsSorting(q, U, R)}
<1>1. \A U \in SUBSET S : IsFiniteSet(U) /\ Cardinality(U) \in Nat
  BY FS_Subset, FS_CardinalityType
<1>2. 0 \in N
  <2> SUFFICES ASSUME NEW U \in SUBSET S, Cardinality(U) = 0 PROVE \E q : IsSorting(q, U, R)
    OBVIOUS
  <2>1. IsSorting([i \in 1 .. 0 |-> i], U, R)
    BY DEF IsSorting
  <2> QED BY <2>1
<1>3. ASSUME NEW n \in Nat, n \in N PROVE n + 1 \in N
  <2> SUFFICES ASSUME NEW U \in SUBSET S, Cardinality(U) = n + 1 PROVE \E q : IsSorting(q, U, R)
    OBVIOUS
  <2>1. U # {} /\ IsFiniteSet(U)
    BY <1>1, FS_EmptySet
  <2>2. PICK c \in U : \A d \in U : <<d, c>> \notin R
    BY <2>1, Topmost DEF Strict
  <2>3. Cardinality(U \ {c}) = n
    <3>1. Cardinality(U \ {c}) = Cardinality(U) - 1
      BY <2>1, <2>2, FS_RemoveElement
    <3> QED BY <3>1
  <2>4. PICK p : IsSorting(p, U \ {c}, R)
    BY <1>3, <2>3
  <2> DEFINE q == [i \in 1 .. n + 1 |-> IF i = 1 THEN c ELSE p[i - 1]]
  <2>5. p \in [1 .. n -> U \ {c}]
    BY <2>3, <2>4 DEF IsSorting
  <2>6. q \in [1 .. n + 1 -> U]
    BY <2>5
  <2>7. ASSUME NEW i \in 1 .. n + 1, NEW j \in 1 .. n + 1, i < j PROVE q[i] # q[j] /\ <<q[j], q[i]>> \notin R
    <3>1. j - 1 \in 1 .. n /\ q[j] = p[j - 1] /\ q[j] \in U \ {c}
      BY <2>5, <2>7
    <3>2. CASE i = 1
      BY <2>2, <3>1, <3>2
    <3>3. CASE i # 1
      <4>1. i - 1 \in 1 .. n /\ q[i] = p[i - 1] /\ i - 1 < j - 1
        BY <2>7, <3>3
      <4> QED BY <2>3, <2>4, <3>1, <4>1 DEF IsSorting
    <3> QED BY <3>2, <3>3
  <2> QED BY <2>6, <2>7 DEF IsSorting
<1>4. Cardinality(S) \in N
  <2> HIDE DEF N
  <2> QED BY <1>1, <1>2, <1>3, SetInduction
<1> QED BY <1>4

(* What Sorted() returns, which lists all of S. *)
LEMMA SortedIs ==
  ASSUME NEW S, IsFiniteSet(S), NEW R, Strict(R, S)
  PROVE /\ IsSorting(Sorted(S, R), S, R)
        /\ S = {Sorted(S, R)[i] : i \in 1 .. Cardinality(S)}
<1> DEFINE q == Sorted(S, R)
           n == Cardinality(S)
<1>1. n \in Nat
  BY FS_CardinalityType
<1>2. PICK p : IsSorting(p, S, R)
  BY SortingExists
<1>3. /\ q \in [1 .. n -> S]
      /\ \A i, j \in DOMAIN q : i < j => q[i] # q[j] /\ <<q[j], q[i]>> \notin R
  <2>1. p \in [1 .. n -> S] /\ \A i, j \in DOMAIN p : i < j => p[i] # p[j] /\ <<p[j], p[i]>> \notin R
    BY <1>2 DEF IsSorting
  <2> QED BY <2>1 DEF Sorted
<1>4. IsSorting(q, S, R)
  BY <1>3 DEF IsSorting
<1> HIDE DEF q, n
<1>5. q \in Injection(1 .. n, S)
  <2>1. \A i, j \in 1 .. n : i # j => i < j \/ j < i
    BY <1>1
  <2>2. \A i, j \in 1 .. n : q[i] = q[j] => i = j
    BY <1>3, <2>1
  <2> QED BY <1>3, <2>2 DEF Injection, IsInjective
<1>6. Cardinality(1 .. n) = Cardinality(S)
  BY <1>1, FS_Interval DEF n
<1>7. q \in Surjection(1 .. n, S)
  BY <1>5, <1>6, FS_Injection
<1>8. S = {q[i] : i \in 1 .. n}
  BY <1>3, <1>7 DEF Surjection
<1> QED BY <1>4, <1>8 DEF q, n

----------------------------------------------------------------------------
(* The length of a union of intervals. *)

Interval == {x \in Nat \X Nat : x[1] <= x[2]}
Upto(ivs, i) == UNION {Cells(ivs[j][1], ivs[j][2]) : j \in 1 .. i}

(* One more interval, from a to b, when U ends at e and has what is between
   a and e: it adds what it has behind e. *)
Grows(U, e, a, b) ==
  LET V == U \cup Cells(a, b) IN
    /\ IsFiniteSet(V)
    /\ b <= e => V = U
    /\ b > e => /\ Cardinality(V) = Cardinality(U) + (b - Max({a, e}))
                /\ \A c \in V : c \in Int /\ c <= b

LEMMA OneMore ==
  ASSUME NEW U, IsFiniteSet(U), NEW e \in Nat, \A c \in U : c \in Int /\ c <= e,
         NEW a \in Nat, NEW b \in Nat, a <= b, Cells(a, e) \subseteq U
  PROVE Grows(U, e, a, b)
<1> DEFINE V == U \cup Cells(a, b)
           from == Max({a, e})
           W == (from + 1) .. b
<1>1. from = IF a >= e THEN a ELSE e
  BY TwoOf
<1> HIDE DEF from
<1>2. from \in Nat
  BY <1>1
<1>3. IsFiniteSet(Cells(a, b))
  BY FS_Interval DEF Cells
<1>4. IsFiniteSet(V)
  BY <1>3, FS_Union
<1>5. ASSUME b <= e PROVE V = U
  <2>1. Cells(a, b) \subseteq Cells(a, e)
    BY <1>5 DEF Cells
  <2> QED BY <2>1
<1>6. ASSUME b > e PROVE Cardinality(V) = Cardinality(U) + (b - from)
  <2>1. V = U \cup W
    <3>1. ASSUME NEW c \in Cells(a, b), c \notin W PROVE c \in U
      <4>1. c \in Int /\ a + 1 <= c /\ c <= b /\ ~ (from + 1 <= c)
        BY <1>2, <3>1 DEF Cells
      <4>2. c \in Cells(a, e)
        BY <1>1, <4>1 DEF Cells
      <4> QED BY <4>2
    <3>2. W \subseteq Cells(a, b)
      BY <1>1 DEF Cells
    <3> QED BY <3>1, <3>2
  <2>2. U \cap W = {}
    <3>1. \A c \in W : c > e
      BY <1>1
    <3> QED BY <3>1
  <2>3. IsFiniteSet(W) /\ Cardinality(W) = b - from
    <3>1. IsFiniteSet(W) /\ Cardinality(W) = IF from + 1 > b THEN 0 ELSE b - (from + 1) + 1
      BY <1>2, FS_Interval
    <3>2. from <= b
      BY <1>1, <1>6
    <3> QED BY <1>2, <3>1, <3>2
  <2> HIDE DEF V, W
  <2>4. Cardinality(V) = Cardinality(U) + Cardinality(W) - Cardinality(U \cap W)
    BY <2>1, <2>3, FS_Union
  <2>5. Cardinality(U \cap W) = 0 /\ Cardinality(U) \in Nat
    BY <2>2, FS_EmptySet, FS_CardinalityType
  <2> QED BY <1>2, <2>3, <2>4, <2>5
<1>7. ASSUME b > e PROVE \A c \in V : c \in Int /\ c <= b
  BY <1>7 DEF Cells
<1> QED BY <1>4, <1>5, <1>6, <1>7 DEF from, Grows

Run == [len : Int, start : Nat, end : Nat]

(* The loop of union_len(), one interval after the other. *)
LEMMA RunsAre ==
  ASSUME NEW n \in Nat, n # 0, NEW ivs \in [1 .. n -> Nat \X Nat]
  PROVE /\ Runs(ivs) \in [1 .. n -> Run]
        /\ Runs(ivs)[1] = [len |-> 0, start |-> ivs[1][1], end |-> ivs[1][2]]
        /\ \A i \in 2 .. n : Runs(ivs)[i] = Merge(Runs(ivs)[i - 1], ivs[i])
<1> DEFINE b == [len |-> 0, start |-> ivs[1][1], end |-> ivs[1][2]]
           F == [z \in Run \X (1 .. n - 1) |-> Merge(z[1], ivs[z[2] + 1])]
           Runs1(r) == [i \in DOMAIN ivs |-> IF i = 1 THEN b ELSE Merge(r[i - 1], ivs[i])]
<1>1. 1 \in 1 .. n /\ n - 1 \in Nat /\ b \in Run
  BY DEF Run
<1>2. ASSUME NEW acc \in Run, NEW x \in Nat \X Nat PROVE Merge(acc, x) \in Run
  <2>1. acc.len \in Int /\ acc.start \in Nat /\ acc.end \in Nat /\ x[1] \in Nat /\ x[2] \in Nat
    BY DEF Run
  <2>2. \A p, q \in Nat : Max({p, q}) \in Nat
    BY TwoOf
  <2> QED BY <2>1, <2>2 DEF Merge, Run
<1>3. F \in [Run \X (1 .. n - 1) -> Run]
  <2>1. ASSUME NEW z \in Run \X (1 .. n - 1) PROVE Merge(z[1], ivs[z[2] + 1]) \in Run
    <3>1. z[1] \in Run /\ z[2] + 1 \in 1 .. n
      OBVIOUS
    <3> QED BY <1>2, <3>1
  <2> QED BY <2>1
<1> HIDE DEF b
<1>4. PICK f : IsLoop(f, Run, b, n - 1, F)
  <2> HIDE DEF F
  <2> QED BY <1>1, <1>3, Recurrence
<1> DEFINE h == [i \in 1 .. n |-> f[i - 1]]
<1>5. h = Runs1(h)
  <2>1. ASSUME NEW i \in 1 .. n PROVE h[i] = IF i = 1 THEN b ELSE Merge(h[i - 1], ivs[i])
    <3>1. CASE i = 1
      BY <1>4, <3>1 DEF IsLoop
    <3>2. CASE i # 1
      <4>1. i - 1 \in 1 .. n - 1 /\ i - 1 \in 1 .. n /\ (i - 1) + 1 = i /\ (i - 1) - 1 \in 0 .. n - 1
        BY <3>2
      <4>2. h[i] = f[i - 1] /\ h[i - 1] = f[(i - 1) - 1] /\ f[(i - 1) - 1] \in Run
        BY <1>4, <4>1 DEF IsLoop
      <4>3. f[i - 1] = Merge(f[(i - 1) - 1], ivs[i])
        BY <1>4, <4>1, <4>2 DEF IsLoop
      <4> QED BY <3>2, <4>2, <4>3
    <3> QED BY <3>1, <3>2
  <2> QED BY <2>1
<1> HIDE DEF h
<1>6. Runs(ivs) = Runs1(Runs(ivs))
  BY <1>5 DEF Runs, b
<1>7. Runs(ivs)[1] = b
  BY <1>1, <1>6
<1>8. \A i \in 2 .. n : Runs(ivs)[i] = Merge(Runs(ivs)[i - 1], ivs[i])
  <2>1. \A i \in 2 .. n : i \in 1 .. n /\ i # 1
    BY <1>1
  <2> QED BY <1>6, <2>1
<1>9. \A i \in 1 .. n : Runs(ivs)[i] \in Run
  <2> DEFINE S == {k \in Nat : k + 1 \in 1 .. n => Runs(ivs)[k + 1] \in Run}
  <2>1. 0 \in S
    BY <1>1, <1>7 DEF b
  <2>2. ASSUME NEW k \in Nat, k \in S PROVE k + 1 \in S
    <3> SUFFICES ASSUME (k + 1) + 1 \in 1 .. n PROVE Runs(ivs)[(k + 1) + 1] \in Run
      OBVIOUS
    <3>1. (k + 1) + 1 \in 2 .. n /\ k + 1 \in 1 .. n /\ ((k + 1) + 1) - 1 = k + 1
      OBVIOUS
    <3>2. Runs(ivs)[k + 1] \in Run
      BY <2>2, <3>1
    <3>3. Runs(ivs)[(k + 1) + 1] = Merge(Runs(ivs)[k + 1], ivs[(k + 1) + 1])
      BY <1>8, <3>1
    <3> QED BY <1>2, <3>1, <3>2, <3>3
  <2>3. Nat \subseteq S
    <3> HIDE DEF S
    <3> QED BY <2>1, <2>2, SetInduction
  <2>4. ASSUME NEW i \in 1 .. n PROVE Runs(ivs)[i] \in Run
    <3>1. i - 1 \in Nat /\ (i - 1) + 1 = i
      OBVIOUS
    <3>2. i - 1 \in S
      BY <2>3, <3>1
    <3> QED BY <3>1, <3>2
  <2> QED BY <2>4
<1>10. DOMAIN Runs(ivs) = 1 .. n /\ Runs(ivs) = [i \in 1 .. n |-> Runs(ivs)[i]]
  BY <1>6
<1>11. Runs(ivs) \in [1 .. n -> Run]
  BY <1>9, <1>10
<1> QED BY <1>7, <1>8, <1>11 DEF b

Ordered(ivs, n) ==
  /\ ivs \in [1 .. n -> Nat \X Nat]
  /\ \A i \in 1 .. n : ivs[i][1] <= ivs[i][2]
  /\ \A i, j \in 1 .. n : i < j => ivs[i][1] <= ivs[j][1]

(* What the first i intervals cover ends at e, where one of them does, or at
   the beginning. *)
Covers(ivs, i, e, from) ==
  /\ IsFiniteSet(Upto(ivs, i))
  /\ \A c \in Upto(ivs, i) : c \in Int /\ c <= e
  /\ e = from \/ \E j \in 1 .. i : ivs[j][2] = e

(* The step from one interval to the next, of both loops over intervals. *)
LEMMA NextInterval ==
  ASSUME NEW n \in Nat, NEW ivs, Ordered(ivs, n), NEW i \in Nat, i + 1 \in 1 .. n,
         NEW e \in Nat, NEW from \in Nat, Covers(ivs, i, e, from), from <= ivs[i + 1][1]
  PROVE LET a == ivs[i + 1][1]
            b == ivs[i + 1][2]
        IN /\ b <= e => Upto(ivs, i + 1) = Upto(ivs, i)
           /\ b > e => Cardinality(Upto(ivs, i + 1)) = Cardinality(Upto(ivs, i)) + (b - Max({a, e}))
           /\ Covers(ivs, i + 1, IF b <= e THEN e ELSE b, from)
<1> DEFINE U == Upto(ivs, i)
           V == Upto(ivs, i + 1)
           a == ivs[i + 1][1]
           b == ivs[i + 1][2]
<1>1. a \in Nat /\ b \in Nat /\ a <= b
  BY DEF Ordered
<1>2. V = U \cup Cells(a, b)
  <2>1. 1 .. i + 1 = (1 .. i) \cup {i + 1}
    OBVIOUS
  <2> QED BY <2>1 DEF Upto
<1>3. IsFiniteSet(U) /\ \A c \in U : c \in Int /\ c <= e
  BY DEF Covers
<1>4. Cells(a, e) \subseteq U
  <2>1. CASE e = from
    BY <1>1, <2>1 DEF Cells
  <2>2. CASE \E j \in 1 .. i : ivs[j][2] = e
    <3>1. PICK j \in 1 .. i : ivs[j][2] = e
      BY <2>2
    <3>2. j \in 1 .. n /\ j < i + 1
      OBVIOUS
    <3>3. ivs[j][1] \in Nat /\ ivs[j][1] <= a
      BY <3>2 DEF Ordered
    <3>4. Cells(a, e) \subseteq Cells(ivs[j][1], ivs[j][2])
      BY <1>1, <3>1, <3>3 DEF Cells
    <3> QED BY <3>4 DEF Upto
  <2> QED BY <2>1, <2>2 DEF Covers
<1> HIDE DEF U, V, a, b
<1>5. /\ IsFiniteSet(V)
      /\ b <= e => V = U
      /\ b > e => /\ Cardinality(V) = Cardinality(U) + (b - Max({a, e}))
                  /\ \A c \in V : c \in Int /\ c <= b
  <2>1. Grows(U, e, a, b)
    BY <1>1, <1>3, <1>4, OneMore
  <2> QED BY <1>2, <2>1 DEF Grows
<1>6. Covers(ivs, i + 1, IF b <= e THEN e ELSE b, from)
  <2>1. CASE b <= e
    <3>1. e = from \/ \E j \in 1 .. i + 1 : ivs[j][2] = e
      BY DEF Covers
    <3> QED BY <1>3, <1>5, <2>1, <3>1 DEF Covers, U, V
  <2>2. CASE ~ (b <= e)
    <3>1. b > e
      BY <1>1, <2>2
    <3> QED BY <1>5, <2>2, <3>1 DEF Covers, V, b
  <2> QED BY <2>1, <2>2
<1> QED BY <1>5, <1>6 DEF U, V, a, b

(* What is closed and what is open have the length of the union so far. *)
Measured(ivs, i) ==
  LET r == Runs(ivs)[i] IN
    /\ Covers(ivs, i, r.end, ivs[1][1])
    /\ Cardinality(Upto(ivs, i)) = r.len + (r.end - r.start)
    /\ r.start <= r.end /\ r.start <= ivs[i][1]

LEMMA RunsMeasure ==
  ASSUME NEW n \in Nat, n # 0, NEW ivs, Ordered(ivs, n)
  PROVE \A i \in 1 .. n : Measured(ivs, i)
<1> DEFINE S == {k \in Nat : k + 1 \in 1 .. n => Measured(ivs, k + 1)}
<1>1. /\ Runs(ivs) \in [1 .. n -> Run]
      /\ Runs(ivs)[1] = [len |-> 0, start |-> ivs[1][1], end |-> ivs[1][2]]
      /\ \A i \in 2 .. n : Runs(ivs)[i] = Merge(Runs(ivs)[i - 1], ivs[i])
  BY RunsAre DEF Ordered
<1>2. \A i \in 1 .. n : ivs[i][1] \in Nat /\ ivs[i][2] \in Nat /\ ivs[i][1] <= ivs[i][2]
  BY DEF Ordered
<1>3. Measured(ivs, 1)
  <2>1. 1 \in 1 .. n /\ 1 .. 1 = {1}
    OBVIOUS
  <2>2. Upto(ivs, 1) = Cells(ivs[1][1], ivs[1][2])
    BY <2>1 DEF Upto
  <2> DEFINE a == ivs[1][1]
             b == ivs[1][2]
  <2>3. a \in Nat /\ b \in Nat /\ a <= b
    BY <1>2, <2>1
  <2> HIDE DEF a, b
  <2>4. IsFiniteSet(Cells(a, b)) /\ Cardinality(Cells(a, b)) = b - a
    <3>1. IsFiniteSet(Cells(a, b)) /\ Cardinality(Cells(a, b)) = IF a + 1 > b THEN 0 ELSE b - (a + 1) + 1
      BY <2>3, FS_Interval DEF Cells
    <3> QED BY <2>3, <3>1
  <2>5. \A c \in Cells(a, b) : c \in Int /\ c <= b
    BY <2>3 DEF Cells
  <2>6. Covers(ivs, 1, b, a)
    BY <2>1, <2>2, <2>4, <2>5 DEF Covers, a, b
  <2>7. Cardinality(Upto(ivs, 1)) = 0 + (b - a)
    BY <2>2, <2>3, <2>4 DEF a, b
  <2> QED BY <1>1, <2>3, <2>6, <2>7 DEF Measured, a, b
<1>4. ASSUME NEW k \in Nat, k \in S PROVE k + 1 \in S
  <2> DEFINE i == k + 1
  <2> SUFFICES ASSUME i + 1 \in 1 .. n PROVE Measured(ivs, i + 1)
    OBVIOUS
  <2>1. i \in 1 .. n /\ i \in Nat /\ i + 1 \in 2 .. n /\ (i + 1) - 1 = i /\ 1 \in 1 .. n
    OBVIOUS
  <2>2. Measured(ivs, i)
    BY <1>4, <2>1
  <2> HIDE DEF i
  <2> DEFINE r == Runs(ivs)[i]
             a == ivs[i + 1][1]
             b == ivs[i + 1][2]
             t == Runs(ivs)[i + 1]
  <2>3. t = Merge(r, ivs[i + 1])
    BY <1>1, <2>1
  <2>4. r \in Run
    BY <1>1, <2>1
  <2>5. r.len \in Int /\ r.start \in Nat /\ r.end \in Nat
    BY <2>4 DEF Run
  <2>6. a \in Nat /\ b \in Nat /\ a <= b /\ ivs[i][1] \in Nat /\ ivs[i][1] <= a /\ ivs[1][1] \in Nat
    BY <1>2, <2>1 DEF Ordered
  <2>7. ivs[1][1] <= a
    BY <2>1 DEF Ordered
  <2>8. /\ Covers(ivs, i, r.end, ivs[1][1])
        /\ Cardinality(Upto(ivs, i)) = r.len + (r.end - r.start)
        /\ r.start <= r.end /\ r.start <= ivs[i][1]
    BY <2>2 DEF Measured
  <2> HIDE DEF r
  <2>9. /\ b <= r.end => Upto(ivs, i + 1) = Upto(ivs, i)
        /\ b > r.end => Cardinality(Upto(ivs, i + 1)) = Cardinality(Upto(ivs, i)) + (b - Max({a, r.end}))
        /\ Covers(ivs, i + 1, IF b <= r.end THEN r.end ELSE b, ivs[1][1])
    BY <2>1, <2>5, <2>6, <2>7, <2>8, NextInterval
  <2>10. Max({a, r.end}) = (IF a >= r.end THEN a ELSE r.end) /\ Max({r.end, b}) = (IF r.end >= b THEN r.end ELSE b)
    BY <2>5, <2>6, TwoOf
  <2>11. CASE a > r.end
    <3>1. t = [len |-> r.len + (r.end - r.start), start |-> a, end |-> b]
      BY <2>3, <2>11 DEF Merge
    <3>2. ~ (b <= r.end) /\ b > r.end /\ Max({a, r.end}) = a
      BY <2>5, <2>6, <2>10, <2>11
    <3> HIDE DEF t, a, b
    <3>3. t.len = r.len + (r.end - r.start) /\ t.start = a /\ t.end = b
      BY <3>1
    <3>4. Cardinality(Upto(ivs, i + 1)) = t.len + (t.end - t.start)
      BY <2>8, <2>9, <3>2, <3>3
    <3> QED BY <2>6, <2>9, <3>2, <3>3, <3>4 DEF Measured, t, a
  <2>12. CASE ~ (a > r.end)
    <3>1. t = [r EXCEPT !.end = Max({r.end, b})]
      BY <2>3, <2>12 DEF Merge
    <3> HIDE DEF t, a, b
    <3>2. t.len = r.len /\ t.start = r.start /\ t.end = Max({r.end, b})
      BY <2>4, <3>1 DEF Run
    <3>3. t.end = IF b <= r.end THEN r.end ELSE b
      BY <2>5, <2>6, <2>10, <3>2
    <3>4. Cardinality(Upto(ivs, i + 1)) = t.len + (t.end - t.start)
      <4>1. CASE b <= r.end
        BY <2>8, <2>9, <3>2, <3>3, <4>1
      <4>2. CASE ~ (b <= r.end)
        <5>1. b > r.end /\ Max({a, r.end}) = r.end /\ t.end = b
          BY <2>5, <2>6, <2>10, <2>12, <3>3, <4>2
        <5>2. Cardinality(Upto(ivs, i + 1)) = (r.len + (r.end - r.start)) + (b - r.end)
          BY <2>8, <2>9, <5>1
        <5> QED BY <2>5, <2>6, <3>2, <5>1, <5>2
      <4> QED BY <4>1, <4>2
    <3>5. t.start <= t.end /\ t.start <= a
      BY <2>5, <2>6, <2>8, <3>2, <3>3
    <3> QED BY <2>9, <3>3, <3>4, <3>5 DEF Measured, t, a
  <2> QED BY <2>11, <2>12
<1>5. Nat \subseteq S
  <2>1. 0 \in S
    BY <1>3
  <2> HIDE DEF S
  <2> QED BY <2>1, <1>4, SetInduction
<1>6. ASSUME NEW i \in 1 .. n PROVE Measured(ivs, i)
  <2>1. i - 1 \in Nat /\ (i - 1) + 1 = i
    OBVIOUS
  <2>2. i - 1 \in S
    BY <1>5, <2>1
  <2> QED BY <2>1, <2>2
<1> QED BY <1>6

(* Intervals by their start: in order, and all of them. *)
LEMMA ByStartIs ==
  ASSUME NEW I, IsFiniteSet(I), I \subseteq Interval
  PROVE /\ Ordered(ByStart(I), Cardinality(I))
        /\ I = {ByStart(I)[i] : i \in 1 .. Cardinality(I)}
<1> DEFINE R == {z \in I \X I : Before(z[1], z[2])}
           q == ByStart(I)
           n == Cardinality(I)
<1>1. \A x \in I : x \in Nat \X Nat /\ x[1] \in Nat /\ x[2] \in Nat /\ x[1] <= x[2]
  BY DEF Interval
<1>2. \A x, y \in I : <<x, y>> \in R <=> Before(x, y)
  OBVIOUS
<1>3. q = Sorted(I, R)
  BY DEF ByStart
<1> HIDE DEF R
<1>4. Strict(R, I)
  <2>1. \A c \in I : ~ Before(c, c)
    BY <1>1 DEF Before
  <2>2. \A c, d, e \in I : Before(c, d) /\ Before(d, e) => Before(c, e)
    BY <1>1 DEF Before
  <2> QED BY <1>2, <2>1, <2>2 DEF Strict
<1> HIDE DEF q
<1>5. IsSorting(q, I, R) /\ I = {q[i] : i \in 1 .. n}
  BY <1>3, <1>4, SortedIs
<1>6. Ordered(q, n)
  <2>1. q \in [1 .. n -> I] /\ q \in [1 .. n -> Nat \X Nat]
    BY <1>1, <1>5 DEF IsSorting
  <2>2. \A i \in 1 .. n : q[i][1] <= q[i][2]
    BY <1>1, <2>1
  <2>3. ASSUME NEW i \in 1 .. n, NEW j \in 1 .. n, i < j PROVE q[i][1] <= q[j][1]
    <3>1. q[i] \in I /\ q[j] \in I /\ <<q[j], q[i]>> \notin R
      BY <1>5, <2>1, <2>3 DEF IsSorting
    <3>2. ~ (q[j][1] < q[i][1])
      BY <1>2, <3>1 DEF Before
    <3> QED BY <1>1, <3>1, <3>2
  <2> QED BY <2>1, <2>2, <2>3 DEF Ordered
<1> QED BY <1>5, <1>6 DEF q

(* The intervals of a set of spans. *)
LEMMA IntervalsAre ==
  ASSUME NEW S, IsFiniteSet(S), S \subseteq SpanLine
  PROVE /\ IsFiniteSet(IntervalsOf(S)) /\ IntervalsOf(S) \subseteq Interval
        /\ UNION {Cells(x[1], x[2]) : x \in IntervalsOf(S)} = UNION {Cells(s.ts, End(s)) : s \in S}
<1>1. IsFiniteSet(IntervalsOf(S))
  <2> DEFINE f == [s \in S |-> <<s.ts, End(s)>>]
  <2>1. IsFiniteSet({f[s] : s \in S})
    BY ImageIsFinite
  <2>2. {f[s] : s \in S} = IntervalsOf(S)
    BY DEF IntervalsOf
  <2> QED BY <2>1, <2>2
<1>2. ASSUME NEW x \in IntervalsOf(S) PROVE x \in Interval
  <2>1. PICK s \in S : x = <<s.ts, End(s)>>
    BY DEF IntervalsOf
  <2>2. s.ts \in Nat /\ End(s) \in Nat /\ s.ts <= End(s)
    BY SpanTimes
  <2> QED BY <2>1, <2>2 DEF Interval
<1>3. \A s \in S : <<s.ts, End(s)>> \in IntervalsOf(S)
  BY DEF IntervalsOf
<1>4. \A x \in IntervalsOf(S) : \E s \in S : x[1] = s.ts /\ x[2] = End(s)
  BY DEF IntervalsOf
<1>5. UNION {Cells(x[1], x[2]) : x \in IntervalsOf(S)} = UNION {Cells(s.ts, End(s)) : s \in S}
  <2>1. ASSUME NEW x \in IntervalsOf(S) PROVE \E s \in S : Cells(x[1], x[2]) = Cells(s.ts, End(s))
    BY <1>4
  <2>2. ASSUME NEW s \in S PROVE \E x \in IntervalsOf(S) : Cells(x[1], x[2]) = Cells(s.ts, End(s))
    <3>1. <<s.ts, End(s)>>[1] = s.ts /\ <<s.ts, End(s)>>[2] = End(s)
      OBVIOUS
    <3> QED BY <1>3, <3>1
  <2> QED BY <2>1, <2>2
<1> QED BY <1>1, <1>2, <1>5

(* union_len() is the number of ticks that some interval covers. *)
LEMMA UnionLenIs ==
  ASSUME NEW I, IsFiniteSet(I), I \subseteq Interval
  PROVE UnionLen(I) = Cardinality(UNION {Cells(x[1], x[2]) : x \in I})
<1> DEFINE q == ByStart(I)
           n == Cardinality(I)
<1>1. CASE I = {}
  <2>1. UNION {Cells(x[1], x[2]) : x \in I} = {}
    BY <1>1
  <2> QED BY <1>1, <2>1, FS_EmptySet DEF UnionLen
<1>2. CASE I # {}
  <2>1. n \in Nat /\ n # 0
    BY <1>2, FS_CardinalityType, FS_EmptySet
  <2>2. Ordered(q, n) /\ I = {q[i] : i \in 1 .. n}
    BY ByStartIs
  <2>3. Upto(q, n) = UNION {Cells(x[1], x[2]) : x \in I}
    BY <2>2 DEF Upto
  <2> HIDE DEF q, n
  <2>4. Measured(q, n)
    BY <2>1, <2>2, RunsMeasure
  <2>5. Cardinality(Upto(q, n)) = Runs(q)[n].len + (Runs(q)[n].end - Runs(q)[n].start)
    BY <2>4 DEF Measured
  <2> QED BY <1>2, <2>3, <2>5 DEF UnionLen, q, n
<1> QED BY <1>1, <1>2

(* The wall time of a category, of any spans. *)
LEMMA WallIs ==
  ASSUME NEW S, IsFiniteSet(S), S \subseteq SpanLine, NEW c
  PROVE Aggregate(S, c).wall = Cardinality(UNION {Cells(s.ts, End(s)) : s \in {x \in S : x.cat = c}})
<1> DEFINE sel == {x \in S : x.cat = c}
<1>1. IsFiniteSet(sel) /\ sel \subseteq SpanLine
  BY FS_Subset
<1>2. Aggregate(S, c).wall = UnionLen(IntervalsOf(sel))
  BY DEF Aggregate
<1> HIDE DEF sel
<1>3. /\ IsFiniteSet(IntervalsOf(sel)) /\ IntervalsOf(sel) \subseteq Interval
      /\ UNION {Cells(x[1], x[2]) : x \in IntervalsOf(sel)} = UNION {Cells(s.ts, End(s)) : s \in sel}
  BY <1>1, IntervalsAre
<1>4. UnionLen(IntervalsOf(sel)) = Cardinality(UNION {Cells(x[1], x[2]) : x \in IntervalsOf(sel)})
  BY <1>3, UnionLenIs
<1> QED BY <1>2, <1>3, <1>4 DEF sel

----------------------------------------------------------------------------
(* Counters. *)

Growing(in) == \A c \in in : /\ c.ts \in Nat /\ c.val \in Nat
                             /\ \A d \in in : c.ts < d.ts => c.val <= d.val

(* Of the samples of a counter that only grows, the last shows the most and
   the first the least. *)
LEMMA ExtremesAre ==
  ASSUME NEW in, IsFiniteSet(in), in # {}, Growing(in)
  PROVE /\ LastSample(in) \in in /\ FirstSample(in) \in in
        /\ Max({c.val : c \in in}) = LastSample(in).val
        /\ Min({c.val : c \in in}) = FirstSample(in).val
<1> DEFINE R == {z \in in \X in : Later(z[1], z[2])}
           Q == {z \in in \X in : Later(z[2], z[1])}
           vals == {c.val : c \in in}
<1>1. \A c \in in : c.ts \in Nat /\ c.val \in Nat
  BY DEF Growing
<1>2. \A c, d \in in : (<<c, d>> \in R <=> Later(c, d)) /\ (<<c, d>> \in Q <=> Later(d, c))
  OBVIOUS
<1>3. \A c \in in : ~ Later(c, c)
  BY <1>1 DEF Later
<1>4. \A c, d, e \in in : Later(c, d) /\ Later(d, e) => Later(c, e)
  BY <1>1 DEF Later
<1> HIDE DEF R, Q
<1>5. \E c \in in : \A d \in in : <<d, c>> \notin R
  <2>1. /\ \A c \in in : <<c, c>> \notin R
        /\ \A c, d, e \in in : <<c, d>> \in R /\ <<d, e>> \in R => <<c, e>> \in R
    BY <1>2, <1>3, <1>4
  <2> QED BY <2>1, Topmost
<1>6. \E c \in in : \A d \in in : <<d, c>> \notin Q
  <2>1. /\ \A c \in in : <<c, c>> \notin Q
        /\ \A c, d, e \in in : <<c, d>> \in Q /\ <<d, e>> \in Q => <<c, e>> \in Q
    BY <1>2, <1>3, <1>4
  <2> QED BY <2>1, Topmost
<1>7. LastSample(in) \in in /\ \A d \in in : ~ Later(d, LastSample(in))
  BY <1>2, <1>5 DEF LastSample
<1>8. FirstSample(in) \in in /\ \A d \in in : ~ Later(FirstSample(in), d)
  BY <1>2, <1>6 DEF FirstSample
<1> DEFINE l == LastSample(in)
           f == FirstSample(in)
<1> HIDE DEF l, f
<1>9. ASSUME NEW d \in in PROVE d.val <= l.val /\ f.val <= d.val
  <2>1. /\ l \in in /\ f \in in /\ ~ Later(d, l) /\ ~ Later(f, d)
    BY <1>7, <1>8 DEF l, f
  <2>2. /\ l.ts \in Nat /\ l.val \in Nat /\ f.ts \in Nat /\ f.val \in Nat /\ d.ts \in Nat /\ d.val \in Nat
        /\ d.ts < l.ts => d.val <= l.val
        /\ f.ts < d.ts => f.val <= d.val
    BY <2>1 DEF Growing
  <2> QED BY <2>1, <2>2 DEF Later
<1>10. l.val \in vals /\ f.val \in vals /\ vals \subseteq Nat
  BY <1>1, <1>7, <1>8 DEF l, f
<1>11. /\ \A v \in vals : v <= l.val /\ f.val <= v
  BY <1>9
<1> HIDE DEF vals
<1>12. Max(vals) = l.val
  <2>1. Max(vals) \in vals /\ \A v \in vals : Max(vals) >= v
    BY <1>10, <1>11 DEF Max
  <2>2. Max(vals) \in Nat /\ l.val \in Nat
    BY <1>10, <2>1
  <2>3. Max(vals) >= l.val /\ Max(vals) <= l.val
    BY <1>10, <1>11, <2>1
  <2> QED BY <2>2, <2>3
<1>13. Min(vals) = f.val
  <2>1. Min(vals) \in vals /\ \A v \in vals : Min(vals) <= v
    BY <1>10, <1>11 DEF Min
  <2>2. Min(vals) \in Nat /\ f.val \in Nat
    BY <1>10, <2>1
  <2>3. Min(vals) <= f.val /\ Min(vals) >= f.val
    BY <1>10, <1>11, <2>1
  <2> QED BY <2>2, <2>3
<1> QED BY <1>7, <1>8, <1>12, <1>13 DEF l, f, vals

(* counter_delta() adds up what each process's counter grew by. *)
LEMMA ReadIs ==
  ASSUME lines \in Traces, samples = {l \in lines : l.ph = "C"}
  PROVE CounterDelta("read_bytes", window) = BytesRead
<1> DEFINE In(p) == InWindow(p, "read_bytes", window)
           Delta(p) == IF Cardinality(In(p)) >= 2
                         THEN Max({c.val : c \in In(p)}) - Min({c.val : c \in In(p)}) ELSE 0
           S == {c.pid : c \in samples}
           pick(s) == CHOOSE x \in s : TRUE
           D(it) == [s \in SUBSET S |-> IF s = {} THEN 0 ELSE Delta(pick(s)) + it[s \ {pick(s)}]]
           G(it) == [s \in SUBSET S |-> IF s = {} THEN 0 ELSE Growth(pick(s)) + it[s \ {pick(s)}]]
<1>1. ASSUME NEW p PROVE Delta(p) = Growth(p)
  <2> DEFINE in == In(p)
  <2>1. Readable(lines)
    BY TracesAssumption
  <2>2. in \subseteq {l \in lines : l.ph = "C" /\ l.key \in Cumulative /\ l.key = "read_bytes" /\ l.pid = p}
    BY DEF InWindow, Cumulative
  <2>3. IsFiniteSet(in)
    BY <2>1, <2>2, FS_Subset DEF Readable
  <2>4. Growing(in)
    BY <2>1, <2>2 DEF Readable, Growing
  <2>5. Growth(p) = IF in = {} THEN 0 ELSE LastSample(in).val - FirstSample(in).val
    BY DEF Growth
  <2>6. Delta(p) = IF Cardinality(in) >= 2 THEN Max({c.val : c \in in}) - Min({c.val : c \in in}) ELSE 0
    OBVIOUS
  <2> HIDE DEF in, Delta
  <2>7. Cardinality(in) \in Nat
    BY <2>3, FS_CardinalityType
  <2>8. CASE in = {}
    BY <2>5, <2>6, <2>8, FS_EmptySet
  <2>9. CASE in # {}
    <3>1. /\ LastSample(in) \in in /\ FirstSample(in) \in in
          /\ Max({c.val : c \in in}) = LastSample(in).val
          /\ Min({c.val : c \in in}) = FirstSample(in).val
      BY <2>3, <2>4, <2>9, ExtremesAre
    <3>2. CASE Cardinality(in) >= 2
      BY <2>5, <2>6, <2>9, <3>1, <3>2
    <3>3. CASE ~ (Cardinality(in) >= 2)
      <4>1. Cardinality(in) # 0
        BY <2>3, <2>9, FS_EmptySet
      <4>2. Cardinality(in) = 1
        BY <2>7, <3>3, <4>1
      <4>3. LastSample(in) = FirstSample(in) /\ LastSample(in).val \in Nat
        BY <2>3, <2>4, <3>1, <4>2, FS_Singleton DEF Growing
      <4>4. LastSample(in).val - FirstSample(in).val = 0
        BY <4>3
      <4> QED BY <2>5, <2>6, <2>9, <3>3, <4>4
    <3> QED BY <3>2, <3>3
  <2> QED BY <2>8, <2>9
<1>2. CounterDelta("read_bytes", window) = (CHOOSE it : it = D(it))[S]
  BY DEF CounterDelta, MapThenSumSet, MapThenFoldSet
<1>3. BytesRead = (CHOOSE it : it = G(it))[S]
  BY DEF BytesRead, MapThenSumSet, MapThenFoldSet
<1> HIDE DEF Delta
<1>4. \A it : D(it) = G(it)
  BY <1>1
<1> HIDE DEF D, G
<1>5. \A it : (it = D(it)) <=> (it = G(it))
  BY <1>4
<1>6. (CHOOSE it : it = D(it)) = (CHOOSE it : it = G(it))
  BY <1>5, Zenon
<1> QED BY <1>2, <1>3, <1>6

(* Once the report is there, its figures are those of its operators on the
   lines that were loaded. *)
Figures ==
  /\ lines \in Traces /\ IF stage = "load" THEN spans = {} ELSE Loaded
  /\ stage # "load" => samples = {l \in lines : l.ph = "C"}
  /\ Reporting => /\ report.walls = [c \in {s.cat : s \in spans} |-> Aggregate(spans, c)]
                  /\ report.read = CounterDelta("read_bytes", window)
                  /\ report.dark = DarkSpans(window[2] - window[1])

(* The operators of the figures read the spans and the samples alone. *)
LEMMA CountersStay ==
  ASSUME UNCHANGED <<samples, window>>
  PROVE UNCHANGED CounterDelta("read_bytes", window)
BY DEF CounterDelta, MapThenSumSet, MapThenFoldSet, InWindow

LEMMA CoveredStays ==
  ASSUME UNCHANGED spans
  PROVE \A s : UNCHANGED Covered(s)
BY DEF Covered, Kids

LEMMA KeptStays ==
  ASSUME UNCHANGED spans
  PROVE \A out : UNCHANGED Kept(out)
BY DEF Kept, Keep, ContainedBy, FirstNamed

LEMMA DarkStays ==
  ASSUME UNCHANGED <<spans, window>>
  PROVE UNCHANGED DarkSpans(window[2] - window[1])
<1>1. \A t : UNCHANGED Dark(t)
  BY CoveredStays DEF Dark
<1>2. \A S : UNCHANGED Darker(S)
  BY CoveredStays DEF Darker
<1> QED BY <1>1, <1>2, KeptStays DEF DarkSpans

LEMMA FiguresStay == ReportSpec => []Figures
<1>1. ReportInit => Figures
  BY DEF ReportInit, Figures, Reporting
<1>2. Figures /\ [ReportNext]_vars => Figures'
  <2> SUFFICES ASSUME Figures, [ReportNext]_vars PROVE Figures'
    OBVIOUS
  <2>1. CASE Load
    BY <2>1 DEF Load, Figures, Reporting, Loaded
  <2>2. CASE Index
    <3>1. /\ stage = "index" /\ stage' = "sweep" /\ UNCHANGED <<lines, spans, instants, samples, metas>>
      BY <2>2 DEF Index, StartSweep
    <3> QED BY <3>1 DEF Figures, Reporting, Loaded
  <2>3. CASE SweepOn
    <3>1. /\ stage = "sweep" /\ UNCHANGED <<lines, stage, spans, instants, samples, metas>>
      BY <2>3 DEF SweepOn, Step, reportVars
    <3> QED BY <3>1 DEF Figures, Reporting, Loaded
  <2>4. CASE Report
    <3>1. /\ stage = "sweep" /\ stage' = "done"
          /\ UNCHANGED <<lines, spans, instants, samples, metas, window>>
      BY <2>4 DEF Report, sweepVars
    <3>2. Figures => lines' \in Traces /\ Loaded' /\ samples' = {l \in lines' : l.ph = "C"}
      BY <3>1 DEF Figures, Loaded
    <3>3. /\ report'.walls = [c \in {s.cat : s \in spans} |-> Aggregate(spans, c)]
          /\ report'.read = CounterDelta("read_bytes", window)
          /\ report'.dark = DarkSpans(window[2] - window[1])
      BY <2>4 DEF Report
    <3>4. UNCHANGED <<CounterDelta("read_bytes", window), DarkSpans(window[2] - window[1])>>
      BY <3>1, CountersStay, DarkStays
    <3> QED BY <3>1, <3>2, <3>3, <3>4 DEF Figures
  <2>5. CASE UNCHANGED vars
    <3>1. UNCHANGED <<lines, stage, spans, instants, samples, metas, window, report>>
      BY <2>5 DEF vars, sweepVars, reportVars
    <3>2. UNCHANGED <<CounterDelta("read_bytes", window), DarkSpans(window[2] - window[1])>>
      BY <3>1, CountersStay, DarkStays
    <3> QED BY <3>1, <3>2 DEF Figures, Reporting, Loaded
  <2> QED BY <2>1, <2>2, <2>3, <2>4, <2>5 DEF ReportNext
<1> QED BY <1>1, <1>2, PTL DEF ReportSpec

(* The wall time of every category is the number of ticks its spans cover,
   and the bytes read are what the counters grew by, for traces of any number
   of spans, samples and processes. *)
THEOREM MeasuresTrue == ReportSpec => []MeasuresAreTrue
<1>1. Figures => MeasuresAreTrue
  <2> SUFFICES ASSUME Figures, Reporting PROVE MeasuresAreTrue
    BY DEF MeasuresAreTrue
  <2>1. stage # "load" /\ lines \in Traces /\ Loaded
    BY DEF Figures, Reporting
  <2>2. IsFiniteSet(spans) /\ spans \subseteq SpanLine
    BY <2>1, LoadedTimes
  <2>3. ASSUME NEW c \in DOMAIN report.walls
        PROVE report.walls[c].wall = Cardinality(UNION {Cells(s.ts, End(s)) : s \in {x \in spans : x.cat = c}})
    <3>1. report.walls[c] = Aggregate(spans, c)
      BY <2>3 DEF Figures
    <3> QED BY <2>2, <3>1, WallIs
  <2>4. report.read = BytesRead
    BY <2>1, ReadIs DEF Figures
  <2> QED BY <2>3, <2>4 DEF MeasuresAreTrue
<1> QED BY <1>1, FiguresStay, PTL

----------------------------------------------------------------------------
(* Dark spans: what the walk over the children covers. *)

Walks == [covered : Int, end : Nat]

(* The loop of dark_spans() over the children of one span. *)
LEMMA WalkedAre ==
  ASSUME NEW n \in Nat, NEW kids \in [1 .. n -> Nat \X Nat], NEW from \in Nat
  PROVE /\ Walked(kids, from)[0] = [covered |-> 0, end |-> from]
        /\ \A i \in 1 .. n : Walked(kids, from)[i] = Walk(Walked(kids, from)[i - 1], kids[i])
        /\ \A i \in 0 .. n : Walked(kids, from)[i] \in Walks
<1> DEFINE b == [covered |-> 0, end |-> from]
           F == [z \in Walks \X (1 .. n) |-> Walk(z[1], kids[z[2]])]
           W(w) == [i \in {0} \cup DOMAIN kids |-> IF i = 0 THEN b ELSE Walk(w[i - 1], kids[i])]
           w == Walked(kids, from)
<1>1. b \in Walks /\ {0} \cup DOMAIN kids = 0 .. n
  BY DEF Walks
<1>2. ASSUME NEW acc \in Walks, NEW k \in Nat \X Nat PROVE Walk(acc, k) \in Walks
  <2>1. acc.covered \in Int /\ acc.end \in Nat /\ k[1] \in Nat /\ k[2] \in Nat
    BY DEF Walks
  <2>2. \A p, q \in Nat : Max({p, q}) \in Nat
    BY TwoOf
  <2> QED BY <2>1, <2>2 DEF Walk, Walks
<1>3. F \in [Walks \X (1 .. n) -> Walks]
  <2>1. ASSUME NEW z \in Walks \X (1 .. n) PROVE Walk(z[1], kids[z[2]]) \in Walks
    <3>1. z[1] \in Walks /\ kids[z[2]] \in Nat \X Nat
      OBVIOUS
    <3> QED BY <1>2, <3>1
  <2> QED BY <2>1
<1> HIDE DEF b
<1>4. PICK f : IsLoop(f, Walks, b, n, F)
  <2> HIDE DEF F
  <2> QED BY <1>1, <1>3, Recurrence
<1>5. f = W(f)
  <2>1. f \in [0 .. n -> Walks] /\ f[0] = b
    BY <1>4 DEF IsLoop
  <2>2. ASSUME NEW i \in 0 .. n PROVE f[i] = IF i = 0 THEN b ELSE Walk(f[i - 1], kids[i])
    <3>1. CASE i = 0
      BY <2>1, <3>1
    <3>2. CASE i # 0
      <4>1. i \in 1 .. n /\ f[i - 1] \in Walks
        BY <2>1, <3>2
      <4>2. f[i] = F[<<f[i - 1], i>>]
        BY <1>4, <4>1 DEF IsLoop
      <4> QED BY <3>2, <4>1, <4>2
    <3> QED BY <3>1, <3>2
  <2> QED BY <1>1, <2>1, <2>2
<1>6. w = W(w)
  BY <1>5 DEF Walked, b
<1> HIDE DEF w
<1>7. w[0] = b /\ \A i \in 1 .. n : w[i] = Walk(w[i - 1], kids[i])
  <2>1. \A i \in 1 .. n : i \in 0 .. n /\ i # 0
    OBVIOUS
  <2> QED BY <1>1, <1>6, <2>1
<1>8. \A i \in 0 .. n : w[i] \in Walks
  <2> DEFINE S == {i \in 0 .. n : w[i] \in Walks}
  <2>1. 0 \in S
    BY <1>1, <1>7
  <2>2. ASSUME NEW i \in 1 .. n, i - 1 \in S PROVE i \in S
    BY <1>2, <1>7, <2>2
  <2>3. 0 .. n \subseteq S
    <3> HIDE DEF S
    <3> QED BY <2>1, <2>2, LoopInduction
  <2> QED BY <2>3
<1> QED BY <1>7, <1>8 DEF b, w

(* The walk covers the ticks that the children cover. *)
LEMMA WalkMeasures ==
  ASSUME NEW n \in Nat, NEW kids, Ordered(kids, n), NEW from \in Nat,
         \A i \in 1 .. n : from <= kids[i][1]
  PROVE Walked(kids, from)[n].covered = Cardinality(Upto(kids, n))
<1> DEFINE w == Walked(kids, from)
           Fit(i) == Covers(kids, i, w[i].end, from) /\ w[i].covered = Cardinality(Upto(kids, i))
           S == {i \in 0 .. n : Fit(i)}
<1>1. /\ w[0] = [covered |-> 0, end |-> from]
      /\ \A i \in 1 .. n : w[i] = Walk(w[i - 1], kids[i])
      /\ \A i \in 0 .. n : w[i] \in Walks
  BY WalkedAre DEF Ordered
<1> HIDE DEF w
<1>2. 0 \in S
  <2>1. Upto(kids, 0) = {}
    BY DEF Upto
  <2> QED BY <1>1, <2>1, FS_EmptySet DEF Covers
<1>3. ASSUME NEW i \in 1 .. n, i - 1 \in S PROVE i \in S
  <2> DEFINE m == i - 1
             acc == w[m]
             a == kids[m + 1][1]
             b == kids[m + 1][2]
  <2>1. m \in Nat /\ m + 1 = i /\ m \in 0 .. n /\ m + 1 \in 1 .. n
    OBVIOUS
  <2>2. a \in Nat /\ b \in Nat /\ a <= b /\ from <= a
    BY <2>1 DEF Ordered
  <2>3. acc.covered \in Int /\ acc.end \in Nat
    BY <1>1, <2>1 DEF Walks
  <2>4. Covers(kids, m, acc.end, from) /\ acc.covered = Cardinality(Upto(kids, m))
    BY <1>3
  <2> HIDE DEF m
  <2>5. w[m + 1] = Walk(acc, kids[m + 1])
    BY <1>1, <2>1 DEF m
  <2> HIDE DEF acc
  <2>6. /\ b <= acc.end => Upto(kids, m + 1) = Upto(kids, m)
        /\ b > acc.end => Cardinality(Upto(kids, m + 1)) = Cardinality(Upto(kids, m)) + (b - Max({a, acc.end}))
        /\ Covers(kids, m + 1, IF b <= acc.end THEN acc.end ELSE b, from)
    BY <2>1, <2>2, <2>3, <2>4, NextInterval
  <2>7. CASE b <= acc.end
    <3>1. w[m + 1] = acc
      BY <2>5, <2>7 DEF Walk
    <3> QED BY <2>1, <2>4, <2>6, <2>7, <3>1
  <2>8. CASE ~ (b <= acc.end)
    <3>1. b > acc.end
      BY <2>2, <2>3, <2>8
    <3>2. w[m + 1] = [covered |-> acc.covered + (b - Max({a, acc.end})), end |-> b]
      BY <2>5, <2>8 DEF Walk
    <3> HIDE DEF a, b
    <3>3. w[m + 1].covered = acc.covered + (b - Max({a, acc.end})) /\ w[m + 1].end = b
      BY <3>2
    <3> QED BY <2>1, <2>4, <2>6, <2>8, <3>1, <3>3
  <2> QED BY <2>7, <2>8
<1>4. 0 .. n \subseteq S
  <2> HIDE DEF S
  <2> QED BY <1>2, <1>3, LoopInduction
<1>5. n \in S
  BY <1>4
<1> QED BY <1>5 DEF w

(* And these are the ticks of the span that lie under spans inside it. *)
LEMMA CoveredIs ==
  ASSUME IsFiniteSet(spans), spans \subseteq SpanLine, NEW s \in spans
  PROVE Covered(s) = Lit(s) /\ Covered(s) \in Nat
<1> DEFINE K == Kids(s)
           I == IntervalsOf(K)
           q == ByStart(I)
           n == Cardinality(I)
<1>1. IsFiniteSet(K) /\ K \subseteq SpanLine /\ \A k \in K : s.ts <= k.ts
  BY FS_Subset DEF Kids, Within
<1>2. s.ts \in Nat
  BY SpanTimes
<1>3. \A x \in I : s.ts <= x[1]
  BY <1>1 DEF IntervalsOf
<1>4. Covered(s) = Walked(q, s.ts)[n].covered /\ Lit(s) = Cardinality(UNION {Cells(k.ts, End(k)) : k \in K})
  BY DEF Covered, Lit
<1> HIDE DEF K
<1>5. /\ IsFiniteSet(I) /\ I \subseteq Interval
      /\ UNION {Cells(x[1], x[2]) : x \in I} = UNION {Cells(k.ts, End(k)) : k \in K}
  BY <1>1, IntervalsAre
<1> HIDE DEF I
<1>6. Ordered(q, n) /\ I = {q[i] : i \in 1 .. n}
  BY <1>5, ByStartIs
<1>7. n \in Nat
  BY <1>5, FS_CardinalityType
<1> HIDE DEF q, n
<1>8. \A i \in 1 .. n : s.ts <= q[i][1]
  BY <1>3, <1>6
<1>9. Walked(q, s.ts)[n].covered = Cardinality(Upto(q, n))
  BY <1>2, <1>6, <1>7, <1>8, WalkMeasures
<1>10. Upto(q, n) = UNION {Cells(x[1], x[2]) : x \in I}
  BY <1>6 DEF Upto
<1>11. Covered(s) = Lit(s)
  BY <1>4, <1>5, <1>9, <1>10
<1>12. Walked(q, s.ts)[n].covered \in Nat
  <2>1. IsFiniteSet(Upto(q, n))
    <3>1. \A i \in 1 .. n : IsFiniteSet(Cells(q[i][1], q[i][2]))
      <4>1. \A i \in 1 .. n : q[i][1] \in Nat /\ q[i][2] \in Nat
        BY <1>6 DEF Ordered
      <4>2. \A a, b \in Nat : a + 1 \in Int /\ b \in Int
        OBVIOUS
      <4> QED BY <4>1, <4>2, FS_Interval DEF Cells
    <3> DEFINE g == [i \in 1 .. n |-> Cells(q[i][1], q[i][2])]
    <3>2. IsFiniteSet(1 .. n)
      BY <1>7, FS_Interval
    <3>3. IsFiniteSet({g[i] : i \in 1 .. n})
      BY <3>2, ImageIsFinite
    <3>4. \A T \in {g[i] : i \in 1 .. n} : IsFiniteSet(T)
      BY <3>1
    <3>5. Upto(q, n) = UNION {g[i] : i \in 1 .. n}
      BY DEF Upto
    <3> HIDE DEF g
    <3> QED BY <3>3, <3>4, <3>5, FS_UNION
  <2> QED BY <1>9, <2>1, FS_CardinalityType
<1> QED BY <1>4, <1>11, <1>12

----------------------------------------------------------------------------
(* Dark spans: which of them are kept and reported. *)

(* The loop over the dark spans, longest first. *)
LEMMA KeptAre ==
  ASSUME NEW n \in Nat, NEW out \in [1 .. n -> spans]
  PROVE /\ Kept(out)[0] = {}
        /\ \A i \in 1 .. n : Kept(out)[i] = Keep(Kept(out)[i - 1], out[i])
<1> DEFINE T == SUBSET spans
           F == [z \in T \X (1 .. n) |-> Keep(z[1], out[z[2]])]
           G(g) == [i \in {0} \cup DOMAIN out |-> IF i = 0 THEN {} ELSE Keep(g[i - 1], out[i])]
           g == Kept(out)
<1>1. {} \in T /\ {0} \cup DOMAIN out = 0 .. n
  OBVIOUS
<1>2. F \in [T \X (1 .. n) -> T]
  <2>1. ASSUME NEW z \in T \X (1 .. n) PROVE Keep(z[1], out[z[2]]) \in T
    <3>1. z[1] \in T /\ out[z[2]] \in spans
      OBVIOUS
    <3> QED BY <3>1 DEF Keep
  <2> QED BY <2>1
<1> HIDE DEF T
<1>3. PICK f : IsLoop(f, T, {}, n, F)
  <2> HIDE DEF F
  <2> QED BY <1>1, <1>2, Recurrence
<1>4. f = G(f)
  <2>1. f \in [0 .. n -> T] /\ f[0] = {}
    BY <1>3 DEF IsLoop
  <2>2. ASSUME NEW i \in 0 .. n PROVE f[i] = IF i = 0 THEN {} ELSE Keep(f[i - 1], out[i])
    <3>1. CASE i = 0
      BY <2>1, <3>1
    <3>2. CASE i # 0
      <4>1. i \in 1 .. n /\ f[i - 1] \in T
        BY <2>1, <3>2
      <4>2. f[i] = F[<<f[i - 1], i>>]
        BY <1>3, <4>1 DEF IsLoop
      <4> QED BY <3>2, <4>1, <4>2
    <3> QED BY <3>1, <3>2
  <2> QED BY <1>1, <2>1, <2>2
<1>5. g = G(g)
  BY <1>4 DEF Kept
<1> HIDE DEF g
<1>6. \A i \in 1 .. n : i \in 0 .. n /\ i # 0
  OBVIOUS
<1>7. g[0] = {} /\ \A i \in 1 .. n : g[i] = Keep(g[i - 1], out[i])
  BY <1>1, <1>5, <1>6
<1> QED BY <1>7 DEF g

(* s is left out for x. *)
Hides(x, s) == s.name # x.name /\ ContainedBy(x, s)

(* What the loop has kept of the first i: something, nothing that a longer
   one of it hides, and all but what one of it hides. *)
KeptFits(out, i) ==
  LET K == Kept(out)[i] IN
    /\ K \subseteq {out[j] : j \in 1 .. i}
    /\ i # 0 => K # {}
    /\ \A s, x \in K : x.dur > s.dur => ~ Hides(x, s)
    /\ \A j \in 1 .. i : out[j] \in K \/ \E x \in K : Hides(x, out[j])

LEMMA KeptIs ==
  ASSUME NEW n \in Nat, NEW out \in [1 .. n -> spans], spans \subseteq SpanLine,
         \A i, j \in 1 .. n : i < j => out[j].dur <= out[i].dur
  PROVE KeptFits(out, n)
<1> DEFINE g == Kept(out)
           S == {i \in 0 .. n : KeptFits(out, i)}
<1>1. g[0] = {} /\ \A i \in 1 .. n : g[i] = Keep(g[i - 1], out[i])
  BY KeptAre
<1>2. 0 \in S
  BY <1>1 DEF KeptFits
<1>3. ASSUME NEW i \in 1 .. n, i - 1 \in S PROVE i \in S
  <2> DEFINE K == g[i - 1]
             L == g[i]
             s == out[i]
  <2>1. i - 1 \in 0 .. n /\ 1 .. i = (1 .. i - 1) \cup {i} /\ \A j \in 1 .. i - 1 : j \in 1 .. n /\ j < i
    OBVIOUS
  <2>2. /\ K \subseteq {out[j] : j \in 1 .. i - 1}
        /\ i - 1 # 0 => K # {}
        /\ \A t, x \in K : x.dur > t.dur => ~ Hides(x, t)
        /\ \A j \in 1 .. i - 1 : out[j] \in K \/ \E x \in K : Hides(x, out[j])
    BY <1>3 DEF KeptFits
  <2>3. \A x \in K : x \in spans /\ x.dur \in Nat /\ s.dur <= x.dur
    <3>1. ASSUME NEW x \in K PROVE x \in spans /\ s.dur <= x.dur
      <4>1. PICK j \in 1 .. i - 1 : x = out[j]
        BY <2>2
      <4> QED BY <2>1, <4>1
    <3> QED BY <3>1, SpanTimes
  <2>4. L = IF \E x \in K : s.dur <= x.dur /\ Hides(x, s) THEN K ELSE K \cup {s}
    BY <1>1 DEF Keep, Hides
  <2>5. s.dur \in Nat /\ s \in spans
    BY SpanTimes
  <2> HIDE DEF g, s, K, L
  <2>6. CASE \E x \in K : Hides(x, s)
    <3>1. L = K /\ K # {}
      BY <2>3, <2>4, <2>6
    <3>2. KeptFits(out, i)
      BY <2>1, <2>2, <2>6, <3>1 DEF KeptFits, L, g, s
    <3> QED BY <3>2
  <2>7. CASE ~ \E x \in K : Hides(x, s)
    <3>1. L = K \cup {s}
      BY <2>4, <2>7
    <3>2. ASSUME NEW t \in L, NEW x \in L, x.dur > t.dur PROVE ~ Hides(x, t)
      <4>1. CASE t \in K /\ x \in K
        BY <2>2, <3>2, <4>1
      <4>2. CASE x = s /\ t \in K
        <5>1. t.dur \in Nat /\ s.dur <= t.dur /\ s.dur > t.dur
          BY <2>3, <3>2, <4>2
        <5> QED BY <2>5, <5>1
      <4>3. CASE t = s /\ x \in K
        BY <2>7, <4>3
      <4>4. CASE x = s /\ t = s
        BY <2>5, <3>2, <4>4
      <4> QED BY <3>1, <4>1, <4>2, <4>3, <4>4
    <3>3. KeptFits(out, i)
      <4>1. L \subseteq {out[j] : j \in 1 .. i} /\ L # {}
        BY <2>1, <2>2, <3>1 DEF s
      <4>2. \A j \in 1 .. i : out[j] \in L \/ \E x \in L : Hides(x, out[j])
        BY <2>1, <2>2, <3>1 DEF s
      <4> QED BY <3>2, <4>1, <4>2 DEF KeptFits, L, g
    <3> QED BY <3>3
  <2> QED BY <2>6, <2>7
<1>4. 0 .. n \subseteq S
  <2> HIDE DEF S
  <2> QED BY <1>2, <1>3, LoopInduction
<1>5. n \in S
  BY <1>4
<1> QED BY <1>5

(* Where names are unique, a span is hidden by one that contains it. *)
LEMMA HidesIs ==
  ASSUME UniqueNames, spans \subseteq SpanLine, NEW s \in spans, NEW x \in spans
  PROVE Hides(x, s) <=> s # x /\ s.name # x.name /\ Within(s, x)
<1>1. ASSUME NEW y \in spans PROVE FirstNamed(y) = y
  <2>1. {z \in spans : z.name = y.name /\ z.pid = y.pid} = {y}
    BY DEF UniqueNames
  <2>2. y.ts <= y.ts
    BY SpanTimes
  <2> QED BY <2>1, <2>2 DEF FirstNamed
<1>2. Within(s, x) => s.pid = x.pid
  BY DEF Within
<1> QED BY <1>1, <1>2 DEF Hides, ContainedBy

(* Sorting by a number. *)
LEMMA StrictByNumber ==
  ASSUME NEW S, NEW f, \A s \in S : f[s] \in Int,
         NEW R, \A x, y \in S : <<x, y>> \in R <=> f[x] > f[y]
  PROVE Strict(R, S)
<1>1. \A c \in S : ~ (f[c] > f[c])
  OBVIOUS
<1>2. \A c, d, e \in S : f[c] > f[d] /\ f[d] > f[e] => f[c] > f[e]
  OBVIOUS
<1> QED BY <1>1, <1>2 DEF Strict

LEMMA LongestFirst ==
  ASSUME NEW S, IsFiniteSet(S), S \subseteq SpanLine
  PROVE LET q == Sorted(S, Longer(S))
            n == Cardinality(S)
        IN /\ q \in [1 .. n -> S] /\ S = {q[i] : i \in 1 .. n}
           /\ \A i, j \in 1 .. n : i < j => q[j].dur <= q[i].dur
<1> DEFINE f == [s \in S |-> s.dur]
           q == Sorted(S, Longer(S))
           n == Cardinality(S)
<1>1. \A s \in S : s.dur \in Nat
  BY SpanTimes
<1>2. \A x, y \in S : <<x, y>> \in Longer(S) <=> x.dur > y.dur
  BY DEF Longer
<1>3. Strict(Longer(S), S)
  <2>1. /\ \A s \in S : f[s] \in Int
        /\ \A x, y \in S : <<x, y>> \in Longer(S) <=> f[x] > f[y]
    BY <1>1, <1>2
  <2> HIDE DEF f
  <2> QED BY <2>1, StrictByNumber
<1>4. IsSorting(q, S, Longer(S)) /\ S = {q[i] : i \in 1 .. n}
  BY <1>3, SortedIs
<1> HIDE DEF q
<1>5. q \in [1 .. n -> S] /\ \A i, j \in 1 .. n : i < j => <<q[j], q[i]>> \notin Longer(S)
  BY <1>4 DEF IsSorting
<1> HIDE DEF n
<1>6. ASSUME NEW i \in 1 .. n, NEW j \in 1 .. n, i < j PROVE q[j].dur <= q[i].dur
  <2>1. q[i] \in S /\ q[j] \in S
    BY <1>5
  <2>2. ~ (q[j].dur > q[i].dur)
    BY <1>2, <1>5, <1>6, <2>1
  <2> QED BY <1>1, <2>1, <2>2
<1> QED BY <1>4, <1>5, <1>6 DEF q, n

Blind(s) == s.dur - Covered(s)

LEMMA DarkestFirst ==
  ASSUME NEW S, IsFiniteSet(S), \A s \in S : Blind(s) \in Int
  PROVE LET q == Sorted(S, Darker(S))
            n == Cardinality(S)
        IN /\ q \in [1 .. n -> S] /\ S = {q[i] : i \in 1 .. n}
           /\ \A i, j \in 1 .. n : i < j => q[i] # q[j] /\ Blind(q[j]) <= Blind(q[i])
<1> DEFINE f == [s \in S |-> Blind(s)]
           q == Sorted(S, Darker(S))
           n == Cardinality(S)
<1>1. \A x, y \in S : <<x, y>> \in Darker(S) <=> Blind(x) > Blind(y)
  BY DEF Darker, Blind
<1>2. Strict(Darker(S), S)
  <2>1. /\ \A s \in S : f[s] \in Int
        /\ \A x, y \in S : <<x, y>> \in Darker(S) <=> f[x] > f[y]
    BY <1>1
  <2> HIDE DEF f
  <2> QED BY <2>1, StrictByNumber
<1>3. IsSorting(q, S, Darker(S)) /\ S = {q[i] : i \in 1 .. n}
  BY <1>2, SortedIs
<1> HIDE DEF q
<1>4. /\ q \in [1 .. n -> S]
      /\ \A i, j \in 1 .. n : i < j => q[i] # q[j] /\ <<q[j], q[i]>> \notin Darker(S)
  BY <1>3 DEF IsSorting
<1> HIDE DEF n
<1>5. ASSUME NEW i \in 1 .. n, NEW j \in 1 .. n, i < j PROVE q[i] # q[j] /\ Blind(q[j]) <= Blind(q[i])
  <2>1. q[i] \in S /\ q[j] \in S
    BY <1>4
  <2>2. ~ (Blind(q[j]) > Blind(q[i]))
    BY <1>1, <1>4, <1>5, <2>1
  <2>3. Blind(q[i]) \in Int /\ Blind(q[j]) \in Int
    BY <2>1
  <2>4. Blind(q[j]) <= Blind(q[i])
    BY <2>2, <2>3
  <2>5. q[i] # q[j]
    BY <1>4, <1>5
  <2> QED BY <2>4, <2>5
<1> QED BY <1>3, <1>4, <1>5 DEF q, n

(* What is reported are spans that are kept: all of them, or the three of
   which the least lies under other spans. *)
LEMMA ReportedAre ==
  ASSUME NEW K, IsFiniteSet(K), \A s \in K : Blind(s) \in Int
  PROVE LET dark == ToSet(SubSeq(Sorted(K, Darker(K)), 1, Min({3, Cardinality(K)})))
        IN /\ dark \subseteq K /\ (K # {} => dark # {})
           /\ \A s \in K \ dark : Cardinality(dark) = 3 /\ \A x \in dark : Blind(x) >= Blind(s)
<1> DEFINE q == Sorted(K, Darker(K))
           n == Cardinality(K)
           m == Min({3, n})
           dark == ToSet(SubSeq(q, 1, m))
<1>1. /\ q \in [1 .. n -> K] /\ K = {q[i] : i \in 1 .. n}
      /\ \A i, j \in 1 .. n : i < j => q[i] # q[j] /\ Blind(q[j]) <= Blind(q[i])
  BY DarkestFirst
<1>2. n \in Nat /\ (K # {} => n # 0)
  BY FS_CardinalityType, FS_EmptySet
<1> HIDE DEF n
<1>3. m = IF 3 <= n THEN 3 ELSE n
  <2>1. 3 \in Int /\ n \in Int
    BY <1>2
  <2> QED BY <2>1, TwoOf
<1> HIDE DEF m, q
<1>4. m \in Nat /\ m <= n
  BY <1>2, <1>3
<1>5. dark = {q[i] : i \in 1 .. m}
  <2>1. SubSeq(q, 1, m) = [i \in 1 .. m |-> q[i]]
    <3>1. q \in Seq(K) /\ Len(q) = n
      BY <1>1, <1>2
    <3>2. 1 \in 1 .. Len(q) + 1 /\ m \in 1 - 1 .. Len(q)
      BY <1>2, <1>4, <3>1
    <3>3. /\ SubSeq(q, 1, m) \in Seq(K) /\ Len(SubSeq(q, 1, m)) = m
          /\ \A i \in 1 .. m : SubSeq(q, 1, m)[i] = q[i]
      BY <1>4, <3>1, <3>2, SubSeqProperties
    <3> QED BY <1>4, <3>3
  <2> QED BY <2>1 DEF ToSet
<1> HIDE DEF dark
<1>6. dark \subseteq K
  <2>1. \A i \in 1 .. m : i \in 1 .. n
    BY <1>2, <1>4
  <2> QED BY <1>1, <1>5, <2>1
<1>7. K # {} => dark # {}
  <2>1. K # {} => 1 \in 1 .. m
    BY <1>2, <1>3
  <2> QED BY <1>5, <2>1
<1>8. ASSUME NEW s \in K \ dark PROVE Cardinality(dark) = 3 /\ \A x \in dark : Blind(x) >= Blind(s)
  <2>1. PICK j \in 1 .. n : s = q[j]
    BY <1>1
  <2>2. ~ (j <= m)
    BY <1>4, <1>5, <2>1
  <2>3. m = 3 /\ 3 < j
    BY <1>2, <1>3, <2>1, <2>2
  <2>4. \A x \in dark : Blind(x) >= Blind(s)
    <3>1. ASSUME NEW i \in 1 .. m PROVE Blind(q[i]) >= Blind(s)
      <4>1. i \in 1 .. n /\ i < j
        BY <1>2, <1>4, <2>3
      <4>2. Blind(q[j]) <= Blind(q[i]) /\ q[i] \in K /\ q[j] \in K
        BY <1>1, <4>1
      <4>3. Blind(q[i]) \in Int /\ Blind(q[j]) \in Int
        BY <4>2
      <4> QED BY <2>1, <4>2, <4>3
    <3> QED BY <1>5, <3>1
  <2>5. Cardinality(dark) = 3
    <3>1. 1 \in 1 .. n /\ 2 \in 1 .. n /\ 3 \in 1 .. n
      BY <1>2, <1>4, <2>3
    <3>2. q[1] # q[2] /\ q[1] # q[3] /\ q[2] # q[3]
      BY <1>1, <3>1
    <3>3. dark = ({q[1]} \cup {q[2]}) \cup {q[3]}
      <4>1. 1 .. m = {1, 2, 3}
        BY <2>3
      <4> QED BY <1>5, <4>1
    <3>4. IsFiniteSet({q[1]}) /\ Cardinality({q[1]}) = 1
      BY FS_Singleton
    <3>5. IsFiniteSet({q[1]} \cup {q[2]}) /\ Cardinality({q[1]} \cup {q[2]}) = 2
      <4>1. Cardinality({q[1]} \cup {q[2]}) = Cardinality({q[1]}) + 1 /\ IsFiniteSet({q[1]} \cup {q[2]})
        BY <3>2, <3>4, FS_AddElement
      <4> QED BY <3>4, <4>1
    <3>6. Cardinality(({q[1]} \cup {q[2]}) \cup {q[3]}) = Cardinality({q[1]} \cup {q[2]}) + 1
      BY <3>2, <3>5, FS_AddElement
    <3> QED BY <3>3, <3>5, <3>6
  <2> QED BY <2>4, <2>5
<1> QED BY <1>6, <1>7, <1>8 DEF dark, q, n, m

(* Every span reported as dark is one, no dark span is left out without a
   reason, and none is reported under a longer one, for any trace. *)
THEOREM DarkSpansTrue == ReportSpec => []DarkSpansAreDark
<1>1. ReportInv /\ Figures => DarkSpansAreDark
  <2> DEFINE total == window[2] - window[1]
             out == Dark(total)
             n == Cardinality(out)
             q == Sorted(out, Longer(out))
             K == Kept(q)[n]
             dark == ToSet(report.dark)
  <2> SUFFICES ASSUME ReportInv, Figures, Reporting, window[1] < window[2]
               PROVE /\ \A s \in dark : ~ IsBlocking(s) /\ 2 * Lit(s) < s.dur
                     /\ out # {} => dark # {}
                     /\ UniqueNames =>
                          /\ \A s, x \in dark : s # x /\ Within(s, x) => s.dur = x.dur
                          /\ \A s \in out \ dark :
                               \/ \E x \in out \ {s} : Within(s, x)
                               \/ /\ Cardinality(dark) = 3
                                  /\ \A x \in dark : x.dur - Lit(x) >= s.dur - Lit(s)
    BY DEF DarkSpansAreDark
  <2>1. stage # "load" /\ lines \in Traces /\ Loaded
    BY DEF Figures, Reporting
  <2>2. IsFiniteSet(spans) /\ spans \subseteq SpanLine
    BY <2>1, LoadedTimes
  <2>3. total \in Int /\ ~ (total <= 0)
    <3>1. window[1] \in Nat /\ window[2] \in Nat
      BY DEF ReportInv, SweepTypes
    <3> QED BY <3>1
  <2>4. out \subseteq spans /\ \A s \in out : ~ IsBlocking(s) /\ 2 * Covered(s) < s.dur
    BY DEF Dark
  <2>5. report.dark = SubSeq(Sorted(K, Darker(K)), 1, Min({3, Cardinality(K)}))
    BY <2>3 DEF Figures, DarkSpans
  <2>6. \A s \in spans : s.dur \in Nat /\ Covered(s) \in Nat /\ Covered(s) = Lit(s)
    BY <2>2, CoveredIs, SpanTimes
  <2> HIDE DEF out, total
  <2>7. IsFiniteSet(out) /\ out \subseteq SpanLine /\ n \in Nat
    BY <2>2, <2>4, FS_Subset, FS_CardinalityType
  <2>8. /\ q \in [1 .. n -> out] /\ out = {q[i] : i \in 1 .. n}
        /\ \A i, j \in 1 .. n : i < j => q[j].dur <= q[i].dur
    BY <2>7, LongestFirst
  <2> HIDE DEF n, q
  <2>9. KeptFits(q, n)
    <3>1. q \in [1 .. n -> spans]
      BY <2>4, <2>8
    <3> QED BY <2>2, <2>7, <2>8, <3>1, KeptIs
  <2>10. /\ K \subseteq out
         /\ out # {} => K # {}
         /\ \A s, x \in K : x.dur > s.dur => ~ Hides(x, s)
         /\ \A s \in out : s \in K \/ \E x \in K : Hides(x, s)
    <3>1. out # {} => n # 0
      BY <2>7, <2>8
    <3> QED BY <2>8, <2>9, <3>1 DEF KeptFits
  <2> HIDE DEF K
  <2>11. IsFiniteSet(K) /\ \A s \in K : Blind(s) \in Int
    BY <2>4, <2>6, <2>7, <2>10, FS_Subset DEF Blind
  <2>12. /\ dark \subseteq K /\ (K # {} => dark # {})
         /\ \A s \in K \ dark : Cardinality(dark) = 3 /\ \A x \in dark : Blind(x) >= Blind(s)
    BY <2>5, <2>11, ReportedAre
  <2> HIDE DEF dark
  <2>13. dark \subseteq out /\ dark \subseteq spans /\ K \subseteq spans
    BY <2>4, <2>10, <2>12
  <2>14. \A s \in dark : ~ IsBlocking(s) /\ 2 * Lit(s) < s.dur
    BY <2>4, <2>6, <2>13
  <2>15. ASSUME UniqueNames, NEW s \in dark, NEW x \in dark, s # x, Within(s, x) PROVE s.dur = x.dur
    <3>1. s \in SpanLine /\ x \in SpanLine /\ s \in spans /\ x \in spans
      BY <2>2, <2>13
    <3>2. s.name # x.name
      BY <2>15, <3>1 DEF UniqueNames, Within
    <3>3. Hides(x, s)
      BY <2>2, <2>15, <3>1, <3>2, HidesIs
    <3>4. ~ (x.dur > s.dur)
      BY <2>10, <2>12, <3>3
    <3>5. s.dur <= x.dur
      <4>1. s.ts <= End(s) /\ x.ts <= s.ts /\ End(s) <= End(x)
        BY <2>15, <3>1, SpanTimes DEF Within
      <4>2. s.ts \in Nat /\ s.dur \in Nat /\ x.ts \in Nat /\ x.dur \in Nat
        BY <3>1, SpanTimes
      <4> QED BY <4>1, <4>2 DEF End
    <3> QED BY <2>6, <3>1, <3>4, <3>5
  <2>16. ASSUME UniqueNames, NEW s \in out \ dark
         PROVE \/ \E x \in out \ {s} : Within(s, x)
               \/ /\ Cardinality(dark) = 3
                  /\ \A x \in dark : x.dur - Lit(x) >= s.dur - Lit(s)
    <3>1. s \in spans
      BY <2>4
    <3>2. CASE s \in K
      <4>1. Cardinality(dark) = 3 /\ \A x \in dark : Blind(x) >= Blind(s)
        BY <2>12, <3>2
      <4> QED BY <2>6, <2>13, <3>1, <4>1 DEF Blind
    <3>3. CASE s \notin K
      <4>1. PICK x \in K : Hides(x, s)
        BY <2>10, <3>3
      <4>2. x \in spans /\ x \in out
        BY <2>10, <2>13
      <4>3. s # x /\ Within(s, x)
        BY <2>2, <2>16, <3>1, <4>1, <4>2, HidesIs
      <4> QED BY <4>2, <4>3
    <3> QED BY <3>2, <3>3
  <2>17. out # {} => dark # {}
    BY <2>10, <2>12
  <2> QED BY <2>14, <2>15, <2>16, <2>17
<1> QED BY <1>1, FiguresStay, SweepInvariant, PTL
=============================================================================
