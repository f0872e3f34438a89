--------------------------- MODULE CollectionProofs ---------------------------
(***************************************************************************)
(* Theorems about the two halves of collection: about Admission for every  *)
(* number of requests, fetches, gates and permits, and about DNSCollection *)
(* for every set of names, their aliases, records and zones, every list of *)
(* seeds and every budget.                                                 *)
(***************************************************************************)
EXTENDS Admission, DNSCollection, FiniteSetTheorems, TLAPS


-----------------------------------------------------------------------------
(* Sums over finite sets.  Induction is by a smallest counterexample, which *)
(* the well-founded subset order provides.                                 *)

SumOf(h, S) == MapThenSumSet(LAMBDA f : h[f], S)

\* g holds the sums of h over the subsets of S.
IsSum(g, h, S) ==
    g = [s \in SUBSET S |-> IF s = {} THEN 0
                            ELSE LET x == CHOOSE x \in s : TRUE IN h[x] + g[s \ {x}]]

LEMMA SmallestSubset ==
    ASSUME NEW S, IsFiniteSet(S), NEW B, B \subseteq SUBSET S, B # {}
    PROVE  \E T \in B : \A U \in B : U \subseteq T => U = T
  <1>1. IsWellFoundedOn(StrictSubsetOrdering(S), FiniteSubsetsOf(S))
    BY FS_StrictSubsetOrderingWellFounded
  <1>2. B \subseteq FiniteSubsetsOf(S)
    BY FS_FiniteSubsetsOfFinite
  <1>3. PICK T \in B : \A U \in B : <<U, T>> \notin StrictSubsetOrdering(S)
    BY <1>1, <1>2, WFMin, Zenon
  <1> QED
    BY <1>3 DEF StrictSubsetOrdering

\* The sums over the subsets of a set agree with those of a larger set.
LEMMA SumUnique ==
    ASSUME NEW S, IsFiniteSet(S), NEW T \in SUBSET S, NEW h, NEW g, NEW k,
           IsSum(g, h, S), IsSum(k, h, T)
    PROVE  \A s \in SUBSET T : g[s] = k[s]
  <1> DEFINE B == {s \in SUBSET T : g[s] # k[s]}
  <1> SUFFICES ASSUME B # {} PROVE FALSE
    OBVIOUS
  <1>1. PICK s \in B : \A U \in B : U \subseteq s => U = s
    <2>1. B \subseteq SUBSET S
      OBVIOUS
    <2> HIDE DEF B
    <2> QED
      BY <2>1, SmallestSubset
  <1>2. CASE s = {}
    BY <1>1, <1>2 DEF IsSum
  <1>3. CASE s # {}
    <2>1. PICK x : x = CHOOSE y \in s : TRUE
      OBVIOUS
    <2>2. x \in s
      BY <1>3, <2>1
    <2>3. g[s] = h[x] + g[s \ {x}]
      BY <1>1, <1>3, <2>1 DEF IsSum
    <2>4. k[s] = h[x] + k[s \ {x}]
      BY <1>1, <1>3, <2>1 DEF IsSum
    <2>5. g[s \ {x}] = k[s \ {x}]
      BY <1>1, <2>2
    <2> QED
      BY <1>1, <2>3, <2>4, <2>5
  <1> QED
    BY <1>2, <1>3

LEMMA SumExists ==
    ASSUME NEW S, IsFiniteSet(S), NEW h
    PROVE  \E g : IsSum(g, h, S)
  <1> DEFINE B == {T \in SUBSET S : ~ \E g : IsSum(g, h, T)}
  <1> SUFFICES ASSUME B # {} PROVE FALSE
    OBVIOUS
  <1>1. PICK T \in B : \A U \in B : U \subseteq T => U = T
    <2>1. B \subseteq SUBSET S
      OBVIOUS
    <2> HIDE DEF B
    <2> QED
      BY <2>1, SmallestSubset
  <1> DEFINE Sums(U) == CHOOSE g : IsSum(g, h, U)
             val == [U \in SUBSET T |-> Sums(U)[U]]
             sum == [s \in SUBSET T |->
                       IF s = {} THEN 0
                       ELSE LET x == CHOOSE x \in s : TRUE IN h[x] + val[s \ {x}]]
  <1>2. \A U \in SUBSET T : U # T => IsSum(Sums(U), h, U)
    BY <1>1
  <1>3. ASSUME NEW U \in SUBSET T, U # T PROVE sum[U] = val[U]
    <2>1. IsSum(Sums(U), h, U) /\ val[U] = Sums(U)[U]
      BY <1>2, <1>3
    <2>2. CASE U = {}
      BY <2>1, <2>2 DEF IsSum
    <2>3. CASE U # {}
      <3>1. PICK x : x = CHOOSE y \in U : TRUE
        OBVIOUS
      <3>2. x \in U
        BY <2>3, <3>1
      <3>3. Sums(U)[U] = h[x] + Sums(U)[U \ {x}]
        <4> HIDE DEF Sums
        <4> QED
          BY <2>1, <2>3, <3>1 DEF IsSum
      <3>4. Sums(U)[U \ {x}] = val[U \ {x}]
        <4>1. IsSum(Sums(U \ {x}), h, U \ {x})
          BY <1>2, <1>3, <3>2
        <4>2. IsFiniteSet(U)
          BY <1>1, FS_Subset
        <4> HIDE DEF Sums
        <4>3. Sums(U)[U \ {x}] = Sums(U \ {x})[U \ {x}]
          BY <2>1, <4>1, <4>2, SumUnique
        <4> QED
          BY <4>3
      <3>5. sum[U] = h[x] + val[U \ {x}]
        <4> HIDE DEF val
        <4> QED
          BY <2>3, <3>1
      <3> QED
        BY <2>1, <3>3, <3>4, <3>5
    <2> QED
      BY <2>2, <2>3
  <1>4. IsSum(sum, h, T)
    <2>1. ASSUME NEW s \in SUBSET T, s # {}, NEW x, x = CHOOSE y \in s : TRUE
          PROVE  val[s \ {x}] = sum[s \ {x}]
      <3>1. x \in s
        BY <2>1
      <3>2. s \ {x} \in SUBSET T /\ s \ {x} # T
        BY <3>1
      <3> HIDE DEF val, sum
      <3> QED
        BY <1>3, <3>2
    <2>2. PICK v : v = val
      OBVIOUS
    <2>3. PICK g : g = [s \in SUBSET T |->
                          IF s = {} THEN 0
                          ELSE LET x == CHOOSE x \in s : TRUE IN h[x] + v[s \ {x}]]
      OBVIOUS
    <2>4. g = sum
      BY <2>2, <2>3
    <2> HIDE DEF val, sum
    <2>5. \A s \in SUBSET T : s # {} =>
             LET x == CHOOSE x \in s : TRUE IN v[s \ {x}] = g[s \ {x}]
      BY <2>1, <2>2, <2>4
    <2>6. IsSum(g, h, T)
      <3>1. PICK k : k = [s \in SUBSET T |->
                            IF s = {} THEN 0
                            ELSE LET x == CHOOSE x \in s : TRUE IN h[x] + g[s \ {x}]]
        OBVIOUS
      <3>2. ASSUME NEW s \in SUBSET T PROVE k[s] = g[s]
        <4>1. CASE s = {}
          BY <2>3, <3>1, <4>1
        <4>2. CASE s # {}
          <5>1. PICK x : x = CHOOSE y \in s : TRUE
            OBVIOUS
          <5>2. k[s] = h[x] + g[s \ {x}]
            BY <3>1, <4>2, <5>1
          <5>3. g[s] = h[x] + v[s \ {x}]
            BY <2>3, <4>2, <5>1
          <5> QED
            BY <2>5, <4>2, <5>1, <5>2, <5>3
        <4> QED
          BY <4>1, <4>2
      <3>3. k = g
        BY <2>3, <3>1, <3>2
      <3> QED
        BY <3>1, <3>3, Zenon DEF IsSum
    <2> QED
      BY <2>4, <2>6
  <1> QED
    BY <1>1, <1>4

\* MapThenSumSet computes one of these functions, and the only one.
LEMMA SumOfIs ==
    ASSUME NEW S, IsFiniteSet(S), NEW h, NEW T \in SUBSET S, NEW g, IsSum(g, h, S)
    PROVE  SumOf(h, T) = g[T]
  <1> DEFINE chosen == CHOOSE k : IsSum(k, h, T)
  <1>1. IsSum(chosen, h, T)
    <2>1. IsFiniteSet(T)
      BY FS_Subset
    <2> QED
      BY <2>1, SumExists
  <1>2. SumOf(h, T) = chosen[T]
    BY DEF SumOf, MapThenSumSet, MapThenFoldSet, IsSum
  <1> HIDE DEF chosen
  <1>3. g[T] = chosen[T]
    BY <1>1, SumUnique
  <1> QED
    BY <1>2, <1>3

LEMMA SumEmpty == \A h : SumOf(h, {}) = 0
  <1> SUFFICES ASSUME NEW h PROVE SumOf(h, {}) = 0
    OBVIOUS
  <1>1. PICK g : IsSum(g, h, {})
    BY SumExists, FS_EmptySet
  <1>2. SumOf(h, {}) = g[{}]
    BY <1>1, SumOfIs, FS_EmptySet
  <1> QED
    BY <1>1, <1>2 DEF IsSum

LEMMA SumStep ==
    ASSUME NEW S, IsFiniteSet(S), NEW h, S # {}
    PROVE  \E x \in S : x = (CHOOSE y \in S : TRUE) /\ SumOf(h, S) = h[x] + SumOf(h, S \ {x})
  <1>1. PICK g : IsSum(g, h, S)
    BY SumExists
  <1>2. PICK x : x = CHOOSE y \in S : TRUE
    OBVIOUS
  <1>3. x \in S
    BY <1>2
  <1>4. g[S] = h[x] + g[S \ {x}]
    BY <1>1, <1>2 DEF IsSum
  <1>5. SumOf(h, S) = g[S] /\ SumOf(h, S \ {x}) = g[S \ {x}]
    BY <1>1, SumOfIs
  <1> QED
    BY <1>2, <1>3, <1>4, <1>5

\* A sum of natural numbers is one, and is zero if they all are.
LEMMA SumType ==
    ASSUME NEW S, IsFiniteSet(S), NEW h, \A x \in S : h[x] \in Nat
    PROVE  SumOf(h, S) \in Nat /\ ((\A x \in S : h[x] = 0) => SumOf(h, S) = 0)
  <1> DEFINE Good(T) == SumOf(h, T) \in Nat /\ ((\A x \in T : h[x] = 0) => SumOf(h, T) = 0)
             B == {T \in SUBSET S : ~Good(T)}
  <1> SUFFICES ASSUME B # {} PROVE FALSE
    OBVIOUS
  <1>1. PICK T \in B : \A U \in B : U \subseteq T => U = T
    <2>1. B \subseteq SUBSET S
      OBVIOUS
    <2> HIDE DEF B
    <2> QED
      BY <2>1, SmallestSubset
  <1>2. T # {}
    <2>1. Good({})
      BY SumEmpty
    <2> HIDE DEF Good
    <2> QED
      BY <1>1, <2>1
  <1>3. PICK x \in T : SumOf(h, T) = h[x] + SumOf(h, T \ {x})
    <2>1. IsFiniteSet(T)
      BY FS_Subset
    <2> QED
      BY <1>2, <2>1, SumStep
  <1>4. Good(T \ {x})
    BY <1>1
  <1> QED
    BY <1>1, <1>3, <1>4

\* Changing one summand changes the sum by as much.
LEMMA SumUpdate ==
    ASSUME NEW S, IsFiniteSet(S), NEW h, NEW g, NEW f,
           \A x \in S : h[x] \in Nat /\ g[x] \in Nat,
           \A x \in S : x # f => g[x] = h[x]
    PROVE  SumOf(g, S) = IF f \in S THEN SumOf(h, S) + g[f] - h[f] ELSE SumOf(h, S)
  <1> DEFINE Good(T) == SumOf(g, T) = IF f \in T THEN SumOf(h, T) + g[f] - h[f] ELSE SumOf(h, T)
             B == {T \in SUBSET S : ~Good(T)}
  <1> SUFFICES ASSUME B # {} PROVE FALSE
    OBVIOUS
  <1>1. PICK T \in B : \A U \in B : U \subseteq T => U = T
    <2>1. B \subseteq SUBSET S
      OBVIOUS
    <2> HIDE DEF B
    <2> QED
      BY <2>1, SmallestSubset
  <1>2. IsFiniteSet(T)
    BY FS_Subset
  <1>3. T # {}
    BY <1>1, SumEmpty
  <1>4. PICK x \in T : x = (CHOOSE y \in T : TRUE) /\ SumOf(h, T) = h[x] + SumOf(h, T \ {x})
    BY <1>2, <1>3, SumStep
  <1>5. SumOf(g, T) = g[x] + SumOf(g, T \ {x})
    BY <1>2, <1>3, <1>4, SumStep
  <1>6. Good(T \ {x})
    BY <1>1
  <1>7. SumOf(h, T \ {x}) \in Nat
    <2>1. IsFiniteSet(T \ {x})
      BY <1>2, FS_Subset
    <2> QED
      BY <2>1, SumType
  <1>8. h[x] \in Nat /\ g[x] \in Nat /\ (f \in T => h[f] \in Nat /\ g[f] \in Nat)
    OBVIOUS
  <1>9. CASE x = f
    <2>1. SumOf(g, T \ {x}) = SumOf(h, T \ {x})
      BY <1>6, <1>9
    <2>2. PICK n \in Nat : n = SumOf(h, T \ {x})
      BY <1>7
    <2>3. SumOf(h, T) = h[f] + n /\ SumOf(g, T) = g[f] + n /\ f \in T
      BY <1>4, <1>5, <1>9, <2>1, <2>2
    <2>4. h[f] \in Nat /\ g[f] \in Nat
      BY <1>8, <2>3
    <2>5. g[f] + n = (h[f] + n) + g[f] - h[f]
      BY <2>4
    <2>6. Good(T)
      BY <2>3, <2>5
    <2> QED
      BY <1>1, <2>6
  <1>10. CASE x # f
    <2>1. g[x] = h[x] /\ (f \in T <=> f \in T \ {x})
      BY <1>10
    <2>2. Good(T)
      <3> HIDE DEF B
      <3> QED
        BY <1>4, <1>5, <1>6, <1>7, <1>8, <2>1
    <2> QED
      BY <1>1, <2>2
  <1> QED
    BY <1>9, <1>10

-----------------------------------------------------------------------------
(* The inductive invariant.                                                *)

Network == {"dns", "http"}

RequestTypes ==
    /\ synchronous \subseteq Request /\ executed \subseteq Request
    /\ phase \in [Request -> {"new", "checking", "waiting", "granted", "running", "returning", "done"}]
    /\ slot \in [Request -> BOOLEAN]
    /\ admitted \in [Request -> BOOLEAN]
    /\ fault \in [Request -> {"none", "failed", "cancelled", "capacity"}]
    /\ outcome \in [Request -> {"none", "ok", "failed", "cancelled", "capacity"}]
    /\ waiters \in Int /\ targets \in Int

FetchTypes ==
    /\ loc \in [Fetch -> {"idle", "gate", "spacing", "target", "process", "start", "unrefer",
                          "ungate", "fetching", "reading", "fetched"}]
    /\ held \in [Fetch -> BOOLEAN]
    /\ left \in [Request -> [Network -> Int]]
    /\ busy \in [Request -> [Network -> Int]]
    /\ process \in [Network -> Int]

GateTypes ==
    /\ gateOf \in [Destination -> Gate \cup {NoGate}]
    /\ gate \in [Gate -> [permit : {0, 1}, references : Int, elapsed : BOOLEAN]]
    /\ at \in [Fetch -> Gate \cup {NoGate}]
    /\ cooling \subseteq Destination

BodyTypes ==
    /\ bodyLeft \in [Request -> Nat]
    /\ reserved \in [Fetch -> Nat]
    /\ retained \in [Request -> Nat]

\* Slots belong to synchronous requests between the queue and their admission,
\* and a request that ran was admitted: no error it meets afterwards, and no
\* deadline of the wait, is reported as a full queue.
RequestSound ==
    \A r \in Request :
        /\ slot[r] => r \in synchronous
        /\ phase[r] \in {"new", "done"} => ~slot[r]
        /\ phase[r] = "checking" => slot[r]
        /\ outcome[r] # "none" => phase[r] = "done"
        /\ r \in executed => /\ phase[r] \in {"running", "returning", "done"}
                             /\ admitted[r] \/ r \notin synchronous
                             /\ phase[r] = "returning" => fault[r] \in {"none", "failed"}
                             /\ outcome[r] # "capacity"

\* The channels of the synchronous gate and of the controller.
Waiting == {r \in Request : phase[r] # "done" /\ slot[r]}

Running == {r \in Request : phase[r] \in {"granted", "running"}}

RequestsCounted == waiters = Cardinality(Waiting) /\ targets = Cardinality(Running)

\* Where a fetch is tells whether it holds network permits, a gate pointer and
\* a body reservation; only fetches of a running target are anywhere.
FetchShape(f) ==
    /\ loc[f] # "idle" => phase[Owner[f]] = "running"
    /\ loc[f] \in {"start", "fetching", "reading", "fetched"} => held[f]
    /\ loc[f] \in {"idle", "gate", "spacing", "target", "process"} => ~held[f]
    /\ Kind[f] = "dns" => loc[f] \in {"idle", "target", "process", "fetching"}
    /\ reserved[f] # 0 => loc[f] = "reading"
    /\ at[f] # NoGate <=> /\ Kind[f] = "http"
                          /\ loc[f] \notin {"idle", "fetching", "reading", "fetched"}

FetchSound == \A f \in Fetch : FetchShape(f)

\* The channels that count network permits.
InTarget(f) == held[f] \/ loc[f] = "process"

PermitsCounted ==
    /\ \A r \in Request, k \in Network : busy[r][k] = Cardinality({f \in Of(r, k) : InTarget(f)})
    /\ \A k \in Network : process[k] = Cardinality({f \in Fetch : Kind[f] = k /\ held[f]})

\* A fetch that has not let go of its gate uses the gate of its destination,
\* and no two destinations share one.
GateSound ==
    /\ \A f \in Fetch : at[f] # NoGate /\ loc[f] # "ungate" => gateOf[GoesTo[f]] = at[f]
    /\ \A f \in Fetch, d \in Destination : at[f] # NoGate /\ gateOf[d] = at[f] => d = GoesTo[f]
    /\ \A d, e \in Destination : gateOf[d] # NoGate /\ gateOf[d] = gateOf[e] => d = e

ReferencesCounted ==
    \A d \in Destination : gateOf[d] # NoGate =>
        gate[gateOf[d]].references =
            Cardinality({f \in Fetch : at[f] = gateOf[d] /\ loc[f] # "ungate"})

\* A fetch that took its gate's permit.
Passed(f) == at[f] # NoGate /\ loc[f] # "gate"

\* One fetch at a time is past a gate, the interval is over before it starts,
\* and a destination keeps its gate until the interval after a start is over.
GateExclusive ==
    /\ \A f \in Fetch : Passed(f) => gate[at[f]].permit = 1
    /\ \A f, h \in Fetch : Passed(f) /\ Passed(h) /\ at[f] = at[h] => f = h
    /\ \A f \in Fetch : Passed(f) /\ loc[f] \in {"target", "process", "start"} => gate[at[f]].elapsed
    /\ \A d \in cooling : gateOf[d] # NoGate /\ ~gate[gateOf[d]].elapsed

\* What a target may still read is what it neither kept nor set aside.
BodyCounted ==
    \A r \in Request : bodyLeft[r] + retained[r] + SumOf(reserved, Of(r, "http")) = TotalBodyBytes

AdmissionInv ==
    /\ RequestTypes /\ FetchTypes /\ GateTypes /\ BodyTypes
    /\ RequestSound /\ RequestsCounted
    /\ FetchSound /\ PermitsCounted
    /\ GateSound /\ ReferencesCounted /\ GateExclusive
    /\ BodyCounted

-----------------------------------------------------------------------------
(* Requests.                                                               *)

\* A counter that is moved with the set it counts stays its cardinality.
LEMMA CountChange ==
    ASSUME NEW S, IsFiniteSet(S), NEW n, n = Cardinality(S), NEW T, NEW m, NEW x,
           \/ T = S /\ m = n
           \/ x \notin S /\ T = S \cup {x} /\ m = n + 1
           \/ x \in S /\ T = S \ {x} /\ m = n - 1
    PROVE  m = Cardinality(T)
  BY FS_AddElement, FS_RemoveElement

LEMMA RequestSetsFinite == IsFiniteSet(Waiting) /\ IsFiniteSet(Running)
  BY LimitsValid, FS_Subset DEF Waiting, Running

\* How a step of one request may move the two channels of the requests.
RequestMove(r) ==
    /\ \/ Waiting' = Waiting /\ waiters' = waiters
       \/ r \notin Waiting /\ Waiting' = Waiting \cup {r} /\ waiters' = waiters + 1
       \/ r \in Waiting /\ Waiting' = Waiting \ {r} /\ waiters' = waiters - 1
    /\ \/ Running' = Running /\ targets' = targets
       \/ r \notin Running /\ Running' = Running \cup {r} /\ targets' = targets + 1
       \/ r \in Running /\ Running' = Running \ {r} /\ targets' = targets - 1

LEMMA MoveCounted ==
    ASSUME RequestsCounted, NEW r \in Request, RequestMove(r)
    PROVE  RequestsCounted'
  <1>1. waiters' = Cardinality(Waiting')
    <2>1. waiters = Cardinality(Waiting) /\ IsFiniteSet(Waiting)
      BY RequestSetsFinite DEF RequestsCounted
    <2>2. CASE Waiting' = Waiting /\ waiters' = waiters
      BY <2>1, <2>2
    <2>3. CASE r \notin Waiting /\ Waiting' = Waiting \cup {r} /\ waiters' = waiters + 1
      BY <2>1, <2>3, FS_AddElement
    <2>4. CASE r \in Waiting /\ Waiting' = Waiting \ {r} /\ waiters' = waiters - 1
      BY <2>1, <2>4, FS_RemoveElement
    <2> QED
      BY <2>2, <2>3, <2>4 DEF RequestMove
  <1>2. targets' = Cardinality(Running')
    <2>1. targets = Cardinality(Running) /\ IsFiniteSet(Running)
      BY RequestSetsFinite DEF RequestsCounted
    <2>2. CASE Running' = Running /\ targets' = targets
      BY <2>1, <2>2
    <2>3. CASE r \notin Running /\ Running' = Running \cup {r} /\ targets' = targets + 1
      BY <2>1, <2>3, FS_AddElement
    <2>4. CASE r \in Running /\ Running' = Running \ {r} /\ targets' = targets - 1
      BY <2>1, <2>4, FS_RemoveElement
    <2> QED
      BY <2>2, <2>3, <2>4 DEF RequestMove
  <1> QED
    BY <1>1, <1>2 DEF RequestsCounted

RequestInv == RequestTypes /\ RequestSound

LEMMA RequestActions ==
    ASSUME RequestInv, NEW r \in Request, RequestStep(r) \/ FailBeforeBegin(r)
    PROVE  RequestInv' /\ RequestMove(r)
  <1> USE DEF RequestInv, RequestTypes, RequestSound, RequestMove, Waiting, Running
  <1>1. CASE Refuse(r)
    BY <1>1 DEF Refuse, Answer
  <1>2. CASE CancelEarly(r)
    BY <1>2 DEF CancelEarly, Answer
  <1>3. CASE TakeSlot(r)
    BY <1>3 DEF TakeSlot
  <1>4. CASE CheckSlot(r)
    <2>1. CASE ParentEnded(r)
      <3>1. /\ phase' = [phase EXCEPT ![r] = "done"] /\ phase[r] = "checking"
            /\ outcome' = [outcome EXCEPT ![r] = "cancelled"]
            /\ fault' = [fault EXCEPT ![r] = "none"]
            /\ waiters' = waiters - 1
            /\ slot' = [slot EXCEPT ![r] = FALSE]
            /\ UNCHANGED <<synchronous, admitted, targets, executed>>
        BY <1>4, <2>1 DEF CheckSlot, Answer
      <3>2. RequestTypes'
        BY <3>1
      <3>3. RequestMove(r)
        BY <3>1
      <3>4. RequestSound'
        BY <3>1
      <3> QED
        BY <3>2, <3>3, <3>4
    <2>2. CASE ~ParentEnded(r)
      BY <1>4, <2>2 DEF CheckSlot
    <2> QED
      BY <2>1, <2>2
  <1>5. CASE StartDirectly(r)
    BY <1>5 DEF StartDirectly
  <1>6. CASE FailBeforeBegin(r)
    BY <1>6 DEF FailBeforeBegin
  <1>7. CASE GiveUp(r)
    BY <1>7 DEF GiveUp, BeginFault
  <1>8. CASE Grant(r)
    BY <1>8 DEF Grant
  <1>9. CASE Admit(r)
    <2>1. CASE WaitEnded(r)
      BY <1>9, <2>1 DEF Admit, BeginFault
    <2>2. CASE ~WaitEnded(r)
      <3>1. /\ phase' = [phase EXCEPT ![r] = "running"] /\ phase[r] = "granted"
            /\ admitted' = [admitted EXCEPT ![r] = r \in synchronous]
            /\ slot' = [slot EXCEPT ![r] = FALSE]
            /\ waiters' = IF slot[r] THEN waiters - 1 ELSE waiters
            /\ executed' = executed \cup {r}
            /\ UNCHANGED <<targets, fault, synchronous, outcome>>
        BY <1>9, <2>2 DEF Admit
      <3>2. PICK b \in BOOLEAN : b <=> r \in synchronous
        BY Zenon
      <3>3. admitted' = [admitted EXCEPT ![r] = b]
        <4>1. b = (r \in synchronous)
          BY <3>2, Zenon
        <4> QED
          BY <3>1, <4>1, Zenon
      <3>4. RequestTypes'
        BY <3>1, <3>3
      <3>5. RequestMove(r)
        BY <3>1
      <3>6. \A q \in Request : (admitted'[q] \/ q \notin synchronous) <=>
                               (q = r \/ admitted[q] \/ q \notin synchronous)
        BY <3>2, <3>3
      <3>7. RequestSound'
        BY <3>1, <3>6
      <3> QED
        BY <3>4, <3>5, <3>7
    <2> QED
      BY <2>1, <2>2
  <1>10. CASE Finish(r)
    BY <1>10 DEF Finish
  <1>11. CASE Return(r)
    BY <1>11 DEF Return, Answer, ReportedFault, TimedOut
  <1> QED
    BY <1>1, <1>2, <1>3, <1>4, <1>5, <1>6, <1>7, <1>8, <1>9, <1>10, <1>11 DEF RequestStep

\* The steps that move requests, fetches and gates, and the others.
Quiet == UNCHANGED <<requestVars, bodyVars, gateVars, fetchVars>>

LEMMA StepCases ==
    ASSUME [Next]_vars
    PROVE  \/ \E r \in Request : RequestStep(r) \/ FailBeforeBegin(r)
           \/ \E f \in Fetch : AcquireDNS(f) \/ AcquireHTTP(f) \/ FetchStep(f)
           \/ \E d \in Destination : Elapse(d)
           \/ Quiet
  BY DEF Next, vars, Quiet, EndParent, EndWait, EndRun, Terminated

LEMMA OnlyRequestsMove ==
    ASSUME [Next]_vars
    PROVE  (\E r \in Request : RequestStep(r) \/ FailBeforeBegin(r)) \/ UNCHANGED requestVars
  <1>1. ASSUME NEW f \in Fetch, FetchStep(f) PROVE UNCHANGED requestVars
    BY <1>1 DEF FetchStep, TakeGate, LeaveGate, WaitInterval, TakeTarget, TakeProcess, Start,
       ReleaseReference, ReleaseGate, ReserveHTTPBody, CommitBody, ReleaseNetwork
  <1> QED
    BY <1>1, StepCases DEF Quiet, AcquireDNS, AcquireHTTP, Elapse

LEMMA NextRequests ==
    ASSUME RequestInv, RequestsCounted, [Next]_vars
    PROVE  RequestInv' /\ RequestsCounted'
  <1>1. CASE UNCHANGED requestVars
    BY <1>1 DEF requestVars, RequestInv, RequestTypes, RequestSound, RequestsCounted, Waiting, Running
  <1> QED
    BY <1>1, OnlyRequestsMove, RequestActions, MoveCounted

-----------------------------------------------------------------------------
(* Fetches and network permits.                                            *)

\* A request only stops running once its goroutines have ended, and its steps
\* leave them alone.
LEMMA RequestsKeepFetches ==
    ASSUME RequestTypes, NEW r \in Request, RequestStep(r) \/ FailBeforeBegin(r)
    PROVE  /\ UNCHANGED <<loc, held, busy, process, reserved, gateVars>>
           /\ \A q \in Request : phase[q] = "running" =>
                phase'[q] = "running" \/ \A f \in Fetch : Owner[f] = q => loc[f] = "idle"
           /\ left' = left \/ left' = [left EXCEPT ![r] = Limit]
           /\ (bodyLeft' = bodyLeft /\ retained' = retained) \/ Finish(r)
  <1> USE DEF fetchVars, bodyVars, RequestTypes
  <1>1. CASE Finish(r)
    BY <1>1 DEF Finish
  <1>2. CASE ~Finish(r)
    BY <1>2 DEF RequestStep, FailBeforeBegin, Refuse, CancelEarly, TakeSlot, CheckSlot,
       StartDirectly, GiveUp, Grant, Admit, Return, Answer
  <1> QED
    BY <1>1, <1>2

\* How a step of one fetch may move its permits and their channels.
PermitMove(f) ==
    /\ \A h \in Fetch \ {f} : loc'[h] = loc[h] /\ held'[h] = held[h]
    /\ \A r \in Request, k \in Network :
         r # Owner[f] \/ k # Kind[f] => busy'[r][k] = busy[r][k]
    /\ \A k \in Network : k # Kind[f] => process'[k] = process[k]
    /\ LET b == busy[Owner[f]][Kind[f]]
       IN  \/ (InTarget(f)' <=> InTarget(f)) /\ b' = b
           \/ ~InTarget(f) /\ InTarget(f)' /\ b' = b + 1
           \/ InTarget(f) /\ ~InTarget(f)' /\ b' = b - 1
    /\ LET p == process[Kind[f]]
       IN  \/ (held'[f] <=> held[f]) /\ p' = p
           \/ ~held[f] /\ held'[f] /\ p' = p + 1
           \/ held[f] /\ ~held'[f] /\ p' = p - 1

LEMMA PermitsStayCounted ==
    ASSUME PermitsCounted, NEW f \in Fetch, PermitMove(f)
    PROVE  PermitsCounted'
  <1>1. Owner[f] \in Request /\ Kind[f] \in Network
    BY LimitsValid DEF Network
  <1>2. ASSUME NEW r \in Request, NEW k \in Network
        PROVE  busy'[r][k] = Cardinality({h \in Of(r, k) : InTarget(h)'})
    <2> DEFINE S == {h \in Of(r, k) : InTarget(h)}
               T == {h \in Of(r, k) : held'[h] \/ loc'[h] = "process"}
    <2>1. IsFiniteSet(S) /\ busy[r][k] = Cardinality(S)
      <3>1. S \in SUBSET Fetch
        BY DEF Of
      <3> QED
        BY <3>1, LimitsValid, FS_Subset DEF PermitsCounted
    <2>2. \/ T = S /\ busy'[r][k] = busy[r][k]
          \/ f \notin S /\ T = S \cup {f} /\ busy'[r][k] = busy[r][k] + 1
          \/ f \in S /\ T = S \ {f} /\ busy'[r][k] = busy[r][k] - 1
      <3>1. \A h \in Of(r, k) : h # f => (InTarget(h)' <=> InTarget(h))
        BY DEF PermitMove, InTarget, Of
      <3>2. CASE f \in Of(r, k)
        BY <3>1, <3>2 DEF PermitMove, Of, InTarget
      <3>3. CASE f \notin Of(r, k)
        BY <3>1, <3>3 DEF PermitMove, Of, InTarget
      <3> QED
        BY <3>2, <3>3
    <2> HIDE DEF S, T
    <2>3. busy'[r][k] = Cardinality(T)
      <3>1. PICK n, m : n = busy[r][k] /\ m = busy'[r][k]
        OBVIOUS
      <3>2. \/ T = S /\ m = n
            \/ f \notin S /\ T = S \cup {f} /\ m = n + 1
            \/ f \in S /\ T = S \ {f} /\ m = n - 1
        BY <2>1, <2>2, <3>1
      <3>3. m = Cardinality(T)
        <4>1. IsFiniteSet(S) /\ n = Cardinality(S)
          BY <2>1, <3>1
        <4> QED
          <5>1. CASE T = S /\ m = n
            BY <4>1, <5>1
          <5>2. CASE f \notin S /\ T = S \cup {f} /\ m = n + 1
            BY <4>1, <5>2, FS_AddElement
          <5>3. CASE f \in S /\ T = S \ {f} /\ m = n - 1
            BY <4>1, <5>3, FS_RemoveElement
          <5> QED
            BY <3>2, <5>1, <5>2, <5>3
      <3> QED
        BY <3>1, <3>3
    <2> QED
      BY <2>3 DEF T, InTarget
  <1>3. ASSUME NEW k \in Network
        PROVE  process'[k] = Cardinality({h \in Fetch : Kind[h] = k /\ held'[h]})
    <2> DEFINE S == {h \in Fetch : Kind[h] = k /\ held[h]}
               T == {h \in Fetch : Kind[h] = k /\ held'[h]}
    <2>1. IsFiniteSet(S) /\ process[k] = Cardinality(S)
      BY LimitsValid, FS_Subset DEF PermitsCounted
    <2>2. \/ T = S /\ process'[k] = process[k]
          \/ f \notin S /\ T = S \cup {f} /\ process'[k] = process[k] + 1
          \/ f \in S /\ T = S \ {f} /\ process'[k] = process[k] - 1
      <3>1. CASE Kind[f] = k
        BY <3>1 DEF PermitMove
      <3>2. CASE Kind[f] # k
        BY <3>2 DEF PermitMove
      <3> QED
        BY <3>1, <3>2
    <2> HIDE DEF S, T
    <2>3. process'[k] = Cardinality(T)
      BY <2>1, <2>2, CountChange
    <2> QED
      BY <2>3 DEF T
  <1>4. \A r \in Request, k \in Network : Of(r, k)' = Of(r, k)
    BY DEF Of
  <1> QED
    BY <1>2, <1>3, <1>4 DEF PermitsCounted

FetchInv == FetchTypes /\ GateTypes /\ BodyTypes /\ FetchSound

\* A step of one fetch leaves the others where they are.
OthersStay(f) ==
    \A h \in Fetch \ {f} : /\ loc'[h] = loc[h] /\ held'[h] = held[h]
                           /\ at'[h] = at[h] /\ reserved'[h] = reserved[h]

\* AcquireHTTP finds the gate of its destination or makes one, and refers to it.
FindsGate(f, g) ==
    /\ gateOf[GoesTo[f]] = g /\ ~Forgotten(GoesTo[f])
    /\ gate' = [gate EXCEPT ![g].references = @ + 1]

MakesGate(f, g) ==
    /\ gateOf[GoesTo[f]] = NoGate \/ Forgotten(GoesTo[f])
    /\ \A d \in Destination : gateOf[d] # g \/ Forgotten(d)
    /\ \A h \in Fetch : at[h] # g
    /\ gate' = [gate EXCEPT ![g] = [permit |-> 0, references |-> 1, elapsed |-> TRUE]]

LEMMA AcquireHTTPGate ==
    ASSUME GateTypes, NEW f \in Fetch, AcquireHTTP(f)
    PROVE  \E g \in Gate :
             /\ at' = [at EXCEPT ![f] = g]
             /\ gateOf' = [d \in Destination |-> IF d = GoesTo[f] THEN g
                                                 ELSE IF Forgotten(d) THEN NoGate ELSE gateOf[d]]
             /\ FindsGate(f, g) \/ MakesGate(f, g)
  <1>0. GoesTo[f] \in Destination /\ NoGate \notin Gate
    BY LimitsValid
  <1>1. PICK kept : kept = [d \in Destination |-> IF Forgotten(d) THEN NoGate ELSE gateOf[d]]
    OBVIOUS
  <1>2. PICK unused : unused = {g \in Gate : /\ \A d \in Destination : kept[d] # g
                                            /\ \A h \in Fetch : at[h] # g}
    OBVIOUS
  <1>3. PICK mine : mine = kept[GoesTo[f]]
    OBVIOUS
  <1>4. PICK given : given = IF mine # NoGate THEN mine ELSE CHOOSE g \in unused : TRUE
    OBVIOUS
  <1>5. PICK record : record = IF mine # NoGate THEN gate[mine] ELSE NewGate
    OBVIOUS
  <1>6. /\ mine # NoGate \/ unused # {}
        /\ gateOf' = [kept EXCEPT ![GoesTo[f]] = given]
        /\ gate' = [gate EXCEPT ![given] = [record EXCEPT !.references = @ + 1]]
        /\ at' = [at EXCEPT ![f] = given]
    BY <1>1, <1>2, <1>3, <1>4, <1>5 DEF AcquireHTTP
  <1>7. given \in Gate
    BY <1>0, <1>1, <1>2, <1>3, <1>4, <1>6 DEF GateTypes
  <1>8. gateOf' = [d \in Destination |-> IF d = GoesTo[f] THEN given
                                         ELSE IF Forgotten(d) THEN NoGate ELSE gateOf[d]]
    BY <1>1, <1>6
  <1>9. CASE mine # NoGate
    <2>1. gateOf[GoesTo[f]] = given /\ ~Forgotten(GoesTo[f])
      BY <1>0, <1>1, <1>3, <1>4, <1>9
    <2>2. gate' = [gate EXCEPT ![given].references = @ + 1]
      BY <1>4, <1>5, <1>6, <1>7, <1>9 DEF GateTypes
    <2> QED
      BY <1>6, <1>7, <1>8, <2>1, <2>2 DEF FindsGate
  <1>10. CASE mine = NoGate
    <2>1. given \in unused
      BY <1>4, <1>6, <1>10
    <2>2. \A d \in Destination : gateOf[d] # given \/ Forgotten(d)
      BY <1>1, <1>2, <2>1
    <2>3. \A h \in Fetch : at[h] # given
      BY <1>2, <2>1
    <2>4. gate' = [gate EXCEPT ![given] = [permit |-> 0, references |-> 1, elapsed |-> TRUE]]
      <3>1. [record EXCEPT !.references = @ + 1] = [permit |-> 0, references |-> 1, elapsed |-> TRUE]
        <4>1. record = [permit |-> 0, references |-> 0, elapsed |-> TRUE]
          BY <1>5, <1>10 DEF NewGate
        <4>2. record.references + 1 = 1
          BY <4>1
        <4>3. [record EXCEPT !.references = @ + 1] = [record EXCEPT !.references = 1]
          BY <4>2, Zenon
        <4>4. [record EXCEPT !.references = 1] = [permit |-> 0, references |-> 1, elapsed |-> TRUE]
          <5>1. PICK t : t = [record EXCEPT !.references = 1]
            OBVIOUS
          <5>2. t.permit = 0 /\ t.references = 1 /\ DOMAIN t = {"permit", "references", "elapsed"}
            BY <4>1, <5>1
          <5>3. t.elapsed = TRUE
            BY <4>1, <5>1, Zenon
          <5> QED
            BY <5>1, <5>2, <5>3, Zenon
        <4> QED
          BY <4>3, <4>4, Zenon
      <3> QED
        BY <1>6, <3>1
    <2> QED
      BY <1>0, <1>1, <1>3, <1>6, <1>7, <1>8, <1>10, <2>2, <2>3, <2>4 DEF MakesGate
  <1> QED
    BY <1>9, <1>10

LEMMA FetchActions ==
    ASSUME FetchInv, NEW f \in Fetch, AcquireDNS(f) \/ AcquireHTTP(f) \/ FetchStep(f)
    PROVE  FetchTypes' /\ FetchShape(f)' /\ PermitMove(f) /\ OthersStay(f)
  <1>0. Owner[f] \in Request /\ Kind[f] \in Network /\ NoGate \notin Gate
    BY LimitsValid DEF Network
  <1>a. FetchShape(f)
    BY DEF FetchInv, FetchSound
  <1> USE <1>0, <1>a DEF FetchInv, FetchTypes, GateTypes, BodyTypes, FetchShape, PermitMove,
          OthersStay, InTarget, Network, fetchVars, gateVars, bodyVars, requestVars
  <1>1. CASE AcquireDNS(f)
    BY <1>1 DEF AcquireDNS, HasBudget, Spent
  <1>2. CASE AcquireHTTP(f)
    <2>1. PICK g \in Gate : at' = [at EXCEPT ![f] = g]
      BY <1>2, AcquireHTTPGate
    <2>2. /\ Kind[f] = "http" /\ phase[Owner[f]] = "running" /\ loc[f] = "idle"
          /\ left' = [left EXCEPT ![Owner[f]][Kind[f]] = @ - 1]
          /\ loc' = [loc EXCEPT ![f] = "gate"]
          /\ UNCHANGED <<phase, held, busy, process, reserved>>
      BY <1>2 DEF AcquireHTTP, HasBudget, Spent
    <2> QED
      BY <2>1, <2>2
  <1>3. CASE TakeGate(f)
    BY <1>3 DEF TakeGate
  <1>4. CASE LeaveGate(f)
    BY <1>4 DEF LeaveGate
  <1>5. CASE WaitInterval(f)
    BY <1>5 DEF WaitInterval
  <1>6. CASE TakeTarget(f)
    <2>1. CASE RunEnded(f)
      BY <1>6, <2>1 DEF TakeTarget, AfterFailure
    <2>2. CASE ~RunEnded(f)
      <3>1. /\ loc[f] = "target" /\ loc' = [loc EXCEPT ![f] = "process"]
            /\ busy' = [busy EXCEPT ![Owner[f]][Kind[f]] = @ + 1]
            /\ UNCHANGED <<phase, at, left, held, process, reserved>>
        BY <1>6, <2>2 DEF TakeTarget
      <3> QED
        BY <3>1
    <2> QED
      BY <2>1, <2>2
  <1>7. CASE TakeProcess(f)
    <2>1. CASE RunEnded(f)
      <3>1. /\ loc' = [loc EXCEPT ![f] = IF Kind[f] = "http" THEN "unrefer" ELSE "idle"]
            /\ busy' = [busy EXCEPT ![Owner[f]][Kind[f]] = @ - 1]
            /\ loc[f] = "process"
            /\ UNCHANGED <<phase, process, held, left, at, reserved>>
        BY <1>7, <2>1 DEF TakeProcess, AfterFailure
      <3>2. FetchTypes'
        BY <3>1
      <3>3. FetchShape(f)'
        BY <3>1
      <3>4. PermitMove(f) /\ OthersStay(f)
        BY <3>1
      <3> QED
        BY <3>2, <3>3, <3>4
    <2>2. CASE ~RunEnded(f)
      <3>1. /\ loc' = [loc EXCEPT ![f] = IF Kind[f] = "http" THEN "start" ELSE "fetching"]
            /\ process' = [process EXCEPT ![Kind[f]] = @ + 1]
            /\ held' = [held EXCEPT ![f] = TRUE]
            /\ loc[f] = "process"
            /\ UNCHANGED <<phase, busy, left, at, reserved>>
        BY <1>7, <2>2 DEF TakeProcess
      <3>2. FetchTypes'
        BY <3>1
      <3>3. FetchShape(f)'
        BY <3>1
      <3>4. PermitMove(f) /\ OthersStay(f)
        BY <3>1
      <3> QED
        BY <3>2, <3>3, <3>4
    <2> QED
      BY <2>1, <2>2
  <1>8. CASE Start(f)
    BY <1>8 DEF Start
  <1>9. CASE ReleaseReference(f)
    BY <1>9 DEF ReleaseReference
  <1>10. CASE ReleaseGate(f)
    BY <1>10 DEF ReleaseGate
  <1>11. CASE ReserveHTTPBody(f)
    BY <1>11 DEF ReserveHTTPBody
  <1>12. CASE CommitBody(f)
    BY <1>12 DEF CommitBody
  <1>13. CASE ReleaseNetwork(f)
    BY <1>13 DEF ReleaseNetwork
  <1> QED
    BY <1>1, <1>2, <1>3, <1>4, <1>5, <1>6, <1>7, <1>8, <1>9, <1>10, <1>11, <1>12, <1>13
    DEF FetchStep

LEMMA NextFetches ==
    ASSUME RequestTypes, FetchInv, PermitsCounted, [Next]_vars
    PROVE  FetchTypes' /\ FetchSound' /\ PermitsCounted'
  <1>0. \A f \in Fetch : Owner[f] \in Request /\ Kind[f] \in Network
    BY LimitsValid DEF Network
  <1>1. ASSUME NEW f \in Fetch, AcquireDNS(f) \/ AcquireHTTP(f) \/ FetchStep(f)
        PROVE  FetchTypes' /\ FetchSound' /\ PermitsCounted'
    <2>1. FetchTypes' /\ FetchShape(f)' /\ PermitMove(f) /\ OthersStay(f)
      BY <1>1, FetchActions
    <2>2. phase' = phase
      <3>1. \A r \in Request : FetchStep(f) => phase' = phase
        BY DEF FetchStep, TakeGate, LeaveGate, WaitInterval, TakeTarget, TakeProcess, Start,
           ReleaseReference, ReleaseGate, ReserveHTTPBody, CommitBody, ReleaseNetwork, requestVars
      <3> QED
        BY <1>0, <1>1, <3>1 DEF AcquireDNS, AcquireHTTP, requestVars
    <2>3. ASSUME NEW h \in Fetch \ {f} PROVE FetchShape(h)'
      BY <2>1, <2>2 DEF FetchInv, FetchSound, FetchShape, OthersStay
    <2> QED
      BY <2>1, <2>3, PermitsStayCounted DEF FetchSound
  <1>2. ASSUME NEW r \in Request, RequestStep(r) \/ FailBeforeBegin(r)
        PROVE  FetchTypes' /\ FetchSound' /\ PermitsCounted'
    <2>1. /\ UNCHANGED <<loc, held, busy, process, reserved, at>>
          /\ \A q \in Request : phase[q] = "running" =>
                phase'[q] = "running" \/ \A f \in Fetch : Owner[f] = q => loc[f] = "idle"
          /\ left' = left \/ left' = [left EXCEPT ![r] = Limit]
      BY <1>2, RequestsKeepFetches DEF gateVars
    <2>2. Limit \in [Network -> Int]
      BY LimitsValid DEF Network
    <2>3. FetchTypes'
      BY <2>1, <2>2 DEF FetchInv, FetchTypes
    <2>4. FetchSound'
      BY <1>0, <2>1 DEF FetchInv, FetchSound, FetchShape
    <2>5. PermitsCounted'
      BY <2>1 DEF PermitsCounted, InTarget, Of
    <2> QED
      BY <2>3, <2>4, <2>5
  <1>3. ASSUME UNCHANGED <<phase, loc, held, left, busy, process, reserved, at>>
        PROVE  FetchTypes' /\ FetchSound' /\ PermitsCounted'
    <2>1. FetchTypes' /\ FetchSound'
      BY <1>3 DEF FetchInv, FetchTypes, FetchSound, FetchShape
    <2>2. PermitsCounted'
      BY <1>3 DEF PermitsCounted, InTarget, Of
    <2> QED
      BY <2>1, <2>2
  <1> QED
    BY <1>1, <1>2, <1>3, StepCases DEF Elapse, Quiet, requestVars, fetchVars, gateVars, bodyVars

-----------------------------------------------------------------------------
(* Destination gates.                                                      *)

GateInv == GateTypes /\ GateSound /\ ReferencesCounted /\ GateExclusive

\* How many fetches refer to a gate.
Referring(g) == {f \in Fetch : at[f] = g /\ loc[f] # "ungate"}

LEMMA ReferringFinite == \A g : IsFiniteSet(Referring(g))
  BY LimitsValid, FS_Subset DEF Referring

\* The steps that only read gates.
LEMMA GatesUntouched ==
    ASSUME GateInv, FetchInv, UNCHANGED gateVars, NEW f \in Fetch,
           \A h \in Fetch \ {f} : loc'[h] = loc[h],
           at[f] # NoGate => loc[f] # "gate" /\ loc[f] # "ungate" /\ loc'[f] # "gate" /\ loc'[f] # "ungate",
           at[f] # NoGate /\ loc'[f] \in {"target", "process", "start"} => gate[at[f]].elapsed
    PROVE  GateInv'
  <1> USE DEF gateVars, GateInv, GateTypes
  <1>1. \A h \in Fetch : at[h] # NoGate => /\ loc'[h] = "gate" <=> loc[h] = "gate"
                                          /\ loc'[h] = "ungate" <=> loc[h] = "ungate"
    OBVIOUS
  <1>2. GateSound'
    BY <1>1 DEF GateSound
  <1>3. ReferencesCounted'
    <2>1. ASSUME NEW d \in Destination, gateOf[d] # NoGate
          PROVE  {h \in Fetch : at[h] = gateOf[d] /\ loc'[h] # "ungate"} =
                 {h \in Fetch : at[h] = gateOf[d] /\ loc[h] # "ungate"}
      BY <1>1, <2>1
    <2> QED
      BY <2>1 DEF ReferencesCounted
  <1>4. GateExclusive'
    BY <1>1 DEF GateExclusive, Passed
  <1> QED
    BY <1>2, <1>3, <1>4

\* A fetch at its gate has one, which its destination keeps.
LEMMA AtGate ==
    ASSUME GateInv, FetchInv, NEW f \in Fetch,
           loc[f] \in {"gate", "spacing", "start", "unrefer", "ungate"}
    PROVE  /\ at[f] \in Gate /\ GoesTo[f] \in Destination /\ NoGate \notin Gate
           /\ loc[f] # "ungate" => gateOf[GoesTo[f]] = at[f]
           /\ \A d \in Destination : gateOf[d] = at[f] => d = GoesTo[f]
  <1>1. GoesTo[f] \in Destination /\ NoGate \notin Gate /\ Kind[f] \in {"dns", "http"}
    BY LimitsValid
  <1>2. at[f] # NoGate
    BY <1>1 DEF FetchInv, FetchSound, FetchShape
  <1> QED
    BY <1>1, <1>2 DEF GateInv, GateSound, GateTypes

\* References stay counted when no fetch takes or gives up one.
LEMMA ReferencesKept ==
    ASSUME GateTypes, ReferencesCounted, gateOf' = gateOf,
           \A g \in Gate : gate'[g].references = gate[g].references,
           \A d \in Destination, h \in Fetch :
             gateOf[d] # NoGate => ((at'[h] = gateOf[d] /\ loc'[h] # "ungate") <=>
                                    (at[h] = gateOf[d] /\ loc[h] # "ungate"))
    PROVE  ReferencesCounted'
  <1>1. ASSUME NEW d \in Destination, gateOf[d] # NoGate
        PROVE  gate'[gateOf[d]].references =
                  Cardinality({h \in Fetch : at'[h] = gateOf[d] /\ loc'[h] # "ungate"})
    <2>1. {h \in Fetch : at'[h] = gateOf[d] /\ loc'[h] # "ungate"} =
          {h \in Fetch : at[h] = gateOf[d] /\ loc[h] # "ungate"}
      BY <1>1
    <2>2. gate[gateOf[d]].references =
             Cardinality({h \in Fetch : at[h] = gateOf[d] /\ loc[h] # "ungate"})
      BY <1>1 DEF ReferencesCounted
    <2>3. gateOf[d] \in Gate
      BY <1>1 DEF GateTypes
    <2> QED
      BY <2>1, <2>2, <2>3
  <1> QED
    BY <1>1 DEF ReferencesCounted

LEMMA GateTaken ==
    ASSUME NEW x \in [permit : {0, 1}, references : Int, elapsed : BOOLEAN]
    PROVE  [x EXCEPT !.permit = 1] \in [permit : {0, 1}, references : Int, elapsed : BOOLEAN]
  OBVIOUS

LEMMA TakeGateSound ==
    ASSUME GateInv, FetchInv, NEW f \in Fetch, TakeGate(f)
    PROVE  GateInv'
  <1>0. at[f] \in Gate
    BY AtGate DEF TakeGate
  <1>1. /\ gate' = [gate EXCEPT ![at[f]].permit = 1]
        /\ loc[f] = "gate" /\ gate[at[f]].permit = 0
        /\ loc' = [loc EXCEPT ![f] = "spacing"]
        /\ UNCHANGED <<gateOf, at, cooling>>
    BY DEF TakeGate
  <1> USE <1>0, <1>1 DEF GateInv, FetchInv, GateTypes, FetchTypes
  <1>a. \A g \in Gate : gate'[g] = IF g = at[f] THEN [gate[g] EXCEPT !.permit = 1] ELSE gate[g]
    OBVIOUS
  <1>2. /\ \A g \in Gate : /\ gate'[g].references = gate[g].references
                          /\ gate'[g].permit = IF g = at[f] THEN 1 ELSE gate[g].permit
        /\ GateTypes'
    <2>1. \A g \in Gate : /\ gate'[g].references = gate[g].references
                         /\ gate'[g].permit = IF g = at[f] THEN 1 ELSE gate[g].permit
      BY <1>a
    <2>2. GateTypes'
      <3>1. [gate[at[f]] EXCEPT !.permit = 1]
              \in [permit : {0, 1}, references : Int, elapsed : BOOLEAN]
        BY GateTaken
      <3> QED
        BY <3>1
    <2> QED
      BY <2>1, <2>2
  <1>3. \A g \in Gate : gate'[g].elapsed <=> gate[g].elapsed
    BY <1>a
  <1>4. GateSound'
    BY DEF GateSound
  <1>5. ReferencesCounted'
    BY <1>2, ReferencesKept
  <1>6. GateExclusive'
    BY <1>2, <1>3 DEF GateExclusive, Passed
  <1> QED
    BY <1>2, <1>4, <1>5, <1>6

LEMMA StartSound ==
    ASSUME GateInv, FetchInv, NEW f \in Fetch, Start(f)
    PROVE  GateInv'
  <1>0. /\ at[f] \in Gate /\ GoesTo[f] \in Destination /\ gateOf[GoesTo[f]] = at[f]
        /\ NoGate \notin Gate
    BY AtGate DEF Start
  <1>1. /\ gate' = [gate EXCEPT ![at[f]].elapsed = FALSE]
        /\ loc[f] = "start" /\ cooling' = cooling \cup {GoesTo[f]}
        /\ loc' = [loc EXCEPT ![f] = "unrefer"]
        /\ UNCHANGED <<gateOf, at>>
    BY DEF Start
  <1> USE <1>0, <1>1 DEF GateInv, FetchInv, GateTypes, FetchTypes
  <1>2. /\ \A g \in Gate : /\ gate'[g].references = gate[g].references
                          /\ gate'[g].permit = gate[g].permit
        /\ GateTypes'
    OBVIOUS
  <1>3. \A g \in Gate : gate'[g].elapsed <=> g # at[f] /\ gate[g].elapsed
    OBVIOUS
  <1>4. GateSound'
    BY DEF GateSound
  <1>5. ReferencesCounted'
    BY <1>2, ReferencesKept
  <1>6. GateExclusive'
    BY <1>2, <1>3 DEF GateExclusive, Passed
  <1> QED
    BY <1>2, <1>4, <1>5, <1>6

\* A reference goes with the fetch that gave it up.
LEMMA ReferenceReleased ==
    ASSUME GateInv, FetchInv, NEW f \in Fetch, at[f] \in Gate, loc[f] # "ungate",
           gate' = [gate EXCEPT ![at[f]].references = @ - 1], gateOf' = gateOf,
           \A h \in Fetch \ {f} : loc'[h] = loc[h] /\ at'[h] = at[h],
           at'[f] = NoGate \/ loc'[f] = "ungate", NoGate \notin Gate
    PROVE  ReferencesCounted'
  <1> USE DEF GateInv, GateTypes
  <1>1. ASSUME NEW d \in Destination, gateOf[d] # NoGate
        PROVE  gate'[gateOf[d]].references =
                  Cardinality({h \in Fetch : at'[h] = gateOf[d] /\ loc'[h] # "ungate"})
    <2> DEFINE T == {h \in Fetch : at'[h] = gateOf[d] /\ loc'[h] # "ungate"}
    <2>1. PICK n, m : n = gate[gateOf[d]].references /\ m = gate'[gateOf[d]].references
      OBVIOUS
    <2>2. IsFiniteSet(Referring(gateOf[d])) /\ n = Cardinality(Referring(gateOf[d]))
      BY <1>1, <2>1, ReferringFinite DEF ReferencesCounted, Referring
    <2>3. CASE gateOf[d] = at[f]
      <3>1. f \in Referring(gateOf[d]) /\ T = Referring(gateOf[d]) \ {f} /\ m = n - 1
        BY <1>1, <2>1, <2>3 DEF Referring
      <3> HIDE DEF T
      <3>2. m = Cardinality(T)
        BY <2>2, <3>1, FS_RemoveElement
      <3> QED
        BY <2>1, <3>2 DEF T
    <2>4. CASE gateOf[d] # at[f]
      <3>1. T = Referring(gateOf[d]) /\ m = n
        BY <1>1, <2>1, <2>4 DEF Referring
      <3> QED
        BY <2>1, <2>2, <3>1
    <2> QED
      BY <2>3, <2>4
  <1> QED
    BY <1>1 DEF ReferencesCounted

LEMMA LeaveGateSound ==
    ASSUME GateInv, FetchInv, NEW f \in Fetch, LeaveGate(f) \/ ReleaseReference(f)
    PROVE  GateInv'
  <1>0. at[f] \in Gate /\ NoGate \notin Gate
    BY AtGate DEF LeaveGate, ReleaseReference
  <1>1. /\ gate' = [gate EXCEPT ![at[f]].references = @ - 1]
        /\ loc[f] \in {"gate", "unrefer"}
        /\ \/ /\ loc[f] = "gate"
              /\ at' = [at EXCEPT ![f] = NoGate] /\ loc' = [loc EXCEPT ![f] = "idle"]
           \/ /\ loc[f] = "unrefer"
              /\ at' = at /\ loc' = [loc EXCEPT ![f] = "ungate"]
        /\ UNCHANGED <<gateOf, cooling>>
    BY DEF LeaveGate, ReleaseReference
  <1> USE <1>0, <1>1 DEF GateInv, FetchInv, GateTypes, FetchTypes
  <1>2. /\ \A h \in Fetch : loc'[h] = IF h # f THEN loc[h] ELSE IF loc[f] = "gate" THEN "idle" ELSE "ungate"
        /\ \A h \in Fetch : at'[h] = IF h = f /\ loc[f] = "gate" THEN NoGate ELSE at[h]
    OBVIOUS
  <1>3. GateTypes'
    <2>1. at' \in [Fetch -> Gate \cup {NoGate}]
      <3>1. CASE loc[f] = "gate"
        BY <3>1
      <3>2. CASE loc[f] = "unrefer"
        BY <3>2
      <3> QED
        BY <3>1, <3>2
    <2>2. gate' \in [Gate -> [permit : {0, 1}, references : Int, elapsed : BOOLEAN]]
      <3>0. PICK n : n = gate[at[f]].references - 1
        OBVIOUS
      <3>1. PICK t : t = [gate[at[f]] EXCEPT !.references = n]
        OBVIOUS
      <3>2. t \in [permit : {0, 1}, references : Int, elapsed : BOOLEAN]
        <4>1. gate[at[f]] \in [permit : {0, 1}, references : Int, elapsed : BOOLEAN] /\ n \in Int
          BY <3>0
        <4> QED
          BY <3>1, <4>1, Zenon
      <3>3. gate' = [gate EXCEPT ![at[f]] = t]
        BY <3>0, <3>1
      <3> QED
        BY <3>2, <3>3
    <2> QED
      BY <2>1, <2>2
  <1>4. GateSound'
    BY <1>2 DEF GateSound
  <1>5. ReferencesCounted'
    BY <1>2, ReferenceReleased
  <1>6. \A g \in Gate : gate'[g].permit = gate[g].permit /\ (gate'[g].elapsed <=> gate[g].elapsed)
    OBVIOUS
  <1>7. GateExclusive'
    <2>1. \A h \in Fetch : at'[h] # NoGate /\ loc'[h] # "gate" =>
             /\ at[h] # NoGate /\ loc[h] # "gate" /\ at'[h] = at[h]
             /\ loc'[h] \in {"target", "process", "start"} => loc'[h] = loc[h]
      BY <1>2
    <2> QED
      BY <1>6, <2>1 DEF GateExclusive, Passed
  <1> QED
    BY <1>3, <1>4, <1>5, <1>7

LEMMA ReleaseGateSound ==
    ASSUME GateInv, FetchInv, NEW f \in Fetch, ReleaseGate(f)
    PROVE  GateInv'
  <1>0. at[f] \in Gate /\ NoGate \notin Gate
    BY AtGate DEF ReleaseGate
  <1>1. /\ gate' = [gate EXCEPT ![at[f]].permit = 0]
        /\ loc[f] = "ungate"
        /\ at' = [at EXCEPT ![f] = NoGate]
        /\ loc' = [loc EXCEPT ![f] = IF held[f] THEN "fetching" ELSE "idle"]
        /\ UNCHANGED <<gateOf, cooling>>
    BY DEF ReleaseGate
  <1> USE <1>0, <1>1 DEF GateInv, FetchInv, GateTypes, FetchTypes
  <1>2. /\ \A h \in Fetch \ {f} : loc'[h] = loc[h] /\ at'[h] = at[h]
        /\ at'[f] = NoGate
    OBVIOUS
  <1>3. GateTypes'
    OBVIOUS
  <1>4. GateSound'
    BY <1>2 DEF GateSound
  <1>5. \A g \in Gate : /\ gate'[g].references = gate[g].references
                        /\ gate'[g].permit = IF g = at[f] THEN 0 ELSE gate[g].permit
    OBVIOUS
  <1>6. \A g \in Gate : gate'[g].elapsed <=> gate[g].elapsed
    OBVIOUS
  <1>7. ReferencesCounted'
    BY <1>2, <1>5, ReferencesKept
  <1>8. GateExclusive'
    BY <1>2, <1>5, <1>6 DEF GateExclusive, Passed
  <1> QED
    BY <1>3, <1>4, <1>7, <1>8

\* The gate of a destination that is cooling, or that a fetch refers to, is
\* not forgotten.
LEMMA AcquireHTTPSound ==
    ASSUME GateInv, FetchInv, NEW f \in Fetch, AcquireHTTP(f)
    PROVE  GateInv'
  <1>0. GoesTo[f] \in Destination /\ NoGate \notin Gate
    BY LimitsValid
  <1>1. PICK g \in Gate :
             /\ at' = [at EXCEPT ![f] = g]
             /\ gateOf' = [d \in Destination |-> IF d = GoesTo[f] THEN g
                                                 ELSE IF Forgotten(d) THEN NoGate ELSE gateOf[d]]
             /\ FindsGate(f, g) \/ MakesGate(f, g)
    BY AcquireHTTPGate DEF GateInv
  <1>2. /\ at[f] = NoGate /\ loc[f] = "idle"
        /\ loc' = [loc EXCEPT ![f] = "gate"] /\ cooling' = cooling
    BY LimitsValid DEF AcquireHTTP, HasBudget, FetchInv, FetchSound, FetchShape
  <1> USE <1>0, <1>1, <1>2 DEF GateInv, FetchInv, GateTypes, FetchTypes
  <1>3. /\ at'[f] = g /\ loc'[f] = "gate"
        /\ \A h \in Fetch \ {f} : at'[h] = at[h] /\ loc'[h] = loc[h]
    OBVIOUS
  <1>4. \A d \in Destination : gateOf'[d] # NoGate /\ d # GoesTo[f] =>
           gateOf'[d] = gateOf[d] /\ ~Forgotten(d) /\ gateOf[d] # g
    <2>1. CASE FindsGate(f, g)
      BY <2>1 DEF FindsGate, GateSound
    <2>2. CASE MakesGate(f, g)
      BY <2>2 DEF MakesGate
    <2> QED
      BY <2>1, <2>2
  <1>5. \A h \in Fetch : at[h] # NoGate /\ loc[h] # "ungate" => ~Forgotten(GoesTo[h])
    <2>1. ASSUME NEW h \in Fetch, at[h] # NoGate, loc[h] # "ungate", Forgotten(GoesTo[h])
          PROVE  FALSE
      <3>1. GoesTo[h] \in Destination /\ gateOf[GoesTo[h]] = at[h]
        BY <2>1, LimitsValid DEF GateSound
      <3>2. Cardinality(Referring(gateOf[GoesTo[h]])) = 0
        BY <2>1, <3>1 DEF Forgotten, ReferencesCounted, Referring
      <3>3. h \in Referring(gateOf[GoesTo[h]])
        BY <2>1, <3>1 DEF Referring
      <3> QED
        BY <3>2, <3>3, ReferringFinite, FS_EmptySet
    <2> QED
      BY <2>1
  <1>6. GateTypes'
    <2>1. CASE FindsGate(f, g)
      BY <2>1 DEF FindsGate
    <2>2. CASE MakesGate(f, g)
      <3>1. [permit |-> 0, references |-> 1, elapsed |-> TRUE]
               \in [permit : {0, 1}, references : Int, elapsed : BOOLEAN]
        OBVIOUS
      <3>2. PICK t : t = [permit |-> 0, references |-> 1, elapsed |-> TRUE]
        OBVIOUS
      <3> QED
        BY <2>2, <3>1, <3>2 DEF MakesGate
    <2> QED
      BY <2>1, <2>2
  <1>7. GateSound'
    <2>1. \A h \in Fetch : at'[h] # NoGate /\ loc'[h] # "ungate" => gateOf'[GoesTo[h]] = at'[h]
      <3>1. ASSUME NEW h \in Fetch \ {f}, at[h] # NoGate, loc[h] # "ungate"
            PROVE  gateOf'[GoesTo[h]] = at[h]
        <4>1. GoesTo[h] \in Destination /\ gateOf[GoesTo[h]] = at[h] /\ ~Forgotten(GoesTo[h])
          BY <1>5, <3>1, LimitsValid DEF GateSound
        <4>2. CASE GoesTo[h] = GoesTo[f]
          <5>1. FindsGate(f, g)
            BY <3>1, <4>1, <4>2 DEF MakesGate
          <5> QED
            BY <4>1, <4>2, <5>1 DEF FindsGate
        <4>3. CASE GoesTo[h] # GoesTo[f]
          BY <4>1, <4>3
        <4> QED
          BY <4>2, <4>3
      <3> QED
        BY <1>3, <3>1
    <2>2. \A h \in Fetch, d \in Destination :
             at'[h] # NoGate /\ gateOf'[d] = at'[h] => d = GoesTo[h]
      <3>1. ASSUME NEW h \in Fetch \ {f}, at[h] = g PROVE GoesTo[h] = GoesTo[f]
        BY <3>1 DEF FindsGate, MakesGate, GateSound
      <3> QED
        BY <1>3, <1>4, <3>1 DEF GateSound
    <2>3. \A d, e \in Destination : gateOf'[d] # NoGate /\ gateOf'[d] = gateOf'[e] => d = e
      BY <1>4 DEF GateSound
    <2> QED
      BY <2>1, <2>2, <2>3 DEF GateSound
  <1>8. \A k \in Gate \ {g} : gate'[k] = gate[k]
    BY DEF FindsGate, MakesGate
  <1>9. ReferencesCounted'
    <2>1. ASSUME NEW d \in Destination, gateOf'[d] # NoGate
          PROVE  gate'[gateOf'[d]].references =
                    Cardinality({h \in Fetch : at'[h] = gateOf'[d] /\ loc'[h] # "ungate"})
      <3> DEFINE T == {h \in Fetch : at'[h] = gateOf'[d] /\ loc'[h] # "ungate"}
      <3>1. CASE d # GoesTo[f]
        <4>1. gateOf'[d] = gateOf[d] /\ gateOf[d] # g
          BY <1>4, <2>1, <3>1
        <4>2. T = Referring(gateOf[d])
          <5>1. \A h \in Fetch : (at'[h] = gateOf'[d] /\ loc'[h] # "ungate") <=>
                                 (at[h] = gateOf[d] /\ loc[h] # "ungate")
            BY <1>2, <1>3, <2>1, <4>1
          <5> QED
            BY <5>1 DEF Referring
        <4>3. gate'[gateOf[d]] = gate[gateOf[d]]
          BY <1>8, <2>1, <4>1
        <4>4. gate[gateOf[d]].references = Cardinality(Referring(gateOf[d]))
          BY <2>1, <4>1 DEF ReferencesCounted, Referring
        <4> QED
          BY <4>1, <4>2, <4>3, <4>4
      <3>2. CASE d = GoesTo[f] /\ FindsGate(f, g)
        <4>1. gateOf'[d] = g /\ gateOf[d] = g
          BY <3>2 DEF FindsGate
        <4>2. T = Referring(g) \cup {f} /\ f \notin Referring(g)
          BY <1>3, <4>1 DEF Referring
        <4>3. gate[g].references = Cardinality(Referring(g))
          BY <4>1 DEF ReferencesCounted, Referring
        <4>4. gate'[g].references = gate[g].references + 1
          BY <3>2 DEF FindsGate
        <4>5. Cardinality(Referring(g) \cup {f}) = Cardinality(Referring(g)) + 1
          BY <4>2, ReferringFinite, FS_AddElement
        <4> QED
          BY <4>1, <4>2, <4>3, <4>4, <4>5
      <3>3. CASE d = GoesTo[f] /\ MakesGate(f, g)
        <4>1. T = {f} /\ gateOf'[d] = g
          BY <1>3, <3>3 DEF MakesGate
        <4>2. gate'[g].references = 1
          BY <3>3 DEF MakesGate
        <4> QED
          BY <4>1, <4>2, FS_Singleton
      <3> QED
        BY <3>1, <3>2, <3>3
    <2> QED
      BY <2>1 DEF ReferencesCounted
  <1>10. GateExclusive'
    <2>1. \A h \in Fetch : at'[h] # NoGate /\ loc'[h] # "gate" =>
             /\ h # f /\ at[h] # NoGate /\ loc[h] # "gate" /\ at'[h] = at[h] /\ loc'[h] = loc[h]
             /\ gate'[at[h]].permit = gate[at[h]].permit
             /\ gate'[at[h]].elapsed <=> gate[at[h]].elapsed
      <3>1. CASE FindsGate(f, g)
        BY <1>3, <3>1 DEF FindsGate
      <3>2. CASE MakesGate(f, g)
        BY <1>3, <1>8, <3>2 DEF MakesGate
      <3> QED
        BY <3>1, <3>2
    <2>2. \A d \in cooling : gateOf'[d] # NoGate /\ ~gate'[gateOf'[d]].elapsed
      <3>1. ASSUME NEW d \in cooling
            PROVE  gateOf'[d] # NoGate /\ ~gate'[gateOf'[d]].elapsed
        <4>1. d \in Destination /\ gateOf[d] # NoGate /\ ~gate[gateOf[d]].elapsed /\ ~Forgotten(d)
          BY DEF GateExclusive, Forgotten
        <4>2. CASE d = GoesTo[f]
          <5>1. gateOf[d] = g /\ FindsGate(f, g)
            BY <4>1, <4>2 DEF FindsGate, MakesGate
          <5> QED
            BY <4>1, <4>2, <5>1 DEF FindsGate
        <4>3. CASE d # GoesTo[f]
          BY <1>4, <1>8, <4>1, <4>3
        <4> QED
          BY <4>2, <4>3
      <3> QED
        BY <3>1
    <2>3. \A h \in Fetch : at'[h] # NoGate /\ loc'[h] # "gate" =>
             /\ gate'[at'[h]].permit = 1
             /\ loc'[h] \in {"target", "process", "start"} => gate'[at'[h]].elapsed
      BY <2>1 DEF GateExclusive, Passed
    <2>4. \A h, k \in Fetch :
             at'[h] # NoGate /\ loc'[h] # "gate" /\ at'[k] # NoGate /\ loc'[k] # "gate"
                /\ at'[h] = at'[k] => h = k
      <3>1. \A h, k \in Fetch : Passed(h) /\ Passed(k) /\ at[h] = at[k] => h = k
        BY DEF GateExclusive
      <3>2. ASSUME NEW h \in Fetch, NEW k \in Fetch,
                   at'[h] # NoGate /\ loc'[h] # "gate",
                   at'[k] # NoGate /\ loc'[k] # "gate", at'[h] = at'[k]
            PROVE  h = k
        <4>1. Passed(h) /\ Passed(k) /\ at[h] = at[k]
          BY <2>1, <3>2 DEF Passed
        <4> QED
          BY <3>1, <4>1
      <3> QED
        BY <3>2
    <2>5. (\A h \in Fetch : Passed(h) => gate[at[h]].permit = 1)'
      BY <2>3 DEF Passed
    <2>6. (\A h, k \in Fetch : Passed(h) /\ Passed(k) /\ at[h] = at[k] => h = k)'
      BY <2>4 DEF Passed
    <2>7. (\A h \in Fetch : Passed(h) /\ loc[h] \in {"target", "process", "start"} =>
                              gate[at[h]].elapsed)'
      BY <2>3 DEF Passed
    <2>8. cooling' = cooling
      OBVIOUS
    <2> QED
      BY <2>2, <2>5, <2>6, <2>7, <2>8 DEF GateExclusive
  <1> QED
    BY <1>6, <1>7, <1>9, <1>10

LEMMA ElapseSound ==
    ASSUME GateInv, NEW d \in Destination, Elapse(d)
    PROVE  GateInv'
  <1> DEFINE Over(g) == g = gateOf[d] \/ \E f \in Fetch : at[f] = g /\ GoesTo[f] = d
  <1>1. /\ gate' = [g \in Gate |-> IF Over(g) THEN [gate[g] EXCEPT !.elapsed = TRUE] ELSE gate[g]]
        /\ cooling' = cooling \ {d} /\ UNCHANGED <<gateOf, at, loc>>
    BY DEF Elapse, fetchVars
  <1> USE <1>1 DEF GateInv, GateTypes
  <1>2. \A g \in Gate : /\ gate'[g].permit = gate[g].permit
                        /\ gate'[g].references = gate[g].references
    OBVIOUS
  <1>3. \A g \in Gate : /\ gate[g].elapsed => gate'[g].elapsed
                        /\ gate'[g].elapsed => gate[g].elapsed \/ Over(g)
    OBVIOUS
  <1>4. gate' \in [Gate -> [permit : {0, 1}, references : Int, elapsed : BOOLEAN]]
    OBVIOUS
  <1>5. GateTypes'
    BY <1>4
  <1>6. GateSound'
    BY DEF GateSound
  <1>7. ReferencesCounted'
    BY <1>2, ReferencesKept
  <1>8. GateExclusive'
    <2>1. ASSUME NEW e \in cooling \ {d} PROVE gateOf[e] # NoGate /\ ~gate'[gateOf[e]].elapsed
      <3>1. gateOf[e] \in Gate /\ gateOf[e] # NoGate /\ ~gate[gateOf[e]].elapsed /\ e \in Destination
        BY DEF GateExclusive
      <3>2. ~Over(gateOf[e])
        BY <3>1 DEF GateSound
      <3> QED
        BY <1>3, <3>1, <3>2
    <2> QED
      BY <1>2, <1>3, <2>1 DEF GateExclusive, Passed
  <1> QED
    BY <1>5, <1>6, <1>7, <1>8

LEMMA NextGates ==
    ASSUME RequestTypes, FetchInv, GateInv, [Next]_vars
    PROVE  GateInv'
  <1>1. ASSUME UNCHANGED <<gateVars, loc>> PROVE GateInv'
    BY <1>1 DEF gateVars, GateInv, GateTypes, GateSound, ReferencesCounted, GateExclusive, Passed
  <1>2. ASSUME NEW r \in Request, RequestStep(r) \/ FailBeforeBegin(r) PROVE GateInv'
    BY <1>1, <1>2, RequestsKeepFetches
  <1>3. ASSUME NEW f \in Fetch, FetchStep(f) PROVE GateInv'
    <2>0. \A h \in Fetch \ {f} : loc'[h] = loc[h]
      BY <1>3, FetchActions DEF OthersStay
    <2>1. CASE TakeGate(f)
      BY <2>1, TakeGateSound
    <2>2. CASE LeaveGate(f)
      BY <2>2, LeaveGateSound
    <2>3. CASE ReleaseReference(f)
      BY <2>3, LeaveGateSound
    <2>4. CASE Start(f)
      BY <2>4, StartSound
    <2>5. CASE ReleaseGate(f)
      BY <2>5, ReleaseGateSound
    <2>6. CASE WaitInterval(f)
      <3>1. /\ UNCHANGED gateVars /\ loc[f] = "spacing" /\ loc'[f] \in {"unrefer", "target"}
            /\ loc'[f] = "target" => gate[at[f]].elapsed
        BY <2>6 DEF WaitInterval, Spaced, FetchInv, FetchTypes
      <3> QED
        BY <2>0, <3>1, GatesUntouched
    <2>7. CASE TakeTarget(f) \/ TakeProcess(f)
      <3>1. /\ UNCHANGED gateVars /\ loc[f] \in {"target", "process"}
            /\ loc'[f] \in {"process", "start", "fetching", "unrefer", "idle"}
        BY <2>7 DEF TakeTarget, TakeProcess, AfterFailure, FetchInv, FetchTypes
      <3>2. at[f] # NoGate => gate[at[f]].elapsed
        BY <3>1 DEF GateInv, GateExclusive, Passed
      <3> QED
        BY <2>0, <3>1, <3>2, GatesUntouched
    <2>8. CASE ReserveHTTPBody(f) \/ CommitBody(f) \/ ReleaseNetwork(f)
      <3>1. UNCHANGED gateVars /\ loc[f] \in {"fetching", "reading", "fetched"}
        BY <2>8 DEF ReserveHTTPBody, CommitBody, ReleaseNetwork
      <3>2. at[f] = NoGate
        BY <3>1 DEF FetchInv, FetchSound, FetchShape
      <3> QED
        BY <2>0, <3>1, <3>2, GatesUntouched
    <2> QED
      BY <1>3, <2>1, <2>2, <2>3, <2>4, <2>5, <2>6, <2>7, <2>8 DEF FetchStep
  <1>4. ASSUME NEW f \in Fetch, AcquireDNS(f) PROVE GateInv'
    <2>1. UNCHANGED gateVars /\ at[f] = NoGate
      BY <1>4 DEF AcquireDNS, FetchInv, FetchSound, FetchShape
    <2>2. \A h \in Fetch \ {f} : loc'[h] = loc[h]
      BY <1>4, FetchActions DEF OthersStay
    <2> QED
      BY <2>1, <2>2, GatesUntouched
  <1>5. CASE Quiet
    BY <1>1, <1>5 DEF Quiet, fetchVars
  <1> QED
    BY <1>2, <1>3, <1>4, <1>5, StepCases, AcquireHTTPSound, ElapseSound

-----------------------------------------------------------------------------
(* The body budget.                                                        *)

LEMMA MinOfTwo ==
    ASSUME NEW x \in Nat, NEW y \in Nat
    PROVE  /\ Min({x, y}) = IF x <= y THEN x ELSE y
           /\ Min({x, y}) \in Nat /\ Min({x, y}) <= x /\ Min({x, y}) <= y
  <1>1. \E z \in {x, y} : \A w \in {x, y} : z <= w
    <2>1. CASE x <= y
      BY <2>1
    <2>2. CASE ~(x <= y)
      BY <2>2
    <2> QED
      BY <2>1, <2>2
  <1>2. Min({x, y}) \in {x, y} /\ \A w \in {x, y} : Min({x, y}) <= w
    BY <1>1 DEF Min
  <1> QED
    BY <1>2

BodyInv == BodyTypes /\ BodyCounted

\* What a fetch keeps and sets aside goes through its target's budget.
LEMMA BudgetMoved ==
    ASSUME BodyInv, NEW f \in Fetch, Kind[f] = "http",
           NEW v \in Nat, reserved' = [reserved EXCEPT ![f] = v],
           NEW b \in Nat, bodyLeft' = [bodyLeft EXCEPT ![Owner[f]] = b],
           NEW k \in Nat, retained' = [retained EXCEPT ![Owner[f]] = k],
           b + k + v = bodyLeft[Owner[f]] + retained[Owner[f]] + reserved[f]
    PROVE  BodyInv'
  <1>1. BodyTypes'
    BY LimitsValid DEF BodyInv, BodyTypes
  <1>2. ASSUME NEW r \in Request
        PROVE  bodyLeft'[r] + retained'[r] + SumOf(reserved', Of(r, "http")) = TotalBodyBytes
    <2>1. IsFiniteSet(Of(r, "http")) /\ (f \in Of(r, "http") <=> r = Owner[f])
      BY LimitsValid, FS_Subset DEF Of
    <2>2. \A h \in Of(r, "http") : reserved[h] \in Nat /\ reserved'[h] \in Nat
      BY DEF Of, BodyInv, BodyTypes
    <2>3. \A h \in Of(r, "http") : h # f => reserved'[h] = reserved[h]
      BY DEF Of, BodyInv, BodyTypes
    <2>4. PICK new : new = reserved'
      OBVIOUS
    <2>5. SumOf(new, Of(r, "http")) = IF f \in Of(r, "http")
                                      THEN SumOf(reserved, Of(r, "http")) + new[f] - reserved[f]
                                      ELSE SumOf(reserved, Of(r, "http"))
      <3>1. PICK S : S = Of(r, "http")
        OBVIOUS
      <3>2. PICK old : old = reserved
        OBVIOUS
      <3>3. IsFiniteSet(S) /\ (\A h \in S : old[h] \in Nat /\ new[h] \in Nat)
            /\ (\A h \in S : h # f => new[h] = old[h])
        BY <2>1, <2>2, <2>3, <2>4, <3>1, <3>2
      <3>4. SumOf(new, S) = IF f \in S THEN SumOf(old, S) + new[f] - old[f] ELSE SumOf(old, S)
        BY <3>3, SumUpdate
      <3> QED
        BY <3>1, <3>2, <3>4
    <2>6. SumOf(reserved, Of(r, "http")) \in Nat
      BY <2>1, <2>2, SumType
    <2>7. bodyLeft[r] + retained[r] + SumOf(reserved, Of(r, "http")) = TotalBodyBytes
      BY DEF BodyInv, BodyCounted
    <2>8. bodyLeft[r] \in Nat /\ retained[r] \in Nat /\ reserved[f] \in Nat /\ new[f] = v
      BY <2>4 DEF BodyInv, BodyTypes
    <2>9. CASE r = Owner[f]
      <3>1. bodyLeft'[r] = b /\ retained'[r] = k
        BY <2>9 DEF BodyInv, BodyTypes
      <3>2. PICK s \in Nat : s = SumOf(reserved, Of(r, "http"))
        BY <2>6
      <3>3. SumOf(new, Of(r, "http")) = s + v - reserved[f]
        BY <2>1, <2>5, <2>8, <2>9, <3>2
      <3>4. b + k + v = bodyLeft[r] + retained[r] + reserved[f]
        BY <2>9
      <3> QED
        BY <2>4, <2>7, <2>8, <3>1, <3>2, <3>3, <3>4
    <2>10. CASE r # Owner[f]
      <3>1. bodyLeft'[r] = bodyLeft[r] /\ retained'[r] = retained[r]
        BY <2>10 DEF BodyInv, BodyTypes
      <3> QED
        BY <2>1, <2>4, <2>5, <2>7, <2>10, <3>1
    <2> QED
      BY <2>9, <2>10
  <1>3. \A r \in Request : SumOf(reserved, Of(r, "http"))' = SumOf(reserved', Of(r, "http"))
    BY DEF SumOf, MapThenSumSet, MapThenFoldSet, Of
  <1> QED
    BY <1>1, <1>2, <1>3 DEF BodyInv, BodyCounted

\* A finished target has nothing set aside, and its budget is forgotten.
LEMMA FinishBody ==
    ASSUME FetchInv, BodyInv, NEW r \in Request, Finish(r)
    PROVE  BodyInv'
  <1>1. /\ bodyLeft' = [bodyLeft EXCEPT ![r] = TotalBodyBytes]
        /\ retained' = [retained EXCEPT ![r] = 0] /\ reserved' = reserved
        /\ TotalBodyBytes \in Nat
    BY LimitsValid DEF Finish
  <1>2. BodyTypes'
    BY <1>1 DEF BodyInv, BodyTypes
  <1>3. SumOf(reserved, Of(r, "http")) = 0
    <2>1. \A h \in Of(r, "http") : reserved[h] = 0
      BY DEF Finish, Of, FetchInv, FetchSound, FetchShape
    <2>2. IsFiniteSet(Of(r, "http"))
      BY LimitsValid, FS_Subset DEF Of
    <2>3. PICK S, old : S = Of(r, "http") /\ old = reserved
      OBVIOUS
    <2>4. SumOf(old, S) = 0
      BY <2>1, <2>2, <2>3, SumType
    <2> QED
      BY <2>3, <2>4
  <1>4. \A q \in Request : SumOf(reserved, Of(q, "http"))' = SumOf(reserved, Of(q, "http"))
    <2>1. \A q \in Request : SumOf(reserved, Of(q, "http"))' = SumOf(reserved', Of(q, "http"))
      BY DEF SumOf, MapThenSumSet, MapThenFoldSet, Of
    <2> QED
      BY <1>1, <2>1
  <1>5. ASSUME NEW q \in Request
        PROVE  bodyLeft'[q] + retained'[q] + SumOf(reserved, Of(q, "http")) = TotalBodyBytes
    <2>1. CASE q = r
      BY <1>1, <1>3, <2>1 DEF BodyInv, BodyTypes
    <2>2. CASE q # r
      <3>1. bodyLeft'[q] = bodyLeft[q] /\ retained'[q] = retained[q]
        BY <1>1, <2>2 DEF BodyInv, BodyTypes
      <3> QED
        BY <3>1 DEF BodyInv, BodyCounted
    <2> QED
      BY <2>1, <2>2
  <1> QED
    BY <1>2, <1>4, <1>5 DEF BodyInv, BodyCounted

LEMMA BodyActions ==
    ASSUME FetchInv, BodyInv, NEW f \in Fetch, ReserveHTTPBody(f) \/ CommitBody(f)
    PROVE  BodyInv'
  <1>0. /\ Owner[f] \in Request /\ DocumentBytes \in Nat
        /\ bodyLeft[Owner[f]] \in Nat /\ retained[Owner[f]] \in Nat /\ reserved[f] \in Nat
    BY LimitsValid DEF BodyInv, BodyTypes
  <1>1. Kind[f] = "http"
    BY LimitsValid DEF ReserveHTTPBody, CommitBody, FetchInv, FetchSound, FetchShape
  <1>2. CASE ReserveHTTPBody(f)
    <2>1. PICK v : v = Min({DocumentBytes, bodyLeft[Owner[f]]})
      OBVIOUS
    <2>2. v \in Nat /\ v <= bodyLeft[Owner[f]]
      BY <1>0, <2>1, MinOfTwo
    <2>3. reserved[f] = 0
      BY <1>2 DEF ReserveHTTPBody, FetchInv, FetchSound, FetchShape
    <2>4. /\ reserved' = [reserved EXCEPT ![f] = v]
          /\ bodyLeft' = [bodyLeft EXCEPT ![Owner[f]] = bodyLeft[Owner[f]] - v]
          /\ retained' = [retained EXCEPT ![Owner[f]] = retained[Owner[f]]]
      BY <1>2, <2>1 DEF ReserveHTTPBody, ReservedBody, BodyInv, BodyTypes
    <2>5. bodyLeft[Owner[f]] - v \in Nat
      BY <1>0, <2>2
    <2>6. (bodyLeft[Owner[f]] - v) + retained[Owner[f]] + v =
             bodyLeft[Owner[f]] + retained[Owner[f]] + reserved[f]
      BY <1>0, <2>2, <2>3
    <2> QED
      BY <1>0, <1>1, <2>2, <2>4, <2>5, <2>6, BudgetMoved
  <1>3. CASE CommitBody(f)
    <2>1. PICK read \in 0..(reserved[f] + 1) :
             LET kept == Min({read, reserved[f]})
             IN  /\ bodyLeft' = [bodyLeft EXCEPT ![Owner[f]] = @ + (reserved[f] - kept)]
                 /\ retained' = [retained EXCEPT ![Owner[f]] = @ + kept]
      BY <1>3 DEF CommitBody
    <2>2. PICK k : k = Min({read, reserved[f]})
      OBVIOUS
    <2>3. k \in Nat /\ k <= reserved[f]
      <3>1. read \in Nat
        BY <1>0, <2>1
      <3> QED
        BY <1>0, <2>2, <3>1, MinOfTwo
    <2>4. /\ reserved' = [reserved EXCEPT ![f] = 0]
          /\ bodyLeft' = [bodyLeft EXCEPT ![Owner[f]] = bodyLeft[Owner[f]] + (reserved[f] - k)]
          /\ retained' = [retained EXCEPT ![Owner[f]] = retained[Owner[f]] + k]
      BY <1>3, <2>1, <2>2 DEF CommitBody
    <2>5. bodyLeft[Owner[f]] + (reserved[f] - k) \in Nat /\ retained[Owner[f]] + k \in Nat
      BY <1>0, <2>3
    <2>6. (bodyLeft[Owner[f]] + (reserved[f] - k)) + (retained[Owner[f]] + k) + 0 =
             bodyLeft[Owner[f]] + retained[Owner[f]] + reserved[f]
      BY <1>0, <2>3
    <2> QED
      BY <1>0, <1>1, <2>4, <2>5, <2>6, BudgetMoved
  <1> QED
    BY <1>2, <1>3

LEMMA NextBody ==
    ASSUME RequestTypes, FetchInv, BodyInv, [Next]_vars
    PROVE  BodyInv'
  <1>1. ASSUME UNCHANGED bodyVars PROVE BodyInv'
    <2>1. \A q \in Request : SumOf(reserved, Of(q, "http"))' = SumOf(reserved', Of(q, "http"))
      BY DEF SumOf, MapThenSumSet, MapThenFoldSet, Of
    <2> QED
      BY <1>1, <2>1 DEF bodyVars, BodyInv, BodyTypes, BodyCounted
  <1>2. ASSUME NEW r \in Request, RequestStep(r) \/ FailBeforeBegin(r) PROVE BodyInv'
    BY <1>1, <1>2, RequestsKeepFetches, FinishBody DEF bodyVars
  <1>3. ASSUME NEW f \in Fetch, FetchStep(f) PROVE BodyInv'
    BY <1>1, <1>3, BodyActions DEF FetchStep, TakeGate, LeaveGate, WaitInterval, TakeTarget,
       TakeProcess, Start, ReleaseReference, ReleaseGate, ReleaseNetwork
  <1> QED
    BY <1>1, <1>2, <1>3, StepCases DEF AcquireDNS, AcquireHTTP, Elapse, Quiet

LEMMA InitAdmission == Init => AdmissionInv
  <1> SUFFICES ASSUME Init PROVE AdmissionInv
    OBVIOUS
  <1> USE LimitsValid DEF Init
  <1>1. RequestTypes /\ RequestSound
    BY DEF RequestTypes, RequestSound
  <1>2. RequestsCounted
    <2>1. Waiting = {} /\ Running = {}
      BY DEF Waiting, Running
    <2> QED
      BY <2>1, FS_EmptySet DEF RequestsCounted
  <1>3. Limit \in [Network -> Int]
    BY DEF Network
  <1>4. FetchTypes
    BY <1>3 DEF FetchTypes, Network
  <1>5. GateTypes
    BY DEF GateTypes, NewGate
  <1>6. BodyTypes
    BY DEF BodyTypes
  <1>7. FetchSound
    BY DEF FetchSound, FetchShape
  <1>8. PermitsCounted
    <2>1. \A r \in Request, k \in Network : {f \in Of(r, k) : InTarget(f)} = {}
      BY DEF Of, InTarget
    <2>2. \A k \in Network : {f \in Fetch : Kind[f] = k /\ held[f]} = {}
      OBVIOUS
    <2> QED
      BY <2>1, <2>2, FS_EmptySet DEF PermitsCounted, Network
  <1>9. GateSound /\ ReferencesCounted /\ GateExclusive
    BY DEF GateSound, ReferencesCounted, GateExclusive, Passed
  <1>10. BodyCounted
    <2>1. ASSUME NEW r \in Request
          PROVE  bodyLeft[r] + retained[r] + SumOf(reserved, Of(r, "http")) = TotalBodyBytes
      <3>1. IsFiniteSet(Of(r, "http")) /\ \A h \in Of(r, "http") : reserved[h] = 0
        BY FS_Subset DEF Of
      <3>2. PICK S, old : S = Of(r, "http") /\ old = reserved
        OBVIOUS
      <3>3. SumOf(old, S) = 0
        <4>1. IsFiniteSet(S) /\ \A h \in S : old[h] \in Nat /\ old[h] = 0
          BY <3>1, <3>2
        <4> QED
          BY <4>1, SumType
      <3> QED
        BY <3>2, <3>3
    <2> QED
      BY <2>1 DEF BodyCounted
  <1> QED
    BY <1>1, <1>2, <1>4, <1>5, <1>6, <1>7, <1>8, <1>9, <1>10 DEF AdmissionInv

-----------------------------------------------------------------------------
(* The theorems.                                                           *)

\* Permits, slots, gates and reservations that are handed over while contexts
\* end keep the inductive invariant: Controller, execution, synchronousGate.
THEOREM AdmissionInvariant == Spec => []AdmissionInv
  <1>1. AdmissionInv /\ [Next]_vars => AdmissionInv'
    BY NextRequests, NextFetches, NextGates, NextBody
    DEF AdmissionInv, RequestInv, FetchInv, GateInv, BodyInv
  <1> QED
    BY <1>1, InitAdmission, PTL DEF Spec

\* Every channel's length is the number of its holders, gates know who refers
\* to them, and body bytes are either left, kept or set aside: no path through
\* acquireNetwork, AcquireHTTP or ReserveHTTPBody loses a permit or a byte.
THEOREM NothingIsLeaked == Spec => []NothingLeaked
  <1>1. AdmissionInv => NothingLeaked
    <2> SUFFICES ASSUME AdmissionInv PROVE NothingLeaked
      OBVIOUS
    <2> USE DEF AdmissionInv
    <2>1. /\ waiters = Cardinality({r \in Request : phase[r] # "done" /\ slot[r]})
          /\ targets = Cardinality({r \in Request : phase[r] \in {"granted", "running"}})
      BY DEF RequestsCounted, Waiting, Running
    <2>2. /\ \A r \in Request, k \in {"dns", "http"} :
               busy[r][k] = Cardinality({f \in Of(r, k) : held[f] \/ loc[f] = "process"})
          /\ \A k \in {"dns", "http"} :
               process[k] = Cardinality({f \in Fetch : Kind[f] = k /\ held[f]})
      BY DEF PermitsCounted, InTarget, Network
    <2>3. \A d \in Destination : gateOf[d] # NoGate =>
             gate[gateOf[d]].references =
               Cardinality({f \in Fetch : at[f] = gateOf[d] /\ loc[f] # "ungate"})
      BY DEF ReferencesCounted
    <2>4. \A r \in Request :
             bodyLeft[r] + retained[r] + MapThenSumSet(LAMBDA f : reserved[f], Of(r, "http")) = TotalBodyBytes
      BY DEF BodyCounted, SumOf, MapThenSumSet, MapThenFoldSet
    <2>5. \A r \in Request : phase[r] = "done" =>
             ~slot[r] /\ \A f \in Fetch : Owner[f] = r => loc[f] = "idle"
      BY DEF RequestSound, FetchSound, FetchShape
    <2> QED
      BY <2>1, <2>2, <2>3, <2>4, <2>5 DEF NothingLeaked, MapThenSumSet, MapThenFoldSet
  <1> QED
    BY <1>1, AdmissionInvariant, PTL

\* A caller that is told to come back has not been run: admissionWait.error
\* against a deadline that passes at any moment.
THEOREM RefusalsTrue == Spec => []RefusedNeverRan
  <1>1. AdmissionInv => RefusedNeverRan
    BY DEF AdmissionInv, RequestSound, RefusedNeverRan
  <1> QED
    BY <1>1, AdmissionInvariant, PTL

\* Requests to one destination start an interval apart, in every target and
\* with a gate that AcquireHTTP forgot and made again.
THEOREM StartsAreSpaced == Spec => StartsSpaced
  <1>1. ASSUME AdmissionInv, [Next]_vars, NEW f \in Fetch, loc[f] = "start", loc'[f] = "unrefer"
        PROVE  GoesTo[f] \notin cooling
    <2>1. FetchInv /\ GateInv
      BY <1>1 DEF AdmissionInv, FetchInv, GateInv
    <2>2. gateOf[GoesTo[f]] = at[f] /\ at[f] \in Gate /\ NoGate \notin Gate
      BY <1>1, <2>1, AtGate
    <2>3. gate[at[f]].elapsed
      BY <1>1, <2>1, <2>2 DEF GateInv, GateExclusive, Passed
    <2> QED
      BY <2>1, <2>2, <2>3 DEF GateInv, GateExclusive
  <1>2. AdmissionInv /\ [Next]_vars =>
          [\A f \in Fetch : loc[f] = "start" /\ loc'[f] = "unrefer" => GoesTo[f] \notin cooling]_vars
    BY <1>1
  <1> QED
    BY <1>2, AdmissionInvariant, PTL DEF Spec, StartsSpaced

-----------------------------------------------------------------------------
(* DNS collection: walks along aliases and labels.                         *)

LEMMA LeastNat ==
    ASSUME NEW B, B \subseteq Nat, B # {}
    PROVE  \E n \in B : \A m \in B : n <= m
  <1>1. PICK R : R = OpToRel(<, Nat)
    BY Zenon
  <1>2. IsWellFoundedOn(R, Nat)
    BY <1>1, NatLessThanWellFounded, Zenon
  <1>3. PICK n \in B : \A m \in B : <<m, n>> \notin R
    BY <1>2, WFMin
  <1>4. R = {r \in Nat \X Nat : r[1] < r[2]}
    BY <1>1, Zenon DEF OpToRel
  <1>5. ASSUME NEW m \in B PROVE n <= m
    <2>1. <<m, n>> \in Nat \X Nat /\ <<m, n>>[1] = m /\ <<m, n>>[2] = n
      OBVIOUS
    <2>2. ~(m < n)
      BY <1>3, <1>4, <2>1, Zenon
    <2> QED
      BY <2>2
  <1> QED
    BY <1>5

\* w lists the first k steps from n along f.
IsWalk(w, f, n, k) ==
    w = [i \in 0..k |-> IF i = 0 THEN n ELSE IF w[i - 1] = None THEN None ELSE f[w[i - 1]]]

LEMMA WalkExtends ==
    ASSUME NEW f, NEW n, NEW k \in Nat, NEW w, IsWalk(w, f, n, k)
    PROVE  \E v : IsWalk(v, f, n, k + 1)
  <1> DEFINE next == IF w[k] = None THEN None ELSE f[w[k]]
  <1> DEFINE v == [i \in 0..(k + 1) |-> IF i = k + 1 THEN next ELSE w[i]]
  <1>1. v \in [0..(k + 1) -> {v[i] : i \in 0..(k + 1)}]
    OBVIOUS
  <1>2. \A i \in 0..(k + 1) :
          v[i] = IF i = 0 THEN n ELSE IF v[i - 1] = None THEN None ELSE f[v[i - 1]]
    <2> TAKE i \in 0..(k + 1)
    <2>1. CASE i = 0
      BY <2>1 DEF IsWalk
    <2>2. CASE i = k + 1
      <3>1. v[i - 1] = w[k] /\ v[i] = next /\ i # 0
        BY <2>2
      <3> QED
        BY <3>1
    <2>3. CASE i # 0 /\ i # k + 1
      <3>1. v[i - 1] = w[i - 1] /\ v[i] = w[i] /\ i \in 0..k
        BY <2>3
      <3>2. w[i] = IF i = 0 THEN n ELSE IF w[i - 1] = None THEN None ELSE f[w[i - 1]]
        BY <3>1 DEF IsWalk
      <3> QED
        BY <3>1, <3>2
    <2> QED
      BY <2>1, <2>2, <2>3
  <1> HIDE DEF v
  <1>3. v = [i \in 0..(k + 1) |-> IF i = 0 THEN n ELSE IF v[i - 1] = None THEN None ELSE f[v[i - 1]]]
    BY <1>1, <1>2
  <1> QED
    BY <1>3, Zenon DEF IsWalk

LEMMA WalkExists ==
    ASSUME NEW f, NEW n, NEW k \in Nat
    PROVE  \E w : IsWalk(w, f, n, k)
  <1> DEFINE B == {j \in Nat : ~\E w : IsWalk(w, f, n, j)}
  <1> SUFFICES ASSUME k \in B PROVE FALSE
    OBVIOUS
  <1>1. PICK m \in B : \A j \in B : m <= j
    BY LeastNat
  <1>2. m # 0
    <2>1. PICK w : w = [i \in 0..0 |-> n]
      OBVIOUS
    <2>2. IsWalk(w, f, n, 0)
      BY <2>1 DEF IsWalk
    <2> QED
      BY <2>2
  <1>3. m - 1 \in Nat /\ m - 1 \notin B
    BY <1>1, <1>2
  <1>4. PICK w : IsWalk(w, f, n, m - 1)
    BY <1>3
  <1>5. \E v : IsWalk(v, f, n, (m - 1) + 1)
    BY <1>3, <1>4, WalkExtends
  <1> QED
    BY <1>5

\* Two walks from a name agree as far as both go.
LEMMA WalksAgree ==
    ASSUME NEW f, NEW n, NEW j \in Nat, NEW k \in Nat, NEW v, NEW w,
           IsWalk(v, f, n, j), IsWalk(w, f, n, k),
           NEW i \in Nat, i <= j, i <= k
    PROVE  v[i] = w[i]
  <1> DEFINE B == {m \in Nat : m <= j /\ m <= k /\ v[m] # w[m]}
  <1> SUFFICES ASSUME i \in B PROVE FALSE
    OBVIOUS
  <1>1. PICK m \in B : \A l \in B : m <= l
    BY LeastNat
  <1>2. v[m] = IF m = 0 THEN n ELSE IF v[m - 1] = None THEN None ELSE f[v[m - 1]]
    BY <1>1 DEF IsWalk
  <1>3. w[m] = IF m = 0 THEN n ELSE IF w[m - 1] = None THEN None ELSE f[w[m - 1]]
    BY <1>1 DEF IsWalk
  <1>4. CASE m = 0
    BY <1>1, <1>2, <1>3, <1>4
  <1>5. CASE m # 0
    <2>1. m - 1 \in Nat /\ m - 1 \notin B
      BY <1>1, <1>5
    <2>2. v[m - 1] = w[m - 1]
      BY <1>1, <2>1
    <2> QED
      BY <1>1, <1>2, <1>3, <1>5, <2>2
  <1> QED
    BY <1>4, <1>5

LEMMA WalkIs ==
    ASSUME NEW f, NEW n, NEW k \in Nat, NEW w, IsWalk(w, f, n, k)
    PROVE  Walk(f, n, k) = w[k]
  <1> DEFINE F == CHOOSE g : g = [i \in 0..k |-> IF i = 0 THEN n ELSE IF g[i - 1] = None THEN None ELSE f[g[i - 1]]]
  <1>1. Walk(f, n, k) = F[k]
    BY Zenon DEF Walk
  <1>2. \E g : g = [i \in 0..k |-> IF i = 0 THEN n ELSE IF g[i - 1] = None THEN None ELSE f[g[i - 1]]]
    BY Zenon DEF IsWalk
  <1>3. F = [i \in 0..k |-> IF i = 0 THEN n ELSE IF F[i - 1] = None THEN None ELSE f[F[i - 1]]]
    BY <1>2, Zenon
  <1> HIDE DEF F
  <1>4. IsWalk(F, f, n, k)
    BY <1>3, Zenon DEF IsWalk
  <1> QED
    BY <1>1, <1>4, WalksAgree

\* One step at a time.
Walks(f, n) ==
    /\ Walk(f, n, 0) = n
    /\ \A k \in Nat : Walk(f, n, k + 1) = IF Walk(f, n, k) = None THEN None ELSE f[Walk(f, n, k)]

LEMMA WalkSteps ==
    ASSUME NEW f, NEW n
    PROVE  Walks(f, n)
  <1>1. Walk(f, n, 0) = n
    <2>1. PICK w : IsWalk(w, f, n, 0)
      BY WalkExists
    <2>2. w[0] = n
      BY <2>1 DEF IsWalk
    <2> QED
      BY <2>1, <2>2, WalkIs
  <1>2. ASSUME NEW k \in Nat
        PROVE  Walk(f, n, k + 1) = IF Walk(f, n, k) = None THEN None ELSE f[Walk(f, n, k)]
    <2>1. PICK w : IsWalk(w, f, n, k + 1)
      BY WalkExists
    <2>2. PICK v : IsWalk(v, f, n, k)
      BY WalkExists
    <2>3. Walk(f, n, k + 1) = w[k + 1] /\ Walk(f, n, k) = v[k]
      BY <2>1, <2>2, WalkIs
    <2>4. v[k] = w[k]
      BY <2>1, <2>2, WalksAgree
    <2>5. k + 1 \in 0..(k + 1) /\ k + 1 # 0 /\ (k + 1) - 1 = k
      OBVIOUS
    <2>6. w[k + 1] = IF w[(k + 1) - 1] = None THEN None ELSE f[w[(k + 1) - 1]]
      BY <2>1, <2>5, Zenon DEF IsWalk
    <2> QED
      BY <2>3, <2>4, <2>5, <2>6
  <1> QED
    BY <1>1, <1>2 DEF Walks

LEMMA WalkType ==
    ASSUME NEW f \in [Name -> Name \cup {None}], NEW n \in Name \cup {None}, NEW k \in Nat
    PROVE  Walk(f, n, k) \in Name \cup {None}
  <1> DEFINE B == {j \in Nat : Walk(f, n, j) \notin Name \cup {None}}
  <1> SUFFICES ASSUME k \in B PROVE FALSE
    OBVIOUS
  <1>1. PICK m \in B : \A j \in B : m <= j
    BY LeastNat
  <1>0. Walks(f, n)
    BY WalkSteps, Zenon
  <1>2. m # 0
    BY <1>0, <1>1 DEF Walks
  <1>3. m - 1 \in Nat /\ m - 1 \notin B /\ (m - 1) + 1 = m
    BY <1>1, <1>2
  <1>4. PICK j \in Nat : j = m - 1 /\ m = j + 1
    BY <1>3
  <1>5. Walk(f, n, j) \in Name \cup {None}
    BY <1>3, <1>4
  <1>6. Walk(f, n, j + 1) = IF Walk(f, n, j) = None THEN None ELSE f[Walk(f, n, j)]
    BY <1>0 DEF Walks
  <1>7. Walk(f, n, m) \in Name \cup {None}
    BY <1>4, <1>5, <1>6
  <1> QED
    BY <1>1, <1>7

LEMMA HopSteps ==
    ASSUME NEW n \in Name
    PROVE  /\ Hop(n, 0) = n
           /\ \A k \in Nat : Hop(n, k + 1) = IF Hop(n, k) = None THEN None ELSE Links[Hop(n, k)]
           /\ \A k \in Nat : Hop(n, k) \in Name \cup {None}
  <1>1. \A k \in Nat : Hop(n, k) \in Name \cup {None}
    <2> TAKE k \in Nat
    <2>1. Links \in [Name -> Name \cup {None}] /\ n \in Name \cup {None}
      BY WorldAssumption
    <2> QED
      BY <2>1, WalkType DEF Hop
  <1>2. Walks(Links, n)
    BY WalkSteps, Zenon
  <1> QED
    BY <1>1, <1>2 DEF Hop, Walks

LEMMA NamesCounted == Cardinality(Name) \in Nat
  BY FS_CardinalityType, WorldAssumption

\* A chain that has ended names nothing more.
LEMMA HopEnds ==
    ASSUME NEW n \in Name, NEW j \in Nat, NEW k \in Nat, Hop(n, j) = None, k >= j
    PROVE  Hop(n, k) = None
  <1> DEFINE B == {i \in Nat : i >= j /\ Hop(n, i) # None}
  <1> SUFFICES ASSUME k \in B PROVE FALSE
    OBVIOUS
  <1>1. PICK m \in B : \A i \in B : m <= i
    BY LeastNat
  <1>2. m # j /\ m >= j /\ m \in Nat
    BY <1>1
  <1>3. m - 1 \in Nat /\ m - 1 \notin B /\ (m - 1) + 1 = m
    BY <1>1, <1>2
  <1>4. Hop(n, m - 1) = None
    BY <1>2, <1>3
  <1> QED
    BY <1>1, <1>3, <1>4, HopSteps

\* A name of the chain, the first included.
LEMMA EndIsHop ==
    ASSUME NEW n \in Name, NEW m \in Ends(n)
    PROVE  m \in Name /\ Links[m] = None /\ \E i \in Nat : m = Hop(n, i)
  <1>1. m \in {n} \cup Chain(n) /\ Links[m] = None
    BY DEF Ends
  <1>2. CASE m = n
    BY <1>1, <1>2, HopSteps
  <1>3. CASE m \in Chain(n)
    <2>1. PICK i \in 1..Cardinality(Name) : m = Hop(n, i) /\ m # None
      BY <1>3 DEF Chain, ChainTo
    <2>2. i \in Nat
      BY <2>1, NamesCounted
    <2> QED
      BY <1>1, <2>1, <2>2, HopSteps
  <1> QED
    BY <1>1, <1>2, <1>3

LEMMA EndsUnique ==
    ASSUME NEW n \in Name, NEW l \in Ends(n), NEW m \in Ends(n)
    PROVE  l = m
  <1>1. PICK i \in Nat : l = Hop(n, i)
    BY EndIsHop
  <1>2. PICK j \in Nat : m = Hop(n, j)
    BY EndIsHop
  <1>3. l \in Name /\ m \in Name /\ Links[l] = None /\ Links[m] = None /\ None \notin Name
    BY EndIsHop, WorldAssumption
  <1>4. Hop(n, i + 1) = None /\ Hop(n, j + 1) = None
    BY <1>1, <1>2, <1>3, HopSteps
  <1>5. ~(j >= i + 1)
    BY <1>2, <1>3, <1>4, HopEnds
  <1>6. ~(i >= j + 1)
    BY <1>1, <1>3, <1>4, HopEnds
  <1> QED
    BY <1>1, <1>2, <1>5, <1>6

LEMMA ChainToNames ==
    ASSUME NEW n \in Name, NEW k \in Nat
    PROVE  ChainTo(n, k) \subseteq Name /\ (k # 0 /\ Links[n] # None => Links[n] \in ChainTo(n, k))
  <1>1. ChainTo(n, k) \subseteq Name
    <2> SUFFICES ASSUME NEW m \in ChainTo(n, k) PROVE m \in Name
      OBVIOUS
    <2>1. PICK i \in 1..k : m = Hop(n, i) /\ m # None
      BY DEF ChainTo
    <2> QED
      BY <2>1, HopSteps
  <1>2. ASSUME k # 0, Links[n] # None PROVE Links[n] \in ChainTo(n, k)
    <2>1. Hop(n, 0 + 1) = Links[n]
      BY HopSteps, WorldAssumption
    <2>2. 1 \in 1..k /\ Hop(n, 1) = Links[n]
      BY <1>2, <2>1
    <2> QED
      BY <1>2, <2>2 DEF ChainTo
  <1> QED
    BY <1>1, <1>2

\* A name without an alias is where its chain ends.
LEMMA OwnEnd ==
    ASSUME NEW n \in Name, Links[n] = None
    PROVE  Ends(n) = {n}
  <1>1. n \in Ends(n)
    BY DEF Ends
  <1> QED
    BY <1>1, EndsUnique

LEMMA EndsInName ==
    ASSUME NEW n \in Name
    PROVE  Ends(n) \subseteq Name
  BY EndIsHop

LEMMA AnswerTypes ==
    ASSUME NEW q \in Question
    PROVE  /\ Truth(q) \in Completed /\ Aliases(q) \subseteq Name
           /\ AddressesIn(q) \subseteq Address /\ DependenciesIn(q) \subseteq Name
  <1>1. q[1] \in Name
    BY DEF Question
  <1>2. Truth(q) \in Completed
    BY DEF Truth, Completed
  <1>3. Aliases(q) \subseteq Name
    <2>1. 1 \in Nat /\ CNAMEChainDepth \in Nat
      BY WorldAssumption
    <2> QED
      BY <1>1, <2>1, ChainToNames DEF Aliases
  <1>4. AddressesIn(q) \subseteq Address
    <2> SUFFICES ASSUME q[2] \in AddressTypes, NEW m \in Ends(q[1])
                 PROVE  Addr[m][q[2]] \subseteq Address
      BY DEF AddressesIn
    <2>1. m \in Name
      BY <1>1, EndsInName
    <2>2. Addr[m] \in [AddressTypes -> SUBSET Address]
      BY <2>1, WorldAssumption
    <2> QED
      BY <2>2
  <1>5. DependenciesIn(q) \subseteq Name
    <2> SUFFICES ASSUME q[2] \in DependencyTypes, NEW m \in Ends(q[1])
                 PROVE  DependencyOf[m][q[2]] \subseteq Name
      BY DEF DependenciesIn
    <2>1. m \in Name
      BY <1>1, EndsInName
    <2>2. DependencyOf[m] \in [DependencyTypes -> SUBSET Name]
      BY <2>1, WorldAssumption
    <2> QED
      BY <2>2
  <1> QED
    BY <1>2, <1>3, <1>4, <1>5

\* What is not answered holds nothing.
LEMMA NothingUnlessAnswered ==
    ASSUME NEW q \in Question, Truth(q) # "answered"
    PROVE  AddressesIn(q) = {} /\ DependenciesIn(q) = {}
  <1>1. q[1] \in Name
    BY DEF Question
  <1>2. CASE q[1] \in Missing \/ (q[2] # "CNAME" /\ Ends(q[1]) \cap Missing # {})
    <2>1. ASSUME NEW m \in Ends(q[1]), q[2] # "CNAME" PROVE m \in Missing
      <3>1. CASE q[1] \in Missing
        <4>1. Links[q[1]] = None
          BY <3>1, NamesAssumption
        <4> QED
          BY <1>1, <2>1, <3>1, <4>1, OwnEnd
      <3>2. CASE Ends(q[1]) \cap Missing # {}
        BY <1>1, <2>1, <3>2, EndsUnique
      <3> QED
        BY <1>2, <2>1, <3>1, <3>2
    <2>2. "CNAME" \notin AddressTypes /\ "CNAME" \notin DependencyTypes
      BY WorldAssumption DEF DependencyTypes
    <2>3. ASSUME q[2] \in AddressTypes, NEW m \in Ends(q[1]) PROVE Addr[m][q[2]] = {}
      BY <2>1, <2>2, <2>3, NamesAssumption
    <2>4. ASSUME q[2] \in DependencyTypes, NEW m \in Ends(q[1]) PROVE DependencyOf[m][q[2]] = {}
      BY <2>1, <2>2, <2>4, NamesAssumption
    <2> QED
      BY <2>3, <2>4 DEF AddressesIn, DependenciesIn
  <1>3. CASE ~(q[1] \in Missing \/ (q[2] # "CNAME" /\ Ends(q[1]) \cap Missing # {}))
    <2>1. Aliases(q) \cup AddressesIn(q) \cup DependenciesIn(q) = {}
      BY <1>3, Zenon DEF Truth
    <2> QED
      BY <2>1
  <1> QED
    BY <1>2, <1>3

\* Whoever asks for an alias, or for records behind it, is told its name.
LEMMA AliasAnswered ==
    ASSUME NEW n \in Name, NEW t \in Type, Links[n] # None,
           t = "CNAME" \/ Ends(n) \cap Missing = {}
    PROVE  Truth(<<n, t>>) = "answered" /\ Links[n] \in Aliases(<<n, t>>)
  <1> DEFINE q == <<n, t>>
  <1>1. q[1] = n /\ q[2] = t
    OBVIOUS
  <1>2. CNAMEChainDepth \in Nat /\ CNAMEChainDepth # 0
    BY WorldAssumption
  <1>3. Links[n] \in Aliases(q)
    BY <1>1, <1>2, ChainToNames DEF Aliases
  <1>4. n \notin Missing
    BY NamesAssumption
  <1> HIDE DEF q
  <1>5. Truth(q) = "answered"
    <2>1. ~(q[1] \in Missing \/ (q[2] # "CNAME" /\ Ends(q[1]) \cap Missing # {}))
      BY <1>1, <1>4
    <2>2. Aliases(q) \cup AddressesIn(q) \cup DependenciesIn(q) # {}
      BY <1>3
    <2> QED
      BY <2>1, <2>2, Zenon DEF Truth
  <1> QED
    BY <1>3, <1>5 DEF q

\* A name that owns a zone answers for it.
LEMMA ApexAnswers ==
    ASSUME NEW z \in Apex
    PROVE  /\ z \in Name /\ Ends(z) = {z}
           /\ HasZone(<<z, "SOA">>) /\ Truth(<<z, "SOA">>) = "answered"
  <1>1. z \in Name /\ Links[z] = None /\ z \notin Missing
    BY WorldAssumption, NamesAssumption
  <1>2. Ends(z) = {z}
    BY <1>1, OwnEnd
  <1>3. HasZone(<<z, "SOA">>)
    BY DEF HasZone
  <1>4. Truth(<<z, "SOA">>) = "answered"
    <2> DEFINE q == <<z, "SOA">>
    <2>1. q[1] = z /\ Ends(q[1]) \cap Missing = {}
      BY <1>1, <1>2
    <2>2. ~(q[1] \in Missing \/ (q[2] # "CNAME" /\ Ends(q[1]) \cap Missing # {}))
      BY <1>1, <2>1
    <2> HIDE DEF q
    <2>3. HasZone(q)
      BY <1>3 DEF q
    <2>4. Truth(q) = "answered"
      BY <2>2, <2>3, Zenon DEF Truth
    <2> QED
      BY <2>4 DEF q
  <1> QED
    BY <1>1, <1>2, <1>3, <1>4

-----------------------------------------------------------------------------
(* DNS collection: types, questions and stages.                            *)

Kinds == Completed \cup {"failed"}

AskType ==
    [st : {"idle", "start", "wait", "own", "got"}, q : Question \cup {None}, kind : Kinds \cup {"none"},
     cached : BOOLEAN, attempt : {0, 1}]

ItemType == [name : Name, depth : Nat, path : SUBSET Name, types : SUBSET AddressTypes]

Dependency == Name \X DependencyTypes

DNSTypes ==
    /\ seeds \in Seq(Name) /\ seeds # << >>
    /\ stage \in {"collect", "join", "zone", "hosts", "done"}
    /\ cache \in [Question -> {"none", "open"} \cup Completed]
    /\ ask \in [Asker -> AskType]
    /\ links \subseteq Name /\ todo \subseteq Address /\ channel \in Seq(Name)
    /\ queue \subseteq ItemType /\ seen \subseteq Name /\ item \in ItemType \cup {NoItem}
    /\ found \subseteq Dependency /\ hosts \subseteq Dependency \X AddressTypes
    /\ zone \in [name : Name \cup {None}, depth : Nat]

Idle(k) == ask[k].st = "idle"

\* What each goroutine asks.
AskedFor ==
    /\ \A t \in SeedTypes : ~Idle(<<"seed", t>>) => ask[<<"seed", t>>].q = <<seed, t>>
    /\ \A t \in AddressTypes : ~Idle(<<"redirect", t>>) => ask[<<"redirect", t>>].q \in Question
    /\ ~Idle(Graph) => item # NoItem /\ ask[Graph].q \in {item.name} \X ({"CNAME"} \cup AddressTypes)
    /\ stage = "zone" => zone.name \in Name
    /\ ~Idle(Main) =>
         \/ stage = "zone" /\ Parent[zone.name] # None /\ ask[Main].q \in {zone.name} \X {"SOA", "NS"}
         \/ stage = "hosts" /\ ask[Main].q \in Name \X AddressTypes

\* Results and answers at hand are what DNS says, or the question failed.
Truthful ==
    /\ \A q \in Question : cache[q] \in Completed => cache[q] = Truth(q)
    /\ \A k \in Asker : ask[k].st = "got" => ask[k].kind \in {Truth(ask[k].q), "failed"}

StagesOrdered ==
    /\ stage # "collect" => links = {} /\ todo = {} /\ \A t \in SeedTypes : Idle(<<"seed", t>>)
    /\ stage \notin {"collect", "join"} => graphDone
    /\ graphDone => item = NoItem
    /\ stage = "done" => hosts = {}

DNSShape == DNSTypes /\ AskedFor /\ Truthful /\ StagesOrdered

LEMMA AskersDiffer ==
    /\ Main \in Asker /\ Graph \in Asker /\ Main # Graph
    /\ \A t \in SeedTypes : <<"seed", t>> \in Asker /\ <<"seed", t>> # Main /\ <<"seed", t>> # Graph
    /\ \A t \in AddressTypes : <<"redirect", t>> \in Asker /\ <<"redirect", t>> # Main /\ <<"redirect", t>> # Graph
    /\ \A t \in SeedTypes, u \in AddressTypes : <<"seed", t>> # <<"redirect", u>>
    /\ \A t, u \in SeedTypes : <<"seed", t>> = <<"seed", u>> => t = u
    /\ \A t, u \in AddressTypes : <<"redirect", t>> = <<"redirect", u>> => t = u
  BY DEF Asker, Main, Graph

LEMMA NoAskIs == NoAsk \in AskType /\ NoAsk.st = "idle"
  BY DEF NoAsk, AskType, Kinds, Completed

LEMMA AskingIs ==
    ASSUME NEW q \in Question
    PROVE  Asking(q) \in AskType /\ Asking(q).st = "start" /\ Asking(q).q = q
  BY DEF Asking, NoAsk, AskType, Kinds, Completed

LEMMA AskUpdate ==
    ASSUME DNSTypes, NEW k \in Asker, NEW a \in AskType, ask' = [ask EXCEPT ![k] = a]
    PROVE  ask' \in [Asker -> AskType] /\ ask'[k] = a /\ \A j \in Asker : j # k => ask'[j] = ask[j]
  BY DEF DNSTypes

LEMMA SeedIs ==
    ASSUME DNSTypes
    PROVE  seed \in Name /\ Len(seeds) \in Nat /\ Len(seeds) >= 1 /\ seed = seeds[1]
  BY DEF DNSTypes, seed

LEMMA AskedQuestion ==
    ASSUME DNSTypes, AskedFor, NEW k \in Asker, ~Idle(k)
    PROVE  ask[k].q \in Question
  <1>1. seed \in Name
    BY SeedIs
  <1>2. CASE k = Main
    BY <1>2, WorldAssumption DEF AskedFor, Question, Type, DNSTypes
  <1>3. CASE k = Graph
    <2>1. item \in ItemType /\ item.name \in Name
      BY <1>3 DEF AskedFor, DNSTypes, ItemType
    <2> QED
      BY <1>3, <2>1 DEF AskedFor, Question, Type
  <1>4. CASE k \in {"seed"} \X SeedTypes
    <2>1. PICK t \in SeedTypes : k = <<"seed", t>>
      BY <1>4
    <2> QED
      BY <1>1, <2>1 DEF AskedFor, Question, Type
  <1>5. CASE k \in {"redirect"} \X AddressTypes
    <2>1. PICK t \in AddressTypes : k = <<"redirect", t>>
      BY <1>5
    <2> QED
      BY <2>1 DEF AskedFor
  <1> QED
    BY <1>2, <1>3, <1>4, <1>5 DEF Asker

\* What a result brings is of the right kind.
LEMMA ResultIs ==
    ASSUME DNSTypes, NEW k \in Asker, ask[k].q \in Question
    PROVE  /\ AddressesGot(k) \subseteq Address
           /\ DependenciesGot(k) \subseteq Dependency
           /\ Aliases(ask[k].q) \subseteq Name
  <1>1. PICK q \in Question : q = ask[k].q
    OBVIOUS
  <1>2. Aliases(q) \subseteq Name /\ AddressesIn(q) \subseteq Address /\ DependenciesIn(q) \subseteq Name
    BY AnswerTypes
  <1>3. DependenciesIn(q) # {} => q[2] \in DependencyTypes
    BY DEF DependenciesIn
  <1> QED
    BY <1>1, <1>2, <1>3 DEF AddressesGot, DependenciesGot, Dependency

-----------------------------------------------------------------------------
(* Questions on their way, which leave the askers at what they ask.        *)

\* The step answers or moves on questions and leaves the collection alone.
Queried ==
    /\ UNCHANGED <<seeds, seedVars, graphVars, resultVars, todo, channel>>
    /\ ask' \in [Asker -> AskType] /\ cache' \in [Question -> {"none", "open"} \cup Completed]
    /\ \A j \in Asker : ask'[j].q = ask[j].q /\ (ask'[j].st = "idle" <=> ask[j].st = "idle")
    /\ Truthful'

LEMMA LookupQueried ==
    ASSUME DNSShape, NEW k \in Asker, Lookup(k)
    PROVE  Queried
  <1>1. PICK q \in Question : q = ask[k].q
    BY AskedQuestion DEF DNSShape, Lookup, Idle
  <1>2. ask[k] \in AskType /\ ask[k].st = "start" /\ ask \in [Asker -> AskType]
    BY DEF DNSShape, DNSTypes, Lookup
  <1>3. cache \in [Question -> {"none", "open"} \cup Completed]
    BY DEF DNSShape, DNSTypes
  <1>4. UNCHANGED <<seeds, seedVars, graphVars, resultVars, todo, channel>>
    BY DEF Lookup
  <1>5. PICK a \in AskType : /\ ask' = [ask EXCEPT ![k] = a] /\ a.q = q /\ a.st # "idle"
                             /\ a.st = "got" => a.kind \in {Truth(q), "failed"}
    <2>1. ASSUME NEW kind \in Kinds, NEW cached \in BOOLEAN, NEW n \in {0, 1}
          PROVE  /\ Got(k, kind, cached, n) \in AskType
                 /\ Got(k, kind, cached, n).q = q /\ Got(k, kind, cached, n).st = "got"
                 /\ Got(k, kind, cached, n).kind = kind
      BY <1>1, <1>2 DEF Got, AskType
    <2>2. "failed" \in Kinds /\ Completed \subseteq Kinds
      BY DEF Kinds
    <2>3. cache[q] \in Completed => cache[q] = Truth(q)
      BY DEF DNSShape, Truthful
    <2>4. CASE ask' = [ask EXCEPT ![k] = Got(k, "failed", FALSE, 0)]
      BY <2>1, <2>2, <2>4
    <2>5. CASE cache[q] \in Completed /\ ask' = [ask EXCEPT ![k] = Got(k, cache[q], TRUE, 0)]
      BY <2>1, <2>2, <2>3, <2>5
    <2>6. ASSUME NEW st \in {"wait", "own"}, ask' = [ask EXCEPT ![k].st = st]
          PROVE  /\ ask' = [ask EXCEPT ![k] = [ask[k] EXCEPT !.st = st]]
                 /\ [ask[k] EXCEPT !.st = st] \in AskType
                 /\ [ask[k] EXCEPT !.st = st].q = q /\ [ask[k] EXCEPT !.st = st].st = st
      BY <1>1, <1>2, <2>6 DEF AskType
    <2>7. CASE ask' = [ask EXCEPT ![k].st = "wait"]
      BY <2>6, <2>7
    <2>8. CASE ask' = [ask EXCEPT ![k].st = "own"]
      BY <2>6, <2>8
    <2> QED
      BY <1>1, <2>4, <2>5, <2>7, <2>8, Zenon DEF Lookup
  <1>6. ask' \in [Asker -> AskType] /\ ask'[k] = a /\ \A j \in Asker : j # k => ask'[j] = ask[j]
    BY <1>5, AskUpdate DEF DNSShape
  <1>7. cache' \in [Question -> {"none", "open"} \cup Completed]
    BY <1>1, <1>3 DEF Lookup
  <1>8. \A p \in Question : cache'[p] \in Completed => cache'[p] = cache[p]
    BY <1>1, <1>3 DEF Lookup, Completed
  <1>9. Truthful'
    <2>1. \A p \in Question : cache'[p] \in Completed => cache'[p] = Truth(p)
      BY <1>8 DEF DNSShape, Truthful
    <2>2. \A j \in Asker : ask'[j].st = "got" => ask'[j].kind \in {Truth(ask'[j].q), "failed"}
      BY <1>5, <1>6 DEF DNSShape, Truthful
    <2> QED
      BY <2>1, <2>2 DEF Truthful
  <1> QED
    BY <1>1, <1>2, <1>4, <1>5, <1>6, <1>7, <1>9 DEF Queried

LEMMA ResolveQueried ==
    ASSUME DNSShape, NEW k \in Asker, Resolve(k)
    PROVE  Queried
  <1>1. PICK q \in Question : q = ask[k].q
    BY AskedQuestion DEF DNSShape, Resolve, Idle
  <1>2. ask[k].st = "own" /\ ask \in [Asker -> AskType]
    BY DEF DNSShape, DNSTypes, Resolve
  <1>3. cache \in [Question -> {"none", "open"} \cup Completed]
    BY DEF DNSShape, DNSTypes
  <1>4. UNCHANGED <<seeds, seedVars, graphVars, resultVars, todo, channel>>
    BY DEF Resolve
  <1>5. PICK kind \in {Truth(q), "failed"} :
          /\ cache' = [cache EXCEPT ![q] = IF kind \in Completed THEN kind ELSE "none"]
          /\ ask' = [j \in Asker |->
                       IF j = k THEN Got(k, kind, FALSE, 1)
                       ELSE IF ask[j].st = "wait" /\ ask[j].q = q THEN Shared(j, kind)
                       ELSE ask[j]]
    <2>1. \E kind \in {Truth(ask[k].q), "failed"} :
            /\ cache' = [cache EXCEPT ![ask[k].q] =
                            IF kind \in Completed THEN kind ELSE "none"]
            /\ ask' = [j \in Asker |->
                         IF j = k THEN Got(k, kind, FALSE, 1)
                         ELSE IF ask[j].st = "wait" /\ ask[j].q = ask[k].q
                              THEN Shared(j, kind)
                         ELSE ask[j]]
      BY Zenon DEF Resolve
    <2> QED
      BY <1>1, <2>1, Zenon
  <1>6. kind \in Kinds /\ Truth(q) \in Completed /\ "failed" \notin Completed
    BY AnswerTypes DEF Kinds, Completed
  <1>7. ASSUME NEW j \in Asker, NEW cached \in BOOLEAN
        PROVE  /\ Got(j, kind, cached, 1) \in AskType
               /\ Got(j, kind, cached, 1).q = ask[j].q /\ Got(j, kind, cached, 1).st = "got"
               /\ Got(j, kind, cached, 1).kind = kind
    <2>1. ask[j] \in AskType
      BY <1>2
    <2> QED
      BY <1>6, <2>1 DEF Got, AskType
  <1>8. \A j \in Asker : /\ ask'[j] \in AskType /\ ask'[j].q = ask[j].q
                         /\ ask'[j].st = "idle" <=> ask[j].st = "idle"
                         /\ ask'[j].st = "got" => ask'[j].kind \in {Truth(ask[j].q), "failed"}
    <2> TAKE j \in Asker
    <2>1. CASE j = k
      <3>1. ask'[j] = Got(j, kind, FALSE, 1)
        BY <1>5, <2>1
      <3> QED
        BY <1>1, <1>2, <1>7, <2>1, <3>1
    <2>2. CASE j # k /\ ask[j].st = "wait" /\ ask[j].q = q
      <3>1. ask'[j] = Got(j, kind, TRUE, 1)
        BY <1>5, <2>2 DEF Shared
      <3> QED
        BY <1>1, <1>2, <1>7, <2>2, <3>1
    <2>3. CASE j # k /\ ~(ask[j].st = "wait" /\ ask[j].q = q)
      <3>1. ask'[j] = ask[j]
        BY <1>5, <2>3
      <3> QED
        BY <1>2, <3>1 DEF DNSShape, Truthful
    <2> QED
      BY <2>1, <2>2, <2>3
  <1>9. ask' \in [Asker -> AskType]
    <2>1. ask' \in [Asker -> {ask'[j] : j \in Asker}]
      BY <1>5
    <2> QED
      BY <1>8, <2>1
  <1>10. /\ cache' \in [Question -> {"none", "open"} \cup Completed]
         /\ \A p \in Question : cache'[p] \in Completed => cache'[p] = Truth(p)
    BY <1>3, <1>5, <1>6 DEF DNSShape, Truthful, Completed
  <1>11. Truthful'
    BY <1>8, <1>10 DEF Truthful
  <1> QED
    BY <1>4, <1>8, <1>9, <1>10, <1>11 DEF Queried

LEMMA StopQueried ==
    ASSUME DNSShape, NEW k \in Asker, StopWaiting(k)
    PROVE  Queried
  <1>1. ask[k] \in AskType /\ ask \in [Asker -> AskType] /\ ask[k].st = "wait"
    BY DEF DNSShape, DNSTypes, StopWaiting
  <1>2. PICK a \in AskType : /\ ask' = [ask EXCEPT ![k] = a] /\ a.q = ask[k].q
                             /\ a.st = "got" /\ a.kind = "failed"
    <2>1. /\ Got(k, "failed", TRUE, 0) \in AskType
          /\ Got(k, "failed", TRUE, 0).q = ask[k].q
          /\ Got(k, "failed", TRUE, 0).st = "got" /\ Got(k, "failed", TRUE, 0).kind = "failed"
      BY <1>1 DEF Got, AskType, Kinds
    <2> QED
      BY <2>1 DEF StopWaiting
  <1>3. ask' \in [Asker -> AskType] /\ ask'[k] = a /\ \A j \in Asker : j # k => ask'[j] = ask[j]
    BY <1>2, AskUpdate DEF DNSShape
  <1>4. UNCHANGED <<seeds, seedVars, graphVars, resultVars, todo, channel, cache>>
    BY DEF StopWaiting
  <1>5. cache' \in [Question -> {"none", "open"} \cup Completed]
    BY <1>4 DEF DNSShape, DNSTypes
  <1>6. Truthful'
    BY <1>2, <1>3, <1>4 DEF DNSShape, Truthful
  <1> QED
    BY <1>1, <1>2, <1>3, <1>4, <1>5, <1>6 DEF Queried

LEMMA QueriedShape ==
    ASSUME DNSShape, Queried
    PROVE  DNSShape'
  <1>1. DNSTypes'
    BY DEF DNSShape, DNSTypes, Queried, seedVars, graphVars, resultVars
  <1>2. \A k \in Asker : Idle(k)' <=> Idle(k)
    BY DEF Queried, Idle
  <1>3. \A k \in Asker : ask'[k].q = ask[k].q
    BY DEF Queried
  <1>4. UNCHANGED <<seeds, stage, zone, item, links, todo, hosts, graphDone>>
    BY DEF Queried, seedVars, graphVars
  <1>5. AskedFor'
    BY <1>2, <1>3, <1>4, AskersDiffer DEF DNSShape, AskedFor, seed
  <1>6. StagesOrdered'
    BY <1>2, <1>4, AskersDiffer DEF DNSShape, StagesOrdered
  <1> QED
    BY <1>1, <1>5, <1>6 DEF DNSShape, Queried

-----------------------------------------------------------------------------
(* The collection's own steps keep types, questions and stages.            *)

\* A result is taken up: its asker is idle again.
LEMMA ReceiveShape ==
    ASSUME DNSShape, NEW t \in SeedTypes, Receive(t)
    PROVE  DNSShape'
  <1> DEFINE k == <<"seed", t>>
  <1>1. k \in Asker /\ k # Main /\ k # Graph /\ \A u \in AddressTypes : k # <<"redirect", u>>
    BY AskersDiffer
  <1>2. /\ links = {} /\ todo = {} /\ ask[k].st = "got" /\ ask' = [ask EXCEPT ![k] = NoAsk]
        /\ found' = found \cup DependenciesGot(k)
        /\ links' = (IF ask[k].kind = "answered" THEN Aliases(ask[k].q) ELSE {})
        /\ todo' = AddressesGot(k)
        /\ UNCHANGED <<seeds, cache, stage, zone, hosts, graphVars, channel>>
    BY DEF Receive
  <1> HIDE DEF k
  <1>3. ~Idle(k)
    BY <1>2 DEF Idle
  <1>4. ask[k].q \in Question
    BY <1>1, <1>3, AskedQuestion DEF DNSShape
  <1>5. /\ AddressesGot(k) \subseteq Address /\ DependenciesGot(k) \subseteq Dependency
        /\ Aliases(ask[k].q) \subseteq Name
    BY <1>1, <1>4, ResultIs DEF DNSShape
  <1>6. ask' \in [Asker -> AskType] /\ ask'[k] = NoAsk /\ \A j \in Asker : j # k => ask'[j] = ask[j]
    BY <1>1, <1>2, NoAskIs, AskUpdate DEF DNSShape
  <1>7. DNSTypes'
    BY <1>2, <1>5, <1>6 DEF DNSShape, DNSTypes, graphVars
  <1>8. AskedFor'
    BY <1>1, <1>2, <1>6, NoAskIs, AskersDiffer DEF DNSShape, AskedFor, Idle, seed, graphVars
  <1>9. Truthful'
    BY <1>2, <1>6, NoAskIs DEF DNSShape, Truthful
  <1>10. StagesOrdered'
    <2>1. stage = "collect"
      BY <1>3 DEF DNSShape, StagesOrdered, DNSTypes, k
    <2> QED
      BY <1>2, <2>1 DEF DNSShape, StagesOrdered, graphVars
  <1> QED
    BY <1>7, <1>8, <1>9, <1>10 DEF DNSShape

LEMMA PushLinkShape ==
    ASSUME DNSShape, PushLink
    PROVE  DNSShape'
  <1>1. PICK n \in links : /\ links' = links \ {n}
                           /\ channel' = Append(channel, n) \/ channel' = channel
    BY DEF PushLink
  <1>2. UNCHANGED <<seeds, jobVars, stage, zone, hosts, graphVars, found, todo>>
    BY DEF PushLink
  <1>3. channel' \in Seq(Name)
    <2>1. n \in Name /\ channel \in Seq(Name)
      BY DEF DNSShape, DNSTypes
    <2> QED
      BY <1>1, <2>1
  <1>4. DNSTypes'
    BY <1>1, <1>2, <1>3 DEF DNSShape, DNSTypes, jobVars, graphVars
  <1> QED
    BY <1>1, <1>2, <1>4
    DEF DNSShape, AskedFor, Truthful, StagesOrdered, Idle, seed, jobVars, graphVars

LEMMA TakeAnswerShape ==
    ASSUME DNSShape, TakeAnswer
    PROVE  DNSShape'
  <1>1. todo' = {} /\ UNCHANGED <<seeds, jobVars, seedVars, graphVars, found, channel>>
    BY DEF TakeAnswer
  <1> QED
    BY <1>1 DEF DNSShape, DNSTypes, AskedFor, Truthful, StagesOrdered, Idle, seed, jobVars, seedVars, graphVars

LEMMA CloseTargetsShape ==
    ASSUME DNSShape, CloseTargets
    PROVE  DNSShape'
  <1>1. /\ links = {} /\ todo = {} /\ (\A t \in SeedTypes : Idle(<<"seed", t>>)) /\ stage = "collect"
        /\ stage' = "join"
        /\ UNCHANGED <<seeds, jobVars, links, zone, hosts, graphVars, found, todo, channel>>
    BY DEF CloseTargets, Idle, resultVars
  <1> QED
    BY <1>1 DEF DNSShape, DNSTypes, AskedFor, Truthful, StagesOrdered, Idle, seed, jobVars, graphVars

LEMMA JoinShape ==
    ASSUME DNSShape, Join
    PROVE  DNSShape'
  <1>1. /\ stage = "join" /\ graphDone
        /\ \/ stage' = "zone" /\ zone' = [name |-> seed, depth |-> 0] /\ hosts' = hosts
           \/ stage' = "hosts" /\ hosts' = found \X AddressTypes /\ zone' = zone
        /\ UNCHANGED <<seeds, jobVars, links, graphVars, found, todo, channel>>
    BY DEF Join, ToHosts, resultVars
  <1>2. seed \in Name
    BY SeedIs DEF DNSShape
  <1>3. DNSTypes'
    BY <1>1, <1>2 DEF DNSShape, DNSTypes, jobVars, graphVars
  <1>4. AskedFor'
    <2>1. Idle(Main)
      BY <1>1 DEF DNSShape, AskedFor
    <2> QED
      BY <1>1, <1>2, <2>1 DEF DNSShape, AskedFor, Idle, seed, jobVars, graphVars
  <1>5. Truthful' /\ StagesOrdered'
    BY <1>1 DEF DNSShape, Truthful, StagesOrdered, Idle, jobVars, graphVars
  <1> QED
    BY <1>3, <1>4, <1>5 DEF DNSShape

LEMMA FinishSeedShape ==
    ASSUME DNSShape, FinishSeed
    PROVE  DNSShape'
  <1>1. /\ stage = "hosts" /\ Idle(Main) /\ stage' = "done" /\ hosts' = {}
        /\ UNCHANGED <<seeds, jobVars, links, zone, graphVars, found, todo, channel>>
    BY DEF FinishSeed, Idle
  <1> QED
    BY <1>1 DEF DNSShape, DNSTypes, AskedFor, Truthful, StagesOrdered, Idle, seed, jobVars, graphVars

LEMMA EndContextShape ==
    ASSUME DNSShape, EndContext
    PROVE  DNSShape'
  <1>1. UNCHANGED <<seeds, jobVars, seedVars, graphVars, resultVars, todo, channel>>
    BY DEF EndContext
  <1> QED
    BY <1>1 DEF DNSShape, DNSTypes, AskedFor, Truthful, StagesOrdered, Idle, seed, jobVars, seedVars, graphVars, resultVars

\* The zone walk and the dependencies are asked for one at a time.
LEMMA ZoneAskShape ==
    ASSUME DNSShape, ZoneAsk
    PROVE  DNSShape'
  <1>1. stage = "zone" /\ Idle(Main) /\ UNCHANGED <<seeds, cache, links, zone, graphVars, found, todo, channel>>
    BY DEF ZoneAsk, Idle
  <1>2. CASE ZoneStuck
    <2>1. stage' = "hosts" /\ hosts' = found \X AddressTypes /\ ask' = ask
      BY <1>2 DEF ZoneAsk, ToHosts
    <2> QED
      BY <1>1, <2>1 DEF DNSShape, DNSTypes, AskedFor, Truthful, StagesOrdered, Idle, seed, graphVars
  <1>3. CASE ~ZoneStuck
    <2>1. stage' = stage /\ hosts' = hosts /\ ask' = [ask EXCEPT ![Main] = Asking(<<zone.name, "SOA">>)]
      BY <1>3 DEF ZoneAsk
    <2>2. zone.name \in Name /\ Parent[zone.name] # None
      BY <1>1, <1>3 DEF DNSShape, AskedFor, ZoneStuck
    <2>3. PICK q \in Question : q = <<zone.name, "SOA">>
      BY <2>2 DEF Question, Type
    <2>4. PICK a \in AskType : a = Asking(q) /\ a.st = "start" /\ a.q = q
      BY AskingIs
    <2>5. ask' = [ask EXCEPT ![Main] = a]
      BY <2>1, <2>3, <2>4
    <2>6. ask' \in [Asker -> AskType] /\ ask'[Main] = a /\ \A j \in Asker : j # Main => ask'[j] = ask[j]
      BY <2>5, AskersDiffer, AskUpdate DEF DNSShape
    <2>7. DNSTypes'
      BY <1>1, <2>1, <2>6 DEF DNSShape, DNSTypes, graphVars
    <2>8. AskedFor'
      BY <1>1, <2>1, <2>2, <2>3, <2>4, <2>6, AskersDiffer DEF DNSShape, AskedFor, Idle, seed, graphVars
    <2>9. Truthful' /\ StagesOrdered'
      BY <1>1, <2>1, <2>4, <2>6, AskersDiffer DEF DNSShape, Truthful, StagesOrdered, Idle, graphVars
    <2> QED
      BY <2>7, <2>8, <2>9 DEF DNSShape
  <1> QED
    BY <1>2, <1>3

LEMMA ZoneGotShape ==
    ASSUME DNSShape, ZoneGot
    PROVE  DNSShape'
  <1>1. /\ stage = "zone" /\ ask[Main].st = "got"
        /\ found' = found \cup DependenciesGot(Main)
        /\ UNCHANGED <<seeds, cache, stage, links, hosts, graphVars, todo, channel>>
    BY DEF ZoneGot, AppendGraphQuery
  <1>2. Main \in Asker /\ ~Idle(Main)
    BY <1>1, AskersDiffer DEF Idle
  <1>3. ask[Main].q \in Question
    BY <1>2, AskedQuestion DEF DNSShape
  <1>4. DependenciesGot(Main) \subseteq Dependency
    BY <1>2, <1>3, ResultIs DEF DNSShape
  <1>5. zone.name \in Name /\ Parent[zone.name] # None /\ Parent[zone.name] \in Name /\ zone.depth \in Nat
    BY <1>1, <1>2, WorldAssumption DEF DNSShape, AskedFor, DNSTypes
  <1>6. PICK a \in AskType :
          /\ ask' = [ask EXCEPT ![Main] = a] /\ a.st \in {"start", "idle"}
          /\ \/ a.st = "idle" /\ zone' = [name |-> Parent[zone.name], depth |-> zone.depth + 1]
             \/ a.q = <<zone.name, "NS">> /\ zone' = zone
    <2>1. CASE ask[Main].kind = "answered" /\ HasZone(ask[Main].q)
      <3>1. PICK q \in Question : q = <<zone.name, "NS">>
        BY <1>5 DEF Question, Type
      <3>2. ask' = [ask EXCEPT ![Main] = Asking(q)] /\ zone' = zone
        BY <2>1, <3>1 DEF ZoneGot
      <3>3. Asking(q) \in AskType /\ Asking(q).st = "start" /\ Asking(q).q = q
        BY AskingIs
      <3> QED
        BY <3>1, <3>2, <3>3
    <2>2. CASE ~(ask[Main].kind = "answered" /\ HasZone(ask[Main].q))
      BY <2>2, NoAskIs, Zenon DEF ZoneGot
    <2> QED
      BY <2>1, <2>2
  <1>7. ask' \in [Asker -> AskType] /\ ask'[Main] = a /\ \A j \in Asker : j # Main => ask'[j] = ask[j]
    BY <1>2, <1>6, AskUpdate DEF DNSShape
  <1>8. DNSTypes'
    <2>1. zone' \in [name : Name \cup {None}, depth : Nat]
      BY <1>5, <1>6 DEF DNSShape, DNSTypes
    <2> QED
      BY <1>1, <1>4, <1>7, <2>1 DEF DNSShape, DNSTypes, graphVars
  <1>9. AskedFor'
    <2>1. zone'.name \in Name /\ (a.st # "idle" => a.q = <<zone'.name, "NS">> /\ Parent[zone'.name] # None)
      BY <1>5, <1>6
    <2> QED
      BY <1>1, <1>7, <2>1, AskersDiffer DEF DNSShape, AskedFor, Idle, seed, graphVars
  <1>10. Truthful' /\ StagesOrdered'
    BY <1>1, <1>6, <1>7, AskersDiffer DEF DNSShape, Truthful, StagesOrdered, Idle, graphVars
  <1> QED
    BY <1>8, <1>9, <1>10 DEF DNSShape

LEMMA ZoneServersShape ==
    ASSUME DNSShape, ZoneServers
    PROVE  DNSShape'
  <1>1. /\ stage = "zone" /\ ask[Main].st = "got"
        /\ found' = found \cup DependenciesGot(Main) /\ stage' = "hosts"
        /\ hosts' = (found \cup DependenciesGot(Main)) \X AddressTypes
        /\ ask' = [ask EXCEPT ![Main] = NoAsk]
        /\ UNCHANGED <<seeds, cache, links, zone, graphVars, todo, channel>>
    BY DEF ZoneServers, AppendGraphQuery, ToHosts
  <1>2. Main \in Asker /\ ~Idle(Main)
    BY <1>1, AskersDiffer DEF Idle
  <1>3. ask[Main].q \in Question
    BY <1>2, AskedQuestion DEF DNSShape
  <1>4. DependenciesGot(Main) \subseteq Dependency
    BY <1>2, <1>3, ResultIs DEF DNSShape
  <1>5. ask' \in [Asker -> AskType] /\ ask'[Main] = NoAsk /\ \A j \in Asker : j # Main => ask'[j] = ask[j]
    BY <1>1, <1>2, NoAskIs, AskUpdate DEF DNSShape
  <1>6. DNSTypes'
    <2>1. found' \subseteq Dependency /\ hosts' \subseteq Dependency \X AddressTypes
      BY <1>1, <1>4 DEF DNSShape, DNSTypes
    <2> QED
      BY <1>1, <1>5, <2>1 DEF DNSShape, DNSTypes, graphVars
  <1>7. AskedFor'
    BY <1>1, <1>5, NoAskIs, AskersDiffer DEF DNSShape, AskedFor, Idle, seed, graphVars
  <1>8. Truthful' /\ StagesOrdered'
    BY <1>1, <1>5, NoAskIs, AskersDiffer DEF DNSShape, Truthful, StagesOrdered, Idle, graphVars
  <1> QED
    BY <1>6, <1>7, <1>8 DEF DNSShape

LEMMA HostAskShape ==
    ASSUME DNSShape, HostAsk
    PROVE  DNSShape'
  <1>1. PICK h \in hosts : /\ hosts' = hosts \ {h}
                           /\ ask' = [ask EXCEPT ![Main] = Asking(<<h[1][1], h[2]>>)]
    BY DEF HostAsk
  <1>2. /\ stage = "hosts"
        /\ UNCHANGED <<seeds, cache, stage, links, zone, graphVars, found, todo, channel>>
    BY DEF HostAsk, resultVars
  <1>3. h[1][1] \in Name /\ h[2] \in AddressTypes
    BY DEF DNSShape, DNSTypes, Dependency
  <1>4. PICK q \in Question : q = <<h[1][1], h[2]>>
    BY <1>3 DEF Question, Type
  <1>5. PICK a \in AskType : a = Asking(q) /\ a.st = "start" /\ a.q = q
    BY AskingIs
  <1>6. ask' \in [Asker -> AskType] /\ ask'[Main] = a /\ \A j \in Asker : j # Main => ask'[j] = ask[j]
    BY <1>1, <1>4, <1>5, AskersDiffer, AskUpdate DEF DNSShape
  <1>7. DNSTypes'
    BY <1>1, <1>2, <1>6 DEF DNSShape, DNSTypes, graphVars
  <1>8. AskedFor'
    BY <1>2, <1>3, <1>4, <1>5, <1>6, AskersDiffer DEF DNSShape, AskedFor, Idle, seed, graphVars
  <1>9. Truthful' /\ StagesOrdered'
    BY <1>2, <1>5, <1>6, AskersDiffer DEF DNSShape, Truthful, StagesOrdered, Idle, graphVars
  <1> QED
    BY <1>7, <1>8, <1>9 DEF DNSShape

LEMMA HostGotShape ==
    ASSUME DNSShape, HostGot
    PROVE  DNSShape'
  <1>1. /\ stage = "hosts" /\ ask[Main].st = "got"
        /\ found' = found \cup DependenciesGot(Main)
        /\ ask' = [ask EXCEPT ![Main] = NoAsk]
        /\ UNCHANGED <<seeds, cache, seedVars, graphVars, todo, channel>>
    BY DEF HostGot, AppendGraphQuery
  <1>2. Main \in Asker /\ ~Idle(Main)
    BY <1>1, AskersDiffer DEF Idle
  <1>3. ask[Main].q \in Question
    BY <1>2, AskedQuestion DEF DNSShape
  <1>4. DependenciesGot(Main) \subseteq Dependency
    BY <1>2, <1>3, ResultIs DEF DNSShape
  <1>5. ask' \in [Asker -> AskType] /\ ask'[Main] = NoAsk /\ \A j \in Asker : j # Main => ask'[j] = ask[j]
    BY <1>1, <1>2, NoAskIs, AskUpdate DEF DNSShape
  <1>6. DNSTypes'
    BY <1>1, <1>4, <1>5 DEF DNSShape, DNSTypes, graphVars, seedVars
  <1>7. AskedFor'
    BY <1>1, <1>5, NoAskIs, AskersDiffer DEF DNSShape, AskedFor, Idle, seed, graphVars, seedVars
  <1>8. Truthful' /\ StagesOrdered'
    BY <1>1, <1>5, NoAskIs, AskersDiffer DEF DNSShape, Truthful, StagesOrdered, Idle, graphVars, seedVars
  <1> QED
    BY <1>6, <1>7, <1>8 DEF DNSShape

\* One round of the graph: what it waits for and what it leaves.
LEMMA GraphRound ==
    ASSUME DNSShape, GraphPick
    PROVE  \E n \in 0..Len(channel), waiting \in SUBSET ItemType :
             /\ waiting = queue \cup {GraphItem(channel[i], 1, {seed}) : i \in 1..n}
             /\ channel' = SubSeq(channel, n + 1, Len(channel)) /\ channel' \in Seq(Name)
             /\ \E x \in waiting :
                  /\ queue' = waiting \ {x}
                  /\ status' = Marked(TooFar(x))
                  /\ IF TooFar(x) \/ x.name \in seen
                     THEN UNCHANGED <<seen, item, ask>>
                     ELSE /\ seen' = seen \cup {x.name}
                          /\ item' = x
                          /\ ask' = [ask EXCEPT ![Graph] = Asking(<<x.name, "CNAME">>)]
  <1> DEFINE some == IF queue = {} THEN 2 ELSE 1
  <1>1. seed \in Name /\ channel \in Seq(Name) /\ queue \subseteq ItemType
    BY SeedIs DEF DNSShape, DNSTypes
  <1>2. PICK n \in 0..Len(channel) : n = IF Len(channel) < some THEN Len(channel) ELSE some
    BY <1>1
  <1>3. PICK waiting : waiting = queue \cup {GraphItem(channel[i], 1, {seed}) : i \in 1..n}
    OBVIOUS
  <1>4. waiting \subseteq ItemType
    <2>1. \A i \in 1..n : GraphItem(channel[i], 1, {seed}) \in ItemType
      BY <1>1 DEF GraphItem, ItemType
    <2> QED
      BY <1>1, <1>3, <2>1
  <1>5. channel' = SubSeq(channel, n + 1, Len(channel))
    BY <1>2 DEF GraphPick
  <1>6. channel' \in Seq(Name)
    BY <1>1, <1>5
  <1>7. \E x \in waiting :
             /\ queue' = waiting \ {x}
             /\ status' = Marked(TooFar(x))
             /\ IF TooFar(x) \/ x.name \in seen
                THEN UNCHANGED <<seen, item, ask>>
                ELSE /\ seen' = seen \cup {x.name}
                     /\ item' = x
                     /\ ask' = [ask EXCEPT ![Graph] = Asking(<<x.name, "CNAME">>)]
    BY <1>2, <1>3 DEF GraphPick
  <1> QED
    BY <1>3, <1>4, <1>5, <1>6, <1>7

LEMMA GraphPickShape ==
    ASSUME DNSShape, GraphPick
    PROVE  DNSShape'
  <1>1. PICK n \in 0..Len(channel), waiting \in SUBSET ItemType :
             /\ waiting = queue \cup {GraphItem(channel[i], 1, {seed}) : i \in 1..n}
             /\ channel' = SubSeq(channel, n + 1, Len(channel)) /\ channel' \in Seq(Name)
             /\ \E x \in waiting :
                  /\ queue' = waiting \ {x}
                  /\ status' = Marked(TooFar(x))
                  /\ IF TooFar(x) \/ x.name \in seen
                     THEN UNCHANGED <<seen, item, ask>>
                     ELSE /\ seen' = seen \cup {x.name}
                          /\ item' = x
                          /\ ask' = [ask EXCEPT ![Graph] = Asking(<<x.name, "CNAME">>)]
    BY GraphRound
  <1>2. PICK x \in waiting : /\ queue' = waiting \ {x}
                             /\ IF TooFar(x) \/ x.name \in seen
                                THEN UNCHANGED <<seen, item, ask>>
                                ELSE /\ seen' = seen \cup {x.name}
                                     /\ item' = x
                                     /\ ask' = [ask EXCEPT ![Graph] = Asking(<<x.name, "CNAME">>)]
    BY <1>1
  <1>3. /\ ~graphDone /\ item = NoItem
        /\ UNCHANGED <<seeds, cache, seedVars, graphDone, found, todo>>
    BY DEF GraphPick, GraphIdle
  <1>4. x \in ItemType /\ x.name \in Name /\ queue' \subseteq ItemType
    BY <1>1, <1>2 DEF ItemType
  <1>5. CASE TooFar(x) \/ x.name \in seen
    <2>1. UNCHANGED <<seen, item, ask>>
      BY <1>2, <1>5, Zenon
    <2> QED
      BY <1>1, <1>3, <1>4, <2>1
      DEF DNSShape, DNSTypes, AskedFor, Truthful, StagesOrdered, Idle, seed, seedVars
  <1>6. CASE ~(TooFar(x) \/ x.name \in seen)
    <2>1. seen' = seen \cup {x.name} /\ item' = x /\ ask' = [ask EXCEPT ![Graph] = Asking(<<x.name, "CNAME">>)]
      BY <1>2, <1>6, Zenon
    <2>2. PICK q \in Question : q = <<x.name, "CNAME">>
      BY <1>4 DEF Question, Type
    <2>3. PICK a \in AskType : a = Asking(q) /\ a.st = "start" /\ a.q = q
      BY AskingIs
    <2>4. ask' \in [Asker -> AskType] /\ ask'[Graph] = a /\ \A j \in Asker : j # Graph => ask'[j] = ask[j]
      BY <2>1, <2>2, <2>3, AskersDiffer, AskUpdate DEF DNSShape
    <2>5. DNSTypes'
      BY <1>1, <1>3, <1>4, <2>1, <2>4 DEF DNSShape, DNSTypes, seedVars
    <2>6. NoItem \notin ItemType
      BY WorldAssumption DEF NoItem, ItemType
    <2>7. AskedFor'
      BY <1>3, <1>4, <2>1, <2>2, <2>3, <2>4, <2>6, AskersDiffer DEF DNSShape, AskedFor, Idle, seed, seedVars
    <2>8. Truthful' /\ StagesOrdered'
      BY <1>3, <2>3, <2>4, AskersDiffer DEF DNSShape, Truthful, StagesOrdered, Idle, seedVars
    <2> QED
      BY <2>5, <2>7, <2>8 DEF DNSShape
  <1> QED
    BY <1>5, <1>6

LEMMA GraphStopShape ==
    ASSUME DNSShape, GraphStop
    PROVE  DNSShape'
  <1>1. /\ item = NoItem /\ graphDone' = TRUE
        /\ UNCHANGED <<seeds, jobVars, seedVars, queue, seen, item, found, todo, channel>>
    BY DEF GraphStop, GraphIdle
  <1> QED
    BY <1>1 DEF DNSShape, DNSTypes, AskedFor, Truthful, StagesOrdered, Idle, seed, jobVars, seedVars

LEMMA GraphEndShape ==
    ASSUME DNSShape, GraphEnd
    PROVE  DNSShape'
  <1>1. /\ item = NoItem /\ graphDone' = TRUE
        /\ UNCHANGED <<seeds, jobVars, seedVars, queue, seen, item, found, todo, channel>>
    BY DEF GraphEnd, GraphIdle, resultVars
  <1> QED
    BY <1>1 DEF DNSShape, DNSTypes, AskedFor, Truthful, StagesOrdered, Idle, seed, jobVars, seedVars

\* The graph asks about the name it is at.
LEMMA GraphAsksItem ==
    ASSUME DNSShape, ask[Graph].st = "got"
    PROVE  /\ ~Idle(Graph) /\ item \in ItemType /\ item.name \in Name /\ ask[Graph].q \in Question
           /\ ~graphDone
           /\ AddressesGot(Graph) \subseteq Address /\ DependenciesGot(Graph) \subseteq Dependency
           /\ Aliases(ask[Graph].q) \subseteq Name
  <1>1. ~Idle(Graph) /\ Graph \in Asker
    BY AskersDiffer DEF Idle
  <1>2. item \in ItemType /\ item # NoItem
    BY <1>1 DEF DNSShape, AskedFor, DNSTypes
  <1>3. ask[Graph].q \in Question
    BY <1>1, AskedQuestion DEF DNSShape
  <1> QED
    BY <1>1, <1>2, <1>3, ResultIs DEF DNSShape, StagesOrdered, ItemType

LEMMA GraphLinkedShape ==
    ASSUME DNSShape, GraphLinked
    PROVE  DNSShape'
  <1> DEFINE next == IF ask[Graph].kind = "answered" THEN Aliases(ask[Graph].q) ELSE {}
  <1>1. /\ ask[Graph].st = "got"
        /\ found' = found \cup DependenciesGot(Graph)
        /\ ask' = [ask EXCEPT ![Graph] = NoAsk]
        /\ queue' = queue \cup {GraphItem(m, item.depth + 1, item.path \cup {item.name}) : m \in next}
        /\ item' \in {item, NoItem}
        /\ UNCHANGED <<seeds, cache, seedVars, seen, graphDone, todo, channel>>
    BY DEF GraphLinked, AppendGraphQuery
  <1>2. /\ ~Idle(Graph) /\ item \in ItemType /\ item.name \in Name /\ ~graphDone
        /\ DependenciesGot(Graph) \subseteq Dependency /\ next \subseteq Name
    BY <1>1, GraphAsksItem
  <1>3. \A m \in next : GraphItem(m, item.depth + 1, item.path \cup {item.name}) \in ItemType
    BY <1>2 DEF GraphItem, ItemType
  <1>4. ask' \in [Asker -> AskType] /\ ask'[Graph] = NoAsk /\ \A j \in Asker : j # Graph => ask'[j] = ask[j]
    BY <1>1, NoAskIs, AskersDiffer, AskUpdate DEF DNSShape
  <1> HIDE DEF next
  <1>5. DNSTypes'
    <2>1. queue' \subseteq ItemType
      BY <1>1, <1>3 DEF DNSShape, DNSTypes
    <2>2. found' \subseteq Dependency
      BY <1>1, <1>2 DEF DNSShape, DNSTypes
    <2> QED
      BY <1>1, <1>2, <1>4, <2>1, <2>2 DEF DNSShape, DNSTypes, seedVars
  <1>6. AskedFor'
    BY <1>1, <1>4, NoAskIs, AskersDiffer DEF DNSShape, AskedFor, Idle, seed, seedVars
  <1>7. Truthful' /\ StagesOrdered'
    BY <1>1, <1>2, <1>4, NoAskIs, AskersDiffer DEF DNSShape, Truthful, StagesOrdered, Idle, seedVars
  <1> QED
    BY <1>5, <1>6, <1>7 DEF DNSShape

LEMMA GraphAskShape ==
    ASSUME DNSShape, GraphAsk
    PROVE  DNSShape'
  <1>1. PICK t \in item.types : /\ ask' = [ask EXCEPT ![Graph] = Asking(<<item.name, t>>)]
                                /\ item' = [item EXCEPT !.types = @ \ {t}]
    BY DEF GraphAsk
  <1>2. /\ item # NoItem
        /\ UNCHANGED <<seeds, cache, seedVars, queue, seen, graphDone, found, todo, channel>>
    BY DEF GraphAsk, resultVars
  <1>3. item \in ItemType /\ ~graphDone
    BY <1>2 DEF DNSShape, DNSTypes, StagesOrdered
  <1>4. t \in AddressTypes /\ item.name \in Name /\ item' \in ItemType /\ item'.name = item.name /\ item' # NoItem
    <2>1. NoItem \notin ItemType
      BY WorldAssumption DEF NoItem, ItemType
    <2> QED
      BY <1>1, <1>3, <2>1 DEF ItemType
  <1>5. PICK q \in Question : q = <<item.name, t>>
    BY <1>4 DEF Question, Type
  <1>6. PICK a \in AskType : a = Asking(q) /\ a.st = "start" /\ a.q = q
    BY AskingIs
  <1>7. ask' \in [Asker -> AskType] /\ ask'[Graph] = a /\ \A j \in Asker : j # Graph => ask'[j] = ask[j]
    BY <1>1, <1>5, <1>6, AskersDiffer, AskUpdate DEF DNSShape
  <1>8. DNSTypes'
    BY <1>2, <1>4, <1>7 DEF DNSShape, DNSTypes, seedVars
  <1>9. AskedFor'
    BY <1>2, <1>4, <1>5, <1>6, <1>7, AskersDiffer DEF DNSShape, AskedFor, Idle, seed, seedVars
  <1>10. Truthful' /\ StagesOrdered'
    BY <1>2, <1>3, <1>6, <1>7, AskersDiffer DEF DNSShape, Truthful, StagesOrdered, Idle, seedVars
  <1> QED
    BY <1>8, <1>9, <1>10 DEF DNSShape

LEMMA GraphResolvedShape ==
    ASSUME DNSShape, GraphResolved
    PROVE  DNSShape'
  <1>1. /\ ask[Graph].st = "got"
        /\ found' = found \cup DependenciesGot(Graph)
        /\ ask' = [ask EXCEPT ![Graph] = NoAsk]
        /\ item' \in {item, NoItem}
        /\ UNCHANGED <<seeds, cache, seedVars, queue, seen, graphDone, todo, channel>>
    BY DEF GraphResolved, AppendGraphQuery
  <1>2. ~Idle(Graph) /\ item \in ItemType /\ ~graphDone /\ DependenciesGot(Graph) \subseteq Dependency
    BY <1>1, GraphAsksItem
  <1>3. ask' \in [Asker -> AskType] /\ ask'[Graph] = NoAsk /\ \A j \in Asker : j # Graph => ask'[j] = ask[j]
    BY <1>1, NoAskIs, AskersDiffer, AskUpdate DEF DNSShape
  <1>4. DNSTypes'
    BY <1>1, <1>2, <1>3 DEF DNSShape, DNSTypes, seedVars
  <1>5. AskedFor'
    BY <1>1, <1>3, NoAskIs, AskersDiffer DEF DNSShape, AskedFor, Idle, seed, seedVars
  <1>6. Truthful' /\ StagesOrdered'
    BY <1>1, <1>2, <1>3, NoAskIs, AskersDiffer DEF DNSShape, Truthful, StagesOrdered, Idle, seedVars
  <1> QED
    BY <1>4, <1>5, <1>6 DEF DNSShape

LEMMA AskRedirectShape ==
    ASSUME DNSShape, NEW n \in RedirectHost, AskRedirect(n)
    PROVE  DNSShape'
  <1>1. /\ ask' = [k \in Asker |-> IF k[1] = "redirect" THEN Asking(<<n, k[2]>>) ELSE ask[k]]
        /\ UNCHANGED <<seeds, cache, seedVars, graphVars, found, todo, channel>>
    BY DEF AskRedirect, resultVars
  <1>2. n \in Name
    BY WorldAssumption
  <1>3. ASSUME NEW t \in AddressTypes
        PROVE  /\ ask'[<<"redirect", t>>] = Asking(<<n, t>>) /\ <<n, t>> \in Question
               /\ Asking(<<n, t>>) \in AskType /\ Asking(<<n, t>>).st = "start" /\ Asking(<<n, t>>).q = <<n, t>>
    <2>1. PICK q \in Question : q = <<n, t>>
      BY <1>2 DEF Question, Type
    <2>2. <<"redirect", t>> \in Asker /\ <<"redirect", t>>[1] = "redirect" /\ <<"redirect", t>>[2] = t
      BY AskersDiffer
    <2>3. ask'[<<"redirect", t>>] = Asking(q)
      BY <1>1, <2>1, <2>2
    <2>4. Asking(q) \in AskType /\ Asking(q).st = "start" /\ Asking(q).q = q
      BY AskingIs
    <2> QED
      BY <2>1, <2>3, <2>4
  <1>4. ASSUME NEW k \in {Main, Graph} \cup ({"seed"} \X SeedTypes)
        PROVE  ask'[k] = ask[k]
    <2>1. k \in Asker /\ k[1] # "redirect"
      BY DEF Asker, Main, Graph
    <2> QED
      BY <1>1, <2>1
  <1>5. ASSUME NEW k \in Asker
        PROVE  /\ ask'[k] \in AskType
               /\ ask'[k] = ask[k] \/ ask'[k].st = "start"
    <2>1. CASE k \in {Main, Graph} \cup ({"seed"} \X SeedTypes)
      BY <1>4, <2>1 DEF DNSShape, DNSTypes
    <2>2. CASE k \in {"redirect"} \X AddressTypes
      <3>1. PICK t \in AddressTypes : k = <<"redirect", t>>
        BY <2>2
      <3> QED
        BY <1>3, <3>1
    <2> QED
      BY <2>1, <2>2 DEF Asker
  <1>6. ask' \in [Asker -> AskType]
    <2>1. ask' \in [Asker -> {ask'[k] : k \in Asker}]
      BY <1>1
    <2> QED
      BY <1>5, <2>1
  <1>7. DNSTypes'
    BY <1>1, <1>6 DEF DNSShape, DNSTypes, seedVars, graphVars
  <1>8. AskedFor'
    <2>1. \A t \in AddressTypes : ask'[<<"redirect", t>>].q \in Question
      BY <1>3
    <2>2. ask'[Main] = ask[Main] /\ ask'[Graph] = ask[Graph]
      BY <1>4
    <2>3. \A t \in SeedTypes : ask'[<<"seed", t>>] = ask[<<"seed", t>>]
      BY <1>4
    <2> QED
      BY <1>1, <2>1, <2>2, <2>3 DEF DNSShape, AskedFor, Idle, seed, seedVars, graphVars
  <1>9. Truthful'
    BY <1>1, <1>5 DEF DNSShape, Truthful
  <1>10. StagesOrdered'
    <2>1. \A t \in SeedTypes : ask'[<<"seed", t>>] = ask[<<"seed", t>>]
      BY <1>4
    <2> QED
      BY <1>1, <2>1 DEF DNSShape, StagesOrdered, Idle, seedVars, graphVars
  <1> QED
    BY <1>7, <1>8, <1>9, <1>10 DEF DNSShape

LEMMA RedirectGotShape ==
    ASSUME DNSShape, NEW t \in AddressTypes, RedirectGot(t)
    PROVE  DNSShape'
  <1> DEFINE k == <<"redirect", t>>
  <1>1. k \in Asker /\ k # Main /\ k # Graph /\ \A u \in SeedTypes : k # <<"seed", u>>
    BY AskersDiffer
  <1>2. /\ ask' = [ask EXCEPT ![k] = NoAsk]
        /\ UNCHANGED <<seeds, cache, seedVars, graphVars, found, todo, channel>>
    BY DEF RedirectGot
  <1> HIDE DEF k
  <1>3. ask' \in [Asker -> AskType] /\ ask'[k] = NoAsk /\ \A j \in Asker : j # k => ask'[j] = ask[j]
    BY <1>1, <1>2, NoAskIs, AskUpdate DEF DNSShape
  <1>4. DNSTypes'
    BY <1>2, <1>3 DEF DNSShape, DNSTypes, seedVars, graphVars
  <1>5. AskedFor'
    BY <1>1, <1>2, <1>3, NoAskIs, AskersDiffer DEF DNSShape, AskedFor, Idle, seed, seedVars, graphVars
  <1>6. Truthful' /\ StagesOrdered'
    BY <1>1, <1>2, <1>3, NoAskIs, AskersDiffer DEF DNSShape, Truthful, StagesOrdered, Idle, seedVars, graphVars
  <1> QED
    BY <1>4, <1>5, <1>6 DEF DNSShape

\* The questions a seed begins with.
LEMMA SeedAsksAre ==
    ASSUME NEW s \in Name
    PROVE  /\ SeedAsks(s) \in [Asker -> AskType]
           /\ \A t \in SeedTypes : /\ SeedAsks(s)[<<"seed", t>>].q = <<s, t>>
                                   /\ SeedAsks(s)[<<"seed", t>>].st = "start"
           /\ \A k \in Asker : SeedAsks(s)[k].st # "got"
           /\ SeedAsks(s)[Main] = NoAsk /\ SeedAsks(s)[Graph] = NoAsk
           /\ \A t \in AddressTypes : SeedAsks(s)[<<"redirect", t>>] = NoAsk
  <1>1. ASSUME NEW t \in SeedTypes
        PROVE  /\ SeedAsks(s)[<<"seed", t>>] = Asking(<<s, t>>) /\ Asking(<<s, t>>) \in AskType
               /\ Asking(<<s, t>>).st = "start" /\ Asking(<<s, t>>).q = <<s, t>>
    <2>1. PICK q \in Question : q = <<s, t>>
      BY DEF Question, Type
    <2>2. <<"seed", t>> \in Asker /\ <<"seed", t>>[1] = "seed" /\ <<"seed", t>>[2] = t
      BY AskersDiffer
    <2>3. SeedAsks(s)[<<"seed", t>>] = Asking(q)
      BY <2>1, <2>2 DEF SeedAsks
    <2>4. Asking(q) \in AskType /\ Asking(q).st = "start" /\ Asking(q).q = q
      BY AskingIs
    <2> QED
      BY <2>1, <2>3, <2>4
  <1>2. ASSUME NEW k \in {Main, Graph} \cup ({"redirect"} \X AddressTypes)
        PROVE  SeedAsks(s)[k] = NoAsk
    <2>1. k \in Asker /\ k[1] # "seed"
      BY DEF Asker, Main, Graph
    <2> QED
      BY <2>1 DEF SeedAsks
  <1>3. ASSUME NEW k \in Asker
        PROVE  SeedAsks(s)[k] \in AskType /\ SeedAsks(s)[k].st # "got"
    <2>1. CASE k \in {Main, Graph} \cup ({"redirect"} \X AddressTypes)
      BY <1>2, <2>1, NoAskIs
    <2>2. CASE k \in {"seed"} \X SeedTypes
      <3>1. PICK t \in SeedTypes : k = <<"seed", t>>
        BY <2>2
      <3> QED
        BY <1>1, <3>1
    <2> QED
      BY <2>1, <2>2 DEF Asker
  <1>4. SeedAsks(s) \in [Asker -> AskType]
    <2>1. SeedAsks(s) \in [Asker -> {SeedAsks(s)[k] : k \in Asker}]
      BY DEF SeedAsks
    <2> QED
      BY <1>3, <2>1
  <1>5. SeedAsks(s)[Main] = NoAsk /\ SeedAsks(s)[Graph] = NoAsk
        /\ \A t \in AddressTypes : SeedAsks(s)[<<"redirect", t>>] = NoAsk
    BY <1>2
  <1> QED
    BY <1>1, <1>3, <1>4, <1>5

LEMMA NextSeedIs ==
    ASSUME DNSShape, NextSeed
    PROVE  \E s \in Name : /\ ask' = SeedAsks(s) /\ Head(seeds') = s
                           /\ seeds' \in Seq(Name) /\ seeds' # << >>
  <1>1. seeds \in Seq(Name) /\ Len(seeds) > 1 /\ seeds' = Tail(seeds) /\ ask' = SeedAsks(seeds[2])
    BY DEF DNSShape, DNSTypes, NextSeed
  <1>2. PICK s \in Name : s = seeds[2]
    BY <1>1
  <1>3. seeds' \in Seq(Name) /\ Len(seeds') >= 1 /\ seeds'[1] = s
    BY <1>1, <1>2
  <1>4. Head(seeds') = s /\ seeds' # << >>
    BY <1>3
  <1> QED
    BY <1>1, <1>2, <1>3, <1>4

LEMMA NextSeedShape ==
    ASSUME DNSShape, NextSeed
    PROVE  DNSShape'
  <1>1. PICK s \in Name : ask' = SeedAsks(s) /\ Head(seeds') = s /\ seeds' \in Seq(Name) /\ seeds' # << >>
    BY NextSeedIs
  <1>2. /\ stage = "done" /\ stage' = "collect" /\ seen' = {} /\ graphDone' = FALSE /\ zone' = NoZone
        /\ found' = {} /\ channel' = << >> /\ queue' = {}
        /\ UNCHANGED <<cache, links, hosts, item, todo>>
    BY DEF NextSeed
  <1>3. /\ ask' \in [Asker -> AskType]
        /\ \A t \in SeedTypes : ask'[<<"seed", t>>].q = <<s, t>> /\ ask'[<<"seed", t>>].st = "start"
        /\ \A k \in Asker : ask'[k].st # "got"
        /\ ask'[Main] = NoAsk /\ ask'[Graph] = NoAsk
        /\ \A t \in AddressTypes : ask'[<<"redirect", t>>] = NoAsk
    BY <1>1, SeedAsksAre
  <1>4. DNSTypes'
    BY <1>1, <1>2, <1>3 DEF DNSShape, DNSTypes, NoZone
  <1>5. AskedFor'
    BY <1>1, <1>2, <1>3, NoAskIs DEF AskedFor, Idle, seed
  <1>6. Truthful' /\ StagesOrdered'
    BY <1>2, <1>3 DEF DNSShape, Truthful, StagesOrdered
  <1> QED
    BY <1>4, <1>5, <1>6 DEF DNSShape

LEMMA DNSInitShape ==
    ASSUME DNSInit
    PROVE  DNSShape
  <1>1. seeds \in Seq(Name) /\ seeds # << >>
    BY WorldAssumption DEF DNSInit
  <1>2. PICK s \in Name : s = seed
    BY <1>1 DEF seed
  <1>3. ask = SeedAsks(s)
    BY <1>2 DEF DNSInit
  <1>4. /\ ask \in [Asker -> AskType]
        /\ \A t \in SeedTypes : ask[<<"seed", t>>].q = <<s, t>> /\ ask[<<"seed", t>>].st = "start"
        /\ \A k \in Asker : ask[k].st # "got"
        /\ ask[Main] = NoAsk /\ ask[Graph] = NoAsk
        /\ \A t \in AddressTypes : ask[<<"redirect", t>>] = NoAsk
    BY <1>3, SeedAsksAre
  <1>5. DNSTypes
    BY <1>1, <1>4 DEF DNSTypes, DNSInit, NoZone
  <1>6. AskedFor
    BY <1>2, <1>4, NoAskIs DEF AskedFor, Idle, DNSInit
  <1>7. Truthful /\ StagesOrdered
    BY <1>4, NoAskIs DEF Truthful, StagesOrdered, DNSInit, Completed
  <1> QED
    BY <1>5, <1>6, <1>7 DEF DNSShape

LEMMA DNSShapeStep ==
    ASSUME DNSShape, [DNSNext]_dnsVars
    PROVE  DNSShape'
  <1>1. ASSUME NEW k \in Asker, QueryStep(k) PROVE DNSShape'
    BY <1>1, LookupQueried, ResolveQueried, StopQueried, QueriedShape DEF QueryStep
  <1>2. CASE SeedStep
    BY <1>2, ReceiveShape, PushLinkShape, TakeAnswerShape, CloseTargetsShape, JoinShape, ZoneAskShape,
       ZoneGotShape, ZoneServersShape, HostAskShape, HostGotShape, FinishSeedShape, NextSeedShape
    DEF SeedStep
  <1>3. CASE GraphStep
    BY <1>3, GraphPickShape, GraphStopShape, GraphEndShape, GraphLinkedShape, GraphAskShape, GraphResolvedShape
    DEF GraphStep
  <1>4. ASSUME NEW n \in RedirectHost, AskRedirect(n) PROVE DNSShape'
    BY <1>4, AskRedirectShape
  <1>5. ASSUME NEW t \in AddressTypes, RedirectGot(t) PROVE DNSShape'
    BY <1>5, RedirectGotShape
  <1>6. CASE EndContext
    BY <1>6, EndContextShape
  <1>7. CASE UNCHANGED dnsVars
    BY <1>7 DEF dnsVars, jobVars, seedVars, graphVars, resultVars,
                DNSShape, DNSTypes, AskedFor, Truthful, StagesOrdered, Idle, seed
  <1> QED
    BY <1>1, <1>2, <1>3, <1>4, <1>5, <1>6, <1>7 DEF DNSNext, Resting

\* Questions, answers and stages keep their shape: every question is about the
\* seed, the graph's current name, the zone at hand or a dependency, every
\* answer at hand is what DNS says, and nothing of a stage is left to the next.
THEOREM CollectionShape == DNSSpec => []DNSShape
  <1>1. DNSInit => DNSShape
    BY DNSInitShape
  <1>2. DNSShape /\ [DNSNext]_dnsVars => DNSShape'
    BY DNSShapeStep
  <1> QED
    BY <1>1, <1>2, PTL DEF DNSSpec

-----------------------------------------------------------------------------
(* Questions sent and not yet counted.                                     *)

Own(k) == k[1] # "redirect" /\ ask[k].st = "got" /\ ~ask[k].cached /\ ask[k].attempt = 1

OwnResults == {k \in Asker : Own(k)}

\* The questions sent and not counted are the results of one's own that wait
\* to be taken up: a shared or a reused answer is not among them.
AttemptsInv == uncounted = Cardinality(OwnResults)

LEMMA AskersFinite == IsFiniteSet(Asker)
  <1>1. IsFiniteSet(SeedTypes) /\ IsFiniteSet(AddressTypes)
    BY WorldAssumption, FS_Subset
  <1>2. IsFiniteSet({Main, Graph}) /\ IsFiniteSet({"seed"}) /\ IsFiniteSet({"redirect"})
    <2>1. IsFiniteSet({Main}) /\ IsFiniteSet({Graph})
      BY FS_Singleton
    <2>2. IsFiniteSet({Main} \cup {Graph})
      BY <2>1, FS_Union
    <2>3. {Main, Graph} = {Main} \cup {Graph}
      OBVIOUS
    <2> QED
      BY <2>2, <2>3, FS_Singleton
  <1>3. IsFiniteSet({"seed"} \X SeedTypes) /\ IsFiniteSet({"redirect"} \X AddressTypes)
    BY <1>1, <1>2, FS_Product
  <1>4. IsFiniteSet({Main, Graph} \cup ({"seed"} \X SeedTypes))
    BY <1>2, <1>3, FS_Union
  <1> QED
    BY <1>3, <1>4, FS_Union DEF Asker

LEMMA OwnFinite ==
    IsFiniteSet(OwnResults) /\ Cardinality(OwnResults) \in Nat /\ (OwnResults = {} => Cardinality(OwnResults) = 0)
  <1>1. OwnResults \subseteq Asker
    BY DEF OwnResults
  <1>2. IsFiniteSet(OwnResults)
    BY <1>1, AskersFinite, FS_Subset
  <1> QED
    BY <1>2, FS_CardinalityType, FS_EmptySet

\* One result comes or goes.
LEMMA OwnChange ==
    ASSUME AttemptsInv, NEW k \in Asker,
           \A j \in Asker : j # k => (Own(j)' <=> Own(j)),
           uncounted' = uncounted + (IF Own(k)' THEN 1 ELSE 0) - (IF Own(k) THEN 1 ELSE 0)
    PROVE  AttemptsInv'
  <1>1. PICK S : S = OwnResults
    OBVIOUS
  <1>2. IsFiniteSet(S) /\ Cardinality(S) \in Nat /\ uncounted = Cardinality(S)
    BY <1>1, OwnFinite DEF AttemptsInv
  <1>3. k \in S <=> Own(k)
    BY <1>1 DEF OwnResults
  <1>4. CASE Own(k)' /\ ~Own(k)
    <2>1. OwnResults' = S \cup {k}
      BY <1>1, <1>4 DEF OwnResults
    <2>2. Cardinality(S \cup {k}) = Cardinality(S) + 1
      BY <1>2, <1>3, <1>4, FS_AddElement
    <2> QED
      BY <1>2, <1>4, <2>1, <2>2 DEF AttemptsInv
  <1>5. CASE ~Own(k)' /\ Own(k)
    <2>1. OwnResults' = S \ {k}
      BY <1>1, <1>5 DEF OwnResults
    <2>2. Cardinality(S \ {k}) = Cardinality(S) - 1
      BY <1>2, <1>3, <1>5, FS_RemoveElement
    <2> QED
      BY <1>2, <1>5, <2>1, <2>2 DEF AttemptsInv
  <1>6. CASE Own(k)' <=> Own(k)
    <2>1. OwnResults' = S
      BY <1>1, <1>6 DEF OwnResults
    <2> QED
      BY <1>2, <1>6, <2>1 DEF AttemptsInv
  <1> QED
    BY <1>4, <1>5, <1>6

\* An asker begins or ends a question that was not its own to count.
LEMMA OwnQuiet ==
    ASSUME DNSTypes, AttemptsInv, NEW k \in Asker, NEW a \in AskType,
           ask' = [ask EXCEPT ![k] = a], uncounted' = uncounted,
           k[1] = "redirect" \/ ((ask[k].st # "got" \/ ask[k].cached \/ ask[k].attempt = 0)
                                 /\ (a.st # "got" \/ a.cached \/ a.attempt = 0))
    PROVE  AttemptsInv'
  <1>1. ask' \in [Asker -> AskType] /\ ask'[k] = a /\ \A j \in Asker : j # k => ask'[j] = ask[j]
    BY AskUpdate
  <1>2. ~Own(k) /\ ~Own(k)'
    BY <1>1 DEF Own
  <1>3. \A j \in Asker : j # k => (Own(j)' <=> Own(j))
    BY <1>1 DEF Own
  <1>4. uncounted \in Int
    BY OwnFinite DEF AttemptsInv
  <1>5. uncounted' = uncounted + (IF Own(k)' THEN 1 ELSE 0) - (IF Own(k) THEN 1 ELSE 0)
    BY <1>2, <1>4
  <1> QED
    BY <1>3, <1>5, OwnChange

\* A result is taken up and counted.
LEMMA OwnTaken ==
    ASSUME DNSTypes, AttemptsInv, NEW k \in Asker, NEW a \in AskType,
           ask' = [ask EXCEPT ![k] = a], uncounted' = Counted(k),
           k[1] # "redirect", ask[k].st = "got", a.st # "got"
    PROVE  AttemptsInv'
  <1>1. ask' \in [Asker -> AskType] /\ ask'[k] = a /\ \A j \in Asker : j # k => ask'[j] = ask[j]
    BY AskUpdate
  <1>2. ask[k].attempt \in {0, 1} /\ ask[k].cached \in BOOLEAN
    BY DEF DNSTypes, AskType
  <1>3. ~Own(k)' /\ (Own(k) <=> ~ask[k].cached /\ ask[k].attempt = 1)
    BY <1>1 DEF Own
  <1>4. \A j \in Asker : j # k => (Own(j)' <=> Own(j))
    BY <1>1 DEF Own
  <1>5. uncounted \in Int
    BY OwnFinite DEF AttemptsInv
  <1>6. uncounted' = uncounted + (IF Own(k)' THEN 1 ELSE 0) - (IF Own(k) THEN 1 ELSE 0)
    BY <1>2, <1>3, <1>5 DEF Counted
  <1> QED
    BY <1>4, <1>6, OwnChange

LEMMA OwnSame ==
    ASSUME AttemptsInv, uncounted' = uncounted, \A j \in Asker : Own(j)' <=> Own(j)
    PROVE  AttemptsInv'
  <1>1. OwnResults' = OwnResults
    BY DEF OwnResults
  <1> QED
    BY <1>1 DEF AttemptsInv

LEMMA OwnUnchanged ==
    ASSUME AttemptsInv, UNCHANGED <<ask, uncounted>>
    PROVE  AttemptsInv'
  BY OwnSame DEF Own

LEMMA LookupOwn ==
    ASSUME DNSShape, AttemptsInv, NEW k \in Asker, Lookup(k)
    PROVE  AttemptsInv'
  <1>1. ask[k] \in AskType /\ ask[k].st = "start" /\ ask \in [Asker -> AskType] /\ uncounted' = uncounted
    BY DEF DNSShape, DNSTypes, Lookup
  <1>2. \E a \in AskType : ask' = [ask EXCEPT ![k] = a] /\ (a.st # "got" \/ a.attempt = 0)
    <2>1. ASSUME NEW kind \in Kinds, NEW cached \in BOOLEAN
          PROVE  /\ Got(k, kind, cached, 0) \in AskType /\ Got(k, kind, cached, 0).attempt = 0
      BY <1>1 DEF Got, AskType
    <2>2. "failed" \in Kinds /\ Completed \subseteq Kinds
      BY DEF Kinds
    <2>3. CASE ask' = [ask EXCEPT ![k] = Got(k, "failed", FALSE, 0)]
      BY <2>1, <2>2, <2>3
    <2>4. ASSUME NEW kind \in Completed, ask' = [ask EXCEPT ![k] = Got(k, kind, TRUE, 0)]
          PROVE  \E a \in AskType : ask' = [ask EXCEPT ![k] = a] /\ (a.st # "got" \/ a.attempt = 0)
      BY <2>1, <2>2, <2>4
    <2>5. ASSUME NEW st \in {"wait", "own"}, ask' = [ask EXCEPT ![k].st = st]
          PROVE  /\ ask' = [ask EXCEPT ![k] = [ask[k] EXCEPT !.st = st]]
                 /\ [ask[k] EXCEPT !.st = st] \in AskType /\ [ask[k] EXCEPT !.st = st].st = st
      BY <1>1, <2>5 DEF AskType
    <2>6. CASE ask' = [ask EXCEPT ![k].st = "wait"]
      BY <2>5, <2>6
    <2>7. CASE ask' = [ask EXCEPT ![k].st = "own"]
      BY <2>5, <2>7
    <2> QED
      BY <2>3, <2>4, <2>6, <2>7, Zenon DEF Lookup
  <1> QED
    BY <1>1, <1>2, OwnQuiet DEF DNSShape

LEMMA ResolveOwn ==
    ASSUME DNSShape, AttemptsInv, NEW k \in Asker, Resolve(k)
    PROVE  AttemptsInv'
  <1>1. PICK kind :
          /\ ask' = [j \in Asker |->
                       IF j = k THEN Got(k, kind, FALSE, 1)
                       ELSE IF ask[j].st = "wait" /\ ask[j].q = ask[k].q THEN Shared(j, kind)
                       ELSE ask[j]]
          /\ uncounted' = IF k[1] = "redirect" THEN uncounted ELSE uncounted + 1
    BY DEF Resolve
  <1>2. ask[k].st = "own" /\ ask \in [Asker -> AskType]
    BY DEF DNSShape, DNSTypes, Resolve
  <1>3. ASSUME NEW j \in Asker, NEW cached \in BOOLEAN
        PROVE  /\ Got(j, kind, cached, 1).st = "got" /\ Got(j, kind, cached, 1).cached = cached
               /\ Got(j, kind, cached, 1).attempt = 1
    <2>1. ask[j] \in AskType
      BY <1>2
    <2> QED
      BY <2>1 DEF Got, AskType
  <1>4. ~Own(k) /\ (Own(k)' <=> k[1] # "redirect")
    <2>1. ask'[k] = Got(k, kind, FALSE, 1)
      BY <1>1
    <2> QED
      BY <1>2, <1>3, <2>1 DEF Own
  <1>5. \A j \in Asker : j # k => (Own(j)' <=> Own(j))
    <2> SUFFICES ASSUME NEW j \in Asker, j # k PROVE Own(j)' <=> Own(j)
      OBVIOUS
    <2>1. CASE ask[j].st = "wait" /\ ask[j].q = ask[k].q
      <3>1. ask'[j] = Got(j, kind, TRUE, 1)
        BY <1>1, <2>1 DEF Shared
      <3> QED
        BY <1>3, <2>1, <3>1 DEF Own
    <2>2. CASE ~(ask[j].st = "wait" /\ ask[j].q = ask[k].q)
      <3>1. ask'[j] = ask[j]
        BY <1>1, <2>2
      <3> QED
        BY <3>1 DEF Own
    <2> QED
      BY <2>1, <2>2
  <1>6. uncounted \in Int
    BY OwnFinite DEF AttemptsInv
  <1>7. uncounted' = uncounted + (IF Own(k)' THEN 1 ELSE 0) - (IF Own(k) THEN 1 ELSE 0)
    BY <1>1, <1>4, <1>6
  <1> QED
    BY <1>5, <1>7, OwnChange

LEMMA StopOwn ==
    ASSUME DNSShape, AttemptsInv, NEW k \in Asker, StopWaiting(k)
    PROVE  AttemptsInv'
  <1>1. ask[k] \in AskType /\ ask \in [Asker -> AskType] /\ ask[k].st = "wait" /\ uncounted' = uncounted
    BY DEF DNSShape, DNSTypes, StopWaiting
  <1>2. Got(k, "failed", TRUE, 0) \in AskType /\ Got(k, "failed", TRUE, 0).attempt = 0
    BY <1>1 DEF Got, AskType, Kinds
  <1>3. PICK a \in AskType : ask' = [ask EXCEPT ![k] = a] /\ a.attempt = 0
    BY <1>2 DEF StopWaiting
  <1> QED
    BY <1>1, <1>3, OwnQuiet DEF DNSShape

\* The asker of a name, a host, a zone or an alias begins.
LEMMA OwnBegins ==
    ASSUME DNSShape, AttemptsInv, NEW k \in {Main, Graph}, Idle(k), NEW q \in Question,
           ask' = [ask EXCEPT ![k] = Asking(q)], uncounted' = uncounted
    PROVE  AttemptsInv'
  <1>1. k \in Asker /\ ask[k].st # "got"
    BY AskersDiffer DEF Idle
  <1>2. Asking(q) \in AskType /\ Asking(q).st # "got"
    BY AskingIs
  <1> QED
    BY <1>1, <1>2, OwnQuiet DEF DNSShape

\* At the end of a seed no result is left.
LEMMA DoneNothingOwn ==
    ASSUME DNSShape, stage = "done"
    PROVE  OwnResults = {} /\ \A k \in Asker : k[1] # "redirect" => Idle(k)
  <1>1. Idle(Main) /\ Idle(Graph) /\ \A t \in SeedTypes : Idle(<<"seed", t>>)
    BY DEF DNSShape, AskedFor, StagesOrdered
  <1>2. ASSUME NEW k \in Asker, k[1] # "redirect" PROVE Idle(k)
    BY <1>1, <1>2 DEF Asker
  <1> QED
    BY <1>2 DEF OwnResults, Own, Idle

LEMMA SeedOwn ==
    ASSUME DNSShape, AttemptsInv, SeedStep
    PROVE  AttemptsInv'
  <1>1. NoAsk \in AskType /\ NoAsk.st # "got" /\ Main \in Asker /\ Main[1] # "redirect"
    BY NoAskIs, AskersDiffer DEF Main
  <1>2. ASSUME NEW t \in SeedTypes, Receive(t) PROVE AttemptsInv'
    <2> DEFINE k == <<"seed", t>>
    <2>1. k \in Asker /\ k[1] # "redirect"
      BY AskersDiffer
    <2>2. ask[k].st = "got" /\ ask' = [ask EXCEPT ![k] = NoAsk] /\ uncounted' = Counted(k)
      BY <1>2 DEF Receive
    <2> HIDE DEF k
    <2> QED
      BY <1>1, <2>1, <2>2, OwnTaken DEF DNSShape
  <1>3. CASE PushLink \/ TakeAnswer \/ CloseTargets \/ Join \/ FinishSeed
    BY <1>3, OwnUnchanged DEF PushLink, TakeAnswer, CloseTargets, Join, FinishSeed, jobVars
  <1>4. CASE ZoneAsk
    <2>1. CASE ZoneStuck
      BY <1>4, <2>1, OwnUnchanged DEF ZoneAsk
    <2>2. CASE ~ZoneStuck
      <3>1. zone.name \in Name /\ Idle(Main) /\ uncounted' = uncounted
            /\ ask' = [ask EXCEPT ![Main] = Asking(<<zone.name, "SOA">>)]
        BY <1>4, <2>2 DEF ZoneAsk, Idle, DNSShape, AskedFor
      <3>2. PICK q \in Question : q = <<zone.name, "SOA">>
        BY <3>1 DEF Question, Type
      <3> QED
        BY <3>1, <3>2, OwnBegins
    <2> QED
      BY <2>1, <2>2
  <1>5. CASE ZoneGot
    <2>1. ask[Main].st = "got" /\ uncounted' = Counted(Main) /\ stage = "zone"
      BY <1>5 DEF ZoneGot, AppendGraphQuery
    <2>2. PICK q \in Question : q = <<zone.name, "NS">>
      BY <2>1 DEF DNSShape, AskedFor, Question, Type
    <2>3. Asking(q) \in AskType /\ Asking(q).st # "got"
      BY AskingIs
    <2>4. ask' = [ask EXCEPT ![Main] = Asking(q)] \/ ask' = [ask EXCEPT ![Main] = NoAsk]
      BY <1>5, <2>2 DEF ZoneGot
    <2> QED
      BY <1>1, <2>1, <2>3, <2>4, OwnTaken DEF DNSShape
  <1>6. CASE ZoneServers \/ HostGot
    <2>1. ask[Main].st = "got" /\ uncounted' = Counted(Main) /\ ask' = [ask EXCEPT ![Main] = NoAsk]
      BY <1>6 DEF ZoneServers, HostGot, AppendGraphQuery
    <2> QED
      BY <1>1, <2>1, OwnTaken DEF DNSShape
  <1>7. CASE HostAsk
    <2>1. PICK h \in hosts : ask' = [ask EXCEPT ![Main] = Asking(<<h[1][1], h[2]>>)]
      BY <1>7 DEF HostAsk
    <2>2. Idle(Main) /\ uncounted' = uncounted
      BY <1>7 DEF HostAsk, Idle
    <2>3. h[1][1] \in Name /\ h[2] \in AddressTypes
      BY DEF DNSShape, DNSTypes, Dependency
    <2>4. PICK q \in Question : q = <<h[1][1], h[2]>>
      BY <2>3 DEF Question, Type
    <2> QED
      BY <2>1, <2>2, <2>4, OwnBegins
  <1>8. CASE NextSeed
    <2>1. PICK s \in Name : ask' = SeedAsks(s)
      BY <1>8, NextSeedIs
    <2>2. \A k \in Asker : ask'[k].st # "got"
      BY <2>1, SeedAsksAre
    <2>3. OwnResults = {}
      BY <1>8, DoneNothingOwn DEF NextSeed
    <2>4. \A k \in Asker : ~Own(k) /\ ~Own(k)'
      BY <2>2, <2>3 DEF Own, OwnResults
    <2>5. uncounted' = uncounted
      BY <1>8 DEF NextSeed
    <2> QED
      BY <2>4, <2>5, OwnSame
  <1> QED
    BY <1>2, <1>3, <1>4, <1>5, <1>6, <1>7, <1>8 DEF SeedStep

LEMMA GraphOwn ==
    ASSUME DNSShape, AttemptsInv, GraphStep
    PROVE  AttemptsInv'
  <1>1. NoAsk \in AskType /\ NoAsk.st # "got" /\ Graph \in Asker /\ Graph[1] # "redirect"
    BY NoAskIs, AskersDiffer DEF Graph
  <1>2. CASE GraphPick
    <2>1. PICK x \in ItemType :
            \/ UNCHANGED ask
            \/ ask' = [ask EXCEPT ![Graph] = Asking(<<x.name, "CNAME">>)]
      BY <1>2, GraphRound
    <2>2. Idle(Graph) /\ uncounted' = uncounted
      BY <1>2 DEF GraphPick, GraphIdle, DNSShape, AskedFor
    <2>3. PICK q \in Question : q = <<x.name, "CNAME">>
      BY DEF Question, Type, ItemType
    <2> QED
      BY <2>1, <2>2, <2>3, OwnBegins, OwnUnchanged
  <1>3. CASE GraphStop \/ GraphEnd
    BY <1>3, OwnUnchanged DEF GraphStop, GraphEnd, jobVars
  <1>4. CASE GraphLinked \/ GraphResolved
    <2>1. ask[Graph].st = "got" /\ uncounted' = Counted(Graph) /\ ask' = [ask EXCEPT ![Graph] = NoAsk]
      BY <1>4 DEF GraphLinked, GraphResolved, AppendGraphQuery
    <2> QED
      BY <1>1, <2>1, OwnTaken DEF DNSShape
  <1>5. CASE GraphAsk
    <2>1. PICK t \in item.types : ask' = [ask EXCEPT ![Graph] = Asking(<<item.name, t>>)]
      BY <1>5 DEF GraphAsk
    <2>2. Idle(Graph) /\ uncounted' = uncounted /\ item \in ItemType
      BY <1>5 DEF GraphAsk, Idle, DNSShape, DNSTypes
    <2>3. PICK q \in Question : q = <<item.name, t>>
      BY <2>2 DEF Question, Type, ItemType
    <2> QED
      BY <2>1, <2>2, <2>3, OwnBegins
  <1> QED
    BY <1>2, <1>3, <1>4, <1>5 DEF GraphStep

LEMMA RedirectOwn ==
    ASSUME DNSShape, AttemptsInv,
           (\E n \in RedirectHost : AskRedirect(n)) \/ (\E t \in AddressTypes : RedirectGot(t))
    PROVE  AttemptsInv'
  <1>1. ASSUME NEW n \in RedirectHost, AskRedirect(n) PROVE AttemptsInv'
    <2>1. \A k \in Asker : k[1] # "redirect" => ask'[k] = ask[k]
      BY <1>1 DEF AskRedirect
    <2>2. uncounted' = uncounted
      BY <1>1 DEF AskRedirect
    <2>3. \A k \in Asker : Own(k)' <=> Own(k)
      BY <2>1 DEF Own
    <2> QED
      BY <2>2, <2>3, OwnSame
  <1>2. ASSUME NEW t \in AddressTypes, RedirectGot(t) PROVE AttemptsInv'
    <2> DEFINE k == <<"redirect", t>>
    <2>1. k \in Asker /\ k[1] = "redirect"
      BY AskersDiffer
    <2>2. ask' = [ask EXCEPT ![k] = NoAsk] /\ uncounted' = uncounted
      BY <1>2 DEF RedirectGot
    <2> HIDE DEF k
    <2> QED
      BY <2>1, <2>2, NoAskIs, OwnQuiet DEF DNSShape
  <1> QED
    BY <1>1, <1>2

LEMMA AttemptsStep ==
    ASSUME DNSShape, AttemptsInv, [DNSNext]_dnsVars
    PROVE  AttemptsInv'
  <1>1. ASSUME NEW k \in Asker, QueryStep(k) PROVE AttemptsInv'
    BY <1>1, LookupOwn, ResolveOwn, StopOwn DEF QueryStep
  <1>2. CASE EndContext
    BY <1>2, OwnUnchanged DEF EndContext, jobVars
  <1>3. CASE UNCHANGED dnsVars
    BY <1>3, OwnUnchanged DEF dnsVars, jobVars
  <1> QED
    BY <1>1, <1>2, <1>3, SeedOwn, GraphOwn, RedirectOwn DEF DNSNext, Resting

LEMMA AttemptsInit ==
    ASSUME DNSInit
    PROVE  AttemptsInv
  <1>1. seeds \in Seq(Name) /\ seeds # << >>
    BY WorldAssumption DEF DNSInit
  <1>2. PICK s \in Name : s = seed
    BY <1>1 DEF seed
  <1>3. \A k \in Asker : ask[k].st # "got"
    BY <1>2, SeedAsksAre DEF DNSInit
  <1>4. OwnResults = {}
    BY <1>3 DEF OwnResults, Own
  <1> QED
    BY <1>4, OwnFinite DEF AttemptsInv, DNSInit

\* Every question the collection sends is counted by exactly one result: what
\* is sent and not yet counted is waiting with the asker that sent it, however
\* many share or reuse its answer, and at the end of a seed nothing waits.
THEOREM AttemptsCounted == DNSSpec => []AttemptsCountedOnce
  <1>1. DNSInit => DNSShape /\ AttemptsInv
    BY DNSInitShape, AttemptsInit
  <1>2. DNSShape /\ AttemptsInv /\ [DNSNext]_dnsVars => DNSShape' /\ AttemptsInv'
    BY DNSShapeStep, AttemptsStep
  <1>3. DNSShape /\ AttemptsInv => AttemptsCountedOnce
    BY OwnFinite, DoneNothingOwn DEF AttemptsInv, AttemptsCountedOnce
  <1> QED
    BY <1>1, <1>2, <1>3, PTL DEF DNSSpec

-----------------------------------------------------------------------------
(* What a seed whose coverage is complete so far has got.                  *)

\* Names the graph has visited or still will.
Followed(m) ==
    \/ m \in seen \/ m \in links \/ m \in ToSet(channel)
    \/ \E x \in queue : x.name = m

\* A type whose answer names the alias of the seed.
NamesAlias(t) == t = "CNAME" \/ Ends(seed) \cap Missing = {}

\* Aliases lead the graph on.
AliasesFollowed ==
    /\ Links[seed] # None => \A t \in SeedTypes : NamesAlias(t) /\ Idle(<<"seed", t>>) => Followed(Links[seed])
    /\ \A m \in seen : Links[m] # None =>
         Followed(Links[m]) \/ (~Idle(Graph) /\ ask[Graph].q = <<m, "CNAME">>)
    /\ graphDone => stage # "collect" /\ queue = {} /\ channel = << >>

\* The seed's answers are taken up.
AnswersTaken ==
    /\ \A t \in AddressTypes : Idle(<<"seed", t>>) => AddressesIn(<<seed, t>>) \subseteq todo \cup published
    /\ \A t \in SeedTypes : Idle(<<"seed", t>>) => \A m \in DependenciesIn(<<seed, t>>) : <<m, t>> \in found
    /\ "NS" \in SeedTypes /\ Truth(<<seed, "NS">>) = "nodata" /\ Idle(<<"seed", "NS">>) => nsNoData

\* The zone walk has passed no zone.
ZoneWalked ==
    stage = "zone" =>
      /\ zone.name = Above(seed, zone.depth)
      /\ \A j \in 0..(zone.depth - 1) : Above(seed, j) \notin Apex
      /\ ~Idle(Main) /\ ask[Main].q[2] = "NS" => zone.name \in Apex

\* Every host the seed depends on is resolved, or will be.
HostsResolved ==
    stage \in {"hosts", "done"} =>
      \A h \in NeededHosts, t \in AddressTypes :
        \/ \E y \in hosts : y[1][1] = h /\ y[2] = t
        \/ ~Idle(Main) /\ ask[Main].q = <<h, t>>
        \/ AddressesIn(<<h, t>>) \subseteq addresses

WholeSoFar == status = "complete" => AliasesFollowed /\ AnswersTaken /\ ZoneWalked /\ HostsResolved

DNSInv == DNSShape /\ WholeSoFar

Whole == AliasesFollowed /\ AnswersTaken /\ ZoneWalked /\ HostsResolved

LEMMA MarkedComplete ==
    ASSUME NEW bad, Marked(bad) = "complete"
    PROVE  ~bad /\ status = "complete"
  BY DEF Marked

LEMMA TakenWhole ==
    ASSUME NEW as, NEW candidates \in BOOLEAN, NEW bad \in BOOLEAN,
           TakeAddresses(as, candidates, bad), status' = "complete"
    PROVE  /\ status = "complete" /\ ~bad
           /\ addresses' = addresses \cup as
           /\ candidates => published' = published \cup as
           /\ ~candidates => published' = published
  <1>1. PICK kept \in Reserve(as) :
          /\ addresses' = addresses \cup kept
          /\ status' = Marked(bad \/ kept # as \/ ~(kept \subseteq Allowed))
          /\ published' = IF candidates THEN published \cup (kept \cap Allowed) ELSE published
    BY DEF TakeAddresses
  <1>2. ~(bad \/ kept # as \/ ~(kept \subseteq Allowed)) /\ status = "complete"
    BY <1>1, MarkedComplete
  <1> QED
    BY <1>1, <1>2

\* A sound result brings everything its question is about.
LEMMA SoundResult ==
    ASSUME DNSShape, NEW k \in Asker, ask[k].st = "got", ~Unsound(k)
    PROVE  /\ ask[k].q \in Question /\ ask[k].kind = Truth(ask[k].q)
           /\ AddressesGot(k) = AddressesIn(ask[k].q)
           /\ DependenciesGot(k) = {<<m, ask[k].q[2]>> : m \in DependenciesIn(ask[k].q)}
  <1>1. PICK q \in Question : q = ask[k].q
    BY AskedQuestion DEF DNSShape, Idle
  <1>2. ask[k].kind = Truth(q)
    <2>1. ask[k].kind \in {Truth(q), "failed"} /\ ask[k].kind \in Completed
      BY <1>1 DEF DNSShape, Truthful, Unsound
    <2> QED
      BY <2>1 DEF Completed
  <1>3. CASE Truth(q) = "answered"
    BY <1>1, <1>2, <1>3 DEF AddressesGot, DependenciesGot
  <1>4. CASE Truth(q) # "answered"
    <2>1. AddressesIn(q) = {} /\ DependenciesIn(q) = {}
      BY <1>4, NothingUnlessAnswered
    <2> QED
      BY <1>1, <1>2, <1>4, <2>1 DEF AddressesGot, DependenciesGot
  <1> QED
    BY <1>1, <1>2, <1>3, <1>4

LEMMA AppendWhole ==
    ASSUME DNSShape, NEW k \in Asker, NEW candidates \in BOOLEAN, NEW bad \in BOOLEAN,
           ask[k].st = "got", AppendGraphQuery(k, candidates, bad), status' = "complete"
    PROVE  /\ status = "complete" /\ ~bad /\ ~Unsound(k)
           /\ addresses' = addresses \cup AddressesIn(ask[k].q)
           /\ candidates => published' = published \cup AddressesIn(ask[k].q)
           /\ ~candidates => published' = published
           /\ found' = found \cup DependenciesGot(k)
  <1>1. PICK as : as = AddressesGot(k)
    OBVIOUS
  <1>2. PICK wrong \in BOOLEAN : wrong = (bad \/ Unsound(k))
    BY DEF Unsound
  <1>3. TakeAddresses(as, candidates, wrong) /\ found' = found \cup DependenciesGot(k)
    BY <1>1, <1>2 DEF AppendGraphQuery
  <1>4. /\ status = "complete" /\ ~wrong /\ addresses' = addresses \cup as
        /\ candidates => published' = published \cup as
        /\ ~candidates => published' = published
    BY <1>3, TakenWhole
  <1>5. ~Unsound(k)
    BY <1>2, <1>4
  <1>6. as = AddressesIn(ask[k].q)
    BY <1>1, <1>5, SoundResult
  <1> QED
    BY <1>2, <1>3, <1>4, <1>5, <1>6

-----------------------------------------------------------------------------
(* What is left alone stays whole.                                         *)

AliasesLeft ==
    /\ UNCHANGED <<seeds, seen, links, channel, queue, graphDone>>
    /\ stage' = "collect" => stage = "collect"
    /\ \A t \in SeedTypes : Idle(<<"seed", t>>)' => Idle(<<"seed", t>>)

LEMMA AliasesStay ==
    ASSUME AliasesFollowed, AliasesLeft, Idle(Graph)' <=> Idle(Graph), ask'[Graph].q = ask[Graph].q
    PROVE  AliasesFollowed'
  BY DEF AliasesFollowed, AliasesLeft, Followed, NamesAlias, Idle, seed

LEMMA AnswersStay ==
    ASSUME AnswersTaken, seeds' = seeds, todo \subseteq todo' \cup published', published \subseteq published',
           found \subseteq found', nsNoData' = nsNoData,
           \A t \in SeedTypes : Idle(<<"seed", t>>)' => Idle(<<"seed", t>>)
    PROVE  AnswersTaken'
  <1>1. AddressTypes \subseteq SeedTypes
    BY WorldAssumption
  <1>2. seed' = seed
    BY DEF seed
  <1>3. \A t \in AddressTypes : Idle(<<"seed", t>>)' => AddressesIn(<<seed, t>>) \subseteq todo' \cup published'
    BY <1>1 DEF AnswersTaken
  <1>4. \A t \in SeedTypes : Idle(<<"seed", t>>)' => \A m \in DependenciesIn(<<seed, t>>) : <<m, t>> \in found'
    BY DEF AnswersTaken
  <1>5. "NS" \in SeedTypes /\ Truth(<<seed, "NS">>) = "nodata" /\ Idle(<<"seed", "NS">>)' => nsNoData'
    BY DEF AnswersTaken
  <1> QED
    BY <1>2, <1>3, <1>4, <1>5 DEF AnswersTaken

LEMMA ZoneStays ==
    ASSUME ZoneWalked, UNCHANGED <<seeds, zone>>, stage' = "zone" => stage = "zone",
           Idle(Main)' <=> Idle(Main), ask'[Main].q = ask[Main].q
    PROVE  ZoneWalked'
  BY DEF ZoneWalked, Idle, seed

LEMMA HostsStay ==
    ASSUME HostsResolved, UNCHANGED <<seeds, hosts>>, addresses \subseteq addresses',
           stage' \in {"hosts", "done"} => stage \in {"hosts", "done"},
           Idle(Main)' <=> Idle(Main), ask'[Main].q = ask[Main].q
    PROVE  HostsResolved'
  <1>1. NeededHosts' = NeededHosts
    BY DEF NeededHosts, NamedHosts, InheritedHosts, seed
  <1> QED
    BY <1>1 DEF HostsResolved, Idle

\* A step that takes up nothing and leaves the main asker at what it asks.
LEMMA QuietStays ==
    ASSUME Whole, AliasesLeft, UNCHANGED <<todo, nsNoData, zone, hosts, stage>>,
           published \subseteq published', found \subseteq found', addresses \subseteq addresses',
           Idle(Main)' <=> Idle(Main), ask'[Main].q = ask[Main].q,
           Idle(Graph)' <=> Idle(Graph), ask'[Graph].q = ask[Graph].q
    PROVE  Whole'
  <1>1. AliasesFollowed'
    BY AliasesStay DEF Whole
  <1>2. AnswersTaken'
    BY AnswersStay DEF Whole, AliasesLeft
  <1>3. ZoneWalked' /\ HostsResolved'
    BY ZoneStays, HostsStay DEF Whole, AliasesLeft
  <1> QED
    BY <1>1, <1>2, <1>3 DEF Whole

LEMMA QueriedWhole ==
    ASSUME DNSShape, WholeSoFar, Queried
    PROVE  WholeSoFar'
  <1>1. UNCHANGED <<seeds, stage, links, zone, hosts, nsNoData, queue, seen, graphDone, status,
                    addresses, published, found, todo, channel>>
    BY DEF Queried, seedVars, graphVars, resultVars
  <1>2. \A k \in Asker : (Idle(k)' <=> Idle(k)) /\ ask'[k].q = ask[k].q
    BY DEF Queried, Idle
  <1>3. (\A t \in SeedTypes : <<"seed", t>> \in Asker) /\ Main \in Asker /\ Graph \in Asker
    BY AskersDiffer
  <1>4. AliasesLeft
    BY <1>1, <1>2, <1>3 DEF AliasesLeft
  <1>5. Whole => Whole'
    BY <1>1, <1>2, <1>3, <1>4, QuietStays
  <1> QED
    BY <1>1, <1>5 DEF WholeSoFar, Whole

-----------------------------------------------------------------------------
(* Each step keeps a complete coverage whole.                              *)

LEMMA ReceiveWhole ==
    ASSUME DNSShape, WholeSoFar, NEW t \in SeedTypes, Receive(t)
    PROVE  WholeSoFar'
  <1> SUFFICES ASSUME status' = "complete" PROVE Whole'
    BY DEF WholeSoFar, Whole
  <1> DEFINE k == <<"seed", t>>
  <1>1. k \in Asker /\ k # Main /\ k # Graph /\ \A u \in SeedTypes : k = <<"seed", u>> => t = u
    BY AskersDiffer
  <1>2. /\ links = {} /\ todo = {} /\ ask[k].st = "got" /\ ask' = [ask EXCEPT ![k] = NoAsk]
        /\ found' = found \cup DependenciesGot(k)
        /\ links' = (IF ask[k].kind = "answered" THEN Aliases(ask[k].q) ELSE {})
        /\ todo' = AddressesGot(k)
        /\ nsNoData' = (nsNoData \/ (t = "NS" /\ ask[k].kind = "nodata"))
        /\ UNCHANGED <<seeds, stage, zone, hosts, graphVars, published, addresses, channel>>
        /\ status' = Marked(Unsound(k))
    BY DEF Receive
  <1>3. ~Idle(k) /\ ask[k].q = <<seed, t>> /\ stage = "collect"
    BY <1>2 DEF Idle, DNSShape, AskedFor, StagesOrdered, DNSTypes
  <1> HIDE DEF k
  <1>4. ~Unsound(k) /\ status = "complete"
    <2>1. PICK bad : bad = Unsound(k)
      OBVIOUS
    <2> QED
      BY <1>2, <2>1, MarkedComplete
  <1>5. Whole
    BY <1>4 DEF WholeSoFar, Whole
  <1>6. PICK q \in Question : q = ask[k].q /\ q = <<seed, t>> /\ q[1] = seed /\ q[2] = t
    BY <1>1, <1>2, <1>3, <1>4, SoundResult
  <1>7. /\ ask[k].kind = Truth(q) /\ AddressesGot(k) = AddressesIn(q)
        /\ DependenciesGot(k) = {<<m, t>> : m \in DependenciesIn(q)}
    BY <1>1, <1>2, <1>4, <1>6, SoundResult
  <1>8. ask'[k] = NoAsk /\ \A j \in Asker : j # k => ask'[j] = ask[j]
    BY <1>1, <1>2, NoAskIs, AskUpdate DEF DNSShape
  <1>9. \A u \in SeedTypes : u # t => (Idle(<<"seed", u>>)' <=> Idle(<<"seed", u>>))
    BY <1>1, <1>8, AskersDiffer DEF Idle
  <1>10. seed' = seed
    BY <1>2 DEF seed
  <1>11. AliasesFollowed'
    <2>1. \A m : Followed(m) => Followed(m)'
      BY <1>2 DEF Followed, graphVars
    <2>2. ASSUME Links[seed] # None, NamesAlias(t) PROVE Followed(Links[seed])'
      <3>1. PICK s \in Name : s = seed
        BY SeedIs DEF DNSShape
      <3>2. Truth(<<s, t>>) = "answered" /\ Links[s] \in Aliases(<<s, t>>)
        BY <2>2, <3>1, AliasAnswered DEF NamesAlias, Type
      <3>3. Links[seed] \in links'
        BY <1>2, <1>6, <1>7, <3>1, <3>2
      <3> QED
        BY <1>10, <3>3 DEF Followed
    <2>3. \A u \in SeedTypes : Links[seed] # None /\ NamesAlias(u) /\ Idle(<<"seed", u>>)' => Followed(Links[seed])'
      BY <1>5, <1>9, <1>10, <2>1, <2>2 DEF Whole, AliasesFollowed
    <2>4. \A u : NamesAlias(u)' <=> NamesAlias(u)
      BY <1>10 DEF NamesAlias
    <2>5. seen' = seen /\ ask'[Graph] = ask[Graph]
      BY <1>1, <1>2, <1>8, AskersDiffer DEF graphVars
    <2>6. \A m \in seen : Links[m] # None => Followed(Links[m])' \/ (~Idle(Graph)' /\ ask'[Graph].q = <<m, "CNAME">>)
      BY <1>5, <2>1, <2>5 DEF Whole, AliasesFollowed, Idle
    <2>7. graphDone' => stage' # "collect" /\ queue' = {} /\ channel' = << >>
      BY <1>2, <1>5 DEF Whole, AliasesFollowed, graphVars
    <2> QED
      BY <1>10, <2>3, <2>4, <2>5, <2>6, <2>7 DEF AliasesFollowed
  <1>12. AnswersTaken'
    <2>1. \A u \in AddressTypes : Idle(<<"seed", u>>)' => AddressesIn(<<seed, u>>) \subseteq todo' \cup published'
      <3> TAKE u \in AddressTypes
      <3>1. u \in SeedTypes
        BY WorldAssumption
      <3>2. CASE u = t
        BY <1>2, <1>6, <1>7, <3>2
      <3>3. CASE u # t
        BY <1>2, <1>5, <1>9, <3>1, <3>3 DEF Whole, AnswersTaken
      <3> QED
        BY <3>2, <3>3
    <2>2. \A u \in SeedTypes : Idle(<<"seed", u>>)' => \A m \in DependenciesIn(<<seed, u>>) : <<m, u>> \in found'
      <3> TAKE u \in SeedTypes
      <3>1. CASE u = t
        BY <1>2, <1>6, <1>7, <3>1
      <3>2. CASE u # t
        BY <1>2, <1>5, <1>9, <3>2 DEF Whole, AnswersTaken
      <3> QED
        BY <3>1, <3>2
    <2>3. "NS" \in SeedTypes /\ Truth(<<seed, "NS">>) = "nodata" /\ Idle(<<"seed", "NS">>)' => nsNoData'
      <3>1. CASE t = "NS"
        BY <1>2, <1>6, <1>7, <3>1
      <3>2. CASE t # "NS"
        BY <1>2, <1>5, <1>9, <3>2 DEF Whole, AnswersTaken
      <3> QED
        BY <3>1, <3>2
    <2> QED
      BY <1>10, <2>1, <2>2, <2>3 DEF AnswersTaken
  <1>13. ZoneWalked' /\ HostsResolved'
    BY <1>2, <1>3 DEF ZoneWalked, HostsResolved
  <1> QED
    BY <1>11, <1>12, <1>13 DEF Whole

LEMMA AppendSet ==
    ASSUME NEW s \in Seq(Name), NEW n \in Name
    PROVE  ToSet(Append(s, n)) = ToSet(s) \cup {n}
  <1>1. Append(s, n) \in Seq(Name) /\ Len(Append(s, n)) = Len(s) + 1
    OBVIOUS
  <1>2. \A i \in 1..Len(s) : Append(s, n)[i] = s[i]
    OBVIOUS
  <1>3. Append(s, n)[Len(s) + 1] = n
    OBVIOUS
  <1>4. DOMAIN s = 1..Len(s) /\ DOMAIN Append(s, n) = 1..(Len(s) + 1)
    OBVIOUS
  <1> QED
    BY <1>2, <1>3, <1>4 DEF ToSet

LEMMA PushLinkWhole ==
    ASSUME DNSShape, WholeSoFar, PushLink
    PROVE  WholeSoFar'
  <1> SUFFICES ASSUME status' = "complete" PROVE Whole'
    BY DEF WholeSoFar, Whole
  <1>1. PICK n \in links : links' = links \ {n} /\ channel' = Append(channel, n) /\ status' = status
    BY DEF PushLink
  <1>2. UNCHANGED <<seeds, jobVars, stage, zone, hosts, nsNoData, graphVars, addresses, published, found, todo>>
    BY DEF PushLink
  <1>3. Whole
    BY <1>1 DEF WholeSoFar, Whole
  <1>4. stage = "collect" /\ ~graphDone /\ n \in Name /\ channel \in Seq(Name)
    BY <1>3 DEF DNSShape, StagesOrdered, DNSTypes, Whole, AliasesFollowed
  <1>5. ToSet(channel') = ToSet(channel) \cup {n}
    BY <1>1, <1>4, AppendSet
  <1>6. \A m : Followed(m) => Followed(m)'
    BY <1>1, <1>2, <1>5 DEF Followed, graphVars
  <1>7. seed' = seed /\ ask' = ask /\ seen' = seen /\ graphDone' = graphDone
    BY <1>2 DEF seed, jobVars, graphVars
  <1>8. AliasesFollowed'
    BY <1>3, <1>4, <1>6, <1>7 DEF Whole, AliasesFollowed, NamesAlias, Idle
  <1>9. AnswersTaken'
    BY <1>2, <1>3, <1>7, AnswersStay DEF Whole, Idle
  <1>10. ZoneWalked' /\ HostsResolved'
    BY <1>2, <1>4 DEF ZoneWalked, HostsResolved
  <1> QED
    BY <1>8, <1>9, <1>10 DEF Whole

LEMMA TakeAnswerWhole ==
    ASSUME DNSShape, WholeSoFar, TakeAnswer
    PROVE  WholeSoFar'
  <1> SUFFICES ASSUME status' = "complete" PROVE Whole'
    BY DEF WholeSoFar, Whole
  <1>1. PICK as : as = todo
    OBVIOUS
  <1>2. /\ TakeAddresses(as, TRUE, FALSE)
        /\ todo' = {} /\ UNCHANGED <<seeds, jobVars, seedVars, graphVars, found, channel>>
    BY <1>1 DEF TakeAnswer
  <1>3. status = "complete" /\ addresses' = addresses \cup as /\ published' = published \cup as
    BY <1>2, TakenWhole
  <1>4. Whole
    BY <1>3 DEF WholeSoFar, Whole
  <1>5. UNCHANGED <<seeds, ask, stage, links, zone, hosts, nsNoData, seen, queue, graphDone, found, channel>>
    BY <1>2 DEF jobVars, seedVars, graphVars
  <1>6. AliasesFollowed'
    BY <1>4, <1>5, AliasesStay DEF Whole, AliasesLeft, Idle
  <1>7. AnswersTaken'
    BY <1>1, <1>3, <1>4, <1>5, AnswersStay DEF Whole, Idle
  <1>8. ZoneWalked' /\ HostsResolved'
    BY <1>3, <1>4, <1>5, ZoneStays, HostsStay DEF Whole, Idle
  <1> QED
    BY <1>6, <1>7, <1>8 DEF Whole

LEMMA CloseTargetsWhole ==
    ASSUME DNSShape, WholeSoFar, CloseTargets
    PROVE  WholeSoFar'
  <1> SUFFICES ASSUME status' = "complete" PROVE Whole'
    BY DEF WholeSoFar, Whole
  <1>1. /\ stage = "collect" /\ stage' = "join"
        /\ UNCHANGED <<seeds, ask, links, zone, hosts, nsNoData, seen, queue, graphDone, status, addresses,
                       published, found, todo, channel>>
    BY DEF CloseTargets, jobVars, graphVars, resultVars
  <1>2. Whole
    BY <1>1 DEF WholeSoFar, Whole
  <1>3. AliasesFollowed'
    BY <1>1, <1>2, AliasesStay DEF Whole, AliasesLeft, Idle
  <1>4. AnswersTaken'
    BY <1>1, <1>2, AnswersStay DEF Whole, Idle
  <1>5. ZoneWalked' /\ HostsResolved'
    BY <1>1 DEF ZoneWalked, HostsResolved
  <1> QED
    BY <1>3, <1>4, <1>5 DEF Whole

\* Every host the seed's own answers name has been found.
LEMMA SeedHostsFound ==
    ASSUME DNSShape, Whole, stage # "collect", NEW h \in NeededHosts
    PROVE  \/ \E t : <<h, t>> \in found
           \/ nsNoData /\ \E z \in NearestApex(seed) : h \in DependencyOf[z]["NS"]
  <1>1. \A t \in SeedTypes : Idle(<<"seed", t>>)
    BY DEF DNSShape, StagesOrdered
  <1>2. CASE h \in UNION {DependenciesIn(<<seed, t>>) : t \in SeedTypes}
    BY <1>1, <1>2 DEF Whole, AnswersTaken
  <1>3. CASE h \notin UNION {DependenciesIn(<<seed, t>>) : t \in SeedTypes}
    <2>1. h \in InheritedHosts
      BY <1>3 DEF NeededHosts, NamedHosts
    <2>2. "NS" \in SeedTypes /\ Truth(<<seed, "NS">>) = "nodata"
      BY <2>1 DEF InheritedHosts
    <2>3. h \in UNION {DependencyOf[z]["NS"] : z \in NearestApex(seed)}
      BY <2>1, <2>2 DEF InheritedHosts
    <2> QED
      BY <1>1, <2>2, <2>3 DEF Whole, AnswersTaken
  <1> QED
    BY <1>2, <1>3

LEMMA AboveSteps ==
    ASSUME NEW n \in Name
    PROVE  /\ Above(n, 0) = n
           /\ \A k \in Nat : Above(n, k + 1) = IF Above(n, k) = None THEN None ELSE Parent[Above(n, k)]
  <1>1. Walks(Parent, n)
    BY WalkSteps, Zenon
  <1> QED
    BY <1>1 DEF Above, Walks

LEMMA JoinWhole ==
    ASSUME DNSShape, WholeSoFar, Join
    PROVE  WholeSoFar'
  <1> SUFFICES ASSUME status' = "complete" PROVE Whole'
    BY DEF WholeSoFar, Whole
  <1>1. /\ stage = "join"
        /\ IF nsNoData
           THEN stage' = "zone" /\ zone' = [name |-> seed, depth |-> 0] /\ hosts' = hosts
           ELSE stage' = "hosts" /\ hosts' = found \X AddressTypes /\ zone' = zone
        /\ UNCHANGED <<seeds, ask, links, nsNoData, seen, queue, graphDone, status, addresses,
                       published, found, todo, channel>>
    BY DEF Join, ToHosts, jobVars, graphVars, resultVars
  <1>2. Whole
    BY <1>1 DEF WholeSoFar, Whole
  <1>3. stage' # "collect"
    BY <1>1
  <1>4. AliasesFollowed'
    BY <1>1, <1>2, <1>3, AliasesStay DEF Whole, AliasesLeft, Idle
  <1>5. AnswersTaken'
    BY <1>1, <1>2, AnswersStay DEF Whole, Idle
  <1>6. Idle(Main)' /\ seed' = seed
    BY <1>1 DEF DNSShape, AskedFor, Idle, seed
  <1>7. ZoneWalked'
    <2>1. CASE nsNoData
      <3>1. PICK s \in Name : s = seed
        BY SeedIs DEF DNSShape
      <3>2. Above(s, 0) = s
        BY AboveSteps
      <3>3. zone'.name = Above(seed, zone'.depth) /\ zone'.depth = 0
        BY <1>1, <2>1, <3>1, <3>2
      <3>4. 0..(0 - 1) = {}
        OBVIOUS
      <3> QED
        BY <1>6, <3>3, <3>4 DEF ZoneWalked
    <2>2. CASE ~nsNoData
      BY <1>1, <2>2 DEF ZoneWalked
    <2> QED
      BY <2>1, <2>2
  <1>8. HostsResolved'
    <2>1. CASE nsNoData
      BY <1>1, <2>1 DEF HostsResolved
    <2>2. CASE ~nsNoData
      <3>1. NeededHosts' = NeededHosts
        BY <1>6 DEF NeededHosts, NamedHosts, InheritedHosts
      <3>2. ASSUME NEW h \in NeededHosts, NEW u \in AddressTypes
            PROVE  \E y \in hosts' : y[1][1] = h /\ y[2] = u
        <4>1. PICK t : <<h, t>> \in found
          BY <1>1, <1>2, <2>2, SeedHostsFound
        <4>2. <<<<h, t>>, u>> \in hosts'
          BY <1>1, <2>2, <4>1
        <4> QED
          BY <4>2
      <3> QED
        BY <3>1, <3>2 DEF HostsResolved
    <2> QED
      BY <2>1, <2>2
  <1> QED
    BY <1>4, <1>5, <1>7, <1>8 DEF Whole

LEMMA ZoneAskWhole ==
    ASSUME DNSShape, WholeSoFar, ZoneAsk
    PROVE  WholeSoFar'
  <1> SUFFICES ASSUME status' = "complete" PROVE Whole'
    BY DEF WholeSoFar, Whole
  <1>1. ~ZoneStuck
    BY DEF ZoneAsk
  <1>2. /\ stage = "zone" /\ ask' = [ask EXCEPT ![Main] = Asking(<<zone.name, "SOA">>)]
        /\ UNCHANGED <<seeds, stage, links, zone, hosts, nsNoData, seen, queue, graphDone, status, addresses,
                       published, found, todo, channel>>
    BY <1>1 DEF ZoneAsk, graphVars
  <1>3. Whole
    BY <1>2 DEF WholeSoFar, Whole
  <1>4. PICK q \in Question : q = <<zone.name, "SOA">>
    BY <1>2 DEF DNSShape, AskedFor, Question, Type
  <1>5. PICK a \in AskType : a = Asking(q) /\ a.st = "start" /\ a.q = q
    BY AskingIs
  <1>6. ask' \in [Asker -> AskType] /\ ask'[Main] = a /\ \A j \in Asker : j # Main => ask'[j] = ask[j]
    BY <1>2, <1>4, <1>5, AskersDiffer, AskUpdate DEF DNSShape
  <1>7. ask'[Graph] = ask[Graph] /\ \A t \in SeedTypes : ask'[<<"seed", t>>] = ask[<<"seed", t>>]
    BY <1>6, AskersDiffer
  <1>8. AliasesFollowed'
    BY <1>2, <1>3, <1>7, AliasesStay DEF Whole, AliasesLeft, Idle
  <1>9. AnswersTaken'
    BY <1>2, <1>3, <1>7, AnswersStay DEF Whole, Idle
  <1>10. ask'[Main].q[2] # "NS"
    BY <1>4, <1>5, <1>6
  <1>11. ZoneWalked'
    BY <1>2, <1>3, <1>10 DEF Whole, ZoneWalked, Idle, seed
  <1>12. HostsResolved'
    BY <1>2 DEF HostsResolved
  <1> QED
    BY <1>8, <1>9, <1>11, <1>12 DEF Whole

LEMMA ZoneGotWhole ==
    ASSUME DNSShape, WholeSoFar, ZoneGot
    PROVE  WholeSoFar'
  <1> SUFFICES ASSUME status' = "complete" PROVE Whole'
    BY DEF WholeSoFar, Whole
  <1>1. /\ stage = "zone" /\ ask[Main].st = "got" /\ ask[Main].q[2] = "SOA"
        /\ AppendGraphQuery(Main, FALSE, FALSE)
        /\ UNCHANGED <<seeds, stage, links, hosts, nsNoData, seen, queue, graphDone, todo, channel>>
    BY DEF ZoneGot, graphVars
  <1>2. Main \in Asker /\ ~Idle(Main)
    BY <1>1, AskersDiffer DEF Idle
  <1>3. /\ status = "complete" /\ ~Unsound(Main)
        /\ addresses \subseteq addresses' /\ published' = published /\ found \subseteq found'
    BY <1>1, <1>2, AppendWhole
  <1>4. Whole
    BY <1>3 DEF WholeSoFar, Whole
  <1>5. PICK n \in Name : n = zone.name
    BY <1>1 DEF DNSShape, AskedFor
  <1>6. PICK q \in Question : q = ask[Main].q /\ q = <<n, "SOA">> /\ ask[Main].kind = Truth(q)
    <2>1. ask[Main].q \in {zone.name} \X {"SOA", "NS"}
      BY <1>1, <1>2 DEF DNSShape, AskedFor
    <2>2. ask[Main].q \in Question /\ ask[Main].kind = Truth(ask[Main].q)
      BY <1>1, <1>2, <1>3, SoundResult
    <2> QED
      BY <1>1, <1>5, <2>1, <2>2
  <1>7. PICK p \in Question : p = <<n, "NS">>
    BY DEF Question, Type
  <1>8. Asking(p) \in AskType /\ Asking(p).q = p /\ NoAsk \in AskType
    BY AskingIs, NoAskIs
  <1>9. PICK a \in AskType : ask' = [ask EXCEPT ![Main] = a] /\ a \in {Asking(p), NoAsk}
    BY <1>5, <1>7, <1>8 DEF ZoneGot
  <1>10. ask' \in [Asker -> AskType] /\ ask'[Main] = a /\ \A j \in Asker : j # Main => ask'[j] = ask[j]
    BY <1>2, <1>9, AskUpdate DEF DNSShape
  <1>11. ask'[Graph] = ask[Graph] /\ \A t \in SeedTypes : ask'[<<"seed", t>>] = ask[<<"seed", t>>]
    BY <1>10, AskersDiffer
  <1>12. AliasesFollowed'
    BY <1>1, <1>4, <1>11, AliasesStay DEF Whole, AliasesLeft, Idle
  <1>13. AnswersTaken'
    BY <1>1, <1>3, <1>4, <1>11, AnswersStay DEF Whole, Idle
  <1>14. HostsResolved'
    BY <1>1 DEF HostsResolved
  <1>15. PICK s \in Name, d \in Nat : s = seed /\ d = zone.depth /\ s = seed'
    BY <1>1, SeedIs DEF DNSShape, DNSTypes, seed
  <1>16. n = Above(s, d) /\ \A j \in 0..(d - 1) : Above(s, j) \notin Apex
    BY <1>1, <1>4, <1>5, <1>15 DEF Whole, ZoneWalked
  <1>17. ZoneWalked'
    <2>1. CASE Truth(q) = "answered" /\ HasZone(q)
      <3>1. zone' = zone /\ n \in Apex
        BY <1>6, <2>1 DEF ZoneGot, HasZone
      <3> QED
        BY <1>5, <1>15, <1>16, <3>1 DEF ZoneWalked
    <2>2. CASE ~(Truth(q) = "answered" /\ HasZone(q))
      <3>1. ask' = [ask EXCEPT ![Main] = NoAsk] /\ zone' = [name |-> Parent[n], depth |-> d + 1]
        BY <1>5, <1>6, <1>15, <2>2 DEF ZoneGot
      <3>2. n \notin Apex
        BY <1>6, <2>2, ApexAnswers
      <3>3. Idle(Main)'
        BY <1>2, <3>1, NoAskIs, AskUpdate DEF DNSShape, Idle
      <3>4. Above(s, d + 1) = Parent[n]
        BY <1>16, AboveSteps, WorldAssumption
      <3>5. \A j \in 0..((d + 1) - 1) : Above(s, j) \notin Apex
        <4> TAKE j \in 0..((d + 1) - 1)
        <4>1. j = d \/ j \in 0..(d - 1)
          OBVIOUS
        <4> QED
          BY <1>16, <3>2, <4>1
      <3>6. zone'.name = Parent[n] /\ zone'.depth = d + 1
        BY <3>1
      <3> QED
        BY <1>15, <3>3, <3>4, <3>5, <3>6 DEF ZoneWalked
    <2> QED
      BY <2>1, <2>2
  <1> QED
    BY <1>12, <1>13, <1>14, <1>17 DEF Whole

LEMMA ZoneServersWhole ==
    ASSUME DNSShape, WholeSoFar, ZoneServers
    PROVE  WholeSoFar'
  <1> SUFFICES ASSUME status' = "complete" PROVE Whole'
    BY DEF WholeSoFar, Whole
  <1>1. PICK bad \in BOOLEAN : bad = (DependenciesGot(Main) = {})
    OBVIOUS
  <1>2. /\ stage = "zone" /\ ask[Main].st = "got" /\ ask[Main].q[2] = "NS"
        /\ AppendGraphQuery(Main, FALSE, bad)
        /\ stage' = "hosts" /\ hosts' = (found \cup DependenciesGot(Main)) \X AddressTypes
        /\ ask' = [ask EXCEPT ![Main] = NoAsk]
        /\ UNCHANGED <<seeds, links, nsNoData, zone, seen, queue, graphDone, todo, channel>>
    BY <1>1 DEF ZoneServers, ToHosts, graphVars
  <1>3. Main \in Asker /\ ~Idle(Main)
    BY <1>2, AskersDiffer DEF Idle
  <1>4. /\ status = "complete" /\ ~bad /\ ~Unsound(Main)
        /\ published' = published /\ found \subseteq found'
    BY <1>2, <1>3, AppendWhole
  <1>5. Whole
    BY <1>4 DEF WholeSoFar, Whole
  <1>6. ask'[Main] = NoAsk /\ \A j \in Asker : j # Main => ask'[j] = ask[j]
    BY <1>2, <1>3, NoAskIs, AskUpdate DEF DNSShape
  <1>7. ask'[Graph] = ask[Graph] /\ \A t \in SeedTypes : ask'[<<"seed", t>>] = ask[<<"seed", t>>]
    BY <1>6, AskersDiffer
  <1>8. AliasesFollowed'
    BY <1>2, <1>5, <1>7, AliasesStay DEF Whole, AliasesLeft, Idle
  <1>9. AnswersTaken'
    BY <1>2, <1>4, <1>5, <1>7, AnswersStay DEF Whole, Idle
  <1>10. ZoneWalked'
    BY <1>2 DEF ZoneWalked
  <1>11. PICK s \in Name, n \in Name, d \in Nat : s = seed /\ n = zone.name /\ d = zone.depth /\ s = seed'
    BY <1>2, SeedIs DEF DNSShape, DNSTypes, AskedFor, seed
  <1>12. n = Above(s, d) /\ n \in Apex /\ \A j \in 0..(d - 1) : Above(s, j) \notin Apex
    BY <1>2, <1>3, <1>5, <1>11 DEF Whole, ZoneWalked
  <1>13. PICK q \in Question : /\ q = ask[Main].q /\ q = <<n, "NS">> /\ q[1] = n /\ q[2] = "NS"
                               /\ DependenciesGot(Main) = {<<m, "NS">> : m \in DependenciesIn(q)}
    <2>1. ask[Main].q \in {zone.name} \X {"SOA", "NS"}
      BY <1>2, <1>3 DEF DNSShape, AskedFor
    <2>2. ask[Main].q \in Question /\ DependenciesGot(Main) = {<<m, ask[Main].q[2]>> : m \in DependenciesIn(ask[Main].q)}
      BY <1>2, <1>3, <1>4, SoundResult
    <2> QED
      BY <1>2, <1>11, <2>1, <2>2
  <1>14. DependenciesIn(q) = DependencyOf[n]["NS"]
    <2>1. Ends(q[1]) = {n}
      BY <1>12, <1>13, ApexAnswers
    <2>2. DependenciesIn(q) = UNION {DependencyOf[m]["NS"] : m \in {n}}
      BY <1>13, <2>1 DEF DependenciesIn, DependencyTypes
    <2> QED
      BY <2>2
  <1>15. NearestApex(s) \subseteq {n}
    <2> SUFFICES ASSUME NEW k \in 0..Cardinality(Name), Above(s, k) \in Apex,
                        \A j \in 0..(k - 1) : Above(s, j) \notin Apex
                 PROVE  k = d
      BY <1>12 DEF NearestApex
    <2>1. k \in Nat
      BY NamesCounted
    <2>2. ~(k < d) /\ ~(d < k)
      BY <1>12, <2>1
    <2> QED
      BY <2>1, <2>2
  <1>16. HostsResolved'
    <2>1. NeededHosts' = NeededHosts
      BY <1>11 DEF NeededHosts, NamedHosts, InheritedHosts
    <2>2. ASSUME NEW h \in NeededHosts, NEW u \in AddressTypes
          PROVE  \E y \in hosts' : y[1][1] = h /\ y[2] = u
      <3>1. \E t : <<h, t>> \in found \cup DependenciesGot(Main)
        <4>1. CASE \E t : <<h, t>> \in found
          BY <4>1
        <4>2. CASE \E z \in NearestApex(seed) : h \in DependencyOf[z]["NS"]
          BY <1>11, <1>13, <1>14, <1>15, <4>2
        <4> QED
          BY <1>2, <1>5, <4>1, <4>2, SeedHostsFound
      <3>2. PICK t : <<<<h, t>>, u>> \in hosts'
        BY <1>2, <3>1
      <3> QED
        BY <3>2
    <2> QED
      BY <2>1, <2>2 DEF HostsResolved
  <1> QED
    BY <1>8, <1>9, <1>10, <1>16 DEF Whole

LEMMA HostAskWhole ==
    ASSUME DNSShape, WholeSoFar, HostAsk
    PROVE  WholeSoFar'
  <1> SUFFICES ASSUME status' = "complete" PROVE Whole'
    BY DEF WholeSoFar, Whole
  <1>1. PICK h \in hosts : /\ hosts' = hosts \ {h}
                           /\ ask' = [ask EXCEPT ![Main] = Asking(<<h[1][1], h[2]>>)]
    BY DEF HostAsk
  <1>2. /\ stage = "hosts" /\ Idle(Main)
        /\ UNCHANGED <<seeds, stage, links, zone, nsNoData, seen, queue, graphDone, status, addresses,
                       published, found, todo, channel>>
    BY DEF HostAsk, graphVars, resultVars, Idle
  <1>3. Whole
    BY <1>2 DEF WholeSoFar, Whole
  <1>4. h[1][1] \in Name /\ h[2] \in AddressTypes
    BY DEF DNSShape, DNSTypes, Dependency
  <1>5. PICK q \in Question : q = <<h[1][1], h[2]>>
    BY <1>4 DEF Question, Type
  <1>6. PICK a \in AskType : a = Asking(q) /\ a.st = "start" /\ a.q = q
    BY AskingIs
  <1>7. ask' \in [Asker -> AskType] /\ ask'[Main] = a /\ \A j \in Asker : j # Main => ask'[j] = ask[j]
    BY <1>1, <1>5, <1>6, AskersDiffer, AskUpdate DEF DNSShape
  <1>8. ask'[Graph] = ask[Graph] /\ \A t \in SeedTypes : ask'[<<"seed", t>>] = ask[<<"seed", t>>]
    BY <1>7, AskersDiffer
  <1>9. AliasesFollowed'
    BY <1>2, <1>3, <1>8, AliasesStay DEF Whole, AliasesLeft, Idle
  <1>10. AnswersTaken'
    BY <1>2, <1>3, <1>8, AnswersStay DEF Whole, Idle
  <1>11. ZoneWalked'
    BY <1>2 DEF ZoneWalked
  <1>12. HostsResolved'
    <2>1. NeededHosts' = NeededHosts
      BY <1>2 DEF NeededHosts, NamedHosts, InheritedHosts, seed
    <2>2. \A g \in NeededHosts, t \in AddressTypes :
            \/ \E y \in hosts : y[1][1] = g /\ y[2] = t
            \/ AddressesIn(<<g, t>>) \subseteq addresses
      BY <1>2, <1>3 DEF Whole, HostsResolved
    <2>3. ~Idle(Main)' /\ ask'[Main].q = <<h[1][1], h[2]>>
      BY <1>5, <1>6, <1>7 DEF Idle
    <2>4. \A g \in NeededHosts, t \in AddressTypes :
            \/ \E y \in hosts' : y[1][1] = g /\ y[2] = t
            \/ ask'[Main].q = <<g, t>>
            \/ AddressesIn(<<g, t>>) \subseteq addresses'
      BY <1>1, <1>2, <2>2, <2>3
    <2> QED
      BY <2>1, <2>3, <2>4 DEF HostsResolved
  <1> QED
    BY <1>9, <1>10, <1>11, <1>12 DEF Whole

LEMMA HostGotWhole ==
    ASSUME DNSShape, WholeSoFar, HostGot
    PROVE  WholeSoFar'
  <1> SUFFICES ASSUME status' = "complete" PROVE Whole'
    BY DEF WholeSoFar, Whole
  <1>1. /\ stage = "hosts" /\ ask[Main].st = "got" /\ AppendGraphQuery(Main, FALSE, FALSE)
        /\ ask' = [ask EXCEPT ![Main] = NoAsk]
        /\ UNCHANGED <<seeds, stage, links, zone, hosts, nsNoData, seen, queue, graphDone, todo, channel>>
    BY DEF HostGot, seedVars, graphVars
  <1>2. Main \in Asker /\ ~Idle(Main)
    BY <1>1, AskersDiffer DEF Idle
  <1>3. /\ status = "complete" /\ addresses' = addresses \cup AddressesIn(ask[Main].q)
        /\ published' = published /\ found \subseteq found'
    BY <1>1, <1>2, AppendWhole
  <1>4. Whole
    BY <1>3 DEF WholeSoFar, Whole
  <1>5. ask'[Main] = NoAsk /\ \A j \in Asker : j # Main => ask'[j] = ask[j]
    BY <1>1, <1>2, NoAskIs, AskUpdate DEF DNSShape
  <1>6. ask'[Graph] = ask[Graph] /\ \A t \in SeedTypes : ask'[<<"seed", t>>] = ask[<<"seed", t>>]
    BY <1>5, AskersDiffer
  <1>7. AliasesFollowed'
    BY <1>1, <1>4, <1>6, AliasesStay DEF Whole, AliasesLeft, Idle
  <1>8. AnswersTaken'
    BY <1>1, <1>3, <1>4, <1>6, AnswersStay DEF Whole, Idle
  <1>9. ZoneWalked'
    BY <1>1 DEF ZoneWalked
  <1>10. HostsResolved'
    <2>1. NeededHosts' = NeededHosts
      BY <1>1 DEF NeededHosts, NamedHosts, InheritedHosts, seed
    <2>2. \A g \in NeededHosts, t \in AddressTypes :
            \/ \E y \in hosts : y[1][1] = g /\ y[2] = t
            \/ ask[Main].q = <<g, t>>
            \/ AddressesIn(<<g, t>>) \subseteq addresses
      BY <1>1, <1>4 DEF Whole, HostsResolved
    <2>3. \A g \in NeededHosts, t \in AddressTypes :
            \/ \E y \in hosts' : y[1][1] = g /\ y[2] = t
            \/ AddressesIn(<<g, t>>) \subseteq addresses'
      BY <1>1, <1>3, <2>2
    <2> QED
      BY <2>1, <2>3 DEF HostsResolved
  <1> QED
    BY <1>7, <1>8, <1>9, <1>10 DEF Whole

LEMMA FinishSeedWhole ==
    ASSUME DNSShape, WholeSoFar, FinishSeed
    PROVE  WholeSoFar'
  <1> SUFFICES ASSUME status' = "complete" PROVE Whole'
    BY DEF WholeSoFar, Whole
  <1>1. ~cancelled /\ status = "complete"
    BY MarkedComplete DEF FinishSeed, Marked
  <1>2. /\ stage = "hosts" /\ Idle(Main) /\ hosts = {} /\ hosts' = {} /\ stage' = "done"
        /\ UNCHANGED <<seeds, ask, links, zone, nsNoData, seen, queue, graphDone, addresses,
                       published, found, todo, channel>>
    BY <1>1 DEF FinishSeed, graphVars, jobVars, Idle
  <1>3. Whole
    BY <1>1 DEF WholeSoFar, Whole
  <1>4. AliasesFollowed'
    BY <1>2, <1>3, AliasesStay DEF Whole, AliasesLeft, Idle
  <1>5. AnswersTaken'
    BY <1>2, <1>3, AnswersStay DEF Whole, Idle
  <1>6. ZoneWalked'
    BY <1>2 DEF ZoneWalked
  <1>7. HostsResolved'
    BY <1>2, <1>3, HostsStay DEF Whole, Idle
  <1> QED
    BY <1>4, <1>5, <1>6, <1>7 DEF Whole

\* A seed that has only begun has nothing to account for.
LEMMA FreshWhole ==
    ASSUME stage = "collect", seen = {}, graphDone = FALSE, \A t \in SeedTypes : ~Idle(<<"seed", t>>)
    PROVE  Whole
  <1>1. AddressTypes \subseteq SeedTypes
    BY WorldAssumption
  <1> QED
    BY <1>1 DEF Whole, AliasesFollowed, AnswersTaken, ZoneWalked, HostsResolved

LEMMA NextSeedWhole ==
    ASSUME DNSShape, WholeSoFar, NextSeed
    PROVE  WholeSoFar'
  <1>1. PICK s \in Name : ask' = SeedAsks(s)
    BY NextSeedIs
  <1>2. stage' = "collect" /\ seen' = {} /\ graphDone' = FALSE
    BY DEF NextSeed
  <1>3. \A t \in SeedTypes : ~Idle(<<"seed", t>>)'
    BY <1>1, SeedAsksAre DEF Idle
  <1>4. AddressTypes \subseteq SeedTypes
    BY WorldAssumption
  <1>5. AliasesFollowed' /\ AnswersTaken' /\ ZoneWalked' /\ HostsResolved'
    BY <1>2, <1>3, <1>4 DEF AliasesFollowed, AnswersTaken, ZoneWalked, HostsResolved
  <1> QED
    BY <1>5 DEF WholeSoFar

LEMMA GraphPickWhole ==
    ASSUME DNSShape, WholeSoFar, GraphPick
    PROVE  WholeSoFar'
  <1> SUFFICES ASSUME status' = "complete" PROVE Whole'
    BY DEF WholeSoFar, Whole
  <1>1. PICK n \in 0..Len(channel), waiting \in SUBSET ItemType :
             /\ waiting = queue \cup {GraphItem(channel[i], 1, {seed}) : i \in 1..n}
             /\ channel' = SubSeq(channel, n + 1, Len(channel)) /\ channel' \in Seq(Name)
             /\ \E x \in waiting :
                  /\ queue' = waiting \ {x}
                  /\ status' = Marked(TooFar(x))
                  /\ IF TooFar(x) \/ x.name \in seen
                     THEN UNCHANGED <<seen, item, ask>>
                     ELSE /\ seen' = seen \cup {x.name}
                          /\ item' = x
                          /\ ask' = [ask EXCEPT ![Graph] = Asking(<<x.name, "CNAME">>)]
    BY GraphRound
  <1>2. PICK x \in waiting : /\ queue' = waiting \ {x}
                             /\ status' = Marked(TooFar(x))
                             /\ IF TooFar(x) \/ x.name \in seen
                                THEN UNCHANGED <<seen, item, ask>>
                                ELSE /\ seen' = seen \cup {x.name}
                                     /\ item' = x
                                     /\ ask' = [ask EXCEPT ![Graph] = Asking(<<x.name, "CNAME">>)]
    BY <1>1
  <1>3. /\ ~graphDone /\ item = NoItem
        /\ UNCHANGED <<seeds, stage, links, zone, hosts, nsNoData, graphDone, addresses, published, found, todo>>
    BY DEF GraphPick, GraphIdle, seedVars
  <1>4. ~TooFar(x) /\ status = "complete"
    <2>1. PICK bad : bad = TooFar(x)
      OBVIOUS
    <2> QED
      BY <1>2, <2>1, MarkedComplete
  <1>5. Whole
    BY <1>4 DEF WholeSoFar, Whole
  <1>6. x.name \in seen' /\ seen \subseteq seen' /\ seen' \subseteq seen \cup {x.name}
    BY <1>2, <1>4
  <1>7. \A m : Followed(m) => Followed(m)'
    <2> SUFFICES ASSUME NEW m, Followed(m) PROVE Followed(m)'
      OBVIOUS
    <2>1. CASE m \in seen \/ m \in links
      BY <1>3, <1>6, <2>1 DEF Followed
    <2>2. ASSUME NEW y \in waiting, y.name = m PROVE Followed(m)'
      <3>1. CASE y = x
        BY <1>6, <2>2, <3>1 DEF Followed
      <3>2. CASE y # x
        BY <1>2, <2>2, <3>2 DEF Followed
      <3> QED
        BY <3>1, <3>2
    <2>3. CASE \E y \in queue : y.name = m
      BY <1>1, <2>2, <2>3
    <2>4. CASE m \in ToSet(channel)
      <3>1. channel \in Seq(Name)
        BY DEF DNSShape, DNSTypes
      <3>2. PICK i \in 1..Len(channel) : m = channel[i]
        BY <2>4, <3>1 DEF ToSet
      <3>3. CASE i \in 1..n
        <4>1. GraphItem(channel[i], 1, {seed}) \in waiting /\ GraphItem(channel[i], 1, {seed}).name = m
          BY <1>1, <3>2, <3>3 DEF GraphItem
        <4> QED
          BY <2>2, <4>1
      <3>4. CASE i \notin 1..n
        <4>1. i - n \in 1..Len(channel') /\ channel'[i - n] = m
          BY <1>1, <3>1, <3>2, <3>4
        <4>2. DOMAIN channel' = 1..Len(channel')
          BY <1>1
        <4>3. m \in ToSet(channel')
          BY <4>1, <4>2 DEF ToSet
        <4> QED
          BY <4>3 DEF Followed
      <3> QED
        BY <3>3, <3>4
    <2> QED
      BY <2>1, <2>3, <2>4 DEF Followed
  <1>8. Idle(Graph) /\ seed' = seed
    BY <1>3 DEF DNSShape, AskedFor, seed
  <1>9. \A m \in seen : Links[m] # None => Followed(Links[m])
    BY <1>5, <1>8 DEF Whole, AliasesFollowed
  <1>10. x.name \in Name
    BY <1>1, <1>2 DEF ItemType
  <1>11. /\ \A j \in Asker : j # Graph => ask'[j] = ask[j]
         /\ x.name \in seen \/ (~Idle(Graph)' /\ ask'[Graph].q = <<x.name, "CNAME">>)
    <2>1. CASE x.name \in seen
      <3>1. ask' = ask
        BY <1>2, <2>1, Zenon
      <3> QED
        BY <2>1, <3>1
    <2>2. CASE x.name \notin seen
      <3>1. PICK q \in Question : q = <<x.name, "CNAME">>
        BY <1>10 DEF Question, Type
      <3>2. PICK a \in AskType : a = Asking(q) /\ a.st = "start" /\ a.q = q
        BY AskingIs
      <3>3. ask' = [ask EXCEPT ![Graph] = a]
        BY <1>2, <1>4, <2>2, <3>1, <3>2
      <3>4. ask'[Graph] = a /\ \A j \in Asker : j # Graph => ask'[j] = ask[j]
        BY <3>3, AskersDiffer, AskUpdate DEF DNSShape
      <3> QED
        BY <3>1, <3>2, <3>4 DEF Idle
    <2> QED
      BY <2>1, <2>2
  <1>12. ask'[Main] = ask[Main] /\ \A t \in SeedTypes : ask'[<<"seed", t>>] = ask[<<"seed", t>>]
    BY <1>11, AskersDiffer
  <1>13. AliasesFollowed'
    <2>1. \A m \in seen' : Links[m] # None =>
            Followed(Links[m])' \/ (~Idle(Graph)' /\ ask'[Graph].q = <<m, "CNAME">>)
      BY <1>6, <1>7, <1>9, <1>11
    <2>2. Links[seed] # None =>
            \A t \in SeedTypes : NamesAlias(t) /\ Idle(<<"seed", t>>) => Followed(Links[seed])'
      BY <1>5, <1>7, <1>8 DEF Whole, AliasesFollowed
    <2>3. \A t \in SeedTypes : (NamesAlias(t)' <=> NamesAlias(t)) /\ (Idle(<<"seed", t>>)' <=> Idle(<<"seed", t>>))
      BY <1>8, <1>12 DEF NamesAlias, Idle
    <2> QED
      BY <1>3, <1>8, <2>1, <2>2, <2>3 DEF AliasesFollowed
  <1>14. AnswersTaken'
    BY <1>3, <1>5, <1>12, AnswersStay DEF Whole, Idle
  <1>15. ZoneWalked' /\ HostsResolved'
    BY <1>3, <1>5, <1>12, ZoneStays, HostsStay DEF Whole, Idle
  <1> QED
    BY <1>13, <1>14, <1>15 DEF Whole

LEMMA GraphEndWhole ==
    ASSUME DNSShape, WholeSoFar, GraphEnd
    PROVE  WholeSoFar'
  <1> SUFFICES ASSUME status' = "complete" PROVE Whole'
    BY DEF WholeSoFar, Whole
  <1>1. /\ stage = "join" /\ queue = {} /\ channel = << >>
        /\ UNCHANGED <<seeds, ask, stage, links, zone, hosts, nsNoData, queue, seen, status, addresses,
                       published, found, todo, channel>>
    BY DEF GraphEnd, jobVars, seedVars, resultVars
  <1>2. Whole
    BY <1>1 DEF WholeSoFar, Whole
  <1>3. \A m : Followed(m)' <=> Followed(m)
    BY <1>1 DEF Followed
  <1>4. AliasesFollowed'
    BY <1>1, <1>2, <1>3 DEF Whole, AliasesFollowed, NamesAlias, Idle, seed
  <1>5. AnswersTaken'
    BY <1>1, <1>2, AnswersStay DEF Whole, Idle
  <1>6. ZoneWalked' /\ HostsResolved'
    BY <1>1, <1>2, ZoneStays, HostsStay DEF Whole, Idle
  <1> QED
    BY <1>4, <1>5, <1>6 DEF Whole

\* What a graph result leaves to show.
LEMMA GraphGotWhole ==
    ASSUME DNSShape, Whole, AliasesFollowed',
           UNCHANGED <<seeds, stage, links, zone, hosts, nsNoData, todo>>,
           addresses \subseteq addresses', published \subseteq published', found \subseteq found',
           \A j \in Asker : j # Graph => ask'[j] = ask[j]
    PROVE  Whole'
  <1>1. ask'[Main] = ask[Main] /\ \A t \in SeedTypes : ask'[<<"seed", t>>] = ask[<<"seed", t>>]
    BY AskersDiffer
  <1>2. AnswersTaken'
    BY <1>1, AnswersStay DEF Whole, Idle
  <1>3. ZoneWalked' /\ HostsResolved'
    BY <1>1, ZoneStays, HostsStay DEF Whole, Idle
  <1> QED
    BY <1>2, <1>3 DEF Whole

LEMMA GraphLinkedWhole ==
    ASSUME DNSShape, WholeSoFar, GraphLinked
    PROVE  WholeSoFar'
  <1> SUFFICES ASSUME status' = "complete" PROVE Whole'
    BY DEF WholeSoFar, Whole
  <1> DEFINE next == IF ask[Graph].kind = "answered" THEN Aliases(ask[Graph].q) ELSE {}
  <1>1. /\ ask[Graph].st = "got" /\ ask[Graph].q[2] = "CNAME"
        /\ AppendGraphQuery(Graph, TRUE, FALSE)
        /\ ask' = [ask EXCEPT ![Graph] = NoAsk]
        /\ queue' = queue \cup {GraphItem(m, item.depth + 1, item.path \cup {item.name}) : m \in next}
        /\ UNCHANGED <<seeds, stage, links, zone, hosts, nsNoData, seen, graphDone, todo, channel>>
    BY DEF GraphLinked, seedVars
  <1>2. Graph \in Asker /\ ~Idle(Graph) /\ item.name \in Name /\ ~graphDone
    BY <1>1, AskersDiffer, GraphAsksItem
  <1>3. /\ status = "complete" /\ ~Unsound(Graph)
        /\ addresses \subseteq addresses' /\ published \subseteq published' /\ found \subseteq found'
    BY <1>1, <1>2, AppendWhole
  <1>4. Whole
    BY <1>3 DEF WholeSoFar, Whole
  <1>5. PICK n \in Name, q \in Question : n = item.name /\ q = ask[Graph].q /\ q = <<n, "CNAME">> /\ ask[Graph].kind = Truth(q)
    <2>1. ask[Graph].q \in {item.name} \X ({"CNAME"} \cup AddressTypes)
      BY <1>2 DEF DNSShape, AskedFor
    <2>2. ask[Graph].q \in Question /\ ask[Graph].kind = Truth(ask[Graph].q)
      BY <1>1, <1>2, <1>3, SoundResult
    <2> QED
      BY <1>1, <1>2, <2>1, <2>2
  <1>6. Links[n] # None => Links[n] \in next
    <2>1. Links[n] # None => Truth(<<n, "CNAME">>) = "answered" /\ Links[n] \in Aliases(<<n, "CNAME">>)
      BY AliasAnswered DEF Type
    <2> QED
      BY <1>5, <2>1
  <1> HIDE DEF next
  <1>7. ask'[Graph] = NoAsk /\ \A j \in Asker : j # Graph => ask'[j] = ask[j]
    BY <1>1, <1>2, NoAskIs, AskUpdate DEF DNSShape
  <1>8. \A m : Followed(m) => Followed(m)'
    BY <1>1 DEF Followed
  <1>9. seed' = seed
    BY <1>1 DEF seed
  <1>10. Links[n] # None => Followed(Links[n])'
    <2>1. ASSUME Links[n] # None
          PROVE  GraphItem(Links[n], item.depth + 1, item.path \cup {item.name}) \in queue'
      BY <1>1, <1>6, <2>1
    <2>2. GraphItem(Links[n], item.depth + 1, item.path \cup {item.name}).name = Links[n]
      BY DEF GraphItem
    <2> QED
      BY <2>1, <2>2 DEF Followed
  <1>11. AliasesFollowed'
    <2>1. \A m \in seen : Links[m] # None => Followed(Links[m])'
      <3> SUFFICES ASSUME NEW m \in seen, Links[m] # None PROVE Followed(Links[m])'
        OBVIOUS
      <3>1. Followed(Links[m]) \/ ask[Graph].q = <<m, "CNAME">>
        BY <1>4 DEF Whole, AliasesFollowed
      <3>2. ask[Graph].q = <<m, "CNAME">> => m = n
        <4>1. <<m, "CNAME">>[1] = m /\ <<n, "CNAME">>[1] = n
          OBVIOUS
        <4> QED
          BY <1>5, <4>1
      <3> QED
        BY <1>8, <1>10, <3>1, <3>2
    <2>2. Links[seed] # None =>
            \A t \in SeedTypes : NamesAlias(t) /\ Idle(<<"seed", t>>) => Followed(Links[seed])'
      BY <1>4, <1>8, <1>9 DEF Whole, AliasesFollowed
    <2>3. seed' = seed /\ \A t \in SeedTypes :
            (NamesAlias(t)' <=> NamesAlias(t)) /\ (Idle(<<"seed", t>>)' <=> Idle(<<"seed", t>>))
      BY <1>1, <1>7, AskersDiffer DEF NamesAlias, Idle, seed
    <2> QED
      BY <1>1, <1>2, <2>1, <2>2, <2>3 DEF AliasesFollowed
  <1> QED
    BY <1>1, <1>3, <1>4, <1>7, <1>11, GraphGotWhole

LEMMA GraphAskWhole ==
    ASSUME DNSShape, WholeSoFar, GraphAsk
    PROVE  WholeSoFar'
  <1> SUFFICES ASSUME status' = "complete" PROVE Whole'
    BY DEF WholeSoFar, Whole
  <1>1. PICK t \in item.types : ask' = [ask EXCEPT ![Graph] = Asking(<<item.name, t>>)]
    BY DEF GraphAsk
  <1>2. /\ item # NoItem /\ Idle(Graph)
        /\ UNCHANGED <<seeds, stage, links, zone, hosts, nsNoData, queue, seen, graphDone, status, addresses,
                       published, found, todo, channel>>
    BY DEF GraphAsk, Idle, seedVars, resultVars
  <1>3. Whole
    BY <1>2 DEF WholeSoFar, Whole
  <1>4. item.name \in Name /\ t \in AddressTypes
    BY <1>2 DEF DNSShape, DNSTypes, ItemType
  <1>5. PICK q \in Question : q = <<item.name, t>>
    BY <1>4 DEF Question, Type
  <1>6. Asking(q) \in AskType
    BY AskingIs
  <1>7. \A j \in Asker : j # Graph => ask'[j] = ask[j]
    BY <1>1, <1>5, <1>6, AskersDiffer, AskUpdate DEF DNSShape
  <1>8. AliasesFollowed'
    <2>1. \A m : Followed(m)' <=> Followed(m)
      BY <1>2 DEF Followed
    <2>2. \A m \in seen : Links[m] # None => Followed(Links[m])
      BY <1>2, <1>3 DEF Whole, AliasesFollowed
    <2>3. seed' = seed /\ \A u \in SeedTypes :
            (NamesAlias(u)' <=> NamesAlias(u)) /\ (Idle(<<"seed", u>>)' <=> Idle(<<"seed", u>>))
      BY <1>2, <1>7, AskersDiffer DEF NamesAlias, Idle, seed
    <2> QED
      BY <1>2, <1>3, <2>1, <2>2, <2>3 DEF Whole, AliasesFollowed
  <1> QED
    BY <1>2, <1>3, <1>7, <1>8, GraphGotWhole

LEMMA GraphResolvedWhole ==
    ASSUME DNSShape, WholeSoFar, GraphResolved
    PROVE  WholeSoFar'
  <1> SUFFICES ASSUME status' = "complete" PROVE Whole'
    BY DEF WholeSoFar, Whole
  <1>1. /\ ask[Graph].st = "got" /\ ask[Graph].q[2] # "CNAME"
        /\ AppendGraphQuery(Graph, TRUE, FALSE)
        /\ ask' = [ask EXCEPT ![Graph] = NoAsk]
        /\ UNCHANGED <<seeds, stage, links, zone, hosts, nsNoData, queue, seen, graphDone, todo, channel>>
    BY DEF GraphResolved, seedVars
  <1>2. Graph \in Asker
    BY AskersDiffer
  <1>3. /\ status = "complete"
        /\ addresses \subseteq addresses' /\ published \subseteq published' /\ found \subseteq found'
    BY <1>1, <1>2, AppendWhole
  <1>4. Whole
    BY <1>3 DEF WholeSoFar, Whole
  <1>5. ask'[Graph] = NoAsk /\ \A j \in Asker : j # Graph => ask'[j] = ask[j]
    BY <1>1, <1>2, NoAskIs, AskUpdate DEF DNSShape
  <1>6. AliasesFollowed'
    <2>1. \A m : Followed(m)' <=> Followed(m)
      BY <1>1 DEF Followed
    <2>2. \A m \in seen : Links[m] # None => Followed(Links[m])
      BY <1>1, <1>4 DEF Whole, AliasesFollowed
    <2>3. seed' = seed /\ \A u \in SeedTypes :
            (NamesAlias(u)' <=> NamesAlias(u)) /\ (Idle(<<"seed", u>>)' <=> Idle(<<"seed", u>>))
      BY <1>1, <1>5, AskersDiffer DEF NamesAlias, Idle, seed
    <2> QED
      BY <1>1, <1>4, <2>1, <2>2, <2>3 DEF Whole, AliasesFollowed
  <1> QED
    BY <1>1, <1>3, <1>4, <1>5, <1>6, GraphGotWhole

LEMMA RedirectWhole ==
    ASSUME DNSShape, WholeSoFar,
           (\E n \in RedirectHost : AskRedirect(n)) \/ (\E t \in AddressTypes : RedirectGot(t))
    PROVE  WholeSoFar'
  <1>1. UNCHANGED <<seeds, stage, links, zone, hosts, nsNoData, queue, seen, graphDone, status, addresses,
                    published, found, todo, channel>>
    BY DEF AskRedirect, RedirectGot, seedVars, graphVars, resultVars
  <1>2. ask'[Main] = ask[Main] /\ ask'[Graph] = ask[Graph]
        /\ \A t \in SeedTypes : ask'[<<"seed", t>>] = ask[<<"seed", t>>]
    <2>1. ASSUME NEW n \in RedirectHost, AskRedirect(n), NEW k \in Asker, k[1] # "redirect"
          PROVE  ask'[k] = ask[k]
      BY <2>1 DEF AskRedirect
    <2>2. ASSUME NEW t \in AddressTypes, RedirectGot(t), NEW k \in Asker, k[1] # "redirect"
          PROVE  ask'[k] = ask[k]
      <3>1. ask' = [ask EXCEPT ![<<"redirect", t>>] = NoAsk] /\ <<"redirect", t>> # k
        BY <2>2 DEF RedirectGot
      <3> QED
        BY <3>1 DEF DNSShape, DNSTypes
    <2>3. \A k \in Asker : k[1] # "redirect" => ask'[k] = ask[k]
      BY <2>1, <2>2
    <2>4. Main[1] # "redirect" /\ Graph[1] # "redirect" /\ \A t \in SeedTypes : <<"seed", t>>[1] # "redirect"
      BY DEF Main, Graph
    <2> QED
      BY <2>3, <2>4, AskersDiffer
  <1>3. AliasesLeft
    BY <1>1, <1>2 DEF AliasesLeft, Idle
  <1>4. Whole => Whole'
    BY <1>1, <1>2, <1>3, QuietStays DEF Idle
  <1> QED
    BY <1>1, <1>4 DEF WholeSoFar, Whole

LEMMA RestWhole ==
    ASSUME WholeSoFar,
           UNCHANGED <<seeds, ask, stage, links, zone, hosts, nsNoData, queue, seen, graphDone, status, addresses,
                       published, found, todo, channel>>
    PROVE  WholeSoFar'
  BY DEF WholeSoFar, AliasesFollowed, AnswersTaken, ZoneWalked, HostsResolved, Followed, NamesAlias,
         NeededHosts, NamedHosts, InheritedHosts, Idle, seed

LEMMA WholeStep ==
    ASSUME DNSShape, WholeSoFar, [DNSNext]_dnsVars
    PROVE  WholeSoFar'
  <1>1. ASSUME NEW k \in Asker, QueryStep(k) PROVE WholeSoFar'
    BY <1>1, LookupQueried, ResolveQueried, StopQueried, QueriedWhole DEF QueryStep
  <1>2. CASE SeedStep
    BY <1>2, ReceiveWhole, PushLinkWhole, TakeAnswerWhole, CloseTargetsWhole, JoinWhole, ZoneAskWhole,
       ZoneGotWhole, ZoneServersWhole, HostAskWhole, HostGotWhole, FinishSeedWhole, NextSeedWhole
    DEF SeedStep
  <1>3. CASE GraphStep
    <2>1. CASE GraphStop
      BY <2>1 DEF GraphStop, WholeSoFar
    <2> QED
      BY <1>3, <2>1, GraphPickWhole, GraphEndWhole, GraphLinkedWhole, GraphAskWhole, GraphResolvedWhole
      DEF GraphStep
  <1>4. CASE EndContext
    BY <1>4, RestWhole DEF EndContext, jobVars, seedVars, graphVars, resultVars
  <1>5. CASE UNCHANGED dnsVars
    BY <1>5, RestWhole DEF dnsVars, jobVars, seedVars, graphVars, resultVars
  <1> QED
    BY <1>1, <1>2, <1>3, <1>4, <1>5, RedirectWhole DEF DNSNext, Resting

LEMMA WholeInit ==
    ASSUME DNSInit
    PROVE  WholeSoFar
  <1>1. seeds \in Seq(Name) /\ seeds # << >>
    BY WorldAssumption DEF DNSInit
  <1>2. PICK s \in Name : s = seed
    BY <1>1 DEF seed
  <1>3. \A t \in SeedTypes : ~Idle(<<"seed", t>>)
    BY <1>2, SeedAsksAre DEF DNSInit, Idle
  <1>4. Whole
    BY <1>3, FreshWhole DEF DNSInit
  <1> QED
    BY <1>4 DEF WholeSoFar, Whole

\* The visited names are closed under aliases, so they hold the whole chain.
LEMMA ChainSeen ==
    ASSUME NEW n \in Name, NEW S, Links[n] # None => Links[n] \in S,
           \A m \in S : Links[m] # None => Links[m] \in S
    PROVE  Chain(n) \subseteq S
  <1> DEFINE B == {k \in Nat : k # 0 /\ Hop(n, k) # None /\ Hop(n, k) \notin S}
  <1>1. B = {}
    <2> SUFFICES ASSUME B # {} PROVE FALSE
      OBVIOUS
    <2>1. PICK k \in B : \A j \in B : k <= j
      BY LeastNat
    <2>2. PICK j \in Nat : k = j + 1 /\ j \notin B
      <3>1. k - 1 \in Nat /\ k - 1 \notin B /\ k = (k - 1) + 1
        BY <2>1
      <3> QED
        BY <3>1
    <2>3. Hop(n, j + 1) = IF Hop(n, j) = None THEN None ELSE Links[Hop(n, j)]
      BY HopSteps
    <2>4. Hop(n, j) # None /\ Links[Hop(n, j)] # None /\ Hop(n, k) = Links[Hop(n, j)]
      BY <2>1, <2>2, <2>3
    <2>5. CASE j = 0
      BY <2>1, <2>4, <2>5, HopSteps
    <2>6. CASE j # 0
      BY <2>1, <2>2, <2>4, <2>6
    <2> QED
      BY <2>5, <2>6
  <1>2. ASSUME NEW m \in Chain(n) PROVE m \in S
    <2>1. PICK i \in 1..Cardinality(Name) : m = Hop(n, i) /\ m # None
      BY DEF Chain, ChainTo
    <2>2. i \in Nat /\ i # 0
      BY NamesCounted
    <2> QED
      BY <1>1, <2>1, <2>2
  <1> QED
    BY <1>2

LEMMA WholeMeansAll ==
    ASSUME DNSShape, WholeSoFar
    PROVE  CompleteMeansAll
  <1> SUFFICES ASSUME stage = "done", status = "complete"
               PROVE  /\ Chain(seed) \subseteq seen
                      /\ \A m \in Ends(seed), t \in AddressTypes : Addr[m][t] \subseteq published
                      /\ \A h \in NeededHosts : \A m \in Ends(h), t \in AddressTypes : Addr[m][t] \subseteq addresses
    BY DEF CompleteMeansAll
  <1>1. AliasesFollowed /\ AnswersTaken /\ HostsResolved
    BY DEF WholeSoFar
  <1>2. /\ graphDone /\ links = {} /\ todo = {} /\ hosts = {}
        /\ \A t \in SeedTypes : Idle(<<"seed", t>>)
    BY DEF DNSShape, StagesOrdered
  <1>3. Idle(Main) /\ Idle(Graph) /\ queue = {} /\ channel = << >>
    BY <1>1, <1>2 DEF DNSShape, AskedFor, StagesOrdered, AliasesFollowed
  <1>4. PICK s \in Name : s = seed
    BY SeedIs DEF DNSShape
  <1>5. \A m : Followed(m) => m \in seen
    BY <1>2, <1>3 DEF Followed, ToSet
  <1>6. Chain(seed) \subseteq seen
    <2>1. \A m \in seen : Links[m] # None => Links[m] \in seen
      BY <1>1, <1>3, <1>5 DEF AliasesFollowed
    <2>2. ASSUME Links[s] # None PROVE Links[s] \in seen
      <3>1. \E t \in SeedTypes : NamesAlias(t)
        <4>1. CASE "CNAME" \in SeedTypes
          BY <4>1 DEF NamesAlias
        <4>2. CASE "CNAME" \notin SeedTypes
          <5>1. Ends(s) \cap Missing = {}
            BY <2>2, <4>2, AliasAssumption, NamesAssumption
          <5>2. \E t : t \in SeedTypes
            BY WorldAssumption
          <5> QED
            BY <1>4, <5>1, <5>2 DEF NamesAlias
        <4> QED
          BY <4>1, <4>2
      <3> QED
        BY <1>1, <1>2, <1>4, <1>5, <2>2, <3>1 DEF AliasesFollowed
    <2>3. PICK S : S = seen
      OBVIOUS
    <2> QED
      BY <1>4, <2>1, <2>2, <2>3, ChainSeen
  <1>7. ASSUME NEW n \in Name, NEW m \in Ends(n), NEW t \in AddressTypes
        PROVE  Addr[m][t] \subseteq AddressesIn(<<n, t>>)
    BY DEF AddressesIn
  <1>8. ASSUME NEW m \in Ends(seed), NEW t \in AddressTypes PROVE Addr[m][t] \subseteq published
    <2>1. AddressesIn(<<seed, t>>) \subseteq published
      BY <1>1, <1>2, WorldAssumption DEF AnswersTaken
    <2> QED
      BY <1>4, <1>7, <2>1
  <1>9. ASSUME NEW h \in NeededHosts, NEW m \in Ends(h), NEW t \in AddressTypes
        PROVE  Addr[m][t] \subseteq addresses
    <2>1. AddressesIn(<<h, t>>) \subseteq addresses
      BY <1>1, <1>2, <1>3 DEF HostsResolved
    <2>2. Addr[m][t] \subseteq AddressesIn(<<h, t>>)
      BY DEF AddressesIn
    <2> QED
      BY <2>1, <2>2
  <1> QED
    BY <1>6, <1>8, <1>9

\* Coverage that says "complete" hides nothing: every alias of the seed was
\* followed, every address of it handed to HTTP collection and every host its
\* records depend on resolved, in whatever order answers, aliases and expiries
\* came.  Coverage is marked partial by whatever would break the account.
THEOREM CompleteCoverage == DNSSpec => []CompleteMeansAll
  <1>1. DNSInit => DNSInv
    BY DNSInitShape, WholeInit DEF DNSInv
  <1>2. DNSInv /\ [DNSNext]_dnsVars => DNSInv'
    BY DNSShapeStep, WholeStep DEF DNSInv
  <1>3. DNSInv => CompleteMeansAll
    BY WholeMeansAll DEF DNSInv
  <1> QED
    BY <1>1, <1>2, <1>3, PTL DEF DNSSpec

=============================================================================
