------------------------ MODULE AnalyzerCacheProofs ------------------------
(***************************************************************************)
(* Theorems about AnalyzerCache for every number of callers and bundles,   *)
(* and every capacity.                                                     *)
(***************************************************************************)
EXTENDS AnalyzerCache, FiniteSetTheorems, TLAPS

-----------------------------------------------------------------------------
(* The inductive invariant.                                                *)

\* The processes that share the load of b.
Joined(b) == {p \in Process : pc[p] = "joined" /\ waitsFor[p] = b}

\* The processes that have captured b.
Holders(b) == {p \in Process : held[p] = b}

\* A process sleeps on a bundle, and holds one exactly while it is "holding".
ProcessesSound ==
    \A p \in Process :
        /\ pc[p] \in {"joined", "shunned"} => waitsFor[p] \in Bundle
        /\ pc[p] = "holding" <=> held[p] \in Bundle

\* A load counts the callers that share it, and a load that somebody shares
\* is neither finished nor cancelled.
LoadsSound ==
    \A b \in Bundle :
        /\ waiters[b] = Cardinality(Joined(b))
        /\ waiters[b] > 0 => loading[b] = "running"

\* A bundle is never resident and being loaded at the same time: a load that
\* ends well never replaces an analyzer that somebody may have captured.
LoadsAbsent == residents \cap Loads = {}

CacheInv ==
    /\ TypeOK
    /\ ProcessesSound
    /\ LoadsSound
    /\ LoadsAbsent
    /\ ProtectedStayResident

-----------------------------------------------------------------------------
(* Counting.                                                               *)

\* There are finitely many processes and bundles.
LEMMA ProcessesFinite ==
    ASSUME NEW S, S \subseteq Process
    PROVE  IsFiniteSet(S) /\ Cardinality(S) \in Nat
  <1>1. IsFiniteSet(Process)
    BY CacheAssumption, FS_AddElement DEF Process
  <1> QED
    BY <1>1, FS_Subset, FS_CardinalityType

LEMMA BundlesFinite ==
    ASSUME NEW S, S \subseteq Bundle
    PROVE  IsFiniteSet(S) /\ Cardinality(S) \in Nat
  BY CacheAssumption, FS_Subset, FS_CardinalityType

\* One more process, or one less, changes the count by one.
LEMMA ProcessAdded ==
    ASSUME NEW S, S \subseteq Process, NEW p \in Process, p \notin S
    PROVE  Cardinality(S \cup {p}) = Cardinality(S) + 1
  BY ProcessesFinite, FS_AddElement

LEMMA ProcessRemoved ==
    ASSUME NEW S, S \subseteq Process, NEW p \in S
    PROVE  Cardinality(S \ {p}) = Cardinality(S) - 1 /\ Cardinality(S) > 0
  <1>1. p \notin S \ {p} /\ (S \ {p}) \cup {p} = S /\ p \in Process
    OBVIOUS
  <1>2. Cardinality(S) = Cardinality(S \ {p}) + 1
    BY <1>1, ProcessAdded
  <1> QED
    BY <1>2, ProcessesFinite

\* A set nobody is in counts nobody, and one somebody is in counts somebody.
LEMMA ProcessNone ==
    ASSUME NEW S, S \subseteq Process
    PROVE  Cardinality(S) = 0 <=> S = {}
  BY ProcessesFinite, FS_EmptySet

\* The same for bundles.
LEMMA BundleAdded ==
    ASSUME NEW S, S \subseteq Bundle, NEW b \in Bundle, b \notin S
    PROVE  Cardinality(S \cup {b}) = Cardinality(S) + 1
  BY BundlesFinite, FS_AddElement

LEMMA BundleRemoved ==
    ASSUME NEW S, S \subseteq Bundle, NEW b \in S
    PROVE  Cardinality(S \ {b}) = Cardinality(S) - 1
  BY BundlesFinite, FS_RemoveElement

\* reserveCapacityLocked evicts only what it may, and every eviction frees one
\* place.
LEMMA VictimsEvictable ==
    ASSUME TypeOK, NEW V \in Victims
    PROVE  /\ V \subseteq Evictable
           /\ Cardinality(residents \ V) = Cardinality(residents) - Cardinality(V)
  <1>1. V = {} \/ \E b \in Evictable : V = {b}
    BY DEF Victims
  <1>2. CASE V = {}
    <2>1. residents \ V = residents /\ Cardinality(V) = 0
      BY <1>2, FS_EmptySet
    <2> QED
      BY <1>2, <2>1, BundlesFinite DEF TypeOK
  <1>3. ASSUME NEW b \in Evictable, V = {b}
        PROVE  /\ V \subseteq Evictable
               /\ Cardinality(residents \ V) = Cardinality(residents) - Cardinality(V)
    <2>1. Cardinality(V) = 1
      BY <1>3, FS_Singleton
    <2>2. b \in residents
      BY DEF Evictable
    <2> QED
      BY <1>3, <2>1, <2>2, BundleRemoved DEF TypeOK
  <1> QED
    BY <1>1, <1>2, <1>3

-----------------------------------------------------------------------------
(* Type correctness.                                                       *)

\* nextSequenceLocked orders residents only.
LEMMA TouchedType ==
    ASSUME TypeOK, NEW R, NEW b \in R
    PROVE  Touched(b, R) \subseteq R \X R
  <1>1. \A e \in older : e = <<e[1], e[2]>>
    BY DEF TypeOK
  <1> QED
    BY <1>1 DEF Touched

\* What capture wants is a bundle.
LEMMA WantedType ==
    ASSUME TypeOK, NEW p \in Process
    PROVE  Wanted(p) \in Bundle
  BY DEF TypeOK, Wanted

LEMMA InitTypeOK == Init => TypeOK
  BY CacheAssumption DEF Init, TypeOK, Activation, Process

\* Only a process that shares a load can leave it, and only a captured analyzer
\* can be published.
LEMMA SharersCounted ==
    ASSUME TypeOK, ProcessesSound, LoadsSound, NEW p \in Process, pc[p] = "joined"
    PROVE  /\ waitsFor[p] \in Bundle
           /\ p \in Joined(waitsFor[p])
           /\ waiters[waitsFor[p]] = Cardinality(Joined(waitsFor[p]))
           /\ waiters[waitsFor[p]] > 0
           /\ loading[waitsFor[p]] = "running"
  <1>1. waitsFor[p] \in Bundle
    BY DEF ProcessesSound
  <1>2. p \in Joined(waitsFor[p]) /\ Joined(waitsFor[p]) \subseteq Process
    BY DEF Joined
  <1>3. Cardinality(Joined(waitsFor[p])) > 0
    BY <1>2, ProcessNone, ProcessesFinite
  <1> QED
    BY <1>1, <1>2, <1>3 DEF LoadsSound

LEMMA NextTypeOK == CacheInv /\ [Next]_vars => TypeOK'
  <1> SUFFICES ASSUME CacheInv, [Next]_vars PROVE TypeOK'
    OBVIOUS
  <1>0. TypeOK /\ ProcessesSound /\ LoadsSound
    BY DEF CacheInv
  <1> USE <1>0, CacheAssumption DEF TypeOK, cacheVars, activeVars, callVars
  <1>1. ASSUME NEW p \in Caller, NEW b \in Bundle \cup {NoBundle}, Begin(p, b) PROVE TypeOK'
    BY <1>1 DEF Begin
  <1>2. ASSUME NEW p \in Process, CaptureResident(p) PROVE TypeOK'
    BY <1>2, TouchedType, WantedType DEF CaptureResident
  <1>3. ASSUME NEW p \in Process, CaptureLoading(p) PROVE TypeOK'
    BY <1>3, WantedType DEF CaptureLoading
  <1>4. ASSUME NEW p \in Process, CaptureAbsent(p) PROVE TypeOK'
    BY <1>4, WantedType DEF CaptureAbsent
  <1>5. ASSUME NEW p \in Process, ContextEnds(p) PROVE TypeOK'
    BY <1>5 DEF ContextEnds
  <1>6. ASSUME NEW p \in Process, GiveUp(p) PROVE TypeOK'
    <2>1. pc[p] = "joined" => waitsFor[p] \in Bundle /\ waiters[waitsFor[p]] > 0
      BY SharersCounted
    <2>2. waiters' \in [Bundle -> Nat]
      BY <1>6, <2>1 DEF GiveUp
    <2>3. loading' \in [Bundle -> {"none", "running", "cancelled"}]
      BY <1>6, <2>1 DEF GiveUp
    <2> QED
      BY <1>6, <2>2, <2>3 DEF GiveUp
  <1>7. ASSUME NEW b \in Bundle, LoadSucceeds(b) PROVE TypeOK'
    BY <1>7, TouchedType DEF LoadSucceeds
  <1>8. ASSUME NEW b \in Bundle, LoadFails(b) PROVE TypeOK'
    BY <1>8 DEF LoadFails, ReloadFailedAfter
  <1>9. ASSUME NEW p \in Process, Release(p) PROVE TypeOK'
    BY <1>9, TouchedType DEF Release, Wake
  <1>10. ASSUME NEW b \in Bundle, CommitActivation(b) PROVE TypeOK'
    BY <1>10 DEF CommitActivation, Activation
  <1>11. CASE Poll
    BY <1>11 DEF Poll, DesiredBundle, Activation, Process
  <1>12. CASE PollFails
    BY <1>12 DEF PollFails
  <1>13. CASE Publish
    BY <1>13 DEF Publish, Wake, Process, ProcessesSound
  <1>14. CASE UNCHANGED vars
    BY <1>14 DEF vars
  <1> QED
    BY <1>1, <1>2, <1>3, <1>4, <1>5, <1>6, <1>7, <1>8, <1>9, <1>10, <1>11, <1>12,
       <1>13, <1>14 DEF Next

-----------------------------------------------------------------------------
(* Where the processes are.                                                *)

LEMMA InitProcesses == Init => ProcessesSound
  BY CacheAssumption DEF Init, ProcessesSound

LEMMA NextProcesses == CacheInv /\ [Next]_vars => ProcessesSound'
  <1> SUFFICES ASSUME CacheInv, [Next]_vars PROVE ProcessesSound'
    OBVIOUS
  <1>0. TypeOK /\ ProcessesSound
    BY DEF CacheInv
  <1> USE <1>0, CacheAssumption DEF ProcessesSound, TypeOK, cacheVars, activeVars, callVars
  <1>1. ASSUME NEW p \in Caller, NEW b \in Bundle \cup {NoBundle}, Begin(p, b)
        PROVE  ProcessesSound'
    BY <1>1 DEF Begin, Process
  <1>2. ASSUME NEW p \in Process, CaptureResident(p) PROVE ProcessesSound'
    BY <1>2 DEF CaptureResident
  <1>3. ASSUME NEW p \in Process, CaptureLoading(p) PROVE ProcessesSound'
    BY <1>3, WantedType DEF CaptureLoading
  <1>4. ASSUME NEW p \in Process, CaptureAbsent(p) PROVE ProcessesSound'
    BY <1>4, WantedType DEF CaptureAbsent
  <1>5. ASSUME NEW p \in Process, ContextEnds(p) PROVE ProcessesSound'
    BY <1>5 DEF ContextEnds
  <1>6. ASSUME NEW p \in Process, GiveUp(p) PROVE ProcessesSound'
    BY <1>6 DEF GiveUp
  <1>7. ASSUME NEW b \in Bundle, LoadSucceeds(b) PROVE ProcessesSound'
    BY <1>7 DEF LoadSucceeds, Sleepers
  <1>8. ASSUME NEW b \in Bundle, LoadFails(b) PROVE ProcessesSound'
    BY <1>8 DEF LoadFails, Sleepers
  <1>9. ASSUME NEW p \in Process, Release(p) PROVE ProcessesSound'
    BY <1>9 DEF Release, Wake
  <1>10. ASSUME NEW b \in Bundle, CommitActivation(b) PROVE ProcessesSound'
    BY <1>10 DEF CommitActivation
  <1>11. CASE Poll
    BY <1>11 DEF Poll, Process
  <1>12. CASE PollFails
    BY <1>12 DEF PollFails
  <1>13. CASE Publish
    BY <1>13 DEF Publish, Wake
  <1>14. CASE UNCHANGED vars
    BY <1>14 DEF vars
  <1> QED
    BY <1>1, <1>2, <1>3, <1>4, <1>5, <1>6, <1>7, <1>8, <1>9, <1>10, <1>11, <1>12,
       <1>13, <1>14 DEF Next

-----------------------------------------------------------------------------
(* Loads and the callers that share them.                                  *)

\* A step that neither moves a caller into or out of a shared load nor touches
\* a load keeps the counts.
LEMMA LoadsKept ==
    ASSUME LoadsSound, waiters' = waiters, loading' = loading,
           \A b \in Bundle : Joined(b)' = Joined(b)
    PROVE  LoadsSound'
  BY DEF LoadsSound

LEMMA InitLoads == Init => LoadsSound
  <1> SUFFICES ASSUME Init PROVE LoadsSound
    OBVIOUS
  <1>1. \A b \in Bundle : Joined(b) = {}
    BY DEF Init, Joined
  <1> QED
    BY <1>1, FS_EmptySet DEF Init, LoadsSound

LEMMA NextLoads == CacheInv /\ [Next]_vars => LoadsSound'
  <1> SUFFICES ASSUME CacheInv, [Next]_vars PROVE LoadsSound'
    OBVIOUS
  <1>0. TypeOK /\ ProcessesSound /\ LoadsSound
    BY DEF CacheInv
  <1> USE <1>0, CacheAssumption DEF TypeOK, cacheVars, activeVars, callVars
  <1> DEFINE SameJoined == \A b \in Bundle : Joined(b)' = Joined(b)
  <1>a. \A b \in Bundle : Joined(b) \subseteq Process
    BY DEF Joined
  <1>1. ASSUME NEW p \in Caller, NEW b \in Bundle \cup {NoBundle}, Begin(p, b)
        PROVE  LoadsSound'
    <2>1. SameJoined
      BY <1>1 DEF Begin, Joined, Process
    <2> QED
      BY <1>1, <2>1, LoadsKept DEF Begin
  <1>2. ASSUME NEW p \in Process, CaptureResident(p) PROVE LoadsSound'
    <2>1. SameJoined
      BY <1>2 DEF CaptureResident, Joined
    <2> QED
      BY <1>2, <2>1, LoadsKept DEF CaptureResident
  <1>3. ASSUME NEW p \in Process, CaptureLoading(p) PROVE LoadsSound'
    <2>1. PICK b \in Bundle : b = Wanted(p)
      BY WantedType
    <2>2. CASE ~Joinable(b)
      <3>1. SameJoined
        BY <1>3, <2>1, <2>2 DEF CaptureLoading, Joined
      <3> QED
        BY <1>3, <2>1, <2>2, <3>1, LoadsKept DEF CaptureLoading
    <2>3. CASE Joinable(b)
      <3>1. p \notin Joined(b) /\ Joined(b)' = Joined(b) \cup {p}
        BY <1>3, <2>1, <2>3 DEF CaptureLoading, Joined
      <3>2. \A c \in Bundle \ {b} : Joined(c)' = Joined(c)
        BY <1>3, <2>1, <2>3 DEF CaptureLoading, Joined
      <3>3. Cardinality(Joined(b)') = Cardinality(Joined(b)) + 1
        BY <1>a, <2>1, <3>1, ProcessAdded
      <3>4. waiters' = [waiters EXCEPT ![b] = @ + 1] /\ loading' = loading
        BY <1>3, <2>1, <2>3 DEF CaptureLoading
      <3>5. ASSUME NEW c \in Bundle
            PROVE  /\ waiters'[c] = Cardinality(Joined(c)')
                   /\ waiters'[c] > 0 => loading'[c] = "running"
        BY <2>1, <2>3, <3>2, <3>3, <3>4 DEF LoadsSound, Joinable
      <3> QED
        BY <3>5 DEF LoadsSound
    <2> QED
      BY <2>2, <2>3
  <1>4. ASSUME NEW p \in Process, CaptureAbsent(p) PROVE LoadsSound'
    <2>1. PICK b \in Bundle : b = Wanted(p)
      BY WantedType
    <2>2. CASE UNCHANGED cacheVars /\ pc' = [pc EXCEPT ![p] = "full"]
      <3>1. SameJoined
        BY <1>4, <2>2 DEF CaptureAbsent, Joined
      <3> QED
        BY <2>2, <3>1, LoadsKept
    <2>3. CASE /\ loading' = [loading EXCEPT ![b] = "running"]
               /\ waiters' = [waiters EXCEPT ![b] = 1]
               /\ pc' = [pc EXCEPT ![p] = "joined"]
      <3>0. waiters[b] = 0
        BY <1>4, <2>1 DEF CaptureAbsent, LoadsSound
      <3>1. p \notin Joined(b) /\ Joined(b)' = Joined(b) \cup {p}
        BY <1>4, <2>1, <2>3 DEF CaptureAbsent, Joined
      <3>2. \A c \in Bundle \ {b} : Joined(c)' = Joined(c)
        BY <1>4, <2>1, <2>3 DEF CaptureAbsent, Joined
      <3>3. Cardinality(Joined(b)') = Cardinality(Joined(b)) + 1
        BY <1>a, <2>1, <3>1, ProcessAdded
      <3>4. ASSUME NEW c \in Bundle
            PROVE  /\ waiters'[c] = Cardinality(Joined(c)')
                   /\ waiters'[c] > 0 => loading'[c] = "running"
        BY <2>1, <2>3, <3>0, <3>2, <3>3 DEF LoadsSound
      <3> QED
        BY <3>4 DEF LoadsSound
    <2> QED
      BY <1>4, <2>1, <2>2, <2>3 DEF CaptureAbsent
  <1>5. ASSUME NEW p \in Process, ContextEnds(p) PROVE LoadsSound'
    <2>1. SameJoined
      BY <1>5 DEF ContextEnds, Joined
    <2> QED
      BY <1>5, <2>1, LoadsKept DEF ContextEnds
  <1>6. ASSUME NEW p \in Process, GiveUp(p) PROVE LoadsSound'
    <2>1. CASE pc[p] # "joined"
      <3>1. SameJoined
        BY <1>6, <2>1 DEF GiveUp, Joined
      <3> QED
        BY <1>6, <2>1, <3>1, LoadsKept DEF GiveUp
    <2>2. CASE pc[p] = "joined"
      <3>0. PICK b \in Bundle : /\ b = waitsFor[p] /\ p \in Joined(b)
                                /\ waiters[b] > 0 /\ loading[b] = "running"
        BY <2>2, SharersCounted
      <3>1. Joined(b)' = Joined(b) \ {p}
        BY <1>6, <2>2, <3>0 DEF GiveUp, Joined
      <3>2. \A c \in Bundle \ {b} : Joined(c)' = Joined(c)
        BY <1>6, <2>2, <3>0 DEF GiveUp, Joined
      <3>3. Cardinality(Joined(b)') = Cardinality(Joined(b)) - 1
        BY <1>a, <3>0, <3>1, ProcessRemoved
      <3>4. /\ waiters' = [waiters EXCEPT ![b] = @ - 1]
            /\ loading' = IF waiters[b] = 1 THEN [loading EXCEPT ![b] = "cancelled"]
                                            ELSE loading
        BY <1>6, <2>2, <3>0 DEF GiveUp, Abandoned
      <3>5. ASSUME NEW c \in Bundle
            PROVE  /\ waiters'[c] = Cardinality(Joined(c)')
                   /\ waiters'[c] > 0 => loading'[c] = "running"
        BY <3>0, <3>2, <3>3, <3>4 DEF LoadsSound
      <3> QED
        BY <3>5 DEF LoadsSound
    <2> QED
      BY <2>1, <2>2
  <1>7. ASSUME NEW b \in Bundle, LoadSucceeds(b) PROVE LoadsSound'
    <2>1. \A c \in Bundle : Joined(c)' = IF c = b THEN {} ELSE Joined(c)
      BY <1>7 DEF LoadSucceeds, Joined, Sleepers
    <2>2. /\ waiters' = [waiters EXCEPT ![b] = 0]
          /\ loading' = [loading EXCEPT ![b] = "none"]
      BY <1>7 DEF LoadSucceeds
    <2>3. ASSUME NEW c \in Bundle
          PROVE  /\ waiters'[c] = Cardinality(Joined(c)')
                 /\ waiters'[c] > 0 => loading'[c] = "running"
      <3>1. CASE c = b
        BY <2>1, <2>2, <3>1, FS_EmptySet
      <3>2. CASE c # b
        BY <2>1, <2>2, <3>2 DEF LoadsSound
      <3> QED
        BY <3>1, <3>2
    <2> QED
      BY <2>3 DEF LoadsSound
  <1>8. ASSUME NEW b \in Bundle, LoadFails(b) PROVE LoadsSound'
    <2>1. \A c \in Bundle : Joined(c)' = IF c = b THEN {} ELSE Joined(c)
      BY <1>8 DEF LoadFails, Joined, Sleepers
    <2>2. /\ waiters' = [waiters EXCEPT ![b] = 0]
          /\ loading' = [loading EXCEPT ![b] = "none"]
      BY <1>8 DEF LoadFails
    <2>3. ASSUME NEW c \in Bundle
          PROVE  /\ waiters'[c] = Cardinality(Joined(c)')
                 /\ waiters'[c] > 0 => loading'[c] = "running"
      <3>1. CASE c = b
        BY <2>1, <2>2, <3>1, FS_EmptySet
      <3>2. CASE c # b
        BY <2>1, <2>2, <3>2 DEF LoadsSound
      <3> QED
        BY <3>1, <3>2
    <2> QED
      BY <2>3 DEF LoadsSound
  <1>9. ASSUME NEW p \in Process, Release(p) PROVE LoadsSound'
    <2>1. SameJoined
      BY <1>9 DEF Release, Joined, Wake
    <2> QED
      BY <1>9, <2>1, LoadsKept DEF Release
  <1>10. ASSUME NEW b \in Bundle, CommitActivation(b) PROVE LoadsSound'
    <2>1. SameJoined
      BY <1>10 DEF CommitActivation, Joined
    <2> QED
      BY <1>10, <2>1, LoadsKept DEF CommitActivation
  <1>11. CASE Poll
    <2>1. SameJoined
      BY <1>11 DEF Poll, Joined, Process
    <2> QED
      BY <1>11, <2>1, LoadsKept DEF Poll
  <1>12. CASE PollFails
    <2>1. SameJoined
      BY <1>12 DEF PollFails, Joined
    <2> QED
      BY <1>12, <2>1, LoadsKept DEF PollFails
  <1>13. CASE Publish
    <2>1. SameJoined
      BY <1>13 DEF Publish, Joined, Wake
    <2> QED
      BY <1>13, <2>1, LoadsKept DEF Publish
  <1>14. CASE UNCHANGED vars
    <2>1. SameJoined
      BY <1>14 DEF vars, Joined
    <2> QED
      BY <1>14, <2>1, LoadsKept DEF vars
  <1> QED
    BY <1>1, <1>2, <1>3, <1>4, <1>5, <1>6, <1>7, <1>8, <1>9, <1>10, <1>11, <1>12,
       <1>13, <1>14 DEF Next

-----------------------------------------------------------------------------
(* Room, captures and the active analyzer.                                 *)

\* The parts of ProtectedStayResident.
WithinCapacity == Occupied <= Capacity

ReferencesExact == \A b \in Bundle : references[b] = Cardinality(Holders(b))

CapturedResident == \A b \in Bundle : references[b] > 0 => b \in residents

LEMMA ProtectedParts ==
    ProtectedStayResident <=> /\ WithinCapacity
                              /\ active \in residents
                              /\ ReferencesExact
                              /\ CapturedResident
  BY DEF ProtectedStayResident, WithinCapacity, ReferencesExact, CapturedResident, Holders

\* What the steps do to residents, loads and captures, apart from everything
\* else.

\* No analyzer comes, goes, or is captured or released; a load may be given up.
Still ==
    /\ residents' = residents /\ references' = references /\ active' = active
    /\ Loads' = Loads
    /\ held' = held

\* p captures the resident b.
Captures(p, b) ==
    /\ b \in residents /\ held[p] \notin Bundle
    /\ references' = [references EXCEPT ![b] = @ + 1]
    /\ held' = [held EXCEPT ![p] = b]
    /\ residents' = residents /\ active' = active /\ Loads' = Loads

\* p releases b.
Releases(p, b) ==
    /\ held[p] = b
    /\ references' = [references EXCEPT ![b] = @ - 1]
    /\ held' = [held EXCEPT ![p] = NoBundle]
    /\ residents' = residents /\ active' = active /\ Loads' = Loads

\* A load of b starts once V is evicted.
Starts(b, V) ==
    /\ V \in Victims /\ Room(V)
    /\ b \in Bundle \ (residents \cup Loads)
    /\ residents' = residents \ V
    /\ Loads' = Loads \cup {b}
    /\ references' = references /\ held' = held /\ active' = active

\* The load of b ends, and its analyzer becomes resident or not.
Ends(b) ==
    /\ b \in Loads
    /\ Loads' = Loads \ {b}
    /\ \/ residents' = residents \cup {b} /\ references' = [references EXCEPT ![b] = 0]
       \/ residents' = residents /\ references' = references
    /\ held' = held /\ active' = active

\* The reload loop makes the analyzer it has captured the active one.
Activates ==
    /\ held[Reloader] \in Bundle
    /\ active' = held[Reloader]
    /\ residents' = residents /\ references' = references /\ Loads' = Loads
    /\ held' = held

\* Every step of the cache is one of these six.
LEMMA StepCases ==
    ASSUME CacheInv, [Next]_vars
    PROVE  \/ Still
           \/ \E p \in Process, b \in Bundle : Captures(p, b) \/ Releases(p, b)
           \/ \E b \in Bundle, V \in Victims : Starts(b, V)
           \/ \E b \in Bundle : Ends(b)
           \/ Activates
  <1> DEFINE Goal == \/ Still
                     \/ \E p \in Process, b \in Bundle : Captures(p, b) \/ Releases(p, b)
                     \/ \E b \in Bundle, V \in Victims : Starts(b, V)
                     \/ \E b \in Bundle : Ends(b)
                     \/ Activates
  <1> SUFFICES Goal
    OBVIOUS
  <1>0. TypeOK /\ ProcessesSound /\ LoadsSound /\ ReferencesExact /\ CapturedResident
    BY ProtectedParts DEF CacheInv
  <1> USE <1>0, CacheAssumption DEF TypeOK, cacheVars, activeVars, callVars
  <1>1. ASSUME NEW p \in Caller, NEW b \in Bundle \cup {NoBundle}, Begin(p, b) PROVE Still
    BY <1>1 DEF Begin, Still, Loads
  <1>2. ASSUME NEW p \in Process, CaptureResident(p)
        PROVE  \E b \in Bundle : Captures(p, b)
    <2>1. PICK b \in Bundle : b = Wanted(p)
      BY WantedType
    <2>2. Captures(p, b)
      BY <1>2, <2>1 DEF CaptureResident, Captures, Loads, ProcessesSound
    <2> QED
      BY <2>2
  <1>3. ASSUME NEW p \in Process, CaptureLoading(p) PROVE Still
    BY <1>3 DEF CaptureLoading, Still, Loads
  <1>4. ASSUME NEW p \in Process, CaptureAbsent(p)
        PROVE  Still \/ \E b \in Bundle, V \in Victims : Starts(b, V)
    <2>1. PICK b \in Bundle : b = Wanted(p)
      BY WantedType
    <2>2. CASE UNCHANGED cacheVars
      BY <1>4, <2>2 DEF CaptureAbsent, Still, Loads
    <2>3. ASSUME NEW V \in Victims, Room(V), residents' = residents \ V,
                 loading' = [loading EXCEPT ![b] = "running"], UNCHANGED references
          PROVE  Starts(b, V)
      BY <1>4, <2>1, <2>3 DEF CaptureAbsent, Starts, Loads
    <2> QED
      BY <1>4, <2>1, <2>2, <2>3 DEF CaptureAbsent
  <1>5. ASSUME NEW p \in Process, ContextEnds(p) PROVE Still
    BY <1>5 DEF ContextEnds, Still, Loads
  <1>6. ASSUME NEW p \in Process, GiveUp(p) PROVE Still
    <2>1. pc[p] = "joined" => loading[waitsFor[p]] = "running"
      BY SharersCounted
    <2>2. Loads' = Loads
      BY <1>6, <2>1 DEF GiveUp, Loads
    <2> QED
      BY <1>6, <2>2 DEF GiveUp, Still
  <1>7. ASSUME NEW b \in Bundle, LoadSucceeds(b) PROVE Ends(b)
    BY <1>7 DEF LoadSucceeds, Ends, Loads
  <1>8. ASSUME NEW b \in Bundle, LoadFails(b) PROVE Ends(b)
    BY <1>8 DEF LoadFails, Ends, Loads
  <1>9. ASSUME NEW p \in Process, Release(p) PROVE \E b \in Bundle : Releases(p, b)
    <2>1. PICK b \in Bundle : b = held[p]
      BY <1>9 DEF Release, ProcessesSound
    <2>2. p \in Holders(b) /\ Holders(b) \subseteq Process
      BY <2>1 DEF Holders
    <2>3. references[b] > 0
      BY <2>2, ProcessNone, ProcessesFinite DEF ReferencesExact
    <2>4. b \in residents
      BY <2>3 DEF CapturedResident
    <2>5. Releases(p, b)
      BY <1>9, <2>1, <2>3, <2>4 DEF Release, Releases, Loads
    <2> QED
      BY <2>5
  <1>10. ASSUME NEW b \in Bundle, CommitActivation(b) PROVE Still
    BY <1>10 DEF CommitActivation, Still, Loads
  <1>11. CASE Poll
    BY <1>11 DEF Poll, Still, Loads
  <1>12. CASE PollFails
    BY <1>12 DEF PollFails, Still, Loads
  <1>13. CASE Publish
    BY <1>13 DEF Publish, Activates, Loads, ProcessesSound, Process
  <1>14. CASE UNCHANGED vars
    BY <1>14 DEF vars, Still, Loads
  <1> QED
    BY <1>1, <1>2, <1>3, <1>4, <1>5, <1>6, <1>7, <1>8, <1>9, <1>10, <1>11, <1>12,
       <1>13, <1>14 DEF Next

LEMMA InitRoom == Init => LoadsAbsent /\ ProtectedStayResident
  <1> SUFFICES ASSUME Init PROVE LoadsAbsent /\ ProtectedStayResident
    OBVIOUS
  <1> USE CacheAssumption DEF Init
  <1>1. Loads = {} /\ Cardinality(Loads) = 0
    BY FS_EmptySet DEF Loads
  <1>2. Cardinality(residents) = 1
    BY FS_Singleton
  <1>3. \A b \in Bundle : Holders(b) = {}
    BY DEF Holders
  <1>4. ReferencesExact /\ CapturedResident
    BY <1>3, FS_EmptySet DEF ReferencesExact, CapturedResident
  <1>5. WithinCapacity /\ active \in residents
    BY <1>1, <1>2 DEF WithinCapacity, Occupied
  <1> QED
    BY <1>1, <1>4, <1>5, ProtectedParts DEF LoadsAbsent

LEMMA NextRoom == CacheInv /\ [Next]_vars => LoadsAbsent' /\ ProtectedStayResident'
  <1> SUFFICES ASSUME CacheInv, [Next]_vars PROVE LoadsAbsent' /\ ProtectedStayResident'
    OBVIOUS
  <1>0. /\ TypeOK /\ ProcessesSound /\ LoadsAbsent
        /\ WithinCapacity /\ active \in residents /\ ReferencesExact /\ CapturedResident
    BY ProtectedParts DEF CacheInv
  <1> DEFINE Goal == LoadsAbsent' /\ WithinCapacity' /\ (active \in residents)'
                     /\ ReferencesExact' /\ CapturedResident'
  <1>a. SUFFICES Goal
    BY ProtectedParts, PTL
  <1>b. /\ residents \subseteq Bundle /\ Loads \subseteq Bundle
        /\ Cardinality(residents) \in Nat /\ Cardinality(Loads) \in Nat
    BY <1>0, BundlesFinite DEF TypeOK, Loads
  <1>c. \A b \in Bundle : Holders(b) \subseteq Process /\ Cardinality(Holders(b)) \in Nat
    BY ProcessesFinite DEF Holders
  <1> USE CacheAssumption DEF TypeOK
  <1>1. CASE Still
    <2>1. \A b \in Bundle : Holders(b)' = Holders(b)
      BY <1>1 DEF Still, Holders
    <2> QED
      BY <1>0, <1>1, <2>1
      DEF Still, LoadsAbsent, WithinCapacity, Occupied, ReferencesExact, CapturedResident
  <1>2. ASSUME NEW p \in Process, NEW b \in Bundle, Captures(p, b) PROVE Goal
    <2>1. p \notin Holders(b) /\ Holders(b)' = Holders(b) \cup {p}
      BY <1>0, <1>2 DEF Captures, Holders
    <2>2. \A c \in Bundle \ {b} : Holders(c)' = Holders(c)
      BY <1>0, <1>2 DEF Captures, Holders
    <2>3. Cardinality(Holders(b)') = Cardinality(Holders(b)) + 1
      BY <1>c, <2>1, ProcessAdded
    <2>4. ReferencesExact'
      BY <1>0, <1>2, <2>2, <2>3 DEF Captures, ReferencesExact
    <2>5. CapturedResident'
      BY <1>0, <1>2 DEF Captures, CapturedResident
    <2> QED
      BY <1>0, <1>2, <2>4, <2>5 DEF Captures, LoadsAbsent, WithinCapacity, Occupied
  <1>3. ASSUME NEW p \in Process, NEW b \in Bundle, Releases(p, b) PROVE Goal
    <2>1. p \in Holders(b) /\ Holders(b)' = Holders(b) \ {p}
      BY <1>0, <1>3 DEF Releases, Holders
    <2>2. \A c \in Bundle \ {b} : Holders(c)' = Holders(c)
      BY <1>0, <1>3 DEF Releases, Holders
    <2>3. Cardinality(Holders(b)') = Cardinality(Holders(b)) - 1
      BY <1>c, <2>1, ProcessRemoved
    <2>4. ReferencesExact'
      BY <1>0, <1>3, <2>2, <2>3 DEF Releases, ReferencesExact
    <2>5. CapturedResident'
      BY <1>0, <1>3 DEF Releases, CapturedResident
    <2> QED
      BY <1>0, <1>3, <2>4, <2>5 DEF Releases, LoadsAbsent, WithinCapacity, Occupied
  <1>4. ASSUME NEW b \in Bundle, NEW V \in Victims, Starts(b, V) PROVE Goal
    <2>1. /\ V \subseteq Evictable
          /\ Cardinality(residents \ V) = Cardinality(residents) - Cardinality(V)
          /\ Cardinality(V) \in Nat
      BY <1>0, <1>b, VictimsEvictable, BundlesFinite DEF Evictable
    <2>2. Cardinality(Loads \cup {b}) = Cardinality(Loads) + 1
      BY <1>4, <1>b, BundleAdded DEF Starts
    <2>3. WithinCapacity'
      BY <1>4, <1>b, <2>1, <2>2 DEF Starts, Room, WithinCapacity, Occupied
    <2>4. \A c \in Bundle : Holders(c)' = Holders(c)
      BY <1>4 DEF Starts, Holders
    <2>5. ReferencesExact'
      BY <1>0, <1>4, <2>4 DEF Starts, ReferencesExact
    <2>6. CapturedResident' /\ (active \in residents)'
      BY <1>0, <1>4, <2>1 DEF Starts, CapturedResident, Evictable
    <2>7. LoadsAbsent'
      BY <1>0, <1>4 DEF Starts, LoadsAbsent
    <2> QED
      BY <2>3, <2>5, <2>6, <2>7
  <1>5. ASSUME NEW b \in Bundle, Ends(b) PROVE Goal
    <2>1. b \notin residents
      BY <1>0, <1>5 DEF Ends, LoadsAbsent
    <2>2. references[b] = 0
      BY <1>0, <2>1 DEF CapturedResident
    <2>3. Cardinality(Loads \ {b}) = Cardinality(Loads) - 1
      BY <1>5, <1>b, BundleRemoved DEF Ends
    <2>4. Cardinality(residents \cup {b}) = Cardinality(residents) + 1
      BY <1>b, <2>1, BundleAdded
    <2>5. WithinCapacity'
      <3>1. Cardinality(residents') \in {Cardinality(residents), Cardinality(residents) + 1}
        BY <1>5, <2>4 DEF Ends
      <3>2. Cardinality(Loads') = Cardinality(Loads) - 1
        BY <1>5, <2>3 DEF Ends
      <3>3. Occupied' = Cardinality(residents') + Cardinality(Loads')
        BY DEF Occupied
      <3> QED
        BY <1>0, <1>b, <3>1, <3>2, <3>3 DEF WithinCapacity, Occupied
    <2>6. references' = references
      BY <1>0, <1>5, <2>2 DEF Ends
    <2>7. \A c \in Bundle : Holders(c)' = Holders(c)
      BY <1>5 DEF Ends, Holders
    <2>8. ReferencesExact' /\ CapturedResident'
      BY <1>0, <1>5, <2>6, <2>7 DEF Ends, ReferencesExact, CapturedResident
    <2>9. LoadsAbsent' /\ (active \in residents)'
      BY <1>0, <1>5 DEF Ends, LoadsAbsent
    <2> QED
      BY <2>5, <2>8, <2>9
  <1>6. CASE Activates
    <2>1. Reloader \in Holders(held[Reloader]) /\ held[Reloader] \in Bundle
      BY <1>6 DEF Activates, Holders, Process
    <2>2. references[held[Reloader]] > 0
      BY <1>0, <1>c, <2>1, ProcessNone DEF ReferencesExact
    <2>3. (active \in residents)'
      BY <1>0, <1>6, <2>1, <2>2 DEF Activates, CapturedResident
    <2>4. \A c \in Bundle : Holders(c)' = Holders(c)
      BY <1>6 DEF Activates, Holders
    <2> QED
      BY <1>0, <1>6, <2>3, <2>4
      DEF Activates, LoadsAbsent, WithinCapacity, Occupied, ReferencesExact, CapturedResident
  <1> QED
    BY <1>1, <1>2, <1>3, <1>4, <1>5, <1>6, StepCases

-----------------------------------------------------------------------------
(* Theorems.                                                               *)

LEMMA InitCacheInv == Init => CacheInv
  BY InitTypeOK, InitProcesses, InitLoads, InitRoom DEF CacheInv

LEMMA NextCacheInv == CacheInv /\ [Next]_vars => CacheInv'
  BY NextTypeOK, NextProcesses, NextLoads, NextRoom DEF CacheInv

\* The bookkeeping of bundleAnalyzerFactory (CacheInv) holds in every reachable
\* state.
THEOREM CacheInvariant == Spec => []CacheInv
  BY InitCacheInv, NextCacheInv, PTL DEF Spec

\* bundleAnalyzerFactory keeps the active analyzer and every captured one
\* resident, its reference counts are the captures not yet released, and
\* residents and loads in progress never exceed the configured capacity.
THEOREM ProtectedAnalyzersStay == Spec => []ProtectedStayResident
  <1>1. CacheInv => ProtectedStayResident
    BY DEF CacheInv
  <1> QED
    BY <1>1, CacheInvariant, PTL

\* A caller that shares a load in capture shares one nobody has cancelled.
THEOREM SharedLoadsLive == Spec => []SharedLoadUncancelled
  <1>1. CacheInv => SharedLoadUncancelled
    BY SharersCounted DEF CacheInv, SharedLoadUncancelled
  <1> QED
    BY <1>1, CacheInvariant, PTL

\* An analyzer that is active or held by somebody.
InUse(b) == b = active \/ \E p \in Process : held[p] = b

\* The cache drops an analyzer only when it is full, and then one that is not in
\* use and that was used no later than any other such one.
EvictionSpares ==
    [][\A b \in residents \ residents' :
          /\ Occupied = Capacity
          /\ ~InUse(b)
          /\ \A a \in residents : InUse(a) \/ <<a, b>> \notin older]_vars

\* reserveCapacityLocked evicts from a full cache only, and then the analyzer
\* used least recently of those that are neither active nor captured by anyone.
\* The reference counts must be exact for this: Evictable reads the counts, and
\* EvictionSpares speaks of the callers that hold an analyzer.
THEOREM EvictionCorrect == Spec => EvictionSpares
  <1>1. CacheInv /\ [Next]_vars =>
            [\A b \in residents \ residents' :
                 /\ Occupied = Capacity
                 /\ ~InUse(b)
                 /\ \A a \in residents : InUse(a) \/ <<a, b>> \notin older]_vars
    <2> SUFFICES ASSUME CacheInv, [Next]_vars, NEW x \in residents, x \notin residents'
                 PROVE  /\ Occupied = Capacity
                        /\ ~InUse(x)
                        /\ \A a \in residents : InUse(a) \/ <<a, x>> \notin older
      OBVIOUS
    <2>0. /\ TypeOK /\ WithinCapacity /\ ReferencesExact
          /\ residents \subseteq Bundle /\ Loads \subseteq Bundle
      BY ProtectedParts DEF CacheInv, TypeOK, Loads
    <2>1. PICK b \in Bundle, V \in Victims : Starts(b, V)
      BY StepCases DEF Still, Captures, Releases, Ends, Activates
    <2>2. x \in V
      BY <2>1 DEF Starts
    <2>3. ~Room({}) /\ x \in Evictable /\ LeastRecentlyUsed(x)
      BY <2>2 DEF Victims
    <2>4. Occupied = Capacity
      <3>1. Occupied \in Nat /\ Cardinality({}) = 0
        BY <2>0, BundlesFinite, FS_EmptySet DEF Occupied
      <3> QED
        BY <2>0, <2>3, <3>1, CacheAssumption DEF Room, WithinCapacity
    <2>5. \A a \in residents : a \in Evictable <=> ~InUse(a)
      <3> TAKE a \in residents
      <3>1. references[a] = 0 <=> Holders(a) = {}
        BY <2>0, ProcessNone DEF ReferencesExact, Holders
      <3> QED
        BY <3>1 DEF Evictable, InUse, Holders
    <2> QED
      BY <2>3, <2>4, <2>5 DEF LeastRecentlyUsed
  <1> QED
    BY <1>1, CacheInvariant, PTL DEF Spec, EvictionSpares

=============================================================================
