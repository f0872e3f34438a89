---------------------------- MODULE AnalyzerCache ----------------------------
(***************************************************************************)
(* The bounded cache of loaded bundle analyzers in                         *)
(* internal/runtime/service.go (bundleAnalyzerFactory).                    *)
(*                                                                         *)
(* Callers (job workers and API requests) capture the analyzer of a bundle *)
(* and release it.  A bundle that is not resident is loaded by a goroutine *)
(* of its own that all callers of that bundle share; residents and loads   *)
(* together never exceed a capacity, and the least recently used analyzer  *)
(* that is neither active nor captured makes room.  The reload loop is one *)
(* more caller: it captures the generation that PostgreSQL says is desired *)
(* and then makes it the active one.                                       *)
(*                                                                         *)
(* One step is one critical section of f.mu.  A channel a caller sleeps on *)
(* is always read inside the section that decides to sleep, so closing it  *)
(* is modelled by moving every sleeper back to the head of capture's loop. *)
(***************************************************************************)
EXTENDS Integers, FiniteSets

CONSTANTS
    Caller,        \* job workers and API requests
    Reloader,      \* the goroutine of reloadLoop
    Bundle,        \* bundle identities
    NoBundle,      \* a capture of whatever is active; also "holds nothing"
    Capacity,      \* limits.maximum_resident_generations
    MaxGeneration  \* bound on committed activations (state space only)

Process == Caller \cup {Reloader}

ASSUME CacheAssumption ==
    /\ IsFiniteSet(Caller) /\ Reloader \notin Caller
    /\ IsFiniteSet(Bundle) /\ NoBundle \notin Bundle
    /\ Capacity \in Nat \ {0, 1}
    /\ MaxGeneration \in Nat

VARIABLES
    residents,   \* keys of f.residents
    references,  \* residentAnalyzer.references
    older,       \* <<a, b>>: resident a was last used before resident b
    loading,     \* f.loads: "none", "running", or "cancelled" by its last waiter
    waiters,     \* bundleLoad.waiters of the load in f.loads
    active,      \* f.activeBundleID
    loaded,      \* f.loaded: bundle and generation of the active analyzer
    reloadFailed,
    pc,          \* where a process is in capture
    request,     \* the bundle a process asks for
    waitsFor,    \* the bundle a sleeping process needs
    held,        \* the bundle a process has captured
    ended,       \* the process's context has ended
    goal,        \* the activation the reload loop read
    desired      \* the newest committed activation in PostgreSQL

cacheVars == <<residents, references, older, loading, waiters>>
activeVars == <<active, loaded, reloadFailed>>
callVars == <<pc, request, waitsFor, held>>
vars == <<cacheVars, activeVars, callVars, ended, goal, desired>>

Activation == [bundle : Bundle, generation : 0..(MaxGeneration + 1)]

\* The service starts with the desired generation, or with an earlier one
\* when the desired one cannot be loaded.
Init ==
    /\ desired \in {a \in Activation : a.generation = 1}
    /\ loaded \in {desired} \cup {a \in Activation : a.generation = 0}
    /\ active = loaded.bundle
    /\ reloadFailed = (loaded # desired)
    /\ residents = {active}
    /\ references = [b \in Bundle |-> 0]
    /\ older = {}
    /\ loading = [b \in Bundle |-> "none"]
    /\ waiters = [b \in Bundle |-> 0]
    /\ pc = [p \in Process |-> "idle"]
    /\ request = [p \in Process |-> NoBundle]
    /\ waitsFor = [p \in Process |-> NoBundle]
    /\ held = [p \in Process |-> NoBundle]
    /\ ended = [p \in Process |-> FALSE]
    /\ goal = desired

-----------------------------------------------------------------------------
(* Pieces of the critical sections.                                        *)

Loads == {b \in Bundle : loading[b] # "none"}

Occupied == Cardinality(residents) + Cardinality(Loads)

\* Mutant of Evictable: the active analyzer is protected only while captured.
EvictableWhenUnreferenced == {b \in residents : references[b] = 0}

\* Residents that are neither active nor captured.
Evictable == {b \in residents : b # active /\ references[b] = 0}

LeastRecentlyUsed(b) ==
    b \in Evictable /\ \A a \in Evictable : <<a, b>> \notin older

\* nextSequenceLocked stamps b: every other resident was used before it.
Touched(b, R) ==
    {e \in older : e[1] \in R \ {b} /\ e[2] \in R \ {b}} \cup {<<a, b>> : a \in R \ {b}}

\* Capacity is free once the bundles V are evicted.
Room(V) == Occupied - Cardinality(V) < Capacity

\* reserveCapacityLocked.  The cache is never above its capacity, so the loop
\* evicts at most one analyzer.
Victims == IF Room({}) THEN {{}} ELSE {{b} : b \in {x \in Evictable : LeastRecentlyUsed(x)}}

CanReserve == \E V \in Victims : Room(V)

\* Mutant of Wake: a released analyzer wakes nobody.
WakeNobody(P) == [p \in Process |-> IF p \in P THEN "idle" ELSE pc[p]]

\* notifyLocked: callers that wait for capacity try again.  The processes of
\* P have just released what they held.
Wake(P) ==
    [p \in Process |-> IF p \in P THEN "idle" ELSE IF pc[p] = "full" THEN "top" ELSE pc[p]]

Wanted(p) == IF request[p] = NoBundle THEN active ELSE request[p]

-----------------------------------------------------------------------------
(* capture                                                                 *)

\* A caller starts a capture: of its job's bundle or of the active one.
Begin(p, b) ==
    /\ p \in Caller /\ pc[p] = "idle"
    /\ pc' = [pc EXCEPT ![p] = "top"]
    /\ request' = [request EXCEPT ![p] = b]
    /\ ended' = [ended EXCEPT ![p] = FALSE]
    /\ UNCHANGED <<cacheVars, activeVars, waitsFor, held, goal, desired>>

\* The bundle is resident.
CaptureResident(p) ==
    LET b == Wanted(p) IN
    /\ pc[p] = "top"
    /\ b \in residents
    /\ references' = [references EXCEPT ![b] = @ + 1]
    /\ older' = Touched(b, residents)
    /\ pc' = [pc EXCEPT ![p] = "holding"]
    /\ held' = [held EXCEPT ![p] = b]
    /\ waitsFor' = [waitsFor EXCEPT ![p] = NoBundle]
    /\ UNCHANGED <<residents, loading, waiters, activeVars, request, ended, goal, desired>>

\* Mutant of Joinable: callers join a load whose last waiter has left.
JoinableAlways(b) == TRUE

\* A load that still has a waiter is not cancelled and may be shared.
Joinable(b) == waiters[b] > 0

\* The bundle is being loaded: share the load, or wait until a load that was
\* abandoned is out of the way.
CaptureLoading(p) ==
    LET b == Wanted(p) IN
    /\ pc[p] = "top"
    /\ b \notin residents
    /\ loading[b] # "none"
    /\ waiters' = IF Joinable(b) THEN [waiters EXCEPT ![b] = @ + 1] ELSE waiters
    /\ pc' = [pc EXCEPT ![p] = IF Joinable(b) THEN "joined" ELSE "shunned"]
    /\ waitsFor' = [waitsFor EXCEPT ![p] = b]
    /\ UNCHANGED <<residents, references, older, loading, activeVars, request, held,
                   ended, goal, desired>>

\* The bundle is neither resident nor being loaded: make room and start a
\* load, or wait for capacity.
CaptureAbsent(p) ==
    LET b == Wanted(p) IN
    /\ pc[p] = "top"
    /\ b \notin residents
    /\ loading[b] = "none"
    /\ waitsFor' = [waitsFor EXCEPT ![p] = b]
    /\ \/ \E V \in Victims :
             /\ Room(V)
             /\ residents' = residents \ V
             /\ older' = {e \in older : e[1] \notin V /\ e[2] \notin V}
             /\ loading' = [loading EXCEPT ![b] = "running"]
             /\ waiters' = [waiters EXCEPT ![b] = 1]
             /\ pc' = [pc EXCEPT ![p] = "joined"]
             /\ UNCHANGED references
       \/ /\ ~CanReserve
          /\ pc' = [pc EXCEPT ![p] = "full"]
          /\ UNCHANGED cacheVars
    /\ UNCHANGED <<activeVars, request, held, ended, goal, desired>>

\* The caller's context ends; the reload loop's does when the service stops.
ContextEnds(p) ==
    /\ ~ended[p]
    /\ p = Reloader \/ pc[p] \notin {"idle", "holding"}
    /\ ended' = [ended EXCEPT ![p] = TRUE]
    /\ UNCHANGED <<cacheVars, activeVars, callVars, goal, desired>>

\* The last waiter of a load cancels it.
Abandoned(b) == waiters[b] = 1

\* A capture whose context has ended gives up, wherever it waits.
GiveUp(p) ==
    LET b == waitsFor[p] IN
    /\ ended[p]
    /\ pc[p] \in {"top", "joined", "shunned", "full"}
    /\ IF pc[p] = "joined"
          THEN /\ waiters' = [waiters EXCEPT ![b] = @ - 1]
               /\ loading' = IF Abandoned(b) THEN [loading EXCEPT ![b] = "cancelled"]
                                             ELSE loading
          ELSE UNCHANGED <<waiters, loading>>
    /\ pc' = [pc EXCEPT ![p] = "idle"]
    /\ waitsFor' = [waitsFor EXCEPT ![p] = NoBundle]
    /\ request' = [request EXCEPT ![p] = NoBundle]
    /\ ended' = [ended EXCEPT ![p] = (p = Reloader)]
    /\ UNCHANGED <<residents, references, older, activeVars, held, goal, desired>>

\* The processes that wait for the load of b to end.
Sleepers(b) == {p \in Process : pc[p] \in {"joined", "shunned"} /\ waitsFor[p] = b}

\* The reload loop's capture failed: the view it has stays in service.
ReloadFailedAfter(failing) ==
    IF Reloader \in failing /\ ~ended[Reloader] THEN loaded # goal ELSE reloadFailed

\* runBundleLoad ends well.  Its last waiter may still leave between the check
\* of the context and the critical section, so a cancelled load can succeed.
LoadSucceeds(b) ==
    /\ loading[b] # "none"
    /\ loading' = [loading EXCEPT ![b] = "none"]
    /\ waiters' = [waiters EXCEPT ![b] = 0]
    /\ residents' = residents \cup {b}
    /\ references' = [references EXCEPT ![b] = 0]
    /\ older' = Touched(b, residents \cup {b})
    /\ pc' = [p \in Process |->
                 IF p \in Sleepers(b) \/ pc[p] = "full" THEN "top" ELSE pc[p]]
    /\ waitsFor' = [p \in Process |->
                 IF p \in Sleepers(b) \/ pc[p] = "full" THEN NoBundle ELSE waitsFor[p]]
    /\ UNCHANGED <<activeVars, request, held, ended, goal, desired>>

\* runBundleLoad ends with an error: every caller that shared the load gets
\* it, those that waited for an abandoned load to go away try again.
LoadFails(b) ==
    LET failing == {p \in Sleepers(b) : pc[p] = "joined"} IN
    /\ loading[b] # "none"
    /\ loading' = [loading EXCEPT ![b] = "none"]
    /\ waiters' = [waiters EXCEPT ![b] = 0]
    /\ reloadFailed' = ReloadFailedAfter(failing)
    /\ pc' = [p \in Process |->
                 IF p \in failing THEN "idle"
                 ELSE IF p \in Sleepers(b) \/ pc[p] = "full" THEN "top" ELSE pc[p]]
    /\ waitsFor' = [p \in Process |->
                 IF p \in Sleepers(b) \/ pc[p] = "full" THEN NoBundle ELSE waitsFor[p]]
    /\ request' = [p \in Process |-> IF p \in failing THEN NoBundle ELSE request[p]]
    /\ UNCHANGED <<residents, references, older, active, loaded, held, ended, goal, desired>>

\* release: guarded the way the code guards it, though a captured analyzer is
\* always resident (ProtectedStayResident).
Release(p) ==
    LET b == held[p]
        counted == b \in residents /\ references[b] > 0
    IN
    /\ pc[p] = "holding"
    /\ p = Reloader => ended[p] \/ loaded = goal
    /\ held' = [held EXCEPT ![p] = NoBundle]
    /\ request' = [request EXCEPT ![p] = NoBundle]
    /\ IF counted
          THEN /\ references' = [references EXCEPT ![b] = @ - 1]
               /\ older' = Touched(b, residents)
               /\ pc' = Wake({p})
               /\ waitsFor' = [q \in Process |-> IF pc[q] = "full" THEN NoBundle ELSE waitsFor[q]]
          ELSE /\ pc' = [pc EXCEPT ![p] = "idle"]
               /\ UNCHANGED <<references, older, waitsFor>>
    /\ UNCHANGED <<residents, loading, waiters, activeVars, ended, goal, desired>>

-----------------------------------------------------------------------------
(* reloadDesired                                                           *)

\* An operator commits another activation (external: the datasets command and
\* CommitBundleActivation).
CommitActivation(b) ==
    /\ desired.generation <= MaxGeneration
    /\ desired' = [bundle |-> b, generation |-> desired.generation + 1]
    /\ UNCHANGED <<cacheVars, activeVars, callVars, ended, goal>>

\* The newest row of bundle_activations.
DesiredBundle == desired

\* Mutant of Poll: a generation whose load failed is not tried again.
PollOnce ==
    /\ pc[Reloader] = "idle" /\ ~ended[Reloader]
    /\ DesiredBundle # loaded /\ DesiredBundle # goal
    /\ goal' = DesiredBundle
    /\ request' = [request EXCEPT ![Reloader] = DesiredBundle.bundle]
    /\ pc' = [pc EXCEPT ![Reloader] = "top"]
    /\ UNCHANGED <<cacheVars, activeVars, waitsFor, held, ended, desired>>

\* The loop reads a desired generation it has not loaded, and its files are
\* published: it starts to capture that bundle.  A poll that finds the loaded
\* generation changes nothing, reloadFailed included: a stuttering step.
Poll ==
    /\ pc[Reloader] = "idle" /\ ~ended[Reloader]
    /\ DesiredBundle # loaded
    /\ goal' = DesiredBundle
    /\ request' = [request EXCEPT ![Reloader] = DesiredBundle.bundle]
    /\ pc' = [pc EXCEPT ![Reloader] = "top"]
    /\ UNCHANGED <<cacheVars, activeVars, waitsFor, held, ended, desired>>

\* The desired generation cannot be read, or its files cannot be reconciled.
PollFails ==
    /\ pc[Reloader] = "idle" /\ ~ended[Reloader]
    /\ reloadFailed' = TRUE
    /\ UNCHANGED <<cacheVars, active, loaded, callVars, ended, goal, desired>>

\* The captured analyzer becomes the active one; the capture is released in a
\* later critical section.
Publish ==
    /\ pc[Reloader] = "holding" /\ ~ended[Reloader] /\ loaded # goal
    /\ active' = held[Reloader]
    /\ loaded' = goal
    /\ reloadFailed' = FALSE
    /\ pc' = Wake({})
    /\ waitsFor' = [q \in Process |-> IF pc[q] = "full" THEN NoBundle ELSE waitsFor[q]]
    /\ UNCHANGED <<cacheVars, request, held, ended, goal, desired>>

-----------------------------------------------------------------------------
Capture(p) == CaptureResident(p) \/ CaptureLoading(p) \/ CaptureAbsent(p)

Next ==
    \/ \E p \in Caller, b \in Bundle \cup {NoBundle} : Begin(p, b)
    \/ \E p \in Process : CaptureResident(p)
    \/ \E p \in Process : CaptureLoading(p)
    \/ \E p \in Process : CaptureAbsent(p)
    \/ \E p \in Process : ContextEnds(p)
    \/ \E p \in Process : GiveUp(p)
    \/ \E b \in Bundle : LoadSucceeds(b)
    \/ \E b \in Bundle : LoadFails(b)
    \/ \E p \in Process : Release(p)
    \/ \E b \in Bundle : CommitActivation(b)
    \/ Poll
    \/ PollFails
    \/ Publish

Spec == Init /\ [][Next]_vars

\* Goroutines keep running, loaders return (they honour their context), and
\* an analysis ends, so its capture is released.  Nothing says that a caller
\* that was woken runs before another caller that wants the same room.
Fairness ==
    /\ \A p \in Process : WF_vars(Capture(p)) /\ WF_vars(GiveUp(p)) /\ WF_vars(Release(p))
    /\ \A b \in Bundle : WF_vars(LoadSucceeds(b) \/ LoadFails(b))
    /\ WF_vars(Poll) /\ WF_vars(Publish)

FairSpec == Spec /\ Fairness

-----------------------------------------------------------------------------
(* Properties.                                                             *)

\* Every variable keeps its type.
TypeOK ==
    /\ residents \subseteq Bundle
    /\ references \in [Bundle -> Nat]
    /\ older \subseteq residents \X residents
    /\ loading \in [Bundle -> {"none", "running", "cancelled"}]
    /\ waiters \in [Bundle -> Nat]
    /\ active \in Bundle
    /\ loaded \in Activation /\ goal \in Activation /\ desired \in Activation
    /\ reloadFailed \in BOOLEAN
    /\ pc \in [Process -> {"idle", "top", "joined", "shunned", "full", "holding"}]
    /\ request \in [Process -> Bundle \cup {NoBundle}]
    /\ waitsFor \in [Process -> Bundle \cup {NoBundle}]
    /\ held \in [Process -> Bundle \cup {NoBundle}]
    /\ ended \in [Process -> BOOLEAN]

\* The active analyzer and every captured one stay resident, and the reference
\* count is the number of captures that were not released: eviction can only
\* hit an analyzer nobody uses, and a release always finds its analyzer.  With
\* all that, residents and loads in progress never exceed the capacity, although
\* a load keeps its slot after every caller has left and turns into a resident.
ProtectedStayResident ==
    /\ Occupied <= Capacity
    /\ active \in residents
    /\ \A b \in Bundle : references[b] = Cardinality({p \in Process : held[p] = b})
    /\ \A b \in Bundle : references[b] > 0 => b \in residents

\* A caller that shares a load shares one that nobody has cancelled: a caller
\* whose own context is alive never fails because another one gave up.
SharedLoadUncancelled ==
    \A p \in Process : pc[p] = "joined" => loading[waitsFor[p]] = "running"

\* The next critical section of p captures, starts or joins a load.
CanProceed(p) ==
    LET b == Wanted(p) IN
    b \in residents \/ (IF loading[b] = "none" THEN CanReserve ELSE Joinable(b))

\* While p is awake but does not hold the lock, another process takes what p
\* was woken for: the room, the load, or the analyzer that was loaded for p.
Overtaken(p) ==
    /\ pc[p] = "top" /\ pc'[p] = "top" /\ ~ended[p]
    /\ \/ CanProceed(p) /\ ~CanProceed(p)'
       \/ Wanted(p) \in residents \ residents'

\* Every capture ends, with an analyzer or an error, even if its own context
\* never does, once there is capacity for it: it waits for ever only if the
\* active and captured analyzers take all the room from some time on, or if it
\* is overtaken again and again (the lock is not fair).
CapturesEnd ==
    \A p \in Process :
        \/ []<><<Overtaken(p)>>_vars
        \/ <>[](~CanProceed(p))
        \/ (pc[p] \in {"top", "joined", "shunned", "full"}) ~> (pc[p] \in {"idle", "holding"})

\* The desired generation cannot be read or loaded, or is overtaken.
ReloadDisturbed ==
    \/ PollFails
    \/ \E b \in Bundle : LoadFails(b)
    \/ Overtaken(Reloader)

\* With activations at an end, the service comes to run the desired generation
\* and stays there, unless it is shut down, disturbed for ever, or never gets
\* the room for a second analyzer.
ReloadConverges ==
    \/ []<><<ReloadDisturbed>>_vars
    \/ <>[](~CanProceed(Reloader))
    \/ <>(ended[Reloader])
    \/ <>[](loaded = desired)

=============================================================================
