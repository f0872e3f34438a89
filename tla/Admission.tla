------------------------------ MODULE Admission ------------------------------
(***************************************************************************)
(* Admission and network permits: internal/policy/budget.go (Controller,   *)
(* execution) and internal/api/admission.go (synchronousGate).             *)
(*                                                                         *)
(* A synchronous API request first takes one of a few waiter slots, then   *)
(* waits for a target permit under a deadline of its own; a job worker or  *)
(* a command waits for the permit directly.  An admitted target runs       *)
(* fetches, its goroutines: each takes a per-target and a process-wide     *)
(* permit, and an HTTP fetch before that passes the gate of its            *)
(* destination, which spaces the starts of requests.                       *)
(*                                                                         *)
(* A Go channel that counts permits is its length.  Lengths and holders    *)
(* are kept apart, so that a permit a path forgets to return is seen.      *)
(***************************************************************************)
EXTENDS Integers, FiniteSets, FiniteSetsExt

CONSTANTS
    Request,      \* requests that want to run a target
    Fetch,        \* goroutines of the targets
    Owner,        \* the request a fetch belongs to
    Kind,         \* "dns" or "http", of a fetch
    Destination,  \* destination keys
    GoesTo,       \* the destination of an HTTP fetch
    Gate,         \* identities of destinationGate objects
    NoGate,
    MaxWaiters, ConcurrentTargets,
    ConcurrentProcess, ConcurrentPerTarget,  \* by kind
    Limit,        \* DNSQuestions and HTTPRequests, by kind
    DocumentBytes, TotalBodyBytes

ASSUME LimitsValid ==
    /\ IsFiniteSet(Request) /\ IsFiniteSet(Fetch)
    /\ Owner \in [Fetch -> Request] /\ Kind \in [Fetch -> {"dns", "http"}]
    /\ GoesTo \in [Fetch -> Destination] /\ NoGate \notin Gate
    /\ {MaxWaiters, ConcurrentTargets, DocumentBytes, TotalBodyBytes} \subseteq Nat \ {0}
    /\ {ConcurrentProcess, ConcurrentPerTarget, Limit} \subseteq [{"dns", "http"} -> Nat \ {0}]

VARIABLES
    synchronous,  \* the requests that come through the synchronous API
    phase,     \* where a request is in begin, Begin and its return
    ended,     \* its contexts that have ended: "parent", "wait", "run"
    slot,      \* it still holds its waiter slot (admissionWait.release)
    admitted,  \* admissionWait.admitted
    fault,     \* the error Analyze is about to return
    outcome,   \* what the caller is told
    waiters,   \* len(synchronousGate.waiters)
    targets,   \* len(Controller.targets)
    loc,       \* where a fetch is in AcquireDNS or AcquireHTTP
    held,      \* the fetch holds its network permits
    left,      \* execution.dnsLeft, httpLeft
    bodyLeft,  \* execution.bodyLeft
    reserved,  \* what a fetch has reserved of it
    retained,  \* bytes a target has kept
    busy,      \* lengths of the per-target channels, by kind
    process,   \* lengths of Controller.dns and http
    gateOf,    \* Controller.destinations
    gate,      \* the gate objects
    at,        \* the gate a fetch has a pointer to
    cooling,   \* destinations started less than one interval ago
    executed   \* requests whose Begin succeeded

requestVars == <<synchronous, phase, slot, admitted, fault, outcome, waiters, targets, executed>>
bodyVars == <<bodyLeft, reserved, retained>>
gateVars == <<gateOf, gate, at, cooling>>
fetchVars == <<loc, held, left, busy, process>>
vars == <<requestVars, ended, bodyVars, gateVars, fetchVars>>

NewGate == [permit |-> 0, references |-> 0, elapsed |-> TRUE]

Init ==
    /\ synchronous \in SUBSET Request
    /\ phase = [r \in Request |-> "new"]
    /\ ended = [r \in Request |-> {}]
    /\ slot = [r \in Request |-> FALSE]
    /\ admitted = [r \in Request |-> FALSE]
    /\ fault = [r \in Request |-> "none"]
    /\ outcome = [r \in Request |-> "none"]
    /\ waiters = 0 /\ targets = 0
    /\ loc = [f \in Fetch |-> "idle"]
    /\ held = [f \in Fetch |-> FALSE]
    /\ left = [r \in Request |-> Limit]
    /\ bodyLeft = [r \in Request |-> TotalBodyBytes]
    /\ reserved = [f \in Fetch |-> 0]
    /\ retained = [r \in Request |-> 0]
    /\ busy = [r \in Request |-> [k \in {"dns", "http"} |-> 0]]
    /\ process = [k \in {"dns", "http"} |-> 0]
    /\ gateOf = [d \in Destination |-> NoGate]
    /\ gate = [g \in Gate |-> NewGate]
    /\ at = [f \in Fetch |-> NoGate]
    /\ cooling = {}
    /\ executed = {}

-----------------------------------------------------------------------------
(* A request: the API's waiter slot, then the target permit.               *)

ParentEnded(r) == "parent" \in ended[r]

\* The context Begin waits under; it is a child of the request's context.
WaitEnded(r) == ended[r] \cap {"parent", "wait"} # {}

\* Only the wait's own deadline ended it: the caller is told to come back.
TimedOut(r) == r \in synchronous /\ "wait" \in ended[r] /\ ~ParentEnded(r)

\* An answered request takes its contexts with it.
Answer(r, told) ==
    /\ phase' = [phase EXCEPT ![r] = "done"]
    /\ outcome' = [outcome EXCEPT ![r] = told]
    /\ fault' = [fault EXCEPT ![r] = "none"]
    /\ ended' = [ended EXCEPT ![r] = {}]

Refuse(r) ==
    /\ r \in synchronous /\ phase[r] = "new"
    /\ waiters = MaxWaiters /\ ~ParentEnded(r)
    /\ Answer(r, "capacity")
    /\ UNCHANGED <<synchronous, slot, admitted, waiters, targets, executed, bodyVars, gateVars, fetchVars>>

CancelEarly(r) ==
    /\ r \in synchronous /\ phase[r] = "new" /\ ParentEnded(r)
    /\ Answer(r, "cancelled")
    /\ UNCHANGED <<synchronous, slot, admitted, waiters, targets, executed, bodyVars, gateVars, fetchVars>>

TakeSlot(r) ==
    /\ r \in synchronous /\ phase[r] = "new" /\ waiters < MaxWaiters
    /\ waiters' = waiters + 1
    /\ slot' = [slot EXCEPT ![r] = TRUE]
    /\ phase' = [phase EXCEPT ![r] = "checking"]
    /\ UNCHANGED <<synchronous, ended, admitted, fault, outcome, targets, executed, bodyVars, gateVars, fetchVars>>

\* The request's context may have ended while select chose the slot.
CheckSlot(r) ==
    /\ phase[r] = "checking"
    /\ IF ParentEnded(r)
       THEN /\ waiters' = waiters - 1
            /\ slot' = [slot EXCEPT ![r] = FALSE]
            /\ Answer(r, "cancelled")
       ELSE /\ phase' = [phase EXCEPT ![r] = "waiting"]
            /\ UNCHANGED <<waiters, slot, outcome, fault, ended>>
    /\ UNCHANGED <<synchronous, admitted, targets, executed, bodyVars, gateVars, fetchVars>>

StartDirectly(r) ==
    /\ r \notin synchronous /\ phase[r] = "new"
    /\ phase' = [phase EXCEPT ![r] = "waiting"]
    /\ UNCHANGED <<synchronous, ended, slot, admitted, fault, outcome, waiters, targets, executed, bodyVars, gateVars, fetchVars>>

\* Analyze refuses the target before it asks for admission.
FailBeforeBegin(r) ==
    /\ phase[r] = "waiting"
    /\ phase' = [phase EXCEPT ![r] = "returning"]
    /\ fault' = [fault EXCEPT ![r] = "failed"]
    /\ UNCHANGED <<synchronous, ended, slot, admitted, outcome, waiters, targets, executed, bodyVars, gateVars, fetchVars>>

BeginFault(r) == IF TimedOut(r) THEN "capacity" ELSE "cancelled"

\* acquirePermit's select finds the context ended.
GiveUp(r) ==
    /\ phase[r] = "waiting" /\ WaitEnded(r)
    /\ phase' = [phase EXCEPT ![r] = "returning"]
    /\ fault' = [fault EXCEPT ![r] = BeginFault(r)]
    /\ UNCHANGED <<synchronous, ended, slot, admitted, outcome, waiters, targets, executed, bodyVars, gateVars, fetchVars>>

\* Mutant: a waiter counts itself among those that already run.
GrantBelowCapacity(r) ==
    /\ phase[r] = "waiting" /\ targets + 1 < ConcurrentTargets
    /\ targets' = targets + 1
    /\ phase' = [phase EXCEPT ![r] = "granted"]
    /\ UNCHANGED <<synchronous, ended, slot, admitted, fault, outcome, waiters, executed, bodyVars, gateVars, fetchVars>>

\* acquirePermit's select sends; the context may have ended meanwhile.
Grant(r) ==
    /\ phase[r] = "waiting" /\ targets < ConcurrentTargets
    /\ targets' = targets + 1
    /\ phase' = [phase EXCEPT ![r] = "granted"]
    /\ UNCHANGED <<synchronous, ended, slot, admitted, fault, outcome, waiters, executed, bodyVars, gateVars, fetchVars>>

\* The rest of Begin: the contexts are looked at again, a permit that came
\* too late goes back, and an admitted request gives up its waiter slot.
Admit(r) ==
    /\ phase[r] = "granted"
    /\ IF WaitEnded(r)
       THEN /\ targets' = targets - 1
            /\ phase' = [phase EXCEPT ![r] = "returning"]
            /\ fault' = [fault EXCEPT ![r] = BeginFault(r)]
            /\ UNCHANGED <<slot, admitted, waiters, executed>>
       ELSE /\ phase' = [phase EXCEPT ![r] = "running"]
            /\ admitted' = [admitted EXCEPT ![r] = r \in synchronous]
            /\ slot' = [slot EXCEPT ![r] = FALSE]
            /\ waiters' = IF slot[r] THEN waiters - 1 ELSE waiters
            /\ executed' = executed \cup {r}
            /\ UNCHANGED <<targets, fault>>
    /\ UNCHANGED <<synchronous, ended, outcome, bodyVars, gateVars, fetchVars>>

\* Analyze returns, with a report or an error; its goroutines have ended and
\* the release function returns the target permit.  Its budgets go with it.
Finish(r) ==
    /\ phase[r] = "running"
    /\ \A f \in Fetch : Owner[f] = r => loc[f] = "idle"
    /\ targets' = targets - 1
    /\ phase' = [phase EXCEPT ![r] = "returning"]
    /\ \E e \in {"none", "failed"} : fault' = [fault EXCEPT ![r] = e]
    /\ left' = [left EXCEPT ![r] = Limit]
    /\ bodyLeft' = [bodyLeft EXCEPT ![r] = TotalBodyBytes]
    /\ retained' = [retained EXCEPT ![r] = 0]
    /\ UNCHANGED <<synchronous, ended, slot, admitted, outcome, waiters, executed, reserved, gateVars, loc, held, busy, process>>

\* Mutant: the deadline of the wait is looked at, the admission is not.
ReportedFaultByDeadline(r) == IF TimedOut(r) THEN "capacity" ELSE fault[r]

\* admissionWait.error: what the caller is told about an error.
ReportedFault(r) ==
    IF ~admitted[r] /\ TimedOut(r) THEN "capacity" ELSE fault[r]

\* The handler answers; its deferred finish returns the slot if it is still held.
Return(r) ==
    /\ phase[r] = "returning"
    /\ Answer(r, IF ReportedFault(r) = "none" THEN "ok" ELSE ReportedFault(r))
    /\ waiters' = IF slot[r] THEN waiters - 1 ELSE waiters
    /\ slot' = [slot EXCEPT ![r] = FALSE]
    /\ UNCHANGED <<synchronous, admitted, targets, executed, bodyVars, gateVars, fetchVars>>

-----------------------------------------------------------------------------
(* A fetch of a running target.                                            *)

\* The execution context: a child of the request's, with the target deadline.
RunEnded(f) == ended[Owner[f]] \cap {"parent", "run"} # {}

HasBudget(f) ==
    phase[Owner[f]] = "running" /\ loc[f] = "idle" /\ left[Owner[f]][Kind[f]] > 0

Spent(f) == [left EXCEPT ![Owner[f]][Kind[f]] = @ - 1]

AcquireDNS(f) ==
    /\ Kind[f] = "dns" /\ HasBudget(f)
    /\ left' = Spent(f)
    /\ loc' = [loc EXCEPT ![f] = "target"]
    /\ UNCHANGED <<requestVars, ended, bodyVars, gateVars, held, busy, process>>

\* Mutant: a gate is forgotten as soon as nobody refers to it.
ForgottenAtOnce(d) == gateOf[d] # NoGate /\ gate[gateOf[d]].references = 0

\* Gates nobody refers to are forgotten once their interval is over.
Forgotten(d) ==
    /\ gateOf[d] # NoGate
    /\ gate[gateOf[d]].references = 0 /\ gate[gateOf[d]].elapsed

\* AcquireHTTP up to the wait for the gate: the budget is spent first, then
\* the gate of the destination is found or made, and referred to.
AcquireHTTP(f) ==
    /\ Kind[f] = "http" /\ HasBudget(f)
    /\ left' = Spent(f)
    /\ LET kept == [d \in Destination |-> IF Forgotten(d) THEN NoGate ELSE gateOf[d]]
           mine == kept[GoesTo[f]]
           unused == {g \in Gate : (\A d \in Destination : kept[d] # g) /\ (\A h \in Fetch : at[h] # g)}
           found == IF mine # NoGate THEN mine ELSE CHOOSE g \in unused : TRUE
           record == IF mine # NoGate THEN gate[mine] ELSE NewGate
       IN  /\ mine # NoGate \/ unused # {}
           /\ gateOf' = [kept EXCEPT ![GoesTo[f]] = found]
           /\ gate' = [gate EXCEPT ![found] = [record EXCEPT !.references = @ + 1]]
           /\ at' = [at EXCEPT ![f] = found]
    /\ loc' = [loc EXCEPT ![f] = "gate"]
    /\ UNCHANGED <<requestVars, ended, bodyVars, cooling, held, busy, process>>

TakeGate(f) ==
    /\ loc[f] = "gate" /\ gate[at[f]].permit = 0 /\ ~RunEnded(f)
    /\ gate' = [gate EXCEPT ![at[f]].permit = 1]
    /\ loc' = [loc EXCEPT ![f] = "spacing"]
    /\ UNCHANGED <<requestVars, ended, bodyVars, gateOf, at, cooling, held, left, busy, process>>

LeaveGate(f) ==
    /\ loc[f] = "gate" /\ RunEnded(f)
    /\ gate' = [gate EXCEPT ![at[f]].references = @ - 1]
    /\ at' = [at EXCEPT ![f] = NoGate]
    /\ loc' = [loc EXCEPT ![f] = "idle"]
    /\ UNCHANGED <<requestVars, ended, bodyVars, gateOf, cooling, held, left, busy, process>>

\* The timer of the interval after the last start through this gate.
Spaced(f) == gate[at[f]].elapsed

WaitInterval(f) ==
    /\ loc[f] = "spacing"
    /\ IF RunEnded(f)
       THEN loc' = [loc EXCEPT ![f] = "unrefer"]
       ELSE Spaced(f) /\ loc' = [loc EXCEPT ![f] = "target"]
    /\ UNCHANGED <<requestVars, ended, bodyVars, gateVars, held, left, busy, process>>

\* Where a fetch goes whose network permits were not granted.
AfterFailure(f) == IF Kind[f] = "http" THEN "unrefer" ELSE "idle"

TakeTarget(f) ==
    /\ loc[f] = "target"
    /\ IF RunEnded(f)
       THEN /\ loc' = [loc EXCEPT ![f] = AfterFailure(f)]
            /\ UNCHANGED busy
       ELSE /\ busy[Owner[f]][Kind[f]] < ConcurrentPerTarget[Kind[f]]
            /\ busy' = [busy EXCEPT ![Owner[f]][Kind[f]] = @ + 1]
            /\ loc' = [loc EXCEPT ![f] = "process"]
    /\ UNCHANGED <<requestVars, ended, bodyVars, gateVars, held, left, process>>

\* Mutant: the per-target permit stays behind when the process permit is not granted.
TakeProcessOrLeak(f) ==
    /\ loc[f] = "process"
    /\ IF RunEnded(f)
       THEN /\ loc' = [loc EXCEPT ![f] = AfterFailure(f)]
            /\ UNCHANGED <<process, held>>
       ELSE /\ process[Kind[f]] < ConcurrentProcess[Kind[f]]
            /\ process' = [process EXCEPT ![Kind[f]] = @ + 1]
            /\ held' = [held EXCEPT ![f] = TRUE]
            /\ loc' = [loc EXCEPT ![f] = IF Kind[f] = "http" THEN "start" ELSE "fetching"]
    /\ UNCHANGED <<requestVars, ended, bodyVars, gateVars, left, busy>>

TakeProcess(f) ==
    /\ loc[f] = "process"
    /\ IF RunEnded(f)
       THEN /\ loc' = [loc EXCEPT ![f] = AfterFailure(f)]
            /\ busy' = [busy EXCEPT ![Owner[f]][Kind[f]] = @ - 1]
            /\ UNCHANGED <<process, held>>
       ELSE /\ process[Kind[f]] < ConcurrentProcess[Kind[f]]
            /\ process' = [process EXCEPT ![Kind[f]] = @ + 1]
            /\ held' = [held EXCEPT ![f] = TRUE]
            /\ loc' = [loc EXCEPT ![f] = IF Kind[f] = "http" THEN "start" ELSE "fetching"]
            /\ UNCHANGED busy
    /\ UNCHANGED <<requestVars, ended, bodyVars, gateVars, left>>

\* lastStart = now; then the deferred calls run: the reference goes first.
Start(f) ==
    /\ loc[f] = "start"
    /\ gate' = [gate EXCEPT ![at[f]].elapsed = FALSE]
    /\ cooling' = cooling \cup {GoesTo[f]}
    /\ loc' = [loc EXCEPT ![f] = "unrefer"]
    /\ UNCHANGED <<requestVars, ended, bodyVars, gateOf, at, held, left, busy, process>>

ReleaseReference(f) ==
    /\ loc[f] = "unrefer"
    /\ gate' = [gate EXCEPT ![at[f]].references = @ - 1]
    /\ loc' = [loc EXCEPT ![f] = "ungate"]
    /\ UNCHANGED <<requestVars, ended, bodyVars, gateOf, at, cooling, held, left, busy, process>>

ReleaseGate(f) ==
    /\ loc[f] = "ungate"
    /\ gate' = [gate EXCEPT ![at[f]].permit = 0]
    /\ at' = [at EXCEPT ![f] = NoGate]
    /\ loc' = [loc EXCEPT ![f] = IF held[f] THEN "fetching" ELSE "idle"]
    /\ UNCHANGED <<requestVars, ended, bodyVars, gateOf, cooling, held, left, busy, process>>

ReservedBody(r) == Min({DocumentBytes, bodyLeft[r]})

\* A document is about to be read: its capacity is set aside.
ReserveHTTPBody(f) ==
    /\ loc[f] = "fetching" /\ Kind[f] = "http"
    /\ reserved' = [reserved EXCEPT ![f] = ReservedBody(Owner[f])]
    /\ bodyLeft' = [bodyLeft EXCEPT ![Owner[f]] = @ - ReservedBody(Owner[f])]
    /\ loc' = [loc EXCEPT ![f] = "reading"]
    /\ UNCHANGED <<requestVars, ended, retained, gateVars, held, left, busy, process>>

\* The commit function: what was not kept of the reservation comes back.
\* The reader may have read one byte past it.
CommitBody(f) ==
    /\ loc[f] = "reading"
    /\ \E read \in 0..(reserved[f] + 1) :
         LET kept == Min({read, reserved[f]})
         IN  /\ bodyLeft' = [bodyLeft EXCEPT ![Owner[f]] = @ + (reserved[f] - kept)]
             /\ retained' = [retained EXCEPT ![Owner[f]] = @ + kept]
    /\ reserved' = [reserved EXCEPT ![f] = 0]
    /\ loc' = [loc EXCEPT ![f] = "fetched"]
    /\ UNCHANGED <<requestVars, ended, gateVars, held, left, busy, process>>

\* The release function of acquireNetwork.
ReleaseNetwork(f) ==
    /\ loc[f] \in {"fetching", "fetched"}
    /\ process' = [process EXCEPT ![Kind[f]] = @ - 1]
    /\ busy' = [busy EXCEPT ![Owner[f]][Kind[f]] = @ - 1]
    /\ held' = [held EXCEPT ![f] = FALSE]
    /\ loc' = [loc EXCEPT ![f] = "idle"]
    /\ UNCHANGED <<requestVars, ended, bodyVars, gateVars, left>>

-----------------------------------------------------------------------------
(* Time and callers.                                                       *)

\* The caller goes away.
EndParent(r) ==
    /\ phase[r] # "done" /\ ~ParentEnded(r)
    /\ ended' = [ended EXCEPT ![r] = @ \cup {"parent"}]
    /\ UNCHANGED <<requestVars, bodyVars, gateVars, fetchVars>>

\* synchronousGate.timeout.
EndWait(r) ==
    /\ r \in synchronous /\ phase[r] \in {"waiting", "granted", "running", "returning"}
    /\ "wait" \notin ended[r]
    /\ ended' = [ended EXCEPT ![r] = @ \cup {"wait"}]
    /\ UNCHANGED <<requestVars, bodyVars, gateVars, fetchVars>>

\* limits.TargetDeadline, counted from admission.
EndRun(r) ==
    /\ phase[r] = "running" /\ "run" \notin ended[r]
    /\ ended' = [ended EXCEPT ![r] = @ \cup {"run"}]
    /\ UNCHANGED <<requestVars, bodyVars, gateVars, fetchVars>>

\* HTTPDestinationInterval passes after the last start to d.
Elapse(d) ==
    /\ d \in cooling
    /\ cooling' = cooling \ {d}
    /\ gate' = [g \in Gate |-> IF g = gateOf[d] \/ \E f \in Fetch : at[f] = g /\ GoesTo[f] = d
                               THEN [gate[g] EXCEPT !.elapsed = TRUE] ELSE gate[g]]
    /\ UNCHANGED <<requestVars, ended, bodyVars, gateOf, at, fetchVars>>

RequestStep(r) ==
    \/ Refuse(r) \/ CancelEarly(r) \/ TakeSlot(r) \/ CheckSlot(r) \/ StartDirectly(r)
    \/ GiveUp(r) \/ Grant(r) \/ Admit(r) \/ Finish(r) \/ Return(r)

\* What a fetch that has begun goes on to do.
FetchStep(f) ==
    \/ TakeGate(f) \/ LeaveGate(f) \/ WaitInterval(f) \/ TakeTarget(f) \/ TakeProcess(f)
    \/ Start(f) \/ ReleaseReference(f) \/ ReleaseGate(f)
    \/ ReserveHTTPBody(f) \/ CommitBody(f) \/ ReleaseNetwork(f)

Terminated == (\A r \in Request : phase[r] = "done") /\ UNCHANGED vars

Next ==
    \/ \E r \in Request : RequestStep(r) \/ FailBeforeBegin(r) \/ EndParent(r) \/ EndWait(r) \/ EndRun(r)
    \/ \E f \in Fetch : AcquireDNS(f) \/ AcquireHTTP(f) \/ FetchStep(f)
    \/ \E d \in Destination : Elapse(d)
    \/ Terminated

Spec == Init /\ [][Next]_vars

\* Goroutines run on, timers fire, and a document's read ends because its
\* request has a timeout.  No caller has to go away.
Fairness ==
    /\ \A r \in Request : WF_vars(RequestStep(r)) /\ WF_vars(EndWait(r)) /\ WF_vars(EndRun(r))
    /\ \A f \in Fetch : WF_vars(FetchStep(f))
    /\ \A d \in Destination : WF_vars(Elapse(d))

FairSpec == Spec /\ Fairness

-----------------------------------------------------------------------------
(* Properties.                                                             *)

Of(r, k) == {f \in Fetch : Owner[f] = r /\ Kind[f] = k}

\* Whatever contexts end while a permit, a gate or a reservation is being
\* handed over, every channel's length is the number of its holders, a gate
\* is referred to by the fetches that may still use it, and what is left of
\* the body budget is what is neither kept nor set aside.
NothingLeaked ==
    /\ waiters = Cardinality({r \in Request : phase[r] # "done" /\ slot[r]})
    /\ targets = Cardinality({r \in Request : phase[r] \in {"granted", "running"}})
    /\ \A r \in Request, k \in {"dns", "http"} :
         busy[r][k] = Cardinality({f \in Of(r, k) : held[f] \/ loc[f] = "process"})
    /\ \A k \in {"dns", "http"} :
         process[k] = Cardinality({f \in Fetch : Kind[f] = k /\ held[f]})
    /\ \A d \in Destination : gateOf[d] # NoGate =>
         gate[gateOf[d]].references =
           Cardinality({f \in Fetch : at[f] = gateOf[d] /\ loc[f] # "ungate"})
    /\ \A r \in Request :
         bodyLeft[r] + retained[r] + MapThenSumSet(LAMBDA f : reserved[f], Of(r, "http")) = TotalBodyBytes
    /\ \A r \in Request : phase[r] = "done" =>
         ~slot[r] /\ \A f \in Fetch : Owner[f] = r => loc[f] = "idle"

\* Two requests to one destination never start within one interval, through
\* however many targets, and also when its gate is forgotten and made again.
StartsSpaced ==
    [][\A f \in Fetch : loc[f] = "start" /\ loc'[f] = "unrefer" => GoesTo[f] \notin cooling]_vars

\* A caller that is told the queue is full may send its request again: it
\* has not been run, though the wait's deadline may pass at any moment.
RefusedNeverRan == \A r \in Request : outcome[r] = "capacity" => r \notin executed

\* Nobody waits for ever: every request is answered, though permits, slots
\* and gates are waited for while other permits are held.
EveryRequestReturns == \A r \in Request : (phase[r] # "new") ~> (phase[r] = "done")

=============================================================================
