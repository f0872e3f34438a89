----------------------------- MODULE JobRunner -----------------------------
(***************************************************************************)
(* The workers of internal/jobs/runner.go and supervisor.go on top of the  *)
(* job store.  A worker claims a target, analyzes it while a second        *)
(* goroutine renews the lease, joins that goroutine and commits one        *)
(* outcome.  Either goroutine can see the context cancelled, the database  *)
(* can refuse or fail any call, the acknowledgement of a commit can be     *)
(* lost, and the process can be killed between any two steps.              *)
(*                                                                         *)
(* A report is represented by the bundle that produced it: that is what    *)
(* RunOnce compares with the bundle the claim is pinned to.                *)
(***************************************************************************)
EXTENDS JobStore

CONSTANTS
    Worker,       \* worker loops of all service processes
    NoTarget,     \* the worker holds no claim
    NoReport      \* the outcome carries no report

\* Outcomes without a report: an error, and a cancelled context.
Failed == [status |-> "failed", report |-> NoReport]
Aborted == [status |-> "cancelled", report |-> NoReport]

ASSUME RunnerAssumption ==
    /\ NoTarget \notin Target
    /\ NoReport \notin Bundle
    /\ Outcome \subseteq [status : TerminalStatus, report : Bundle \cup {NoReport}]
    /\ {Failed, Aborted} \subseteq Outcome

VARIABLES
    phase,      \* where RunOnce is: "idle", "analyzing" or "closing"
    held,       \* target of the worker's claim
    heldToken,  \* attempt token of the worker's claim
    renewal,    \* the renewLease goroutine and what it reported
    found,      \* the outcome targetResult derives from the analysis
    stopped     \* the worker's parent context is cancelled

workerVars == <<phase, held, heldToken, renewal, found, stopped>>
runnerVars == <<vars, workerVars>>

RunnerInit ==
    /\ Init
    /\ phase = [w \in Worker |-> "idle"]
    /\ held = [w \in Worker |-> NoTarget]
    /\ heldToken = [w \in Worker |-> 0]
    /\ renewal = [w \in Worker |-> "none"]
    /\ found = [w \in Worker |-> NoOutcome]
    /\ stopped = [w \in Worker |-> FALSE]

-----------------------------------------------------------------------------
(* One worker.                                                             *)

\* RunOnce claims a target and starts the renewal goroutine.
ClaimNext(w) ==
    \E t \in Target :
        /\ phase[w] = "idle"
        /\ Claim(t)
        /\ phase' = [phase EXCEPT ![w] = "analyzing"]
        /\ held' = [held EXCEPT ![w] = t]
        /\ heldToken' = [heldToken EXCEPT ![w] = token'[t]]
        /\ renewal' = [renewal EXCEPT ![w] = "active"]
        /\ UNCHANGED <<found, stopped>>

\* A tick of renewLease that the store accepts.
RenewAccepted(w) ==
    /\ renewal[w] = "active"
    /\ Renew(held[w], heldToken[w])
    /\ UNCHANGED workerVars

\* A tick that ends the goroutine and cancels the analysis: the store reports
\* the cancellation, or a stale token, or the statement itself fails.
RenewRefused(w) ==
    /\ renewal[w] = "active"
    /\ \/ /\ Holds(held[w], heldToken[w])
          /\ cancelRequested[JobOf(held[w])]
          /\ renewal' = [renewal EXCEPT ![w] = "cancelled"]
       \/ renewal' = [renewal EXCEPT ![w] = "lost"]
    /\ UNCHANGED <<vars, phase, held, heldToken, found, stopped>>

\* The goroutine leaves its loop because the analysis is done or because the
\* parent context was cancelled; neither overrides the analysis outcome.
RenewalEnds(w) ==
    /\ renewal[w] = "active"
    /\ phase[w] = "closing" \/ stopped[w]
    /\ renewal' = [renewal EXCEPT ![w] = "ended"]
    /\ UNCHANGED <<vars, phase, held, heldToken, found, stopped>>

\* The analysis may see a cancelled context from here on.
ContextDone(w) == stopped[w] \/ renewal[w] \in {"cancelled", "lost"}

\* Capture and analysis return: a report, an error, or the context's error.
AnalysisEnds(w, o) ==
    /\ phase[w] = "analyzing"
    /\ o = Aborted => ContextDone(w)
    /\ phase' = [phase EXCEPT ![w] = "closing"]
    /\ found' = [found EXCEPT ![w] = o]
    /\ UNCHANGED <<vars, held, heldToken, renewal, stopped>>

\* SIGTERM cancels the parent context.
Shutdown(w) ==
    /\ phase[w] # "idle"
    /\ ~stopped[w]
    /\ stopped' = [stopped EXCEPT ![w] = TRUE]
    /\ UNCHANGED <<vars, phase, held, heldToken, renewal, found>>

\* The report comes from another bundle than the one the batch pinned.
ForeignReport(w) ==
    LET pinned == payload[JobOf(held[w])].bundle
    IN  pinned # NoBundle /\ found[w].report \notin {NoReport, pinned}

\* What RunOnce commits: a refused renewal overrides the analysis.
FinalOutcome(w) ==
    IF renewal[w] = "cancelled" THEN Aborted
    ELSE IF renewal[w] = "lost" \/ ForeignReport(w) THEN Failed
    ELSE found[w]

\* The worker loop starts over; a stopped process restarts with it.
Release(w) ==
    /\ phase' = [phase EXCEPT ![w] = "idle"]
    /\ held' = [held EXCEPT ![w] = NoTarget]
    /\ heldToken' = [heldToken EXCEPT ![w] = 0]
    /\ renewal' = [renewal EXCEPT ![w] = "none"]
    /\ found' = [found EXCEPT ![w] = NoOutcome]
    /\ stopped' = [stopped EXCEPT ![w] = FALSE]

ReadyToCommit(w) == phase[w] = "closing" /\ renewal[w] # "active"

\* The commit takes effect, whether or not its acknowledgement arrives.
CommitApplied(w) ==
    /\ ReadyToCommit(w)
    /\ Complete(held[w], heldToken[w], FinalOutcome(w))
    /\ Release(w)

\* The commit has no effect: the token is stale, or the database did not
\* answer within the commit timeout.
CommitFailed(w) ==
    /\ ReadyToCommit(w)
    /\ Release(w)
    /\ UNCHANGED vars

\* The process is killed and comes back without any memory of the claim.
Crash(w) ==
    /\ phase[w] # "idle"
    /\ Release(w)
    /\ UNCHANGED vars

-----------------------------------------------------------------------------
WorkerStep(w) ==
    \/ ClaimNext(w)
    \/ RenewAccepted(w)
    \/ RenewRefused(w)
    \/ RenewalEnds(w)
    \/ \E o \in Outcome : AnalysisEnds(w, o)
    \/ Shutdown(w)
    \/ CommitApplied(w)
    \/ CommitFailed(w)
    \/ Crash(w)

StoreStep ==
    \/ \E k \in Key, r \in Request : Submit(k, r)
    \/ \E t \in Target : LeaseExpires(t)
    \/ \E k \in Key : RequestCancel(k)
    \/ RecoverExpired
    \/ \E b \in Bundle : RegisterBundle(b) \/ MarkUnavailable(b)

RunnerNext ==
    \/ \E w \in Worker : WorkerStep(w)
    \/ StoreStep /\ UNCHANGED workerVars

RunnerSpec == RunnerInit /\ [][RunnerNext]_runnerVars

\* A lease that no worker is left to renew runs out.
Abandoned(t) == \A w \in Worker : held[w] # t
AbandonedLeaseExpires(t) ==
    Abandoned(t) /\ LeaseExpires(t) /\ UNCHANGED workerVars

\* Worker loops and the recovery ticker keep running, and every analysis ends
\* because its budget has a deadline.  Renewals, clients, bundle operations,
\* shutdowns and crashes are not assumed to happen.
Fairness ==
    /\ \A w \in Worker :
          /\ WF_runnerVars(ClaimNext(w))
          /\ WF_runnerVars(\E o \in Outcome : AnalysisEnds(w, o))
          /\ WF_runnerVars(RenewalEnds(w))
          /\ WF_runnerVars(CommitApplied(w) \/ CommitFailed(w))
    /\ \A t \in Target : WF_runnerVars(AbandonedLeaseExpires(t))
    /\ WF_runnerVars(RecoverExpired /\ UNCHANGED workerVars)

FairRunnerSpec == RunnerSpec /\ Fairness

-----------------------------------------------------------------------------
(* Properties.                                                             *)

\* Worker state keeps its type.
RunnerTypeOK ==
    /\ TypeOK
    /\ phase \in [Worker -> {"idle", "analyzing", "closing"}]
    /\ held \in [Worker -> Target \cup {NoTarget}]
    /\ heldToken \in [Worker -> Nat]
    /\ renewal \in [Worker -> {"none", "active", "ended", "cancelled", "lost"}]
    /\ found \in [Worker -> Outcome \cup {NoOutcome}]
    /\ stopped \in [Worker -> BOOLEAN]

\* However leases expire and targets are claimed again while an old worker is
\* still busy, no two workers can both commit or renew the same target; and the
\* report stored for a target of a pinned batch was produced from the pinned
\* bundle, whatever the analyzer factory handed to the worker that stored it.
OneEffectiveAttempt ==
    /\ \A v, w \in Worker :
         /\ held[v] # NoTarget
         /\ held[v] = held[w]
         /\ Holds(held[v], heldToken[v])
         /\ Holds(held[w], heldToken[w])
         => v = w
    /\ \A t \in Target :
         /\ result[t] # NoOutcome
         /\ payload[JobOf(t)].bundle # NoBundle
         => result[t].report \in {NoReport, payload[JobOf(t)].bundle}

\* Every accepted batch ends, through any crashes, shutdowns, lost commits
\* and expiring leases: the bounded retries cannot strand a target.
EveryJobSettles ==
    \A k \in Key : k \in Admitted ~> jobStatus[k] \in TerminalStatus

=============================================================================
