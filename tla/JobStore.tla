------------------------------ MODULE JobStore ------------------------------
(***************************************************************************)
(* The durable job lifecycle of internal/store/postgres/store.go.          *)
(*                                                                         *)
(* A job is one accepted batch.  It is named by the (operator, idempotency *)
(* key) pair that admits it: the jobs table holds at most one row for such *)
(* a pair, so a Key also stands for the job's random ID.  Target <<k, i>>  *)
(* is row i of job k in job_targets.                                       *)
(*                                                                         *)
(* Every operation except Renew runs in a transaction that first takes the *)
(* lifecycle advisory lock, so each one is a single step; Renew is one     *)
(* UPDATE statement.  A call that returns an error rolls back and is a     *)
(* stuttering step.  The callers of Renew and Complete are left arbitrary: *)
(* any attempt token that was ever issued may be presented at any later    *)
(* time, so delayed, repeated and stale calls are all included.  Module    *)
(* JobRunner adds the workers that really make these calls.                *)
(*                                                                         *)
(* Leases are untimed: a lease that is held may run out at any moment.     *)
(* That covers any difference between the clock of the service that writes *)
(* lease_expires_at and the database clock that recovery compares it with. *)
(***************************************************************************)
EXTENDS Integers, FiniteSets

CONSTANTS
    Key,                 \* (operator, idempotency key) pairs; one job each
    Index,               \* positions of a target in its batch
    Bundle,              \* dataset bundle identities
    NoBundle,            \* the batch names no bundle
    Compatible,          \* bundles registered as compatible with this build
    Request,             \* the submissions a client may send
    Outcome,             \* what an attempt may commit: [status, report]
    NoOutcome,           \* no attempt has committed
    MaximumTargets,      \* queue_capacity.maximum_targets
    MaximumAttempts,     \* claims allowed before recovery gives up
    RollbackGenerations, \* newest activated bundles that pruning spares
    MaxGeneration        \* bound on committed activations (state space only)

Target == Key \X Index

JobOf(t) == t[1]

WorkKind == {"none", "valid", "invalid"}

ActiveStatus == {"queued", "running"}

TerminalStatus == {"completed", "partial", "failed", "cancelled"}

ASSUME ConstantsAssumption ==
    /\ IsFiniteSet(Key)
    /\ IsFiniteSet(Index) /\ Index \subseteq Nat
    /\ IsFiniteSet(Bundle) /\ NoBundle \notin Bundle
    /\ Compatible \subseteq Bundle
    /\ Request \subseteq [bundle : Bundle \cup {NoBundle},
                          work : [Index -> WorkKind]]
    /\ \A o \in Outcome : o.status \in TerminalStatus
    /\ NoOutcome \notin Outcome
    /\ MaximumTargets \in Nat \ {0}
    /\ MaximumAttempts \in Nat \ {0}
    /\ RollbackGenerations \in Nat \ {0}
    /\ MaxGeneration \in Nat

VARIABLES
    jobStatus,        \* jobs.status, "absent" when there is no row
    payload,          \* the request whose hash jobs.payload_hash records
    cancelRequested,  \* jobs.cancel_requested
    createdAt,        \* jobs.created_at, as the rank of the admission
    status,           \* job_targets.status, "absent" when there is no row
    attempts,         \* job_targets.attempts
    token,            \* job_targets.attempt_token; 0 is NULL
    leased,           \* running and lease_expires_at is in the future
    result,           \* what a worker committed (status, reason, report_id)
    issued,           \* number of tokens newID has produced for the target
    reserved,         \* queue_capacity.reserved_targets
    pins,             \* job_ids in bundle_pins
    available,        \* bundles with dataset_bundles.available
    generation,       \* newest activation generation of a bundle, 0 if none
    lastGeneration    \* last value of bundle_activation_generations.generation

jobVars == <<jobStatus, payload, cancelRequested, createdAt>>
targetVars == <<status, attempts, token, leased, result, issued>>
bundleVars == <<available, generation, lastGeneration>>
vars == <<jobVars, targetVars, reserved, pins, bundleVars>>

EmptyRequest == [bundle |-> NoBundle, work |-> [i \in Index |-> "none"]]

Init ==
    /\ jobStatus = [k \in Key |-> "absent"]
    /\ payload = [k \in Key |-> EmptyRequest]
    /\ cancelRequested = [k \in Key |-> FALSE]
    /\ createdAt = [k \in Key |-> 0]
    /\ status = [t \in Target |-> "absent"]
    /\ attempts = [t \in Target |-> 0]
    /\ token = [t \in Target |-> 0]
    /\ leased = [t \in Target |-> FALSE]
    /\ result = [t \in Target |-> NoOutcome]
    /\ issued = [t \in Target |-> 0]
    /\ reserved = 0
    /\ pins = {}
    /\ available = {}
    /\ generation = [b \in Bundle |-> 0]
    /\ lastGeneration = 0

-----------------------------------------------------------------------------
(* Helpers shared by the operations.                                       *)

Admitted == {k \in Key : jobStatus[k] # "absent"}

TargetsOf(k) == {t \in Target : JobOf(t) = k}

Active == {t \in Target : status[t] \in ActiveStatus}

\* Targets of a request that reserve queue capacity: the invalid ones are
\* stored as failed rows at once.
Reserving(k, r) == {t \in TargetsOf(k) : r.work[t[2]] = "valid"}

\* The row Submit inserts for one target of the request.
NewStatus(kind) ==
    CASE kind = "none"    -> "absent"
      [] kind = "invalid" -> "failed"
      [] kind = "valid"   -> "queued"

\* Mutant of FinalStatus: forgets that a running target keeps the job open.
FinalStatusIgnoringRunning(st, k) ==
    LET outcomes == {st[t] : t \in TargetsOf(k)} \ {"absent", "running"}
    IN  IF "queued" \in outcomes THEN jobStatus[k]
        ELSE IF "failed" \in outcomes THEN "failed"
        ELSE "completed"

\* finalizeJob's status for a job whose target rows are st: unchanged while a
\* target is active, otherwise computed from the terminal outcomes.
FinalStatus(st, k) ==
    LET outcomes == {st[t] : t \in TargetsOf(k)} \ {"absent"}
        useful   == outcomes \cap {"completed", "partial"}
    IN  IF outcomes \cap ActiveStatus # {} THEN jobStatus[k]
        ELSE IF "failed" \in outcomes /\ useful = {} THEN "failed"
        ELSE IF outcomes = {"cancelled"} THEN "cancelled"
        ELSE IF outcomes \cap {"partial", "failed", "cancelled"} # {} THEN "partial"
        ELSE "completed"

\* Mutant of Settled: a cancellation that empties the queue frees the pin.
SettledWhenNoneQueued(st, J) ==
    {k \in J : \A t \in TargetsOf(k) : st[t] # "queued"}

\* Jobs of J that finalizeJob makes terminal, given the new rows st.
Settled(st, J) ==
    {k \in J : \A t \in TargetsOf(k) : st[t] \notin ActiveStatus}

\* finalizeJob for every job of J: the job row and its bundle pin.
FinalizeJobs(st, J) ==
    /\ jobStatus' = [k \in Key |-> IF k \in J THEN FinalStatus(st, k)
                                              ELSE jobStatus[k]]
    /\ pins' = pins \ Settled(st, J)

-----------------------------------------------------------------------------
(* Admission, claims, leases and completion.                               *)

\* Mutant of Fits: looks for one free slot, whatever the size of the batch.
FitsOneMore(n) == reserved < MaximumTargets

\* Queue capacity can still hold n more nonterminal targets.
Fits(n) == reserved + n <= MaximumTargets

\* Mutant of BundleAdmissible: accepts a compatible bundle that was pruned.
BundleKnownCompatible(b) == b # NoBundle => b \in Compatible

\* A batch may pin only a bundle that is present and compatible.
BundleAdmissible(b) == b # NoBundle => b \in available \cap Compatible

\* Submit admits a batch, reserves capacity for its valid targets and pins
\* its bundle.  A key that is already in use is answered from the existing
\* row (same payload) or refused (different payload): no change either way.
Submit(k, r) ==
    LET n == Cardinality(Reserving(k, r)) IN
    /\ k \notin Admitted
    /\ \E i \in Index : r.work[i] # "none"
    /\ BundleAdmissible(r.bundle)
    /\ Fits(n)
    /\ jobStatus' = [jobStatus EXCEPT ![k] = IF n = 0 THEN "failed" ELSE "queued"]
    /\ payload' = [payload EXCEPT ![k] = r]
    /\ createdAt' = [createdAt EXCEPT ![k] = Cardinality(Admitted) + 1]
    /\ status' = [t \in Target |-> IF JobOf(t) = k THEN NewStatus(r.work[t[2]])
                                                   ELSE status[t]]
    /\ reserved' = reserved + n
    /\ pins' = IF r.bundle # NoBundle /\ n > 0 THEN pins \cup {k} ELSE pins
    /\ UNCHANGED <<cancelRequested, attempts, token, leased, result, issued,
                   bundleVars>>

\* Mutant of Claimable: a requeued target never becomes due again.
ClaimableOnce ==
    {t \in Target : status[t] = "queued" /\ ~cancelRequested[JobOf(t)] /\ attempts[t] = 0}

\* Queued targets of jobs that nobody has cancelled.  next_attempt_at never
\* delays a claim: recovery sets it to the time of the requeueing.
Claimable == {t \in Target : status[t] = "queued" /\ ~cancelRequested[JobOf(t)]}

\* ORDER BY created_at, input_index.
Before(s, t) ==
    \/ createdAt[JobOf(s)] < createdAt[JobOf(t)]
    \/ JobOf(s) = JobOf(t) /\ s[2] < t[2]

\* Mutant of FreshToken: every attempt of a target gets the same token.
FirstToken(t) == 1

\* newID: a value no earlier attempt of the target was given.
FreshToken(t) == issued[t] + 1

\* Claim leases the oldest claimable target under a fresh token.
Claim(t) ==
    /\ t \in Claimable
    /\ \A s \in Claimable \ {t} : Before(t, s)
    /\ status' = [status EXCEPT ![t] = "running"]
    /\ attempts' = [attempts EXCEPT ![t] = @ + 1]
    /\ issued' = [issued EXCEPT ![t] = @ + 1]
    /\ token' = [token EXCEPT ![t] = FreshToken(t)]
    /\ leased' = [leased EXCEPT ![t] = TRUE]
    /\ jobStatus' = [jobStatus EXCEPT ![JobOf(t)] = "running"]
    /\ UNCHANGED <<payload, cancelRequested, createdAt, result, reserved, pins,
                   bundleVars>>

\* The row an attempt may still act on: running under this very token.
\* Neither Renew nor Complete looks at lease_expires_at.
Holds(t, tok) == status[t] = "running" /\ token[t] = tok

\* Renew extends the lease, also one that has run out but was not recovered.
\* It is refused once the job's cancellation was requested.
Renew(t, tok) ==
    /\ Holds(t, tok)
    /\ ~cancelRequested[JobOf(t)]
    /\ leased' = [leased EXCEPT ![t] = TRUE]
    /\ UNCHANGED <<jobVars, status, attempts, token, result, issued, reserved,
                   pins, bundleVars>>

\* Time passes lease_expires_at.
LeaseExpires(t) ==
    /\ leased[t]
    /\ leased' = [leased EXCEPT ![t] = FALSE]
    /\ UNCHANGED <<jobVars, status, attempts, token, result, issued, reserved,
                   pins, bundleVars>>

\* Complete makes the target terminal, releases one reservation and finalizes
\* the job.  The token stays in the row; a later call that repeats the same
\* outcome succeeds without effect, a different one is a conflict.
Complete(t, tok, o) ==
    /\ Holds(t, tok)
    /\ reserved > 0
    /\ status' = [status EXCEPT ![t] = o.status]
    /\ result' = [result EXCEPT ![t] = o]
    /\ leased' = [leased EXCEPT ![t] = FALSE]
    /\ reserved' = reserved - 1
    /\ FinalizeJobs(status', {JobOf(t)})
    /\ UNCHANGED <<payload, cancelRequested, createdAt, attempts, token, issued,
                   bundleVars>>

\* RequestCancel terminalizes what is still queued; running attempts notice
\* the flag at their next renewal, or recovery cancels them.
RequestCancel(k) ==
    LET queued == {t \in TargetsOf(k) : status[t] = "queued"} IN
    /\ k \in Admitted
    /\ reserved >= Cardinality(queued)
    /\ cancelRequested' = [cancelRequested EXCEPT ![k] = TRUE]
    /\ status' = [t \in Target |-> IF t \in queued THEN "cancelled" ELSE status[t]]
    /\ reserved' = reserved - Cardinality(queued)
    /\ FinalizeJobs(status', {k})
    /\ UNCHANGED <<payload, createdAt, attempts, token, leased, result, issued,
                   bundleVars>>

Expired == {t \in Target : status[t] = "running" /\ ~leased[t]}

\* Mutants of RecoveredStatus: one attempt too many; cancellation forgotten.
RecoveredOnceMore(t) ==
    IF cancelRequested[JobOf(t)] THEN "cancelled"
    ELSE IF attempts[t] > MaximumAttempts THEN "failed"
    ELSE "queued"

RecoveredDespiteCancel(t) ==
    IF attempts[t] >= MaximumAttempts THEN "failed" ELSE "queued"

\* What recovery makes of one expired attempt.
RecoveredStatus(t) ==
    IF cancelRequested[JobOf(t)] THEN "cancelled"
    ELSE IF attempts[t] >= MaximumAttempts THEN "failed"
    ELSE "queued"

\* Mutant of GivenUp: cancelled attempts keep their reservation.
GivenUpFailedOnly == {t \in Expired : RecoveredStatus(t) = "failed"}

\* Expired attempts that recovery ends for good; each frees a reservation.
GivenUp == {t \in Expired : RecoveredStatus(t) \in TerminalStatus}

\* RecoverExpired revokes every expired attempt in one transaction.
RecoverExpired ==
    /\ Expired # {}
    /\ reserved >= Cardinality(GivenUp)
    /\ status' = [t \in Target |-> IF t \in Expired THEN RecoveredStatus(t)
                                                    ELSE status[t]]
    /\ token' = [t \in Target |-> IF t \in Expired THEN 0 ELSE token[t]]
    /\ reserved' = reserved - Cardinality(GivenUp)
    /\ FinalizeJobs(status', {JobOf(t) : t \in Expired})
    /\ UNCHANGED <<payload, cancelRequested, createdAt, attempts, leased, result,
                   issued, bundleVars>>

-----------------------------------------------------------------------------
(* Bundles: registration, activation and the database half of pruning.     *)

\* RegisterBundle, and the same upsert at the head of CommitBundleActivation.
RegisterBundle(b) ==
    /\ available' = available \cup {b}
    /\ UNCHANGED <<jobVars, targetVars, reserved, pins, generation, lastGeneration>>

\* CommitBundleActivation records a new generation for the bundle.
CommitBundleActivation(b) ==
    /\ lastGeneration < MaxGeneration
    /\ available' = available \cup {b}
    /\ generation' = [generation EXCEPT ![b] = lastGeneration + 1]
    /\ lastGeneration' = lastGeneration + 1
    /\ UNCHANGED <<jobVars, targetVars, reserved, pins>>

\* The bundle is pinned, or is one of the newest distinct activated bundles.
Pinned(b) == \E k \in pins : payload[k].bundle = b

RecentlyActivated(b) ==
    /\ generation[b] > 0
    /\ Cardinality({c \in Bundle : generation[c] > generation[b]}) < RollbackGenerations

\* Mutant of Protected: pruning spares the rollback generations only.
ProtectedByActivation(b) == RecentlyActivated(b)

Protected(b) == Pinned(b) \/ RecentlyActivated(b)

\* The transaction of WithBundlePruneLock.  The files go after the commit.
MarkUnavailable(b) ==
    /\ b \in available
    /\ ~Protected(b)
    /\ available' = available \ {b}
    /\ UNCHANGED <<jobVars, targetVars, reserved, pins, generation, lastGeneration>>

-----------------------------------------------------------------------------
Tokens(t) == 1..issued[t]

Next ==
    \/ \E k \in Key, r \in Request : Submit(k, r)
    \/ \E t \in Target : Claim(t)
    \/ \E t \in Target : \E tok \in Tokens(t) : Renew(t, tok)
    \/ \E t \in Target : LeaseExpires(t)
    \/ \E t \in Target : \E tok \in Tokens(t), o \in Outcome : Complete(t, tok, o)
    \/ \E k \in Key : RequestCancel(k)
    \/ RecoverExpired
    \/ \E b \in Bundle : RegisterBundle(b)
    \/ \E b \in Bundle : CommitBundleActivation(b)
    \/ \E b \in Bundle : MarkUnavailable(b)

Spec == Init /\ [][Next]_vars

-----------------------------------------------------------------------------
(* Properties.                                                             *)

\* Every variable keeps its type, and queue_capacity keeps the CHECK of the
\* schema: between zero and maximum_targets reservations.
TypeOK ==
    /\ jobStatus \in [Key -> {"absent"} \cup ActiveStatus \cup TerminalStatus]
    /\ payload \in [Key -> [bundle : Bundle \cup {NoBundle}, work : [Index -> WorkKind]]]
    /\ cancelRequested \in [Key -> BOOLEAN]
    /\ createdAt \in [Key -> Nat]
    /\ status \in [Target -> {"absent"} \cup ActiveStatus \cup TerminalStatus]
    /\ attempts \in [Target -> Nat]
    /\ token \in [Target -> Nat]
    /\ leased \in [Target -> BOOLEAN]
    /\ result \in [Target -> Outcome \cup {NoOutcome}]
    /\ issued \in [Target -> Nat]
    /\ reserved \in 0..MaximumTargets
    /\ pins \subseteq Key
    /\ available \subseteq Bundle
    /\ generation \in [Bundle -> Nat]
    /\ lastGeneration \in Nat

\* The capacity counter that Submit, Complete, RequestCancel and
\* RecoverExpired adjust separately always equals the number of targets that
\* are queued or running: no reservation leaks and none is released twice.
CapacityExact == reserved = Cardinality(Active)

\* A job holds a bundle pin exactly while it names a bundle and one of its
\* targets can still run: the pin survives lease expiry, retries and a
\* cancellation request, and the last terminal target releases it.
PinExact ==
    \A k \in Key :
        k \in pins <=> /\ payload[k].bundle # NoBundle
                      /\ \E t \in TargetsOf(k) : status[t] \in ActiveStatus

\* The bundle of an accepted job stays available for as long as the job can
\* still be claimed, whatever is activated or pruned meanwhile.
PinnedBundleAvailable ==
    \A t \in Active : payload[JobOf(t)].bundle # NoBundle =>
        payload[JobOf(t)].bundle \in available

\* The job row agrees with its target rows: it is terminal exactly when every
\* target is, a terminal status is the aggregate of the outcomes, and it is
\* queued only while no target of the batch was ever claimed.
JobStatusSound ==
    \A k \in Admitted :
        /\ jobStatus[k] \in TerminalStatus <=>
               \A t \in TargetsOf(k) : status[t] \notin ActiveStatus
        /\ jobStatus[k] = FinalStatus(status, k)
        /\ jobStatus[k] = "queued" => \A t \in TargetsOf(k) : attempts[t] = 0

\* Recovery, claims and late renewals together never start a target more
\* often than the attempt limit allows.
AttemptBudget == \A t \in Target : attempts[t] <= MaximumAttempts

\* Once a cancellation is accepted, no target of the job waits in the queue
\* again, not even one whose lease runs out while recovery requeues others.
CancelDrainsQueue ==
    \A t \in Target : cancelRequested[JobOf(t)] => status[t] # "queued"

-----------------------------------------------------------------------------
(* What all of this promises to a client, without leases, tokens, pins and *)
(* counters: see JobContract.                                              *)

Contract == INSTANCE JobContract WITH
    ledger   <- [t \in Target |-> IF status[t] \in ActiveStatus THEN "pending"
                                                              ELSE status[t]],
    bundleOf <- [k \in Key |-> payload[k].bundle],
    usable   <- available

\* The PostgreSQL store implements the contract.
ImplementsContract == Contract!Spec

=============================================================================
