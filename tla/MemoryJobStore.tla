--------------------------- MODULE MemoryJobStore ---------------------------
(***************************************************************************)
(* The in-process job store of internal/jobs/memory.go, which claims to be *)
(* "a deterministic in-process implementation of the durable contract".    *)
(*                                                                         *)
(* It keeps the same job and target state as JobStore, whose claims,       *)
(* renewals and recovery rules it repeats, under one mutex.  It differs in *)
(* three ways: it checks no bundle, it counts pins per bundle instead of   *)
(* keeping a row per job, and recovery finishes every job, not only those  *)
(* that lost a lease.  The database's pins and bundle tables are not part  *)
(* of it and stay as they are.                                             *)
(***************************************************************************)
EXTENDS JobStore

VARIABLES
    pinCount,    \* MemoryStore.pins: accepted references per bundle
    pinReleased  \* jobs with pinReleased set

memoryVars == <<vars, pinCount, pinReleased>>

MemoryInit ==
    /\ Init
    /\ pinCount = [b \in Bundle |-> 0]
    /\ pinReleased = {}

\* Jobs of J whose pin finishJob gives back, given the new target rows st.
Unpinned(st, J) ==
    {k \in Settled(st, J) : payload[k].bundle # NoBundle /\ k \notin pinReleased}

\* finishJob for every job of J: a job with work left is running, whether or
\* not any of it has started; a settled one gives its pin back once.
finishJob(st, J) ==
    /\ jobStatus' = [k \in Key |-> IF k \notin J THEN jobStatus[k]
                                   ELSE IF k \in Settled(st, J) THEN FinalStatus(st, k)
                                   ELSE "running"]
    /\ pinCount' = [b \in Bundle |->
           pinCount[b] - Cardinality({k \in Unpinned(st, J) : payload[k].bundle = b})]
    /\ pinReleased' = pinReleased \cup Unpinned(st, J)

\* Submit pins the bundle only when the batch reserves capacity.
MemorySubmit(k, r) ==
    LET n == Cardinality(Reserving(k, r)) IN
    /\ k \notin Admitted
    /\ \E i \in Index : r.work[i] # "none"
    /\ Fits(n)
    /\ jobStatus' = [jobStatus EXCEPT ![k] = IF n = 0 THEN "failed" ELSE "queued"]
    /\ payload' = [payload EXCEPT ![k] = r]
    /\ createdAt' = [createdAt EXCEPT ![k] = Cardinality(Admitted) + 1]
    /\ status' = [t \in Target |-> IF JobOf(t) = k THEN NewStatus(r.work[t[2]])
                                                   ELSE status[t]]
    /\ reserved' = reserved + n
    /\ pinCount' = IF r.bundle # NoBundle /\ n > 0
                      THEN [pinCount EXCEPT ![r.bundle] = @ + 1] ELSE pinCount
    /\ UNCHANGED <<cancelRequested, attempts, token, leased, result, issued, pins,
                   bundleVars, pinReleased>>

\* Claim and Renew have the effect they have in the database.
MemoryClaim(t) == Claim(t) /\ UNCHANGED <<pinCount, pinReleased>>

MemoryRenew(t, tok) == Renew(t, tok) /\ UNCHANGED <<pinCount, pinReleased>>

MemoryLeaseExpires(t) == LeaseExpires(t) /\ UNCHANGED <<pinCount, pinReleased>>

MemoryComplete(t, tok, o) ==
    /\ Holds(t, tok)
    /\ status' = [status EXCEPT ![t] = o.status]
    /\ result' = [result EXCEPT ![t] = o]
    /\ leased' = [leased EXCEPT ![t] = FALSE]
    /\ reserved' = reserved - 1
    /\ finishJob(status', {JobOf(t)})
    /\ UNCHANGED <<payload, cancelRequested, createdAt, attempts, token, issued, pins,
                   bundleVars>>

MemoryRequestCancel(k) ==
    LET queued == {t \in TargetsOf(k) : status[t] = "queued"} IN
    /\ k \in Admitted
    /\ cancelRequested' = [cancelRequested EXCEPT ![k] = TRUE]
    /\ status' = [t \in Target |-> IF t \in queued THEN "cancelled" ELSE status[t]]
    /\ reserved' = reserved - Cardinality(queued)
    /\ finishJob(status', {k})
    /\ UNCHANGED <<payload, createdAt, attempts, token, leased, result, issued, pins,
                   bundleVars>>

\* RecoverExpired visits every job, also when no lease has expired.
MemoryRecoverExpired ==
    /\ status' = [t \in Target |-> IF t \in Expired THEN RecoveredStatus(t)
                                                    ELSE status[t]]
    /\ token' = [t \in Target |-> IF t \in Expired THEN 0 ELSE token[t]]
    /\ reserved' = reserved - Cardinality(GivenUp)
    /\ finishJob(status', Admitted)
    /\ UNCHANGED <<payload, cancelRequested, createdAt, attempts, leased, result,
                   issued, pins, bundleVars>>

MemoryNext ==
    \/ \E k \in Key, r \in Request : MemorySubmit(k, r)
    \/ \E t \in Target : MemoryClaim(t)
    \/ \E t \in Target : \E tok \in Tokens(t) : MemoryRenew(t, tok)
    \/ \E t \in Target : MemoryLeaseExpires(t)
    \/ \E t \in Target : \E tok \in Tokens(t), o \in Outcome : MemoryComplete(t, tok, o)
    \/ \E k \in Key : MemoryRequestCancel(k)
    \/ MemoryRecoverExpired

MemorySpec == MemoryInit /\ [][MemoryNext]_memoryVars

-----------------------------------------------------------------------------
Unfinished == {k \in Admitted : jobStatus[k] \in ActiveStatus}

\* The comment of BundlePins (memory.go:319): it "returns accepted nonterminal
\* job references for a bundle".  Recovery, cancellation and completion may
\* each finish a job, in any order and repeatedly.
BundlePinsCountJobs ==
    \A b \in Bundle :
        pinCount[b] = Cardinality({k \in Unfinished : payload[k].bundle = b})

=============================================================================
