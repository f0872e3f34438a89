--------------------------- MODULE JobStoreProofs ---------------------------
(***************************************************************************)
(* Theorems about JobStore, and about JobRunner on top of it, for every    *)
(* number of workers, keys, targets, bundles and attempts.                 *)
(***************************************************************************)
EXTENDS JobRunner, FiniteSetTheorems, TLAPS

-----------------------------------------------------------------------------
(* Sets of targets.                                                        *)

\* A target is a pair whose first component is its job.
LEMMA TargetParts ==
    \A t \in Target : JobOf(t) \in Key /\ t[2] \in Index
  BY DEF Target, JobOf

\* There are finitely many targets, so every set of targets can be counted.
LEMMA TargetsFinite ==
    ASSUME NEW S, S \subseteq Target
    PROVE  IsFiniteSet(S) /\ Cardinality(S) \in Nat
  <1>1. IsFiniteSet(Key \X Index)
    BY FS_Product, ConstantsAssumption
  <1>2. IsFiniteSet(S)
    BY <1>1, FS_Subset DEF Target
  <1> QED
    BY <1>2, FS_CardinalityType

\* Adding targets that were not counted before.
LEMMA CountAdded ==
    ASSUME NEW S, NEW A, S \subseteq Target, A \subseteq Target, S \cap A = {}
    PROVE  Cardinality(S \cup A) = Cardinality(S) + Cardinality(A)
  <1>1. Cardinality(S \cup A) = Cardinality(S) + Cardinality(A) - Cardinality(S \cap A)
    BY TargetsFinite, FS_Union
  <1>2. Cardinality(S \cap A) = 0
    BY FS_EmptySet
  <1> QED
    BY <1>1, <1>2, TargetsFinite

\* Removing targets that were counted.
LEMMA CountRemoved ==
    ASSUME NEW S, NEW A, S \subseteq Target, A \subseteq S
    PROVE  /\ Cardinality(S \ A) = Cardinality(S) - Cardinality(A)
           /\ Cardinality(A) <= Cardinality(S)
  <1>1. /\ S \ A \subseteq Target /\ A \subseteq Target
        /\ (S \ A) \cap A = {} /\ (S \ A) \cup A = S
    OBVIOUS
  <1>2. Cardinality(S) = Cardinality(S \ A) + Cardinality(A)
    BY <1>1, CountAdded
  <1> QED
    BY <1>1, <1>2, TargetsFinite

-----------------------------------------------------------------------------
(* Type correctness.                                                       *)

\* finalizeJob stores a job status.
LEMMA FinalStatusType ==
    ASSUME TypeOK, NEW st, NEW k \in Key
    PROVE  FinalStatus(st, k) \in {jobStatus[k]} \cup TerminalStatus
  BY DEF FinalStatus, TerminalStatus

LEMMA FinalizeJobsType ==
    ASSUME TypeOK, NEW st, NEW J, FinalizeJobs(st, J)
    PROVE  /\ jobStatus' \in [Key -> {"absent"} \cup ActiveStatus \cup TerminalStatus]
           /\ pins' \subseteq Key
  BY FinalStatusType DEF FinalizeJobs, TypeOK

\* The number of capacity reservations of a batch is a natural number.
LEMMA ReservingCount ==
    ASSUME NEW k, NEW r
    PROVE  /\ Reserving(k, r) \subseteq Target
           /\ Cardinality(Reserving(k, r)) \in Nat
  BY TargetsFinite DEF Reserving, TargetsOf

LEMMA InitTypeOK == Init => TypeOK
  BY ConstantsAssumption DEF Init, TypeOK, EmptyRequest, WorkKind

LEMMA NextTypeOK == TypeOK /\ [Next]_vars => TypeOK'
  <1> SUFFICES ASSUME TypeOK, [Next]_vars PROVE TypeOK'
    OBVIOUS
  <1> USE ConstantsAssumption DEF TypeOK, jobVars, targetVars, bundleVars
  <1>1. ASSUME NEW k \in Key, NEW r \in Request, Submit(k, r) PROVE TypeOK'
    <2>1. Cardinality(Reserving(k, r)) \in Nat
      BY ReservingCount
    <2>2. Cardinality(Admitted) \in Nat
      BY FS_Subset, FS_CardinalityType DEF Admitted
    <2>3. reserved' \in 0..MaximumTargets
      BY <1>1, <2>1 DEF Submit, Fits
    <2>4. status' \in [Target -> {"absent"} \cup ActiveStatus \cup TerminalStatus]
      <3>1. \A t \in Target : NewStatus(r.work[t[2]]) \in {"absent", "queued", "failed"}
        BY TargetParts DEF NewStatus, WorkKind
      <3> QED
        BY <1>1, <3>1 DEF Submit, ActiveStatus, TerminalStatus
    <2> QED
      BY <1>1, <2>2, <2>3, <2>4 DEF Submit, ActiveStatus, TerminalStatus
  <1>2. ASSUME NEW t \in Target, Claim(t) PROVE TypeOK'
    BY <1>2, TargetParts DEF Claim, FreshToken, ActiveStatus
  <1>3. ASSUME NEW t \in Target, NEW tok \in Tokens(t), Renew(t, tok) PROVE TypeOK'
    BY <1>3 DEF Renew
  <1>4. ASSUME NEW t \in Target, LeaseExpires(t) PROVE TypeOK'
    BY <1>4 DEF LeaseExpires
  <1>5. ASSUME NEW t \in Target, NEW tok \in Tokens(t), NEW o \in Outcome,
               Complete(t, tok, o)
        PROVE  TypeOK'
    <2>1. FinalizeJobs(status', {JobOf(t)})
      BY <1>5 DEF Complete
    <2> QED
      BY <1>5, <2>1, FinalizeJobsType DEF Complete
  <1>6. ASSUME NEW k \in Key, RequestCancel(k) PROVE TypeOK'
    <2> DEFINE queued == {t \in TargetsOf(k) : status[t] = "queued"}
    <2>1. Cardinality(queued) \in Nat
      BY TargetsFinite DEF TargetsOf
    <2>2. FinalizeJobs(status', {k})
      BY <1>6 DEF RequestCancel
    <2> QED
      BY <1>6, <2>1, <2>2, FinalizeJobsType DEF RequestCancel, TerminalStatus
  <1>7. ASSUME RecoverExpired PROVE TypeOK'
    <2>1. Cardinality(GivenUp) \in Nat
      BY TargetsFinite DEF GivenUp, Expired
    <2>2. FinalizeJobs(status', {JobOf(t) : t \in Expired})
      BY <1>7 DEF RecoverExpired
    <2>3. \A t \in Target : RecoveredStatus(t) \in ActiveStatus \cup TerminalStatus
      BY DEF RecoveredStatus, ActiveStatus, TerminalStatus
    <2> QED
      BY <1>7, <2>1, <2>2, <2>3, FinalizeJobsType DEF RecoverExpired
  <1>8. ASSUME NEW b \in Bundle, RegisterBundle(b) PROVE TypeOK'
    BY <1>8 DEF RegisterBundle
  <1>9. ASSUME NEW b \in Bundle, CommitBundleActivation(b) PROVE TypeOK'
    BY <1>9 DEF CommitBundleActivation
  <1>10. ASSUME NEW b \in Bundle, MarkUnavailable(b) PROVE TypeOK'
    BY <1>10 DEF MarkUnavailable
  <1>11. CASE UNCHANGED vars
    BY <1>11 DEF vars
  <1> QED
    BY <1>1, <1>2, <1>3, <1>4, <1>5, <1>6, <1>7, <1>8, <1>9, <1>10, <1>11 DEF Next

\* In every reachable state of the job store the tables are well typed, and
\* the reservation counter respects the CHECK constraint of queue_capacity.
THEOREM TypeCorrect == Spec => []TypeOK
  BY InitTypeOK, NextTypeOK, PTL DEF Spec

-----------------------------------------------------------------------------
(* The inductive invariant of the lifecycle.                               *)

\* Only admitted jobs have target rows, and only they can be cancelled.
RowsAdmitted ==
    /\ \A t \in Target : status[t] # "absent" => jobStatus[JobOf(t)] # "absent"
    /\ \A k \in Key : cancelRequested[k] => jobStatus[k] # "absent"

\* A target that waits, or does not exist yet, has an attempt left.
AttemptLeft ==
    \A t \in Target : status[t] \in {"absent", "queued"} => attempts[t] < MaximumAttempts

\* A row that is not there yet was never claimed.
AbsentUnclaimed == \A t \in Target : status[t] = "absent" => attempts[t] = 0

StoreInv ==
    /\ TypeOK
    /\ RowsAdmitted
    /\ CapacityExact
    /\ PinExact
    /\ PinnedBundleAvailable
    /\ AttemptBudget
    /\ AttemptLeft
    /\ CancelDrainsQueue
    /\ AbsentUnclaimed
    /\ JobStatusSound

\* An admitted job keeps its row when it is finalized.
LEMMA FinalizeKeepsRows ==
    ASSUME TypeOK, NEW st, NEW J, FinalizeJobs(st, J)
    PROVE  \A k \in Key : jobStatus[k] # "absent" => jobStatus'[k] # "absent"
  BY FinalStatusType DEF FinalizeJobs, TypeOK, TerminalStatus

\* The effect of admission on the targets that count against capacity.
LEMMA SubmitActive ==
    ASSUME TypeOK, RowsAdmitted, NEW k \in Key, NEW r \in Request, Submit(k, r)
    PROVE  /\ Active \cap TargetsOf(k) = {}
           /\ Active' = Active \cup Reserving(k, r)
           /\ \A t \in TargetsOf(k) : status[t] = "absent"
  <1>1. \A t \in TargetsOf(k) : status[t] = "absent"
    BY DEF Submit, RowsAdmitted, Admitted, TargetsOf
  <1>2. \A t \in TargetsOf(k) : /\ r.work[t[2]] \in WorkKind
                               /\ status'[t] = NewStatus(r.work[t[2]])
    BY TargetParts, ConstantsAssumption DEF Submit, TargetsOf
  <1>3. \A t \in TargetsOf(k) : status'[t] \in ActiveStatus <=> r.work[t[2]] = "valid"
    <2>1. \A w \in WorkKind : NewStatus(w) \in ActiveStatus <=> w = "valid"
      BY DEF NewStatus, WorkKind, ActiveStatus
    <2> QED
      BY <1>2, <2>1
  <1>4. \A t \in Target : t \notin TargetsOf(k) => status'[t] = status[t]
    BY DEF Submit, TargetsOf
  <1>5. \A t \in TargetsOf(k) : t \in Target
    BY DEF TargetsOf
  <1>6. Active \cap TargetsOf(k) = {}
    BY <1>1 DEF Active, ActiveStatus
  <1>7. Active' = Active \cup Reserving(k, r)
    BY <1>3, <1>4, <1>5, <1>6 DEF Active, Reserving
  <1> QED
    BY <1>1, <1>6, <1>7

\* Completion takes exactly the completed target out of the active ones.
LEMMA CompleteActive ==
    ASSUME TypeOK, NEW t \in Target, NEW tok, NEW o \in Outcome, Complete(t, tok, o)
    PROVE  t \in Active /\ Active' = Active \ {t}
  BY ConstantsAssumption
  DEF Complete, Holds, Active, TypeOK, ActiveStatus, TerminalStatus

\* Cancellation takes exactly the queued targets of the job out.
LEMMA CancelActive ==
    ASSUME TypeOK, NEW k \in Key, RequestCancel(k)
    PROVE  LET queued == {t \in TargetsOf(k) : status[t] = "queued"}
           IN  queued \subseteq Active /\ Active' = Active \ queued
  BY DEF RequestCancel, Active, TypeOK, TargetsOf, ActiveStatus

\* Recovery takes exactly the attempts it gives up out.
LEMMA RecoverActive ==
    ASSUME TypeOK, RecoverExpired
    PROVE  GivenUp \subseteq Active /\ Active' = Active \ GivenUp
  <1>1. \A t \in Target : RecoveredStatus(t) \in ActiveStatus <=>
                          RecoveredStatus(t) \notin TerminalStatus
    BY DEF RecoveredStatus, ActiveStatus, TerminalStatus
  <1>2. \A t \in Target : status'[t] = IF t \in Expired THEN RecoveredStatus(t)
                                                        ELSE status[t]
    BY DEF RecoverExpired
  <1>3. Expired \subseteq Active
    BY DEF Expired, Active, ActiveStatus
  <1> QED
    BY <1>1, <1>2, <1>3 DEF GivenUp, Active

\* No other operation changes which targets are active.
LEMMA ClaimActive ==
    ASSUME TypeOK, NEW t \in Target, Claim(t)
    PROVE  t \in Active /\ Active' = Active
  BY DEF Claim, Claimable, Active, TypeOK, ActiveStatus

\* Steps that touch neither the job rows, nor target status and attempts, nor
\* the counters: renewals, expiring leases and bundle operations.
Quiet == UNCHANGED <<jobVars, status, attempts, reserved, pins>>

\* The steps of the store, with the quiet ones taken together.
LEMMA StepCases ==
    ASSUME [Next]_vars
    PROVE  \/ \E k \in Key, r \in Request : Submit(k, r)
           \/ \E t \in Target : Claim(t)
           \/ \E t \in Target : \E tok \in Tokens(t), o \in Outcome : Complete(t, tok, o)
           \/ \E k \in Key : RequestCancel(k)
           \/ RecoverExpired
           \/ Quiet
  BY DEF Next, vars, Quiet, jobVars, targetVars, bundleVars, Renew, LeaseExpires,
         RegisterBundle, CommitBundleActivation, MarkUnavailable

\* Target rows belong to admitted jobs.
LEMMA NextRowsAdmitted == TypeOK /\ RowsAdmitted /\ [Next]_vars => RowsAdmitted'
  <1> SUFFICES ASSUME TypeOK /\ RowsAdmitted, [Next]_vars PROVE RowsAdmitted'
    OBVIOUS
  <1>1. ASSUME NEW k \in Key, NEW r \in Request, Submit(k, r) PROVE RowsAdmitted'
    <2>1. \A j \in Key : jobStatus'[j] # "absent" <=> (jobStatus[j] # "absent" \/ j = k)
      BY <1>1 DEF Submit, TypeOK
    <2> QED
      BY <1>1, <2>1, TargetParts DEF Submit, RowsAdmitted
  <1>2. ASSUME NEW t \in Target, Claim(t) PROVE RowsAdmitted'
    BY <1>2, TargetParts DEF Claim, Claimable, RowsAdmitted, TypeOK
  <1>3. ASSUME NEW t \in Target, NEW tok \in Tokens(t), NEW o \in Outcome,
               Complete(t, tok, o)
        PROVE  RowsAdmitted'
    <2>1. \A k \in Key : jobStatus[k] # "absent" => jobStatus'[k] # "absent"
      BY <1>3, FinalizeKeepsRows DEF Complete
    <2> QED
      BY <1>3, <2>1, TargetParts DEF Complete, Holds, RowsAdmitted, TypeOK
  <1>4. ASSUME NEW k \in Key, RequestCancel(k) PROVE RowsAdmitted'
    <2>1. \A j \in Key : jobStatus[j] # "absent" => jobStatus'[j] # "absent"
      BY <1>4, FinalizeKeepsRows DEF RequestCancel
    <2> QED
      BY <1>4, <2>1, TargetParts DEF RequestCancel, Admitted, TargetsOf, RowsAdmitted, TypeOK
  <1>5. ASSUME RecoverExpired PROVE RowsAdmitted'
    <2>1. \A k \in Key : jobStatus[k] # "absent" => jobStatus'[k] # "absent"
      BY <1>5, FinalizeKeepsRows DEF RecoverExpired
    <2> QED
      BY <1>5, <2>1, TargetParts DEF RecoverExpired, Expired, RowsAdmitted
  <1>6. CASE Quiet
    BY <1>6 DEF Quiet, jobVars, RowsAdmitted
  <1> QED
    BY <1>1, <1>2, <1>3, <1>4, <1>5, <1>6, StepCases

\* The capacity counter keeps counting the active targets.
LEMMA NextCapacityExact == TypeOK /\ RowsAdmitted /\ CapacityExact /\ [Next]_vars => CapacityExact'
  <1> SUFFICES ASSUME TypeOK /\ RowsAdmitted /\ CapacityExact, [Next]_vars PROVE CapacityExact'
    OBVIOUS
  <1>1. ASSUME NEW k \in Key, NEW r \in Request, Submit(k, r) PROVE CapacityExact'
    <2>1. Reserving(k, r) \subseteq TargetsOf(k)
      BY DEF Reserving
    <2>2. /\ Active \subseteq Target /\ Reserving(k, r) \subseteq Target
          /\ Active \cap Reserving(k, r) = {}
      BY <1>1, <2>1, SubmitActive, ReservingCount DEF Active
    <2>3. Cardinality(Active') = Cardinality(Active) + Cardinality(Reserving(k, r))
      BY <1>1, <2>2, SubmitActive, CountAdded
    <2> QED
      BY <1>1, <2>3 DEF Submit, CapacityExact
  <1>2. ASSUME NEW t \in Target, Claim(t) PROVE CapacityExact'
    BY <1>2, ClaimActive DEF Claim, CapacityExact
  <1>3. ASSUME NEW t \in Target, NEW tok \in Tokens(t), NEW o \in Outcome,
               Complete(t, tok, o)
        PROVE  CapacityExact'
    <2>1. Active \subseteq Target /\ {t} \subseteq Active
      BY <1>3, CompleteActive DEF Active
    <2>2. Cardinality(Active') = Cardinality(Active) - Cardinality({t})
      BY <1>3, <2>1, CompleteActive, CountRemoved
    <2>3. Cardinality({t}) = 1
      BY FS_Singleton
    <2> QED
      BY <1>3, <2>2, <2>3 DEF Complete, CapacityExact
  <1>4. ASSUME NEW k \in Key, RequestCancel(k) PROVE CapacityExact'
    <2> DEFINE queued == {t \in TargetsOf(k) : status[t] = "queued"}
    <2>1. Active \subseteq Target /\ queued \subseteq Active
      BY <1>4, CancelActive DEF Active
    <2>2. Active' = Active \ queued
      BY <1>4, CancelActive
    <2>3. reserved' = reserved - Cardinality(queued)
      BY <1>4 DEF RequestCancel
    <2> HIDE DEF queued
    <2>4. Cardinality(Active') = Cardinality(Active) - Cardinality(queued)
      BY <2>1, <2>2, CountRemoved
    <2> QED
      BY <2>3, <2>4 DEF CapacityExact
  <1>5. ASSUME RecoverExpired PROVE CapacityExact'
    <2>1. Active \subseteq Target /\ GivenUp \subseteq Active
      BY <1>5, RecoverActive DEF Active
    <2>2. Cardinality(Active') = Cardinality(Active) - Cardinality(GivenUp)
      BY <1>5, <2>1, RecoverActive, CountRemoved
    <2> QED
      BY <1>5, <2>2 DEF RecoverExpired, CapacityExact
  <1>6. CASE Quiet
    BY <1>6 DEF Quiet, CapacityExact, Active
  <1> QED
    BY <1>1, <1>2, <1>3, <1>4, <1>5, <1>6, StepCases

\* A job's pin follows its active targets when targets are only taken away.
LEMMA FinalizePin ==
    ASSUME TypeOK, PinExact, NEW J, J \subseteq Key, FinalizeJobs(status', J),
           payload' = payload, Active' \subseteq Active,
           \A k \in Key \ J : \A t \in TargetsOf(k) : status'[t] = status[t]
    PROVE  PinExact'
  <1>1. \A k \in Key : \A t \in TargetsOf(k) : t \in Target
    BY DEF TargetsOf
  <1> SUFFICES ASSUME NEW k \in Key
               PROVE  k \in pins' <=>
                        /\ payload[k].bundle # NoBundle
                        /\ \E t \in TargetsOf(k) : status'[t] \in ActiveStatus
    BY DEF PinExact, TargetsOf
  <1>2. k \in pins <=> /\ payload[k].bundle # NoBundle
                       /\ \E t \in TargetsOf(k) : status[t] \in ActiveStatus
    BY DEF PinExact
  <1>3. CASE k \in J
    <2>1. k \in pins' <=> /\ k \in pins
                          /\ \E t \in TargetsOf(k) : status'[t] \in ActiveStatus
      BY <1>3 DEF FinalizeJobs, Settled
    <2>2. \A t \in TargetsOf(k) : status'[t] \in ActiveStatus => status[t] \in ActiveStatus
      BY <1>1 DEF Active
    <2> QED
      BY <1>2, <2>1, <2>2
  <1>4. CASE k \notin J
    <2>1. k \in pins' <=> k \in pins
      BY <1>4 DEF FinalizeJobs, Settled
    <2> QED
      BY <1>2, <1>4, <2>1
  <1> QED
    BY <1>3, <1>4

\* A pin is held exactly while a target of the pinned batch is active.
LEMMA NextPinExact == TypeOK /\ RowsAdmitted /\ PinExact /\ [Next]_vars => PinExact'
  <1> SUFFICES ASSUME TypeOK /\ RowsAdmitted /\ PinExact, [Next]_vars PROVE PinExact'
    OBVIOUS
  <1>1. ASSUME NEW k \in Key, NEW r \in Request, Submit(k, r) PROVE PinExact'
    <2>1. \A t \in TargetsOf(k) : t \in Active' <=> t \in Reserving(k, r)
      BY <1>1, SubmitActive
    <2>2. Cardinality(Reserving(k, r)) > 0 <=> \E t \in TargetsOf(k) : status'[t] \in ActiveStatus
      <3>1. Cardinality(Reserving(k, r)) > 0 <=> Reserving(k, r) # {}
        BY ReservingCount, TargetsFinite, FS_EmptySet
      <3>2. Reserving(k, r) \subseteq TargetsOf(k) /\ TargetsOf(k) \subseteq Target
        BY DEF Reserving, TargetsOf
      <3> QED
        BY <2>1, <3>1, <3>2 DEF Active
    <2>3. k \notin pins
      BY <1>1, SubmitActive DEF PinExact, ActiveStatus
    <2>5. payload'[k] = r /\ (k \in pins' <=> r.bundle # NoBundle /\ Cardinality(Reserving(k, r)) > 0)
      BY <1>1, <2>3 DEF Submit, TypeOK
    <2> SUFFICES ASSUME NEW j \in Key
                 PROVE  j \in pins' <=>
                          /\ payload'[j].bundle # NoBundle
                          /\ \E t \in TargetsOf(j) : status'[t] \in ActiveStatus
      BY DEF PinExact, TargetsOf
    <2>6. CASE j = k
      BY <2>2, <2>5, <2>6
    <2>7. CASE j # k
      <3>1. /\ payload'[j] = payload[j]
            /\ j \in pins' <=> j \in pins
            /\ \A t \in TargetsOf(j) : status'[t] = status[t]
        <4>1. payload'[j] = payload[j]
          BY <1>1, <2>7 DEF Submit, TypeOK
        <4>2. j \in pins' <=> j \in pins
          BY <1>1, <2>7 DEF Submit
        <4>3. \A t \in TargetsOf(j) : status'[t] = status[t]
          BY <1>1, <2>7 DEF Submit, TargetsOf
        <4> QED
          BY <4>1, <4>2, <4>3
      <3>2. j \in pins <=> /\ payload[j].bundle # NoBundle
                           /\ \E t \in TargetsOf(j) : status[t] \in ActiveStatus
        BY DEF PinExact
      <3> QED
        BY <3>1, <3>2
    <2> QED
      BY <2>6, <2>7
  <1>2. ASSUME NEW t \in Target, Claim(t) PROVE PinExact'
    <2>1. \A s \in Target : status'[s] \in ActiveStatus <=> status[s] \in ActiveStatus
      BY <1>2, ClaimActive DEF Active
    <2> QED
      BY <1>2, <2>1 DEF Claim, PinExact, TargetsOf
  <1>3. ASSUME NEW t \in Target, NEW tok \in Tokens(t), NEW o \in Outcome,
               Complete(t, tok, o)
        PROVE  PinExact'
    <2>1. \A k \in Key \ {JobOf(t)} : \A s \in TargetsOf(k) : status'[s] = status[s]
      BY <1>3 DEF Complete, TargetsOf, TypeOK
    <2>2. Active' \subseteq Active
      BY <1>3, CompleteActive
    <2>3. FinalizeJobs(status', {JobOf(t)}) /\ payload' = payload
      BY <1>3 DEF Complete
    <2> QED
      BY <2>1, <2>2, <2>3, TargetParts, FinalizePin
  <1>4. ASSUME NEW k \in Key, RequestCancel(k) PROVE PinExact'
    <2>1. \A j \in Key \ {k} : \A s \in TargetsOf(j) : status'[s] = status[s]
      BY <1>4 DEF RequestCancel, TargetsOf
    <2>2. Active' \subseteq Active
      BY <1>4, CancelActive
    <2>3. FinalizeJobs(status', {k}) /\ payload' = payload
      BY <1>4 DEF RequestCancel
    <2> QED
      BY <2>1, <2>2, <2>3, FinalizePin
  <1>5. ASSUME RecoverExpired PROVE PinExact'
    <2> DEFINE J == {JobOf(t) : t \in Expired}
    <2>1. \A j \in Key \ J : \A s \in TargetsOf(j) : status'[s] = status[s]
      BY <1>5 DEF RecoverExpired, TargetsOf
    <2>2. Active' \subseteq Active
      BY <1>5, RecoverActive
    <2>3. FinalizeJobs(status', J) /\ payload' = payload
      BY <1>5 DEF RecoverExpired
    <2>4. J \subseteq Key
      BY TargetParts DEF Expired
    <2> HIDE DEF J
    <2> QED
      BY <2>1, <2>2, <2>3, <2>4, FinalizePin
  <1>6. CASE Quiet
    BY <1>6 DEF Quiet, jobVars, PinExact, TargetsOf
  <1> QED
    BY <1>1, <1>2, <1>3, <1>4, <1>5, <1>6, StepCases

\* Admission checks the bundle, and pruning spares a pinned one.
LEMMA NextPinnedBundleAvailable ==
    TypeOK /\ RowsAdmitted /\ PinExact /\ PinnedBundleAvailable /\ [Next]_vars
      => PinnedBundleAvailable'
  <1> SUFFICES ASSUME TypeOK, RowsAdmitted, PinExact, PinnedBundleAvailable, [Next]_vars
               PROVE  PinnedBundleAvailable'
    OBVIOUS
  <1>1. ASSUME NEW k \in Key, NEW r \in Request, Submit(k, r)
        PROVE  PinnedBundleAvailable'
    <2>1. \A t \in Active' : t \in Active \/ JobOf(t) = k
      BY <1>1, SubmitActive DEF Reserving, TargetsOf
    <2>2. \A t \in Active : JobOf(t) # k /\ JobOf(t) \in Key
      BY <1>1, SubmitActive, TargetParts DEF Active, TargetsOf
    <2>3. payload'[k] = r /\ (\A j \in Key \ {k} : payload'[j] = payload[j])
      BY <1>1 DEF Submit, TypeOK
    <2>4. r.bundle # NoBundle => r.bundle \in available
      BY <1>1 DEF Submit, BundleAdmissible
    <2>5. available' = available
      BY <1>1 DEF Submit, bundleVars
    <2> QED
      BY <2>1, <2>2, <2>3, <2>4, <2>5 DEF PinnedBundleAvailable
  <1>2. ASSUME Active' \subseteq Active, payload' = payload, available \subseteq available'
        PROVE  PinnedBundleAvailable'
    BY <1>2 DEF PinnedBundleAvailable
  <1>3. ASSUME NEW t \in Target, Claim(t) PROVE PinnedBundleAvailable'
    BY <1>2, <1>3, ClaimActive DEF Claim, bundleVars
  <1>4. ASSUME NEW t \in Target, NEW tok \in Tokens(t), NEW o \in Outcome,
               Complete(t, tok, o)
        PROVE  PinnedBundleAvailable'
    BY <1>2, <1>4, CompleteActive DEF Complete, bundleVars
  <1>5. ASSUME NEW k \in Key, RequestCancel(k) PROVE PinnedBundleAvailable'
    BY <1>2, <1>5, CancelActive DEF RequestCancel, bundleVars
  <1>6. ASSUME RecoverExpired PROVE PinnedBundleAvailable'
    BY <1>2, <1>6, RecoverActive DEF RecoverExpired, bundleVars
  <1>7. ASSUME NEW b \in Bundle, MarkUnavailable(b) PROVE PinnedBundleAvailable'
    <2>1. \A t \in Active : payload[JobOf(t)].bundle # NoBundle => JobOf(t) \in pins
      BY TargetParts DEF PinExact, Active, TargetsOf
    <2>2. \A t \in Active : payload[JobOf(t)].bundle # b
      BY <1>7, <2>1, ConstantsAssumption DEF MarkUnavailable, Protected, Pinned
    <2>3. Active' = Active /\ payload' = payload /\ available' = available \ {b}
      BY <1>7 DEF MarkUnavailable, jobVars, targetVars, Active
    <2> QED
      BY <2>2, <2>3 DEF PinnedBundleAvailable
  <1>8. ASSUME \/ \E t \in Target : \E tok \in Tokens(t) : Renew(t, tok)
               \/ \E t \in Target : LeaseExpires(t)
               \/ \E b \in Bundle : RegisterBundle(b)
               \/ \E b \in Bundle : CommitBundleActivation(b)
               \/ UNCHANGED vars
        PROVE  PinnedBundleAvailable'
    <2>1. status' = status /\ payload' = payload /\ available \subseteq available'
      BY <1>8 DEF Renew, LeaseExpires, RegisterBundle, CommitBundleActivation,
                  vars, jobVars, targetVars, bundleVars
    <2> QED
      BY <1>2, <2>1 DEF Active
  <1> QED
    BY <1>1, <1>3, <1>4, <1>5, <1>6, <1>7, <1>8 DEF Next

\* Recovery requeues only below the attempt limit.
LEMMA NextAttempts == TypeOK /\ RowsAdmitted /\ AttemptBudget /\ AttemptLeft /\ [Next]_vars => (AttemptBudget /\ AttemptLeft)'
  <1> SUFFICES ASSUME TypeOK /\ RowsAdmitted /\ AttemptBudget /\ AttemptLeft, [Next]_vars PROVE (AttemptBudget /\ AttemptLeft)'
    OBVIOUS
  <1>1. ASSUME NEW k \in Key, NEW r \in Request, Submit(k, r) PROVE (AttemptBudget /\ AttemptLeft)'
    <2>1. \A t \in Target : attempts'[t] = attempts[t] /\
             (JobOf(t) = k => status[t] = "absent") /\
             (JobOf(t) # k => status'[t] = status[t])
      BY <1>1, SubmitActive DEF Submit, TargetsOf
    <2> QED
      BY <2>1 DEF AttemptBudget, AttemptLeft
  <1>2. ASSUME NEW t \in Target, Claim(t) PROVE (AttemptBudget /\ AttemptLeft)'
    BY <1>2, ConstantsAssumption DEF Claim, Claimable, AttemptBudget, AttemptLeft, TypeOK
  <1>3. ASSUME NEW t \in Target, NEW tok \in Tokens(t), NEW o \in Outcome,
               Complete(t, tok, o)
        PROVE  (AttemptBudget /\ AttemptLeft)'
    BY <1>3, ConstantsAssumption
    DEF Complete, AttemptBudget, AttemptLeft, TypeOK, TerminalStatus
  <1>4. ASSUME NEW k \in Key, RequestCancel(k) PROVE (AttemptBudget /\ AttemptLeft)'
    BY <1>4 DEF RequestCancel, AttemptBudget, AttemptLeft
  <1>5. ASSUME RecoverExpired PROVE (AttemptBudget /\ AttemptLeft)'
    BY <1>5, ConstantsAssumption
    DEF RecoverExpired, RecoveredStatus, AttemptBudget, AttemptLeft, TypeOK
  <1>6. CASE Quiet
    BY <1>6 DEF Quiet, AttemptBudget, AttemptLeft
  <1> QED
    BY <1>1, <1>2, <1>3, <1>4, <1>5, <1>6, StepCases

\* A cancelled job never has a queued target again.
LEMMA NextCancelDrainsQueue == TypeOK /\ RowsAdmitted /\ CancelDrainsQueue /\ [Next]_vars => CancelDrainsQueue'
  <1> SUFFICES ASSUME TypeOK /\ RowsAdmitted /\ CancelDrainsQueue, [Next]_vars PROVE CancelDrainsQueue'
    OBVIOUS
  <1>1. ASSUME NEW k \in Key, NEW r \in Request, Submit(k, r) PROVE CancelDrainsQueue'
    <2>1. ~cancelRequested[k]
      BY <1>1 DEF Submit, Admitted, RowsAdmitted
    <2> QED
      BY <1>1, <2>1 DEF Submit, CancelDrainsQueue
  <1>2. ASSUME NEW t \in Target, Claim(t) PROVE CancelDrainsQueue'
    BY <1>2 DEF Claim, CancelDrainsQueue, TypeOK
  <1>3. ASSUME NEW t \in Target, NEW tok \in Tokens(t), NEW o \in Outcome,
               Complete(t, tok, o)
        PROVE  CancelDrainsQueue'
    BY <1>3, ConstantsAssumption DEF Complete, CancelDrainsQueue, TypeOK, TerminalStatus
  <1>4. ASSUME NEW k \in Key, RequestCancel(k) PROVE CancelDrainsQueue'
    BY <1>4, TargetParts DEF RequestCancel, CancelDrainsQueue, TypeOK, TargetsOf
  <1>5. ASSUME RecoverExpired PROVE CancelDrainsQueue'
    BY <1>5 DEF RecoverExpired, RecoveredStatus, CancelDrainsQueue
  <1>6. CASE Quiet
    BY <1>6 DEF Quiet, jobVars, CancelDrainsQueue
  <1> QED
    BY <1>1, <1>2, <1>3, <1>4, <1>5, <1>6, StepCases


\* A job has an active target.
Open(st, k) == \E t \in TargetsOf(k) : st[t] \in ActiveStatus

\* The status finalizeJob computes for a job none of whose targets is active.
Aggregate(st, k) ==
    LET outcomes == {st[t] : t \in TargetsOf(k)} \ {"absent"}
    IN  IF "failed" \in outcomes /\ outcomes \cap {"completed", "partial"} = {} THEN "failed"
        ELSE IF outcomes = {"cancelled"} THEN "cancelled"
        ELSE IF outcomes \cap {"partial", "failed", "cancelled"} # {} THEN "partial"
        ELSE "completed"

LEMMA FinalStatusValue ==
    ASSUME NEW st, NEW k
    PROVE  FinalStatus(st, k) = IF Open(st, k) THEN jobStatus[k] ELSE Aggregate(st, k)
  <1> DEFINE outcomes == {st[t] : t \in TargetsOf(k)} \ {"absent"}
  <1>1. Open(st, k) <=> outcomes \cap ActiveStatus # {}
    BY DEF Open, ActiveStatus
  <1> QED
    BY <1>1 DEF FinalStatus, Aggregate

\* JobStatusSound, one job at a time, with the aggregate named.
JobSound(k) ==
    /\ jobStatus[k] \in TerminalStatus <=> ~Open(status, k)
    /\ ~Open(status, k) => jobStatus[k] = Aggregate(status, k)
    /\ jobStatus[k] = "queued" => \A t \in TargetsOf(k) : attempts[t] = 0

LEMMA JobStatusByJob == JobStatusSound <=> \A k \in Admitted : JobSound(k)
  BY FinalStatusValue DEF JobStatusSound, JobSound, Open

\* finalizeJob's aggregate is a terminal status, and reads only the rows of its
\* own job.
LEMMA AggregateTerminal ==
    ASSUME NEW st, NEW k
    PROVE  Aggregate(st, k) \in TerminalStatus
  BY DEF Aggregate, TerminalStatus

LEMMA AggregateLocal ==
    ASSUME NEW st, NEW ts, NEW k, \A t \in TargetsOf(k) : st[t] = ts[t]
    PROVE  /\ Aggregate(st, k) = Aggregate(ts, k)
           /\ Open(st, k) <=> Open(ts, k)
  <1>1. {st[t] : t \in TargetsOf(k)} = {ts[t] : t \in TargetsOf(k)}
    OBVIOUS
  <1>2. Aggregate(st, k) = Aggregate(ts, k)
    BY <1>1 DEF Aggregate
  <1> QED
    BY <1>2 DEF Open

\* A job whose rows a step does not touch stays sound.
LEMMA JobUntouched ==
    ASSUME NEW k, JobSound(k), jobStatus'[k] = jobStatus[k],
           \A t \in TargetsOf(k) : status'[t] = status[t],
           \A t \in TargetsOf(k) : attempts'[t] = attempts[t]
    PROVE  JobSound(k)'
  <1>1. Aggregate(status', k) = Aggregate(status, k) /\ (Open(status', k) <=> Open(status, k))
    BY AggregateLocal
  <1> QED
    BY <1>1 DEF JobSound, TargetsOf, Open, Aggregate

\* Finalizing jobs from which targets were only taken away keeps them sound.
LEMMA FinalizeSound ==
    ASSUME TypeOK, JobStatusSound, NEW J, FinalizeJobs(status', J),
           attempts' = attempts, Active' \subseteq Active,
           \A k \in Key \ J : \A t \in TargetsOf(k) : status'[t] = status[t]
    PROVE  JobStatusSound'
  <1>0. \A k \in Key : \A t \in TargetsOf(k) : t \in Target
    BY DEF TargetsOf
  <1>1. \A k \in Key : jobStatus'[k] = IF k \in J THEN FinalStatus(status', k) ELSE jobStatus[k]
    BY DEF FinalizeJobs
  <1>2. ASSUME NEW k \in Key, jobStatus'[k] # "absent", jobStatus[k] # "absent"
        PROVE  JobSound(k)'
    <2>1. JobSound(k)
      BY <1>2, JobStatusByJob DEF Admitted
    <2>2. CASE k \notin J
      BY <1>1, <2>1, <2>2, JobUntouched
    <2>3. CASE k \in J /\ Open(status', k)
      <3>1. jobStatus'[k] = jobStatus[k]
        BY <1>1, <2>3, FinalStatusValue
      <3>2. Open(status, k)
        BY <1>0, <2>3 DEF Open, Active
      <3> QED
        BY <2>1, <2>3, <3>1, <3>2 DEF JobSound, Open, TargetsOf
    <2>4. CASE k \in J /\ ~Open(status', k)
      <3>1. jobStatus'[k] = Aggregate(status', k)
        BY <1>1, <2>4, FinalStatusValue
      <3>2. jobStatus'[k] \in TerminalStatus /\ jobStatus'[k] # "queued"
        BY <3>1, AggregateTerminal DEF TerminalStatus
      <3>3. Aggregate(status', k) = Aggregate(status, k)' /\ (Open(status', k) <=> Open(status, k)')
        BY DEF Aggregate, Open, TargetsOf
      <3> QED
        BY <2>4, <3>1, <3>2, <3>3 DEF JobSound
    <2> QED
      BY <2>2, <2>3, <2>4
  <1>3. ASSUME NEW k \in Key, jobStatus[k] = "absent", jobStatus'[k] # "absent"
        PROVE  JobSound(k)'
    <2>1. k \in J /\ ~Open(status', k)
      BY <1>1, <1>3, FinalStatusValue
    <2>2. jobStatus'[k] = Aggregate(status', k)
      BY <1>1, <2>1, FinalStatusValue
    <2>3. jobStatus'[k] \in TerminalStatus /\ jobStatus'[k] # "queued"
      BY <2>2, AggregateTerminal DEF TerminalStatus
    <2>4. Aggregate(status', k) = Aggregate(status, k)' /\ (Open(status', k) <=> Open(status, k)')
      BY DEF Aggregate, Open, TargetsOf
    <2> QED
      BY <2>1, <2>2, <2>3, <2>4 DEF JobSound
  <1>4. (\A k \in Admitted : JobSound(k))'
    BY <1>2, <1>3 DEF Admitted
  <1> QED
    BY <1>4, JobStatusByJob, PTL

\* The job row follows its target rows through every operation.
LEMMA NextJobStatusSound ==
    TypeOK /\ RowsAdmitted /\ AbsentUnclaimed /\ JobStatusSound /\ [Next]_vars
      => AbsentUnclaimed' /\ JobStatusSound'
  <1> SUFFICES ASSUME TypeOK, RowsAdmitted, AbsentUnclaimed, JobStatusSound, [Next]_vars
               PROVE  AbsentUnclaimed' /\ JobStatusSound'
    OBVIOUS
  <1>a. \A k \in Key : \A t \in TargetsOf(k) : t \in Target
    BY DEF TargetsOf
  <1>b. ASSUME \A k \in Key : jobStatus'[k] # "absent" => JobSound(k)'
        PROVE  JobStatusSound'
    <2>1. (\A k \in Admitted : JobSound(k))'
      BY <1>b DEF Admitted
    <2> QED
      BY <2>1, JobStatusByJob, PTL
  <1>c. \A k \in Key : jobStatus[k] # "absent" => JobSound(k)
    BY JobStatusByJob DEF Admitted
  <1>1. ASSUME NEW k \in Key, NEW r \in Request, Submit(k, r)
        PROVE  AbsentUnclaimed' /\ JobStatusSound'
    <2>1. /\ \A t \in TargetsOf(k) : status[t] = "absent" /\ attempts[t] = 0
          /\ attempts' = attempts
      BY <1>1, <1>a, SubmitActive DEF Submit, AbsentUnclaimed
    <2>2. AbsentUnclaimed'
      BY <1>1, <2>1 DEF Submit, AbsentUnclaimed, TargetsOf
    <2>3. \A t \in TargetsOf(k) : /\ r.work[t[2]] \in WorkKind
                                  /\ status'[t] = NewStatus(r.work[t[2]])
      BY <1>1, TargetParts, ConstantsAssumption DEF Submit, TargetsOf
    <2>4. \A t \in TargetsOf(k) : status'[t] \in ActiveStatus <=> t \in Reserving(k, r)
      <3>1. \A w \in WorkKind : NewStatus(w) \in ActiveStatus <=> w = "valid"
        BY DEF NewStatus, WorkKind, ActiveStatus
      <3> QED
        BY <2>3, <3>1 DEF Reserving
    <2>5. Cardinality(Reserving(k, r)) = 0 <=> ~Open(status', k)
      <3>1. Cardinality(Reserving(k, r)) = 0 <=> Reserving(k, r) = {}
        BY ReservingCount, TargetsFinite, FS_EmptySet
      <3> QED
        BY <2>4, <3>1 DEF Open, Reserving
    <2>6. ~Open(status', k) => Aggregate(status', k) = "failed"
      <3> SUFFICES ASSUME ~Open(status', k) PROVE Aggregate(status', k) = "failed"
        OBVIOUS
      <3> DEFINE outcomes == {status'[t] : t \in TargetsOf(k)} \ {"absent"}
      <3>1. \A t \in TargetsOf(k) : status'[t] \in {"absent", "failed"}
        <4>1. \A w \in WorkKind : NewStatus(w) \in {"absent", "failed"} \cup ActiveStatus
          BY DEF NewStatus, WorkKind, ActiveStatus
        <4> QED
          BY <2>3, <4>1 DEF Open
      <3>2. PICK i \in Index : r.work[i] # "none"
        BY <1>1 DEF Submit
      <3>3. <<k, i>> \in TargetsOf(k) /\ <<k, i>>[2] = i
        BY DEF TargetsOf, Target, JobOf
      <3>4. status'[<<k, i>>] # "absent"
        <4>1. \A w \in WorkKind : w # "none" => NewStatus(w) # "absent"
          BY DEF NewStatus, WorkKind
        <4> QED
          BY <2>3, <3>2, <3>3, <4>1
      <3>5. outcomes = {"failed"}
        BY <3>1, <3>3, <3>4
      <3> QED
        BY <3>5 DEF Aggregate
    <2>7. jobStatus'[k] = IF Open(status', k) THEN "queued" ELSE "failed"
      BY <1>1, <2>5 DEF Submit, TypeOK
    <2>8. JobSound(k)'
      <3>1. Aggregate(status', k) = Aggregate(status, k)' /\ (Open(status', k) <=> Open(status, k)')
        BY DEF Aggregate, Open, TargetsOf
      <3>2. (\A t \in TargetsOf(k) : attempts[t] = 0)'
        BY <2>1 DEF TargetsOf
      <3> QED
        BY <2>6, <2>7, <3>1, <3>2 DEF JobSound, TerminalStatus
    <2>9. ASSUME NEW j \in Key \ {k}, jobStatus'[j] # "absent" PROVE JobSound(j)'
      <3>1. jobStatus'[j] = jobStatus[j] /\ \A t \in TargetsOf(j) : status'[t] = status[t]
        BY <1>1, <2>9 DEF Submit, TypeOK, TargetsOf
      <3> QED
        BY <1>c, <2>1, <2>9, <3>1, JobUntouched
    <2> QED
      BY <1>b, <2>2, <2>8, <2>9
  <1>2. ASSUME NEW t \in Target, Claim(t)
        PROVE  AbsentUnclaimed' /\ JobStatusSound'
    <2>1. /\ JobOf(t) \in Key /\ t \in TargetsOf(JobOf(t))
          /\ jobStatus'[JobOf(t)] = "running" /\ status'[t] = "running"
      BY <1>2, TargetParts DEF Claim, TypeOK, TargetsOf
    <2>2. AbsentUnclaimed'
      BY <1>2 DEF Claim, TypeOK, AbsentUnclaimed, Claimable
    <2>3. JobSound(JobOf(t))'
      <3>1. Open(status, JobOf(t))'
        BY <2>1 DEF Open, TargetsOf, ActiveStatus
      <3> QED
        BY <2>1, <3>1 DEF JobSound, TerminalStatus
    <2>4. ASSUME NEW j \in Key \ {JobOf(t)}, jobStatus'[j] # "absent" PROVE JobSound(j)'
      <3>1. jobStatus'[j] = jobStatus[j]
        BY <1>2, <2>4 DEF Claim, TypeOK
      <3>2. \A s \in TargetsOf(j) : status'[s] = status[s] /\ attempts'[s] = attempts[s]
        BY <1>2, <2>4 DEF Claim, TypeOK, TargetsOf
      <3> QED
        BY <1>c, <2>4, <3>1, <3>2, JobUntouched
    <2> QED
      BY <1>b, <2>2, <2>3, <2>4
  <1>3. ASSUME NEW t \in Target, NEW tok \in Tokens(t), NEW o \in Outcome,
               Complete(t, tok, o)
        PROVE  AbsentUnclaimed' /\ JobStatusSound'
    <2>1. \A k \in Key \ {JobOf(t)} : \A s \in TargetsOf(k) : status'[s] = status[s]
      BY <1>3 DEF Complete, TargetsOf, TypeOK
    <2>2. Active' \subseteq Active
      BY <1>3, CompleteActive
    <2>3. FinalizeJobs(status', {JobOf(t)}) /\ attempts' = attempts
      BY <1>3 DEF Complete
    <2>4. AbsentUnclaimed'
      BY <1>3, ConstantsAssumption DEF Complete, AbsentUnclaimed, TypeOK, TerminalStatus
    <2> QED
      BY <2>1, <2>2, <2>3, <2>4, FinalizeSound
  <1>4. ASSUME NEW k \in Key, RequestCancel(k)
        PROVE  AbsentUnclaimed' /\ JobStatusSound'
    <2>1. \A j \in Key \ {k} : \A s \in TargetsOf(j) : status'[s] = status[s]
      BY <1>4 DEF RequestCancel, TargetsOf
    <2>2. Active' \subseteq Active
      BY <1>4, CancelActive
    <2>3. FinalizeJobs(status', {k}) /\ attempts' = attempts
      BY <1>4 DEF RequestCancel
    <2>4. AbsentUnclaimed'
      BY <1>4 DEF RequestCancel, AbsentUnclaimed
    <2> QED
      BY <2>1, <2>2, <2>3, <2>4, FinalizeSound
  <1>5. ASSUME RecoverExpired
        PROVE  AbsentUnclaimed' /\ JobStatusSound'
    <2> DEFINE J == {JobOf(t) : t \in Expired}
    <2>1. \A j \in Key \ J : \A s \in TargetsOf(j) : status'[s] = status[s]
      BY <1>5 DEF RecoverExpired, TargetsOf
    <2>2. Active' \subseteq Active
      BY <1>5, RecoverActive
    <2>3. FinalizeJobs(status', J) /\ attempts' = attempts
      BY <1>5 DEF RecoverExpired
    <2>4. AbsentUnclaimed'
      BY <1>5 DEF RecoverExpired, RecoveredStatus, AbsentUnclaimed
    <2> HIDE DEF J
    <2> QED
      BY <2>1, <2>2, <2>3, <2>4, FinalizeSound
  <1>6. CASE Quiet
    <2>1. AbsentUnclaimed'
      BY <1>6 DEF Quiet, AbsentUnclaimed
    <2>2. JobStatusSound'
      BY <1>6, <1>b, <1>c, JobUntouched DEF Quiet, jobVars
    <2> QED
      BY <2>1, <2>2
  <1> QED
    BY <1>1, <1>2, <1>3, <1>4, <1>5, <1>6, StepCases

LEMMA InitStoreInv == Init => StoreInv
  <1> SUFFICES ASSUME Init PROVE StoreInv
    OBVIOUS
  <1>1. TypeOK
    BY InitTypeOK
  <1>2. Active = {}
    BY DEF Init, Active, ActiveStatus
  <1>3. CapacityExact
    BY <1>2, FS_EmptySet DEF Init, CapacityExact
  <1>4. PinExact
    BY DEF Init, PinExact, EmptyRequest
  <1>5. PinnedBundleAvailable
    BY <1>2 DEF PinnedBundleAvailable
  <1>6. RowsAdmitted /\ AttemptBudget /\ AttemptLeft /\ CancelDrainsQueue
    BY ConstantsAssumption, TargetParts
    DEF Init, RowsAdmitted, AttemptBudget, AttemptLeft, CancelDrainsQueue
  <1>7. AbsentUnclaimed /\ JobStatusSound
    BY DEF Init, AbsentUnclaimed, JobStatusSound, Admitted
  <1> QED
    BY <1>1, <1>3, <1>4, <1>5, <1>6, <1>7 DEF StoreInv

\* Every lifecycle invariant holds in every reachable state.
THEOREM StoreInvariant == Spec => []StoreInv
  <1>1. StoreInv /\ [Next]_vars => StoreInv'
    BY NextTypeOK, NextRowsAdmitted, NextCapacityExact, NextPinExact,
       NextPinnedBundleAvailable, NextAttempts, NextCancelDrainsQueue, NextJobStatusSound
    DEF StoreInv
  <1> QED
    BY <1>1, InitStoreInv, PTL DEF Spec

\* Reservations neither leak nor are released twice, whatever the mix of
\* completions, cancellations and recoveries.
THEOREM ReservationsExact == Spec => []CapacityExact
  BY StoreInvariant, PTL DEF StoreInv

\* A durable pin lives exactly as long as the batch has a nonterminal target.
THEOREM PinsExact == Spec => []PinExact
  BY StoreInvariant, PTL DEF StoreInv

\* Pruning and activation never take the bundle from accepted work.
THEOREM PinsProtect == Spec => []PinnedBundleAvailable
  BY StoreInvariant, PTL DEF StoreInv

\* No target is started more often than the attempt limit allows.
THEOREM AttemptsBounded == Spec => []AttemptBudget
  BY StoreInvariant, PTL DEF StoreInv

\* A cancelled job never queues a target again.
THEOREM CancelDrains == Spec => []CancelDrainsQueue
  BY StoreInvariant, PTL DEF StoreInv

\* The job row that finalizeJob and Claim keep agrees with the target rows: it
\* is terminal exactly when they all are, with the aggregate of their outcomes,
\* and "queued" only while none was claimed.
THEOREM JobRowsSound == Spec => []JobStatusSound
  BY StoreInvariant, PTL DEF StoreInv

-----------------------------------------------------------------------------
(* The store implements JobContract.                                       *)

\* What a client sees of the target rows.
Ledger == [t \in Target |-> IF status[t] \in ActiveStatus THEN "pending" ELSE status[t]]

\* Pending work is active work.
LEMMA PendingActive == TypeOK => Contract!Pending = Active
  BY DEF Contract!Pending, Contract!Target, Active, Target, TypeOK, ActiveStatus, TerminalStatus

LEMMA ContractInit == Init => Contract!Init
  BY DEF Init, Contract!Init, Contract!Target, Target, EmptyRequest, ActiveStatus

\* The contract counts as the store does.
LEMMA ContractCardinality == \A S : Contract!Cardinality(S) = Cardinality(S)
  BY Zenon DEF Contract!Cardinality, Cardinality

\* A step that only ends active targets settles them in the contract.
LEMMA SettleStep ==
    ASSUME TypeOK, TypeOK', payload' = payload, available' = available,
           \A t \in Target : \/ status'[t] = status[t]
                             \/ status[t] \in ActiveStatus /\ status'[t] # "absent"
    PROVE  Contract!Settle
  <1>1. \A t \in Target : \/ Ledger'[t] = Ledger[t]
                          \/ Ledger[t] = "pending" /\ Ledger'[t] \in Contract!Terminal
    BY DEF Ledger, TypeOK, ActiveStatus, TerminalStatus, Contract!Terminal
  <1> QED
    BY <1>1 DEF Ledger, Contract!Settle, Contract!Target, Target

\* Admission of a batch, within the capacity that CapacityExact measures.
LEMMA AdmitStep ==
    ASSUME StoreInv, StoreInv', NEW k \in Key, NEW r \in Request, Submit(k, r)
    PROVE  Contract!Admit(k, r.bundle)
  <1>0. TypeOK /\ TypeOK' /\ RowsAdmitted /\ CapacityExact'
    BY DEF StoreInv
  <1>1. \A t \in Target : t[1] = k <=> t \in TargetsOf(k)
    BY DEF TargetsOf, JobOf
  <1>2. \A t \in Target : t[1] = k => Ledger[t] = "absent"
    BY <1>0, <1>1, SubmitActive DEF Ledger, ActiveStatus
  <1>3. \A t \in Target : t[1] # k => Ledger'[t] = Ledger[t]
    BY DEF Submit, JobOf, Ledger
  <1>4. \A t \in Target : t[1] = k => /\ r.work[t[2]] \in WorkKind
                                     /\ status'[t] = NewStatus(r.work[t[2]])
    BY TargetParts, ConstantsAssumption DEF Submit, JobOf
  <1>5. \A t \in Target : t[1] = k =>
            /\ Ledger'[t] \in {"absent", "pending", "failed"}
            /\ (r.work[t[2]] # "none" => Ledger'[t] # "absent")
    <2>1. \A w \in WorkKind : /\ NewStatus(w) \in {"absent", "failed"} \cup ActiveStatus
                              /\ (w # "none" => NewStatus(w) # "absent")
      BY DEF NewStatus, WorkKind, ActiveStatus
    <2> QED
      BY <1>4, <2>1 DEF Ledger, ActiveStatus
  <1>6. \E t \in Target : t[1] = k /\ Ledger'[t] # "absent"
    <2>1. PICK i \in Index : r.work[i] # "none"
      BY DEF Submit
    <2>2. <<k, i>> \in Target /\ <<k, i>>[1] = k /\ <<k, i>>[2] = i
      BY DEF Target
    <2> QED
      BY <1>5, <2>1, <2>2
  <1>7. Contract!Cardinality(Contract!Pending') <= MaximumTargets
    <2>1. (Contract!Pending = Active)'
      BY <1>0, PendingActive, PTL
    <2> QED
      BY <1>0, <2>1, ContractCardinality DEF CapacityExact, TypeOK
  <1>8. r.bundle \in available \cup {NoBundle}
    BY DEF Submit, BundleAdmissible
  <1>9. [j \in Key |-> payload[j].bundle]' =
            [[j \in Key |-> payload[j].bundle] EXCEPT ![k] = r.bundle]
    BY <1>0 DEF Submit, TypeOK
  <1>10. available' = available
    BY DEF Submit, bundleVars
  <1>11. Contract!Target = Target /\ Contract!Rows(k) = {t \in Target : t[1] = k}
    BY DEF Contract!Rows, Contract!Target, Target
  <1>12. \A t \in Contract!Rows(k) : Ledger[t] = "absent"
    BY <1>2, <1>11
  <1>13. \A t \in Contract!Target \ Contract!Rows(k) : Ledger'[t] = Ledger[t]
    BY <1>3, <1>11
  <1>14. \A t \in Contract!Rows(k) : Ledger'[t] \in {"absent", "pending", "failed"}
    BY <1>5, <1>11
  <1>15. \E t \in Contract!Rows(k) : Ledger'[t] # "absent"
    BY <1>6, <1>11
  <1> QED
    BY <1>7, <1>8, <1>9, <1>10, <1>12, <1>13, <1>14, <1>15 DEF Ledger, Contract!Admit

\* A step that changes nothing a client can see.
LEMMA StutterStep ==
    ASSUME payload' = payload, available' = available,
           \A t \in Target : \/ status'[t] = status[t]
                             \/ status'[t] \in ActiveStatus /\ status[t] \in ActiveStatus
    PROVE  UNCHANGED Contract!vars
  BY DEF Contract!vars

LEMMA ContractStep ==
    StoreInv /\ StoreInv' /\ [Next]_vars => [Contract!Next]_(Contract!vars)
  <1> SUFFICES ASSUME StoreInv, StoreInv', [Next]_vars
               PROVE  Contract!Next \/ UNCHANGED Contract!vars
    BY DEF Contract!vars
  <1>0. TypeOK /\ TypeOK' /\ RowsAdmitted /\ PinExact
    BY DEF StoreInv
  <1> USE DEF jobVars, targetVars, bundleVars
  <1>1. ASSUME NEW k \in Key, NEW r \in Request, Submit(k, r) PROVE Contract!Next
    <2>1. r.bundle \in Bundle \cup {NoBundle}
      BY ConstantsAssumption
    <2> QED
      BY <1>1, <2>1, AdmitStep DEF Contract!Next
  <1>2. ASSUME NEW t \in Target, Claim(t) PROVE UNCHANGED Contract!vars
    BY <1>0, <1>2, StutterStep DEF Claim, Claimable, TypeOK, ActiveStatus
  <1>3. ASSUME NEW t \in Target, NEW tok \in Tokens(t), Renew(t, tok)
        PROVE  UNCHANGED Contract!vars
    BY <1>3, StutterStep DEF Renew
  <1>4. ASSUME NEW t \in Target, LeaseExpires(t) PROVE UNCHANGED Contract!vars
    BY <1>4, StutterStep DEF LeaseExpires
  <1>5. ASSUME NEW t \in Target, NEW tok \in Tokens(t), NEW o \in Outcome,
               Complete(t, tok, o)
        PROVE  Contract!Next
    <2>1. Contract!Settle
      BY <1>0, <1>5, SettleStep, ConstantsAssumption
      DEF Complete, Holds, TypeOK, ActiveStatus, TerminalStatus
    <2> QED
      BY <2>1 DEF Contract!Next
  <1>6. ASSUME NEW k \in Key, RequestCancel(k) PROVE Contract!Next
    <2>1. Contract!Settle
      BY <1>0, <1>6, SettleStep DEF RequestCancel, TypeOK, ActiveStatus
    <2> QED
      BY <2>1 DEF Contract!Next
  <1>7. ASSUME RecoverExpired PROVE Contract!Next
    <2>1. Contract!Settle
      BY <1>0, <1>7, SettleStep
      DEF RecoverExpired, Expired, RecoveredStatus, TypeOK, ActiveStatus
    <2> QED
      BY <2>1 DEF Contract!Next
  <1>8. ASSUME NEW b \in Bundle, RegisterBundle(b) PROVE Contract!Next
    <2>1. Contract!Publish(b)
      BY <1>8 DEF RegisterBundle, Contract!Publish
    <2> QED
      BY <2>1 DEF Contract!Next
  <1>9. ASSUME NEW b \in Bundle, CommitBundleActivation(b) PROVE Contract!Next
    <2>1. Contract!Publish(b)
      BY <1>9 DEF CommitBundleActivation, Contract!Publish
    <2> QED
      BY <2>1 DEF Contract!Next
  <1>10. ASSUME NEW b \in Bundle, MarkUnavailable(b) PROVE Contract!Next
    <2>1. \A t \in Active : payload[JobOf(t)].bundle # b
      <3>1. \A t \in Active : payload[JobOf(t)].bundle # NoBundle => JobOf(t) \in pins
        BY <1>0, TargetParts DEF PinExact, Active, TargetsOf
      <3> QED
        BY <1>10, <3>1, ConstantsAssumption DEF MarkUnavailable, Protected, Pinned
    <2>2. \A t \in Contract!Pending : [k \in Key |-> payload[k].bundle][t[1]] # b
      BY <1>0, <2>1, PendingActive, TargetParts DEF JobOf, Active
    <2>3. Contract!Withdraw(b)
      BY <1>10, <2>2 DEF MarkUnavailable, Contract!Withdraw
    <2> QED
      BY <2>3 DEF Contract!Next
  <1>11. CASE UNCHANGED vars
    BY <1>11, StutterStep DEF vars
  <1> QED
    BY <1>1, <1>2, <1>3, <1>4, <1>5, <1>6, <1>7, <1>8, <1>9, <1>10, <1>11 DEF Next

\* The PostgreSQL store keeps the promises of JobContract to its clients: every
\* step of leases, tokens, pins and counters is an admission, an outcome, a
\* bundle coming or going, or invisible.
THEOREM StoreImplementsContract == Spec => ImplementsContract
  BY ContractInit, ContractStep, StoreInvariant, PTL
  DEF Spec, ImplementsContract, Contract!Spec

-----------------------------------------------------------------------------
(* Workers over the store: the inductive invariant.                        *)

\* A token in a row was produced by newID for that target, and a running
\* attempt has one.
TokenIssued ==
    \A t \in Target :
        /\ token[t] <= issued[t]
        /\ status[t] = "running" => token[t] # 0

\* Only admitted jobs have results.
ResultAdmitted == \A t \in Target : result[t] # NoOutcome => JobOf(t) \in Admitted

\* A worker that is busy holds a claim under a token that was produced for it,
\* and has found an outcome before it commits.
WorkerSound ==
    \A w \in Worker :
        /\ phase[w] # "idle" \/ renewal[w] = "active" => held[w] # NoTarget
        /\ held[w] # NoTarget => heldToken[w] \in 1..issued[held[w]]
        /\ phase[w] = "closing" => found[w] \in Outcome

\* No two workers were handed the same token of the same target.
TokensDistinct ==
    \A v, w \in Worker :
        held[v] # NoTarget /\ held[v] = held[w] /\ heldToken[v] = heldToken[w] => v = w

\* A committed report of a pinned batch comes from the pinned bundle.
ReportsPinned ==
    \A t \in Target :
        result[t] # NoOutcome /\ payload[JobOf(t)].bundle # NoBundle
            => result[t].report \in {NoReport, payload[JobOf(t)].bundle}

RunnerInv ==
    /\ RunnerTypeOK
    /\ RowsAdmitted /\ TokenIssued /\ ResultAdmitted
    /\ WorkerSound /\ TokensDistinct
    /\ ReportsPinned

-----------------------------------------------------------------------------
(* The store's part.                                                       *)

\* A store step never takes a token back, and keeps what was produced.
LEMMA NextTokenIssued ==
    ASSUME TypeOK, TokenIssued, [Next]_vars
    PROVE  TokenIssued' /\ \A t \in Target : issued'[t] >= issued[t]
  <1> USE DEF TokenIssued, TypeOK
  <1>1. ASSUME NEW k \in Key, NEW r \in Request, Submit(k, r)
        PROVE  TokenIssued' /\ issued' = issued
    <2>1. \A t \in Target : status'[t] = "running" => status[t] = "running"
      BY <1>1, TargetParts, ConstantsAssumption DEF Submit, NewStatus, WorkKind
    <2> QED
      BY <1>1, <2>1 DEF Submit
  <1>2. ASSUME NEW t \in Target, Claim(t)
        PROVE  TokenIssued' /\ \A s \in Target : issued'[s] >= issued[s]
    BY <1>2 DEF Claim, FreshToken
  <1>3. ASSUME NEW t \in Target, NEW tok \in Tokens(t), NEW o \in Outcome, Complete(t, tok, o)
        PROVE  TokenIssued' /\ issued' = issued
    <2>1. o.status # "running"
      BY ConstantsAssumption DEF TerminalStatus
    <2> QED
      BY <1>3, <2>1 DEF Complete
  <1>4. ASSUME NEW k \in Key, RequestCancel(k) PROVE TokenIssued' /\ issued' = issued
    BY <1>4 DEF RequestCancel
  <1>5. ASSUME RecoverExpired PROVE TokenIssued' /\ issued' = issued
    <2>1. \A t \in Target : RecoveredStatus(t) # "running"
      BY DEF RecoveredStatus
    <2> QED
      BY <1>5, <2>1 DEF RecoverExpired
  <1>6. ASSUME UNCHANGED <<status, token, issued>> PROVE TokenIssued' /\ issued' = issued
    BY <1>6
  <1> QED
    BY <1>1, <1>2, <1>3, <1>4, <1>5, <1>6 DEF Next, vars, targetVars, Renew, LeaseExpires,
       RegisterBundle, CommitBundleActivation, MarkUnavailable

\* A store step keeps the rows and the requests of admitted jobs.
LEMMA NextAdmitted ==
    ASSUME TypeOK, RowsAdmitted, [Next]_vars
    PROVE  \A k \in Admitted : k \in Admitted' /\ payload'[k] = payload[k]
  <1> USE DEF Admitted
  <1>1. ASSUME NEW k \in Key, NEW r \in Request, Submit(k, r), NEW j \in Admitted
        PROVE  j \in Admitted' /\ payload'[j] = payload[j]
    BY <1>1 DEF Submit, TypeOK
  <1>2. ASSUME NEW t \in Target, Claim(t), NEW j \in Admitted
        PROVE  j \in Admitted' /\ payload'[j] = payload[j]
    BY <1>2 DEF Claim, TypeOK
  <1>3. ASSUME NEW J, FinalizeJobs(status', J), payload' = payload, NEW j \in Admitted
        PROVE  j \in Admitted' /\ payload'[j] = payload[j]
    BY <1>3, FinalizeKeepsRows
  <1>4. ASSUME UNCHANGED jobVars, NEW j \in Admitted
        PROVE  j \in Admitted' /\ payload'[j] = payload[j]
    BY <1>4 DEF jobVars
  <1> QED
    BY <1>1, <1>2, <1>3, <1>4, StepCases DEF Complete, RequestCancel, RecoverExpired, Quiet

\* Only a worker's commit stores a result.
LEMMA NextResults ==
    ASSUME TypeOK, RowsAdmitted, ResultAdmitted, [Next]_vars
    PROVE  ResultAdmitted'
  <1>1. ASSUME NEW t \in Target, NEW tok, NEW o, Complete(t, tok, o) PROVE ResultAdmitted'
    <2>1. JobOf(t) \in Admitted
      BY <1>1, TargetParts DEF Complete, Holds, RowsAdmitted, Admitted
    <2>2. \A s \in Target : s # t => result'[s] = result[s]
      BY <1>1 DEF Complete, TypeOK
    <2> QED
      BY <2>1, <2>2, NextAdmitted DEF ResultAdmitted
  <1>2. CASE result' = result
    BY <1>2, NextAdmitted DEF ResultAdmitted
  <1> QED
    BY <1>1, <1>2 DEF Next, vars, targetVars, Submit, Claim, Renew, LeaseExpires, RequestCancel,
       RecoverExpired, RegisterBundle, CommitBundleActivation, MarkUnavailable

-----------------------------------------------------------------------------
(* A worker's step is a step of the store, or leaves it alone.             *)

LEMMA WorkerTypes ==
    ASSUME RunnerInv, NEW w \in Worker, held[w] # NoTarget
    PROVE  held[w] \in Target /\ heldToken[w] \in Tokens(held[w])
  BY DEF RunnerInv, RunnerTypeOK, WorkerSound, Tokens

\* What a worker commits is an outcome, and a report of the pinned bundle.
LEMMA FinalOutcomeSound ==
    ASSUME RunnerInv, NEW w \in Worker, phase[w] = "closing"
    PROVE  /\ FinalOutcome(w) \in Outcome
           /\ payload[JobOf(held[w])].bundle # NoBundle =>
                FinalOutcome(w).report \in {NoReport, payload[JobOf(held[w])].bundle}
  <1>1. found[w] \in Outcome /\ Failed \in Outcome /\ Aborted \in Outcome
    BY RunnerAssumption DEF RunnerInv, WorkerSound
  <1>2. Failed.report = NoReport /\ Aborted.report = NoReport
    BY DEF Failed, Aborted
  <1> QED
    BY <1>1, <1>2 DEF FinalOutcome, ForeignReport

LEMMA RunnerStoreStep == RunnerInv /\ [RunnerNext]_runnerVars => [Next]_vars
  <1> SUFFICES ASSUME RunnerInv, [RunnerNext]_runnerVars PROVE [Next]_vars
    OBVIOUS
  <1>1. ASSUME NEW w \in Worker, WorkerStep(w) PROVE [Next]_vars
    <2>1. CASE ClaimNext(w)
      BY <2>1 DEF ClaimNext, Next
    <2>2. CASE RenewAccepted(w)
      <3>1. held[w] \in Target /\ heldToken[w] \in Tokens(held[w])
        BY <2>2, WorkerTypes DEF RenewAccepted, RunnerInv, WorkerSound
      <3> QED
        BY <2>2, <3>1 DEF RenewAccepted, Next
    <2>3. CASE CommitApplied(w)
      <3>1. held[w] \in Target /\ heldToken[w] \in Tokens(held[w])
        BY <2>3, WorkerTypes DEF CommitApplied, ReadyToCommit, RunnerInv, WorkerSound
      <3>2. FinalOutcome(w) \in Outcome
        BY <2>3, FinalOutcomeSound DEF CommitApplied, ReadyToCommit
      <3> QED
        BY <2>3, <3>1, <3>2 DEF CommitApplied, Next
    <2>4. CASE UNCHANGED vars
      BY <2>4
    <2> QED
      BY <1>1, <2>1, <2>2, <2>3, <2>4 DEF WorkerStep, RenewRefused, RenewalEnds, AnalysisEnds,
         Shutdown, CommitFailed, Crash
  <1>2. ASSUME StoreStep PROVE [Next]_vars
    BY <1>2 DEF StoreStep, Next
  <1>3. CASE UNCHANGED runnerVars
    BY <1>3 DEF runnerVars
  <1> QED
    BY <1>1, <1>2, <1>3 DEF RunnerNext

-----------------------------------------------------------------------------
(* The workers' part.                                                      *)

\* What a worker is handed, keeps, and forgets: a step either hands one idle
\* worker the token just produced for a target, or hands nobody anything.
Handed(w, t) ==
    /\ held' = [held EXCEPT ![w] = t]
    /\ heldToken' = [heldToken EXCEPT ![w] = issued[t] + 1]
    /\ issued'[t] = issued[t] + 1

Kept(w) == held'[w] = held[w] /\ heldToken'[w] = heldToken[w]

LEMMA HandedOrKept ==
    ASSUME RunnerInv, [RunnerNext]_runnerVars
    PROVE  \/ \E w \in Worker, t \in Target : Handed(w, t)
           \/ \A w \in Worker : Kept(w) \/ held'[w] = NoTarget
  <1> USE DEF RunnerInv, RunnerTypeOK
  <1>1. ASSUME NEW w \in Worker, ClaimNext(w)
        PROVE  \E t \in Target : Handed(w, t)
    <2>1. PICK t \in Target : /\ Claim(t)
                              /\ held' = [held EXCEPT ![w] = t]
                              /\ heldToken' = [heldToken EXCEPT ![w] = token'[t]]
      BY <1>1 DEF ClaimNext
    <2>2. token'[t] = issued[t] + 1 /\ issued'[t] = issued[t] + 1
      BY <2>1 DEF Claim, FreshToken, TypeOK
    <2> QED
      BY <2>1, <2>2 DEF Handed
  <1>2. ASSUME NEW w \in Worker, Release(w)
        PROVE  \A v \in Worker : Kept(v) \/ held'[v] = NoTarget
    BY <1>2 DEF Release, Kept
  <1>3. CASE held' = held /\ heldToken' = heldToken
    BY <1>3 DEF Kept
  <1> QED
    BY <1>1, <1>2, <1>3 DEF RunnerNext, WorkerStep, runnerVars, workerVars, RenewAccepted,
       RenewRefused, RenewalEnds, AnalysisEnds, Shutdown, CommitApplied, CommitFailed, Crash

LEMMA NextRunnerTypeOK ==
    ASSUME RunnerInv, [RunnerNext]_runnerVars
    PROVE  RunnerTypeOK'
  <1>1. TypeOK'
    BY RunnerStoreStep, NextTypeOK DEF RunnerInv, RunnerTypeOK
  <1> USE DEF RunnerInv, RunnerTypeOK
  <1>2. ASSUME NEW w \in Worker, ClaimNext(w) PROVE RunnerTypeOK'
    <2>1. \A t \in Target : token'[t] \in Nat
      BY <1>1 DEF TypeOK
    <2> QED
      BY <1>1, <1>2, <2>1 DEF ClaimNext
  <1>3. ASSUME NEW w \in Worker, RenewRefused(w) \/ RenewalEnds(w) PROVE RunnerTypeOK'
    BY <1>1, <1>3 DEF RenewRefused, RenewalEnds
  <1>4. ASSUME NEW w \in Worker, NEW o \in Outcome, AnalysisEnds(w, o) PROVE RunnerTypeOK'
    BY <1>1, <1>4 DEF AnalysisEnds
  <1>5. ASSUME NEW w \in Worker, Shutdown(w) PROVE RunnerTypeOK'
    BY <1>1, <1>5 DEF Shutdown
  <1>6. ASSUME NEW w \in Worker, Release(w) PROVE RunnerTypeOK'
    BY <1>1, <1>6 DEF Release
  <1>7. CASE UNCHANGED workerVars
    BY <1>1, <1>7 DEF workerVars
  <1> QED
    BY <1>2, <1>3, <1>4, <1>5, <1>6, <1>7 DEF RunnerNext, WorkerStep, runnerVars,
       RenewAccepted, CommitApplied, CommitFailed, Crash

LEMMA NextWorkerSound ==
    ASSUME RunnerInv, [RunnerNext]_runnerVars
    PROVE  WorkerSound'
  <1>1. \A t \in Target : issued[t] \in Nat /\ issued'[t] \in Nat /\ issued'[t] >= issued[t]
    BY RunnerStoreStep, NextTokenIssued, NextTypeOK DEF RunnerInv, RunnerTypeOK, TypeOK
  <1>2. \A w \in Worker : held'[w] # NoTarget => heldToken'[w] \in 1..issued'[held'[w]]
    <2>1. ASSUME NEW v \in Worker, Kept(v), held'[v] # NoTarget
          PROVE  heldToken'[v] \in 1..issued'[held'[v]]
      <3>1. held[v] \in Target /\ heldToken[v] \in 1..issued[held[v]]
        BY <2>1 DEF Kept, RunnerInv, RunnerTypeOK, WorkerSound
      <3> QED
        BY <1>1, <2>1, <3>1 DEF Kept
    <2>2. ASSUME NEW w \in Worker, NEW t \in Target, Handed(w, t), NEW v \in Worker,
                 held'[v] # NoTarget
          PROVE  heldToken'[v] \in 1..issued'[held'[v]]
      <3>1. CASE v = w
        BY <1>1, <2>2, <3>1 DEF Handed, RunnerInv, RunnerTypeOK
      <3>2. CASE v # w
        <4>1. Kept(v)
          BY <2>2, <3>2 DEF Handed, Kept, RunnerInv, RunnerTypeOK
        <4> QED
          BY <2>1, <2>2, <4>1
      <3> QED
        BY <3>1, <3>2
    <2> QED
      BY <2>1, <2>2, HandedOrKept
  <1> USE DEF RunnerInv, RunnerTypeOK, WorkerSound
  <1> DEFINE Busy(w) == phase[w] # "idle" \/ renewal[w] = "active" => held[w] # NoTarget
             Ready(w) == phase[w] = "closing" => found[w] \in Outcome
  <1>3. ASSUME NEW w \in Worker, ClaimNext(w), NEW v \in Worker PROVE Busy(v)' /\ Ready(v)'
    <2>1. PICK t \in Target : held' = [held EXCEPT ![w] = t]
      BY <1>3 DEF ClaimNext
    <2>2. t # NoTarget
      BY RunnerAssumption
    <2> QED
      BY <1>3, <2>1, <2>2 DEF ClaimNext
  <1>4. ASSUME NEW w \in Worker, RenewRefused(w) \/ RenewalEnds(w), NEW v \in Worker
        PROVE  Busy(v)' /\ Ready(v)'
    BY <1>4 DEF RenewRefused, RenewalEnds
  <1>5. ASSUME NEW w \in Worker, NEW o \in Outcome, AnalysisEnds(w, o), NEW v \in Worker
        PROVE  Busy(v)' /\ Ready(v)'
    BY <1>5 DEF AnalysisEnds
  <1>6. ASSUME NEW w \in Worker, Release(w), NEW v \in Worker PROVE Busy(v)' /\ Ready(v)'
    BY <1>6 DEF Release
  <1>7. ASSUME UNCHANGED <<phase, held, renewal, found>>, NEW v \in Worker
        PROVE  Busy(v)' /\ Ready(v)'
    BY <1>7
  <1>8. \A v \in Worker : Busy(v)' /\ Ready(v)'
    BY <1>3, <1>4, <1>5, <1>6, <1>7 DEF RunnerNext, WorkerStep, runnerVars, workerVars,
       RenewAccepted, Shutdown, CommitApplied, CommitFailed, Crash
  <1> QED
    BY <1>2, <1>8

\* A token just produced is newer than every token a worker already holds.
LEMMA NextTokensDistinct ==
    ASSUME RunnerInv, [RunnerNext]_runnerVars
    PROVE  TokensDistinct'
  <1> USE DEF RunnerInv, RunnerTypeOK, TokensDistinct
  <1>1. ASSUME NEW w \in Worker, NEW t \in Target, Handed(w, t) PROVE TokensDistinct'
    <2>1. \A v \in Worker : held[v] = t => heldToken[v] # issued[t] + 1
      <3>1. \A v \in Worker : held[v] = t => heldToken[v] \in 1..issued[t]
        BY RunnerAssumption DEF WorkerSound
      <3> QED
        BY <3>1 DEF TypeOK
    <2> QED
      BY <1>1, <2>1 DEF Handed
  <1>2. ASSUME \A w \in Worker : Kept(w) \/ held'[w] = NoTarget PROVE TokensDistinct'
    BY <1>2 DEF Kept
  <1> QED
    BY <1>1, <1>2, HandedOrKept

LEMMA NextReportsPinned ==
    ASSUME RunnerInv, [RunnerNext]_runnerVars
    PROVE  ReportsPinned'
  <1>1. \A k \in Admitted : payload'[k] = payload[k]
    BY RunnerStoreStep, NextAdmitted DEF RunnerInv, RunnerTypeOK
  <1>2. ASSUME NEW w \in Worker, CommitApplied(w) PROVE ReportsPinned'
    <2>1. held[w] \in Target /\ heldToken[w] \in Tokens(held[w])
      BY <1>2, WorkerTypes DEF CommitApplied, ReadyToCommit, RunnerInv, WorkerSound
    <2>2. /\ result' = [result EXCEPT ![held[w]] = FinalOutcome(w)]
          /\ payload' = payload
      BY <1>2 DEF CommitApplied, Complete
    <2>3. payload[JobOf(held[w])].bundle # NoBundle =>
            FinalOutcome(w).report \in {NoReport, payload[JobOf(held[w])].bundle}
      BY <1>2, FinalOutcomeSound DEF CommitApplied, ReadyToCommit
    <2> QED
      BY <2>1, <2>2, <2>3 DEF ReportsPinned, RunnerInv, RunnerTypeOK, TypeOK
  <1>3. CASE result' = result
    BY <1>1, <1>3 DEF ReportsPinned, RunnerInv, ResultAdmitted
  <1>4. result' = result \/ \E w \in Worker : CommitApplied(w)
    BY DEF RunnerNext, WorkerStep, StoreStep, runnerVars, vars, targetVars, ClaimNext,
       RenewAccepted, RenewRefused, RenewalEnds, AnalysisEnds, Shutdown, CommitFailed, Crash,
       Submit, Claim, Renew, LeaseExpires, RequestCancel, RecoverExpired, RegisterBundle,
       MarkUnavailable
  <1> QED
    BY <1>2, <1>3, <1>4

LEMMA InitRunnerInv == RunnerInit => RunnerInv
  <1> SUFFICES ASSUME RunnerInit PROVE RunnerInv
    OBVIOUS
  <1>1. TypeOK
    BY InitTypeOK DEF RunnerInit
  <1>2. RunnerTypeOK
    BY <1>1 DEF RunnerInit, RunnerTypeOK
  <1>3. RowsAdmitted /\ TokenIssued /\ ResultAdmitted /\ ReportsPinned
    BY TargetParts
    DEF RunnerInit, Init, RowsAdmitted, TokenIssued, ResultAdmitted, ReportsPinned
  <1>4. WorkerSound /\ TokensDistinct
    BY DEF RunnerInit, WorkerSound, TokensDistinct
  <1> QED
    BY <1>2, <1>3, <1>4 DEF RunnerInv

-----------------------------------------------------------------------------
(* The theorems.                                                           *)

\* Claims, renewals, commits, lost acknowledgements, shutdowns and crashes of
\* any number of workers keep the inductive invariant.
THEOREM RunnerInvariant == RunnerSpec => []RunnerInv
  <1>1. RunnerInv /\ [RunnerNext]_runnerVars => RunnerInv'
    <2> SUFFICES ASSUME RunnerInv, [RunnerNext]_runnerVars PROVE RunnerInv'
      OBVIOUS
    <2>1. [Next]_vars
      BY RunnerStoreStep
    <2>2. TypeOK /\ RowsAdmitted /\ TokenIssued /\ ResultAdmitted
      BY DEF RunnerInv, RunnerTypeOK
    <2>3. RowsAdmitted' /\ TokenIssued' /\ ResultAdmitted'
      BY <2>1, <2>2, NextRowsAdmitted, NextTokenIssued, NextResults
    <2>4. RunnerTypeOK' /\ WorkerSound' /\ TokensDistinct' /\ ReportsPinned'
      BY NextRunnerTypeOK, NextWorkerSound, NextTokensDistinct, NextReportsPinned
    <2> QED
      BY <2>3, <2>4 DEF RunnerInv
  <1> QED
    BY <1>1, InitRunnerInv, PTL DEF RunnerSpec

\* Of all the workers that were ever handed a target, at most one can still
\* renew or commit it, and a stored report of a pinned batch was made from the
\* pinned bundle: RunOnce under expiring leases, crashes and foreign reports.
THEOREM OneAttempt == RunnerSpec => []OneEffectiveAttempt
  <1>1. RunnerInv => OneEffectiveAttempt
    <2> SUFFICES ASSUME RunnerInv PROVE OneEffectiveAttempt
      OBVIOUS
    <2>1. ASSUME NEW v \in Worker, NEW w \in Worker, held[v] # NoTarget, held[v] = held[w],
                 Holds(held[v], heldToken[v]), Holds(held[w], heldToken[w])
          PROVE  v = w
      BY <2>1 DEF Holds, RunnerInv, TokensDistinct
    <2> QED
      BY <2>1 DEF RunnerInv, ReportsPinned, OneEffectiveAttempt
  <1> QED
    BY <1>1, RunnerInvariant, PTL

\* Every call the workers make is one the store's specification allows, so all
\* that is proved of the store under arbitrary callers holds of the service.
THEOREM RunnersImplementStore == RunnerSpec => Spec
  BY RunnerInvariant, RunnerStoreStep, PTL DEF RunnerSpec, RunnerInit, Spec

\* The store's lifecycle invariant holds with workers that crash, lag and race
\* one another: capacity, pins, attempts and job rows stay exact.
THEOREM StoreSoundUnderWorkers == RunnerSpec => []StoreInv
  BY RunnersImplementStore, StoreInvariant

=============================================================================
