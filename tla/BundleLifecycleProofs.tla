------------------------ MODULE BundleLifecycleProofs ------------------------
(***************************************************************************)
(* Theorems about BundleLifecycle for every number of operators, bundles   *)
(* and generations that pruning spares.                                    *)
(***************************************************************************)
EXTENDS BundleLifecycle, FiniteSetTheorems, TLAPS

-----------------------------------------------------------------------------
(* The inductive invariant.                                                *)

\* Steps between which a command holds the file lock.
Locked == {"validated", "committed", "pruning", "marked", "removing", "reconciling", "confirmed"}

\* Whoever is between the first and the last write of a command holds the lock.
LockDiscipline == \A p \in Process : pc[p] \in Locked => lock = p

\* Enough bundles were activated after b, if b was activated at all.
Overtaken(b) ==
    newest[b] > 0 => Cardinality({c \in Bundle : newest[c] > newest[b]}) >= RollbackGenerations

\* What a command has made sure of, and nobody else may undo under its lock.
CommandSound(p) ==
    /\ pc[p] \in Locked => subject[p] \in Bundle
    /\ pc[p] \in {"validated", "committed", "reconciling", "confirmed"} =>
         files[subject[p]] = "intact"
    /\ pc[p] \in {"committed", "read", "reconciling", "confirmed"} =>
         seen[p] # None /\ seen[p].generation <= last
    /\ pc[p] \in {"committed", "reconciling", "confirmed"} => seen[p].bundle = subject[p]
    /\ pc[p] \in {"pruning", "marked", "removing"} => ~Spared(subject[p])
    /\ pc[p] \in {"marked", "removing"} =>
         /\ subject[p] \notin available
         /\ subject[p] \notin pinned
         /\ Overtaken(subject[p])

CommandsSound == \A p \in Process : CommandSound(p)

\* Generations count up, and the last one belongs to some bundle.
GenerationsCount ==
    /\ \A b \in Bundle : newest[b] <= last
    /\ last > 0 => \E b \in Bundle : newest[b] = last

LifecycleInv ==
    /\ TypeOK
    /\ LockDiscipline
    /\ CommandsSound
    /\ GenerationsCount
    /\ FilesIntact

-----------------------------------------------------------------------------
(* Counting activations.                                                   *)

\* Activating b leaves every other bundle at least as many newer ones.
LEMMA OvertakenGrows ==
    ASSUME NEW old \in [Bundle -> Nat], NEW b \in Bundle, NEW n \in Nat,
           \A c \in Bundle : old[c] < n, NEW c \in Bundle, c # b
    PROVE  LET new == [old EXCEPT ![b] = n]
           IN  Cardinality({d \in Bundle : new[d] > new[c]})
                 >= Cardinality({d \in Bundle : old[d] > old[c]})
  <1> DEFINE new == [old EXCEPT ![b] = n]
             A == {d \in Bundle : old[d] > old[c]}
             B == {d \in Bundle : new[d] > new[c]}
  <1>1. A \subseteq B
    OBVIOUS
  <1>2. IsFiniteSet(B)
    BY LifecycleAssumption, FS_Subset
  <1>3. Cardinality(A) \in Nat /\ Cardinality(B) \in Nat /\ Cardinality(A) <= Cardinality(B)
    BY <1>1, <1>2, FS_Subset, FS_CardinalityType
  <1> QED
    BY <1>3

LEMMA CountNewer ==
    ASSUME NEW b \in Bundle
    PROVE  Cardinality({c \in Bundle : newest[c] > newest[b]}) \in Nat
  BY LifecycleAssumption, FS_Subset, FS_CardinalityType

\* The newest committed activation, read in one statement.
LEMMA DesiredSound ==
    ASSUME TypeOK, GenerationsCount, Desired # None
    PROVE  Desired \in Activation /\ Desired.generation <= last
  <1>1. last > 0 /\ Desired = [bundle |-> CHOOSE b \in Bundle : newest[b] = last, generation |-> last]
    BY DEF Desired, TypeOK
  <1>2. (CHOOSE b \in Bundle : newest[b] = last) \in Bundle
    BY <1>1 DEF GenerationsCount
  <1> QED
    BY <1>1, <1>2 DEF Activation, TypeOK

\* At most one process is inside a command.
LEMMA OneCommand ==
    ASSUME LockDiscipline, NEW p \in Process, NEW q \in Process,
           pc[p] \in Locked, pc[q] \in Locked
    PROVE  p = q
  BY DEF LockDiscipline

LEMMA NobodyInside ==
    ASSUME LockDiscipline, lock = None, NEW p \in Process
    PROVE  pc[p] \notin Locked
  BY LifecycleAssumption DEF LockDiscipline

-----------------------------------------------------------------------------
(* Types and the lock.                                                     *)

LEMMA InitInv == Init => LifecycleInv
  BY LifecycleAssumption DEF Init, LifecycleInv, TypeOK, LockDiscipline, Locked, CommandsSound,
     CommandSound, GenerationsCount, FilesIntact, AvailableFilesIntact, PinnedFilesIntact,
     RollbackFilesIntact, PointerFilesIntact

LEMMA FinishType ==
    ASSUME TypeOK, NEW p \in Process, Finish(p)
    PROVE  /\ lock' \in Process \cup {None}
           /\ pc' \in [Process -> {"idle", "validated", "committed", "pruning", "marked", "removing",
                                   "read", "reconciling", "confirmed"}]
           /\ subject' \in [Process -> Bundle \cup {None}]
           /\ seen' \in [Process -> Activation \cup {None}]
  BY DEF Finish, TypeOK

LEMMA NextTypeOK == LifecycleInv /\ [Next]_vars => TypeOK'
  <1> SUFFICES ASSUME LifecycleInv, [Next]_vars PROVE TypeOK'
    OBVIOUS
  <1> USE LifecycleAssumption DEF diskVars, databaseVars, Process
  <1>t. TypeOK /\ GenerationsCount
    BY DEF LifecycleInv
  <1>1. ASSUME NEW o \in Operator, NEW b \in Bundle, Import(o, b) PROVE TypeOK'
    BY <1>1, <1>t DEF Import, Issue, TypeOK
  <1>2. ASSUME NEW o \in Operator, NEW b \in Bundle, BeginActivate(o, b) PROVE TypeOK'
    BY <1>2, <1>t DEF BeginActivate, TakeLock, Issue, TypeOK
  <1>3. ASSUME NEW o \in Operator, CommitActivation(o) PROVE TypeOK'
    <2>1. PICK b \in Bundle : b = subject[o]
      BY <1>3 DEF CommitActivation, LifecycleInv, CommandsSound, CommandSound, Locked
    <2>2. PICK a \in Activation : a = Committed(b)
      <3>1. Committed(b) \in Activation
        BY <1>t DEF Committed, Activation, TypeOK
      <3> QED
        BY <3>1
    <2>3. /\ available' = available \cup {b} /\ newest' = [newest EXCEPT ![b] = last + 1]
          /\ last' = last + 1 /\ seen' = [seen EXCEPT ![o] = a]
          /\ pc' = [pc EXCEPT ![o] = "committed"]
          /\ UNCHANGED <<files, pointer, lock, pinned, subject, commands>>
      BY <1>3, <2>1, <2>2 DEF CommitActivation
    <2>4. pointer # None => pointer.generation \in Nat
      BY <1>t DEF TypeOK, Activation
    <2>5. pointer' # None => pointer'.generation <= last'
      BY <1>t, <2>3, <2>4 DEF TypeOK
    <2> QED
      BY <1>t, <2>3, <2>5 DEF TypeOK
  <1>4. ASSUME NEW o \in Operator, PublishActivation(o) PROVE TypeOK'
    <2>1. pointer' \in Activation /\ pointer'.generation <= last
      BY <1>4, <1>t DEF PublishActivation, LifecycleInv, CommandsSound, CommandSound, TypeOK
    <2> QED
      BY <1>4, <1>t, <2>1, FinishType DEF PublishActivation, TypeOK
  <1>5. ASSUME NEW o \in Operator, NEW b \in Bundle, BeginPrune(o, b) PROVE TypeOK'
    BY <1>5, <1>t DEF BeginPrune, TakeLock, Issue, TypeOK
  <1>6. ASSUME NEW o \in Operator, MarkUnavailable(o) PROVE TypeOK'
    BY <1>6, <1>t DEF MarkUnavailable, TypeOK
  <1>7. ASSUME NEW o \in Operator, RemoveStarts(o) PROVE TypeOK'
    BY <1>7, <1>t DEF RemoveStarts, TypeOK
  <1>8. ASSUME NEW o \in Operator, RemoveEnds(o) PROVE TypeOK'
    BY <1>8, <1>t, FinishType DEF RemoveEnds, TypeOK
  <1>9. ASSUME ReadDesired PROVE TypeOK'
    BY <1>9, <1>t, DesiredSound DEF ReadDesired, TypeOK
  <1>10. ASSUME BeginReconcile PROVE TypeOK'
    <2>1. seen[Service].bundle \in Bundle
      BY <1>10, <1>t DEF BeginReconcile, LifecycleInv, CommandsSound, CommandSound, TypeOK, Activation
    <2> QED
      BY <1>10, <1>t, <2>1 DEF BeginReconcile, TakeLock, TypeOK
  <1>11. ASSUME ConfirmDesired PROVE TypeOK'
    BY <1>11, <1>t DEF ConfirmDesired, TypeOK
  <1>12. ASSUME PublishDesired PROVE TypeOK'
    <2>1. pointer' \in Activation /\ pointer'.generation <= last
      BY <1>12, <1>t DEF PublishDesired, LifecycleInv, CommandsSound, CommandSound, TypeOK
    <2> QED
      BY <1>12, <1>t, <2>1, FinishType DEF PublishDesired, TypeOK
  <1>13. ASSUME NEW p \in Process, Finish(p), UNCHANGED <<diskVars, databaseVars, commands>>
         PROVE  TypeOK'
    BY <1>13, <1>t, FinishType DEF TypeOK
  <1>14. ASSUME NEW b \in Bundle, Admit(b) \/ Settle(b) PROVE TypeOK'
    BY <1>14, <1>t DEF Admit, Settle, TypeOK
  <1>15. CASE UNCHANGED vars
    BY <1>15, <1>t DEF vars, TypeOK
  <1> QED
    BY <1>1, <1>2, <1>3, <1>4, <1>5, <1>6, <1>7, <1>8, <1>9, <1>10, <1>11, <1>12, <1>13, <1>14,
       <1>15 DEF Next, PruneRefused, ReconcileRefused, NoLongerDesired, Crash

LEMMA NextLockDiscipline == LifecycleInv /\ [Next]_vars => LockDiscipline'
  <1> SUFFICES ASSUME LifecycleInv, [Next]_vars PROVE LockDiscipline'
    OBVIOUS
  <1> USE LifecycleAssumption DEF LockDiscipline, Locked, Process
  <1>t. TypeOK /\ LockDiscipline
    BY DEF LifecycleInv
  <1>1. ASSUME NEW p \in Process, NEW b, NEW next, TakeLock(p, b, next) PROVE LockDiscipline'
    BY <1>1, <1>t DEF TakeLock, TypeOK
  <1>2. ASSUME NEW p \in Process, Finish(p) PROVE LockDiscipline'
    BY <1>2, <1>t DEF Finish, TypeOK
  <1>3. ASSUME NEW p \in Process, NEW next, pc[p] \in Locked,
               pc' = [pc EXCEPT ![p] = next], lock' = lock
        PROVE  LockDiscipline'
    BY <1>3, <1>t DEF TypeOK
  <1>4. ASSUME ReadDesired PROVE LockDiscipline'
    BY <1>4, <1>t DEF ReadDesired, TypeOK
  <1>5. CASE UNCHANGED <<lock, pc>>
    BY <1>5, <1>t
  <1>6. ASSUME NEW o \in Operator,
               CommitActivation(o) \/ MarkUnavailable(o) \/ RemoveStarts(o)
        PROVE  LockDiscipline'
    BY <1>3, <1>6 DEF CommitActivation, MarkUnavailable, RemoveStarts
  <1>7. ASSUME ConfirmDesired PROVE LockDiscipline'
    BY <1>3, <1>7 DEF ConfirmDesired
  <1> QED
    BY <1>1, <1>2, <1>4, <1>5, <1>6, <1>7 DEF Next, vars, Import, BeginActivate, PublishActivation,
       BeginPrune, PruneRefused, RemoveEnds, BeginReconcile, ReconcileRefused, NoLongerDesired,
       PublishDesired, Admit, Settle, Crash

\* Only a command that activates a bundle adds a generation.
LEMMA NextGenerationsCount == LifecycleInv /\ [Next]_vars => GenerationsCount' /\ last' >= last
  <1> SUFFICES ASSUME LifecycleInv, [Next]_vars PROVE GenerationsCount' /\ last' >= last
    OBVIOUS
  <1> USE DEF GenerationsCount
  <1>t. TypeOK /\ GenerationsCount
    BY DEF LifecycleInv
  <1>1. ASSUME NEW o \in Operator, CommitActivation(o) PROVE GenerationsCount' /\ last' >= last
    <2>1. PICK b \in Bundle : b = subject[o]
      BY <1>1 DEF CommitActivation, LifecycleInv, CommandsSound, CommandSound, Locked, Process
    <2>2. newest' = [newest EXCEPT ![b] = last + 1] /\ last' = last + 1
      BY <1>1, <2>1 DEF CommitActivation
    <2>3. newest'[b] = last'
      BY <1>t, <2>2 DEF TypeOK
    <2> QED
      BY <1>t, <2>2, <2>3 DEF TypeOK
  <1>2. CASE UNCHANGED <<newest, last>>
    BY <1>2, <1>t DEF TypeOK
  <1> QED
    BY <1>1, <1>2 DEF Next, vars, databaseVars, Import, BeginActivate, PublishActivation,
       BeginPrune, MarkUnavailable, PruneRefused, RemoveStarts, RemoveEnds, ReadDesired,
       BeginReconcile, ReconcileRefused, ConfirmDesired, NoLongerDesired, PublishDesired,
       Admit, Settle, Crash

-----------------------------------------------------------------------------
(* What a command has made sure of stays so.                               *)

Untouched(q) == pc'[q] = pc[q] /\ subject'[q] = subject[q] /\ seen'[q] = seen[q]

\* A process that is outside of commands, and one inside beside which only
\* available bundles are pinned.
LEMMA Bystander ==
    ASSUME LifecycleInv, NEW q \in Process, Untouched(q), last' \in Nat, last' >= last,
           \/ pc[q] \notin Locked
           \/ UNCHANGED <<files, pointer, available, newest>> /\ pinned' \subseteq pinned \cup available
    PROVE  CommandSound(q)'
  <1>t. TypeOK /\ CommandSound(q)
    BY DEF LifecycleInv, CommandsSound
  <1>1. seen[q] # None => seen[q].generation \in Nat
    BY <1>t DEF TypeOK, Activation
  <1>2. last \in Nat
    BY <1>t DEF TypeOK
  <1>3. pc'[q] \in {"committed", "read", "reconciling", "confirmed"} =>
          seen'[q] # None /\ seen'[q].generation <= last'
    BY <1>t, <1>1, <1>2 DEF CommandSound, Untouched
  <1>4. CASE pc[q] \notin Locked
    BY <1>3, <1>4 DEF CommandSound, Untouched, Locked
  <1>5. CASE UNCHANGED <<files, pointer, available, newest>> /\ pinned' \subseteq pinned \cup available
    <2>1. pc'[q] \in {"pruning", "marked", "removing"} => ~Spared(subject[q])'
      BY <1>t, <1>5 DEF CommandSound, Untouched, Spared
    <2>2. pc'[q] \in {"marked", "removing"} =>
            subject'[q] \notin available' /\ subject'[q] \notin pinned' /\ Overtaken(subject[q])'
      BY <1>t, <1>5 DEF CommandSound, Untouched, Overtaken
    <2> QED
      BY <1>t, <1>3, <1>5, <2>1, <2>2 DEF CommandSound, Untouched, Spared, Overtaken
  <1> QED
    BY <1>4, <1>5

LEMMA NextCommandsSound == LifecycleInv /\ [Next]_vars => CommandsSound'
  <1> SUFFICES ASSUME LifecycleInv, [Next]_vars, NEW q \in Process PROVE CommandSound(q)'
    BY DEF CommandsSound
  <1> USE LifecycleAssumption DEF Process, diskVars, databaseVars
  <1>t. TypeOK /\ LockDiscipline /\ GenerationsCount /\ CommandSound(q)
    BY DEF LifecycleInv, CommandsSound
  <1>l. last' \in Nat /\ last' >= last
    BY NextTypeOK, NextGenerationsCount DEF TypeOK
  <1>d. \A p \in Process : p # q /\ pc[p] \in Locked => pc[q] \notin Locked
    BY <1>t, OneCommand
  <1>1. ASSUME NEW o \in Operator, NEW b \in Bundle, Import(o, b) PROVE CommandSound(q)'
    <2>1. pc[q] \notin Locked /\ Untouched(q)
      BY <1>1, <1>t, NobodyInside DEF Import, Untouched
    <2> QED
      BY <1>l, <2>1, Bystander
  <1>2. ASSUME NEW p \in Process, NEW b \in Bundle, NEW next, TakeLock(p, b, next), p # q,
               UNCHANGED seen
        PROVE  CommandSound(q)'
    <2>1. pc[q] \notin Locked /\ Untouched(q)
      BY <1>2, <1>t, NobodyInside DEF TakeLock, Untouched, TypeOK
    <2> QED
      BY <1>l, <2>1, Bystander
  <1>3. ASSUME NEW o \in Operator, NEW b \in Bundle, BeginActivate(o, b) PROVE CommandSound(q)'
    <2>1. CASE q = o
      BY <1>3, <1>t, <2>1 DEF BeginActivate, TakeLock, CommandSound, TypeOK
    <2> QED
      BY <1>2, <1>3, <2>1 DEF BeginActivate
  <1>4. ASSUME NEW o \in Operator, CommitActivation(o) PROVE CommandSound(q)'
    <2>1. PICK b \in Bundle : b = subject[o]
      BY <1>4 DEF CommitActivation, LifecycleInv, CommandsSound, CommandSound, Locked
    <2>2. PICK a \in Activation : a = Committed(b)
      <3>1. Committed(b) \in Activation
        BY <1>t DEF Committed, Activation, TypeOK
      <3> QED
        BY <3>1
    <2>3. /\ seen' = [seen EXCEPT ![o] = a] /\ last' = last + 1
          /\ pc' = [pc EXCEPT ![o] = "committed"]
          /\ UNCHANGED <<files, subject>>
      BY <1>4, <2>1, <2>2 DEF CommitActivation
    <2>4. a.bundle = b /\ a.generation = last + 1 /\ a # None
      BY <2>2 DEF Committed
    <2>5. CASE q = o
      <3>1. seen'[q] = a /\ pc'[q] = "committed" /\ subject'[q] = b
        BY <1>t, <2>1, <2>3, <2>5 DEF TypeOK
      <3>2. files'[b] = "intact"
        BY <1>4, <1>t, <2>1, <2>3, <2>5 DEF CommitActivation, CommandSound
      <3>3. seen'[q].generation <= last'
        BY <1>t, <2>3, <2>4, <3>1 DEF TypeOK
      <3> QED
        BY <2>4, <3>1, <3>2, <3>3 DEF CommandSound
    <2>6. CASE q # o
      <3>1. pc[q] \notin Locked /\ Untouched(q)
        BY <1>4, <1>d, <1>t, <2>3, <2>6 DEF CommitActivation, Untouched, Locked, TypeOK
      <3> QED
        BY <1>l, <3>1, Bystander
    <2> QED
      BY <2>5, <2>6
  <1>5. ASSUME NEW p \in Process, Finish(p), p = q PROVE CommandSound(q)'
    BY <1>5, <1>t DEF Finish, CommandSound, Locked, TypeOK
  <1>6. ASSUME NEW p \in Process, Finish(p), p # q,
               \/ pc[p] \in Locked
               \/ UNCHANGED <<files, pointer, available, newest, pinned>>
        PROVE  CommandSound(q)'
    <2>1. Untouched(q)
      BY <1>6, <1>t DEF Finish, Untouched, TypeOK
    <2> QED
      BY <1>d, <1>l, <1>6, <2>1, Bystander
  <1>7. ASSUME NEW o \in Operator, PublishActivation(o) PROVE CommandSound(q)'
    BY <1>5, <1>6, <1>7 DEF PublishActivation, Locked
  <1>8. ASSUME NEW o \in Operator, NEW b \in Bundle, BeginPrune(o, b) PROVE CommandSound(q)'
    <2>1. CASE q = o
      BY <1>8, <1>t, <2>1 DEF BeginPrune, TakeLock, CommandSound, TypeOK, Spared
    <2> QED
      BY <1>2, <1>8, <2>1 DEF BeginPrune
  <1>9. ASSUME NEW o \in Operator, MarkUnavailable(o) PROVE CommandSound(q)'
    <2>1. CASE q = o
      <3>1. PICK b \in Bundle : b = subject[o]
        BY <1>9, <1>t, <2>1 DEF MarkUnavailable, CommandSound, Locked
      <3>2. Overtaken(b)
        BY <1>9, <1>t, <3>1, CountNewer DEF MarkUnavailable, Protected, RecentlyActivated, Overtaken, TypeOK
      <3>3. b \notin pinned /\ ~Spared(b)
        BY <1>9, <1>t, <2>1, <3>1 DEF MarkUnavailable, Protected, CommandSound
      <3>4. /\ available' = available \ {b} /\ pc'[q] = "marked" /\ subject'[q] = b
            /\ UNCHANGED <<pointer, newest, pinned>>
        BY <1>9, <1>t, <2>1, <3>1 DEF MarkUnavailable, TypeOK
      <3>5. Overtaken(b)' /\ ~Spared(b)'
        BY <3>2, <3>3, <3>4 DEF Overtaken, Spared
      <3> QED
        BY <3>3, <3>4, <3>5 DEF CommandSound, Overtaken, Spared
    <2>2. CASE q # o
      <3>1. pc[q] \notin Locked /\ Untouched(q)
        BY <1>9, <1>d, <1>t, <2>2 DEF MarkUnavailable, Untouched, Locked, TypeOK
      <3> QED
        BY <1>l, <3>1, Bystander
    <2> QED
      BY <2>1, <2>2
  <1>10. ASSUME NEW o \in Operator, RemoveStarts(o) PROVE CommandSound(q)'
    <2>1. CASE q = o
      <3>1. /\ pc'[q] = "removing" /\ subject'[q] = subject[q]
            /\ UNCHANGED <<pointer, available, newest, pinned>>
        BY <1>10, <1>t, <2>1 DEF RemoveStarts, TypeOK
      <3>2. /\ subject[q] \in Bundle /\ ~Spared(subject[q]) /\ Overtaken(subject[q])
            /\ subject[q] \notin available /\ subject[q] \notin pinned
        BY <1>10, <1>t, <2>1 DEF RemoveStarts, CommandSound, Locked
      <3> QED
        BY <3>1, <3>2 DEF CommandSound, Overtaken, Spared
    <2>2. CASE q # o
      <3>1. pc[q] \notin Locked /\ Untouched(q)
        BY <1>10, <1>d, <1>t, <2>2 DEF RemoveStarts, Untouched, Locked, TypeOK
      <3> QED
        BY <1>l, <3>1, Bystander
    <2> QED
      BY <2>1, <2>2
  <1>11. ASSUME NEW o \in Operator, RemoveEnds(o) PROVE CommandSound(q)'
    BY <1>5, <1>6, <1>11 DEF RemoveEnds, Locked
  <1>12. ASSUME ReadDesired PROVE CommandSound(q)'
    <2>1. CASE q = Service
      <3>1. last > 0
        BY <1>12, <1>t DEF ReadDesired, Stale, Desired, TypeOK, Activation
      <3>2. Desired # None
        <4>1. [bundle |-> CHOOSE b \in Bundle : newest[b] = last, generation |-> last] \in Activation
          BY <1>t, <3>1 DEF GenerationsCount, Activation, TypeOK
        <4>2. last # 0
          BY <1>t, <3>1 DEF TypeOK
        <4> QED
          BY <4>1, <4>2 DEF Desired
      <3>3. pc'[q] = "read" /\ seen'[q] = Desired /\ last' = last
        BY <1>12, <1>t, <2>1 DEF ReadDesired, TypeOK
      <3> QED
        BY <1>t, <3>2, <3>3, DesiredSound DEF CommandSound, Locked
    <2>2. CASE q # Service
      BY <1>12, <1>t, <1>l, <2>2, Bystander DEF ReadDesired, Untouched, TypeOK
    <2> QED
      BY <2>1, <2>2
  <1>13. ASSUME BeginReconcile PROVE CommandSound(q)'
    <2>1. PICK a \in Activation : a = seen[Service]
      BY <1>13, <1>t DEF BeginReconcile, LifecycleInv, CommandsSound, CommandSound, TypeOK
    <2>2. a.bundle \in Bundle
      BY DEF Activation
    <2>3. CASE q = Service
      <3>1. pc'[q] = "reconciling" /\ subject'[q] = a.bundle /\ seen'[q] = a /\ last' = last
            /\ files' = files
        BY <1>13, <1>t, <2>1, <2>3 DEF BeginReconcile, TakeLock, TypeOK
      <3>2. files[a.bundle] = "intact" /\ a.generation <= last
        BY <1>13, <1>t, <2>1, <2>3 DEF BeginReconcile, CommandSound
      <3> QED
        BY <2>2, <3>1, <3>2 DEF CommandSound
    <2>4. CASE q # Service
      BY <1>2, <1>13, <2>1, <2>2, <2>4 DEF BeginReconcile
    <2> QED
      BY <2>3, <2>4
  <1>14. ASSUME ConfirmDesired PROVE CommandSound(q)'
    <2>1. CASE q = Service
      BY <1>14, <1>t, <2>1 DEF ConfirmDesired, CommandSound, Locked, TypeOK
    <2>2. CASE q # Service
      BY <1>14, <1>t, <1>l, <2>2, Bystander DEF ConfirmDesired, Untouched, TypeOK
    <2> QED
      BY <2>1, <2>2
  <1>15. ASSUME PublishDesired PROVE CommandSound(q)'
    BY <1>5, <1>6, <1>15 DEF PublishDesired, Locked
  <1>16. ASSUME NEW p \in Process, Finish(p), UNCHANGED <<diskVars, databaseVars>>
         PROVE  CommandSound(q)'
    BY <1>5, <1>6, <1>16
  <1>17. ASSUME NEW b \in Bundle, Admit(b) \/ Settle(b) PROVE CommandSound(q)'
    BY <1>17, <1>l, Bystander DEF Admit, Settle, Untouched
  <1>18. CASE UNCHANGED vars
    BY <1>18, <1>l, Bystander DEF vars, Untouched
  <1> QED
    BY <1>1, <1>3, <1>4, <1>7, <1>8, <1>9, <1>10, <1>11, <1>12, <1>13, <1>14, <1>15, <1>16,
       <1>17, <1>18 DEF Next, PruneRefused, ReconcileRefused, NoLongerDesired, Crash

-----------------------------------------------------------------------------
(* Files.                                                                  *)

\* Files that nobody needs: what a removal in progress relies on.
LEMMA NextFilesIntact == LifecycleInv /\ [Next]_vars => FilesIntact'
  <1> SUFFICES ASSUME LifecycleInv, [Next]_vars PROVE FilesIntact'
    OBVIOUS
  <1> USE LifecycleAssumption DEF Process, diskVars, databaseVars, FilesIntact,
          AvailableFilesIntact, PinnedFilesIntact, PointerFilesIntact
  <1>t. TypeOK /\ GenerationsCount /\ FilesIntact
    BY DEF LifecycleInv
  <1>a. pointer # None => pointer.bundle \in Bundle
    BY <1>t DEF TypeOK, Activation
  <1>1. ASSUME NEW o \in Operator, NEW b \in Bundle, Import(o, b) PROVE FilesIntact'
    <2>1. files' = [files EXCEPT ![b] = "intact"]
      BY <1>1 DEF Import
    <2>2. \A c \in Bundle : files[c] = "intact" => files'[c] = "intact"
      BY <1>t, <2>1 DEF TypeOK
    <2>3. RollbackFilesIntact'
      BY <1>1, <1>t, <2>2 DEF Import, RollbackFilesIntact
    <2> QED
      BY <1>1, <1>a, <1>t, <2>2, <2>3 DEF Import, TypeOK
  <1>2. ASSUME NEW o \in Operator, CommitActivation(o) PROVE FilesIntact'
    <2>1. PICK b \in Bundle : b = subject[o]
      BY <1>2 DEF CommitActivation, LifecycleInv, CommandsSound, CommandSound, Locked
    <2>2. files[b] = "intact"
      BY <1>2, <2>1 DEF CommitActivation, LifecycleInv, CommandsSound, CommandSound
    <2>3. /\ available' = available \cup {b} /\ newest' = [newest EXCEPT ![b] = last + 1]
          /\ UNCHANGED <<files, pointer, pinned>>
      BY <1>2, <2>1 DEF CommitActivation
    <2>4. RollbackFilesIntact'
      <3> SUFFICES ASSUME NEW c \in Bundle, newest'[c] > 0, files'[c] # "intact"
                   PROVE  Cardinality({d \in Bundle : newest'[d] > newest'[c]}) >= RollbackGenerations
        BY DEF RollbackFilesIntact
      <3>1. c # b /\ newest'[c] = newest[c]
        BY <1>t, <2>2, <2>3 DEF TypeOK
      <3>2. Cardinality({d \in Bundle : newest[d] > newest[c]}) >= RollbackGenerations
        BY <1>t, <2>3, <3>1 DEF RollbackFilesIntact
      <3>3. newest \in [Bundle -> Nat] /\ last + 1 \in Nat /\ \A d \in Bundle : newest[d] < last + 1
        BY <1>t DEF TypeOK, GenerationsCount
      <3>4. Cardinality({d \in Bundle : newest'[d] > newest'[c]})
              >= Cardinality({d \in Bundle : newest[d] > newest[c]})
        BY <2>3, <3>1, <3>3, OvertakenGrows
      <3>5. Cardinality({d \in Bundle : newest'[d] > newest'[c]}) \in Nat
        BY FS_Subset, FS_CardinalityType
      <3> QED
        BY <3>2, <3>4, <3>5, CountNewer
    <2> QED
      BY <1>t, <2>2, <2>3, <2>4
  <1>3. ASSUME NEW o \in Operator, RemoveStarts(o) \/ RemoveEnds(o) PROVE FilesIntact'
    <2>1. PICK b \in Bundle : b = subject[o]
      BY <1>3 DEF RemoveStarts, RemoveEnds, LifecycleInv, CommandsSound, CommandSound, Locked
    <2>2. b \notin available /\ b \notin pinned /\ Overtaken(b) /\ ~Spared(b)
      BY <1>3, <2>1 DEF RemoveStarts, RemoveEnds, LifecycleInv, CommandsSound, CommandSound
    <2>3. \A c \in Bundle : c # b => files'[c] = files[c]
      BY <1>3, <1>t, <2>1 DEF RemoveStarts, RemoveEnds, TypeOK
    <2>4. UNCHANGED <<available, pinned, newest, pointer>>
      BY <1>3 DEF RemoveStarts, RemoveEnds
    <2>5. RollbackFilesIntact'
      BY <1>t, <2>2, <2>3, <2>4 DEF RollbackFilesIntact, Overtaken
    <2> QED
      BY <1>a, <1>t, <2>2, <2>3, <2>4, <2>5 DEF TypeOK, Spared
  <1>4. ASSUME NEW p \in Process, pc[p] \in {"committed", "confirmed"},
               pointer' = seen[p], UNCHANGED <<files, databaseVars>>
        PROVE  FilesIntact'
    <2>1. files[seen[p].bundle] = "intact"
      BY <1>4 DEF LifecycleInv, CommandsSound, CommandSound
    <2>2. RollbackFilesIntact'
      BY <1>4, <1>t DEF RollbackFilesIntact
    <2> QED
      BY <1>4, <1>t, <2>1, <2>2
  <1>5. ASSUME UNCHANGED <<files, pointer, newest>>,
               available' \subseteq available, pinned' \subseteq pinned \cup available
        PROVE  FilesIntact'
    BY <1>5, <1>t DEF RollbackFilesIntact
  <1>6. ASSUME NEW o \in Operator, MarkUnavailable(o) \/ PruneRefused(o) PROVE FilesIntact'
    BY <1>5, <1>6 DEF MarkUnavailable, PruneRefused
  <1>7. ASSUME NEW b \in Bundle, Admit(b) \/ Settle(b) PROVE FilesIntact'
    BY <1>5, <1>7 DEF Admit, Settle
  <1>8. CASE UNCHANGED <<diskVars, databaseVars>>
    BY <1>5, <1>8
  <1> QED
    BY <1>1, <1>2, <1>3, <1>4, <1>6, <1>7, <1>8 DEF Next, vars, BeginActivate,
       PublishActivation, BeginPrune, ReadDesired, BeginReconcile, ReconcileRefused,
       ConfirmDesired, NoLongerDesired, PublishDesired, Crash

-----------------------------------------------------------------------------
(* The theorems.                                                           *)

\* The inductive invariant holds of every behaviour of the commands, the reload
\* loop and admission (repository.go, runtime/datasets.go).
THEOREM LifecycleInvariant == Spec => []LifecycleInv
  <1>1. LifecycleInv /\ [Next]_vars => LifecycleInv'
    BY NextTypeOK, NextLockDiscipline, NextCommandsSound, NextGenerationsCount, NextFilesIntact
    DEF LifecycleInv
  <1> QED
    BY <1>1, InitInv, PTL DEF Spec

\* No import, activation, pruning, reconciliation or kill takes away files of a
\* bundle that is available, pinned, kept for a rollback or named by active.json.
THEOREM FilesCorrect == Spec => []FilesIntact
  <1>1. LifecycleInv => FilesIntact
    BY DEF LifecycleInv
  <1> QED
    BY <1>1, LifecycleInvariant, PTL

\* A step that replaces the pointer file or takes files away.
DiskWriteSound ==
    /\ pointer' # pointer => lock \in Process /\ pointer' = seen[lock]
    /\ \A b \in Bundle : files[b] = "intact" /\ files'[b] # "intact" =>
         /\ lock \in Process /\ subject[lock] = b
         /\ b \notin available \cup pinned
         /\ Overtaken(b)

\* Only the process that holds .writer.lock replaces the pointer file, by the
\* activation it has read or committed, and only its subject loses files: a
\* bundle that nobody can pin, has pinned or may fall back to (repository.go).
THEOREM DiskWritesLocked == Spec => [][DiskWriteSound]_vars
  <1>1. LifecycleInv /\ [Next]_vars => [DiskWriteSound]_vars
    <2> SUFFICES ASSUME LifecycleInv, Next PROVE DiskWriteSound
      OBVIOUS
    <2>1. ASSUME NEW p \in Process, pc[p] \in {"committed", "confirmed"},
                 pointer' = seen[p], files' = files
          PROVE  DiskWriteSound
      BY <2>1 DEF LifecycleInv, LockDiscipline, Locked, DiskWriteSound
    <2>2. ASSUME NEW o \in Operator, NEW c \in Bundle, Import(o, c) PROVE DiskWriteSound
      BY <2>2 DEF Import, LifecycleInv, TypeOK, DiskWriteSound
    <2>3. ASSUME NEW o \in Operator, RemoveStarts(o) \/ RemoveEnds(o) PROVE DiskWriteSound
      <3>1. PICK p \in Process : p = o
        BY DEF Process
      <3>2. lock = p /\ CommandSound(p) /\ pc[p] \in {"marked", "removing"}
        BY <2>3, <3>1
        DEF RemoveStarts, RemoveEnds, LifecycleInv, LockDiscipline, Locked, CommandsSound
      <3>3. \A b \in Bundle : b # subject[p] => files'[b] = files[b]
        BY <2>3, <3>1 DEF RemoveStarts, RemoveEnds, LifecycleInv, TypeOK
      <3>4. pointer' = pointer
        BY <2>3 DEF RemoveStarts, RemoveEnds
      <3> QED
        BY <3>2, <3>3, <3>4 DEF DiskWriteSound, CommandSound
    <2>4. CASE UNCHANGED diskVars
      BY <2>4 DEF diskVars, DiskWriteSound
    <2> QED
      BY <2>1, <2>2, <2>3, <2>4 DEF Next, Process, BeginActivate, CommitActivation,
         PublishActivation, BeginPrune, MarkUnavailable, PruneRefused, ReadDesired,
         BeginReconcile, ReconcileRefused, ConfirmDesired, NoLongerDesired,
         PublishDesired, Admit, Settle, Crash
  <1> QED
    BY <1>1, LifecycleInvariant, PTL DEF Spec

=============================================================================
