--------------------------- MODULE BundleLifecycle ---------------------------
(***************************************************************************)
(* Dataset bundles across the file system and PostgreSQL:                  *)
(* internal/datasets/repository.go, internal/runtime/datasets.go and the   *)
(* bundle half of internal/store/postgres/store.go.                        *)
(*                                                                         *)
(* Operators import, activate and prune candidates with commands that may  *)
(* be killed between any two steps.  A command holds the repository's file *)
(* lock from its first check to its last write; the database transactions  *)
(* inside it are single steps.  Meanwhile the service admits batches that  *)
(* pin a bundle and its reload loop repairs the pointer file from the      *)
(* newest committed activation.  Taking the file lock never waits: a       *)
(* command that finds it held fails, which is a stuttering step.           *)
(*                                                                         *)
(* JobStore shows that a pin lasts as long as its batch is unfinished; here *)
(* a batch is just a pin that comes and goes.                              *)
(***************************************************************************)
EXTENDS Integers, FiniteSets

CONSTANTS
    Operator,            \* operators that run the datasets commands
    Service,             \* the reload loop of the service
    Bundle,              \* candidate identities
    None,                \* nobody holds the lock; no pointer; no bundle
    RollbackGenerations, \* newest activated bundles that pruning spares (3)
    MaxCommands          \* bound on the commands operators issue

Process == Operator \cup {Service}

Activation == [bundle : Bundle, generation : Nat \ {0}]

ASSUME LifecycleAssumption ==
    /\ IsFiniteSet(Bundle)
    /\ Service \notin Operator
    /\ None \notin Bundle \cup Process \cup Activation
    /\ RollbackGenerations \in Nat \ {0}
    /\ MaxCommands \in Nat

VARIABLES
    files,      \* the candidate directory: "absent", "intact" or "partial"
    pointer,    \* the activation that active.json names
    lock,       \* who holds .writer.lock
    available,  \* bundles with dataset_bundles.available
    newest,     \* newest activation generation of a bundle, 0 if none
    last,       \* the last generation committed
    pinned,     \* bundles some unfinished batch pins
    pc,         \* where a process is in its command
    subject,    \* the bundle a command is about
    seen,       \* the activation a process committed or read
    commands    \* commands issued so far

diskVars == <<files, pointer>>
databaseVars == <<available, newest, last, pinned>>
vars == <<diskVars, lock, databaseVars, pc, subject, seen, commands>>

Init ==
    /\ files = [b \in Bundle |-> "absent"]
    /\ pointer = None
    /\ lock = None
    /\ available = {}
    /\ newest = [b \in Bundle |-> 0]
    /\ last = 0
    /\ pinned = {}
    /\ pc = [p \in Process |-> "idle"]
    /\ subject = [p \in Process |-> None]
    /\ seen = [p \in Process |-> None]
    /\ commands = 0

-----------------------------------------------------------------------------
\* A command begins: it takes the file lock, which nobody may hold.
TakeLock(p, b, next) ==
    /\ lock = None
    /\ lock' = p
    /\ pc' = [pc EXCEPT ![p] = next]
    /\ subject' = [subject EXCEPT ![p] = b]

\* A process returns; the lock goes with the file descriptor.
Finish(p) ==
    /\ pc' = [pc EXCEPT ![p] = "idle"]
    /\ lock' = IF lock = p THEN None ELSE lock
    /\ subject' = [subject EXCEPT ![p] = None]
    /\ seen' = [seen EXCEPT ![p] = None]

Issue(o) ==
    /\ pc[o] = "idle"
    /\ commands < MaxCommands
    /\ commands' = commands + 1

\* Import publishes a staged directory with one rename.  An intact candidate is
\* left alone and a damaged one is an error.
Import(o, b) ==
    /\ Issue(o)
    /\ lock = None
    /\ files[b] = "absent"
    /\ files' = [files EXCEPT ![b] = "intact"]
    /\ UNCHANGED <<pointer, lock, databaseVars, pc, subject, seen>>

-----------------------------------------------------------------------------
(* ActivateCommitted                                                       *)

\* Validate re-hashes the files before anything is committed.
BeginActivate(o, b) ==
    /\ Issue(o)
    /\ files[b] = "intact"
    /\ TakeLock(o, b, "validated")
    /\ UNCHANGED <<diskVars, databaseVars, seen>>

\* The row that bundle_activation_generations gets for b.
Committed(b) == [bundle |-> b, generation |-> last + 1]

\* CommitBundleActivation registers the bundle and adds a generation.  A lost
\* acknowledgement is resolved by reading the operation back.
CommitActivation(o) ==
    LET b == subject[o] IN
    /\ pc[o] = "validated"
    /\ available' = available \cup {b}
    /\ newest' = [newest EXCEPT ![b] = last + 1]
    /\ last' = last + 1
    /\ seen' = [seen EXCEPT ![o] = Committed(b)]
    /\ pc' = [pc EXCEPT ![o] = "committed"]
    /\ UNCHANGED <<diskVars, lock, pinned, subject, commands>>

\* publishCommitted: the pointer file follows the database.
PublishActivation(o) ==
    /\ pc[o] = "committed"
    /\ pointer' = seen[o]
    /\ Finish(o)
    /\ UNCHANGED <<files, databaseVars, commands>>

-----------------------------------------------------------------------------
(* Prune                                                                   *)

\* The candidate that the pointer file names stays.
Spared(b) == pointer # None /\ pointer.bundle = b

BeginPrune(o, b) ==
    /\ Issue(o)
    /\ ~Spared(b)
    /\ TakeLock(o, b, "pruning")
    /\ UNCHANGED <<diskVars, databaseVars, seen>>

\* Mutant of RecentlyActivated: spares one bundle less.
RecentlyActivatedFewer(b) ==
    /\ newest[b] > 0
    /\ Cardinality({c \in Bundle : newest[c] > newest[b]}) < RollbackGenerations - 1

\* One of the newest distinct activated bundles.
RecentlyActivated(b) ==
    /\ newest[b] > 0
    /\ Cardinality({c \in Bundle : newest[c] > newest[b]}) < RollbackGenerations

Protected(b) == b \in pinned \/ RecentlyActivated(b)

\* The transaction of WithBundlePruneLock: from here on no batch can pin it.
MarkUnavailable(o) ==
    /\ pc[o] = "pruning"
    /\ ~Protected(subject[o])
    /\ subject[o] \in available
    /\ available' = available \ {subject[o]}
    /\ pc' = [pc EXCEPT ![o] = "marked"]
    /\ UNCHANGED <<diskVars, lock, newest, last, pinned, subject, seen, commands>>

\* The bundle is protected, or the database does not have it as available.
PruneRefused(o) ==
    /\ pc[o] = "pruning"
    /\ Protected(subject[o]) \/ subject[o] \notin available
    /\ Finish(o)
    /\ UNCHANGED <<diskVars, databaseVars, commands>>

\* RemoveAll deletes a directory file by file.
RemoveStarts(o) ==
    /\ pc[o] = "marked"
    /\ files' = [files EXCEPT ![subject[o]] = "partial"]
    /\ pc' = [pc EXCEPT ![o] = "removing"]
    /\ UNCHANGED <<pointer, lock, databaseVars, subject, seen, commands>>

RemoveEnds(o) ==
    /\ pc[o] = "removing"
    /\ files' = [files EXCEPT ![subject[o]] = "absent"]
    /\ Finish(o)
    /\ UNCHANGED <<pointer, databaseVars, commands>>

-----------------------------------------------------------------------------
(* The reload loop's repair of the pointer: ReconcileAuthoritative.        *)

\* DesiredBundle: the newest committed activation.
Desired ==
    IF last = 0 THEN None
    ELSE [bundle |-> CHOOSE b \in Bundle : newest[b] = last, generation |-> last]

\* Mutant of Stale: only a missing pointer is repaired.
StaleWhenMissing == pointer = None /\ Desired # None

\* The pointer file does not name the desired activation.
Stale == pointer # Desired

\* The loop reads the desired activation and finds the pointer stale.
ReadDesired ==
    /\ pc[Service] = "idle"
    /\ Stale
    /\ seen' = [seen EXCEPT ![Service] = Desired]
    /\ pc' = [pc EXCEPT ![Service] = "read"]
    /\ UNCHANGED <<diskVars, lock, databaseVars, subject, commands>>

\* It locks the repository and validates the files of what it read, ...
BeginReconcile ==
    /\ pc[Service] = "read"
    /\ files[seen[Service].bundle] = "intact"
    /\ TakeLock(Service, seen[Service].bundle, "reconciling")
    /\ UNCHANGED <<diskVars, databaseVars, seen, commands>>

\* ... or gives up until the next poll.
ReconcileRefused ==
    /\ pc[Service] = "read"
    /\ lock # None \/ files[seen[Service].bundle] # "intact"
    /\ Finish(Service)
    /\ UNCHANGED <<diskVars, databaseVars, commands>>

StillDesired == seen[Service] = Desired

\* Under the lock it asks the database again, ...
ConfirmDesired ==
    /\ pc[Service] = "reconciling"
    /\ StillDesired
    /\ pc' = [pc EXCEPT ![Service] = "confirmed"]
    /\ UNCHANGED <<diskVars, lock, databaseVars, subject, seen, commands>>

NoLongerDesired ==
    /\ pc[Service] = "reconciling"
    /\ ~StillDesired
    /\ Finish(Service)
    /\ UNCHANGED <<diskVars, databaseVars, commands>>

\* ... and replaces the pointer, whatever it was.
PublishDesired ==
    /\ pc[Service] = "confirmed"
    /\ pointer' = seen[Service]
    /\ Finish(Service)
    /\ UNCHANGED <<files, databaseVars, commands>>

-----------------------------------------------------------------------------
\* Admission pins an available bundle; the last terminal target unpins it.
Admit(b) ==
    /\ b \in available
    /\ pinned' = pinned \cup {b}
    /\ UNCHANGED <<diskVars, lock, available, newest, last, pc, subject, seen, commands>>

Settle(b) ==
    /\ b \in pinned
    /\ pinned' = pinned \ {b}
    /\ UNCHANGED <<diskVars, lock, available, newest, last, pc, subject, seen, commands>>

\* A process is killed, or a call fails without telling whether it committed.
Crash(p) ==
    /\ pc[p] # "idle"
    /\ Finish(p)
    /\ UNCHANGED <<diskVars, databaseVars, commands>>

Next ==
    \/ \E o \in Operator, b \in Bundle : Import(o, b)
    \/ \E o \in Operator, b \in Bundle : BeginActivate(o, b)
    \/ \E o \in Operator : CommitActivation(o)
    \/ \E o \in Operator : PublishActivation(o)
    \/ \E o \in Operator, b \in Bundle : BeginPrune(o, b)
    \/ \E o \in Operator : MarkUnavailable(o)
    \/ \E o \in Operator : PruneRefused(o)
    \/ \E o \in Operator : RemoveStarts(o)
    \/ \E o \in Operator : RemoveEnds(o)
    \/ ReadDesired
    \/ BeginReconcile
    \/ ReconcileRefused
    \/ ConfirmDesired
    \/ NoLongerDesired
    \/ PublishDesired
    \/ \E b \in Bundle : Admit(b)
    \/ \E b \in Bundle : Settle(b)
    \/ \E p \in Process : Crash(p)

Spec == Init /\ [][Next]_vars

\* A command that runs ends or is killed, and the reload loop keeps polling.
CommandStep(o) ==
    \/ CommitActivation(o) \/ PublishActivation(o)
    \/ MarkUnavailable(o) \/ PruneRefused(o) \/ RemoveStarts(o) \/ RemoveEnds(o)

ReloadStep ==
    \/ ReadDesired \/ BeginReconcile \/ ReconcileRefused
    \/ ConfirmDesired \/ NoLongerDesired \/ PublishDesired

FairSpec ==
    /\ Spec
    /\ \A o \in Operator : WF_vars(CommandStep(o))
    /\ WF_vars(ReloadStep)

-----------------------------------------------------------------------------
(* Properties.                                                             *)

\* Every variable keeps its type; the pointer names a generation that was
\* committed, and the lock is held by whoever is inside a command.
TypeOK ==
    /\ files \in [Bundle -> {"absent", "intact", "partial"}]
    /\ pointer \in Activation \cup {None}
    /\ pointer # None => pointer.generation <= last
    /\ lock \in Process \cup {None}
    /\ available \subseteq Bundle
    /\ newest \in [Bundle -> Nat]
    /\ last \in Nat
    /\ pinned \subseteq Bundle
    /\ pc \in [Process -> {"idle", "validated", "committed", "pruning", "marked", "removing",
                           "read", "reconciling", "confirmed"}]
    /\ subject \in [Process -> Bundle \cup {None}]
    /\ seen \in [Process -> Activation \cup {None}]
    /\ commands \in 0..MaxCommands

\* Whatever admission may pin has all its files on disk, although files and
\* database change in different steps of commands that can be killed between.
AvailableFilesIntact == \A b \in available : files[b] = "intact"

\* The files of an accepted batch's bundle stay until the batch is finished,
\* through activations, prunings and kills.
PinnedFilesIntact == \A b \in pinned : files[b] = "intact"

\* The desired bundle and the ones a restart or a rollback may fall back to
\* keep their files: one that lost them was overtaken by RollbackGenerations
\* other bundles.
RollbackFilesIntact ==
    \A b \in Bundle :
        newest[b] > 0 /\ files[b] # "intact" =>
            Cardinality({c \in Bundle : newest[c] > newest[b]}) >= RollbackGenerations

\* Standalone analysis follows the pointer file: even while it lags behind the
\* database, its candidate is complete.
PointerFilesIntact == pointer # None => files[pointer.bundle] = "intact"

\* No command, killed or not, takes away files that somebody may still read.
FilesIntact ==
    /\ AvailableFilesIntact
    /\ PinnedFilesIntact
    /\ RollbackFilesIntact
    /\ PointerFilesIntact

\* A kill between the commit and the publication is repaired: once operators
\* stop, the pointer comes to name the desired activation, unless the service
\* itself is killed again and again.
PointerConverges ==
    \/ []<><<Crash(Service)>>_vars
    \/ <>[](pointer = Desired)

=============================================================================
