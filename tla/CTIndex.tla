------------------------------- MODULE CTIndex -------------------------------
(***************************************************************************)
(* The certificate transparency index and the hostname inventory fed by    *)
(* it: ctlog/collector.go and ctlog/import.go over the PostgreSQL store    *)
(* (store.go Import, CommitCollection and insertCTRecords, inventory.go,   *)
(* inventory_search.go DeleteInventory, inventory_backfill.go).            *)
(*                                                                         *)
(* A log signs growing trees, and an old one now and then.  Its server may *)
(* send any leaf at any index, fewer entries than asked for, no proof, or  *)
(* nothing; hashes and signatures are perfect.  Several processes collect  *)
(* or import at once and may crash.  Their transactions take the scope     *)
(* lock shared and a lock per concrete hostname; scope registration and    *)
(* hostname imports take the scope lock alone.                             *)
(***************************************************************************)
EXTENDS Integers, Sequences

CONSTANTS
    Collector,      \* processes that collect from the log or import a file
    Name, Leaf, Certificate,
    MaximumEntries, BatchSize, MaximumProofs,
    Logged,         \* the leaf of the log's tree at an index
    Names,          \* a leaf's names in scope, in the certificate's order
    CertOf,         \* the certificate hash of a leaf
    Precert,        \* leaves of precertificates: their certificate comes beside the leaf
    LoggedAt,       \* the timestamp in a leaf
    Imported,       \* the records of a JSONL file
    ChunkNames,     \* the hostnames of the chunk a client imports
    MaxSize, MaxClock    \* bounds: entries of the log, the clock

Index == 0..(MaxSize - 1)

\* A row of ct_records.
Record ==
    [name : Name, wild : BOOLEAN, cert : Certificate, index : Nat, logged : Nat,
     prov : {"verified_log", "log_unverified", "imported_unverified"}]

ASSUME LogAssumption ==
    /\ {MaximumEntries, BatchSize, MaxSize, MaxClock} \subseteq Nat \ {0}
    /\ MaximumProofs \in Nat /\ BatchSize <= MaximumEntries
    /\ Logged \in [Index -> Leaf]
    /\ Names \in [Leaf -> Seq([name : Name, wild : BOOLEAN])]
    /\ CertOf \in [Leaf -> Certificate] /\ Precert \subseteq Leaf
    /\ LoggedAt \in [Leaf -> Nat \ {0}]
    /\ Imported \subseteq Record /\ \A r \in Imported : r.prov = "imported_unverified"
    /\ ChunkNames \subseteq Name

VARIABLES
    clock,        \* clock_timestamp()
    run,          \* a process's progress through Collect or ImportJSONL
    records,      \* ct_records
    checkpoint,   \* ct_checkpoints row of the log
    scopes,       \* the root is registered (inventory_scopes)
    asset,        \* inventory_assets: when the publication that inserted the hostname
                  \* counts as begun, 0 without an asset
    member,       \* inventory_memberships
    tombstone,    \* inventory_tombstones.deleted_at, 0 for none
    suppressed,   \* inventory_tombstones.suppressed
    request,      \* when the client's chunk request began, 0 without one
    receipt,      \* the chunk is in inventory_import_chunks
    misled        \* history, no code reads it: where a committed run was sent a leaf
                  \* that is not the log's

chunkVars == <<request, receipt>>
ctVars == <<records, checkpoint, misled>>
inventoryVars == <<scopes, asset, member, tombstone, suppressed, chunkVars>>
vars == <<clock, run, ctVars, inventoryVars>>

-----------------------------------------------------------------------------
(* Trees and entries.                                                      *)

\* A signed tree head is known by its size; those the log has signed by now.
Trees == {t \in 0..MaxSize : \A i \in Index : i < t => LoggedAt[Logged[i]] <= clock}

InTree(i, e, t) == i < t /\ e.leaf = Logged[i]

\* What a server can send at an index: a leaf, and beside a precertificate's
\* leaf any certificate (ExtraData).
Entry == {e \in [leaf : Leaf, cert : Certificate] : e.leaf \in Precert \/ e.cert = CertOf[e.leaf]}

NoRun == [pc |-> "idle", import |-> FALSE, from |-> 0, tree |-> 0, continuity |-> "none",
          pos |-> 0, end |-> 0, proofs |-> 0, all |-> TRUE, found |-> {}, misled |-> {},
          began |-> 0, links |-> {}]

NoCheckpoint == [next |-> 0, tree |-> 0]

Init ==
    /\ clock = 1
    /\ run = [c \in Collector |-> NoRun]
    /\ records = {} /\ misled = {}
    /\ checkpoint = NoCheckpoint
    /\ scopes = FALSE
    /\ asset = [n \in Name |-> 0]
    /\ member = {}
    /\ tombstone = [n \in Name |-> 0] /\ suppressed = [n \in Name |-> FALSE]
    /\ request = 0 /\ receipt = FALSE

Tick ==
    /\ clock < MaxClock
    /\ clock' = clock + 1
    /\ UNCHANGED <<run, ctVars, inventoryVars>>

-----------------------------------------------------------------------------
(* Collector.Collect.                                                      *)

LoadCheckpoint(c) ==
    /\ run[c].pc = "idle"
    /\ run' = [run EXCEPT ![c] = [NoRun EXCEPT !.pc = "head", !.from = checkpoint.tree,
                                               !.pos = checkpoint.next]]
    /\ UNCHANGED <<clock, ctVars, inventoryVars>>

\* verifyContinuity: a proof may be withheld, never forged.
Continuity(from, t) ==
    CASE from = 0 -> {"not_performed"}
      [] from > t -> {"failed"}
      [] from = t -> {"passed"}
      [] OTHER    -> {"passed", "failed"}

GetSTH(c) ==
    /\ run[c].pc = "head"
    /\ \E t \in Trees : \E check \in Continuity(run[c].from, t) :
         /\ t >= run[c].pos
         /\ run' = [run EXCEPT ![c].pc = "entries", ![c].tree = t, ![c].continuity = check,
                     ![c].end = IF run[c].pos + MaximumEntries < t THEN run[c].pos + MaximumEntries ELSE t]
    /\ UNCHANGED <<clock, ctVars, inventoryVars>>

\* verifyInclusion of the leaf, with so many proofs already fetched.
Inclusion(i, e, t, proofs) ==
    IF proofs >= MaximumProofs THEN {"not_performed"}
    ELSE IF InTree(i, e, t) THEN {"passed", "failed"} ELSE {"failed"}

Continuous(check) == check \in {"passed", "not_performed"}

\* Mutant of Provenance: an entry whose proof was not fetched counts as verified.
ProvenanceUnlessFailed(continuity, inclusion) ==
    IF inclusion # "failed" /\ Continuous(continuity) THEN "verified_log" ELSE "log_unverified"

Provenance(continuity, inclusion) ==
    IF inclusion = "passed" /\ Continuous(continuity) THEN "verified_log" ELSE "log_unverified"

\* The names a certificate is recorded under: the first mention of a name says
\* whether it is a wildcard, later ones count as duplicates.
Mentions(s) == {s[k] : k \in {k \in DOMAIN s : \A j \in DOMAIN s : j < k => s[j].name # s[k].name}}

\* recordsFromEntry: the names, the timestamp and the certificate are those sent.
RecordsFrom(i, e, continuity, inclusion) ==
    {[name |-> m.name, wild |-> m.wild, cert |-> e.cert, index |-> i, logged |-> LoggedAt[e.leaf],
      prov |-> Provenance(continuity, inclusion)] : m \in Mentions(Names[e.leaf])}

\* Mutant of AfterBatch: a short answer is taken for the whole batch.
AfterWholeBatch(r, got, batchEnd) == [r EXCEPT !.pos = batchEnd]

\* The range ends behind a batch that came back short.
AfterBatch(r, got, batchEnd) ==
    [r EXCEPT !.pos = r.pos + got, !.end = IF r.pos + got < batchEnd THEN r.pos + got ELSE @]

\* One batch: as many entries as the log cares to send, each checked and parsed.
GetEntries(c) ==
    LET r == run[c]
        batchEnd == IF r.pos + BatchSize < r.end THEN r.pos + BatchSize ELSE r.end
    IN  /\ r.pc = "entries" /\ r.pos < r.end
        /\ \E got \in 1..(batchEnd - r.pos) :
           LET at == r.pos..(r.pos + got - 1)
           IN  \E e \in [at -> Entry], inclusion \in [at -> {"passed", "failed", "not_performed"}] :
                 /\ \A i \in at : inclusion[i] \in Inclusion(i, e[i], r.tree, r.proofs + (i - r.pos))
                 /\ run' = [run EXCEPT ![c] = AfterBatch(
                      [r EXCEPT !.found = @ \cup UNION {RecordsFrom(i, e[i], r.continuity, inclusion[i]) : i \in at},
                                !.misled = @ \cup {i \in at : e[i].leaf # Logged[i]},
                                !.all = @ /\ \A i \in at : inclusion[i] = "passed",
                                !.proofs = IF @ + got < MaximumProofs THEN @ + got ELSE MaximumProofs],
                      got, batchEnd)]
    /\ UNCHANGED <<clock, ctVars, inventoryVars>>

\* The run fails or dies, at a request or inside its transaction.
Fail(c) ==
    /\ run[c].pc # "idle"
    /\ run' = [run EXCEPT ![c] = NoRun]
    /\ UNCHANGED <<clock, ctVars, inventoryVars>>

-----------------------------------------------------------------------------
(* Import and CommitCollection.                                            *)

\* A wildcard stays out of the inventory, and its transaction locks nothing for it.
NamesOf(c) == {r.name : r \in {r \in run[c].found : ~r.wild}}

\* Names whose lock an open transaction holds.
Locked == UNION {NamesOf(c) : c \in {c \in Collector : run[c].pc = "publish"}}

\* The checkpoint names the new tree only when all of it was verified.
NewTree(r) == IF Continuous(r.continuity) /\ r.all THEN r.tree ELSE r.from

\* The range is complete: the checkpoint is made up and the transaction begins.
BeginCommit(c) ==
    /\ run[c].pc = "entries" /\ run[c].pos >= run[c].end
    /\ run' = [run EXCEPT ![c] = [NoRun EXCEPT !.pc = "begun", !.began = clock, !.found = run[c].found,
                                               !.misled = run[c].misled, !.end = run[c].end,
                                               !.tree = NewTree(run[c])]]
    /\ UNCHANGED <<clock, ctVars, inventoryVars>>

\* A file is read, its records stay unverified whatever it claims, and the
\* transaction begins.
ImportJSONL(c) ==
    /\ run[c].pc = "idle"
    /\ run' = [run EXCEPT ![c] = [NoRun EXCEPT !.pc = "begun", !.import = TRUE, !.began = clock,
                                               !.found = Imported]]
    /\ UNCHANGED <<clock, ctVars, inventoryVars>>

\* The hostname is suppressed, or was deleted since the publication began.
Deleted(n, began) == suppressed[n] \/ tombstone[n] >= began

\* The assets once a publication that began then has inserted some names.
Assets(names, began) == [n \in Name |-> IF n \in names /\ asset[n] = 0 THEN began ELSE asset[n]]

\* insertCTRecords and upsertCTInventory under the shared scope lock and the
\* hostname locks: which names become assets, and which of them join the root.
Publish(c) ==
    /\ run[c].pc = "begun"
    /\ NamesOf(c) \cap Locked = {}
    /\ LET live == {n \in NamesOf(c) : ~Deleted(n, run[c].began)}
       IN  run' = [run EXCEPT ![c].pc = "publish", ![c].links = live \X {scopes}]
    /\ UNCHANGED <<clock, ctVars, inventoryVars>>

SameKey(r, s) == r.name = s.name /\ r.cert = s.cert

\* ON CONFLICT DO NOTHING: of records with one key the first stays, and those of
\* one transaction come in any order.
Insertions(new) ==
    LET free == {r \in new : \A old \in records : ~SameKey(old, r)}
    IN  {kept \in SUBSET free :
           /\ \A r \in free : \E k \in kept : SameKey(k, r)
           /\ \A k \in kept, l \in kept : SameKey(k, l) => k = l}

\* The transaction's rows of ct_records and of the inventory.
Commit(c) ==
    /\ \E kept \in Insertions(run[c].found) : records' = records \cup kept
    /\ asset' = Assets({l[1] : l \in run[c].links}, run[c].began)
    /\ member' = member \cup {l[1] : l \in {l \in run[c].links : l[2]}}

CommitImport(c) ==
    /\ run[c].pc = "publish" /\ run[c].import
    /\ Commit(c)
    /\ run' = [run EXCEPT ![c] = NoRun]
    /\ UNCHANGED <<clock, checkpoint, misled, scopes, tombstone, suppressed, chunkVars>>

NewCheckpoint(c) == [next |-> run[c].end, tree |-> run[c].tree]

\* The guard of the checkpoint row.
Regresses(new) ==
    \/ new.next < checkpoint.next
    \/ new.next = checkpoint.next /\ new.tree < checkpoint.tree

CommitCollection(c) ==
    /\ run[c].pc = "publish" /\ ~run[c].import
    /\ run' = [run EXCEPT ![c] = NoRun]
    /\ IF Regresses(NewCheckpoint(c))
       THEN UNCHANGED <<ctVars, asset, member>>
       ELSE /\ Commit(c)
            /\ checkpoint' = NewCheckpoint(c)
            /\ misled' = misled \cup run[c].misled
    /\ UNCHANGED <<clock, scopes, tombstone, suppressed, chunkVars>>

-----------------------------------------------------------------------------
(* The other writers.                                                      *)

\* BackfillCTInventory for one record: it counts as published when it was logged.
Backfill(r) ==
    /\ ~r.wild /\ r.name \notin Locked
    /\ LET live == {n \in {r.name} : ~Deleted(n, r.logged)}
       IN  /\ asset' = Assets(live, r.logged)
           /\ member' = IF scopes THEN member \cup live ELSE member
    /\ UNCHANGED <<clock, run, ctVars, scopes, tombstone, suppressed, chunkVars>>

\* Mutant of HostLockFree: the deletion does not wait for the hostname.
HostLockIgnored(n) == TRUE

HostLockFree(n) == n \notin Locked

\* Deletion of a hostname under its lock, also of one that has no asset; the
\* latest deletion says whether it is suppressed.
Delete(n, suppress) ==
    /\ HostLockFree(n)
    /\ tombstone' = [tombstone EXCEPT ![n] = clock]
    /\ suppressed' = [suppressed EXCEPT ![n] = suppress]
    /\ asset' = [asset EXCEPT ![n] = 0]
    /\ member' = member \ {n}
    /\ UNCHANGED <<clock, run, ctVars, scopes, chunkVars>>

\* Mutant of ScopeLockFree: registration does not wait for open publications.
ScopeLockIgnored == TRUE

ScopeLockFree == Locked = {}

\* RegisterInventoryScopes: the root, and every asset below it.
RegisterScopes ==
    /\ ScopeLockFree
    /\ scopes' = TRUE
    /\ member' = member \cup {n \in Name : asset[n] # 0}
    /\ UNCHANGED <<clock, run, ctVars, asset, tombstone, suppressed, chunkVars>>

\* ImportInventoryChunk: its clock is read before it waits for the locks.
BeginChunk ==
    /\ request = 0 /\ ~receipt
    /\ request' = clock
    /\ UNCHANGED <<clock, run, ctVars, scopes, asset, member, tombstone, suppressed, receipt>>

\* The root is registered, the names are published and the receipt is stored, in
\* one commit.
ImportChunk ==
    /\ request # 0 /\ ScopeLockFree
    /\ request' = 0
    /\ LET live == {n \in ChunkNames : ~Deleted(n, request)}
       IN  /\ asset' = Assets(live, request)
           /\ member' = member \cup live \cup {n \in Name : asset[n] # 0}
    /\ scopes' = TRUE
    /\ receipt' = TRUE
    /\ UNCHANGED <<clock, run, ctVars, tombstone, suppressed>>

\* A chunk already imported is answered from its receipt.
RepeatChunk == receipt /\ UNCHANGED vars

\* The request dies, or its reply is lost; the client sends the chunk again.
DropChunk ==
    /\ request # 0
    /\ request' = 0
    /\ UNCHANGED <<clock, run, ctVars, scopes, asset, member, tombstone, suppressed, receipt>>

CollectorStep(c) ==
    \/ LoadCheckpoint(c) \/ GetSTH(c) \/ GetEntries(c) \/ Fail(c)
    \/ BeginCommit(c) \/ ImportJSONL(c) \/ Publish(c) \/ CommitImport(c) \/ CommitCollection(c)

Next ==
    \/ Tick
    \/ \E c \in Collector : CollectorStep(c)
    \/ \E r \in records : Backfill(r)
    \/ \E n \in Name, suppress \in BOOLEAN : Delete(n, suppress)
    \/ RegisterScopes
    \/ BeginChunk \/ ImportChunk \/ RepeatChunk \/ DropChunk

Spec == Init /\ [][Next]_vars

-----------------------------------------------------------------------------
(* Properties.                                                             *)

\* A set of records has the log's entry at an index under every name it mentions;
\* a precertificate's under whatever certificate came beside it.
Recorded(R, i) ==
    \A m \in Mentions(Names[Logged[i]]) : \E r \in R :
        r.name = m.name /\ (Logged[i] \in Precert \/ r.cert = CertOf[Logged[i]])

\* Ingestion leaves no gap: every entry below next_index is in the index, though
\* runs overlap, fail, and get short answers; unless its server sent a committed
\* run another leaf in its place, which NextIndex passes all the same.
CheckpointCovers ==
    \A i \in Index : i < checkpoint.next => i \in misled \/ Recorded(records, i)

\* A record says what a leaf in the log says: a name with its wildcard mark, the
\* time it was logged, and the certificate, which nothing proves of a precertificate.
OfTheLog(r) ==
    /\ r.index \in Index
    /\ [name |-> r.name, wild |-> r.wild] \in Mentions(Names[Logged[r.index]])
    /\ r.logged = LoggedAt[Logged[r.index]]
    /\ Logged[r.index] \in Precert \/ r.cert = CertOf[Logged[r.index]]

\* A record marked verified_log is of the entry in the log at its index, not of one
\* its server made up for a collector, nor one whose proof the budget left unfetched.
VerifiedSound == \A r \in records : r.prov = "verified_log" => OfTheLog(r)

\* Every asset below a registered root is a member of it, in whichever order the
\* root was registered and the asset published.
MembershipComplete == scopes => \A n \in Name : asset[n] # 0 => n \in member

\* A deletion holds: an asset was inserted by a publication that began after the
\* hostname was last deleted (by the backfill: of a record logged after it), and
\* none is inserted while the hostname is suppressed.  A collection or an import
\* that begins later does bring the name back, from old entries too.
DeletionHolds == \A n \in Name : asset[n] # 0 => ~suppressed[n] /\ asset[n] > tombstone[n]

=============================================================================
