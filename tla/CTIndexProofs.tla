--------------------------- MODULE CTIndexProofs ---------------------------
(***************************************************************************)
(* Theorems about CTIndex for every log, batch size, proof budget and      *)
(* number of collectors, hostnames and imported entries.                   *)
(***************************************************************************)
EXTENDS CTIndex, TLAPS

-----------------------------------------------------------------------------
(* The inductive invariant.                                                *)

Run ==
    [pc : {"idle", "head", "entries", "begun", "publish"}, import : BOOLEAN,
     from : 0..MaxSize, tree : 0..MaxSize, continuity : {"none", "not_performed", "passed", "failed"},
     pos : 0..MaxSize, end : 0..MaxSize, proofs : Int, all : BOOLEAN,
     found : SUBSET Record, misled : SUBSET Index,
     began : Int, links : SUBSET (Name \X BOOLEAN)]

TypeOK ==
    /\ clock \in Int
    /\ run \in [Collector -> Run]
    /\ records \subseteq Record
    /\ checkpoint \in [next : 0..MaxSize, tree : 0..MaxSize]
    /\ scopes \in BOOLEAN
    /\ asset \in [Name -> Int]
    /\ tombstone \in [Name -> Int] /\ suppressed \in [Name -> BOOLEAN]
    /\ request \in Int

\* R has a record of every entry below n, but where a server lied.
Covers(R, lied, n) == \A i \in Index : i < n => i \in lied \/ Recorded(R, i)

\* Where a run stands: the entries below it are in the index, or in what the
\* run has found and will commit.
Reached(r) == IF r.pc \in {"begun", "publish"} THEN r.end ELSE r.pos

RunsCover ==
    \A c \in Collector :
        Covers(records \cup run[c].found, misled \cup run[c].misled, Reached(run[c]))

\* What a run will call verified is of the log.
FoundSound ==
    \A c \in Collector : \A r \in run[c].found : r.prov = "verified_log" => OfTheLog(r)

\* What an open transaction decided still holds when it commits: its hostnames
\* were not deleted since it began, and the root is as it found it.
LinksCurrent ==
    \A c \in Collector : run[c].pc = "publish" =>
        \A l \in run[c].links :
            /\ l[1] \in NamesOf(c)
            /\ ~Deleted(l[1], run[c].began)
            /\ l[2] = scopes

IndexInv ==
    /\ TypeOK
    /\ CheckpointCovers /\ RunsCover
    /\ VerifiedSound /\ FoundSound
    /\ MembershipComplete /\ DeletionHolds /\ LinksCurrent

-----------------------------------------------------------------------------
(* Type correctness.                                                       *)

\* The log never signs a tree of more entries than it has.
LEMMA TreesBounded == Trees \subseteq 0..MaxSize
  BY DEF Trees

\* An idle run is a run.
LEMMA NoRunType == NoRun \in Run
  BY LogAssumption DEF NoRun, Run

\* What GetSTH and Publish write into a run.
LEMMA HeadRunType ==
    ASSUME NEW r \in Run, NEW t \in 0..MaxSize, NEW u \in 0..MaxSize,
           NEW check \in {"not_performed", "passed", "failed"}
    PROVE  [r EXCEPT !.pc = "entries", !.tree = t, !.continuity = check, !.end = u] \in Run
  BY DEF Run

LEMMA LinkRunType ==
    ASSUME NEW r \in Run, NEW links \in SUBSET (Name \X BOOLEAN)
    PROVE  [r EXCEPT !.pc = "publish", !.links = links] \in Run
  BY DEF Run

\* A certificate's names are names in scope.
LEMMA MentionsType ==
    ASSUME NEW l \in Leaf
    PROVE  Mentions(Names[l]) \subseteq [name : Name, wild : BOOLEAN]
  <1> DEFINE s == Names[l]
             M == [name : Name, wild : BOOLEAN]
  <1>1. s \in Seq(M)
    BY LogAssumption
  <1> HIDE DEF s, M
  <1>2. \A k \in DOMAIN s : s[k] \in M
    BY <1>1
  <1>3. Mentions(s) \subseteq M
    BY <1>2 DEF Mentions
  <1> QED
    BY <1>3 DEF s, M

\* recordsFromEntry makes rows of ct_records.
LEMMA RecordsFromType ==
    ASSUME NEW i \in Index, NEW e \in Entry, NEW check, NEW inclusion
    PROVE  RecordsFrom(i, e, check, inclusion) \subseteq Record
  <1>1. e.leaf \in Leaf /\ e.cert \in Certificate /\ LoggedAt[e.leaf] \in Nat /\ i \in Nat
    BY LogAssumption DEF Entry, Index
  <1>2. Provenance(check, inclusion) \in {"verified_log", "log_unverified", "imported_unverified"}
    BY DEF Provenance
  <1> QED
    BY <1>1, <1>2, MentionsType DEF RecordsFrom, Record

\* A batch: the entries the log sent, their checks, and the run after them.
Batch(c, got, e, inclusion) ==
    LET r == run[c]
        at == r.pos..(r.pos + got - 1)
        batchEnd == IF r.pos + BatchSize < r.end THEN r.pos + BatchSize ELSE r.end
    IN  /\ r.pc = "entries" /\ r.pos < r.end
        /\ got \in 1..(batchEnd - r.pos)
        /\ \A i \in at : e[i] \in Entry
        /\ \A i \in at : inclusion[i] \in Inclusion(i, e[i], r.tree, r.proofs + (i - r.pos))
        /\ run' = [run EXCEPT ![c] = AfterBatch(
             [r EXCEPT !.found = @ \cup UNION {RecordsFrom(i, e[i], r.continuity, inclusion[i]) : i \in at},
                       !.misled = @ \cup {i \in at : e[i].leaf # Logged[i]},
                       !.all = @ /\ \A i \in at : inclusion[i] = "passed",
                       !.proofs = IF @ + got < MaximumProofs THEN @ + got ELSE MaximumProofs],
             got, batchEnd)]
        /\ UNCHANGED <<clock, ctVars, inventoryVars>>

LEMMA GetEntriesBatch ==
    ASSUME NEW c \in Collector, GetEntries(c)
    PROVE  \E got, e, inclusion : Batch(c, got, e, inclusion)
  BY DEF GetEntries, Batch

\* What a batch changes of a run, whatever the values.
LEMMA RunUpdated ==
    ASSUME NEW r \in Run, NEW found \in SUBSET Record, NEW wrong \in SUBSET Index,
           NEW all \in BOOLEAN, NEW proofs \in Int, NEW pos \in 0..MaxSize, NEW end \in 0..MaxSize
    PROVE  [r EXCEPT !.found = found, !.misled = wrong, !.all = all, !.proofs = proofs,
                     !.pos = pos, !.end = end] \in Run
  BY DEF Run

\* What a batch leaves behind.
LEMMA BatchEffect ==
    ASSUME TypeOK, NEW c \in Collector, NEW got, NEW e, NEW inclusion,
           Batch(c, got, e, inclusion)
    PROVE  LET at == run[c].pos..(run[c].pos + got - 1)
           IN  /\ got \in Nat \ {0}
               /\ at \subseteq Index
               /\ run' \in [Collector -> Run]
               /\ \A d \in Collector \ {c} : run'[d] = run[d]
               /\ run'[c].pc = "entries"
               /\ run'[c].pos = run[c].pos + got
               /\ run'[c].misled = run[c].misled \cup {i \in at : e[i].leaf # Logged[i]}
               /\ run'[c].found = run[c].found \cup
                      UNION {RecordsFrom(i, e[i], run[c].continuity, inclusion[i]) : i \in at}
  <1> DEFINE at == run[c].pos..(run[c].pos + got - 1)
             batchEnd == IF run[c].pos + BatchSize < run[c].end
                         THEN run[c].pos + BatchSize ELSE run[c].end
             new == UNION {RecordsFrom(i, e[i], run[c].continuity, inclusion[i]) : i \in at}
             all == \A i \in at : inclusion[i] = "passed"
             lied == {i \in at : e[i].leaf # Logged[i]}
  <1> USE LogAssumption
  <1>1. run[c] \in Run
    BY DEF TypeOK
  <1>2. run[c].pos \in 0..MaxSize /\ run[c].end \in 0..MaxSize /\ run[c].proofs \in Int
    BY <1>1 DEF Run
  <1>3. got \in Nat \ {0} /\ run[c].pos + got <= batchEnd /\ batchEnd <= run[c].end
    <2>1. batchEnd \in Int /\ batchEnd <= run[c].end
      BY <1>2
    <2>2. got \in 1..(batchEnd - run[c].pos)
      BY DEF Batch
    <2> HIDE DEF batchEnd
    <2> QED
      BY <1>2, <2>1, <2>2
  <1> HIDE DEF batchEnd
  <1>3a. run[c].pos + got \in 1..MaxSize
    <2>1. \A p, n \in 0..MaxSize, g \in Nat \ {0} : p + g <= n => p + g \in 1..MaxSize
      OBVIOUS
    <2>2. run[c].pos + got <= run[c].end
      <3>1. batchEnd \in Int
        BY <1>2 DEF batchEnd
      <3> QED
        BY <1>2, <1>3, <3>1
    <2> QED
      BY <1>2, <1>3, <2>1, <2>2
  <1>4. at \subseteq Index
    <2>1. \A p \in 0..MaxSize, g \in Nat \ {0} :
            p + g \in 0..MaxSize => p..(p + g - 1) \subseteq Index
      BY DEF Index
    <2>2. run[c].pos + got \in 0..MaxSize
      BY <1>3a
    <2> QED
      BY <1>2, <1>3, <2>1, <2>2
  <1>5. new \subseteq Record
    <2>1. ASSUME NEW i \in at
          PROVE  RecordsFrom(i, e[i], run[c].continuity, inclusion[i]) \subseteq Record
      <3>1. e[i] \in Entry /\ i \in Index
        BY <1>4, <2>1 DEF Batch
      <3> HIDE DEF at
      <3> QED
        BY <3>1, RecordsFromType
    <2> QED
      BY <2>1
  <1>6. all \in BOOLEAN /\ lied \subseteq Index
    BY <1>4
  <1> HIDE DEF at, new, all, lied
  <1>7. run' = [run EXCEPT ![c] = AfterBatch(
             [run[c] EXCEPT !.found = @ \cup new, !.misled = @ \cup lied, !.all = @ /\ all,
                  !.proofs = IF @ + got < MaximumProofs THEN @ + got ELSE MaximumProofs],
             got, batchEnd)]
    BY DEF Batch, at, new, all, lied, batchEnd
  <1>8. run' = [run EXCEPT ![c] =
             [run[c] EXCEPT !.found = @ \cup new, !.misled = @ \cup lied, !.all = @ /\ all,
                  !.proofs = IF @ + got < MaximumProofs THEN @ + got ELSE MaximumProofs,
                  !.pos = @ + got,
                  !.end = IF run[c].pos + got < batchEnd THEN run[c].pos + got ELSE @]]
    BY <1>1, <1>7 DEF AfterBatch, Run
  <1>9. run'[c] \in Run
    <2> DEFINE found == run[c].found \cup new
               wrong == run[c].misled \cup lied
               verified == run[c].all /\ all
               proofs == IF run[c].proofs + got < MaximumProofs
                         THEN run[c].proofs + got ELSE MaximumProofs
               pos == run[c].pos + got
               end == IF pos < batchEnd THEN pos ELSE run[c].end
    <2>1. run'[c] = [run[c] EXCEPT !.found = found, !.misled = wrong, !.all = verified,
                                   !.proofs = proofs, !.pos = pos, !.end = end]
      BY <1>8 DEF TypeOK
    <2>2. pos \in 0..MaxSize
      BY <1>3a
    <2>3. found \in SUBSET Record /\ wrong \in SUBSET Index
      BY <1>1, <1>5, <1>6 DEF Run
    <2>4. proofs \in Int
      BY <1>2, <1>3
    <2>5. verified \in BOOLEAN
      OBVIOUS
    <2>6. end \in 0..MaxSize
      BY <1>2, <2>2
    <2> HIDE DEF found, wrong, verified, proofs, pos, end
    <2>7. [run[c] EXCEPT !.found = found, !.misled = wrong, !.all = verified,
                         !.proofs = proofs, !.pos = pos, !.end = end] \in Run
      BY <1>1, <2>2, <2>3, <2>4, <2>5, <2>6, RunUpdated, ZenonT(30)
    <2> QED
      BY <2>1, <2>7, Zenon
  <1>10. run' \in [Collector -> Run] /\ \A d \in Collector \ {c} : run'[d] = run[d]
    BY <1>8, <1>9 DEF TypeOK
  <1>11. /\ run'[c].pos = run[c].pos + got
         /\ run'[c].found = run[c].found \cup new
         /\ run'[c].misled = run[c].misled \cup lied
         /\ run'[c].pc = run[c].pc
    BY <1>1, <1>8 DEF Run, TypeOK
  <1> QED
    BY <1>3, <1>4, <1>10, <1>11 DEF at, new, lied, Batch

LEMMA InitTypeOK == Init => TypeOK
  <1> SUFFICES ASSUME Init PROVE TypeOK
    OBVIOUS
  <1>1. run \in [Collector -> Run]
    BY NoRunType DEF Init
  <1>2. checkpoint \in [next : 0..MaxSize, tree : 0..MaxSize]
    BY LogAssumption DEF Init, NoCheckpoint
  <1>3. clock \in Int
    BY DEF Init
  <1>5. scopes \in BOOLEAN
    BY Zenon DEF Init
  <1>4. /\ asset \in [Name -> Int] /\ tombstone \in [Name -> Int]
        /\ suppressed \in [Name -> BOOLEAN] /\ request \in Int /\ records \subseteq Record
    BY DEF Init
  <1> QED
    BY <1>1, <1>2, <1>3, <1>4, <1>5 DEF TypeOK

\* What a commit leaves in the tables.
LEMMA CommitType ==
    ASSUME TypeOK, NEW c \in Collector, Commit(c)
    PROVE  records' \subseteq Record /\ asset' \in [Name -> Int]
  <1>1. run[c] \in Run
    BY DEF TypeOK
  <1>2. run[c].found \subseteq Record /\ run[c].began \in Int
    BY <1>1 DEF Run
  <1>3. PICK kept \in Insertions(run[c].found) : records' = records \cup kept
    BY DEF Commit
  <1>4. kept \subseteq run[c].found
    BY DEF Insertions
  <1>5. asset' \in [Name -> Int]
    BY <1>2 DEF Commit, Assets, TypeOK
  <1> QED
    BY <1>2, <1>3, <1>4, <1>5 DEF TypeOK

LEMMA NextTypeOK == TypeOK /\ [Next]_vars => TypeOK'
  <1> SUFFICES ASSUME TypeOK, [Next]_vars PROVE TypeOK'
    OBVIOUS
  <1> USE LogAssumption DEF ctVars, inventoryVars, chunkVars
  <1> DEFINE Rest == UNCHANGED <<clock, records, checkpoint, scopes, asset, tombstone, suppressed, request>>
  <1>a. ASSUME Rest, run' \in [Collector -> Run] PROVE TypeOK'
    BY <1>a DEF TypeOK
  <1>b. \A c \in Collector : run[c] \in Run
    BY DEF TypeOK
  <1>c. ASSUME NEW names, NEW began \in Int PROVE Assets(names, began) \in [Name -> Int]
    BY DEF Assets, TypeOK
  <1>1. CASE Tick
    BY <1>1 DEF Tick, TypeOK
  <1>2. ASSUME NEW c \in Collector, LoadCheckpoint(c) PROVE TypeOK'
    <2>1. [NoRun EXCEPT !.pc = "head", !.from = checkpoint.tree, !.pos = checkpoint.next] \in Run
      BY NoRunType DEF Run, TypeOK
    <2> QED
      BY <1>2, <1>a, <2>1 DEF LoadCheckpoint, TypeOK
  <1>3. ASSUME NEW c \in Collector, GetSTH(c) PROVE TypeOK'
    <2>1. PICK t \in Trees : \E check \in Continuity(run[c].from, t) :
            run' = [run EXCEPT ![c].pc = "entries", ![c].tree = t, ![c].continuity = check,
                     ![c].end = IF run[c].pos + MaximumEntries < t THEN run[c].pos + MaximumEntries ELSE t]
      BY <1>3 DEF GetSTH
    <2>2. PICK check \in Continuity(run[c].from, t) :
            run' = [run EXCEPT ![c].pc = "entries", ![c].tree = t, ![c].continuity = check,
                     ![c].end = IF run[c].pos + MaximumEntries < t THEN run[c].pos + MaximumEntries ELSE t]
      BY <2>1
    <2>3. t \in 0..MaxSize
      BY TreesBounded
    <2>4. check \in {"not_performed", "passed", "failed"}
      BY DEF Continuity
    <2>5. (IF run[c].pos + MaximumEntries < t THEN run[c].pos + MaximumEntries ELSE t) \in 0..MaxSize
      BY <1>b, <2>3 DEF Run
    <2>6. run' \in [Collector -> Run]
      <3> DEFINE until == IF run[c].pos + MaximumEntries < t
                          THEN run[c].pos + MaximumEntries ELSE t
                 new == [run[c] EXCEPT !.pc = "entries", !.tree = t, !.continuity = check,
                                       !.end = until]
      <3> HIDE DEF until
      <3>1. new \in Run
        <4>1. until \in 0..MaxSize
          BY <2>5 DEF until
        <4> QED
          BY <1>b, <2>3, <2>4, <4>1, HeadRunType
      <3>2. run' = [run EXCEPT ![c] = new]
        BY <2>2 DEF TypeOK, until
      <3> QED
        BY <3>1, <3>2 DEF TypeOK
    <2> QED
      BY <1>3, <1>a, <2>6 DEF GetSTH
  <1>4. ASSUME NEW c \in Collector, GetEntries(c) PROVE TypeOK'
    <2>1. PICK got, e, inclusion : Batch(c, got, e, inclusion)
      BY <1>4, GetEntriesBatch
    <2>2. run' \in [Collector -> Run]
      BY <2>1, BatchEffect
    <2> QED
      BY <1>4, <1>a, <2>2 DEF GetEntries
  <1>5. ASSUME NEW c \in Collector, Fail(c) PROVE TypeOK'
    BY <1>5, <1>a, NoRunType DEF Fail, TypeOK
  <1>6. ASSUME NEW c \in Collector, BeginCommit(c) PROVE TypeOK'
    <2>1. [NoRun EXCEPT !.pc = "begun", !.began = clock, !.found = run[c].found,
                        !.misled = run[c].misled, !.end = run[c].end, !.tree = NewTree(run[c])] \in Run
      BY <1>b, NoRunType DEF Run, TypeOK, NewTree
    <2> QED
      BY <1>6, <1>a, <2>1 DEF BeginCommit, TypeOK
  <1>7. ASSUME NEW c \in Collector, ImportJSONL(c) PROVE TypeOK'
    <2>1. [NoRun EXCEPT !.pc = "begun", !.import = TRUE, !.began = clock, !.found = Imported] \in Run
      BY NoRunType DEF Run, TypeOK
    <2> QED
      BY <1>7, <1>a, <2>1 DEF ImportJSONL, TypeOK
  <1>8. ASSUME NEW c \in Collector, Publish(c) PROVE TypeOK'
    <2> DEFINE live == {n \in NamesOf(c) : ~Deleted(n, run[c].began)}
    <2>1. live \X {scopes} \in SUBSET (Name \X BOOLEAN)
      <3>1. \A r \in run[c].found : r.name \in Name
        BY <1>b DEF Run, Record
      <3> QED
        BY <3>1 DEF NamesOf, TypeOK
    <2>2. run' = [run EXCEPT ![c].pc = "publish", ![c].links = live \X {scopes}]
      BY <1>8 DEF Publish
    <2> HIDE DEF live
    <2>3. run' \in [Collector -> Run]
      <3> DEFINE new == [run[c] EXCEPT !.pc = "publish", !.links = live \X {scopes}]
      <3>1. new \in Run
        <4>1. PICK links \in SUBSET (Name \X BOOLEAN) : links = live \X {scopes}
          BY <2>1
        <4>2. [run[c] EXCEPT !.pc = "publish", !.links = links] \in Run
          BY <1>b, LinkRunType
        <4> QED
          BY <4>1, <4>2
      <3>2. run' = [run EXCEPT ![c] = new]
        BY <2>2 DEF TypeOK
      <3> QED
        BY <3>1, <3>2 DEF TypeOK
    <2> QED
      BY <1>8, <1>a, <2>3 DEF Publish
  <1>9. ASSUME NEW c \in Collector, CommitImport(c) PROVE TypeOK'
    <2>1. records' \subseteq Record /\ asset' \in [Name -> Int]
      BY <1>9, CommitType DEF CommitImport
    <2>2. run' \in [Collector -> Run]
      BY <1>9, NoRunType DEF CommitImport, TypeOK
    <2> QED
      BY <1>9, <2>1, <2>2 DEF CommitImport, TypeOK
  <1>10. ASSUME NEW c \in Collector, CommitCollection(c) PROVE TypeOK'
    <2>1. NewCheckpoint(c) \in [next : 0..MaxSize, tree : 0..MaxSize]
      BY <1>b DEF NewCheckpoint, Run
    <2>2. run' \in [Collector -> Run]
      BY <1>10, NoRunType DEF CommitCollection, TypeOK
    <2>3. CASE Regresses(NewCheckpoint(c))
      BY <1>10, <2>2, <2>3 DEF CommitCollection, TypeOK
    <2>4. CASE ~Regresses(NewCheckpoint(c))
      <3>1. records' \subseteq Record /\ asset' \in [Name -> Int]
        BY <1>10, <2>4, CommitType DEF CommitCollection
      <3> QED
        BY <1>10, <2>1, <2>2, <2>4, <3>1 DEF CommitCollection, TypeOK
    <2> QED
      BY <2>3, <2>4
  <1>11. ASSUME NEW r \in records, Backfill(r) PROVE TypeOK'
    <2>1. r.logged \in Int
      BY DEF TypeOK, Record
    <2> QED
      BY <1>11, <1>c, <2>1 DEF Backfill, TypeOK
  <1>12. ASSUME NEW n \in Name, NEW suppress \in BOOLEAN, Delete(n, suppress) PROVE TypeOK'
    BY <1>12 DEF Delete, TypeOK
  <1>13. CASE RegisterScopes
    BY <1>13 DEF RegisterScopes, TypeOK
  <1>14. CASE BeginChunk
    BY <1>14 DEF BeginChunk, TypeOK
  <1>15. CASE ImportChunk
    <2>1. request \in Int
      BY DEF TypeOK
    <2> QED
      BY <1>15, <1>c, <2>1 DEF ImportChunk, TypeOK
  <1>16. CASE DropChunk
    BY <1>16 DEF DropChunk, TypeOK
  <1>17. CASE UNCHANGED vars
    BY <1>17 DEF vars, TypeOK
  <1> QED
    BY <1>1, <1>2, <1>3, <1>4, <1>5, <1>6, <1>7, <1>8, <1>9, <1>10, <1>11, <1>12,
       <1>13, <1>14, <1>15, <1>16, <1>17 DEF Next, CollectorStep, RepeatChunk

-----------------------------------------------------------------------------
(* The index covers what the checkpoint passes.                            *)

\* More records keep the cover.
LEMMA CoversMore ==
    ASSUME NEW R, NEW S, R \subseteq S, NEW lied, NEW n, Covers(R, lied, n)
    PROVE  Covers(S, lied, n)
  BY DEF Covers, Recorded

\* So does a smaller range, and nothing is below index zero.
LEMMA CoversLess ==
    ASSUME NEW R, NEW lied, NEW m \in Int, NEW n \in Int, n <= m, Covers(R, lied, m)
    PROVE  Covers(R, lied, n)
  <1>1. \A i \in Index : i < n => i < m
    BY LogAssumption DEF Index
  <1> QED
    BY <1>1 DEF Covers

LEMMA CoversNothing == ASSUME NEW R, NEW lied PROVE Covers(R, lied, 0)
  BY LogAssumption DEF Covers, Index

\* Records are never removed, and a new one is left out only for one of the
\* same name and certificate.
LEMMA CommitCovers ==
    ASSUME NEW c \in Collector, Commit(c)
    PROVE  /\ records \subseteq records'
           /\ \A lied, n : Covers(records \cup run[c].found, lied, n) => Covers(records', lied, n)
  <1>1. PICK kept \in Insertions(run[c].found) : records' = records \cup kept
    BY DEF Commit
  <1>2. ASSUME NEW r \in records \cup run[c].found
        PROVE  \E k \in records' : k.name = r.name /\ k.cert = r.cert
    <2> DEFINE free == {f \in run[c].found : \A old \in records : ~SameKey(old, f)}
    <2>1. \A f \in free : \E k \in kept : SameKey(k, f)
      BY DEF Insertions
    <2>2. CASE r \in free
      BY <1>1, <2>1, <2>2 DEF SameKey
    <2>3. CASE r \notin free
      BY <1>1, <1>2, <2>3 DEF SameKey
    <2> QED
      BY <2>2, <2>3
  <1>3. \A i : Recorded(records \cup run[c].found, i) => Recorded(records', i)
    BY <1>2 DEF Recorded
  <1> QED
    BY <1>1, <1>3 DEF Covers

\* A step that leaves the runs and the checkpoint alone keeps the cover.
LEMMA CoverKept ==
    ASSUME CheckpointCovers, RunsCover,
           run' = run, checkpoint' = checkpoint, misled' = misled, records \subseteq records'
    PROVE  CheckpointCovers' /\ RunsCover'
  <1>1. Covers(records, misled, checkpoint.next)
    BY DEF Covers, CheckpointCovers
  <1>2. Covers(records', misled, checkpoint.next)
    BY <1>1, CoversMore
  <1>3. CheckpointCovers'
    BY <1>2 DEF Covers, CheckpointCovers, Recorded
  <1>4. ASSUME NEW c \in Collector
        PROVE  Covers(records' \cup run[c].found, misled \cup run[c].misled, Reached(run[c]))
    <2>1. records \cup run[c].found \subseteq records' \cup run[c].found
      OBVIOUS
    <2> QED
      BY <2>1, CoversMore DEF RunsCover
  <1> QED
    BY <1>3, <1>4 DEF RunsCover, Covers, Recorded, Reached

\* A step of one collector's run, none of whose ranges the other runs see.
LEMMA RunCoverKept ==
    ASSUME CheckpointCovers, RunsCover, NEW c \in Collector,
           records' = records, checkpoint' = checkpoint, misled' = misled,
           \A d \in Collector \ {c} : run'[d] = run[d],
           Covers(records \cup run'[c].found, misled \cup run'[c].misled, Reached(run'[c]))
    PROVE  CheckpointCovers' /\ RunsCover'
  <1>1. CheckpointCovers'
    BY DEF CheckpointCovers, Recorded
  <1>2. ASSUME NEW d \in Collector
        PROVE  Covers(records \cup run'[d].found, misled \cup run'[d].misled, Reached(run'[d]))
    BY DEF RunsCover
  <1> QED
    BY <1>1, <1>2 DEF RunsCover, Covers, Recorded, Reached

LEMMA InitCovers == Init => CheckpointCovers /\ RunsCover
  <1> SUFFICES ASSUME Init PROVE CheckpointCovers /\ RunsCover
    OBVIOUS
  <1>1. CheckpointCovers
    BY LogAssumption DEF Init, NoCheckpoint, CheckpointCovers, Index
  <1>2. \A c \in Collector : Reached(run[c]) = 0
    BY DEF Init, NoRun, Reached
  <1> QED
    BY <1>1, <1>2, CoversNothing DEF RunsCover

LEMMA NextCovers == IndexInv /\ [Next]_vars => CheckpointCovers' /\ RunsCover'
  <1> SUFFICES ASSUME IndexInv, [Next]_vars PROVE CheckpointCovers' /\ RunsCover'
    OBVIOUS
  <1>0. TypeOK /\ CheckpointCovers /\ RunsCover
    BY DEF IndexInv
  <1> DEFINE Goal == CheckpointCovers' /\ RunsCover'
             Covered(c) == Covers(records \cup run[c].found, misled \cup run[c].misled, Reached(run[c]))
  <1> USE DEF ctVars, inventoryVars, chunkVars
  <1>b. \A c \in Collector : run[c] \in Run /\ run[c].pos \in Int /\ run[c].end \in Int
    BY <1>0, LogAssumption DEF TypeOK, Run
  <1>c. \A c \in Collector : Covered(c)
    BY <1>0 DEF RunsCover
  <1>1. CASE Tick
    BY <1>0, <1>1, CoverKept DEF Tick
  <1>2. ASSUME NEW c \in Collector, LoadCheckpoint(c) PROVE Goal
    <2>1. /\ run'[c] = [NoRun EXCEPT !.pc = "head", !.from = checkpoint.tree,
                                     !.pos = checkpoint.next]
          /\ \A d \in Collector \ {c} : run'[d] = run[d]
      BY <1>0, <1>2 DEF LoadCheckpoint, TypeOK
    <2>2. Reached(run'[c]) = checkpoint.next
      BY <2>1 DEF NoRun, Reached
    <2>3. Covers(records, misled, checkpoint.next)
      BY <1>0 DEF CheckpointCovers, Covers
    <2>4. run'[c].found = {} /\ run'[c].misled = {}
      BY <2>1 DEF NoRun
    <2>5. Covers(records \cup run'[c].found, misled \cup run'[c].misled, Reached(run'[c]))
      BY <2>2, <2>3, <2>4
    <2> QED
      BY <1>0, <1>2, <2>1, <2>5, RunCoverKept DEF LoadCheckpoint
  <1>3. ASSUME NEW c \in Collector, GetSTH(c) PROVE Goal
    <2>1. /\ run'[c].pc = "entries" /\ run'[c].pos = run[c].pos
          /\ run'[c].found = run[c].found /\ run'[c].misled = run[c].misled
          /\ \A d \in Collector \ {c} : run'[d] = run[d]
      BY <1>0, <1>3, <1>b DEF GetSTH, TypeOK, Run
    <2>2. Reached(run'[c]) = Reached(run[c])
      BY <1>3, <2>1 DEF GetSTH, Reached
    <2> QED
      BY <1>0, <1>3, <1>c, <2>1, <2>2, RunCoverKept DEF GetSTH
  <1>4. ASSUME NEW c \in Collector, GetEntries(c) PROVE Goal
    <2>1. PICK got, e, inclusion : Batch(c, got, e, inclusion)
      BY <1>4, GetEntriesBatch
    <2> DEFINE at == run[c].pos..(run[c].pos + got - 1)
               new(i) == RecordsFrom(i, e[i], run[c].continuity, inclusion[i])
    <2>2. /\ got \in Nat \ {0}
          /\ \A d \in Collector \ {c} : run'[d] = run[d]
          /\ run'[c].pc = "entries"
          /\ run'[c].pos = run[c].pos + got
          /\ run'[c].misled = run[c].misled \cup {i \in at : e[i].leaf # Logged[i]}
          /\ run'[c].found = run[c].found \cup UNION {new(i) : i \in at}
      BY <1>0, <2>1, BatchEffect
    <2>3. run[c].pc = "entries" /\ \A i \in at : e[i] \in Entry
      BY <2>1 DEF Batch
    <2>4. ASSUME NEW i \in Index, i < run[c].pos + got, i \notin misled \cup run'[c].misled
          PROVE  Recorded(records \cup run'[c].found, i)
      <3>1. CASE i < run[c].pos
        <4>1. Recorded(records \cup run[c].found, i)
          BY <1>c, <2>2, <2>3, <2>4, <3>1 DEF Covers, Reached
        <4> QED
          BY <2>2, <4>1 DEF Recorded
      <3>2. CASE ~(i < run[c].pos)
        <4>1. i \in at
          <5>1. run[c].pos \in Nat /\ i \in Nat
            BY <1>b, <2>4, LogAssumption DEF Run, Index
          <5> QED
            BY <2>2, <2>4, <3>2, <5>1
        <4>2. e[i].leaf = Logged[i] /\ e[i] \in Entry
          BY <2>2, <2>3, <2>4, <4>1
        <4>3. ASSUME NEW m \in Mentions(Names[Logged[i]])
              PROVE  \E r \in new(i) :
                       r.name = m.name /\ (Logged[i] \in Precert \/ r.cert = CertOf[Logged[i]])
          <5> DEFINE rec == [name |-> m.name, wild |-> m.wild, cert |-> e[i].cert, index |-> i,
                             logged |-> LoggedAt[e[i].leaf],
                             prov |-> Provenance(run[c].continuity, inclusion[i])]
          <5>1. rec \in new(i)
            BY <4>2 DEF RecordsFrom
          <5>2. rec.name = m.name /\ rec.cert = e[i].cert
            OBVIOUS
          <5>3. Logged[i] \in Precert \/ e[i].cert = CertOf[Logged[i]]
            BY <4>2 DEF Entry
          <5> HIDE DEF rec, new
          <5> QED
            BY <5>1, <5>2, <5>3
        <4>3a. Recorded(new(i), i)
          BY <4>3 DEF Recorded
        <4>4. new(i) \subseteq records \cup run'[c].found
          BY <2>2, <4>1
        <4> QED
          BY <4>3a, <4>4 DEF Recorded
      <3> QED
        BY <3>1, <3>2
    <2>5. Covers(records \cup run'[c].found, misled \cup run'[c].misled, Reached(run'[c]))
      BY <2>2, <2>4 DEF Covers, Reached
    <2> QED
      BY <1>0, <1>4, <2>2, <2>5, RunCoverKept DEF GetEntries
  <1>5. ASSUME NEW c \in Collector, Fail(c) PROVE Goal
    <2>1. run'[c] = NoRun /\ \A d \in Collector \ {c} : run'[d] = run[d]
      BY <1>0, <1>5 DEF Fail, TypeOK
    <2>2. Reached(run'[c]) = 0
      BY <2>1 DEF NoRun, Reached
    <2> QED
      BY <1>0, <1>5, <2>1, <2>2, CoversNothing, RunCoverKept DEF Fail
  <1>6. ASSUME NEW c \in Collector, BeginCommit(c) PROVE Goal
    <2>1. /\ run'[c].pc = "begun" /\ run'[c].end = run[c].end
          /\ run'[c].found = run[c].found /\ run'[c].misled = run[c].misled
          /\ \A d \in Collector \ {c} : run'[d] = run[d]
      BY <1>0, <1>6 DEF BeginCommit, TypeOK, NoRun
    <2>2. Covers(records \cup run[c].found, misled \cup run[c].misled, run[c].pos)
      BY <1>6, <1>c DEF BeginCommit, Reached
    <2>3. Covers(records \cup run[c].found, misled \cup run[c].misled, run[c].end)
      BY <1>6, <1>b, <2>2, CoversLess DEF BeginCommit
    <2>4. Reached(run'[c]) = run[c].end
      BY <2>1 DEF Reached
    <2> QED
      BY <1>0, <1>6, <2>1, <2>3, <2>4, RunCoverKept DEF BeginCommit
  <1>7. ASSUME NEW c \in Collector, ImportJSONL(c) PROVE Goal
    <2>1. /\ run'[c].pc = "begun" /\ run'[c].end = 0
          /\ \A d \in Collector \ {c} : run'[d] = run[d]
      BY <1>0, <1>7 DEF ImportJSONL, TypeOK, NoRun
    <2>2. Reached(run'[c]) = 0
      BY <2>1 DEF Reached
    <2> QED
      BY <1>0, <1>7, <2>1, <2>2, CoversNothing, RunCoverKept DEF ImportJSONL
  <1>8. ASSUME NEW c \in Collector, Publish(c) PROVE Goal
    <2>1. /\ run'[c].pc = "publish" /\ run'[c].end = run[c].end
          /\ run'[c].found = run[c].found /\ run'[c].misled = run[c].misled
          /\ \A d \in Collector \ {c} : run'[d] = run[d]
      BY <1>0, <1>8, <1>b DEF Publish, TypeOK, Run
    <2>2. Reached(run'[c]) = Reached(run[c])
      BY <1>8, <2>1 DEF Publish, Reached
    <2> QED
      BY <1>0, <1>8, <1>c, <2>1, <2>2, RunCoverKept DEF Publish
  <1>k. ASSUME NEW c \in Collector, Commit(c), run' = [run EXCEPT ![c] = NoRun],
               misled \subseteq misled'
        PROVE  RunsCover'
    <2>1. run'[c] = NoRun /\ \A d \in Collector \ {c} : run'[d] = run[d]
      BY <1>0, <1>k DEF TypeOK
    <2>2. records \subseteq records'
      BY <1>k, CommitCovers
    <2>3. ASSUME NEW d \in Collector
          PROVE  Covers(records' \cup run'[d].found, misled' \cup run'[d].misled, Reached(run'[d]))
      <3>1. CASE d = c
        <4>1. Reached(run'[d]) = 0
          BY <2>1, <3>1 DEF NoRun, Reached
        <4> QED
          BY <4>1, CoversNothing
      <3>2. CASE d # c
        <4>1. records \cup run[d].found \subseteq records' \cup run[d].found
          BY <2>2
        <4>1a. Covers(records \cup run[d].found, misled \cup run[d].misled, Reached(run[d]))
          BY <1>c
        <4>2. Covers(records' \cup run[d].found, misled \cup run[d].misled, Reached(run[d]))
          BY <4>1, <4>1a, CoversMore, Zenon
        <4>3. run'[d] = run[d]
          BY <2>1, <3>2
        <4> QED
          BY <1>k, <4>2, <4>3 DEF Covers
      <3> QED
        BY <3>1, <3>2
    <2> QED
      BY <2>3 DEF RunsCover, Covers, Recorded, Reached
  <1>9. ASSUME NEW c \in Collector, CommitImport(c) PROVE Goal
    <2>1. RunsCover'
      BY <1>9, <1>k DEF CommitImport
    <2>2. records \subseteq records' /\ checkpoint' = checkpoint /\ misled' = misled
      BY <1>9, CommitCovers DEF CommitImport
    <2> QED
      BY <1>0, <2>1, <2>2 DEF CheckpointCovers, Recorded
  <1>10. ASSUME NEW c \in Collector, CommitCollection(c) PROVE Goal
    <2>1. CASE Regresses(NewCheckpoint(c))
      <3>1. run'[c] = NoRun /\ \A d \in Collector \ {c} : run'[d] = run[d]
        BY <1>0, <1>10 DEF CommitCollection, TypeOK
      <3>2. Reached(run'[c]) = 0
        BY <3>1 DEF NoRun, Reached
      <3> QED
        BY <1>0, <1>10, <2>1, <3>1, <3>2, CoversNothing, RunCoverKept DEF CommitCollection
    <2>2. CASE ~Regresses(NewCheckpoint(c))
      <3>1. /\ Commit(c) /\ run[c].pc = "publish" /\ run' = [run EXCEPT ![c] = NoRun]
            /\ checkpoint' = NewCheckpoint(c) /\ misled' = misled \cup run[c].misled
        BY <1>10, <2>2 DEF CommitCollection
      <3>2. RunsCover'
        BY <1>k, <3>1
      <3>3. Reached(run[c]) = run[c].end
        BY <3>1 DEF Reached
      <3>4. Covers(records', misled', checkpoint'.next)
        BY <1>c, <3>1, <3>3, CommitCovers DEF NewCheckpoint
      <3> QED
        BY <3>2, <3>4 DEF CheckpointCovers, Covers, Recorded
    <2> QED
      BY <2>1, <2>2
  <1>11. ASSUME NEW r \in records, Backfill(r) PROVE Goal
    BY <1>0, <1>11, CoverKept DEF Backfill
  <1>12. ASSUME NEW n \in Name, NEW suppress \in BOOLEAN, Delete(n, suppress) PROVE Goal
    BY <1>0, <1>12, CoverKept DEF Delete
  <1>13. CASE RegisterScopes
    BY <1>0, <1>13, CoverKept DEF RegisterScopes
  <1>14. CASE BeginChunk
    BY <1>0, <1>14, CoverKept DEF BeginChunk
  <1>15. CASE ImportChunk
    BY <1>0, <1>15, CoverKept DEF ImportChunk
  <1>16. CASE DropChunk
    BY <1>0, <1>16, CoverKept DEF DropChunk
  <1>17. CASE UNCHANGED vars
    BY <1>0, <1>17, CoverKept DEF vars
  <1> QED
    BY <1>1, <1>2, <1>3, <1>4, <1>5, <1>6, <1>7, <1>8, <1>9, <1>10, <1>11, <1>12,
       <1>13, <1>14, <1>15, <1>16, <1>17 DEF Next, CollectorStep, RepeatChunk

-----------------------------------------------------------------------------
(* What is marked verified is in the log.                                  *)

\* verifyInclusion passes only for the tree's leaf, and recordsFromEntry marks
\* nothing else verified.
LEMMA ProvenanceSound ==
    ASSUME NEW i \in Index, NEW e \in Entry, NEW t, NEW proofs, NEW check,
           NEW inclusion \in Inclusion(i, e, t, proofs),
           NEW r \in RecordsFrom(i, e, check, inclusion), r.prov = "verified_log"
    PROVE  OfTheLog(r)
  <1>1. PICK m \in Mentions(Names[e.leaf]) :
          r = [name |-> m.name, wild |-> m.wild, cert |-> e.cert, index |-> i,
               logged |-> LoggedAt[e.leaf], prov |-> Provenance(check, inclusion)]
    BY DEF RecordsFrom
  <1>2. e.leaf = Logged[i] /\ e.leaf \in Leaf
    BY <1>1 DEF Inclusion, InTree, Provenance, Entry
  <1>3. m = [name |-> m.name, wild |-> m.wild]
    BY <1>2, MentionsType
  <1> QED
    BY <1>1, <1>2, <1>3 DEF OfTheLog, Entry

\* A step that finds nothing new keeps the marks.
LEMMA MarksKept ==
    ASSUME VerifiedSound, FoundSound,
           \A r \in records' : r \in records \/ \E c \in Collector : r \in run[c].found,
           \A c \in Collector : \A r \in run'[c].found :
               r \in run[c].found \/ r.prov # "verified_log"
    PROVE  VerifiedSound' /\ FoundSound'
  BY DEF VerifiedSound, FoundSound, OfTheLog

LEMMA InitMarks == Init => VerifiedSound /\ FoundSound
  BY DEF Init, NoRun, VerifiedSound, FoundSound

LEMMA NextMarks == IndexInv /\ [Next]_vars => VerifiedSound' /\ FoundSound'
  <1> SUFFICES ASSUME IndexInv, [Next]_vars PROVE VerifiedSound' /\ FoundSound'
    OBVIOUS
  <1>0. TypeOK /\ VerifiedSound /\ FoundSound
    BY DEF IndexInv
  <1> DEFINE Goal == VerifiedSound' /\ FoundSound'
  <1> USE DEF ctVars, inventoryVars, chunkVars
  <1>b. \A c \in Collector : run[c] \in Run
    BY <1>0 DEF TypeOK
  <1>1. CASE Tick
    BY <1>0, <1>1, MarksKept DEF Tick
  <1>2. ASSUME NEW c \in Collector, LoadCheckpoint(c) PROVE Goal
    BY <1>0, <1>2, MarksKept DEF LoadCheckpoint, TypeOK, NoRun
  <1>3. ASSUME NEW c \in Collector, GetSTH(c) PROVE Goal
    <2>1. \A d \in Collector : run'[d].found = run[d].found
      BY <1>0, <1>3, <1>b DEF GetSTH, TypeOK, Run
    <2> QED
      BY <1>0, <1>3, <2>1, MarksKept DEF GetSTH
  <1>4. ASSUME NEW c \in Collector, GetEntries(c) PROVE Goal
    <2>1. PICK got, e, inclusion : Batch(c, got, e, inclusion)
      BY <1>4, GetEntriesBatch
    <2> DEFINE at == run[c].pos..(run[c].pos + got - 1)
               new(i) == RecordsFrom(i, e[i], run[c].continuity, inclusion[i])
    <2>2. /\ at \subseteq Index
          /\ \A d \in Collector \ {c} : run'[d] = run[d]
          /\ run'[c].found = run[c].found \cup UNION {new(i) : i \in at}
      BY <1>0, <2>1, BatchEffect
    <2>3. \A i \in at : /\ e[i] \in Entry
                        /\ inclusion[i] \in
                             Inclusion(i, e[i], run[c].tree, run[c].proofs + (i - run[c].pos))
      BY <2>1 DEF Batch
    <2>4. \A i \in at : \A r \in new(i) : r.prov = "verified_log" => OfTheLog(r)
      BY <2>2, <2>3, ProvenanceSound
    <2>5. FoundSound'
      BY <1>0, <2>2, <2>4 DEF FoundSound, OfTheLog
    <2> QED
      BY <1>0, <1>4, <2>5 DEF GetEntries, VerifiedSound, OfTheLog
  <1>5. ASSUME NEW c \in Collector, Fail(c) PROVE Goal
    BY <1>0, <1>5, MarksKept DEF Fail, TypeOK, NoRun
  <1>6. ASSUME NEW c \in Collector, BeginCommit(c) PROVE Goal
    BY <1>0, <1>6, MarksKept DEF BeginCommit, TypeOK, NoRun
  <1>7. ASSUME NEW c \in Collector, ImportJSONL(c) PROVE Goal
    <2>1. \A r \in Imported : r.prov # "verified_log"
      BY LogAssumption
    <2>2. run'[c].found = Imported /\ \A d \in Collector \ {c} : run'[d] = run[d]
      BY <1>0, <1>7 DEF ImportJSONL, TypeOK, NoRun
    <2>3. \A d \in Collector : \A r \in run'[d].found : r \in run[d].found \/ r.prov # "verified_log"
      BY <2>1, <2>2
    <2> QED
      BY <1>0, <1>7, <2>3, MarksKept DEF ImportJSONL
  <1>8. ASSUME NEW c \in Collector, Publish(c) PROVE Goal
    <2>1. \A d \in Collector : run'[d].found = run[d].found
      BY <1>0, <1>8, <1>b DEF Publish, TypeOK, Run
    <2> QED
      BY <1>0, <1>8, <2>1, MarksKept DEF Publish
  <1>k. ASSUME NEW c \in Collector, run' = [run EXCEPT ![c] = NoRun],
               Commit(c) \/ records' = records
        PROVE  Goal
    <2>1. \A d \in Collector : run'[d].found \subseteq run[d].found
      BY <1>0, <1>k DEF TypeOK, NoRun
    <2>2. \A r \in records' : r \in records \/ r \in run[c].found
      BY <1>k DEF Commit, Insertions
    <2> QED
      BY <1>0, <2>1, <2>2, MarksKept
  <1>9. ASSUME NEW c \in Collector, CommitImport(c) PROVE Goal
    BY <1>9, <1>k DEF CommitImport
  <1>10. ASSUME NEW c \in Collector, CommitCollection(c) PROVE Goal
    BY <1>10, <1>k DEF CommitCollection
  <1>11. ASSUME NEW r \in records, Backfill(r) PROVE Goal
    BY <1>0, <1>11, MarksKept DEF Backfill
  <1>12. ASSUME NEW n \in Name, NEW suppress \in BOOLEAN, Delete(n, suppress) PROVE Goal
    BY <1>0, <1>12, MarksKept DEF Delete
  <1>13. CASE RegisterScopes
    BY <1>0, <1>13, MarksKept DEF RegisterScopes
  <1>14. CASE BeginChunk
    BY <1>0, <1>14, MarksKept DEF BeginChunk
  <1>15. CASE ImportChunk
    BY <1>0, <1>15, MarksKept DEF ImportChunk
  <1>16. CASE DropChunk
    BY <1>0, <1>16, MarksKept DEF DropChunk
  <1>17. CASE UNCHANGED vars
    BY <1>0, <1>17, MarksKept DEF vars
  <1> QED
    BY <1>1, <1>2, <1>3, <1>4, <1>5, <1>6, <1>7, <1>8, <1>9, <1>10, <1>11, <1>12,
       <1>13, <1>14, <1>15, <1>16, <1>17 DEF Next, CollectorStep, RepeatChunk

-----------------------------------------------------------------------------
(* The inventory: memberships and deletions.                               *)

\* A publication inserts only hostnames that are neither suppressed nor deleted
\* since it began.
LEMMA AssetsSound ==
    ASSUME TypeOK, NEW names, NEW began \in Int, DeletionHolds,
           \A n \in names \cap Name : ~Deleted(n, began)
    PROVE  \A n \in Name : LET a == Assets(names, began)[n]
                           IN  /\ a # 0 => ~suppressed[n] /\ a > tombstone[n]
                               /\ a # 0 => asset[n] # 0 \/ n \in names
  <1> SUFFICES ASSUME NEW n \in Name
               PROVE  LET a == Assets(names, began)[n]
                      IN  /\ a # 0 => ~suppressed[n] /\ a > tombstone[n]
                          /\ a # 0 => asset[n] # 0 \/ n \in names
    OBVIOUS
  <1>1. tombstone[n] \in Int /\ asset[n] \in Int
    BY DEF TypeOK
  <1>2. CASE n \in names /\ asset[n] = 0
    <2>1. ~suppressed[n] /\ began > tombstone[n]
      BY <1>1, <1>2 DEF Deleted
    <2> QED
      BY <1>2, <2>1 DEF Assets
  <1>3. CASE ~(n \in names /\ asset[n] = 0)
    BY <1>3 DEF Assets, DeletionHolds
  <1> QED
    BY <1>2, <1>3

\* A hostname is locked by every open transaction that links it.
LEMMA LinkedLocked ==
    ASSUME LinksCurrent, NEW c \in Collector, run[c].pc = "publish", NEW l \in run[c].links
    PROVE  l[1] \in Locked
  BY DEF LinksCurrent, Locked

\* A step that begins no transaction, and leaves the scopes and deletions of
\* those that are open alone.
LEMMA LinksKept ==
    ASSUME LinksCurrent,
           \A c \in Collector : run'[c].pc = "publish" => run'[c] = run[c],
           scopes' = scopes, tombstone' = tombstone, suppressed' = suppressed
    PROVE  LinksCurrent'
  BY DEF LinksCurrent, NamesOf, Deleted

LEMMA InitInventory == Init => MembershipComplete /\ DeletionHolds /\ LinksCurrent
  BY DEF Init, NoRun, MembershipComplete, DeletionHolds, LinksCurrent

LEMMA NextInventory ==
    IndexInv /\ [Next]_vars => MembershipComplete' /\ DeletionHolds' /\ LinksCurrent'
  <1> SUFFICES ASSUME IndexInv, [Next]_vars
               PROVE  MembershipComplete' /\ DeletionHolds' /\ LinksCurrent'
    OBVIOUS
  <1>0. TypeOK /\ MembershipComplete /\ DeletionHolds /\ LinksCurrent
    BY DEF IndexInv
  <1> DEFINE Goal == MembershipComplete' /\ DeletionHolds' /\ LinksCurrent'
             Kept == scopes' = scopes /\ tombstone' = tombstone /\ suppressed' = suppressed
  <1> USE DEF ctVars, inventoryVars, chunkVars
  <1>b. \A c \in Collector : run[c] \in Run /\ run[c].began \in Int
    BY <1>0 DEF TypeOK, Run
  <1>a. ASSUME Kept, asset' = asset, member' = member,
               \A c \in Collector : run'[c].pc = "publish" => run'[c] = run[c]
        PROVE  Goal
    BY <1>0, <1>a, LinksKept DEF MembershipComplete, DeletionHolds
  <1>1. CASE Tick
    BY <1>1, <1>a DEF Tick
  <1>2. ASSUME NEW c \in Collector, LoadCheckpoint(c) PROVE Goal
    BY <1>0, <1>2, <1>a DEF LoadCheckpoint, TypeOK, NoRun
  <1>3. ASSUME NEW c \in Collector, GetSTH(c) PROVE Goal
    <2>1. run'[c].pc = "entries" /\ \A d \in Collector \ {c} : run'[d] = run[d]
      BY <1>0, <1>3, <1>b DEF GetSTH, TypeOK, Run
    <2> QED
      BY <1>3, <1>a, <2>1 DEF GetSTH
  <1>4. ASSUME NEW c \in Collector, GetEntries(c) PROVE Goal
    <2>1. PICK got, e, inclusion : Batch(c, got, e, inclusion)
      BY <1>4, GetEntriesBatch
    <2>2. run'[c].pc = "entries" /\ \A d \in Collector \ {c} : run'[d] = run[d]
      BY <1>0, <2>1, BatchEffect
    <2> QED
      BY <1>4, <1>a, <2>2 DEF GetEntries
  <1>5. ASSUME NEW c \in Collector, Fail(c) PROVE Goal
    BY <1>0, <1>5, <1>a DEF Fail, TypeOK, NoRun
  <1>6. ASSUME NEW c \in Collector, BeginCommit(c) PROVE Goal
    BY <1>0, <1>6, <1>a DEF BeginCommit, TypeOK, NoRun
  <1>7. ASSUME NEW c \in Collector, ImportJSONL(c) PROVE Goal
    BY <1>0, <1>7, <1>a DEF ImportJSONL, TypeOK, NoRun
  <1>8. ASSUME NEW c \in Collector, Publish(c) PROVE Goal
    <2> DEFINE live == {n \in NamesOf(c) : ~Deleted(n, run[c].began)}
    <2>1. /\ run'[c].links = live \X {scopes} /\ run'[c].found = run[c].found
          /\ run'[c].began = run[c].began
          /\ \A d \in Collector \ {c} : run'[d] = run[d]
      BY <1>0, <1>8, <1>b DEF Publish, TypeOK, Run
    <2>2. Kept /\ asset' = asset /\ member' = member
      BY <1>8 DEF Publish
    <2>3. ASSUME NEW d \in Collector, run'[d].pc = "publish", NEW l \in run'[d].links
          PROVE  /\ l[1] \in {r.name : r \in {r \in run'[d].found : ~r.wild}}
                 /\ ~(suppressed[l[1]] \/ tombstone[l[1]] >= run'[d].began)
                 /\ l[2] = scopes
      <3>1. CASE d = c
        BY <2>1, <2>3, <3>1 DEF NamesOf, Deleted
      <3>2. CASE d # c
        BY <1>0, <2>1, <2>3, <3>2 DEF LinksCurrent, NamesOf, Deleted
      <3> QED
        BY <3>1, <3>2
    <2>4. LinksCurrent'
      BY <2>2, <2>3 DEF LinksCurrent, NamesOf, Deleted
    <2> QED
      BY <1>0, <2>2, <2>4 DEF MembershipComplete, DeletionHolds
  <1>k. ASSUME NEW c \in Collector, run[c].pc = "publish", Commit(c),
               run' = [run EXCEPT ![c] = NoRun], Kept
        PROVE  Goal
    <2> DEFINE names == {l[1] : l \in run[c].links}
    <2>1. run'[c].pc = "idle" /\ \A d \in Collector \ {c} : run'[d] = run[d]
      BY <1>0, <1>k DEF TypeOK, NoRun
    <2>2. \A n \in names \cap Name : ~Deleted(n, run[c].began)
      BY <1>0, <1>k DEF LinksCurrent
    <2>3. asset' = Assets(names, run[c].began)
      BY <1>k DEF Commit
    <2>4. \A n \in Name : /\ asset'[n] # 0 => ~suppressed[n] /\ asset'[n] > tombstone[n]
                          /\ asset'[n] # 0 => asset[n] # 0 \/ n \in names
      <3>1. run[c].began \in Int
        BY <1>b
      <3> HIDE DEF names
      <3> QED
        BY <1>0, <2>2, <2>3, <3>1, AssetsSound
    <2>5. DeletionHolds'
      BY <1>k, <2>4 DEF DeletionHolds
    <2>6. member' = member \cup {l[1] : l \in {l \in run[c].links : l[2]}}
      BY <1>k DEF Commit
    <2>7. scopes => names \subseteq member'
      BY <1>0, <1>k, <2>6 DEF LinksCurrent
    <2>8. MembershipComplete'
      BY <1>0, <1>k, <2>4, <2>6, <2>7 DEF MembershipComplete
    <2> QED
      BY <1>0, <1>k, <2>1, <2>5, <2>8, LinksKept
  <1>9. ASSUME NEW c \in Collector, CommitImport(c) PROVE Goal
    BY <1>9, <1>k DEF CommitImport
  <1>10. ASSUME NEW c \in Collector, CommitCollection(c) PROVE Goal
    <2>1. CASE Regresses(NewCheckpoint(c))
      BY <1>0, <1>10, <1>a, <2>1 DEF CommitCollection, TypeOK, NoRun
    <2>2. CASE ~Regresses(NewCheckpoint(c))
      BY <1>10, <1>k, <2>2 DEF CommitCollection
    <2> QED
      BY <2>1, <2>2
  <1>11. ASSUME NEW r \in records, Backfill(r) PROVE Goal
    <2> DEFINE live == {n \in {r.name} : ~Deleted(n, r.logged)}
    <2>1. asset' = Assets(live, r.logged) /\ (scopes => member' = member \cup live)
      BY <1>11 DEF Backfill
    <2>2. r.logged \in Int /\ \A n \in live \cap Name : ~Deleted(n, r.logged)
      BY <1>0 DEF TypeOK, Record
    <2>3. \A n \in Name : /\ asset'[n] # 0 => ~suppressed[n] /\ asset'[n] > tombstone[n]
                          /\ asset'[n] # 0 => asset[n] # 0 \/ n \in live
      <3> HIDE DEF live
      <3> QED
        BY <1>0, <2>1, <2>2, AssetsSound
    <2>4. DeletionHolds' /\ MembershipComplete'
      BY <1>0, <1>11, <2>1, <2>3 DEF Backfill, DeletionHolds, MembershipComplete
    <2> QED
      BY <1>0, <1>11, <2>4, LinksKept DEF Backfill
  <1>12. ASSUME NEW n \in Name, NEW suppress \in BOOLEAN, Delete(n, suppress) PROVE Goal
    <2>1. /\ asset' = [asset EXCEPT ![n] = 0] /\ member' = member \ {n}
          /\ tombstone' = [tombstone EXCEPT ![n] = clock]
          /\ suppressed' = [suppressed EXCEPT ![n] = suppress]
          /\ run' = run /\ scopes' = scopes /\ n \notin Locked
      BY <1>12 DEF Delete, HostLockFree
    <2>2. MembershipComplete' /\ DeletionHolds'
      BY <1>0, <2>1 DEF MembershipComplete, DeletionHolds, TypeOK
    <2>3. ASSUME NEW c \in Collector, run[c].pc = "publish", NEW l \in run[c].links
          PROVE  tombstone'[l[1]] = tombstone[l[1]] /\ suppressed'[l[1]] = suppressed[l[1]]
      BY <1>0, <2>1, <2>3, LinkedLocked DEF TypeOK
    <2>4. LinksCurrent'
      BY <1>0, <2>1, <2>3 DEF LinksCurrent, NamesOf, Deleted
    <2> QED
      BY <2>2, <2>4
  <1>l. ASSUME Locked = {}, run' = run PROVE LinksCurrent'
    <2>1. \A c \in Collector : run[c].pc = "publish" => run[c].links = {}
      BY <1>0, <1>l, LinkedLocked
    <2> QED
      BY <1>l, <2>1 DEF LinksCurrent
  <1>13. CASE RegisterScopes
    <2>1. LinksCurrent'
      BY <1>13, <1>l DEF RegisterScopes, ScopeLockFree
    <2> QED
      BY <1>0, <1>13, <2>1 DEF RegisterScopes, MembershipComplete, DeletionHolds
  <1>14. CASE BeginChunk
    BY <1>14, <1>a DEF BeginChunk
  <1>15. CASE ImportChunk
    <2> DEFINE live == {n \in ChunkNames : ~Deleted(n, request)}
    <2>1. /\ asset' = Assets(live, request)
          /\ member' = member \cup live \cup {n \in Name : asset[n] # 0}
          /\ tombstone' = tombstone /\ suppressed' = suppressed
      BY <1>15 DEF ImportChunk
    <2>2. LinksCurrent'
      BY <1>15, <1>l DEF ImportChunk, ScopeLockFree
    <2>3. \A n \in Name : /\ asset'[n] # 0 => ~suppressed[n] /\ asset'[n] > tombstone[n]
                          /\ asset'[n] # 0 => asset[n] # 0 \/ n \in live
      <3>1. request \in Int /\ \A n \in live \cap Name : ~Deleted(n, request)
        BY <1>0 DEF TypeOK
      <3> HIDE DEF live
      <3> QED
        BY <1>0, <2>1, <3>1, AssetsSound
    <2>4. DeletionHolds' /\ MembershipComplete'
      BY <2>1, <2>3 DEF DeletionHolds, MembershipComplete
    <2> QED
      BY <2>2, <2>4
  <1>16. CASE DropChunk
    BY <1>16, <1>a DEF DropChunk
  <1>17. CASE UNCHANGED vars
    BY <1>17, <1>a DEF vars
  <1> QED
    BY <1>1, <1>2, <1>3, <1>4, <1>5, <1>6, <1>7, <1>8, <1>9, <1>10, <1>11, <1>12,
       <1>13, <1>14, <1>15, <1>16, <1>17 DEF Next, CollectorStep, RepeatChunk

-----------------------------------------------------------------------------
(* Theorems.                                                               *)

LEMMA InitIndexInv == Init => IndexInv
  BY InitTypeOK, InitCovers, InitMarks, InitInventory DEF IndexInv

LEMMA NextIndexInv == IndexInv /\ [Next]_vars => IndexInv'
  <1>1. IndexInv => TypeOK
    BY DEF IndexInv
  <1> QED
    BY <1>1, NextTypeOK, NextCovers, NextMarks, NextInventory DEF IndexInv

\* The bookkeeping of collectors, records and inventory (IndexInv) holds in
\* every reachable state.
THEOREM IndexInvariant == Spec => []IndexInv
  BY InitIndexInv, NextIndexInv, PTL DEF Spec

\* Overlapping, failing and short collections never let CommitCollection pass
\* an entry without a record in ct_records, but where its server sent a committed
\* run another leaf.
THEOREM CheckpointCorrect == Spec => []CheckpointCovers
  <1>1. IndexInv => CheckpointCovers
    BY DEF IndexInv
  <1> QED
    BY <1>1, IndexInvariant, PTL

\* A record marked verified_log says what the log's leaf at its index says,
\* whatever the server sends and however many proofs the budget allows.
THEOREM VerifiedCorrect == Spec => []VerifiedSound
  <1>1. IndexInv => VerifiedSound
    BY DEF IndexInv
  <1> QED
    BY <1>1, IndexInvariant, PTL

\* Below a registered root every asset is a member, whichever of registration
\* and publication came first: the scope lock orders them.
THEOREM MembershipCorrect == Spec => []MembershipComplete
  <1>1. IndexInv => MembershipComplete
    BY DEF IndexInv
  <1> QED
    BY <1>1, IndexInvariant, PTL

\* No publication that began before a hostname was deleted, whether or not it
\* had an asset then, brings it back, and none does while it is suppressed.
THEOREM DeletionCorrect == Spec => []DeletionHolds
  <1>1. IndexInv => DeletionHolds
    BY DEF IndexInv
  <1> QED
    BY <1>1, IndexInvariant, PTL

=============================================================================
