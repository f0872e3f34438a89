---------------------- MODULE InventoryProjectionProofs ----------------------
(***************************************************************************)
(* Theorems about InventoryProjection for every number of reports, workers,*)
(* attempts, deletions and backfill pages.                                 *)
(***************************************************************************)
EXTENDS InventoryProjection, TLAPS

-----------------------------------------------------------------------------
(* The inductive invariant.                                                *)

\* The asset row has the deletion generation of the tombstone.
AssetCurrent == asset # None => asset = deletions

\* A reclassification that has started has its original.
OriginalKept ==
    \A r \in Report :
        stage[r] \in {"started", "saved"} /\ Original[r] # None => Original[r] \in Saved

\* A task carries the generation its report was observed in, and, as long as
\* nothing is backfilled, the one its job was admitted for.
TaskFenced ==
    \A r \in Report : task[r] # None =>
        /\ task[r].generation = born[r]
        /\ backfills = 0 /\ selected[r] # None => selected[r] = born[r]

\* The analyses that the inventory names were started since the last deletion.
SupportsBorn == \A r \in Support : born[r] = asset

\* What was projected into the present context was saved before.
ProjectedDone ==
    /\ context = None => projected = {}
    /\ context # None => context.description # None
    /\ \A r \in projected : stage[r] \in {"saved", "purged"}

ProjectionInv ==
    /\ TypeOK
    /\ AssetCurrent
    /\ OriginalKept /\ ReferencedKept
    /\ TaskFenced /\ NoResurrection /\ DelayedJobFenced
    /\ ProjectedDone /\ NewestOfProjected

-----------------------------------------------------------------------------
(* Tasks and contexts.                                                     *)

LEMMA Records ==
    /\ \A t \in Tasks : t # None
    /\ \A c \in Contexts : c # None
    /\ \A r \in Report : r # None /\ r \in Nat
  BY ProjectionAssumption DEF Report

LEMMA NewTaskType ==
    ASSUME NEW generation \in Nat
    PROVE  NewTask(generation) \in Tasks /\ NewTask(generation).generation = generation
  BY ProjectionAssumption DEF NewTask, Tasks

\* Queuing a report gives a task of the asset's generation, or resets the task
\* that is there.
LEMMA QueuedTask ==
    ASSUME NEW t \in Tasks \cup {None}, NEW generation \in Nat
    PROVE  /\ Queued(t, generation) \in Tasks
           /\ Queued(t, generation).generation = IF t = None THEN generation ELSE t.generation
  <1>1. CASE t = None
    BY <1>1, NewTaskType DEF Queued
  <1>2. CASE t # None
    <2>1. t \in Tasks /\ t.generation \in Nat
      BY <1>2 DEF Tasks
    <2>2. Queued(t, generation) = IF Exhausted(t) THEN NewTask(t.generation) ELSE t
      BY <1>2 DEF Queued
    <2> QED
      BY <1>2, <2>1, <2>2, NewTaskType
  <1> QED
    BY <1>1, <1>2

LEMMA SightedType ==
    ASSUME TypeOK
    PROVE  Sighted \in Nat
  BY ProjectionAssumption DEF TypeOK, Sighted

LEMMA TaskRows ==
    ASSUME TypeOK, NEW r \in Report, task[r] # None
    PROVE  task[r] \in Tasks
  BY DEF TypeOK

\* A step that replaces one task row by another one of the same generation.
Rewrites(r) ==
    /\ task[r] # None
    /\ \E t \in Tasks : t.generation = task[r].generation /\ task' = [task EXCEPT ![r] = t]

LEMMA ClaimRewrites ==
    ASSUME TypeOK, NEW w \in Worker, NEW r \in Report, Claim(w, r)
    PROVE  Rewrites(r)
  <1>1. task[r] \in Tasks /\ task[r].attempts < MaxAttempts
    BY TaskRows DEF Claim, Claimable
  <1> DEFINE t == [task[r] EXCEPT !.status = "running", !.attempts = task[r].attempts + 1,
                                  !.token = w, !.leased = TRUE]
  <1>2. task[r].attempts + 1 \in 0..MaxAttempts
    BY <1>1, ProjectionAssumption DEF Tasks
  <1>3. t \in Tasks /\ t.generation = task[r].generation
    BY <1>1, <1>2 DEF Tasks
  <1>4. task' = [task EXCEPT ![r] = t]
    BY DEF Claim, TypeOK
  <1> QED
    BY <1>3, <1>4 DEF Rewrites, Claim

LEMMA ExpiryRewrites ==
    ASSUME TypeOK, NEW r \in Report, LeaseExpires(r)
    PROVE  Rewrites(r)
  <1> DEFINE t == [task[r] EXCEPT !.leased = FALSE]
  <1>1. t \in Tasks /\ t.generation = task[r].generation
    BY TaskRows DEF LeaseExpires, Tasks
  <1>2. task' = [task EXCEPT ![r] = t]
    BY DEF LeaseExpires, TypeOK
  <1> QED
    BY <1>1, <1>2 DEF Rewrites, LeaseExpires

LEMMA FailRewrites ==
    ASSUME TypeOK, NEW w \in Worker, Fail(w)
    PROVE  task' = task \/ Rewrites(claim[w])
  <1>1. CASE ~Owns(w)
    BY <1>1 DEF Fail
  <1>2. CASE Owns(w)
    <2>1. PICK r \in Report : r = claim[w]
      BY DEF Fail, TypeOK
    <2>2. task[r] \in Tasks
      BY <1>2, <2>1, TaskRows DEF Owns
    <2> DEFINE t == [task[r] EXCEPT !.status = "failed", !.token = None, !.leased = FALSE]
    <2>3. t \in Tasks /\ t.generation = task[r].generation
      BY <2>2 DEF Tasks
    <2>4. task' = [task EXCEPT ![r] = t]
      BY <1>2, <2>1 DEF Fail, TypeOK
    <2> QED
      BY <1>2, <2>1, <2>3, <2>4 DEF Rewrites, Owns
  <1> QED
    BY <1>1, <1>2

\* The publication of a report leaves a context of the right type, whose rows
\* name it or what they named before.
LEMMA UpdatedContext ==
    ASSUME NEW c \in Contexts, NEW r \in Report
    PROVE  /\ Updated(c, r) \in Contexts
           /\ \A x \in Row : Updated(c, r).newest[x] =
                IF x \in Shows(r) /\ Later(r, c.newest[x]) THEN r ELSE c.newest[x]
           /\ Updated(c, r).description = IF Redescribes(r, c.description) THEN r ELSE c.description
  <1> DEFINE n == [x \in Row |-> IF x \in Shows(r) /\ Later(r, c.newest[x]) THEN r ELSE c.newest[x]]
             d == IF Redescribes(r, c.description) THEN r ELSE c.description
  <1>1. n \in [Row -> Report \cup {None}]
    <2>1. c.newest \in [Row -> Report \cup {None}]
      BY DEF Contexts
    <2> HIDE DEF Row
    <2> QED
      BY <2>1
  <1>2. d \in Report \cup {None}
    BY DEF Contexts
  <1>3. Updated(c, r) = [newest |-> n, description |-> d]
    BY DEF Updated
  <1> QED
    BY <1>1, <1>2, <1>3 DEF Contexts

LEMMA EmptyContextType ==
    EmptyContext \in Contexts /\ EmptyContext.description = None
                              /\ \A x \in Row : EmptyContext.newest[x] = None
  BY DEF EmptyContext, Contexts

\* The context that a publication starts from.
Base == IF context = None THEN EmptyContext ELSE context

LEMMA BaseType ==
    ASSUME TypeOK
    PROVE  Base \in Contexts
  BY EmptyContextType DEF Base, TypeOK

LEMMA InitProjectionInv == Init => ProjectionInv
  <1> SUFFICES ASSUME Init PROVE ProjectionInv
    OBVIOUS
  <1>1. TypeOK
    <2>1. suppressed \in BOOLEAN
      BY Zenon DEF Init
    <2> QED
      BY <2>1, ProjectionAssumption DEF Init, TypeOK, Kind
  <1>2. Support = {}
    BY DEF Init, Support
  <1>3. Saved = {}
    BY DEF Init, Saved
  <1>4. OriginalKept /\ ReferencedKept /\ NoResurrection /\ DelayedJobFenced
    BY <1>2, <1>3 DEF Init, OriginalKept, ReferencedKept, NoResurrection, DelayedJobFenced
  <1>5. AssetCurrent /\ TaskFenced /\ ProjectedDone /\ NewestOfProjected
    BY DEF Init, AssetCurrent, TaskFenced, ProjectedDone, NewestOfProjected
  <1> QED
    BY <1>1, <1>4, <1>5 DEF ProjectionInv

LEMMA QueueType ==
    ASSUME TypeOK, AssetCurrent, NEW page \in SUBSET Report, Queue(page)
    PROVE  /\ task' \in [Report -> Tasks \cup {None}]
           /\ \A r \in Report : task'[r] = IF r \in page THEN Queued(task[r], Sighted) ELSE task[r]
           /\ asset' = asset \/ (asset = None /\ asset' = deletions /\ context = None)
           /\ page # {} => asset' = Sighted /\ Sighted = deletions
           /\ Sighted \in Nat
  <1>1. \A r \in Report : Queued(task[r], Sighted) \in Tasks
    BY QueuedTask, SightedType DEF TypeOK
  <1>2. task' = [r \in Report |-> IF r \in page THEN Queued(task[r], Sighted) ELSE task[r]]
    BY DEF Queue
  <1>3. task' \in [Report -> Tasks \cup {None}]
    BY <1>1, <1>2 DEF TypeOK
  <1>4. asset' = asset \/ (asset = None /\ asset' = deletions /\ context = None)
    BY DEF Queue, Sighted, TypeOK
  <1>5. Sighted = deletions
    BY DEF Sighted, AssetCurrent
  <1> QED
    BY <1>2, <1>3, <1>4, <1>5, SightedType DEF Queue

LEMMA RewriteType ==
    ASSUME TypeOK, NEW r \in Report, Rewrites(r)
    PROVE  /\ task' \in [Report -> Tasks \cup {None}]
           /\ \A q \in Report : (task'[q] = None) <=> (task[q] = None)
           /\ \A q \in Report : task[q] # None => task'[q].generation = task[q].generation
  BY Records DEF Rewrites, TypeOK

LEMMA NextTypeOK == ProjectionInv /\ [Next]_vars => TypeOK'
  <1> SUFFICES ASSUME ProjectionInv, [Next]_vars PROVE TypeOK'
    OBVIOUS
  <1> USE ProjectionAssumption DEF reportVars, assetVars
  <1>t. TypeOK /\ AssetCurrent
    BY DEF ProjectionInv
  <1>s. suppressed' \in BOOLEAN
    <2>1. suppressed \in BOOLEAN
      BY <1>t DEF TypeOK
    <2>2. suppressed' = suppressed \/ \E suppress \in BOOLEAN : suppressed' = suppress
      BY DEF Next, vars, AdmitSelected, Start, Save, Backfill, Sight, Delete, Claim, LeaseExpires,
         Publish, Fail, Crash, Purge
    <2> QED
      BY <2>1, <2>2, Zenon
  <1>1. ASSUME NEW r \in Report, AdmitSelected(r) PROVE TypeOK'
    BY <1>1, <1>s, <1>t DEF AdmitSelected, TypeOK
  <1>2. ASSUME NEW r \in Report, Start(r) PROVE TypeOK'
    <2>1. kind' \in [Report -> Kind]
      BY <1>2, <1>t DEF Start, TypeOK
    <2> QED
      BY <1>2, <1>s, <1>t, <2>1 DEF Start, TypeOK
  <1>3. ASSUME NEW r \in Report, Save(r) PROVE TypeOK'
    <2>1. PICK page \in SUBSET Report : Queue(page)
      BY <1>3 DEF Save
    <2> QED
      BY <1>3, <1>s, <1>t, <2>1, QueueType DEF Save, TypeOK
  <1>4. ASSUME NEW first \in Report, NEW final \in Report, Backfill(first, final) PROVE TypeOK'
    <2>1. PICK page \in SUBSET Report : Queue(page)
      BY <1>4 DEF Backfill, Saved
    <2> QED
      BY <1>4, <1>s, <1>t, <2>1, QueueType DEF Backfill, TypeOK
  <1>5. ASSUME Sight PROVE TypeOK'
    BY <1>5, <1>s, <1>t DEF Sight, Sighted, TypeOK
  <1>6. ASSUME NEW suppress \in BOOLEAN, Delete(suppress) PROVE TypeOK'
    BY <1>6, <1>s, <1>t DEF Delete, TypeOK
  <1>7. ASSUME NEW w \in Worker, NEW r \in Report, Claim(w, r) PROVE TypeOK'
    <2>1. task' \in [Report -> Tasks \cup {None}]
      BY <1>7, <1>t, ClaimRewrites, RewriteType
    <2> QED
      BY <1>7, <1>s, <1>t, <2>1 DEF Claim, TypeOK
  <1>8. ASSUME NEW r \in Report, LeaseExpires(r) PROVE TypeOK'
    <2>1. task' \in [Report -> Tasks \cup {None}]
      BY <1>8, <1>t, ExpiryRewrites, RewriteType
    <2> QED
      BY <1>8, <1>s, <1>t, <2>1 DEF LeaseExpires, TypeOK
  <1>9. ASSUME NEW w \in Worker, Publish(w) PROVE TypeOK'
    <2>1. PICK r \in Report : r = claim[w]
      BY <1>9, <1>t DEF Publish, TypeOK
    <2>2. task[r] \in Tasks /\ task[r].generation \in Nat
      BY <1>9, <1>t, <2>1, TaskRows DEF Publish, Owns, Tasks
    <2>3. /\ task' = [task EXCEPT ![r] = None]
          /\ claim' = [claim EXCEPT ![w] = None]
          /\ \/ UNCHANGED <<context, projected>>
             \/ /\ asset = task[r].generation
                /\ context' = Updated(Base, r)
                /\ projected' = projected \cup {r}
      BY <1>9, <2>1 DEF Publish, Obsolete, Base
    <2>4. context' \in Contexts \cup {None}
      BY <1>t, <2>3, UpdatedContext, BaseType DEF TypeOK
    <2>5. context' # None => asset # None
      BY <1>t, <2>2, <2>3 DEF TypeOK
    <2> QED
      BY <1>9, <1>s, <1>t, <2>3, <2>4, <2>5 DEF Publish, TypeOK
  <1>10. ASSUME NEW w \in Worker, Fail(w) PROVE TypeOK'
    <2>1. PICK r \in Report : r = claim[w]
      BY <1>10, <1>t DEF Fail, TypeOK
    <2>2. task' \in [Report -> Tasks \cup {None}]
      BY <1>10, <1>t, <2>1, FailRewrites, RewriteType DEF TypeOK
    <2> QED
      BY <1>10, <1>s, <1>t, <2>2 DEF Fail, TypeOK
  <1>11. ASSUME NEW w \in Worker, Crash(w) PROVE TypeOK'
    BY <1>11, <1>s, <1>t DEF Crash, TypeOK
  <1>12. ASSUME NEW r \in Report, Purge(r) PROVE TypeOK'
    BY <1>12, <1>s, <1>t DEF Purge, TypeOK
  <1>13. CASE UNCHANGED vars
    BY <1>13, <1>s, <1>t DEF vars, TypeOK
  <1> QED
    BY <1>1, <1>2, <1>3, <1>4, <1>5, <1>6, <1>7, <1>8, <1>9, <1>10, <1>11, <1>12, <1>13 DEF Next

-----------------------------------------------------------------------------
(* What the steps do to the rows.                                          *)

LEMMA NextAssetCurrent == ProjectionInv /\ [Next]_vars => AssetCurrent'
  <1> SUFFICES ASSUME ProjectionInv, [Next]_vars PROVE AssetCurrent'
    OBVIOUS
  <1> USE DEF AssetCurrent, assetVars, Queue, Sighted
  <1>t. TypeOK /\ AssetCurrent
    BY DEF ProjectionInv
  <1> QED
    BY <1>t DEF Next, vars, AdmitSelected, Start, Save, Backfill, Sight, Delete, Claim,
       LeaseExpires, Publish, Fail, Crash, Purge

\* The report a worker publishes, when its task is not obsolete.
Publishes(r) ==
    /\ r \in Saved
    /\ task[r] # None
    /\ asset = task[r].generation
    /\ context' = Updated(Base, r)
    /\ projected' = projected \cup {r}
    /\ UNCHANGED <<reportVars, assetVars, backfills>>

\* Only a publication adds to the context and to the supports.
ContextStep ==
    \/ UNCHANGED <<context, projected>>
    \/ context' = None /\ projected' = {}
    \/ \E r \in Report : Publishes(r)

LEMMA NextContextStep == ProjectionInv /\ [Next]_vars => ContextStep
  <1> SUFFICES ASSUME ProjectionInv, [Next]_vars PROVE ContextStep
    OBVIOUS
  <1>1. ASSUME NEW w \in Worker, Publish(w) PROVE ContextStep
    <2>1. PICK r \in Report : r = claim[w]
      BY <1>1 DEF Publish, ProjectionInv, TypeOK
    <2>2. task[r] # None /\ r \in Saved
      BY <1>1, <2>1 DEF Publish, Owns, ProjectionInv, ReferencedKept
    <2>3. CASE Obsolete(task[r])
      BY <1>1, <2>1, <2>3 DEF Publish, ContextStep
    <2>4. CASE ~Obsolete(task[r])
      <3>1. Publishes(r)
        BY <1>1, <2>1, <2>2, <2>4 DEF Publish, Publishes, Obsolete, Base
      <3> QED
        BY <3>1 DEF ContextStep
    <2> QED
      BY <2>3, <2>4
  <1>2. ASSUME NEW suppress \in BOOLEAN, Delete(suppress) PROVE ContextStep
    BY <1>2 DEF Delete, ContextStep
  <1>3. CASE UNCHANGED <<context, projected>>
    BY <1>3 DEF ContextStep
  <1> QED
    BY <1>1, <1>2, <1>3 DEF Next, vars, AdmitSelected, Start, Save, Backfill, Sight, Claim,
       LeaseExpires, Fail, Crash, Purge

LEMMA SupportMembers ==
    ASSUME TypeOK
    PROVE  /\ Support \subseteq Report
           /\ context # None => \A r \in Support :
                r = context.description \/ \E x \in Row : r = context.newest[x]
  BY DEF TypeOK, Support, Contexts

\* A publication adds the published report to the supports, and no other.
LEMMA PublishesSupport ==
    ASSUME TypeOK, NEW r \in Report, Publishes(r)
    PROVE  Support' \subseteq Support \cup {r}
  <1>1. Base \in Contexts /\ context' = Updated(Base, r)
    BY BaseType DEF Publishes
  <1>2. context' \in Contexts /\ context' # None
    BY <1>1, UpdatedContext, Records
  <1> SUFFICES ASSUME NEW q \in Support', q # r PROVE q \in Support
    OBVIOUS
  <1>3. q # None /\ (q = context'.description \/ \E x \in Row : q = context'.newest[x])
    BY <1>2 DEF Support
  <1>4. q = Base.description \/ \E x \in Row : q = Base.newest[x]
    BY <1>1, <1>3, UpdatedContext
  <1>5. context # None /\ Base = context
    BY <1>3, <1>4, EmptyContextType DEF Base
  <1> QED
    BY <1>3, <1>4, <1>5 DEF Support

\* The supports of a step.
LEMMA SupportStep ==
    ASSUME ProjectionInv, [Next]_vars
    PROVE  \/ Support' \subseteq Support
           \/ \E r \in Report : Publishes(r) /\ Support' \subseteq Support \cup {r}
  <1>1. CASE UNCHANGED <<context, projected>>
    BY <1>1 DEF Support
  <1>2. CASE context' = None
    BY <1>2 DEF Support
  <1>3. ASSUME NEW r \in Report, Publishes(r)
        PROVE  Publishes(r) /\ Support' \subseteq Support \cup {r}
    BY <1>3, PublishesSupport DEF ProjectionInv
  <1> QED
    BY <1>1, <1>2, <1>3, NextContextStep DEF ContextStep

-----------------------------------------------------------------------------
(* References.                                                             *)

LEMMA NextReferencedKept == ProjectionInv /\ [Next]_vars => ReferencedKept' /\ OriginalKept'
  <1> SUFFICES ASSUME ProjectionInv, [Next]_vars PROVE ReferencedKept' /\ OriginalKept'
    OBVIOUS
  <1> USE DEF reportVars, assetVars
  <1>t. TypeOK /\ AssetCurrent /\ OriginalKept /\ ReferencedKept
    BY DEF ProjectionInv
  <1>o. \A r \in Report : Original[r] \in Report \cup {None}
    BY ProjectionAssumption
  <1>1. ASSUME NEW r \in Report, AdmitSelected(r) PROVE ReferencedKept' /\ OriginalKept'
    <2>1. Saved' = Saved /\ Support' = Support /\ task' = task
      BY <1>1, <1>t DEF AdmitSelected, Saved, Support, TypeOK
    <2>2. \A q \in Report : stage'[q] \in {"started", "saved"} => stage[q] \in {"started", "saved"}
      BY <1>1, <1>t DEF AdmitSelected, TypeOK
    <2> QED
      BY <1>t, <2>1, <2>2 DEF ReferencedKept, OriginalKept
  <1>2. ASSUME NEW r \in Report, Start(r) PROVE ReferencedKept' /\ OriginalKept'
    <2>1. Saved' = Saved /\ Support' = Support /\ task' = task
      BY <1>2, <1>t DEF Start, Saved, Support, TypeOK
    <2>2. \A q \in Report : q # r => stage'[q] = stage[q]
      BY <1>2, <1>t DEF Start, TypeOK
    <2>3. Original[r] # None => Original[r] \in Saved
      BY <1>2, <1>o DEF Start, Saved
    <2> QED
      BY <1>t, <2>1, <2>2, <2>3 DEF ReferencedKept, OriginalKept
  <1>3. ASSUME NEW r \in Report, Save(r) PROVE ReferencedKept' /\ OriginalKept'
    <2>1. PICK page \in SUBSET {r} : Queue(page)
      BY <1>3 DEF Save
    <2>2. Saved' = Saved \cup {r} /\ Support' = Support
      BY <1>3, <1>t DEF Save, Saved, Support, TypeOK
    <2>3. \A q \in Report : q # r => stage'[q] = stage[q] /\ task'[q] = task[q]
      BY <1>3, <1>t, <2>1, QueueType DEF Save, TypeOK
    <2> QED
      BY <1>3, <1>t, <2>2, <2>3 DEF ReferencedKept, OriginalKept, Save
  <1>4. ASSUME NEW first \in Report, NEW final \in Report, Backfill(first, final)
        PROVE  ReferencedKept' /\ OriginalKept'
    <2>1. PICK page \in SUBSET Saved : Queue(page)
      BY <1>4 DEF Backfill
    <2>2. UNCHANGED <<stage, context>> /\ Saved' = Saved /\ Support' = Support
      BY <1>4 DEF Backfill, Saved, Support
    <2>3. \A q \in Report : task'[q] # None => q \in Saved
      BY <1>t, <2>1, QueueType DEF ReferencedKept, Saved
    <2> QED
      BY <1>t, <2>2, <2>3 DEF ReferencedKept, OriginalKept
  <1>5. ASSUME NEW r \in Report, Purge(r) PROVE ReferencedKept' /\ OriginalKept'
    <2>1. Saved' = Saved \ {r} /\ Support' = Support /\ task' = task
      BY <1>5, <1>t DEF Purge, Saved, Support, TypeOK
    <2>2. /\ r \notin Support /\ task[r] = None
          /\ \A q \in Report : stage[q] \in {"started", "saved"} => Original[q] # r
      BY <1>5 DEF Purge, Retained
    <2>3. \A q \in Report : stage'[q] \in {"started", "saved"} => stage[q] \in {"started", "saved"}
      BY <1>5, <1>t DEF Purge, Saved, TypeOK
    <2> QED
      BY <1>t, <2>1, <2>2, <2>3 DEF ReferencedKept, OriginalKept, Saved
  <1>6. ASSUME UNCHANGED stage, \A r \in Report : task'[r] # None => task[r] # None
        PROVE  ReferencedKept' /\ OriginalKept'
    <2>1. Saved' = Saved
      BY <1>6 DEF Saved
    <2>2. Support' \subseteq Saved
      BY <1>t, SupportStep DEF ReferencedKept, Publishes
    <2> QED
      BY <1>6, <1>t, <2>1, <2>2 DEF ReferencedKept, OriginalKept, Saved
  <1>7. ASSUME NEW w \in Worker, NEW r \in Report, Claim(w, r) PROVE ReferencedKept' /\ OriginalKept'
    BY <1>6, <1>7, <1>t, ClaimRewrites, RewriteType DEF Claim
  <1>8. ASSUME NEW r \in Report, LeaseExpires(r) PROVE ReferencedKept' /\ OriginalKept'
    BY <1>6, <1>8, <1>t, ExpiryRewrites, RewriteType DEF LeaseExpires
  <1>9. ASSUME NEW w \in Worker, Publish(w) PROVE ReferencedKept' /\ OriginalKept'
    <2>1. \A r \in Report : task'[r] # None => task[r] # None
      BY <1>9, <1>t DEF Publish, TypeOK
    <2> QED
      BY <1>6, <1>9, <2>1 DEF Publish
  <1>10. ASSUME NEW w \in Worker, Fail(w) PROVE ReferencedKept' /\ OriginalKept'
    <2>1. PICK r \in Report : r = claim[w]
      BY <1>10, <1>t DEF Fail, TypeOK
    <2> QED
      BY <1>6, <1>10, <1>t, <2>1, FailRewrites, RewriteType DEF Fail
  <1>11. CASE UNCHANGED <<stage, task>>
    BY <1>6, <1>11
  <1> QED
    BY <1>1, <1>2, <1>3, <1>4, <1>5, <1>7, <1>8, <1>9, <1>10, <1>11
    DEF Next, vars, Sight, Delete, Crash

-----------------------------------------------------------------------------
(* Generations.                                                            *)

Stored == {r \in Report : stage[r] \in {"saved", "purged"}}

\* A stored report keeps its data, and an asset row its generation until it is
\* deleted with its context.
LEMMA StoredStable ==
    ASSUME ProjectionInv, [Next]_vars
    PROVE  /\ \A r \in Stored : born'[r] = born[r] /\ selected'[r] = selected[r] /\ kind'[r] = kind[r]
           /\ Stored \subseteq Stored'
           /\ asset # None => asset' = asset \/ context' = None
           /\ backfills' = 0 => backfills = 0
  <1> USE DEF Stored, reportVars, assetVars
  <1>t. TypeOK
    BY DEF ProjectionInv
  <1>1. ASSUME NEW r \in Report, AdmitSelected(r) \/ Start(r)
        PROVE  /\ \A q \in Stored : born'[q] = born[q] /\ selected'[q] = selected[q] /\ kind'[q] = kind[q]
               /\ Stored \subseteq Stored'
    <2>1. /\ r \notin Stored
          /\ \A q \in Report : q # r => /\ born'[q] = born[q] /\ selected'[q] = selected[q]
                                        /\ kind'[q] = kind[q] /\ stage'[q] = stage[q]
      BY <1>1, <1>t DEF AdmitSelected, Start, TypeOK
    <2> QED
      BY <2>1
  <1>2. ASSUME NEW r \in Report, Save(r) \/ Purge(r)
        PROVE  /\ \A q \in Stored : born'[q] = born[q] /\ selected'[q] = selected[q] /\ kind'[q] = kind[q]
               /\ Stored \subseteq Stored'
    BY <1>2, <1>t DEF Save, Purge, TypeOK
  <1>3. ASSUME UNCHANGED reportVars
        PROVE  /\ \A q \in Stored : born'[q] = born[q] /\ selected'[q] = selected[q] /\ kind'[q] = kind[q]
               /\ Stored \subseteq Stored'
    BY <1>3
  <1>4. asset # None => asset' = asset \/ context' = None
    BY DEF Next, vars, AdmitSelected, Start, Save, Purge, Backfill, Sight, Delete,
       Claim, LeaseExpires, Publish, Fail, Crash, Queue, Sighted
  <1>6. backfills' = 0 => backfills = 0
    <2>1. backfills' = backfills \/ backfills' = backfills + 1
      BY DEF Next, vars, AdmitSelected, Start, Save, Purge, Backfill, Sight, Delete,
         Claim, LeaseExpires, Publish, Fail, Crash
    <2> QED
      BY <1>t, <2>1 DEF TypeOK
  <1>5. /\ \A r \in Stored : born'[r] = born[r] /\ selected'[r] = selected[r] /\ kind'[r] = kind[r]
        /\ Stored \subseteq Stored'
    BY <1>1, <1>2, <1>3 DEF Next, vars, Backfill, Sight, Delete, Claim, LeaseExpires, Publish,
       Fail, Crash
  <1> QED
    BY <1>4, <1>5, <1>6

LEMMA NextTaskFenced == ProjectionInv /\ [Next]_vars => TaskFenced'
  <1> SUFFICES ASSUME ProjectionInv, [Next]_vars, NEW r \in Report, task'[r] # None
               PROVE  /\ task'[r].generation = born'[r]
                      /\ backfills' = 0 /\ selected'[r] # None => selected'[r] = born'[r]
    BY DEF TaskFenced
  <1> DEFINE Fenced == /\ task'[r].generation = born'[r]
                       /\ backfills' = 0 /\ selected'[r] # None => selected'[r] = born'[r]
  <1>t. TypeOK /\ AssetCurrent
    BY DEF ProjectionInv
  <1>1. CASE task[r] # None /\ task'[r].generation = task[r].generation
    <2>1. r \in Stored
      BY <1>1 DEF ProjectionInv, ReferencedKept, Saved, Stored
    <2>2. /\ task[r].generation = born[r]
          /\ backfills = 0 /\ selected[r] # None => selected[r] = born[r]
      BY <1>1 DEF ProjectionInv, TaskFenced
    <2> QED
      BY <1>1, <2>1, <2>2, StoredStable
  <1>2. ASSUME NEW q \in Report, Save(q) PROVE Fenced
    <2>1. Queue({s \in {q} : Welcome(s) /\ Selects(s)})
      BY <1>2 DEF Save
    <2>2. {s \in {q} : Welcome(s) /\ Selects(s)} \in SUBSET Report
      OBVIOUS
    <2>3. CASE r # q \/ ~(Welcome(r) /\ Selects(r))
      BY <1>1, <1>t, <2>1, <2>2, <2>3, QueueType
    <2>4. CASE r = q /\ Welcome(r) /\ Selects(r)
      <3>1. task[r] = None
        BY <1>2, <2>4 DEF Save, ProjectionInv, ReferencedKept, Saved
      <3>2. task'[r] = Queued(None, Sighted) /\ Sighted = deletions /\ Sighted \in Nat
        BY <1>t, <2>1, <2>2, <2>4, <3>1, QueueType
      <3>3. task'[r].generation = deletions
        BY <3>2, QueuedTask
      <3>4. born'[r] = deletions /\ selected'[r] = selected[r]
        BY <1>2, <2>4 DEF Welcome, Save
      <3>5. selected[r] # None => selected[r] = deletions
        BY <1>t, <2>4 DEF Selects, AssetCurrent
      <3> QED
        BY <3>3, <3>4, <3>5
    <2> QED
      BY <2>3, <2>4
  <1>3. ASSUME NEW first \in Report, NEW final \in Report, Backfill(first, final) PROVE Fenced
    <2>1. PICK page \in SUBSET Report : Queue(page) /\ \A q \in page : Welcome(q)
      BY <1>3 DEF Backfill, Saved
    <2>2. backfills' # 0 /\ born' = born
      BY <1>3, <1>t DEF Backfill, TypeOK, reportVars
    <2>3. CASE task[r] = None
      <3>1. r \in page /\ task'[r] = Queued(None, Sighted) /\ Sighted = deletions /\ Sighted \in Nat
        BY <1>t, <2>1, <2>3, QueueType
      <3> QED
        BY <2>1, <2>2, <3>1, QueuedTask DEF Welcome
    <2>4. CASE task[r] # None
      <3>1. task'[r].generation = task[r].generation
        BY <1>t, <2>1, <2>4, QueueType, QueuedTask, TaskRows
      <3> QED
        BY <1>1, <2>4, <3>1
    <2> QED
      BY <2>3, <2>4
  <1>4. ASSUME NEW w \in Worker, Publish(w) PROVE Fenced
    <2>1. task'[r] = task[r]
      BY <1>4, <1>t DEF Publish, TypeOK
    <2> QED
      BY <1>1, <2>1
  <1>5. ASSUME NEW w \in Worker, NEW q \in Report, Claim(w, q) PROVE Fenced
    BY <1>1, <1>5, <1>t, ClaimRewrites, RewriteType
  <1>6. ASSUME NEW q \in Report, LeaseExpires(q) PROVE Fenced
    BY <1>1, <1>6, <1>t, ExpiryRewrites, RewriteType
  <1>7. ASSUME NEW w \in Worker, Fail(w) PROVE Fenced
    <2>1. PICK q \in Report : q = claim[w]
      BY <1>7, <1>t DEF Fail, TypeOK
    <2> QED
      BY <1>1, <1>7, <1>t, <2>1, FailRewrites, RewriteType
  <1>8. CASE UNCHANGED task
    BY <1>1, <1>8
  <1> QED
    BY <1>2, <1>3, <1>4, <1>5, <1>6, <1>7, <1>8 DEF Next, vars, AdmitSelected, Start, Sight,
       Delete, Crash, Purge

\* The supports belong to the present asset, and, as long as nothing is
\* backfilled, to the generation their jobs were admitted for.
LEMMA NextSupportsFenced == ProjectionInv /\ [Next]_vars => SupportsBorn' /\ DelayedJobFenced'
  <1> SUFFICES ASSUME ProjectionInv, [Next]_vars, NEW r \in Support'
               PROVE  /\ born'[r] = asset'
                      /\ backfills' = 0 /\ selected'[r] # None => selected'[r] = asset'
    BY DEF SupportsBorn, DelayedJobFenced
  <1>t. TypeOK /\ NoResurrection /\ DelayedJobFenced /\ TaskFenced
    BY DEF ProjectionInv
  <1>1. CASE r \in Support
    <2>1. r \in Stored
      BY <1>1 DEF ProjectionInv, ReferencedKept, Saved, Stored
    <2>2. asset # None /\ context' # None
      BY <1>1, <1>t DEF Support, TypeOK
    <2>3. /\ born[r] = asset
          /\ backfills = 0 /\ selected[r] # None => selected[r] = asset
      BY <1>1, <1>t DEF NoResurrection, DelayedJobFenced
    <2> QED
      BY <2>1, <2>2, <2>3, StoredStable
  <1>2. CASE r \notin Support
    <2>1. r \in Report /\ Publishes(r)
      BY <1>2, SupportStep
    <2>2. /\ asset = born[r]
          /\ backfills = 0 /\ selected[r] # None => selected[r] = born[r]
      BY <1>t, <2>1 DEF Publishes, TaskFenced
    <2> QED
      BY <2>1, <2>2 DEF Publishes, reportVars, assetVars
  <1> QED
    BY <1>1, <1>2

-----------------------------------------------------------------------------
(* The newest of what was projected.                                       *)

\* What NewestOfProjected says of the description and of one row.
DescriptionNewest ==
    \A r \in projected : Positive(r) => ObservedAt(r) <= ObservedAt(context.description)

RowNewest(x) ==
    /\ (\A r \in projected : x \notin Shows(r)) => context.newest[x] = None
    /\ (\E r \in projected : x \in Shows(r)) =>
         /\ context.newest[x] \in projected
         /\ x \in Shows(context.newest[x])
         /\ \A r \in projected : x \in Shows(r) => At(r) <= At(context.newest[x])

LEMMA NewestByRow ==
    NewestOfProjected <=> (context # None => DescriptionNewest /\ \A x \in Row : RowNewest(x))
  <1> SUFFICES ASSUME context # None
               PROVE  NewestOfProjected <=> (DescriptionNewest /\ \A x \in Row : RowNewest(x))
    BY DEF NewestOfProjected
  <1> HIDE DEF Row
  <1>1. ASSUME NEW x \in Row
        PROVE  RowNewest(x) <=>
                 LET candidates == {r \in projected : x \in Shows(r)} IN
                 IF candidates = {} THEN context.newest[x] = None
                 ELSE context.newest[x] \in candidates
                      /\ \A r \in candidates : At(r) <= At(context.newest[x])
    BY DEF RowNewest
  <1> QED
    BY <1>1 DEF NewestOfProjected, DescriptionNewest

\* Positions and observation times are numbers.
LEMMA Positions ==
    ASSUME NEW r \in Report
    PROVE  At(r) \in Nat /\ ObservedAt(r) \in Nat
  BY ProjectionAssumption, Records DEF At, ObservedAt

\* What a report shows depends only on its data.
LEMMA ShowsStable ==
    ASSUME NEW r \in Report, kind'[r] = kind[r]
    PROVE  /\ Positive(r)' = Positive(r)
           /\ Shows(r)' = Shows(r)
           /\ ObservedAt(r)' = ObservedAt(r)
  BY DEF Positive, Shows, ObservedAt

LEMMA NextProjectedDone == ProjectionInv /\ [Next]_vars => ProjectedDone'
  <1> SUFFICES ASSUME ProjectionInv, [Next]_vars PROVE ProjectedDone'
    OBVIOUS
  <1>t. TypeOK /\ ProjectedDone
    BY DEF ProjectionInv
  <1>s. projected \subseteq Stored /\ Stored \subseteq Stored'
    BY <1>t, StoredStable DEF ProjectedDone, Stored, TypeOK
  <1>1. CASE UNCHANGED <<context, projected>>
    BY <1>1, <1>s, <1>t DEF ProjectedDone, Stored
  <1>2. CASE context' = None /\ projected' = {}
    BY <1>2 DEF ProjectedDone
  <1>3. ASSUME NEW r \in Report, Publishes(r) PROVE ProjectedDone'
    <2>1. Base \in Contexts
      BY <1>t, BaseType
    <2>2. context' = Updated(Base, r) /\ context' # None
      BY <1>3, <2>1, UpdatedContext, Records DEF Publishes
    <2>3. context'.description # None
      BY <2>1, <2>2, UpdatedContext, Records DEF Redescribes
    <2>4. projected' = projected \cup {r} /\ r \in Stored
      BY <1>3 DEF Publishes, Saved, Stored
    <2> QED
      BY <1>s, <2>2, <2>3, <2>4 DEF ProjectedDone, Stored
  <1> QED
    BY <1>1, <1>2, <1>3, NextContextStep DEF ContextStep

LEMMA NextNewestOfProjected == ProjectionInv /\ [Next]_vars => NewestOfProjected'
  <1> SUFFICES ASSUME ProjectionInv, [Next]_vars PROVE NewestOfProjected'
    OBVIOUS
  <1>t. TypeOK /\ ProjectedDone /\ ReferencedKept
    BY DEF ProjectionInv
  <1>n. context # None => DescriptionNewest /\ \A x \in Row : RowNewest(x)
    BY NewestByRow DEF ProjectionInv
  <1>m. (context # None => DescriptionNewest /\ \A x \in Row : RowNewest(x))' => NewestOfProjected'
    BY NewestByRow, PTL
  <1>p. projected \subseteq Stored /\ Stored \subseteq Report
    BY <1>t DEF ProjectedDone, Stored, TypeOK
  <1>1. ASSUME UNCHANGED <<context, projected>>, context # None
        PROVE  DescriptionNewest' /\ \A x \in Row : RowNewest(x)'
    <2>1. PICK d \in Report : d = context.description
      BY <1>1, <1>t DEF ProjectedDone, TypeOK, Contexts
    <2>2. d \in Stored
      <3>1. d \in Support
        BY <1>1, <1>t, <2>1, Records DEF Support
      <3> QED
        BY <1>t, <3>1 DEF ReferencedKept, Saved, Stored
    <2>3. \A r \in Stored : /\ Positive(r)' = Positive(r)
                            /\ Shows(r)' = Shows(r)
                            /\ ObservedAt(r)' = ObservedAt(r)
      BY <1>p, StoredStable, ShowsStable
    <2>4. DescriptionNewest'
      BY <1>1, <1>n, <1>p, <2>1, <2>2, <2>3 DEF DescriptionNewest
    <2>5. ASSUME NEW x \in Row PROVE RowNewest(x)'
      BY <1>1, <1>n, <1>p, <2>3 DEF RowNewest, At
    <2> QED
      BY <2>4, <2>5
  <1>2. ASSUME NEW r \in Report, Publishes(r)
        PROVE  DescriptionNewest' /\ \A x \in Row : RowNewest(x)'
    <2>1. Base \in Contexts /\ context' = Updated(Base, r)
      BY <1>2, <1>t, BaseType DEF Publishes
    <2>2. projected' = projected \cup {r} /\ kind' = kind
      BY <1>2 DEF Publishes, reportVars
    <2>3. \A q \in Report : /\ Positive(q)' = Positive(q)
                            /\ Shows(q)' = Shows(q)
                            /\ ObservedAt(q)' = ObservedAt(q)
      BY <2>2, ShowsStable
    <2>4. DescriptionNewest'
      <3> SUFFICES ASSUME NEW q \in projected', Positive(q)
                   PROVE  ObservedAt(q) <= ObservedAt(context'.description)
        <4>1. \A q \in projected' : q \in Report
          BY <1>p, <2>2
        <4>2. context'.description \in Report
          BY <2>1, UpdatedContext, Records DEF Contexts, Redescribes
        <4> QED
          BY <2>2, <2>3, <4>1, <4>2 DEF DescriptionNewest
      <3>1. CASE Base.description = None
        <4>1. context = None
          BY <1>t, <3>1 DEF Base, ProjectedDone
        <4>2. q = r
          BY <1>t, <2>2, <4>1 DEF ProjectedDone
        <4>3. context'.description = r
          BY <2>1, <3>1, UpdatedContext DEF Redescribes
        <4> QED
          BY <4>2, <4>3, Positions
      <3>2. CASE Base.description # None
        <4>1. context # None /\ Base = context
          BY <3>2, EmptyContextType DEF Base
        <4>2. PICK d \in Report : d = context.description
          BY <2>1, <3>2, <4>1 DEF Contexts
        <4>3. context'.description = IF Redescribes(r, d) THEN r ELSE d
          BY <2>1, <4>1, <4>2, UpdatedContext
        <4>4. ObservedAt(r) \in Nat /\ ObservedAt(d) \in Nat /\ ObservedAt(q) \in Nat
          BY <1>p, <2>2, Positions
        <4>5. Positive(r) => ObservedAt(r) > ObservedAt(d) \/ ObservedAt(r) <= ObservedAt(d)
          BY <4>4
        <4>6. q # r => ObservedAt(q) <= ObservedAt(d)
          BY <1>n, <2>2, <4>1, <4>2 DEF DescriptionNewest
        <4>7. CASE Redescribes(r, d)
          <5>1. ObservedAt(r) >= ObservedAt(d)
            BY <4>4, <4>7, Records DEF Redescribes
          <5> QED
            BY <4>3, <4>4, <4>6, <4>7, <5>1
        <4>8. CASE ~Redescribes(r, d)
          <5>1. Positive(r) => ~(ObservedAt(r) > ObservedAt(d))
            BY <4>8 DEF Redescribes
          <5> QED
            BY <4>3, <4>4, <4>6, <4>8, <5>1
        <4> QED
          BY <4>7, <4>8
      <3> QED
        BY <3>1, <3>2
    <2>5. ASSUME NEW x \in Row PROVE RowNewest(x)'
      <3>1. PICK old \in Report \cup {None} : old = Base.newest[x]
        BY <2>1 DEF Contexts
      <3>2. context'.newest[x] = IF x \in Shows(r) /\ Later(r, old) THEN r ELSE old
        BY <2>1, <3>1, UpdatedContext
      <3>3. /\ (\A q \in projected : x \notin Shows(q)) => old = None
            /\ (\E q \in projected : x \in Shows(q)) =>
                 /\ old \in projected
                 /\ x \in Shows(old)
                 /\ \A q \in projected : x \in Shows(q) => At(q) <= At(old)
        <4>1. CASE context = None
          BY <1>t, <3>1, <4>1, EmptyContextType DEF Base, ProjectedDone
        <4>2. CASE context # None
          BY <1>n, <3>1, <4>2 DEF Base, RowNewest
        <4> QED
          BY <4>1, <4>2
      <3>4. \A q \in Report : At(q) \in Nat
        BY Positions
      <3>5. CASE x \notin Shows(r)
        <4>1. context'.newest[x] = old
          BY <3>2, <3>5
        <4> QED
          BY <1>p, <2>2, <2>3, <3>3, <3>5, <4>1 DEF RowNewest, At
      <3>6. CASE x \in Shows(r) /\ Later(r, old)
        <4>1. context'.newest[x] = r
          BY <3>2, <3>6
        <4>2. \A q \in projected' : x \in Shows(q) => At(q) <= At(r)
          <5> SUFFICES ASSUME NEW q \in projected, x \in Shows(q) PROVE At(q) <= At(r)
            BY <2>2, <3>4
          <5>1. old \in projected /\ At(q) <= At(old)
            BY <3>3
          <5>2. At(r) >= At(old)
            BY <1>p, <3>4, <3>6, <5>1, Records DEF Later
          <5> QED
            BY <1>p, <3>4, <5>1, <5>2
        <4> QED
          BY <1>p, <2>2, <2>3, <3>6, <4>1, <4>2 DEF RowNewest, At
      <3>7. CASE x \in Shows(r) /\ ~Later(r, old)
        <4>1. context'.newest[x] = old /\ old # None
          BY <3>2, <3>7 DEF Later
        <4>2. old \in projected /\ x \in Shows(old)
                                /\ \A q \in projected : x \in Shows(q) => At(q) <= At(old)
          BY <3>3, <4>1
        <4>3. At(r) <= At(old)
          BY <1>p, <3>4, <3>7, <4>2 DEF Later
        <4> QED
          BY <1>p, <2>2, <2>3, <4>1, <4>2, <4>3 DEF RowNewest, At
      <3> QED
        BY <3>5, <3>6, <3>7
    <2> QED
      BY <2>4, <2>5
  <1>3. context' # None => DescriptionNewest' /\ \A x \in Row : RowNewest(x)'
    BY <1>1, <1>2, NextContextStep DEF ContextStep
  <1> QED
    BY <1>m, <1>3

\* A row names a report that collected something itself, so what it shows was
\* observed by the analysis it names.
LEMMA NextNoResurrection == ProjectionInv /\ [Next]_vars => NoResurrection'
  <1> SUFFICES ASSUME ProjectionInv, [Next]_vars PROVE NoResurrection'
    OBVIOUS
  <1>1. SupportsBorn' /\ NewestOfProjected' /\ TypeOK'
    BY NextSupportsFenced, NextNewestOfProjected, NextTypeOK
  <1>2. ASSUME context' # None, NEW x \in Row, context'.newest[x] # None
        PROVE  born'[At(context'.newest[x])] = asset'
    <2>1. context'.newest[x] \in {r \in projected' : x \in Shows(r)'}
      BY <1>1, <1>2 DEF NewestOfProjected
    <2>2. PICK n \in projected' : n = context'.newest[x] /\ x \in Shows(n)'
      BY <2>1
    <2>2a. At(n) = n
      BY <2>2 DEF Shows, At
    <2>3. context'.newest[x] \in Support'
      BY <1>2 DEF Support
    <2> QED
      BY <1>1, <2>2, <2>2a, <2>3 DEF SupportsBorn
  <1> QED
    BY <1>1, <1>2 DEF NoResurrection, SupportsBorn, At

-----------------------------------------------------------------------------
(* The theorems.                                                           *)

\* The inductive invariant holds of every behaviour of the transactions and
\* workers of inventory.go and inventory_projection.go.
THEOREM ProjectionInvariant == Spec => []ProjectionInv
  <1>1. ProjectionInv /\ [Next]_vars => ProjectionInv'
    BY NextTypeOK, NextAssetCurrent, NextReferencedKept, NextTaskFenced, NextSupportsFenced,
       NextProjectedDone, NextNewestOfProjected, NextNoResurrection DEF ProjectionInv
  <1> QED
    BY <1>1, InitProjectionInv, PTL DEF Spec

\* After a deletion the inventory names analyses started since and shows what was
\* observed since, but for the description a later reclassification gives
\* (publishInventoryProjection, DeleteInventory).
THEOREM DeletionsStand == Spec => []NoResurrection
  <1>1. ProjectionInv => NoResurrection
    BY DEF ProjectionInv
  <1> QED
    BY <1>1, ProjectionInvariant, PTL

\* RunReportRetention keeps every report that is still referred to.
THEOREM RetentionSafe == Spec => []ReferencedKept
  <1>1. ProjectionInv => ReferencedKept
    BY DEF ProjectionInv
  <1> QED
    BY <1>1, ProjectionInvariant, PTL

\* A delayed job reaches only the asset generation it was admitted for, as long
\* as nothing is backfilled (publishReportInventory).
THEOREM DelayedJobsFenced == Spec => []DelayedJobFenced
  <1>1. ProjectionInv => DelayedJobFenced
    BY DEF ProjectionInv
  <1> QED
    BY <1>1, ProjectionInvariant, PTL

\* In whatever order reports are projected, the context names the newest of
\* every sort (updateInventoryContext, laterInventoryPosition).
THEOREM ProjectionOrderFree == Spec => []NewestOfProjected
  <1>1. ProjectionInv => NewestOfProjected
    BY DEF ProjectionInv
  <1> QED
    BY <1>1, ProjectionInvariant, PTL

=============================================================================
