------------------------- MODULE InventoryProjection -------------------------
(***************************************************************************)
(* From stored reports to the state of one hostname in the inventory:      *)
(* internal/store/postgres/inventory.go (publishReportInventory),          *)
(* inventory_projection.go (the projection tasks and their publication),   *)
(* inventory_report_backfill.go, DeleteInventory and the report retention. *)
(*                                                                         *)
(* One hostname and one observation context.  Every transaction that       *)
(* touches them holds the hostname's advisory lock, so a transaction is a  *)
(* step; projection workers are processes that claim, stall, fail, die and *)
(* publish late.  Reports are numbered in the order their analyses start,  *)
(* which is also the order of their observation times.                     *)
(***************************************************************************)
EXTENDS Integers, FiniteSets

CONSTANTS
    Reports,      \* how many reports there are
    Original,     \* the report that a report reclassifies, None for a fresh one
    Rank,         \* the place of a report's content hash among the identifiers
    Worker,       \* projection loops: the service's and those of commands
    None,
    MaxAttempts,  \* attempts of a projection task (5)
    MaxDeletes,   \* bound on deletions of the hostname
    MaxBackfills  \* bound on backfill pages

Report == 1..Reports

\* No observation at all, only negative ones, an answer to the one DNS question
\* that is modelled, an HTTP response.
Kind == {"silent", "negative", "answered", "responded"}

\* Columns of a context that name the newest report of some sort.
Row == {"attempt", "positive", "query", "answer", "response"}

Tasks == [generation : Nat, status : {"pending", "running", "failed"},
          attempts : 0..MaxAttempts, token : Worker \cup {None}, leased : BOOLEAN]

Contexts == [newest : [Row -> Report \cup {None}], description : Report \cup {None}]

ASSUME ProjectionAssumption ==
    /\ Reports \in Nat
    /\ Original \in [Report -> Report \cup {None}]
    /\ \A r \in Report : Original[r] # None => Original[r] < r /\ Original[Original[r]] = None
    /\ Rank \in [Report -> Nat]
    /\ \A r, s \in Report : Rank[r] = Rank[s] => r = s
    /\ None \notin Worker \cup Nat \cup Tasks \cup Contexts
    /\ MaxAttempts \in Nat \ {0}
    /\ MaxDeletes \in Nat
    /\ MaxBackfills \in Nat

VARIABLES
    stage,      \* of a report: "new", "admitted", "started", "saved" or "purged"
    selected,   \* the asset generation its job was admitted for, None if any
    born,       \* the deletions that preceded the start of its analysis
    kind,       \* what its observations of the hostname say
    asset,      \* deletion generation of the inventory_assets row, or None
    deletions,  \* deletion generation of the tombstone, 0 if there is none
    suppressed, \* the tombstone forbids rediscovery
    task,       \* the projection task of a report, or None
    context,    \* the inventory_asset_contexts row with its DNS rows, or None
    claim,      \* the report a worker holds a claim on, or None
    projected,  \* history: reports published into the present context row
    backfills   \* backfill pages so far

reportVars == <<stage, selected, born, kind>>
assetVars == <<asset, deletions, suppressed>>
vars == <<reportVars, assetVars, task, context, claim, projected, backfills>>

Init ==
    /\ stage = [r \in Report |-> "new"]
    /\ selected = [r \in Report |-> None]
    /\ born = [r \in Report |-> 0]
    /\ kind = [r \in Report |-> "silent"]
    /\ asset = None
    /\ deletions = 0
    /\ suppressed = FALSE
    /\ task = [r \in Report |-> None]
    /\ context = None
    /\ claim = [w \in Worker |-> None]
    /\ projected = {}
    /\ backfills = 0

Saved == {r \in Report : stage[r] = "saved"}

-----------------------------------------------------------------------------
(* Analyses.                                                               *)

\* A validation job freezes the generation of the asset it was admitted for.
AdmitSelected(r) ==
    /\ stage[r] = "new"
    /\ Original[r] = None
    /\ asset # None
    /\ stage' = [stage EXCEPT ![r] = "admitted"]
    /\ selected' = [selected EXCEPT ![r] = asset]
    /\ UNCHANGED <<born, kind, assetVars, task, context, claim, projected, backfills>>

\* An analysis starts.  A reclassification needs the stored original and has
\* its observations.
Start(r) ==
    /\ stage[r] \in {"new", "admitted"}
    /\ \A s \in 1..(r - 1) : stage[s] \notin {"new", "admitted"}
    /\ stage' = [stage EXCEPT ![r] = "started"]
    /\ born' = [born EXCEPT ![r] = deletions]
    /\ IF Original[r] = None
       THEN \E k \in Kind : kind' = [kind EXCEPT ![r] = k]
       ELSE /\ stage[Original[r]] = "saved"
            /\ kind' = [kind EXCEPT ![r] = kind[Original[r]]]
    /\ UNCHANGED <<selected, assetVars, task, context, claim, projected, backfills>>

-----------------------------------------------------------------------------
(* publishReportInventory: it runs inside the transaction that saves a     *)
(* report and inside a backfill page.                                      *)

\* The tombstone neither suppresses the hostname nor is younger than the report.
Welcome(r) == ~suppressed /\ born[r] = deletions

NewTask(generation) ==
    [generation |-> generation, status |-> "pending", attempts |-> 0,
     token |-> None, leased |-> FALSE]

\* A task that used up its attempts.
Exhausted(t) == t.status = "failed" /\ t.attempts >= MaxAttempts

\* The task row of a report that is queued: a new one, or a reset of one that
\* used up its attempts.
Queued(t, generation) ==
    IF t = None THEN NewTask(generation)
    ELSE IF Exhausted(t) THEN NewTask(t.generation) ELSE t

\* The asset row exists after a sighting.
Sighted == IF asset = None THEN deletions ELSE asset

Queue(page) ==
    /\ asset' = IF page = {} THEN asset ELSE Sighted
    /\ task' = [r \in Report |-> IF r \in page THEN Queued(task[r], Sighted) ELSE task[r]]

\* A hostname import or a CT record.
Sight ==
    /\ ~suppressed
    /\ asset = None
    /\ asset' = Sighted
    /\ UNCHANGED <<reportVars, deletions, suppressed, task, context, claim, projected, backfills>>

\* Mutant of Selects: the generation of the selection is not compared.
SelectsAny(r) == selected[r] # None => asset # None

\* A selected report needs the asset it was admitted for.
Selects(r) == selected[r] # None => asset = selected[r]

\* saveReport
Save(r) ==
    /\ stage[r] = "started"
    /\ stage' = [stage EXCEPT ![r] = "saved"]
    /\ Queue({s \in {r} : Welcome(s) /\ Selects(s)})
    /\ UNCHANGED <<selected, born, kind, deletions, suppressed, context, claim, projected, backfills>>

\* BackfillInventoryReports: one page in the order of the identifiers.  The
\* selection of the job is not stored with a report.
Backfill(first, final) ==
    LET page == {r \in Saved : Rank[r] \in Rank[first]..Rank[final]} IN
    /\ backfills < MaxBackfills
    /\ backfills' = backfills + 1
    /\ Queue({r \in page : Welcome(r)})
    /\ UNCHANGED <<reportVars, deletions, suppressed, context, claim, projected>>

\* DeleteInventory: the asset goes with its contexts and supports, not with
\* the tasks of its reports.
Delete(suppress) ==
    /\ deletions < MaxDeletes
    /\ deletions' = deletions + 1
    /\ suppressed' = suppress
    /\ asset' = None
    /\ context' = None
    /\ projected' = {}
    /\ UNCHANGED <<reportVars, task, claim, backfills>>

-----------------------------------------------------------------------------
(* ProcessNextInventoryProjection                                          *)

\* Mutant of Claimable: an expired lease is not taken over.
ClaimableUnlessRunning(t) == t.attempts < MaxAttempts /\ t.status # "running"

\* Pending, failed and due again, or running with a lease that ran out.
Claimable(t) ==
    /\ t.attempts < MaxAttempts
    /\ t.status = "running" => ~t.leased

\* A claim takes a new token; a worker has one claim at a time, so its name
\* stands for the token.
Claim(w, r) ==
    /\ claim[w] = None
    /\ task[r] # None
    /\ Claimable(task[r])
    /\ task' = [task EXCEPT ![r].status = "running", ![r].attempts = @ + 1,
                            ![r].token = w, ![r].leased = TRUE]
    /\ claim' = [claim EXCEPT ![w] = r]
    /\ UNCHANGED <<reportVars, assetVars, context, projected, backfills>>

LeaseExpires(r) ==
    /\ task[r] # None
    /\ task[r].leased
    /\ task' = [task EXCEPT ![r].leased = FALSE]
    /\ UNCHANGED <<reportVars, assetVars, context, claim, projected, backfills>>

\* The worker's token is still the one in the row.
Owns(w) ==
    /\ task[claim[w]] # None
    /\ task[claim[w]].token = w

\* laterInventoryPosition
At(r) == IF Original[r] = None THEN r ELSE Original[r]

\* Mutant of Later: what is published last wins.
LaterAlways(r, old) == TRUE

Later(r, old) == old = None \/ At(r) > At(old) \/ (At(r) = At(old) /\ Rank[r] > Rank[old])

Positive(r) == kind[r] \in {"answered", "responded"}

\* The rows that a report may become the newest one of.  A reclassification
\* collects nothing.
Shows(r) ==
    IF Original[r] # None THEN {}
    ELSE {"attempt"} \cup (IF Positive(r) THEN {"positive"} ELSE {})
                     \cup (IF kind[r] # "silent" THEN {"query"} ELSE {})
                     \cup (IF kind[r] = "answered" THEN {"answer"} ELSE {})
                     \cup (IF kind[r] = "responded" THEN {"response"} ELSE {})

\* A report without observations has the zero time in its description.
ObservedAt(r) == IF kind[r] = "silent" THEN 0 ELSE At(r)

Redescribes(r, old) ==
    \/ old = None
    \/ /\ Positive(r)
       /\ \/ ObservedAt(r) > ObservedAt(old)
          \/ ObservedAt(r) = ObservedAt(old) /\ Rank[r] > Rank[old]
    \/ Original[r] # None /\ ObservedAt(r) = ObservedAt(old) /\ r > old

EmptyContext == [newest |-> [x \in Row |-> None], description |-> None]

\* updateInventoryContext
Updated(c, r) ==
    [newest |-> [x \in Row |->
        IF x \in Shows(r) /\ Later(r, c.newest[x]) THEN r ELSE c.newest[x]],
     description |-> IF Redescribes(r, c.description) THEN r ELSE c.description]

\* Mutant of Obsolete: an asset that was created again will do.
ObsoleteWhenGone(t) == asset = None

Obsolete(t) == asset # t.generation

\* publishInventoryProjection
Publish(w) ==
    LET r == claim[w] IN
    /\ r # None
    /\ Owns(w)
    /\ task' = [task EXCEPT ![r] = None]
    /\ claim' = [claim EXCEPT ![w] = None]
    /\ IF Obsolete(task[r])
       THEN UNCHANGED <<context, projected>>
       ELSE /\ context' = Updated(IF context = None THEN EmptyContext ELSE context, r)
            /\ projected' = projected \cup {r}
    /\ UNCHANGED <<reportVars, assetVars, backfills>>

\* The report cannot be read, or the publication fails or finds its lease
\* stale; the failure is recorded if the token is still the one in the row.
Fail(w) ==
    LET r == claim[w] IN
    /\ r # None
    /\ task' = IF Owns(w)
               THEN [task EXCEPT ![r].status = "failed", ![r].token = None, ![r].leased = FALSE]
               ELSE task
    /\ claim' = [claim EXCEPT ![w] = None]
    /\ UNCHANGED <<reportVars, assetVars, context, projected, backfills>>

\* The process dies, or the failure cannot be recorded.
Crash(w) ==
    /\ claim[w] # None
    /\ claim' = [claim EXCEPT ![w] = None]
    /\ UNCHANGED <<reportVars, assetVars, task, context, projected, backfills>>

-----------------------------------------------------------------------------
(* RunReportRetention                                                      *)

\* replaceInventorySupports
Support ==
    IF context = None THEN {}
    ELSE ({context.newest[x] : x \in Row} \cup {context.description}) \ {None}

\* Mutant of Retained: tasks are not looked at.
RetainedBySupport(r) ==
    \/ \E s \in Report : stage[s] \in {"started", "saved"} /\ Original[s] = r
    \/ r \in Support

\* What still needs a report: its reclassifications, a task, the inventory.
Retained(r) ==
    \/ \E s \in Report : stage[s] \in {"started", "saved"} /\ Original[s] = r
    \/ task[r] # None
    \/ r \in Support

\* One report of a page; the reports of a page are checked and deleted in turn.
Purge(r) ==
    /\ r \in Saved
    /\ ~Retained(r)
    /\ stage' = [stage EXCEPT ![r] = "purged"]
    /\ UNCHANGED <<selected, born, kind, assetVars, task, context, claim, projected, backfills>>

-----------------------------------------------------------------------------
Next ==
    \/ \E r \in Report : AdmitSelected(r)
    \/ \E r \in Report : Start(r)
    \/ \E r \in Report : Save(r)
    \/ \E first, final \in Report : Backfill(first, final)
    \/ Sight
    \/ \E suppress \in BOOLEAN : Delete(suppress)
    \/ \E w \in Worker, r \in Report : Claim(w, r)
    \/ \E r \in Report : LeaseExpires(r)
    \/ \E w \in Worker : Publish(w)
    \/ \E w \in Worker : Fail(w)
    \/ \E w \in Worker : Crash(w)
    \/ \E r \in Report : Purge(r)

Spec == Init /\ [][Next]_vars

\* A projection loop keeps polling and its attempts have a deadline; a lease
\* that is not renewed runs out.
FairSpec ==
    /\ Spec
    /\ \A w \in Worker : WF_vars((\E r \in Report : Claim(w, r)) \/ Publish(w) \/ Fail(w))
    /\ \A r \in Report : WF_vars(LeaseExpires(r))

-----------------------------------------------------------------------------
(* Properties.                                                             *)

\* Every variable keeps its type, and a context row has an asset row.
TypeOK ==
    /\ stage \in [Report -> {"new", "admitted", "started", "saved", "purged"}]
    /\ selected \in [Report -> Nat \cup {None}]
    /\ born \in [Report -> 0..MaxDeletes]
    /\ kind \in [Report -> Kind]
    /\ asset \in Nat \cup {None}
    /\ deletions \in 0..MaxDeletes
    /\ suppressed \in BOOLEAN
    /\ task \in [Report -> Tasks \cup {None}]
    /\ context \in Contexts \cup {None}
    /\ context # None => asset # None
    /\ claim \in [Worker -> Report \cup {None}]
    /\ projected \subseteq Report
    /\ backfills \in 0..MaxBackfills

\* A deletion ends what the inventory rests on, although tasks outlive it and the
\* hostname may have been created again when a stalled worker publishes: every
\* analysis it names started since, and every attempt, answer or response it shows
\* was observed since.  Only the description may rest on older observations, those
\* of a reclassification that was started since.
NoResurrection ==
    /\ \A r \in Support : born[r] = asset
    /\ context # None => \A x \in Row :
          context.newest[x] # None => born[At(context.newest[x])] = asset

\* Reports may be projected late, in any order and more than once: the context
\* names the newest report of every sort among those projected, and no projected
\* report that found something is younger than what the description tells.
NewestOfProjected ==
    context # None =>
        /\ \A r \in projected : Positive(r) => ObservedAt(r) <= ObservedAt(context.description)
        /\ \A x \in Row :
            LET candidates == {r \in projected : x \in Shows(r)} IN
            IF candidates = {} THEN context.newest[x] = None
            ELSE context.newest[x] \in candidates
                 /\ \A r \in candidates : At(r) <= At(context.newest[x])

\* Retention never removes a report that a task, the inventory or a
\* reclassification still refers to, nor one that a worker is about to publish.
ReferencedKept ==
    /\ Support \subseteq Saved
    /\ \A r \in Report : task[r] # None => r \in Saved
    /\ \A r \in Saved : Original[r] # None => Original[r] \in Saved

\* A delayed job reaches the asset only if that still has the generation the
\* job was admitted for, as long as nobody runs a backfill: that publishes stored
\* reports without asking which generation they were admitted for.
DelayedJobFenced ==
    backfills = 0 => \A r \in Support : selected[r] # None => selected[r] = asset

\* Nobody works on the last attempt of a task any more, yet it is not failed.
Orphaned(r) ==
    /\ task[r] # None
    /\ task[r].status = "running"
    /\ task[r].attempts = MaxAttempts
    /\ \A w \in Worker : claim[w] # r

\* A queued report is projected, is discarded with its asset, or ends as a
\* visible failure, unless the worker of its last attempt died: nobody claims
\* or fails that task again.
TasksEnd ==
    \A r \in Report :
        task[r] # None ~> (task[r] = None \/ Exhausted(task[r]) \/ Orphaned(r))

=============================================================================
