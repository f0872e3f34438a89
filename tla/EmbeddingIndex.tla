--------------------------- MODULE EmbeddingIndex ---------------------------
(***************************************************************************)
(* The vectors behind semantic search: the generations and coverage of     *)
(* internal/store/postgres/inventory_vectors.go, the tasks of              *)
(* inventory_embedding_worker.go and the part of updateInventoryContext    *)
(* that queues them.                                                       *)
(*                                                                         *)
(* Every transaction that writes descriptions, generations or vectors      *)
(* holds one advisory lock and is a step.  A worker reads the text and     *)
(* computes the vector outside any transaction, so descriptions and        *)
(* generations change under it.  InventoryProjection decides when a        *)
(* description changes; here it may change at any time.                    *)
(***************************************************************************)
EXTENDS Integers, FiniteSets

CONSTANTS
    Context,      \* the (asset, observation context) pairs
    Text,         \* contents of descriptions, told apart by their hash
    Generation,   \* identifiers of embedding generations
    Worker,       \* embedding loops
    None,
    MaxAttempts,  \* attempts of an embedding task (5)
    MaxWrites     \* bound on publications and deletions of descriptions

\* What identifies a description: hash, revision and deletion generation.
Version == [text : Text, revision : Nat \ {0}, deletion : Nat]

Tasks == [version : Version, status : {"pending", "running", "failed"},
          attempts : 0..MaxAttempts, token : Worker \cup {None}, leased : BOOLEAN]

Vectors == [version : Version, content : Text]

Claims == [context : Context, generation : Generation, text : Text, deletion : Nat]

ASSUME EmbeddingAssumption ==
    /\ None \notin Text \cup Worker \cup Generation \cup Context
    /\ None \notin Version \cup Tasks \cup Vectors \cup Claims
    /\ MaxAttempts \in Nat \ {0}
    /\ MaxWrites \in Nat

VARIABLES
    description, \* of a context: its text, revision and deletion generation, or None
    deletions,   \* the deletion generation that a new context gets
    status,      \* of a generation: "absent", "building", "active" or "retained"
    window,      \* generations that were retained less than seven days ago
    task,        \* the embedding task of a context and a generation, or None
    vector,      \* the stored vector of a context and a generation, or None
    claim,       \* what a worker claimed, or None
    computed,    \* the text that a worker's vector was computed from, or None
    writes       \* publications and deletions so far

generationVars == <<status, window>>
workerVars == <<claim, computed>>
vars == <<description, deletions, generationVars, task, vector, workerVars, writes>>

Init ==
    /\ description = [c \in Context |-> None]
    /\ deletions = [c \in Context |-> 0]
    /\ status = [g \in Generation |-> "absent"]
    /\ window = {}
    /\ task = [c \in Context |-> [g \in Generation |-> None]]
    /\ vector = [c \in Context |-> [g \in Generation |-> None]]
    /\ claim = [w \in Worker |-> None]
    /\ computed = [w \in Worker |-> None]
    /\ writes = 0

Described == {c \in Context : description[c] # None}
Maintained == {g \in Generation : status[g] \in {"building", "active"}}

-----------------------------------------------------------------------------
(* Descriptions.                                                           *)

NewTask(version) ==
    [version |-> version, status |-> "pending", attempts |-> 0, token |-> None, leased |-> FALSE]

\* Mutant of Requeued: a running attempt keeps its lease.
RequeuedInPlace(t, version) ==
    IF t = None THEN NewTask(version) ELSE [t EXCEPT !.version = version]

\* INSERT ... ON CONFLICT DO UPDATE: the task starts anew and whoever works on
\* the former one loses its lease.
Requeued(t, version) == NewTask(version)

\* The next version of a description.
NextVersion(c, text) ==
    [text |-> text,
     revision |-> IF description[c] = None THEN 1 ELSE description[c].revision + 1,
     deletion |-> deletions[c]]

\* A row for the same content follows the revision of an unchanged description.
Advanced(row, version) ==
    IF row # None /\ row.version.text = version.text /\ row.version.deletion = version.deletion
    THEN [row EXCEPT !.version = version]
    ELSE row

\* Mutant of Changed: every publication counts as a new text.
ChangedAlways(c, text) == TRUE

Changed(c, text) == description[c] = None \/ description[c].text # text

\* A report replaces the description of a context.
Describe(c, text) ==
    LET version == NextVersion(c, text) IN
    /\ writes < MaxWrites
    /\ writes' = writes + 1
    /\ description' = [description EXCEPT ![c] = version]
    /\ IF Changed(c, text)
       THEN /\ task' = [task EXCEPT ![c] = [g \in Generation |->
                           IF g \in Maintained THEN Requeued(@[g], version) ELSE @[g]]]
            /\ vector' = vector
       ELSE /\ task' = [task EXCEPT ![c] = [g \in Generation |-> Advanced(@[g], version)]]
            /\ vector' = [vector EXCEPT ![c] = [g \in Generation |-> Advanced(@[g], version)]]
    /\ UNCHANGED <<deletions, generationVars, workerVars>>

\* DeleteInventory: tasks and vectors go with the context.
Delete(c) ==
    /\ writes < MaxWrites
    /\ writes' = writes + 1
    /\ description' = [description EXCEPT ![c] = None]
    /\ deletions' = [deletions EXCEPT ![c] = @ + 1]
    /\ task' = [task EXCEPT ![c] = [g \in Generation |-> None]]
    /\ vector' = [vector EXCEPT ![c] = [g \in Generation |-> None]]
    /\ UNCHANGED <<generationVars, workerVars>>

-----------------------------------------------------------------------------
(* Generations.                                                            *)

\* A vector of exactly the present description.
Current(c, g) == vector[c][g] # None /\ vector[c][g].version = description[c]

\* A task of exactly the present description.
Tasked(c, g) == task[c][g] # None /\ task[c][g].version = description[c]

Exhausted(t) == t.status = "failed" /\ t.attempts >= MaxAttempts

\* inventoryEmbeddingCoverage: neither a vector nor an exhausted failure.
Pending(g) ==
    {c \in Described : ~Current(c, g) /\ ~(Tasked(c, g) /\ Exhausted(task[c][g]))}

\* BeginInventoryEmbeddingGeneration captures every description there is.
Begin(g) ==
    /\ status[g] = "absent"
    /\ status' = [status EXCEPT ![g] = "building"]
    /\ task' = [c \in Context |->
                   IF c \in Described
                   THEN [task[c] EXCEPT ![g] = NewTask(description[c])] ELSE task[c]]
    /\ UNCHANGED <<description, deletions, window, vector, workerVars, writes>>

\* Nothing is pending.
Complete(g) == Pending(g) = {}

\* g becomes the active generation and the one it replaces is retained.
Selected(g) ==
    [h \in Generation |->
        IF h = g THEN "active" ELSE IF status[h] = "active" THEN "retained" ELSE status[h]]

Activate(g) ==
    /\ status[g] = "building"
    /\ Complete(g)
    /\ status' = Selected(g)
    /\ window' = window \cup {h \in Generation : status[h] = "active"}
    /\ UNCHANGED <<description, deletions, task, vector, workerVars, writes>>

\* Mutant of Gaps: rollback trusts the vectors it finds.
GapsWithoutVector(g) == {c \in Described : vector[c][g] = None}

\* The descriptions that rollback queues again.
Gaps(g) == {c \in Described : ~Current(c, g)}

Rollback(g) ==
    /\ status[g] = "retained"
    /\ g \in window
    /\ status' = Selected(g)
    /\ window' = (window \ {g}) \cup {h \in Generation : status[h] = "active"}
    /\ task' = [c \in Context |->
                   IF c \in Gaps(g)
                   THEN [task[c] EXCEPT ![g] = Requeued(@, description[c])] ELSE task[c]]
    /\ UNCHANGED <<description, deletions, vector, workerVars, writes>>

WindowEnds(g) ==
    /\ g \in window
    /\ window' = window \ {g}
    /\ UNCHANGED <<description, deletions, status, task, vector, workerVars, writes>>

\* Tasks and vectors of the generation are deleted in cascade.
Prune(g) ==
    /\ status[g] = "retained"
    /\ g \notin window
    /\ status' = [status EXCEPT ![g] = "absent"]
    /\ task' = [c \in Context |-> [task[c] EXCEPT ![g] = None]]
    /\ vector' = [c \in Context |-> [vector[c] EXCEPT ![g] = None]]
    /\ UNCHANGED <<description, deletions, window, workerVars, writes>>

-----------------------------------------------------------------------------
(* ProcessNextInventoryEmbedding                                           *)

\* Pending, failed and due again, or running with a lease that ran out.
Claimable(t) ==
    /\ t.attempts < MaxAttempts
    /\ t.status = "running" => ~t.leased

\* A worker has one claim at a time, so its name stands for its token.
Claim(w, c, g) ==
    /\ claim[w] = None
    /\ g \in Maintained
    /\ task[c][g] # None
    /\ Claimable(task[c][g])
    /\ task' = [task EXCEPT ![c][g] =
                    [task[c][g] EXCEPT !.status = "running", !.attempts = @ + 1,
                                       !.token = w, !.leased = TRUE]]
    /\ claim' = [claim EXCEPT ![w] =
                    [context |-> c, generation |-> g, text |-> task[c][g].version.text,
                     deletion |-> task[c][g].version.deletion]]
    /\ UNCHANGED <<description, deletions, generationVars, vector, computed, writes>>

LeaseExpires(c, g) ==
    /\ task[c][g] # None
    /\ task[c][g].leased
    /\ task' = [task EXCEPT ![c][g].leased = FALSE]
    /\ UNCHANGED <<description, deletions, generationVars, vector, workerVars, writes>>

Drop(w) ==
    /\ claim' = [claim EXCEPT ![w] = None]
    /\ computed' = [computed EXCEPT ![w] = None]

\* The description is still the one that was claimed.
Unchanged(w) ==
    LET d == description[claim[w].context] IN
    d # None /\ d.text = claim[w].text /\ d.deletion = claim[w].deletion

\* The worker reads the text and computes its vector.
Embed(w) ==
    /\ claim[w] # None
    /\ computed[w] = None
    /\ Unchanged(w)
    /\ computed' = [computed EXCEPT ![w] = description[claim[w].context].text]
    /\ UNCHANGED <<description, deletions, generationVars, task, vector, claim, writes>>

\* A deletion or a new description made the claim pointless.
Invalidated(w) ==
    /\ claim[w] # None
    /\ computed[w] = None
    /\ ~Unchanged(w)
    /\ Drop(w)
    /\ UNCHANGED <<description, deletions, generationVars, task, vector, writes>>

Owns(w) ==
    LET t == task[claim[w].context][claim[w].generation] IN
    t # None /\ t.token = w

\* The lease holds and the task is for the present description of a maintained
\* generation.
Publishable(w) ==
    LET c == claim[w].context
        g == claim[w].generation IN
    /\ Owns(w)
    /\ task[c][g].leased
    /\ Tasked(c, g)
    /\ g \in Maintained

\* publishInventoryEmbedding; it returns without a trace if the claim was
\* overtaken.
Publish(w) ==
    LET c == claim[w].context
        g == claim[w].generation IN
    /\ claim[w] # None
    /\ computed[w] # None
    /\ IF Publishable(w)
       THEN /\ vector' = [vector EXCEPT ![c][g] =
                             [version |-> task[c][g].version, content |-> computed[w]]]
            /\ task' = [task EXCEPT ![c][g] = None]
       ELSE UNCHANGED <<task, vector>>
    /\ Drop(w)
    /\ UNCHANGED <<description, deletions, generationVars, writes>>

\* The model or the database fails; the failure is recorded if the token is
\* still the one in the row.
Fail(w) ==
    LET c == claim[w].context
        g == claim[w].generation IN
    /\ claim[w] # None
    /\ task' = IF Owns(w)
               THEN [task EXCEPT ![c][g] = [@ EXCEPT !.status = "failed", !.token = None,
                                                     !.leased = FALSE]]
               ELSE task
    /\ Drop(w)
    /\ UNCHANGED <<description, deletions, generationVars, vector, writes>>

\* The process dies, or the failure cannot be recorded.
Crash(w) ==
    /\ claim[w] # None
    /\ Drop(w)
    /\ UNCHANGED <<description, deletions, generationVars, task, vector, writes>>

-----------------------------------------------------------------------------
Next ==
    \/ \E c \in Context, text \in Text : Describe(c, text)
    \/ \E c \in Context : Delete(c)
    \/ \E g \in Generation : Begin(g)
    \/ \E g \in Generation : Activate(g)
    \/ \E g \in Generation : Rollback(g)
    \/ \E g \in Generation : WindowEnds(g)
    \/ \E g \in Generation : Prune(g)
    \/ \E w \in Worker, c \in Context, g \in Generation : Claim(w, c, g)
    \/ \E c \in Context, g \in Generation : LeaseExpires(c, g)
    \/ \E w \in Worker : Embed(w)
    \/ \E w \in Worker : Invalidated(w)
    \/ \E w \in Worker : Publish(w)
    \/ \E w \in Worker : Fail(w)
    \/ \E w \in Worker : Crash(w)

Spec == Init /\ [][Next]_vars

-----------------------------------------------------------------------------
(* Properties.                                                             *)

\* Every variable keeps its type.
TypeOK ==
    /\ description \in [Context -> Version \cup {None}]
    /\ deletions \in [Context -> Nat]
    /\ status \in [Generation -> {"absent", "building", "active", "retained"}]
    /\ window \subseteq Generation
    /\ task \in [Context -> [Generation -> Tasks \cup {None}]]
    /\ vector \in [Context -> [Generation -> Vectors \cup {None}]]
    /\ claim \in [Worker -> Claims \cup {None}]
    /\ computed \in [Worker -> Text \cup {None}]
    /\ writes \in 0..MaxWrites

\* A vector is stored under the description it was computed from, although the
\* text is read outside the transaction that stores the vector and descriptions
\* are replaced, deleted and restored meanwhile; and a worker that publishes late
\* does not bring back the vector or the task of a deleted one.
VectorsSound ==
    \A c \in Context, g \in Generation :
        /\ vector[c][g] # None => vector[c][g].content = vector[c][g].version.text
        /\ \A row \in {vector[c][g], task[c][g]} \ {None} :
             description[c] # None /\ row.version.deletion = deletions[c]

\* No description is forgotten: a generation that is built or served has a
\* vector or a task for exactly the present description of every context,
\* through replacements, deletions, rollbacks and late publications.
NoGap ==
    \A c \in Described, g \in Maintained : Current(c, g) \/ Tasked(c, g)

=============================================================================
