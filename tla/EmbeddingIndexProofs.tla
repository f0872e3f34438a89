------------------------ MODULE EmbeddingIndexProofs ------------------------
(***************************************************************************)
(* Theorems about EmbeddingIndex, and about a search beside it, for every  *)
(* number of contexts, texts, generations and workers.                     *)
(***************************************************************************)
EXTENDS InventoryRetrieval, TLAPS

-----------------------------------------------------------------------------
(* The inductive invariant.                                                *)

\* A description belongs to the deletion generation of its context.
DescriptionCurrent ==
    \A c \in Described : description[c].deletion = deletions[c]

\* A worker's vector is of the text it claimed.
ComputedClaimed ==
    \A w \in Worker : computed[w] # None => claim[w] # None /\ computed[w] = claim[w].text

\* The task of the pair that w has claimed carries w's token.
Carries(w, c, g) ==
    /\ claim[w] # None
    /\ claim[w].context = c
    /\ claim[w].generation = g
    /\ task[c][g] # None
    /\ task[c][g].token = w

\* A task that still carries a worker's token asks for the text that the worker
\* has claimed, although the description may have been confirmed meanwhile.
TokenSound ==
    \A w \in Worker, c \in Context, g \in Generation :
        Carries(w, c, g) => task[c][g].version.text = claim[w].text

EmbeddingInv ==
    /\ TypeOK
    /\ DescriptionCurrent /\ ComputedClaimed /\ TokenSound
    /\ VectorsSound
    /\ NoGap

\* Contexts that a search expects to find are hits.
ExpectFound == IF query = None THEN expect = {} ELSE expect \subseteq Hits(query)

RetrievalInv == EmbeddingInv /\ query \in Generation \cup {None} /\ ExpectFound

-----------------------------------------------------------------------------
(* Type correctness.                                                       *)

\* A new task, a description's next version and a row that follows it are of
\* the right type.
LEMMA NewTaskType ==
    ASSUME NEW version \in Version
    PROVE  NewTask(version) \in Tasks
  BY EmbeddingAssumption DEF NewTask, Tasks

LEMMA NextVersionType ==
    ASSUME TypeOK, NEW c \in Context, NEW text \in Text
    PROVE  NextVersion(c, text) \in Version
  BY DEF NextVersion, Version, TypeOK

LEMMA AdvancedType ==
    ASSUME NEW version \in Version
    PROVE  /\ \A row \in Tasks \cup {None} : Advanced(row, version) \in Tasks \cup {None}
           /\ \A row \in Vectors \cup {None} : Advanced(row, version) \in Vectors \cup {None}
  BY DEF Advanced, Tasks, Vectors

\* Records are not None.
LEMMA Records ==
    /\ \A x \in Version : x # None
    /\ \A x \in Tasks : x # None
    /\ \A x \in Vectors : x # None
    /\ \A x \in Claims : x # None
  BY EmbeddingAssumption

\* A task that is claimed, or fails, is still a task.
LEMMA TaskUpdate ==
    ASSUME NEW t \in Tasks, NEW st \in {"pending", "running", "failed"},
           NEW n \in 0..MaxAttempts, NEW tok \in Worker \cup {None}, NEW l \in BOOLEAN
    PROVE  [t EXCEPT !.status = st, !.attempts = n, !.token = tok, !.leased = l] \in Tasks
  BY DEF Tasks

LEMMA TaskReleased ==
    ASSUME NEW t \in Tasks
    PROVE  [t EXCEPT !.status = "failed", !.token = None, !.leased = FALSE] \in Tasks
  <1>1. [t EXCEPT !.status = "failed", !.token = None, !.leased = FALSE]
          = [t EXCEPT !.status = "failed", !.attempts = t.attempts, !.token = None, !.leased = FALSE]
    BY DEF Tasks
  <1>2. t.attempts \in 0..MaxAttempts
    BY DEF Tasks
  <1> QED
    BY <1>1, <1>2, TaskUpdate

\* Tasks and vectors, one by one.
LEMMA RowTypes ==
    ASSUME TypeOK, NEW c \in Context, NEW g \in Generation
    PROVE  /\ task[c][g] \in Tasks \cup {None}
           /\ vector[c][g] \in Vectors \cup {None}
           /\ task[c] \in [Generation -> Tasks \cup {None}]
           /\ vector[c] \in [Generation -> Vectors \cup {None}]
  BY DEF TypeOK

LEMMA InitTypeOK == Init => TypeOK
  BY EmbeddingAssumption DEF Init, TypeOK

LEMMA NextTypeOK == TypeOK /\ [Next]_vars => TypeOK'
  <1> SUFFICES ASSUME TypeOK, [Next]_vars PROVE TypeOK'
    OBVIOUS
  <1> USE EmbeddingAssumption DEF generationVars, workerVars
  <1> DEFINE TaskMap == [Context -> [Generation -> Tasks \cup {None}]]
             VectorMap == [Context -> [Generation -> Vectors \cup {None}]]
  <1>1. ASSUME NEW c \in Context, NEW text \in Text, Describe(c, text) PROVE TypeOK'
    <2>1. PICK version \in Version : version = NextVersion(c, text)
      BY NextVersionType
    <2>2. description' = [description EXCEPT ![c] = version] /\ writes' \in 0..MaxWrites
      BY <1>1, <2>1 DEF Describe, TypeOK
    <2>3. CASE Changed(c, text)
      <3>1. [g \in Generation |-> IF g \in Maintained THEN Requeued(task[c][g], version) ELSE task[c][g]]
                \in [Generation -> Tasks \cup {None}]
        BY RowTypes, NewTaskType DEF Requeued
      <3> DEFINE f == [g \in Generation |->
                          IF g \in Maintained THEN Requeued(task[c][g], version) ELSE task[c][g]]
      <3>2. task' = [task EXCEPT ![c] = f] /\ vector' = vector
        BY <1>1, <2>1, <2>3 DEF Describe, TypeOK
      <3> HIDE DEF f
      <3>3. task' \in TaskMap
        BY <3>1, <3>2 DEF TypeOK, f
      <3> QED
        BY <1>1, <2>2, <3>2, <3>3 DEF Describe, TypeOK
    <2>4. CASE ~Changed(c, text)
      <3>1. [g \in Generation |-> Advanced(task[c][g], version)]
                \in [Generation -> Tasks \cup {None}]
        BY RowTypes, AdvancedType
      <3>2. [g \in Generation |-> Advanced(vector[c][g], version)]
                \in [Generation -> Vectors \cup {None}]
        BY RowTypes, AdvancedType
      <3>3. task' \in TaskMap
        BY <1>1, <2>1, <2>4, <3>1 DEF Describe, TypeOK
      <3>4. vector' \in VectorMap
        <4>1. PICK rows \in [Generation -> Vectors \cup {None}] :
                 rows = [g \in Generation |-> Advanced(vector[c][g], version)]
          BY <3>2
        <4>2. vector' = [vector EXCEPT ![c] = rows]
          BY <1>1, <2>1, <2>4, <4>1 DEF Describe, TypeOK
        <4> QED
          BY <4>2 DEF TypeOK
      <3> QED
        BY <1>1, <2>2, <3>3, <3>4 DEF Describe, TypeOK
    <2> QED
      BY <2>3, <2>4
  <1>2. ASSUME NEW c \in Context, Delete(c) PROVE TypeOK'
    BY <1>2 DEF Delete, TypeOK
  <1>3. ASSUME NEW g \in Generation, Begin(g) PROVE TypeOK'
    <2>1. ASSUME NEW c \in Context
          PROVE  (IF c \in Described THEN [task[c] EXCEPT ![g] = NewTask(description[c])]
                  ELSE task[c]) \in [Generation -> Tasks \cup {None}]
      BY RowTypes, NewTaskType DEF Described, TypeOK
    <2>2. task' \in TaskMap
      BY <1>3, <2>1 DEF Begin
    <2> QED
      BY <1>3, <2>2 DEF Begin, TypeOK
  <1>4. ASSUME NEW g \in Generation, Activate(g) PROVE TypeOK'
    BY <1>4 DEF Activate, Selected, TypeOK
  <1>5. ASSUME NEW g \in Generation, Rollback(g) PROVE TypeOK'
    <2>1. ASSUME NEW c \in Context
          PROVE  (IF c \in Gaps(g)
                  THEN [task[c] EXCEPT ![g] = Requeued(@, description[c])]
                  ELSE task[c]) \in [Generation -> Tasks \cup {None}]
      BY RowTypes, NewTaskType DEF Gaps, Described, Requeued, TypeOK
    <2>2. task' \in TaskMap
      BY <1>5, <2>1 DEF Rollback
    <2> QED
      BY <1>5, <2>2 DEF Rollback, Selected, TypeOK
  <1>6. ASSUME NEW g \in Generation, WindowEnds(g) PROVE TypeOK'
    BY <1>6 DEF WindowEnds, TypeOK
  <1>7. ASSUME NEW g \in Generation, Prune(g) PROVE TypeOK'
    <2>1. task' \in TaskMap /\ vector' \in VectorMap
      BY <1>7, RowTypes DEF Prune
    <2> QED
      BY <1>7, <2>1 DEF Prune, TypeOK
  <1>8. ASSUME NEW w \in Worker, NEW c \in Context, NEW g \in Generation, Claim(w, c, g)
        PROVE  TypeOK'
    <2>1. task[c][g] \in Tasks /\ task[c][g].attempts < MaxAttempts
      BY <1>8, RowTypes DEF Claim, Claimable
    <2>2. [task[c][g] EXCEPT !.status = "running", !.attempts = @ + 1,
                             !.token = w, !.leased = TRUE] \in Tasks
      <3>1. task[c][g].attempts + 1 \in 0..MaxAttempts
        BY <2>1 DEF Tasks
      <3> QED
        BY <2>1, <3>1, TaskUpdate
    <2>3. task' \in TaskMap
      <3> DEFINE t == [task[c][g] EXCEPT !.status = "running", !.attempts = @ + 1,
                                         !.token = w, !.leased = TRUE]
      <3>1. task' = [task EXCEPT ![c][g] = t]
        BY <1>8 DEF Claim
      <3> HIDE DEF t
      <3> QED
        BY <2>2, <3>1 DEF TypeOK, t
    <2>4. [context |-> c, generation |-> g, text |-> task[c][g].version.text,
           deletion |-> task[c][g].version.deletion] \in Claims
      BY <2>1 DEF Claims, Tasks, Version
    <2>5. claim' \in [Worker -> Claims \cup {None}]
      BY <1>8, <2>4 DEF Claim, TypeOK
    <2> QED
      BY <1>8, <2>3, <2>5 DEF Claim, TypeOK
  <1>9. ASSUME NEW c \in Context, NEW g \in Generation, LeaseExpires(c, g) PROVE TypeOK'
    <2>1. [task[c][g] EXCEPT !.leased = FALSE] \in Tasks
      <3>1. task[c][g] \in Tasks
        BY <1>9, RowTypes DEF LeaseExpires
      <3> QED
        BY <3>1 DEF Tasks
    <2>2. task' \in TaskMap
      BY <1>9, <2>1, RowTypes DEF LeaseExpires, TypeOK
    <2> QED
      BY <1>9, <2>2 DEF LeaseExpires, TypeOK
  <1>10. ASSUME NEW w \in Worker, Embed(w) PROVE TypeOK'
    <2>1. claim[w].context \in Context /\ description[claim[w].context] \in Version
      BY <1>10 DEF Embed, Unchanged, TypeOK, Claims
    <2>2. description[claim[w].context].text \in Text
      BY <2>1 DEF Version
    <2> QED
      BY <1>10, <2>2 DEF Embed, TypeOK
  <1>11. ASSUME NEW w \in Worker, Invalidated(w) PROVE TypeOK'
    BY <1>11 DEF Invalidated, Drop, TypeOK
  <1>12. ASSUME NEW w \in Worker, Publish(w) PROVE TypeOK'
    <2>1. PICK c \in Context, g \in Generation : c = claim[w].context /\ g = claim[w].generation
      BY <1>12 DEF Publish, TypeOK, Claims
    <2>2. computed[w] \in Text
      BY <1>12 DEF Publish, TypeOK
    <2>3. CASE Publishable(w)
      <3>1. [version |-> task[c][g].version, content |-> computed[w]] \in Vectors
        BY <2>1, <2>2, <2>3, RowTypes DEF Publishable, Tasked, Vectors, Tasks
      <3>2. vector' \in VectorMap /\ task' \in TaskMap
        <4> DEFINE v == [version |-> task[c][g].version, content |-> computed[w]]
        <4>1. /\ vector' = [vector EXCEPT ![c][g] = v]
              /\ task' = [task EXCEPT ![c][g] = None]
          BY <1>12, <2>1, <2>3 DEF Publish
        <4> HIDE DEF v
        <4> QED
          BY <3>1, <4>1 DEF TypeOK, v
      <3> QED
        BY <1>12, <3>2 DEF Publish, Drop, TypeOK
    <2>4. CASE ~Publishable(w)
      BY <1>12, <2>4 DEF Publish, Drop, TypeOK
    <2> QED
      BY <2>3, <2>4
  <1>13. ASSUME NEW w \in Worker, Fail(w) PROVE TypeOK'
    <2>1. PICK c \in Context, g \in Generation : c = claim[w].context /\ g = claim[w].generation
      BY <1>13 DEF Fail, TypeOK, Claims
    <2>2. task' \in TaskMap
      <3>1. CASE Owns(w)
        <4>1. [task[c][g] EXCEPT !.status = "failed", !.token = None, !.leased = FALSE] \in Tasks
          BY <2>1, <3>1, RowTypes, TaskReleased DEF Owns
        <4> QED
          BY <1>13, <2>1, <3>1, <4>1, RowTypes DEF Fail, TypeOK
      <3>2. CASE ~Owns(w)
        BY <1>13, <3>2 DEF Fail, TypeOK
      <3> QED
        BY <3>1, <3>2
    <2> QED
      BY <1>13, <2>2 DEF Fail, Drop, TypeOK
  <1>14. ASSUME NEW w \in Worker, Crash(w) PROVE TypeOK'
    BY <1>14 DEF Crash, Drop, TypeOK
  <1>15. CASE UNCHANGED vars
    BY <1>15 DEF vars, TypeOK
  <1> QED
    BY <1>1, <1>2, <1>3, <1>4, <1>5, <1>6, <1>7, <1>8, <1>9, <1>10, <1>11, <1>12,
       <1>13, <1>14, <1>15 DEF Next

-----------------------------------------------------------------------------
(* Rows, one by one.                                                       *)

\* What VectorsSound says of the vector and of the task of one pair.
RowsSound(c, g) ==
    /\ vector[c][g] # None =>
         /\ vector[c][g].content = vector[c][g].version.text
         /\ description[c] # None
         /\ vector[c][g].version.deletion = deletions[c]
    /\ task[c][g] # None =>
         /\ description[c] # None
         /\ task[c][g].version.deletion = deletions[c]

LEMMA RowByRow == VectorsSound <=> \A c \in Context, g \in Generation : RowsSound(c, g)
  BY DEF VectorsSound, RowsSound

\* What NoGap says of one pair.
Covered(c, g) ==
    description[c] # None /\ status[g] \in {"building", "active"} => Current(c, g) \/ Tasked(c, g)

LEMMA CoveredByPair == NoGap <=> \A c \in Context, g \in Generation : Covered(c, g)
  BY DEF NoGap, Covered, Described, Maintained

\* A row that follows a confirmed description keeps its text, its deletion
\* generation, its content and its token.
LEMMA AdvancedTask ==
    ASSUME NEW version \in Version, NEW row \in Tasks
    PROVE  /\ Advanced(row, version) \in Tasks
           /\ Advanced(row, version).version.text = row.version.text
           /\ Advanced(row, version).version.deletion = row.version.deletion
           /\ Advanced(row, version).token = row.token
           /\ (row.version.text = version.text /\ row.version.deletion = version.deletion)
                => Advanced(row, version).version = version
  BY Records DEF Advanced, Tasks

LEMMA AdvancedVector ==
    ASSUME NEW version \in Version, NEW row \in Vectors
    PROVE  /\ Advanced(row, version) \in Vectors
           /\ Advanced(row, version).version.text = row.version.text
           /\ Advanced(row, version).version.deletion = row.version.deletion
           /\ Advanced(row, version).content = row.content
           /\ (row.version.text = version.text /\ row.version.deletion = version.deletion)
                => Advanced(row, version).version = version
  BY Records DEF Advanced, Vectors

LEMMA AdvancedNone ==
    ASSUME NEW version \in Version
    PROVE  Advanced(None, version) = None
  BY DEF Advanced

\* The present rows, and what they belong to.
LEMMA Rows ==
    ASSUME TypeOK, NEW c \in Context, NEW g \in Generation
    PROVE  /\ task[c][g] # None => task[c][g] \in Tasks
           /\ vector[c][g] # None => vector[c][g] \in Vectors
           /\ description[c] # None => description[c] \in Version
  BY RowTypes DEF TypeOK

-----------------------------------------------------------------------------
(* Descriptions and workers.                                               *)

LEMMA NextDescriptionCurrent ==
    TypeOK /\ DescriptionCurrent /\ [Next]_vars => DescriptionCurrent'
  <1> SUFFICES ASSUME TypeOK, DescriptionCurrent, [Next]_vars PROVE DescriptionCurrent'
    OBVIOUS
  <1>1. ASSUME NEW c \in Context, NEW text \in Text, Describe(c, text)
        PROVE  DescriptionCurrent'
    <2>1. PICK version \in Version : version = NextVersion(c, text)
      BY NextVersionType
    <2>2. version.deletion = deletions[c]
      BY <2>1 DEF NextVersion
    <2>3. description' = [description EXCEPT ![c] = version] /\ deletions' = deletions
      BY <1>1, <2>1 DEF Describe
    <2> QED
      BY <2>2, <2>3 DEF DescriptionCurrent, Described, TypeOK
  <1>2. ASSUME NEW c \in Context, Delete(c) PROVE DescriptionCurrent'
    BY <1>2 DEF Delete, DescriptionCurrent, Described, TypeOK
  <1>3. CASE UNCHANGED <<description, deletions>>
    BY <1>3 DEF DescriptionCurrent, Described
  <1> QED
    BY <1>1, <1>2, <1>3 DEF Next, vars, Begin, Activate, Rollback, WindowEnds, Prune, Claim,
       LeaseExpires, Embed, Invalidated, Publish, Fail, Crash

\* Between a claim and its end a worker keeps what it claimed.
LEMMA NextComputedClaimed ==
    TypeOK /\ ComputedClaimed /\ [Next]_vars => ComputedClaimed'
  <1> SUFFICES ASSUME TypeOK, ComputedClaimed, [Next]_vars PROVE ComputedClaimed'
    OBVIOUS
  <1> USE DEF ComputedClaimed
  <1>1. ASSUME NEW w \in Worker, NEW c \in Context, NEW g \in Generation, Claim(w, c, g)
        PROVE  ComputedClaimed'
    <2>1. \A v \in Worker : computed'[v] # None => v # w
      BY <1>1 DEF Claim
    <2> QED
      BY <1>1, <2>1 DEF Claim, TypeOK
  <1>2. ASSUME NEW w \in Worker, Embed(w) PROVE ComputedClaimed'
    BY <1>2 DEF Embed, Unchanged, TypeOK
  <1>3. ASSUME NEW w \in Worker, Drop(w) PROVE ComputedClaimed'
    BY <1>3 DEF Drop, TypeOK
  <1>4. CASE UNCHANGED workerVars
    BY <1>4 DEF workerVars
  <1> QED
    BY <1>1, <1>2, <1>3, <1>4 DEF Next, vars, Describe, Delete, Begin, Activate, Rollback,
       WindowEnds, Prune, LeaseExpires, Invalidated, Publish, Fail, Crash

-----------------------------------------------------------------------------
(* Claims.                                                                 *)

\* Whoever carries a task's token after a step has just claimed its text, or
\* carried it before and the task still asks for the same text.
StillCarries(w, c, g) ==
    /\ claim'[w] = claim[w]
    /\ Carries(w, c, g)
    /\ task'[c][g].version.text = task[c][g].version.text

TokenStep ==
    \A w \in Worker, c \in Context, g \in Generation :
        Carries(w, c, g)' =>
            \/ StillCarries(w, c, g)
            \/ task'[c][g].version.text = claim'[w].text

LEMMA TokenStepSound == TokenSound /\ TokenStep => TokenSound'
  BY DEF TokenSound, TokenStep, StillCarries

\* A new task carries no token.
LEMMA NewTaskFree ==
    ASSUME NEW version \in Version
    PROVE  /\ NewTask(version) \in Tasks
           /\ NewTask(version) # None
           /\ NewTask(version).version = version
           /\ NewTask(version).token = None
           /\ NewTask(version).token \notin Worker
  BY NewTaskType, Records, EmbeddingAssumption DEF NewTask

LEMMA NextTokenStep ==
    ASSUME TypeOK, [Next]_vars PROVE TokenStep
  <1> USE DEF TokenStep, StillCarries, Carries
  <1>1. ASSUME NEW d \in Context, NEW text \in Text, Describe(d, text) PROVE TokenStep
    <2>1. PICK version \in Version : version = NextVersion(d, text)
      BY NextVersionType
    <2>2. claim' = claim
      BY <1>1 DEF Describe, workerVars
    <2>3. ASSUME NEW w \in Worker, NEW c \in Context, NEW g \in Generation, Carries(w, c, g)'
          PROVE  StillCarries(w, c, g)
      <3>1. CASE c # d
        <4>1. task'[c] = task[c]
          BY <1>1, <3>1 DEF Describe, TypeOK
        <4> QED
          BY <2>2, <2>3, <4>1
      <3>2. CASE c = d /\ Changed(d, text)
        <4>1. task'[c][g] = IF g \in Maintained THEN NewTask(version) ELSE task[c][g]
          BY <1>1, <2>1, <3>2 DEF Describe, TypeOK, Requeued
        <4> QED
          BY <2>2, <2>3, <4>1, NewTaskFree
      <3>3. CASE c = d /\ ~Changed(d, text)
        <4>1. task'[c][g] = Advanced(task[c][g], version)
          BY <1>1, <2>1, <3>3 DEF Describe, TypeOK
        <4>2. task[c][g] \in Tasks
          BY <2>3, <4>1, AdvancedNone, Rows
        <4> QED
          BY <2>2, <2>3, <4>1, <4>2, AdvancedTask, Records
      <3> QED
        BY <3>1, <3>2, <3>3
    <2> QED
      BY <2>3
  <1>2. ASSUME NEW d \in Context, Delete(d) PROVE TokenStep
    BY <1>2 DEF Delete, TypeOK, workerVars
  <1>3. ASSUME NEW h \in Generation, Begin(h) PROVE TokenStep
    <2>1. ASSUME NEW c \in Context, NEW g \in Generation
          PROVE  \/ task'[c][g] = task[c][g]
                 \/ c \in Described /\ task'[c][g] = NewTask(description[c])
      BY <1>3, RowTypes DEF Begin
    <2>2. \A c \in Described : description[c] \in Version
      BY Rows DEF Described
    <2> QED
      BY <1>3, <2>1, <2>2, NewTaskFree DEF Begin, workerVars
  <1>4. ASSUME NEW h \in Generation, Rollback(h) PROVE TokenStep
    <2>1. ASSUME NEW c \in Context, NEW g \in Generation
          PROVE  \/ task'[c][g] = task[c][g]
                 \/ c \in Described /\ task'[c][g] = NewTask(description[c])
      BY <1>4, RowTypes DEF Rollback, Gaps, Requeued
    <2>2. \A c \in Described : description[c] \in Version
      BY Rows DEF Described
    <2> QED
      BY <1>4, <2>1, <2>2, NewTaskFree DEF Rollback, workerVars
  <1>5. ASSUME NEW h \in Generation, Prune(h) PROVE TokenStep
    <2>1. \A c \in Context, g \in Generation : task'[c][g] = task[c][g] \/ task'[c][g] = None
      BY <1>5, RowTypes DEF Prune
    <2> QED
      BY <1>5, <2>1 DEF Prune, workerVars
  <1>6. ASSUME NEW v \in Worker, NEW d \in Context, NEW h \in Generation, Claim(v, d, h)
        PROVE  TokenStep
    <2>1. PICK t : t = [task[d][h] EXCEPT !.status = "running", !.attempts = @ + 1,
                                          !.token = v, !.leased = TRUE]
      OBVIOUS
    <2>2. task[d][h] \in Tasks
      BY <1>6, Rows DEF Claim
    <2>3. t.token = v /\ t.version = task[d][h].version
      BY <2>1, <2>2 DEF Tasks
    <2>4. task' = [task EXCEPT ![d][h] = t]
      BY <1>6, <2>1 DEF Claim
    <2>5. claim' = [claim EXCEPT ![v] =
                       [context |-> d, generation |-> h, text |-> task[d][h].version.text,
                        deletion |-> task[d][h].version.deletion]]
      BY <1>6 DEF Claim
    <2>6. ASSUME NEW w \in Worker, NEW c \in Context, NEW g \in Generation, Carries(w, c, g)'
          PROVE  StillCarries(w, c, g) \/ task'[c][g].version.text = claim'[w].text
      <3>1. CASE w = v
        <4>1. c = d /\ g = h /\ claim'[w].text = task[d][h].version.text
          BY <2>5, <2>6, <3>1 DEF TypeOK
        <4>2. task'[c][g] = t
          BY <2>4, <4>1 DEF TypeOK
        <4> QED
          BY <2>3, <4>1, <4>2
      <3>2. CASE w # v
        <4>1. claim'[w] = claim[w]
          BY <2>5, <3>2 DEF TypeOK
        <4>2. c # d \/ g # h
          BY <2>3, <2>4, <2>6, <3>2 DEF TypeOK
        <4>3. task'[c][g] = task[c][g]
          BY <2>4, <4>2 DEF TypeOK
        <4> QED
          BY <2>6, <4>1, <4>3
      <3> QED
        BY <3>1, <3>2
    <2> QED
      BY <2>6
  <1>7. ASSUME NEW d \in Context, NEW h \in Generation, LeaseExpires(d, h) PROVE TokenStep
    <2>1. PICK t : t = [task[d][h] EXCEPT !.leased = FALSE]
      OBVIOUS
    <2>2. task[d][h] \in Tasks /\ t.token = task[d][h].token /\ t.version = task[d][h].version
      BY <1>7, <2>1, Rows DEF LeaseExpires, Tasks
    <2>3. task' = [task EXCEPT ![d][h] = t] /\ claim' = claim
      BY <1>7, <2>1, <2>2, RowTypes DEF LeaseExpires, workerVars, TypeOK
    <2>4. \A c \in Context, g \in Generation :
            task'[c][g] = IF c = d /\ g = h THEN t ELSE task[c][g]
      BY <2>3, RowTypes DEF TypeOK
    <2> QED
      BY <1>7, <2>2, <2>3, <2>4 DEF LeaseExpires
  <1>8. ASSUME NEW v \in Worker, Publish(v) PROVE TokenStep
    <2>1. PICK d \in Context, h \in Generation : d = claim[v].context /\ h = claim[v].generation
      BY <1>8 DEF Publish, TypeOK, Claims
    <2>2. task' = [task EXCEPT ![d][h] = None] \/ task' = task
      BY <1>8, <2>1 DEF Publish
    <2>3. ASSUME NEW c \in Context, NEW g \in Generation
          PROVE  task'[c][g] = task[c][g] \/ task'[c][g] = None
      <3>1. CASE task' = task
        BY <3>1
      <3>2. CASE task' = [task EXCEPT ![d][h] = None]
        BY <3>2 DEF TypeOK
      <3> QED
        BY <2>2, <3>1, <3>2
    <2>4. \A w \in Worker : claim'[w] = claim[w] \/ claim'[w] = None
      BY <1>8 DEF Publish, Drop, TypeOK
    <2> QED
      BY <2>3, <2>4
  <1>9. ASSUME NEW v \in Worker, Fail(v) PROVE TokenStep
    <2>1. PICK d \in Context, h \in Generation : d = claim[v].context /\ h = claim[v].generation
      BY <1>9 DEF Fail, TypeOK, Claims
    <2>2. CASE Owns(v)
      <3>1. PICK t : t = [task[d][h] EXCEPT !.status = "failed", !.token = None, !.leased = FALSE]
        OBVIOUS
      <3>2. task[d][h] \in Tasks
        BY <2>1, <2>2, Rows DEF Owns
      <3>3. t.token \notin Worker
        BY <3>1, <3>2, EmbeddingAssumption DEF Tasks
      <3>4. task' = [task EXCEPT ![d][h] = t]
        BY <1>9, <2>1, <2>2, <3>1 DEF Fail
      <3>5. \A c \in Context, g \in Generation : task'[c][g] = task[c][g] \/ task'[c][g] = t
        BY <3>4, RowTypes DEF TypeOK
      <3>6. \A w \in Worker : claim'[w] = claim[w] \/ claim'[w] = None
        BY <1>9 DEF Fail, Drop, TypeOK
      <3> QED
        BY <3>3, <3>5, <3>6
    <2>3. CASE ~Owns(v)
      BY <1>9, <2>3 DEF Fail, Drop, TypeOK
    <2> QED
      BY <2>2, <2>3
  <1>10. ASSUME NEW v \in Worker, Drop(v), task' = task PROVE TokenStep
    BY <1>10 DEF Drop, TypeOK
  <1>11. CASE UNCHANGED <<task, claim>>
    BY <1>11
  <1> QED
    BY <1>1, <1>2, <1>3, <1>4, <1>5, <1>6, <1>7, <1>8, <1>9, <1>10, <1>11
    DEF Next, vars, workerVars, Activate, WindowEnds, Embed, Invalidated, Crash

-----------------------------------------------------------------------------
(* Vectors and tasks belong to the present description.                    *)

LEMMA NextVectorsSound ==
    ASSUME TypeOK, DescriptionCurrent, ComputedClaimed, TokenSound, VectorsSound, [Next]_vars
    PROVE  VectorsSound'
  <1>a. \A c \in Context, g \in Generation : RowsSound(c, g)
    BY RowByRow
  <1>b. (\A c \in Context, g \in Generation : RowsSound(c, g))' => VectorsSound'
    BY RowByRow, PTL
  <1>1. ASSUME NEW d \in Context, NEW text \in Text, Describe(d, text),
               NEW c \in Context, NEW g \in Generation
        PROVE  RowsSound(c, g)'
    <2>1. PICK version \in Version : version = NextVersion(d, text)
      BY NextVersionType
    <2>2. /\ description' = [description EXCEPT ![d] = version]
          /\ deletions' = deletions
          /\ version.deletion = deletions[d]
      BY <1>1, <2>1 DEF Describe, NextVersion
    <2>3. CASE c # d
      <3>1. task'[c] = task[c] /\ vector'[c] = vector[c] /\ description'[c] = description[c]
        BY <1>1, <2>2, <2>3 DEF Describe, TypeOK
      <3> QED
        BY <1>a, <2>2, <3>1 DEF RowsSound
    <2>4. CASE c = d /\ Changed(d, text)
      <3>1. task'[c][g] = IF g \in Maintained THEN NewTask(version) ELSE task[c][g]
        BY <1>1, <2>1, <2>4 DEF Describe, TypeOK, Requeued
      <3>2. vector' = vector /\ description'[c] # None
        BY <1>1, <2>2, <2>4, Records DEF Describe, TypeOK
      <3> QED
        BY <1>a, <2>2, <2>4, <3>1, <3>2, NewTaskFree DEF RowsSound
    <2>5. CASE c = d /\ ~Changed(d, text)
      <3>1. /\ task'[c][g] = Advanced(task[c][g], version)
            /\ vector'[c][g] = Advanced(vector[c][g], version)
        BY <1>1, <2>1, <2>5 DEF Describe, TypeOK
      <3>2. description'[c] # None
        BY <2>2, <2>5, Records DEF TypeOK
      <3>3. task[c][g] # None => task[c][g].version.deletion = deletions[c]
        BY <1>a DEF RowsSound
      <3>4. task'[c][g] # None => task'[c][g].version.deletion = deletions[c]
        BY <3>1, <3>3, AdvancedTask, AdvancedNone, Rows
      <3>5. vector[c][g] # None => /\ vector[c][g].version.deletion = deletions[c]
                                   /\ vector[c][g].content = vector[c][g].version.text
        BY <1>a DEF RowsSound
      <3>6. vector'[c][g] # None => /\ vector'[c][g].version.deletion = deletions[c]
                                    /\ vector'[c][g].content = vector'[c][g].version.text
        BY <3>1, <3>5, AdvancedVector, AdvancedNone, Rows
      <3> QED
        BY <2>2, <3>2, <3>4, <3>6 DEF RowsSound
    <2> QED
      BY <2>3, <2>4, <2>5
  <1>2. ASSUME NEW d \in Context, Delete(d), NEW c \in Context, NEW g \in Generation
        PROVE  RowsSound(c, g)'
    <2>1. CASE c = d
      <3>1. task'[c][g] = None /\ vector'[c][g] = None
        BY <1>2, <2>1 DEF Delete, TypeOK
      <3> QED
        BY <3>1 DEF RowsSound
    <2>2. CASE c # d
      <3>1. /\ task'[c] = task[c] /\ vector'[c] = vector[c]
            /\ description'[c] = description[c] /\ deletions'[c] = deletions[c]
        BY <1>2, <2>2 DEF Delete, TypeOK
      <3> QED
        BY <1>a, <3>1 DEF RowsSound
    <2> QED
      BY <2>1, <2>2
  <1>3. ASSUME UNCHANGED <<description, deletions, vector>>,
               NEW c \in Context, NEW g \in Generation,
               \/ task'[c][g] = task[c][g]
               \/ task'[c][g] = None
               \/ /\ task[c][g] # None
                  /\ task'[c][g].version = task[c][g].version
               \/ c \in Described /\ task'[c][g] = NewTask(description[c])
        PROVE  RowsSound(c, g)'
    <2>1. RowsSound(c, g)
      BY <1>a
    <2>2. CASE c \in Described /\ task'[c][g] = NewTask(description[c])
      <3>1. description[c] \in Version /\ description[c].deletion = deletions[c]
        BY <2>2, Rows DEF Described, DescriptionCurrent
      <3> QED
        BY <1>3, <2>1, <2>2, <3>1, NewTaskFree DEF RowsSound, Described
    <2> QED
      BY <1>3, <2>1, <2>2 DEF RowsSound
  <1>4. ASSUME NEW h \in Generation, Begin(h), NEW c \in Context, NEW g \in Generation
        PROVE  RowsSound(c, g)'
    <2>1. \/ task'[c][g] = task[c][g]
          \/ c \in Described /\ task'[c][g] = NewTask(description[c])
      BY <1>4, RowTypes DEF Begin
    <2> QED
      BY <1>3, <1>4, <2>1 DEF Begin
  <1>5. ASSUME NEW h \in Generation, Rollback(h), NEW c \in Context, NEW g \in Generation
        PROVE  RowsSound(c, g)'
    <2>1. \/ task'[c][g] = task[c][g]
          \/ c \in Described /\ task'[c][g] = NewTask(description[c])
      BY <1>5, RowTypes DEF Rollback, Gaps, Requeued
    <2> QED
      BY <1>3, <1>5, <2>1 DEF Rollback
  <1>6. ASSUME NEW h \in Generation, Prune(h), NEW c \in Context, NEW g \in Generation
        PROVE  RowsSound(c, g)'
    <2>1. /\ task'[c][g] = task[c][g] \/ task'[c][g] = None
          /\ vector'[c][g] = vector[c][g] \/ vector'[c][g] = None
      BY <1>6, RowTypes DEF Prune
    <2> QED
      BY <1>6, <1>a, <2>1 DEF Prune, RowsSound
  <1>7. ASSUME NEW v \in Worker, NEW d \in Context, NEW h \in Generation, Claim(v, d, h),
               NEW c \in Context, NEW g \in Generation
        PROVE  RowsSound(c, g)'
    <2>1. PICK t : t = [task[d][h] EXCEPT !.status = "running", !.attempts = @ + 1,
                                          !.token = v, !.leased = TRUE]
      OBVIOUS
    <2>2. task[d][h] \in Tasks /\ task[d][h] # None
      BY <1>7, Rows DEF Claim
    <2>3. t.version = task[d][h].version
      BY <2>1, <2>2 DEF Tasks
    <2>4. task' = [task EXCEPT ![d][h] = t]
      BY <1>7, <2>1 DEF Claim
    <2>5. task'[c][g] = IF c = d /\ g = h THEN t ELSE task[c][g]
      BY <2>4 DEF TypeOK
    <2> QED
      BY <1>3, <1>7, <2>2, <2>3, <2>5 DEF Claim
  <1>8. ASSUME NEW d \in Context, NEW h \in Generation, LeaseExpires(d, h),
               NEW c \in Context, NEW g \in Generation
        PROVE  RowsSound(c, g)'
    <2>1. PICK t : t = [task[d][h] EXCEPT !.leased = FALSE]
      OBVIOUS
    <2>2. task[d][h] \in Tasks /\ t.version = task[d][h].version
      BY <1>8, <2>1, Rows DEF LeaseExpires, Tasks
    <2>3. task' = [task EXCEPT ![d][h] = t]
      BY <1>8, <2>1, <2>2, RowTypes DEF LeaseExpires, TypeOK
    <2>4. task'[c][g] = IF c = d /\ g = h THEN t ELSE task[c][g]
      BY <2>3 DEF TypeOK
    <2> QED
      BY <1>3, <1>8, <2>2, <2>4 DEF LeaseExpires
  <1>9. ASSUME NEW v \in Worker, Publish(v), NEW c \in Context, NEW g \in Generation
        PROVE  RowsSound(c, g)'
    <2>1. PICK d \in Context, h \in Generation : d = claim[v].context /\ h = claim[v].generation
      BY <1>9 DEF Publish, TypeOK, Claims
    <2>2. CASE Publishable(v)
      <3>1. PICK x : x = [version |-> task[d][h].version, content |-> computed[v]]
        OBVIOUS
      <3>2. vector' = [vector EXCEPT ![d][h] = x] /\ task' = [task EXCEPT ![d][h] = None]
        BY <1>9, <2>1, <2>2, <3>1 DEF Publish
      <3>3. /\ vector'[c][g] = IF c = d /\ g = h THEN x ELSE vector[c][g]
            /\ task'[c][g] = IF c = d /\ g = h THEN None ELSE task[c][g]
        BY <3>2 DEF TypeOK
      <3>4. task[d][h] # None /\ Carries(v, d, h)
        BY <1>9, <2>1, <2>2 DEF Publishable, Owns, Carries, Publish
      <3>5. computed[v] = task[d][h].version.text
        BY <1>9, <3>4 DEF Publish, ComputedClaimed, TokenSound
      <3>6. RowsSound(d, h) /\ RowsSound(c, g)
        BY <1>a
      <3> QED
        BY <1>9, <3>1, <3>3, <3>4, <3>5, <3>6 DEF RowsSound, Publish
    <2>3. CASE ~Publishable(v)
      BY <1>9, <1>a, <2>3 DEF Publish, RowsSound
    <2> QED
      BY <2>2, <2>3
  <1>10. ASSUME NEW v \in Worker, Fail(v), NEW c \in Context, NEW g \in Generation
         PROVE  RowsSound(c, g)'
    <2>1. PICK d \in Context, h \in Generation : d = claim[v].context /\ h = claim[v].generation
      BY <1>10 DEF Fail, TypeOK, Claims
    <2>2. CASE Owns(v)
      <3>1. PICK t : t = [task[d][h] EXCEPT !.status = "failed", !.token = None, !.leased = FALSE]
        OBVIOUS
      <3>2. task[d][h] \in Tasks /\ task[d][h] # None
        BY <2>1, <2>2, Rows DEF Owns
      <3>3. t.version = task[d][h].version
        BY <3>1, <3>2 DEF Tasks
      <3>4. task' = [task EXCEPT ![d][h] = t]
        BY <1>10, <2>1, <2>2, <3>1 DEF Fail
      <3>5. task'[c][g] = IF c = d /\ g = h THEN t ELSE task[c][g]
        BY <3>4 DEF TypeOK
      <3> QED
        BY <1>3, <1>10, <3>2, <3>3, <3>5 DEF Fail
    <2>3. CASE ~Owns(v)
      BY <1>3, <1>10, <2>3 DEF Fail
    <2> QED
      BY <2>2, <2>3
  <1>11. ASSUME UNCHANGED <<description, deletions, vector, task>>,
                NEW c \in Context, NEW g \in Generation
         PROVE  RowsSound(c, g)'
    BY <1>3, <1>11
  <1>12. \A c \in Context, g \in Generation : RowsSound(c, g)'
    BY <1>1, <1>2, <1>4, <1>5, <1>6, <1>7, <1>8, <1>9, <1>10, <1>11
    DEF Next, vars, Activate, WindowEnds, Embed, Invalidated, Crash
  <1> QED
    BY <1>b, <1>12

-----------------------------------------------------------------------------
(* No description is forgotten.                                            *)

LEMMA NextNoGap ==
    ASSUME TypeOK, DescriptionCurrent, NoGap, [Next]_vars
    PROVE  NoGap'
  <1>a. \A c \in Context, g \in Generation : Covered(c, g)
    BY CoveredByPair
  <1>b. (\A c \in Context, g \in Generation : Covered(c, g))' => NoGap'
    BY CoveredByPair, PTL
  <1> USE DEF Covered, Current, Tasked
  <1>1. ASSUME NEW d \in Context, NEW text \in Text, Describe(d, text),
               NEW c \in Context, NEW g \in Generation
        PROVE  Covered(c, g)'
    <2>1. PICK version \in Version : version = NextVersion(d, text)
      BY NextVersionType
    <2>2. /\ description' = [description EXCEPT ![d] = version]
          /\ status' = status
          /\ version.text = text /\ version.deletion = deletions[d]
      BY <1>1, <2>1 DEF Describe, NextVersion, generationVars
    <2>3. CASE c # d
      <3>1. task'[c] = task[c] /\ vector'[c] = vector[c] /\ description'[c] = description[c]
        BY <1>1, <2>2, <2>3 DEF Describe, TypeOK
      <3> QED
        BY <1>a, <2>2, <3>1
    <2>4. CASE c = d /\ Changed(d, text)
      <3>1. task'[c][g] = IF g \in Maintained THEN NewTask(version) ELSE task[c][g]
        BY <1>1, <2>1, <2>4 DEF Describe, TypeOK, Requeued
      <3>2. description'[c] = version
        BY <2>2, <2>4 DEF TypeOK
      <3> QED
        BY <2>2, <3>1, <3>2, NewTaskFree DEF Maintained
    <2>5. CASE c = d /\ ~Changed(d, text)
      <3>1. /\ task'[c][g] = Advanced(task[c][g], version)
            /\ vector'[c][g] = Advanced(vector[c][g], version)
        BY <1>1, <2>1, <2>5 DEF Describe, TypeOK
      <3>2. description[c] # None /\ description[c].text = version.text
                                  /\ description[c].deletion = version.deletion
        BY <2>2, <2>5 DEF Changed, DescriptionCurrent, Described
      <3>3. description'[c] = version
        BY <2>2, <2>5 DEF TypeOK
      <3>4. CASE Current(c, g)
        BY <3>1, <3>2, <3>3, <3>4, AdvancedVector, Rows, Records
      <3>5. CASE Tasked(c, g)
        BY <3>1, <3>2, <3>3, <3>5, AdvancedTask, Rows, Records
      <3>6. CASE status[g] \notin {"building", "active"}
        BY <2>2, <3>6
      <3> QED
        BY <1>a, <3>2, <3>4, <3>5, <3>6
    <2> QED
      BY <2>3, <2>4, <2>5
  <1>2. ASSUME NEW d \in Context, Delete(d), NEW c \in Context, NEW g \in Generation
        PROVE  Covered(c, g)'
    <2>1. CASE c = d
      BY <1>2, <2>1 DEF Delete, TypeOK
    <2>2. CASE c # d
      <3>1. task'[c] = task[c] /\ vector'[c] = vector[c] /\ description'[c] = description[c]
        BY <1>2, <2>2 DEF Delete, TypeOK
      <3> QED
        BY <1>2, <1>a, <3>1 DEF Delete, generationVars
    <2> QED
      BY <2>1, <2>2
  <1>3. ASSUME NEW h \in Generation, Begin(h), NEW c \in Context, NEW g \in Generation
        PROVE  Covered(c, g)'
    <2>1. CASE g = h
      <3>1. description[c] # None => task'[c][g] = NewTask(description[c])
        BY <1>3, <2>1, RowTypes DEF Begin, Described
      <3> QED
        BY <1>3, <3>1, NewTaskFree, Rows DEF Begin
    <2>2. CASE g # h
      <3>1. task'[c][g] = task[c][g] /\ status'[g] = status[g]
        BY <1>3, <2>2, RowTypes DEF Begin, TypeOK
      <3> QED
        BY <1>3, <1>a, <3>1 DEF Begin
    <2> QED
      BY <2>1, <2>2
  <1>4. ASSUME NEW h \in Generation, Activate(h), NEW c \in Context, NEW g \in Generation
        PROVE  Covered(c, g)'
    <2>1. status'[g] \in {"building", "active"} => status[g] \in {"building", "active"}
      BY <1>4 DEF Activate, Selected, TypeOK
    <2> QED
      BY <1>4, <1>a, <2>1 DEF Activate
  <1>5. ASSUME NEW h \in Generation, Rollback(h), NEW c \in Context, NEW g \in Generation
        PROVE  Covered(c, g)'
    <2>1. CASE g = h
      <3>1. description[c] # None /\ ~Current(c, g) => task'[c][g] = NewTask(description[c])
        BY <1>5, <2>1, RowTypes DEF Rollback, Gaps, Described, Requeued
      <3> QED
        BY <1>5, <3>1, NewTaskFree, Rows DEF Rollback
    <2>2. CASE g # h
      <3>1. task'[c][g] = task[c][g]
        BY <1>5, <2>2, RowTypes DEF Rollback
      <3>2. status'[g] \in {"building", "active"} => status[g] \in {"building", "active"}
        BY <1>5, <2>2 DEF Rollback, Selected, TypeOK
      <3> QED
        BY <1>5, <1>a, <3>1, <3>2 DEF Rollback
    <2> QED
      BY <2>1, <2>2
  <1>6. ASSUME NEW h \in Generation, Prune(h), NEW c \in Context, NEW g \in Generation
        PROVE  Covered(c, g)'
    <2>1. CASE g = h
      BY <1>6, <2>1 DEF Prune, TypeOK
    <2>2. CASE g # h
      <3>1. task'[c][g] = task[c][g] /\ vector'[c][g] = vector[c][g] /\ status'[g] = status[g]
        BY <1>6, <2>2, RowTypes DEF Prune, TypeOK
      <3> QED
        BY <1>6, <1>a, <3>1 DEF Prune
    <2> QED
      BY <2>1, <2>2
  <1>7. ASSUME UNCHANGED <<description, status, vector>>, NEW c \in Context, NEW g \in Generation,
               task[c][g] # None => task'[c][g] # None /\ task'[c][g].version = task[c][g].version
        PROVE  Covered(c, g)'
    BY <1>7, <1>a
  <1>8. ASSUME NEW v \in Worker, NEW d \in Context, NEW h \in Generation, Claim(v, d, h),
               NEW c \in Context, NEW g \in Generation
        PROVE  Covered(c, g)'
    <2>1. PICK t : t = [task[d][h] EXCEPT !.status = "running", !.attempts = @ + 1,
                                          !.token = v, !.leased = TRUE]
      OBVIOUS
    <2>2. task[d][h] \in Tasks /\ task[d][h].attempts + 1 \in 0..MaxAttempts
      BY <1>8, Rows, EmbeddingAssumption DEF Claim, Claimable, Tasks
    <2>3. t.version = task[d][h].version
      BY <2>1, <2>2 DEF Tasks
    <2>4. t \in Tasks
      BY <2>1, <2>2, TaskUpdate
    <2>5. task' = [task EXCEPT ![d][h] = t]
      BY <1>8, <2>1 DEF Claim
    <2>6. task'[c][g] = IF c = d /\ g = h THEN t ELSE task[c][g]
      BY <2>5 DEF TypeOK
    <2> QED
      BY <1>7, <1>8, <2>3, <2>4, <2>6, Records DEF Claim, generationVars
  <1>9. ASSUME NEW d \in Context, NEW h \in Generation, LeaseExpires(d, h),
               NEW c \in Context, NEW g \in Generation
        PROVE  Covered(c, g)'
    <2>1. PICK t : t = [task[d][h] EXCEPT !.leased = FALSE]
      OBVIOUS
    <2>2. t \in Tasks /\ t.version = task[d][h].version
      BY <1>9, <2>1, Rows DEF LeaseExpires, Tasks
    <2>3. task' = [task EXCEPT ![d][h] = t]
      BY <1>9, <2>1, <2>2, RowTypes DEF LeaseExpires, TypeOK
    <2>4. task'[c][g] = IF c = d /\ g = h THEN t ELSE task[c][g]
      BY <2>3 DEF TypeOK
    <2>5. task[c][g] # None => task'[c][g] # None /\ task'[c][g].version = task[c][g].version
      BY <2>2, <2>4, Records
    <2>6. UNCHANGED <<description, status, vector>>
      BY <1>9 DEF LeaseExpires, generationVars
    <2> QED
      BY <1>7, <2>5, <2>6
  <1>10. ASSUME NEW v \in Worker, Publish(v), NEW c \in Context, NEW g \in Generation
         PROVE  Covered(c, g)'
    <2>1. PICK d \in Context, h \in Generation : d = claim[v].context /\ h = claim[v].generation
      BY <1>10 DEF Publish, TypeOK, Claims
    <2>2. CASE Publishable(v)
      <3>1. PICK x : x = [version |-> task[d][h].version, content |-> computed[v]]
        OBVIOUS
      <3>2. vector' = [vector EXCEPT ![d][h] = x] /\ task' = [task EXCEPT ![d][h] = None]
        BY <1>10, <2>1, <2>2, <3>1 DEF Publish
      <3>3. /\ vector'[c][g] = IF c = d /\ g = h THEN x ELSE vector[c][g]
            /\ task'[c][g] = IF c = d /\ g = h THEN None ELSE task[c][g]
        BY <3>2 DEF TypeOK
      <3>4. task[d][h] \in Tasks /\ computed[v] \in Text
        BY <1>10, <2>1, <2>2, Rows DEF Publishable, Publish, TypeOK
      <3>5. x \in Vectors /\ x.version = description[d]
        BY <2>1, <2>2, <3>1, <3>4 DEF Publishable, Vectors, Tasks
      <3> QED
        BY <1>10, <1>a, <3>3, <3>5, Records DEF Publish, generationVars
    <2>3. CASE ~Publishable(v)
      BY <1>7, <1>10, <2>3 DEF Publish, generationVars
    <2> QED
      BY <2>2, <2>3
  <1>11. ASSUME NEW v \in Worker, Fail(v), NEW c \in Context, NEW g \in Generation
         PROVE  Covered(c, g)'
    <2>1. PICK d \in Context, h \in Generation : d = claim[v].context /\ h = claim[v].generation
      BY <1>11 DEF Fail, TypeOK, Claims
    <2>2. CASE Owns(v)
      <3>1. PICK t : t = [task[d][h] EXCEPT !.status = "failed", !.token = None, !.leased = FALSE]
        OBVIOUS
      <3>2. task[d][h] \in Tasks
        BY <2>1, <2>2, Rows DEF Owns
      <3>3. t \in Tasks
        BY <3>1, <3>2, TaskReleased
      <3>4. t.version = task[d][h].version
        BY <3>1, <3>2 DEF Tasks
      <3>5. task' = [task EXCEPT ![d][h] = t]
        BY <1>11, <2>1, <2>2, <3>1 DEF Fail
      <3>6. task'[c][g] = IF c = d /\ g = h THEN t ELSE task[c][g]
        BY <3>5 DEF TypeOK
      <3>7. task[c][g] # None => task'[c][g] # None /\ task'[c][g].version = task[c][g].version
        BY <3>3, <3>4, <3>6, Records
      <3>8. UNCHANGED <<description, status, vector>>
        BY <1>11 DEF Fail, generationVars
      <3> QED
        BY <1>7, <3>7, <3>8
    <2>3. CASE ~Owns(v)
      BY <1>7, <1>11, <2>3 DEF Fail, generationVars
    <2> QED
      BY <2>2, <2>3
  <1>12. ASSUME UNCHANGED <<description, status, vector, task>>,
                NEW c \in Context, NEW g \in Generation
         PROVE  Covered(c, g)'
    BY <1>7, <1>12
  <1>13. \A c \in Context, g \in Generation : Covered(c, g)'
    BY <1>1, <1>2, <1>3, <1>4, <1>5, <1>6, <1>8, <1>9, <1>10, <1>11, <1>12
    DEF Next, vars, generationVars, WindowEnds, Embed, Invalidated, Crash
  <1> QED
    BY <1>b, <1>13

-----------------------------------------------------------------------------
(* The theorems.                                                           *)

LEMMA InitEmbeddingInv == Init => EmbeddingInv
  <1> SUFFICES ASSUME Init PROVE EmbeddingInv
    OBVIOUS
  <1>1. TypeOK
    BY InitTypeOK
  <1>2. DescriptionCurrent /\ ComputedClaimed /\ TokenSound /\ NoGap
    BY DEF Init, DescriptionCurrent, ComputedClaimed, TokenSound, Carries, NoGap, Described
  <1>3. VectorsSound
    BY RowByRow DEF Init, RowsSound
  <1> QED
    BY <1>1, <1>2, <1>3 DEF EmbeddingInv

LEMMA NextEmbeddingInv == EmbeddingInv /\ [Next]_vars => EmbeddingInv'
  BY NextTypeOK, NextDescriptionCurrent, NextComputedClaimed, NextTokenStep, TokenStepSound,
     NextVectorsSound, NextNoGap DEF EmbeddingInv

\* The inductive invariant holds of every behaviour of the writers and workers
\* of inventory_vectors.go and inventory_embedding_worker.go.
THEOREM EmbeddingInvariant == Spec => []EmbeddingInv
  BY InitEmbeddingInv, NextEmbeddingInv, PTL DEF Spec

\* A vector is stored under the description it was computed from, and rows of a
\* deleted description do not come back (publishInventoryEmbedding).
THEOREM VectorsCorrect == Spec => []VectorsSound
  <1>1. EmbeddingInv => VectorsSound
    BY DEF EmbeddingInv
  <1> QED
    BY <1>1, EmbeddingInvariant, PTL

\* A generation that is built or served has a vector or a task for exactly the
\* present description of every context (updateInventoryContext, rollback).
THEOREM CoverageKept == Spec => []NoGap
  <1>1. EmbeddingInv => NoGap
    BY DEF EmbeddingInv
  <1> QED
    BY <1>1, EmbeddingInvariant, PTL

-----------------------------------------------------------------------------
(* A search beside the writers.                                            *)

\* A vector of the served generation stays current as long as the content of its
\* description does.
LEMMA HitKept ==
    ASSUME TypeOK, DescriptionCurrent, [Next]_vars,
           NEW c \in Context, NEW g \in Generation,
           status[g] = "active", Current(c, g), description[c] # None,
           description'[c] # None,
           description'[c].text = description[c].text,
           description'[c].deletion = description[c].deletion
    PROVE  Current(c, g)'
  <1> USE DEF Current
  <1>1. ASSUME NEW d \in Context, NEW text \in Text, Describe(d, text) PROVE Current(c, g)'
    <2>1. PICK version \in Version : version = NextVersion(d, text)
      BY NextVersionType
    <2>2. description' = [description EXCEPT ![d] = version] /\ version.text = text
      BY <1>1, <2>1 DEF Describe, NextVersion
    <2>3. CASE c # d
      BY <1>1, <2>2, <2>3 DEF Describe, TypeOK
    <2>4. CASE c = d
      <3>1. description'[c] = version
        BY <2>2, <2>4 DEF TypeOK
      <3>2. ~Changed(d, text)
        BY <2>2, <2>4, <3>1 DEF Changed
      <3>3. vector'[c][g] = Advanced(vector[c][g], version)
        BY <1>1, <2>1, <2>4, <3>2 DEF Describe, TypeOK
      <3> QED
        BY <3>1, <3>3, AdvancedVector, Rows, Records
    <2> QED
      BY <2>3, <2>4
  <1>2. ASSUME NEW d \in Context, Delete(d) PROVE Current(c, g)'
    BY <1>2 DEF Delete, TypeOK
  <1>3. ASSUME NEW h \in Generation, Prune(h) PROVE Current(c, g)'
    <2>1. vector'[c][g] = vector[c][g]
      BY <1>3, RowTypes DEF Prune
    <2> QED
      BY <1>3, <2>1 DEF Prune
  <1>4. ASSUME NEW v \in Worker, Publish(v) PROVE Current(c, g)'
    <2>1. PICK d \in Context, h \in Generation : d = claim[v].context /\ h = claim[v].generation
      BY <1>4 DEF Publish, TypeOK, Claims
    <2>2. CASE Publishable(v)
      <3>1. PICK x : x = [version |-> task[d][h].version, content |-> computed[v]]
        OBVIOUS
      <3>2. vector' = [vector EXCEPT ![d][h] = x]
        BY <1>4, <2>1, <2>2, <3>1 DEF Publish
      <3>3. vector'[c][g] = IF c = d /\ g = h THEN x ELSE vector[c][g]
        BY <3>2 DEF TypeOK
      <3>4. task[d][h] \in Tasks /\ computed[v] \in Text
        BY <1>4, <2>1, <2>2, Rows DEF Publishable, Publish, TypeOK, Tasked
      <3>5. x \in Vectors /\ x.version = description[d]
        BY <2>1, <2>2, <3>1, <3>4 DEF Publishable, Vectors, Tasks, Tasked
      <3> QED
        BY <1>4, <3>3, <3>5, Records DEF Publish
    <2>3. CASE ~Publishable(v)
      BY <1>4, <2>3 DEF Publish
    <2> QED
      BY <2>2, <2>3
  <1>5. CASE UNCHANGED <<description, vector>>
    BY <1>5
  <1> QED
    BY <1>1, <1>2, <1>3, <1>4, <1>5 DEF Next, vars, Begin, Activate, Rollback, WindowEnds,
       Claim, LeaseExpires, Embed, Invalidated, Fail, Crash

LEMMA NextExpectFound ==
    ASSUME RetrievalInv, [RetrievalNext]_retrievalVars
    PROVE  ExpectFound' /\ (query \in Generation \cup {None})'
  <1> USE EmbeddingAssumption DEF ExpectFound
  <1>1. CASE Write
    <2>1. query' = query
      BY <1>1 DEF Write
    <2>2. CASE query = None
      BY <1>1, <2>1, <2>2 DEF Write, RetrievalInv
    <2>3. CASE query # None
      <3>1. query \in Generation /\ expect \subseteq Hits(query)
        BY <2>3 DEF RetrievalInv
      <3>2. ASSUME NEW c \in expect' PROVE c \in Hits(query)'
        <4>1. /\ c \in expect
              /\ description'[c] # None /\ description'[c].text = description[c].text
              /\ description'[c].deletion = description[c].deletion
              /\ status'[query] = "active"
          BY <1>1, <3>2 DEF Write
        <4>2. c \in Context /\ description[c] # None /\ status[query] = "active"
                            /\ Current(c, query)
          BY <3>1, <4>1 DEF Hits, Described
        <4>3. PICK g \in Generation : g = query
          BY <3>1
        <4>4. Current(c, g)'
          BY <1>1, <4>1, <4>2, <4>3, HitKept DEF Write, RetrievalInv, EmbeddingInv
        <4> QED
          BY <2>1, <4>1, <4>2, <4>3, <4>4 DEF Hits, Described, Current
      <3> QED
        BY <2>1, <2>3, <3>1, <3>2
    <2> QED
      BY <2>2, <2>3
  <1>2. CASE ReadGeneration
    BY <1>2 DEF ReadGeneration, Hits, Described, Current, vars, generationVars
  <1>3. CASE Forget /\ UNCHANGED vars
    BY <1>3 DEF Forget
  <1>4. CASE UNCHANGED retrievalVars
    BY <1>4 DEF retrievalVars, vars, generationVars, RetrievalInv, Hits, Described, Current
  <1> QED
    BY <1>1, <1>2, <1>3, <1>4 DEF RetrievalNext, SearchFails, SearchSemantic

\* What a search expects to find is stored and served until its statement runs.
THEOREM RetrievalInvariant == RetrievalSpec => []RetrievalInv
  <1>1. RetrievalInit => RetrievalInv
    BY InitEmbeddingInv DEF RetrievalInit, RetrievalInv, ExpectFound
  <1>2. RetrievalInv /\ [RetrievalNext]_retrievalVars => RetrievalInv'
    <2> SUFFICES ASSUME RetrievalInv, [RetrievalNext]_retrievalVars PROVE RetrievalInv'
      OBVIOUS
    <2>1. [Next]_vars
      BY DEF RetrievalNext, retrievalVars, Write, ReadGeneration, SearchFails, SearchSemantic
    <2>2. EmbeddingInv'
      BY <2>1, NextEmbeddingInv DEF RetrievalInv
    <2> QED
      BY <2>2, NextExpectFound DEF RetrievalInv
  <1> QED
    BY <1>1, <1>2, PTL DEF RetrievalSpec

\* A page of searchSemantic that is not marked as cut holds every context that
\* was findable when the search read the generation and stayed so since.
THEOREM RetrievalComplete == RetrievalSpec => RetrievalFinds
  <1>1. RetrievalInv /\ [RetrievalNext]_retrievalVars =>
            [page' # None /\ ~page'.truncated => expect \subseteq page'.found]_retrievalVars
    <2> SUFFICES ASSUME RetrievalInv, RetrievalNext, page' # None, ~page'.truncated
                 PROVE  expect \subseteq page'.found
      OBVIOUS
    <2>1. SearchSemantic
      BY DEF RetrievalNext, Write, ReadGeneration, SearchFails
    <2>2. page'.found = Hits(query)
      <3>1. PICK w \in SUBSET Hits(query) : page' = [found |-> w, truncated |-> w # Hits(query)]
        BY <2>1 DEF SearchSemantic, Window
      <3>2. page'.truncated = (w # Hits(query)) /\ page'.found = w
        BY <3>1, Zenon
      <3> QED
        BY <3>2, Zenon
    <2> QED
      BY <2>1, <2>2 DEF SearchSemantic, RetrievalInv, ExpectFound
  <1> QED
    BY <1>1, RetrievalInvariant, PTL DEF RetrievalSpec, RetrievalFinds

=============================================================================
