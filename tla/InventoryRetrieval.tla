-------------------------- MODULE InventoryRetrieval --------------------------
(***************************************************************************)
(* A semantic search beside the writers of EmbeddingIndex: searchSemantic  *)
(* of internal/inventory/retrieval.go with the two statements it sends     *)
(* (inventory_semantic_search.go).                                         *)
(*                                                                         *)
(* A statement sees one state of the database.  The search reads which     *)
(* generation is served, computes the vector of the query with the model   *)
(* of that generation, and then asks for the nearest vectors, so that      *)
(* descriptions, vectors and generations change between its statements.    *)
(* Similarities are left out: a window keeps any hits of the right number. *)
(***************************************************************************)
EXTENDS EmbeddingIndex

CONSTANT Limit      \* candidateLimit

ASSUME RetrievalAssumption == Limit \in Nat \ {0}

VARIABLES
    query,  \* the generation a search under way has read, or None
    expect, \* contexts that stayed findable since: only the property reads it
    page    \* the hits of the search that has just returned, or None

retrievalVars == <<vars, query, expect, page>>

RetrievalInit == Init /\ query = None /\ expect = {} /\ page = None

-----------------------------------------------------------------------------

\* What SearchInventorySemantic selects: vectors of present descriptions, and
\* nothing at all if the generation is no longer served.
Hits(g) == {c \in Described : status[g] = "active" /\ Current(c, g)}

\* ActiveEmbeddingGeneration; without one the search fails at once.
ReadGeneration ==
    /\ query = None
    /\ \E g \in Generation :
         /\ status[g] = "active"
         /\ query' = g
         /\ expect' = Hits(g)
    /\ page' = None
    /\ UNCHANGED vars

Forget == query' = None /\ expect' = {}

\* No slot in time, no model for the generation, or the inference fails.
SearchFails ==
    /\ query # None
    /\ Forget
    /\ page' = None
    /\ UNCHANGED vars

\* SELECT ... LIMIT n + 1, of which n are kept; the rest is only counted as cut.
Window(hits) ==
    {[found |-> w, truncated |-> w # hits] :
        w \in {w \in SUBSET hits : Cardinality(w) = IF Cardinality(hits) < Limit THEN Cardinality(hits) ELSE Limit}}

SearchSemantic ==
    /\ query # None
    /\ page' \in Window(Hits(query))
    /\ Forget
    /\ UNCHANGED vars

\* A step of the writers: contexts whose content changed, or all of them when
\* another generation is served, need not be found any more.
Write ==
    /\ Next
    /\ expect' = {c \in expect :
                    /\ description'[c] # None /\ description'[c].text = description[c].text
                    /\ description'[c].deletion = description[c].deletion
                    /\ status'[query] = "active"}
    /\ page' = None
    /\ UNCHANGED query

RetrievalNext == Write \/ ReadGeneration \/ SearchFails \/ SearchSemantic

RetrievalSpec == RetrievalInit /\ [][RetrievalNext]_retrievalVars

-----------------------------------------------------------------------------
(* Properties.                                                             *)

\* A context that had a vector when the search read the generation, and whose
\* content stayed the same, is among the hits unless the page says that it was
\* cut: neither a report that confirms the description, nor a late worker, nor
\* work on other generations takes it out.  Only a generation that is activated
\* or rolled back under the search empties its page, and the page does not say so.
RetrievalFinds ==
    [][page' # None /\ ~page'.truncated => expect \subseteq page'.found]_retrievalVars

=============================================================================
