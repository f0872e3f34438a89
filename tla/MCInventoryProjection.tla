------------------------ MODULE MCInventoryProjection ------------------------
(***************************************************************************)
(* Small instances of InventoryProjection.  The last report reclassifies   *)
(* the first one and sorts before it among the identifiers.                *)
(***************************************************************************)
EXTENDS InventoryProjection, TLC

CONSTANTS w1, w2

MCOriginal == [r \in Report |-> IF r = 3 THEN 1 ELSE None]

MCRank == [r \in Report |-> IF r = 1 THEN 2 ELSE IF r = 3 THEN 1 ELSE r + 1]

=============================================================================
