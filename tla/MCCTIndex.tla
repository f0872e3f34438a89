------------------------------ MODULE MCCTIndex ------------------------------
(***************************************************************************)
(* A small instance of CTIndex: a log that holds one leaf at first and a   *)
(* second one a clock value later, and a server that may send either in    *)
(* the place of the other.  The early certificate lists its name as a      *)
(* wildcard before the bare name, as certificates for *.example.com do,    *)
(* and a file holds the same certificate with the name as a concrete one.  *)
(***************************************************************************)
EXTENDS CTIndex, TLC

MCLogged == [i \in Index |-> IF i = MaxSize - 1 THEN "late" ELSE "early"]

MCLoggedAt == [l \in Leaf |-> IF l = "late" THEN 2 ELSE 1]

MCCertOf == [l \in Leaf |-> IF l = "late" THEN "x1" ELSE "x2"]

Mention(wild) == [name |-> "a", wild |-> wild]

MCNames == [l \in Leaf |-> IF l = "late" THEN <<Mention(FALSE)>>
                           ELSE <<Mention(TRUE), Mention(FALSE)>>]

MCImported ==
    {[name |-> "a", wild |-> FALSE, cert |-> "x2", index |-> 0, logged |-> 1,
      prov |-> "imported_unverified"]}

CollectorSymmetry == Permutations(Collector)

=============================================================================
