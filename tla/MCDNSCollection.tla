--------------------------- MODULE MCDNSCollection ---------------------------
(***************************************************************************)
(* "v" is an alias of "x", which has an address and lies in the zone "z"   *)
(* below the top label "t"; the zone's server "n" has an address too.  A   *)
(* target is "v" with "x", so that the second seed asks what the first has *)
(* asked, or "y", an alias of "w" that is an alias of "y".                 *)
(***************************************************************************)
EXTENDS DNSCollection, TLC

MCSeedLists == {<<"v", "x">>, <<"y">>}

MCRank == "n" :> 1 @@ "t" :> 2 @@ "v" :> 3 @@ "w" :> 4 @@ "x" :> 5 @@ "y" :> 6 @@ "z" :> 7

MCLinks == [m \in Name |-> CASE m = "v" -> "x" [] m = "y" -> "w" [] m = "w" -> "y" [] OTHER -> None]

MCAddr == [m \in Name |-> [t \in AddressTypes |->
             CASE m = "x" -> {"p"} [] m = "n" -> {"i"} [] OTHER -> {}]]

MCDependencyOf == [m \in Name |-> [t \in DependencyTypes |->
                     IF m = "z" /\ t = "NS" THEN {"n"} ELSE {}]]

MCParent == [m \in Name |-> CASE m \in {"v", "w", "x", "y"} -> "z" [] m \in {"n", "z"} -> "t" [] OTHER -> None]

=============================================================================
