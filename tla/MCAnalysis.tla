------------------------------ MODULE MCAnalysis ------------------------------
(***************************************************************************)
(* The target "s" has two approved addresses; the index names "u" below    *)
(* it, which has none.  Pages redirect to "r", an alias with one of the    *)
(* target's addresses and one the policy blocks.  Two addresses may be     *)
(* used and one request made, unless there are no budgets.  All lookups    *)
(* are of one family.                                                      *)
(*                                                                         *)
(* The rule for "react" holds on the target's page and not on that of a    *)
(* redirect.  The view "v2" lacks sources and has more associations of an  *)
(* address than are kept; both have two of one provenance.                 *)
(***************************************************************************)
EXTENDS Analysis, TLC

MCRequested == <<"s">>
MCIndex == <<<<"u">>>>
MCAddr == [h \in Host |-> [f \in Family |->
             CASE h = "s" -> {"p", "q"}
               [] h = "r" -> {"q", "x"} [] OTHER -> {}]]
MCFamilyOf == [a \in Address |-> "A"]

MCTechnology == [h \in Host |-> IF h = "u" THEN {} ELSE {"react"}]
MCRules == {[id |-> "rule1", type |-> "technology", on |-> {"react"}, entity |-> "react", relation |-> "web_integration", strength |-> 2],
            [id |-> "rule2", type |-> "dns_record", on |-> {"r"}, entity |-> "cdn", relation |-> "web_delivery", strength |-> 3]}
MCSuffixState == ("v1" :> "all" @@ "v2" :> "none")
MCSuffixMatch == ("v1" :> {"r"} @@ "v2" :> {})
MCPrefixSource == ("v1" :> "complete" @@ "v2" :> "partial")
MCASNSource == [v \in View |-> [f \in Family |-> IF v = "v2" THEN "unavailable" ELSE "complete"]]
Amazon == {[id |-> i, entity |-> "aws", group |-> "g"] : i \in {"p1", "p2"}}
Google == {[id |-> "p3", entity |-> "gcp", group |-> "h"]}
Azure == {[id |-> "p4", entity |-> "azure", group |-> "i"]}
MCAssociations == [v \in View |-> [a \in Address |->
    IF a # "p" THEN {} ELSE IF v = "v1" THEN Amazon \cup Google ELSE Amazon \cup Google \cup Azure]]
MCASNOf == [v \in View |-> [a \in Address |-> IF a = "x" THEN None ELSE "as1"]]

=============================================================================
