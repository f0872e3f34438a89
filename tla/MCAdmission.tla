----------------------------- MODULE MCAdmission -----------------------------
(***************************************************************************)
(* Two requests, each from the API or from a job, one waiter slot and one  *)
(* target permit.  The first fetches twice from one destination through a  *)
(* single process-wide HTTP permit; the second asks the DNS.               *)
(***************************************************************************)
EXTENDS Admission, TLC

CONSTANTS a, b, page, peer, query

MCOwner == page :> a @@ peer :> a @@ query :> b

MCKind == page :> "http" @@ peer :> "http" @@ query :> "dns"

MCGoesTo == [f \in Fetch |-> "d"]

MCPerTarget == "dns" :> 1 @@ "http" :> 2

MCOne == [k \in {"dns", "http"} |-> 1]

=============================================================================
