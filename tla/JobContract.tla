---------------------------- MODULE JobContract ----------------------------
(***************************************************************************)
(* What durable admission promises to a client of the job store, whatever  *)
(* happens to workers, leases and processes: a batch is accepted as a      *)
(* whole within the backlog limit, every accepted target reaches one       *)
(* terminal outcome and keeps it, and a bundle is withdrawn only when no   *)
(* accepted work still needs it.                                           *)
(***************************************************************************)
EXTENDS Integers, FiniteSets

CONSTANTS Key, Index, Bundle, NoBundle, MaximumTargets

VARIABLES
    ledger,    \* for each target: "absent", "pending" or its outcome
    bundleOf,  \* the bundle the accepted batch asked for
    usable     \* bundles a worker can load

vars == <<ledger, bundleOf, usable>>

Target == Key \X Index

Terminal == {"completed", "partial", "failed", "cancelled"}

Pending == {t \in Target : ledger[t] = "pending"}

Rows(k) == {t \in Target : t[1] = k}

Init ==
    /\ ledger = [t \in Target |-> "absent"]
    /\ bundleOf = [k \in Key |-> NoBundle]
    /\ usable = {}

\* The whole batch is accepted at once; rows that fail validation are
\* reported as failed, the others wait, and the backlog stays within its
\* limit.
Admit(k, b) ==
    /\ \A t \in Rows(k) : ledger[t] = "absent"
    /\ \A t \in Target \ Rows(k) : ledger'[t] = ledger[t]
    /\ \A t \in Rows(k) : ledger'[t] \in {"absent", "pending", "failed"}
    /\ \E t \in Rows(k) : ledger'[t] # "absent"
    /\ Cardinality(Pending') <= MaximumTargets
    /\ b \in usable \cup {NoBundle}
    /\ bundleOf' = [bundleOf EXCEPT ![k] = b]
    /\ UNCHANGED usable

\* Some pending targets reach their outcome; everything else stays.
Settle ==
    /\ \A t \in Target : \/ ledger'[t] = ledger[t]
                         \/ ledger[t] = "pending" /\ ledger'[t] \in Terminal
    /\ UNCHANGED <<bundleOf, usable>>

Publish(b) ==
    /\ usable' = usable \cup {b}
    /\ UNCHANGED <<ledger, bundleOf>>

\* A bundle that pending work asked for cannot be withdrawn.
Withdraw(b) ==
    /\ \A t \in Pending : bundleOf[t[1]] # b
    /\ usable' = usable \ {b}
    /\ UNCHANGED <<ledger, bundleOf>>

Next ==
    \/ \E k \in Key, b \in Bundle \cup {NoBundle} : Admit(k, b)
    \/ Settle
    \/ \E b \in Bundle : Publish(b) \/ Withdraw(b)

Spec == Init /\ [][Next]_vars

=============================================================================
