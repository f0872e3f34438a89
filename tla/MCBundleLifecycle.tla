-------------------------- MODULE MCBundleLifecycle --------------------------
(***************************************************************************)
(* Small instances of BundleLifecycle: two operators, so that activate and *)
(* prune race each other, and more bundles than pruning spares.            *)
(***************************************************************************)
EXTENDS BundleLifecycle, TLC

CONSTANTS o1, o2, b1, b2, b3

=============================================================================
