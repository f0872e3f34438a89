---------------------------- MODULE MCJobStore ----------------------------
(***************************************************************************)
(* A small instance of JobStore: two keys, batches of up to two targets,   *)
(* one or two bundles.                                                     *)
(***************************************************************************)
EXTENDS JobStore, TLC

CONSTANTS k1, k2, b1, b2, r1

\* One batch that pins a bundle, one with an invalid row and one that is
\* wholly invalid although it names a bundle.
MCRequest ==
    { [bundle |-> b1,       work |-> <<"valid", "valid">>],
      [bundle |-> NoBundle, work |-> <<"invalid", "valid">>],
      [bundle |-> b1,       work |-> <<"invalid", "none">>] }

MCOutcome ==
    { [status |-> "completed", report |-> r1],
      [status |-> "failed",    report |-> "none"] }

MCSymmetry == Permutations(Key)
=============================================================================
