-------------------------- MODULE MCMemoryJobStore --------------------------
(***************************************************************************)
(* A small instance of MemoryJobStore.                                       *)
(***************************************************************************)
EXTENDS MemoryJobStore, TLC

CONSTANTS k1, k2, b1, r1

\* Batches of both sizes, and one whose only target is invalid although it
\* names a bundle.
MCRequest ==
    { [bundle |-> b1,       work |-> <<"valid", "valid">>],
      [bundle |-> b1,       work |-> <<"invalid", "valid">>],
      [bundle |-> b1,       work |-> <<"invalid", "none">>],
      [bundle |-> NoBundle, work |-> <<"valid", "none">>] }

MCOutcome ==
    { [status |-> "completed", report |-> r1],
      [status |-> "failed",    report |-> "none"] }

MCSymmetry == Permutations(Key)

=============================================================================
