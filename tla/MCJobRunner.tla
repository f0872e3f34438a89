---------------------------- MODULE MCJobRunner ----------------------------
(***************************************************************************)
(* A small instance of JobRunner: two workers race for the target of one   *)
(* batch.                                                                  *)
(***************************************************************************)
EXTENDS JobRunner, TLC

CONSTANTS k1, b1, b2, w1, w2

\* One target that fits the backlog and a batch that never does.
OneOrTooMany ==
    { [bundle |-> b1, work |-> <<"valid", "none">>],
      [bundle |-> b1, work |-> <<"valid", "valid">>] }

\* Reports of either bundle.
ReportOutcomes ==
    { [status |-> "completed", report |-> b1],
      [status |-> "partial", report |-> b2], Failed, Aborted }

=============================================================================
