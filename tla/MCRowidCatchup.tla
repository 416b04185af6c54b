---------------------------- MODULE MCRowidCatchup ----------------------------
(* Instances of RowidCatchup for TLC.  The reconcilers are interchangeable. *)
EXTENDS RowidCatchup, TLC

WorkerSymmetry == Permutations(Reconciler)
=============================================================================
