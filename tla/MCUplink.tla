------------------------------ MODULE MCUplink ------------------------------
(* Instances of Uplink for TLC. *)
EXTENDS Uplink, TLC

\* Two batches of the same content are told apart only by their names.
FlushSymmetry == Permutations(FlushId)
=============================================================================
