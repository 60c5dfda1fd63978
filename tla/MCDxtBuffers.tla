---------------------------- MODULE MCDxtBuffers ----------------------------
(***************************************************************************)
(* Model-checking instance of DxtBuffers: two ids, a budget of 16 bytes,   *)
(* records of 3 bytes, segments of 2 bytes and first buffers of 2          *)
(* segments, so that a record, a first buffer and one doubling fit, and    *)
(* the budget runs out (with a clamped partial growth) within a few calls. *)
(***************************************************************************)
EXTENDS DxtBuffers, TLC

CONSTANTS f1, f2

MCIds == {f1, f2}
MCSymmetry == Permutations(MCIds)

=============================================================================
