--------------------------- MODULE MCChannelStore ---------------------------
(* Small instances of ChannelStore for TLC.                                *)
EXTENDS ChannelStore, TLC

CONSTANTS j1, j2

JobSymmetry == Permutations(Jobs)
=============================================================================
