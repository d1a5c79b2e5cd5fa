----------------------------- MODULE MCTxSender -----------------------------
(* Small instances of TxSender for TLC.                                    *)
EXTENDS TxSender

CONSTANTS c1, c2, c3

=============================================================================
