------------------------------ MODULE CacheParts ------------------------------
(* ChannelCache in a run of several settings: what it promises in the       *)
(* setting where a consumer pays for ranges only.                           *)
EXTENDS ChannelCache

VARIABLE part       \* the setting, of those that a run composes

\* Of a channel that is used with ranges only, at most two ranges are unpaid
\* (payg.rs, check_multiple_state_balance).
UnpaidInRanges == part = "ranges" => UnpaidWithinTwoRanges
===============================================================================
