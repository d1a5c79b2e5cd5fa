--------------------------- MODULE MCChannelCache ---------------------------
(* Small instances of ChannelCache for TLC.                                *)
EXTENDS ChannelCache, TLC

CONSTANTS h1, h2

MCRow(spent, remote, total, final) ==
    [spent |-> spent, remote |-> remote, total |-> total, price |-> 1,
     final |-> final, expired |-> FALSE]

\* Queries paid one by one: a plain query or an empty batch.
MCSingleAmounts == {0, 1}
MCSingleUnits == {[times |-> 1, overflow |-> 1], [times |-> 0, overflow |-> 0]}
MCSingleRows == {MCRow(0, 0, 1, FALSE), MCRow(2, 1, 2, FALSE)}

\* Enough funds for several conflicting queries of one unit.  The coordinator's
\* row shows no more as spent than was answered, and no query ends the channel.
MCDocRows == {MCRow(0, 0, 3, FALSE), MCRow(2, 0, 3, FALSE)}
MCDocNext ==
    /\ Next
    /\ row'.spent <= hist.bill
    /\ \A h \in Handlers : tasks'[h].pc = "single" => ~tasks'[h].final
MCDocSpec == Init /\ [][MCDocNext]_vars

\* Ranges: the row is opened, then funded while it is in debt.
MCRangeAmounts == {0, 2, 3}
MCRangeUnits == {[times |-> 1, overflow |-> 1], [times |-> 2, overflow |-> 1]}
MCRangeRows == {MCRow(0, 0, 3, FALSE), MCRow(3, 1, 3, FALSE)}

\* A channel that may close and open again as far as the proxy can tell.
MCPollRows == {MCRow(0, 0, 2, FALSE), MCRow(1, 1, 2, TRUE), MCRow(1, 1, 3, FALSE)}
MCPollUnits == {[times |-> 1, overflow |-> 1]}
=============================================================================
