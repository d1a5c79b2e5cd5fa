------------------------------ MODULE PaygParts ------------------------------
(* Payg in a run of several settings, and what it promises.                *)
EXTENDS Payg

VARIABLE part       \* the setting, of those that a run composes

\* To the proxy the coordinator behaves as the account of ChannelCache needs it:
\* every step is one of the proxy's, or the row comes to show an amount as paid
\* that the consumer had signed (payg.service.ts, getAliveChannels and channel).
FollowsAccount ==
    [][part = "payg" => \/ Cache!RowChange(View')
                        \/ Cache!ProxyNext
                        \/ UNCHANGED Cache!vars]_<<part, Cache!vars>>
=============================================================================
