-------------------------- MODULE MC_DeliveryRouter --------------------------
EXTENDS DeliveryRouter, TLC

CONSTANTS t1, t2

\* An internal audit sink, a Telegram chat and the local sink.
Chat == [kind |-> "platform", platform |-> "telegram", address |-> "a", thread |-> ""]
LocalSink == [kind |-> "local", platform |-> "", address |-> "", thread |-> ""]
AuditSink == [kind |-> "none", platform |-> "", address |-> "", thread |-> ""]
Sinks == <<AuditSink, Chat, LocalSink>>

\* Where the payload of a task asks for delivery.
ToChat(address) ==
    [kind |-> "platform", platform |-> "telegram", address |-> address,
     thread |-> "", explicit |-> address # ""]
ToOrigin == [kind |-> "origin", platform |-> "", address |-> "", thread |-> "", explicit |-> FALSE]
ToLocal == [kind |-> "local", platform |-> "", address |-> "", thread |-> "", explicit |-> FALSE]

\* One task for its origin, one for a chat that no sink serves.
Routes ==
    t1 :> [origin |-> "telegram", targets |-> {ToOrigin}]
    @@ t2 :> [origin |-> "cli", targets |-> {ToLocal, ToChat("b")}]

Symmetry == Permutations(Runner)
=============================================================================
