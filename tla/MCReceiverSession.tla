-------------------------- MODULE MCReceiverSession --------------------------
EXTENDS ReceiverSession

\* One IPv6 sender.
SendersIPv6 == {[family |-> 6, ip |-> 1, port |-> 1]}
=============================================================================
