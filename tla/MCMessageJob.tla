---------------------------- MODULE MCMessageJob ----------------------------
EXTENDS MessageJob

Pkt(s, unread) == [messages |-> s, isUnreadMessage |-> unread]
(* An unread packet of two messages, the second of which the server also   *)
(* sends on its own, and a packet with a message that cannot be converted. *)
MCPacket == {Pkt(<<1, 2>>, TRUE), Pkt(<<2>>, FALSE), Pkt(<<3, 4>>, FALSE)}
MCMalformed == {3}
=============================================================================
