---------------------------- MODULE MCDmReceive -----------------------------
EXTENDS DmReceive

Pkt(s, unread) == [messages |-> s, isUnreadMessage |-> unread]
MCPacket    == {Pkt(<<1, 2>>, TRUE), Pkt(<<4>>, FALSE)}
MCMalformed == {}
MCOwn       == {3}
=============================================================================
