---------------------------- MODULE MCMessageList ----------------------------
EXTENDS MessageList

(* Milliseconds 1 to 6, four ticks each; a Long holds -40 .. 39.           *)
MCOlder    == {4, 8, 12}
MCIncoming == {{28, 32}, {36}}
MCOwn      == {34}
=============================================================================
