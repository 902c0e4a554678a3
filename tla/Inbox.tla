------------------------------- MODULE Inbox --------------------------------
(***************************************************************************)
(* What receiving direct messages promises, whatever coroutines do the     *)
(* work: messages come in, are stored or lost, and are acknowledged only   *)
(* after that.  Until receiving is interrupted for the first time an       *)
(* acknowledged message is one that is stored or cannot be.                *)
(***************************************************************************)
EXTENDS Naturals

CONSTANT Malformed  \* messages that cannot be stored

VARIABLES
    arrived,        \* messages handed over by the socket
    stored,         \* messages in the database
    lost,           \* messages thrown away before they were stored
    acked,          \* messages the server need not send again
    interrupted     \* receiving was stopped at least once

vars == <<arrived, stored, lost, acked, interrupted>>

Init ==
    /\ arrived = {} /\ stored = {} /\ lost = {} /\ acked = {}
    /\ interrupted = FALSE

Arrive ==
    /\ arrived \subseteq arrived'
    /\ UNCHANGED <<stored, lost, acked, interrupted>>

Store ==
    /\ stored \subseteq stored'
    /\ stored' \subseteq stored \cup arrived
    /\ UNCHANGED <<arrived, lost, acked, interrupted>>

(* Only what is not stored can be lost.                                    *)
Lose ==
    /\ lost \subseteq lost'
    /\ lost' \subseteq lost \cup (arrived \ stored)
    /\ UNCHANGED <<arrived, stored, acked>>
    /\ interrupted => interrupted'

Settled == Malformed \cup stored \cup (IF interrupted THEN lost ELSE {})

Acknowledge ==
    /\ acked \subseteq acked'
    /\ acked' \subseteq acked \cup (arrived \cap Settled)
    /\ UNCHANGED <<arrived, stored, lost, interrupted>>

Next == Arrive \/ Store \/ Lose \/ Acknowledge

Spec == Init /\ [][Next]_vars
=============================================================================
