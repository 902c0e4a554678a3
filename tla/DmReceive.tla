------------------------------ MODULE DmReceive ------------------------------
(***************************************************************************)
(* From the socket to the screen: the decomposer's coroutines (MessageJob) *)
(* insert packets and post events, the open conversation (MessageList)     *)
(* turns the events into its list.  Event 3 is posted at once and event 2  *)
(* with a delay of 120 ms, so they may overtake each other.                *)
(*                                                                         *)
(* The two components share the database and the event bus: the variables  *)
(* stored, delayed and messageEventSyncList of MessageList.                *)
(***************************************************************************)
EXTENDS MessageList

CONSTANTS Job, NoJob, Packet, NoPacket, Malformed

(* Jobs and packets are as in MessageJob, and a message the user sends has *)
(* a timetoken like theirs; the database is empty when the conversation is *)
(* opened.                                                                 *)
ASSUME ReceptionAssumption ==
    /\ NoJob \notin Job
    /\ NoPacket \notin Packet
    /\ \A p \in Packet : /\ p.messages \in Seq(Nat \ {0})
                         /\ p.isUnreadMessage \in BOOLEAN
    /\ 0 \notin Own
    /\ Older = {}

VARIABLES
    messageJob, cancelled, pc, packet, left, received, messageSyncList,
    messageEntityList, idTimeTokenMap, isDecomposerUnreadMessage,
    lastMsgTimetoken, acked, dropped, event

J == INSTANCE MessageJob

decomposer ==
    <<messageJob, cancelled, pc, packet, left, received, messageSyncList,
      messageEntityList, idTimeTokenMap, isDecomposerUnreadMessage,
      lastMsgTimetoken, acked, dropped, event>>

SystemInit == J!Init /\ Init

DeliverWhileListening(e) ==   \* faulty: events during the work are ignored
    IF at # "poll" THEN UNCHANGED bus
    ELSE /\ delayed' = IF e.type = 2 THEN Append(delayed, e) ELSE delayed
         /\ messageEventSyncList' = IF e.type = 3
                                    THEN Append(messageEventSyncList, OverEvent)
                                    ELSE messageEventSyncList

(* LiveEventBus: post and postDelay.                                       *)
Deliver(e) ==
    /\ delayed' = IF e.type = 2 THEN Append(delayed, e) ELSE delayed
    /\ messageEventSyncList' = IF e.type = 3
                               THEN Append(messageEventSyncList, OverEvent)
                               ELSE messageEventSyncList

(* A step of the decomposer, and the delivery of the event it posted.      *)
Receive ==
    /\ J!Next
    /\ Deliver(event')
    /\ UNCHANGED <<arrived, deleting, work, shown>>

(* A step of the open conversation.                                        *)
Display ==
    /\ Screen
    /\ UNCHANGED decomposer

SystemNext == Receive \/ Display

SystemSpec == SystemInit /\ [][SystemNext]_<<vars, decomposer>>

-----------------------------------------------------------------------------
(* Properties                                                              *)

(* A message the decomposer stored reaches the open conversation: it has   *)
(* been seen there or an event that makes the screen look for it is under  *)
(* way.  Event 2 takes its interval from the ends of a list, so the        *)
(* packets have to be in the order of timetokens; and stopping a job can   *)
(* empty that list, so this holds until the first stop.                    *)
StoredIsSeen ==
    cancelled = {} /\ (\A p \in received : J!Ascending(p.messages)) =>
        \A m \in stored \ Own :
            \/ m \in messageUUIDList \cup Elements(rows)
            \/ \E e \in Elements(delayed) \cup Elements(messageEventSyncList) :
                   Covers(e, m)
            \/ \E j \in Job : pc[j] = "report" /\ m \in Elements(messageEntityList)

(* Nothing is left to happen by itself.                                    *)
Quiet ==
    /\ \A j \in Job : pc[j] \in {"new", "loop", "delay", "after", "done"}
    /\ messageSyncList = <<>> /\ ~isDecomposerUnreadMessage
    /\ delayed = <<>> /\ messageEventSyncList = <<>> /\ at = "poll"

(* "messages pulled for the time being are not shown until all have been   *)
(* pulled": when all have been, none is held back.                         *)
NothingHeldBack == Quiet => originalMessages = <<>>

=============================================================================
