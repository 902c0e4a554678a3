----------------------------- MODULE MessageJob -----------------------------
(***************************************************************************)
(* Receiving direct messages: ChatMessagesDecomposer's queue of packets    *)
(* and the coroutine that empties it, started when the app comes to the    *)
(* foreground and stopped when it leaves (DMSocketIO).                     *)
(*                                                                         *)
(* Stopping cancels the coroutine, which only notices in delay() and at    *)
(* the head of its loop: it goes on with the packet it holds while the     *)
(* next one has already been started, and both use the same lists.         *)
(*                                                                         *)
(* A message is its timetoken.  Packets are of one conversation that is    *)
(* already stored; fetching an unknown one, the senders' rows and the      *)
(* report that a conversation was read are left out.                       *)
(***************************************************************************)
EXTENDS Naturals, Sequences

CONSTANTS
    Job,        \* coroutines, each launched once
    NoJob,      \* messageJob = null
    Packet,     \* VenusDirectMessageWrappers the server sends
    NoPacket,   \* the packet of a job that has taken none
    Malformed   \* messages that toMessageEntity throws on

Timetoken == Nat \ {0}
Message(p) == {p.messages[i] : i \in DOMAIN p.messages}

ASSUME JobAssumption == NoJob \notin Job
ASSUME PacketAssumption ==
    /\ NoPacket \notin Packet
    /\ \A p \in Packet : /\ p.messages \in Seq(Timetoken)
                         /\ p.isUnreadMessage \in BOOLEAN

VARIABLES
    messageJob,
    cancelled,          \* jobs that were cancelled
    pc,                 \* pc[j]: where job j is
    packet,             \* packet[j]: the packet j took last
    left,               \* left[j]: its messages still to be converted
    received,           \* packets put into the queue so far
    messageSyncList,    \* the queue
    messageEntityList,  \* one list, used by every job
    idTimeTokenMap,     \* newest timetoken not yet written back, or 0
    isDecomposerUnreadMessage,
    stored,             \* messages in the database
    lastMsgTimetoken,   \* the conversation's row
    acked,              \* messages reported to the server as received
    dropped,            \* (history) what a clear() threw away
    event               \* the MessageEvent the last step posted

jobs  == <<messageJob, cancelled>>
local == <<pc, packet, left>>
queue == <<received, messageSyncList>>
token == <<idTimeTokenMap, lastMsgTimetoken>>
kept  == <<stored, acked, dropped>>
vars  == <<jobs, local, queue, messageEntityList, token,
           isDecomposerUnreadMessage, kept, event>>

Pc == {"new",      \* not launched
       "launched", \* ... and not yet at its first statement
       "loop",     \* at the head of the loop
       "poll",     \* has seen that the queue is not empty
       "convert",  \* converting the messages of its packet
       "report",   \* has inserted them
       "delay",    \* in delay(100)
       "after",    \* in handleMessageWrapperAfter
       "flush",    \* ... has written the timetokens back
       "done"}

NoEvent    == [type |-> 0]
UnreadOver == [type |-> 3]

NewMessagesFromLast(s, unread) ==   \* faulty
    [type |-> 2, isLoading |-> unread,
     start |-> IF s = <<>> THEN 0 ELSE s[Len(s)],
     end   |-> IF s = <<>> THEN 0 ELSE s[Len(s)]]

NewMessages(s, unread) ==   \* the interval event 2 makes the screen query
    [type |-> 2, isLoading |-> unread,
     start |-> IF s = <<>> THEN 0 ELSE s[1],
     end   |-> IF s = <<>> THEN 0 ELSE s[Len(s)]]

Event == {NoEvent, UnreadOver} \cup
         [type : {2}, isLoading : BOOLEAN, start : Nat, end : Nat]

Elements(s) == {s[i] : i \in DOMAIN s}
Newest(a, b) == IF a < b THEN b ELSE a

TypeOK ==
    /\ messageJob \in Job \cup {NoJob}
    /\ cancelled \subseteq Job
    /\ pc \in [Job -> Pc]
    /\ packet \in [Job -> Packet \cup {NoPacket}]
    /\ left \in [Job -> Seq(Timetoken)]
    /\ received \subseteq Packet
    /\ messageSyncList \in Seq(Packet)
    /\ messageEntityList \in Seq(Timetoken)
    /\ idTimeTokenMap \in Nat
    /\ lastMsgTimetoken \in Nat
    /\ isDecomposerUnreadMessage \in BOOLEAN
    /\ stored \subseteq Timetoken
    /\ acked \subseteq Timetoken
    /\ dropped \subseteq Timetoken
    /\ event \in Event

Init ==
    /\ messageJob = NoJob
    /\ cancelled = {}
    /\ pc = [j \in Job |-> "new"]
    /\ packet = [j \in Job |-> NoPacket]
    /\ left = [j \in Job |-> <<>>]
    /\ received = {}
    /\ messageSyncList = <<>>
    /\ messageEntityList = <<>>
    /\ idTimeTokenMap = 0
    /\ lastMsgTimetoken = 0
    /\ isDecomposerUnreadMessage = FALSE
    /\ stored = {}
    /\ acked = {}
    /\ dropped = {}
    /\ event = NoEvent

Goto(j, to) == pc' = [pc EXCEPT ![j] = to]

-----------------------------------------------------------------------------
(* The socket's side: its callbacks and the app's lifecycle                *)

(* Every "dm" event is parsed in a coroutine of its own, so packets enter  *)
(* the queue in any order.                                                 *)
onDirectMessage(p) ==
    /\ p \notin received
    /\ received' = received \cup {p}
    /\ messageSyncList' = Append(messageSyncList, p)
    /\ event' = NoEvent
    /\ UNCHANGED <<jobs, local, messageEntityList, token,
                   isDecomposerUnreadMessage, kept>>

startMessageJob(j) ==
    /\ messageJob = NoJob
    /\ pc[j] = "new"
    /\ messageJob' = j
    /\ Goto(j, "launched")
    /\ event' = NoEvent
    /\ UNCHANGED <<cancelled, packet, left, queue, messageEntityList, token,
                   isDecomposerUnreadMessage, kept>>

Throw(s) == dropped' = dropped \cup (Elements(s) \ stored)

StopWithoutCancel ==   \* faulty
    /\ messageJob # NoJob
    /\ messageJob' = NoJob
    /\ messageEntityList' = <<>>
    /\ Throw(messageEntityList)
    /\ event' = NoEvent
    /\ UNCHANGED <<cancelled, local, queue, token, isDecomposerUnreadMessage,
                   stored, acked>>

stopMessageJob ==
    /\ messageJob # NoJob
    /\ cancelled' = cancelled \cup {messageJob}
    /\ messageJob' = NoJob
    /\ messageEntityList' = <<>>
    /\ Throw(messageEntityList)
    /\ event' = NoEvent
    /\ UNCHANGED <<local, queue, token, isDecomposerUnreadMessage,
                   stored, acked>>

-----------------------------------------------------------------------------
(* The coroutine                                                           *)

Queued == UNION {Message(p) : p \in Elements(messageSyncList)}

(* The first statements; a job cancelled before it is dispatched may never *)
(* get there.                                                              *)
Begin(j) ==
    /\ pc[j] = "launched"
    /\ Goto(j, "loop")
    /\ messageSyncList' = <<>>
    /\ dropped' = dropped \cup (Queued \ stored)
    /\ idTimeTokenMap' = 0
    /\ event' = NoEvent
    /\ UNCHANGED <<jobs, packet, left, received, messageEntityList,
                   lastMsgTimetoken, isDecomposerUnreadMessage, stored, acked>>

End(j) ==
    /\ j \in cancelled
    /\ pc[j] \in {"launched", "loop", "delay"}
    /\ Goto(j, "done")
    /\ event' = NoEvent
    /\ UNCHANGED <<jobs, packet, left, queue, messageEntityList, token,
                   isDecomposerUnreadMessage, kept>>

LoopBusyOffByOne(j) ==   \* faulty
    /\ pc[j] = "loop"
    /\ j \notin cancelled
    /\ Len(messageSyncList) > 1
    /\ Goto(j, "poll")
    /\ event' = NoEvent
    /\ UNCHANGED <<jobs, packet, left, queue, messageEntityList, token,
                   isDecomposerUnreadMessage, kept>>

LoopBusy(j) ==
    /\ pc[j] = "loop"
    /\ j \notin cancelled
    /\ messageSyncList # <<>>
    /\ Goto(j, "poll")
    /\ event' = NoEvent
    /\ UNCHANGED <<jobs, packet, left, queue, messageEntityList, token,
                   isDecomposerUnreadMessage, kept>>

LoopIdleKeepsFlag(j) ==   \* faulty
    /\ pc[j] = "loop"
    /\ j \notin cancelled
    /\ messageSyncList = <<>>
    /\ Goto(j, "delay")
    /\ event' = IF isDecomposerUnreadMessage THEN UnreadOver ELSE NoEvent
    /\ UNCHANGED <<jobs, packet, left, queue, messageEntityList, token, kept,
                   isDecomposerUnreadMessage>>

LoopIdle(j) ==
    /\ pc[j] = "loop"
    /\ j \notin cancelled
    /\ messageSyncList = <<>>
    /\ Goto(j, "delay")
    /\ isDecomposerUnreadMessage' = FALSE
    /\ event' = IF isDecomposerUnreadMessage THEN UnreadOver ELSE NoEvent
    /\ UNCHANGED <<jobs, packet, left, queue, messageEntityList, token, kept>>

TakeUnlessCancelled(j) ==   \* faulty: polls, then gives up
    /\ pc[j] = "poll"
    /\ messageSyncList # <<>>
    /\ messageEntityList' = <<>>
    /\ Throw(messageEntityList)
    /\ messageSyncList' = Tail(messageSyncList)
    /\ Goto(j, IF j \in cancelled THEN "done" ELSE "convert")
    /\ packet' = [packet EXCEPT ![j] = Head(messageSyncList)]
    /\ left' = [left EXCEPT ![j] = IF j \in cancelled THEN <<>>
                                   ELSE Head(messageSyncList).messages]
    /\ event' = NoEvent
    /\ UNCHANGED <<jobs, received, token, stored, acked,
                   isDecomposerUnreadMessage>>

(* The lists are cleared and a packet is polled; another job may have      *)
(* emptied the queue in the meantime, which ends this one.                 *)
Take(j) ==
    /\ pc[j] = "poll"
    /\ messageEntityList' = <<>>
    /\ Throw(messageEntityList)
    /\ IF messageSyncList = <<>>
       THEN /\ Goto(j, "done")
            /\ event' = NoEvent
            /\ UNCHANGED <<packet, left, messageSyncList,
                           isDecomposerUnreadMessage>>
       ELSE LET p    == Head(messageSyncList)
                over == ~p.isUnreadMessage /\ isDecomposerUnreadMessage
            IN  /\ Goto(j, "convert")
                /\ messageSyncList' = Tail(messageSyncList)
                /\ packet' = [packet EXCEPT ![j] = p]
                /\ left' = [left EXCEPT ![j] = p.messages]
                /\ isDecomposerUnreadMessage' = ~over
                /\ event' = IF over THEN UnreadOver ELSE NoEvent
    /\ UNCHANGED <<jobs, received, token, stored, acked>>

ConvertLatestToken(j) ==   \* faulty: without comparing timetokens
    /\ pc[j] = "convert"
    /\ left[j] # <<>>
    /\ left' = [left EXCEPT ![j] = Tail(@)]
    /\ messageEntityList' = Append(messageEntityList, Head(left[j]))
    /\ idTimeTokenMap' = Head(left[j])
    /\ event' = NoEvent
    /\ UNCHANGED <<jobs, pc, packet, queue, lastMsgTimetoken,
                   isDecomposerUnreadMessage, kept>>

(* One message: an exception skips it.                                     *)
Convert(j) ==
    /\ pc[j] = "convert"
    /\ left[j] # <<>>
    /\ left' = [left EXCEPT ![j] = Tail(@)]
    /\ LET m == Head(left[j])
       IN  IF m \in Malformed
           THEN UNCHANGED <<messageEntityList, idTimeTokenMap>>
           ELSE /\ messageEntityList' = Append(messageEntityList, m)
                /\ idTimeTokenMap' = Newest(idTimeTokenMap, m)
    /\ event' = NoEvent
    /\ UNCHANGED <<jobs, pc, packet, queue, lastMsgTimetoken,
                   isDecomposerUnreadMessage, kept>>

insertMessages(j) ==
    /\ pc[j] = "convert"
    /\ left[j] = <<>>
    /\ stored' = stored \cup Elements(messageEntityList)
    /\ Goto(j, "report")
    /\ event' = NoEvent
    /\ UNCHANGED <<jobs, packet, left, queue, messageEntityList, token,
                   isDecomposerUnreadMessage, acked, dropped>>

ReportBeforeInsert(j) ==   \* faulty
    /\ pc[j] = "convert"
    /\ acked' = acked \cup Message(packet[j])
    /\ event' = NewMessages(messageEntityList, packet[j].isUnreadMessage)
    /\ UNCHANGED <<jobs, local, queue, messageEntityList, token,
                   isDecomposerUnreadMessage, stored, dropped>>

(* Every uuid of the packet is acknowledged, converted or not, and the     *)
(* screen is told which interval to query.                                 *)
handleMessageWrapper(j) ==
    /\ pc[j] = "report"
    /\ acked' = acked \cup Message(packet[j])
    /\ event' = NewMessages(messageEntityList, packet[j].isUnreadMessage)
    /\ Goto(j, "after")
    /\ UNCHANGED <<jobs, packet, left, queue, messageEntityList, token,
                   isDecomposerUnreadMessage, stored, dropped>>

Wake(j) ==
    /\ pc[j] = "delay"
    /\ j \notin cancelled
    /\ Goto(j, "after")
    /\ event' = NoEvent
    /\ UNCHANGED <<jobs, packet, left, queue, messageEntityList, token,
                   isDecomposerUnreadMessage, kept>>

(* handleMessageWrapperAfter: at most every two seconds the timetokens are *)
(* written to the conversation's row, then the map is cleared.             *)
Early(j) ==
    /\ pc[j] = "after"
    /\ Goto(j, "loop")
    /\ event' = NoEvent
    /\ UNCHANGED <<jobs, packet, left, queue, messageEntityList, token,
                   isDecomposerUnreadMessage, kept>>

updateConversationLastTimeToken(j) ==
    /\ pc[j] = "after"
    /\ idTimeTokenMap # 0
    /\ lastMsgTimetoken' = Newest(lastMsgTimetoken, idTimeTokenMap)
    /\ Goto(j, "flush")
    /\ event' = NoEvent
    /\ UNCHANGED <<jobs, packet, left, queue, messageEntityList,
                   idTimeTokenMap, isDecomposerUnreadMessage, kept>>

ClearTokens(j) ==
    /\ pc[j] = "flush"
    /\ idTimeTokenMap' = 0
    /\ Goto(j, "loop")
    /\ event' = NoEvent
    /\ UNCHANGED <<jobs, packet, left, queue, messageEntityList,
                   lastMsgTimetoken, isDecomposerUnreadMessage, kept>>

-----------------------------------------------------------------------------
Work(j) ==
    \/ Begin(j) \/ End(j) \/ LoopBusy(j) \/ LoopIdle(j) \/ Take(j)
    \/ Convert(j) \/ insertMessages(j) \/ handleMessageWrapper(j) \/ Wake(j)
    \/ Early(j) \/ updateConversationLastTimeToken(j) \/ ClearTokens(j)

Next ==
    \/ \E p \in Packet : onDirectMessage(p)
    \/ \E j \in Job : startMessageJob(j) \/ Work(j)
    \/ stopMessageJob

Spec == Init /\ [][Next]_vars

(* A dispatched coroutine keeps running: every step of it is a plain call  *)
(* or a timer.                                                             *)
FairSpec == Spec /\ \A j \in Job : WF_vars(Work(j))

-----------------------------------------------------------------------------
(* Properties                                                              *)

(* Restarting the job never leaves two loops that both go on: a job that   *)
(* is running and was not cancelled is messageJob.                         *)
OneLiveJob ==
    \A j \in Job : pc[j] \notin {"new", "done"} /\ j \notin cancelled
                     => j = messageJob

InHand == UNION {Elements(left[j]) : j \in Job}
Building == IF \E j \in Job : pc[j] = "convert" THEN Elements(messageEntityList)
            ELSE {}

(* Whatever jobs overlap, a message handed to onDirectMessage is in the    *)
(* queue, in the hands or the list of a job that will insert it, in the    *)
(* database, or was thrown away by a clear() call: nothing else loses it.  *)
NothingVanishes ==
    \A p \in received :
        Message(p) \subseteq Malformed \cup stored \cup dropped \cup Queued
                             \cup InHand \cup Building

(* An acknowledged message, which the server need not send again, is in    *)
(* the database unless it could not be converted or a clear() of another   *)
(* job or of stopMessageJob took it out of the list.                       *)
AckedKept == acked \subseteq Malformed \cup stored \cup dropped

(* As long as no job has been stopped, nothing takes it out of the list.   *)
FirstSessionKeeps == cancelled = {} => acked \subseteq Malformed \cup stored

(* Until a job is stopped, writing timetokens back at most every two       *)
(* seconds and clearing the map afterwards forgets none: every stored      *)
(* message is covered by the conversation's row or by what is still to be  *)
(* written.                                                                *)
TokensKept ==
    cancelled = {} =>
        \A m \in stored : m <= Newest(lastMsgTimetoken, idTimeTokenMap)

Arrived == UNION {Message(p) : p \in received}

I == INSTANCE Inbox WITH arrived <- Arrived, lost <- dropped,
                         interrupted <- cancelled # {}

(* The overlapping jobs and their shared lists keep the promise of Inbox:  *)
(* they store only what arrived, lose only what is not stored, and         *)
(* acknowledge a message after it was stored, given up or lost.            *)
ImplementsInbox == I!Spec

Ascending(s) == \A i, k \in DOMAIN s : i < k => s[i] <= s[k]

(* Event 2 makes the screen query an interval that holds every message of  *)
(* the packet, if the packet is in the order of timetokens and no job has  *)
(* been stopped.                                                           *)
EventCovers ==
    [][\A j \in Job :
         /\ cancelled = {} /\ pc[j] = "report" /\ pc'[j] = "after"
         /\ Ascending(packet[j].messages)
         => \A m \in Message(packet[j]) \ Malformed :
                event'.start <= m /\ m <= event'.end]_vars

Alive == messageJob # NoJob /\ pc[messageJob] # "done"

(* Packets do not pile up behind a job that is alive.                      *)
QueueDrains == messageSyncList # <<>> ~> (messageSyncList = <<>> \/ ~Alive)

(* The screen is told that loading is over: the flag that stands for an    *)
(* event 3 still to be posted falls again while the job is alive.          *)
UnreadEnds ==
    isDecomposerUnreadMessage ~> (~isDecomposerUnreadMessage \/ ~Alive)

=============================================================================
