----------------------------- MODULE LiveComment ------------------------------
(***************************************************************************)
(* The comments of a live as its viewers and its host see them: sending    *)
(* one with a timer of 30 seconds (LiveDataRepository.sendLiveComment),    *)
(* the events that come back from the request, the timer and the socket,   *)
(* and the coroutine that turns events into rows (messageEventJob of       *)
(* LiveInteractionBaseFragment), launched by onResume and cancelled by     *)
(* onPause.                                                                *)
(*                                                                         *)
(* A cancelled coroutine only notices in delay(), at the head of its loop  *)
(* and in withContext(Main), where the rows are changed.  Cancelling       *)
(* happens on the main thread too, so the block of a cancelled coroutine   *)
(* never runs; what it did before, it did.                                 *)
(*                                                                         *)
(* The bus delivers on the main thread in the order of the posts, into a   *)
(* queue; a post is therefore an entry of that queue.                      *)
(***************************************************************************)
EXTENDS Naturals, Sequences

CONSTANTS
    Own,        \* comments this user writes (their uuids)
    Other,      \* comments of other users
    Job,        \* coroutines, each launched once
    NoJob,      \* messageEventJob = null
    NoEvent     \* a coroutine that holds no event

Comment == Own \cup Other

ASSUME CommentAssumption == Own \cap Other = {}
ASSUME LiveJobAssumption == NoJob \notin Job

VARIABLES
    request,        \* request[c]: how the request of an own comment stands
    timer,          \* timer[c]: the job with delay(30000)
    pendingMessageJobsMap,  \* own comments whose job is registered
    echoed,         \* comments the socket has brought
    messageEventSyncList,       \* events of the bus and the socket
    ownerMessageEventSyncList,  \* events of the comments just written
    messageEventJob,
    cancelled,      \* coroutines that were cancelled
    pc,             \* pc[j]: where coroutine j is
    event,          \* event[j]: the event j polled, or NoEvent
    index,          \* index[j]: the row j found for it, or 0
    messageUUIDList,    \* uuids taken into account
    messages,       \* the rows, the newest first
    lost,           \* (history) comments whose row was never added
    torn,           \* (history) uuids that a racing add() overwrote
    missed          \* (history) comments one of whose statuses found no row

net   == <<request, timer, pendingMessageJobsMap, echoed>>
lists == <<messageEventSyncList, ownerMessageEventSyncList>>
jobs  == <<messageEventJob, cancelled>>
local == <<pc, event, index>>
rows  == <<messageUUIDList, messages>>
hist  == <<lost, torn, missed>>
vars  == <<net, lists, jobs, local, rows, hist>>

Answer == {"SUCCESS", "FAILED"}
Event == [uuid : Comment, sendType : {"SENDING", "RECEIVED"} \cup Answer]
Row   == [uuid : Comment, sendStatus : {"SENDING"} \cup Answer]
Pc == {"new", "loop",
       "owner",     \* has seen that the owner's queue is not empty
       "message",   \* ... that it is empty
       "delay",
       "check",     \* looks the uuid of a comment up in messageUUIDList
       "add",       \* did not find it
       "show",      \* in withContext(Main), to add the row
       "find",      \* looks the row of a status up
       "mark",      \* in withContext(Main), to change the row
       "done"}

TypeOK ==
    /\ request \in [Own -> {"unsent", "open"} \cup Answer]
    /\ timer \in [Own -> {"off", "armed", "fired", "cancelled"}]
    /\ pendingMessageJobsMap \subseteq Own
    /\ echoed \subseteq Comment
    /\ messageEventSyncList \in Seq(Event)
    /\ ownerMessageEventSyncList \in Seq(Event)
    /\ messageEventJob \in Job \cup {NoJob}
    /\ cancelled \subseteq Job
    /\ pc \in [Job -> Pc]
    /\ event \in [Job -> Event \cup {NoEvent}]
    /\ index \in [Job -> Nat]
    /\ messageUUIDList \subseteq Comment
    /\ messages \in Seq(Row)
    /\ lost \subseteq Comment /\ torn \subseteq Comment
    /\ missed \subseteq Comment

Init ==
    /\ request = [c \in Own |-> "unsent"]
    /\ timer = [c \in Own |-> "off"]
    /\ pendingMessageJobsMap = {}
    /\ echoed = {}
    /\ messageEventSyncList = <<>>
    /\ ownerMessageEventSyncList = <<>>
    /\ messageEventJob = NoJob
    /\ cancelled = {}
    /\ pc = [j \in Job |-> "new"]
    /\ event = [j \in Job |-> NoEvent]
    /\ index = [j \in Job |-> 0]
    /\ messageUUIDList = {}
    /\ messages = <<>>
    /\ lost = {} /\ torn = {} /\ missed = {}

Resumed == messageEventJob # NoJob /\ messageEventJob \notin cancelled
Goto(j, to) == pc' = [pc EXCEPT ![j] = to]
Post(c, type) ==
    messageEventSyncList' = Append(messageEventSyncList,
                                   [uuid |-> c, sendType |-> type])

-----------------------------------------------------------------------------
(* Sending                                                                 *)

onSendSilently(c) ==   \* faulty: waits for the socket to show the comment
    /\ Resumed
    /\ request[c] = "unsent"
    /\ request' = [request EXCEPT ![c] = "open"]
    /\ timer' = [timer EXCEPT ![c] = "armed"]
    /\ pendingMessageJobsMap' = pendingMessageJobsMap \cup {c}
    /\ UNCHANGED <<echoed, lists, jobs, local, rows, hist>>

(* The user sends a comment from the input dialog.                         *)
onSend(c) ==
    /\ Resumed
    /\ request[c] = "unsent"
    /\ request' = [request EXCEPT ![c] = "open"]
    /\ timer' = [timer EXCEPT ![c] = "armed"]
    /\ pendingMessageJobsMap' = pendingMessageJobsMap \cup {c}
    /\ ownerMessageEventSyncList' =
           Append(ownerMessageEventSyncList, [uuid |-> c, sendType |-> "SENDING"])
    /\ UNCHANGED <<echoed, messageEventSyncList, jobs, local, rows, hist>>

(* The request comes back, with a response or without one.                 *)
Respond(c, answer) ==
    /\ request[c] = "open"
    /\ request' = [request EXCEPT ![c] = answer]
    /\ Post(c, answer)
    /\ UNCHANGED <<timer, pendingMessageJobsMap, echoed,
                   ownerMessageEventSyncList, jobs, local, rows, hist>>

(* Only then the timer is removed from the map and cancelled.              *)
CancelTimer(c) ==
    /\ request[c] \in Answer
    /\ c \in pendingMessageJobsMap
    /\ pendingMessageJobsMap' = pendingMessageJobsMap \ {c}
    /\ timer' = [timer EXCEPT ![c] = IF @ = "armed" THEN "cancelled" ELSE @]
    /\ UNCHANGED <<request, echoed, lists, jobs, local, rows, hist>>

TimerPostsNothing(c) ==   \* faulty
    /\ timer[c] = "armed"
    /\ timer' = [timer EXCEPT ![c] = "fired"]
    /\ UNCHANGED <<request, pendingMessageJobsMap, echoed, lists, jobs, local,
                   rows, hist>>

(* 30 seconds have passed.                                                 *)
Timer(c) ==
    /\ timer[c] = "armed"
    /\ timer' = [timer EXCEPT ![c] = "fired"]
    /\ Post(c, "FAILED")
    /\ UNCHANGED <<request, pendingMessageJobsMap, echoed,
                   ownerMessageEventSyncList, jobs, local, rows, hist>>

(* The socket brings a comment, the user's own ones included.              *)
onLiveComment(c) ==
    /\ c \notin echoed
    /\ c \in Own => request[c] # "unsent"
    /\ echoed' = echoed \cup {c}
    /\ Post(c, "RECEIVED")
    /\ UNCHANGED <<request, timer, pendingMessageJobsMap,
                   ownerMessageEventSyncList, jobs, local, rows, hist>>

-----------------------------------------------------------------------------
(* The coroutine's launch and end                                          *)

onResume(j) ==
    /\ ~Resumed
    /\ pc[j] = "new"
    /\ messageEventJob' = j
    /\ Goto(j, "loop")
    /\ UNCHANGED <<net, lists, cancelled, event, index, rows, hist>>

onPause ==
    /\ Resumed
    /\ cancelled' = cancelled \cup {messageEventJob}
    /\ UNCHANGED <<net, lists, messageEventJob, local, rows, hist>>

End(j) ==
    /\ pc[j] \in {"loop", "delay"}
    /\ j \in cancelled
    /\ Goto(j, "done")
    /\ UNCHANGED <<net, lists, jobs, event, index, rows, hist>>

-----------------------------------------------------------------------------
(* Polling                                                                 *)

Look(j) ==
    /\ pc[j] = "loop"
    /\ j \notin cancelled
    /\ Goto(j, IF ownerMessageEventSyncList = <<>> THEN "message" ELSE "owner")
    /\ UNCHANGED <<net, lists, jobs, event, index, rows, hist>>

(* j goes on with event e: a comment, or the status of one.                *)
Take(j, e) ==
    /\ event' = [event EXCEPT ![j] = e]
    /\ Goto(j, IF e.sendType \in Answer THEN "find" ELSE "check")

(* Back to the head of the loop.                                           *)
Finish(j) ==
    /\ Goto(j, "loop")
    /\ event' = [event EXCEPT ![j] = NoEvent]
    /\ index' = [index EXCEPT ![j] = 0]

(* Another coroutine may have emptied the queue since j looked.            *)
PollOwner(j) ==
    /\ pc[j] = "owner"
    /\ IF ownerMessageEventSyncList = <<>>
       THEN Goto(j, "loop") /\ UNCHANGED <<event, ownerMessageEventSyncList>>
       ELSE /\ Take(j, Head(ownerMessageEventSyncList))
            /\ ownerMessageEventSyncList' = Tail(ownerMessageEventSyncList)
    /\ UNCHANGED <<net, messageEventSyncList, jobs, index, rows, hist>>

PollMessage(j) ==
    /\ pc[j] = "message"
    /\ IF messageEventSyncList = <<>>
       THEN Goto(j, "delay") /\ UNCHANGED <<event, messageEventSyncList>>
       ELSE /\ Take(j, Head(messageEventSyncList))
            /\ messageEventSyncList' = Tail(messageEventSyncList)
    /\ UNCHANGED <<net, ownerMessageEventSyncList, jobs, index, rows, hist>>

Wake(j) ==
    /\ pc[j] = "delay"
    /\ j \notin cancelled
    /\ Goto(j, "loop")
    /\ UNCHANGED <<net, lists, jobs, event, index, rows, hist>>

-----------------------------------------------------------------------------
(* A comment: SENDING, or RECEIVED                                         *)

CheckNothing(j) ==   \* faulty: does not look
    /\ pc[j] = "check"
    /\ Goto(j, "add")
    /\ UNCHANGED <<net, lists, jobs, event, index, rows, hist>>

Check(j) ==
    /\ pc[j] = "check"
    /\ IF event[j].uuid \in messageUUIDList
       THEN Finish(j)
       ELSE Goto(j, "add") /\ UNCHANGED <<event, index>>
    /\ UNCHANGED <<net, lists, jobs, rows, hist>>

(* The list of uuids is a plain list: of two add() calls at the same time  *)
(* one may be overwritten.                                                 *)
Add(j) ==
    /\ pc[j] = "add"
    /\ Goto(j, "show")
    /\ \/ /\ messageUUIDList' = messageUUIDList \cup {event[j].uuid}
          /\ UNCHANGED torn
       \/ /\ \E k \in Job \ {j} : pc[k] = "add"
          /\ torn' = torn \cup {event[j].uuid}
          /\ UNCHANGED messageUUIDList
    /\ UNCHANGED <<net, lists, jobs, event, index, messages, lost, missed>>

NewRow(e) == [uuid |-> e.uuid,
              sendStatus |-> IF e.sendType = "SENDING" THEN "SENDING"
                             ELSE "SUCCESS"]

ShowAlways(j) ==   \* faulty: shows even when the coroutine was cancelled
    /\ pc[j] = "show"
    /\ Finish(j)
    /\ messages' = <<NewRow(event[j])>> \o messages
    /\ UNCHANGED <<net, lists, jobs, messageUUIDList, hist>>

ShowUnanswered(j) ==   \* faulty: no row once the request was answered
    /\ pc[j] = "show"
    /\ Finish(j)
    /\ messages' = IF event[j].uuid \in Own /\ request[event[j].uuid] \in Answer
                   THEN messages ELSE <<NewRow(event[j])>> \o messages
    /\ UNCHANGED <<net, lists, jobs, messageUUIDList, hist>>

Show(j) ==
    /\ pc[j] = "show"
    /\ Finish(j)
    /\ IF j \in cancelled
       THEN lost' = lost \cup {event[j].uuid} /\ UNCHANGED messages
       ELSE messages' = <<NewRow(event[j])>> \o messages /\ UNCHANGED lost
    /\ UNCHANGED <<net, lists, jobs, messageUUIDList, torn, missed>>

-----------------------------------------------------------------------------
(* A status: SUCCESS or FAILED                                             *)

RowOf(c) == {i \in DOMAIN messages : messages[i].uuid = c}
First(S) == CHOOSE i \in S : \A k \in S : i <= k

Find(j) ==
    /\ pc[j] = "find"
    /\ LET S == RowOf(event[j].uuid)
       IN  IF S = {}
           THEN /\ Finish(j)
                /\ missed' = missed \cup {event[j].uuid}
           ELSE /\ Goto(j, "mark")
                /\ index' = [index EXCEPT ![j] = First(S)]
                /\ UNCHANGED <<event, missed>>
    /\ UNCHANGED <<net, lists, jobs, rows, lost, torn>>

MarkNewest(j) ==   \* faulty: does not use the index
    /\ pc[j] = "mark"
    /\ Finish(j)
    /\ messages' = [messages EXCEPT ![1].sendStatus = event[j].sendType]
    /\ UNCHANGED <<net, lists, jobs, messageUUIDList, hist>>

MarkAlways(j) ==   \* faulty: marks even when the coroutine was cancelled
    /\ pc[j] = "mark"
    /\ Finish(j)
    /\ messages' = [messages EXCEPT ![index[j]].sendStatus = event[j].sendType]
    /\ UNCHANGED <<net, lists, jobs, messageUUIDList, hist>>

Mark(j) ==
    /\ pc[j] = "mark"
    /\ Finish(j)
    /\ IF j \in cancelled
       THEN missed' = missed \cup {event[j].uuid} /\ UNCHANGED messages
       ELSE /\ messages' = [messages EXCEPT
                               ![index[j]].sendStatus = event[j].sendType]
            /\ UNCHANGED missed
    /\ UNCHANGED <<net, lists, jobs, messageUUIDList, lost, torn>>

-----------------------------------------------------------------------------
Work(j) ==
    \/ End(j) \/ Look(j) \/ PollOwner(j) \/ PollMessage(j) \/ Wake(j)
    \/ Check(j) \/ Add(j) \/ Show(j) \/ Find(j) \/ Mark(j)

Next ==
    \/ \E c \in Own : \/ onSend(c) \/ CancelTimer(c) \/ Timer(c)
                      \/ \E a \in Answer : Respond(c, a)
    \/ \E c \in Comment : onLiveComment(c)
    \/ \E j \in Job : onResume(j) \/ Work(j)
    \/ onPause

Spec == Init /\ [][Next]_vars

(* Dispatchers.IO and the main thread run what is dispatched, and          *)
(* delay(30000) elapses; nothing is assumed of the server.                 *)
FairSpec == /\ Spec
            /\ \A j \in Job : WF_vars(Work(j))
            /\ \A c \in Own : WF_vars(Timer(c))

-----------------------------------------------------------------------------
(* Properties                                                              *)

(* A comment that comes back from the socket, while the one just written   *)
(* is shown by an overlapping coroutine, is not shown a second time, as    *)
(* long as no add() of its uuid was overwritten.                           *)
OneRow ==
    \A i, k \in DOMAIN messages :
        i # k => messages[i].uuid # messages[k].uuid
                 \/ messages[i].uuid \in torn

(* What a row says has happened to the comment of that row: the index that *)
(* was computed off the main thread is never used on another row, whoever  *)
(* added rows in the meantime.                                             *)
StatusTrue ==
    \A i \in DOMAIN messages :
        LET c == messages[i].uuid
            s == messages[i].sendStatus
        IN  \/ s = "SENDING" /\ c \in Own /\ request[c] # "unsent"
            \/ s = "SUCCESS" /\ (c \in echoed \/ (c \in Own /\ request[c] = "SUCCESS"))
            \/ s = "FAILED"  /\ c \in Own /\ (\/ request[c] = "FAILED"
                                              \/ timer[c] = "fired")

Shown == {messages[i].uuid : i \in DOMAIN messages}
Showing == {event[j].uuid : j \in {k \in Job : pc[k] = "show"}}

(* A uuid that blocks later events of its comment belongs to a row, to one *)
(* about to be added, or to one that a cancelled coroutine did not add.    *)
RegisteredShown == messageUUIDList \subseteq Shown \cup Showing \cup lost

Queued(s) == {s[i].uuid : i \in DOMAIN s}
Deciding == {event[j].uuid : j \in {k \in Job : pc[k] \in {"check", "add", "show"}}}

(* While the screen has not been left, a comment the user sent is on its   *)
(* way to the rows or in them.                                             *)
SentIsShown ==
    cancelled = {} =>
        \A c \in Own : request[c] # "unsent" =>
            c \in Queued(ownerMessageEventSyncList) \cup Deciding \cup Shown

(* What is still to be applied to the rows of c.                           *)
Pending(c) ==
    \/ \E i \in DOMAIN messageEventSyncList :
           messageEventSyncList[i].uuid = c
    \/ \E j \in Job : pc[j] \in {"find", "mark"} /\ event[j].uuid = c

(* Once the answer has cancelled the timer and everything posted has been  *)
(* applied, the row of a comment says what the answer was.                 *)
AnswerShown ==
    \A i \in DOMAIN messages :
        LET c == messages[i].uuid
        IN  c \in Own /\ timer[c] = "cancelled" /\ ~Pending(c)
                /\ c \notin missed \cup torn
                => messages[i].sendStatus = request[c]

Spinning(c) == \E i \in DOMAIN messages :
                   messages[i] = [uuid |-> c, sendStatus |-> "SENDING"]

(* A comment shown as being sent does not stay so while the screen is up,  *)
(* whether or not the server ever answers, unless a status of it came      *)
(* before its row or was in the hands of a cancelled coroutine, or its row *)
(* is there twice.                                                         *)
CommentSettles ==
    \A c \in Own : Spinning(c) ~> \/ ~Spinning(c)
                                    \/ c \in missed \cup torn
                                    \/ ~Resumed

(* The comment on sendLiveComment: "if the job was not cancelled, 30       *)
(* seconds later look up the send status, and if it is still sending set   *)
(* it to failed".  The code does not keep it: the timer does not look.     *)
TimerFailsOnlySending ==
    [][\A i \in DOMAIN messages :
          LET r == messages[i]
          IN  r.uuid \in Own /\ r.sendStatus = "SUCCESS"
                  /\ request[r.uuid] = "SUCCESS"
                  => messages'[i + Len(messages') - Len(messages)].sendStatus
                         # "FAILED"]_vars
=============================================================================
