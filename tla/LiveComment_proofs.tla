-------------------------- MODULE LiveComment_proofs --------------------------
(* Proofs about LiveComment for any comments, any number of coroutines and *)
(* any overlap of them.                                                    *)
EXTENDS LiveComment, WellFoundedInduction, TLAPS

-----------------------------------------------------------------------------
(* Sequences                                                               *)

(* Adding at the end.                                                      *)
LEMMA AppendFacts ==
    ASSUME NEW S, NEW s \in Seq(S), NEW e \in S
    PROVE  /\ Append(s, e) \in Seq(S)
           /\ \A i \in DOMAIN Append(s, e) :
                  Append(s, e)[i] = e \/ (i \in DOMAIN s /\ Append(s, e)[i] = s[i])
OBVIOUS

(* Taking from the front.                                                  *)
LEMMA PollFacts ==
    ASSUME NEW S, NEW s \in Seq(S), s # <<>>
    PROVE  /\ Head(s) \in S /\ Tail(s) \in Seq(S)
           /\ 1 \in DOMAIN s /\ Head(s) = s[1]
           /\ \A i \in DOMAIN Tail(s) : i + 1 \in DOMAIN s /\ Tail(s)[i] = s[i + 1]
OBVIOUS

(* Adding at the front.                                                    *)
LEMMA ConsFacts ==
    ASSUME NEW S, NEW s \in Seq(S), NEW r \in S
    PROVE  /\ <<r>> \o s \in Seq(S)
           /\ 1 \in DOMAIN (<<r>> \o s) /\ (<<r>> \o s)[1] = r
           /\ \A i \in DOMAIN s : i + 1 \in DOMAIN (<<r>> \o s)
                                /\ (<<r>> \o s)[i + 1] = s[i]
           /\ \A i \in DOMAIN (<<r>> \o s) :
                  i = 1 \/ (i - 1 \in DOMAIN s /\ (<<r>> \o s)[i] = s[i - 1])
<1>1. <<r>> \o s \in Seq(S) /\ Len(<<r>> \o s) = 1 + Len(s)
    OBVIOUS
<1>2. \A i \in 1..(1 + Len(s)) :
          (<<r>> \o s)[i] = IF i = 1 THEN r ELSE s[i - 1]
    OBVIOUS
<1>3. DOMAIN (<<r>> \o s) = 1..(1 + Len(s)) /\ DOMAIN s = 1..Len(s) /\ Len(s) \in Nat
    BY <1>1
<1> QED BY <1>1, <1>2, <1>3

-----------------------------------------------------------------------------
(* The inductive invariant                                                 *)

(* A coroutine that was not cancelled is messageEventJob.                  *)
OneLive ==
    /\ \A j \in Job : pc[j] \notin {"new", "done"} /\ j \notin cancelled
                          => j = messageEventJob
    /\ cancelled \subseteq {j \in Job : pc[j] # "new"}
    /\ messageEventJob # NoJob => pc[messageEventJob] # "new"

(* No timer runs before the comment is sent.                               *)
TimerOff == \A c \in Own : request[c] = "unsent" => timer[c] = "off"

(* What an event says is so.                                               *)
EventTrue(e) ==
    LET c == e.uuid
        s == e.sendType
    IN  \/ s = "SENDING" /\ c \in Own /\ request[c] # "unsent"
        \/ s = "RECEIVED" /\ c \in echoed
        \/ s = "SUCCESS" /\ c \in Own /\ request[c] = "SUCCESS"
        \/ s = "FAILED" /\ c \in Own /\ (request[c] = "FAILED" \/ timer[c] = "fired")

EventsTrue ==
    /\ \A i \in DOMAIN messageEventSyncList : EventTrue(messageEventSyncList[i])
    /\ \A i \in DOMAIN ownerMessageEventSyncList :
           EventTrue(ownerMessageEventSyncList[i])
    /\ \A j \in Job : pc[j] \in {"check", "add", "show", "find", "mark"} =>
           event[j] \in Event /\ EventTrue(event[j])
    /\ \A j \in Job : pc[j] \in {"check", "add", "show"} =>
           event[j].sendType \in {"SENDING", "RECEIVED"}
    /\ \A j \in Job : pc[j] \in {"find", "mark"} =>
           event[j].sendType \in Answer

(* The row a coroutine has found is still the one it found.                *)
IndexTrue ==
    \A j \in Job : pc[j] = "mark" /\ j \notin cancelled =>
        /\ index[j] \in DOMAIN messages
        /\ messages[index[j]].uuid = event[j].uuid

(* What is shown was registered, and what is about to be shown is not yet  *)
(* shown, unless an add() was overwritten.                                 *)
Fresh ==
    /\ Shown \subseteq messageUUIDList \cup torn
    /\ \A j \in Job : pc[j] = "show" => event[j].uuid \in messageUUIDList \cup torn
    /\ \A j \in Job : pc[j] \in {"add", "show"} /\ j \notin cancelled =>
           event[j].uuid \notin Shown \ torn

IInv ==
    /\ TypeOK /\ OneLive /\ TimerOff /\ EventsTrue /\ IndexTrue /\ Fresh
    /\ OneRow /\ StatusTrue /\ RegisteredShown

(* Back at the head of the loop nothing is in hand.                        *)
LEMMA FinishType ==
    ASSUME TypeOK, NEW j \in Job, Finish(j)
    PROVE  /\ pc' \in [Job -> Pc]
           /\ event' \in [Job -> Event \cup {NoEvent}]
           /\ index' \in [Job -> Nat]
BY DEF TypeOK, Finish, Goto, Pc

(* The first row of a comment is one of its rows.                          *)
LEMMA FirstFacts ==
    ASSUME TypeOK, NEW c, RowOf(c) # {}
    PROVE  /\ First(RowOf(c)) \in DOMAIN messages
           /\ First(RowOf(c)) \in Nat
           /\ messages[First(RowOf(c))].uuid = c
<1>1. RowOf(c) \subseteq Nat
    BY DEF RowOf, TypeOK
<1>2. PICK i \in RowOf(c) : \A k \in RowOf(c) : ~(<<k, i>> \in OpToRel(<, Nat))
    BY <1>1, NatLessThanWellFounded, WFMin
<1>3. ASSUME NEW k \in RowOf(c) PROVE i <= k
  <2>1. k \in Nat /\ i \in Nat /\ <<k, i>> \in Nat \X Nat
      BY <1>1
  <2>2. ~(k < i)
      BY <1>2, <2>1 DEF OpToRel
  <2> QED BY <2>1, <2>2
<1>4. First(RowOf(c)) \in RowOf(c)
    BY <1>3 DEF First
<1> QED BY <1>1, <1>4 DEF RowOf

LEMMA InitIInv == Init => IInv
<1> SUFFICES ASSUME Init PROVE IInv
    OBVIOUS
<1> USE DEF Init
<1>1. TypeOK
    BY DEF TypeOK, Pc
<1>2. OneLive /\ TimerOff /\ EventsTrue /\ IndexTrue
    BY DEF OneLive, TimerOff, EventsTrue, IndexTrue
<1>3. Fresh /\ OneRow /\ StatusTrue /\ RegisteredShown
    BY DEF Fresh, OneRow, StatusTrue, RegisteredShown, Shown, Showing
<1> QED BY <1>1, <1>2, <1>3 DEF IInv

-----------------------------------------------------------------------------
(* What the steps are                                                      *)

(* Steps of the request, the timer and the socket.                         *)
Network ==
    \/ \E c \in Own : \/ onSend(c) \/ CancelTimer(c) \/ Timer(c)
                      \/ \E a \in Answer : Respond(c, a)
    \/ \E c \in Comment : onLiveComment(c)

LEMMA NextSteps ==
    Next <=> \/ Network \/ onPause
             \/ \E j \in Job : onResume(j) \/ Work(j)
BY DEF Next, Network

LEMMA NetworkFrame ==
    ASSUME Network PROVE UNCHANGED <<jobs, local, rows, hist>>
BY DEF Network, onSend, CancelTimer, Timer, Respond, onLiveComment

(* What is known of a comment stays known.                                 *)
Grows ==
    /\ echoed \subseteq echoed'
    /\ \A c \in Own : /\ request[c] # "unsent" => request'[c] # "unsent"
                      /\ request[c] \in Answer => request'[c] = request[c]
                      /\ timer[c] = "fired" => timer'[c] = "fired"

(* At most one event is added to one of the queues, and it is true.        *)
Adds ==
    \/ UNCHANGED lists
    \/ \E e \in Event : /\ EventTrue(e)'
                        /\ messageEventSyncList' = Append(messageEventSyncList, e)
                        /\ UNCHANGED ownerMessageEventSyncList
    \/ \E e \in Event : /\ EventTrue(e)'
                        /\ ownerMessageEventSyncList' =
                               Append(ownerMessageEventSyncList, e)
                        /\ UNCHANGED messageEventSyncList

NetType ==
    /\ request \in [Own -> {"unsent", "open"} \cup Answer]
    /\ timer \in [Own -> {"off", "armed", "fired", "cancelled"}]
    /\ pendingMessageJobsMap \subseteq Own
    /\ echoed \subseteq Comment

LEMMA NetworkStep ==
    ASSUME NetType, TimerOff, Network
    PROVE  NetType' /\ TimerOff' /\ Grows /\ Adds
<1> USE DEF NetType, TimerOff, Grows, Answer, Comment
<1>e. \A c \in Comment, t \in {"SENDING", "RECEIVED", "SUCCESS", "FAILED"} :
          [uuid |-> c, sendType |-> t] \in Event
    BY DEF Event
<1>1. ASSUME NEW c \in Own, onSend(c) PROVE NetType' /\ TimerOff' /\ Grows /\ Adds
  <2>1. PICK e \in Event : e = [uuid |-> c, sendType |-> "SENDING"]
      BY <1>e
  <2>2. EventTrue(e)'
      BY <1>1, <2>1 DEF onSend, EventTrue
  <2>3. Adds
      BY <1>1, <2>1, <2>2 DEF onSend, Adds
  <2> QED BY <1>1, <2>3 DEF onSend
<1>2. ASSUME NEW c \in Own, CancelTimer(c)
      PROVE  NetType' /\ TimerOff' /\ Grows /\ Adds
  <2>1. Adds
      BY <1>2 DEF CancelTimer, Adds
  <2> QED BY <1>2, <2>1 DEF CancelTimer
<1>3. ASSUME NEW c \in Own, Timer(c) PROVE NetType' /\ TimerOff' /\ Grows /\ Adds
  <2>1. PICK e \in Event : e = [uuid |-> c, sendType |-> "FAILED"]
      BY <1>e
  <2>2. EventTrue(e)'
      BY <1>3, <2>1 DEF Timer, EventTrue
  <2>3. Adds
      BY <1>3, <2>1, <2>2 DEF Timer, Post, Adds
  <2> QED BY <1>3, <2>3 DEF Timer
<1>4. ASSUME NEW c \in Own, NEW a \in Answer, Respond(c, a)
      PROVE  NetType' /\ TimerOff' /\ Grows /\ Adds
  <2>1. PICK e \in Event : e = [uuid |-> c, sendType |-> a]
      BY <1>e
  <2>2. EventTrue(e)'
      BY <1>4, <2>1 DEF Respond, EventTrue
  <2>3. Adds
      BY <1>4, <2>1, <2>2 DEF Respond, Post, Adds
  <2> QED BY <1>4, <2>3 DEF Respond
<1>5. ASSUME NEW c \in Comment, onLiveComment(c)
      PROVE  NetType' /\ TimerOff' /\ Grows /\ Adds
  <2>1. PICK e \in Event : e = [uuid |-> c, sendType |-> "RECEIVED"]
      BY <1>e
  <2>2. EventTrue(e)'
      BY <1>5, <2>1 DEF onLiveComment, EventTrue
  <2>3. Adds
      BY <1>5, <2>1, <2>2 DEF onLiveComment, Post, Adds
  <2> QED BY <1>5, <2>3 DEF onLiveComment
<1> QED BY <1>1, <1>2, <1>3, <1>4, <1>5 DEF Network

(* Work of one coroutine leaves the others and the network alone.          *)
LEMMA WorkFrame ==
    ASSUME TypeOK, NEW j \in Job, Work(j)
    PROVE  /\ UNCHANGED <<net, jobs>>
           /\ \A k \in Job : k # j => /\ pc'[k] = pc[k]
                                      /\ event'[k] = event[k]
                                      /\ index'[k] = index[k]
           /\ pc[j] \notin {"new", "done"} /\ pc'[j] # "new"
<1> USE DEF TypeOK, Goto
<1>1. CASE End(j) \/ Look(j) \/ Wake(j)
    BY <1>1 DEF End, Look, Wake
<1>2. CASE PollOwner(j)
    BY <1>2 DEF PollOwner, Take
<1>3. CASE PollMessage(j)
    BY <1>3 DEF PollMessage, Take
<1>4. CASE Check(j) \/ Add(j)
    BY <1>4 DEF Check, Add, Finish
<1>5. CASE Show(j)
    BY <1>5 DEF Show, Finish
<1>6. CASE Find(j)
    BY <1>6 DEF Find, Finish
<1>7. CASE Mark(j)
    BY <1>7 DEF Mark, Finish
<1> QED BY <1>1, <1>2, <1>3, <1>4, <1>5, <1>6, <1>7 DEF Work

(* Polling hands the head of a queue to the coroutine, or finds nothing.   *)
Polls(j) ==
    \/ pc'[j] \in {"loop", "delay"} /\ UNCHANGED <<event, lists>>
    \/ \E e \in Event :
           /\ EventTrue(e)
           /\ event' = [event EXCEPT ![j] = e]
           /\ pc'[j] = IF e.sendType \in Answer THEN "find" ELSE "check"
           /\ \/ /\ messageEventSyncList # <<>>
                 /\ messageEventSyncList' = Tail(messageEventSyncList)
                 /\ UNCHANGED ownerMessageEventSyncList
              \/ /\ ownerMessageEventSyncList # <<>>
                 /\ ownerMessageEventSyncList' = Tail(ownerMessageEventSyncList)
                 /\ UNCHANGED messageEventSyncList

LEMMA PollStep ==
    ASSUME TypeOK, EventsTrue, NEW j \in Job, PollOwner(j) \/ PollMessage(j)
    PROVE  Polls(j) /\ UNCHANGED <<net, jobs, index, rows, hist>>
<1> USE DEF TypeOK, Goto
<1>1. CASE PollOwner(j)
  <2>1. CASE ownerMessageEventSyncList = <<>>
      BY <1>1, <2>1 DEF PollOwner, Polls, lists
  <2>2. CASE ownerMessageEventSyncList # <<>>
    <3>1. PICK e \in Event : /\ e = Head(ownerMessageEventSyncList)
                             /\ EventTrue(e)
        BY <2>2, PollFacts DEF EventsTrue
    <3> QED BY <1>1, <2>2, <3>1 DEF PollOwner, Take, Polls
  <2> QED BY <2>1, <2>2
<1>2. CASE PollMessage(j)
  <2>1. CASE messageEventSyncList = <<>>
      BY <1>2, <2>1 DEF PollMessage, Polls, lists
  <2>2. CASE messageEventSyncList # <<>>
    <3>1. PICK e \in Event : /\ e = Head(messageEventSyncList)
                             /\ EventTrue(e)
        BY <2>2, PollFacts DEF EventsTrue
    <3> QED BY <1>2, <2>2, <3>1 DEF PollMessage, Take, Polls
  <2> QED BY <2>1, <2>2
<1> QED BY <1>1, <1>2

(* The steps of a coroutine that change the rows.                          *)
LEMMA RowsStep ==
    ASSUME TypeOK, NEW j \in Job, Work(j), ~Show(j), ~Mark(j)
    PROVE  UNCHANGED <<messages, lost>>
<1>1. CASE End(j) \/ Look(j) \/ Wake(j) \/ Check(j) \/ Add(j) \/ Find(j)
    BY <1>1 DEF End, Look, Wake, Check, Add, Find, rows, hist
<1>2. CASE PollOwner(j) \/ PollMessage(j)
    BY <1>2 DEF PollOwner, PollMessage, rows, hist
<1> QED BY <1>1, <1>2 DEF Work

(* Adding the row of the event in hand.                                    *)
LEMMA ShowStep ==
    ASSUME TypeOK, EventsTrue, NEW j \in Job, Show(j)
    PROVE  /\ UNCHANGED <<net, lists, jobs, messageUUIDList, torn, missed>>
           /\ pc[j] = "show" /\ pc'[j] = "loop"
           /\ j \in cancelled => /\ UNCHANGED messages
                                 /\ lost' = lost \cup {event[j].uuid}
           /\ j \notin cancelled => /\ UNCHANGED lost
                                    /\ NewRow(event[j]) \in Row
                                    /\ messages' = <<NewRow(event[j])>> \o messages
<1>1. pc[j] = "show" => event[j] \in Event
    BY DEF EventsTrue
<1>2. pc[j] = "show" => NewRow(event[j]) \in Row
    BY <1>1 DEF NewRow, Row, Event, Answer
<1> QED BY <1>2 DEF Show, Finish, Goto, TypeOK

(* Changing the status of a row leaves every uuid where it is.             *)
LEMMA MarkStep ==
    ASSUME TypeOK, EventsTrue, IndexTrue, NEW j \in Job, Mark(j)
    PROVE  /\ UNCHANGED <<net, lists, jobs, messageUUIDList, lost, torn>>
           /\ pc[j] = "mark" /\ pc'[j] = "loop"
           /\ messages' \in Seq(Row)
           /\ DOMAIN messages' = DOMAIN messages
           /\ \A i \in DOMAIN messages :
                  /\ messages'[i].uuid = messages[i].uuid
                  /\ \/ messages'[i].sendStatus = messages[i].sendStatus
                     \/ /\ messages[i].uuid = event[j].uuid
                        /\ messages'[i].sendStatus = event[j].sendType
<1>1. /\ UNCHANGED <<net, lists, jobs, messageUUIDList, lost, torn>>
      /\ pc[j] = "mark" /\ pc'[j] = "loop"
    BY DEF Mark, Finish, Goto, TypeOK
<1>2. CASE j \in cancelled
    BY <1>1, <1>2 DEF Mark, TypeOK
<1>3. CASE j \notin cancelled
  <2>1. PICK n \in DOMAIN messages, a \in Answer :
            /\ n = index[j] /\ a = event[j].sendType
            /\ messages[n].uuid = event[j].uuid
      BY <1>1, <1>3 DEF IndexTrue, EventsTrue
  <2>2. messages' = [messages EXCEPT ![n].sendStatus = a]
      BY <1>3, <2>1 DEF Mark
  <2>3. \A i \in DOMAIN messages : messages[i] \in Row
      BY DEF TypeOK
  <2>4. /\ DOMAIN messages' = DOMAIN messages
        /\ \A i \in DOMAIN messages : i # n => messages'[i] = messages[i]
        /\ messages'[n] = [messages[n] EXCEPT !.sendStatus = a]
      BY <2>1, <2>2
  <2>5. /\ messages'[n].uuid = messages[n].uuid
        /\ messages'[n].sendStatus = a
        /\ messages'[n] \in Row
      BY <2>1, <2>3, <2>4 DEF Row
  <2>6. messages' \in Seq(Row)
      BY <2>2, <2>3, <2>4, <2>5 DEF TypeOK
  <2> QED BY <1>1, <2>1, <2>4, <2>5, <2>6
<1> QED BY <1>2, <1>3

-----------------------------------------------------------------------------
(* Every step keeps the invariant.                                         *)

LEMMA TypeStep ==
    TypeOK /\ TimerOff /\ EventsTrue /\ IndexTrue /\ [Next]_vars
        => TypeOK' /\ TimerOff'
<1> SUFFICES ASSUME TypeOK, TimerOff, EventsTrue, IndexTrue, [Next]_vars
             PROVE  TypeOK' /\ TimerOff'
    OBVIOUS
<1>n. TypeOK => NetType
    BY DEF TypeOK, NetType
<1>1. CASE Network
  <2>1. NetType' /\ TimerOff' /\ Adds
      BY <1>1, <1>n, NetworkStep
  <2>2. /\ messageEventSyncList' \in Seq(Event)
        /\ ownerMessageEventSyncList' \in Seq(Event)
    <3>1. /\ messageEventSyncList \in Seq(Event)
          /\ ownerMessageEventSyncList \in Seq(Event)
        BY DEF TypeOK
    <3>2. CASE UNCHANGED lists
        BY <3>1, <3>2 DEF lists
    <3>3. ASSUME NEW e \in Event
          PROVE  /\ Append(messageEventSyncList, e) \in Seq(Event)
                 /\ Append(ownerMessageEventSyncList, e) \in Seq(Event)
        BY <3>1, AppendFacts
    <3> QED BY <2>1, <3>1, <3>2, <3>3 DEF Adds
  <2>3. UNCHANGED <<jobs, local, rows, hist>>
      BY <1>1, NetworkFrame
  <2> QED BY <2>1, <2>2, <2>3 DEF TypeOK, NetType, jobs, local, rows, hist
<1>2. ASSUME NEW j \in Job, onResume(j) PROVE TypeOK' /\ TimerOff'
    BY <1>2 DEF onResume, Goto, Pc, TypeOK, TimerOff, net, lists, rows, hist
<1>3. CASE onPause
    BY <1>3 DEF onPause, Resumed, TypeOK, TimerOff, net, lists, local, rows, hist
<1>4. ASSUME NEW j \in Job, Work(j) PROVE TypeOK' /\ TimerOff'
  <2>1. UNCHANGED <<net, jobs>>
      BY <1>4, WorkFrame
  <2> SUFFICES /\ lists' \in Seq(Event) \X Seq(Event)
               /\ pc' \in [Job -> Pc]
               /\ event' \in [Job -> Event \cup {NoEvent}]
               /\ index' \in [Job -> Nat]
               /\ messageUUIDList' \subseteq Comment
               /\ messages' \in Seq(Row)
               /\ lost' \subseteq Comment /\ torn' \subseteq Comment
               /\ missed' \subseteq Comment
      BY <2>1 DEF TypeOK, TimerOff, net, jobs, lists
  <2>e. pc[j] \in {"check", "add", "show", "find", "mark"} =>
            event[j].uuid \in Comment
      BY DEF EventsTrue, Event
  <2> USE DEF TypeOK, Goto, Finish, Pc, lists
  <2>2. CASE End(j) \/ Look(j) \/ Wake(j)
      BY <1>4, <2>2 DEF End, Look, Wake, rows, hist
  <2>3. CASE PollOwner(j) \/ PollMessage(j)
    <3>1. Polls(j) /\ UNCHANGED <<index, rows, hist>>
        BY <2>3, PollStep
    <3>0. /\ messageEventSyncList \in Seq(Event)
          /\ ownerMessageEventSyncList \in Seq(Event)
        OBVIOUS
    <3>5. /\ messageEventSyncList # <<>> => Tail(messageEventSyncList) \in Seq(Event)
          /\ ownerMessageEventSyncList # <<>> =>
                 Tail(ownerMessageEventSyncList) \in Seq(Event)
        BY <3>0, PollFacts
    <3>2. lists' \in Seq(Event) \X Seq(Event)
        BY <3>0, <3>1, <3>5 DEF Polls
    <3>3. event' \in [Job -> Event \cup {NoEvent}]
        BY <3>1 DEF Polls
    <3>4. pc' \in [Job -> Pc]
        BY <2>3 DEF PollOwner, PollMessage, Take
    <3> QED BY <3>1, <3>2, <3>3, <3>4 DEF rows, hist
  <2>4. CASE Check(j)
    <3>1. UNCHANGED <<lists, rows, hist>>
        BY <2>4 DEF Check
    <3>2. CASE Finish(j)
        BY <3>1, <3>2, FinishType DEF rows, hist
    <3>3. CASE Goto(j, "add") /\ UNCHANGED <<event, index>>
        BY <3>1, <3>3 DEF rows, hist
    <3> QED BY <2>4, <3>2, <3>3 DEF Check
  <2>5. CASE Add(j)
      BY <2>5, <2>e DEF Add
  <2>6. CASE Show(j)
    <3>1. messages' \in Seq(Row)
      <4>1. messages \in Seq(Row)
          OBVIOUS
      <4>2. CASE j \in cancelled
          BY <2>6, <4>1, <4>2, ShowStep
      <4>3. CASE j \notin cancelled
        <5>1. PICK r \in Row : r = NewRow(event[j])
            BY <2>6, <4>3, ShowStep
        <5>2. messages' = <<r>> \o messages
            BY <2>6, <4>3, <5>1, ShowStep
        <5> QED BY <4>1, <5>2, ConsFacts
      <4> QED BY <4>2, <4>3
    <3>2. lost' \subseteq Comment
        BY <2>6, ShowStep, <2>e
    <3>3. UNCHANGED <<lists, messageUUIDList, torn, missed>>
        BY <2>6 DEF Show
    <3>4. Finish(j)
        BY <2>6 DEF Show
    <3> QED BY <3>1, <3>2, <3>3, <3>4, FinishType
  <2>7. CASE Find(j)
    <3>1. UNCHANGED <<lists, rows, lost, torn>> /\ missed' \subseteq Comment
        BY <2>7, <2>e DEF Find
    <3>2. CASE Finish(j)
        BY <3>1, <3>2, FinishType DEF rows
    <3>3. CASE RowOf(event[j].uuid) # {}
      <4>1. First(RowOf(event[j].uuid)) \in Nat
          BY <3>3, FirstFacts
      <4>2. /\ Goto(j, "mark") /\ UNCHANGED event
            /\ index' = [index EXCEPT ![j] = First(RowOf(event[j].uuid))]
          BY <2>7, <3>3 DEF Find
      <4> QED BY <3>1, <4>1, <4>2 DEF rows
    <3> QED BY <2>7, <3>2, <3>3 DEF Find
  <2>8. CASE Mark(j)
    <3>1. messages' \in Seq(Row)
        BY <2>8, MarkStep
    <3>2. missed' \subseteq Comment
        BY <2>8, <2>e DEF Mark
    <3> QED BY <2>8, <3>1, <3>2 DEF Mark
  <2> QED BY <1>4, <2>2, <2>3, <2>4, <2>5, <2>6, <2>7, <2>8 DEF Work
<1>5. CASE UNCHANGED vars
    BY <1>5 DEF vars, TypeOK, TimerOff, net, lists, jobs, local, rows, hist
<1> QED BY <1>1, <1>2, <1>3, <1>4, <1>5, NextSteps

(* Steps that are not a coroutine's work change no row and give nobody a   *)
(* new event.                                                              *)
LEMMA QuietFrame ==
    ASSUME TypeOK, \/ Network \/ onPause \/ \E j \in Job : onResume(j)
                   \/ UNCHANGED vars
    PROVE  /\ UNCHANGED <<event, index, rows, hist>>
           /\ cancelled \subseteq cancelled'
           /\ \A k \in Job : pc'[k] \in {pc[k], "loop"}
           /\ \A k \in Job : pc[k] \notin {"new", "loop"} => pc'[k] = pc[k]
<1>1. CASE Network
    BY <1>1, NetworkFrame DEF jobs, local
<1>2. CASE onPause
    BY <1>2 DEF onPause, local
<1>3. ASSUME NEW j \in Job, onResume(j)
      PROVE  /\ UNCHANGED <<event, index, rows, hist, cancelled>>
             /\ pc[j] = "new" /\ pc' = [pc EXCEPT ![j] = "loop"]
    BY <1>3 DEF onResume, Goto
<1>4. CASE UNCHANGED vars
    BY <1>4 DEF vars, jobs, local
<1> QED BY <1>1, <1>2, <1>3, <1>4 DEF TypeOK

(* What is true of an event stays true.                                    *)
LEMMA EventStays ==
    ASSUME Grows \/ UNCHANGED net, NEW e \in Event, EventTrue(e)
    PROVE  EventTrue(e)'
BY DEF Grows, net, EventTrue, Event, Answer, Comment

(* Work of a coroutine forgets nothing about the rows, and only Show() adds *)
(* one.                                                                    *)
LEMMA WorkRows ==
    ASSUME TypeOK, EventsTrue, IndexTrue, NEW j \in Job, Work(j)
    PROVE  /\ Shown \subseteq Shown'
           /\ (Show(j) /\ j \notin cancelled) \/ Shown' = Shown
           /\ Show(j) /\ j \notin cancelled =>
                  Shown' = Shown \cup {event[j].uuid}
           /\ lost \subseteq lost' /\ torn \subseteq torn'
           /\ messageUUIDList \subseteq messageUUIDList'
<1>1. CASE Show(j) /\ j \notin cancelled
  <2>1. PICK r \in Row : /\ r = NewRow(event[j])
                         /\ messages' = <<r>> \o messages
      BY <1>1, ShowStep
  <2>2. r.uuid = event[j].uuid
      BY <2>1 DEF NewRow
  <2>3. messages \in Seq(Row)
      BY DEF TypeOK
  <2>4. /\ 1 \in DOMAIN messages' /\ messages'[1] = r
        /\ \A i \in DOMAIN messages : i + 1 \in DOMAIN messages'
                                    /\ messages'[i + 1] = messages[i]
        /\ \A i \in DOMAIN messages' :
               i = 1 \/ (i - 1 \in DOMAIN messages /\ messages'[i] = messages[i - 1])
      BY <2>1, <2>3, ConsFacts
  <2>5. Shown' = Shown \cup {r.uuid}
    <3>1. Shown' = {messages'[i].uuid : i \in DOMAIN messages'}
        BY DEF Shown
    <3> QED BY <2>4, <3>1 DEF Shown
  <2> QED BY <1>1, <2>2, <2>5, ShowStep
<1>2. CASE Show(j) /\ j \in cancelled
    BY <1>2, ShowStep DEF Shown
<1>3. CASE Mark(j)
  <2>1. Shown' = {messages'[i].uuid : i \in DOMAIN messages'}
      BY DEF Shown
  <2>2. ~Show(j)
      BY <1>3 DEF Mark, Show
  <2> QED BY <1>3, <2>1, <2>2, MarkStep DEF Shown
<1>4. CASE ~Show(j) /\ ~Mark(j)
  <2>1. UNCHANGED <<messages, lost>>
      BY <1>4, RowsStep
  <2>2. /\ torn \subseteq torn' /\ messageUUIDList \subseteq messageUUIDList'
    <3>1. CASE PollOwner(j) \/ PollMessage(j)
        BY <3>1 DEF PollOwner, PollMessage, rows, hist
    <3>2. CASE Add(j)
        BY <3>2 DEF Add
    <3>3. CASE End(j) \/ Look(j) \/ Wake(j) \/ Check(j) \/ Find(j)
        BY <3>3 DEF End, Look, Wake, Check, Find, rows, hist
    <3> QED BY <1>4, <3>1, <3>2, <3>3 DEF Work
  <2> QED BY <1>4, <2>1, <2>2 DEF Shown
<1> QED BY <1>1, <1>2, <1>3, <1>4

LEMMA OneLiveStep == IInv /\ [Next]_vars => OneLive'
<1> SUFFICES ASSUME TypeOK, OneLive, [Next]_vars PROVE OneLive'
    BY DEF IInv
<1> USE DEF OneLive, TypeOK
<1>1. CASE Network
    BY <1>1, NetworkFrame DEF jobs, local
<1>2. ASSUME NEW j \in Job, onResume(j) PROVE OneLive'
  <2>1. /\ pc[j] = "new" /\ pc' = [pc EXCEPT ![j] = "loop"]
        /\ messageEventJob' = j /\ UNCHANGED cancelled
        /\ ~Resumed
      BY <1>2 DEF onResume, Goto
  <2>2. ASSUME NEW k \in Job, k # j, pc'[k] \notin {"new", "done"}
        PROVE  k \in cancelled
      BY <2>1, <2>2, LiveJobAssumption DEF Resumed
  <2> QED BY <2>1, <2>2
<1>3. CASE onPause
    BY <1>3 DEF onPause, Resumed, local
<1>4. ASSUME NEW j \in Job, Work(j) PROVE OneLive'
    BY <1>4, WorkFrame DEF jobs
<1>5. CASE UNCHANGED vars
    BY <1>5 DEF vars, jobs, local
<1> QED BY <1>1, <1>2, <1>3, <1>4, <1>5, NextSteps

(* A coroutine that works while another is live was cancelled.             *)
LEMMA Cancelled ==
    ASSUME TypeOK, OneLive, NEW j \in Job, Work(j), NEW k \in Job, k # j,
           pc[k] \notin {"new", "done"}, k \notin cancelled
    PROVE  j \in cancelled
BY WorkFrame DEF OneLive

LEMMA EventsTrueStep == IInv /\ [Next]_vars => EventsTrue'
<1> SUFFICES ASSUME TypeOK, TimerOff, EventsTrue, IndexTrue, [Next]_vars
             PROVE  EventsTrue'
    BY DEF IInv
<1>0. /\ messageEventSyncList \in Seq(Event)
      /\ ownerMessageEventSyncList \in Seq(Event)
    BY DEF TypeOK
<1>a. ASSUME Grows \/ UNCHANGED net, NEW e \in Event, EventTrue(e)
      PROVE  EventTrue(e)'
    BY <1>a, EventStays
<1>b. ASSUME Grows \/ UNCHANGED net, NEW s \in Seq(Event),
             \A i \in DOMAIN s : EventTrue(s[i]), NEW i \in DOMAIN s
      PROVE  \E e \in Event : e = s[i] /\ EventTrue(e)'
    BY <1>a, <1>b
<1>1. CASE \/ Network \/ onPause \/ \E j \in Job : onResume(j)
           \/ UNCHANGED vars
  <2>1. (Grows \/ UNCHANGED net) /\ Adds
    <3>1. CASE Network
      <4>1. NetType
          BY DEF TypeOK, NetType
      <4> QED BY <3>1, <4>1, NetworkStep
    <3>2. CASE onPause \/ \E j \in Job : onResume(j)
        BY <3>2 DEF onPause, onResume, Adds
    <3>3. CASE UNCHANGED vars
        BY <3>3 DEF vars, Adds
    <3> QED BY <1>1, <3>1, <3>2, <3>3
  <2>2. ASSUME NEW s \in Seq(Event), NEW t \in Seq(Event),
               \A i \in DOMAIN s : EventTrue(s[i]),
               t = s \/ (\E e \in Event : EventTrue(e)' /\ t = Append(s, e)),
               NEW i \in DOMAIN t
        PROVE  \E e \in Event : e = t[i] /\ EventTrue(e)'
    <3>1. CASE t = s
        BY <2>1, <2>2, <3>1, <1>b
    <3>2. ASSUME NEW e \in Event, EventTrue(e)', t = Append(s, e)
          PROVE  \E d \in Event : d = t[i] /\ EventTrue(d)'
      <4>0. \A k \in DOMAIN Append(s, e) :
                \/ Append(s, e)[k] = e
                \/ k \in DOMAIN s /\ Append(s, e)[k] = s[k]
          BY AppendFacts
      <4>1. t[i] = e \/ (i \in DOMAIN s /\ t[i] = s[i])
          BY <2>2, <3>2, <4>0
      <4> QED BY <4>1, <3>2, <2>1, <2>2, <1>b
    <3> QED BY <2>2, <3>1, <3>2
  <2>3. \A i \in DOMAIN messageEventSyncList' :
            EventTrue(messageEventSyncList[i])'
    <3>1. PICK s \in Seq(Event) : s = messageEventSyncList
        BY <1>0
    <3>2. PICK t : t = messageEventSyncList'
        OBVIOUS
    <3>3. t = s \/ (\E e \in Event : EventTrue(e)' /\ t = Append(s, e))
        BY <2>1, <3>1, <3>2 DEF Adds, lists
    <3>4. t \in Seq(Event)
        BY <3>3, AppendFacts
    <3>5. \A i \in DOMAIN s : EventTrue(s[i])
        BY <3>1 DEF EventsTrue
    <3>6. \A i \in DOMAIN t : \E e \in Event : e = t[i] /\ EventTrue(e)'
        BY <2>2, <3>3, <3>4, <3>5
    <3> QED BY <3>2, <3>6 DEF EventTrue
  <2>4. \A i \in DOMAIN ownerMessageEventSyncList' :
            EventTrue(ownerMessageEventSyncList[i])'
    <3>1. PICK s \in Seq(Event) : s = ownerMessageEventSyncList
        BY <1>0
    <3>2. PICK t : t = ownerMessageEventSyncList'
        OBVIOUS
    <3>3. t = s \/ (\E e \in Event : EventTrue(e)' /\ t = Append(s, e))
        BY <2>1, <3>1, <3>2 DEF Adds, lists
    <3>4. t \in Seq(Event)
        BY <3>3, AppendFacts
    <3>5. \A i \in DOMAIN s : EventTrue(s[i])
        BY <3>1 DEF EventsTrue
    <3>6. \A i \in DOMAIN t : \E e \in Event : e = t[i] /\ EventTrue(e)'
        BY <2>2, <3>3, <3>4, <3>5
    <3> QED BY <3>2, <3>6 DEF EventTrue
  <2>5. ASSUME NEW k \in Job, pc'[k] \in {"check", "add", "show", "find", "mark"}
        PROVE  /\ pc'[k] = pc[k] /\ event' = event
               /\ event[k] \in Event /\ EventTrue(event[k])'
    <3>1. pc'[k] = pc[k] /\ event' = event
        BY <1>1, <2>5, QuietFrame
    <3>2. PICK e \in Event : e = event[k] /\ EventTrue(e)
        BY <2>5, <3>1 DEF EventsTrue
    <3>3. EventTrue(e)'
        BY <2>1, <3>2, <1>a
    <3> QED BY <3>1, <3>2, <3>3 DEF EventTrue
  <2> QED BY <2>3, <2>4, <2>5 DEF EventsTrue
<1>2. ASSUME NEW j \in Job, Work(j) PROVE EventsTrue'
  <2>1. /\ UNCHANGED net
        /\ \A k \in Job : k # j => pc'[k] = pc[k] /\ event'[k] = event[k]
      BY <1>2, WorkFrame
  <2>2. \A e : EventTrue(e)' <=> EventTrue(e)
      BY <2>1 DEF EventTrue, net
  <2>3. /\ \A i \in DOMAIN messageEventSyncList' :
                EventTrue(messageEventSyncList'[i])
        /\ \A i \in DOMAIN ownerMessageEventSyncList' :
                EventTrue(ownerMessageEventSyncList'[i])
    <3>1. CASE PollOwner(j) \/ PollMessage(j)
      <4>1. Polls(j)
          BY <3>1, PollStep
      <4>2. /\ messageEventSyncList # <<>> =>
                   \A i \in DOMAIN Tail(messageEventSyncList) :
                       EventTrue(Tail(messageEventSyncList)[i])
            /\ ownerMessageEventSyncList # <<>> =>
                   \A i \in DOMAIN Tail(ownerMessageEventSyncList) :
                       EventTrue(Tail(ownerMessageEventSyncList)[i])
          BY <1>0, PollFacts DEF EventsTrue
      <4> QED BY <4>1, <4>2 DEF Polls, EventsTrue, lists
    <3>2. CASE ~(PollOwner(j) \/ PollMessage(j))
      <4>1. UNCHANGED lists
          BY <1>2, <3>2 DEF Work, End, Look, Wake, Check, Add, Show, Find, Mark
      <4> QED BY <4>1 DEF EventsTrue, lists
    <3> QED BY <3>1, <3>2
  <2>4. /\ pc'[j] \in {"check", "add", "show", "find", "mark"} =>
               event'[j] \in Event /\ EventTrue(event'[j])
        /\ pc'[j] \in {"check", "add", "show"} =>
               event'[j].sendType \in {"SENDING", "RECEIVED"}
        /\ pc'[j] \in {"find", "mark"} => event'[j].sendType \in Answer
    <3>1. CASE PollOwner(j) \/ PollMessage(j)
      <4>1. Polls(j)
          BY <3>1, PollStep
      <4>2. CASE pc'[j] \in {"loop", "delay"}
          BY <4>2
      <4>3. ASSUME NEW e \in Event, EventTrue(e), event'[j] = e,
                   pc'[j] = IF e.sendType \in Answer THEN "find" ELSE "check"
            PROVE  <2>4!1 /\ <2>4!2 /\ <2>4!3
          BY <4>3 DEF Event
      <4> QED BY <4>1, <4>2, <4>3 DEF Polls, TypeOK
    <3>2. CASE Check(j) \/ Add(j) \/ Find(j)
        BY <3>2 DEF Check, Add, Find, Finish, Goto, TypeOK, EventsTrue
    <3>3. CASE End(j) \/ Look(j) \/ Wake(j) \/ Show(j) \/ Mark(j)
        BY <3>3 DEF End, Look, Wake, Show, Mark, Finish, Goto, TypeOK
    <3> QED BY <1>2, <3>1, <3>2, <3>3 DEF Work
  <2>5. \A k \in Job : k # j =>
            /\ pc'[k] \in {"check", "add", "show", "find", "mark"} =>
                   event'[k] \in Event /\ EventTrue(event'[k])
            /\ pc'[k] \in {"check", "add", "show"} =>
                   event'[k].sendType \in {"SENDING", "RECEIVED"}
            /\ pc'[k] \in {"find", "mark"} => event'[k].sendType \in Answer
      BY <2>1 DEF EventsTrue
  <2>6. /\ \A i \in DOMAIN messageEventSyncList' :
                EventTrue(messageEventSyncList[i])'
        /\ \A i \in DOMAIN ownerMessageEventSyncList' :
                EventTrue(ownerMessageEventSyncList[i])'
        /\ \A k \in Job : EventTrue(event'[k]) => EventTrue(event[k])'
      BY <2>1, <2>3 DEF EventTrue, net
  <2> QED BY <2>4, <2>5, <2>6 DEF EventsTrue
<1> QED BY <1>1, <1>2, NextSteps

LEMMA IndexStep == IInv /\ [Next]_vars => IndexTrue'
<1> SUFFICES ASSUME TypeOK, OneLive, EventsTrue, IndexTrue, [Next]_vars
             PROVE  IndexTrue'
    BY DEF IInv
<1>1. CASE \/ Network \/ onPause \/ \E j \in Job : onResume(j)
           \/ UNCHANGED vars
  <2>1. /\ UNCHANGED <<event, index, rows>> /\ cancelled \subseteq cancelled'
        /\ \A k \in Job : pc'[k] \in {pc[k], "loop"}
      BY <1>1, QuietFrame
  <2> QED BY <2>1 DEF IndexTrue, rows
<1>2. ASSUME NEW j \in Job, Work(j) PROVE IndexTrue'
  <2> SUFFICES ASSUME NEW k \in Job, pc'[k] = "mark", k \notin cancelled'
               PROVE  /\ index'[k] \in DOMAIN messages'
                      /\ messages'[index'[k]].uuid = event'[k].uuid
      BY DEF IndexTrue
  <2>1. UNCHANGED cancelled
      BY <1>2, WorkFrame DEF jobs
  <2>2. CASE k = j
    <3>1. Find(j)
      <4>1. CASE PollOwner(j) \/ PollMessage(j)
        <5>1. Polls(j)
            BY <4>1, PollStep
        <5> QED BY <5>1, <2>2 DEF Polls
      <4>2. CASE End(j) \/ Look(j) \/ Wake(j) \/ Check(j) \/ Add(j)
                 \/ Show(j) \/ Mark(j)
          BY <4>2, <2>2 DEF End, Look, Wake, Check, Add, Show, Mark, Finish,
                            Goto, TypeOK
      <4> QED BY <1>2, <4>1, <4>2 DEF Work
    <3>2. /\ RowOf(event[j].uuid) # {} /\ UNCHANGED <<event, messages>>
          /\ index'[j] = First(RowOf(event[j].uuid))
        BY <3>1, <2>2 DEF Find, Finish, Goto, TypeOK, rows
    <3> QED BY <2>2, <3>2, FirstFacts
  <2>3. CASE k # j
    <3>1. /\ pc[k] = "mark" /\ k \notin cancelled
          /\ index'[k] = index[k] /\ event'[k] = event[k]
        BY <1>2, <2>1, <2>3, WorkFrame
    <3>2. j \in cancelled
        BY <1>2, <2>3, <3>1, Cancelled
    <3>3. UNCHANGED messages
        BY <1>2, <3>2, RowsStep DEF Show, Mark
    <3> QED BY <3>1, <3>3 DEF IndexTrue
  <2> QED BY <2>2, <2>3
<1> QED BY <1>1, <1>2, NextSteps

LEMMA FreshStep == IInv /\ [Next]_vars => Fresh'
<1> SUFFICES ASSUME TypeOK, OneLive, EventsTrue, IndexTrue, Fresh, [Next]_vars
             PROVE  Fresh'
    BY DEF IInv
<1>1. CASE \/ Network \/ onPause \/ \E j \in Job : onResume(j)
           \/ UNCHANGED vars
  <2>1. /\ UNCHANGED <<event, rows, hist>> /\ cancelled \subseteq cancelled'
        /\ \A k \in Job : pc'[k] \in {pc[k], "loop"}
      BY <1>1, QuietFrame
  <2>2. Shown' = Shown
      BY <2>1 DEF Shown, rows
  <2> QED BY <2>1, <2>2 DEF Fresh, rows, hist
<1>2. ASSUME NEW j \in Job, Work(j) PROVE Fresh'
  <2>1. /\ UNCHANGED cancelled
        /\ \A k \in Job : k # j => pc'[k] = pc[k] /\ event'[k] = event[k]
      BY <1>2, WorkFrame DEF jobs
  <2>2. /\ (Show(j) /\ j \notin cancelled) \/ Shown' = Shown
        /\ Show(j) /\ j \notin cancelled =>
               Shown' = Shown \cup {event[j].uuid}
        /\ torn \subseteq torn' /\ messageUUIDList \subseteq messageUUIDList'
      BY <1>2, WorkRows
  <2>3. Shown' \subseteq messageUUIDList' \cup torn'
    <3>1. CASE Show(j)
      <4>1. event[j].uuid \in messageUUIDList \cup torn
          BY <3>1 DEF Show, Fresh
      <4> QED BY <2>2, <4>1 DEF Fresh
    <3>2. CASE ~Show(j)
        BY <2>2, <3>2 DEF Fresh
    <3> QED BY <3>1, <3>2
  <2>4. /\ pc'[j] = "show" => event'[j].uuid \in messageUUIDList' \cup torn'
        /\ pc'[j] \in {"add", "show"} /\ j \notin cancelled =>
               event'[j].uuid \notin Shown' \ torn'
    <3>1. CASE Add(j)
      <4>1. /\ UNCHANGED <<event, messages>>
            /\ pc[j] = "add"
            /\ event[j].uuid \in messageUUIDList' \cup torn'
          BY <3>1 DEF Add
      <4> QED BY <2>2, <4>1 DEF Fresh, Shown
    <3>2. CASE Check(j)
      <4>1. CASE event[j].uuid \in messageUUIDList
          BY <3>2, <4>1 DEF Check, Finish, Goto, TypeOK
      <4>2. CASE event[j].uuid \notin messageUUIDList
        <5>1. /\ event[j].uuid \notin Shown \ torn
              /\ pc'[j] = "add" /\ UNCHANGED <<event, rows, torn>>
            BY <3>2, <4>2 DEF Check, Goto, TypeOK, Fresh, hist
        <5> QED BY <5>1 DEF Shown, rows
      <4> QED BY <4>1, <4>2
    <3>3. CASE PollOwner(j) \/ PollMessage(j)
      <4>1. Polls(j)
          BY <3>3, PollStep
      <4> QED BY <4>1 DEF Polls
    <3>4. CASE End(j) \/ Look(j) \/ Wake(j) \/ Show(j) \/ Find(j) \/ Mark(j)
        BY <3>4 DEF End, Look, Wake, Show, Find, Mark, Finish, Goto, TypeOK
    <3> QED BY <1>2, <3>1, <3>2, <3>3, <3>4 DEF Work
  <2>5. ASSUME NEW k \in Job, k # j
        PROVE  /\ pc'[k] = "show" => event'[k].uuid \in messageUUIDList' \cup torn'
               /\ pc'[k] \in {"add", "show"} /\ k \notin cancelled =>
                      event'[k].uuid \notin Shown' \ torn'
    <3>1. pc'[k] = pc[k] /\ event'[k] = event[k]
        BY <2>1, <2>5
    <3>2. pc[k] \in {"add", "show"} /\ k \notin cancelled => Shown' = Shown
        BY <1>2, <2>2, <2>5, Cancelled
    <3> QED BY <2>2, <3>1, <3>2 DEF Fresh
  <2> QED BY <2>1, <2>3, <2>4, <2>5 DEF Fresh
<1> QED BY <1>1, <1>2, NextSteps

LEMMA OneRowStep == IInv /\ [Next]_vars => OneRow'
<1> SUFFICES ASSUME TypeOK, EventsTrue, IndexTrue, Fresh, OneRow, [Next]_vars
             PROVE  OneRow'
    BY DEF IInv
<1>1. CASE \/ Network \/ onPause \/ \E j \in Job : onResume(j)
           \/ UNCHANGED vars
    BY <1>1, QuietFrame DEF OneRow, rows, hist
<1>2. ASSUME NEW j \in Job, Work(j) PROVE OneRow'
  <2>t. torn \subseteq torn'
      BY <1>2, WorkRows
  <2>1. CASE Show(j) /\ j \notin cancelled
    <3>1. PICK r \in Row : /\ r = NewRow(event[j])
                           /\ messages' = <<r>> \o messages
        BY <2>1, ShowStep
    <3>2. r.uuid = event[j].uuid
        BY <3>1 DEF NewRow
    <3>3. r.uuid \notin Shown \ torn
        BY <2>1, <3>2 DEF Fresh, Show
    <3>4. messages \in Seq(Row)
        BY DEF TypeOK
    <3>5. \A i \in DOMAIN messages' :
              \/ i = 1 /\ messages'[i] = r
              \/ i - 1 \in DOMAIN messages /\ messages'[i] = messages[i - 1]
        BY <3>1, <3>4, ConsFacts
    <3>6. DOMAIN messages' \subseteq Int
      <4>1. messages' \in Seq(Row)
          BY <3>1, <3>4, ConsFacts
      <4> QED BY <4>1
    <3>7. ASSUME NEW i \in DOMAIN messages', NEW k \in DOMAIN messages', i # k
          PROVE  \/ messages'[i].uuid # messages'[k].uuid
                 \/ messages'[i].uuid \in torn
      <4>1. CASE i # 1 /\ k # 1
        <5>1. i - 1 # k - 1
            BY <3>6, <3>7
        <5> QED BY <3>5, <4>1, <5>1 DEF OneRow
      <4>2. CASE i = 1 \/ k = 1
        <5>1. ASSUME NEW n \in DOMAIN messages', n # 1
              PROVE  messages'[n].uuid # r.uuid \/ r.uuid \in torn
          <6>1. messages'[n].uuid \in Shown
              BY <3>5, <5>1 DEF Shown
          <6> QED BY <3>3, <6>1
        <5>2. \A n \in DOMAIN messages' : n = 1 => messages'[n] = r
            BY <3>5, <3>6, <3>4
        <5> QED BY <3>7, <4>2, <5>1, <5>2
      <4> QED BY <4>1, <4>2
    <3> QED BY <2>t, <3>7 DEF OneRow
  <2>2. CASE Show(j) /\ j \in cancelled
      BY <2>2, <2>t, ShowStep DEF OneRow
  <2>3. CASE Mark(j)
      BY <2>3, <2>t, MarkStep DEF OneRow
  <2>4. CASE ~Show(j) /\ ~Mark(j)
      BY <1>2, <2>4, <2>t, RowsStep DEF OneRow
  <2> QED BY <2>1, <2>2, <2>3, <2>4
<1> QED BY <1>1, <1>2, NextSteps

LEMMA StatusTrueStep == IInv /\ [Next]_vars => StatusTrue'
<1> SUFFICES ASSUME TypeOK, TimerOff, EventsTrue, IndexTrue, StatusTrue,
                    [Next]_vars
             PROVE  StatusTrue'
    BY DEF IInv
<1> DEFINE Ok(c, s) ==
        \/ s = "SENDING" /\ c \in Own /\ request[c] # "unsent"
        \/ s = "SUCCESS" /\ (c \in echoed \/ (c \in Own /\ request[c] = "SUCCESS"))
        \/ s = "FAILED"  /\ c \in Own /\ (\/ request[c] = "FAILED"
                                          \/ timer[c] = "fired")
<1>0. /\ StatusTrue <=> \A i \in DOMAIN messages :
                             Ok(messages[i].uuid, messages[i].sendStatus)
      /\ StatusTrue' <=> \A i \in DOMAIN messages' :
                             Ok(messages[i].uuid, messages[i].sendStatus)'
    BY DEF StatusTrue
<1>1. CASE \/ Network \/ onPause \/ \E j \in Job : onResume(j)
           \/ UNCHANGED vars
  <2>1. UNCHANGED messages
      BY <1>1, QuietFrame DEF rows
  <2>2. Grows \/ UNCHANGED net
    <3>1. CASE Network
      <4>1. NetType
          BY DEF TypeOK, NetType
      <4> QED BY <3>1, <4>1, NetworkStep
    <3>2. CASE onPause \/ \E j \in Job : onResume(j)
        BY <3>2 DEF onPause, onResume
    <3>3. CASE UNCHANGED vars
        BY <3>3 DEF vars
    <3> QED BY <1>1, <3>1, <3>2, <3>3
  <2>3. ASSUME NEW c, NEW s, Ok(c, s) PROVE Ok(c, s)'
    <3>1. CASE Grows
        BY <2>3, <3>1 DEF Grows, Answer
    <3>2. CASE UNCHANGED net
        BY <2>3, <3>2 DEF net
    <3> QED BY <2>2, <3>1, <3>2
  <2>4. ASSUME NEW i \in DOMAIN messages
        PROVE  Ok(messages[i].uuid, messages[i].sendStatus)'
    <3>1. PICK c, s : c = messages[i].uuid /\ s = messages[i].sendStatus
        OBVIOUS
    <3>2. Ok(c, s)
        BY <1>0, <3>1
    <3>3. Ok(c, s)'
        BY <2>3, <3>2
    <3> QED BY <2>1, <3>1, <3>3
  <2> QED BY <1>0, <2>1, <2>4
<1>2. ASSUME NEW j \in Job, Work(j) PROVE StatusTrue'
  <2>1. UNCHANGED net
      BY <1>2, WorkFrame
  <2>2. \A c, s : Ok(c, s)' <=> Ok(c, s)
      BY <2>1 DEF net
  <2>3. \A i \in DOMAIN messages : Ok(messages[i].uuid, messages[i].sendStatus)
      BY <1>0
  <2> SUFFICES ASSUME NEW i \in DOMAIN messages'
               PROVE  Ok(messages'[i].uuid, messages'[i].sendStatus)
      BY <1>0, <2>1 DEF net
  <2> HIDE DEF Ok
  <2>4. CASE Show(j) /\ j \notin cancelled
    <3>1. PICK r \in Row : /\ r = NewRow(event[j])
                           /\ messages' = <<r>> \o messages
        BY <2>4, ShowStep
    <3>2. Ok(r.uuid, r.sendStatus)
      <4>1. /\ event[j] \in Event /\ EventTrue(event[j])
            /\ event[j].sendType \in {"SENDING", "RECEIVED"}
          BY <2>4 DEF EventsTrue, Show
      <4>2. /\ r.uuid = event[j].uuid
            /\ r.sendStatus = IF event[j].sendType = "SENDING" THEN "SENDING"
                              ELSE "SUCCESS"
          BY <3>1 DEF NewRow
      <4>3. CASE event[j].sendType = "SENDING"
          BY <4>1, <4>2, <4>3 DEF EventTrue, Ok
      <4>4. CASE event[j].sendType = "RECEIVED"
          BY <4>1, <4>2, <4>4 DEF EventTrue, Ok
      <4> QED BY <4>1, <4>3, <4>4
    <3>3. messages \in Seq(Row)
        BY DEF TypeOK
    <3>4. \/ i = 1
          \/ i - 1 \in DOMAIN messages /\ messages'[i] = messages[i - 1]
        BY <3>1, <3>3, ConsFacts
    <3>5. i = 1 => messages'[i] = r
        BY <3>1, <3>3, ConsFacts
    <3> QED BY <2>3, <3>2, <3>4, <3>5
  <2>5. CASE Show(j) /\ j \in cancelled
      BY <2>3, <2>5, ShowStep
  <2>6. CASE Mark(j)
    <3>1. /\ i \in DOMAIN messages
          /\ messages'[i].uuid = messages[i].uuid
          /\ \/ messages'[i].sendStatus = messages[i].sendStatus
             \/ /\ messages[i].uuid = event[j].uuid
                /\ messages'[i].sendStatus = event[j].sendType
        BY <2>6, MarkStep
    <3>2. Ok(event[j].uuid, event[j].sendType)
      <4>1. /\ event[j] \in Event /\ EventTrue(event[j])
            /\ event[j].sendType \in Answer
          BY <2>6 DEF EventsTrue, Mark
      <4> QED BY <4>1 DEF EventTrue, Answer, Ok
    <3> QED BY <2>3, <3>1, <3>2
  <2>7. CASE ~Show(j) /\ ~Mark(j)
      BY <1>2, <2>3, <2>7, RowsStep
  <2> QED BY <2>4, <2>5, <2>6, <2>7
<1> QED BY <1>1, <1>2, NextSteps

LEMMA RegisteredShownStep == IInv /\ [Next]_vars => RegisteredShown'
<1> SUFFICES ASSUME TypeOK, EventsTrue, IndexTrue, RegisteredShown, [Next]_vars
             PROVE  RegisteredShown'
    BY DEF IInv
<1>1. CASE \/ Network \/ onPause \/ \E j \in Job : onResume(j)
           \/ UNCHANGED vars
  <2>1. /\ UNCHANGED <<event, rows, hist>>
        /\ \A k \in Job : pc[k] = "show" => pc'[k] = "show"
      BY <1>1, QuietFrame
  <2> QED BY <2>1 DEF RegisteredShown, Shown, Showing, rows, hist
<1>2. ASSUME NEW j \in Job, Work(j) PROVE RegisteredShown'
  <2>1. \A k \in Job : k # j => pc'[k] = pc[k] /\ event'[k] = event[k]
      BY <1>2, WorkFrame
  <2>2. /\ Show(j) /\ j \notin cancelled =>
               Shown' = Shown \cup {event[j].uuid}
        /\ Shown \subseteq Shown' /\ lost \subseteq lost'
      BY <1>2, WorkRows
  <2>3. Showing \ {event[j].uuid} \subseteq Showing'
      BY <2>1 DEF Showing
  <2>4. pc[j] # "show" => Showing \subseteq Showing'
      BY <2>1 DEF Showing
  <2>5. CASE Add(j)
    <3>1. /\ messageUUIDList' \subseteq messageUUIDList \cup {event[j].uuid}
          /\ pc'[j] = "show" /\ event'[j] = event[j] /\ pc[j] # "show"
        BY <2>5 DEF Add, Goto, TypeOK
    <3>2. event[j].uuid \in Showing'
        BY <3>1 DEF Showing
    <3> QED BY <2>2, <2>4, <3>1, <3>2 DEF RegisteredShown
  <2>6. CASE Show(j)
    <3>1. /\ UNCHANGED messageUUIDList
          /\ j \in cancelled => lost' = lost \cup {event[j].uuid}
        BY <2>6, ShowStep
    <3> QED BY <2>2, <2>3, <2>6, <3>1 DEF RegisteredShown
  <2>7. CASE PollOwner(j) \/ PollMessage(j)
      BY <2>2, <2>4, <2>7 DEF PollOwner, PollMessage, RegisteredShown, rows
  <2>8. CASE End(j) \/ Look(j) \/ Wake(j) \/ Check(j) \/ Find(j) \/ Mark(j)
      BY <2>2, <2>4, <2>8 DEF End, Look, Wake, Check, Find, Mark, rows,
                              RegisteredShown
  <2> QED BY <1>2, <2>5, <2>6, <2>7, <2>8 DEF Work
<1> QED BY <1>1, <1>2, NextSteps

-----------------------------------------------------------------------------
(* A comment that was sent is shown                                        *)

(* The owner's queue holds comments only, and until the first coroutine is *)
(* cancelled there is no other that could overwrite its add().             *)
OwnerSends ==
    \A i \in DOMAIN ownerMessageEventSyncList :
        ownerMessageEventSyncList[i].sendType = "SENDING"

Calm == cancelled = {} => torn = {} /\ lost = {}

SentInv == OwnerSends /\ Calm /\ SentIsShown

LEMMA InitSentInv == Init => SentInv
BY DEF Init, SentInv, OwnerSends, Calm, SentIsShown

LEMMA QueuedAppend ==
    ASSUME NEW s \in Seq(Event), NEW e \in Event
    PROVE  Queued(Append(s, e)) = Queued(s) \cup {e.uuid}
<1>1. PICK r : r = Append(s, e)
    OBVIOUS
<1>2. /\ DOMAIN r = 1 .. Len(s) + 1 /\ DOMAIN s = 1 .. Len(s) /\ Len(s) \in Nat
      /\ r[Len(s) + 1] = e /\ \A i \in 1 .. Len(s) : r[i] = s[i]
    BY <1>1
<1>3. \A i \in DOMAIN r : i \in DOMAIN s \/ i = Len(s) + 1
    BY <1>2
<1>4. \A i \in DOMAIN s : i \in DOMAIN r
    BY <1>2
<1>5. Len(s) + 1 \in DOMAIN r
    BY <1>2
<1>6. Queued(r) \subseteq Queued(s) \cup {e.uuid}
    BY <1>2, <1>3 DEF Queued
<1>7. Queued(s) \subseteq Queued(r)
    BY <1>2, <1>4 DEF Queued
<1>8. e.uuid \in Queued(r)
    BY <1>2, <1>5 DEF Queued
<1> QED BY <1>1, <1>6, <1>7, <1>8

LEMMA QueuedTail ==
    ASSUME NEW s \in Seq(Event), s # <<>>
    PROVE  Queued(s) \subseteq {Head(s).uuid} \cup Queued(Tail(s))
<1>1. PICK r : r = Tail(s)
    OBVIOUS
<1>2. /\ DOMAIN s = 1 .. Len(s) /\ DOMAIN r = 1 .. Len(s) - 1 /\ Len(s) \in Nat
      /\ Head(s) = s[1] /\ \A i \in 1 .. Len(s) - 1 : r[i] = s[i + 1]
    BY <1>1
<1>3. ASSUME NEW i \in DOMAIN s, i # 1
      PROVE  i - 1 \in DOMAIN r /\ r[i - 1] = s[i]
    BY <1>2, <1>3
<1>4. ASSUME NEW i \in DOMAIN s
      PROVE  s[i].uuid \in {Head(s).uuid} \cup Queued(r)
    <2>1. CASE i = 1
        BY <2>1, <1>2
    <2>2. CASE i # 1
        <3>1. i - 1 \in DOMAIN r /\ r[i - 1] = s[i]
            BY <1>3, <2>2
        <3> QED BY <3>1 DEF Queued
    <2> QED BY <2>1, <2>2
<1> QED BY <1>1, <1>4 DEF Queued

(* A coroutine that was cancelled stays so.                                *)
LEMMA CancelledGrows ==
    ASSUME TypeOK, [Next]_vars PROVE cancelled \subseteq cancelled'
<1>1. CASE \/ Network \/ onPause \/ \E j \in Job : onResume(j)
           \/ UNCHANGED vars
    BY <1>1, QuietFrame
<1>2. ASSUME NEW j \in Job, Work(j) PROVE cancelled \subseteq cancelled'
    BY <1>2, WorkFrame DEF jobs
<1> QED BY <1>1, <1>2, NextSteps

LEMMA OwnerSendsStep == IInv /\ OwnerSends /\ [Next]_vars => OwnerSends'
<1> SUFFICES ASSUME IInv, OwnerSends, [Next]_vars PROVE OwnerSends'
    OBVIOUS
<1>0. ownerMessageEventSyncList \in Seq(Event)
    BY DEF IInv, TypeOK
<1>1. ASSUME UNCHANGED ownerMessageEventSyncList PROVE OwnerSends'
    BY <1>1 DEF OwnerSends
<1>2. ASSUME NEW c \in Own, onSend(c) PROVE OwnerSends'
    <2>1. PICK e \in Event : e = [uuid |-> c, sendType |-> "SENDING"]
        BY DEF Event, Comment
    <2>2. ownerMessageEventSyncList' = Append(ownerMessageEventSyncList, e)
        BY <1>2, <2>1 DEF onSend
    <2>3. e.sendType = "SENDING"
        BY <2>1
    <2>4. ASSUME NEW i \in DOMAIN ownerMessageEventSyncList'
          PROVE  ownerMessageEventSyncList'[i].sendType = "SENDING"
        BY <2>2, <2>3, <1>0, AppendFacts DEF OwnerSends
    <2> QED BY <2>4 DEF OwnerSends
<1>3. ASSUME NEW c \in Own,
             CancelTimer(c) \/ Timer(c) \/ \E a \in Answer : Respond(c, a)
      PROVE  OwnerSends'
    BY <1>1, <1>3 DEF CancelTimer, Timer, Respond, lists
<1>4. ASSUME NEW c \in Comment, onLiveComment(c) PROVE OwnerSends'
    BY <1>1, <1>4 DEF onLiveComment
<1>5. ASSUME NEW j \in Job, onResume(j) PROVE OwnerSends'
    BY <1>1, <1>5 DEF onResume, lists
<1>6. CASE onPause
    BY <1>1, <1>6 DEF onPause, lists
<1>7. ASSUME NEW j \in Job, PollOwner(j) PROVE OwnerSends'
    <2>1. CASE ownerMessageEventSyncList = <<>>
        BY <1>1, <1>7, <2>1 DEF PollOwner
    <2>2. CASE ownerMessageEventSyncList # <<>>
        <3>1. ownerMessageEventSyncList' = Tail(ownerMessageEventSyncList)
            BY <1>7, <2>2 DEF PollOwner
        <3> QED BY <3>1, <2>2, <1>0, PollFacts DEF OwnerSends
    <2> QED BY <2>1, <2>2
<1>8. ASSUME NEW j \in Job, Work(j), ~PollOwner(j) PROVE OwnerSends'
    <2>1. UNCHANGED ownerMessageEventSyncList
        BY <1>8 DEF Work, End, Look, PollMessage, Wake, Check, Add, Show, Find,
                    Mark, lists
    <2> QED BY <2>1, <1>1
<1>9. CASE UNCHANGED vars
    BY <1>1, <1>9 DEF vars, lists
<1> QED BY <1>2, <1>3, <1>4, <1>5, <1>6, <1>7, <1>8, <1>9 DEF Next

(* While no coroutine was cancelled, the one that works is alone.          *)
LEMMA Alone ==
    ASSUME TypeOK, OneLive, cancelled = {}, NEW j \in Job, Work(j),
           NEW k \in Job, k # j
    PROVE  pc[k] \in {"new", "done"}
BY WorkFrame DEF OneLive

LEMMA CalmStep == IInv /\ Calm /\ [Next]_vars => Calm'
<1> SUFFICES ASSUME IInv, Calm, [Next]_vars, cancelled' = {}
             PROVE  torn' = {} /\ lost' = {}
    BY DEF Calm
<1>0. TypeOK /\ OneLive /\ cancelled = {} /\ torn = {} /\ lost = {}
    BY CancelledGrows DEF IInv, Calm
<1>1. CASE \/ Network \/ onPause \/ \E j \in Job : onResume(j)
           \/ UNCHANGED vars
    BY <1>0, <1>1, QuietFrame DEF hist
<1>2. ASSUME NEW j \in Job, Work(j) PROVE torn' = {} /\ lost' = {}
    <2>1. CASE Add(j)
        <3>1. ~\E k \in Job \ {j} : pc[k] = "add"
            BY <1>0, <1>2, Alone
        <3> QED BY <2>1, <3>1, <1>0 DEF Add
    <2>2. CASE Show(j)
        BY <2>2, <1>0 DEF Show
    <2>3. CASE PollOwner(j) \/ PollMessage(j)
        BY <2>3, <1>0 DEF PollOwner, PollMessage, hist
    <2>4. CASE End(j) \/ Look(j) \/ Wake(j) \/ Check(j) \/ Find(j) \/ Mark(j)
        BY <2>4, <1>0 DEF End, Look, Wake, Check, Find, Mark, hist
    <2> QED BY <1>2, <2>1, <2>2, <2>3, <2>4 DEF Work
<1> QED BY <1>1, <1>2, NextSteps

(* Where a comment that was sent can be.                                   *)
OnItsWay == Queued(ownerMessageEventSyncList) \cup Deciding \cup Shown

(* A coroutine that works takes no comment off its way.                    *)
LEMMA WorkOnItsWay ==
    ASSUME IInv, OwnerSends, Calm, cancelled = {}, NEW j \in Job, Work(j)
    PROVE  OnItsWay \subseteq OnItsWay'
<1>0. TypeOK /\ OneLive /\ EventsTrue /\ IndexTrue /\ torn = {} /\ lost = {}
    BY DEF IInv, Calm
<1>1. \A k \in Job : k # j => pc'[k] = pc[k] /\ event'[k] = event[k]
    BY <1>0, WorkFrame
<1>2. Deciding \subseteq Deciding' \cup {event[j].uuid}
    BY <1>1 DEF Deciding
<1>3. pc[j] \notin {"check", "add", "show"} => Deciding \subseteq Deciding'
    BY <1>1 DEF Deciding
<1>4. Shown \subseteq Shown'
    BY <1>0, WorkRows
<1>5. CASE PollOwner(j)
    <2>1. pc[j] = "owner"
        BY <1>5 DEF PollOwner
    <2>2. CASE ownerMessageEventSyncList = <<>>
        <3>1. UNCHANGED ownerMessageEventSyncList
            BY <1>5, <2>2 DEF PollOwner
        <3> QED BY <3>1, <2>1, <1>3, <1>4 DEF OnItsWay
    <2>3. CASE ownerMessageEventSyncList # <<>>
        <3>1. PICK e : e = Head(ownerMessageEventSyncList)
            OBVIOUS
        <3>2. ownerMessageEventSyncList \in Seq(Event) /\ e \in Event
            BY <3>1, <2>3, <1>0, PollFacts DEF TypeOK
        <3>3. e.sendType = "SENDING"
            BY <3>1, <3>2, <2>3, PollFacts DEF OwnerSends
        <3>4. /\ ownerMessageEventSyncList' = Tail(ownerMessageEventSyncList)
              /\ event'[j] = e /\ pc'[j] = "check"
            BY <3>1, <3>3, <1>5, <2>3, <1>0 DEF PollOwner, Take, Goto, TypeOK, Answer
        <3>5. Queued(ownerMessageEventSyncList) \subseteq
                  {e.uuid} \cup Queued(ownerMessageEventSyncList')
            BY <3>1, <3>2, <3>4, <2>3, QueuedTail
        <3>6. e.uuid \in Deciding'
            BY <3>4 DEF Deciding
        <3> QED BY <3>5, <3>6, <2>1, <1>3, <1>4 DEF OnItsWay
    <2> QED BY <2>2, <2>3
<1>6. ASSUME ~PollOwner(j) PROVE UNCHANGED ownerMessageEventSyncList
    BY <1>6 DEF Work, End, Look, PollMessage, Wake, Check, Add, Show, Find,
                Mark, lists
<1>7. CASE Check(j)
    <2>1. pc[j] = "check" /\ ~PollOwner(j)
        BY <1>7 DEF Check, PollOwner
    <2>2. CASE event[j].uuid \in messageUUIDList
        <3>1. Showing = {}
            <4>1. \A k \in Job : pc[k] # "show"
                BY <2>1, <1>0, Alone
            <4> QED BY <4>1 DEF Showing
        <3>2. event[j].uuid \in Shown
            BY <2>2, <3>1, <1>0 DEF IInv, RegisteredShown
        <3> QED BY <3>2, <2>1, <1>2, <1>4, <1>6 DEF OnItsWay
    <2>3. CASE event[j].uuid \notin messageUUIDList
        <3>1. pc'[j] = "add" /\ event' = event
            BY <1>7, <2>3, <1>0 DEF Check, Goto, TypeOK
        <3>2. Deciding \subseteq Deciding'
            BY <3>1, <1>1 DEF Deciding
        <3> QED BY <3>2, <2>1, <1>4, <1>6 DEF OnItsWay
    <2> QED BY <2>2, <2>3
<1>8. CASE Add(j)
    <2>1. pc'[j] = "show" /\ event' = event /\ ~PollOwner(j)
        BY <1>8, <1>0 DEF Add, Goto, TypeOK, PollOwner
    <2>2. Deciding \subseteq Deciding'
        BY <2>1, <1>1 DEF Deciding
    <2> QED BY <2>1, <2>2, <1>4, <1>6 DEF OnItsWay
<1>9. CASE Show(j)
    <2>1. Shown' = Shown \cup {event[j].uuid} /\ ~PollOwner(j)
        BY <1>9, <1>0, WorkRows DEF Show, PollOwner
    <2> QED BY <2>1, <1>2, <1>6 DEF OnItsWay
<1>10. CASE End(j) \/ Look(j) \/ PollMessage(j) \/ Wake(j) \/ Find(j) \/ Mark(j)
    <2>1. pc[j] \notin {"check", "add", "show", "owner"}
        BY <1>10 DEF End, Look, PollMessage, Wake, Find, Mark
    <2>2. ~PollOwner(j)
        BY <2>1 DEF PollOwner
    <2> QED BY <2>1, <2>2, <1>3, <1>4, <1>6 DEF OnItsWay
<1> QED BY <1>5, <1>7, <1>8, <1>9, <1>10 DEF Work

LEMMA SentStep == IInv /\ SentInv /\ [Next]_vars => SentInv'
<1> SUFFICES ASSUME IInv, SentInv, [Next]_vars PROVE SentInv'
    OBVIOUS
<1>1. OwnerSends' /\ Calm'
    BY OwnerSendsStep, CalmStep DEF SentInv
<1> SUFFICES ASSUME cancelled' = {}, NEW c \in Own, request'[c] # "unsent"
             PROVE  c \in OnItsWay'
    BY <1>1 DEF SentInv, SentIsShown, OnItsWay
<1>2. TypeOK /\ OneLive /\ cancelled = {}
    BY CancelledGrows DEF IInv
<1>3. request[c] # "unsent" => c \in OnItsWay
    BY <1>2 DEF SentInv, SentIsShown, OnItsWay
<1>4. ASSUME UNCHANGED <<request, ownerMessageEventSyncList, event, rows>>,
             \A k \in Job : pc[k] \in {"check", "add", "show"} => pc'[k] = pc[k]
      PROVE  c \in OnItsWay'
    BY <1>3, <1>4 DEF OnItsWay, Deciding, Shown, rows
<1>5. ASSUME NEW d \in Own, onSend(d) PROVE c \in OnItsWay'
    <2>1. PICK e \in Event : e = [uuid |-> d, sendType |-> "SENDING"]
        BY DEF Event, Comment
    <2>2. Queued(ownerMessageEventSyncList') =
              Queued(ownerMessageEventSyncList) \cup {d}
        BY <1>5, <2>1, <1>2, QueuedAppend DEF onSend, TypeOK
    <2>3. c # d => request'[c] = request[c]
        BY <1>5, <1>2 DEF onSend, TypeOK
    <2>4. Deciding' = Deciding /\ Shown' = Shown
        BY <1>5 DEF onSend, local, rows, Deciding, Shown
    <2> QED BY <2>2, <2>3, <2>4, <1>3 DEF OnItsWay
<1>6. ASSUME NEW d \in Own, NEW a \in Answer, Respond(d, a) PROVE c \in OnItsWay'
    <2>1. request[c] # "unsent"
        BY <1>6, <1>2 DEF Respond, TypeOK
    <2>2. UNCHANGED <<ownerMessageEventSyncList, local, rows>>
        BY <1>6 DEF Respond
    <2> QED BY <2>1, <2>2, <1>3 DEF OnItsWay, Deciding, Shown, local, rows
<1>7. ASSUME NEW d \in Own, CancelTimer(d) \/ Timer(d) PROVE c \in OnItsWay'
    BY <1>7, <1>4 DEF CancelTimer, Timer, lists, local
<1>8. ASSUME NEW d \in Comment, onLiveComment(d) PROVE c \in OnItsWay'
    BY <1>8, <1>4 DEF onLiveComment, local
<1>9. ASSUME NEW j \in Job, onResume(j) PROVE c \in OnItsWay'
    <2>1. UNCHANGED <<request, ownerMessageEventSyncList, event, rows>>
        BY <1>9 DEF onResume, net, lists
    <2>2. \A k \in Job : pc[k] \in {"check", "add", "show"} => pc'[k] = pc[k]
        BY <1>9, <1>2 DEF onResume, Goto, TypeOK
    <2> QED BY <2>1, <2>2, <1>4
<1>10. CASE onPause
    BY <1>10 DEF onPause
<1>11. ASSUME NEW j \in Job, Work(j) PROVE c \in OnItsWay'
    <2>1. UNCHANGED request
        BY <1>11, <1>2, WorkFrame DEF net
    <2>2. OnItsWay \subseteq OnItsWay'
        BY <1>11, <1>2, WorkOnItsWay DEF SentInv
    <2> QED BY <2>1, <2>2, <1>3
<1>12. CASE UNCHANGED vars
    BY <1>12, <1>4 DEF vars, net, lists, local
<1> QED BY <1>5, <1>6, <1>7, <1>8, <1>9, <1>10, <1>11, <1>12 DEF Next

-----------------------------------------------------------------------------
(* The row says what the answer was                                        *)

(* A status of c waits, or is in the hands of a coroutine.                 *)
StatusWaits(c) == \E i \in DOMAIN messageEventSyncList :
                      /\ messageEventSyncList[i].uuid = c
                      /\ messageEventSyncList[i].sendType \in Answer
StatusInHand(c) == \E j \in Job : pc[j] \in {"find", "mark"} /\ event[j].uuid = c

RowAnswers(c) == \E i \in DOMAIN messages : /\ messages[i].uuid = c
                                           /\ messages[i].sendStatus = request[c]

(* As long as the timer of c has not fired, the answer is the only status  *)
(* that is ever posted of c: it is still to be applied, or it was.         *)
Answered(c) ==
    request[c] \in Answer /\ timer[c] # "fired" /\ c \notin missed \cup torn
        => StatusWaits(c) \/ StatusInHand(c) \/ RowAnswers(c)

AnswerInv ==
    /\ \A c \in Own : timer[c] = "cancelled" => request[c] \in Answer
    /\ \A c \in Own : Answered(c)

LEMMA InitAnswerInv == Init => AnswerInv
BY DEF Init, AnswerInv, Answered, Answer

(* The network takes nothing away, and an answer is posted.                *)
LEMMA NetworkAnswered ==
    ASSUME IInv, AnswerInv, Network, NEW c \in Own PROVE Answered(c)'
<1>0. TypeOK /\ messageEventSyncList \in Seq(Event)
    BY DEF IInv, TypeOK
<1>1. UNCHANGED <<jobs, local, rows, hist>>
    BY NetworkFrame
<1>2. Answered(c)
    BY DEF AnswerInv
<1>3. ASSUME NEW e \in Event,
             messageEventSyncList' = Append(messageEventSyncList, e)
      PROVE  /\ StatusWaits(c) => StatusWaits(c)'
             /\ e.uuid = c /\ e.sendType \in Answer => StatusWaits(c)'
    <2>1. PICK s, r : s = messageEventSyncList /\ r = Append(s, e)
        OBVIOUS
    <2>2. /\ DOMAIN r = 1 .. Len(s) + 1 /\ DOMAIN s = 1 .. Len(s) /\ Len(s) \in Nat
          /\ r[Len(s) + 1] = e /\ \A i \in 1 .. Len(s) : r[i] = s[i]
        BY <2>1, <1>0
    <2>3. messageEventSyncList' = r
        BY <2>1, <1>3
    <2>4. Len(s) + 1 \in DOMAIN r /\ \A i \in DOMAIN s : i \in DOMAIN r
        BY <2>2
    <2> QED BY <2>1, <2>2, <2>3, <2>4 DEF StatusWaits
<1>4. ASSUME UNCHANGED request, timer'[c] # "fired" => timer[c] # "fired",
             \/ UNCHANGED messageEventSyncList
             \/ \E e \in Event :
                    messageEventSyncList' = Append(messageEventSyncList, e)
      PROVE  Answered(c)'
    <2>1. StatusWaits(c) => StatusWaits(c)'
        BY <1>3, <1>4 DEF StatusWaits
    <2>2. StatusInHand(c) => StatusInHand(c)'
        BY <1>1 DEF StatusInHand, local
    <2>3. RowAnswers(c) => RowAnswers(c)'
        BY <1>1, <1>4 DEF RowAnswers, rows
    <2> QED BY <2>1, <2>2, <2>3, <1>1, <1>2, <1>4 DEF Answered, hist
<1>5. ASSUME NEW d \in Own, onSend(d) PROVE Answered(c)'
    <2>1. CASE d = c
        <3>1. request'[c] = "open"
            BY <1>0, <1>5, <2>1 DEF onSend, TypeOK
        <3> QED BY <3>1 DEF Answered, Answer
    <2>2. CASE d # c
        <3>1. /\ request'[c] = request[c] /\ timer'[c] = timer[c]
              /\ UNCHANGED messageEventSyncList
            BY <1>0, <1>5, <2>2 DEF onSend, TypeOK
        <3> QED BY <3>1, <1>1, <1>2 DEF Answered, StatusWaits, StatusInHand,
                                        RowAnswers, local, rows, hist
    <2> QED BY <2>1, <2>2
<1>6. ASSUME NEW d \in Own, CancelTimer(d) PROVE Answered(c)'
    <2>1. timer'[c] = timer[c] \/ timer[c] = "armed"
        BY <1>0, <1>6 DEF CancelTimer, TypeOK
    <2> QED BY <2>1, <1>4, <1>6 DEF CancelTimer, lists
<1>7. ASSUME NEW d \in Own, Timer(d) PROVE Answered(c)'
    <2>1. PICK e \in Event : e = [uuid |-> d, sendType |-> "FAILED"]
        BY DEF Event, Comment, Answer
    <2>2. messageEventSyncList' = Append(messageEventSyncList, e)
        BY <1>7, <2>1 DEF Timer, Post
    <2>3. timer'[c] # "fired" => timer[c] # "fired"
        BY <1>0, <1>7 DEF Timer, TypeOK
    <2> QED BY <2>2, <2>3, <1>4, <1>7 DEF Timer
<1>8. ASSUME NEW d \in Own, NEW a \in Answer, Respond(d, a) PROVE Answered(c)'
    <2>1. PICK e \in Event : e = [uuid |-> d, sendType |-> a]
        BY DEF Event, Comment
    <2>2. messageEventSyncList' = Append(messageEventSyncList, e)
        BY <1>8, <2>1 DEF Respond, Post
    <2>3. CASE d = c
        <3>1. StatusWaits(c)'
            BY <2>1, <2>2, <2>3, <1>3
        <3> QED BY <3>1 DEF Answered
    <2>4. CASE d # c
        <3>1. request'[c] = request[c] /\ timer' = timer
            BY <1>0, <1>8, <2>4 DEF Respond, TypeOK
        <3>2. StatusWaits(c) => StatusWaits(c)'
            BY <2>2, <1>3
        <3> QED BY <3>1, <3>2, <1>1, <1>2 DEF Answered, StatusInHand, RowAnswers,
                                              local, rows, hist
    <2> QED BY <2>3, <2>4
<1>9. ASSUME NEW d \in Comment, onLiveComment(d) PROVE Answered(c)'
    <2>1. PICK e \in Event : e = [uuid |-> d, sendType |-> "RECEIVED"]
        BY DEF Event
    <2>2. messageEventSyncList' = Append(messageEventSyncList, e)
        BY <1>9, <2>1 DEF onLiveComment, Post
    <2> QED BY <2>2, <1>4, <1>9 DEF onLiveComment
<1> QED BY <1>5, <1>6, <1>7, <1>8, <1>9 DEF Network

(* Polling puts a status into the hands of the coroutine, which gives it up *)
(* when there is no row or it was cancelled, and otherwise applies it.     *)
LEMMA WorkAnswered ==
    ASSUME IInv, AnswerInv, NEW j \in Job, Work(j), NEW c \in Own
    PROVE  Answered(c)'
<1>0. /\ TypeOK /\ EventsTrue /\ IndexTrue
      /\ messageEventSyncList \in Seq(Event) /\ messages \in Seq(Row)
    BY DEF IInv, TypeOK
<1>1. /\ request' = request /\ timer' = timer
      /\ \A k \in Job : k # j => pc'[k] = pc[k] /\ event'[k] = event[k]
    BY <1>0, WorkFrame DEF net
<1>2. torn \subseteq torn'
    BY <1>0, WorkRows
<1>3. SUFFICES ASSUME request[c] \in Answer, timer[c] # "fired",
                      c \notin missed' \cup torn', missed \subseteq missed',
                      StatusWaits(c) \/ StatusInHand(c) \/ RowAnswers(c)
               PROVE  StatusWaits(c)' \/ StatusInHand(c)' \/ RowAnswers(c)'
    <2>1. missed \subseteq missed'
        <3>1. CASE PollOwner(j) \/ PollMessage(j)
            BY <3>1 DEF PollOwner, PollMessage, hist
        <3>2. CASE End(j) \/ Look(j) \/ Wake(j) \/ Check(j) \/ Add(j) \/ Show(j)
            BY <3>2 DEF End, Look, Wake, Check, Add, Show, hist
        <3>3. CASE Find(j) \/ Mark(j)
            BY <3>3 DEF Find, Mark
        <3> QED BY <3>1, <3>2, <3>3 DEF Work
    <2> QED BY <2>1, <1>1, <1>2 DEF AnswerInv, Answered
<1>4. pc[j] \notin {"find", "mark"} => (StatusInHand(c) => StatusInHand(c)')
    BY <1>1 DEF StatusInHand
<1>5. UNCHANGED messages => (RowAnswers(c) => RowAnswers(c)')
    BY <1>1 DEF RowAnswers
<1>6. UNCHANGED messageEventSyncList => (StatusWaits(c) => StatusWaits(c)')
    BY DEF StatusWaits
<1>7. CASE PollMessage(j)
    <2>1. pc[j] = "message" /\ UNCHANGED messages
        BY <1>7 DEF PollMessage, rows
    <2>2. CASE messageEventSyncList = <<>>
        BY <2>1, <2>2, <1>3, <1>4, <1>5, <1>6, <1>7 DEF PollMessage
    <2>3. CASE messageEventSyncList # <<>>
        <3>1. PICK s, e : s = messageEventSyncList /\ e = Head(s)
            OBVIOUS
        <3>2. /\ messageEventSyncList' = Tail(s) /\ event'[j] = e
              /\ pc'[j] = IF e.sendType \in Answer THEN "find" ELSE "check"
            BY <3>1, <2>3, <1>0, <1>7 DEF PollMessage, Take, Goto, TypeOK
        <3>3. StatusWaits(c) => StatusWaits(c)' \/ StatusInHand(c)'
            <4>1. SUFFICES ASSUME NEW i \in DOMAIN s, s[i].uuid = c,
                                  s[i].sendType \in Answer
                           PROVE  StatusWaits(c)' \/ StatusInHand(c)'
                BY <3>1 DEF StatusWaits
            <4>2. CASE i = 1
                <5>1. e = s[i]
                    BY <4>2, <3>1, <2>3, <1>0
                <5> QED BY <5>1, <4>1, <3>2 DEF StatusInHand
            <4>3. CASE i # 1
                <5>1. i - 1 \in DOMAIN Tail(s) /\ Tail(s)[i - 1] = s[i]
                    BY <4>3, <3>1, <2>3, <1>0
                <5> QED BY <5>1, <4>1, <3>2 DEF StatusWaits
            <4> QED BY <4>2, <4>3
        <3> QED BY <3>3, <2>1, <1>3, <1>4, <1>5
    <2> QED BY <2>2, <2>3
<1>8. CASE Find(j)
    <2>1. UNCHANGED <<messages, messageEventSyncList>> /\ pc[j] = "find"
        BY <1>8 DEF Find, lists, rows
    <2>2. CASE RowOf(event[j].uuid) = {}
        <3>1. event[j].uuid # c
            BY <1>3, <1>8, <2>2 DEF Find
        <3>2. StatusInHand(c) => StatusInHand(c)'
            BY <3>1, <1>1 DEF StatusInHand
        <3> QED BY <3>2, <2>1, <1>3, <1>5, <1>6
    <2>3. CASE RowOf(event[j].uuid) # {}
        <3>1. pc'[j] = "mark" /\ event' = event
            BY <1>0, <1>8, <2>3 DEF Find, Goto, TypeOK
        <3>2. StatusInHand(c) => StatusInHand(c)'
            BY <3>1, <1>1 DEF StatusInHand
        <3> QED BY <3>2, <2>1, <1>3, <1>5, <1>6
    <2> QED BY <2>2, <2>3
<1>9. CASE Mark(j)
    <2>1. /\ UNCHANGED messageEventSyncList /\ pc[j] = "mark"
          /\ DOMAIN messages' = DOMAIN messages
          /\ \A i \in DOMAIN messages :
                  /\ messages'[i].uuid = messages[i].uuid
                  /\ \/ messages'[i].sendStatus = messages[i].sendStatus
                     \/ /\ messages[i].uuid = event[j].uuid
                        /\ messages'[i].sendStatus = event[j].sendType
        BY <1>0, <1>9, MarkStep DEF lists
    <2>2. event[j].uuid = c => event[j].sendType = request[c]
        <3>1. event[j] \in Event /\ EventTrue(event[j]) /\ event[j].sendType \in Answer
            BY <2>1, <1>0 DEF EventsTrue
        <3> QED BY <3>1, <1>3 DEF EventTrue, Answer
    <2>3. RowAnswers(c) => RowAnswers(c)'
        BY <2>1, <2>2, <1>1 DEF RowAnswers
    <2>4. CASE event[j].uuid # c
        <3>1. StatusInHand(c) => StatusInHand(c)'
            BY <2>4, <1>1 DEF StatusInHand
        <3> QED BY <3>1, <2>1, <2>3, <1>3, <1>6
    <2>5. CASE event[j].uuid = c
        <3>1. j \notin cancelled
            BY <2>5, <1>3, <1>9 DEF Mark
        <3>2. PICK n \in DOMAIN messages : n = index[j] /\ messages[n].uuid = c
            BY <3>1, <2>1, <2>5, <1>0 DEF IndexTrue
        <3>3. messages' = [messages EXCEPT ![n].sendStatus = event[j].sendType]
            BY <3>1, <3>2, <1>9 DEF Mark
        <3>4. messages[n] \in Row
            BY <3>2, <1>0
        <3>5. messages'[n].sendStatus = event[j].sendType
            BY <3>2, <3>3, <3>4 DEF Row
        <3> QED BY <3>2, <3>5, <2>1, <2>2, <2>5, <1>1 DEF RowAnswers
    <2> QED BY <2>4, <2>5
<1>10. CASE Show(j)
    <2>1. pc[j] = "show" /\ UNCHANGED messageEventSyncList
        BY <1>10 DEF Show, lists
    <2>2. CASE j \in cancelled
        BY <2>1, <2>2, <1>0, <1>3, <1>4, <1>5, <1>6, <1>10, ShowStep
    <2>3. CASE j \notin cancelled
        <3>1. PICK r \in Row : messages' = <<r>> \o messages
            BY <2>3, <1>0, <1>10, ShowStep
        <3>2. \A i \in DOMAIN messages : i + 1 \in DOMAIN messages'
                                         /\ messages'[i + 1] = messages[i]
            BY <3>1, <1>0, ConsFacts
        <3>3. RowAnswers(c) => RowAnswers(c)'
            BY <3>2, <1>1 DEF RowAnswers
        <3> QED BY <3>3, <2>1, <1>3, <1>4, <1>6
    <2> QED BY <2>2, <2>3
<1>11. CASE End(j) \/ Look(j) \/ PollOwner(j) \/ Wake(j) \/ Check(j) \/ Add(j)
    <2>1. UNCHANGED <<messages, messageEventSyncList>> /\ pc[j] \notin {"find", "mark"}
        BY <1>11 DEF End, Look, PollOwner, Wake, Check, Add, lists, rows
    <2> QED BY <2>1, <1>3, <1>4, <1>5, <1>6
<1> QED BY <1>7, <1>8, <1>9, <1>10, <1>11 DEF Work

LEMMA AnswerStep == IInv /\ AnswerInv /\ [Next]_vars => AnswerInv'
<1> SUFFICES ASSUME IInv, AnswerInv, [Next]_vars, NEW c \in Own
             PROVE  /\ timer'[c] = "cancelled" => request'[c] \in Answer
                    /\ Answered(c)'
    BY DEF AnswerInv
<1>0. TypeOK /\ NetType
    BY DEF IInv, TypeOK, NetType
<1>1. timer[c] = "cancelled" => request[c] \in Answer
    BY DEF AnswerInv
<1>2. CASE Network
    <2>1. request[c] \in Answer => request'[c] = request[c]
        BY <1>0, <1>2, NetworkStep DEF Grows, IInv
    <2>2. timer'[c] = "cancelled" => timer[c] = "cancelled" \/ request[c] \in Answer
        BY <1>0, <1>2 DEF Network, onSend, CancelTimer, Timer, Respond,
                          onLiveComment, NetType
    <2> QED BY <2>1, <2>2, <1>1, <1>2, NetworkAnswered
<1>3. ASSUME NEW j \in Job, Work(j)
      PROVE  /\ timer'[c] = "cancelled" => request'[c] \in Answer
             /\ Answered(c)'
    BY <1>0, <1>1, <1>3, WorkFrame, WorkAnswered DEF net
<1>4. ASSUME UNCHANGED <<request, timer, messageEventSyncList, event, rows, hist>>,
             \A k \in Job : pc[k] \in {"find", "mark"} => pc'[k] = pc[k]
      PROVE  /\ timer'[c] = "cancelled" => request'[c] \in Answer
             /\ Answered(c)'
    <2>1. Answered(c)
        BY DEF AnswerInv
    <2> QED BY <2>1, <1>1, <1>4 DEF Answered, StatusWaits, StatusInHand, RowAnswers,
                                    rows, hist
<1>5. CASE onPause
    BY <1>4, <1>5 DEF onPause, net, lists, local
<1>6. ASSUME NEW j \in Job, onResume(j)
      PROVE  /\ timer'[c] = "cancelled" => request'[c] \in Answer
             /\ Answered(c)'
    <2>1. UNCHANGED <<request, timer, messageEventSyncList, event, rows, hist>>
        BY <1>6 DEF onResume, net, lists
    <2>2. \A k \in Job : pc[k] \in {"find", "mark"} => pc'[k] = pc[k]
        BY <1>0, <1>6 DEF onResume, Goto, TypeOK
    <2> QED BY <2>1, <2>2, <1>4
<1>7. CASE UNCHANGED vars
    BY <1>4, <1>7 DEF vars, net, lists, local
<1> QED BY <1>2, <1>3, <1>5, <1>6, <1>7, NextSteps

(* With one row of a comment, that is the row that says it.                *)
LEMMA AnswerIsShown == IInv /\ AnswerInv => AnswerShown
<1> SUFFICES ASSUME IInv, AnswerInv, NEW i \in DOMAIN messages,
                    messages[i].uuid \in Own,
                    timer[messages[i].uuid] = "cancelled",
                    ~Pending(messages[i].uuid),
                    messages[i].uuid \notin missed \cup torn
             PROVE  messages[i].sendStatus = request[messages[i].uuid]
    BY DEF AnswerShown
<1>1. PICK c \in Own : c = messages[i].uuid
    OBVIOUS
<1>2. ~StatusWaits(c) /\ ~StatusInHand(c)
    BY <1>1 DEF Pending, StatusWaits, StatusInHand
<1>3. RowAnswers(c)
    BY <1>1, <1>2 DEF AnswerInv, Answered
<1>4. PICK k \in DOMAIN messages : /\ messages[k].uuid = c
                                   /\ messages[k].sendStatus = request[c]
    BY <1>3 DEF RowAnswers
<1>5. k = i
    BY <1>1, <1>4 DEF IInv, OneRow
<1> QED BY <1>1, <1>4, <1>5

-----------------------------------------------------------------------------
(* The theorems                                                            *)

(* IInv holds in every reachable state.                                    *)
THEOREM Inductive == Spec => []IInv
<1>1. IInv /\ [Next]_vars => IInv'
  <2> SUFFICES ASSUME IInv, [Next]_vars PROVE IInv'
      OBVIOUS
  <2>1. TypeOK' /\ TimerOff'
      BY TypeStep DEF IInv
  <2> QED BY <2>1, OneLiveStep, EventsTrueStep, IndexStep, FreshStep, OneRowStep,
             StatusTrueStep, RegisteredShownStep DEF IInv
<1> QED BY <1>1, InitIInv, PTL DEF Spec

(* The state stays well typed: the index a coroutine holds is a number of  *)
(* a row whenever it is used, and no event in hand is ever missing.        *)
THEOREM TypeCorrect == Spec => []TypeOK
<1>1. IInv => TypeOK
    BY DEF IInv
<1> QED BY <1>1, Inductive, PTL

(* However the screen is left and entered again, no comment has two rows,  *)
(* unless the add() that registered it was overwritten by a racing one.    *)
THEOREM NoSecondRow == Spec => []OneRow
<1>1. IInv => OneRow
    BY DEF IInv
<1> QED BY <1>1, Inductive, PTL

(* A row never shows what happened to another comment: the index computed  *)
(* off the main thread is still the index of the row when it is used there. *)
THEOREM StatusIsTrue == Spec => []StatusTrue
<1>1. IInv => StatusTrue
    BY DEF IInv
<1> QED BY <1>1, Inductive, PTL

(* A uuid that makes later events be ignored has a row, is about to have   *)
(* one, or was in the hands of a cancelled coroutine.                      *)
THEOREM RegisteredIsShown == Spec => []RegisteredShown
<1>1. IInv => RegisteredShown
    BY DEF IInv
<1> QED BY <1>1, Inductive, PTL

(* While the screen has not been left, a comment that was sent is in the   *)
(* owner's queue, in the hands of the coroutine, or in a row.              *)
THEOREM SentAreShown == Spec => []SentIsShown
<1>1. SentInv => SentIsShown
    BY DEF SentInv
<1> QED BY <1>1, InitSentInv, SentStep, Inductive, PTL DEF Spec

(* Once the answer has cancelled the timer and everything posted has been  *)
(* applied, the row of the comment says what the answer was.               *)
THEOREM AnswerAppears == Spec => []AnswerShown
BY InitAnswerInv, AnswerStep, AnswerIsShown, Inductive, PTL DEF Spec
=============================================================================
