-------------------------- MODULE MessageJob_proofs --------------------------
(* Proofs about MessageJob for any packets, any set of jobs and any        *)
(* overlap of them.                                                        *)
EXTENDS MessageJob, TLAPS

-----------------------------------------------------------------------------
(* Sequences as sets                                                       *)

(* Polling or converting takes one element off the front.                  *)
LEMMA ElementsTail ==
    ASSUME NEW S, NEW s \in Seq(S), s # <<>>
    PROVE  /\ Head(s) \in S
           /\ Tail(s) \in Seq(S)
           /\ Elements(s) = {Head(s)} \cup Elements(Tail(s))
<1>1. Head(s) = s[1] /\ 1 \in DOMAIN s
    OBVIOUS
<1>2. \A i \in DOMAIN Tail(s) : i + 1 \in DOMAIN s /\ Tail(s)[i] = s[i + 1]
    OBVIOUS
<1>3. \A i \in DOMAIN s : i = 1 \/ (i - 1 \in DOMAIN Tail(s) /\ Tail(s)[i - 1] = s[i])
    OBVIOUS
<1>4. Elements(s) \subseteq {Head(s)} \cup Elements(Tail(s))
    BY <1>1, <1>3 DEF Elements
<1>5. {Head(s)} \cup Elements(Tail(s)) \subseteq Elements(s)
    BY <1>1, <1>2 DEF Elements
<1> QED BY <1>4, <1>5

(* Adding puts one element at the end.                                     *)
LEMMA ElementsAppend ==
    ASSUME NEW S, NEW s \in Seq(S), NEW e \in S
    PROVE  /\ Append(s, e) \in Seq(S)
           /\ Elements(Append(s, e)) = Elements(s) \cup {e}
<1>1. \A i \in DOMAIN s : i \in DOMAIN Append(s, e) /\ Append(s, e)[i] = s[i]
    OBVIOUS
<1>2. Len(s) + 1 \in DOMAIN Append(s, e) /\ Append(s, e)[Len(s) + 1] = e
    OBVIOUS
<1>3. \A i \in DOMAIN Append(s, e) : i \in DOMAIN s \/ i = Len(s) + 1
    OBVIOUS
<1> QED BY <1>1, <1>2, <1>3 DEF Elements

LEMMA ElementsEmpty == Elements(<<>>) = {}
BY DEF Elements

(* The elements of a sequence are of its type.                             *)
LEMMA ElementsType ==
    ASSUME NEW S, NEW s \in Seq(S)
    PROVE  Elements(s) \subseteq S
BY DEF Elements

(* A packet holds timetokens.                                              *)
LEMMA MessageType ==
    ASSUME NEW p \in Packet
    PROVE  /\ p.messages \in Seq(Timetoken)
           /\ p.isUnreadMessage \in BOOLEAN
           /\ Message(p) = Elements(p.messages)
           /\ Message(p) \subseteq Timetoken
<1>1. p.messages \in Seq(Timetoken) /\ p.isUnreadMessage \in BOOLEAN
    BY PacketAssumption
<1>2. Message(p) = Elements(p.messages)
    BY DEF Message, Elements
<1> QED BY <1>1, <1>2, ElementsType

(* What a step can post is a MessageEvent.                                 *)
LEMMA EventType ==
    /\ NoEvent \in Event
    /\ UnreadOver \in Event
    /\ \A s \in Seq(Timetoken), b \in BOOLEAN : NewMessages(s, b) \in Event
<1>1. NoEvent \in Event /\ UnreadOver \in Event
    BY DEF Event
<1>2. ASSUME NEW s \in Seq(Timetoken), NEW b \in BOOLEAN
      PROVE  NewMessages(s, b) \in Event
  <2>1. s # <<>> => s[1] \in Nat /\ s[Len(s)] \in Nat
      BY <1>2 DEF Timetoken
  <2> QED BY <2>1 DEF NewMessages, Event
<1> QED BY <1>1, <1>2

-----------------------------------------------------------------------------
(* The inductive invariant                                                 *)

Shape ==
    /\ \A j \in Job : pc[j] \in {"convert", "report"} => packet[j] \in Packet
    /\ \A j \in Job : pc[j] # "convert" => left[j] = <<>>

Ownership ==
    /\ OneLiveJob
    /\ \A j \in cancelled : pc[j] # "new" /\ j # messageJob
    /\ messageJob # NoJob => pc[messageJob] # "new"

ListAttended ==
    (\A j \in Job : pc[j] # "convert") =>
        Elements(messageEntityList) \subseteq stored

Kept == Malformed \cup stored \cup dropped

Progress ==
    \A j \in Job :
        /\ pc[j] = "convert" =>
               Message(packet[j]) \subseteq
                   Kept \cup Elements(left[j]) \cup Elements(messageEntityList)
        /\ pc[j] = "report" => Message(packet[j]) \subseteq Kept

FirstProgress ==
    cancelled = {} =>
        \A j \in Job :
            /\ pc[j] = "convert" =>
                   Message(packet[j]) \subseteq
                       Malformed \cup stored
                           \cup Elements(left[j]) \cup Elements(messageEntityList)
            /\ pc[j] = "report" =>
                   Message(packet[j]) \subseteq Malformed \cup stored

(* Until a job is stopped: before the only job has cleared the map nothing *)
(* is stored, and when it clears the map again its tokens are written.     *)
TokenCover ==
    cancelled = {} =>
        /\ \A m \in stored \cup Elements(messageEntityList) :
               m <= Newest(lastMsgTimetoken, idTimeTokenMap)
        /\ \A j \in Job : pc[j] = "flush" => idTimeTokenMap <= lastMsgTimetoken
        /\ messageJob = NoJob \/ pc[messageJob] = "launched" =>
               stored = {} /\ messageEntityList = <<>>

IInv ==
    /\ TypeOK /\ Shape /\ Ownership /\ ListAttended /\ Progress /\ FirstProgress
    /\ NothingVanishes /\ AckedKept /\ FirstSessionKeeps /\ TokenCover

LEMMA InitIInv == Init => IInv
<1> SUFFICES ASSUME Init PROVE IInv
    OBVIOUS
<1> USE DEF Init
<1>0. pc \in [Job -> Pc]
    BY DEF Pc
<1>b. isDecomposerUnreadMessage \in BOOLEAN
    OBVIOUS
<1>1. TypeOK
    BY <1>0, <1>b, EventType DEF TypeOK
<1>2. Shape /\ Ownership
    BY DEF Shape, Ownership, OneLiveJob
<1>3. ListAttended /\ Progress /\ FirstProgress
    BY ElementsEmpty DEF ListAttended, Progress, FirstProgress
<1>4. NothingVanishes /\ AckedKept /\ FirstSessionKeeps
    BY DEF NothingVanishes, AckedKept, FirstSessionKeeps
<1>5. TokenCover
    BY ElementsEmpty DEF TokenCover
<1> QED BY <1>1, <1>2, <1>3, <1>4, <1>5 DEF IInv

-----------------------------------------------------------------------------
(* Every step keeps the types.                                             *)

LEMMA TakeType ==
    ASSUME TypeOK, NEW j \in Job, Take(j)
    PROVE  TypeOK'
<1> USE DEF TypeOK
<1>1. dropped' \subseteq Timetoken
    BY ElementsType DEF Take, Throw
<1>p. pc' \in [Job -> Pc]
    BY DEF Take, Goto, Pc
<1>f. /\ UNCHANGED <<jobs, received, token, stored, acked>>
      /\ messageEntityList' \in Seq(Timetoken)
    BY DEF Take
<1>2. CASE messageSyncList = <<>>
  <2>1. isDecomposerUnreadMessage' \in BOOLEAN
      BY <1>2 DEF Take
  <2>2. event' \in Event /\ UNCHANGED <<packet, left, messageSyncList>>
      BY <1>2, EventType DEF Take
  <2> QED BY <1>1, <1>p, <1>f, <2>1, <2>2 DEF jobs, token
<1>3. CASE messageSyncList # <<>>
  <2>1. /\ Head(messageSyncList) \in Packet
        /\ Tail(messageSyncList) \in Seq(Packet)
      BY <1>3, ElementsTail
  <2>2. Head(messageSyncList).messages \in Seq(Timetoken)
      BY <2>1, MessageType
  <2>3. isDecomposerUnreadMessage' \in BOOLEAN
      BY <1>3 DEF Take
  <2>5. event' \in Event
      BY <1>3, EventType DEF Take
  <2>6. messageSyncList' \in Seq(Packet)
      BY <1>3, <2>1 DEF Take
  <2>4. packet' \in [Job -> Packet \cup {NoPacket}] /\ left' \in [Job -> Seq(Timetoken)]
      BY <1>3, <2>1, <2>2 DEF Take
  <2> QED BY <1>1, <1>p, <2>3, <2>4, <2>5, <2>6, <1>f DEF jobs, token
<1> QED BY <1>2, <1>3

LEMMA ConvertType ==
    ASSUME TypeOK, NEW j \in Job, Convert(j)
    PROVE  TypeOK'
<1> USE DEF TypeOK
<1>1. left[j] \in Seq(Timetoken) /\ left[j] # <<>>
    BY DEF Convert
<1>2. Head(left[j]) \in Timetoken /\ Tail(left[j]) \in Seq(Timetoken)
    BY <1>1, ElementsTail
<1>3. left' \in [Job -> Seq(Timetoken)]
    BY <1>2 DEF Convert
<1>4. Append(messageEntityList, Head(left[j])) \in Seq(Timetoken)
    BY <1>2, ElementsAppend
<1>5. messageEntityList' \in Seq(Timetoken) /\ idTimeTokenMap' \in Nat
    BY <1>2, <1>4 DEF Convert, Newest, Timetoken
<1> QED BY <1>3, <1>5, EventType DEF Convert, jobs, queue, kept

LEMMA TypeStep == TypeOK /\ Shape /\ [Next]_vars => TypeOK'
<1> SUFFICES ASSUME TypeOK, Shape, [Next]_vars PROVE TypeOK'
    OBVIOUS
<1> USE DEF TypeOK, jobs, local, queue, token, kept, Goto, Pc
<1>1. ASSUME NEW p \in Packet, onDirectMessage(p) PROVE TypeOK'
    BY EventType, <1>1 DEF onDirectMessage
<1>2. ASSUME NEW j \in Job, startMessageJob(j) PROVE TypeOK'
    BY EventType, <1>2 DEF startMessageJob
<1>3. CASE stopMessageJob
    BY EventType, <1>3, ElementsType DEF stopMessageJob, Throw
<1>4. ASSUME NEW j \in Job, Begin(j) PROVE TypeOK'
  <2>1. Elements(messageSyncList) \subseteq Packet
      BY ElementsType
  <2>2. Queued \subseteq Timetoken
      BY <2>1, MessageType DEF Queued
  <2> QED BY EventType, <1>4, <2>2 DEF Begin
<1>5. ASSUME NEW j \in Job,
             \/ End(j) \/ LoopBusy(j) \/ LoopIdle(j) \/ Wake(j) \/ Early(j)
             \/ ClearTokens(j)
      PROVE  TypeOK'
  <2>1. pc' \in [Job -> Pc]
      BY <1>5 DEF End, LoopBusy, LoopIdle, Wake, Early, ClearTokens
  <2>2. isDecomposerUnreadMessage' \in BOOLEAN
      BY <1>5 DEF End, LoopBusy, LoopIdle, Wake, Early, ClearTokens
  <2>4. idTimeTokenMap' \in Nat
      BY <1>5 DEF End, LoopBusy, LoopIdle, Wake, Early, ClearTokens
  <2>5. event' \in Event
      BY EventType, <1>5
      DEF End, LoopBusy, LoopIdle, Wake, Early, ClearTokens
  <2>3. UNCHANGED <<jobs, packet, left, queue, messageEntityList,
                    lastMsgTimetoken, kept>>
      BY <1>5 DEF End, LoopBusy, LoopIdle, Wake, Early, ClearTokens
  <2> QED BY <2>1, <2>2, <2>3, <2>4, <2>5
<1>6. ASSUME NEW j \in Job, insertMessages(j) PROVE TypeOK'
    BY EventType, <1>6, ElementsType DEF insertMessages
<1>7. ASSUME NEW j \in Job, handleMessageWrapper(j) PROVE TypeOK'
  <2>1. packet[j] \in Packet
      BY <1>7 DEF handleMessageWrapper, Shape
  <2>2. Message(packet[j]) \subseteq Timetoken
      BY <2>1, MessageType
  <2>3. event' \in Event
      BY <1>7, <2>1, MessageType, EventType DEF handleMessageWrapper
  <2> QED BY <1>7, <2>2, <2>3 DEF handleMessageWrapper
<1>8. ASSUME NEW j \in Job, updateConversationLastTimeToken(j) PROVE TypeOK'
    BY EventType, <1>8 DEF updateConversationLastTimeToken, Newest
<1>9. CASE UNCHANGED vars
    BY <1>9 DEF vars
<1> QED
    BY <1>1, <1>2, <1>3, <1>4, <1>5, <1>6, <1>7, <1>8, <1>9, TakeType,
       ConvertType DEF Next, Work

-----------------------------------------------------------------------------
(* Which job is where                                                      *)

(* Steps that move one job between points where it holds no packet.        *)
Quiet(j) ==
    \/ startMessageJob(j) \/ End(j) \/ LoopBusy(j) \/ LoopIdle(j) \/ Wake(j)
    \/ Early(j) \/ updateConversationLastTimeToken(j) \/ ClearTokens(j)

LEMMA QuietFrame ==
    ASSUME TypeOK, NEW j \in Job, Quiet(j)
    PROVE  /\ UNCHANGED <<cancelled, packet, left, queue, messageEntityList, kept>>
           /\ \A k \in Job : /\ pc[k] = "convert" <=> pc'[k] = "convert"
                             /\ pc[k] = "report" <=> pc'[k] = "report"
<1>1. UNCHANGED <<cancelled, packet, left, queue, messageEntityList, kept>>
    BY DEF Quiet, startMessageJob, End, LoopBusy, LoopIdle, Wake, Early,
           updateConversationLastTimeToken, ClearTokens, jobs
<1>2. \A k \in Job : /\ pc[k] = "convert" <=> pc'[k] = "convert"
                     /\ pc[k] = "report" <=> pc'[k] = "report"
    BY DEF Quiet, startMessageJob, End, LoopBusy, LoopIdle, Wake, Early,
           updateConversationLastTimeToken, ClearTokens, Goto, TypeOK
<1> QED BY <1>1, <1>2

(* A job holds a packet exactly while it converts or reports one.          *)
LEMMA ShapeStep == TypeOK /\ Shape /\ [Next]_vars => Shape'
<1> SUFFICES ASSUME TypeOK, Shape, [Next]_vars PROVE Shape'
    OBVIOUS
<1>1. ASSUME NEW j \in Job, Quiet(j) PROVE Shape'
    BY <1>1, QuietFrame DEF Shape
<1>2. ASSUME NEW p \in Packet, onDirectMessage(p) PROVE Shape'
    BY <1>2 DEF onDirectMessage, Shape, local
<1>3. CASE stopMessageJob
    BY <1>3 DEF stopMessageJob, Shape, local
<1>4. ASSUME NEW j \in Job, Begin(j) PROVE Shape'
    BY <1>4 DEF Begin, Shape, Goto, TypeOK
<1>5. ASSUME NEW j \in Job, Take(j) PROVE Shape'
  <2>1. CASE messageSyncList = <<>>
      BY <1>5, <2>1 DEF Take, Shape, Goto, TypeOK
  <2>2. CASE messageSyncList # <<>>
    <3>1. Head(messageSyncList) \in Packet
        BY <2>2, ElementsTail DEF TypeOK
    <3>2. /\ pc' = [pc EXCEPT ![j] = "convert"]
          /\ packet' = [packet EXCEPT ![j] = Head(messageSyncList)]
          /\ left' = [left EXCEPT ![j] = Head(messageSyncList).messages]
        BY <1>5, <2>2 DEF Take, Goto
    <3> QED BY <3>1, <3>2 DEF Shape, TypeOK
  <2> QED BY <2>1, <2>2
<1>6. ASSUME NEW j \in Job, Convert(j) PROVE Shape'
    BY <1>6 DEF Convert, Shape, TypeOK
<1>7. ASSUME NEW j \in Job, insertMessages(j) PROVE Shape'
    BY <1>7 DEF insertMessages, Shape, Goto, TypeOK
<1>8. ASSUME NEW j \in Job, handleMessageWrapper(j) PROVE Shape'
    BY <1>8 DEF handleMessageWrapper, Shape, Goto, TypeOK
<1>9. CASE UNCHANGED vars
    BY <1>9 DEF vars, local, Shape
<1> QED
    BY <1>1, <1>2, <1>3, <1>4, <1>5, <1>6, <1>7, <1>8, <1>9
    DEF Next, Work, Quiet

(* messageJob is the only job that runs without having been cancelled.     *)
LEMMA OwnershipStep == TypeOK /\ Ownership /\ [Next]_vars => Ownership'
<1> SUFFICES ASSUME TypeOK, Ownership, [Next]_vars PROVE Ownership'
    OBVIOUS
<1> USE DEF Ownership, OneLiveJob
<1>1. ASSUME NEW j \in Job, startMessageJob(j) PROVE Ownership'
    BY <1>1, JobAssumption DEF startMessageJob, Goto, TypeOK
<1>2. CASE stopMessageJob
    BY <1>2, JobAssumption DEF stopMessageJob, local, TypeOK
<1>3. ASSUME NEW j \in Job, Work(j) PROVE Ownership'
  <2>1. UNCHANGED jobs
      BY <1>3 DEF Work, Begin, End, LoopBusy, LoopIdle, Take, Convert,
                  insertMessages, handleMessageWrapper, Wake, Early,
                  updateConversationLastTimeToken, ClearTokens
  <2>2. pc[j] \notin {"new", "done"}
      BY <1>3 DEF Work, Begin, End, LoopBusy, LoopIdle, Take, Convert,
                  insertMessages, handleMessageWrapper, Wake, Early,
                  updateConversationLastTimeToken, ClearTokens
  <2>3. /\ pc'[j] # "new"
        /\ \A k \in Job : k # j => pc'[k] = pc[k]
      BY <1>3 DEF Work, Begin, End, LoopBusy, LoopIdle, Take, Convert, Goto,
                  insertMessages, handleMessageWrapper, Wake, Early, TypeOK,
                  updateConversationLastTimeToken, ClearTokens
  <2> QED BY <2>1, <2>2, <2>3 DEF jobs, TypeOK
<1>4. ASSUME NEW p \in Packet, onDirectMessage(p) PROVE Ownership'
    BY <1>4 DEF onDirectMessage, jobs, local
<1>5. CASE UNCHANGED vars
    BY <1>5 DEF vars, jobs, local
<1> QED BY <1>1, <1>2, <1>3, <1>4, <1>5 DEF Next

-----------------------------------------------------------------------------
(* Where the messages are                                                  *)

(* Nothing leaves the database, and what leaves the shared list is stored  *)
(* or counted as dropped.                                                  *)
LEMMA ListStep ==
    ASSUME TypeOK, [Next]_vars
    PROVE  /\ stored \subseteq stored'
           /\ dropped \subseteq dropped'
           /\ Elements(messageEntityList) \subseteq
                  Elements(messageEntityList') \cup stored' \cup dropped'
<1>1. ASSUME NEW j \in Job, Quiet(j)
      PROVE  UNCHANGED <<stored, dropped, messageEntityList>>
    BY <1>1, QuietFrame DEF kept
<1>2. ASSUME NEW p \in Packet, onDirectMessage(p)
      PROVE  UNCHANGED <<stored, dropped, messageEntityList>>
    BY <1>2 DEF onDirectMessage, kept
<1>3. ASSUME stopMessageJob
      PROVE  /\ UNCHANGED stored
             /\ dropped' = dropped \cup (Elements(messageEntityList) \ stored)
    BY <1>3 DEF stopMessageJob, Throw
<1>4. ASSUME NEW j \in Job, Begin(j)
      PROVE  UNCHANGED <<stored, messageEntityList>> /\ dropped \subseteq dropped'
    BY <1>4 DEF Begin
<1>5. ASSUME NEW j \in Job, Take(j)
      PROVE  /\ UNCHANGED stored
             /\ dropped' = dropped \cup (Elements(messageEntityList) \ stored)
    BY <1>5 DEF Take, Throw
<1>6. ASSUME NEW j \in Job, Convert(j)
      PROVE  /\ UNCHANGED <<stored, dropped>>
             /\ Elements(messageEntityList) \subseteq Elements(messageEntityList')
  <2>1. Head(left[j]) \in Timetoken
      BY <1>6, ElementsTail DEF Convert, TypeOK
  <2>2. Elements(Append(messageEntityList, Head(left[j])))
            = Elements(messageEntityList) \cup {Head(left[j])}
      BY <2>1, ElementsAppend DEF TypeOK
  <2> QED BY <1>6, <2>2 DEF Convert, kept
<1>7. ASSUME NEW j \in Job, insertMessages(j)
      PROVE  UNCHANGED <<dropped, messageEntityList>> /\ stored \subseteq stored'
    BY <1>7 DEF insertMessages
<1>8. ASSUME NEW j \in Job, handleMessageWrapper(j)
      PROVE  UNCHANGED <<stored, dropped, messageEntityList>>
    BY <1>8 DEF handleMessageWrapper
<1>9. ASSUME UNCHANGED vars
      PROVE  UNCHANGED <<stored, dropped, messageEntityList>>
    BY <1>9 DEF vars, kept
<1> QED
    BY <1>1, <1>2, <1>3, <1>4, <1>5, <1>6, <1>7, <1>8, <1>9
    DEF Next, Work, Quiet

(* What converting one message does: it is malformed or is in the list.    *)
LEMMA ConvertStep ==
    ASSUME TypeOK, NEW j \in Job, Convert(j)
    PROVE  Elements(left[j]) \subseteq
               Malformed \cup Elements(left'[j]) \cup Elements(messageEntityList')
<1>1. left[j] \in Seq(Timetoken) /\ left[j] # <<>>
    BY DEF Convert, TypeOK
<1>2. /\ Head(left[j]) \in Timetoken
      /\ Elements(left[j]) = {Head(left[j])} \cup Elements(Tail(left[j]))
    BY <1>1, ElementsTail
<1>3. left'[j] = Tail(left[j])
    BY DEF Convert, TypeOK
<1>4. Elements(Append(messageEntityList, Head(left[j])))
          = Elements(messageEntityList) \cup {Head(left[j])}
    BY <1>2, ElementsAppend DEF TypeOK
<1> QED BY <1>2, <1>3, <1>4 DEF Convert

(* What taking a packet does.                                              *)
LEMMA TakeStep ==
    ASSUME TypeOK, NEW j \in Job, Take(j), messageSyncList # <<>>
    PROVE  /\ Head(messageSyncList) \in Packet
           /\ pc' = [pc EXCEPT ![j] = "convert"]
           /\ packet' = [packet EXCEPT ![j] = Head(messageSyncList)]
           /\ left' = [left EXCEPT ![j] = Head(messageSyncList).messages]
           /\ Elements(left'[j]) = Message(Head(messageSyncList))
           /\ Elements(messageSyncList) =
                  {Head(messageSyncList)} \cup Elements(messageSyncList')
<1>1. /\ Head(messageSyncList) \in Packet
      /\ Elements(messageSyncList) =
             {Head(messageSyncList)} \cup Elements(Tail(messageSyncList))
    BY ElementsTail DEF TypeOK
<1>2. /\ messageSyncList' = Tail(messageSyncList)
      /\ pc' = [pc EXCEPT ![j] = "convert"]
      /\ packet' = [packet EXCEPT ![j] = Head(messageSyncList)]
      /\ left' = [left EXCEPT ![j] = Head(messageSyncList).messages]
    BY DEF Take, Goto
<1>3. Elements(left'[j]) = Message(Head(messageSyncList))
    BY <1>1, <1>2, MessageType DEF TypeOK
<1> QED BY <1>1, <1>2, <1>3

(* A list nobody is building has been inserted.                            *)
LEMMA AttendedStep ==
    TypeOK /\ Shape /\ ListAttended /\ [Next]_vars => ListAttended'
<1> SUFFICES ASSUME TypeOK, Shape, ListAttended, [Next]_vars PROVE ListAttended'
    OBVIOUS
<1> USE DEF ListAttended
<1>1. ASSUME NEW j \in Job, Quiet(j) PROVE ListAttended'
    BY <1>1, QuietFrame DEF kept
<1>2. ASSUME NEW p \in Packet, onDirectMessage(p) PROVE ListAttended'
    BY <1>2 DEF onDirectMessage, kept, local
<1>3. CASE stopMessageJob
    BY <1>3, ElementsEmpty DEF stopMessageJob
<1>4. ASSUME NEW j \in Job, Begin(j) PROVE ListAttended'
  <2>1. \A k \in Job : pc[k] = "convert" => pc'[k] = "convert"
      BY <1>4 DEF Begin, Goto, TypeOK
  <2> QED BY <1>4, <2>1 DEF Begin
<1>5. ASSUME NEW j \in Job, Take(j) PROVE ListAttended'
    BY <1>5, ElementsEmpty DEF Take
<1>6. ASSUME NEW j \in Job, Convert(j) PROVE ListAttended'
    BY <1>6 DEF Convert
<1>7. ASSUME NEW j \in Job, insertMessages(j) PROVE ListAttended'
    BY <1>7 DEF insertMessages
<1>8. ASSUME NEW j \in Job, handleMessageWrapper(j) PROVE ListAttended'
  <2>1. \A k \in Job : pc[k] = "convert" => pc'[k] = "convert"
      BY <1>8 DEF handleMessageWrapper, Goto, TypeOK
  <2> QED BY <1>8, <2>1 DEF handleMessageWrapper
<1>9. CASE UNCHANGED vars
    BY <1>9 DEF vars, local, kept
<1> QED
    BY <1>1, <1>2, <1>3, <1>4, <1>5, <1>6, <1>7, <1>8, <1>9
    DEF Next, Work, Quiet

(* A job's packet is converted, in the list, stored or dropped.            *)
LEMMA ProgressStep ==
    TypeOK /\ Shape /\ Progress /\ [Next]_vars => Progress'
<1> SUFFICES ASSUME TypeOK, Shape, Progress, [Next]_vars PROVE Progress'
    OBVIOUS
<1>0. /\ Kept \subseteq Kept'
      /\ Elements(messageEntityList) \subseteq Elements(messageEntityList') \cup Kept'
    BY ListStep DEF Kept
<1>a. ASSUME NEW k \in Job, pc'[k] = pc[k], packet'[k] = packet[k],
             left'[k] = left[k]
      PROVE  /\ pc'[k] = "convert" =>
                    Message(packet'[k]) \subseteq Kept' \cup Elements(left'[k])
                                           \cup Elements(messageEntityList')
             /\ pc'[k] = "report" => Message(packet'[k]) \subseteq Kept'
    BY <1>0, <1>a DEF Progress
<1>1. ASSUME NEW j \in Job, Quiet(j) PROVE Progress'
    BY <1>1, <1>0, QuietFrame DEF Progress
<1>2. ASSUME NEW p \in Packet, onDirectMessage(p) PROVE Progress'
    BY <1>2, <1>a DEF onDirectMessage, local, Progress
<1>3. CASE stopMessageJob
    BY <1>3, <1>a DEF stopMessageJob, local, Progress
<1>4. ASSUME NEW j \in Job, Begin(j) PROVE Progress'
  <2>1. pc'[j] = "loop" /\ UNCHANGED <<packet, left>>
      BY <1>4 DEF Begin, Goto, TypeOK
  <2>2. \A k \in Job : k # j => pc'[k] = pc[k]
      BY <1>4 DEF Begin, Goto, TypeOK
  <2> QED BY <1>a, <2>1, <2>2 DEF Progress
<1>5. ASSUME NEW j \in Job, Take(j) PROVE Progress'
  <2>1. CASE messageSyncList = <<>>
    <3>1. pc'[j] = "done" /\ UNCHANGED <<packet, left>>
        BY <1>5, <2>1 DEF Take, Goto, TypeOK
    <3>2. \A k \in Job : k # j => pc'[k] = pc[k]
        BY <1>5, <2>1 DEF Take, Goto, TypeOK
    <3> QED BY <1>a, <3>1, <3>2 DEF Progress
  <2>2. CASE messageSyncList # <<>>
    <3>1. /\ pc'[j] = "convert"
          /\ packet'[j] = Head(messageSyncList)
          /\ Elements(left'[j]) = Message(packet'[j])
        BY <1>5, <2>2, TakeStep DEF TypeOK
    <3>2. \A k \in Job : k # j => /\ pc'[k] = pc[k]
                                  /\ packet'[k] = packet[k]
                                  /\ left'[k] = left[k]
        BY <1>5, <2>2, TakeStep DEF TypeOK
    <3> QED BY <1>a, <3>1, <3>2 DEF Progress
  <2> QED BY <2>1, <2>2
<1>6. ASSUME NEW j \in Job, Convert(j) PROVE Progress'
  <2>1. /\ pc[j] = "convert"
        /\ UNCHANGED <<pc, packet>>
        /\ \A k \in Job : k # j => left'[k] = left[k]
      BY <1>6 DEF Convert, TypeOK
  <2>2. Message(packet[j]) \subseteq
            Kept' \cup Elements(left'[j]) \cup Elements(messageEntityList')
      BY <1>6, <1>0, <2>1, ConvertStep DEF Progress, Kept
  <2> QED BY <1>a, <2>1, <2>2 DEF Progress
<1>7. ASSUME NEW j \in Job, insertMessages(j) PROVE Progress'
  <2>1. /\ pc[j] = "convert" /\ pc'[j] = "report"
        /\ UNCHANGED <<packet, left>>
        /\ Elements(left[j]) = {}
        /\ stored' = stored \cup Elements(messageEntityList)
      BY <1>7, ElementsEmpty DEF insertMessages, Goto, TypeOK
  <2>2. \A k \in Job : k # j => pc'[k] = pc[k]
      BY <1>7 DEF insertMessages, Goto, TypeOK
  <2>3. Message(packet[j]) \subseteq Kept'
      BY <1>0, <2>1 DEF Progress, Kept
  <2> QED BY <1>a, <2>1, <2>2, <2>3 DEF Progress
<1>8. ASSUME NEW j \in Job, handleMessageWrapper(j) PROVE Progress'
  <2>1. pc'[j] = "after" /\ UNCHANGED <<packet, left>>
      BY <1>8 DEF handleMessageWrapper, Goto, TypeOK
  <2>2. \A k \in Job : k # j => pc'[k] = pc[k]
      BY <1>8 DEF handleMessageWrapper, Goto, TypeOK
  <2> QED BY <1>a, <2>1, <2>2 DEF Progress
<1>9. CASE UNCHANGED vars
    BY <1>9, <1>a DEF vars, local, Progress
<1> QED
    BY <1>1, <1>2, <1>3, <1>4, <1>5, <1>6, <1>7, <1>8, <1>9
    DEF Next, Work, Quiet

(* As long as no job was stopped only one job runs, so nothing is dropped  *)
(* from the packet in its hands.                                           *)
LEMMA FirstProgressStep ==
    TypeOK /\ Shape /\ Ownership /\ FirstProgress /\ [Next]_vars
        => FirstProgress'
<1> SUFFICES ASSUME TypeOK, Shape, Ownership, FirstProgress, [Next]_vars,
                    cancelled' = {}
             PROVE  FirstProgress'
    BY DEF FirstProgress
<1> DEFINE Fine(k) ==
        /\ pc[k] = "convert" =>
               Message(packet[k]) \subseteq Malformed \cup stored
                   \cup Elements(left[k]) \cup Elements(messageEntityList)
        /\ pc[k] = "report" =>
               Message(packet[k]) \subseteq Malformed \cup stored
<1> SUFFICES ASSUME NEW k \in Job PROVE Fine(k)'
    BY DEF FirstProgress
<1>0. cancelled = {} => Fine(k)
    BY DEF FirstProgress
<1>s. stored \subseteq stored'
    BY ListStep
<1>1. ASSUME NEW j \in Job, Quiet(j) PROVE Fine(k)'
    BY <1>1, <1>0, QuietFrame DEF kept
<1>2. ASSUME NEW p \in Packet, onDirectMessage(p) PROVE Fine(k)'
    BY <1>2, <1>0 DEF onDirectMessage, local, jobs, kept
<1>3. ~stopMessageJob
    BY DEF stopMessageJob
<1>4. ASSUME NEW j \in Job, Work(j), ~Quiet(j) PROVE Fine(k)'
  <2>1. cancelled = {}
      BY <1>4 DEF Work, Quiet, Begin, Take, Convert, insertMessages,
                  handleMessageWrapper, jobs
  <2>2. pc[j] \notin {"new", "done"}
      BY <1>4 DEF Work, Quiet, Begin, Take, Convert, insertMessages,
                  handleMessageWrapper
  <2>3. k # j => pc[k] \in {"new", "done"}
      BY <2>1, <2>2 DEF Ownership, OneLiveJob
  <2>4. k # j => pc'[k] = pc[k]
      BY <1>4 DEF Work, Quiet, Begin, Take, Convert, insertMessages, Goto,
                  handleMessageWrapper, TypeOK
  <2>5. CASE k # j
      BY <2>3, <2>4, <2>5
  <2>6. CASE k = j
    <3>1. CASE Begin(j) \/ handleMessageWrapper(j)
      <4>1. pc'[j] \in {"loop", "after"}
          BY <3>1 DEF Begin, handleMessageWrapper, Goto, TypeOK
      <4> QED BY <4>1, <2>6
    <3>2. CASE Take(j) /\ messageSyncList = <<>>
      <4>1. pc'[j] = "done"
          BY <3>2 DEF Take, Goto, TypeOK
      <4> QED BY <4>1, <2>6
    <3>3. CASE Take(j) /\ messageSyncList # <<>>
      <4>1. /\ pc'[j] = "convert"
            /\ Elements(left'[j]) = Message(packet'[j])
          BY <3>3, TakeStep DEF TypeOK
      <4> QED BY <4>1, <2>6
    <3>4. CASE Convert(j)
      <4>1. pc[j] = "convert" /\ UNCHANGED <<pc, packet, stored>>
          BY <3>4 DEF Convert, kept
      <4>2. Elements(messageEntityList) \subseteq Elements(messageEntityList')
        <5>1. Head(left[j]) \in Timetoken
            BY <3>4, ElementsTail DEF Convert, TypeOK
        <5>2. Elements(Append(messageEntityList, Head(left[j])))
                  = Elements(messageEntityList) \cup {Head(left[j])}
            BY <5>1, ElementsAppend DEF TypeOK
        <5> QED BY <3>4, <5>2 DEF Convert
      <4>3. Elements(left[j]) \subseteq
               Malformed \cup Elements(left'[j]) \cup Elements(messageEntityList')
          BY <3>4, ConvertStep
      <4> QED BY <1>0, <2>1, <2>6, <4>1, <4>2, <4>3
    <3>5. CASE insertMessages(j)
      <4>1. /\ pc[j] = "convert" /\ pc'[j] = "report"
            /\ UNCHANGED packet
            /\ Elements(left[j]) = {}
            /\ stored' = stored \cup Elements(messageEntityList)
          BY <3>5, ElementsEmpty DEF insertMessages, Goto, TypeOK
      <4> QED BY <1>0, <2>1, <2>6, <4>1
    <3> QED BY <1>4, <3>1, <3>2, <3>3, <3>4, <3>5 DEF Work, Quiet
  <2> QED BY <2>5, <2>6
<1>5. CASE UNCHANGED vars
    BY <1>5, <1>0 DEF vars, jobs, local, kept
<1> QED BY <1>1, <1>2, <1>3, <1>4, <1>5 DEF Next, Quiet

(* A step acknowledges what a finished packet holds, or nothing.           *)
LEMMA AckedStep ==
    ASSUME TypeOK, [Next]_vars
    PROVE  \/ UNCHANGED acked
           \/ \E j \in Job : /\ pc[j] = "report"
                             /\ acked' = acked \cup Message(packet[j])
                             /\ UNCHANGED <<cancelled, stored, dropped>>
<1>1. ASSUME NEW j \in Job, Quiet(j) PROVE UNCHANGED acked
    BY <1>1, QuietFrame DEF kept
<1>2. ASSUME NEW j \in Job, handleMessageWrapper(j)
      PROVE  /\ pc[j] = "report"
             /\ acked' = acked \cup Message(packet[j])
             /\ UNCHANGED <<cancelled, stored, dropped>>
    BY <1>2 DEF handleMessageWrapper, jobs
<1>3. ASSUME NEW j \in Job,
             Begin(j) \/ Take(j) \/ Convert(j) \/ insertMessages(j)
      PROVE  UNCHANGED acked
    BY <1>3 DEF Begin, Take, Convert, insertMessages, kept
<1>4. ASSUME NEW p \in Packet, onDirectMessage(p) PROVE UNCHANGED acked
    BY <1>4 DEF onDirectMessage, kept
<1>5. ASSUME stopMessageJob PROVE UNCHANGED acked
    BY <1>5 DEF stopMessageJob
<1>6. ASSUME UNCHANGED vars PROVE UNCHANGED acked
    BY <1>6 DEF vars, kept
<1> QED BY <1>1, <1>2, <1>3, <1>4, <1>5, <1>6 DEF Next, Work, Quiet

LEMMA CancelledGrows ==
    ASSUME [Next]_vars PROVE cancelled \subseteq cancelled'
BY DEF Next, Work, onDirectMessage, startMessageJob, stopMessageJob, Begin,
       End, LoopBusy, LoopIdle, Take, Convert, insertMessages,
       handleMessageWrapper, Wake, Early, updateConversationLastTimeToken,
       ClearTokens, jobs, vars

(* What is acknowledged is kept, and kept in the first session.            *)
LEMMA AckedKeptStep ==
    TypeOK /\ Progress /\ AckedKept /\ [Next]_vars => AckedKept'
<1> SUFFICES ASSUME TypeOK, Progress, AckedKept, [Next]_vars PROVE AckedKept'
    OBVIOUS
<1>1. stored \subseteq stored' /\ dropped \subseteq dropped'
    BY ListStep
<1>2. CASE UNCHANGED acked
    BY <1>1, <1>2 DEF AckedKept
<1>3. ASSUME NEW j \in Job, pc[j] = "report",
             acked' = acked \cup Message(packet[j])
      PROVE  AckedKept'
    BY <1>1, <1>3 DEF AckedKept, Progress, Kept
<1> QED BY <1>2, <1>3, AckedStep

LEMMA FirstSessionStep ==
    TypeOK /\ FirstProgress /\ FirstSessionKeeps /\ [Next]_vars
        => FirstSessionKeeps'
<1> SUFFICES ASSUME TypeOK, FirstProgress, FirstSessionKeeps, [Next]_vars,
                    cancelled' = {}
             PROVE  acked' \subseteq Malformed \cup stored'
    BY DEF FirstSessionKeeps
<1>1. stored \subseteq stored' /\ cancelled = {}
    BY ListStep, CancelledGrows
<1>2. CASE UNCHANGED acked
    BY <1>1, <1>2 DEF FirstSessionKeeps
<1>3. ASSUME NEW j \in Job, pc[j] = "report",
             acked' = acked \cup Message(packet[j])
      PROVE  acked' \subseteq Malformed \cup stored'
    BY <1>1, <1>3 DEF FirstSessionKeeps, FirstProgress
<1> QED BY <1>2, <1>3, AckedStep

-----------------------------------------------------------------------------
(* Nothing vanishes                                                        *)

Somewhere ==
    Malformed \cup stored \cup dropped \cup Queued \cup InHand \cup Building

(* A message is somewhere after every step if it was before.               *)
LEMMA SomewhereStep ==
    ASSUME TypeOK, Shape, [Next]_vars
    PROVE  Somewhere \subseteq Somewhere'
<1>0. /\ stored \subseteq stored' /\ dropped \subseteq dropped'
      /\ Elements(messageEntityList) \subseteq
             Elements(messageEntityList') \cup stored' \cup dropped'
    BY ListStep
<1> SUFFICES Queued \cup InHand \cup Building \subseteq Somewhere'
    BY <1>0 DEF Somewhere
<1> USE DEF Somewhere, Queued, InHand, Building
<1>1. ASSUME NEW j \in Job, Quiet(j)
      PROVE  Queued \cup InHand \cup Building \subseteq Somewhere'
    BY <1>1, QuietFrame DEF queue
<1>2. ASSUME NEW p \in Packet, onDirectMessage(p)
      PROVE  Queued \cup InHand \cup Building \subseteq Somewhere'
  <2>1. Elements(messageSyncList) \subseteq Elements(messageSyncList')
      BY <1>2, ElementsAppend DEF onDirectMessage, TypeOK
  <2> QED BY <1>2, <2>1 DEF onDirectMessage, local
<1>3. ASSUME stopMessageJob
      PROVE  Queued \cup InHand \cup Building \subseteq Somewhere'
    BY <1>3 DEF stopMessageJob, Throw, local, queue
<1>4. ASSUME NEW j \in Job, Begin(j)
      PROVE  Queued \cup InHand \cup Building \subseteq Somewhere'
  <2>0. stored' = stored /\ dropped' = dropped \cup (Queued \ stored)
      BY <1>4 DEF Begin
  <2>1. Queued \subseteq stored' \cup dropped'
      BY <2>0
  <2>2. \A k \in Job : pc[k] = "convert" => pc'[k] = "convert"
      BY <1>4 DEF Begin, Goto, TypeOK
  <2> QED BY <1>4, <2>1, <2>2 DEF Begin
<1>5. ASSUME NEW j \in Job, Take(j)
      PROVE  Queued \cup InHand \cup Building \subseteq Somewhere'
  <2>1. Building \subseteq stored' \cup dropped'
      BY <1>5 DEF Take, Throw
  <2>2. CASE messageSyncList = <<>>
      BY <1>5, <2>1, <2>2 DEF Take
  <2>3. CASE messageSyncList # <<>>
    <3>1. /\ Elements(left'[j]) = Message(Head(messageSyncList))
          /\ Elements(messageSyncList) =
                 {Head(messageSyncList)} \cup Elements(messageSyncList')
          /\ \A k \in Job : k # j => left'[k] = left[k]
        BY <1>5, <2>3, TakeStep DEF TypeOK
    <3>2. Elements(left[j]) = {}
        BY <1>5, ElementsEmpty DEF Shape, Take
    <3>3. InHand \subseteq InHand'
        BY <3>1, <3>2
    <3>4. Queued \subseteq Queued' \cup InHand'
        BY <3>1
    <3> QED BY <2>1, <3>3, <3>4
  <2> QED BY <2>2, <2>3
<1>6. ASSUME NEW j \in Job, Convert(j)
      PROVE  Queued \cup InHand \cup Building \subseteq Somewhere'
  <2>1. /\ pc'[j] = "convert" /\ UNCHANGED queue
        /\ \A k \in Job : k # j => left'[k] = left[k]
      BY <1>6 DEF Convert, TypeOK
  <2>2. Building' = Elements(messageEntityList')
      BY <2>1
  <2>3. Elements(left[j]) \subseteq
            Malformed \cup Elements(left'[j]) \cup Elements(messageEntityList')
      BY <1>6, ConvertStep
  <2>4. InHand \subseteq Malformed \cup InHand' \cup Building'
      BY <2>1, <2>2, <2>3
  <2>5. Building \subseteq Building' \cup stored' \cup dropped'
      BY <1>0, <2>2
  <2> QED BY <2>1, <2>4, <2>5 DEF queue
<1>7. ASSUME NEW j \in Job, insertMessages(j)
      PROVE  Queued \cup InHand \cup Building \subseteq Somewhere'
    BY <1>7 DEF insertMessages, queue
<1>8. ASSUME NEW j \in Job, handleMessageWrapper(j)
      PROVE  Queued \cup InHand \cup Building \subseteq Somewhere'
  <2>1. \A k \in Job : pc[k] = "convert" => pc'[k] = "convert"
      BY <1>8 DEF handleMessageWrapper, Goto, TypeOK
  <2> QED BY <1>8, <2>1 DEF handleMessageWrapper, queue
<1>9. ASSUME UNCHANGED vars
      PROVE  Queued \cup InHand \cup Building \subseteq Somewhere'
    BY <1>9 DEF vars, local, queue
<1> QED
    BY <1>1, <1>2, <1>3, <1>4, <1>5, <1>6, <1>7, <1>8, <1>9
    DEF Next, Work, Quiet

(* A packet that enters the queue is in the queue.                         *)
LEMMA ReceivedStep ==
    ASSUME TypeOK, [Next]_vars
    PROVE  \A p \in received' : p \in received \/ Message(p) \subseteq Queued'
<1>1. ASSUME NEW q \in Packet, onDirectMessage(q)
      PROVE  \A p \in received' : p \in received \/ Message(p) \subseteq Queued'
  <2>1. q \in Elements(messageSyncList')
      BY <1>1, ElementsAppend DEF onDirectMessage, TypeOK
  <2> QED BY <1>1, <2>1 DEF onDirectMessage, Queued
<1>2. (\A q \in Packet : ~onDirectMessage(q)) => UNCHANGED received
    BY DEF Next, Work, startMessageJob, stopMessageJob, Begin, End, LoopBusy,
           LoopIdle, Take, Convert, insertMessages, handleMessageWrapper,
           Wake, Early, updateConversationLastTimeToken, ClearTokens, queue,
           vars
<1> QED BY <1>1, <1>2

LEMMA VanishStep ==
    TypeOK /\ Shape /\ NothingVanishes /\ [Next]_vars => NothingVanishes'
<1>1. NothingVanishes <=> \A p \in received : Message(p) \subseteq Somewhere
    BY DEF NothingVanishes, Somewhere
<1>2. NothingVanishes' <=> \A p \in received' : Message(p) \subseteq Somewhere'
    BY DEF NothingVanishes, Somewhere
<1>3. Queued' \subseteq Somewhere'
    BY DEF Somewhere
<1> QED BY <1>1, <1>2, <1>3, SomewhereStep, ReceivedStep

-----------------------------------------------------------------------------
(* The timetokens                                                          *)

LEMMA TokenStep ==
    TypeOK /\ Ownership /\ TokenCover /\ [Next]_vars => TokenCover'
<1> SUFFICES ASSUME TypeOK, Ownership, TokenCover, [Next]_vars,
                    cancelled' = {}
             PROVE  TokenCover'
    BY DEF TokenCover
<1>0. cancelled = {}
    BY CancelledGrows
<1>n. /\ lastMsgTimetoken \in Nat /\ idTimeTokenMap \in Nat
      /\ stored \subseteq Nat
      /\ Elements(messageEntityList) \subseteq Nat
    BY ElementsType DEF TypeOK, Timetoken
<1>1. ASSUME NEW j \in Job, startMessageJob(j) PROVE TokenCover'
  <2>1. stored = {} /\ messageEntityList = <<>>
      BY <1>0, <1>1 DEF startMessageJob, TokenCover
  <2>2. \A k \in Job : pc'[k] # "flush"
      BY <1>0, <1>1, JobAssumption
      DEF startMessageJob, Ownership, OneLiveJob, Goto, TypeOK
  <2>3. UNCHANGED <<stored, messageEntityList>>
      BY <1>1 DEF startMessageJob, kept
  <2> QED BY <2>1, <2>2, <2>3, ElementsEmpty DEF TokenCover
<1>2. ~stopMessageJob
    BY DEF stopMessageJob
<1>3. ASSUME NEW p \in Packet, onDirectMessage(p) PROVE TokenCover'
    BY <1>0, <1>3 DEF onDirectMessage, TokenCover, jobs, local, token, kept
<1>4. ASSUME NEW j \in Job, Work(j) PROVE TokenCover'
  <2>1. UNCHANGED jobs /\ j \notin cancelled
      BY <1>0, <1>4 DEF Work, Begin, End, LoopBusy, LoopIdle, Take, Convert,
                  insertMessages, handleMessageWrapper, Wake, Early,
                  updateConversationLastTimeToken, ClearTokens
  <2>2. pc[j] \notin {"new", "done"}
      BY <1>4 DEF Work, Begin, End, LoopBusy, LoopIdle, Take, Convert,
                  insertMessages, handleMessageWrapper, Wake, Early,
                  updateConversationLastTimeToken, ClearTokens
  <2>3. j = messageJob /\ \A k \in Job : k # j => pc[k] \in {"new", "done"}
      BY <2>1, <2>2, <1>0 DEF Ownership, OneLiveJob
  <2>4. \A k \in Job : k # j => pc'[k] = pc[k]
      BY <1>4 DEF Work, Begin, End, LoopBusy, LoopIdle, Take, Convert, Goto,
                  insertMessages, handleMessageWrapper, Wake, Early, TypeOK,
                  updateConversationLastTimeToken, ClearTokens
  <2>5. pc'[j] # "launched"
      BY <1>4 DEF Work, Begin, End, LoopBusy, LoopIdle, Take, Convert, Goto,
                  insertMessages, handleMessageWrapper, Wake, Early, TypeOK,
                  updateConversationLastTimeToken, ClearTokens
  <2>6. messageJob' = j /\ messageJob' # NoJob
      BY <2>1, <2>3, JobAssumption DEF jobs
  <2> SUFFICES
        /\ \A m \in stored' \cup Elements(messageEntityList') :
               m <= Newest(lastMsgTimetoken', idTimeTokenMap')
        /\ pc'[j] = "flush" => idTimeTokenMap' <= lastMsgTimetoken'
      BY <2>3, <2>4, <2>5, <2>6 DEF TokenCover
  <2>7. /\ \A m \in stored \cup Elements(messageEntityList) :
               m <= Newest(lastMsgTimetoken, idTimeTokenMap)
        /\ pc[j] = "flush" => idTimeTokenMap <= lastMsgTimetoken
        /\ pc[j] = "launched" => stored = {} /\ messageEntityList = <<>>
      BY <1>0, <2>3 DEF TokenCover
  <2>8. CASE Begin(j)
    <3>1. /\ stored' = {} /\ messageEntityList' = <<>> /\ pc'[j] = "loop"
        BY <2>7, <2>8 DEF Begin, Goto, TypeOK
    <3> QED BY <3>1, ElementsEmpty
  <2>9. CASE End(j) \/ LoopBusy(j) \/ LoopIdle(j) \/ Wake(j) \/ Early(j)
    <3>1. /\ UNCHANGED <<stored, messageEntityList, lastMsgTimetoken, idTimeTokenMap>>
          /\ pc'[j] # "flush"
        BY <2>9 DEF End, LoopBusy, LoopIdle, Wake, Early, Goto, TypeOK, token, kept
    <3> QED BY <2>7, <3>1
  <2>10. CASE Take(j)
    <3>1. /\ UNCHANGED <<stored, lastMsgTimetoken, idTimeTokenMap>>
          /\ messageEntityList' = <<>>
        BY <2>10 DEF Take, token
    <3>2. pc'[j] # "flush"
        BY <2>10 DEF Take, Goto, TypeOK
    <3> QED BY <2>7, <3>1, <3>2, ElementsEmpty
  <2>11. CASE Convert(j)
    <3>1. /\ UNCHANGED <<stored, lastMsgTimetoken>>
          /\ pc'[j] # "flush"
        BY <2>11 DEF Convert, kept
    <3>2. CASE Head(left[j]) \in Malformed
        BY <2>7, <2>11, <3>1, <3>2 DEF Convert
    <3>3. CASE Head(left[j]) \notin Malformed
      <4>1. PICK m \in Timetoken : m = Head(left[j])
          BY <2>11, ElementsTail DEF Convert, TypeOK
      <4>2. /\ messageEntityList' = Append(messageEntityList, m)
            /\ idTimeTokenMap' = Newest(idTimeTokenMap, m)
          BY <2>11, <3>3, <4>1 DEF Convert
      <4>3. Elements(messageEntityList') = Elements(messageEntityList) \cup {m}
          BY <4>2, ElementsAppend DEF TypeOK
      <4>4. \A n \in Nat : n <= Newest(lastMsgTimetoken, idTimeTokenMap) \/ n = m
                             => n <= Newest(lastMsgTimetoken, idTimeTokenMap')
          BY <1>n, <4>2 DEF Newest, Timetoken
      <4> QED BY <2>7, <3>1, <4>1, <4>3, <4>4, <1>n DEF Timetoken
    <3> QED BY <3>2, <3>3
  <2>12. CASE insertMessages(j)
    <3>1. /\ stored' = stored \cup Elements(messageEntityList)
          /\ UNCHANGED <<messageEntityList, lastMsgTimetoken, idTimeTokenMap>>
          /\ pc'[j] # "flush"
        BY <2>12 DEF insertMessages, Goto, TypeOK, token
    <3> QED BY <2>7, <3>1
  <2>13. CASE handleMessageWrapper(j)
    <3>1. /\ UNCHANGED <<stored, messageEntityList, lastMsgTimetoken, idTimeTokenMap>>
          /\ pc'[j] # "flush"
        BY <2>13 DEF handleMessageWrapper, Goto, TypeOK, token
    <3> QED BY <2>7, <3>1
  <2>14. CASE updateConversationLastTimeToken(j)
    <3>1. /\ UNCHANGED <<stored, messageEntityList, idTimeTokenMap>>
          /\ lastMsgTimetoken' = Newest(lastMsgTimetoken, idTimeTokenMap)
        BY <2>14 DEF updateConversationLastTimeToken, kept
    <3>2. /\ Newest(lastMsgTimetoken', idTimeTokenMap')
                 = Newest(lastMsgTimetoken, idTimeTokenMap)
          /\ idTimeTokenMap' <= lastMsgTimetoken'
        BY <3>1, <1>n DEF Newest
    <3> QED BY <2>7, <3>1, <3>2
  <2>15. CASE ClearTokens(j)
    <3>1. /\ UNCHANGED <<stored, messageEntityList, lastMsgTimetoken>>
          /\ idTimeTokenMap' = 0 /\ pc[j] = "flush" /\ pc'[j] # "flush"
        BY <2>15 DEF ClearTokens, Goto, TypeOK, kept
    <3> QED BY <2>7, <3>1, <1>n DEF Newest
  <2> QED BY <1>4, <2>8, <2>9, <2>10, <2>11, <2>12, <2>13, <2>14, <2>15 DEF Work
<1>5. CASE UNCHANGED vars
    BY <1>0, <1>5 DEF vars, TokenCover, jobs, local, token, kept
<1> QED BY <1>1, <1>2, <1>3, <1>4, <1>5 DEF Next

-----------------------------------------------------------------------------
(* The interval of event 2                                                 *)

(* As long as no job was stopped: the list holds what was converted of the *)
(* packet, in its order, and what is still to be converted comes after it. *)
ListCovers(p, list, rest) ==
    /\ Ascending(list) /\ Ascending(rest)
    /\ \A m \in Elements(list), n \in Elements(rest) : m <= n
    /\ Message(p) \subseteq Malformed \cup Elements(list) \cup Elements(rest)

Interval ==
    cancelled = {} =>
        \A j \in Job :
            pc[j] \in {"convert", "report"} /\ Ascending(packet[j].messages) =>
                ListCovers(packet[j], messageEntityList, left[j])

LEMMA AscendingEmpty == Ascending(<<>>)
BY DEF Ascending

(* Adding one that is not smaller than any.                                *)
LEMMA AscendingAppend ==
    ASSUME NEW s \in Seq(Timetoken), NEW e \in Timetoken, Ascending(s),
           \A m \in Elements(s) : m <= e
    PROVE  Ascending(Append(s, e))
<1>1. PICK r : r = Append(s, e)
    OBVIOUS
<1>2. /\ DOMAIN r = 1 .. Len(s) + 1 /\ DOMAIN s = 1 .. Len(s) /\ Len(s) \in Nat
      /\ r[Len(s) + 1] = e
      /\ \A i \in 1 .. Len(s) : r[i] = s[i]
    BY <1>1
<1>3. ASSUME NEW i \in DOMAIN r, NEW k \in DOMAIN r, i < k PROVE r[i] <= r[k]
    <2>1. i \in 1 .. Len(s)
        BY <1>2, <1>3
    <2>2. CASE k = Len(s) + 1
        BY <2>1, <2>2, <1>2 DEF Elements
    <2>3. CASE k # Len(s) + 1
        <3>1. k \in 1 .. Len(s)
            BY <2>3, <1>2
        <3> QED BY <2>1, <3>1, <1>2, <1>3 DEF Ascending
    <2> QED BY <2>2, <2>3
<1> QED BY <1>1, <1>3 DEF Ascending

(* The first of an ascending sequence is not greater than the others.      *)
LEMMA AscendingTail ==
    ASSUME NEW s \in Seq(Timetoken), s # <<>>, Ascending(s)
    PROVE  /\ Ascending(Tail(s))
           /\ \A n \in Elements(Tail(s)) : Head(s) <= n
<1>1. PICK r : r = Tail(s)
    OBVIOUS
<1>2. /\ Head(s) = s[1] /\ DOMAIN s = 1 .. Len(s) /\ Len(s) \in Nat /\ Len(s) >= 1
      /\ DOMAIN r = 1 .. Len(s) - 1
      /\ \A i \in 1 .. Len(s) - 1 : r[i] = s[i + 1]
    BY <1>1
<1>3. Ascending(r)
    <2>1. ASSUME NEW i \in DOMAIN r, NEW k \in DOMAIN r, i < k PROVE r[i] <= r[k]
        <3>1. r[i] = s[i + 1] /\ r[k] = s[k + 1]
            BY <1>2
        <3>2. i + 1 \in DOMAIN s /\ k + 1 \in DOMAIN s /\ i + 1 < k + 1
            BY <1>2, <2>1
        <3> QED BY <3>1, <3>2 DEF Ascending
    <2> QED BY <2>1 DEF Ascending
<1>4. ASSUME NEW n \in Elements(r) PROVE s[1] <= n
    <2>1. PICK i \in 1 .. Len(s) - 1 : n = s[i + 1]
        BY <1>2 DEF Elements
    <2>2. 1 \in DOMAIN s /\ i + 1 \in DOMAIN s /\ 1 < i + 1
        BY <1>2
    <2> QED BY <2>1, <2>2 DEF Ascending
<1> QED BY <1>1, <1>2, <1>3, <1>4

(* The first and the last of an ascending sequence are its ends.           *)
LEMMA AscendingEnds ==
    ASSUME NEW s \in Seq(Timetoken), Ascending(s), NEW i \in DOMAIN s
    PROVE  s # <<>> /\ s[1] <= s[i] /\ s[i] <= s[Len(s)]
<1>1. /\ 1 \in DOMAIN s /\ Len(s) \in DOMAIN s /\ s # <<>> /\ i \in 1 .. Len(s)
      /\ Len(s) \in Nat /\ s[i] \in Nat
    BY DEF Timetoken
<1>2. i = 1 \/ 1 < i
    BY <1>1
<1>3. i = Len(s) \/ i < Len(s)
    BY <1>1
<1>4. s[i] <= s[i]
    BY <1>1
<1> QED BY <1>1, <1>2, <1>3, <1>4 DEF Ascending

(* A step of messageJob that touches the list, the packet or what is left  *)
(* of it: polling a packet, or converting one message.                     *)
LEMMA TakeCovers ==
    ASSUME TypeOK, NEW j \in Job, Take(j), messageSyncList # <<>>,
           Ascending(packet'[j].messages)
    PROVE  ListCovers(packet'[j], messageEntityList', left'[j])
<1>1. PICK p : p = Head(messageSyncList)
    OBVIOUS
<1>2. /\ p \in Packet /\ packet'[j] = p /\ left'[j] = p.messages
      /\ messageEntityList' = <<>>
    BY <1>1, TakeStep DEF Take, TypeOK
<1>3. Message(p) = Elements(p.messages)
    BY <1>2, MessageType
<1> QED BY <1>2, <1>3, AscendingEmpty, ElementsEmpty DEF ListCovers

LEMMA ConvertCovers ==
    ASSUME TypeOK, Shape, NEW j \in Job, Convert(j),
           ListCovers(packet[j], messageEntityList, left[j])
    PROVE  ListCovers(packet'[j], messageEntityList', left'[j])
<1>1. PICK s, t, m, p : /\ s = messageEntityList /\ t = left[j] /\ m = Head(t)
                        /\ p = packet[j]
    OBVIOUS
<1>2. s \in Seq(Timetoken) /\ t \in Seq(Timetoken) /\ t # <<>>
    BY <1>1 DEF TypeOK, Convert
<1>3. /\ m \in Timetoken /\ Elements(t) = {m} \cup Elements(Tail(t))
      /\ Tail(t) \in Seq(Timetoken)
    BY <1>1, <1>2, ElementsTail
<1>4. ListCovers(p, s, t)
    BY <1>1
<1>5. Ascending(Tail(t)) /\ \A n \in Elements(Tail(t)) : m <= n
    BY <1>1, <1>2, <1>4, AscendingTail DEF ListCovers
<1>6. packet'[j] = p /\ left'[j] = Tail(t)
    BY <1>1 DEF Convert, TypeOK
<1>7. CASE m \in Malformed
    <2>1. messageEntityList' = s
        BY <1>1, <1>7 DEF Convert
    <2>2. ListCovers(p, s, Tail(t))
        BY <1>3, <1>4, <1>5, <1>7 DEF ListCovers
    <2> QED BY <2>1, <2>2, <1>6
<1>8. CASE m \notin Malformed
    <2>1. messageEntityList' = Append(s, m)
        BY <1>1, <1>8 DEF Convert
    <2>2. Elements(Append(s, m)) = Elements(s) \cup {m}
        BY <1>2, <1>3, ElementsAppend
    <2>3. Ascending(Append(s, m))
        BY <1>2, <1>3, <1>4, AscendingAppend DEF ListCovers
    <2>4. ListCovers(p, Append(s, m), Tail(t))
        BY <2>2, <2>3, <1>3, <1>4, <1>5 DEF ListCovers
    <2> QED BY <2>1, <2>4, <1>6
<1> QED BY <1>7, <1>8

LEMMA InitInterval == Init => Interval
BY DEF Init, Interval

LEMMA IntervalStep ==
    TypeOK /\ Shape /\ Ownership /\ Interval /\ [Next]_vars => Interval'
<1> SUFFICES ASSUME TypeOK, Shape, Ownership, Interval, [Next]_vars,
                    cancelled' = {}, NEW k \in Job,
                    pc'[k] \in {"convert", "report"},
                    Ascending(packet'[k].messages)
             PROVE  ListCovers(packet'[k], messageEntityList', left'[k])
    BY DEF Interval
<1>0. cancelled = {}
    BY CancelledGrows
<1>1. ASSUME pc[k] \in {"convert", "report"},
             UNCHANGED <<packet, messageEntityList, left>>
      PROVE  ListCovers(packet'[k], messageEntityList', left'[k])
    BY <1>0, <1>1 DEF Interval
<1>2. ASSUME NEW j \in Job, Quiet(j)
      PROVE  ListCovers(packet'[k], messageEntityList', left'[k])
    BY <1>1, <1>2, QuietFrame
<1>3. ASSUME NEW p \in Packet, onDirectMessage(p)
      PROVE  ListCovers(packet'[k], messageEntityList', left'[k])
    BY <1>1, <1>3 DEF onDirectMessage, local
<1>4. ~stopMessageJob
    BY DEF stopMessageJob
<1>5. ASSUME NEW j \in Job, Work(j), ~Quiet(j)
      PROVE  ListCovers(packet'[k], messageEntityList', left'[k])
  <2>1. pc[j] \notin {"new", "done"}
      BY <1>5 DEF Work, Quiet, Begin, Take, Convert, insertMessages,
                  handleMessageWrapper
  <2>2. k # j => pc[k] \in {"new", "done"}
      BY <1>0, <2>1 DEF Ownership, OneLiveJob
  <2>3. k # j => pc'[k] = pc[k]
      BY <1>5 DEF Work, Quiet, Begin, Take, Convert, insertMessages, Goto,
                  handleMessageWrapper, TypeOK
  <2>4. k = j
      BY <2>2, <2>3
  <2>5. CASE Begin(j) \/ handleMessageWrapper(j)
    <3>1. pc'[j] \in {"loop", "after"}
        BY <2>5 DEF Begin, handleMessageWrapper, Goto, TypeOK
    <3> QED BY <3>1, <2>4
  <2>6. CASE Take(j) /\ messageSyncList = <<>>
    <3>1. pc'[j] = "done"
        BY <2>6 DEF Take, Goto, TypeOK
    <3> QED BY <3>1, <2>4
  <2>7. CASE Take(j) /\ messageSyncList # <<>>
      BY <2>4, <2>7, TakeCovers
  <2>8. CASE Convert(j)
    <3>1. pc[j] = "convert" /\ packet' = packet
        BY <2>8 DEF Convert
    <3>2. ListCovers(packet[j], messageEntityList, left[j])
        BY <3>1, <2>4, <1>0 DEF Interval
    <3> QED BY <3>2, <2>4, <2>8, ConvertCovers
  <2>9. CASE insertMessages(j)
    <3>1. pc[j] = "convert" /\ UNCHANGED <<packet, messageEntityList, left>>
        BY <2>9 DEF insertMessages
    <3> QED BY <3>1, <2>4, <1>1
  <2> QED BY <1>5, <2>5, <2>6, <2>7, <2>8, <2>9 DEF Work, Quiet
<1>6. CASE UNCHANGED vars
    BY <1>6, <1>1 DEF vars, local
<1> QED BY <1>2, <1>3, <1>4, <1>5, <1>6 DEF Next, Quiet

(* Only handleMessageWrapper() leads from report to after, and the first   *)
(* and the last of the list are the ends of the interval it posts.         *)
LEMMA ReportCovers ==
    ASSUME TypeOK, Shape, Interval, [Next]_vars, NEW j \in Job, cancelled = {},
           pc[j] = "report", pc'[j] = "after", Ascending(packet[j].messages),
           NEW m \in Message(packet[j]) \ Malformed
    PROVE  event'.start <= m /\ m <= event'.end
<1>1. PICK s : s = messageEntityList
    OBVIOUS
<1>2. event' = NewMessages(s, packet[j].isUnreadMessage)
    <2>1. ASSUME NEW k \in Job, Quiet(k) PROVE FALSE
        BY <2>1, QuietFrame
    <2>2. ASSUME NEW p \in Packet, onDirectMessage(p) PROVE FALSE
        BY <2>2 DEF onDirectMessage, local
    <2>3. ASSUME stopMessageJob PROVE FALSE
        BY <2>3 DEF stopMessageJob, local
    <2>4. ASSUME NEW k \in Job, Begin(k) \/ Take(k) \/ Convert(k) \/ insertMessages(k)
          PROVE  FALSE
        BY <2>4 DEF Begin, Take, Convert, insertMessages, Goto, TypeOK
    <2>5. ASSUME NEW k \in Job, handleMessageWrapper(k)
          PROVE  event' = NewMessages(s, packet[j].isUnreadMessage)
        BY <2>5, <1>1 DEF handleMessageWrapper, Goto, TypeOK
    <2>6. ASSUME UNCHANGED vars PROVE FALSE
        BY <2>6 DEF vars, local
    <2> QED BY <2>1, <2>2, <2>3, <2>4, <2>5, <2>6 DEF Next, Work, Quiet
<1>3. left[j] = <<>>
    BY DEF Shape
<1>4. Ascending(s) /\ m \in Elements(s) /\ s \in Seq(Timetoken)
    BY <1>1, <1>3, ElementsEmpty DEF Interval, ListCovers, TypeOK
<1>5. PICK i \in DOMAIN s : m = s[i]
    BY <1>4 DEF Elements
<1>6. s # <<>> /\ s[1] <= s[i] /\ s[i] <= s[Len(s)]
    BY <1>4, AscendingEnds
<1>7. event'.start = s[1] /\ event'.end = s[Len(s)]
    BY <1>2, <1>6 DEF NewMessages
<1> QED BY <1>5, <1>6, <1>7

-----------------------------------------------------------------------------
(* What a step hands to the rest of the app                                *)

(* A packet in the queue or in the hands of a job was received.            *)
InReceived ==
    /\ Elements(messageSyncList) \subseteq received
    /\ \A j \in Job : pc[j] \in {"convert", "report"} => packet[j] \in received

Reception == TypeOK /\ Shape /\ Ownership /\ Interval /\ InReceived

(* Messages that are stored and whose interval is still to be posted.      *)
Unreported == {m \in Elements(messageEntityList) : \E j \in Job : pc[j] = "report"}

LEMMA InReceivedStep == TypeOK /\ InReceived /\ [Next]_vars => InReceived'
<1> SUFFICES ASSUME TypeOK, InReceived, [Next]_vars PROVE InReceived'
    OBVIOUS
<1>1. ASSUME NEW p \in Packet, onDirectMessage(p) PROVE InReceived'
    <2>1. Elements(Append(messageSyncList, p)) = Elements(messageSyncList) \cup {p}
        BY ElementsAppend DEF TypeOK
    <2> QED BY <1>1, <2>1 DEF onDirectMessage, InReceived, local
<1>2. CASE stopMessageJob
    BY <1>2 DEF stopMessageJob, InReceived, local, queue
<1>3. ASSUME NEW j \in Job, Quiet(j) PROVE InReceived'
    <2>1. UNCHANGED <<packet, received, messageSyncList>>
        BY <1>3, QuietFrame DEF queue
    <2> QED BY <1>3, <2>1, QuietFrame DEF InReceived
<1>4. ASSUME NEW j \in Job, Begin(j) PROVE InReceived'
    <2>1. Elements(messageSyncList') = {}
        BY <1>4, ElementsEmpty DEF Begin
    <2> QED BY <1>4, <2>1 DEF Begin, InReceived, Goto, TypeOK
<1>5. ASSUME NEW j \in Job, Take(j) PROVE InReceived'
    <2>1. received' = received
        BY <1>5 DEF Take
    <2>2. CASE messageSyncList = <<>>
        BY <1>5, <2>1, <2>2 DEF Take, InReceived, Goto, TypeOK
    <2>3. CASE messageSyncList # <<>>
        <3>1. /\ pc' = [pc EXCEPT ![j] = "convert"]
              /\ packet' = [packet EXCEPT ![j] = Head(messageSyncList)]
              /\ Elements(messageSyncList) =
                     {Head(messageSyncList)} \cup Elements(messageSyncList')
            BY <1>5, <2>3, TakeStep
        <3> QED BY <2>1, <3>1 DEF InReceived, TypeOK
    <2> QED BY <2>2, <2>3
<1>6. ASSUME NEW j \in Job, Convert(j) \/ insertMessages(j) \/ handleMessageWrapper(j)
      PROVE  InReceived'
    <2>1. UNCHANGED <<packet, received, messageSyncList>>
        BY <1>6 DEF Convert, insertMessages, handleMessageWrapper, local, queue
    <2>2. \A k \in Job : pc'[k] \in {"convert", "report"}
                             => pc[k] \in {"convert", "report"}
        BY <1>6 DEF Convert, insertMessages, handleMessageWrapper, Goto, TypeOK
    <2> QED BY <2>1, <2>2 DEF InReceived
<1>7. CASE UNCHANGED vars
    BY <1>7 DEF vars, local, queue, InReceived
<1> QED BY <1>1, <1>2, <1>3, <1>4, <1>5, <1>6, <1>7 DEF Next, Work, Quiet

LEMMA ReceptionInit == Init => Reception
<1>1. Init => TypeOK /\ Shape /\ Ownership
    BY InitIInv DEF IInv
<1>2. Init => InReceived
    BY ElementsEmpty DEF Init, InReceived
<1> QED BY <1>1, <1>2, InitInterval DEF Reception

LEMMA ReceptionStep == Reception /\ [Next]_vars => Reception'
BY TypeStep, ShapeStep, OwnershipStep, IntervalStep, InReceivedStep DEF Reception

(* The database grows by lists, each by one insertMessages() that leaves   *)
(* its messages unreported.                                                *)
LEMMA StoredGrows ==
    ASSUME TypeOK, Next
    PROVE  \/ stored' = stored
           \/ /\ stored' = stored \cup Elements(messageEntityList)
              /\ Elements(messageEntityList) \subseteq Unreported'
<1>1. ASSUME NEW j \in Job, insertMessages(j)
      PROVE  /\ stored' = stored \cup Elements(messageEntityList)
             /\ Elements(messageEntityList) \subseteq Unreported'
    <2>1. messageEntityList' = messageEntityList /\ pc'[j] = "report"
        BY <1>1 DEF insertMessages, Goto, TypeOK
    <2>2. stored' = stored \cup Elements(messageEntityList)
        BY <1>1 DEF insertMessages
    <2> QED BY <2>1, <2>2 DEF Unreported
<1>2. ASSUME ~ \E j \in Job : insertMessages(j) PROVE stored' = stored
    BY <1>2 DEF Next, Work, onDirectMessage, startMessageJob, stopMessageJob,
       Begin, End, LoopBusy, LoopIdle, Take, Convert, handleMessageWrapper, Wake,
       Early, updateConversationLastTimeToken, ClearTokens, kept
<1> QED BY <1>1, <1>2

LEMMA ReceivedGrows == ASSUME Next PROVE received \subseteq received'
BY DEF Next, Work, onDirectMessage, startMessageJob, stopMessageJob, Begin,
       End, LoopBusy, LoopIdle, Take, Convert, insertMessages,
       handleMessageWrapper, Wake, Early, updateConversationLastTimeToken,
       ClearTokens, queue

(* Every message of the list lies in the interval of event 2.              *)
LEMMA EventHolds ==
    ASSUME Reception, NEW j \in Job, handleMessageWrapper(j), cancelled = {},
           \A p \in received : Ascending(p.messages),
           NEW m \in Elements(messageEntityList)
    PROVE  event'.type = 2 /\ event'.start <= m /\ m <= event'.end
<1>1. PICK s : s = messageEntityList
    OBVIOUS
<1>2. event' = NewMessages(s, packet[j].isUnreadMessage) /\ pc[j] = "report"
    BY <1>1 DEF handleMessageWrapper
<1>3. Ascending(packet[j].messages)
    BY <1>2 DEF Reception, InReceived
<1>4. ListCovers(packet[j], messageEntityList, left[j])
    BY <1>2, <1>3 DEF Reception, Interval
<1>5. Ascending(s) /\ s \in Seq(Timetoken)
    BY <1>1, <1>4 DEF ListCovers, Reception, TypeOK
<1>6. PICK i \in DOMAIN s : m = s[i]
    BY <1>1 DEF Elements
<1>7. s[1] <= s[i] /\ s[i] <= s[Len(s)] /\ s # <<>>
    BY <1>5, AscendingEnds
<1> QED BY <1>2, <1>6, <1>7 DEF NewMessages

(* In the first session, an unreported message stays unreported until the  *)
(* step that posts an interval around it.                                  *)
LEMMA ReportedOrNot ==
    ASSUME Reception, Next, cancelled' = {},
           \A p \in received : Ascending(p.messages),
           NEW m \in Unreported
    PROVE  \/ m \in Unreported'
           \/ event'.type = 2 /\ event'.start <= m /\ m <= event'.end
<1> USE DEF Reception
<1>0. cancelled = {}
    BY CancelledGrows
<1>1. PICK j \in Job : pc[j] = "report"
    BY DEF Unreported
<1>2. m \in Elements(messageEntityList)
    BY DEF Unreported
<1>3. ASSUME messageEntityList' = messageEntityList, pc'[j] = "report"
      PROVE  m \in Unreported'
    BY <1>2, <1>3 DEF Unreported
<1>4. ASSUME NEW p \in Packet, onDirectMessage(p) PROVE m \in Unreported'
    BY <1>1, <1>3, <1>4 DEF onDirectMessage, local
<1>5. ~stopMessageJob
    BY DEF stopMessageJob
<1>6. ASSUME NEW k \in Job, Quiet(k) PROVE m \in Unreported'
    BY <1>1, <1>3, <1>6, QuietFrame
<1>7. ASSUME NEW k \in Job, Work(k), ~Quiet(k) PROVE handleMessageWrapper(j)
    <2>1. pc[k] \notin {"new", "done"}
        BY <1>7 DEF Work, Quiet, Begin, Take, Convert, insertMessages,
                    handleMessageWrapper
    <2>2. k = j
        BY <1>0, <1>1, <2>1 DEF Ownership, OneLiveJob
    <2> QED BY <1>1, <1>7, <2>2 DEF Work, Quiet, Begin, Take, Convert,
                                    insertMessages
<1>8. ASSUME NEW k \in Job, Work(k), ~Quiet(k)
      PROVE  event'.type = 2 /\ event'.start <= m /\ m <= event'.end
    BY <1>0, <1>2, <1>7, <1>8, EventHolds
<1> QED BY <1>4, <1>5, <1>6, <1>8 DEF Next, Quiet

-----------------------------------------------------------------------------
(* Theorems                                                                *)

THEOREM Inductive == Spec => []IInv
<1>1. IInv /\ [Next]_vars => IInv'
    BY TypeStep, ShapeStep, OwnershipStep, AttendedStep, ProgressStep,
       FirstProgressStep, VanishStep, AckedKeptStep, FirstSessionStep, TokenStep
    DEF IInv
<1> QED BY <1>1, InitIInv, PTL DEF Spec

(* Every variable keeps its type.                                          *)
THEOREM TypeCorrect == Spec => []TypeOK
<1>1. IInv => TypeOK
    BY DEF IInv
<1> QED BY <1>1, Inductive, PTL

(* Two jobs never both go on: the one that is not messageJob is cancelled. *)
THEOREM OnlyOneJob == Spec => []OneLiveJob
<1>1. IInv => OneLiveJob
    BY DEF IInv, Ownership
<1> QED BY <1>1, Inductive, PTL

(* A message handed to onDirectMessage is lost by a clear() or not at all. *)
THEOREM NothingIsLost == Spec => []NothingVanishes
<1>1. IInv => NothingVanishes
    BY DEF IInv
<1> QED BY <1>1, Inductive, PTL

(* An acknowledged message is stored, unconvertible or was cleared away.   *)
THEOREM AckedIsKept == Spec => []AckedKept
<1>1. IInv => AckedKept
    BY DEF IInv
<1> QED BY <1>1, Inductive, PTL

(* Until a job is stopped an acknowledged message is stored.               *)
THEOREM FirstSessionIsKept == Spec => []FirstSessionKeeps
<1>1. IInv => FirstSessionKeeps
    BY DEF IInv
<1> QED BY <1>1, Inductive, PTL

(* Until a job is stopped every stored message is covered by a timetoken.  *)
THEOREM TokensAreKept == Spec => []TokensKept
<1>1. IInv => TokensKept
    BY DEF IInv, TokenCover, TokensKept
<1> QED BY <1>1, Inductive, PTL

(* Until a job is stopped the interval of event 2 holds every message of   *)
(* the packet that could be converted, whatever else arrives meanwhile.    *)
THEOREM EventIntervalCovers == Spec => EventCovers
<1>1. TypeOK /\ Shape /\ Interval /\ [Next]_vars =>
          [\A j \in Job :
             /\ cancelled = {} /\ pc[j] = "report" /\ pc'[j] = "after"
             /\ Ascending(packet[j].messages)
             => \A m \in Message(packet[j]) \ Malformed :
                    event'.start <= m /\ m <= event'.end]_vars
    BY ReportCovers
<1>2. IInv => TypeOK /\ Shape /\ Ownership
    BY DEF IInv
<1> QED BY <1>1, <1>2, InitInterval, IntervalStep, Inductive, PTL
        DEF Spec, EventCovers

-----------------------------------------------------------------------------
(* MessageJob implements Inbox, for any packets, any set of jobs and any   *)
(* overlap of them.                                                        *)

(* Everything the jobs hold came in a packet of the socket.                *)
Provenance ==
    /\ Elements(messageSyncList) \subseteq received
    /\ \A j \in Job : pc[j] \in {"convert", "report"} => packet[j] \in received
    /\ \A j \in Job : Elements(left[j]) \subseteq Arrived
    /\ Elements(messageEntityList) \subseteq Arrived

LEMMA ProvenanceStep == TypeOK /\ Provenance /\ [Next]_vars => Provenance'
<1> SUFFICES ASSUME TypeOK, Provenance, [Next]_vars PROVE Provenance'
    OBVIOUS
<1>1. ASSUME NEW j \in Job, Quiet(j) PROVE Provenance'
  <2>1. UNCHANGED <<packet, left, queue, messageEntityList>>
      BY <1>1, QuietFrame
  <2>2. UNCHANGED Arrived
      BY <2>1 DEF Arrived, queue
  <2> QED BY <1>1, <2>1, <2>2, QuietFrame DEF Provenance, queue
<1>2. ASSUME NEW p \in Packet, onDirectMessage(p) PROVE Provenance'
  <2>1. /\ Elements(messageSyncList') = Elements(messageSyncList) \cup {p}
        /\ received' = received \cup {p}
      BY <1>2, ElementsAppend DEF onDirectMessage, TypeOK
  <2>2. Arrived \subseteq Arrived'
      BY <2>1 DEF Arrived
  <2>3. UNCHANGED <<pc, packet, left, messageEntityList>>
      BY <1>2 DEF onDirectMessage, local
  <2> QED BY <2>1, <2>2, <2>3 DEF Provenance
<1>3. CASE stopMessageJob
    BY <1>3, ElementsEmpty DEF stopMessageJob, Provenance, local, queue, Arrived
<1>4. ASSUME NEW j \in Job, Begin(j) PROVE Provenance'
  <2>1. \A k \in Job : pc'[k] \in {"convert", "report"} =>
                           pc[k] \in {"convert", "report"}
      BY <1>4 DEF Begin, Goto, TypeOK
  <2> QED BY <1>4, <2>1, ElementsEmpty DEF Begin, Provenance, Arrived
<1>5. ASSUME NEW j \in Job, Take(j) PROVE Provenance'
  <2>1. messageEntityList' = <<>> /\ UNCHANGED received
      BY <1>5 DEF Take
  <2>2. UNCHANGED Arrived
      BY <2>1 DEF Arrived
  <2>3. CASE messageSyncList = <<>>
    <3>1. \A k \in Job : pc'[k] \in {"convert", "report"} =>
                             pc[k] \in {"convert", "report"}
        BY <1>5, <2>3 DEF Take, Goto, TypeOK
    <3>2. UNCHANGED <<packet, left, messageSyncList>>
        BY <1>5, <2>3 DEF Take
    <3> QED BY <2>1, <2>2, <3>1, <3>2, ElementsEmpty DEF Provenance
  <2>4. CASE messageSyncList # <<>>
    <3>1. Head(messageSyncList) \in received
        BY <1>5, <2>4, TakeStep DEF Provenance
    <3>2. Elements(left'[j]) \subseteq Arrived
        BY <1>5, <2>4, <3>1, TakeStep DEF Arrived
    <3>3. Elements(messageSyncList') \subseteq received
        BY <1>5, <2>4, TakeStep DEF Provenance
    <3>4. \A k \in Job : k # j => /\ pc'[k] = pc[k]
                                  /\ packet'[k] = packet[k]
                                  /\ left'[k] = left[k]
        BY <1>5, <2>4, TakeStep DEF TypeOK
    <3>5. packet'[j] = Head(messageSyncList)
        BY <1>5, <2>4, TakeStep DEF TypeOK
    <3> QED BY <2>1, <2>2, <3>1, <3>2, <3>3, <3>4, <3>5, ElementsEmpty
            DEF Provenance
  <2> QED BY <2>3, <2>4
<1>6. ASSUME NEW j \in Job, Convert(j) PROVE Provenance'
  <2>1. UNCHANGED <<pc, packet, queue>>
      BY <1>6 DEF Convert
  <2>2. UNCHANGED Arrived
      BY <2>1 DEF Arrived, queue
  <2>3. left[j] \in Seq(Timetoken) /\ left[j] # <<>>
      BY <1>6 DEF Convert, TypeOK
  <2>4. /\ Head(left[j]) \in Timetoken
        /\ Elements(left[j]) = {Head(left[j])} \cup Elements(Tail(left[j]))
      BY <2>3, ElementsTail
  <2>5. Elements(Append(messageEntityList, Head(left[j])))
            = Elements(messageEntityList) \cup {Head(left[j])}
      BY <2>4, ElementsAppend DEF TypeOK
  <2>6. Elements(messageEntityList') \subseteq Arrived
      BY <1>6, <2>4, <2>5 DEF Convert, Provenance
  <2>7. left'[j] = Tail(left[j]) /\ \A k \in Job : k # j => left'[k] = left[k]
      BY <1>6 DEF Convert, TypeOK
  <2>8. \A k \in Job : Elements(left'[k]) \subseteq Arrived
      BY <2>4, <2>7 DEF Provenance
  <2> QED BY <2>1, <2>2, <2>6, <2>8 DEF Provenance, queue
<1>7. ASSUME NEW j \in Job, insertMessages(j) PROVE Provenance'
  <2>1. \A k \in Job : pc'[k] \in {"convert", "report"} =>
                           pc[k] \in {"convert", "report"}
      BY <1>7 DEF insertMessages, Goto, TypeOK
  <2> QED BY <1>7, <2>1 DEF insertMessages, Provenance, queue, Arrived
<1>8. ASSUME NEW j \in Job, handleMessageWrapper(j) PROVE Provenance'
  <2>1. \A k \in Job : pc'[k] \in {"convert", "report"} =>
                           pc[k] \in {"convert", "report"}
      BY <1>8 DEF handleMessageWrapper, Goto, TypeOK
  <2> QED BY <1>8, <2>1 DEF handleMessageWrapper, Provenance, queue, Arrived
<1>9. CASE UNCHANGED vars
    BY <1>9 DEF vars, local, queue, Provenance, Arrived
<1> QED
    BY <1>1, <1>2, <1>3, <1>4, <1>5, <1>6, <1>7, <1>8, <1>9
    DEF Next, Work, Quiet

-----------------------------------------------------------------------------
(* Every step is a step of Inbox.                                          *)

(* What a clear() of the list or of the queue throws away had arrived and  *)
(* was not stored.                                                         *)
LEMMA ThrownArrived ==
    ASSUME TypeOK, Provenance
    PROVE  /\ Elements(messageEntityList) \subseteq Arrived
           /\ Queued \subseteq Arrived
BY DEF Provenance, Queued, Arrived

LEMMA StepImplements ==
    ASSUME TypeOK, Provenance, Progress, FirstProgress, [Next]_vars
    PROVE  [I!Next]_(I!vars)
<1> USE DEF I!Next, I!vars
<1>1. ASSUME NEW j \in Job, Quiet(j) PROVE UNCHANGED I!vars
    BY <1>1, QuietFrame DEF queue, kept, Arrived
<1>2. ASSUME NEW p \in Packet, onDirectMessage(p) PROVE I!Arrive
  <2>1. received \subseteq received' /\ UNCHANGED <<kept, cancelled>>
      BY <1>2 DEF onDirectMessage, jobs
  <2>2. Arrived \subseteq Arrived'
      BY <2>1 DEF Arrived
  <2> QED BY <2>1, <2>2 DEF I!Arrive, kept
<1>3. ASSUME stopMessageJob PROVE I!Lose
  <2>1. /\ dropped' = dropped \cup (Elements(messageEntityList) \ stored)
        /\ UNCHANGED <<received, stored, acked>>
        /\ cancelled' # {}
      BY <1>3 DEF stopMessageJob, Throw, queue
  <2>2. UNCHANGED Arrived
      BY <2>1 DEF Arrived
  <2> QED BY <2>1, <2>2, ThrownArrived DEF I!Lose
<1>4. ASSUME NEW j \in Job, Begin(j) \/ Take(j) PROVE I!Lose
  <2>1. /\ \/ dropped' = dropped \cup (Queued \ stored)
           \/ dropped' = dropped \cup (Elements(messageEntityList) \ stored)
        /\ UNCHANGED <<received, stored, acked, cancelled>>
      BY <1>4 DEF Begin, Take, Throw, jobs
  <2>2. UNCHANGED Arrived
      BY <2>1 DEF Arrived
  <2> QED BY <2>1, <2>2, ThrownArrived DEF I!Lose
<1>5. ASSUME NEW j \in Job, Convert(j) PROVE UNCHANGED I!vars
    BY <1>5 DEF Convert, jobs, queue, kept, Arrived
<1>6. ASSUME NEW j \in Job, insertMessages(j) PROVE I!Store
  <2>1. /\ stored' = stored \cup Elements(messageEntityList)
        /\ UNCHANGED <<received, acked, dropped, cancelled>>
      BY <1>6 DEF insertMessages, queue, jobs
  <2>2. UNCHANGED Arrived
      BY <2>1 DEF Arrived
  <2> QED BY <2>1, <2>2, ThrownArrived DEF I!Store
<1>7. ASSUME NEW j \in Job, handleMessageWrapper(j) PROVE I!Acknowledge
  <2>1. /\ acked' = acked \cup Message(packet[j])
        /\ UNCHANGED <<received, stored, dropped, cancelled>>
        /\ pc[j] = "report"
      BY <1>7 DEF handleMessageWrapper, jobs, queue
  <2>2. UNCHANGED Arrived
      BY <2>1 DEF Arrived
  <2>3. Message(packet[j]) \subseteq Arrived
      BY <2>1 DEF Provenance, Arrived
  <2>4. /\ Message(packet[j]) \subseteq Malformed \cup stored \cup dropped
        /\ cancelled = {} => Message(packet[j]) \subseteq Malformed \cup stored
      BY <2>1 DEF Progress, FirstProgress, Kept
  <2> QED BY <2>1, <2>2, <2>3, <2>4 DEF I!Acknowledge, I!Settled
<1>8. ASSUME UNCHANGED vars PROVE UNCHANGED I!vars
    BY <1>8 DEF vars, jobs, queue, kept, Arrived
<1> QED
    BY <1>1, <1>2, <1>3, <1>4, <1>5, <1>6, <1>7, <1>8 DEF Next, Work, Quiet

-----------------------------------------------------------------------------
(* Receiving direct messages keeps the promise of Inbox.                   *)
THEOREM InboxImplemented == Spec => ImplementsInbox
<1>1. Init => I!Init /\ Provenance
    BY ElementsEmpty DEF Init, I!Init, Provenance, Arrived
<1>2. IInv /\ Provenance /\ [Next]_vars => Provenance'
    BY ProvenanceStep DEF IInv
<1>3. IInv /\ Provenance /\ [Next]_vars => [I!Next]_(I!vars)
    BY StepImplements DEF IInv
<1> QED BY <1>1, <1>2, <1>3, Inductive, PTL DEF Spec, ImplementsInbox, I!Spec
=============================================================================
