----------------------------- MODULE MessageList -----------------------------
(***************************************************************************)
(* The list of one open conversation: MessageActivity puts the             *)
(* MessageEvents of the bus into a queue, one coroutine takes them out and *)
(* MessageAdapter.buildMessageChange works on the list, switching to the   *)
(* main thread for every change.  A copy of the list is made before the    *)
(* switch, and the main thread can remove an item in between.              *)
(*                                                                         *)
(* A message is its send_time, a multiple of Scale milliseconds.  Event 4  *)
(* (a status changed) is in DmSend; event 5 is never posted.  The items    *)
(* that show a time between two messages are left out.                     *)
(***************************************************************************)
EXTENDS Integers, Sequences, FiniteSets, SequencesExt

CONSTANTS
    Scale,     \* ticks of send_time in a millisecond: 10000
    Half,      \* 2^63: a Long is in -Half .. Half - 1
    PageSize,  \* LIMIT 100
    Now,       \* System.currentTimeMillis() when the screen is opened
    Older,     \* messages stored before that
    Incoming,  \* messages the socket brings: sets, each from one packet
    Own,       \* messages the user sends
    MaxQueue   \* bound: no event 3 or 6 is added to a queue this long

ASSUME BoundAssumption ==
    /\ Scale \in Nat \ {0} /\ Half \in Nat \ {0} /\ PageSize \in Nat \ {0}
    /\ Now \in Nat

(* A packet without messages stores none, and its event finds none: it is  *)
(* left out.                                                               *)
ASSUME MessageAssumption ==
    /\ Older \subseteq Nat /\ IsFiniteSet(Older) /\ Own \subseteq Nat
    /\ \A S \in Incoming : S \subseteq Nat /\ IsFiniteSet(S) /\ S # {}

VARIABLES
    stored,               \* rows of the conversation
    arrived,              \* what was inserted since the screen was opened
    deleting,             \* rows whose deletion is under way
    delayed,              \* events in postDelay(120)
    messageEventSyncList,
    at,                   \* where the coroutine is
    rows,                 \* result of event 2's query still to be looked at
    isLoading,            \* ... and that event's isLoading
    mutableList,          \* what event 2 has collected so far
    new,                  \* the copy that will become the list
    messages,             \* the list on screen, newest first
    originalMessages,     \* held back while unread messages are loaded
    messageUUIDList

source == <<stored, arrived, deleting>>
bus    == <<delayed, messageEventSyncList>>
work   == <<at, rows, isLoading, mutableList, new>>
shown  == <<messages, originalMessages, messageUUIDList>>
vars   == <<source, bus, work, shown>>

Elements(s) == {s[i] : i \in DOMAIN s}

(* A product of Longs.                                                     *)
Wrap(x) == ((x + Half) % (2 * Half)) - Half

OwnEventAsUpdate(m) == [type |-> 4, message |-> m]   \* faulty

OwnEvent(m)     == [type |-> 1, message |-> m]
SocketEvent(start, end, loading) ==
    [type |-> 2, isLoading |-> loading, start |-> start, end |-> end]
OverEvent       == [type |-> 3]
PageEvent(time) == [type |-> 6, timestampStart |-> time]

TypeOK ==
    /\ stored \subseteq Nat /\ deleting \subseteq Nat /\ messageUUIDList \subseteq Nat
    /\ arrived \subseteq Incoming \cup {{m} : m \in Own}
    /\ isLoading \in BOOLEAN
    /\ at \in {"poll", "row", "show", "page"}
    /\ \A s \in {rows, mutableList, new, messages, originalMessages} : s \in Seq(Nat)
    /\ \A e \in Elements(delayed) : e.type = 2
    /\ \A e \in Elements(messageEventSyncList) : e.type \in {1, 2, 3, 6}

Init ==
    /\ stored = Older
    /\ arrived = {}
    /\ deleting = {}
    /\ delayed = <<>>
    /\ messageEventSyncList = <<PageEvent(Now)>>
    /\ at = "poll"
    /\ rows = <<>>
    /\ isLoading = FALSE
    /\ mutableList = <<>>
    /\ new = <<>>
    /\ messages = <<>>
    /\ originalMessages = <<>>
    /\ messageUUIDList = {}

-----------------------------------------------------------------------------
(* Queries                                                                 *)

(* The rows of a query in the order of send_time: at place i is the one     *)
(* that i of them are not after, or not before.                            *)
Ascending(S) ==
    [i \in 1 .. Cardinality(S) |->
        CHOOSE m \in S : Cardinality({n \in S : n <= m}) = i]
Descending(S) ==
    [i \in 1 .. Cardinality(S) |->
        CHOOSE m \in S : Cardinality({n \in S : n >= m}) = i]

QueryOpenRange(start, end) ==   \* faulty
    Ascending({m \in stored : start < m /\ m < end})

getMessagesByConIdNewInsert(start, end) ==
    Ascending({m \in stored : start <= m /\ m <= end})

(* MessageViewModel multiplies whatever time it is given by Scale.         *)
getMessagesByConIdDesc(time) ==
    LET older == Descending({m \in stored : m < Wrap(time * Scale)})
    IN  SubSeq(older, 1, IF Len(older) < PageSize THEN Len(older) ELSE PageSize)

-----------------------------------------------------------------------------
(* What is posted                                                          *)

Post(e) == messageEventSyncList' = Append(messageEventSyncList, e)
PostDelay(e) == delayed' = Append(delayed, e)

(* The decomposer has inserted a packet: event 2 follows after 120 ms.     *)
Insert(S, loading) ==
    /\ S \notin arrived
    /\ arrived' = arrived \cup {S}
    /\ stored' = stored \cup S
    /\ PostDelay(SocketEvent(CHOOSE m \in S : \A n \in S : m <= n,
                             CHOOSE m \in S : \A n \in S : n <= m, loading))
    /\ UNCHANGED <<deleting, messageEventSyncList, work, shown>>

(* The decomposer posts event 3.                                           *)
UnreadOver ==
    /\ arrived # {}
    /\ Len(messageEventSyncList) < MaxQueue
    /\ Post(OverEvent)
    /\ UNCHANGED <<source, delayed, work, shown>>

Elapse ==
    /\ delayed # <<>>
    /\ Post(Head(delayed))
    /\ delayed' = Tail(delayed)
    /\ UNCHANGED <<source, work, shown>>

insertOwnerMessageAndShow(m) ==
    /\ {m} \notin arrived
    /\ arrived' = arrived \cup {{m}}
    /\ stored' = stored \cup {m}
    /\ Post(OwnEvent(m))
    /\ UNCHANGED <<deleting, delayed, work, shown>>

(* The list is scrolled to its end.                                        *)
LoadMore ==
    /\ messages # <<>>
    /\ Len(messageEventSyncList) < MaxQueue
    /\ LET time == CHOOSE m \in Elements(messages) :
                       \A n \in Elements(messages) : m <= n
       IN  time # 0 /\ Post(PageEvent(time))
    /\ UNCHANGED <<source, delayed, work, shown>>

(* A failed picture or video is sent again: its item is removed at once,   *)
(* its row by another coroutine.                                           *)
removeItem(m) ==
    /\ m \in Own \cap Elements(messages)
    /\ LET i == CHOOSE i \in DOMAIN messages :
                    messages[i] = m /\ \A k \in DOMAIN messages :
                                           messages[k] = m => k <= i
       IN  messages' = SubSeq(messages, 1, i - 1)
                           \o SubSeq(messages, i + 1, Len(messages))
    /\ messageUUIDList' = messageUUIDList \ {m}
    /\ deleting' = deleting \cup {m}
    /\ UNCHANGED <<stored, arrived, bus, work, originalMessages>>

deleteMessage(m) ==
    /\ m \in deleting
    /\ deleting' = deleting \ {m}
    /\ stored' = stored \ {m}
    /\ UNCHANGED <<arrived, bus, work, shown>>

-----------------------------------------------------------------------------
(* buildMessageChange                                                      *)

Poll(type) ==
    /\ at = "poll"
    /\ messageEventSyncList # <<>>
    /\ Head(messageEventSyncList).type = type
    /\ messageEventSyncList' = Tail(messageEventSyncList)
    /\ UNCHANGED <<source, delayed>>

AddOwn ==
    /\ Poll(1)
    /\ LET m == Head(messageEventSyncList).message
       IN  /\ messages' = <<m>> \o messages
           /\ messageUUIDList' = messageUUIDList \cup {m}
    /\ UNCHANGED <<work, originalMessages>>

Query ==
    /\ Poll(2)
    /\ LET e == Head(messageEventSyncList)
       IN  /\ rows' = getMessagesByConIdNewInsert(e.start, e.end)
           /\ isLoading' = e.isLoading
    /\ at' = IF rows' = <<>> THEN "poll" ELSE "row"
    /\ mutableList' = <<>>
    /\ UNCHANGED <<new, shown>>

Advance == at' = IF rows' = <<>> THEN "poll" ELSE "row"

(* One row of the query: everything collected so far is put into the list  *)
(* or held back, once for every row.                                       *)
Row ==
    /\ at = "row"
    /\ rows' = Tail(rows)
    /\ mutableList' = IF Head(rows) \in messageUUIDList THEN mutableList
                      ELSE Append(mutableList, Head(rows))
    /\ messageUUIDList' = messageUUIDList \cup {Head(rows)}
    /\ \/ /\ mutableList' # <<>> /\ isLoading
          /\ originalMessages' = originalMessages \o mutableList'
          /\ Advance
          /\ UNCHANGED <<new, messages>>
       \/ /\ mutableList' # <<>> /\ ~isLoading
          /\ originalMessages' = IF originalMessages = <<>> THEN <<>>
                                 ELSE originalMessages \o mutableList'
          /\ new' = Reverse(IF originalMessages = <<>> THEN mutableList'
                            ELSE originalMessages') \o messages
          /\ at' = "show"
          /\ UNCHANGED messages
       \/ /\ mutableList' = <<>>
          /\ messages' = Reverse(originalMessages) \o messages
          /\ originalMessages' = <<>>
          /\ Advance
          /\ UNCHANGED new
    /\ UNCHANGED <<source, bus, isLoading>>

Release ==
    /\ Poll(3)
    /\ new' = Reverse(originalMessages) \o messages
    /\ at' = IF originalMessages = <<>> THEN "poll" ELSE "show"
    /\ UNCHANGED <<rows, isLoading, mutableList, shown>>

(* On the main thread: the copy becomes the list.                          *)
Show ==
    /\ at = "show"
    /\ messages' = new
    /\ originalMessages' = <<>>
    /\ at' = IF rows = <<>> THEN "poll" ELSE "row"
    /\ UNCHANGED <<source, bus, rows, isLoading, mutableList, new,
                   messageUUIDList>>

Page ==
    /\ Poll(6)
    /\ LET older == getMessagesByConIdDesc(Head(messageEventSyncList).timestampStart)
       IN  /\ new' = messages \o Descending(Elements(older) \ messageUUIDList)
           /\ messageUUIDList' = messageUUIDList \cup Elements(older)
           /\ at' = IF older = <<>> THEN "poll" ELSE "page"
    /\ UNCHANGED <<rows, isLoading, mutableList, messages, originalMessages>>

ShowPageAndClear ==   \* faulty
    /\ at = "page"
    /\ messages' = new
    /\ originalMessages' = <<>>
    /\ at' = "poll"
    /\ UNCHANGED <<source, bus, rows, isLoading, mutableList, new, messageUUIDList>>

ShowPage ==
    /\ at = "page"
    /\ messages' = new
    /\ at' = "poll"
    /\ UNCHANGED <<source, bus, rows, isLoading, mutableList, new,
                   originalMessages, messageUUIDList>>

-----------------------------------------------------------------------------
Coroutine == AddOwn \/ Query \/ Row \/ Release \/ Show \/ Page \/ ShowPage

Screen ==
    \/ Elapse \/ LoadMore \/ Coroutine
    \/ \E m \in Own : insertOwnerMessageAndShow(m)

Next ==
    \/ \E S \in Incoming, loading \in BOOLEAN : Insert(S, loading)
    \/ UnreadOver
    \/ \E m \in Own : removeItem(m) \/ deleteMessage(m)
    \/ Screen

Spec == Init /\ [][Next]_vars

-----------------------------------------------------------------------------
(* Properties                                                              *)

(* A message that was seen, so that no later event adds it, is on screen,  *)
(* held back, or in the copy that is about to be shown: it is not lost     *)
(* between the two lists.                                                  *)
SeenKept ==
    messageUUIDList \subseteq
        Elements(messages) \cup Elements(originalMessages)
            \cup (IF at \in {"show", "page"} THEN Elements(new) ELSE {})

Covers(e, m) == e.type = 2 /\ e.start <= m /\ m <= e.end

(* A message that arrived while the screen is open has been seen, or an    *)
(* event that makes the coroutine look for it is under way.                *)
ArrivalSeen ==
    \A S \in arrived : \A m \in S \ Own :
        \/ m \in messageUUIDList \cup Elements(rows)
        \/ \E e \in Elements(delayed) \cup Elements(messageEventSyncList) : Covers(e, m)

(* What the source says and the code does not keep: a packet of two, and  *)
(* the first page of older messages, are enough to break them.             *)

(* "added from the socket": a message is added once.                       *)
AddedOnce ==
    \A i, k \in DOMAIN messages : messages[i] = messages[k] => i = k

(* "messages taken out of the database": an event 6 that was posted for    *)
(* older messages than those on screen brings one, if there is one.        *)
OlderLoaded ==
    [][\A m \in stored :
         /\ Page /\ messages # <<>>
         /\ \A n \in Elements(messages) : m < n
         => Len(new') > Len(messages)]_vars

=============================================================================
