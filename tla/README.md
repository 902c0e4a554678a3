# A verification of InstaLive for Android

InstaLive is a Kotlin application for chatting and for live broadcasts with
viewers who are taken up on the call. This directory holds TLA+ models of the
parts of it that are hard to test because several coroutines, callbacks of the
socket, timers and the user work on the same state, the TLC configurations
that check them on small instances, and TLAPS proofs about the core of them.

Paths below are relative to `src/`; `app/…/` stands for
`app/src/main/java/com/example/instalive/`, `dmsdk/…/` for
`dmsdk/src/main/java/com/venus/dm/`. The repository has no README; its
comments (in Chinese) and names are the only statement of intent, and where a
property rests on one it is quoted. `PROJECT.json` names, for every definition
that models code, the lines it models.

## 1. The system

One Android process. State lives in four places: a Room database of
conversations and messages (`dmsdk`), an event bus (LiveEventBus: events
posted at once or with a delay, delivered on the main thread), singletons
(`DMSocketIO`, `LiveSocketIO`, `ChatMessagesDecomposer`,
`ConversationDataRepository`, `LiveDataRepository`), and the screens with
their view models. Work is done by coroutines, mostly on `Dispatchers.IO`,
which is a pool of threads. Of the components modelled only the request
signing has a lock, the monitor of its class; the others have none.

    server --socket--> DMSocketIO --> ChatMessagesDecomposer --> Room
                                          |  events 2, 3           ^
                                          v                        |
                  MessageActivity <-- event bus <-- sendDm --> (4) |
                    MessageAdapter  --(1, 6)-------------------- queries
    SharedViewModel (video, picture) ----> sendDm
    server --socket--> LiveSocketIO --> event bus (1 s) --> LiveAudienceActivity
                          |                           |     --> Agora engine
                          | comments, gifts           +--> invitation dialog
                          v
                 LiveInteractionBaseFragment: rows of comments, gifts' cards
    every request, and the web view --> UrlSignature (native, one monitor)

### Components

| Component | State it keeps | Operations | What must be true | Module |
|---|---|---|---|---|
| **Sending direct messages** (`ConversationDataRepository.sendDm`, `MessageBaseViewModel`, `MessageActivity`) | rows and their `send_status`, `pendingMessageJobsMap`, one 30 s job per attempt, prompts, the items on screen | send, resend, delete, answer, error, timeout, open and close the conversation | a message shown as being sent is settled; a settled one is not overwritten; a deleted one does not come back | `DmSend` |
| **Receiving direct messages** (`ChatMessagesDecomposer`, `BaseInstaSocket`) | queue of packets, the job, one list of entities, timetokens, the flag for unread messages | receive, start, stop, convert, insert, acknowledge, flush timetokens | what is acknowledged is stored; one job works; events name the interval stored | `MessageJob` |
| **Message list** (`MessageActivity`, `MessageAdapter.buildMessageChange`) | queue of events, the list on screen, the list held back, the uuids seen | events 1, 2, 3, 6; scroll; remove | what arrives is shown, once, and is not lost between the lists | `MessageList`, `DmReceive` |
| **Video messages** (`SharedViewModel`) | queue of videos, queue of the one being done, timers | send, process, upload cover and video, time out, send | every video gets its turn and its message an outcome | `VideoUpload` |
| **Call-in of a viewer** (`LiveAudienceActivity`, `LiveBaseActivity`) | users on the call, windows, flag, role and camera | agree, hang up, cancel, permissions, end of live | the screen shows who is on the call; who is not on it does not send | `LiveWith` |
| **Live comments** (`LiveDataRepository`, `LiveInteractionBaseFragment`) | queues of events, the coroutine that makes rows, uuids, 30 s jobs | send, answer, time out, echo, leave and enter the screen | one row a comment, with what happened to that comment; none is shown as being sent for ever | `LiveComment` |
| **Gifts** (`LiveInteractionBaseFragment`) | waiting gifts, big animation, two containers with their jobs | arrive, decode, play, slide out | every gift has its turn, the heavier first; no container stays taken | `GiftQueue` |
| **Live interaction** (`LiveInteractionFragment`, `GoLiveWithInviteDialog`) | the invitation's dialog and count-down, requests | invite, accept, decline, cancel, time out | every invitation shown is answered, none is closed by another's time | `Invitation` |
| **Request signing** (`UrlSignature`, `framework-rest/jni`) | static cells, static digest buffers, the monitor | one native method a variant and key | a signature depends on its request alone | `UrlSign` |
| **Conversation synchronisation** (`ConversationDataRepository`, list view model) | rows of conversations | fetch the list, fetch one, insert, pin, mute, mark read | a conversation is stored once; a fetch does not undo what the socket wrote | plan |
| **Direct message connection** (`DMSocketIO`) | socket, resume token | connect, release, pull unread | no message before the token is missing | plan |
| **Live connection** (`LiveSocketIO`) | socket, attempts | connect, retry, release | a live that was left is not connected again | plan |
| **Live host** | count-downs, waiting box, windows | start, invite, end | the box closes when the invitation is over | plan |
| Pictures (`SharedViewModel`) | timers | upload, send | as for videos, without a queue | plan |
| Purchases and diamonds, account, home and events, web view, message composition, adapters and dialogs, live SDK, HTTP interface, database declarations, base and framework libraries, third-party code | forms, single requests, presentation | | | not modelled, see 7 |

### How they interact

* The decomposer writes rows and posts event 2 (query this interval, after
  120 ms) and event 3 (pulling unread messages is over, at once). The open
  conversation queues the events and one coroutine works on the list. They
  share the database and the bus, nothing else; `DmReceive` composes them.
* `sendDm` is called by the view models of text and by `SharedViewModel`. It
  writes rows and posts event 4, which replaces one item.
* Opening a conversation posts event 6, a page of rows, in which a row still
  SENDING is shown as FAILED.
* Starting and stopping of the decomposer's job follows the connection, which
  follows the app's going to foreground and background.
* The live screen is driven by events the socket posts with a delay of a
  second; the end of the live is posted without. It calls the RTC engine.
* Comments and gifts come from the socket too, to a fragment that is paused and
  resumed. Its rows are made by a coroutine that onResume launches and onPause
  cancels; its gifts are driven by the ends of animations.
* An invitation is answered by requests of the dialog; when the host is told,
  the server sends the agreement `LiveWith` begins with.
* Every request of all of them is signed on the thread that sends it.

### What is hard about it

`PROJECT.json` lists 40 hazards with their lines and the properties about them.
Where no property speaks of one, since the code does not avoid it and nothing
in the repository says it should, its note says what the model shows (see
section 3). The hazards are of six kinds: two attempts or two jobs that overlap
and share a map entry or a list; a row read by a coroutine, then written from
what was read; events that overtake one another because one is delayed; an
entry that is left behind when a step in the middle fails or finds its row
gone; a list copied, or an index computed, on one thread and used on another; a
queue that moves on only when somebody's end tells it to. Hazards of components
that have no module yet are in the observations of section 3.

## 2. The modules

Every step is what one coroutine or callback does between two points at which
another can get in: a database call, a switch of dispatcher, a cancellation,
an answer. Guards are the code's conditions, and a trailing call (a sort, an
event, a start of the next one) belongs to the step it trails.

| Module | What it is |
|---|---|
| `DmSend` | rows, attempts, jobs and screen of text messages |
| `DmSend_proofs` | theorems about it |
| `MessageJob` | the decomposer's queue, jobs and shared list |
| `MessageJob_proofs` | theorems about it |
| `Inbox` | what reception promises, without jobs and lists |
| `MessageList` | the queue of events and the two lists of an open conversation |
| `DmReceive` | `MessageJob` and `MessageList` on one database and one bus |
| `DmReceive_proofs` | theorems about `MessageList` and about `DmReceive` |
| `VideoUpload` | queues, uploads and timers of videos |
| `VideoUpload_proofs` | theorems about it |
| `LiveWith` | a viewer's call-in |
| `LiveComment` | a live's comments, from the request to the row |
| `LiveComment_proofs` | theorems about it |
| `GiftQueue` | the gifts of a live and their animations |
| `LiveScreen_proofs` | theorems about `GiftQueue` and `LiveWith`: lists that are put into and taken from |
| `Invitation` | the invitation of a viewer, its dialog and its time |
| `Invitation_proofs` | theorems about it |
| `UrlSign` | the native signing of requests |
| `UrlSign_proofs` | theorems about it |
| `MC…` | constants for TLC |

Definitions marked *faulty* are not used by the specifications. Each is a
variant of the definition that follows it, with a plausible slip in it (a
forgotten cancel, an open instead of a closed interval, an off-by-one). They
are there so that one can see every property fail when the code has the slip.

### DmSend

| State | Code |
|---|---|
| `status`, `time` | `send_status`, `send_time` of the row; `unsent` and `gone` when there is none |
| `pc`, `of`, `at` | an execution of `sendDm` (`api/ConversationDataRepository.kt:118-176`), the message it sends, the `send_time` of the entity it holds |
| `job`, `jobAt` | its 30 s job, which reads the row and then writes it |
| `pendingMessageJobsMap` | the same map, one entry per uuid |
| `ui` | the item `MessageAdapter` shows |
| `dialog` | the entity the resend dialog or the long-press menu was opened with |
| `prompts`, `promptJobs` | rows with the server's error text below a message, and those still to be inserted |

What was abstracted: row ids (an update of a deleted row does nothing); the
body of the answer (`resultOk` is not looked at by `sendDm` either). The write
of a row, the post of event 4 and its delivery to the adapter are one step: for
a moment the code's item lags behind its row, and no property speaks of that.
Every attempt has a fresh
`send_time`. A coroutine that was cancelled does not start another Room
transaction. Closing the screen cancels `viewModelScope` and with it the
calls, whose `CancellationException` leaves `sendDm` without a write; the
30 s jobs have a scope of their own and go on. `Crash` keeps the database only.

### MessageJob

| State | Code (`dmsdk/…/message/ChatMessagesDecomposer.kt`) |
|---|---|
| `messageJob`, `cancelled`, `pc` | the field, and the coroutines it has referred to |
| `messageSyncList`, `messageEntityList`, `idTimeTokenMap`, `isDecomposerUnreadMessage` | the same |
| `packet`, `left` | a job's local variables |
| `stored`, `lastMsgTimetoken` | rows of messages, and the conversation's `last_msg_timetoken` |
| `acked` | uuids reported to the server |
| `event` | what the step posted |
| `dropped` | history: what a `clear()` threw away |

A cancelled coroutine notices only in `delay()` and at the head of its loop
(`isActive`), so it goes on with its packet while the next job has started;
both use the one list. A job cancelled before it was dispatched may or may not
run its first statements. The two-second limit on writing timetokens back is a
free choice (`Early` or not). Packets enter the queue in any order, since each
is parsed in a coroutine of its own. There is one conversation, already
stored: fetching an unknown one, the senders' rows and the report that a
conversation was read are left out.

`Inbox` is the abstract specification: messages arrive, are stored, lost and
acknowledged, and an acknowledged one is stored, cannot be, or was lost after
an interruption. `MessageJob` implements it under the mapping that computes
`arrived` from the queue and the packets, takes `dropped` for `lost` and "some
job was cancelled" for `interrupted`; jobs, the shared list, the conversion
and its order disappear.

### MessageList and DmReceive

| State | Code (`app/…/app/conversation/MessageActivity.kt`, `MessageAdapter.kt`) |
|---|---|
| `messageEventSyncList`, `delayed` | the activity's queue; events in `postDelay` |
| `at`, `rows`, `isLoading`, `mutableList`, `new` | the coroutine inside `buildMessageChange` |
| `messages`, `originalMessages`, `messageUUIDList` | the lists on screen and held back, uuids seen |
| `stored`, `deleting`, `arrived` | rows, deletions under way, what was inserted so far |

A message is its `send_time`. The list is copied before the coroutine switches
to the main thread; `removeItem` may come in between. The product
`time * 10000L` wraps (`Wrap`) at a scaled-down `Half`. Time separators are
left out. A query returns the rows by `send_time`: at place *i* is the row that
*i* of them are not after (`Ascending`), a definition by rank that can be
reasoned about. `DmReceive` extends `MessageList` and instantiates
`MessageJob` with the same `stored`, lets every step of the decomposer be
followed by the delivery of the event it posted (`Receive`), and takes the
screen's steps from `Screen` (`Display`).

### VideoUpload

`stage[v]` is how far the coroutine, callback or answer of a video is;
`videoMessageQueue` and `videoMessageDoingQueue` are the code's;
`starters`/`passed` count coroutines of `videoMessageStart` before and after
its checks; `timeoutJob` are the 30 s timers of the two uploads and
`cloudinaryUploadJob` the map that holds at most one of them per video. An
upload answers, fails, or is refused by S3 with neither callback called. The
row may be gone at every point at which it is looked up, and the conversation,
which is looked up once for each video, may have no row (`NoConversation`): a
live's video is sent with an empty `conId` (`LiveInteractionFragment.kt:190`),
and `syncConversationList` deletes conversations the server lists no more but
not their messages. The look-up of the row and that of the conversation are one
step. A `poll()` that gives null, and a `process()` that throws, end the
process. `sendDm` is one step.

### LiveWith

`ui` is what the phone keeps: `liveUserWithUids`, `liveContainers` (whom the
windows show), `addedUidSet`, `isMicrophoneUser` and `broadcasting` (camera,
microphone and broadcaster role, which the code turns on and off together).
`asked` is the list of an agreement that waits for the permissions. The
server's agreements, hang-ups and cancellations are external actions, with
`MaxCall` as the number of users it takes up at most; an event is posted with a
delay or lost. `checkMicrophoneUser` and `liveUIController` go through a list
one user after the other, and so do the recursive functions of that name, whose
value at `i` is the screen after the first `i` users. Removing a user from the
lists (`removeRemoteView`, `hungUpLiveWithUI`) is `Removed`. `stale`, `late`, `current` and `known` are
history variables. Left out: mute states, pause pictures, network quality, the
invitation dialog, raised hands. A uid is identified with its user. The
refresh of the list that `startGetLiveState` would bring is dead code (nobody
posts `EVENT_BUS_KEY_TELEPHONY`), so the list of a live is applied once, after
joining.

### LiveComment

| State | Code (`LiveInteractionBaseFragment.kt`, `api/LiveDataRepository.kt`) |
|---|---|
| `request`, `timer`, `pendingMessageJobsMap` | `sendLiveComment`, its job of 30 s, the map |
| `messageEventSyncList`, `ownerMessageEventSyncList` | the two queues |
| `messageEventJob`, `cancelled`, `pc`, `event`, `index` | the coroutine of the screen, those cancelled before, and the local variables of each |
| `messageUUIDList`, `messages` | uuids taken into account, rows |
| `lost`, `torn`, `missed` | history: a row not added by a cancelled coroutine, an `add()` overwritten by another's, a status that found no row |

A coroutine is cancelled by `onPause`, and the next one launched, while it is
anywhere; it notices in `delay()`, at the head of its loop, and in
`withContext(Main)`, whose block then does not run. Two racing `add()` calls on
the plain list may leave one of the two entries. Rows of other kinds are left
out.

### GiftQueue

`giftList`, `bigAnimIsPlaying` and the two jobs are the code's; `decoding` and
`playing` are what the SVGA decoder and player have in hand, `cards[g]` is the
container in which a card slides. The main thread does everything, so a step is
a callback: a gift comes (`onNewGift`), the decoder answers or fails, an
animation ends, a card has slid out. `popGift` is an operator on the values its
caller has made, since it is called in the middle of three of them. A card may
end before or after its animation. `crowded` is history: the last `popGift()`
left gifts waiting since special gifts' cards held both containers.

### Invitation

| State | Code (`LiveInteractionFragment.kt`, `ui/GoLiveWithInviteDialog.kt`) |
|---|---|
| `goWithInviteDialog`, `phase` | the field, and how far each dialog is; XPopup counts one that slides out as shown |
| `goLiveWithJob`, `countDown` | the field, and each count-down: counting, or waiting for the main thread |
| `isAgreed`, `isRefused` | the same, per dialog |
| `underWay`, `asked` | permissions and requests not answered yet; history: what was sent to the server |

The permissions are granted on another screen, at any time, also when the
dialog has gone; the agreement is then sent all the same. Answers reach a
dialog until it has slid out, and so do touches: the buttons' listeners have no
guard, and that XPopup lets a sliding dialog be touched is assumed. For a live
that was locked meanwhile the first button only closes the dialog, as `GoBack`
does. The length of the count-down is not modelled: it may end at any time. Nor
is the destruction of the screen with the dialog open.

### UrlSign

`pc`, `call` and `signature` are a thread's call of a native method, from the
monitor to the answer, with its local variables; `cells` are the static cells,
filled in two steps (`Allocate`, `Fill`) by the first caller of a getter; `buf`
and `static_out_buffer` are the static buffers in which BoringSSL's `SHA1` and
`HMAC` answer when they are given none, each read in a later step. A digest is
the tuple of what it is computed from. The table `Native` has the methods and
their keys. The methods that sign a body are never called by the application
and are left out.

## 3. Properties and runs

`DmSend` (run `dm_send`, 71 000 states):

* `SpinnerAttended`, `SpinnerSettles`: a message shown as being sent, with a
  row, has a call or a job left that will settle it, whatever attempts overlap
  and whoever cancels whose job; and it is settled.
* `FirstJobGuarded`, `SuccessIsFinal`: for a message sent once, the job stays
  registered until the answer cancels it and is off before the answer, or its
  failure, is written; so a SUCCESS is never overwritten.
* `DeletedStaysDeleted`: no late answer or job brings a deleted row back.

`MessageJob` (run `message_job`, 434 000 states):

* `NothingVanishes`, `FirstSessionKeeps`: only a `clear()` loses a message;
  until a job is stopped what is acknowledged is stored or unconvertible.
* `TokensKept`: until then, each stored message is covered by the
  conversation's timetoken or one still to be written back.
* `ImplementsInbox`: every behaviour is one of `Inbox`.
* `EventCovers`: until a job is stopped, event 2 names an interval that holds
  every message of its packet, if the packet is in order.
* `QueueDrains`, `UnreadEnds`: while the job is alive packets do not pile up
  and the end of loading is told.

`MessageList` (`message_list_safety`, 54 000 states), `DmReceive`
(`dm_receive_safety`, 141 000 states):

* `SeenKept`: a message that later events skip is on screen, held back, or in
  the copy about to be shown.
* `ArrivalSeen`, `StoredIsSeen`: a message that arrived, or was stored by the
  decomposer, was seen or is covered by an event under way; the latter until a
  job is stopped, and if the packets received are in order.

`VideoUpload` (`video_upload`, 343 000 states):

* `StartComes`: a start is on its way whenever videos wait and none is being
  done.
* `DoingEnds`, `Settled`: each video being done is worked on or timed, and every
  message has an outcome while the process lives. Both leave out the videos that
  are `Dropped` (row removed, conversation not found), `Settled` also those that
  wait behind one: what becomes of them is told below.
* `SuccessIsKept`: a video handed to `sendDm` is not failed by a late timer.

`LiveWith` (`live_with`, 596 000 states):

* `WindowsInOrder`: window number i shows user number i through every coming
  and going, unless a list was applied too late (history `late`) or the server
  takes up more than nine, for whom `userAndLayout` has no layout: it falls back
  to one window, and when ten become nine again the windows it took away come
  back empty. `MaxCall` is 4 in this run, so every layout up to four occurs.
* `ScreenIsCurrent`: the screen shows those on the call by the events handled,
  whatever events were lost, once the last list was applied.
* `ShownIsSending`: who sees an own window is sending and the phone knows it.

`LiveComment` (`live_comment`, 522 000 states):

* `OneRow`, `StatusTrue`: a comment has one row, and a row never shows what
  happened to another, although its index is computed on another thread.
* `RegisteredShown`, `SentIsShown`: a uuid that makes later events be ignored
  has a row or will have one, except for the rows of cancelled coroutines; until
  the screen is left, a comment that was sent is shown or on its way.
* `AnswerShown`, `CommentSettles`: once the answer has cancelled the timer and
  all was applied, the row says what the answer was; no row is shown as being
  sent for ever while the screen is up.

`GiftQueue` (`gift_queue`, 110 000 states):

* `Attended`, `GiftComes`: while gifts wait something is on the screen whose end
  calls `popGift()`, and every gift has its turn; except after a decoder's
  failure (`Broken`) and when special gifts' cards held both containers.
* `TakenByCard`: no container counts as taken for a card that is gone, although
  cards overwrite each other's jobs.
* `ByWeight`: the heavier waits before the lighter, equals as they came.

`Invitation` (`invitation`, 28 600 states):

* `TimeHidesOwn`: a count-down, which goes on after its dialog was answered,
  never closes a later dialog.
* `AgreedStands`: a dialog that saw its agreement confirmed does not decline when
  it closes, whatever closed it; only a touch of the viewer's does.
* `InviteAnswered`: every invitation shown is answered in the end.

`UrlSign` (`url_sign`, 96 000 states):

* `AsIfAlone`: a call answers as if it were the only one ever made, whatever
  calls with whatever keys came before or at the same time.
* `OrderIsIrrelevant`: the order in which the hash map hands over the parameters
  makes no difference.
* `CallsReturn`: no refusal leaves the monitor taken.

Type correctness is a theorem of every module with state; the runs of
`MessageList` and `LiveWith` check it too. Some invariants are proved and not run (section 4).

### What the code does not keep

Two runs check what a comment of the repository says and find it violated.

| Run | Property | What happens |
|---|---|---|
| `dm_receive_held` | `NothingHeldBack` | Event 3 overtakes the delayed event 2, whose messages are then held back with nobody to release them. |
| `live_with_audience` | `HungUpIsAudience` | A viewer who is asked for the permissions, or was hung up before they were granted, starts to send when another viewer is taken up. |

Five more properties of the modules fail. They rest on shorter comments, and no
configuration has them; add one to its module's cfg to see it.

| Module | Property | What happens |
|---|---|---|
| `DmSend` | `JobFailsOnlySending` | The job of a first attempt reads SENDING, the user sends again, the second attempt succeeds, the job writes FAILED. Comment: after 30 s, *if it is still being sent*, set it to failed. |
| `LiveComment` | `TimerFailsOnlySending` | The same comment; here the job does not look at all, and SUCCESS is posted before it is cancelled. |
| `MessageList` | `AddedOnce` | A packet of two messages: the block that adds the collected rows stands inside the loop over the rows, and the first one is added twice. |
| `MessageList` | `OlderLoaded` | `LoadMore` passes a `send_time`, which the query multiplies by 10000 again; the product wraps and older messages are not found. |
| `VideoUpload` | `TurnComes` | The row of the video under way is removed, or its conversation not found: `videoMessageDoingQueue` is not cleared and the next videos wait for ever (with `CanLogout` FALSE; a logout clears both queues). |

The following were met while modelling. They show in the models, but nothing
in the repository promises otherwise clearly enough, so no run claims them.

* A row that is SENDING when the process dies or the screen closes at the
  wrong moment is never settled in the database. It is shown as FAILED when
  loaded (`MessageAdapter.kt:798`), in memory only.
* A video whose conversation has no row, as every video sent from a live, is
  uploaded and then left: its timer is cancelled, its file deleted, its message
  stays SENDING (`SharedViewModel.kt:475-482`), and as `videoMessageDoingQueue` is
  not cleared no other video is started until a logout or the process's end. (A
  timer that had just written FAILED still goes on to start one.)
* A deleted text stays on the screen; sent again from there, its item stays
  SENDING for ever, because there is no row to settle.
* The prompt of a failed attempt is inserted by a coroutine and may arrive
  after its message was deleted or sent again (`MessageBaseViewModel.kt:72`).
* `isDecomposerUnreadMessage` is also set by ordinary packets
  (`ChatMessagesDecomposer.kt:66`), so event 3 does not mean unread messages.
* A job that finds the queue not empty and then polls null ends, while
  `messageJob` stays set (`ChatMessagesDecomposer.kt:48-51`). Packets pile up
  until the next stop and start. `Alive` in `QueueDrains` excludes it.
* A stop and start within two seconds clears timetokens not yet written back;
  the conversation keeps an older one than its newest message's.
* Where one job clears the list of another between its insert and its event 2,
  the event names the interval 0..0 and the messages, stored and acknowledged,
  are not shown until a page with them is loaded. `EventCovers` ends with the
  first stop. A message whose conversion throws is skipped and acknowledged
  with its packet (`ChatMessagesDecomposer.kt:117`).
* Event 2 takes its interval from the first and the last message of a packet
  (`ChatMessagesDecomposer.kt:131`), and nothing sorts them: of a packet that is
  not in the order of timetokens, messages outside the interval are stored and
  acknowledged but not shown until a page with them is loaded.
* After a refusal of the permissions the flag of the viewer stays set, and
  Back does nothing. An agreement that arrives after the end of a live turns
  the camera on behind the end screen.
* As the eighth of nine users the viewer's own picture takes the place of the
  ninth window in the list and of the eighth on the screen
  (`LiveAudienceActivity.kt:726`); the model keeps the list only.
* A comment whose coroutine is cancelled between registering its uuid and
  showing its row is never shown, and its echo is ignored (`lost`). A status
  that overtakes its row finds nothing, and the row stays SENDING (`missed`).
* A gift that cannot be decoded leaves `bigAnimIsPlaying` set
  (`LiveInteractionBaseFragment.kt:793`): no special gift is shown any more, and
  once the first container is empty no ordinary one either (826). Two special
  gifts' cards in both containers end without a `popGift()`: gifts wait until
  the next one comes. A special gift's card can be put on one that is still
  there. The views of the second container are taken out of the first.
* A touch of the second button while the dialog slides out after a confirmed
  agreement sends a decline after it (`GoLiveWithInviteDialog.kt:53`).
* An invitation that comes while the dialog before is sliding out is ignored and
  never answered. When the time ends while the permissions are asked for, the
  server is sent a decline and then an agreement.
* On the host's screen an old count-down, at its end, cancels whatever ticker
  the field holds by then (`LiveInteractionHostFragment.kt:371-398`); the box of
  a newer invitation then stays until its answer comes. A ticker is created on
  another thread: an answer that comes before leaves it running, and it hides
  the box of a later invitation.
* Whoever closes the explanation of raising one's hand, shown the first time,
  cannot raise it any more on that screen: `isRaiseClicking` stays set
  (`LiveInteractionFragment.kt:467-482, 521-531`).
* In modules not written: `lastTimeStamp` is read by a coroutine that races the
  first `initSocket` (`DMSocketIO.kt:26`), the resume token counts messages
  that were stored after one thrown away (148), a failed `pullUnread` is not
  repeated (166). The repeated attempt of `LiveSocketIO.kt:188` may connect a
  live that was left. Two fetches of an unknown conversation insert it twice,
  as its key is generated (`ConversationDataRepository.kt:222-299`), and rows
  of conversations are written whole from an earlier read. A video's row is
  SUCCESS before `sendDm` is called (`SharedViewModel.kt:483`), and the timer of
  a picture reads and writes in two steps (165).

### Bounds, and why they are enough

* `dm_send`: two messages, two executions of `sendDm`, of one message or of
  two (`of` is free in `Init`). All the hazards need two attempts of one
  message, or one message next to another; a third attempt meets the same
  single map entry. The safety properties are proved for any number.
* `message_job`: two jobs, three packets. An overlap is of two jobs: a third
  one starts only after the second was stopped, and then has the same kind of
  overlap with each. The packets have two messages, a message sent twice, one
  that cannot be converted, unread and ordinary. Proved for any number.
* `message_list_safety`: `Scale` 4 for 10000, `Half` 40 for 2^63, pages of two, three
  older messages (two pages), two packets, one own message with a `send_time`
  between the packets'. `MaxQueue` keeps events 3 and 6,
  which can be posted again and again, from growing the queue. Proved for any
  number of each.
* `dm_receive_*`: one job (`StoredIsSeen` speaks of the time before the first
  stop), an unread packet of two, an ordinary one, an own message between.
  `StoredIsSeen` is proved for any jobs and packets.
* `video_upload`: two videos, one of which can be removed, either without a
  conversation; the queues' races need a video being done and one waiting. A
  logout clears both queues. The safety properties are proved for any number.
* `live_with*`: the host, the viewer and two others: layouts of one, two and
  four windows, places taken up and given back in every order. One event under
  way at a time (two were tried once, 12.5 million states, with the same
  result). `MaxCall` 4 lets all of them on the call at once. Symmetry exchanges
  the two others; both runs check safety only, and no run with liveness uses
  symmetry. Proved for any viewers, limit and number of events, the layouts of
  six and nine included.
* `live_comment`: one comment of this user, one of another, two coroutines: an
  overlap is of two, and a comment is disturbed by another's row or status in
  front of it. Proved for any number.
* `gift_queue`: two special gifts fill the big animation or both containers;
  three ordinary ones fill both with one waiting; two weights, both kinds in
  each. Proved for any gifts and weights.
* `invitation`: two, since a count-down meets one dialog after its own. Proved
  for any number.
* `url_sign`: three threads, one of them after or beside two with the same or
  another key; the two methods a debug build calls, two certificates, two
  parameters in both orders. Proved for any threads and requests, under
  `OneVariant`.

Runs without deadlock checking model systems that really may stop: every
packet, video or message of a finite set has been handled.

### Fairness

* `DmSend!FairSpec`: the steps of a call that wait for nothing outside
  (`LocalStep`) and of its job (`JobStep`) are taken. `Dispatchers.IO` runs
  coroutines that are ready and `delay(30000)` elapses. Answers are not fair:
  the server may be silent for ever, and `SpinnerSettles` still holds because
  of the job. `AnsweredSpec` is there for who wants to add OkHttp's timeouts.
* `MessageJob!FairSpec`: a job whose next step is a plain call or a timer takes
  it. Starting, stopping and the arrival of packets are free.
* `VideoUpload!FairSpec`: coroutines are scheduled, processing and uploads end
  in one of their ways, timers elapse. That an upload refused by S3 calls
  nobody is one of these ways; the timer is then what ends it.
* `LiveComment!FairSpec`: a coroutine of the screen works and `delay(30000)`
  elapses. The server, the socket and the user are free.
* `GiftQueue!FairSpec`: the decoder calls back in one of its ways, a played
  animation and each card's animator end. That gifts come is free.
* `Invitation!Spec`: the count-down ends, its block runs on the main thread, and
  a dialog that slides out is gone. Neither viewer nor server need do anything.
* `UrlSign!FairSpec`: each thread gets on. That a waiting thread enters the
  monitor needs no more, as each makes one call.
* `LiveWith`, `MessageList` and `DmReceive` state safety only.

## 4. What is proved

TLAPS checks some 10 800 obligations. The theorems hold for every value of the
constants that satisfies the modules' assumptions: constants that stand for
"nothing" are not members of the sets, packets are sequences of timetokens and
messages are natural numbers, what one packet brings and what was stored
before is finite, the names of a request's parameters are different (they
are the keys of a map), and "no list" is not a list of users.

**`DmSend_proofs`**, for any messages and any number of executions:

| Theorem | States |
|---|---|
| `TypeCorrect` | `Spec => []TypeOK` |
| `SpinnerAlwaysAttended` | `Spec => []SpinnerAttended` |
| `FirstJobAlwaysGuarded` | `Spec => []FirstJobGuarded` |
| `PendingIsOwned` | `Spec => []PendingJobOwned` |
| `SuccessStays` | `Spec => SuccessIsFinal` |
| `DeletedStays` | `Spec => DeletedStaysDeleted` |

`SpinnerAttended` is not inductive by itself: an answer cancels whatever job
the map holds, so one must know that the entry of m belongs to a call of m
(`PendingJobOwned`) and that a call that is not started has no job
(`IdleHasNoJob`); with these, an attempt that cancels another's job is itself
at a step that will write. The inductive invariant `IInv` also has
`ItemFollowsRow`, that an item has its row's status or the masked FAILED: true
of the model, where both change in one step, and not meant as a statement about
the code. `FirstJobGuarded` adds that
the sole call of a message is the registered one, from which
`SuccessIsFinal` follows as a fact about one step: the only actions that can
write FAILED over SUCCESS are a job's and a failing call's, and for a message
sent once neither is left.

**`MessageJob_proofs`**, for any packets and jobs:

| Theorem | States |
|---|---|
| `TypeCorrect` | `Spec => []TypeOK` |
| `OnlyOneJob` | `Spec => []OneLiveJob` |
| `NothingIsLost` | `Spec => []NothingVanishes` |
| `AckedIsKept` | `Spec => []AckedKept` |
| `FirstSessionIsKept` | `Spec => []FirstSessionKeeps` |
| `TokensAreKept` | `Spec => []TokensKept` |
| `EventIntervalCovers` | `Spec => EventCovers` |
| `InboxImplemented` | `Spec => ImplementsInbox` |

The inductive invariant ties a job's place in its loop to what it holds. In
`convert` each message of its packet is still left, in the shared list,
stored, unconvertible, or recorded in `dropped` by a `clear()`; in `report` one
of the last three (`Progress`; `FirstProgress` is the same
without `dropped`, until the first stop). `ListAttended` says that the list
holds nothing that is not stored when no job is converting, and `Ownership`
that only `messageJob` runs without having been cancelled. That a cancelled job fills the list
another has just cleared is why the list alone proves nothing: the statement
is about the union, and only `dropped` says what a `clear()` took. The
refinement needs the same facts of a step, once per action: what it adds to
`arrived`, `stored`, `dropped` or `acked`, and that it adds to one of them only.

`EventCovers` is about the order in the list: `Interval` says that, before the
first stop, the list holds in their order the messages converted so far of the
packet in hand, and that none of them is after one still to be converted. The
proof showed what the property had left unsaid: it needs the packet itself to
be in order, as the interval is read off the first and the last message and
nothing in the code sorts them. `EventCovers` now states this condition
(`Ascending`).

**`DmReceive_proofs`**, for any messages, packets, pages and jobs:

| Theorem | States |
|---|---|
| `TypeCorrect` | `Spec => []TypeOK` of `MessageList` |
| `AlwaysKept` | `Spec => []SeenKept` |
| `AlwaysArrivalSeen` | `Spec => []ArrivalSeen` |
| `StoredIsAlwaysSeen` | `SystemSpec => []StoredIsSeen` |

The first part is about `MessageList`. `Kept` strengthens `SeenKept` for the
moment between copy and switch: in `show` what was seen is in the copy, in
`page` in the copy or still held back, which is why event 6 may leave
`originalMessages` alone while event 2 clears it. `Place` says that a new event
is only taken when the rows of the last query are used up, and `Stays` that
only own messages are ever deleted, so that a query finds what its event was
posted for. Under them are lemmas on the lists: what `Reverse`, `\o`, `SubSeq`
and the removal of one place leave of the elements, and that a finite set of
numbers can be ranked (`Ranked`), so that the rows of a query are exactly the
set it selects.

The second part composes the two. From `MessageJob_proofs` it takes
`Reception` (types, one live job, `Interval`, and that what is in hand was
received) and what a step hands to the outside: the database grows by a list
that is then unreported (`StoredGrows`), and what is unreported stays so until
the step whose event has it in its interval (`ReportedOrNot`). From the
screen's side comes `StillAwaited`: no step of the screen, between the event in
`postDelay` and the last row of the query, drops a stored message that is
awaited. `Looked` joins them into `StoredIsSeen`, under the two conditions that
the property names: no job was stopped, and the packets received are in order.

**`VideoUpload_proofs`**, for any set of videos:

| Theorem | States |
|---|---|
| `TypeCorrect` | `Spec => []TypeOK` |
| `StartAlwaysComes` | `Spec => []StartComes` |
| `DoingAlwaysEnds` | `Spec => []DoingEnds` |
| `SuccessStays` | `Spec => SuccessIsKept` |

`StartComes` is inductive with the types. The other two need `IInv`, which
was first checked by TLC. A timer that has fired removes whatever entry the
map has, also that of the next upload's timer, which can then not be cancelled
any more; that it never fails a video already sent rests on the file: the
first timer deleted it when it read the row, and an upload without the file
does not succeed. So `IInv` says, for a video whose upload can still succeed
(`Uploadable`), that the cover's timer is off and the video's own is the one
in the map; and for one that was handed on, that neither can still write.
`DoingInv` says that each video being done, unless it was dropped, has a step or
a timer left that goes on with it; `QueueInv`, that a video waits once.

**`LiveComment_proofs`**, for any comments and coroutines:

| Theorem | States |
|---|---|
| `TypeCorrect` | `Spec => []TypeOK` |
| `NoSecondRow` | `Spec => []OneRow` |
| `StatusIsTrue` | `Spec => []StatusTrue` |
| `RegisteredIsShown` | `Spec => []RegisteredShown` |
| `SentAreShown` | `Spec => []SentIsShown` |
| `AnswerAppears` | `Spec => []AnswerShown` |

An index is computed before the switch to the main thread. What makes it right
afterwards is that only `messageEventJob` is not cancelled (`OneLive`), and that
the block of a cancelled coroutine, the only place that changes rows, never
runs: between `Find` and `Mark` of the live coroutine nobody adds a row
(`IndexTrue`). `EventsTrue` says that an event, wherever it waits, tells what
has happened, and `Fresh` that a live coroutine about to add a row has a uuid
that has none yet, unless an `add()` was overwritten. `SentIsShown` and
`AnswerShown` need more: until the first coroutine is cancelled no `add()` is
overwritten and no row lost (`Calm`), and an answer whose timer has not fired
waits, is in a coroutine's hands or is what the row says, from the moment it is
posted (`Answered`).

**`LiveScreen_proofs`**, first part (`GiftQueue`), for any gifts, weights and
order of the callbacks:

| Theorem | States |
|---|---|
| `TypeCorrect` | `Spec => []TypeOK` |
| `AlwaysAttended` | `Spec => []Attended` |
| `AlwaysTakenByCard` | `Spec => []TakenByCard` |
| `AlwaysOneEffect` | `Spec => []OneEffect` |
| `AlwaysByWeight` | `Spec => []ByWeight` |

`IInv` adds `OneEffect` and `Fresh`: a gift that waits stands once in the list
and is neither in the decoder nor on a card, and one in the decoder has no
card, so a card that overwrites a job leaves no other container with its gift.
`ByWeight` follows from `InOrder`, which orders any two gifts that wait by
weight and, where that is equal, by the order of coming: putting a gift before
the first lighter one keeps the order, and so does taking one out of the middle
(`LongerOrdered`, `ShorterOrdered`).

**`LiveScreen_proofs`**, second part (`LiveWith`), for any viewers, any limit of
the call and any events, lost or late:

| Theorem | States |
|---|---|
| `CallTypeCorrect` | `CallSpec => []CallTypeOK` |
| `AlwaysWindowsInOrder` | `CallSpec => []WindowsInOrder` |
| `AlwaysScreenIsCurrent` | `CallSpec => []ScreenIsCurrent` |
| `AlwaysShownIsSending` | `CallSpec => []ShownIsSending` |
| `AlwaysSendingIsFlagged` | `CallSpec => []SendingIsFlagged` |

The first four are what `live_with` checks. The last is what remains of
`HungUpIsAudience`, which the code violates: a viewer may send without being on
the call, but never without the flag that `hungUpLiveWithUI` asks for before it
turns camera and microphone off.

None of these is inductive alone. That hanging somebody up takes one window
away, the right one, needs that nobody is in two windows and that nobody is in
a window who is not in the list (`Tidy`, part of `Sound`): this holds whatever
is late. That the next user's picture then goes to the window of that user's
number needs that the number of uids is the number of users: `Pictured` says
that everybody in the list has a picture and stands at the own place, and holds
until a list is applied too late. `Waiting` says when a list is not late: if
nothing was handled since it was put aside, those in it are those on the call
and the flag is still set, so its viewer gets a picture and sends. `Joining`
covers the first list. Together they are `ScreenIInv`, which TLC found to hold
on the instance of `live_with` before it was proved.

Each operation on the screen has one lemma that says what it does to a sound
screen: `HungUpFacts`, `TakeFacts`, and over a whole list `CheckFacts`
(`checkMicrophoneUser`) and `ControllerFacts` (`liveUIController`). The two
loops are recursive functions, and a `CHOOSE` says nothing of a function that
does not exist; so `Walk` shows that a walk along a list has its function as
long as what the steps need is handed on from each to the next, and `Along` that
what is handed on holds at the end. Under them are `UserLeaves`, `WindowLeaves`,
`UserComes`, `WindowComes`, `OwnWindow` and `RemoteWindow` on the lists of users
and windows, which rest on the same lemmas about longer and shorter lists as
the gifts do. `WindowsInOrder` is stated for `MaxCall <= 9`, as the layouts of
`userAndLayout` end there and the server's limit is not in this repository; the
others hold for every limit.

**`Invitation_proofs`**, for any invitations:

| Theorem | States |
|---|---|
| `TypeCorrect` | `Spec => []TypeOK` |
| `AlwaysAttended` | `Spec => []Attended` |
| `AlwaysAnswered` | `Spec => []GoneIsAnswered` |
| `TimeHidesOwnAlways` | `Spec => TimeHidesOwn` |
| `AgreedStandsAlways` | `Spec => AgreedStands` |

`Attended` (each count-down is the one the field holds; an open dialog is the
field's and has one) gives `TimeHidesOwn`. That a confirmed answer was asked for
gives `GoneIsAnswered`; that the flag it sets is still there when the dialog has
slid out gives `AgreedStands`, as all that declines is a dialog without the flag
and the viewer's own touch.

**`UrlSign_proofs`**, for any threads, requests and certificates, under
`OneVariant` (the methods of one build agree on the cells they share):

| Theorem | States |
|---|---|
| `TypeCorrect` | `Spec => []TypeOK` |
| `AlwaysAsIfAlone` | `Spec => []AsIfAlone` |
| `AlwaysOrderIsIrrelevant` | `Spec => []OrderIsIrrelevant` |

Only the owner of the monitor is inside (`Exclusive`); a cell is empty, being
filled, or has the content that every method using it expects (`CellsTrue`);
and what the thread inside has read so far, from cells and from the static
buffers, is its own (`Good`). That the order of the hash map does not matter
is a fact about sorting: `encodeParams` takes an arrangement of the parameters
that is in order; there is one for any finite number of them (`SortExists`, by
the least counterexample), and only one when the names differ (`OneOrder`), so
two orders of the same parameters are encoded the same (`SameSort`).

What stays with TLC: the liveness properties (`SpinnerSettles`, `QueueDrains`,
`UnreadEnds`, `Settled`, `CommentSettles`, `GiftComes`, `InviteAnswered`,
`CallsReturn`), which rest on fairness, out of the prover's reach. Every other
property of a passing run is also a theorem. `HungUpIsAudience` and
`NothingHeldBack` are violated, and there is nothing to prove. No module uses
`RECURSIVE`.

## 5. How to run

    tlc -config MCDmSend_all.cfg MCDmSend        # and so for each MC….cfg
    tlapm DmSend_proofs.tla                      # and so for each …_proofs.tla

## 6. Plan

Written so far, beyond the first core: `LiveComment`, `GiftQueue`, `Invitation`,
`UrlSign`, and `Inbox` with its refinement. Left, in the order in which it
should be done:

1. `ConversationSync`: the list of conversations, the details of one and the
   columns the decomposer writes meet in one table, whose key is generated.
2. `DmSocket`: the resume token, `pullUnread`; composed with `MessageJob`: what
   was thrown away by a `clear()` and is older than the token is never pulled
   again.
3. `LiveSocket` (retry after release), the host's waiting box, raised hands.
4. Pictures, as `VideoUpload` without queues.

To keep the number of runs small, a new component has one passing run with all
its properties.

## 7. What is not modelled, and why

* Purchases and diamonds, account and login, home and events: single requests
  and forms; what they share with others (logout) is an action of `VideoUpload`.
* Live SDK: a thin layer over the Agora engine, whose behaviour is not here.
* HTTP interface, database declarations, message composition: declarations and
  field-by-field construction; how a request ends (`safeApiCall`) and what the
  queries return are part of the modules that use them.
* Adapters, dialogs, views, web view: presentation.
* `framework-core`, `framework-rest`: libraries of the vendor's; the request
  signing is modelled, the rest is not called by the parts modelled. BoringSSL,
  copied into `framework-rest/libraries`, is by far the largest body of code in
  the repository, and a project of its own: the application uses two digests of
  it, of which `UrlSign` keeps the one thing that matters to their caller, the
  static buffer they answer in.
* `picture_library`, `ucrop`, `wheelview`: copied.
* Within the components modelled, what each module leaves out is said in
  section 2 and in the notes of `PROJECT.json`.
