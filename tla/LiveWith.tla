------------------------------- MODULE LiveWith -------------------------------
(***************************************************************************)
(* A viewer of a live who is taken up on the call and put off it again:    *)
(* LiveAudienceActivity and the part of LiveBaseActivity it uses.  The     *)
(* server tells who is on the call in events; the viewer's phone keeps the *)
(* list of those users, a window for each of them, the flag that says      *)
(* whether the viewer is one of them, and the state of camera, microphone  *)
(* and role at the RTC engine.                                             *)
(*                                                                         *)
(* When the viewer is agreed to, the phone first asks for the permissions, *)
(* and applies the list of that event when they are granted.  The answer   *)
(* comes from another screen, and further events are handled before it.    *)
(***************************************************************************)
EXTENDS Integers, FiniteSets, Sequences, SequencesExt

CONSTANTS Host,        \* the user who gives the live, first of every list
          Me,          \* the viewer on whose phone the code runs
          Other,       \* the other viewers
          NoList,      \* no list waits for the permissions
          Empty,       \* a window that shows nobody
          MaxCall,     \* so many the server takes up at most, with the host
          MaxDelayed   \* bound: events under way at the same time

ASSUME LiveWithAssumption ==
    /\ Host # Me /\ {Host, Me} \cap Other = {}
    /\ Empty \notin Other \cup {Host, Me}
    /\ NoList \notin Seq(Other \cup {Host, Me})
    /\ MaxCall \in Nat \ {0} /\ MaxDelayed \in Nat \ {0}

Guest == Other \cup {Me}
User == Guest \cup {Host}

VARIABLES
    call,      \* the server's list of those on the call
    delayed,   \* events posted with a delay of one second, not yet handled
    stage,     \* "joining", "live" or "ended"
    ui,        \* what the phone shows and does, see CallTypeOK
    asked,     \* the list that waits for the permissions, or NoList
    stale,     \* history: an event was handled since that list was put aside
    late,      \* history: a list was applied although it was stale
    current,   \* history: the last list received has been applied as it came
    known      \* history: those on the call according to the events handled

callVars == <<call, delayed, stage, ui, asked, stale, late, current, known>>

\* Lists of users on the call: the host first, nobody twice.
UserList == {s \in Seq(User) : s # <<>> /\ s[1] = Host /\ IsInjective(s)}
CallList == {s \in UserList : Len(s) <= MaxCall}

AgreeEvent == [type : {"agree"}, list : CallList]
LeaveEvent == [type : {"hangUp", "cancel"}, target : Guest]

\* A list without u, who stands in it once at most.
Removed(s, u) ==
    IF u \in Range(s) THEN RemoveAt(s, CHOOSE i \in DOMAIN s : s[i] = u) ELSE s

-----------------------------------------------------------------------------
(* The windows                                                             *)

\* userAndLayout: so many windows for so many users.
needLayoutCount(n) ==
    CASE n = 2 -> 2
      [] n \in 3..4 -> 4
      [] n \in 5..6 -> 6
      [] n \in 7..9 -> 9
      [] OTHER -> 1

\* Windows are taken away or added at the end.
userAndLayout(windows, n) ==
    [i \in 1..needLayoutCount(n) |-> IF i <= Len(windows) THEN windows[i] ELSE Empty]

PlaceAtEnd(windows, n) ==   \* faulty: always a further window
    Append(windows, Me)

\* The viewer's own picture gets a window in the place of the last one where the
\* layout already has one for it, and a further one otherwise.
PlaceLocalVideo(windows, n) ==
    IF n \in {4, 6, 8, 9} THEN InsertAt(Front(windows), n, Me) ELSE Append(windows, Me)

\* Another user's picture goes to the window whose number is the number of
\* users with a picture, unless the user has one.
setRemoteVideoView(s, u) ==
    LET added == s.addedUidSet \cup {u}
        n == Cardinality(added)
    IN  IF u \in s.addedUidSet THEN s
        ELSE [s EXCEPT !.addedUidSet = added,
                       !.liveContainers = IF n <= Len(@) THEN [@ EXCEPT ![n] = u] ELSE @]

-----------------------------------------------------------------------------
(* Taking users up and off                                                 *)

\* A user comes on the call.  While the flag is set every such user turns the
\* viewer's camera and microphone on.
liveWithController(s, u) ==
    LET n == Len(s.liveUserWithUids)
        mine == s.isMicrophoneUser /\ u = Me
        windows == IF mine THEN PlaceLocalVideo(s.liveContainers, n) ELSE s.liveContainers
        laidOut == [s EXCEPT !.addedUidSet = IF mine THEN @ \cup {Me} ELSE @,
                             !.liveContainers = userAndLayout(windows, n),
                             !.broadcasting = @ \/ s.isMicrophoneUser]
    IN  IF u = Me THEN laidOut ELSE setRemoteVideoView(laidOut, u)

HungUpWhoever(s, u) ==   \* faulty: anybody's hang-up counts as the viewer's own
    LET users == Removed(s.liveUserWithUids, u)
        windows == Removed(s.liveContainers, u)
    IN  [liveUserWithUids |-> users,
         addedUidSet      |-> s.addedUidSet \ {u},
         liveContainers   |-> userAndLayout(windows, Len(users)),
         isMicrophoneUser |-> FALSE,
         broadcasting     |-> FALSE]

HungUpKeepsUid(s, u) ==   \* faulty: the uid is not forgotten
    LET users == Removed(s.liveUserWithUids, u)
        windows == Removed(s.liveContainers, u)
    IN  [s EXCEPT !.liveUserWithUids = users,
                  !.liveContainers = userAndLayout(windows, Len(users))]

\* A user leaves the call.
hungUpLiveWithUI(s, u) ==
    LET users == Removed(s.liveUserWithUids, u)
        mine == s.isMicrophoneUser /\ u = Me
        windows == Removed(s.liveContainers, u)
    IN  [liveUserWithUids |-> users,
         addedUidSet      |-> s.addedUidSet \ {u},
         liveContainers   |-> userAndLayout(windows, Len(users)),
         isMicrophoneUser |-> s.isMicrophoneUser /\ ~mine,
         broadcasting     |-> s.broadcasting /\ ~mine]

CheckNobody(s, list) == s   \* faulty: nobody is taken off

\* One of those on the screen leaves unless the list has the user.
Stay(s, u, list) == IF u \in Range(list) THEN s ELSE hungUpLiveWithUI(s, u)

\* Those on the screen who are not in the list leave.
checkMicrophoneUser(s, list) ==
    LET users == s.liveUserWithUids
        after[i \in 0..Len(users)] ==
            IF i = 0 THEN s ELSE Stay(after[i - 1], users[i], list)
    IN  after[Len(users)]

Take(s, u) ==
    IF u \in Range(s.liveUserWithUids) THEN s
    ELSE liveWithController([s EXCEPT !.liveUserWithUids = Append(@, u)], u)

\* The screen is brought to a list: first those who left, then those who came.
liveUIController(s, list) ==
    LET after[i \in 0..Len(list)] ==
            IF i = 0 THEN checkMicrophoneUser(s, list) ELSE Take(after[i - 1], list[i])
    IN  after[Len(list)]

-----------------------------------------------------------------------------
(* The server, and the way of its events to the phone                      *)

CallInit ==
    /\ call = <<Host>>
    /\ delayed = <<>>
    /\ stage = "joining"
    /\ ui = [liveUserWithUids |-> <<>>, liveContainers |-> <<>>, addedUidSet |-> {},
             isMicrophoneUser |-> FALSE, broadcasting |-> FALSE]
    /\ asked = NoList
    /\ stale = FALSE /\ late = FALSE /\ current = TRUE
    /\ known = {}

\* An event is posted with a delay, or lost because the socket is not connected,
\* which it is only after the viewer has joined.
Send(e) ==
    \/ /\ stage = "live" /\ Len(delayed) < MaxDelayed
       /\ delayed' = Append(delayed, e)
    \/ UNCHANGED delayed

\* The host and a viewer agree.
live_with_agree(u) ==
    /\ stage # "ended" /\ u \notin Range(call) /\ Len(call) < MaxCall
    /\ call' = Append(call, u)
    /\ Send([type |-> "agree", list |-> call'])
    /\ UNCHANGED <<stage, ui, asked, stale, late, current, known>>

\* A viewer is hung up, by the host, on one's own wish or for having gone.
live_with_hang_up(u) ==
    /\ stage # "ended" /\ u \in Range(call)
    /\ call' = Removed(call, u)
    /\ Send([type |-> "hangUp", target |-> u])
    /\ UNCHANGED <<stage, ui, asked, stale, late, current, known>>

\* What was agreed or offered is taken back.
live_with_cancel(u) ==
    /\ stage # "ended"
    /\ call' = Removed(call, u)
    /\ Send([type |-> "cancel", target |-> u])
    /\ UNCHANGED <<stage, ui, asked, stale, late, current, known>>

-----------------------------------------------------------------------------
(* The phone                                                               *)

\* The viewer has joined: the list of the answer is shown.  A viewer whom the
\* server still counts among those on the call is on it without being asked.
LiveStart ==
    /\ stage = "joining"
    /\ stage' = "live"
    /\ ui' = liveUIController([ui EXCEPT !.isMicrophoneUser = Len(call) > 1 /\ Me \in Range(call)],
                              call)
    /\ known' = Range(call)
    /\ UNCHANGED <<call, delayed, asked, stale, late, current>>

\* The live has ended.  This event is posted without a delay.
showLeavePrompt ==
    /\ stage # "ended"
    /\ stage' = "ended"
    /\ ui' = [ui EXCEPT !.isMicrophoneUser = FALSE, !.broadcasting = FALSE]
    /\ stale' = (asked # NoList)
    /\ known' = {}
    /\ UNCHANGED <<call, delayed, asked, late, current>>

Handle(type) ==
    /\ delayed # <<>> /\ Head(delayed).type = type
    /\ delayed' = Tail(delayed)
    /\ stale' = (asked # NoList)
    /\ UNCHANGED <<call, stage, late>>

\* A viewer agreed to who is not on the call: the flag is set and the list waits
\* for the permissions.  A request while another is open comes to nothing.
AskPermission ==
    LET list == Head(delayed).list IN
    /\ delayed # <<>> /\ Head(delayed).type = "agree"
    /\ ~ui.isMicrophoneUser /\ Me \in Range(list)
    /\ delayed' = Tail(delayed)
    /\ ui' = [ui EXCEPT !.isMicrophoneUser = TRUE]
    /\ asked' = IF asked = NoList THEN list ELSE asked
    /\ stale' = (asked # NoList)
    /\ current' = FALSE
    /\ known' = Range(list)
    /\ UNCHANGED <<call, stage, late>>

\* Any other agreement is shown at once.
LiveWithAgreeEvent ==
    LET list == Head(delayed).list IN
    /\ Handle("agree")
    /\ ui.isMicrophoneUser \/ Me \notin Range(list)
    /\ ui' = liveUIController(ui, list)
    /\ current' = TRUE
    /\ known' = Range(list)
    /\ UNCHANGED asked

LiveWithHangupEvent ==
    LET u == Head(delayed).target IN
    /\ Handle("hangUp")
    /\ ui' = IF u \in Range(ui.liveUserWithUids) THEN hungUpLiveWithUI(ui, u) ELSE ui
    /\ known' = known \ {u}
    /\ UNCHANGED <<asked, current>>

LiveWithCancelEvent ==
    LET u == Head(delayed).target IN
    /\ Handle("cancel")
    /\ ui' = IF u \in Range(ui.liveUserWithUids) THEN hungUpLiveWithUI(ui, u)
             ELSE IF u = Me THEN [ui EXCEPT !.broadcasting = FALSE] ELSE ui
    /\ known' = known \ {u}
    /\ UNCHANGED <<asked, current>>

\* The permissions are granted and the list that has waited is shown.
PermissionGranted ==
    /\ asked # NoList
    /\ ui' = liveUIController(ui, asked)
    /\ asked' = NoList
    /\ stale' = FALSE
    /\ late' = (late \/ stale)
    /\ current' = ~stale
    /\ UNCHANGED <<call, delayed, stage, known>>

\* The permissions are refused: the server is asked to hang up, nothing else.
PermissionRefused ==
    /\ asked # NoList
    /\ asked' = NoList
    /\ stale' = FALSE
    /\ current' = FALSE
    /\ UNCHANGED <<call, delayed, stage, ui, late, known>>

CallNext ==
    \/ \E u \in Guest : live_with_agree(u) \/ live_with_hang_up(u) \/ live_with_cancel(u)
    \/ LiveStart \/ showLeavePrompt
    \/ AskPermission \/ LiveWithAgreeEvent \/ LiveWithHangupEvent \/ LiveWithCancelEvent
    \/ PermissionGranted \/ PermissionRefused

CallSpec == CallInit /\ [][CallNext]_callVars

-----------------------------------------------------------------------------
(* Properties                                                              *)

\* The values the variables take: never more windows than the layout has, a
\* picture for nobody who is not in the list of users, no user twice.
CallTypeOK ==
    /\ call \in CallList
    /\ delayed \in Seq(AgreeEvent \cup LeaveEvent) /\ Len(delayed) <= MaxDelayed
    /\ stage \in {"joining", "live", "ended"}
    /\ ui.liveUserWithUids \in CallList \cup {<<>>}
    /\ ui.liveContainers \in Seq(User \cup {Empty})
    /\ \/ ui.liveUserWithUids = <<>>
       \/ Len(ui.liveContainers) = needLayoutCount(Len(ui.liveUserWithUids))
    /\ ui.addedUidSet \subseteq Range(ui.liveUserWithUids)
    /\ ui.isMicrophoneUser \in BOOLEAN /\ ui.broadcasting \in BOOLEAN
    /\ asked \in CallList \cup {NoList}
    /\ stale \in BOOLEAN /\ late \in BOOLEAN /\ current \in BOOLEAN
    /\ known \subseteq User

\* Window number i shows user number i: a mute event finds the user's window by the
\* number of the user.  Only a list applied too late can undo this, or a call of
\* more than nine, for which userAndLayout has no layout
\* (LiveAudienceActivity, PublisherStateEvent and setRemoteVideoView).
WindowsInOrder ==
    ~late /\ MaxCall <= 9 =>
        \A i \in 1..Len(ui.liveContainers) :
            ui.liveContainers[i] = IF i <= Len(ui.liveUserWithUids)
                                   THEN ui.liveUserWithUids[i] ELSE Empty

\* The screen shows exactly those who are on the call according to the events
\* handled, whatever events were lost, once the last list has been applied
\* (liveUIController heals what a lost event left behind).
ScreenIsCurrent ==
    stage = "live" /\ current => Range(ui.liveUserWithUids) = known

\* A viewer who sees an own window among those on the call is sending, and the
\* phone knows it, whatever others came and went (liveWithController,
\* hungUpLiveWithUI).
ShownIsSending ==
    stage = "live" /\ ~late /\ Me \in Range(ui.liveUserWithUids) =>
        ui.isMicrophoneUser /\ ui.broadcasting

\* "Hang up the call ... set to the audience role" (hungUpLiveWithUI): a viewer who
\* is not on the call by the events handled does not send.
HungUpIsAudience == ui.broadcasting => Me \in known

\* The phone never sends without its flag, which hungUpLiveWithUI asks for before it
\* turns camera and microphone off, however late a list was applied
\* (liveWithController, hungUpLiveWithUI, showLeavePrompt).
SendingIsFlagged == ui.broadcasting => ui.isMicrophoneUser

=============================================================================
