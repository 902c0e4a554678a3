------------------------------ MODULE Invitation ------------------------------
(***************************************************************************)
(* A viewer who is invited to join the call of a live                      *)
(* (LiveInteractionFragment, GoLiveWithInviteDialog).  The invitation is   *)
(* shown in a dialog and counted down by a coroutine, which closes the     *)
(* dialog when its time is over.  The viewer accepts, for which the phone  *)
(* first asks for the permissions, declines, or goes back.  A dialog that  *)
(* closes before an answer has been confirmed declines by itself.          *)
(*                                                                         *)
(* The dialog, its requests' answers and the events run on the main        *)
(* thread, the count-down on a thread of its own.  An event is posted with *)
(* a delay and may come at any time, so also after the live has ended.     *)
(* What the same events do to the raised hand is left out.                 *)
(***************************************************************************)
CONSTANTS
    Invite,     \* invitations for which a dialog is shown
    None        \* null

ASSUME InviteAssumption == None \notin Invite

VARIABLES
    phase,          \* phase[i]: the dialog of i, "closing" while it slides out
    goWithInviteDialog,
    goLiveWithJob,
    countDown,      \* countDown[i]: the coroutine of i; "none" also when it
                    \* has ended or was cancelled
    isAgreed,       \* dialogs whose agreement, or refusal, the server
    isRefused,      \* has confirmed
    underWay,       \* questions not answered yet: to the system for the
                    \* permissions, to the server otherwise
    asked           \* history: what the server was asked, for each dialog

dialogs == <<phase, goWithInviteDialog, isAgreed, isRefused>>
jobs == <<goLiveWithJob, countDown>>
requests == <<underWay, asked>>
vars == <<dialogs, jobs, requests>>

Answer == {"agree", "decline"}

TypeOK ==
    /\ phase \in [Invite -> {"none", "shown", "closing", "gone"}]
    /\ goWithInviteDialog \in Invite \cup {None}
    /\ isAgreed \subseteq Invite
    /\ isRefused \subseteq Invite
    /\ goLiveWithJob \in Invite \cup {None}
    /\ countDown \in [Invite -> {"none", "counting", "due"}]
    /\ underWay \subseteq Invite \X (Answer \cup {"permission"})
    /\ asked \in [Invite -> SUBSET Answer]

Init ==
    /\ phase = [i \in Invite |-> "none"]
    /\ goWithInviteDialog = None
    /\ isAgreed = {}
    /\ isRefused = {}
    /\ goLiveWithJob = None
    /\ countDown = [i \in Invite |-> "none"]
    /\ underWay = {}
    /\ asked = [i \in Invite |-> {}]

-----------------------------------------------------------------------------
(* The invitation and its time                                             *)

\* XPopup: a dialog counts as shown until it has slid out.
isShow(i) == i # None /\ phase[i] \in {"shown", "closing"}

\* XPopup: a dialog that is sliding out or gone is not dismissed again.
dismiss(i) ==
    phase' = IF phase[i] = "shown" THEN [phase EXCEPT ![i] = "closing"] ELSE phase

\* A coroutine that was cancelled does nothing more, not even what it has
\* already sent to the main thread.
Without(ended) ==
    [i \in Invite |-> IF i \in ended THEN "none" ELSE countDown[i]]

\* Faulty variant: the count-down of the dialog before goes on.
InviteUncancelled(i) ==
    /\ phase[i] = "none"
    /\ ~isShow(goWithInviteDialog)
    /\ phase' = [phase EXCEPT ![i] = "shown"]
    /\ goWithInviteDialog' = i
    /\ goLiveWithJob' = i
    /\ countDown' = [countDown EXCEPT ![i] = "counting"]
    /\ UNCHANGED <<isAgreed, isRefused, requests>>

\* showLiveWithInvite().  An invitation that comes while a dialog is on the
\* screen is ignored and changes nothing.
showLiveWithInvite(i) ==
    /\ phase[i] = "none"
    /\ ~isShow(goWithInviteDialog)
    /\ phase' = [phase EXCEPT ![i] = "shown"]
    /\ goWithInviteDialog' = i
    /\ goLiveWithJob' = i
    /\ countDown' = [Without({goLiveWithJob}) EXCEPT ![i] = "counting"]
    /\ UNCHANGED <<isAgreed, isRefused, requests>>

\* hideLiveWithInvite(), called by the coroutines in `by`, which end with it.
hideLiveWithInvite(by) ==
    /\ IF isShow(goWithInviteDialog) THEN dismiss(goWithInviteDialog)
                                     ELSE UNCHANGED phase
    /\ countDown' = Without(by \cup {goLiveWithJob})
    /\ goLiveWithJob' = None
    /\ UNCHANGED <<goWithInviteDialog, isAgreed, isRefused, requests>>

\* The loop of the coroutine ends; it waits for the main thread.
CountDownEnds(i) ==
    /\ countDown[i] = "counting"
    /\ countDown' = [countDown EXCEPT ![i] = "due"]
    /\ UNCHANGED <<goLiveWithJob, dialogs, requests>>

TimeIsOver(i) ==
    /\ countDown[i] = "due"
    /\ hideLiveWithInvite({i})

\* The host takes the invitation back.
LiveWithCancelEvent == hideLiveWithInvite({})

\* The live ends.
showLeavePrompt == hideLiveWithInvite({})

-----------------------------------------------------------------------------
(* The dialog                                                              *)

Ask(i, answer) ==
    /\ underWay' = underWay \cup {<<i, answer>>}
    /\ asked' = [asked EXCEPT ![i] = @ \cup {answer}]

\* The buttons' listeners have no guard: a dialog that slides out has its
\* buttons still, and XPopup is taken to let them be touched.  For a locked
\* live btnAccept only closes the dialog (GoBack).
Accept(i) ==
    /\ isShow(i)
    /\ underWay' = underWay \cup {<<i, "permission">>}
    /\ UNCHANGED <<asked, dialogs, jobs>>

\* The permissions are asked for on another screen, and the answer is used
\* whatever has become of the dialog.
PermissionGranted(i) ==
    /\ <<i, "permission">> \in underWay
    /\ underWay' = (underWay \ {<<i, "permission">>}) \cup {<<i, "agree">>}
    /\ asked' = [asked EXCEPT ![i] = @ \cup {"agree"}]
    /\ UNCHANGED <<dialogs, jobs>>

PermissionDenied(i) ==
    /\ <<i, "permission">> \in underWay
    /\ underWay' = underWay \ {<<i, "permission">>}
    /\ UNCHANGED <<asked, dialogs, jobs>>

Decline(i) ==
    /\ isShow(i)
    /\ Ask(i, "decline")
    /\ UNCHANGED <<dialogs, jobs>>

\* The viewer drags the dialog away or touches beside it; also the branch of
\* btnAccept for a locked live.
GoBack(i) ==
    /\ phase[i] = "shown"
    /\ dismiss(i)
    /\ UNCHANGED <<goWithInviteDialog, isAgreed, isRefused, jobs, requests>>

\* The server confirms and the dialog observes it: at the latest while it
\* slides out, as a dialog that is gone observes nothing.
Confirmed(i, answer) ==
    /\ <<i, answer>> \in underWay
    /\ phase[i] \in {"shown", "closing"}
    /\ IF answer = "agree" THEN /\ isAgreed' = isAgreed \cup {i}
                                /\ UNCHANGED isRefused
                           ELSE /\ isRefused' = isRefused \cup {i}
                                /\ UNCHANGED isAgreed
    /\ dismiss(i)
    /\ underWay' = underWay \ {<<i, answer>>}
    /\ UNCHANGED <<asked, goWithInviteDialog, jobs>>

\* The request fails, or its answer finds no dialog that observes it.
Unobserved(i, answer) ==
    /\ <<i, answer>> \in underWay
    /\ underWay' = underWay \ {<<i, answer>>}
    /\ UNCHANGED <<asked, dialogs, jobs>>

\* Faulty variant: the dialog declines unless both answers were confirmed.
DismissUnlessBoth(i) ==
    /\ phase[i] = "closing"
    /\ phase' = [phase EXCEPT ![i] = "gone"]
    /\ IF i \notin isRefused \/ i \notin isAgreed THEN Ask(i, "decline")
                                                  ELSE UNCHANGED requests
    /\ UNCHANGED <<goWithInviteDialog, isAgreed, isRefused, jobs>>

\* Faulty variant: the dialog goes without a word.
DismissSilently(i) ==
    /\ phase[i] = "closing"
    /\ phase' = [phase EXCEPT ![i] = "gone"]
    /\ UNCHANGED <<goWithInviteDialog, isAgreed, isRefused, jobs, requests>>

onDismiss(i) ==
    /\ phase[i] = "closing"
    /\ phase' = [phase EXCEPT ![i] = "gone"]
    /\ IF i \notin isRefused /\ i \notin isAgreed THEN Ask(i, "decline")
                                                  ELSE UNCHANGED requests
    /\ UNCHANGED <<goWithInviteDialog, isAgreed, isRefused, jobs>>

-----------------------------------------------------------------------------

Next ==
    \/ LiveWithCancelEvent
    \/ showLeavePrompt
    \/ \E i \in Invite :
          \/ showLiveWithInvite(i)
          \/ CountDownEnds(i)
          \/ TimeIsOver(i)
          \/ Accept(i)
          \/ PermissionGranted(i)
          \/ PermissionDenied(i)
          \/ Decline(i)
          \/ GoBack(i)
          \/ \E answer \in Answer : Confirmed(i, answer) \/ Unobserved(i, answer)
          \/ onDismiss(i)

\* Coroutines get on and a dialog that slides out is gone in the end; nothing
\* is asked of the viewer, the server or the host.
Fairness ==
    \A i \in Invite : /\ WF_vars(CountDownEnds(i))
                      /\ WF_vars(TimeIsOver(i))
                      /\ WF_vars(onDismiss(i))

Spec == Init /\ [][Next]_vars /\ Fairness

-----------------------------------------------------------------------------
(* Properties                                                              *)

\* Every count-down under way is the one that goLiveWithJob holds, and a dialog
\* that is not yet closing has it (the job is cancelled before another starts,
\* and hidden dialog and cancelled job go together).
Attended ==
    /\ \A i \in Invite : countDown[i] # "none" => i = goLiveWithJob
    /\ \A i \in Invite :
          phase[i] = "shown" => /\ i = goWithInviteDialog
                                /\ countDown[i] # "none"

\* A dialog that is gone has answered: nothing that closes it, neither the time
\* nor the host nor the viewer going back, leaves the server without an answer.
GoneIsAnswered ==
    \A i \in Invite : phase[i] = "gone" => asked[i] # {}

\* The count-down of one dialog never closes another, later one, although it is
\* not stopped when the viewer closes the dialog it was started for.
TimeHidesOwn ==
    [][\A i, j \in Invite :
          countDown[i] = "due" /\ TimeIsOver(i) /\ phase[j] # phase'[j] => i = j]_vars

\* An agreement that the dialog has seen confirmed is not declined behind the
\* viewer's back: what is asked when the dialog closes never contradicts it.
\* Only a touch of the viewer's, on a dialog that is still sliding out, does.
AgreedStands ==
    [][\A i \in Invite :
          i \in isAgreed /\ "decline" \in asked'[i] \ asked[i] => Decline(i)]_vars

\* Every invitation that is shown is answered in the end, also by a viewer who
\* does nothing and by a server that never answers.
InviteAnswered ==
    \A i \in Invite : phase[i] = "shown" ~> asked[i] # {}
=============================================================================
