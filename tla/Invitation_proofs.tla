-------------------------- MODULE Invitation_proofs --------------------------
(***************************************************************************)
(* Invitation, proved for any invitations.  The inductive invariant adds   *)
(* to Attended what the history and the two flags have to do with each     *)
(* other: a request under way was sent, a confirmed answer was asked for,  *)
(* and its dialog is no longer shown as open.                              *)
(***************************************************************************)
EXTENDS Invitation, TLAPS

Sent == \A i \in Invite, a \in Answer : <<i, a>> \in underWay => a \in asked[i]

Settled == /\ \A i \in isAgreed : "agree" \in asked[i]
           /\ \A i \in isRefused : "decline" \in asked[i]
           /\ \A i \in isAgreed \cup isRefused : phase[i] \in {"closing", "gone"}

IInv == TypeOK /\ Attended /\ Sent /\ Settled /\ GoneIsAnswered

-----------------------------------------------------------------------------
(* Type correctness of each action                                         *)

\* hideLiveWithInvite() keeps the types, whoever calls it.
LEMMA HideTypes ==
    ASSUME TypeOK, NEW by, hideLiveWithInvite(by) PROVE TypeOK'
<1>1. phase' \in [Invite -> {"none", "shown", "closing", "gone"}]
      BY DEF TypeOK, hideLiveWithInvite, isShow, dismiss
<1>2. countDown' \in [Invite -> {"none", "counting", "due"}] /\ goLiveWithJob' = None
      BY DEF TypeOK, hideLiveWithInvite, Without
<1>3. UNCHANGED <<goWithInviteDialog, isAgreed, isRefused, underWay, asked>>
      BY DEF hideLiveWithInvite, requests
<1> QED
      BY <1>1, <1>2, <1>3 DEF TypeOK

\* Every step keeps the types.
LEMMA TypesKept == ASSUME TypeOK, [Next]_vars PROVE TypeOK'
<1>1. CASE LiveWithCancelEvent \/ showLeavePrompt
      BY <1>1, HideTypes DEF LiveWithCancelEvent, showLeavePrompt
<1>2. ASSUME NEW i \in Invite, showLiveWithInvite(i) PROVE TypeOK'
      BY <1>2 DEF TypeOK, showLiveWithInvite, Without, requests
<1>3. ASSUME NEW i \in Invite, CountDownEnds(i) PROVE TypeOK'
      BY <1>3 DEF TypeOK, CountDownEnds, dialogs, requests
<1>4. ASSUME NEW i \in Invite, TimeIsOver(i) PROVE TypeOK'
      BY <1>4, HideTypes DEF TimeIsOver
<1>5. ASSUME NEW i \in Invite,
             Accept(i) \/ PermissionGranted(i) \/ PermissionDenied(i) \/ Decline(i)
      PROVE TypeOK'
      BY <1>5 DEF TypeOK, Accept, PermissionGranted, PermissionDenied, Decline,
                  Ask, Answer, dialogs, jobs
<1>6. ASSUME NEW i \in Invite, GoBack(i) PROVE TypeOK'
      BY <1>6 DEF TypeOK, GoBack, dismiss, jobs, requests
<1>7. ASSUME NEW i \in Invite, NEW a \in Answer, Confirmed(i, a) PROVE TypeOK'
      BY <1>7 DEF TypeOK, Confirmed, dismiss, jobs
<1>8. ASSUME NEW i \in Invite, NEW a \in Answer, Unobserved(i, a) PROVE TypeOK'
      BY <1>8 DEF TypeOK, Unobserved, dialogs, jobs
<1>9. ASSUME NEW i \in Invite, onDismiss(i) PROVE TypeOK'
      BY <1>9 DEF TypeOK, onDismiss, Ask, Answer, jobs, requests
<1>10. CASE UNCHANGED vars
      BY <1>10 DEF TypeOK, vars, dialogs, jobs, requests
<1> QED
      BY <1>1, <1>2, <1>3, <1>4, <1>5, <1>6, <1>7, <1>8, <1>9, <1>10 DEF Next

-----------------------------------------------------------------------------
(* The inductive invariant                                                 *)

\* hideLiveWithInvite() keeps the invariant when no other coroutine calls it
\* than the one that goLiveWithJob holds: no count-down is left, and no dialog
\* is shown.
LEMMA HideKeeps ==
    ASSUME IInv, NEW by, hideLiveWithInvite(by) PROVE IInv'
<1>1. TypeOK'
      BY HideTypes DEF IInv
<1>2. \A i \in Invite : phase'[i] = phase[i] \/ (phase[i] = "shown" /\ phase'[i] = "closing")
      BY DEF IInv, TypeOK, hideLiveWithInvite, isShow, dismiss
<1>3. \A i \in Invite : phase'[i] # "shown"
      BY InviteAssumption DEF IInv, TypeOK, Attended, hideLiveWithInvite, isShow, dismiss
<1>4. \A i \in Invite : countDown'[i] = "none"
      BY DEF IInv, TypeOK, Attended, hideLiveWithInvite, Without
<1>5. UNCHANGED <<isAgreed, isRefused, underWay, asked>>
      BY DEF hideLiveWithInvite, requests
<1>6. Attended'
      BY <1>3, <1>4 DEF Attended
<1>7. Sent'
      BY <1>5 DEF IInv, Sent
<1>8. Settled'
      BY <1>2, <1>5 DEF IInv, TypeOK, Settled
<1>9. GoneIsAnswered'
      BY <1>2, <1>5 DEF IInv, GoneIsAnswered
<1> QED
      BY <1>1, <1>6, <1>7, <1>8, <1>9 DEF IInv

\* A new dialog comes with its own count-down; there was no open one.
LEMMA ShowKeeps ==
    ASSUME IInv, NEW i \in Invite, showLiveWithInvite(i), TypeOK' PROVE IInv'
<1>1. \A j \in Invite : phase[j] # "shown"
      BY InviteAssumption DEF IInv, TypeOK, Attended, showLiveWithInvite, isShow
<1>2. \A j \in Invite : phase'[j] = IF j = i THEN "shown" ELSE phase[j]
      BY DEF IInv, TypeOK, showLiveWithInvite
<1>3. \A j \in Invite : countDown'[j] = IF j = i THEN "counting" ELSE "none"
      BY DEF IInv, TypeOK, Attended, showLiveWithInvite, Without
<1>4. Attended'
      BY <1>1, <1>2, <1>3 DEF Attended, showLiveWithInvite
<1>5. i \notin isAgreed \cup isRefused
      BY DEF IInv, Settled, showLiveWithInvite
<1>6. Sent' /\ Settled' /\ GoneIsAnswered'
      BY <1>2, <1>5 DEF IInv, TypeOK, Sent, Settled, GoneIsAnswered,
                        showLiveWithInvite, requests
<1> QED
      BY <1>4, <1>6 DEF IInv

\* What the viewer asks and the permissions are about leaves dialogs and jobs
\* alone, and only adds to what was asked.
LEMMA AskKeeps ==
    ASSUME IInv, NEW i \in Invite, TypeOK',
           Accept(i) \/ PermissionGranted(i) \/ PermissionDenied(i) \/ Decline(i)
    PROVE  IInv'
<1>1. UNCHANGED <<phase, goWithInviteDialog, isAgreed, isRefused, goLiveWithJob, countDown>>
      BY DEF Accept, PermissionGranted, PermissionDenied, Decline, dialogs, jobs
<1>2. \A j \in Invite : asked[j] \subseteq asked'[j]
      BY DEF IInv, TypeOK, Accept, PermissionGranted, PermissionDenied, Decline, Ask
<1>3. Attended'
      BY <1>1 DEF IInv, Attended
<1>4. Sent'
      <2> SUFFICES ASSUME NEW j \in Invite, NEW a \in Answer, <<j, a>> \in underWay'
                   PROVE  a \in asked'[j]
            BY DEF Sent
      <2>1. \/ <<j, a>> \in underWay
            \/ j = i /\ a = "agree" /\ PermissionGranted(i)
            \/ j = i /\ a = "decline" /\ Decline(i)
            BY DEF Answer, Accept, PermissionGranted, PermissionDenied, Decline, Ask
      <2>2. CASE <<j, a>> \in underWay
            BY <2>2, <1>2 DEF IInv, Sent
      <2>3. CASE j = i /\ a = "agree" /\ PermissionGranted(i)
            BY <2>3 DEF IInv, TypeOK, PermissionGranted
      <2>4. CASE j = i /\ a = "decline" /\ Decline(i)
            BY <2>4 DEF IInv, TypeOK, Decline, Ask
      <2> QED BY <2>1, <2>2, <2>3, <2>4
<1>5. Settled' /\ GoneIsAnswered'
      BY <1>1, <1>2 DEF IInv, TypeOK, Settled, GoneIsAnswered
<1> QED
      BY <1>3, <1>4, <1>5 DEF IInv

\* A confirmed answer was asked for, and its dialog is no longer open.
LEMMA ConfirmedKeeps ==
    ASSUME IInv, NEW i \in Invite, NEW a \in Answer, Confirmed(i, a), TypeOK'
    PROVE  IInv'
<1>1. \A j \in Invite : phase'[j] = IF j = i THEN "closing" ELSE phase[j]
      BY DEF IInv, TypeOK, Confirmed, dismiss
<1>2. a \in asked[i]
      BY DEF IInv, Sent, Confirmed
<1>3. UNCHANGED <<asked, goWithInviteDialog, goLiveWithJob, countDown>>
      BY DEF Confirmed, jobs
<1>4. Attended'
      BY <1>1, <1>3 DEF IInv, Attended
<1>5. Sent'
      BY <1>3 DEF IInv, Sent, Confirmed
<1>6. Settled'
      BY <1>1, <1>2, <1>3 DEF IInv, TypeOK, Settled, Answer, Confirmed
<1>7. GoneIsAnswered'
      BY <1>1, <1>3 DEF IInv, GoneIsAnswered
<1> QED
      BY <1>4, <1>5, <1>6, <1>7 DEF IInv

\* A dialog that goes has a confirmed answer, which was asked for, or declines.
LEMMA DismissKeeps ==
    ASSUME IInv, NEW i \in Invite, onDismiss(i), TypeOK' PROVE IInv'
<1>1. \A j \in Invite : phase'[j] = IF j = i THEN "gone" ELSE phase[j]
      BY DEF IInv, TypeOK, onDismiss
<1>2. \A j \in Invite : asked[j] \subseteq asked'[j]
      BY DEF IInv, TypeOK, onDismiss, Ask, requests
<1>3. UNCHANGED <<goWithInviteDialog, isAgreed, isRefused, goLiveWithJob, countDown>>
      BY DEF onDismiss, jobs
<1>4. asked'[i] # {}
      <2>1. CASE i \in isAgreed \cup isRefused
            BY <2>1, <1>2 DEF IInv, Settled
      <2>2. CASE i \notin isAgreed \cup isRefused
            BY <2>2 DEF IInv, TypeOK, onDismiss, Ask
      <2> QED BY <2>1, <2>2
<1>5. Attended'
      BY <1>1, <1>3 DEF IInv, Attended
<1>6. Sent'
      <2> SUFFICES ASSUME NEW j \in Invite, NEW a \in Answer, <<j, a>> \in underWay'
                   PROVE  a \in asked'[j]
            BY DEF Sent
      <2>1. \/ <<j, a>> \in underWay
            \/ j = i /\ a = "decline" /\ Ask(i, "decline")
            BY DEF onDismiss, Ask, requests
      <2>2. CASE <<j, a>> \in underWay
            BY <2>2, <1>2 DEF IInv, Sent
      <2>3. CASE j = i /\ a = "decline" /\ Ask(i, "decline")
            BY <2>3 DEF IInv, TypeOK, Ask
      <2> QED BY <2>1, <2>2, <2>3
<1>7. Settled'
      BY <1>1, <1>2, <1>3 DEF IInv, TypeOK, Settled
<1>8. GoneIsAnswered'
      BY <1>1, <1>2, <1>4 DEF IInv, GoneIsAnswered
<1> QED
      BY <1>5, <1>6, <1>7, <1>8 DEF IInv

\* The invariant holds initially.
LEMMA InvInit == Init => IInv
BY DEF Init, IInv, TypeOK, Attended, Sent, Settled, GoneIsAnswered, Answer

\* Every step keeps the invariant.
LEMMA InvKept == IInv /\ [Next]_vars => IInv'
<1> SUFFICES ASSUME IInv, [Next]_vars PROVE IInv'
      OBVIOUS
<1>0. TypeOK'
      BY TypesKept DEF IInv
<1>1. CASE LiveWithCancelEvent \/ showLeavePrompt
      BY <1>1, HideKeeps DEF LiveWithCancelEvent, showLeavePrompt
<1>2. ASSUME NEW i \in Invite, showLiveWithInvite(i) PROVE IInv'
      BY <1>0, <1>2, ShowKeeps
<1>3. ASSUME NEW i \in Invite, CountDownEnds(i) PROVE IInv'
      BY <1>0, <1>3 DEF IInv, TypeOK, Attended, Sent, Settled, GoneIsAnswered,
                        CountDownEnds, dialogs, requests
<1>4. ASSUME NEW i \in Invite, TimeIsOver(i) PROVE IInv'
      BY <1>4, HideKeeps DEF TimeIsOver
<1>5. ASSUME NEW i \in Invite,
             Accept(i) \/ PermissionGranted(i) \/ PermissionDenied(i) \/ Decline(i)
      PROVE IInv'
      BY <1>0, <1>5, AskKeeps
<1>6. ASSUME NEW i \in Invite, GoBack(i) PROVE IInv'
      BY <1>0, <1>6 DEF IInv, TypeOK, Attended, Sent, Settled, GoneIsAnswered,
                        GoBack, dismiss, jobs, requests
<1>7. ASSUME NEW i \in Invite, NEW a \in Answer, Confirmed(i, a) PROVE IInv'
      BY <1>0, <1>7, ConfirmedKeeps
<1>8. ASSUME NEW i \in Invite, NEW a \in Answer, Unobserved(i, a) PROVE IInv'
      BY <1>0, <1>8 DEF IInv, Attended, Sent, Settled, GoneIsAnswered, Unobserved,
                        dialogs, jobs
<1>9. ASSUME NEW i \in Invite, onDismiss(i) PROVE IInv'
      BY <1>0, <1>9, DismissKeeps
<1>10. CASE UNCHANGED vars
      BY <1>0, <1>10 DEF IInv, Attended, Sent, Settled, GoneIsAnswered, vars, dialogs,
                         jobs, requests
<1> QED
      BY <1>1, <1>2, <1>3, <1>4, <1>5, <1>6, <1>7, <1>8, <1>9, <1>10 DEF Next

\* The invariant holds always.
LEMMA InvAlways == Spec => []IInv
BY InvInit, InvKept, PTL DEF Spec

-----------------------------------------------------------------------------
(* The properties                                                          *)

\* Type correctness, for any invitations.
THEOREM TypeCorrect == Spec => []TypeOK
<1>1. IInv => TypeOK
      BY DEF IInv
<1> QED BY <1>1, InvAlways, PTL

\* Attended: an open dialog always has its count-down, and there is no other
\* count-down, for any invitations.
THEOREM AlwaysAttended == Spec => []Attended
<1>1. IInv => Attended
      BY DEF IInv
<1> QED BY <1>1, InvAlways, PTL

\* GoneIsAnswered: a dialog never goes without an answer to the server.
THEOREM AlwaysAnswered == Spec => []GoneIsAnswered
<1>1. IInv => GoneIsAnswered
      BY DEF IInv
<1> QED BY <1>1, InvAlways, PTL

\* TimeHidesOwn: the count-down that ends belongs to the dialog that closes.
THEOREM TimeHidesOwnAlways == Spec => TimeHidesOwn
<1>1. IInv /\ [Next]_vars =>
        [\A i, j \in Invite :
            countDown[i] = "due" /\ TimeIsOver(i) /\ phase[j] # phase'[j] => i = j]_vars
      <2> SUFFICES ASSUME IInv, NEW i \in Invite, NEW j \in Invite, countDown[i] = "due",
                          TimeIsOver(i), phase[j] # phase'[j]
                   PROVE  i = j
            OBVIOUS
      <2>1. j = goWithInviteDialog /\ phase[j] = "shown"
            BY DEF IInv, TypeOK, TimeIsOver, hideLiveWithInvite, isShow, dismiss
      <2>2. countDown[j] # "none" /\ countDown[i] # "none"
            BY <2>1 DEF IInv, Attended
      <2> QED BY <2>2 DEF IInv, Attended
<1> QED BY <1>1, InvAlways, PTL DEF Spec, TimeHidesOwn

\* AgreedStands: once the dialog has seen its agreement confirmed, it does not
\* decline when it goes, whatever has closed it; only a touch of the viewer's
\* before it has slid out declines.
THEOREM AgreedStandsAlways == Spec => AgreedStands
<1>1. IInv /\ [Next]_vars =>
        [\A i \in Invite :
            i \in isAgreed /\ "decline" \in asked'[i] \ asked[i] => Decline(i)]_vars
      <2> SUFFICES ASSUME IInv, [Next]_vars, NEW k \in Invite, k \in isAgreed,
                          "decline" \in asked'[k], "decline" \notin asked[k],
                          ~Decline(k)
                   PROVE  FALSE
            OBVIOUS
      <2>0. phase[k] # "shown" /\ asked' # asked
            BY DEF IInv, Settled
      <2>1. CASE LiveWithCancelEvent \/ showLeavePrompt
            BY <2>0, <2>1 DEF LiveWithCancelEvent, showLeavePrompt, hideLiveWithInvite,
                              requests
      <2>2. ASSUME NEW i \in Invite,
                   \/ showLiveWithInvite(i) \/ CountDownEnds(i) \/ TimeIsOver(i)
                   \/ Accept(i) \/ PermissionDenied(i) \/ GoBack(i)
            PROVE  FALSE
            BY <2>0, <2>2 DEF showLiveWithInvite, CountDownEnds, TimeIsOver,
                  hideLiveWithInvite, Accept, PermissionDenied, GoBack, requests
      <2>3. ASSUME NEW i \in Invite, PermissionGranted(i) PROVE FALSE
            BY <2>3 DEF IInv, TypeOK, PermissionGranted
      <2>4. ASSUME NEW i \in Invite, Decline(i) PROVE FALSE
            BY <2>0, <2>4 DEF IInv, TypeOK, Decline, Ask
      <2>5. ASSUME NEW i \in Invite, NEW a \in Answer, Confirmed(i, a) \/ Unobserved(i, a)
            PROVE  FALSE
            BY <2>0, <2>5 DEF Confirmed, Unobserved
      <2>6. ASSUME NEW i \in Invite, onDismiss(i) PROVE FALSE
            BY <2>0, <2>6 DEF IInv, TypeOK, onDismiss, Ask, requests
      <2>7. CASE UNCHANGED vars
            BY <2>0, <2>7 DEF vars, requests
      <2> QED BY <2>1, <2>2, <2>3, <2>4, <2>5, <2>6, <2>7 DEF Next
<1> QED BY <1>1, InvAlways, PTL DEF Spec, AgreedStands
=============================================================================
