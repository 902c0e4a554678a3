--------------------------- MODULE DmSend_proofs ----------------------------
(* Proofs about DmSend for any set of messages and any set of calls.       *)
EXTENDS DmSend, TLAPS

-----------------------------------------------------------------------------
(* Types                                                                   *)

(* The DAO's update keeps the types of the row and of the item on screen.  *)
LEMMA UpdateType ==
    ASSUME TypeOK, NEW m \in Msg, NEW st \in Sent, NEW t \in Nat,
           updateMessageAndUpdateConversation(m, st, t)
    PROVE  /\ status' \in [Msg -> Status]
           /\ time' \in [Msg -> Nat]
           /\ ui' \in [Msg -> Item]
<1>1. status' \in [Msg -> Status] /\ time' \in [Msg -> Nat]
    BY DEF TypeOK, updateMessageAndUpdateConversation, Status
<1>2. [st |-> st, at |-> t] \in Item
    BY DEF Item
<1>3. ui' \in [Msg -> Item]
    BY <1>2 DEF TypeOK, updateMessageAndUpdateConversation
<1> QED BY <1>1, <1>3

(* An open dialog holds an entity.                                         *)
LEMMA DialogType ==
    ASSUME TypeOK, dialog # NoDialog
    PROVE  dialog.msg \in Msg /\ dialog.at \in Nat
BY DEF TypeOK, Entity

(* Cancelling the registered job keeps the types of the jobs and the map.  *)
LEMMA CancelType ==
    ASSUME TypeOK, NEW m \in Msg, CancelPending(m)
    PROVE  /\ job' \in [Call -> {"off", "armed", "read"}]
           /\ pendingMessageJobsMap' \in [Msg -> Call \cup {NoCall}]
<1>1. \A c \in Call : job[c] \in {"off", "armed", "read"}
    BY DEF TypeOK
<1>2. job' \in [Call -> {"off", "armed", "read"}]
    BY <1>1 DEF CancelPending
<1>3. pendingMessageJobsMap' \in [Msg -> Call \cup {NoCall}]
    BY DEF TypeOK, CancelPending
<1> QED BY <1>2, <1>3

(* What OpenScreen shows of one row is an item.                            *)
LEMMA LoadedType ==
    ASSUME TypeOK, OpenScreen
    PROVE  ui' \in [Msg -> Item]
<1>1. ASSUME NEW m \in Msg, HasRow(m)
      PROVE  [st |-> IF status[m] = "SENDING" THEN "FAILED" ELSE status[m],
              at |-> time[m]] \in Item
  <2>1. (IF status[m] = "SENDING" THEN "FAILED" ELSE status[m]) \in Sent
      BY <1>1 DEF HasRow, Sent
  <2> QED BY <2>1 DEF TypeOK, Item
<1>2. Hidden \in Item
    BY DEF Hidden, Item
<1> QED BY <1>1, <1>2 DEF OpenScreen

(* Every step keeps the types.                                             *)
LEMMA TypeStep == TypeOK /\ [Next]_vars => TypeOK'
<1> SUFFICES ASSUME TypeOK, [Next]_vars PROVE TypeOK'
    OBVIOUS
<1>a. "SENDING" \in Sent /\ "SUCCESS" \in Sent /\ "FAILED" \in Sent
    BY DEF Sent
<1> USE DEF TypeOK, rows, calls, jobs, screen
<1>1. ASSUME NEW m \in Msg, NEW c \in Call, sendMessage(m, c) PROVE TypeOK'
    BY <1>1 DEF sendMessage, Status, Sent, Item, Pc
<1>2. ASSUME NEW m \in Msg, Tap(m) PROVE TypeOK'
    BY <1>2 DEF Tap, Entity, Item
<1>3. ASSUME NEW c \in Call, resendTextMessage(c) PROVE TypeOK'
  <2>1. dialog.msg \in Msg /\ clock' \in Nat
      BY <1>3, DialogType DEF resendTextMessage
  <2>2. /\ status' \in [Msg -> Status]
        /\ time' \in [Msg -> Nat]
        /\ ui' \in [Msg -> Item]
      BY <1>3, <1>a, <2>1, UpdateType DEF resendTextMessage
  <2> QED BY <1>3, <2>1, <2>2 DEF resendTextMessage, Pc
<1>4. CASE deleteMessage
    BY <1>4, DialogType DEF deleteMessage, Status
<1>5. CASE Dismiss
    BY <1>5 DEF Dismiss
<1>6. CASE CloseScreen
    BY <1>6 DEF CloseScreen, Hidden, Item, Pc
<1>7. CASE OpenScreen
  <2>1. ui' \in [Msg -> Item]
      BY <1>7, LoadedType
  <2> QED BY <1>7, <2>1 DEF OpenScreen
<1>8. ASSUME NEW c \in Call, Answer(c) PROVE TypeOK'
    BY <1>8 DEF Answer, Reply, Rejected, NetworkFailure, Pc
<1>9. ASSUME NEW c \in Call, LocalStep(c) PROVE TypeOK'
  <2>0. of[c] \in Msg /\ at[c] \in Nat
      OBVIOUS
  <2>1. CASE sendDm(c)
      BY <2>1 DEF sendDm, Pc
  <2>2. CASE ReadBack(c)
      BY <2>2 DEF ReadBack, Pc
  <2>3. CASE CancelOnSuccess(c)
    <3>1. /\ job' \in [Call -> {"off", "armed", "read"}]
          /\ pendingMessageJobsMap' \in [Msg -> Call \cup {NoCall}]
        BY <2>0, <2>3, CancelType DEF CancelOnSuccess
    <3> QED BY <2>3, <3>1 DEF CancelOnSuccess, Pc
  <2>4. CASE CancelOnFailure(c)
    <3>1. /\ job' \in [Call -> {"off", "armed", "read"}]
          /\ pendingMessageJobsMap' \in [Msg -> Call \cup {NoCall}]
        BY <2>0, <2>4, CancelType DEF CancelOnFailure
    <3> QED BY <2>4, <3>1 DEF CancelOnFailure, Pc
  <2>5. CASE WriteSuccess(c)
    <3>1. /\ status' \in [Msg -> Status]
          /\ time' \in [Msg -> Nat]
          /\ ui' \in [Msg -> Item]
        BY <2>0, <2>5, <1>a, UpdateType DEF WriteSuccess
    <3> QED BY <2>5, <3>1 DEF WriteSuccess, Pc
  <2>6. CASE WriteFailure(c)
    <3>1. /\ status' \in [Msg -> Status]
          /\ time' \in [Msg -> Nat]
          /\ ui' \in [Msg -> Item]
        BY <2>0, <2>6, <1>a, UpdateType DEF WriteFailure
    <3> QED BY <2>6, <3>1 DEF WriteFailure, Pc
  <2> QED BY <1>9, <2>1, <2>2, <2>3, <2>4, <2>5, <2>6 DEF LocalStep
<1>10. ASSUME NEW c \in Call, JobStep(c) PROVE TypeOK'
  <2>1. CASE JobRead(c)
      BY <2>1 DEF JobRead
  <2>2. CASE JobWrite(c)
    <3>1. /\ status' \in [Msg -> Status]
          /\ time' \in [Msg -> Nat]
          /\ ui' \in [Msg -> Item]
        BY <2>2, <1>a, UpdateType DEF JobWrite
    <3> QED BY <2>2, <3>1 DEF JobWrite
  <2> QED BY <1>10, <2>1, <2>2 DEF JobStep
<1>11. ASSUME NEW t \in promptJobs, buildPromptMessage(t) PROVE TypeOK'
    BY <1>11 DEF buildPromptMessage
<1>12. CASE Crash
    BY <1>12 DEF Crash, Hidden, Item, Pc
<1>13. CASE UNCHANGED vars
    BY <1>13 DEF vars
<1> QED
    BY <1>1, <1>2, <1>3, <1>4, <1>5, <1>6, <1>7, <1>8, <1>9, <1>10, <1>11,
       <1>12, <1>13 DEF Next, UserStep

-----------------------------------------------------------------------------
(* The registered jobs                                                     *)

(* No step changes which message a call sends.                             *)
LEMMA OfConstant == [Next]_vars => of' = of
BY DEF Next, UserStep, sendMessage, Tap, resendTextMessage, deleteMessage,
       Dismiss, CloseScreen, OpenScreen, Answer, Reply, Rejected,
       NetworkFailure, LocalStep, sendDm, ReadBack, CancelOnSuccess,
       CancelOnFailure, WriteSuccess, WriteFailure, JobStep, JobRead,
       JobWrite, buildPromptMessage, Crash, vars, rows, calls, jobs, screen

(* Registering puts a call under its own message; removing only removes.   *)
LEMMA PendingStep ==
    TypeOK /\ PendingJobOwned /\ [Next]_vars => PendingJobOwned'
<1> SUFFICES ASSUME TypeOK, PendingJobOwned, [Next]_vars
             PROVE  PendingJobOwned'
    OBVIOUS
<1>0. of' = of
    BY OfConstant
<1>1. CASE UNCHANGED pendingMessageJobsMap
    BY <1>0, <1>1 DEF PendingJobOwned
<1>2. ASSUME NEW c \in Call, sendDm(c) PROVE PendingJobOwned'
    BY <1>0, <1>2 DEF sendDm, PendingJobOwned, TypeOK
<1>3. ASSUME NEW c \in Call, CancelPending(of[c]) PROVE PendingJobOwned'
    BY <1>0, <1>3 DEF CancelPending, PendingJobOwned, TypeOK
<1>4. CASE Crash
    BY <1>4 DEF Crash, PendingJobOwned
<1> QED
    BY <1>1, <1>2, <1>3, <1>4
    DEF Next, UserStep, sendMessage, Tap, resendTextMessage, deleteMessage,
        Dismiss, CloseScreen, OpenScreen, Answer, Reply, Rejected,
        NetworkFailure, LocalStep, ReadBack, CancelOnSuccess,
        CancelOnFailure, WriteSuccess, WriteFailure, JobStep, JobRead,
        JobWrite, buildPromptMessage, vars, rows, calls, jobs, screen

(* A job exists only for a call that has entered sendDm.                   *)
LEMMA IdleStep == TypeOK /\ IdleHasNoJob /\ [Next]_vars => IdleHasNoJob'
<1> SUFFICES ASSUME TypeOK, IdleHasNoJob, [Next]_vars PROVE IdleHasNoJob'
    OBVIOUS
<1> USE DEF IdleHasNoJob, TypeOK, rows, calls, jobs, screen
<1>1. CASE UserStep
    BY <1>1 DEF UserStep, sendMessage, Tap, resendTextMessage, deleteMessage,
                Dismiss, CloseScreen, OpenScreen
<1>2. ASSUME NEW c \in Call, Answer(c) PROVE IdleHasNoJob'
    BY <1>2 DEF Answer, Reply, Rejected, NetworkFailure
<1>3. ASSUME NEW c \in Call, LocalStep(c) PROVE IdleHasNoJob'
    BY <1>3 DEF LocalStep, sendDm, ReadBack, CancelOnSuccess,
                CancelOnFailure, CancelPending, WriteSuccess, WriteFailure
<1>4. ASSUME NEW c \in Call, JobStep(c) PROVE IdleHasNoJob'
    BY <1>4 DEF JobStep, JobRead, JobWrite
<1>5. ASSUME NEW t \in promptJobs, buildPromptMessage(t) PROVE IdleHasNoJob'
    BY <1>5 DEF buildPromptMessage
<1>6. CASE Crash
    BY <1>6 DEF Crash
<1>7. CASE UNCHANGED vars
    BY <1>7 DEF vars
<1> QED BY <1>1, <1>2, <1>3, <1>4, <1>5, <1>6, <1>7 DEF Next

-----------------------------------------------------------------------------
(* The screen and the database                                             *)

(* An auxiliary fact, which the spinner needs: in the model an item has its *)
(* row's status or is a row masked when the conversation was opened.  It   *)
(* says nothing about the code, where item and row change one after the    *)
(* other.                                                                  *)
ItemFollowsRow ==
    \A m \in Msg : ui[m].st # "none" /\ HasRow(m) =>
                       \/ ui[m].st = status[m]
                       \/ ui[m].st = "FAILED" /\ status[m] = "SENDING"

(* An update gives the row and its item the same status, and leaves the    *)
(* other messages alone.                                                   *)
LEMMA UpdateAgrees ==
    ASSUME TypeOK, ItemFollowsRow, NEW m \in Msg, NEW st \in Sent, NEW t \in Nat,
           updateMessageAndUpdateConversation(m, st, t)
    PROVE  ItemFollowsRow'
BY DEF TypeOK, ItemFollowsRow, updateMessageAndUpdateConversation, HasRow,
       Sent, Status, Item

(* Every other step that touches a row or an item keeps them in agreement. *)
LEMMA ScreenStep == TypeOK /\ ItemFollowsRow /\ [Next]_vars => ItemFollowsRow'
<1> SUFFICES ASSUME TypeOK, ItemFollowsRow, [Next]_vars PROVE ItemFollowsRow'
    OBVIOUS
<1>a. "SENDING" \in Sent /\ "SUCCESS" \in Sent /\ "FAILED" \in Sent
    BY DEF Sent
<1>b. \A c \in Call : of[c] \in Msg /\ at[c] \in Nat /\ jobAt[c] \in Nat
    BY DEF TypeOK
<1>1. CASE UNCHANGED <<status, ui>>
    BY <1>1 DEF ItemFollowsRow, HasRow
<1>2. ASSUME NEW m \in Msg, NEW c \in Call, sendMessage(m, c)
      PROVE  ItemFollowsRow'
    BY <1>2 DEF sendMessage, ItemFollowsRow, TypeOK, HasRow, Sent
<1>3. ASSUME NEW c \in Call, resendTextMessage(c) PROVE ItemFollowsRow'
  <2>1. dialog.msg \in Msg /\ clock' \in Nat
      BY <1>3, DialogType DEF resendTextMessage, TypeOK
  <2> QED BY <1>3, <1>a, <2>1, UpdateAgrees DEF resendTextMessage
<1>4. CASE deleteMessage
    BY <1>4, DialogType
       DEF deleteMessage, ItemFollowsRow, TypeOK, HasRow, Sent
<1>5. CASE CloseScreen \/ Crash
    BY <1>5 DEF CloseScreen, Crash, ItemFollowsRow, Hidden
<1>6. CASE OpenScreen
    BY <1>6 DEF OpenScreen, ItemFollowsRow, HasRow, Hidden, rows, calls, jobs
<1>7. ASSUME NEW c \in Call, WriteSuccess(c) PROVE ItemFollowsRow'
    BY <1>7, <1>a, <1>b, UpdateAgrees DEF WriteSuccess
<1>8. ASSUME NEW c \in Call, WriteFailure(c) PROVE ItemFollowsRow'
    BY <1>8, <1>a, <1>b, UpdateAgrees DEF WriteFailure
<1>9. ASSUME NEW c \in Call, JobWrite(c) PROVE ItemFollowsRow'
    BY <1>9, <1>a, <1>b, UpdateAgrees DEF JobWrite
<1> QED
    BY <1>1, <1>2, <1>3, <1>4, <1>5, <1>6, <1>7, <1>8, <1>9
    DEF Next, UserStep, Tap, Dismiss, Answer, Reply, Rejected,
        NetworkFailure, LocalStep, sendDm, ReadBack, CancelOnSuccess,
        CancelOnFailure, JobStep, JobRead, buildPromptMessage,
        vars, rows, calls, jobs, screen

-----------------------------------------------------------------------------
(* Every spinner is attended                                               *)

Spinner(m) == ui[m].st = "SENDING" /\ HasRow(m)

Attended(m) == \E c \in Call : of[c] = m /\ Settling(c)

(* An update to FAILED or SUCCESS ends the spinner of its message and      *)
(* starts no other.                                                        *)
LEMMA UpdateEndsSpinner ==
    ASSUME TypeOK, NEW m \in Msg, NEW st \in {"SUCCESS", "FAILED"}, NEW t,
           updateMessageAndUpdateConversation(m, st, t)
    PROVE  ~Spinner(m)' /\ \A k \in Msg \ {m} : Spinner(k)' => Spinner(k)
BY DEF TypeOK, updateMessageAndUpdateConversation, Spinner, HasRow, Sent, Item

LEMMA SpinnerStep ==
    TypeOK /\ PendingJobOwned /\ ItemFollowsRow /\ SpinnerAttended
        /\ [Next]_vars => SpinnerAttended'
<1> SUFFICES ASSUME TypeOK, PendingJobOwned, ItemFollowsRow, SpinnerAttended,
                    [Next]_vars,
                    NEW m \in Msg, Spinner(m)'
             PROVE  Attended(m)'
    BY DEF SpinnerAttended, Spinner, Attended
<1>0. of' = of
    BY OfConstant
<1>a. Spinner(m) => Attended(m)
    BY DEF SpinnerAttended, Spinner, Attended
<1> USE DEF rows, calls, jobs, screen
<1>1. ASSUME NEW k \in Msg, NEW c \in Call, sendMessage(k, c)
      PROVE  Attended(m)'
  <2>1. CASE m = k
      BY <1>1, <2>1 DEF sendMessage, TypeOK, Attended, Settling
  <2>2. CASE m # k
    <3>1. Spinner(m)
        BY <1>1, <2>2 DEF sendMessage, TypeOK, Spinner, HasRow
    <3> QED BY <1>0, <1>1, <1>a, <3>1
            DEF sendMessage, TypeOK, Attended, Settling
  <2> QED BY <2>1, <2>2
<1>2. ASSUME NEW c \in Call, resendTextMessage(c) PROVE Attended(m)'
  <2>0. dialog.msg \in Msg
      BY <1>2, DialogType DEF resendTextMessage
  <2>1. CASE m = dialog.msg
      BY <1>2, <2>1 DEF resendTextMessage, TypeOK, Attended, Settling
  <2>2. CASE m # dialog.msg
    <3>1. Spinner(m)
        BY <1>2, <2>0, <2>2
        DEF resendTextMessage, updateMessageAndUpdateConversation,
            TypeOK, Spinner, HasRow
    <3> QED BY <1>0, <1>2, <1>a, <3>1
            DEF resendTextMessage, TypeOK, Attended, Settling
  <2> QED BY <2>1, <2>2
<1>3. CASE deleteMessage
  <2>1. Spinner(m)
      BY <1>3, DialogType DEF deleteMessage, TypeOK, Spinner, HasRow, Sent
  <2> QED BY <1>3, <1>a, <2>1 DEF deleteMessage, Attended, Settling
<1>4. CASE Dismiss \/ \E k \in Msg : Tap(k)
    BY <1>4, <1>a DEF Dismiss, Tap, Spinner, HasRow, Attended, Settling
<1>5. CASE CloseScreen \/ Crash
    BY <1>5 DEF CloseScreen, Crash, Spinner, Hidden
<1>6. CASE OpenScreen
    BY <1>6 DEF OpenScreen, Spinner, Hidden
<1>7. ASSUME NEW c \in Call, Answer(c) PROVE Attended(m)'
    BY <1>0, <1>7, <1>a
    DEF Answer, Reply, Rejected, NetworkFailure, TypeOK, Spinner, HasRow,
        Attended, Settling
<1>8. ASSUME NEW c \in Call, sendDm(c) PROVE Attended(m)'
    BY <1>0, <1>8, <1>a
    DEF sendDm, TypeOK, Spinner, HasRow, Attended, Settling
<1>9. ASSUME NEW c \in Call, ReadBack(c) PROVE Attended(m)'
    BY <1>0, <1>9, <1>a
    DEF ReadBack, TypeOK, Spinner, HasRow, Attended, Settling
<1>10. ASSUME NEW c \in Call, CancelOnSuccess(c) \/ CancelOnFailure(c)
       PROVE  Attended(m)'
  <2>1. CASE m = of[c]
      BY <1>0, <1>10, <2>1
      DEF CancelOnSuccess, CancelOnFailure, TypeOK, Attended, Settling
  <2>2. CASE m # of[c]
    <3>1. Spinner(m)
        BY <1>10 DEF CancelOnSuccess, CancelOnFailure, Spinner, HasRow
    <3>2. PICK d \in Call : of[d] = m /\ Settling(d)
        BY <1>a, <3>1 DEF Attended
    <3>3. of[c] \in Msg
        BY DEF TypeOK
    <3>4. d # pendingMessageJobsMap[of[c]]
        BY <2>2, <3>2, <3>3, NoCallAssumption DEF PendingJobOwned
    <3>5. job'[d] = job[d] /\ pc'[d] = pc[d]
        BY <1>10, <2>2, <3>2, <3>4
        DEF CancelOnSuccess, CancelOnFailure, CancelPending, TypeOK
    <3> QED BY <1>0, <3>2, <3>5 DEF Attended, Settling
  <2> QED BY <2>1, <2>2
<1>11. ASSUME NEW c \in Call, WriteSuccess(c) \/ WriteFailure(c)
       PROVE  Attended(m)'
  <2>1. of[c] \in Msg
      BY DEF TypeOK
  <2>2. m # of[c] /\ Spinner(m)
      BY <1>11, <2>1, UpdateEndsSpinner DEF WriteSuccess, WriteFailure
  <2> QED BY <1>0, <1>11, <1>a, <2>2
          DEF WriteSuccess, WriteFailure, TypeOK, Attended, Settling
<1>12. ASSUME NEW c \in Call, JobRead(c) PROVE Attended(m)'
  <2>1. Spinner(m)
      BY <1>12 DEF JobRead, Spinner, HasRow
  <2>2. status[m] = "SENDING"
      BY <2>1 DEF ItemFollowsRow, Spinner
  <2> QED BY <1>0, <1>12, <1>a, <2>1, <2>2
          DEF JobRead, TypeOK, Attended, Settling
<1>13. ASSUME NEW c \in Call, JobWrite(c) PROVE Attended(m)'
  <2>1. of[c] \in Msg
      BY DEF TypeOK
  <2>2. m # of[c] /\ Spinner(m)
      BY <1>13, <2>1, UpdateEndsSpinner DEF JobWrite
  <2> QED BY <1>0, <1>13, <1>a, <2>2 DEF JobWrite, TypeOK, Attended, Settling
<1>14. ASSUME NEW t \in promptJobs, buildPromptMessage(t) PROVE Attended(m)'
    BY <1>14, <1>a
    DEF buildPromptMessage, Spinner, HasRow, Attended, Settling
<1>15. CASE UNCHANGED vars
    BY <1>15, <1>a DEF vars, Spinner, HasRow, Attended, Settling
<1> QED
    BY <1>1, <1>2, <1>3, <1>4, <1>5, <1>6, <1>7, <1>8, <1>9, <1>10, <1>11,
       <1>12, <1>13, <1>14, <1>15 DEF Next, UserStep, LocalStep, JobStep

-----------------------------------------------------------------------------
(* A message sent once                                                     *)

LEMMA FirstJobStep ==
    TypeOK /\ PendingJobOwned /\ IdleHasNoJob /\ FirstJobGuarded
        /\ [Next]_vars => FirstJobGuarded'
<1> SUFFICES ASSUME TypeOK, PendingJobOwned, IdleHasNoJob, FirstJobGuarded,
                    [Next]_vars,
                    NEW s \in Call, Sole(s)'
             PROVE  /\ job'[s] # "off" /\ pc'[s] # "done"
                           => pendingMessageJobsMap'[of'[s]] = s
                    /\ pc'[s] \in {"stored", "matched", "settling"}
                           => job'[s] = "off"
                    /\ status'[of'[s]] = "SUCCESS"
                           => pc'[s] = "done" /\ job'[s] = "off"
    BY DEF FirstJobGuarded
<1> DEFINE Guarded ==
               /\ job[s] # "off" /\ pc[s] # "done"
                       => pendingMessageJobsMap[of[s]] = s
               /\ pc[s] \in {"stored", "matched", "settling"}
                       => job[s] = "off"
               /\ status[of[s]] = "SUCCESS" => pc[s] = "done" /\ job[s] = "off"
<1>0. of' = of
    BY OfConstant
<1>a. Sole(s) => Guarded
    BY DEF FirstJobGuarded
<1>b. pc[s] = "idle" => job[s] = "off"
    BY DEF IdleHasNoJob
<1>c. of[s] \in Msg
    BY DEF TypeOK
<1> USE DEF rows, calls, jobs, screen
<1> SUFFICES Guarded'
    OBVIOUS
<1> HIDE DEF Guarded
<1>1. ASSUME NEW m \in Msg, NEW c \in Call, sendMessage(m, c) PROVE Guarded'
  <2>1. CASE s = c
      BY <1>0, <1>1, <1>b, <1>c, <2>1
      DEF sendMessage, TypeOK, Guarded
  <2>2. CASE s # c
    <3>1. of[s] # m /\ Sole(s)
        BY <1>0, <1>1, <2>2 DEF sendMessage, TypeOK, Sole
    <3> QED BY <1>0, <1>1, <1>a, <1>c, <2>2, <3>1
            DEF sendMessage, TypeOK, Guarded
  <2> QED BY <2>1, <2>2
<1>2. ASSUME NEW c \in Call, resendTextMessage(c) PROVE Guarded'
  <2>0. dialog.msg \in Msg
      BY <1>2, DialogType DEF resendTextMessage
  <2>1. CASE s = c
      BY <1>0, <1>2, <1>b, <2>0, <2>1
      DEF resendTextMessage, updateMessageAndUpdateConversation, TypeOK,
          HasRow, Sent, Guarded
  <2>2. CASE s # c
    <3>1. of[s] # dialog.msg /\ Sole(s)
        BY <1>0, <1>2, <2>2 DEF resendTextMessage, TypeOK, Sole
    <3> QED BY <1>0, <1>2, <1>a, <1>c, <2>0, <2>2, <3>1
            DEF resendTextMessage, updateMessageAndUpdateConversation,
                TypeOK, Guarded
  <2> QED BY <2>1, <2>2
<1>3. CASE deleteMessage
    BY <1>0, <1>3, <1>a, <1>c, DialogType DEF deleteMessage, TypeOK, Sole, Guarded
<1>4. CASE Dismiss \/ OpenScreen \/ \E m \in Msg : Tap(m)
    BY <1>4, <1>a DEF Dismiss, OpenScreen, Tap, Sole, Guarded
<1>5. CASE CloseScreen
  <2>1. Sole(s)
      BY <1>0, <1>5 DEF CloseScreen, Sole, TypeOK
  <2> QED BY <1>5, <1>a, <2>1 DEF CloseScreen, Sole, TypeOK, Guarded
<1>6. ASSUME NEW c \in Call, Answer(c) PROVE Guarded'
  <2>1. Sole(s)
      BY <1>0, <1>6
      DEF Answer, Reply, Rejected, NetworkFailure, Sole, TypeOK
  <2> QED BY <1>6, <1>a, <2>1
          DEF Answer, Reply, Rejected, NetworkFailure, TypeOK, Guarded
<1>7. ASSUME NEW c \in Call, sendDm(c) PROVE Guarded'
  <2>1. Sole(s)
      BY <1>0, <1>7 DEF sendDm, Sole, TypeOK
  <2>2. CASE s = c
      BY <1>7, <1>a, <1>c, <2>1, <2>2 DEF sendDm, TypeOK, Guarded
  <2>3. CASE s # c
    <3>1. of[s] # of[c]
        BY <1>7, <2>1, <2>3 DEF sendDm, Sole
    <3> QED BY <1>7, <1>a, <1>c, <2>1, <2>3, <3>1 DEF sendDm, TypeOK, Guarded
  <2> QED BY <2>2, <2>3
<1>8. ASSUME NEW c \in Call, ReadBack(c) PROVE Guarded'
  <2>1. Sole(s)
      BY <1>0, <1>8 DEF ReadBack, Sole, TypeOK
  <2> QED BY <1>8, <1>a, <2>1 DEF ReadBack, TypeOK, Guarded
<1>9. ASSUME NEW c \in Call, CancelOnSuccess(c) \/ CancelOnFailure(c)
      PROVE  Guarded'
  <2>1. Sole(s)
      BY <1>0, <1>9 DEF CancelOnSuccess, CancelOnFailure, Sole, TypeOK
  <2>2. CASE s = c
    <3>1. pc[s] # "done" /\ pc'[s] # "done"
        BY <1>9, <2>2 DEF CancelOnSuccess, CancelOnFailure, TypeOK
    <3>2. job'[s] = "off"
        BY <1>9, <1>a, <2>1, <2>2, <3>1
        DEF CancelOnSuccess, CancelOnFailure, CancelPending, Guarded
    <3> QED BY <1>9, <1>a, <2>1, <3>1, <3>2
            DEF CancelOnSuccess, CancelOnFailure, Guarded
  <2>3. CASE s # c
    <3>1. of[s] # of[c]
        BY <1>9, <2>1, <2>3 DEF CancelOnSuccess, CancelOnFailure, Sole
    <3>2. /\ job'[s] \in {job[s], "off"}
          /\ pc'[s] = pc[s]
          /\ pendingMessageJobsMap'[of[s]] = pendingMessageJobsMap[of[s]]
        BY <1>9, <1>c, <2>3, <3>1
        DEF CancelOnSuccess, CancelOnFailure, CancelPending, TypeOK
    <3> QED BY <1>0, <1>9, <1>a, <2>1, <3>2
            DEF CancelOnSuccess, CancelOnFailure, Guarded
  <2> QED BY <2>2, <2>3
<1>10. ASSUME NEW c \in Call, WriteSuccess(c) \/ WriteFailure(c)
       PROVE  Guarded'
  <2>1. Sole(s)
      BY <1>0, <1>10 DEF WriteSuccess, WriteFailure, Sole, TypeOK
  <2>2. CASE s = c
      BY <1>0, <1>10, <1>a, <1>c, <2>1, <2>2
      DEF WriteSuccess, WriteFailure, updateMessageAndUpdateConversation,
          TypeOK, Guarded
  <2>3. CASE s # c
    <3>1. of[s] # of[c] /\ of[c] \in Msg
        BY <1>10, <2>1, <2>3 DEF WriteSuccess, WriteFailure, Sole, TypeOK
    <3> QED BY <1>0, <1>10, <1>a, <1>c, <2>1, <2>3, <3>1
            DEF WriteSuccess, WriteFailure,
                updateMessageAndUpdateConversation, TypeOK, Guarded
  <2> QED BY <2>2, <2>3
<1>11. ASSUME NEW c \in Call, JobRead(c) PROVE Guarded'
  <2>1. Sole(s)
      BY <1>11 DEF JobRead, Sole
  <2>2. pc' = pc /\ status' = status /\ of' = of
        /\ pendingMessageJobsMap' = pendingMessageJobsMap
      BY <1>11 DEF JobRead
  <2>3. job'[s] # "off" => job[s] # "off"
      BY <1>11 DEF JobRead, TypeOK
  <2>4. job'[s] = "off" \/ job[s] # "off"
      BY <2>3
  <2> QED BY <1>a, <2>1, <2>2, <2>4 DEF Guarded
<1>12. ASSUME NEW c \in Call, JobWrite(c) PROVE Guarded'
  <2>1. Sole(s)
      BY <1>12 DEF JobWrite, Sole
  <2>2. pc' = pc /\ pendingMessageJobsMap' = pendingMessageJobsMap
      BY <1>12 DEF JobWrite
  <2>3. job'[s] \in {job[s], "off"}
      BY <1>12 DEF JobWrite, TypeOK
  <2>4. status'[of[s]] \in {status[of[s]], "FAILED"}
      BY <1>12, <1>c DEF JobWrite, updateMessageAndUpdateConversation, TypeOK
  <2> QED BY <1>0, <1>a, <2>1, <2>2, <2>3, <2>4 DEF Guarded
<1>13. ASSUME NEW t \in promptJobs, buildPromptMessage(t) PROVE Guarded'
    BY <1>13, <1>a DEF buildPromptMessage, Sole, Guarded
<1>14. CASE Crash
  <2>1. Sole(s)
      BY <1>0, <1>14 DEF Crash, Sole, TypeOK
  <2> QED BY <1>0, <1>14, <1>a, <2>1 DEF Crash, Sole, TypeOK, Guarded
<1>15. CASE UNCHANGED vars
    BY <1>15, <1>a DEF vars, Sole, Guarded
<1> QED
    BY <1>1, <1>2, <1>3, <1>4, <1>5, <1>6, <1>7, <1>8, <1>9, <1>10, <1>11,
       <1>12, <1>13, <1>14, <1>15 DEF Next, UserStep, LocalStep, JobStep

-----------------------------------------------------------------------------
(* Theorems                                                                *)

IInv == /\ TypeOK
        /\ PendingJobOwned
        /\ ItemFollowsRow
        /\ SpinnerAttended
        /\ IdleHasNoJob
        /\ FirstJobGuarded

LEMMA InitIInv == Init => IInv
<1> SUFFICES ASSUME Init PROVE IInv
    OBVIOUS
<1>1. TypeOK
    BY DEF Init, TypeOK, Status, Pc, Item, Hidden
<1>2. PendingJobOwned /\ IdleHasNoJob
    BY DEF Init, PendingJobOwned, IdleHasNoJob
<1>3. ItemFollowsRow /\ SpinnerAttended
    BY DEF Init, ItemFollowsRow, SpinnerAttended, Hidden
<1>4. FirstJobGuarded
    BY DEF Init, FirstJobGuarded, Sole
<1> QED BY <1>1, <1>2, <1>3, <1>4 DEF IInv

(* The strengthened invariant holds in every reachable state.              *)
THEOREM Inductive == Spec => []IInv
<1>1. IInv /\ [Next]_vars => IInv'
    BY TypeStep, PendingStep, ScreenStep, SpinnerStep, IdleStep, FirstJobStep
       DEF IInv
<1> QED BY InitIInv, <1>1, PTL DEF Spec

(* For every set of messages and every number of attempts, the variables   *)
(* keep their types.                                                       *)
THEOREM TypeCorrect == Spec => []TypeOK
BY Inductive, PTL DEF IInv

(* Cancelling a message's registered job never silences the job of another *)
(* message, however many calls are made for however many messages.         *)
THEOREM PendingIsOwned == Spec => []PendingJobOwned
BY Inductive, PTL DEF IInv

(* For every set of messages and every number of overlapping attempts, a   *)
(* message shown as being sent has a call or a job left to settle it.      *)
THEOREM SpinnerAlwaysAttended == Spec => []SpinnerAttended
BY Inductive, PTL DEF IInv

(* The job of a message sent once can always be found and cancelled by its *)
(* answer, and is off before the answer, or its failure, is written.       *)
THEOREM FirstJobAlwaysGuarded == Spec => []FirstJobGuarded
BY Inductive, PTL DEF IInv

(* SUCCESS of a message that was sent once is never turned into FAILED.    *)
THEOREM SuccessStays == Spec => SuccessIsFinal
<1>1. ASSUME IInv, [Next]_vars, NEW m \in Msg,
             status[m] = "SUCCESS", status'[m] = "FAILED"
      PROVE  SentAgain(m)
  <2> USE DEF rows, calls, jobs, screen
  <2>0. \A c \in Call : of[c] = m /\ pc[c] # "idle" /\ ~SentAgain(m)
                            => pc[c] = "done" /\ job[c] = "off"
      BY <1>1 DEF IInv, FirstJobGuarded, Sole, SentAgain
  <2>1. ASSUME NEW c \in Call, WriteSuccess(c) \/ WriteFailure(c)
        PROVE  SentAgain(m)
    <3>1. of[c] = m
        BY <1>1, <2>1 DEF WriteSuccess, WriteFailure, IInv, TypeOK,
                          updateMessageAndUpdateConversation
    <3> QED BY <2>0, <2>1, <3>1 DEF WriteSuccess, WriteFailure
  <2>2. ASSUME NEW c \in Call, JobWrite(c) PROVE SentAgain(m)
    <3>1. of[c] = m
        BY <1>1, <2>2 DEF JobWrite, IInv, TypeOK,
                          updateMessageAndUpdateConversation
    <3> QED BY <1>1, <2>0, <2>2, <3>1 DEF JobWrite, IInv, IdleHasNoJob
  <2>3. ASSUME NEW c \in Call, resendTextMessage(c) PROVE FALSE
    <3>1. dialog.msg \in Msg
        BY <1>1, <2>3, DialogType DEF resendTextMessage, IInv
    <3> QED BY <1>1, <2>3, <3>1
            DEF resendTextMessage, IInv, TypeOK,
                updateMessageAndUpdateConversation
  <2>4. ASSUME NEW k \in Msg, NEW c \in Call, sendMessage(k, c) PROVE FALSE
      BY <1>1, <2>4 DEF sendMessage, IInv, TypeOK
  <2>5. ~deleteMessage
      BY <1>1, DialogType DEF deleteMessage, IInv, TypeOK
  <2> QED
      BY <1>1, <2>1, <2>2, <2>3, <2>4, <2>5
      DEF Next, UserStep, Tap, Dismiss, CloseScreen, OpenScreen, Answer,
          Reply, Rejected, NetworkFailure, LocalStep, sendDm, ReadBack,
          CancelOnSuccess, CancelOnFailure, JobStep, JobRead,
          buildPromptMessage, Crash, vars
<1>2. IInv /\ [Next]_vars =>
          [\A m \in Msg : status[m] = "SUCCESS" /\ status'[m] = "FAILED"
                              => SentAgain(m)]_vars
    BY <1>1
<1> QED BY Inductive, <1>2, PTL DEF Spec, SuccessIsFinal

(* A deleted message never comes back.                                     *)
THEOREM DeletedStays == Spec => DeletedStaysDeleted
<1>1. ASSUME TypeOK, [Next]_vars, NEW m \in Msg, status[m] = "gone"
      PROVE  status'[m] = "gone"
  <2> USE DEF rows, calls, jobs, screen
  <2>0. ~HasRow(m)
      BY <1>1 DEF HasRow, Sent
  <2>1. ASSUME NEW k, NEW st, NEW t,
               updateMessageAndUpdateConversation(k, st, t)
        PROVE  status'[m] = "gone"
      BY <1>1, <2>0, <2>1 DEF updateMessageAndUpdateConversation, TypeOK
  <2>2. ASSUME NEW k \in Msg, NEW c \in Call, sendMessage(k, c)
        PROVE  status'[m] = "gone"
      BY <1>1, <2>2 DEF sendMessage, TypeOK
  <2>3. CASE deleteMessage
      BY <1>1, <2>3 DEF deleteMessage, TypeOK
  <2> QED
      BY <1>1, <2>1, <2>2, <2>3
      DEF Next, UserStep, resendTextMessage, WriteSuccess, WriteFailure,
          JobWrite, Tap, Dismiss, CloseScreen, OpenScreen, Answer,
          Reply, Rejected, NetworkFailure, LocalStep, sendDm, ReadBack,
          CancelOnSuccess, CancelOnFailure, JobStep, JobRead,
          buildPromptMessage, Crash, vars
<1>2. TypeOK /\ [Next]_vars =>
          [\A m \in Msg : status[m] = "gone" => status'[m] = "gone"]_vars
    BY <1>1
<1> QED BY TypeCorrect, <1>2, PTL DEF Spec, DeletedStaysDeleted
=============================================================================
