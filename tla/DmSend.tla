------------------------------- MODULE DmSend -------------------------------
(***************************************************************************)
(* Sending a text direct message: the row in the local database, the       *)
(* calls of ConversationDataRepository.sendDm (several may be in flight    *)
(* for one uuid, because a message can be sent again), the 30 second job   *)
(* of each call, pendingMessageJobsMap, and the conversation screen from   *)
(* which the user sends, sends again and deletes.                          *)
(*                                                                         *)
(* A step is what one coroutine does between two points where another one  *)
(* can get in: a DAO read, a DAO transaction, a cancel, an answer.  A job  *)
(* that is cancelled does not start another transaction.                   *)
(***************************************************************************)
EXTENDS Naturals, FiniteSets

CONSTANTS
    Msg,      \* uuids
    Call,     \* executions of sendDm, each used once
    NoCall,   \* an absent entry of pendingMessageJobsMap
    NoDialog  \* no dialog and no menu is open

Entity == [msg : Msg, at : Nat]   \* a MessageEntity: its uuid and send_time

ASSUME NoCallAssumption == NoCall \notin Call
ASSUME NoDialogAssumption == NoDialog \notin Entity

Sent   == {"SENDING", "SUCCESS", "FAILED"}       \* MessageEntity.sendStatus
Status == Sent \cup {"unsent", "gone"}           \* ... or there is no row

VARIABLES
    status,   \* status[m]: the row's send_status, or why there is no row
    time,     \* time[m]: the row's send_time
    clock,    \* the last send_time handed out
    prompts,  \* prompt rows; the one at send_time t + 1 is represented by t
    pc,       \* pc[c]: where execution c of sendDm is
    of,       \* of[c]: the message c sends
    at,       \* at[c]: send_time in the entity c is holding
    job,      \* job[c]: the 30 second job that c launched
    jobAt,    \* jobAt[c]: send_time in the entity the job read
    pendingMessageJobsMap,
    promptJobs, \* prompt rows waiting to be inserted
    ui,       \* ui[m]: the item MessageAdapter shows, st = "none" if none
    dialog,   \* the item of the open resend dialog or long-press menu
    open      \* whether the conversation's MessageActivity is alive

rows   == <<status, time, clock, prompts>>
calls  == <<pc, of, at, promptJobs>>
jobs   == <<job, jobAt, pendingMessageJobsMap>>
screen == <<ui, dialog, open>>
vars   == <<rows, calls, jobs, screen>>

Pc == {"idle",      \* not started
       "stored",    \* row written, sendDm not entered
       "api",       \* request under way
       "replied",   \* a response arrived
       "read",      \* the row has been read again
       "matched",   \* ... and the pending job cancelled
       "failed",    \* safeApiCall returned null
       "settling",  \* ... and the pending job cancelled
       "done"}      \* over, cancelled or killed

Item     == [st : Sent \cup {"none"}, at : Nat]
Hidden   == [st |-> "none", at |-> 0]

TypeOK ==
    /\ status \in [Msg -> Status]
    /\ time \in [Msg -> Nat]
    /\ clock \in Nat
    /\ prompts \subseteq Nat
    /\ pc \in [Call -> Pc]
    /\ of \in [Call -> Msg]
    /\ at \in [Call -> Nat]
    /\ job \in [Call -> {"off", "armed", "read"}]
    /\ jobAt \in [Call -> Nat]
    /\ pendingMessageJobsMap \in [Msg -> Call \cup {NoCall}]
    /\ promptJobs \subseteq Nat
    /\ ui \in [Msg -> Item]
    /\ dialog \in Entity \cup {NoDialog}
    /\ open \in BOOLEAN

Init ==
    /\ status = [m \in Msg |-> "unsent"]
    /\ time = [m \in Msg |-> 0]
    /\ clock = 0
    /\ prompts = {}
    /\ pc = [c \in Call |-> "idle"]
    /\ of \in [Call -> Msg]
    /\ at = [c \in Call |-> 0]
    /\ job = [c \in Call |-> "off"]
    /\ jobAt = [c \in Call |-> 0]
    /\ pendingMessageJobsMap = [m \in Msg |-> NoCall]
    /\ promptJobs = {}
    /\ ui = [m \in Msg |-> Hidden]
    /\ dialog = NoDialog
    /\ open = TRUE

-----------------------------------------------------------------------------
(* The DAO                                                                 *)

HasRow(m) == status[m] \in Sent

(* Faulty variant, for checking that the properties notice: an insert with *)
(* REPLACE in the place of the update.                                     *)
UpdateOrInsert(m, st, t) ==
    /\ status' = [status EXCEPT ![m] = st]
    /\ time' = [time EXCEPT ![m] = t]
    /\ ui' = [ui EXCEPT ![m] = IF @.st = "none" THEN @
                               ELSE [st |-> st, at |-> t]]

(* updateMessageAndUpdateConversation: @Update finds the row by its id and *)
(* does nothing if it has been deleted; event 4 replaces the item on the   *)
(* screen whether or not there was a row.  The write, the post of event 4  *)
(* and its delivery to the adapter are one step here, so the moment the    *)
(* item lags behind the row is not in this model.                          *)
updateMessageAndUpdateConversation(m, st, t) ==
    /\ status' = [status EXCEPT ![m] = IF HasRow(m) THEN st ELSE @]
    /\ time' = [time EXCEPT ![m] = IF HasRow(m) THEN t ELSE @]
    /\ ui' = [ui EXCEPT ![m] = IF @.st = "none" THEN @
                               ELSE [st |-> st, at |-> t]]

-----------------------------------------------------------------------------
(* What the user does                                                      *)

(* sendMessage: the row is inserted and shown, then sendDm is entered with *)
(* the row read back.                                                      *)
sendMessage(m, c) ==
    /\ open
    /\ dialog = NoDialog
    /\ status[m] = "unsent"
    /\ pc[c] = "idle"
    /\ of[c] = m
    /\ clock' = clock + 1
    /\ status' = [status EXCEPT ![m] = "SENDING"]
    /\ time' = [time EXCEPT ![m] = clock']
    /\ ui' = [ui EXCEPT ![m] = [st |-> "SENDING", at |-> clock']]
    /\ pc' = [pc EXCEPT ![c] = "stored"]
    /\ at' = [at EXCEPT ![c] = clock']
    /\ UNCHANGED <<prompts, of, promptJobs, jobs, dialog, open>>

(* A failed item is tapped or long-pressed: the dialog keeps that entity.  *)
Tap(m) ==
    /\ open
    /\ dialog = NoDialog
    /\ ui[m].st = "FAILED"
    /\ dialog' = [msg |-> m, at |-> ui[m].at]
    /\ UNCHANGED <<rows, calls, jobs, ui, open>>

Dismiss ==
    /\ dialog # NoDialog
    /\ dialog' = NoDialog
    /\ UNCHANGED <<rows, calls, jobs, ui, open>>

(* resendTextMessage: the entity of the dialog becomes SENDING, its prompt *)
(* is deleted, it gets a new send_time and is written back.                *)
resendTextMessage(c) ==
    /\ dialog # NoDialog
    /\ pc[c] = "idle"
    /\ of[c] = dialog.msg
    /\ clock' = clock + 1
    /\ prompts' = prompts \ {dialog.at}
    /\ updateMessageAndUpdateConversation(dialog.msg, "SENDING", clock')
    /\ pc' = [pc EXCEPT ![c] = "stored"]
    /\ at' = [at EXCEPT ![c] = clock']
    /\ dialog' = NoDialog
    /\ UNCHANGED <<of, promptJobs, jobs, open>>

(* deleteMessage: the row goes, then its prompt; the item stays on screen. *)
deleteMessage ==
    /\ dialog # NoDialog
    /\ status' = [status EXCEPT ![dialog.msg] = "gone"]
    /\ prompts' = prompts \ {dialog.at}
    /\ dialog' = NoDialog
    /\ UNCHANGED <<time, clock, calls, jobs, ui, open>>

(* buildPromptMessage inserts the server's error text below the message.   *)
buildPromptMessage(t) ==
    /\ t \in promptJobs
    /\ promptJobs' = promptJobs \ {t}
    /\ prompts' = prompts \cup {t}
    /\ UNCHANGED <<status, time, clock, pc, of, at, jobs, screen>>

-----------------------------------------------------------------------------
(* sendDm                                                                  *)

(* Faulty variants: the job is registered by conversation and not by uuid; *)
(* no job is launched.                                                     *)
SendDmByConversation(c) ==
    /\ pc[c] = "stored"
    /\ pc' = [pc EXCEPT ![c] = "api"]
    /\ job' = [job EXCEPT ![c] = "armed"]
    /\ pendingMessageJobsMap' = [m \in Msg |-> c]
    /\ UNCHANGED <<rows, of, at, promptJobs, jobAt, screen>>

SendDmWithoutJob(c) ==
    /\ pc[c] = "stored"
    /\ pc' = [pc EXCEPT ![c] = "api"]
    /\ UNCHANGED <<rows, of, at, promptJobs, jobs, screen>>

(* The job is launched and registered over whatever entry the uuid had,    *)
(* and the request goes out.                                               *)
sendDm(c) ==
    /\ pc[c] = "stored"
    /\ pc' = [pc EXCEPT ![c] = "api"]
    /\ job' = [job EXCEPT ![c] = "armed"]
    /\ pendingMessageJobsMap' = [pendingMessageJobsMap EXCEPT ![of[c]] = c]
    /\ UNCHANGED <<rows, of, at, promptJobs, jobAt, screen>>

(* safeApiCall returns the body of a 2xx answer ...                        *)
Reply(c) ==
    /\ pc[c] = "api"
    /\ pc' = [pc EXCEPT ![c] = "replied"]
    /\ UNCHANGED <<rows, of, at, promptJobs, jobs, screen>>

(* ... or null: after an error answer with a text, which onError turns     *)
(* into a prompt, or after a timeout or a lost connection, with no text.   *)
Rejected(c) ==
    /\ pc[c] = "api"
    /\ pc' = [pc EXCEPT ![c] = "failed"]
    /\ promptJobs' = promptJobs \cup {at[c]}
    /\ UNCHANGED <<rows, of, at, jobs, screen>>

NetworkFailure(c) ==
    /\ pc[c] = "api"
    /\ pc' = [pc EXCEPT ![c] = "failed"]
    /\ UNCHANGED <<rows, of, at, promptJobs, jobs, screen>>

(* The response branch reads the row by uuid; without a row it ends there. *)
ReadBack(c) ==
    /\ pc[c] = "replied"
    /\ IF HasRow(of[c])
       THEN /\ pc' = [pc EXCEPT ![c] = "read"]
            /\ at' = [at EXCEPT ![c] = time[of[c]]]
       ELSE /\ pc' = [pc EXCEPT ![c] = "done"]
            /\ UNCHANGED at
    /\ UNCHANGED <<rows, of, promptJobs, jobs, screen>>

(* pendingMessageJobsMap.remove(uuid)?.cancel(): whatever job is there.    *)
CancelPending(m) ==
    /\ job' = [c \in Call |-> IF c = pendingMessageJobsMap[m]
                              THEN "off" ELSE job[c]]
    /\ pendingMessageJobsMap' = [pendingMessageJobsMap EXCEPT ![m] = NoCall]

(* Faulty variants: the entry is removed and its job goes on; a failure    *)
(* leaves the job to itself.                                               *)
RemoveOnSuccess(c) ==
    /\ pc[c] = "read"
    /\ pc' = [pc EXCEPT ![c] = "matched"]
    /\ pendingMessageJobsMap' =
            [pendingMessageJobsMap EXCEPT ![of[c]] = NoCall]
    /\ UNCHANGED <<rows, of, at, promptJobs, job, jobAt, screen>>

KeepOnFailure(c) ==
    /\ pc[c] = "failed"
    /\ pc' = [pc EXCEPT ![c] = "settling"]
    /\ UNCHANGED <<rows, of, at, promptJobs, jobs, screen>>

CancelOnSuccess(c) ==
    /\ pc[c] = "read"
    /\ pc' = [pc EXCEPT ![c] = "matched"]
    /\ CancelPending(of[c])
    /\ UNCHANGED <<rows, of, at, promptJobs, jobAt, screen>>

CancelOnFailure(c) ==
    /\ pc[c] = "failed"
    /\ pc' = [pc EXCEPT ![c] = "settling"]
    /\ CancelPending(of[c])
    /\ UNCHANGED <<rows, of, at, promptJobs, jobAt, screen>>

WriteSuccess(c) ==
    /\ pc[c] = "matched"
    /\ pc' = [pc EXCEPT ![c] = "done"]
    /\ updateMessageAndUpdateConversation(of[c], "SUCCESS", at[c])
    /\ UNCHANGED <<clock, prompts, of, at, promptJobs, jobs,
                   dialog, open>>

(* The failure branch writes the entity sendDm was called with: it has not *)
(* looked at the row since.                                                *)
WriteFailure(c) ==
    /\ pc[c] = "settling"
    /\ pc' = [pc EXCEPT ![c] = "done"]
    /\ updateMessageAndUpdateConversation(of[c], "FAILED", at[c])
    /\ UNCHANGED <<clock, prompts, of, at, promptJobs, jobs,
                   dialog, open>>

-----------------------------------------------------------------------------
(* The 30 second job                                                       *)

JobRead(c) ==
    /\ job[c] = "armed"
    /\ IF status[of[c]] = "SENDING"
       THEN /\ job' = [job EXCEPT ![c] = "read"]
            /\ jobAt' = [jobAt EXCEPT ![c] = time[of[c]]]
       ELSE /\ job' = [job EXCEPT ![c] = "off"]
            /\ UNCHANGED jobAt
    /\ UNCHANGED <<rows, calls, pendingMessageJobsMap, screen>>

JobWrite(c) ==
    /\ job[c] = "read"
    /\ job' = [job EXCEPT ![c] = "off"]
    /\ updateMessageAndUpdateConversation(of[c], "FAILED", jobAt[c])
    /\ UNCHANGED <<clock, prompts, calls, jobAt, pendingMessageJobsMap,
                   dialog, open>>

-----------------------------------------------------------------------------
(* The screen and the process                                              *)

(* The activity is destroyed: viewModelScope cancels the calls, whose      *)
(* CancellationException leaves sendDm; the jobs have their own scope.     *)
CloseScreen ==
    /\ open
    /\ open' = FALSE
    /\ dialog' = NoDialog
    /\ ui' = [m \in Msg |-> Hidden]
    /\ promptJobs' = {}
    /\ pc' = [c \in Call |-> IF pc[c] = "idle" THEN "idle" ELSE "done"]
    /\ UNCHANGED <<rows, of, at, jobs>>

(* The conversation is opened: event 6 loads the rows and shows a row that *)
(* is still SENDING as FAILED, without writing it.                         *)
OpenScreen ==
    /\ ~open
    /\ open' = TRUE
    /\ ui' = [m \in Msg |->
                IF HasRow(m)
                THEN [st |-> IF status[m] = "SENDING" THEN "FAILED"
                             ELSE status[m], at |-> time[m]]
                ELSE Hidden]
    /\ UNCHANGED <<rows, calls, jobs, dialog>>

(* The process dies: the database survives, coroutines and the map do not. *)
Crash ==
    /\ open' = FALSE
    /\ dialog' = NoDialog
    /\ ui' = [m \in Msg |-> Hidden]
    /\ promptJobs' = {}
    /\ pc' = [c \in Call |-> IF pc[c] = "idle" THEN "idle" ELSE "done"]
    /\ job' = [c \in Call |-> "off"]
    /\ pendingMessageJobsMap' = [m \in Msg |-> NoCall]
    /\ UNCHANGED <<rows, of, at, jobAt>>

-----------------------------------------------------------------------------
(* Steps of one call that wait for the server, and those that do not.      *)
Answer(c) == Reply(c) \/ Rejected(c) \/ NetworkFailure(c)

LocalStep(c) ==
    \/ sendDm(c)          \/ ReadBack(c)
    \/ CancelOnSuccess(c) \/ CancelOnFailure(c)
    \/ WriteSuccess(c)    \/ WriteFailure(c)

JobStep(c) == JobRead(c) \/ JobWrite(c)

UserStep ==
    \/ \E m \in Msg, c \in Call : sendMessage(m, c)
    \/ \E m \in Msg : Tap(m)
    \/ \E c \in Call : resendTextMessage(c)
    \/ deleteMessage
    \/ Dismiss
    \/ CloseScreen
    \/ OpenScreen

Next ==
    \/ UserStep
    \/ \E c \in Call : Answer(c) \/ LocalStep(c) \/ JobStep(c)
    \/ \E t \in promptJobs : buildPromptMessage(t)
    \/ Crash

Spec == Init /\ [][Next]_vars

(* Dispatchers.IO runs every coroutine that is not waiting for the server, *)
(* and delay(30000) elapses.                                               *)
FairSpec == Spec /\ \A c \in Call : /\ WF_vars(LocalStep(c))
                                    /\ WF_vars(JobStep(c))

(* OkHttp's own timeouts end every request.                                *)
AnsweredSpec == FairSpec /\ \A c \in Call : WF_vars(Answer(c))

-----------------------------------------------------------------------------
(* Properties                                                              *)

(* The job registered for a uuid belongs to a call that sends that uuid:   *)
(* cancelling the entry never silences another message's job.              *)
PendingJobOwned ==
    \A m \in Msg : pendingMessageJobsMap[m] # NoCall =>
                       of[pendingMessageJobsMap[m]] = m

(* What is on its way to settle the message c sends.                       *)
Settling(c) == pc[c] \in {"stored", "matched", "settling"} \/ job[c] # "off"

(* A message shown as being sent always has a call or a job that will      *)
(* settle it, whatever attempts overlapped and whoever cancelled whose     *)
(* job, and through closed screens and crashes.                            *)
SpinnerAttended ==
    \A m \in Msg : ui[m].st = "SENDING" /\ HasRow(m) =>
                       \E c \in Call : of[c] = m /\ Settling(c)

(* A call that has not been started has no job.                            *)
IdleHasNoJob == \A c \in Call : pc[c] = "idle" => job[c] = "off"

(* c is the only execution of sendDm started for its message.              *)
Sole(c) == /\ pc[c] # "idle"
           /\ \A d \in Call \ {c} : of[d] = of[c] => pc[d] = "idle"

(* While a message has been sent only once, its job is the one registered  *)
(* until the answer cancels it, and is off before the answer writes the    *)
(* row and once the row says SUCCESS.                                      *)
FirstJobGuarded ==
    \A c \in Call : Sole(c) =>
        /\ job[c] # "off" /\ pc[c] # "done"
                => pendingMessageJobsMap[of[c]] = c
        /\ pc[c] \in {"stored", "matched", "settling"} => job[c] = "off"
        /\ status[of[c]] = "SUCCESS" => pc[c] = "done" /\ job[c] = "off"

(* Two executions of sendDm were started for m.                            *)
SentAgain(m) ==
    \E c, d \in Call : /\ c # d
                       /\ of[c] = m /\ pc[c] # "idle"
                       /\ of[d] = m /\ pc[d] # "idle"

(* A message that was sent once and reached SUCCESS stays SUCCESS: the job *)
(* is cancelled before the response writes the row, so it cannot win the   *)
(* race between its own read and its write.                                *)
SuccessIsFinal ==
    [][\A m \in Msg : status[m] = "SUCCESS" /\ status'[m] = "FAILED"
                          => SentAgain(m)]_vars

(* No late answer, job or failure brings back a row the user deleted.      *)
DeletedStaysDeleted ==
    [][\A m \in Msg : status[m] = "gone" => status'[m] = "gone"]_vars

(* A message on screen with a row does not show as being sent for ever.    *)
SpinnerSettles ==
    \A m \in Msg : (ui[m].st = "SENDING" /\ HasRow(m))
                       ~> ~(ui[m].st = "SENDING" /\ HasRow(m))

(* The comment on sendDm: "if the job was not cancelled, 30 seconds later  *)
(* look up the send status, and if it is still sending set it to failed".  *)
(* The code does not keep it: the job reads and writes in two steps.       *)
JobFailsOnlySending ==
    [][\A c \in Call : job[c] = "read" /\ job'[c] = "off"
                           /\ status'[of[c]] # status[of[c]]
                               => status[of[c]] = "SENDING"]_vars
=============================================================================
