----------------------------- MODULE VideoUpload -----------------------------
(***************************************************************************)
(* Video messages of SharedViewModel.  A video is put into a queue and one *)
(* at a time is taken out, compressed, its cover uploaded, then the video, *)
(* and then the message is sent.  Each upload has a timer of 30 seconds.   *)
(* Whoever ends the work on a video clears videoMessageDoingQueue and      *)
(* starts the next one.                                                    *)
(*                                                                         *)
(* sendDm (module DmSend) is one step here.  The queue of live ids, which  *)
(* moves along with videoMessageQueue, and the pictures, which have no     *)
(* queue, are left out.  A pollMessage always has a payload.               *)
(***************************************************************************)
EXTENDS Naturals, Sequences

CONSTANTS
    Video,      \* messages, each with its own uuid
    Removable,  \* those whose row can be removed by the user
    CanLogout   \* whether the user can log out

ASSUME RemovableAssumption == Removable \subseteq Video /\ CanLogout \in BOOLEAN

VARIABLES
    sendStatus,   \* of the row
    gone,         \* rows getMessagedByUuid does not find (any more)
    videoMessageQueue,
    videoMessageDoingQueue,
    starters,     \* coroutines of videoMessageStart not yet begun
    passed,       \* ... that have found a video to start and none being done
    stage,        \* how far each video is
    fileExists,   \* the compressed video
    timeoutJob,   \* of each video's uploads
    cloudinaryUploadJob,  \* the timer that can be cancelled
    running       \* the process is alive

queues == <<videoMessageQueue, videoMessageDoingQueue, starters, passed>>
timers == <<timeoutJob, cloudinaryUploadJob>>
vars   == <<sendStatus, gone, queues, stage, fileExists, timers, running>>

Upload == {"cover", "video"}

Stage ==
    {"none", "inserted", "queued", "polled", "processing",
     "cover", "cover silent", "cover ok", "cover error",
     "video", "video silent", "video ok", "video error",
     "failed", "sending", "sent", "no conversation", "given up"}

TypeOK ==
    /\ sendStatus \in [Video -> {"none", "SENDING", "FAILED", "SUCCESS"}]
    /\ gone \subseteq Video
    /\ videoMessageQueue \in Seq(Video) /\ videoMessageDoingQueue \in Seq(Video)
    /\ starters \in Nat /\ passed \in Nat
    /\ stage \in [Video -> Stage]
    /\ fileExists \in [Video -> BOOLEAN]
    /\ timeoutJob \in [Video -> [Upload -> {"off", "armed", "read", "wrote"}]]
    /\ cloudinaryUploadJob \in [Video -> Upload \cup {"none"}]
    /\ running \in BOOLEAN

Init ==
    /\ sendStatus = [v \in Video |-> "none"]
    /\ gone = {}
    /\ videoMessageQueue = <<>> /\ videoMessageDoingQueue = <<>>
    /\ starters = 0 /\ passed = 0
    /\ stage = [v \in Video |-> "none"]
    /\ fileExists = [v \in Video |-> FALSE]
    /\ timeoutJob = [v \in Video |-> [p \in Upload |-> "off"]]
    /\ cloudinaryUploadJob = [v \in Video |-> "none"]
    /\ running = TRUE

-----------------------------------------------------------------------------
(* Parts of the handlers                                                   *)

At(v, s) == running /\ stage[v] = s
Goto(v, s) == stage' = [stage EXCEPT ![v] = s]

Write(v, status) ==
    sendStatus' = IF v \in gone THEN sendStatus
                  ELSE [sendStatus EXCEPT ![v] = status]

(* A timer that has done its write runs on to its end.                     *)
Stopped(job) == IF job = "wrote" THEN "wrote" ELSE "off"

KeepTimer(v) ==   \* faulty: the entry is removed, the timer goes on
    /\ cloudinaryUploadJob' = [cloudinaryUploadJob EXCEPT ![v] = "none"]
    /\ UNCHANGED timeoutJob

cancelJob(v) ==
    LET p == cloudinaryUploadJob[v]
    IN  /\ cloudinaryUploadJob' = [cloudinaryUploadJob EXCEPT ![v] = "none"]
        /\ timeoutJob' = IF p = "none" THEN timeoutJob
                         ELSE [timeoutJob EXCEPT ![v][p] = Stopped(@)]

(* videoMessageDoingQueue.clear(), videoMessageStart()                     *)
ClearOnly ==   \* faulty
    /\ videoMessageDoingQueue' = <<>>
    /\ UNCHANGED <<videoMessageQueue, starters, passed>>

StartWithoutClear ==   \* faulty
    /\ starters' = starters + 1
    /\ UNCHANGED <<videoMessageQueue, videoMessageDoingQueue, passed>>

startNext ==
    /\ videoMessageDoingQueue' = <<>>
    /\ starters' = starters + 1
    /\ UNCHANGED <<videoMessageQueue, passed>>

-----------------------------------------------------------------------------
sendVideoMessage(v) ==
    /\ At(v, "none")
    /\ Goto(v, "inserted")
    /\ sendStatus' = [sendStatus EXCEPT ![v] = "SENDING"]
    /\ UNCHANGED <<gone, queues, fileExists, timers, running>>

Enqueue(v) ==
    /\ At(v, "inserted")
    /\ Goto(v, "queued")
    /\ videoMessageQueue' = Append(videoMessageQueue, v)
    /\ starters' = starters + 1
    /\ UNCHANGED <<sendStatus, gone, videoMessageDoingQueue, passed, fileExists,
                   timers, running>>

(* videoMessageStart: look at both queues ...                              *)
videoMessageStart ==
    /\ running /\ starters > 0
    /\ starters' = starters - 1
    /\ passed' = IF videoMessageQueue # <<>> /\ videoMessageDoingQueue = <<>>
                 THEN passed + 1 ELSE passed
    /\ UNCHANGED <<sendStatus, gone, videoMessageQueue, videoMessageDoingQueue,
                   stage, fileExists, timers, running>>

(* ... poll, which another coroutine may have done first: adding null to   *)
(* the other queue throws and nothing catches it ...                       *)
Poll ==
    /\ running /\ passed > 0
    /\ passed' = passed - 1
    /\ IF videoMessageQueue = <<>>
       THEN running' = FALSE /\ UNCHANGED <<videoMessageQueue, stage>>
       ELSE /\ videoMessageQueue' = Tail(videoMessageQueue)
            /\ Goto(Head(videoMessageQueue), "polled")
            /\ UNCHANGED running
    /\ UNCHANGED <<sendStatus, gone, videoMessageDoingQueue, starters,
                   fileExists, timers>>

(* ... and process.                                                        *)
Begin(v) ==
    /\ At(v, "polled")
    /\ Goto(v, "processing")
    /\ videoMessageDoingQueue' = Append(videoMessageDoingQueue, v)
    /\ UNCHANGED <<sendStatus, gone, videoMessageQueue, starters, passed,
                   fileExists, timers, running>>

(* VideoProcessor.process() throws.                                        *)
ProcessThrows(v) ==
    /\ At(v, "processing")
    /\ running' = FALSE
    /\ UNCHANGED <<sendStatus, gone, queues, stage, fileExists, timers>>

Disarmed(v, upload) ==   \* faulty: the timer is never launched
    /\ cloudinaryUploadJob' = [cloudinaryUploadJob EXCEPT ![v] = upload]
    /\ UNCHANGED timeoutJob

Arm(v, upload) ==
    /\ timeoutJob' = [timeoutJob EXCEPT ![v][upload] = "armed"]
    /\ cloudinaryUploadJob' = [cloudinaryUploadJob EXCEPT ![v] = upload]

initiateVideoCoverS3Upload(v) ==
    /\ At(v, "processing")
    /\ Goto(v, "cover")
    /\ fileExists' = [fileExists EXCEPT ![v] = TRUE]
    /\ Arm(v, "cover")
    /\ UNCHANGED <<sendStatus, gone, queues, running>>

(* uploadMedia: an answer, an error, or nothing at all, when S3 refuses.   *)
uploadMedia(v) ==
    /\ \/ /\ At(v, "cover")
          /\ \E s \in {"cover ok", "cover error", "cover silent"} : Goto(v, s)
       \/ /\ At(v, "video") /\ fileExists[v]
          /\ \E s \in {"video ok", "video error", "video silent"} : Goto(v, s)
       \/ /\ At(v, "video") /\ ~fileExists[v]
          /\ \E s \in {"video error", "video silent"} : Goto(v, s)
    /\ UNCHANGED <<sendStatus, gone, queues, fileExists, timers, running>>

(* The row is gone: nothing more is done, the queues stay as they are.     *)
GiveUp(v) ==
    /\ v \in gone
    /\ Goto(v, "given up")
    /\ cancelJob(v)
    /\ UNCHANGED <<sendStatus, gone, queues, fileExists, running>>

initiateVideoS3Upload(v) ==
    /\ v \notin gone
    /\ Goto(v, "video")
    /\ timeoutJob' = [timeoutJob EXCEPT
           ![v]["cover"] = IF cloudinaryUploadJob[v] = "cover" THEN Stopped(@) ELSE @,
           ![v]["video"] = "armed"]
    /\ cloudinaryUploadJob' = [cloudinaryUploadJob EXCEPT ![v] = "video"]
    /\ UNCHANGED <<sendStatus, gone, queues, fileExists, running>>

CoverUploaded(v) ==
    /\ At(v, "cover ok")
    /\ initiateVideoS3Upload(v) \/ GiveUp(v)

(* The video is uploaded: its timer is cancelled, its file deleted, and its *)
(* conversation looked up, the only time for each video.  What is found is *)
(* chosen here.  With a row (and the same account, or the message would    *)
(* not have been found a step earlier) the message is sent ...             *)
sendDm(v) ==
    /\ v \notin gone
    /\ Goto(v, "sending")
    /\ fileExists' = [fileExists EXCEPT ![v] = FALSE]
    /\ sendStatus' = [sendStatus EXCEPT ![v] = "SUCCESS"]
    /\ cancelJob(v)
    /\ UNCHANGED <<gone, queues, running>>

(* ... and without one the work ends here: the message stays SENDING and   *)
(* the queues as they are.  A live's video has no conversation (conId ""), *)
(* and syncConversationList deletes the row of a conversation that the     *)
(* server lists no more but not its messages.                              *)
NoConversation(v) ==
    /\ v \notin gone
    /\ Goto(v, "no conversation")
    /\ fileExists' = [fileExists EXCEPT ![v] = FALSE]
    /\ cancelJob(v)
    /\ UNCHANGED <<sendStatus, gone, queues, running>>

VideoUploaded(v) ==
    /\ At(v, "video ok")
    /\ sendDm(v) \/ NoConversation(v) \/ GiveUp(v)

SendEnds(v) ==
    /\ At(v, "sending")
    /\ Goto(v, "sent")
    /\ \E status \in {"SUCCESS", "FAILED"} : Write(v, status)
    /\ startNext
    /\ UNCHANGED <<gone, fileExists, timers, running>>

UploadFailed(v) ==
    /\ At(v, "cover error") \/ At(v, "video error")
    /\ Goto(v, "failed")
    /\ cancelJob(v)
    /\ fileExists' = [fileExists EXCEPT ![v] = (v \in gone /\ @ /\ stage[v] = "video error")]
    /\ Write(v, "FAILED")
    /\ UNCHANGED <<gone, queues, running>>

NextAfterFailure(v) ==
    /\ At(v, "failed")
    /\ Goto(v, "given up")
    /\ startNext
    /\ UNCHANGED <<sendStatus, gone, fileExists, timers, running>>

(* The timer: after 30 seconds it looks for the row, deletes the file ...  *)
TimerReads(v, upload) ==
    /\ running /\ timeoutJob[v][upload] = "armed"
    /\ timeoutJob' = [timeoutJob EXCEPT
           ![v][upload] = IF v \in gone THEN "off" ELSE "read"]
    /\ fileExists' = [fileExists EXCEPT ![v] = @ /\ v \in gone]
    /\ UNCHANGED <<sendStatus, gone, queues, stage, cloudinaryUploadJob, running>>

(* ... fails the message, unless it was cancelled ...                      *)
TimerWrites(v, upload) ==
    /\ running /\ timeoutJob[v][upload] = "read"
    /\ timeoutJob' = [timeoutJob EXCEPT ![v][upload] = "wrote"]
    /\ Write(v, "FAILED")
    /\ UNCHANGED <<gone, queues, stage, fileExists, cloudinaryUploadJob, running>>

(* ... and starts the next video, whatever is being done by now.           *)
TimerEnds(v, upload) ==
    /\ running /\ timeoutJob[v][upload] = "wrote"
    /\ timeoutJob' = [timeoutJob EXCEPT ![v][upload] = "off"]
    /\ cloudinaryUploadJob' = [cloudinaryUploadJob EXCEPT ![v] = "none"]
    /\ startNext
    /\ UNCHANGED <<sendStatus, gone, stage, fileExists, running>>

(* The conversation is deleted, or the failed message.                     *)
RemoveRow(v) ==
    /\ running /\ v \in Removable /\ stage[v] # "none"
    /\ gone' = gone \cup {v}
    /\ UNCHANGED <<sendStatus, queues, stage, fileExists, timers, running>>

(* Messages of another account are not found.                              *)
Logout ==
    /\ running /\ CanLogout
    /\ gone' = gone \cup {v \in Video : stage[v] # "none"}
    /\ videoMessageQueue' = <<>> /\ videoMessageDoingQueue' = <<>>
    /\ UNCHANGED <<sendStatus, starters, passed, stage, fileExists, timers, running>>

-----------------------------------------------------------------------------
Work(v) ==
    \/ Enqueue(v) \/ Begin(v) \/ ProcessThrows(v) \/ initiateVideoCoverS3Upload(v)
    \/ uploadMedia(v) \/ CoverUploaded(v) \/ VideoUploaded(v) \/ SendEnds(v)
    \/ UploadFailed(v) \/ NextAfterFailure(v)

Timer(v, upload) ==
    TimerReads(v, upload) \/ TimerWrites(v, upload) \/ TimerEnds(v, upload)

Next ==
    \/ \E v \in Video :
           \/ sendVideoMessage(v) \/ RemoveRow(v) \/ Work(v)
           \/ \E upload \in Upload : Timer(v, upload)
    \/ videoMessageStart \/ Poll \/ Logout

Spec == Init /\ [][Next]_vars

(* Coroutines are scheduled, processing and uploads end, timers elapse.    *)
FairSpec ==
    /\ Spec
    /\ \A v \in Video : WF_vars(Work(v))
    /\ \A v \in Video, upload \in Upload : WF_vars(Timer(v, upload))
    /\ WF_vars(videoMessageStart) /\ WF_vars(Poll)

-----------------------------------------------------------------------------
(* Properties                                                              *)

(* A video in the queue is not forgotten: whenever no video is being done, *)
(* a coroutine that will take one out is on its way.                       *)
StartComes ==
    running /\ videoMessageQueue # <<>> /\ videoMessageDoingQueue = <<>> =>
        starters + passed > 0 \/ \E v \in Video : stage[v] = "polled"

(* v's work is not over: a step of it or one of its timers is to come.     *)
UnderWay(v) ==
    \/ stage[v] \in {"processing", "cover", "cover ok", "cover error",
                     "video", "video ok", "video error", "failed", "sending"}
    \/ \E upload \in Upload : timeoutJob[v][upload] # "off"

(* The two ends of the work on a video that clear no queue.                *)
Dropped(v) == v \in gone \/ stage[v] = "no conversation"

(* A video in videoMessageDoingQueue is being worked on, so that somebody  *)
(* will clear the queue, an upload that is never answered included, unless *)
(* its row was removed or its conversation not found.                      *)
DoingEnds ==
    running =>
        \A i \in DOMAIN videoMessageDoingQueue :
            UnderWay(videoMessageDoingQueue[i]) \/ Dropped(videoMessageDoingQueue[i])

(* A video that was uploaded and handed to sendDm is not failed by a timer *)
(* afterwards, late, overlapping or lost from the map as timers may be.    *)
SuccessIsKept ==
    [][\A v \in Video : sendStatus[v] = "SUCCESS" /\ sendStatus'[v] # "SUCCESS"
                            => SendEnds(v)]_vars

(* Every video gets its turn and its message an outcome, as long as the    *)
(* process lives.  Left out are the videos that are dropped themselves and *)
(* those that wait behind one that was.                                    *)
Settled ==
    \A v \in Video :
        sendStatus[v] = "SENDING" ~>
            \/ sendStatus[v] # "SENDING" \/ Dropped(v) \/ ~running
            \/ \E i \in DOMAIN videoMessageDoingQueue : Dropped(videoMessageDoingQueue[i])

(* The comment in videoMessageStart, "then upload": a video in the queue   *)
(* has its turn whatever happens to the rows of others.  The code does not *)
(* keep it: a row that is gone leaves videoMessageDoingQueue as it is.     *)
TurnComes ==
    \A v \in Video :
        stage[v] = "queued" ~> (stage[v] # "queued" \/ v \in gone \/ ~running)
=============================================================================
