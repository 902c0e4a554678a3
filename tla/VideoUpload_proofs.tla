------------------------- MODULE VideoUpload_proofs -------------------------
(* Proofs about VideoUpload for any set of videos.                         *)
EXTENDS VideoUpload, TLAPS

-----------------------------------------------------------------------------
(* Types                                                                   *)

Timer4 == {"off", "armed", "read", "wrote"}

(* What cancelJob does to the timers of v, and that it leaves others alone.*)
LEMMA CancelEffect ==
    ASSUME TypeOK, NEW v \in Video, cancelJob(v)
    PROVE  /\ timeoutJob' \in [Video -> [Upload -> Timer4]]
           /\ cloudinaryUploadJob' \in [Video -> Upload \cup {"none"}]
           /\ \A p \in Upload : timeoutJob'[v][p] =
                  IF cloudinaryUploadJob[v] = p THEN Stopped(timeoutJob[v][p])
                  ELSE timeoutJob[v][p]
           /\ \A w \in Video : w # v => /\ timeoutJob'[w] = timeoutJob[w]
                                        /\ cloudinaryUploadJob'[w] = cloudinaryUploadJob[w]
<1> DEFINE q == cloudinaryUploadJob[v]
<1>1. timeoutJob \in [Video -> [Upload -> Timer4]] /\ q \in Upload \cup {"none"}
    BY DEF TypeOK, Timer4
<1>2. cloudinaryUploadJob' = [cloudinaryUploadJob EXCEPT ![v] = "none"]
    BY DEF cancelJob
<1>3. CASE q = "none"
  <2>1. timeoutJob' = timeoutJob
      BY <1>3 DEF cancelJob
  <2>2. \A p \in Upload : q # p
      BY <1>3 DEF Upload
  <2> QED BY <1>1, <1>2, <2>1, <2>2 DEF TypeOK
<1>4. CASE q # "none"
  <2>1. q \in Upload
      BY <1>1, <1>4
  <2>2. timeoutJob' = [timeoutJob EXCEPT ![v][q] = Stopped(@)]
      BY <1>4 DEF cancelJob
  <2>3. timeoutJob[v][q] \in Timer4 /\ Stopped(timeoutJob[v][q]) \in Timer4
      BY <1>1, <2>1 DEF Stopped, Timer4
  <2> HIDE DEF q
  <2>4. timeoutJob' \in [Video -> [Upload -> Timer4]]
      BY <1>1, <2>1, <2>2, <2>3
  <2>5. \A p \in Upload : timeoutJob'[v][p] = IF q = p THEN Stopped(timeoutJob[v][p])
                                               ELSE timeoutJob[v][p]
      BY <1>1, <2>1, <2>2
  <2>6. \A w \in Video : w # v => timeoutJob'[w] = timeoutJob[w]
      BY <1>1, <2>2
  <2> QED BY <1>2, <2>4, <2>5, <2>6 DEF q, TypeOK
<1> QED BY <1>3, <1>4

(* Starting the next video keeps the types of the queues.                  *)
LEMMA StartNextType ==
    ASSUME TypeOK, startNext
    PROVE  /\ videoMessageQueue' \in Seq(Video) /\ videoMessageDoingQueue' \in Seq(Video)
           /\ starters' \in Nat /\ passed' \in Nat
<1>1. <<>> \in Seq(Video)
    OBVIOUS
<1> QED BY <1>1 DEF TypeOK, startNext

(* Writing a row keeps the types.                                          *)
LEMMA WriteType ==
    ASSUME TypeOK, NEW v \in Video, NEW status \in {"FAILED", "SUCCESS"},
           Write(v, status)
    PROVE  /\ sendStatus' \in [Video -> {"none", "SENDING", "FAILED", "SUCCESS"}]
           /\ \A w \in Video : w # v => sendStatus'[w] = sendStatus[w]
           /\ sendStatus'[v] \in {sendStatus[v], status}
BY DEF TypeOK, Write

(* One timer of v is set to a state.                                       *)
LEMMA TimerEffect ==
    ASSUME TypeOK, NEW v \in Video, NEW p \in Upload, NEW t \in Timer4,
           timeoutJob' = [timeoutJob EXCEPT ![v][p] = t]
    PROVE  /\ timeoutJob' \in [Video -> [Upload -> Timer4]]
           /\ timeoutJob'[v][p] = t
           /\ \A u \in Upload : u # p => timeoutJob'[v][u] = timeoutJob[v][u]
           /\ \A w \in Video : w # v => timeoutJob'[w] = timeoutJob[w]
<1>1. timeoutJob \in [Video -> [Upload -> Timer4]]
    BY DEF TypeOK, Timer4
<1> QED BY <1>1

(* Both timers of v when the cover is there and the video goes out.        *)
LEMMA VideoArmed ==
    ASSUME TypeOK, NEW v \in Video, initiateVideoS3Upload(v)
    PROVE  /\ timeoutJob' \in [Video -> [Upload -> Timer4]]
           /\ timeoutJob'[v]["video"] = "armed"
           /\ timeoutJob'[v]["cover"] =
                  IF cloudinaryUploadJob[v] = "cover"
                  THEN Stopped(timeoutJob[v]["cover"]) ELSE timeoutJob[v]["cover"]
           /\ \A w \in Video : w # v => timeoutJob'[w] = timeoutJob[w]
<1>1. timeoutJob \in [Video -> [Upload -> Timer4]]
    BY DEF TypeOK, Timer4
<1> DEFINE t == IF cloudinaryUploadJob[v] = "cover"
                THEN Stopped(timeoutJob[v]["cover"]) ELSE timeoutJob[v]["cover"]
<1>2. "cover" \in Upload /\ "video" \in Upload
    BY DEF Upload
<1>3. t \in Timer4 /\ "armed" \in Timer4
    BY <1>1, <1>2 DEF Stopped, Timer4
<1>4. timeoutJob' = [timeoutJob EXCEPT ![v]["cover"] = t, ![v]["video"] = "armed"]
    BY DEF initiateVideoS3Upload
<1> HIDE DEF t
<1>5. /\ timeoutJob' \in [Video -> [Upload -> Timer4]]
      /\ timeoutJob'[v]["video"] = "armed"
      /\ timeoutJob'[v]["cover"] = t
      /\ \A w \in Video : w # v => timeoutJob'[w] = timeoutJob[w]
    BY <1>1, <1>2, <1>3, <1>4
<1> QED BY <1>5 DEF t

(* Every step keeps the types.                                             *)
LEMMA TypeStep == TypeOK /\ [Next]_vars => TypeOK'
<1> SUFFICES ASSUME TypeOK, [Next]_vars PROVE TypeOK'
    OBVIOUS
<1> USE DEF queues, timers
<1>t. "off" \in Timer4 /\ "armed" \in Timer4 /\ "read" \in Timer4 /\ "wrote" \in Timer4
    BY DEF Timer4
<1>u. "cover" \in Upload /\ "video" \in Upload
    BY DEF Upload
<1>1. ASSUME NEW v \in Video, sendVideoMessage(v) PROVE TypeOK'
    BY <1>1 DEF TypeOK, sendVideoMessage, Goto, Stage
<1>2. ASSUME NEW v \in Video, RemoveRow(v) PROVE TypeOK'
    BY <1>2 DEF TypeOK, RemoveRow
<1>3. ASSUME NEW v \in Video, Enqueue(v) PROVE TypeOK'
  <2>1. videoMessageQueue' \in Seq(Video)
      BY <1>3 DEF TypeOK, Enqueue
  <2>2. starters' \in Nat
      BY <1>3 DEF TypeOK, Enqueue
  <2>3. stage' \in [Video -> Stage]
      BY <1>3 DEF TypeOK, Enqueue, Goto, Stage
  <2> QED BY <1>3, <2>1, <2>2, <2>3 DEF TypeOK, Enqueue
<1>4. ASSUME NEW v \in Video, Begin(v) PROVE TypeOK'
  <2>1. videoMessageDoingQueue' \in Seq(Video)
      BY <1>4 DEF TypeOK, Begin
  <2>2. stage' \in [Video -> Stage]
      BY <1>4 DEF TypeOK, Begin, Goto, Stage
  <2> QED BY <1>4, <2>1, <2>2 DEF TypeOK, Begin
<1>5. ASSUME NEW v \in Video, ProcessThrows(v) PROVE TypeOK'
    BY <1>5 DEF TypeOK, ProcessThrows
<1>6. ASSUME NEW v \in Video, initiateVideoCoverS3Upload(v) PROVE TypeOK'
  <2>1. timeoutJob' \in [Video -> [Upload -> Timer4]]
      BY <1>6, <1>t, <1>u, TimerEffect DEF initiateVideoCoverS3Upload, Arm
  <2> QED BY <1>6, <1>u, <2>1 DEF TypeOK, initiateVideoCoverS3Upload, Arm, Goto, Stage, Timer4
<1>7. ASSUME NEW v \in Video, uploadMedia(v) PROVE TypeOK'
  <2>1. stage' \in [Video -> Stage]
      BY <1>7 DEF TypeOK, uploadMedia, Goto, Stage
  <2> QED BY <1>7, <2>1 DEF TypeOK, uploadMedia
<1>8. ASSUME NEW v \in Video, CoverUploaded(v) PROVE TypeOK'
  <2>1. CASE initiateVideoS3Upload(v)
      BY <2>1, <1>u, VideoArmed DEF TypeOK, initiateVideoS3Upload, Goto, Stage, Timer4
  <2>2. CASE GiveUp(v)
      BY <2>2, CancelEffect DEF TypeOK, GiveUp, Goto, Stage, Timer4
  <2> QED BY <1>8, <2>1, <2>2 DEF CoverUploaded
<1>9. ASSUME NEW v \in Video, VideoUploaded(v) PROVE TypeOK'
  <2>1. CASE sendDm(v)
      BY <2>1, CancelEffect DEF TypeOK, sendDm, Goto, Stage, Timer4
  <2>2. CASE NoConversation(v)
      BY <2>2, CancelEffect DEF TypeOK, NoConversation, Goto, Stage, Timer4
  <2>3. CASE GiveUp(v)
      BY <2>3, CancelEffect DEF TypeOK, GiveUp, Goto, Stage, Timer4
  <2> QED BY <1>9, <2>1, <2>2, <2>3 DEF VideoUploaded
<1>10. ASSUME NEW v \in Video, SendEnds(v) PROVE TypeOK'
  <2>1. PICK status \in {"FAILED", "SUCCESS"} : Write(v, status)
      BY <1>10 DEF SendEnds
  <2>2. startNext
      BY <1>10 DEF SendEnds
  <2> QED BY <1>10, <2>1, <2>2, WriteType, StartNextType DEF TypeOK, SendEnds, Goto, Stage
<1>11. ASSUME NEW v \in Video, UploadFailed(v) PROVE TypeOK'
  <2>1. cancelJob(v) /\ Write(v, "FAILED")
      BY <1>11 DEF UploadFailed
  <2>2. fileExists' \in [Video -> BOOLEAN]
      BY <1>11 DEF TypeOK, UploadFailed
  <2>3. sendStatus' \in [Video -> {"none", "SENDING", "FAILED", "SUCCESS"}]
      BY <2>1, WriteType
  <2>4. /\ timeoutJob' \in [Video -> [Upload -> Timer4]]
        /\ cloudinaryUploadJob' \in [Video -> Upload \cup {"none"}]
      BY <2>1, CancelEffect
  <2> QED BY <1>11, <2>2, <2>3, <2>4 DEF TypeOK, UploadFailed, Goto, Stage, Timer4
<1>12. ASSUME NEW v \in Video, NextAfterFailure(v) PROVE TypeOK'
    BY <1>12, StartNextType DEF TypeOK, NextAfterFailure, Goto, Stage
<1>13. ASSUME NEW v \in Video, NEW p \in Upload, TimerReads(v, p) PROVE TypeOK'
  <2>1. timeoutJob' \in [Video -> [Upload -> Timer4]]
      BY <1>13, <1>t, TimerEffect DEF TimerReads
  <2>2. fileExists' \in [Video -> BOOLEAN]
      BY <1>13 DEF TypeOK, TimerReads
  <2> QED BY <1>13, <2>1, <2>2 DEF TypeOK, TimerReads, Timer4
<1>14. ASSUME NEW v \in Video, NEW p \in Upload, TimerWrites(v, p) PROVE TypeOK'
    BY <1>14, <1>t, TimerEffect, WriteType DEF TypeOK, TimerWrites, Timer4
<1>15. ASSUME NEW v \in Video, NEW p \in Upload, TimerEnds(v, p) PROVE TypeOK'
  <2>1. timeoutJob' \in [Video -> [Upload -> Timer4]]
      BY <1>15, <1>t, TimerEffect DEF TimerEnds
  <2>2. cloudinaryUploadJob' \in [Video -> Upload \cup {"none"}]
      BY <1>15 DEF TypeOK, TimerEnds
  <2> QED BY <1>15, <2>1, <2>2, StartNextType DEF TypeOK, TimerEnds, Timer4
<1>16. CASE videoMessageStart
    BY <1>16 DEF TypeOK, videoMessageStart
<1>17. CASE Poll
  <2>1. passed' \in Nat
      BY <1>17 DEF TypeOK, Poll
  <2>2. CASE videoMessageQueue = <<>>
      BY <1>17, <2>1, <2>2 DEF TypeOK, Poll
  <2>3. CASE videoMessageQueue # <<>>
    <3>1. Head(videoMessageQueue) \in Video /\ Tail(videoMessageQueue) \in Seq(Video)
        BY <2>3 DEF TypeOK
    <3> QED BY <1>17, <2>1, <2>3, <3>1 DEF TypeOK, Poll, Goto, Stage
  <2> QED BY <2>2, <2>3
<1>18. CASE Logout
  <2>1. <<>> \in Seq(Video)
      OBVIOUS
  <2> QED BY <1>18, <2>1 DEF TypeOK, Logout
<1>19. CASE UNCHANGED vars
    BY <1>19 DEF TypeOK, vars
<1> QED BY <1>1, <1>2, <1>3, <1>4, <1>5, <1>6, <1>7, <1>8, <1>9, <1>10, <1>11,
           <1>12, <1>13, <1>14, <1>15, <1>16, <1>17, <1>18, <1>19
        DEF Next, Work, Timer

(* The variables keep their types: the two queues hold videos, every timer *)
(* is in one of its states, for any set of videos.                         *)
THEOREM TypeCorrect == Spec => []TypeOK
<1>1. Init => TypeOK
  <2> SUFFICES ASSUME Init PROVE TypeOK
      OBVIOUS
  <2>1. <<>> \in Seq(Video)
      OBVIOUS
  <2> QED BY <2>1 DEF Init, TypeOK, Stage, Upload
<1> QED BY <1>1, TypeStep, PTL DEF Spec

-----------------------------------------------------------------------------
(* A start is on its way                                                   *)

(* Where the stage of a video that is not polled changes, a polled one     *)
(* stays polled.                                                           *)
LEMMA PolledStays ==
    ASSUME TypeOK, NEW v \in Video, NEW s \in Stage, Goto(v, s), stage[v] # "polled"
    PROVE  \A w \in Video : stage[w] = "polled" => stage'[w] = "polled"
BY DEF TypeOK, Goto

LEMMA StartComesStep == TypeOK /\ TypeOK' /\ StartComes /\ [Next]_vars => StartComes'
<1> SUFFICES ASSUME TypeOK, TypeOK', StartComes, [Next]_vars PROVE StartComes'
    OBVIOUS
<1> USE DEF queues, timers
<1>n. starters \in Nat /\ passed \in Nat /\ starters' \in Nat /\ passed' \in Nat
    BY DEF TypeOK
<1>k. ASSUME NEW v \in Video, NEW s \in Stage, Goto(v, s), stage[v] # "polled",
             UNCHANGED queues, UNCHANGED running
      PROVE  StartComes'
    BY <1>k, PolledStays DEF StartComes
<1>s. ASSUME startNext PROVE StartComes'
    BY <1>s, <1>n DEF startNext, StartComes
<1>1. ASSUME NEW v \in Video, sendVideoMessage(v) PROVE StartComes'
    BY <1>1, <1>k DEF sendVideoMessage, At, Stage
<1>2. ASSUME NEW v \in Video, RemoveRow(v) PROVE StartComes'
    BY <1>2 DEF RemoveRow, StartComes
<1>3. ASSUME NEW v \in Video, Enqueue(v) PROVE StartComes'
  <2>1. starters' + passed' > 0
      BY <1>3, <1>n DEF Enqueue
  <2> QED BY <2>1 DEF StartComes
<1>4. ASSUME NEW v \in Video, Begin(v) PROVE StartComes'
  <2>1. videoMessageDoingQueue' # <<>>
      BY <1>4 DEF TypeOK, Begin
  <2> QED BY <2>1 DEF StartComes
<1>5. ASSUME NEW v \in Video, ProcessThrows(v) PROVE StartComes'
    BY <1>5 DEF ProcessThrows, StartComes
<1>6. ASSUME NEW v \in Video, initiateVideoCoverS3Upload(v) PROVE StartComes'
    BY <1>6, <1>k DEF initiateVideoCoverS3Upload, At, Stage
<1>7. ASSUME NEW v \in Video, uploadMedia(v) PROVE StartComes'
  <2>1. PICK s \in {"cover ok", "cover error", "cover silent",
                    "video ok", "video error", "video silent"} : Goto(v, s)
      BY <1>7 DEF uploadMedia
  <2>2. stage[v] # "polled" /\ UNCHANGED queues /\ UNCHANGED running
      BY <1>7 DEF uploadMedia, At
  <2> QED BY <2>1, <2>2, <1>k DEF Stage
<1>8. ASSUME NEW v \in Video, CoverUploaded(v) PROVE StartComes'
    BY <1>8, <1>k DEF CoverUploaded, initiateVideoS3Upload, GiveUp, At, Stage
<1>9. ASSUME NEW v \in Video, VideoUploaded(v) PROVE StartComes'
    BY <1>9, <1>k DEF VideoUploaded, sendDm, NoConversation, GiveUp, At, Stage
<1>10. ASSUME NEW v \in Video, SendEnds(v) PROVE StartComes'
    BY <1>10, <1>s DEF SendEnds
<1>11. ASSUME NEW v \in Video, UploadFailed(v) PROVE StartComes'
    BY <1>11, <1>k DEF UploadFailed, At, Stage
<1>12. ASSUME NEW v \in Video, NextAfterFailure(v) PROVE StartComes'
    BY <1>12, <1>s DEF NextAfterFailure
<1>13. ASSUME NEW v \in Video, NEW p \in Upload, TimerReads(v, p) PROVE StartComes'
    BY <1>13 DEF TimerReads, StartComes
<1>14. ASSUME NEW v \in Video, NEW p \in Upload, TimerWrites(v, p) PROVE StartComes'
    BY <1>14 DEF TimerWrites, StartComes
<1>15. ASSUME NEW v \in Video, NEW p \in Upload, TimerEnds(v, p) PROVE StartComes'
    BY <1>15, <1>s DEF TimerEnds
<1>16. CASE videoMessageStart
  <2>1. CASE videoMessageQueue # <<>> /\ videoMessageDoingQueue = <<>>
    <3>1. starters' = starters - 1 /\ starters > 0 /\ passed' = passed + 1
        BY <1>16, <2>1 DEF videoMessageStart
    <3>2. starters' + passed' > 0
      <4> HIDE DEF StartComes
      <4> QED BY <1>n, <3>1
    <3> QED BY <3>2 DEF StartComes
  <2>2. CASE ~(videoMessageQueue # <<>> /\ videoMessageDoingQueue = <<>>)
      BY <1>16, <2>2 DEF videoMessageStart, StartComes
  <2> QED BY <2>1, <2>2
<1>17. CASE Poll
  <2>1. CASE videoMessageQueue = <<>>
      BY <1>17, <2>1 DEF Poll, StartComes
  <2>2. CASE videoMessageQueue # <<>>
    <3> DEFINE h == Head(videoMessageQueue)
    <3>1. h \in Video
        BY <2>2 DEF TypeOK
    <3>2. stage' = [stage EXCEPT ![h] = "polled"]
        BY <1>17, <2>2 DEF Poll, Goto
    <3>3. stage'[h] = "polled"
        BY <3>1, <3>2 DEF TypeOK
    <3> QED BY <3>1, <3>3 DEF StartComes
  <2> QED BY <2>1, <2>2
<1>18. CASE Logout
    BY <1>18 DEF Logout, StartComes
<1>19. CASE UNCHANGED vars
    BY <1>19 DEF vars, StartComes
<1> QED BY <1>1, <1>2, <1>3, <1>4, <1>5, <1>6, <1>7, <1>8, <1>9, <1>10, <1>11,
           <1>12, <1>13, <1>14, <1>15, <1>16, <1>17, <1>18, <1>19
        DEF Next, Work, Timer

(* Whenever videos wait and none is being done, a coroutine that will take *)
(* one out is on its way, for any number of videos and starts.             *)
THEOREM StartAlwaysComes == Spec => []StartComes
<1>1. Init => StartComes
    BY DEF Init, StartComes
<1>2. TypeOK /\ TypeOK' /\ StartComes /\ [Next]_vars => StartComes'
    BY StartComesStep
<1> QED BY <1>1, <1>2, TypeCorrect, PTL DEF Spec

-----------------------------------------------------------------------------
(* The invariant of queues and timers                                      *)

Beginning == {"none", "inserted", "queued", "polled", "processing"}
Covering  == {"cover", "cover silent", "cover ok", "cover error"}
Filming   == {"video", "video silent", "video ok", "video error"}
Handed    == {"sending", "sent"}
Pending   == {"armed", "read"}   \* a timer that can still write FAILED

(* The queue holds videos that wait, each once.                            *)
QueueInv ==
    /\ \A i \in 1..Len(videoMessageQueue) : stage[videoMessageQueue[i]] = "queued"
    /\ \A i, k \in 1..Len(videoMessageQueue) :
           videoMessageQueue[i] = videoMessageQueue[k] => i = k

BeginningInv(v) ==
    stage[v] \in Beginning =>
        timeoutJob[v]["cover"] = "off" /\ timeoutJob[v]["video"] = "off"

(* The timer of the cover is the one in the map as long as it can write,   *)
(* and once it has read the row the file is gone.                          *)
CoveringInv(v) ==
    stage[v] \in Covering =>
        /\ timeoutJob[v]["video"] = "off"
        /\ timeoutJob[v]["cover"] \in Pending => cloudinaryUploadJob[v] = "cover"
        /\ timeoutJob[v]["cover"] \in {"read", "wrote"} => ~fileExists[v]

(* The upload of the video can still succeed: it needs the file.           *)
Uploadable(v) == stage[v] = "video ok" \/ (stage[v] = "video" /\ fileExists[v])

FilmingInv(v) ==
    /\ stage[v] \in Filming => timeoutJob[v]["cover"] \notin Pending
    /\ Uploadable(v) =>
           /\ timeoutJob[v]["cover"] = "off"
           /\ timeoutJob[v]["video"] \in Pending => cloudinaryUploadJob[v] = "video"

HandedInv(v) ==
    /\ stage[v] \in Handed => timeoutJob[v]["cover"] \notin Pending
                              /\ timeoutJob[v]["video"] \notin Pending
    /\ sendStatus[v] = "SUCCESS" => stage[v] \in Handed

Doing == {videoMessageDoingQueue[i] : i \in 1..Len(videoMessageDoingQueue)}

(* A video that is being done has a step or a timer that ends its work,    *)
(* unless it was dropped.                                                  *)
DoingInv(v) ==
    v \in Doing /\ ~Dropped(v) =>
        \/ stage[v] \in {"processing", "failed", "sending"}
        \/ stage[v] \in Covering /\ timeoutJob[v]["cover"] # "off"
        \/ stage[v] \in Filming /\ timeoutJob[v]["video"] # "off"

VideoInv(v) ==
    BeginningInv(v) /\ CoveringInv(v) /\ FilmingInv(v) /\ HandedInv(v) /\ DoingInv(v)

IInv == TypeOK /\ QueueInv /\ \A v \in Video : VideoInv(v)

(* A step that leaves w alone keeps what is known of w.                    *)
LEMMA Frame ==
    ASSUME NEW w \in Video, VideoInv(w),
           stage'[w] = stage[w], timeoutJob'[w] = timeoutJob[w],
           cloudinaryUploadJob'[w] = cloudinaryUploadJob[w],
           fileExists'[w] = fileExists[w], sendStatus'[w] = sendStatus[w],
           gone \subseteq gone', w \in Doing' => w \in Doing
    PROVE  VideoInv(w)'
<1>1. Dropped(w) => Dropped(w)'
    BY DEF Dropped
<1>2. DoingInv(w)'
    BY <1>1 DEF VideoInv, DoingInv
<1>3. BeginningInv(w)' /\ CoveringInv(w)'
    BY DEF VideoInv, BeginningInv, CoveringInv
<1>4. FilmingInv(w)'
    BY DEF VideoInv, FilmingInv, Uploadable
<1>5. HandedInv(w)'
    BY DEF VideoInv, HandedInv
<1> QED BY <1>2, <1>3, <1>4, <1>5 DEF VideoInv

(* A step that leaves the queue alone and moves a video that does not wait *)
(* keeps the queue in order.                                               *)
LEMMA QueueFrame ==
    ASSUME TypeOK, QueueInv, UNCHANGED videoMessageQueue,
           \A w \in Video : stage[w] = "queued" => stage'[w] = "queued"
    PROVE  QueueInv'
BY DEF TypeOK, QueueInv

(* What Goto does to the stages.                                           *)
LEMMA GotoEffect ==
    ASSUME TypeOK, NEW v \in Video, NEW s, Goto(v, s)
    PROVE  /\ stage'[v] = s
           /\ \A w \in Video : w # v => stage'[w] = stage[w]
BY DEF TypeOK, Goto

(* Starting the next video empties the queue of those being done.          *)
LEMMA DoingCleared ==
    ASSUME videoMessageDoingQueue' = <<>>
    PROVE  Doing' = {}
BY DEF Doing

LEMMA FourTimers ==
    ASSUME TypeOK, NEW v \in Video
    PROVE  timeoutJob[v]["cover"] \in Timer4 /\ timeoutJob[v]["video"] \in Timer4
BY DEF TypeOK, Timer4, Upload

(* Steps of one video that leave the queues alone.                         *)
LEMMA WorkStep ==
    ASSUME IInv, NEW v \in Video,
           \/ initiateVideoCoverS3Upload(v) \/ uploadMedia(v) \/ CoverUploaded(v)
           \/ VideoUploaded(v) \/ UploadFailed(v)
    PROVE  QueueInv' /\ \A w \in Video : VideoInv(w)'
<1> USE DEF queues, timers
<1>t. TypeOK /\ QueueInv /\ VideoInv(v) /\ \A w \in Video : VideoInv(w)
    BY DEF IInv
<1>u. timeoutJob[v]["cover"] \in Timer4 /\ timeoutJob[v]["video"] \in Timer4
    BY <1>t, FourTimers
<1>p. "cover" \in Upload /\ "video" \in Upload
    BY DEF Upload
(* What every one of these steps does to other videos and to the queue.    *)
<1>f. ASSUME NEW s, Goto(v, s), stage[v] # "queued", UNCHANGED <<queues, gone>>,
             \A w \in Video : w # v =>
                 /\ timeoutJob'[w] = timeoutJob[w]
                 /\ cloudinaryUploadJob'[w] = cloudinaryUploadJob[w]
                 /\ fileExists'[w] = fileExists[w]
                 /\ sendStatus'[w] = sendStatus[w],
             VideoInv(v)'
      PROVE  QueueInv' /\ \A w \in Video : VideoInv(w)'
  <2>1. \A w \in Video : w # v => stage'[w] = stage[w]
      BY <1>f, <1>t, GotoEffect
  <2>2. QueueInv'
      BY <1>f, <1>t, <2>1, QueueFrame
  <2>3. ASSUME NEW w \in Video, w # v PROVE VideoInv(w)'
    <3>1. gone \subseteq gone' /\ Doing' = Doing
        BY <1>f DEF Doing
    <3> QED BY <1>f, <1>t, <2>1, <2>3, <3>1, Frame
  <2> QED BY <1>f, <2>2, <2>3
<1>1. CASE initiateVideoCoverS3Upload(v)
  <2>1. /\ stage[v] = "processing" /\ Goto(v, "cover")
        /\ fileExists' = [fileExists EXCEPT ![v] = TRUE]
        /\ timeoutJob' = [timeoutJob EXCEPT ![v]["cover"] = "armed"]
        /\ cloudinaryUploadJob' = [cloudinaryUploadJob EXCEPT ![v] = "cover"]
        /\ UNCHANGED <<sendStatus, gone, queues>>
      BY <1>1 DEF initiateVideoCoverS3Upload, Arm, At
  <2>2. /\ timeoutJob'[v]["cover"] = "armed"
        /\ timeoutJob'[v]["video"] = timeoutJob[v]["video"]
        /\ \A w \in Video : w # v => timeoutJob'[w] = timeoutJob[w]
    <3>1. "armed" \in Timer4
        BY DEF Timer4
    <3>2. timeoutJob' = [timeoutJob EXCEPT ![v]["cover"] = "armed"]
        BY <2>1
    <3>3. /\ timeoutJob'[v]["cover"] = "armed"
          /\ \A u \in Upload : u # "cover" => timeoutJob'[v][u] = timeoutJob[v][u]
          /\ \A w \in Video : w # v => timeoutJob'[w] = timeoutJob[w]
      <4>1. TypeOK /\ "cover" \in Upload
          BY <1>t, <1>p
      <4> QED BY ONLY <4>1, <3>1, <3>2, v \in Video, TimerEffect
    <3> QED BY <1>p, <3>3
  <2>3. /\ cloudinaryUploadJob'[v] = "cover" /\ stage'[v] = "cover"
        /\ sendStatus'[v] = sendStatus[v]
        /\ \A w \in Video : w # v => /\ cloudinaryUploadJob'[w] = cloudinaryUploadJob[w]
                                     /\ fileExists'[w] = fileExists[w]
      BY <2>1, <1>t, GotoEffect DEF TypeOK
  <2>4. timeoutJob[v]["video"] = "off" /\ sendStatus[v] # "SUCCESS"
      BY <2>1, <1>t DEF VideoInv, BeginningInv, HandedInv, Beginning, Handed
  <2>5. VideoInv(v)'
    <3>1. BeginningInv(v)' /\ CoveringInv(v)'
        BY <2>2, <2>3, <2>4 DEF BeginningInv, CoveringInv, Beginning
    <3>2. FilmingInv(v)'
        BY <2>3 DEF FilmingInv, Uploadable, Filming
    <3>3. HandedInv(v)'
        BY <2>3, <2>4 DEF HandedInv, Handed
    <3>4. DoingInv(v)'
        BY <2>2, <2>3 DEF DoingInv, Covering
    <3> QED BY <3>1, <3>2, <3>3, <3>4 DEF VideoInv
  <2> QED BY <2>1, <2>2, <2>3, <2>5, <1>f
<1>2. CASE uploadMedia(v)
  <2>1. UNCHANGED <<sendStatus, gone, queues, fileExists, timers>>
      BY <1>2 DEF uploadMedia
  <2>2. PICK s \in {"cover ok", "cover error", "cover silent",
                    "video ok", "video error", "video silent"} :
            /\ Goto(v, s)
            /\ s \in {"cover ok", "cover error", "cover silent"} => stage[v] = "cover"
            /\ s \in {"video ok", "video error", "video silent"} => stage[v] = "video"
            /\ s = "video ok" => fileExists[v]
      BY <1>2 DEF uploadMedia, At
  <2>3. stage'[v] = s
      BY <2>2, <1>t, GotoEffect
  <2>4. Doing' = Doing
      BY <2>1 DEF Doing
  <2>5. VideoInv(v)'
    <3>1. BeginningInv(v)' /\ CoveringInv(v)' /\ HandedInv(v)'
        BY <2>1, <2>2, <2>3, <1>t
        DEF VideoInv, BeginningInv, CoveringInv, HandedInv,
            Beginning, Covering, Handed
    <3>2. FilmingInv(v)'
        BY <2>1, <2>2, <2>3, <1>t DEF VideoInv, FilmingInv, Uploadable, Filming
    <3>3. DoingInv(v)'
        BY <2>1, <2>2, <2>3, <2>4, <1>t DEF VideoInv, DoingInv, Dropped, Covering, Filming
    <3> QED BY <3>1, <3>2, <3>3 DEF VideoInv
  <2>6. stage[v] # "queued"
      BY <2>2
  <2> QED BY <2>1, <2>2, <2>5, <2>6, <1>f
(* Where work ends because the row is gone.                                *)
<1>g. ASSUME GiveUp(v), stage[v] \in {"cover ok", "video ok"}
      PROVE  QueueInv' /\ \A w \in Video : VideoInv(w)'
  <2>1. /\ Goto(v, "given up") /\ cancelJob(v) /\ v \in gone
        /\ UNCHANGED <<sendStatus, gone, queues, fileExists>>
      BY <1>g DEF GiveUp
  <2>2. stage'[v] = "given up"
      BY <2>1, <1>t, GotoEffect
  <2>3. sendStatus[v] # "SUCCESS"
      BY <1>g, <1>t DEF VideoInv, HandedInv, Handed
  <2>4. VideoInv(v)'
      BY <2>1, <2>2, <2>3
      DEF VideoInv, BeginningInv, CoveringInv, FilmingInv, HandedInv, DoingInv,
          Dropped, Uploadable, Beginning, Covering, Filming, Handed
  <2>5. stage[v] # "queued"
      BY <1>g
  <2> QED BY <2>1, <2>4, <2>5, <1>f, <1>t, CancelEffect
<1>3. CASE CoverUploaded(v)
  <2>1. stage[v] = "cover ok"
      BY <1>3 DEF CoverUploaded, At
  <2>2. CASE initiateVideoS3Upload(v)
    <3>1. /\ Goto(v, "video")
          /\ cloudinaryUploadJob' = [cloudinaryUploadJob EXCEPT ![v] = "video"]
          /\ UNCHANGED <<sendStatus, gone, queues, fileExists>>
        BY <2>2 DEF initiateVideoS3Upload
    <3>2. /\ stage'[v] = "video" /\ cloudinaryUploadJob'[v] = "video"
          /\ \A w \in Video : w # v => cloudinaryUploadJob'[w] = cloudinaryUploadJob[w]
        BY <3>1, <1>t, GotoEffect DEF TypeOK
    <3>3. /\ timeoutJob'[v]["video"] = "armed"
          /\ timeoutJob'[v]["cover"] =
                 IF cloudinaryUploadJob[v] = "cover"
                 THEN Stopped(timeoutJob[v]["cover"]) ELSE timeoutJob[v]["cover"]
          /\ \A w \in Video : w # v => timeoutJob'[w] = timeoutJob[w]
        BY <2>2, <1>t, VideoArmed
    <3>4. CoveringInv(v) /\ sendStatus[v] # "SUCCESS"
        BY <2>1, <1>t DEF VideoInv, HandedInv, Handed
    <3>5. /\ timeoutJob'[v]["cover"] \notin Pending
          /\ fileExists[v] => timeoutJob'[v]["cover"] = "off"
        BY <2>1, <3>3, <3>4, <1>u DEF CoveringInv, Covering, Pending, Stopped, Timer4
    <3>6. VideoInv(v)'
        BY <3>1, <3>2, <3>3, <3>4, <3>5
        DEF VideoInv, BeginningInv, CoveringInv, FilmingInv, HandedInv, DoingInv,
            Uploadable, Beginning, Covering, Filming, Handed, Pending
    <3>7. stage[v] # "queued"
        BY <2>1
    <3> QED BY <3>1, <3>2, <3>3, <3>6, <3>7, <1>f
  <2> QED BY <1>3, <2>1, <2>2, <1>g DEF CoverUploaded
<1>4. CASE VideoUploaded(v)
  <2>1. stage[v] = "video ok"
      BY <1>4 DEF VideoUploaded, At
  <2>2. CASE sendDm(v)
    <3>1. /\ Goto(v, "sending") /\ cancelJob(v)
          /\ fileExists' = [fileExists EXCEPT ![v] = FALSE]
          /\ sendStatus' = [sendStatus EXCEPT ![v] = "SUCCESS"]
          /\ UNCHANGED <<gone, queues>>
        BY <2>2 DEF sendDm
    <3>2. /\ timeoutJob'[v]["cover"] = IF cloudinaryUploadJob[v] = "cover"
                  THEN Stopped(timeoutJob[v]["cover"]) ELSE timeoutJob[v]["cover"]
          /\ timeoutJob'[v]["video"] = IF cloudinaryUploadJob[v] = "video"
                  THEN Stopped(timeoutJob[v]["video"]) ELSE timeoutJob[v]["video"]
          /\ \A w \in Video : w # v => /\ timeoutJob'[w] = timeoutJob[w]
                                       /\ cloudinaryUploadJob'[w] = cloudinaryUploadJob[w]
        BY <3>1, <1>t, <1>p, CancelEffect
    <3>3. FilmingInv(v)
        BY <1>t DEF VideoInv
    <3>4. /\ timeoutJob'[v]["cover"] \notin Pending
          /\ timeoutJob'[v]["video"] \notin Pending
        BY <2>1, <3>2, <3>3, <1>u DEF FilmingInv, Uploadable, Pending, Stopped, Timer4
    <3>5. stage'[v] = "sending"
        BY <3>1, <1>t, GotoEffect
    <3>6. \A w \in Video : w # v => fileExists'[w] = fileExists[w]
                                    /\ sendStatus'[w] = sendStatus[w]
        BY <3>1, <1>t DEF TypeOK
    <3>7. VideoInv(v)'
        BY <3>4, <3>5
        DEF VideoInv, BeginningInv, CoveringInv, FilmingInv, HandedInv, DoingInv,
            Uploadable, Beginning, Covering, Filming, Handed
    <3>8. stage[v] # "queued"
        BY <2>1
    <3> QED BY <3>1, <3>2, <3>6, <3>7, <3>8, <1>f
  <2>3. CASE NoConversation(v)
    <3>1. /\ Goto(v, "no conversation") /\ cancelJob(v)
          /\ fileExists' = [fileExists EXCEPT ![v] = FALSE]
          /\ UNCHANGED <<sendStatus, gone, queues>>
        BY <2>3 DEF NoConversation
    <3>2. stage'[v] = "no conversation"
        BY <3>1, <1>t, GotoEffect
    <3>3. sendStatus[v] # "SUCCESS"
        BY <2>1, <1>t DEF VideoInv, HandedInv, Handed
    <3>4. VideoInv(v)'
        BY <3>1, <3>2, <3>3
        DEF VideoInv, BeginningInv, CoveringInv, FilmingInv, HandedInv, DoingInv,
            Dropped, Uploadable, Beginning, Covering, Filming, Handed
    <3>5. \A w \in Video : w # v => fileExists'[w] = fileExists[w]
        BY <3>1, <1>t DEF TypeOK
    <3>6. stage[v] # "queued"
        BY <2>1
    <3> QED BY <3>1, <3>4, <3>5, <3>6, <1>f, <1>t, CancelEffect
  <2> QED BY <1>4, <2>1, <2>2, <2>3, <1>g DEF VideoUploaded
<1>5. CASE UploadFailed(v)
  <2>1. /\ stage[v] \in {"cover error", "video error"}
        /\ Goto(v, "failed") /\ cancelJob(v) /\ Write(v, "FAILED")
        /\ UNCHANGED <<gone, queues>>
      BY <1>5 DEF UploadFailed, At
  <2>2. stage'[v] = "failed"
      BY <2>1, <1>t, GotoEffect
  <2>3. /\ sendStatus'[v] \in {sendStatus[v], "FAILED"}
        /\ \A w \in Video : w # v => sendStatus'[w] = sendStatus[w]
      BY <2>1, <1>t, WriteType
  <2>4. \A w \in Video : w # v => fileExists'[w] = fileExists[w]
      BY <1>5, <1>t DEF TypeOK, UploadFailed
  <2>5. sendStatus'[v] # "SUCCESS"
      BY <2>1, <2>3, <1>t DEF VideoInv, HandedInv, Handed
  <2>6. VideoInv(v)'
      BY <2>2, <2>5
      DEF VideoInv, BeginningInv, CoveringInv, FilmingInv, HandedInv, DoingInv,
          Uploadable, Beginning, Covering, Filming, Handed
  <2>7. stage[v] # "queued"
      BY <2>1
  <2> QED BY <2>1, <2>3, <2>4, <2>6, <2>7, <1>f, <1>t, CancelEffect
<1> QED BY <1>1, <1>2, <1>3, <1>4, <1>5

(* Steps of the timers: they write FAILED only over a message that was not *)
(* handed to sendDm, because its timers were cancelled.                    *)
LEMMA TimerStep ==
    ASSUME IInv, NEW v \in Video, NEW p \in Upload, Timer(v, p)
    PROVE  QueueInv' /\ \A w \in Video : VideoInv(w)'
<1> USE DEF queues, timers
<1>t. TypeOK /\ QueueInv /\ VideoInv(v) /\ \A w \in Video : VideoInv(w)
    BY DEF IInv
<1>u. timeoutJob[v]["cover"] \in Timer4 /\ timeoutJob[v]["video"] \in Timer4
    BY <1>t, FourTimers
<1>p. "cover" \in Upload /\ "video" \in Upload /\ (p = "cover" \/ p = "video")
    BY DEF Upload
<1>q. ASSUME UNCHANGED stage, UNCHANGED videoMessageQueue PROVE QueueInv'
    BY <1>q, <1>t, QueueFrame
<1>1. CASE TimerReads(v, p)
  <2>1. /\ timeoutJob[v][p] = "armed"
        /\ timeoutJob' = [timeoutJob EXCEPT
               ![v][p] = IF v \in gone THEN "off" ELSE "read"]
        /\ fileExists' = [fileExists EXCEPT ![v] = @ /\ v \in gone]
        /\ UNCHANGED <<sendStatus, gone, queues, stage, cloudinaryUploadJob>>
      BY <1>1 DEF TimerReads
  <2> DEFINE t == IF v \in gone THEN "off" ELSE "read"
  <2>2. t \in Timer4 /\ t \in {"off", "read"} /\ (t = "off" => v \in gone)
      BY DEF Timer4
  <2>3. timeoutJob' = [timeoutJob EXCEPT ![v][p] = t]
      BY <2>1
  <2>4. v \notin gone => ~fileExists'[v]
      BY <2>1, <1>t DEF TypeOK
  <2>5. fileExists'[v] => fileExists[v]
      BY <2>1, <1>t DEF TypeOK
  <2>6. \A w \in Video : w # v => fileExists'[w] = fileExists[w]
      BY <2>1, <1>t DEF TypeOK
  <2>7. t = "read" => ~fileExists'[v]
      BY <2>4
  <2> HIDE DEF t
  <2>8. /\ timeoutJob'[v][p] = t
        /\ \A u \in Upload : u # p => timeoutJob'[v][u] = timeoutJob[v][u]
        /\ \A w \in Video : w # v => timeoutJob'[w] = timeoutJob[w]
      BY <2>2, <2>3, <1>t, TimerEffect
  <2>9. /\ p = "cover" => /\ timeoutJob'[v]["cover"] = t
                          /\ timeoutJob'[v]["video"] = timeoutJob[v]["video"]
        /\ p = "video" => /\ timeoutJob'[v]["video"] = t
                          /\ timeoutJob'[v]["cover"] = timeoutJob[v]["cover"]
      BY <2>8, <1>p
  <2>10. Doing' = Doing /\ gone \subseteq gone'
      BY <2>1 DEF Doing
  <2>11. VideoInv(v)'
    <3>1. BeginningInv(v)'
        BY <2>1, <2>9, <1>p, <1>t DEF VideoInv, BeginningInv
    <3>2. CoveringInv(v)'
        BY <2>1, <2>2, <2>5, <2>7, <2>9, <1>p, <1>t DEF VideoInv, CoveringInv, Pending
    <3>3. FilmingInv(v)'
        BY <2>1, <2>2, <2>5, <2>9, <1>p, <1>t
        DEF VideoInv, FilmingInv, Uploadable, Pending, Filming
    <3>4. HandedInv(v)'
        BY <2>1, <2>2, <2>9, <1>p, <1>t DEF VideoInv, HandedInv, Pending
    <3>5. DoingInv(v)'
        BY <2>1, <2>2, <2>9, <2>10, <1>p, <1>t DEF VideoInv, DoingInv, Dropped
    <3> QED BY <3>1, <3>2, <3>3, <3>4, <3>5 DEF VideoInv
  <2>12. ASSUME NEW w \in Video, w # v PROVE VideoInv(w)'
      BY <2>1, <2>6, <2>8, <2>10, <2>12, <1>t, Frame
  <2> QED BY <2>1, <2>11, <2>12, <1>q
<1>2. CASE TimerWrites(v, p)
  <2>1. /\ timeoutJob[v][p] = "read"
        /\ timeoutJob' = [timeoutJob EXCEPT ![v][p] = "wrote"]
        /\ Write(v, "FAILED")
        /\ UNCHANGED <<gone, queues, stage, fileExists, cloudinaryUploadJob>>
      BY <1>2 DEF TimerWrites
  <2>2. "wrote" \in Timer4
      BY DEF Timer4
  <2>3. /\ timeoutJob'[v][p] = "wrote"
        /\ \A u \in Upload : u # p => timeoutJob'[v][u] = timeoutJob[v][u]
        /\ \A w \in Video : w # v => timeoutJob'[w] = timeoutJob[w]
      BY <2>1, <2>2, <1>t, TimerEffect
  <2>4. /\ p = "cover" => /\ timeoutJob'[v]["cover"] = "wrote"
                          /\ timeoutJob'[v]["video"] = timeoutJob[v]["video"]
        /\ p = "video" => /\ timeoutJob'[v]["video"] = "wrote"
                          /\ timeoutJob'[v]["cover"] = timeoutJob[v]["cover"]
      BY <2>3, <1>p
  <2>5. stage[v] \notin Handed
      BY <2>1, <1>p, <1>t DEF VideoInv, HandedInv, Pending
  <2>6. /\ sendStatus'[v] \in {sendStatus[v], "FAILED"}
        /\ \A w \in Video : w # v => sendStatus'[w] = sendStatus[w]
      BY <2>1, <1>t, WriteType
  <2>7. Doing' = Doing /\ gone \subseteq gone'
      BY <2>1 DEF Doing
  <2>8. VideoInv(v)'
    <3>1. BeginningInv(v)'
        BY <2>1, <2>4, <1>p, <1>t DEF VideoInv, BeginningInv
    <3>2. CoveringInv(v)'
        BY <2>1, <2>4, <1>p, <1>t DEF VideoInv, CoveringInv, Pending
    <3>3. FilmingInv(v)'
        BY <2>1, <2>4, <1>p, <1>t DEF VideoInv, FilmingInv, Uploadable, Pending, Filming
    <3>4. HandedInv(v)'
        BY <2>1, <2>5, <2>6, <1>t DEF VideoInv, HandedInv
    <3>5. DoingInv(v)'
        BY <2>1, <2>4, <2>7, <1>p, <1>t DEF VideoInv, DoingInv, Dropped
    <3> QED BY <3>1, <3>2, <3>3, <3>4, <3>5 DEF VideoInv
  <2>9. ASSUME NEW w \in Video, w # v PROVE VideoInv(w)'
      BY <2>1, <2>3, <2>6, <2>7, <2>9, <1>t, Frame
  <2> QED BY <2>1, <2>8, <2>9, <1>q
<1>3. CASE TimerEnds(v, p)
  <2>1. /\ timeoutJob[v][p] = "wrote"
        /\ timeoutJob' = [timeoutJob EXCEPT ![v][p] = "off"]
        /\ cloudinaryUploadJob' = [cloudinaryUploadJob EXCEPT ![v] = "none"]
        /\ startNext
        /\ UNCHANGED <<sendStatus, gone, stage, fileExists>>
      BY <1>3 DEF TimerEnds
  <2>2. "off" \in Timer4
      BY DEF Timer4
  <2>3. /\ timeoutJob'[v][p] = "off"
        /\ \A u \in Upload : u # p => timeoutJob'[v][u] = timeoutJob[v][u]
        /\ \A w \in Video : w # v => timeoutJob'[w] = timeoutJob[w]
      BY <2>1, <2>2, <1>t, TimerEffect
  <2>4. /\ p = "cover" => /\ timeoutJob'[v]["cover"] = "off"
                          /\ timeoutJob'[v]["video"] = timeoutJob[v]["video"]
        /\ p = "video" => /\ timeoutJob'[v]["video"] = "off"
                          /\ timeoutJob'[v]["cover"] = timeoutJob[v]["cover"]
      BY <2>3, <1>p
  <2>5. /\ Doing' = {} /\ gone \subseteq gone' /\ UNCHANGED videoMessageQueue
        /\ \A w \in Video : w # v => cloudinaryUploadJob'[w] = cloudinaryUploadJob[w]
      BY <2>1, <1>t, DoingCleared DEF startNext, TypeOK
  <2>6. VideoInv(v)'
    <3>1. BeginningInv(v)' /\ HandedInv(v)' /\ DoingInv(v)'
        BY <2>1, <2>4, <2>5, <1>p, <1>t
        DEF VideoInv, BeginningInv, HandedInv, DoingInv, Pending
    <3>2. CoveringInv(v)'
        BY <2>1, <2>4, <1>p, <1>t DEF VideoInv, CoveringInv, Pending
    <3>3. FilmingInv(v)'
        BY <2>1, <2>4, <1>p, <1>t DEF VideoInv, FilmingInv, Uploadable, Pending, Filming
    <3> QED BY <3>1, <3>2, <3>3 DEF VideoInv
  <2>7. ASSUME NEW w \in Video, w # v PROVE VideoInv(w)'
      BY <2>1, <2>3, <2>5, <2>7, <1>t, Frame
  <2> QED BY <2>1, <2>5, <2>6, <2>7, <1>q
<1> QED BY <1>1, <1>2, <1>3 DEF Timer

(* Steps that only leave the file, the timers and a video's row alone.     *)
LEMMA QueueStep ==
    ASSUME IInv, TypeOK',
           \/ \E v \in Video : \/ sendVideoMessage(v) \/ RemoveRow(v) \/ Enqueue(v)
                               \/ Begin(v) \/ ProcessThrows(v)
                               \/ SendEnds(v) \/ NextAfterFailure(v)
           \/ videoMessageStart \/ Poll \/ Logout
    PROVE  QueueInv' /\ \A w \in Video : VideoInv(w)'
<1> USE DEF queues, timers
<1>t. TypeOK /\ QueueInv /\ \A w \in Video : VideoInv(w)
    BY DEF IInv
<1>f. ASSUME UNCHANGED <<stage, fileExists, timers, sendStatus>>,
             gone \subseteq gone', Doing' \subseteq Doing
      PROVE  \A w \in Video : VideoInv(w)'
    BY <1>f, <1>t, Frame
<1>g. ASSUME NEW v \in Video, NEW s, Goto(v, s), UNCHANGED <<fileExists, timers>>,
             gone \subseteq gone', Doing' \subseteq Doing \cup {v},
             \A w \in Video : w # v => sendStatus'[w] = sendStatus[w],
             VideoInv(v)'
      PROVE  \A w \in Video : VideoInv(w)'
  <2>1. \A w \in Video : w # v => stage'[w] = stage[w]
      BY <1>g, <1>t, GotoEffect
  <2>2. ASSUME NEW w \in Video, w # v PROVE VideoInv(w)'
      BY <1>g, <1>t, <2>1, <2>2, Frame
  <2> QED BY <1>g, <2>2
<1>h. ASSUME NEW v \in Video, NEW s, Goto(v, s), stage[v] # "queued",
             UNCHANGED videoMessageQueue
      PROVE  QueueInv'
  <2>1. \A w \in Video : w # v => stage'[w] = stage[w]
      BY <1>h, <1>t, GotoEffect
  <2> QED BY <1>h, <1>t, <2>1, QueueFrame
<1>q. ASSUME UNCHANGED stage, UNCHANGED videoMessageQueue PROVE QueueInv'
    BY <1>q, <1>t, QueueFrame
<1>1. ASSUME NEW v \in Video, sendVideoMessage(v)
      PROVE  QueueInv' /\ \A w \in Video : VideoInv(w)'
  <2>1. /\ stage[v] = "none" /\ Goto(v, "inserted")
        /\ sendStatus' = [sendStatus EXCEPT ![v] = "SENDING"]
        /\ UNCHANGED <<gone, queues, fileExists, timers>>
      BY <1>1 DEF sendVideoMessage, At
  <2>2. /\ sendStatus'[v] = "SENDING" /\ stage'[v] = "inserted"
        /\ \A w \in Video : w # v => sendStatus'[w] = sendStatus[w]
      BY <2>1, <1>t, GotoEffect DEF TypeOK
  <2>3. Doing' = Doing
      BY <2>1 DEF Doing
  <2>4. VideoInv(v)'
      BY <2>1, <2>2, <2>3, <1>t
      DEF VideoInv, BeginningInv, CoveringInv, FilmingInv, HandedInv, DoingInv,
          Dropped, Uploadable, Beginning, Covering, Filming, Handed
  <2> QED BY <2>1, <2>2, <2>3, <2>4, <1>g, <1>h
<1>2. ASSUME NEW v \in Video, RemoveRow(v)
      PROVE  QueueInv' /\ \A w \in Video : VideoInv(w)'
  <2>1. Doing' = Doing
      BY <1>2 DEF RemoveRow, Doing
  <2> QED BY <1>2, <2>1, <1>f, <1>q DEF RemoveRow
<1>3. ASSUME NEW v \in Video, Enqueue(v)
      PROVE  QueueInv' /\ \A w \in Video : VideoInv(w)'
  <2>1. /\ stage[v] = "inserted" /\ Goto(v, "queued")
        /\ videoMessageQueue' = Append(videoMessageQueue, v)
        /\ UNCHANGED <<sendStatus, gone, videoMessageDoingQueue, fileExists, timers>>
      BY <1>3 DEF Enqueue, At
  <2>2. stage'[v] = "queued" /\ \A w \in Video : w # v => stage'[w] = stage[w]
      BY <2>1, <1>t, GotoEffect
  <2>3. Doing' = Doing
      BY <2>1 DEF Doing
  <2>4. VideoInv(v)'
      BY <2>1, <2>2, <2>3, <1>t
      DEF VideoInv, BeginningInv, CoveringInv, FilmingInv, HandedInv, DoingInv,
          Dropped, Uploadable, Beginning, Covering, Filming, Handed
  <2>5. QueueInv'
    <3> DEFINE q == videoMessageQueue
               n == Len(videoMessageQueue)
    <3>1. q \in Seq(Video) /\ n \in Nat /\ q' = Append(q, v) /\ Len(q') = n + 1
        BY <2>1, <1>t DEF TypeOK
    <3>2. \A i \in 1..n : q'[i] = q[i] /\ q[i] \in Video
        BY <3>1
    <3>3. q'[n + 1] = v
        BY <3>1
    <3>4. \A i \in 1..n : stage[q[i]] = "queued" /\ q[i] # v
        BY <2>1, <1>t DEF QueueInv
    <3>5. \A i \in 1..(n + 1) : i \in 1..n \/ i = n + 1
        BY <3>1
    <3>6. \A i \in 1..(n + 1) : stage'[q'[i]] = "queued"
        BY <2>2, <3>2, <3>3, <3>4, <3>5
    <3>7. \A i, k \in 1..(n + 1) : q'[i] = q'[k] => i = k
        BY <1>t, <3>2, <3>3, <3>4, <3>5 DEF QueueInv
    <3> QED BY <3>1, <3>6, <3>7 DEF QueueInv
  <2> QED BY <2>1, <2>3, <2>4, <2>5, <1>g
<1>4. ASSUME NEW v \in Video, Begin(v)
      PROVE  QueueInv' /\ \A w \in Video : VideoInv(w)'
  <2>1. /\ stage[v] = "polled" /\ Goto(v, "processing")
        /\ videoMessageDoingQueue' = Append(videoMessageDoingQueue, v)
        /\ UNCHANGED <<sendStatus, gone, videoMessageQueue, fileExists, timers>>
      BY <1>4 DEF Begin, At
  <2>2. stage'[v] = "processing"
      BY <2>1, <1>t, GotoEffect
  <2>3. Doing' \subseteq Doing \cup {v}
    <3> DEFINE d == videoMessageDoingQueue
    <3>1. d \in Seq(Video) /\ d' = Append(d, v)
        BY <2>1, <1>t DEF TypeOK
    <3>2. \A i \in 1..Len(d') : \/ i \in 1..Len(d) /\ d'[i] = d[i]
                                \/ d'[i] = v
        BY <3>1
    <3> QED BY <3>2 DEF Doing
  <2>4. VideoInv(v)'
      BY <2>1, <2>2, <1>t
      DEF VideoInv, BeginningInv, CoveringInv, FilmingInv, HandedInv, DoingInv,
          Uploadable, Beginning, Covering, Filming, Handed
  <2> QED BY <2>1, <2>3, <2>4, <1>g, <1>h
<1>5. ASSUME NEW v \in Video, ProcessThrows(v)
      PROVE  QueueInv' /\ \A w \in Video : VideoInv(w)'
  <2>1. Doing' = Doing
      BY <1>5 DEF ProcessThrows, Doing
  <2> QED BY <1>5, <2>1, <1>f, <1>q DEF ProcessThrows
<1>6. ASSUME NEW v \in Video, SendEnds(v)
      PROVE  QueueInv' /\ \A w \in Video : VideoInv(w)'
  <2>1. /\ stage[v] = "sending" /\ Goto(v, "sent") /\ startNext
        /\ UNCHANGED <<gone, fileExists, timers>>
      BY <1>6 DEF SendEnds, At
  <2>2. PICK status \in {"FAILED", "SUCCESS"} : Write(v, status)
      BY <1>6 DEF SendEnds
  <2>3. \A w \in Video : w # v => sendStatus'[w] = sendStatus[w]
      BY <2>2, <1>t, WriteType
  <2>4. stage'[v] = "sent" /\ Doing' = {} /\ UNCHANGED videoMessageQueue
      BY <2>1, <1>t, GotoEffect, DoingCleared DEF startNext
  <2>5. VideoInv(v)'
      BY <2>1, <2>4, <1>t
      DEF VideoInv, BeginningInv, CoveringInv, FilmingInv, HandedInv, DoingInv,
          Uploadable, Beginning, Covering, Filming, Handed
  <2> QED BY <2>1, <2>3, <2>4, <2>5, <1>g, <1>h
<1>7. ASSUME NEW v \in Video, NextAfterFailure(v)
      PROVE  QueueInv' /\ \A w \in Video : VideoInv(w)'
  <2>1. /\ stage[v] = "failed" /\ Goto(v, "given up") /\ startNext
        /\ UNCHANGED <<sendStatus, gone, fileExists, timers>>
      BY <1>7 DEF NextAfterFailure, At
  <2>2. stage'[v] = "given up" /\ Doing' = {} /\ UNCHANGED videoMessageQueue
      BY <2>1, <1>t, GotoEffect, DoingCleared DEF startNext
  <2>3. VideoInv(v)'
      BY <2>1, <2>2, <1>t
      DEF VideoInv, BeginningInv, CoveringInv, FilmingInv, HandedInv, DoingInv,
          Uploadable, Beginning, Covering, Filming, Handed
  <2> QED BY <2>1, <2>2, <2>3, <1>g, <1>h
<1>8. CASE videoMessageStart
  <2>1. Doing' = Doing
      BY <1>8 DEF videoMessageStart, Doing
  <2> QED BY <1>8, <2>1, <1>f, <1>q DEF videoMessageStart
<1>9. CASE Poll
  <2>1. CASE videoMessageQueue = <<>>
    <3>1. Doing' = Doing
        BY <1>9 DEF Poll, Doing
    <3> QED BY <1>9, <2>1, <3>1, <1>f, <1>q DEF Poll
  <2>2. CASE videoMessageQueue # <<>>
    <3> DEFINE q == videoMessageQueue
    <3>0. PICK h \in Video : h = Head(q)
        BY <2>2, <1>t DEF TypeOK
    <3>1. /\ q' = Tail(q) /\ Goto(h, "polled")
          /\ UNCHANGED <<sendStatus, gone, videoMessageDoingQueue, fileExists, timers>>
        BY <1>9, <2>2, <3>0 DEF Poll
    <3>2. /\ q \in Seq(Video) /\ h \in Video /\ h = q[1] /\ 1 \in 1..Len(q)
          /\ Len(q') = Len(q) - 1 /\ Len(q) \in Nat
          /\ \A i \in 1..Len(q') : q'[i] = q[i + 1] /\ i + 1 \in 1..Len(q)
                                   /\ q[i + 1] \in Video
        BY <2>2, <3>0, <3>1, <1>t DEF TypeOK
    <3>3. stage[h] = "queued"
        BY <3>2, <1>t DEF QueueInv
    <3>4. stage'[h] = "polled" /\ \A w \in Video : w # h => stage'[w] = stage[w]
        BY <3>1, <3>2, <1>t, GotoEffect
    <3>5. Doing' = Doing
        BY <3>1 DEF Doing
    <3>6. VideoInv(h)'
      <4> HIDE DEF q
      <4>1. VideoInv(h) /\ UNCHANGED <<sendStatus, gone, fileExists, timers>>
          BY <3>1, <1>t
      <4>2. BeginningInv(h)' /\ CoveringInv(h)' /\ FilmingInv(h)'
          BY <3>3, <3>4, <4>1
          DEF VideoInv, BeginningInv, CoveringInv, FilmingInv, Uploadable,
              Beginning, Covering, Filming
      <4>3. HandedInv(h)'
          BY <3>3, <3>4, <4>1 DEF VideoInv, HandedInv, Handed
      <4>4. DoingInv(h)'
          BY <3>3, <3>4, <3>5, <4>1
          DEF VideoInv, DoingInv, Dropped, Covering, Filming
      <4> QED BY <4>2, <4>3, <4>4 DEF VideoInv
    <3>7. \A i \in 1..Len(q') : q'[i] # h
      <4>1. \A i \in 1..Len(q) : q[i] = q[1] => i = 1
          BY <3>2, <1>t DEF QueueInv
      <4>2. \A i \in 1..Len(q') : q'[i] = q[i + 1] /\ i + 1 \in 1..Len(q) /\ i + 1 # 1
          BY <3>2
      <4> QED BY <3>2, <4>1, <4>2
    <3>8. \A i \in 1..Len(q') : stage'[q'[i]] = "queued"
        BY <3>2, <3>4, <3>7, <1>t DEF QueueInv
    <3>9. \A i, k \in 1..Len(q') : q'[i] = q'[k] => i = k
        BY <3>2, <1>t DEF QueueInv
    <3>10. QueueInv'
        BY <3>8, <3>9 DEF QueueInv
    <3> QED BY <3>1, <3>2, <3>5, <3>6, <3>10, <1>g
  <2> QED BY <2>1, <2>2
<1>10. CASE Logout
  <2>1. Doing' = {} /\ gone \subseteq gone'
      BY <1>10, DoingCleared DEF Logout
  <2>2. QueueInv'
    <3>1. Len(videoMessageQueue') = 0
        BY <1>10 DEF Logout
    <3> QED BY <3>1 DEF QueueInv
  <2> QED BY <1>10, <2>1, <2>2, <1>f DEF Logout
<1> QED BY <1>1, <1>2, <1>3, <1>4, <1>5, <1>6, <1>7, <1>8, <1>9, <1>10

LEMMA InvStep == IInv /\ [Next]_vars => IInv'
<1> SUFFICES ASSUME IInv, [Next]_vars PROVE IInv'
    OBVIOUS
<1>1. TypeOK'
    BY TypeStep DEF IInv
<1>2. CASE UNCHANGED vars
  <2>1. \A w \in Video : VideoInv(w)
      BY DEF IInv
  <2>2. Doing' = Doing /\ gone \subseteq gone'
      BY <1>2 DEF vars, queues, Doing
  <2>3. \A w \in Video : VideoInv(w)'
      BY <1>2, <2>1, <2>2, Frame DEF vars, timers
  <2>4. QueueInv'
      BY <1>2, QueueFrame DEF IInv, vars, queues
  <2> QED BY <1>1, <2>3, <2>4 DEF IInv
<1>3. CASE Next
  <2>1. QueueInv' /\ \A w \in Video : VideoInv(w)'
      BY <1>1, <1>3, WorkStep, TimerStep, QueueStep DEF Next, Work
  <2> QED BY <1>1, <2>1 DEF IInv
<1> QED BY <1>2, <1>3

LEMMA Inductive == Spec => []IInv
<1>1. Init => IInv
  <2> SUFFICES ASSUME Init PROVE IInv
      OBVIOUS
  <2>1. <<>> \in Seq(Video) /\ Len(<<>>) = 0
      OBVIOUS
  <2>2. TypeOK
      BY <2>1 DEF Init, TypeOK, Stage, Upload
  <2>3. QueueInv
      BY DEF Init, QueueInv
  <2>4. Doing = {}
      BY DEF Init, Doing
  <2>5. ASSUME NEW v \in Video PROVE VideoInv(v)
      BY <2>4
      DEF Init, VideoInv, BeginningInv, CoveringInv, FilmingInv, HandedInv,
          DoingInv, Uploadable, Beginning, Covering, Filming, Handed, Upload
  <2> QED BY <2>2, <2>3, <2>5 DEF IInv
<1> QED BY <1>1, InvStep, PTL DEF Spec

(* Each video in videoMessageDoingQueue is worked on, so that somebody     *)
(* will clear the queue, an upload that is never answered included; only   *)
(* a video whose row was removed or whose conversation was not found is    *)
(* left there.                                                             *)
THEOREM DoingAlwaysEnds == Spec => []DoingEnds
<1>1. IInv => DoingEnds
  <2> SUFFICES ASSUME IInv, NEW i \in DOMAIN videoMessageDoingQueue
               PROVE  \/ UnderWay(videoMessageDoingQueue[i])
                      \/ Dropped(videoMessageDoingQueue[i])
      BY DEF DoingEnds
  <2>1. videoMessageDoingQueue \in Seq(Video)
      BY DEF IInv, TypeOK
  <2>2. i \in 1..Len(videoMessageDoingQueue) /\ videoMessageDoingQueue[i] \in Video
      BY <2>1
  <2>3. PICK v \in Video : v = videoMessageDoingQueue[i]
      BY <2>2
  <2>4. v \in Doing
      BY <2>2, <2>3 DEF Doing
  <2>5. DoingInv(v)
      BY DEF IInv, VideoInv
  <2>6. UnderWay(v) \/ Dropped(v)
    <3>1. CASE stage[v] \in {"cover silent", "video silent"}
        BY <2>4, <2>5, <3>1 DEF DoingInv, UnderWay, Upload, Covering, Filming
    <3>2. CASE stage[v] \notin {"cover silent", "video silent"}
        BY <2>4, <2>5, <3>2 DEF DoingInv, UnderWay, Covering, Filming
    <3> QED BY <3>1, <3>2
  <2> QED BY <2>3, <2>6
<1> QED BY <1>1, Inductive, PTL

(* No timer, late, overlapping or lost from the map, fails a video that    *)
(* was handed to sendDm: only the outcome of sendDm itself does.           *)
THEOREM SuccessStays == Spec => SuccessIsKept
<1> DEFINE Kept == \A v \in Video : sendStatus[v] = "SUCCESS" /\ sendStatus'[v] # "SUCCESS"
                       => SendEnds(v)
<1>1. ASSUME IInv, [Next]_vars, NEW v \in Video,
             sendStatus[v] = "SUCCESS", sendStatus'[v] # "SUCCESS"
      PROVE  SendEnds(v)
  <2> USE DEF queues, timers
  <2>t. TypeOK /\ stage[v] \in Handed /\ timeoutJob[v]["cover"] \notin Pending
               /\ timeoutJob[v]["video"] \notin Pending
      BY <1>1 DEF IInv, VideoInv, HandedInv
  <2>c. sendStatus' # sendStatus
      BY <1>1
  <2>1. ASSUME NEW w \in Video, sendVideoMessage(w) PROVE FALSE
      BY <1>1, <2>1, <2>t DEF sendVideoMessage, At, TypeOK, Handed
  <2>2. ASSUME NEW w \in Video, SendEnds(w) PROVE w = v
    <3>1. PICK status \in {"FAILED", "SUCCESS"} : Write(w, status)
        BY <2>2 DEF SendEnds
    <3>2. w # v => sendStatus'[v] = sendStatus[v]
        BY <3>1, <2>t, WriteType
    <3> QED BY <1>1, <3>2
  <2>3. ASSUME NEW w \in Video, UploadFailed(w) PROVE FALSE
    <3>1. Write(w, "FAILED") /\ stage[w] \notin Handed
        BY <2>3 DEF UploadFailed, At, Handed
    <3>2. w # v => sendStatus'[v] = sendStatus[v]
        BY <3>1, <2>t, WriteType
    <3> QED BY <1>1, <2>t, <3>1, <3>2
  <2>4. ASSUME NEW w \in Video, VideoUploaded(w) PROVE FALSE
    <3>1. CASE sendDm(w)
        BY <1>1, <3>1, <2>t DEF sendDm, TypeOK
    <3>2. CASE NoConversation(w) \/ GiveUp(w)
        BY <2>c, <3>2 DEF NoConversation, GiveUp
    <3> QED BY <2>4, <3>1, <3>2 DEF VideoUploaded
  <2>5. ASSUME NEW w \in Video, NEW p \in Upload, TimerWrites(w, p) PROVE FALSE
    <3>1. Write(w, "FAILED") /\ timeoutJob[w][p] = "read"
        BY <2>5 DEF TimerWrites
    <3>2. w # v => sendStatus'[v] = sendStatus[v]
        BY <3>1, <2>t, WriteType
    <3>3. w # v
        BY <2>t, <3>1 DEF Upload, Pending
    <3> QED BY <1>1, <3>2, <3>3
  <2>6. ASSUME NEW w \in Video, NEW p \in Upload,
               \/ RemoveRow(w) \/ Enqueue(w) \/ Begin(w) \/ ProcessThrows(w)
               \/ initiateVideoCoverS3Upload(w) \/ uploadMedia(w) \/ CoverUploaded(w)
               \/ NextAfterFailure(w) \/ TimerReads(w, p) \/ TimerEnds(w, p)
        PROVE  FALSE
      BY <2>c, <2>6
      DEF RemoveRow, Enqueue, Begin, ProcessThrows, initiateVideoCoverS3Upload,
          uploadMedia, CoverUploaded, initiateVideoS3Upload, GiveUp,
          NextAfterFailure, TimerReads, TimerEnds
  <2>7. ~videoMessageStart /\ ~Poll /\ ~Logout /\ ~UNCHANGED vars
      BY <2>c DEF videoMessageStart, Poll, Logout, vars
  <2>8. "cover" \in Upload
      BY DEF Upload
  <2> QED BY <1>1, <2>1, <2>2, <2>3, <2>4, <2>5, <2>6, <2>7, <2>8
          DEF Next, Work, Timer
<1>2. IInv /\ [Next]_vars => [Kept]_vars
    BY <1>1
<1> QED BY <1>2, Inductive, PTL DEF Spec, SuccessIsKept
=============================================================================
