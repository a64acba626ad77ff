-------------------------- MODULE JobPipelineProofs --------------------------
(***************************************************************************)
(* Type correctness, the safety invariants, the rows a run owns and the    *)
(* progress of the stage, for any set of jobs and of workers, any number   *)
(* of retries and any faults.                                              *)
(***************************************************************************)
EXTENDS JobPipeline, TLAPS

(* The statements on a video are expanded wherever a step uses one. *)
USE DEF WithVideoStatus, FailedByJobID, DeletedByJobID, SoftDeleted, WithSegments,
        WithTranscript, WithChunks, WithSummary

(***************************************************************************)
(* The inductive invariant.  SingleRunner alone is not inductive: it needs *)
(* that a job held by a running worker is neither pending nor failed, so   *)
(* that it can be neither claimed nor retried; and that the rows a worker  *)
(* has written are still there, which needs SingleRunner.                  *)
(***************************************************************************)
Running    == Owning \ {"publish", "summary", "failJob"}
Unfinished == {"segments", "downloading", "extracting", "transcript", "chunking",
               "embedding", "insert", "complete", "publish"}
Tagged     == Unfinished \ {"segments"}
HasText    == {"chunking", "embedding", "insert"}
HasAll     == {"complete", "publish", "summary"}

\* What a worker that holds a job knows of the job's row.
JobOfWorker(w) ==
  /\ pc[w] \in Owning \union {"commit", "failVideo"} => cur[w] \in Jobs
  /\ pc[w] = "commit" => jobs[cur[w]].status = "pending"
  /\ pc[w] \in Running => jobs[cur[w]].status = "processing"
  /\ pc[w] \in {"publish", "summary"} => jobs[cur[w]].status = "completed"
  /\ pc[w] = "failJob" => jobs[cur[w]].status \in {"processing", "completed"}

\* What it knows of the row of the job's video.
VideoOfWorker(w) ==
  /\ pc[w] \in Unfinished => videos[cur[w]].status \in {"processing", "failed"}
  /\ pc[w] \in Tagged => videos[cur[w]].tagged
  /\ pc[w] \in HasText => videos[cur[w]].transcript = text[w] /\ text[w] # "none"
  /\ pc[w] \in HasAll => HasMaterial(videos[cur[w]])

\* The stages, in the row and in memory, before and after the cleanup.
StageOfWorker(w) ==
  /\ pc[w] \in {"load", "cleanup", "create"} => jobs[cur[w]].stage \notin LateStage
  /\ pc[w] \in {"cleanup", "create"} => stg[w] \notin LateStage
  /\ pc[w] \in Owning \ {"load"} /\ stg[w] \in LateStage => videos[cur[w]].transcript # "none"

\* No two claims in progress select one row; no two workers run one job.
Apart(v, w) ==
  /\ pc[v] = "commit" /\ pc[w] = "commit" => cur[v] # cur[w]
  /\ pc[v] \in Owning /\ pc[w] \in Owning => cur[v] # cur[w]

\* What the rows of a job show whoever works on it.
Rows(j) ==
  /\ videos[j].status = "completed" => HasMaterial(videos[j])
  /\ jobs[j].status = "completed" => HasMaterial(videos[j])
  /\ jobs[j].stage \in LateStage => videos[j].transcript # "none"

IInv ==
  /\ TypeOK
  /\ \A w \in Workers : JobOfWorker(w) /\ VideoOfWorker(w) /\ StageOfWorker(w)
  /\ \A v, w \in Workers : v # w => Apart(v, w)
  /\ \A j \in Jobs : Rows(j)

-----------------------------------------------------------------------------
(* Types *)

\* The statements of Tables keep rows rows.
LEMMA StatementTypes ==
  /\ NoJobRow \in JobRow /\ InsertedJob \in JobRow
  /\ NoVideo \in VideoRow
  /\ \A row \in JobRow : Requeued(row) \in JobRow /\ Claimed(row) \in JobRow
  /\ \A row \in JobRow, status \in JobStatus, stage \in JobStage :
       WithStatus(row, status, stage) \in JobRow
  /\ \A id \in VideoID : InsertedVideo(id) \in VideoRow
<1> USE DEF JobRow, JobStatus, JobStage
<1>1. NoJobRow \in JobRow /\ InsertedJob \in JobRow
  BY DEF NoJobRow, InsertedJob
<1>2. NoVideo \in VideoRow
  BY DEF NoVideo, VideoRow, NoID, VideoID, VideoStatus, Content, Summary
<1>3. ASSUME NEW row \in JobRow PROVE Requeued(row) \in JobRow
  <2>1. row.retries + 1 \in Nat
    OBVIOUS
  <2> QED
    BY <2>1 DEF Requeued
<1>4. \A row \in JobRow : Claimed(row) \in JobRow
  BY DEF Claimed
<1>5. ASSUME NEW row \in JobRow, NEW status \in JobStatus, NEW stage \in JobStage
      PROVE  WithStatus(row, status, stage) \in JobRow
  <2> DEFINE done == row.finished \/ status \in {"completed", "failed"}
  <2>1. done \in BOOLEAN
    OBVIOUS
  <2> HIDE DEF done
  <2>2. [row EXCEPT !.status = status, !.stage = stage, !.finished = done] \in JobRow
    BY <2>1
  <2> QED
    BY <2>2 DEF done, WithStatus
<1>6. \A id \in VideoID : InsertedVideo(id) \in VideoRow
  BY <1>2 DEF InsertedVideo, VideoRow, VideoStatus
<1> QED
  BY <1>1, <1>2, <1>3, <1>4, <1>5, <1>6

\* The initial state is well typed.
LEMMA InitTypeOK == Init => TypeOK
  BY StatementTypes DEF Init, TypeOK, Labels, JobStage, Content, VideoID, NoID

\* A transaction whose tables are well typed leaves a well typed state.
LEMMA TransactionType ==
  ASSUME TypeOK, NEW w \in Workers, NEW constraint \in BOOLEAN, NEW calls \in BOOLEAN,
         NEW newJobs \in [Jobs -> JobRow], NEW newVideos \in [Jobs -> VideoRow],
         NEW next \in Labels,
         Transaction(w, constraint, newJobs, newVideos, next, calls)
  PROVE  /\ jobs' \in [Jobs -> JobRow]
         /\ videos' \in [Jobs -> VideoRow]
         /\ pc' \in [Workers -> Labels]
  BY DEF TypeOK, Transaction, Goto, tables, Labels

\* A worker that lets its job go leaves a well typed state.
LEMMA ReleaseType ==
  ASSUME TypeOK, NEW w \in Workers, Release(w)
  PROVE  /\ pc' \in [Workers -> Labels]
         /\ cur' \in [Workers -> Jobs \union {NoJob}]
         /\ vid' \in [Workers -> VideoID]
         /\ stg' \in [Workers -> JobStage]
         /\ text' \in [Workers -> Content]
  BY DEF TypeOK, Release, Goto, Resume, Labels, NoID, VideoID, JobStage, Content

\* So does setStage.
LEMMA SetStageType ==
  ASSUME TypeOK, NEW w \in Workers, NEW stage \in JobStage, NEW next \in Labels,
         NEW calls \in BOOLEAN, SetStage(w, stage, next, calls)
  PROVE  TypeOK'
<1>1. [jobs EXCEPT ![cur[w]] = WithStatus(@, "processing", stage)] \in [Jobs -> JobRow]
  BY StatementTypes DEF TypeOK, JobStatus
<1>2. jobs' \in [Jobs -> JobRow] /\ videos' \in [Jobs -> VideoRow]
      /\ pc' \in [Workers -> Labels]
  BY <1>1, TransactionType DEF SetStage, TypeOK
<1> QED
  BY <1>2 DEF SetStage, TypeOK

\* The same for a transaction on the videos alone.
LEMMA VideoTransactionType ==
  ASSUME TypeOK, NEW w \in Workers, NEW constraint \in BOOLEAN, NEW calls \in BOOLEAN,
         NEW newVideos \in [Jobs -> VideoRow], NEW next \in Labels,
         Transaction(w, constraint, jobs, newVideos, next, calls)
  PROVE  /\ jobs' \in [Jobs -> JobRow]
         /\ videos' \in [Jobs -> VideoRow]
         /\ pc' \in [Workers -> Labels]
  BY TransactionType DEF TypeOK

\* A column of the row of a video in hand.
LEMMA VideoColumns ==
  ASSUME TypeOK, NEW w \in Workers
  PROVE  /\ [videos EXCEPT ![cur[w]].tagged = TRUE] \in [Jobs -> VideoRow]
         /\ \A c \in Content : [videos EXCEPT ![cur[w]].transcript = c] \in [Jobs -> VideoRow]
         /\ [videos EXCEPT ![cur[w]].chunks = TRUE] \in [Jobs -> VideoRow]
         /\ \A s \in VideoStatus : [videos EXCEPT ![cur[w]].status = s] \in [Jobs -> VideoRow]
         /\ \A s \in Summary : [videos EXCEPT ![cur[w]].summary = s] \in [Jobs -> VideoRow]
<1> USE DEF TypeOK, VideoRow
<1>1. [videos EXCEPT ![cur[w]].tagged = TRUE] \in [Jobs -> VideoRow]
  OBVIOUS
<1>2. ASSUME NEW c \in Content
      PROVE  [videos EXCEPT ![cur[w]].transcript = c] \in [Jobs -> VideoRow]
  OBVIOUS
<1>3. [videos EXCEPT ![cur[w]].chunks = TRUE] \in [Jobs -> VideoRow]
  OBVIOUS
<1>4. ASSUME NEW s \in VideoStatus
      PROVE  [videos EXCEPT ![cur[w]].status = s] \in [Jobs -> VideoRow]
  OBVIOUS
<1>5. ASSUME NEW s \in Summary
      PROVE  [videos EXCEPT ![cur[w]].summary = s] \in [Jobs -> VideoRow]
  OBVIOUS
<1> QED
  BY <1>1, <1>2, <1>3, <1>4, <1>5

\* Every step keeps the types.
LEMMA StepType ==
  ASSUME IInv, Next
  PROVE  TypeOK'
<1> USE StatementTypes
<1>0. TypeOK
  BY DEF IInv
<1>1. ASSUME NEW j \in Jobs, CreateJob(j) PROVE TypeOK'
  BY <1>0, <1>1 DEF TypeOK, CreateJob, memory
<1>2. ASSUME NEW j \in Jobs, RetryJob(j) PROVE TypeOK'
  BY <1>0, <1>2 DEF TypeOK, RetryJob, memory
<1>3. ASSUME NEW j \in Jobs, DeleteVideo(j) PROVE TypeOK'
  <2>1. [videos[j] EXCEPT !.deleted = TRUE] \in VideoRow
    BY <1>0 DEF TypeOK, VideoRow
  <2> QED
    BY <1>0, <1>3, <2>1 DEF TypeOK, DeleteVideo, memory
<1>4. ASSUME NEW w \in Workers, Wake(w) PROVE TypeOK'
  BY <1>0, <1>4 DEF TypeOK, Wake, Goto, tables, memory, Labels
<1>5. ASSUME NEW w \in Workers, NEW j \in Jobs, SelectPending(w, j) PROVE TypeOK'
  BY <1>0, <1>5 DEF TypeOK, SelectPending, Goto, tables, memory, Labels
<1>6. ASSUME NEW w \in Workers, StopClaiming(w) PROVE TypeOK'
  BY <1>0, <1>6 DEF TypeOK, StopClaiming, Goto, tables, memory, Labels
<1>7. ASSUME NEW w \in Workers, ClaimNextPending(w) PROVE TypeOK'
  BY <1>0, <1>7 DEF TypeOK, ClaimNextPending, Goto, Resume, tables, memory, Labels
<1>8. ASSUME NEW w \in Workers, LoadJob(w) PROVE TypeOK'
  <2>1. CASE Release(w)
    BY <1>0, <1>8, <2>1, ReleaseType DEF TypeOK, LoadJob, tables
  <2>2. CASE ~Release(w)
    <3>1. cur[w] \in Jobs
      BY <1>8 DEF IInv, JobOfWorker, LoadJob, Owning, Labels
    <3>2. jobs[cur[w]].stage \in JobStage
      BY <1>0, <3>1 DEF TypeOK, JobRow
    <3> QED
      BY <1>0, <1>8, <2>2, <3>2 DEF TypeOK, LoadJob, Goto, tables, Labels
  <2> QED
    BY <2>1, <2>2
<1>9. ASSUME NEW w \in Workers, Cleanup(w) PROVE TypeOK'
  <2>1. [videos EXCEPT ![cur[w]] = NoVideo] \in [Jobs -> VideoRow]
    BY <1>0 DEF TypeOK
  <2> QED
    BY <1>0, <1>9, <2>1, VideoTransactionType DEF Cleanup, TypeOK, memory, Labels
<1>10. ASSUME NEW w \in Workers, CreateVideo(w) PROVE TypeOK'
  <2> DEFINE id == <<w, jobs[cur[w]].retries>>
  <2>1. id \in VideoID
    <3>1. cur[w] \in Jobs
      BY <1>10 DEF IInv, JobOfWorker, CreateVideo, Owning, Labels
    <3> QED
      BY <1>0, <3>1 DEF TypeOK, JobRow, VideoID
  <2> HIDE DEF id
  <2>2. [videos EXCEPT ![cur[w]] = InsertedVideo(id)] \in [Jobs -> VideoRow]
    BY <1>0, <2>1 DEF TypeOK
  <2>3. /\ Transaction(w, videos[cur[w]].status = "none", jobs,
                       [videos EXCEPT ![cur[w]] = InsertedVideo(id)], "segments", FALSE)
        /\ vid' = [vid EXCEPT ![w] = id]
        /\ UNCHANGED <<cur, stg, text, proc>>
    BY <1>10 DEF CreateVideo, id
  <2>4. jobs' \in [Jobs -> JobRow] /\ videos' \in [Jobs -> VideoRow]
        /\ pc' \in [Workers -> Labels]
    BY <1>0, <2>2, <2>3, VideoTransactionType DEF Labels
  <2> QED
    BY <1>0, <2>1, <2>3, <2>4 DEF TypeOK
<1>11. ASSUME NEW w \in Workers, CopyJobSegments(w) PROVE TypeOK'
  BY <1>0, <1>11, VideoColumns, VideoTransactionType
     DEF CopyJobSegments, HasRow, TypeOK, memory, Labels
<1>12. ASSUME NEW w \in Workers,
              StageDownloading(w) \/ StageExtracting(w) \/ StageChunking(w) \/ StageEmbedding(w)
       PROVE  TypeOK'
  BY <1>0, <1>12, SetStageType
     DEF StageDownloading, StageExtracting, StageChunking, StageEmbedding, Labels, JobStage
<1>13. ASSUME NEW w \in Workers, SaveTranscript(w) PROVE TypeOK'
  <2>1. PICK found \in Extracted(cur[w]) :
          /\ Transaction(w, HasRow(w) /\ TakesEmptyID, jobs,
                         [videos EXCEPT ![cur[w]].transcript = found], "chunking", TRUE)
          /\ text' = [text EXCEPT ![w] = found]
    BY <1>13 DEF SaveTranscript
  <2>2. found \in Content
    BY DEF Content, Extracted
  <2>3. jobs' \in [Jobs -> JobRow] /\ videos' \in [Jobs -> VideoRow]
        /\ pc' \in [Workers -> Labels]
    BY <1>0, <2>1, <2>2, VideoColumns, VideoTransactionType DEF HasRow, Labels
  <2> QED
    BY <1>0, <1>13, <2>1, <2>2, <2>3 DEF SaveTranscript, TypeOK
<1>14. ASSUME NEW w \in Workers, InsertChunks(w) PROVE TypeOK'
  <2>1. CASE text[w] = "text"
    BY <1>0, <1>14, <2>1, VideoColumns, VideoTransactionType
       DEF InsertChunks, HasRow, TypeOK, memory, Labels
  <2>2. CASE text[w] # "text"
    BY <1>0, <1>14, <2>2 DEF InsertChunks, Goto, tables, TypeOK, memory, Labels
  <2> QED
    BY <2>1, <2>2
<1>15. ASSUME NEW w \in Workers, CompleteJob(w) PROVE TypeOK'
  <2>1. [jobs EXCEPT ![cur[w]] = WithStatus(@, "completed", "completed")] \in [Jobs -> JobRow]
    BY <1>0 DEF TypeOK, JobStatus, JobStage
  <2>2. jobs' \in [Jobs -> JobRow] /\ videos' \in [Jobs -> VideoRow]
        /\ pc' \in [Workers -> Labels]
    BY <1>0, <1>15, <2>1, TransactionType DEF CompleteJob, TypeOK, Labels
  <2> QED
    BY <1>0, <1>15, <2>2 DEF CompleteJob, TypeOK, memory
<1>16. ASSUME NEW w \in Workers, CompleteVideo(w) PROVE TypeOK'
  <2>1. [videos EXCEPT ![cur[w]].status = "completed"] \in [Jobs -> VideoRow]
    BY <1>0, VideoColumns DEF VideoStatus
  <2> QED
    BY <1>0, <1>16, <2>1, VideoTransactionType
       DEF CompleteVideo, HasRow, TypeOK, memory, Labels
<1>17. ASSUME NEW w \in Workers, GenerateSummary(w) PROVE TypeOK'
  <2>1. \A outcome \in {"completed", "failed"} :
          [videos EXCEPT ![cur[w]].summary = outcome] \in [Jobs -> VideoRow]
    BY <1>0, VideoColumns DEF Summary
  <2>2. videos' \in [Jobs -> VideoRow]
    BY <1>0, <1>17, <2>1 DEF GenerateSummary, TypeOK
  <2> QED
    BY <1>0, <1>17, <2>2, ReleaseType DEF GenerateSummary, TypeOK
<1>18. ASSUME NEW w \in Workers, FailJob(w) PROVE TypeOK'
  <2>1. [jobs EXCEPT ![cur[w]] = WithStatus(@, "failed", stg[w])] \in [Jobs -> JobRow]
    BY <1>0 DEF TypeOK, JobStatus
  <2> QED
    BY <1>0, <1>18, <2>1 DEF FailJob, Goto, TypeOK, memory, Labels
<1>19. ASSUME NEW w \in Workers, FailVideo(w) PROVE TypeOK'
  BY <1>0, <1>19, VideoColumns, ReleaseType DEF FailVideo, TypeOK, VideoStatus
<1>20. ASSUME Process PROVE TypeOK'
  BY <1>0, <1>20
     DEF Process, Sigterm, GraceExceeded, Stopped, Crash, Start, TypeOK, tables, memory,
         Labels, JobStage, Content, VideoID, NoID
<1> QED
  BY <1>1, <1>2, <1>3, <1>4, <1>5, <1>6, <1>7, <1>8, <1>9, <1>10, <1>11, <1>12, <1>13,
     <1>14, <1>15, <1>16, <1>17, <1>18, <1>19, <1>20
     DEF Next, Api, WorkerStep, RunStep

-----------------------------------------------------------------------------
(* The inductive step *)

Invariants(w) == JobOfWorker(w) /\ VideoOfWorker(w) /\ StageOfWorker(w)

\* The step leaves the rows of other jobs and the memory of other workers alone.
Frame(w, j) ==
  /\ \A i \in Jobs \ {j} : jobs'[i] = jobs[i] /\ videos'[i] = videos[i]
  /\ \A v \in Workers \ {w} :
       pc'[v] = pc[v] /\ cur'[v] = cur[v] /\ stg'[v] = stg[v] /\ text'[v] = text[v]

\* What the worker that runs a job has to establish for itself is enough: the
\* others hold other jobs.
LEMMA RunStepFrame ==
  ASSUME IInv, NEW w \in Workers, pc[w] \in Owning, Frame(w, cur[w]),
         pc'[w] \in Owning => cur'[w] = cur[w],
         pc'[w] # "commit",
         Invariants(w)',
         \A j \in Jobs : j = cur[w] => Rows(j)'
  PROVE  /\ \A v \in Workers : Invariants(v)'
         /\ \A u, v \in Workers : u # v => Apart(u, v)'
         /\ \A j \in Jobs : Rows(j)'
<1>1. ASSUME NEW v \in Workers, v # w PROVE Invariants(v)'
  <2>1. pc'[v] = pc[v] /\ cur'[v] = cur[v] /\ stg'[v] = stg[v] /\ text'[v] = text[v]
    BY <1>1 DEF Frame
  <2>2. Invariants(v) /\ Invariants(w) /\ Apart(v, w)
    BY <1>1 DEF IInv, Invariants
  <2>3. CASE pc[v] \in Owning \union {"commit"}
    <3>1. cur[v] \in Jobs /\ cur[v] # cur[w]
      BY <2>2, <2>3 DEF Invariants, JobOfWorker, Apart, Owning, Running, Labels
    <3>2. jobs'[cur[v]] = jobs[cur[v]] /\ videos'[cur[v]] = videos[cur[v]]
      BY <3>1 DEF Frame
    <3> QED
      BY <2>1, <2>2, <3>1, <3>2
         DEF Invariants, JobOfWorker, VideoOfWorker, StageOfWorker, HasMaterial
  <2>4. CASE pc[v] \notin Owning \union {"commit"}
    BY <2>1, <2>2, <2>4
       DEF Invariants, JobOfWorker, VideoOfWorker, StageOfWorker, Owning, Running, Unfinished,
           Tagged, HasText, HasAll, Labels
  <2> QED
    BY <2>3, <2>4
<1>2. ASSUME NEW u \in Workers, NEW v \in Workers, u # v PROVE Apart(u, v)'
  BY <1>2 DEF IInv, Apart, Frame
<1>3. ASSUME NEW j \in Jobs PROVE Rows(j)'
  <2>1. CASE j # cur[w]
    BY <2>1 DEF IInv, Rows, Frame, HasMaterial
  <2> QED
    BY <2>1
<1> QED
  BY <1>1, <1>2, <1>3

Rest ==
  /\ \A v \in Workers : Invariants(v)
  /\ \A u, v \in Workers : u # v => Apart(u, v)
  /\ \A j \in Jobs : Rows(j)

\* What a worker in run knows before its next step.
LEMMA RunFacts ==
  ASSUME IInv, NEW w \in Workers, pc[w] \in Owning
  PROVE  /\ TypeOK /\ Invariants(w)
         /\ cur[w] \in Jobs /\ Rows(cur[w])
         /\ jobs[cur[w]] \in JobRow /\ videos[cur[w]] \in VideoRow
  BY DEF IInv, Invariants, JobOfWorker, TypeOK

\* A failed step of run: the rows as they were, on to fail().
LEMMA RejectedStep ==
  ASSUME IInv, NEW w \in Workers, pc[w] \in (Running \ {"load"}) \union {"publish"},
         Goto(w, "failJob"), UNCHANGED <<jobs, videos, cur, stg>>,
         \A v \in Workers \ {w} : text'[v] = text[v]
  PROVE  Rest'
<1>1. pc[w] \in Owning
  BY DEF Owning, Running, Labels
<1>2. Frame(w, cur[w])
  BY DEF Frame, Goto, IInv, TypeOK
<1>3. Invariants(w)'
  BY <1>1, RunFacts DEF Goto, Invariants, JobOfWorker, VideoOfWorker, StageOfWorker, TypeOK,
     Owning, Running, Unfinished, Tagged, HasText, HasAll, Labels
<1>4. \A j \in Jobs : j = cur[w] => Rows(j)'
  BY <1>1, RunFacts DEF Rows, HasMaterial
<1> QED
  BY <1>1, <1>2, <1>3, <1>4, RunStepFrame DEF Rest, Goto, IInv, TypeOK

\* A step of run that commits: the rows of its own job.
LEMMA CommittedStep ==
  ASSUME IInv, NEW w \in Workers, pc[w] \in Owning,
         NEW newJobs, NEW newVideos, NEW label,
         jobs' = [jobs EXCEPT ![cur[w]] = newJobs],
         videos' = [videos EXCEPT ![cur[w]] = newVideos],
         Goto(w, label), label # "commit", UNCHANGED cur,
         \A v \in Workers \ {w} : stg'[v] = stg[v] /\ text'[v] = text[v],
         Invariants(w)',
         \A j \in Jobs : j = cur[w] => Rows(j)'
  PROVE  Rest'
<1>1. Frame(w, cur[w])
  BY DEF Frame, Goto, IInv, TypeOK
<1> QED
  BY <1>1, RunStepFrame DEF Rest, Goto, IInv, TypeOK

\* DeleteByJobID: the old rows go, and so does every late stage.
LEMMA CleanupStep ==
  ASSUME IInv, NEW w \in Workers, Cleanup(w)
  PROVE  Rest'
<1> USE DEF Labels, Owning, Running, Unfinished, Tagged, HasText, HasAll
<1>1. pc[w] = "cleanup" /\ UNCHANGED <<cur, stg, text>>
  BY DEF Cleanup, memory
<1>2. CASE Goto(w, "failJob") /\ UNCHANGED tables
  BY <1>1, <1>2, RejectedStep DEF tables
<1>3. ASSUME NEW label \in {"create", "failJob"}, Goto(w, label), jobs' = jobs,
             videos' = [videos EXCEPT ![cur[w]] = NoVideo]
      PROVE  Rest'
  <2>1. pc'[w] = label
    BY <1>3 DEF Goto, IInv, TypeOK
  <2>2. videos'[cur[w]] = NoVideo /\ jobs' = [jobs EXCEPT ![cur[w]] = jobs[cur[w]]]
    BY <1>1, <1>3, RunFacts DEF TypeOK
  <2>3. Invariants(w)'
    BY <1>1, <1>3, <2>1, <2>2, RunFacts
       DEF Invariants, JobOfWorker, VideoOfWorker, StageOfWorker
  <2>4. \A j \in Jobs : j = cur[w] => Rows(j)'
    BY <1>1, <1>3, <2>2, RunFacts DEF Rows, NoVideo, Invariants, JobOfWorker, StageOfWorker
  <2> QED
    BY <1>1, <1>3, <2>2, <2>3, <2>4, CommittedStep
<1> QED
  BY <1>2, <1>3 DEF Cleanup, Transaction, tables

\* videos.Create: a fresh row, of the job of this worker alone.
LEMMA CreateVideoStep ==
  ASSUME IInv, NEW w \in Workers, CreateVideo(w)
  PROVE  Rest'
<1> USE DEF Labels, Owning, Running, Unfinished, Tagged, HasText, HasAll
<1>1. pc[w] = "create" /\ UNCHANGED <<cur, stg, text>>
  BY DEF CreateVideo, memory
<1>2. CASE Goto(w, "failJob") /\ UNCHANGED tables
  BY <1>1, <1>2, RejectedStep DEF tables
<1>3. ASSUME NEW label \in {"segments", "failJob"}, Goto(w, label), jobs' = jobs,
             videos' = [videos EXCEPT ![cur[w]] = InsertedVideo(<<w, jobs[cur[w]].retries>>)]
      PROVE  Rest'
  <2>1. pc'[w] = label
    BY <1>3 DEF Goto, IInv, TypeOK
  <2>2. jobs' = [jobs EXCEPT ![cur[w]] = jobs[cur[w]]]
        /\ videos' = [videos EXCEPT ![cur[w]] = videos'[cur[w]]]
    BY <1>1, <1>3, RunFacts DEF TypeOK
  <2>3. Invariants(w)'
    BY <1>1, <1>3, <2>1, RunFacts
       DEF Invariants, JobOfWorker, VideoOfWorker, StageOfWorker, TypeOK, VideoRow, HasMaterial, InsertedVideo, NoVideo
  <2>4. \A j \in Jobs : j = cur[w] => Rows(j)'
    BY <1>1, <1>3, RunFacts
       DEF Rows, Invariants, JobOfWorker, VideoOfWorker, StageOfWorker, TypeOK, VideoRow, HasMaterial, InsertedVideo, NoVideo
  <2> QED
    BY <1>1, <1>3, <2>2, <2>3, <2>4, CommittedStep
<1> QED
  BY <1>2, <1>3 DEF CreateVideo, Transaction, tables

\* copyJobSegments: the row in hand is tagged.
LEMMA CopyJobSegmentsStep ==
  ASSUME IInv, NEW w \in Workers, CopyJobSegments(w)
  PROVE  Rest'
<1> USE DEF Labels, Owning, Running, Unfinished, Tagged, HasText, HasAll
<1>1. pc[w] = "segments" /\ UNCHANGED <<cur, stg, text>>
  BY DEF CopyJobSegments, memory
<1>2. CASE Goto(w, "failJob") /\ UNCHANGED tables
  BY <1>1, <1>2, RejectedStep DEF tables
<1>3. ASSUME NEW label \in {"downloading", "failJob"}, Goto(w, label), jobs' = jobs, HasRow(w),
             videos' = [videos EXCEPT ![cur[w]].tagged = TRUE]
      PROVE  Rest'
  <2>1. pc'[w] = label
    BY <1>3 DEF Goto, IInv, TypeOK
  <2>2. jobs' = [jobs EXCEPT ![cur[w]] = jobs[cur[w]]]
        /\ videos' = [videos EXCEPT ![cur[w]] = videos'[cur[w]]]
    BY <1>1, <1>3, RunFacts DEF TypeOK
  <2>3. Invariants(w)'
    BY <1>1, <1>3, <2>1, RunFacts
       DEF Invariants, JobOfWorker, VideoOfWorker, StageOfWorker, TypeOK, VideoRow, HasMaterial
  <2>4. \A j \in Jobs : j = cur[w] => Rows(j)'
    BY <1>1, <1>3, RunFacts
       DEF Rows, Invariants, JobOfWorker, VideoOfWorker, StageOfWorker, TypeOK, VideoRow, HasMaterial
  <2> QED
    BY <1>1, <1>3, <2>2, <2>3, <2>4, CommittedStep
<1> QED
  BY <1>2, <1>3 DEF CopyJobSegments, Transaction, tables

\* videos.UpdateStatus: the row in hand has everything already.
LEMMA CompleteVideoStep ==
  ASSUME IInv, NEW w \in Workers, CompleteVideo(w)
  PROVE  Rest'
<1> USE DEF Labels, Owning, Running, Unfinished, Tagged, HasText, HasAll
<1>1. pc[w] = "publish" /\ UNCHANGED <<cur, stg, text>>
  BY DEF CompleteVideo, memory
<1>2. CASE Goto(w, "failJob") /\ UNCHANGED tables
  BY <1>1, <1>2, RejectedStep DEF tables
<1>3. ASSUME NEW label \in {"summary", "failJob"}, Goto(w, label), jobs' = jobs, HasRow(w),
             videos' = [videos EXCEPT ![cur[w]].status = "completed"]
      PROVE  Rest'
  <2>1. pc'[w] = label
    BY <1>3 DEF Goto, IInv, TypeOK
  <2>2. jobs' = [jobs EXCEPT ![cur[w]] = jobs[cur[w]]]
        /\ videos' = [videos EXCEPT ![cur[w]] = videos'[cur[w]]]
    BY <1>1, <1>3, RunFacts DEF TypeOK
  <2>3. Invariants(w)'
    BY <1>1, <1>3, <2>1, RunFacts
       DEF Invariants, JobOfWorker, VideoOfWorker, StageOfWorker, TypeOK, VideoRow, HasMaterial
  <2>4. \A j \in Jobs : j = cur[w] => Rows(j)'
    BY <1>1, <1>3, RunFacts
       DEF Rows, Invariants, JobOfWorker, VideoOfWorker, StageOfWorker, TypeOK, VideoRow, HasMaterial
  <2> QED
    BY <1>1, <1>3, <2>2, <2>3, <2>4, CommittedStep
<1> QED
  BY <1>2, <1>3 DEF CompleteVideo, Transaction, tables

\* setStage: a late stage is written only when the transcript is there.
LEMMA SetStageStep ==
  ASSUME IInv, NEW w \in Workers, NEW stage, NEW next, NEW calls,
         SetStage(w, stage, next, calls),
         <<pc[w], stage, next>> \in
           {<<"downloading", "downloading", "extracting">>,
            <<"extracting", "parsing", "transcript">>,
            <<"extracting", "transcribing", "transcript">>,
            <<"chunking", "chunking", "embedding">>,
            <<"embedding", "embedding", "insert">>}
  PROVE  Rest'
<1> USE DEF Labels, Owning, Running, Unfinished, Tagged, HasText, HasAll
<1>1. pc[w] \in Running \ {"load"} /\ UNCHANGED <<cur, text>>
  BY DEF SetStage
<1>2. CASE Goto(w, "failJob") /\ UNCHANGED tables
  <2>1. pc'[w] = "failJob"
    BY <1>2 DEF Goto, IInv, TypeOK
  <2>2. UNCHANGED stg
    BY <2>1 DEF SetStage, IInv, TypeOK
  <2> QED
    BY <1>1, <1>2, <2>2, RejectedStep DEF tables
<1>3. ASSUME NEW label \in {next, "failJob"}, Goto(w, label), videos' = videos,
             jobs' = [jobs EXCEPT ![cur[w]] = WithStatus(@, "processing", stage)]
      PROVE  Rest'
  <2>1. pc'[w] = label
    BY <1>3 DEF Goto, IInv, TypeOK
  <2>2. videos' = [videos EXCEPT ![cur[w]] = videos[cur[w]]]
        /\ jobs' = [jobs EXCEPT ![cur[w]] = jobs'[cur[w]]]
    BY <1>1, <1>3, RunFacts DEF TypeOK
  <2>3. jobs'[cur[w]].status = "processing" /\ jobs'[cur[w]].stage = stage
    BY <1>1, <1>3, RunFacts DEF TypeOK, WithStatus, JobRow
  <2>4. stg'[w] \in {stg[w], stage}
    BY DEF SetStage, IInv, TypeOK
  <2>5. stage \in LateStage => videos[cur[w]].transcript # "none"
    BY <1>1, RunFacts DEF Invariants, VideoOfWorker, LateStage
  <2>6. Invariants(w)'
    BY <1>1, <1>3, <2>1, <2>3, <2>4, <2>5, RunFacts
       DEF Invariants, JobOfWorker, VideoOfWorker, StageOfWorker
  <2>7. \A j \in Jobs : j = cur[w] => Rows(j)'
    BY <1>1, <1>3, <2>3, <2>5, RunFacts DEF Rows
  <2>8. \A v \in Workers \ {w} : stg'[v] = stg[v] /\ text'[v] = text[v]
    BY <1>1 DEF SetStage, IInv, TypeOK
  <2> QED
    BY <1>1, <1>3, <2>2, <2>6, <2>7, <2>8, CommittedStep
<1> QED
  BY <1>2, <1>3 DEF SetStage, Transaction, tables

\* transcripts.Upsert: row and memory hold the same text.
LEMMA SaveTranscriptStep ==
  ASSUME IInv, NEW w \in Workers, SaveTranscript(w)
  PROVE  Rest'
<1> USE DEF Labels, Owning, Running, Unfinished, Tagged, HasText, HasAll
<1>1. pc[w] = "transcript" /\ UNCHANGED <<cur, stg>>
  BY DEF SaveTranscript
<1>2. PICK found \in Extracted(cur[w]) :
        /\ Transaction(w, HasRow(w) /\ TakesEmptyID, jobs,
                       [videos EXCEPT ![cur[w]].transcript = found], "chunking", TRUE)
        /\ text' = [text EXCEPT ![w] = found]
  BY DEF SaveTranscript
<1>3. /\ found # "none" /\ text'[w] = found
      /\ \A v \in Workers \ {w} : text'[v] = text[v]
  BY <1>2 DEF IInv, TypeOK, Extracted
<1>4. CASE Goto(w, "failJob") /\ UNCHANGED tables
  BY <1>1, <1>3, <1>4, RejectedStep DEF tables
<1>5. ASSUME NEW label \in {"chunking", "failJob"}, Goto(w, label), jobs' = jobs,
             videos' = [videos EXCEPT ![cur[w]].transcript = found]
      PROVE  Rest'
  <2>1. pc'[w] = label
    BY <1>5 DEF Goto, IInv, TypeOK
  <2>2. jobs' = [jobs EXCEPT ![cur[w]] = jobs[cur[w]]]
        /\ videos' = [videos EXCEPT ![cur[w]] = videos'[cur[w]]]
    BY <1>1, <1>5, RunFacts DEF TypeOK
  <2>3. videos'[cur[w]] = [videos[cur[w]] EXCEPT !.transcript = found]
    BY <1>1, <1>5, RunFacts DEF TypeOK
  <2>4. Invariants(w)'
    BY <1>1, <1>3, <1>5, <2>1, <2>3, RunFacts
       DEF Invariants, JobOfWorker, VideoOfWorker, StageOfWorker, VideoRow
  <2>5. \A j \in Jobs : j = cur[w] => Rows(j)'
    BY <1>1, <1>3, <1>5, <2>3, RunFacts
       DEF Rows, Invariants, JobOfWorker, VideoOfWorker, VideoRow
  <2> QED
    BY <1>1, <1>3, <1>5, <2>2, <2>4, <2>5, CommittedStep
<1> QED
  BY <1>2, <1>4, <1>5 DEF Transaction, tables

\* chunks.Insert, or nothing to insert: the material is complete.
LEMMA InsertChunksStep ==
  ASSUME IInv, NEW w \in Workers, InsertChunks(w)
  PROVE  Rest'
<1> USE DEF Labels, Owning, Running, Unfinished, Tagged, HasText, HasAll
<1>1. pc[w] = "insert" /\ UNCHANGED <<cur, stg, text>>
  BY DEF InsertChunks, memory
<1>2. CASE Goto(w, "failJob") /\ UNCHANGED tables
  BY <1>1, <1>2, RejectedStep DEF tables
<1>3. ASSUME NEW label \in {"complete", "failJob"}, Goto(w, label), jobs' = jobs,
             NEW row \in VideoRow, videos' = [videos EXCEPT ![cur[w]] = row],
             row = videos[cur[w]] \/ row = [videos[cur[w]] EXCEPT !.chunks = TRUE],
             text[w] = "text" => row.chunks \/ label = "failJob"
      PROVE  Rest'
  <2>1. pc'[w] = label
    BY <1>3 DEF Goto, IInv, TypeOK
  <2>2. jobs' = [jobs EXCEPT ![cur[w]] = jobs[cur[w]]] /\ videos'[cur[w]] = row
    BY <1>1, <1>3, RunFacts DEF TypeOK
  <2>3. /\ row.status = videos[cur[w]].status /\ row.tagged = videos[cur[w]].tagged
        /\ row.transcript = videos[cur[w]].transcript
        /\ videos[cur[w]].chunks => row.chunks
    BY <1>1, <1>3, RunFacts DEF VideoRow
  <2>4. Invariants(w)'
    BY <1>1, <1>3, <2>1, <2>2, <2>3, RunFacts
       DEF Invariants, JobOfWorker, VideoOfWorker, StageOfWorker, HasMaterial
  <2>5. \A j \in Jobs : j = cur[w] => Rows(j)'
    BY <1>1, <1>3, <2>2, <2>3, RunFacts DEF Rows, HasMaterial
  <2> QED
    BY <1>1, <1>3, <2>2, <2>4, <2>5, CommittedStep
<1>4. ASSUME NEW label \in {"complete", "failJob"}, Goto(w, label), jobs' = jobs,
             videos' = [videos EXCEPT ![cur[w]].chunks = TRUE]
      PROVE  Rest'
  <2> DEFINE row == [videos[cur[w]] EXCEPT !.chunks = TRUE]
  <2>1. row \in VideoRow /\ row.chunks /\ videos' = [videos EXCEPT ![cur[w]] = row]
    BY <1>1, <1>4, RunFacts DEF VideoRow, TypeOK
  <2> HIDE DEF row
  <2>2. row = [videos[cur[w]] EXCEPT !.chunks = TRUE]
    BY DEF row
  <2> QED
    BY <1>3, <1>4, <2>1, <2>2
<1>5. CASE text[w] # "text" /\ Goto(w, "complete") /\ UNCHANGED tables
  <2>1. videos' = [videos EXCEPT ![cur[w]] = videos[cur[w]]] /\ videos[cur[w]] \in VideoRow
    BY <1>1, <1>5, RunFacts DEF tables, TypeOK
  <2> QED
    BY <1>3, <1>5, <2>1 DEF tables
<1> QED
  BY <1>2, <1>4, <1>5 DEF InsertChunks, Transaction, tables

\* jobs.UpdateStatus: completed, with the material the worker knows of.
LEMMA CompleteJobStep ==
  ASSUME IInv, NEW w \in Workers, CompleteJob(w)
  PROVE  Rest'
<1> USE DEF Labels, Owning, Running, Unfinished, Tagged, HasText, HasAll
<1>1. pc[w] = "complete" /\ UNCHANGED <<cur, stg, text>>
  BY DEF CompleteJob, memory
<1>2. CASE Goto(w, "failJob") /\ UNCHANGED tables
  BY <1>1, <1>2, RejectedStep DEF tables
<1>3. ASSUME NEW label \in {"publish", "failJob"}, Goto(w, label), videos' = videos,
             jobs' = [jobs EXCEPT ![cur[w]] = WithStatus(@, "completed", "completed")]
      PROVE  Rest'
  <2>1. pc'[w] = label
    BY <1>3 DEF Goto, IInv, TypeOK
  <2>2. videos' = [videos EXCEPT ![cur[w]] = videos[cur[w]]]
        /\ jobs' = [jobs EXCEPT ![cur[w]] = jobs'[cur[w]]]
    BY <1>1, <1>3, RunFacts DEF TypeOK
  <2>3. jobs'[cur[w]].status = "completed"
    BY <1>1, <1>3, RunFacts DEF TypeOK, WithStatus, JobRow
  <2>4. Invariants(w)'
    BY <1>1, <1>3, <2>1, <2>3, RunFacts
       DEF Invariants, JobOfWorker, VideoOfWorker, StageOfWorker
  <2>5. \A j \in Jobs : j = cur[w] => Rows(j)'
    BY <1>1, <1>3, <2>3, RunFacts DEF Rows, Invariants, VideoOfWorker, HasMaterial
  <2> QED
    BY <1>1, <1>3, <2>2, <2>4, <2>5, CommittedStep
<1> QED
  BY <1>2, <1>3 DEF CompleteJob, Transaction, tables

\* A worker that lets its job go keeps no knowledge of it.
LEMMA ReleaseStep ==
  ASSUME IInv, NEW w \in Workers, pc[w] \in Owning, Release(w), jobs' = jobs,
         \A j \in Jobs \ {cur[w]} : videos'[j] = videos[j],
         \A j \in Jobs : j = cur[w] => Rows(j)'
  PROVE  Rest'
<1> USE DEF Labels, Owning, Running, Unfinished, Tagged, HasText, HasAll
<1>1. pc'[w] \in {"claim", "idle"}
  BY DEF Release, Goto, Resume, IInv, TypeOK
<1>2. Frame(w, cur[w])
  BY DEF Frame, Release, Goto, IInv, TypeOK
<1>3. Invariants(w)'
  BY <1>1 DEF Invariants, JobOfWorker, VideoOfWorker, StageOfWorker
<1> QED
  BY <1>1, <1>2, <1>3, RunStepFrame DEF Rest

\* GetByIDAllTenants: the stage in memory is the one of the claim.
LEMMA LoadJobStep ==
  ASSUME IInv, NEW w \in Workers, LoadJob(w)
  PROVE  Rest'
<1> USE DEF Labels, Owning, Running, Unfinished, Tagged, HasText, HasAll
<1>1. pc[w] = "load" /\ UNCHANGED <<jobs, videos>>
  BY DEF LoadJob, tables
<1>2. \A j \in Jobs : j = cur[w] => Rows(j)'
  BY <1>1, RunFacts DEF Rows, HasMaterial
<1>3. CASE Release(w)
  BY <1>1, <1>2, <1>3, ReleaseStep
<1>4. CASE ~Release(w)
  <2>1. /\ Goto(w, "cleanup") /\ UNCHANGED <<cur, text>>
        /\ stg' = [stg EXCEPT ![w] = jobs[cur[w]].stage]
    BY <1>4 DEF LoadJob
  <2>2. pc'[w] = "cleanup" /\ stg'[w] = jobs[cur[w]].stage
    BY <2>1 DEF Goto, IInv, TypeOK
  <2>3. Frame(w, cur[w])
    BY <1>1, <2>1 DEF Frame, Goto, IInv, TypeOK
  <2>4. Invariants(w)'
    BY <1>1, <2>1, <2>2, RunFacts DEF Invariants, JobOfWorker, VideoOfWorker, StageOfWorker
  <2> QED
    BY <1>1, <1>2, <2>1, <2>2, <2>3, <2>4, RunStepFrame DEF Rest
<1> QED
  BY <1>3, <1>4

\* generateSummary: only the summary of the row changes.
LEMMA GenerateSummaryStep ==
  ASSUME IInv, NEW w \in Workers, GenerateSummary(w)
  PROVE  Rest'
<1>1. pc[w] = "summary" /\ pc[w] \in Owning /\ Release(w) /\ jobs' = jobs
  BY DEF GenerateSummary, Owning, Labels
<1>2. /\ \A j \in Jobs \ {cur[w]} : videos'[j] = videos[j]
      /\ videos'[cur[w]].status = videos[cur[w]].status
      /\ videos'[cur[w]].tagged = videos[cur[w]].tagged
      /\ videos'[cur[w]].transcript = videos[cur[w]].transcript
      /\ videos'[cur[w]].chunks = videos[cur[w]].chunks
  BY <1>1, RunFacts DEF GenerateSummary, TypeOK, VideoRow
<1>3. \A j \in Jobs : j = cur[w] => Rows(j)'
  BY <1>1, <1>2, RunFacts DEF Rows, HasMaterial
<1> QED
  BY <1>1, <1>2, <1>3, ReleaseStep

\* fail(), the job: failed, at a stage the worker's video has reached.
LEMMA FailJobStep ==
  ASSUME IInv, NEW w \in Workers, FailJob(w)
  PROVE  Rest'
<1> USE DEF Labels, Owning, Running, Unfinished, Tagged, HasText, HasAll
<1>1. /\ pc[w] = "failJob" /\ Goto(w, "failVideo")
      /\ UNCHANGED <<videos, cur, stg, text>>
  BY DEF FailJob, memory
<1>2. pc'[w] = "failVideo"
  BY <1>1 DEF Goto, IInv, TypeOK
<1>3. \/ UNCHANGED jobs
      \/ /\ \A j \in Jobs \ {cur[w]} : jobs'[j] = jobs[j]
         /\ jobs'[cur[w]].status = "failed" /\ jobs'[cur[w]].stage = stg[w]
  <2>1. CASE jobs' = [jobs EXCEPT ![cur[w]] = WithStatus(@, "failed", stg[w])]
    <3>1. jobs'[cur[w]] = WithStatus(jobs[cur[w]], "failed", stg[w])
      BY <1>1, <2>1, RunFacts DEF TypeOK
    <3> QED
      BY <1>1, <2>1, <3>1, RunFacts DEF WithStatus, JobRow, TypeOK
  <2> QED
    BY <2>1 DEF FailJob
<1>4. Frame(w, cur[w])
  BY <1>1, <1>3 DEF Frame, Goto, IInv, TypeOK
<1>5. Invariants(w)'
  BY <1>1, <1>2, RunFacts DEF Invariants, JobOfWorker, VideoOfWorker, StageOfWorker
<1>6. \A j \in Jobs : j = cur[w] => Rows(j)'
  BY <1>1, <1>3, RunFacts DEF Rows, Invariants, StageOfWorker, HasMaterial
<1> QED
  BY <1>1, <1>2, <1>4, <1>5, <1>6, RunStepFrame DEF Rest

-----------------------------------------------------------------------------
(* Steps that change no row of a job, and of a video only whether it is    *)
(* failed or deleted: FailByJobID of an earlier attempt, the soft delete,  *)
(* and the steps of an idle worker or of the process.                      *)

SameMaterial(j) ==
  /\ videos'[j].tagged = videos[j].tagged
  /\ videos'[j].transcript = videos[j].transcript
  /\ videos'[j].chunks = videos[j].chunks
  /\ \/ videos'[j].status = videos[j].status
     \/ videos[j].status # "none" /\ videos'[j].status = "failed"

\* What HasMaterial reads is unchanged, so are its consequences.
LEMMA SameMaterialRows ==
  ASSUME IInv, NEW j \in Jobs, jobs'[j] = jobs[j], SameMaterial(j)
  PROVE  Rows(j)'
  BY DEF IInv, Rows, SameMaterial, HasMaterial

\* Each worker either stays as it is, or holds nothing of a run.
Detached(w) == pc'[w] \notin Owning \union {"commit", "failVideo"}
Still(w)    == pc'[w] = pc[w] /\ cur'[w] = cur[w] /\ stg'[w] = stg[w] /\ text'[w] = text[w]

\* Steps after which the worker concerned is in no run.
LEMMA DetachedStep ==
  ASSUME IInv, jobs' = jobs, \A j \in Jobs : SameMaterial(j),
         \A w \in Workers : Detached(w) \/ Still(w)
  PROVE  Rest'
<1> USE DEF Labels, Owning, Running, Unfinished, Tagged, HasText, HasAll
<1>1. ASSUME NEW w \in Workers PROVE Invariants(w)'
  <2>1. CASE Detached(w)
    BY <2>1 DEF Detached, Invariants, JobOfWorker, VideoOfWorker, StageOfWorker
  <2>2. CASE Still(w) /\ ~Detached(w)
    <3>1. cur[w] \in Jobs /\ Invariants(w)
      BY <2>2 DEF IInv, Invariants, JobOfWorker, Still, Detached
    <3>2. SameMaterial(cur[w])
      BY <3>1
    <3> QED
      BY <2>2, <3>1, <3>2
         DEF Still, SameMaterial, Invariants, JobOfWorker, VideoOfWorker, StageOfWorker,
             HasMaterial
  <2> QED
    BY <2>1, <2>2
<1>2. ASSUME NEW u \in Workers, NEW v \in Workers, u # v PROVE Apart(u, v)'
  BY <1>2 DEF IInv, Apart, Detached, Still
<1>3. ASSUME NEW j \in Jobs PROVE Rows(j)'
  BY SameMaterialRows
<1> QED
  BY <1>1, <1>2, <1>3 DEF Rest

\* FailByJobID: a status changes, no material does.
LEMMA FailVideoStep ==
  ASSUME IInv, NEW w \in Workers, FailVideo(w)
  PROVE  Rest'
<1>1. pc[w] = "failVideo" /\ Release(w) /\ jobs' = jobs
  BY DEF FailVideo
<1>2. \A j \in Jobs : SameMaterial(j)
  BY DEF FailVideo, SameMaterial, IInv, TypeOK, VideoRow
<1>3. \A v \in Workers : Detached(v) \/ Still(v)
  BY <1>1 DEF Release, Goto, Resume, Detached, Still, Owning, Labels, IInv, TypeOK
<1> QED
  BY <1>1, <1>2, <1>3, DetachedStep

\* DELETE /videos/:id: a flag changes, no material does.
LEMMA DeleteVideoStep ==
  ASSUME IInv, NEW j \in Jobs, DeleteVideo(j)
  PROVE  Rest'
<1>1. \A i \in Jobs : SameMaterial(i)
  BY DEF DeleteVideo, SameMaterial, IInv, TypeOK, VideoRow
<1>2. jobs' = jobs /\ \A v \in Workers : Still(v)
  BY DEF DeleteVideo, Still, memory
<1> QED
  BY <1>1, <1>2, DetachedStep

\* The steps of the pool and the process that touch no row.
LEMMA IdleStep ==
  ASSUME IInv, \/ \E w \in Workers : Wake(w) \/ StopClaiming(w)
               \/ Process
               \/ UNCHANGED vars
  PROVE  Rest'
<1>1. UNCHANGED tables /\ \A v \in Workers : Detached(v) \/ Still(v)
  BY DEF Wake, StopClaiming, Process, Sigterm, GraceExceeded, Stopped, Crash, Start, Goto,
         Detached, Still, Owning, Labels, IInv, TypeOK, vars, tables, memory
<1>2. jobs' = jobs /\ \A j \in Jobs : SameMaterial(j)
  BY <1>1 DEF tables, SameMaterial
<1> QED
  BY <1>1, <1>2, DetachedStep

-----------------------------------------------------------------------------
(* Steps that give a pending, failed or absent job another status: nobody  *)
(* is running it.                                                          *)

\* No worker has a run of j.
Unclaimed(j) == \A v \in Workers : pc[v] \in Owning => cur[v] # j

\* A pending or failed job is in no run.
LEMMA NotRunning ==
  ASSUME IInv, NEW j \in Jobs, jobs[j].status \in {"none", "pending", "failed"}
  PROVE  Unclaimed(j)
  BY DEF Unclaimed, IInv, JobOfWorker, Owning, Running, Labels

\* POST /jobs and /jobs/:id/retry: only a job in no run is queued.
LEMMA RequeueStep ==
  ASSUME IInv, NEW j \in Jobs, CreateJob(j) \/ RetryJob(j)
  PROVE  Rest'
<1> USE DEF Labels, Owning, Running, Unfinished, Tagged, HasText, HasAll
<1>1. UNCHANGED <<videos, pc, cur, stg, text>>
  BY DEF CreateJob, RetryJob, memory
<1>2. jobs[j].status \in {"none", "failed"} /\ Unclaimed(j)
  BY NotRunning DEF CreateJob, RetryJob
<1>3. /\ \A i \in Jobs \ {j} : jobs'[i] = jobs[i]
      /\ jobs'[j].status = "pending" /\ jobs'[j].stage = "queued"
  <2>1. CASE CreateJob(j)
    BY <2>1 DEF CreateJob, InsertedJob, IInv, TypeOK
  <2>2. CASE RetryJob(j)
    <3>1. jobs' = [jobs EXCEPT ![j] = Requeued(@)] /\ jobs[j] \in JobRow
      BY <2>2 DEF RetryJob, IInv, TypeOK
    <3>2. jobs'[j] = Requeued(jobs[j]) /\ \A i \in Jobs \ {j} : jobs'[i] = jobs[i]
      BY <3>1 DEF IInv, TypeOK
    <3> DEFINE n == jobs[j].retries + 1
    <3>3. Requeued(jobs[j]) = [jobs[j] EXCEPT !.status = "pending", !.stage = "queued",
                                              !.retries = n, !.finished = FALSE]
      BY DEF Requeued
    <3> HIDE DEF n
    <3>4. Requeued(jobs[j]).status = "pending" /\ Requeued(jobs[j]).stage = "queued"
      BY <3>1, <3>3 DEF JobRow
    <3> QED
      BY <3>2, <3>4
  <2> QED
    BY <2>1, <2>2
<1>4. ASSUME NEW v \in Workers PROVE Invariants(v)'
  <2>1. Invariants(v)
    BY DEF IInv, Invariants
  <2>2. CASE cur[v] \in Jobs \ {j}
    BY <1>1, <1>3, <2>1, <2>2
       DEF Invariants, JobOfWorker, VideoOfWorker, StageOfWorker, HasMaterial
  <2>3. CASE cur[v] \notin Jobs \ {j}
    <3>1. pc[v] \notin Owning \union {"commit"}
      BY <1>2, <2>1, <2>3 DEF Invariants, JobOfWorker, Unclaimed
    <3> QED
      BY <1>1, <2>1, <3>1 DEF Invariants, JobOfWorker, VideoOfWorker, StageOfWorker
  <2> QED
    BY <2>2, <2>3
<1>5. \A u, v \in Workers : u # v => Apart(u, v)'
  BY <1>1 DEF IInv, Apart
<1>6. ASSUME NEW i \in Jobs PROVE Rows(i)'
  BY <1>1, <1>3 DEF IInv, Rows, HasMaterial, LateStage
<1> QED
  BY <1>4, <1>5, <1>6 DEF Rest

\* The lock keeps two claims from one row.
LEMMA SelectPendingStep ==
  ASSUME IInv, NEW w \in Workers, NEW j \in Jobs, SelectPending(w, j)
  PROVE  Rest'
<1> USE DEF Labels, Owning, Running, Unfinished, Tagged, HasText, HasAll
<1>1. /\ UNCHANGED <<jobs, videos, stg, text>>
      /\ jobs[j].status = "pending"
      /\ \A v \in Workers : ~(pc[v] = "commit" /\ cur[v] = j)
  BY DEF SelectPending, Claimable, Pending, tables, memory
<1>2. /\ pc'[w] = "commit" /\ cur'[w] = j
      /\ \A v \in Workers \ {w} : pc'[v] = pc[v] /\ cur'[v] = cur[v]
  BY DEF SelectPending, Goto, IInv, TypeOK
<1>3. ASSUME NEW v \in Workers PROVE Invariants(v)'
  BY <1>1, <1>2
     DEF IInv, Invariants, JobOfWorker, VideoOfWorker, StageOfWorker, HasMaterial
<1>4. ASSUME NEW u \in Workers, NEW v \in Workers, u # v PROVE Apart(u, v)'
  BY <1>1, <1>2, <1>4 DEF IInv, Apart
<1>5. ASSUME NEW i \in Jobs PROVE Rows(i)'
  BY <1>1 DEF IInv, Rows, HasMaterial
<1> QED
  BY <1>3, <1>4, <1>5 DEF Rest

\* ClaimNextPending: the row a claim had locked is still pending.
LEMMA ClaimStep ==
  ASSUME IInv, NEW w \in Workers, ClaimNextPending(w)
  PROVE  Rest'
<1> USE DEF Labels, Owning, Running, Unfinished, Tagged, HasText, HasAll
<1> DEFINE j == cur[w]
<1>1. /\ pc[w] = "commit" /\ j \in Jobs /\ jobs[j].status = "pending"
      /\ Unclaimed(j) /\ TypeOK
      /\ UNCHANGED <<videos, stg, text>>
  BY NotRunning DEF ClaimNextPending, IInv, JobOfWorker, memory
<1>2. \A v \in Workers \ {w} : pc'[v] = pc[v] /\ cur'[v] = cur[v]
  BY <1>1 DEF ClaimNextPending, Goto, TypeOK
<1>3. \/ jobs' = jobs
      \/ /\ \A i \in Jobs \ {j} : jobs'[i] = jobs[i]
         /\ jobs'[j].status = "processing" /\ jobs'[j].stage = "downloading"
  <2>1. CASE jobs' = [jobs EXCEPT ![j] = Claimed(@)]
    <3>1. jobs'[j] = Claimed(jobs[j]) /\ jobs[j] \in JobRow
      BY <1>1, <2>1 DEF TypeOK
    <3> QED
      BY <1>1, <2>1, <3>1 DEF Claimed, JobRow, TypeOK
  <2> QED
    BY <2>1 DEF ClaimNextPending
<1>4. \/ pc'[w] \in {"claim", "idle"}
      \/ /\ pc'[w] = "load" /\ cur'[w] = j
         /\ jobs'[j].status = "processing" /\ jobs'[j].stage = "downloading"
  <2>1. CASE Goto(w, Resume)
    BY <2>1, <1>1 DEF Goto, Resume, TypeOK
  <2>2. CASE ~Goto(w, Resume)
    <3>1. jobs' = [jobs EXCEPT ![j] = Claimed(@)] /\ Goto(w, "load") /\ UNCHANGED cur
      BY <2>2 DEF ClaimNextPending
    <3>2. jobs'[j] = Claimed(jobs[j]) /\ jobs[j] \in JobRow /\ pc'[w] = "load"
      BY <1>1, <3>1 DEF TypeOK, Goto
    <3> QED
      BY <3>1, <3>2 DEF Claimed, JobRow
  <2> QED
    BY <2>1, <2>2
<1>5. ASSUME NEW v \in Workers, v # w PROVE Invariants(v)'
  <2>1. Invariants(v) /\ Apart(v, w)
    BY <1>5 DEF IInv, Invariants
  <2>2. CASE pc[v] \in Owning \union {"commit"}
    <3>1. cur[v] # j /\ cur[v] \in Jobs
      BY <1>1, <2>1, <2>2 DEF Apart, Unclaimed, Invariants, JobOfWorker
    <3>2. jobs'[cur[v]] = jobs[cur[v]]
      BY <1>3, <3>1
    <3> QED
      BY <1>1, <1>2, <1>5, <2>1, <3>1, <3>2
         DEF Invariants, JobOfWorker, VideoOfWorker, StageOfWorker, HasMaterial
  <2>3. CASE pc[v] \notin Owning \union {"commit"}
    BY <1>1, <1>2, <1>5, <2>1, <2>3
       DEF Invariants, JobOfWorker, VideoOfWorker, StageOfWorker
  <2> QED
    BY <2>2, <2>3
<1>6. Invariants(w)'
  BY <1>1, <1>4 DEF Invariants, JobOfWorker, VideoOfWorker, StageOfWorker, LateStage, IInv
<1>7. ASSUME NEW u \in Workers, NEW v \in Workers, u # v PROVE Apart(u, v)'
  BY <1>1, <1>2, <1>4, <1>7 DEF IInv, Apart, Unclaimed
<1>8. ASSUME NEW i \in Jobs PROVE Rows(i)'
  BY <1>1, <1>3 DEF IInv, Rows, HasMaterial, LateStage
<1> QED
  BY <1>5, <1>6, <1>7, <1>8 DEF Rest

-----------------------------------------------------------------------------
(* The theorems *)

\* The tables and the pool at the start.
LEMMA InitIInv == Init => IInv
<1> SUFFICES ASSUME Init PROVE IInv
  OBVIOUS
<1>1. TypeOK
  BY InitTypeOK
<1>2. ASSUME NEW w \in Workers PROVE JobOfWorker(w) /\ VideoOfWorker(w) /\ StageOfWorker(w)
  BY DEF Init, JobOfWorker, VideoOfWorker, StageOfWorker, Owning, Running, Unfinished, Tagged,
         HasText, HasAll, Labels
<1>3. ASSUME NEW v \in Workers, NEW w \in Workers PROVE Apart(v, w)
  BY DEF Init, Apart, Owning, Labels
<1>4. ASSUME NEW j \in Jobs PROVE Rows(j)
  BY DEF Init, Rows, NoJobRow, NoVideo, LateStage
<1> QED
  BY <1>1, <1>2, <1>3, <1>4 DEF IInv

\* Every step keeps everything but the types, which StepType keeps.
LEMMA NextRest ==
  ASSUME IInv, Next
  PROVE  Rest'
<1>1. ASSUME NEW j \in Jobs, Api(j) PROVE Rest'
  BY <1>1, RequeueStep, DeleteVideoStep DEF Api
<1>2. ASSUME NEW w \in Workers, RunStep(w) PROVE Rest'
  <2>1. CASE StageDownloading(w)
    BY <2>1, SetStageStep DEF StageDownloading
  <2>2. CASE StageExtracting(w)
    BY <2>2, SetStageStep DEF StageExtracting
  <2>3. CASE StageChunking(w)
    BY <2>3, SetStageStep DEF StageChunking
  <2>4. CASE StageEmbedding(w)
    BY <2>4, SetStageStep DEF StageEmbedding
  <2> QED
    BY <1>2, <2>1, <2>2, <2>3, <2>4, LoadJobStep, CleanupStep, CreateVideoStep,
       CopyJobSegmentsStep, SaveTranscriptStep, InsertChunksStep, CompleteJobStep,
       CompleteVideoStep, GenerateSummaryStep, FailJobStep, FailVideoStep
       DEF RunStep
<1>3. ASSUME NEW w \in Workers, Wake(w) \/ WorkerStep(w) PROVE Rest'
  BY <1>2, <1>3, SelectPendingStep, IdleStep, ClaimStep DEF WorkerStep
<1>4. CASE Process
  BY <1>4, IdleStep
<1> QED
  BY <1>1, <1>3, <1>4 DEF Next

\* The invariant is inductive.
LEMMA StepIInv == IInv /\ [Next]_vars => IInv'
<1> SUFFICES ASSUME IInv, [Next]_vars PROVE IInv'
  OBVIOUS
<1>1. TypeOK'
  BY StepType DEF vars, IInv, TypeOK
<1>2. Rest'
  BY NextRest, IdleStep
<1> QED
  BY <1>1, <1>2 DEF IInv, Rest, Invariants

(***************************************************************************)
(* The inductive invariant holds throughout: no worker ever writes to rows *)
(* of a run that is not its own, until it marks the video failed.          *)
(***************************************************************************)
THEOREM Invariance == Spec => []IInv
  BY InitIInv, StepIInv, PTL DEF Spec

(* Every row and every label is one the schema and the code know. *)
THEOREM TypeCorrectness == Spec => []TypeOK
<1>1. IInv => TypeOK
  BY DEF IInv
<1> QED
  BY <1>1, Invariance, PTL

(***************************************************************************)
(* ClaimNextPending and RetryJob together keep two workers from running a  *)
(* job at the same time, whatever commits are lost and whenever the        *)
(* process is stopped, killed and restarted.                               *)
(***************************************************************************)
THEOREM MutualExclusion == Spec => []SingleRunner
<1>1. IInv => SingleRunner
  BY DEF IInv, Apart, SingleRunner
<1> QED
  BY <1>1, Invariance, PTL

(***************************************************************************)
(* SearchChunks never serves half a material, however runs, failures and   *)
(* retries of the job interleave.                                          *)
(***************************************************************************)
THEOREM SearchSafety == Spec => []SearchableIsComplete
<1>1. IInv => SearchableIsComplete
  BY DEF IInv, Rows, SearchableIsComplete, Searchable
<1> QED
  BY <1>1, Invariance, PTL

(***************************************************************************)
(* A job reported completed has the material run() persisted for it.       *)
(***************************************************************************)
THEOREM CompletionSafety == Spec => []CompletedHasMaterial
<1>1. IInv => CompletedHasMaterial
  BY DEF IInv, Rows, CompletedHasMaterial
<1> QED
  BY <1>1, Invariance, PTL

(***************************************************************************)
(* The stage the API shows is never ahead of what is persisted.            *)
(***************************************************************************)
THEOREM StageSafety == Spec => []StageMeansPersisted
<1>1. IInv => StageMeansPersisted
  BY DEF IInv, Rows, StageMeansPersisted
<1> QED
  BY <1>1, Invariance, PTL

-----------------------------------------------------------------------------
(***************************************************************************)
(* No constraint refuses a run: its video is the one it has created.       *)
(***************************************************************************)

\* What a worker finds where it is going to write: nothing, then its own row.
OwnRow(w) ==
  /\ pc[w] = "create" => videos[cur[w]].status = "none"
  /\ pc[w] \in Writing => HasRow(w)

RowIInv == IInv /\ NoRunIsRefused

\* A step of run on its own job's row disturbs nobody else's.
LEMMA OthersKeepRow ==
  ASSUME RowIInv, NEW w \in Workers, pc[w] \in Owning,
         \A v \in Workers \ {w} : pc'[v] = pc[v] /\ cur'[v] = cur[v] /\ vid'[v] = vid[v],
         \A i \in Jobs \ {cur[w]} : videos'[i] = videos[i],
         OwnRow(w)'
  PROVE  NoRunIsRefused'
<1>1. ASSUME NEW v \in Workers, v # w PROVE OwnRow(v)'
  <2>1. pc'[v] = pc[v] /\ cur'[v] = cur[v] /\ vid'[v] = vid[v] /\ OwnRow(v)
    BY <1>1 DEF RowIInv, NoRunIsRefused, OwnRow
  <2>2. CASE pc[v] \notin Writing \union {"create"}
    BY <2>1, <2>2 DEF OwnRow
  <2>3. CASE pc[v] \in Writing \union {"create"}
    <3>1. pc[v] \in Owning
      BY <2>3 DEF Writing, Owning, Labels
    <3>2. cur[v] \in Jobs /\ cur[v] # cur[w]
      BY <1>1, <3>1 DEF RowIInv, IInv, JobOfWorker, Apart
    <3>3. videos'[cur'[v]] = videos[cur[v]]
      BY <2>1, <3>2
    <3> QED
      BY <2>1, <3>3 DEF OwnRow, HasRow
  <2> QED
    BY <2>2, <2>3
<1> QED
  BY <1>1 DEF NoRunIsRefused, OwnRow

\* The row of a video stays that row.
SameRow(j) ==
  videos'[j].id = videos[j].id /\ (videos'[j].status = "none" <=> videos[j].status = "none")

\* A worker that goes on with the video it has, or that has none.
GoesOn(w) ==
  \/ pc'[w] \notin Writing \union {"create"}
  \/ /\ cur'[w] = cur[w] /\ vid'[w] = vid[w]
     /\ pc'[w] = pc[w] \/ (pc[w] \in Writing /\ pc'[w] \in Writing)

\* Steps that neither create nor remove a video.
LEMMA RowsKept ==
  ASSUME RowIInv, \A j \in Jobs : SameRow(j), \A w \in Workers : GoesOn(w)
  PROVE  NoRunIsRefused'
<1>1. ASSUME NEW w \in Workers PROVE OwnRow(w)'
  <2>1. OwnRow(w) /\ GoesOn(w)
    BY DEF RowIInv, NoRunIsRefused, OwnRow
  <2>2. CASE pc'[w] \notin Writing \union {"create"}
    BY <2>2 DEF OwnRow
  <2>3. CASE pc'[w] \in Writing \union {"create"}
    <3>1. cur'[w] = cur[w] /\ vid'[w] = vid[w] /\ pc[w] \in Writing \union {"create"}
          /\ (pc'[w] = pc[w] \/ (pc[w] \in Writing /\ pc'[w] \in Writing))
      BY <2>1, <2>3 DEF GoesOn
    <3>2. cur[w] \in Jobs
      BY <3>1 DEF RowIInv, IInv, JobOfWorker, Writing, Owning, Labels
    <3>3. SameRow(cur[w])
      BY <3>2
    <3> QED
      BY <2>1, <3>1, <3>3 DEF OwnRow, HasRow, SameRow, Writing
  <2> QED
    BY <2>2, <2>3
<1> QED
  BY <1>1 DEF NoRunIsRefused, OwnRow

\* DeleteByJobID empties the place, and only its own run fills it again.
LEMMA RowReplaced ==
  ASSUME RowIInv, NEW w \in Workers, Cleanup(w) \/ CreateVideo(w)
  PROVE  NoRunIsRefused'
<1> DEFINE id == <<w, jobs[cur[w]].retries>>
<1>1. pc[w] \in Owning /\ UNCHANGED cur
  BY DEF Cleanup, CreateVideo, Owning, Labels
<1>2. cur[w] \in Jobs /\ TypeOK
  BY <1>1, RunFacts DEF RowIInv
<1>3. \A v \in Workers \ {w} : pc'[v] = pc[v] /\ cur'[v] = cur[v] /\ vid'[v] = vid[v]
  BY <1>1, <1>2 DEF Cleanup, CreateVideo, Transaction, Goto, memory, TypeOK
<1>4. \A i \in Jobs \ {cur[w]} : videos'[i] = videos[i]
  BY <1>2 DEF Cleanup, CreateVideo, Transaction, tables, TypeOK
<1>5. CASE Goto(w, "failJob")
  <2>1. OwnRow(w)'
    BY <1>2, <1>5 DEF Goto, TypeOK, OwnRow, Writing
  <2> QED
    BY <1>1, <1>3, <1>4, <2>1, OthersKeepRow
<1>6. CASE Goto(w, "create") /\ videos' = [videos EXCEPT ![cur[w]] = NoVideo]
  <2>1. OwnRow(w)'
    BY <1>1, <1>2, <1>6 DEF Goto, TypeOK, OwnRow, Writing, NoVideo
  <2> QED
    BY <1>1, <1>3, <1>4, <2>1, OthersKeepRow
<1>7. CASE /\ Goto(w, "segments") /\ vid' = [vid EXCEPT ![w] = id]
           /\ videos' = [videos EXCEPT ![cur[w]] = InsertedVideo(id)]
  <2>1. videos'[cur'[w]] = InsertedVideo(id) /\ vid'[w] = id /\ pc'[w] = "segments"
    BY <1>1, <1>2, <1>7 DEF Goto, TypeOK
  <2>2. OwnRow(w)'
    BY <2>1 DEF OwnRow, HasRow, InsertedVideo, NoVideo
  <2> QED
    BY <1>1, <1>3, <1>4, <2>2, OthersKeepRow
<1> QED
  BY <1>5, <1>6, <1>7 DEF Cleanup, CreateVideo, Transaction

\* A column of a video that exists.
LEMMA ColumnKeepsRow ==
  ASSUME TypeOK, NEW j \in Jobs,
         \/ videos' = videos
         \/ \E x : videos' = [videos EXCEPT ![j].tagged = x]
         \/ \E x : videos' = [videos EXCEPT ![j].transcript = x]
         \/ \E x : videos' = [videos EXCEPT ![j].chunks = x]
         \/ \E x : videos' = [videos EXCEPT ![j].summary = x]
         \/ \E x : videos' = [videos EXCEPT ![j].deleted = x]
         \/ /\ videos[j].status # "none"
            /\ \E x \in {"completed", "failed"} : videos' = [videos EXCEPT ![j].status = x]
  PROVE  \A i \in Jobs : SameRow(i)
  BY DEF TypeOK, VideoRow, SameRow

\* The steps of run that write to a video they have, or to the job alone.
LEMMA RunKeepsRows ==
  ASSUME RowIInv, NEW w \in Workers, RunStep(w), ~Cleanup(w), ~CreateVideo(w)
  PROVE  NoRunIsRefused'
<1>1. pc[w] \in Owning \union {"failVideo"} /\ cur[w] \in Jobs /\ TypeOK
  <2>1. pc[w] \in Owning \union {"failVideo"}
    BY DEF RunStep, LoadJob, CopyJobSegments, StageDownloading, StageExtracting, SaveTranscript,
           StageChunking, StageEmbedding, InsertChunks, CompleteJob, CompleteVideo,
           GenerateSummary, FailJob, FailVideo, Owning, Labels
  <2> QED
    BY <2>1 DEF RowIInv, IInv, JobOfWorker
<1>2. pc[w] \in Writing => videos[cur[w]].status # "none"
  BY DEF RowIInv, NoRunIsRefused, HasRow
<1>3. \A i \in Jobs : SameRow(i)
  <2>1. CASE CopyJobSegments(w)
    BY <1>1, <2>1, ColumnKeepsRow DEF CopyJobSegments, Transaction, tables
  <2>2. CASE SaveTranscript(w)
    BY <1>1, <2>2, ColumnKeepsRow DEF SaveTranscript, Transaction, tables
  <2>3. CASE InsertChunks(w)
    BY <1>1, <2>3, ColumnKeepsRow DEF InsertChunks, Transaction, tables
  <2>4. CASE CompleteVideo(w)
    BY <1>1, <1>2, <2>4, ColumnKeepsRow DEF CompleteVideo, Transaction, tables, Writing
  <2>5. CASE GenerateSummary(w)
    BY <1>1, <2>5, ColumnKeepsRow DEF GenerateSummary
  <2>6. CASE FailVideo(w)
    <3>1. CASE videos[cur[w]].status = "none"
      BY <1>1, <2>6, <3>1 DEF FailVideo, SameRow, TypeOK
    <3>2. CASE videos[cur[w]].status # "none"
      <4>1. \/ videos' = videos
            \/ videos' = [videos EXCEPT ![cur[w]].status = "failed"]
        BY <2>6, <3>2 DEF FailVideo
      <4> QED
        BY <1>1, <3>2, <4>1, ColumnKeepsRow
    <3> QED
      BY <3>1, <3>2
  <2>7. CASE videos' = videos
    BY <1>1, <2>7, ColumnKeepsRow
  <2> QED
    BY <2>1, <2>2, <2>3, <2>4, <2>5, <2>6, <2>7
       DEF RunStep, LoadJob, StageDownloading, StageExtracting, StageChunking, StageEmbedding,
           SetStage, CompleteJob, FailJob, Transaction, tables
<1>4. /\ \A v \in Workers \ {w} : pc'[v] = pc[v] /\ cur'[v] = cur[v] /\ vid'[v] = vid[v]
      /\ GoesOn(w)
  <2>1. CASE Release(w)
    BY <1>1, <2>1 DEF Release, Resume, Goto, TypeOK, GoesOn, Writing
  <2>2. CASE UNCHANGED <<cur, vid>> /\ \E label \in {"failJob", "failVideo", "cleanup"} : Goto(w, label)
    BY <1>1, <2>2 DEF Goto, TypeOK, GoesOn, Writing
  <2>3. CASE UNCHANGED <<cur, vid>> /\ pc[w] \in Writing /\ \E label \in Writing : Goto(w, label)
    BY <1>1, <2>3 DEF Goto, TypeOK, GoesOn
  <2> QED
    BY <2>1, <2>2, <2>3
       DEF RunStep, LoadJob, CopyJobSegments, StageDownloading, StageExtracting, SaveTranscript,
           StageChunking, StageEmbedding, InsertChunks, CompleteJob, CompleteVideo,
           GenerateSummary, FailJob, FailVideo, SetStage, Transaction, memory, Writing
<1> QED
  BY <1>3, <1>4, RowsKept DEF GoesOn

\* The steps outside run.
LEMMA OtherStepsKeepRows ==
  ASSUME RowIInv,
         \/ \E j \in Jobs : Api(j)
         \/ \E w \in Workers : \/ Wake(w) \/ StopClaiming(w) \/ ClaimNextPending(w)
                               \/ \E j \in Jobs : SelectPending(w, j)
         \/ Process \/ UNCHANGED vars
  PROVE  NoRunIsRefused'
<1>0. TypeOK
  BY DEF RowIInv, IInv
<1>1. ASSUME NEW j \in Jobs, Api(j) PROVE NoRunIsRefused'
  <2>1. \A i \in Jobs : SameRow(i)
    BY <1>0, <1>1, ColumnKeepsRow DEF Api, CreateJob, RetryJob, DeleteVideo
  <2>2. UNCHANGED <<pc, cur, vid>>
    BY <1>1 DEF Api, CreateJob, RetryJob, DeleteVideo, memory
  <2> QED
    BY <2>1, <2>2, RowsKept DEF GoesOn
<1>2. ASSUME UNCHANGED videos, \A w \in Workers : GoesOn(w) PROVE NoRunIsRefused'
  BY <1>2, RowsKept DEF SameRow
<1>3. ASSUME NEW w \in Workers,
             \/ Wake(w) \/ StopClaiming(w) \/ ClaimNextPending(w)
             \/ \E j \in Jobs : SelectPending(w, j)
      PROVE  NoRunIsRefused'
  <2>1. /\ UNCHANGED <<videos, vid>> /\ pc'[w] \in {"claim", "commit", "load", "idle"}
        /\ \A v \in Workers \ {w} : pc'[v] = pc[v] /\ cur'[v] = cur[v]
    BY <1>0, <1>3 DEF Wake, StopClaiming, ClaimNextPending, SelectPending, Goto, Resume, tables,
                      memory, TypeOK
  <2> QED
    BY <1>2, <2>1 DEF GoesOn, Writing
<1>4. CASE Process \/ UNCHANGED vars
  BY <1>2, <1>4 DEF Process, Sigterm, GraceExceeded, Stopped, Crash, Start, vars, tables, memory,
                    GoesOn, Writing
<1> QED
  BY <1>1, <1>3, <1>4

\* Nothing runs at first.
LEMMA InitRowIInv == Init => RowIInv
  BY InitIInv DEF RowIInv, Init, NoRunIsRefused, Writing

\* One case per action.
LEMMA StepRowIInv == RowIInv /\ [Next]_vars => RowIInv'
<1> SUFFICES ASSUME RowIInv, [Next]_vars PROVE NoRunIsRefused'
  BY StepIInv DEF RowIInv
<1> QED
  BY RowReplaced, RunKeepsRows, OtherStepsKeepRows DEF Next, WorkerStep

(***************************************************************************)
(* No run is refused a row by UNIQUE(job_id) or a foreign key, or finds    *)
(* its video gone: for any jobs, workers and retries, and under every      *)
(* fault, nobody else creates or removes the video of a job that is run.   *)
(***************************************************************************)
THEOREM ConstraintSafety == Spec => []NoRunIsRefused
<1>1. Init => RowIInv
  BY InitRowIInv
<1>2. RowIInv => NoRunIsRefused
  BY DEF RowIInv
<1> QED
  BY <1>1, <1>2, StepRowIInv, PTL DEF Spec

-----------------------------------------------------------------------------
(***************************************************************************)
(* The stage of a job that is processing only advances.  On top of the     *)
(* invariant it takes what a worker at each label knows of the stage in    *)
(* its job's row.                                                          *)
(***************************************************************************)

Early == {"load", "cleanup", "create", "segments", "downloading", "extracting"}

\* The stage of the row while its runner is at a label before the next setStage.
Reached(label, stage) ==
  /\ label \in Early => stage = "downloading"
  /\ label \in {"transcript", "chunking"} => stage \in {"transcribing", "parsing"}
  /\ label = "embedding" => stage = "chunking"

StageReached == \A w \in Workers : Reached(pc[w], jobs[cur[w]].stage)

StageIInv == IInv /\ StageReached

\* No row goes back while it is processing.
Advances ==
  \A j \in Jobs :
    jobs[j].status = "processing" /\ jobs'[j].status = "processing"
      => StageOrder[jobs[j].stage] <= StageOrder[jobs'[j].stage]

\* A row that stays keeps its stage.
LEMMA SameStage ==
  ASSUME TypeOK, NEW j \in Jobs, jobs'[j] = jobs[j]
  PROVE  StageOrder[jobs[j].stage] <= StageOrder[jobs'[j].stage]
<1>1. jobs[j].stage \in JobStage
  BY DEF TypeOK, JobRow
<1>2. StageOrder[jobs[j].stage] \in Nat
  BY <1>1 DEF StageOrder, JobStage
<1> QED
  BY <1>2

\* A worker that changes at most the row of its own job only has to look
\* after itself.
LEMMA OthersKeepStage ==
  ASSUME StageIInv, NEW w \in Workers,
         \A v \in Workers \ {w} : pc'[v] = pc[v] /\ cur'[v] = cur[v],
         \A i \in Jobs : jobs'[i] = jobs[i] \/ (i = cur[w] /\ pc[w] \in Owning \union {"commit"}),
         Reached(pc'[w], jobs'[cur'[w]].stage)
  PROVE  StageReached'
<1> SUFFICES ASSUME NEW v \in Workers, v # w
             PROVE  Reached(pc'[v], jobs'[cur'[v]].stage)
  BY DEF StageReached
<1>1. pc'[v] = pc[v] /\ cur'[v] = cur[v] /\ Reached(pc[v], jobs[cur[v]].stage)
  BY DEF StageIInv, StageReached
<1>2. CASE pc[v] \notin Early \union {"transcript", "chunking", "embedding"}
  BY <1>1, <1>2 DEF Reached
<1>3. CASE pc[v] \in Early \union {"transcript", "chunking", "embedding"}
  <2>1. pc[v] \in Running /\ pc[v] \in Owning
    BY <1>3 DEF Early, Running, Owning, Labels
  <2>2. JobOfWorker(v) /\ JobOfWorker(w) /\ Apart(v, w)
    BY DEF StageIInv, IInv
  <2>3. cur[v] \in Jobs /\ jobs[cur[v]].status = "processing"
    BY <2>1, <2>2 DEF JobOfWorker
  <2>4. ~(cur[v] = cur[w] /\ pc[w] \in Owning \union {"commit"})
    BY <2>1, <2>2, <2>3 DEF Apart, JobOfWorker
  <2>5. jobs'[cur[v]] = jobs[cur[v]]
    BY <2>3, <2>4
  <2> QED
    BY <1>1, <2>5
<1> QED
  BY <1>2, <1>3

\* A step that leaves the table jobs alone.
LEMMA JobsUntouched ==
  ASSUME StageIInv, NEW w \in Workers, NEW label,
         UNCHANGED jobs, Goto(w, label),
         \A v \in Workers \ {w} : cur'[v] = cur[v],
         Reached(label, jobs[cur'[w]].stage)
  PROVE  StageReached' /\ Advances
<1>1. pc'[w] = label /\ \A v \in Workers \ {w} : pc'[v] = pc[v]
  BY DEF Goto, StageIInv, IInv, TypeOK
<1>2. StageReached'
  BY <1>1, OthersKeepStage
<1>3. Advances
  BY SameStage DEF Advances, StageIInv, IInv
<1> QED
  BY <1>2, <1>3

\* A step that leaves the row of its own job in another status, or no earlier.
LEMMA OwnRowWritten ==
  ASSUME StageIInv, NEW w \in Workers, NEW label, NEW row,
         pc[w] \in Owning \union {"commit"},
         jobs' = [jobs EXCEPT ![cur[w]] = row],
         Goto(w, label), \A v \in Workers \ {w} : cur'[v] = cur[v],
         Reached(label, jobs'[cur'[w]].stage),
         jobs[cur[w]].status = "processing" /\ row.status = "processing"
           => StageOrder[jobs[cur[w]].stage] <= StageOrder[row.stage]
  PROVE  StageReached' /\ Advances
<1>1. TypeOK /\ cur[w] \in Jobs
  BY DEF StageIInv, IInv, JobOfWorker
<1>2. jobs'[cur[w]] = row /\ \A i \in Jobs \ {cur[w]} : jobs'[i] = jobs[i]
  BY <1>1 DEF TypeOK
<1>3. pc'[w] = label /\ \A v \in Workers \ {w} : pc'[v] = pc[v]
  BY <1>1 DEF Goto, TypeOK
<1>4. StageReached'
  BY <1>2, <1>3, OthersKeepStage
<1>5. Advances
  BY <1>1, <1>2, SameStage DEF Advances
<1> QED
  BY <1>4, <1>5

-----------------------------------------------------------------------------
(* The steps of run *)

\* setStage writes the stage after the one its caller has reached.
LEMMA SetStageAdvances ==
  ASSUME StageIInv, NEW w \in Workers, NEW stage, NEW next, NEW calls,
         SetStage(w, stage, next, calls),
         <<pc[w], stage, next>> \in
           {<<"downloading", "downloading", "extracting">>,
            <<"extracting", "parsing", "transcript">>,
            <<"extracting", "transcribing", "transcript">>,
            <<"chunking", "chunking", "embedding">>,
            <<"embedding", "embedding", "insert">>}
  PROVE  StageReached' /\ Advances
<1>1. pc[w] \in Owning /\ UNCHANGED cur /\ Reached(pc[w], jobs[cur[w]].stage)
  BY DEF SetStage, Owning, Labels, StageIInv, StageReached
<1>2. IInv /\ cur[w] \in Jobs /\ jobs[cur[w]] \in JobRow
  BY <1>1, RunFacts DEF StageIInv
<1>3. CASE Goto(w, "failJob") /\ UNCHANGED tables
  BY <1>1, <1>3, JobsUntouched DEF Reached, Early, tables
<1>4. ASSUME NEW label \in {next, "failJob"}, Goto(w, label),
             jobs' = [jobs EXCEPT ![cur[w]] = WithStatus(@, "processing", stage)]
      PROVE  StageReached' /\ Advances
  <2> DEFINE row == WithStatus(jobs[cur[w]], "processing", stage)
  <2>1. row.stage = stage
    BY <1>2 DEF WithStatus, JobRow
  <2>2. jobs' = [jobs EXCEPT ![cur[w]] = row] /\ jobs'[cur'[w]] = row
    BY <1>1, <1>2, <1>4 DEF IInv, TypeOK
  <2>3. Reached(label, stage)
    BY <1>4 DEF Reached, Early
  <2>4. StageOrder[jobs[cur[w]].stage] <= StageOrder[stage]
    BY <1>1 DEF Reached, Early, StageOrder
  <2> HIDE DEF row
  <2> QED
    BY <1>1, <1>4, <2>1, <2>2, <2>3, <2>4, OwnRowWritten
<1> QED
  BY <1>3, <1>4 DEF SetStage, Transaction, tables

\* The transactions of run that do not write to jobs.
LEMMA VideoStepAdvances ==
  ASSUME StageIInv, NEW w \in Workers,
         Cleanup(w) \/ CreateVideo(w) \/ CopyJobSegments(w) \/ SaveTranscript(w)
           \/ InsertChunks(w) \/ CompleteVideo(w)
  PROVE  StageReached' /\ Advances
<1>1. UNCHANGED <<jobs, cur>>
  BY DEF Cleanup, CreateVideo, CopyJobSegments, SaveTranscript, InsertChunks, CompleteVideo,
         Transaction, tables
<1>2. PICK label \in Labels : Goto(w, label) /\ Reached(label, jobs[cur[w]].stage)
  <2> USE DEF Labels, Reached, Early
  <2>1. Reached(pc[w], jobs[cur[w]].stage)
    BY DEF StageIInv, StageReached
  <2>2. \/ Goto(w, "failJob")
        \/ pc[w] = "cleanup" /\ Goto(w, "create")
        \/ pc[w] = "create" /\ Goto(w, "segments")
        \/ pc[w] = "segments" /\ Goto(w, "downloading")
        \/ pc[w] = "transcript" /\ Goto(w, "chunking")
        \/ Goto(w, "complete") \/ Goto(w, "summary")
    BY DEF Cleanup, CreateVideo, CopyJobSegments, SaveTranscript, InsertChunks, CompleteVideo,
           Transaction
  <2> QED
    BY <2>1, <2>2
<1> QED
  BY <1>1, <1>2, JobsUntouched

\* The steps that lead out of run, and the one into it.
LEMMA OtherRunStepAdvances ==
  ASSUME StageIInv, NEW w \in Workers,
         LoadJob(w) \/ GenerateSummary(w) \/ FailVideo(w)
  PROVE  StageReached' /\ Advances
<1>1. CASE LoadJob(w) /\ Goto(w, "cleanup") /\ UNCHANGED cur
  <2>1. Reached("cleanup", jobs[cur[w]].stage)
    BY <1>1 DEF StageIInv, StageReached, Reached, Early, LoadJob
  <2> QED
    BY <1>1, <2>1, JobsUntouched DEF LoadJob, tables
<1>2. CASE Release(w)
  <2>1. Goto(w, Resume) /\ Reached(Resume, jobs[cur'[w]].stage)
    BY <1>2 DEF Release, Resume, Reached, Early
  <2>2. UNCHANGED jobs /\ \A v \in Workers \ {w} : cur'[v] = cur[v]
    BY <1>2 DEF LoadJob, GenerateSummary, FailVideo, Release, tables, StageIInv, IInv, TypeOK
  <2> QED
    BY <2>1, <2>2, JobsUntouched
<1> QED
  BY <1>1, <1>2 DEF LoadJob, GenerateSummary, FailVideo

\* A job that ends, one way or the other, is not processing any more.
LEMMA EndAdvances ==
  ASSUME StageIInv, NEW w \in Workers, CompleteJob(w) \/ FailJob(w)
  PROVE  StageReached' /\ Advances
<1>1. pc[w] \in Owning /\ UNCHANGED cur
  BY DEF CompleteJob, FailJob, Owning, Labels
<1>2. IInv /\ cur[w] \in Jobs /\ jobs[cur[w]] \in JobRow
  BY <1>1, RunFacts DEF StageIInv
<1>3. PICK label \in {"publish", "failJob", "failVideo"} : Goto(w, label)
  BY DEF CompleteJob, FailJob, Transaction
<1>4. CASE UNCHANGED jobs
  BY <1>1, <1>3, <1>4, JobsUntouched DEF Reached, Early
<1>5. ASSUME NEW status \in {"completed", "failed"}, NEW stage,
             jobs' = [jobs EXCEPT ![cur[w]] = WithStatus(@, status, stage)]
      PROVE  StageReached' /\ Advances
  <2> DEFINE row == WithStatus(jobs[cur[w]], status, stage)
  <2>1. row.status # "processing"
    BY <1>2 DEF WithStatus, JobRow
  <2>2. jobs' = [jobs EXCEPT ![cur[w]] = row]
    BY <1>5
  <2>3. Reached(label, jobs'[cur'[w]].stage)
    BY <1>3 DEF Reached, Early
  <2> HIDE DEF row
  <2> QED
    BY <1>1, <1>3, <2>1, <2>2, <2>3, OwnRowWritten
<1> QED
  BY <1>4, <1>5 DEF CompleteJob, FailJob, Transaction, tables
-----------------------------------------------------------------------------
(* The steps outside run *)

\* A claim starts from a pending row and leaves it at downloading.
LEMMA ClaimAdvances ==
  ASSUME StageIInv, NEW w \in Workers, ClaimNextPending(w)
  PROVE  StageReached' /\ Advances
<1>1. /\ pc[w] = "commit" /\ cur[w] \in Jobs /\ jobs[cur[w]].status = "pending"
      /\ jobs[cur[w]] \in JobRow /\ TypeOK
  BY DEF ClaimNextPending, StageIInv, IInv, JobOfWorker, TypeOK
<1>2. \A v \in Workers \ {w} : cur'[v] = cur[v]
  BY <1>1 DEF ClaimNextPending, TypeOK
<1>3. CASE Goto(w, Resume)
  <2>1. Reached(Resume, jobs'[cur'[w]].stage) /\ Reached(Resume, jobs[cur'[w]].stage)
    BY DEF Resume, Reached, Early
  <2>2. CASE UNCHANGED jobs
    BY <1>2, <1>3, <2>1, <2>2, JobsUntouched
  <2>3. CASE jobs' = [jobs EXCEPT ![cur[w]] = Claimed(@)]
    <3>1. jobs' = [jobs EXCEPT ![cur[w]] = Claimed(jobs[cur[w]])]
      BY <2>3
    <3> QED
      BY <1>1, <1>2, <1>3, <2>1, <3>1, OwnRowWritten
  <2> QED
    BY <2>2, <2>3 DEF ClaimNextPending
<1>4. CASE Goto(w, "load") /\ UNCHANGED cur /\ jobs' = [jobs EXCEPT ![cur[w]] = Claimed(@)]
  <2>1. jobs' = [jobs EXCEPT ![cur[w]] = Claimed(jobs[cur[w]])]
        /\ jobs'[cur'[w]] = Claimed(jobs[cur[w]])
    BY <1>1, <1>4 DEF TypeOK
  <2>2. Reached("load", jobs'[cur'[w]].stage)
    BY <1>1, <2>1 DEF Claimed, JobRow, Reached, Early
  <2> QED
    BY <1>1, <1>4, <2>1, <2>2, OwnRowWritten
<1> QED
  BY <1>3, <1>4 DEF ClaimNextPending

\* Waking up and looking for a row.
LEMMA QueueStepAdvances ==
  ASSUME StageIInv, NEW w \in Workers,
         Wake(w) \/ StopClaiming(w) \/ \E j \in Jobs : SelectPending(w, j)
  PROVE  StageReached' /\ Advances
<1>1. UNCHANGED jobs /\ \A v \in Workers \ {w} : cur'[v] = cur[v]
  BY DEF Wake, StopClaiming, SelectPending, tables, StageIInv, IInv, TypeOK
<1>2. PICK label \in {"claim", "idle", "commit"} : Goto(w, label)
  BY DEF Wake, StopClaiming, SelectPending
<1> QED
  BY <1>1, <1>2, JobsUntouched DEF Reached, Early

\* The admin API writes only to rows that nobody is running.
LEMMA ApiAdvances ==
  ASSUME StageIInv, NEW j \in Jobs, Api(j)
  PROVE  StageReached' /\ Advances
<1>1. /\ UNCHANGED <<pc, cur>> /\ TypeOK
      /\ \A i \in Jobs : jobs'[i] = jobs[i] \/ jobs[i].status # "processing"
  BY DEF Api, CreateJob, RetryJob, DeleteVideo, StageIInv, IInv, TypeOK
<1>2. ASSUME NEW v \in Workers PROVE Reached(pc'[v], jobs'[cur'[v]].stage)
  <2>1. Reached(pc[v], jobs[cur[v]].stage) /\ JobOfWorker(v)
    BY DEF StageIInv, StageReached, IInv
  <2>2. CASE pc[v] \in Running
    <3>1. jobs'[cur[v]] = jobs[cur[v]]
      BY <1>1, <2>1, <2>2 DEF JobOfWorker, Running
    <3> QED
      BY <1>1, <2>1, <3>1
  <2>3. CASE pc[v] \notin Running
    BY <1>1, <2>3 DEF Reached, Early, Running, Owning, Labels
  <2> QED
    BY <2>2, <2>3
<1>3. Advances
  BY <1>1, SameStage DEF Advances
<1> QED
  BY <1>2, <1>3 DEF StageReached

\* Signals, crashes and restarts, and steps that are none.
LEMMA ProcessAdvances ==
  ASSUME StageIInv, Process \/ UNCHANGED vars
  PROVE  StageReached' /\ Advances
<1>1. UNCHANGED jobs /\ TypeOK
  BY DEF Process, Sigterm, GraceExceeded, Stopped, Crash, Start, tables, vars, StageIInv, IInv
<1>2. StageReached'
  <2>1. CASE UNCHANGED <<pc, cur>>
    BY <1>1, <2>1 DEF StageIInv, StageReached
  <2>2. CASE pc' = [w \in Workers |-> "idle"]
    BY <2>2 DEF StageReached, Reached, Early
  <2> QED
    BY <2>1, <2>2 DEF Process, Sigterm, GraceExceeded, Stopped, Crash, Start, vars
<1>3. Advances
  BY <1>1, SameStage DEF Advances
<1> QED
  BY <1>2, <1>3

-----------------------------------------------------------------------------
(* The theorem *)

\* One case per action.
LEMMA StepAdvances == StageIInv /\ [Next]_vars => StageReached' /\ Advances
<1> SUFFICES ASSUME StageIInv, [Next]_vars PROVE StageReached' /\ Advances
  OBVIOUS
<1>1. ASSUME NEW w \in Workers, RunStep(w) PROVE StageReached' /\ Advances
  <2>1. CASE StageDownloading(w)
    BY <2>1, SetStageAdvances DEF StageDownloading
  <2>2. CASE StageExtracting(w)
    BY <2>2, SetStageAdvances DEF StageExtracting
  <2>3. CASE StageChunking(w)
    BY <2>3, SetStageAdvances DEF StageChunking
  <2>4. CASE StageEmbedding(w)
    BY <2>4, SetStageAdvances DEF StageEmbedding
  <2> QED
    BY <1>1, <2>1, <2>2, <2>3, <2>4, VideoStepAdvances, OtherRunStepAdvances, EndAdvances
       DEF RunStep
<1>2. ASSUME NEW w \in Workers, Wake(w) \/ WorkerStep(w) PROVE StageReached' /\ Advances
  BY <1>1, <1>2, QueueStepAdvances, ClaimAdvances DEF WorkerStep
<1> QED
  BY <1>2, ApiAdvances, ProcessAdvances DEF Next

(***************************************************************************)
(* While a job is processing its stage only advances, for any jobs,        *)
(* workers, retries and faults: no second run, no retry and no fail() of   *)
(* an earlier attempt sets it back.                                        *)
(***************************************************************************)
THEOREM StageProgress == Spec => StageOnlyAdvances
<1>1. Init => StageReached
  BY DEF Init, StageReached, Reached, Early
<1>2. StageIInv /\ [Next]_vars => StageIInv' /\ [Advances]_vars
  BY StepAdvances, StepIInv DEF StageIInv
<1>3. Init => StageIInv
  BY <1>1, InitIInv DEF StageIInv
<1>4. [Advances]_vars <=> [\A j \in Jobs :
         jobs[j].status = "processing" /\ jobs'[j].status = "processing"
           => StageOrder[jobs[j].stage] <= StageOrder[jobs'[j].stage]]_vars
  BY DEF Advances
<1> QED
  BY <1>2, <1>3, <1>4, PTL DEF Spec, StageOnlyAdvances
=============================================================================
