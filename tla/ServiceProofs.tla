---------------------------- MODULE ServiceProofs ----------------------------
(***************************************************************************)
(* What clients are promised: JobPipeline implements MaterialService, for  *)
(* any jobs, workers, retries and faults; and what it takes for a job to   *)
(* fail, to be stranded, or to be completed without its video.             *)
(***************************************************************************)
EXTENDS JobPipelineProofs

(* The statements on a video are expanded wherever a step uses one. *)
USE DEF WithVideoStatus, FailedByJobID, DeletedByJobID, SoftDeleted, WithSegments,
        WithTranscript, WithChunks, WithSummary

(***************************************************************************)
(* While every commit is acknowledged, a video is completed only while its *)
(* job is, and a run about to fail has not published anything: after       *)
(* videos.UpdateStatus nothing can fail.                                   *)
(***************************************************************************)
Published ==
  /\ \A j \in Jobs : videos[j].status = "completed" => jobs[j].status = "completed"
  /\ \A w \in Workers : pc[w] = "failJob" => videos[cur[w]].status # "completed"

ServiceIInv == IInv /\ Published

\* The refinement mapping.
Status == [j \in Jobs |-> jobs[j].status]
Found  == {j \in Jobs : Searchable(videos[j])}

-----------------------------------------------------------------------------
(* What a step does to one job, seen from outside *)

Quiet(j) == jobs'[j].status = jobs[j].status
Same(j)  == Searchable(videos'[j]) <=> Searchable(videos[j])

\* The other jobs show what they showed.
Others(j) ==
  \A i \in Jobs \ {j} : /\ jobs'[i].status = jobs[i].status
                        /\ videos'[i].status = videos[i].status
                        /\ videos'[i].deleted = videos[i].deleted

Move(j, from, to) == jobs[j].status \in from /\ jobs'[j].status = to /\ Same(j)

Shown(j) ==
  \/ Move(j, {"none"}, "pending")
  \/ Move(j, {"pending"}, "processing")
  \/ Move(j, {"processing"}, "completed")
  \/ /\ Move(j, {"processing", "completed"}, "failed")
     /\ ~Searchable(videos[j]) \/ "unacked" \in Faults
  \/ Move(j, {"failed"}, "pending")
  \/ Quiet(j) /\ jobs[j].status = "completed" /\ Searchable(videos'[j])
  \/ Quiet(j) /\ ~Searchable(videos'[j])
  \/ Quiet(j) /\ Same(j)

\* fail() marks the job's video, if there is one.
LEMMA FailVideoRow ==
  ASSUME NEW w \in Workers, FailVideo(w), videos \in [Jobs -> VideoRow], cur[w] \in Jobs
  PROVE  videos' = videos \/ videos' = [videos EXCEPT ![cur[w]].status = "failed"]
<1>1. CASE videos[cur[w]].status = "none"
  BY <1>1 DEF FailVideo
<1>2. CASE videos[cur[w]].status # "none"
  BY <1>2 DEF FailVideo
<1> QED
  BY <1>1, <1>2

\* The moves are those of MaterialService.
LEMMA ShownIsAllowed ==
  ASSUME NEW j \in Jobs, Others(j), Shown(j)
  PROVE  [Service!Next]_(Service!vars)
<1> DEFINE status    == Status
           statusN   == Status'
           found     == Found
           foundN    == Found'
<1>1. /\ \A i \in Jobs : status[i] = jobs[i].status /\ statusN[i] = jobs'[i].status
      /\ \A i \in Jobs : i \in found <=> Searchable(videos[i])
      /\ \A i \in Jobs : i \in foundN <=> Searchable(videos'[i])
      /\ found \subseteq Jobs /\ foundN \subseteq Jobs
  BY DEF Status, Found
<1>2. \A i \in Jobs \ {j} : statusN[i] = status[i] /\ (i \in foundN <=> i \in found)
  BY <1>1 DEF Others, Searchable
<1>3. Quiet(j) => statusN = status
  BY <1>1, <1>2 DEF Quiet, Status
<1>4. Same(j) => foundN = found
  BY <1>1, <1>2 DEF Same
<1>5. statusN = [status EXCEPT ![j] = jobs'[j].status]
  BY <1>1, <1>2 DEF Status
<1>6. (Searchable(videos'[j]) => foundN = found \union {j})
      /\ (~Searchable(videos'[j]) => foundN = found \ {j})
  BY <1>1, <1>2
<1>7. (j \in found <=> Searchable(videos[j])) /\ status[j] = jobs[j].status
  BY <1>1
<1> QED
  BY <1>3, <1>4, <1>5, <1>6, <1>7
     DEF Shown, Move, Quiet, Service!Next, Service!vars, Service!Submit, Service!Begin,
         Service!Succeed, Service!Fail, Service!Retry, Service!Publish, Service!Withdraw,
         Service!Becomes, Status, Found

\* A step that shows nothing.
Invisible == \A j \in Jobs : Quiet(j) /\ Same(j)

Allowed == Invisible \/ \E j \in Jobs : Others(j) /\ Shown(j)

\* What Allowed describes is a step of MaterialService.
LEMMA AllowedIsAllowed == Allowed => [Service!Next]_(Service!vars)
<1>1. Invisible => UNCHANGED Service!vars
  BY DEF Invisible, Quiet, Same, Service!vars
<1> QED
  BY <1>1, ShownIsAllowed DEF Allowed

-----------------------------------------------------------------------------
(* The steps of run *)

\* What a worker in run starts from.
LEMMA ServiceFacts ==
  ASSUME ServiceIInv, NEW w \in Workers, pc[w] \in Owning
  PROVE  /\ cur[w] \in Jobs /\ jobs[cur[w]] \in JobRow /\ videos[cur[w]] \in VideoRow
         /\ pc[w] \in Running => /\ jobs[cur[w]].status = "processing"
                                 /\ videos[cur[w]].status # "completed"
         /\ pc[w] = "failJob" => /\ jobs[cur[w]].status \in {"processing", "completed"}
                                 /\ videos[cur[w]].status # "completed"
         /\ pc[w] = "publish" => /\ jobs[cur[w]].status = "completed"
                                 /\ videos[cur[w]].status # "completed"
         /\ TypeOK
  BY RunFacts DEF ServiceIInv, Published, Invariants, JobOfWorker, VideoOfWorker, Unfinished

\* The step of a runner on the rows of its own job.
LEMMA OwnRowsPublished ==
  ASSUME ServiceIInv, NEW w \in Workers, pc[w] \in Owning,
         \A v \in Workers \ {w} : pc'[v] = pc[v] /\ cur'[v] = cur[v],
         \A i \in Jobs \ {cur[w]} : jobs'[i] = jobs[i] /\ videos'[i] = videos[i],
         videos'[cur[w]].status = "completed" => jobs'[cur[w]].status = "completed",
         pc'[w] = "failJob" => cur'[w] = cur[w] /\ videos'[cur[w]].status # "completed"
  PROVE  Published'
<1>1. \A j \in Jobs : videos'[j].status = "completed" => jobs'[j].status = "completed"
  BY DEF ServiceIInv, Published
<1>2. ASSUME NEW v \in Workers, pc'[v] = "failJob", v # w
      PROVE  videos'[cur'[v]].status # "completed"
  <2>1. pc[v] = "failJob" /\ cur'[v] = cur[v]
    BY <1>2
  <2>2. cur[v] \in Jobs /\ cur[v] # cur[w]
    BY <1>2, <2>1 DEF ServiceIInv, IInv, JobOfWorker, Apart, Owning, Labels
  <2> QED
    BY <2>1, <2>2 DEF ServiceIInv, Published
<1> QED
  BY <1>1, <1>2 DEF Published

\* A step of run that leaves its job's status, or its video, as they were.
LEMMA RunStepAllowed ==
  ASSUME ServiceIInv, NEW w \in Workers, pc[w] \in Owning, NEW label, Goto(w, label),
         \A v \in Workers \ {w} : cur'[v] = cur[v],
         \A i \in Jobs \ {cur[w]} : jobs'[i] = jobs[i] /\ videos'[i] = videos[i],
         videos'[cur[w]].status = "completed" => jobs'[cur[w]].status = "completed",
         label = "failJob" => cur'[w] = cur[w] /\ videos'[cur[w]].status # "completed",
         Shown(cur[w])
  PROVE  Published' /\ Allowed
<1>1. pc'[w] = label /\ \A v \in Workers \ {w} : pc'[v] = pc[v]
  BY ServiceFacts DEF Goto, TypeOK
<1>2. Published'
  BY <1>1, OwnRowsPublished
<1>3. Allowed
  BY ServiceFacts DEF Allowed, Others
<1> QED
  BY <1>2, <1>3

\* The transactions before the job's completion that write to its video.
LEMMA UnpublishedStep ==
  ASSUME ServiceIInv, NEW w \in Workers, pc[w] \in Running, NEW label, Goto(w, label),
         UNCHANGED <<jobs, cur>>,
         \A i \in Jobs \ {cur[w]} : videos'[i] = videos[i],
         videos'[cur[w]].status # "completed"
  PROVE  Published' /\ Allowed
<1>1. pc[w] \in Owning
  BY DEF Running
<1>2. Shown(cur[w])
  BY DEF Shown, Quiet, Searchable
<1> QED
  BY <1>1, <1>2, RunStepAllowed

\* Until its job is completed a run writes to a video nobody finds.
LEMMA VideoStepAllowed ==
  ASSUME ServiceIInv, NEW w \in Workers,
         Cleanup(w) \/ CreateVideo(w) \/ CopyJobSegments(w) \/ SaveTranscript(w)
           \/ InsertChunks(w)
  PROVE  Published' /\ Allowed
<1>1. pc[w] \in Running /\ pc[w] \in Owning /\ UNCHANGED <<jobs, cur>>
  BY DEF Cleanup, CreateVideo, CopyJobSegments, SaveTranscript, InsertChunks, Transaction,
         Running, Owning, Labels, tables
<1>2. PICK label \in Labels : Goto(w, label)
  BY DEF Cleanup, CreateVideo, CopyJobSegments, SaveTranscript, InsertChunks, Transaction, Labels
<1>3. /\ cur[w] \in Jobs /\ videos \in [Jobs -> VideoRow] /\ videos[cur[w]] \in VideoRow
      /\ videos[cur[w]].status # "completed"
  BY <1>1, ServiceFacts DEF TypeOK
<1>4. \/ videos' = videos
      \/ videos' = [videos EXCEPT ![cur[w]] = NoVideo]
      \/ \E id : videos' = [videos EXCEPT ![cur[w]] = InsertedVideo(id)]
      \/ videos' = [videos EXCEPT ![cur[w]].tagged = TRUE]
      \/ \E found : videos' = [videos EXCEPT ![cur[w]].transcript = found]
      \/ videos' = [videos EXCEPT ![cur[w]].chunks = TRUE]
  BY DEF Cleanup, CreateVideo, CopyJobSegments, SaveTranscript, InsertChunks, Transaction,
         tables
<1>5. /\ \A i \in Jobs \ {cur[w]} : videos'[i] = videos[i]
      /\ videos'[cur[w]].status # "completed"
  <2>1. CASE videos' = [videos EXCEPT ![cur[w]] = NoVideo]
    BY <1>3, <2>1 DEF NoVideo
  <2>2. CASE \E id : videos' = [videos EXCEPT ![cur[w]] = InsertedVideo(id)]
    BY <1>3, <2>2 DEF InsertedVideo, NoVideo
  <2>3. CASE videos' = [videos EXCEPT ![cur[w]].tagged = TRUE]
    BY <1>3, <2>3 DEF VideoRow
  <2>4. CASE \E found : videos' = [videos EXCEPT ![cur[w]].transcript = found]
    BY <1>3, <2>4 DEF VideoRow
  <2>5. CASE videos' = [videos EXCEPT ![cur[w]].chunks = TRUE]
    BY <1>3, <2>5 DEF VideoRow
  <2> QED
    BY <1>3, <1>4, <2>1, <2>2, <2>3, <2>4, <2>5
<1> QED
  BY <1>1, <1>2, <1>5, UnpublishedStep
\* setStage, UpdateStatus(completed), UpdateStatus(failed): one row of jobs.
LEMMA StatusStep ==
  ASSUME ServiceIInv, NEW w \in Workers, pc[w] \in Running \union {"failJob"},
         NEW status, NEW stage, UNCHANGED <<videos, cur>>,
         jobs' = [jobs EXCEPT ![cur[w]] = WithStatus(@, status, stage)],
         NEW label, Goto(w, label),
         \/ status = "processing" /\ pc[w] \in Running
         \/ status = "completed" /\ pc[w] \in Running
         \/ status = "failed" /\ label # "failJob"
  PROVE  Published' /\ Allowed
<1>1. pc[w] \in Owning
  BY DEF Running, Owning, Labels
<1>2. /\ \A i \in Jobs \ {cur[w]} : jobs'[i] = jobs[i]
      /\ jobs'[cur[w]].status = status
  BY <1>1, ServiceFacts DEF TypeOK, WithStatus, JobRow
<1>3. videos[cur[w]].status # "completed" /\ Same(cur[w]) /\ ~Searchable(videos[cur[w]])
  BY <1>1, ServiceFacts DEF Same, Searchable
<1>4. Shown(cur[w])
  BY <1>1, <1>2, <1>3, ServiceFacts DEF Shown, Move, Quiet
<1> QED
  BY <1>1, <1>2, <1>3, <1>4, RunStepAllowed

\* A step of run before its job is completed that fails.
LEMMA RejectedAllowed ==
  ASSUME ServiceIInv, NEW w \in Workers, pc[w] \in Running \union {"publish"},
         Goto(w, "failJob"), UNCHANGED <<tables, cur>>
  PROVE  Published' /\ Allowed
<1>1. pc[w] \in Owning
  BY DEF Running, Owning, Labels
<1>2. videos[cur[w]].status # "completed" /\ Shown(cur[w])
  BY <1>1, ServiceFacts DEF Shown, Quiet, Same, tables
<1> QED
  BY <1>1, <1>2, RunStepAllowed DEF tables

\* The steps that write to jobs.
LEMMA JobStepAllowed ==
  ASSUME ServiceIInv, NEW w \in Workers,
         \/ CompleteJob(w) \/ FailJob(w)
         \/ StageDownloading(w) \/ StageExtracting(w) \/ StageChunking(w) \/ StageEmbedding(w)
  PROVE  Published' /\ Allowed
<1>1. CASE FailJob(w)
  <2>1. pc[w] = "failJob" /\ Goto(w, "failVideo") /\ UNCHANGED <<videos, cur>>
    BY <1>1 DEF FailJob
  <2>2. CASE UNCHANGED jobs
    <3>1. pc[w] \in Owning /\ Shown(cur[w])
      BY <2>1, <2>2 DEF Owning, Labels, Shown, Quiet, Same
    <3> QED
      BY <2>1, <2>2, <3>1, ServiceFacts, RunStepAllowed
  <2>3. CASE jobs' = [jobs EXCEPT ![cur[w]] = WithStatus(@, "failed", stg[w])]
    BY <2>1, <2>3, StatusStep
  <2> QED
    BY <1>1, <2>2, <2>3 DEF FailJob
<1>2. ASSUME NEW status \in {"processing", "completed"}, NEW stage, NEW next, NEW calls,
             pc[w] \in Running, UNCHANGED cur,
             Transaction(w, TRUE, [jobs EXCEPT ![cur[w]] = WithStatus(@, status, stage)],
                         videos, next, calls)
      PROVE  Published' /\ Allowed
  <2>1. CASE Goto(w, "failJob") /\ UNCHANGED tables
    BY <1>2, <2>1, RejectedAllowed
  <2>2. ASSUME NEW label, Goto(w, label), videos' = videos,
               jobs' = [jobs EXCEPT ![cur[w]] = WithStatus(@, status, stage)]
        PROVE  Published' /\ Allowed
    BY <1>2, <2>2, StatusStep
  <2> QED
    BY <1>2, <2>1, <2>2 DEF Transaction
<1>3. CASE CompleteJob(w)
  <2>1. pc[w] \in Running /\ UNCHANGED cur
    BY <1>3 DEF CompleteJob, Running, Owning, Labels
  <2> QED
    BY <1>2, <1>3, <2>1 DEF CompleteJob
<1>4. ASSUME NEW stage, NEW next, NEW calls, SetStage(w, stage, next, calls), pc[w] \in Running
      PROVE  Published' /\ Allowed
  BY <1>2, <1>4 DEF SetStage
<1>5. CASE StageDownloading(w) \/ StageExtracting(w) \/ StageChunking(w) \/ StageEmbedding(w)
  <2>1. pc[w] \in Running
    BY <1>5 DEF StageDownloading, StageExtracting, StageChunking, StageEmbedding, Running,
                Owning, Labels
  <2> QED
    BY <1>4, <1>5, <2>1 DEF StageDownloading, StageExtracting, StageChunking, StageEmbedding
<1> QED
  BY <1>1, <1>3, <1>5

\* videos.UpdateStatus: the one step that publishes; its commit is acknowledged.
LEMMA CompleteVideoAllowed ==
  ASSUME ServiceIInv, "unacked" \notin Faults, NEW w \in Workers, CompleteVideo(w)
  PROVE  Published' /\ Allowed
<1>1. pc[w] = "publish" /\ pc[w] \in Owning /\ UNCHANGED cur
  BY DEF CompleteVideo, Owning, Labels
<1>2. CASE Goto(w, "failJob") /\ UNCHANGED tables
  BY <1>1, <1>2, RejectedAllowed
<1>3. CASE Goto(w, "summary") /\ jobs' = jobs
           /\ videos' = [videos EXCEPT ![cur[w]].status = "completed"]
  <2>1. \A i \in Jobs \ {cur[w]} : videos'[i] = videos[i]
    BY <1>1, <1>3, ServiceFacts DEF TypeOK
  <2>2. jobs[cur[w]].status = "completed" /\ Shown(cur[w])
    BY <1>1, <1>3, ServiceFacts DEF Shown, Quiet
  <2> QED
    BY <1>1, <1>3, <2>1, <2>2, RunStepAllowed
<1> QED
  BY <1>2, <1>3 DEF CompleteVideo, Transaction
-----------------------------------------------------------------------------
(* The other steps: no row of jobs and no new video *)

\* Nothing is published, and nobody is sent to fail().
LEMMA DetachedAllowed ==
  ASSUME ServiceIInv, Allowed,
         \A j \in Jobs : videos'[j].status = "completed" =>
                         videos[j].status = "completed" /\ jobs'[j].status = "completed",
         \A w \in Workers : pc'[w] = "failJob" => pc[w] = "failJob" /\ cur'[w] = cur[w]
  PROVE  Published' /\ Allowed
<1>1. ASSUME NEW w \in Workers, pc'[w] = "failJob" PROVE videos'[cur'[w]].status # "completed"
  <2>1. pc[w] = "failJob" /\ cur'[w] = cur[w]
    BY <1>1
  <2>2. cur[w] \in Jobs /\ videos[cur[w]].status # "completed"
    BY <2>1 DEF ServiceIInv, IInv, JobOfWorker, Published, Owning, Labels
  <2> QED
    BY <2>1, <2>2
<1> QED
  BY <1>1 DEF Published

\* Steps within the worker, and of the process.
LEMMA MemoryStepAllowed ==
  ASSUME ServiceIInv, UNCHANGED tables,
         \A w \in Workers : \/ pc'[w] # "failJob"
                            \/ pc'[w] = pc[w] /\ cur'[w] = cur[w]
  PROVE  Published' /\ Allowed
<1>1. Allowed
  BY DEF Allowed, Invisible, Quiet, Same, tables
<1> QED
  BY <1>1, DetachedAllowed DEF tables, ServiceIInv, Published

\* generateSummary and FailByJobID.
LEMMA LastStepAllowed ==
  ASSUME ServiceIInv, NEW w \in Workers, GenerateSummary(w) \/ FailVideo(w)
  PROVE  Published' /\ Allowed
<1>1. /\ UNCHANGED jobs /\ TypeOK /\ cur[w] \in Jobs
      /\ \A v \in Workers \ {w} : pc'[v] = pc[v] /\ cur'[v] = cur[v]
      /\ pc'[w] \in {"claim", "idle"}
  <2>1. TypeOK /\ JobOfWorker(w)
    BY DEF ServiceIInv, IInv
  <2>2. cur[w] \in Jobs
    BY <2>1 DEF GenerateSummary, FailVideo, JobOfWorker, Owning, Labels
  <2> QED
    BY <2>1, <2>2 DEF GenerateSummary, FailVideo, Release, Goto, Resume, TypeOK
<1>2. videos \in [Jobs -> VideoRow] /\ videos[cur[w]] \in VideoRow
  BY <1>1 DEF TypeOK
<1>3. CASE videos' = videos
  BY <1>1, <1>3, MemoryStepAllowed DEF tables
<1>4. CASE \E outcome : videos' = [videos EXCEPT ![cur[w]].summary = outcome]
  <2>1. \A j \in Jobs : videos'[j].status = videos[j].status /\ videos'[j].deleted = videos[j].deleted
    BY <1>2, <1>4 DEF VideoRow
  <2>2. Allowed
    BY <1>1, <2>1 DEF Allowed, Invisible, Quiet, Same, Searchable
  <2> QED
    BY <1>1, <2>1, <2>2, DetachedAllowed DEF ServiceIInv, Published
<1>5. CASE videos' = [videos EXCEPT ![cur[w]].status = "failed"]
  <2>1. /\ \A i \in Jobs \ {cur[w]} : videos'[i] = videos[i]
        /\ videos'[cur[w]].status = "failed"
    BY <1>1, <1>2, <1>5 DEF VideoRow
  <2>2. Others(cur[w]) /\ Shown(cur[w])
    BY <1>1, <2>1 DEF Others, Shown, Quiet, Searchable
  <2> QED
    BY <1>1, <2>1, <2>2, DetachedAllowed DEF Allowed, ServiceIInv, Published
<1>6. CASE FailVideo(w)
  BY <1>2, <1>3, <1>5, <1>6, FailVideoRow DEF FailVideo
<1> QED
  BY <1>3, <1>4, <1>6 DEF GenerateSummary

\* ClaimNextPending: a pending job has no completed video.
LEMMA ClaimAllowed ==
  ASSUME ServiceIInv, NEW w \in Workers, ClaimNextPending(w)
  PROVE  Published' /\ Allowed
<1>1. /\ UNCHANGED videos /\ TypeOK /\ cur[w] \in Jobs
      /\ jobs[cur[w]].status = "pending" /\ jobs[cur[w]] \in JobRow
      /\ \A v \in Workers \ {w} : pc'[v] = pc[v] /\ cur'[v] = cur[v]
      /\ pc'[w] \in {"claim", "idle", "load"}
  <2>1. TypeOK /\ JobOfWorker(w) /\ pc[w] = "commit"
    BY DEF ServiceIInv, IInv, ClaimNextPending
  <2> QED
    BY <2>1 DEF ClaimNextPending, JobOfWorker, Goto, Resume, TypeOK
<1>2. CASE jobs' = jobs
  BY <1>1, <1>2, MemoryStepAllowed DEF tables
<1>3. CASE jobs' = [jobs EXCEPT ![cur[w]] = Claimed(@)]
  <2>1. /\ \A i \in Jobs \ {cur[w]} : jobs'[i] = jobs[i]
        /\ jobs'[cur[w]].status = "processing"
    BY <1>1, <1>3 DEF TypeOK, Claimed, JobRow
  <2>2. Others(cur[w]) /\ Shown(cur[w])
    BY <1>1, <2>1 DEF Others, Shown, Move, Same
  <2> QED
    BY <1>1, <2>1, <2>2, DetachedAllowed DEF Allowed, ServiceIInv, Published
<1> QED
  BY <1>2, <1>3 DEF ClaimNextPending

\* The admin API, whether acknowledgements are lost or not.
LEMMA ApiShown ==
  ASSUME IInv, NEW j \in Jobs, Api(j)
  PROVE  /\ Allowed /\ UNCHANGED <<pc, cur>>
         /\ \A i \in Jobs : videos'[i].status = videos[i].status
         /\ \A i \in Jobs : jobs[i].status = "completed" => jobs'[i].status = "completed"
<1>1. UNCHANGED <<pc, cur>> /\ TypeOK /\ jobs[j] \in JobRow /\ videos[j] \in VideoRow
  BY DEF Api, CreateJob, RetryJob, DeleteVideo, IInv, TypeOK
<1>2. CASE CreateJob(j) \/ RetryJob(j)
  <2>1. /\ \A i \in Jobs \ {j} : jobs'[i] = jobs[i]
        /\ jobs[j].status \in {"none", "failed"} /\ jobs'[j].status = "pending"
        /\ UNCHANGED videos
    <3>1. CASE CreateJob(j)
      BY <1>1, <3>1 DEF CreateJob, InsertedJob, TypeOK
    <3>2. CASE RetryJob(j)
      BY <1>1, <3>2 DEF RetryJob, Requeued, TypeOK, JobRow
    <3> QED
      BY <1>2, <3>1, <3>2
  <2>2. Others(j) /\ Shown(j)
    BY <2>1 DEF Others, Shown, Move, Same
  <2> QED
    BY <1>1, <2>1, <2>2 DEF Allowed
<1>3. CASE DeleteVideo(j)
  <2>1. /\ \A i \in Jobs \ {j} : videos'[i] = videos[i]
        /\ videos'[j].status = videos[j].status /\ videos'[j].deleted /\ UNCHANGED jobs
    BY <1>1, <1>3 DEF DeleteVideo, TypeOK, VideoRow
  <2>2. Others(j) /\ Shown(j)
    BY <2>1 DEF Others, Shown, Quiet, Searchable
  <2> QED
    BY <1>1, <2>1, <2>2 DEF Allowed
<1> QED
  BY <1>2, <1>3 DEF Api

\* So the API publishes nothing.
LEMMA ApiAllowed ==
  ASSUME ServiceIInv, NEW j \in Jobs, Api(j)
  PROVE  Published' /\ Allowed
  BY ApiShown, DetachedAllowed DEF ServiceIInv, Published

-----------------------------------------------------------------------------
(* Where acknowledgements may be lost *)

\* What a worker in run knows without Published.
LEMMA LossyFacts ==
  ASSUME IInv, NEW w \in Workers, pc[w] \in Owning
  PROVE  /\ cur[w] \in Jobs /\ jobs[cur[w]] \in JobRow /\ videos[cur[w]] \in VideoRow
         /\ pc[w] \in Running => jobs[cur[w]].status = "processing"
         /\ pc[w] = "publish" => jobs[cur[w]].status = "completed"
         /\ pc[w] = "failJob" => jobs[cur[w]].status \in {"processing", "completed"}
         /\ TypeOK
  BY RunFacts DEF Invariants, JobOfWorker

\* A step of run on the video of its own job.
LEMMA LossyVideoStep ==
  ASSUME IInv, NEW w \in Workers,
         Cleanup(w) \/ CreateVideo(w) \/ CopyJobSegments(w) \/ SaveTranscript(w)
           \/ InsertChunks(w) \/ CompleteVideo(w) \/ GenerateSummary(w)
  PROVE  Allowed
<1>1. pc[w] \in Owning /\ UNCHANGED jobs /\ (CompleteVideo(w) => pc[w] = "publish")
  BY DEF Cleanup, CreateVideo, CopyJobSegments, SaveTranscript, InsertChunks, CompleteVideo,
         GenerateSummary, Transaction, Owning, Labels, tables
<1>2. /\ cur[w] \in Jobs /\ videos \in [Jobs -> VideoRow] /\ videos[cur[w]] \in VideoRow
      /\ CompleteVideo(w) => jobs[cur[w]].status = "completed"
  BY <1>1, LossyFacts DEF TypeOK
<1>3. CASE videos' = videos
  BY <1>1, <1>3 DEF Allowed, Invisible, Quiet, Same
<1>4. CASE \E id : videos' = [videos EXCEPT ![cur[w]] = NoVideo]
                   \/ videos' = [videos EXCEPT ![cur[w]] = InsertedVideo(id)]
  <2>1. /\ \A i \in Jobs \ {cur[w]} : videos'[i] = videos[i]
        /\ videos'[cur[w]].status # "completed"
    <3>1. CASE videos' = [videos EXCEPT ![cur[w]] = NoVideo]
      BY <1>2, <3>1 DEF NoVideo
    <3>2. CASE \E id : videos' = [videos EXCEPT ![cur[w]] = InsertedVideo(id)]
      BY <1>2, <3>2 DEF InsertedVideo, NoVideo
    <3> QED
      BY <1>4, <3>1, <3>2
  <2>2. Others(cur[w]) /\ Shown(cur[w])
    BY <1>1, <2>1 DEF Others, Shown, Quiet, Searchable
  <2> QED
    BY <1>2, <2>2 DEF Allowed
<1>5. CASE \E value : \/ videos' = [videos EXCEPT ![cur[w]].tagged = value]
                      \/ videos' = [videos EXCEPT ![cur[w]].transcript = value]
                      \/ videos' = [videos EXCEPT ![cur[w]].chunks = value]
                      \/ videos' = [videos EXCEPT ![cur[w]].summary = value]
  <2>1. \A j \in Jobs : videos'[j].status = videos[j].status
                        /\ videos'[j].deleted = videos[j].deleted
    BY <1>2, <1>5 DEF VideoRow
  <2> QED
    BY <1>1, <2>1 DEF Allowed, Invisible, Quiet, Same, Searchable
<1>6. CASE CompleteVideo(w) /\ videos' = [videos EXCEPT ![cur[w]].status = "completed"]
  <2>1. \A i \in Jobs \ {cur[w]} : videos'[i] = videos[i]
    BY <1>2, <1>6
  <2>2. Others(cur[w]) /\ Shown(cur[w])
    BY <1>1, <1>2, <1>6, <2>1 DEF Others, Shown, Quiet
  <2> QED
    BY <1>2, <2>2 DEF Allowed
<1> QED
  BY <1>3, <1>4, <1>5, <1>6
     DEF Cleanup, CreateVideo, CopyJobSegments, SaveTranscript, InsertChunks, CompleteVideo,
         GenerateSummary, Transaction, tables

\* A step of run on the row of its own job.
LEMMA LossyJobStep ==
  ASSUME IInv, "unacked" \in Faults, NEW w \in Workers,
         \/ CompleteJob(w) \/ FailJob(w)
         \/ StageDownloading(w) \/ StageExtracting(w) \/ StageChunking(w) \/ StageEmbedding(w)
  PROVE  Allowed
<1>1. UNCHANGED videos
  BY DEF CompleteJob, FailJob, StageDownloading, StageExtracting, StageChunking,
         StageEmbedding, SetStage, Transaction, tables
<1>2. CASE jobs' = jobs
  BY <1>1, <1>2 DEF Allowed, Invisible, Quiet, Same
<1>3. ASSUME NEW status, NEW stage, pc[w] \in Running \union {"failJob"},
             jobs' = [jobs EXCEPT ![cur[w]] = WithStatus(@, status, stage)],
             \/ status \in {"processing", "completed"} /\ pc[w] \in Running
             \/ status = "failed"
      PROVE  Allowed
  <2>1. pc[w] \in Owning
    BY <1>3 DEF Running, Owning, Labels
  <2>2. /\ \A i \in Jobs \ {cur[w]} : jobs'[i] = jobs[i]
        /\ jobs'[cur[w]].status = status
    BY <1>3, <2>1, LossyFacts DEF TypeOK, WithStatus, JobRow
  <2>3. Others(cur[w]) /\ Same(cur[w])
    BY <1>1, <2>2 DEF Others, Same
  <2>4. Shown(cur[w])
    BY <1>3, <2>1, <2>2, <2>3, LossyFacts DEF Shown, Move, Quiet
  <2> QED
    BY <2>1, <2>3, <2>4, LossyFacts DEF Allowed
<1>4. CASE FailJob(w)
  BY <1>2, <1>3, <1>4 DEF FailJob
<1>5. CASE CompleteJob(w)
  <2>1. pc[w] \in Running
    BY <1>5 DEF CompleteJob, Running, Owning, Labels
  <2> QED
    BY <1>2, <1>3, <1>5, <2>1 DEF CompleteJob, Transaction, tables
<1>6. CASE StageDownloading(w) \/ StageExtracting(w) \/ StageChunking(w) \/ StageEmbedding(w)
  <2>1. pc[w] \in Running
    BY <1>6 DEF StageDownloading, StageExtracting, StageChunking, StageEmbedding, Running,
                Owning, Labels
  <2>2. jobs' = jobs \/ \E stage : jobs' = [jobs EXCEPT ![cur[w]] = WithStatus(@, "processing", stage)]
    BY <1>6 DEF StageDownloading, StageExtracting, StageChunking, StageEmbedding, SetStage,
                Transaction, tables
  <2> QED
    BY <1>2, <1>3, <2>1, <2>2
<1> QED
  BY <1>4, <1>5, <1>6

\* The steps that are the same whether acknowledgements are lost or not.
LEMMA LossyOtherStep ==
  ASSUME IInv, NEW w \in Workers, ClaimNextPending(w) \/ FailVideo(w)
  PROVE  Allowed
<1>1. cur[w] \in Jobs /\ TypeOK /\ (ClaimNextPending(w) => jobs[cur[w]].status = "pending")
  <2>1. TypeOK /\ JobOfWorker(w)
    BY DEF IInv
  <2> QED
    BY <2>1 DEF ClaimNextPending, FailVideo, JobOfWorker
<1>2. CASE UNCHANGED tables
  BY <1>2 DEF Allowed, Invisible, Quiet, Same, tables
<1>3. CASE jobs' = [jobs EXCEPT ![cur[w]] = Claimed(@)] /\ videos' = videos /\ ClaimNextPending(w)
  <2>1. /\ \A i \in Jobs \ {cur[w]} : jobs'[i] = jobs[i]
        /\ jobs'[cur[w]].status = "processing"
    BY <1>1, <1>3 DEF TypeOK, Claimed, JobRow
  <2>2. Others(cur[w]) /\ Shown(cur[w])
    BY <1>1, <1>3, <2>1 DEF Others, Shown, Move, Same
  <2> QED
    BY <1>1, <2>2 DEF Allowed
<1>4. CASE videos' = [videos EXCEPT ![cur[w]].status = "failed"] /\ jobs' = jobs
  <2>1. /\ \A i \in Jobs \ {cur[w]} : videos'[i] = videos[i]
        /\ videos'[cur[w]].status = "failed"
    BY <1>1, <1>4 DEF TypeOK, VideoRow
  <2>2. Others(cur[w]) /\ Shown(cur[w])
    BY <1>4, <2>1 DEF Others, Shown, Quiet, Searchable
  <2> QED
    BY <1>1, <2>2 DEF Allowed
<1>5. CASE ClaimNextPending(w)
  BY <1>2, <1>3, <1>5 DEF ClaimNextPending, tables
<1>6. CASE FailVideo(w)
  BY <1>1, <1>2, <1>4, <1>6, FailVideoRow DEF FailVideo, tables, TypeOK
<1> QED
  BY <1>5, <1>6

-----------------------------------------------------------------------------
(* The theorem *)

\* One case per action.
LEMMA StepAllowed ==
  ASSUME ServiceIInv, "unacked" \notin Faults, [Next]_vars
  PROVE  Published' /\ Allowed
<1>1. CASE Process \/ UNCHANGED vars
  <2>1. UNCHANGED tables
        /\ \A w \in Workers : pc'[w] = "idle" \/ (pc'[w] = pc[w] /\ cur'[w] = cur[w])
    BY <1>1 DEF Process, Sigterm, GraceExceeded, Stopped, Crash, Start, vars, tables
  <2> QED
    BY <2>1, MemoryStepAllowed
<1>2. ASSUME NEW w \in Workers,
             \/ Wake(w) \/ StopClaiming(w) \/ LoadJob(w)
             \/ \E j \in Jobs : SelectPending(w, j)
      PROVE  Published' /\ Allowed
  <2>1. UNCHANGED tables /\ TypeOK
    BY <1>2 DEF Wake, StopClaiming, LoadJob, SelectPending, tables, ServiceIInv, IInv
  <2>2. /\ \A v \in Workers \ {w} : pc'[v] = pc[v] /\ cur'[v] = cur[v]
        /\ pc'[w] # "failJob"
    BY <1>2, <2>1 DEF Wake, StopClaiming, LoadJob, SelectPending, Release, Goto, Resume, TypeOK
  <2> QED
    BY <2>1, <2>2, MemoryStepAllowed
<1>3. ASSUME NEW w \in Workers, RunStep(w) PROVE Published' /\ Allowed
  BY <1>2, <1>3, VideoStepAllowed, JobStepAllowed, CompleteVideoAllowed, LastStepAllowed
     DEF RunStep
<1> QED
  BY <1>1, <1>2, <1>3, ClaimAllowed, ApiAllowed DEF Next, WorkerStep

\* The same where acknowledgements may be lost.
LEMMA LossyStepAllowed ==
  ASSUME IInv, "unacked" \in Faults, [Next]_vars
  PROVE  Allowed
<1>1. ASSUME UNCHANGED tables PROVE Allowed
  BY <1>1 DEF Allowed, Invisible, Quiet, Same, tables
<1>2. CASE Process \/ UNCHANGED vars
  BY <1>1, <1>2 DEF Process, Sigterm, GraceExceeded, Stopped, Crash, Start, vars, tables
<1>3. ASSUME NEW w \in Workers,
             \/ Wake(w) \/ StopClaiming(w) \/ LoadJob(w)
             \/ \E j \in Jobs : SelectPending(w, j)
      PROVE  Allowed
  BY <1>1, <1>3 DEF Wake, StopClaiming, LoadJob, SelectPending, tables
<1>4. ASSUME NEW w \in Workers, RunStep(w) PROVE Allowed
  BY <1>3, <1>4, LossyVideoStep, LossyJobStep, LossyOtherStep DEF RunStep
<1> QED
  BY <1>2, <1>3, <1>4, LossyOtherStep, ApiShown DEF Next, WorkerStep

\* At the start there is no job and nothing to find.
LEMMA InitAllowed == Init => Service!Init /\ Published
  BY DEF Init, Service!Init, Published, NoJobRow, NoVideo, Searchable

(***************************************************************************)
(* The pipeline keeps what MaterialService promises, for any jobs,         *)
(* workers, retries and faults: initial states map to initial states,      *)
(* every step to a step or a stutter.  LostAcks is "unacked" \in Faults,   *)
(* so while every commit is acknowledged no success that may have been     *)
(* read is taken back.                                                     *)
(***************************************************************************)
THEOREM Refinement == Spec => ServiceSpec
<1>1. Init => IInv /\ Service!Init
  BY InitIInv, InitAllowed
<1>2. CASE "unacked" \in Faults
  <2>1. IInv /\ [Next]_vars => IInv' /\ [Service!Next]_(Service!vars)
    BY <1>2, LossyStepAllowed, StepIInv, AllowedIsAllowed
  <2> QED
    BY <1>1, <2>1, PTL DEF Spec, ServiceSpec, Service!Spec
<1>3. CASE "unacked" \notin Faults
  <2>1. Init => ServiceIInv
    BY InitIInv, InitAllowed DEF ServiceIInv
  <2>2. ServiceIInv /\ [Next]_vars => ServiceIInv' /\ [Service!Next]_(Service!vars)
    BY <1>3, StepAllowed, StepIInv, AllowedIsAllowed DEF ServiceIInv
  <2> QED
    BY <1>1, <2>1, <2>2, PTL DEF Spec, ServiceSpec, Service!Spec
<1> QED
  BY <1>2, <1>3

-----------------------------------------------------------------------------
(***************************************************************************)
(* While the providers and the database do what they are asked, no run is  *)
(* refused a row or loses the video it has created, so the only step of it *)
(* that can fail by itself is UpsertTranscript.  A run whose ctx jobCancel *)
(* has cancelled fails anywhere, but cannot write that it did.             *)
(***************************************************************************)

Calm == Faults \cap {"provider", "db", "unacked"} = {}

\* Where a failure that will be recorded comes from.
AtTranscript(stage) == ~TakesEmptyID /\ stage \in TranscriptStages

\* Who fails failed at the transcript, or was cancelled; a process that is down
\* runs nothing.
Clean ==
  /\ proc = "down" => \A w \in Workers : pc[w] = "idle"
  /\ \A j \in Jobs : jobs[j].status = "failed" => AtTranscript(jobs[j].stage)
  /\ \A w \in Workers :
       /\ pc[w] = "transcript" => stg[w] \in TranscriptStages
       /\ pc[w] = "failJob" => proc = "cancelled" \/ AtTranscript(stg[w])

CleanIInv == RowIInv /\ Clean

\* A step of a worker that marks no job failed; where it goes is left to show.
LEMMA StaysClean ==
  ASSUME CleanIInv, NEW w \in Workers, UNCHANGED proc, proc # "down",
         \A v \in Workers \ {w} : pc'[v] = pc[v] /\ stg'[v] = stg[v],
         pc'[w] = "transcript" => stg'[w] \in TranscriptStages,
         pc'[w] = "failJob" => proc = "cancelled" \/ AtTranscript(stg'[w]),
         \A j \in Jobs : jobs'[j].status = "failed" => jobs'[j] = jobs[j]
  PROVE  Clean'
<1>1. ASSUME NEW j \in Jobs, jobs'[j].status = "failed" PROVE AtTranscript(jobs'[j].stage)
  BY <1>1 DEF CleanIInv, Clean
<1>2. ASSUME NEW v \in Workers
      PROVE  /\ pc'[v] = "transcript" => stg'[v] \in TranscriptStages
             /\ pc'[v] = "failJob" => proc = "cancelled" \/ AtTranscript(stg'[v])
  BY <1>2 DEF CleanIInv, Clean
<1> QED
  BY <1>1, <1>2 DEF Clean, AtTranscript

\* The process of a worker that does something runs; only jobCancel stops it.
LEMMA Undisturbed ==
  ASSUME Calm, CleanIInv, NEW w \in Workers, pc[w] # "idle"
  PROVE  /\ proc # "down" /\ (DbRejects => proc = "cancelled")
         /\ "unacked" \notin Faults /\ "provider" \notin Faults
<1>1. proc \in {"up", "draining", "cancelled", "down"}
  BY DEF CleanIInv, RowIInv, IInv, TypeOK
<1>2. proc # "down"
  BY DEF CleanIInv, Clean
<1> QED
  BY <1>1, <1>2 DEF Calm, JobCtxAlive, DbRejects

\* A transaction goes through, or is cancelled, or its constraint refuses it.
LEMMA CalmTransaction ==
  ASSUME Calm, CleanIInv, NEW w \in Workers, NEW constraint, NEW newJobs, NEW newVideos,
         NEW next, NEW calls, pc[w] # "idle",
         Transaction(w, constraint, newJobs, newVideos, next, calls)
  PROVE  \/ jobs' = newJobs /\ videos' = newVideos /\ Goto(w, next)
         \/ proc = "cancelled" /\ UNCHANGED tables /\ Goto(w, "failJob")
         \/ ~constraint /\ UNCHANGED tables /\ Goto(w, "failJob")
  BY Undisturbed DEF Transaction

-----------------------------------------------------------------------------
(* The steps of run *)

\* A transaction on the video's rows leaves the job alone, and is not refused.
LEMMA VideoStepClean ==
  ASSUME Calm, CleanIInv, NEW w \in Workers,
         \/ Cleanup(w) \/ CreateVideo(w) \/ CopyJobSegments(w)
         \/ InsertChunks(w) \/ CompleteVideo(w)
  PROVE  Clean'
<1>1. /\ pc[w] # "idle" /\ UNCHANGED <<proc, stg>> /\ TypeOK /\ NoRunIsRefused
  BY DEF Cleanup, CreateVideo, CopyJobSegments, InsertChunks, CompleteVideo, memory,
         CleanIInv, RowIInv, IInv
<1>2. /\ pc[w] = "create" => videos[cur[w]].status = "none"
      /\ pc[w] \in {"segments", "insert", "publish"} => HasRow(w)
  BY <1>1 DEF NoRunIsRefused, Writing
<1>3. /\ UNCHANGED jobs
      /\ \/ proc = "cancelled" /\ Goto(w, "failJob")
         \/ \E label \in {"create", "segments", "downloading", "complete", "summary"} :
              Goto(w, label)
  <2>1. CASE Cleanup(w)
    BY <1>1, <2>1, CalmTransaction DEF Cleanup, tables
  <2>2. CASE CreateVideo(w)
    <3> DEFINE id == <<w, jobs[cur[w]].retries>>
    <3>1. Transaction(w, videos[cur[w]].status = "none", jobs,
                      [videos EXCEPT ![cur[w]] = InsertedVideo(id)], "segments", FALSE)
      BY <2>2 DEF CreateVideo
    <3>2. videos[cur[w]].status = "none"
      BY <1>2, <2>2 DEF CreateVideo
    <3> HIDE DEF id
    <3> QED
      BY <1>1, <3>1, <3>2, CalmTransaction DEF tables
  <2>3. CASE CopyJobSegments(w)
    BY <1>1, <1>2, <2>3, CalmTransaction DEF CopyJobSegments, tables
  <2>4. CASE InsertChunks(w)
    BY <1>1, <1>2, <2>4, CalmTransaction DEF InsertChunks, tables
  <2>5. CASE CompleteVideo(w)
    BY <1>1, <1>2, <2>5, CalmTransaction DEF CompleteVideo, tables
  <2> QED
    BY <2>1, <2>2, <2>3, <2>4, <2>5
<1>4. /\ \A v \in Workers \ {w} : pc'[v] = pc[v]
      /\ pc'[w] # "transcript" /\ (pc'[w] = "failJob" => proc = "cancelled")
  BY <1>1, <1>3 DEF Goto, TypeOK
<1> QED
  BY <1>1, <1>3, <1>4, Undisturbed, StaysClean

\* The one transaction that its constraint may refuse, TakesEmptyID being FALSE.
LEMMA TranscriptClean ==
  ASSUME Calm, CleanIInv, NEW w \in Workers, SaveTranscript(w)
  PROVE  Clean'
<1>1. /\ pc[w] # "idle" /\ UNCHANGED <<proc, stg>> /\ TypeOK /\ HasRow(w)
      /\ stg[w] \in TranscriptStages
  BY DEF SaveTranscript, CleanIInv, Clean, RowIInv, IInv, NoRunIsRefused, Writing
<1>2. PICK found \in Extracted(cur[w]) :
        Transaction(w, HasRow(w) /\ TakesEmptyID, jobs,
                    [videos EXCEPT ![cur[w]] = WithTranscript(@, found)], "chunking", TRUE)
  BY DEF SaveTranscript
<1>3. /\ UNCHANGED jobs
      /\ \/ Goto(w, "chunking")
         \/ (proc = "cancelled" \/ ~TakesEmptyID) /\ Goto(w, "failJob")
  BY <1>1, <1>2, CalmTransaction DEF tables
<1>4. /\ \A v \in Workers \ {w} : pc'[v] = pc[v]
      /\ pc'[w] # "transcript"
      /\ pc'[w] = "failJob" => proc = "cancelled" \/ AtTranscript(stg'[w])
  BY <1>1, <1>3 DEF Goto, TypeOK, AtTranscript
<1> QED
  BY <1>1, <1>3, <1>4, Undisturbed, StaysClean

\* The job's own row after setStage or its completion: nothing is failed by it.
LEMMA NotFailed ==
  ASSUME CleanIInv, NEW w \in Workers, NEW status \in {"processing", "completed"},
         NEW stage, pc[w] \in Owning,
         \/ jobs' = [jobs EXCEPT ![cur[w]] = WithStatus(@, status, stage)]
         \/ jobs' = jobs
  PROVE  \A j \in Jobs : jobs'[j].status = "failed" => jobs'[j] = jobs[j]
<1>1. cur[w] \in Jobs /\ jobs[cur[w]] \in JobRow /\ TypeOK
  BY RunFacts DEF CleanIInv, RowIInv
<1>2. WithStatus(jobs[cur[w]], status, stage).status = status
  BY <1>1 DEF WithStatus, JobRow
<1>3. CASE jobs' = [jobs EXCEPT ![cur[w]] = WithStatus(@, status, stage)]
  <2>1. jobs'[cur[w]].status # "failed" /\ \A j \in Jobs \ {cur[w]} : jobs'[j] = jobs[j]
    BY <1>1, <1>2, <1>3 DEF TypeOK
  <2> QED
    BY <2>1
<1> QED
  BY <1>3

\* setStage: the stage in memory is set with the label that follows.
LEMMA SetStageClean ==
  ASSUME Calm, CleanIInv, NEW w \in Workers, NEW stage \in JobStage,
         NEW next \in {"extracting", "transcript", "embedding", "insert"}, NEW calls,
         next = "transcript" => stage \in TranscriptStages,
         pc[w] \in Owning, SetStage(w, stage, next, calls)
  PROVE  Clean'
<1>1. pc[w] # "idle" /\ TypeOK /\ UNCHANGED proc
  BY DEF Owning, CleanIInv, RowIInv, IInv, SetStage
<1>2. Transaction(w, TRUE, [jobs EXCEPT ![cur[w]] = WithStatus(@, "processing", stage)],
                  videos, next, calls)
  BY DEF SetStage
<1>3. \/ jobs' = [jobs EXCEPT ![cur[w]] = WithStatus(@, "processing", stage)] /\ Goto(w, next)
      \/ jobs' = jobs /\ proc = "cancelled" /\ Goto(w, "failJob")
  BY <1>1, <1>2, CalmTransaction DEF tables
<1>4. \A j \in Jobs : jobs'[j].status = "failed" => jobs'[j] = jobs[j]
  BY <1>3, NotFailed
<1>5. /\ \A v \in Workers \ {w} : pc'[v] = pc[v] /\ stg'[v] = stg[v]
      /\ pc'[w] = next => stg'[w] = stage
  BY <1>1, <1>3 DEF Goto, TypeOK, SetStage
<1>6. pc'[w] = next \/ (pc'[w] = "failJob" /\ proc = "cancelled")
  BY <1>1, <1>3 DEF Goto, TypeOK
<1> QED
  BY <1>1, <1>4, <1>5, <1>6, Undisturbed, StaysClean

LEMMA StageClean ==
  ASSUME Calm, CleanIInv, NEW w \in Workers,
         StageDownloading(w) \/ StageExtracting(w) \/ StageChunking(w) \/ StageEmbedding(w)
  PROVE  Clean'
<1>1. pc[w] \in Owning
  BY DEF StageDownloading, StageExtracting, StageChunking, StageEmbedding, Owning, Labels
<1>2. CASE StageExtracting(w)
  <2>1. PICK stage \in {"parsing", "transcribing"} : SetStage(w, stage, "transcript", TRUE)
    BY <1>2 DEF StageExtracting
  <2>2. stage \in JobStage /\ stage \in TranscriptStages
    BY DEF JobStage, TranscriptStages
  <2> QED
    BY <1>1, <2>1, <2>2, SetStageClean
<1>3. CASE StageDownloading(w) \/ StageChunking(w) \/ StageEmbedding(w)
  <2>1. PICK stage \in JobStage, next \in {"extracting", "embedding", "insert"} :
          SetStage(w, stage, next, FALSE)
    BY <1>3 DEF StageDownloading, StageChunking, StageEmbedding, JobStage
  <2> QED
    BY <1>1, <2>1, SetStageClean
<1> QED
  BY <1>2, <1>3

LEMMA CompletionClean ==
  ASSUME Calm, CleanIInv, NEW w \in Workers, CompleteJob(w)
  PROVE  Clean'
<1>1. pc[w] # "idle" /\ pc[w] \in Owning /\ TypeOK /\ UNCHANGED <<proc, stg>>
  BY DEF CompleteJob, Owning, Labels, memory, CleanIInv, RowIInv, IInv
<1>2. Transaction(w, TRUE, [jobs EXCEPT ![cur[w]] = WithStatus(@, "completed", "completed")],
                  videos, "publish", FALSE)
  BY DEF CompleteJob
<1>3. \/ jobs' = [jobs EXCEPT ![cur[w]] = WithStatus(@, "completed", "completed")]
         /\ Goto(w, "publish")
      \/ jobs' = jobs /\ proc = "cancelled" /\ Goto(w, "failJob")
  BY <1>1, <1>2, CalmTransaction DEF tables
<1>4. \A j \in Jobs : jobs'[j].status = "failed" => jobs'[j] = jobs[j]
  BY <1>1, <1>3, NotFailed
<1>5. /\ \A v \in Workers \ {w} : pc'[v] = pc[v]
      /\ pc'[w] = "publish" \/ (pc'[w] = "failJob" /\ proc = "cancelled")
  BY <1>1, <1>3 DEF Goto, TypeOK
<1> QED
  BY <1>1, <1>4, <1>5, Undisturbed, StaysClean

\* The job is marked failed with the stage the run failed in, or not at all.
LEMMA FailJobClean ==
  ASSUME Calm, CleanIInv, NEW w \in Workers, FailJob(w)
  PROVE  Clean'
<1>1. pc[w] = "failJob" /\ TypeOK /\ UNCHANGED <<proc, stg>> /\ proc # "down"
  BY Undisturbed DEF FailJob, memory, CleanIInv, RowIInv, IInv
<1>2. pc'[w] = "failVideo" /\ \A v \in Workers \ {w} : pc'[v] = pc[v]
  BY <1>1 DEF FailJob, Goto, TypeOK
<1>3. CASE UNCHANGED jobs
  BY <1>1, <1>2, <1>3, StaysClean
<1>4. CASE JobCtxAlive /\ jobs' = [jobs EXCEPT ![cur[w]] = WithStatus(@, "failed", stg[w])]
  <2>1. AtTranscript(stg[w])
    BY <1>1, <1>4 DEF JobCtxAlive, CleanIInv, Clean
  <2>2. cur[w] \in Jobs /\ jobs[cur[w]] \in JobRow
    BY <1>1, RunFacts DEF CleanIInv, RowIInv, Owning, Labels
  <2>3. ASSUME NEW j \in Jobs, jobs'[j].status = "failed" PROVE AtTranscript(jobs'[j].stage)
    <3>1. CASE j = cur[w]
      BY <1>1, <1>4, <2>1, <2>2, <3>1 DEF TypeOK, WithStatus, JobRow
    <3>2. CASE j # cur[w]
      BY <1>1, <1>4, <2>3, <3>2 DEF TypeOK, CleanIInv, Clean
    <3> QED
      BY <3>1, <3>2
  <2> QED
    BY <1>1, <1>2, <2>3 DEF CleanIInv, Clean, AtTranscript
<1> QED
  BY <1>3, <1>4 DEF FailJob

\* The whole of run and fail.
LEMMA RunStepClean ==
  ASSUME Calm, CleanIInv, NEW w \in Workers, RunStep(w)
  PROVE  Clean'
<1>1. CASE LoadJob(w) \/ GenerateSummary(w) \/ FailVideo(w)
  <2>1. /\ UNCHANGED <<jobs, proc>> /\ pc[w] # "idle"
        /\ \A v \in Workers \ {w} : pc'[v] = pc[v] /\ stg'[v] = stg[v]
        /\ pc'[w] \in {"cleanup", "claim", "idle"}
    BY <1>1 DEF LoadJob, GenerateSummary, FailVideo, Release, Goto, Resume, tables,
                CleanIInv, RowIInv, IInv, TypeOK
  <2> QED
    BY <2>1, Undisturbed, StaysClean
<1> QED
  BY <1>1, VideoStepClean, TranscriptClean, StageClean, CompletionClean, FailJobClean DEF RunStep

-----------------------------------------------------------------------------
(* The steps outside run *)

\* Waking up, claiming, stopping.
LEMMA QueueStepClean ==
  ASSUME CleanIInv, NEW w \in Workers,
         \/ Wake(w) \/ StopClaiming(w) \/ ClaimNextPending(w)
         \/ \E j \in Jobs : SelectPending(w, j)
  PROVE  Clean'
<1>0. TypeOK
  BY DEF CleanIInv, RowIInv, IInv
<1>1. /\ UNCHANGED <<proc, stg>> /\ proc # "down"
      /\ \A v \in Workers \ {w} : pc'[v] = pc[v]
      /\ pc'[w] \in {"claim", "commit", "load", "idle"}
  BY <1>0 DEF Wake, StopClaiming, ClaimNextPending, SelectPending, Goto, Resume, TypeOK,
              memory, CleanIInv, Clean
<1>2. \A j \in Jobs : jobs'[j].status = "failed" => jobs'[j] = jobs[j]
  <2>1. CASE jobs' = jobs
    BY <2>1
  <2>2. CASE jobs' = [jobs EXCEPT ![cur[w]] = Claimed(@)]
    BY <1>0, <2>2 DEF Claimed, JobRow, TypeOK
  <2> QED
    BY <2>1, <2>2 DEF Wake, StopClaiming, ClaimNextPending, SelectPending, tables
<1> QED
  BY <1>1, <1>2, StaysClean

\* A created or retried job is pending.
LEMMA ApiClean ==
  ASSUME CleanIInv, NEW j \in Jobs, Api(j)
  PROVE  Clean'
<1>1. UNCHANGED <<pc, stg, proc>> /\ TypeOK
  BY DEF Api, CreateJob, RetryJob, DeleteVideo, memory, CleanIInv, RowIInv, IInv
<1>2. \/ jobs' = [jobs EXCEPT ![j] = InsertedJob]
      \/ jobs' = [jobs EXCEPT ![j] = Requeued(@)]
      \/ UNCHANGED jobs
  BY DEF Api, CreateJob, RetryJob, DeleteVideo
<1>3. ASSUME NEW i \in Jobs, jobs'[i].status = "failed" PROVE jobs'[i] = jobs[i]
  <2>1. InsertedJob.status = "pending" /\ Requeued(jobs[j]).status = "pending"
    BY <1>1 DEF TypeOK, InsertedJob, Requeued, JobRow
  <2>2. i # j => jobs'[i] = jobs[i]
    BY <1>1, <1>2 DEF TypeOK
  <2>3. i = j => jobs'[i] = jobs[i]
    BY <1>1, <1>2, <1>3, <2>1 DEF TypeOK
  <2> QED
    BY <2>2, <2>3
<1> QED
  BY <1>1, <1>3 DEF CleanIInv, Clean, AtTranscript

\* jobCancel excuses every failure; a crash, and wg.Wait, forget every run.
LEMMA ProcessClean ==
  ASSUME CleanIInv, Process \/ UNCHANGED vars
  PROVE  Clean'
<1> USE DEF CleanIInv, Clean, AtTranscript
<1>1. UNCHANGED jobs
  BY DEF Process, Sigterm, GraceExceeded, Stopped, Crash, Start, tables, vars
<1>2. CASE Crash
  BY <1>1, <1>2 DEF Crash
<1>3. CASE Stopped \/ Start
  BY <1>1, <1>3 DEF Stopped, Start, memory
<1>4. CASE Sigterm \/ GraceExceeded \/ UNCHANGED vars
  BY <1>1, <1>4 DEF Sigterm, GraceExceeded, vars, memory
<1> QED
  BY <1>2, <1>3, <1>4 DEF Process

-----------------------------------------------------------------------------
(* The theorem *)

\* One case per action.
LEMMA StepClean == Calm /\ CleanIInv /\ [Next]_vars => CleanIInv'
<1> SUFFICES ASSUME Calm, CleanIInv, [Next]_vars PROVE CleanIInv'
  OBVIOUS
<1>1. Clean'
  BY RunStepClean, QueueStepClean, ApiClean, ProcessClean DEF Next, WorkerStep
<1> QED
  BY <1>1, StepRowIInv DEF CleanIInv

(***************************************************************************)
(* While the providers and the database do what they are asked, a job can  *)
(* fail at its transcript only, and only because the repository refuses    *)
(* one without an id: for any jobs, workers and retries, with stops,       *)
(* exceeded grace periods, crashes and restarts at any moment, for the     *)
(* repository as it is (TakesEmptyID FALSE) and as it should be.           *)
(***************************************************************************)
THEOREM OnlyTheTranscriptFailsSafety == Spec => []OnlyTheTranscriptFails
<1>1. CASE Calm
  <2>1. Init => CleanIInv
    BY InitRowIInv DEF CleanIInv, Init, Clean, NoJobRow
  <2>2. CleanIInv /\ [Next]_vars => CleanIInv'
    BY <1>1, StepClean
  <2>3. CleanIInv => OnlyTheTranscriptFails
    BY DEF CleanIInv, Clean, AtTranscript, OnlyTheTranscriptFails
  <2> QED
    BY <2>1, <2>2, <2>3, PTL DEF Spec
<1>2. CASE ~Calm
  <2>1. OnlyTheTranscriptFails
    BY <1>2 DEF Calm, OnlyTheTranscriptFails
  <2> QED
    BY <2>1, PTL
<1> QED
  BY <1>1, <1>2

-----------------------------------------------------------------------------
(***************************************************************************)
(* A job is stranded only by a fault of the database or of the process:    *)
(* errors of the providers alone leave every job that is processing with a *)
(* worker that runs it or is about to record its failure.                  *)
(***************************************************************************)

\* "overrun" asks for a stop before it.
ProvidersOnly == Faults \subseteq {"provider", "overrun", "stall"}

Tending == Running \union {"failJob"}

Tended ==
  /\ proc = "up"
  /\ \A j \in Jobs : jobs[j].status = "processing" =>
       \E w \in Workers : cur[w] = j /\ pc[w] \in Tending

TendedIInv == IInv /\ Tended

\* A worker that leaves a processing job hands it to nobody: it must not.
LEMMA TendedStep ==
  ASSUME TendedIInv, NEW w \in Workers, UNCHANGED proc,
         \A v \in Workers \ {w} : pc'[v] = pc[v] /\ cur'[v] = cur[v],
         \A i \in Jobs \ {cur[w]} :
           jobs'[i].status = "processing" => jobs[i].status = "processing",
         \A i \in Jobs :
           i = cur[w] /\ jobs'[i].status = "processing" =>
             \/ cur'[w] = i /\ pc'[w] \in Tending
             \/ jobs[i].status = "processing" /\ pc[w] \notin Tending
  PROVE  Tended'
<1>1. ASSUME NEW i \in Jobs, jobs'[i].status = "processing"
      PROVE  \E v \in Workers : cur'[v] = i /\ pc'[v] \in Tending
  <2>1. CASE cur'[w] = i /\ pc'[w] \in Tending
    BY <2>1
  <2>2. CASE jobs[i].status = "processing" /\ ~(cur[w] = i /\ pc[w] \in Tending)
    <3>1. PICK v \in Workers : cur[v] = i /\ pc[v] \in Tending
      BY <2>2 DEF TendedIInv, Tended
    <3>2. v # w
      BY <2>2, <3>1
    <3> QED
      BY <3>1, <3>2
  <2> QED
    BY <1>1, <2>1, <2>2
<1> QED
  BY <1>1 DEF TendedIInv, Tended

\* A transaction of run commits, or a provider or a constraint makes run fail.
LEMMA SteadyTransaction ==
  ASSUME ProvidersOnly, TendedIInv, NEW w \in Workers, NEW constraint, NEW newJobs,
         NEW newVideos, NEW next, NEW calls,
         Transaction(w, constraint, newJobs, newVideos, next, calls)
  PROVE  \/ jobs' = newJobs /\ Goto(w, next)
         \/ UNCHANGED jobs /\ Goto(w, "failJob")
  BY DEF ProvidersOnly, Transaction, tables

\* The steps of run, and fail().
LEMMA RunStepTended ==
  ASSUME ProvidersOnly, TendedIInv, NEW w \in Workers, RunStep(w)
  PROVE  Tended'
<1> USE DEF Tending, Running, Owning, Labels
<1>1. /\ JobCtxAlive /\ ~DbRejects
      /\ TypeOK /\ IInv
  BY DEF TendedIInv, Tended, ProvidersOnly, JobCtxAlive, DbRejects, IInv
<1>2. /\ pc[w] \in Owning \union {"failVideo"} /\ UNCHANGED proc
  BY DEF RunStep, LoadJob, Cleanup, CreateVideo, CopyJobSegments, StageDownloading,
         StageExtracting, SaveTranscript, StageChunking, StageEmbedding, InsertChunks,
         CompleteJob, CompleteVideo, GenerateSummary, FailJob, FailVideo, SetStage
<1>3. cur[w] \in Jobs /\ jobs[cur[w]] \in JobRow /\ JobOfWorker(w)
  BY <1>1, <1>2 DEF IInv, JobOfWorker, TypeOK
<1>4. ASSUME UNCHANGED <<jobs, cur>>, NEW label \in Tending, Goto(w, label) PROVE Tended'
  BY <1>1, <1>2, <1>4, TendedStep DEF Goto, TypeOK
<1>5. ASSUME NEW stage, UNCHANGED cur, NEW label \in Tending, Goto(w, label),
             jobs' = [jobs EXCEPT ![cur[w]] = WithStatus(@, "processing", stage)]
      PROVE  Tended'
  BY <1>1, <1>2, <1>5, TendedStep DEF Goto, TypeOK
<1>6. ASSUME NEW status \in {"completed", "failed"}, NEW stage, UNCHANGED cur,
             NEW label, Goto(w, label),
             jobs' = [jobs EXCEPT ![cur[w]] = WithStatus(@, status, stage)]
      PROVE  Tended'
  <2>1. jobs'[cur[w]].status # "processing"
    BY <1>1, <1>3, <1>6 DEF WithStatus, TypeOK, JobRow
  <2>2. \A i \in Jobs \ {cur[w]} : jobs'[i] = jobs[i]
    BY <1>1, <1>6 DEF TypeOK
  <2> QED
    BY <1>1, <1>2, <1>6, <2>1, <2>2, TendedStep DEF Goto, TypeOK
<1>7. ASSUME pc[w] \in {"publish", "summary", "failVideo"}, UNCHANGED jobs,
             \A v \in Workers \ {w} : pc'[v] = pc[v] /\ cur'[v] = cur[v]
      PROVE  Tended'
  BY <1>2, <1>3, <1>7, TendedStep
<1>8. CASE LoadJob(w)
  BY <1>1, <1>4, <1>8 DEF LoadJob, tables
<1>9. CASE Cleanup(w) \/ CreateVideo(w) \/ CopyJobSegments(w) \/ SaveTranscript(w)
  <2>1. UNCHANGED <<jobs, cur>> /\ \E label \in Tending : Goto(w, label)
    BY <1>9 DEF Cleanup, CreateVideo, CopyJobSegments, SaveTranscript, Transaction, tables
  <2> QED
    BY <1>4, <2>1
<1>10. CASE InsertChunks(w)
  <2>1. UNCHANGED <<jobs, cur>> /\ \E label \in Tending : Goto(w, label)
    BY <1>10 DEF InsertChunks, Transaction, tables
  <2> QED
    BY <1>4, <2>1
<1>11. CASE StageDownloading(w) \/ StageExtracting(w) \/ StageChunking(w) \/ StageEmbedding(w)
  <2>1. PICK stage \in JobStage, next \in {"extracting", "transcript", "embedding", "insert"},
             calls \in BOOLEAN : SetStage(w, stage, next, calls)
    BY <1>11 DEF StageDownloading, StageExtracting, StageChunking, StageEmbedding, JobStage
  <2>2. UNCHANGED cur
        /\ \/ /\ jobs' = [jobs EXCEPT ![cur[w]] = WithStatus(@, "processing", stage)]
              /\ Goto(w, next)
           \/ UNCHANGED jobs /\ Goto(w, "failJob")
    BY <2>1, SteadyTransaction DEF SetStage
  <2> QED
    BY <1>4, <1>5, <2>2
<1>12. CASE CompleteJob(w)
  <2>1. UNCHANGED cur
        /\ \/ /\ jobs' = [jobs EXCEPT ![cur[w]] = WithStatus(@, "completed", "completed")]
              /\ Goto(w, "publish")
           \/ UNCHANGED jobs /\ Goto(w, "failJob")
    BY <1>12, SteadyTransaction DEF CompleteJob
  <2> QED
    BY <1>4, <1>6, <2>1
<1>13. CASE FailJob(w)
  BY <1>1, <1>6, <1>13 DEF FailJob
<1>14. CASE CompleteVideo(w) \/ GenerateSummary(w) \/ FailVideo(w)
  <2>1. /\ pc[w] \in {"publish", "summary", "failVideo"} /\ UNCHANGED jobs
        /\ \A v \in Workers \ {w} : pc'[v] = pc[v] /\ cur'[v] = cur[v]
    BY <1>1, <1>14 DEF CompleteVideo, GenerateSummary, FailVideo, Transaction, Release, Goto,
                       tables, TypeOK
  <2> QED
    BY <1>7, <2>1
<1> QED
  BY <1>8, <1>9, <1>10, <1>11, <1>12, <1>13, <1>14 DEF RunStep

\* Waking up, claiming; the claim gives its caller the job it has marked.
LEMMA QueueStepTended ==
  ASSUME ProvidersOnly, TendedIInv, NEW w \in Workers,
         \/ Wake(w) \/ StopClaiming(w) \/ ClaimNextPending(w)
         \/ \E j \in Jobs : SelectPending(w, j)
  PROVE  Tended'
<1> USE DEF Tending, Running, Owning, Labels
<1>1. TypeOK /\ proc = "up" /\ JobOfWorker(w)
  BY DEF TendedIInv, Tended, IInv
<1>2. CASE Wake(w) \/ StopClaiming(w) \/ \E j \in Jobs : SelectPending(w, j)
  <2>1. /\ UNCHANGED <<jobs, proc>> /\ pc[w] \notin Tending
        /\ \A v \in Workers \ {w} : pc'[v] = pc[v] /\ cur'[v] = cur[v]
    BY <1>1, <1>2 DEF Wake, StopClaiming, SelectPending, Goto, tables, TypeOK
  <2> QED
    BY <2>1, TendedStep
<1>3. CASE ClaimNextPending(w)
  <2>1. /\ UNCHANGED <<cur, proc>> /\ Goto(w, "load")
        /\ jobs' = [jobs EXCEPT ![cur[w]] = Claimed(@)]
    BY <1>1, <1>3 DEF ClaimNextPending, ProvidersOnly
  <2> QED
    BY <1>1, <2>1, TendedStep DEF Goto, TypeOK
<1> QED
  BY <1>2, <1>3

\* The API puts no job into processing; the process stays up.
LEMMA OtherStepTended ==
  ASSUME ProvidersOnly, TendedIInv, Process \/ UNCHANGED vars \/ \E j \in Jobs : Api(j)
  PROVE  Tended'
<1>1. TypeOK /\ proc = "up"
  BY DEF TendedIInv, Tended, IInv
<1>2. ~Process
  BY <1>1 DEF Process, Sigterm, GraceExceeded, Stopped, Crash, Start, ProvidersOnly
<1>3. CASE \E j \in Jobs : Api(j)
  <2>1. PICK j \in Jobs :
          /\ UNCHANGED <<pc, cur, proc>>
          /\ \/ jobs' = [jobs EXCEPT ![j] = InsertedJob]
             \/ jobs' = [jobs EXCEPT ![j] = Requeued(@)]
             \/ UNCHANGED jobs
    BY <1>3 DEF Api, CreateJob, RetryJob, DeleteVideo
  <2>2. InsertedJob.status = "pending" /\ Requeued(jobs[j]).status = "pending"
    BY <1>1 DEF InsertedJob, Requeued, TypeOK, JobRow
  <2>3. \A i \in Jobs : jobs'[i].status = "processing" => jobs[i].status = "processing"
    BY <1>1, <2>1, <2>2 DEF TypeOK
  <2> QED
    BY <2>1, <2>3 DEF TendedIInv, Tended
<1>4. CASE UNCHANGED vars
  BY <1>4 DEF vars, TendedIInv, Tended
<1> QED
  BY <1>2, <1>3, <1>4

(***************************************************************************)
(* A processing job always has a worker that will end it, for any jobs,    *)
(* workers and retries, as long as the only errors are the providers':     *)
(* what strands a job is a database error, a lost acknowledgement, a stop  *)
(* or a crash, each of which does (see PipelineStranded).                  *)
(***************************************************************************)
THEOREM NobodyStranded ==
  ProvidersOnly => (Spec => []NoStrandedJob)
<1> SUFFICES ASSUME ProvidersOnly PROVE Spec => []NoStrandedJob
  OBVIOUS
<1>1. Init => TendedIInv
  BY InitIInv DEF TendedIInv, Tended, Init, NoJobRow
<1>2. TendedIInv /\ [Next]_vars => TendedIInv'
  <2>1. TendedIInv /\ [Next]_vars => Tended'
    BY RunStepTended, QueueStepTended, OtherStepTended DEF Next, WorkerStep
  <2> QED
    BY <2>1, StepIInv DEF TendedIInv
<1>3. TendedIInv => NoStrandedJob
  BY DEF TendedIInv, Tended, NoStrandedJob, Held
<1> QED
  BY <1>1, <1>2, <1>3, PTL DEF Spec

-----------------------------------------------------------------------------
(***************************************************************************)
(* A first attempt that is reported completed leaves a completed video,    *)
(* while the database answers, the grace period is enough and the process  *)
(* does not die: of what makes CompletedAtRest fail there, only the retry  *)
(* between the two halves of fail() is left.                               *)
(***************************************************************************)

SoundDatabase == Faults \subseteq {"provider", "unacked", "stop", "stall"}

FirstAttempt(j) == jobs[j].status = "completed" /\ jobs[j].retries = 0

FirstAttemptsAtRest ==
  \A j \in Jobs : FirstAttempt(j) /\ ~Held(j) => videos[j].status = "completed"

\* Between completing the job and completing the video, or about to fail the job.
Finishing(w, j) == cur[w] = j /\ pc[w] \in {"publish", "failJob"}

\* The second half of fail() finds the job failed, or retried since.
FailsOwnAttempt(w) ==
  pc[w] = "failVideo" =>
    /\ jobs[cur[w]].status # "none"
    /\ jobs[cur[w]].retries = 0 => jobs[cur[w]].status = "failed"

Settled ==
  /\ proc # "cancelled"
  /\ proc = "down" => \A w \in Workers : pc[w] = "idle"
  /\ \A w \in Workers : FailsOwnAttempt(w)
  /\ \A j \in Jobs : FirstAttempt(j) =>
       videos[j].status = "completed" \/ \E w \in Workers : Finishing(w, j)

SettledIInv == RowIInv /\ Settled

\* A step of the worker that owns a job on that job's rows.
LEMMA OwnerSettles ==
  ASSUME SettledIInv, NEW w \in Workers, pc[w] \in Owning \union {"commit"}, UNCHANGED proc,
         \A v \in Workers \ {w} : pc'[v] = pc[v] /\ cur'[v] = cur[v],
         \A i \in Jobs \ {cur[w]} : jobs'[i] = jobs[i] /\ videos'[i] = videos[i],
         jobs'[cur[w]].retries = jobs[cur[w]].retries, jobs'[cur[w]].status # "none",
         jobs'[cur[w]].status = "completed" =>
           \/ videos'[cur[w]].status = "completed"
           \/ cur'[w] = cur[w] /\ pc'[w] \in {"publish", "failJob"},
         pc'[w] = "failVideo" => cur'[w] = cur[w] /\ jobs'[cur[w]].status = "failed"
  PROVE  Settled'
<1>1. /\ cur[w] \in Jobs /\ jobs[cur[w]].status \in {"pending", "processing", "completed"}
  BY DEF SettledIInv, RowIInv, IInv, JobOfWorker, Owning, Running, Labels
<1>2. ASSUME NEW v \in Workers PROVE FailsOwnAttempt(v)'
  <2>1. CASE v = w
    BY <2>1 DEF FailsOwnAttempt
  <2>2. CASE v # w /\ pc[v] = "failVideo"
    <3>1. cur[v] \in Jobs /\ FailsOwnAttempt(v)
      BY <2>2 DEF SettledIInv, Settled, RowIInv, IInv, JobOfWorker
    <3>2. CASE cur[v] = cur[w]
      BY <1>1, <2>2, <3>1, <3>2 DEF FailsOwnAttempt
    <3>3. CASE cur[v] # cur[w]
      BY <2>2, <3>1, <3>3 DEF FailsOwnAttempt
    <3> QED
      BY <3>2, <3>3
  <2> QED
    BY <2>1, <2>2 DEF FailsOwnAttempt
<1>3. ASSUME NEW j \in Jobs, FirstAttempt(j)', videos'[j].status # "completed"
      PROVE  \E v \in Workers : Finishing(v, j)'
  <2>1. CASE j = cur[w]
    BY <1>3, <2>1 DEF FirstAttempt, Finishing
  <2>2. CASE j # cur[w]
    <3>1. PICK v \in Workers : Finishing(v, j)
      BY <1>3, <2>2 DEF SettledIInv, Settled, FirstAttempt
    <3>2. v # w
      BY <2>2, <3>1 DEF Finishing
    <3> QED
      BY <3>1, <3>2 DEF Finishing
  <2> QED
    BY <2>1, <2>2
<1>4. proc # "cancelled" /\ proc # "down"
  BY DEF SettledIInv, Settled, Owning
<1> QED
  BY <1>2, <1>3, <1>4 DEF Settled

\* A step that completes no job and changes no material of one that is.
LEMMA RowsSettled ==
  ASSUME SettledIInv, proc' # "cancelled",
         proc' = "down" => \A w \in Workers : pc'[w] = "idle",
         \A j \in Jobs : FirstAttempt(j)' =>
           FirstAttempt(j) /\ videos'[j].status = videos[j].status,
         \A w \in Workers :
           /\ pc[w] \in {"publish", "failJob"} => pc'[w] = pc[w] /\ cur'[w] = cur[w]
           /\ pc'[w] = "failVideo" => pc[w] = "failVideo" /\ FailsOwnAttempt(w)'
  PROVE  Settled'
<1>1. \A w \in Workers : FailsOwnAttempt(w)'
  BY DEF FailsOwnAttempt
<1>2. ASSUME NEW j \in Jobs, FirstAttempt(j)', videos'[j].status # "completed"
      PROVE  \E w \in Workers : Finishing(w, j)'
  <2>1. PICK w \in Workers : Finishing(w, j)
    BY <1>2 DEF SettledIInv, Settled
  <2> QED
    BY <2>1 DEF Finishing
<1> QED
  BY <1>1, <1>2 DEF Settled

-----------------------------------------------------------------------------
(* Its steps *)

\* What a worker in run, or in fail(), starts from.
LEMMA SettledFacts ==
  ASSUME SoundDatabase, SettledIInv, NEW w \in Workers, pc[w] \in Owning \union {"commit"}
  PROVE  /\ TypeOK /\ JobOfWorker(w) /\ cur[w] \in Jobs
         /\ jobs[cur[w]] \in JobRow /\ videos[cur[w]] \in VideoRow
         /\ JobCtxAlive /\ ~DbRejects /\ proc # "down" /\ proc # "cancelled"
<1>1. TypeOK /\ JobOfWorker(w) /\ cur[w] \in Jobs
  BY DEF SettledIInv, RowIInv, IInv, JobOfWorker
<1>2. proc # "down" /\ proc # "cancelled"
  BY DEF SettledIInv, Settled, Owning
<1> QED
  BY <1>1, <1>2 DEF TypeOK, JobCtxAlive, DbRejects, SoundDatabase

\* UpdateJobStatus sets the status and leaves the count of retries.
LEMMA WrittenRow ==
  ASSUME NEW row \in JobRow, NEW status, NEW stage
  PROVE  /\ WithStatus(row, status, stage).status = status
         /\ WithStatus(row, status, stage).retries = row.retries
  BY DEF WithStatus, JobRow

\* A run that has not completed its job.
LEMMA RunningSettles ==
  ASSUME SoundDatabase, SettledIInv, NEW w \in Workers, pc[w] \in Running, UNCHANGED <<proc, cur>>,
         NEW label, label # "failVideo", Goto(w, label),
         \A i \in Jobs \ {cur[w]} : videos'[i] = videos[i],
         \/ UNCHANGED jobs
         \/ \E stage : jobs' = [jobs EXCEPT ![cur[w]] = WithStatus(@, "processing", stage)]
         \/ /\ label \in {"publish", "failJob"}
            /\ \E stage : jobs' = [jobs EXCEPT ![cur[w]] = WithStatus(@, "completed", stage)]
  PROVE  Settled'
<1>1. pc[w] \in Owning \union {"commit"}
  BY DEF Running
<1>2. jobs[cur[w]].status = "processing"
  BY <1>1, SettledFacts DEF JobOfWorker
<1>3. pc'[w] = label /\ \A v \in Workers \ {w} : pc'[v] = pc[v]
  BY <1>1, SettledFacts DEF Goto, TypeOK
<1>4. /\ \A i \in Jobs \ {cur[w]} : jobs'[i] = jobs[i]
      /\ jobs'[cur[w]].retries = jobs[cur[w]].retries
      /\ jobs'[cur[w]].status \in {"processing", "completed"}
      /\ jobs'[cur[w]].status = "completed" => label \in {"publish", "failJob"}
  <2>1. TypeOK /\ cur[w] \in Jobs /\ jobs[cur[w]] \in JobRow
    BY <1>1, SettledFacts
  <2>2. CASE UNCHANGED jobs
    BY <1>2, <2>2
  <2>3. CASE \E stage : jobs' = [jobs EXCEPT ![cur[w]] = WithStatus(@, "processing", stage)]
    <3>1. PICK stage : jobs' = [jobs EXCEPT ![cur[w]] = WithStatus(@, "processing", stage)]
      BY <2>3
    <3>2. /\ jobs'[cur[w]] = WithStatus(jobs[cur[w]], "processing", stage)
          /\ \A i \in Jobs \ {cur[w]} : jobs'[i] = jobs[i]
      BY <2>1, <3>1 DEF TypeOK
    <3> QED
      BY <2>1, <3>2, WrittenRow
  <2>4. CASE /\ label \in {"publish", "failJob"}
             /\ \E stage : jobs' = [jobs EXCEPT ![cur[w]] = WithStatus(@, "completed", stage)]
    <3>1. PICK stage : jobs' = [jobs EXCEPT ![cur[w]] = WithStatus(@, "completed", stage)]
      BY <2>4
    <3>2. /\ jobs'[cur[w]] = WithStatus(jobs[cur[w]], "completed", stage)
          /\ \A i \in Jobs \ {cur[w]} : jobs'[i] = jobs[i]
      BY <2>1, <3>1 DEF TypeOK
    <3> QED
      BY <2>1, <2>4, <3>2, WrittenRow
  <2> QED
    BY <2>2, <2>3, <2>4
<1> QED
  BY <1>1, <1>3, <1>4, OwnerSettles

\* The transactions of run up to completing the job.
LEMMA RunStepSettled ==
  ASSUME SoundDatabase, SettledIInv, NEW w \in Workers,
         \/ LoadJob(w) \/ Cleanup(w) \/ CreateVideo(w) \/ CopyJobSegments(w)
         \/ StageDownloading(w) \/ StageExtracting(w) \/ SaveTranscript(w)
         \/ StageChunking(w) \/ StageEmbedding(w) \/ InsertChunks(w) \/ CompleteJob(w)
  PROVE  Settled'
<1>1. pc[w] \in Running /\ pc[w] \in Owning /\ UNCHANGED proc
  BY DEF LoadJob, Cleanup, CreateVideo, CopyJobSegments, StageDownloading, StageExtracting,
         SaveTranscript, StageChunking, StageEmbedding, InsertChunks, CompleteJob, SetStage,
         Running, Owning, Labels
<1>2. TypeOK /\ ~DbRejects
  BY <1>1, SettledFacts
<1>3. CASE LoadJob(w)
  <2>1. UNCHANGED <<jobs, videos, cur>> /\ Goto(w, "cleanup")
    BY <1>2, <1>3 DEF LoadJob, tables
  <2> QED
    BY <1>1, <2>1, RunningSettles
<1>4. CASE \/ Cleanup(w) \/ CreateVideo(w) \/ CopyJobSegments(w) \/ SaveTranscript(w)
           \/ InsertChunks(w)
  <2>1. /\ UNCHANGED <<jobs, cur>>
        /\ \A i \in Jobs \ {cur[w]} : videos'[i] = videos[i]
    BY <1>2, <1>4 DEF Cleanup, CreateVideo, CopyJobSegments, SaveTranscript, InsertChunks,
                      Transaction, tables, TypeOK
  <2>2. PICK label \in {"create", "segments", "downloading", "chunking", "complete", "failJob"} :
          Goto(w, label)
    BY <1>4 DEF Cleanup, CreateVideo, CopyJobSegments, SaveTranscript, InsertChunks, Transaction
  <2> QED
    BY <1>1, <2>1, <2>2, RunningSettles
<1>5. CASE StageDownloading(w) \/ StageExtracting(w) \/ StageChunking(w) \/ StageEmbedding(w)
  <2>1. PICK stage \in JobStage, next \in {"extracting", "transcript", "embedding", "insert"},
             calls \in BOOLEAN : SetStage(w, stage, next, calls)
    BY <1>5 DEF StageDownloading, StageExtracting, StageChunking, StageEmbedding, JobStage
  <2>2. /\ UNCHANGED <<videos, cur>>
        /\ \E label \in {next, "failJob"} : Goto(w, label)
        /\ \/ UNCHANGED jobs
           \/ jobs' = [jobs EXCEPT ![cur[w]] = WithStatus(@, "processing", stage)]
    BY <2>1 DEF SetStage, Transaction, tables
  <2>3. PICK label \in {next, "failJob"} : Goto(w, label)
    BY <2>2
  <2> QED
    BY <1>1, <2>2, <2>3, RunningSettles
<1>6. CASE CompleteJob(w)
  <2>1. /\ UNCHANGED <<videos, cur>>
        /\ \E label \in {"publish", "failJob"} : Goto(w, label)
        /\ \/ UNCHANGED jobs
           \/ jobs' = [jobs EXCEPT ![cur[w]] = WithStatus(@, "completed", "completed")]
    BY <1>6 DEF CompleteJob, Transaction, tables
  <2>2. PICK label \in {"publish", "failJob"} : Goto(w, label)
    BY <2>1
  <2> QED
    BY <1>1, <2>1, <2>2, RunningSettles
<1> QED
  BY <1>3, <1>4, <1>5, <1>6

\* videos.UpdateStatus cannot fail here, and fail() records the job's end first.
LEMMA EndSettled ==
  ASSUME SoundDatabase, SettledIInv, NEW w \in Workers, CompleteVideo(w) \/ FailJob(w)
  PROVE  Settled'
<1>1. pc[w] \in Owning \union {"commit"} /\ UNCHANGED <<proc, cur>>
  BY DEF CompleteVideo, FailJob, Owning, Labels
<1>2. TypeOK /\ ~DbRejects /\ cur[w] \in Jobs /\ jobs[cur[w]] \in JobRow
      /\ videos[cur[w]] \in VideoRow /\ JobOfWorker(w)
  BY <1>1, SettledFacts
<1>3. CASE CompleteVideo(w)
  <2>1. HasRow(w)
    BY <1>3 DEF CompleteVideo, SettledIInv, RowIInv, NoRunIsRefused, Writing
  <2>2. /\ jobs' = jobs /\ videos' = [videos EXCEPT ![cur[w]].status = "completed"]
        /\ \E label \in {"summary", "failJob"} : Goto(w, label)
    BY <1>2, <1>3, <2>1 DEF CompleteVideo, Transaction
  <2>3. /\ videos'[cur[w]].status = "completed"
        /\ \A i \in Jobs \ {cur[w]} : videos'[i] = videos[i]
    BY <1>2, <2>2 DEF TypeOK, VideoRow
  <2>4. jobs[cur[w]].status = "completed"
    BY <1>2, <1>3 DEF CompleteVideo, JobOfWorker
  <2>5. pc'[w] # "failVideo" /\ \A v \in Workers \ {w} : pc'[v] = pc[v]
    BY <1>2, <2>2 DEF Goto, TypeOK
  <2> QED
    BY <1>1, <2>2, <2>3, <2>4, <2>5, OwnerSettles
<1>4. CASE FailJob(w)
  <2>1. /\ videos' = videos /\ Goto(w, "failVideo")
        /\ jobs' = [jobs EXCEPT ![cur[w]] = WithStatus(@, "failed", stg[w])]
    BY <1>2, <1>4 DEF FailJob
  <2>2. /\ jobs'[cur[w]].status = "failed" /\ jobs'[cur[w]].retries = jobs[cur[w]].retries
        /\ \A i \in Jobs \ {cur[w]} : jobs'[i] = jobs[i]
    BY <1>2, <2>1 DEF TypeOK, WithStatus, JobRow
  <2>3. \A v \in Workers \ {w} : pc'[v] = pc[v]
    BY <1>2, <2>1 DEF Goto, TypeOK
  <2> QED
    BY <1>1, <2>1, <2>2, <2>3, OwnerSettles
<1> QED
  BY <1>3, <1>4

\* The end of ProcessJob: whatever video fail() finds, it is not one to keep.
LEMMA ReleaseSettled ==
  ASSUME SoundDatabase, SettledIInv, NEW w \in Workers, GenerateSummary(w) \/ FailVideo(w)
  PROVE  Settled'
<1>1. /\ pc[w] \in {"summary", "failVideo"} /\ UNCHANGED <<jobs, proc>>
      /\ TypeOK /\ cur[w] \in Jobs /\ videos[cur[w]] \in VideoRow
      /\ FailsOwnAttempt(w)
  BY DEF GenerateSummary, FailVideo, SettledIInv, Settled, RowIInv, IInv, JobOfWorker, Owning,
         Labels, TypeOK
<1>2. /\ \A v \in Workers \ {w} : pc'[v] = pc[v] /\ cur'[v] = cur[v]
      /\ pc'[w] \in {"claim", "idle"}
  BY <1>1 DEF GenerateSummary, FailVideo, Release, Resume, Goto, TypeOK
<1>3. ASSUME NEW j \in Jobs, FirstAttempt(j) PROVE videos'[j].status = videos[j].status
  <2>1. CASE GenerateSummary(w)
    <3>1. videos' = videos \/ \E x : videos' = [videos EXCEPT ![cur[w]].summary = x]
      BY <2>1 DEF GenerateSummary
    <3> QED
      BY <1>1, <3>1 DEF TypeOK, VideoRow
  <2>2. CASE FailVideo(w)
    <3>1. j # cur[w]
      BY <1>1, <1>3, <2>2 DEF FailVideo, FailsOwnAttempt, FirstAttempt
    <3> QED
      BY <1>1, <2>2, <3>1 DEF FailVideo, TypeOK
  <2> QED
    BY <2>1, <2>2
<1>4. \A v \in Workers : pc'[v] = "failVideo" => pc[v] = "failVideo" /\ FailsOwnAttempt(v)'
  BY <1>1, <1>2 DEF FailsOwnAttempt, SettledIInv, Settled
<1>5. proc # "down" /\ proc # "cancelled"
  BY <1>1 DEF SettledIInv, Settled
<1> QED
  BY <1>1, <1>2, <1>3, <1>4, <1>5, RowsSettled DEF FirstAttempt

\* Waking up and claiming.
LEMMA QueueStepSettled ==
  ASSUME SoundDatabase, SettledIInv, NEW w \in Workers,
         \/ Wake(w) \/ StopClaiming(w) \/ ClaimNextPending(w)
         \/ \E j \in Jobs : SelectPending(w, j)
  PROVE  Settled'
<1>1. TypeOK
  BY DEF SettledIInv, RowIInv, IInv
<1>2. /\ \A v \in Workers \ {w} : pc'[v] = pc[v] /\ cur'[v] = cur[v]
      /\ pc[w] \in {"idle", "claim", "commit"} /\ pc'[w] \in {"claim", "commit", "load", "idle"}
      /\ UNCHANGED <<videos, proc>> /\ proc # "down" /\ proc # "cancelled"
  BY <1>1 DEF Wake, StopClaiming, ClaimNextPending, SelectPending, Goto, Resume, tables, TypeOK,
              SettledIInv, Settled
<1>3. CASE UNCHANGED jobs
  <2>1. \A v \in Workers : pc'[v] = "failVideo" => pc[v] = "failVideo" /\ FailsOwnAttempt(v)'
    BY <1>2, <1>3 DEF FailsOwnAttempt, SettledIInv, Settled
  <2> QED
    BY <1>2, <1>3, <2>1, RowsSettled DEF FirstAttempt
<1>4. CASE pc[w] = "commit" /\ jobs' = [jobs EXCEPT ![cur[w]] = Claimed(@)]
  <2>1. cur[w] \in Jobs /\ jobs[cur[w]] \in JobRow
    BY <1>4, SettledFacts
  <2>2. /\ jobs'[cur[w]].status = "processing" /\ jobs'[cur[w]].retries = jobs[cur[w]].retries
        /\ \A i \in Jobs \ {cur[w]} : jobs'[i] = jobs[i]
    BY <1>1, <1>4, <2>1 DEF TypeOK, Claimed, JobRow
  <2> QED
    BY <1>2, <1>4, <2>2, OwnerSettles
<1> QED
  BY <1>3, <1>4 DEF Wake, StopClaiming, ClaimNextPending, SelectPending, tables

\* The API: a new job, a deletion, or a retry, which ends the first attempt.
LEMMA ApiSettled ==
  ASSUME SettledIInv, NEW j \in Jobs, Api(j)
  PROVE  Settled'
<1>1. TypeOK /\ UNCHANGED <<pc, cur, proc>> /\ jobs[j] \in JobRow
  BY DEF Api, CreateJob, RetryJob, DeleteVideo, memory, SettledIInv, RowIInv, IInv, TypeOK
<1>2. \/ jobs[j].status = "none" /\ jobs' = [jobs EXCEPT ![j] = InsertedJob] /\ UNCHANGED videos
      \/ jobs' = [jobs EXCEPT ![j] = Requeued(@)] /\ UNCHANGED videos
      \/ videos' = [videos EXCEPT ![j].deleted = TRUE] /\ UNCHANGED jobs
  BY DEF Api, CreateJob, RetryJob, DeleteVideo
<1>3. /\ Requeued(jobs[j]).status = "pending" /\ Requeued(jobs[j]).retries # 0
      /\ InsertedJob.status = "pending"
  BY <1>1 DEF Requeued, InsertedJob, JobRow
<1>4. \A i \in Jobs : FirstAttempt(i)' => FirstAttempt(i) /\ videos'[i].status = videos[i].status
  BY <1>1, <1>2, <1>3 DEF FirstAttempt, TypeOK, VideoRow
<1>5. ASSUME NEW w \in Workers, pc[w] = "failVideo" PROVE FailsOwnAttempt(w)'
  <2>1. cur[w] \in Jobs /\ FailsOwnAttempt(w)
    BY <1>5 DEF SettledIInv, Settled, RowIInv, IInv, JobOfWorker
  <2>2. CASE jobs'[cur[w]] = jobs[cur[w]]
    BY <1>1, <2>1, <2>2 DEF FailsOwnAttempt
  <2>3. CASE cur[w] = j /\ jobs' = [jobs EXCEPT ![j] = Requeued(@)]
    BY <1>1, <1>3, <2>3 DEF FailsOwnAttempt, TypeOK
  <2> QED
    BY <1>1, <1>2, <1>5, <2>1, <2>2, <2>3 DEF FailsOwnAttempt, TypeOK
<1> QED
  BY <1>1, <1>4, <1>5, RowsSettled DEF SettledIInv, Settled

\* A stop waits for the runs; nothing cuts them short.
LEMMA ProcessSettled ==
  ASSUME SoundDatabase, SettledIInv, Process \/ UNCHANGED vars
  PROVE  Settled'
<1>1. UNCHANGED <<jobs, videos, pc, cur>>
  BY DEF Process, Sigterm, GraceExceeded, Stopped, Crash, Start, tables, vars, SoundDatabase
<1>2. proc' # "cancelled" /\ (proc' = "down" => \A w \in Workers : pc'[w] = "idle")
  BY <1>1 DEF Process, Sigterm, GraceExceeded, Stopped, Crash, Start, vars, SoundDatabase,
              SettledIInv, Settled
<1> QED
  BY <1>1, <1>2 DEF SettledIInv, Settled, FailsOwnAttempt, FirstAttempt, Finishing

(***************************************************************************)
(* CompletedAtRest for first attempts: with a database that answers, a     *)
(* grace period that is enough and no crash, a job completed on its first  *)
(* attempt and released by its worker has a completed video, for any jobs  *)
(* and workers and also with lost acknowledgements (processor.go:143-146). *)
(***************************************************************************)
THEOREM FirstAttemptSafety ==
  SoundDatabase => (Spec => []FirstAttemptsAtRest)
<1> SUFFICES ASSUME SoundDatabase PROVE Spec => []FirstAttemptsAtRest
  OBVIOUS
<1>1. Init => SettledIInv
  BY InitRowIInv DEF SettledIInv, Settled, Init, NoJobRow, FailsOwnAttempt, FirstAttempt
<1>2. SettledIInv /\ [Next]_vars => SettledIInv'
  <2>1. SettledIInv /\ [Next]_vars => Settled'
    BY RunStepSettled, EndSettled, ReleaseSettled, QueueStepSettled, ApiSettled, ProcessSettled
       DEF Next, WorkerStep, RunStep
  <2> QED
    BY <2>1, StepRowIInv DEF SettledIInv
<1>3. SettledIInv => FirstAttemptsAtRest
  BY DEF SettledIInv, Settled, FirstAttemptsAtRest, Finishing, Held
<1> QED
  BY <1>1, <1>2, <1>3, PTL DEF Spec
=============================================================================
