---------------------------- MODULE JobPipeline ----------------------------
(***************************************************************************)
(* The life of a job: the admin API creates, retries and deletes           *)
(* (internal/httpapi/handlers), the worker process claims, runs and fails  *)
(* (internal/worker).  Every database transaction is one step, so two      *)
(* goroutines, the API and a shutdown or a crash interleave between any    *)
(* two transactions of a run.                                              *)
(***************************************************************************)
EXTENDS Tables

CONSTANTS
  Jobs,        \* the upload intents a job can be created from, by created_at
  PDFs,        \* those whose content type makes the job a pdf
  MaxRetries,  \* bound: retries an admin asks for, per job
  Faults,      \* the faults the environment may show, see FaultKinds
  TakesEmptyID \* whether the TranscriptRepository stores a transcript with no id

\* "provider": R2, Groq, LlamaParse, Cloudflare or DeepSeek returns an error,
\*             or the downloaded file is refused by validateMediaFile
\* "db":       a transaction is rolled back and its caller gets an error
\* "unacked":  a transaction commits and its caller gets an error
\* "stop":     SIGTERM reaches the worker process
\* "overrun":  a job is still in flight shutdownGrace after SIGTERM
\* "crash":    the worker process dies
\* "stall":    a call with no deadline of its own, Download of R2 (r2.go:85) or a
\*             statement (db.go:14), does not return while its ctx is alive
FaultKinds == {"provider", "db", "unacked", "stop", "overrun", "crash", "stall"}

(***************************************************************************)
(* run never sets Transcript.ID (processor.go:187 and 210, groq.go:125).   *)
(* TakesEmptyID is TRUE for the repository the worker's tests put behind   *)
(* the port (fakes_test.go), and for run with the uuid.NewString() that    *)
(* its other inserts have; it is FALSE for repo/transcripts.go as it is,   *)
(* which hands "" to the uuid column transcripts.id.                       *)
(***************************************************************************)
ASSUME TakesEmptyIDAssumption == TakesEmptyID \in BOOLEAN
ASSUME JobsAssumption == Jobs \subseteq Nat \ {0}
ASSUME FaultsAssumption == Faults \subseteq FaultKinds

NoJob == 0

VARIABLES
  jobs,     \* table jobs
  videos,   \* table videos, by job_id (UNIQUE)
  pc,       \* where each worker goroutine is
  cur,      \* the job it holds
  vid,      \* run's video.ID
  stg,      \* run's job.Stage, in memory
  text,     \* run's transcript, in memory
  proc      \* the worker process: "up", "draining" after SIGTERM,
            \* "cancelled" once jobCancel was called, "down"

vars   == <<jobs, videos, pc, cur, vid, stg, text, proc>>
tables == <<jobs, videos>>
memory == <<vid, stg, text>>

Labels == {"idle", "claim", "commit", "load", "cleanup", "create", "segments",
           "downloading", "extracting", "transcript", "chunking", "embedding",
           "insert", "complete", "publish", "summary", "failJob", "failVideo"}

TypeOK ==
  /\ jobs \in [Jobs -> JobRow]
  /\ videos \in [Jobs -> VideoRow]
  /\ pc \in [Workers -> Labels]
  /\ cur \in [Workers -> Jobs \union {NoJob}]
  /\ vid \in [Workers -> VideoID]
  /\ stg \in [Workers -> JobStage]
  /\ text \in [Workers -> Content]
  /\ proc \in {"up", "draining", "cancelled", "down"}

Init ==
  /\ jobs = [j \in Jobs |-> NoJobRow]
  /\ videos = [j \in Jobs |-> NoVideo]
  /\ pc = [w \in Workers |-> "idle"]
  /\ cur = [w \in Workers |-> NoJob]
  /\ vid = [w \in Workers |-> NoID]
  /\ stg = [w \in Workers |-> "none"]
  /\ text = [w \in Workers |-> "none"]
  /\ proc = "up"

-----------------------------------------------------------------------------
(* The admin API *)

\* POST /jobs: one transaction inserts the job of an issued intent.
CreateJob(j) ==
  /\ jobs[j].status = "none"
  /\ jobs' = [jobs EXCEPT ![j] = InsertedJob]
  /\ UNCHANGED <<videos, pc, cur, memory, proc>>

\* Variant: RetryJob without AND status = 'failed'.
RetryInAnyStatus(j) ==
  /\ jobs[j].status # "none"
  /\ jobs[j].retries < MaxRetries
  /\ jobs' = [jobs EXCEPT ![j] = Requeued(@)]
  /\ UNCHANGED <<videos, pc, cur, memory, proc>>

\* POST /jobs/:id/retry: the conditional UPDATE decides, whatever the read
\* before it saw.
RetryJob(j) ==
  /\ jobs[j].status = "failed"
  /\ jobs[j].retries < MaxRetries
  /\ jobs' = [jobs EXCEPT ![j] = Requeued(@)]
  /\ UNCHANGED <<videos, pc, cur, memory, proc>>

\* DELETE /videos/:id: soft delete.
DeleteVideo(j) ==
  /\ videos[j].status # "none"
  /\ ~videos[j].deleted
  /\ videos' = [videos EXCEPT ![j] = SoftDeleted(@)]
  /\ UNCHANGED <<jobs, pc, cur, memory, proc>>

-----------------------------------------------------------------------------
(* workerLoop: wake, claim until the queue is empty, process *)

Goto(w, label) == pc' = [pc EXCEPT ![w] = label]

\* The wake channel delivers; it may also do so when nothing is pending.
Wake(w) ==
  /\ proc = "up" /\ pc[w] = "idle"
  /\ Goto(w, "claim")
  /\ UNCHANGED <<tables, cur, memory, proc>>

Pending == {j \in Jobs : jobs[j].status = "pending"}

\* Variant: the subquery without FOR UPDATE SKIP LOCKED.
ClaimableUnlocked == Pending

\* FOR UPDATE SKIP LOCKED: the rows no other claim in progress has selected.
Claimable == {j \in Pending : \A v \in Workers : ~(pc[v] = "commit" /\ cur[v] = j)}

\* The subquery of ClaimNextPendingJob: the oldest row it may lock.
SelectPending(w, j) ==
  /\ proc = "up" /\ pc[w] = "claim"
  /\ j \in Claimable
  /\ \A k \in Claimable : j <= k
  /\ Goto(w, "commit")
  /\ cur' = [cur EXCEPT ![w] = j]
  /\ UNCHANGED <<tables, memory, proc>>

\* Variant: an error of the claim is retried without looking at ctx.
StopClaimingOnEmpty(w) ==
  /\ pc[w] = "claim"
  /\ proc # "up" \/ Claimable = {}
  /\ Goto(w, IF proc = "up" THEN "idle" ELSE "claim")
  /\ UNCHANGED <<tables, cur, memory, proc>>

\* No row: stop draining.  A claim on the cancelled ctx: return.
StopClaiming(w) ==
  /\ pc[w] = "claim"
  /\ proc # "up" \/ Claimable = {}
  /\ Goto(w, "idle")
  /\ UNCHANGED <<tables, cur, memory, proc>>

\* An error: sleep and claim again, or return when ctx is done.
Resume == IF proc = "up" THEN "claim" ELSE "idle"

(***************************************************************************)
(* The UPDATE commits by itself and returns the row.  Its caller may get   *)
(* an error all the same: the acknowledgement is lost, or SIGTERM cancels  *)
(* the ctx of the statement that is under way.                             *)
(***************************************************************************)
ClaimNextPending(w) ==
  /\ pc[w] = "commit"
  /\ \/ /\ jobs' = [jobs EXCEPT ![cur[w]] = Claimed(@)]
        /\ \/ proc = "up" /\ Goto(w, "load") /\ UNCHANGED cur
           \/ /\ proc # "up" \/ "unacked" \in Faults
              /\ Goto(w, Resume)
              /\ cur' = [cur EXCEPT ![w] = NoJob]
     \/ /\ proc # "up" \/ "db" \in Faults
        /\ Goto(w, Resume)
        /\ cur' = [cur EXCEPT ![w] = NoJob]
        /\ UNCHANGED jobs
  /\ UNCHANGED <<videos, memory, proc>>

\* ProcessJob is over: claim again, or return when ctx is done.
Release(w) ==
  /\ Goto(w, Resume)
  /\ cur' = [cur EXCEPT ![w] = NoJob]
  /\ vid' = [vid EXCEPT ![w] = NoID]
  /\ stg' = [stg EXCEPT ![w] = "none"]
  /\ text' = [text EXCEPT ![w] = "none"]

\* jobCtx is alive until jobCancel is called; after it every call on it fails.
JobCtxAlive == proc \in {"up", "draining"}
DbRejects   == ~JobCtxAlive \/ "db" \in Faults

\* GetByIDAllTenants; when it fails the job stays as it was claimed.
LoadJob(w) ==
  /\ pc[w] = "load"
  /\ \/ /\ JobCtxAlive
        /\ Goto(w, "cleanup")
        /\ stg' = [stg EXCEPT ![w] = jobs[cur[w]].stage]
        /\ UNCHANGED <<cur, vid, text>>
     \/ /\ DbRejects
        /\ Release(w)
  /\ UNCHANGED <<tables, proc>>

-----------------------------------------------------------------------------
(* run: each step is a transaction, with the provider call that precedes it *)

(***************************************************************************)
(* Worker w commits a transaction that leaves newJobs and newVideos, and   *)
(* goes on to next; or the commit is not acknowledged, or the transaction  *)
(* (or the provider call before it) fails, and run returns an error.  The  *)
(* transaction itself is refused when its constraint does not hold.        *)
(***************************************************************************)
Transaction(w, constraint, newJobs, newVideos, next, calls) ==
  \/ /\ JobCtxAlive /\ constraint
     /\ jobs' = newJobs /\ videos' = newVideos
     /\ \/ Goto(w, next)
        \/ "unacked" \in Faults /\ Goto(w, "failJob")
  \/ /\ DbRejects \/ ~constraint \/ (calls /\ "provider" \in Faults)
     /\ Goto(w, "failJob")
     /\ UNCHANGED tables

\* The foreign key of a row written for run's video, or its WHERE id = $1.
HasRow(w) == videos[cur[w]].status # "none" /\ videos[cur[w]].id = vid[w]

\* Variant: the error of DeleteByJobID is logged, and run goes on.
CleanupBestEffort(w) ==
  /\ pc[w] = "cleanup"
  /\ \/ JobCtxAlive /\ videos' = [videos EXCEPT ![cur[w]] = DeletedByJobID(@)]
     \/ DbRejects /\ UNCHANGED videos
  /\ Goto(w, "create")
  /\ UNCHANGED <<jobs, cur, memory, proc>>

Cleanup(w) ==
  /\ pc[w] = "cleanup"
  /\ Transaction(w, TRUE, jobs, [videos EXCEPT ![cur[w]] = DeletedByJobID(@)], "create", FALSE)
  /\ UNCHANGED <<cur, memory, proc>>

CreateVideo(w) ==
  LET id == <<w, jobs[cur[w]].retries>> IN
  /\ pc[w] = "create"
  /\ Transaction(w, videos[cur[w]].status = "none", jobs,
                 [videos EXCEPT ![cur[w]] = InsertedVideo(id)], "segments", FALSE)
  /\ vid' = [vid EXCEPT ![w] = id]
  /\ UNCHANGED <<cur, stg, text, proc>>

\* Variant: the error of copyJobSegments is logged, and run goes on.
SegmentsBestEffort(w) ==
  /\ pc[w] = "segments"
  /\ \/ /\ JobCtxAlive /\ HasRow(w)
        /\ videos' = [videos EXCEPT ![cur[w]] = WithSegments(@)]
     \/ DbRejects /\ UNCHANGED videos
  /\ Goto(w, "downloading")
  /\ UNCHANGED <<jobs, cur, memory, proc>>

\* ListNamesByJobID, then EnsureByName and AttachVideoSegments, are several
\* transactions (processor.go:220-235), one step here: tagged says that all the
\* segments are attached, and a video with only some of them is not tagged.
CopyJobSegments(w) ==
  /\ pc[w] = "segments"
  /\ Transaction(w, HasRow(w), jobs, [videos EXCEPT ![cur[w]] = WithSegments(@)],
                 "downloading", FALSE)
  /\ UNCHANGED <<cur, memory, proc>>

\* setStage: the row first, job.Stage only once that is acknowledged.
SetStage(w, stage, next, calls) ==
  /\ Transaction(w, TRUE, [jobs EXCEPT ![cur[w]] = WithStatus(@, "processing", stage)],
                 videos, next, calls)
  /\ stg' = [stg EXCEPT ![w] = IF pc'[w] = next THEN stage ELSE @]
  /\ UNCHANGED <<cur, vid, text, proc>>

StageDownloading(w) ==
  pc[w] = "downloading" /\ SetStage(w, "downloading", "extracting", FALSE)

\* After Download and validateMediaFile.
StageExtracting(w) ==
  /\ pc[w] = "extracting"
  /\ SetStage(w, IF cur[w] \in PDFs THEN "parsing" ELSE "transcribing", "transcript", TRUE)

\* What a provider may find: Groq's client refuses an empty answer, LlamaParse's
\* does not.  A blank text has no sentence, so no chunk, but it is summarised.
Extracted(j) == IF j \in PDFs THEN {"empty", "blank", "text"} ELSE {"blank", "text"}

\* Variant: the transcript is saved on the way, its error ignored.
TranscriptBestEffort(w) ==
  /\ pc[w] = "transcript"
  /\ \E found \in Extracted(cur[w]) :
       /\ \/ JobCtxAlive /\ HasRow(w) /\ videos' = [videos EXCEPT ![cur[w]] = WithTranscript(@, found)]
          \/ DbRejects /\ UNCHANGED videos
       /\ text' = [text EXCEPT ![w] = found]
  /\ Goto(w, "chunking")
  /\ UNCHANGED <<jobs, cur, vid, stg, proc>>

\* After Transcribe or Parse.
SaveTranscript(w) ==
  /\ pc[w] = "transcript"
  /\ \E found \in Extracted(cur[w]) :
       /\ Transaction(w, HasRow(w) /\ TakesEmptyID, jobs,
                      [videos EXCEPT ![cur[w]] = WithTranscript(@, found)], "chunking", TRUE)
       /\ text' = [text EXCEPT ![w] = found]
  /\ UNCHANGED <<cur, vid, stg, proc>>

StageChunking(w) == pc[w] = "chunking" /\ SetStage(w, "chunking", "embedding", FALSE)

StageEmbedding(w) == pc[w] = "embedding" /\ SetStage(w, "embedding", "insert", FALSE)

\* Variant: run goes on when the chunks could not be inserted.
ChunksBestEffort(w) ==
  /\ pc[w] = "insert"
  /\ \/ JobCtxAlive /\ text[w] = "text" /\ videos' = [videos EXCEPT ![cur[w]] = WithChunks(@)]
     \/ (text[w] # "text" \/ DbRejects) /\ UNCHANGED videos
  /\ Goto(w, "complete")
  /\ UNCHANGED <<jobs, cur, memory, proc>>

\* After embedSections; without sections there is nothing to embed or insert.
InsertChunks(w) ==
  /\ pc[w] = "insert"
  /\ \/ /\ text[w] = "text"
        /\ Transaction(w, HasRow(w), jobs, [videos EXCEPT ![cur[w]] = WithChunks(@)],
                       "complete", TRUE)
     \/ /\ text[w] # "text"
        /\ Goto(w, "complete")
        /\ UNCHANGED tables
  /\ UNCHANGED <<cur, memory, proc>>

CompleteJob(w) ==
  /\ pc[w] = "complete"
  /\ Transaction(w, TRUE, [jobs EXCEPT ![cur[w]] = WithStatus(@, "completed", "completed")],
                 videos, "publish", FALSE)
  /\ UNCHANGED <<cur, memory, proc>>

CompleteVideo(w) ==
  /\ pc[w] = "publish"
  /\ Transaction(w, HasRow(w), jobs, [videos EXCEPT ![cur[w]] = WithVideoStatus(@, "completed")],
                 "summary", FALSE)
  /\ UNCHANGED <<cur, memory, proc>>

\* Variant: run returns the error of the summary like that of any other step.
SummaryFailsJob(w) ==
  /\ pc[w] = "summary"
  /\ \/ /\ HasRow(w) /\ JobCtxAlive
        /\ videos' = [videos EXCEPT ![cur[w]] = WithSummary(@, "completed")]
        /\ Release(w)
     \/ Goto(w, "failJob") /\ UNCHANGED <<videos, cur, memory>>
  /\ UNCHANGED <<jobs, proc>>

\* generateSummary: its errors, the upsert's included, never leave it.
GenerateSummary(w) ==
  /\ pc[w] = "summary"
  /\ \/ /\ text[w] # "empty" /\ HasRow(w) /\ JobCtxAlive
        /\ \E outcome \in {"completed", "failed"} :
             /\ outcome = "failed" => "provider" \in Faults
             /\ videos' = [videos EXCEPT ![cur[w]] = WithSummary(@, outcome)]
     \/ /\ text[w] = "empty" \/ DbRejects \/ ~HasRow(w)
        /\ UNCHANGED videos
  /\ Release(w)
  /\ UNCHANGED <<jobs, proc>>

-----------------------------------------------------------------------------
(* fail: two transactions, and the error of the first does not stop the second *)

\* Variant: fail() marks the video only.
JobNotFailed(w) ==
  /\ pc[w] = "failJob"
  /\ Goto(w, "failVideo")
  /\ UNCHANGED <<tables, cur, memory, proc>>

FailJob(w) ==
  /\ pc[w] = "failJob"
  /\ \/ JobCtxAlive /\ jobs' = [jobs EXCEPT ![cur[w]] = WithStatus(@, "failed", stg[w])]
     \/ DbRejects /\ UNCHANGED jobs
  /\ Goto(w, "failVideo")
  /\ UNCHANGED <<videos, cur, memory, proc>>

\* FailByJobID: whichever video the job has by now.
FailVideo(w) ==
  /\ pc[w] = "failVideo"
  /\ \/ /\ JobCtxAlive
        /\ videos' = [videos EXCEPT ![cur[w]] = FailedByJobID(@)]
     \/ DbRejects /\ UNCHANGED videos
  /\ Release(w)
  /\ UNCHANGED <<jobs, proc>>

-----------------------------------------------------------------------------
(* Run: shutdown, and the service manager's restart *)

Sigterm ==
  /\ "stop" \in Faults
  /\ proc = "up" /\ proc' = "draining"
  /\ UNCHANGED <<tables, pc, cur, memory>>

\* time.After(shutdownGrace): jobCancel, while a job is in flight.
GraceExceeded ==
  /\ "overrun" \in Faults
  /\ proc = "draining"
  /\ \E w \in Workers : cur[w] # NoJob
  /\ proc' = "cancelled"
  /\ UNCHANGED <<tables, pc, cur, memory>>

\* wg.Wait returned.
Stopped ==
  /\ proc \in {"draining", "cancelled"}
  /\ \A w \in Workers : pc[w] = "idle"
  /\ proc' = "down"
  /\ UNCHANGED <<tables, pc, cur, memory>>

Crash ==
  /\ "crash" \in Faults
  /\ proc # "down" /\ proc' = "down"
  /\ pc' = [w \in Workers |-> "idle"]
  /\ cur' = [w \in Workers |-> NoJob]
  /\ vid' = [w \in Workers |-> NoID]
  /\ stg' = [w \in Workers |-> "none"]
  /\ text' = [w \in Workers |-> "none"]
  /\ UNCHANGED tables

Start ==
  /\ proc = "down" /\ proc' = "up"
  /\ UNCHANGED <<tables, pc, cur, memory>>

-----------------------------------------------------------------------------
Api(j) == CreateJob(j) \/ RetryJob(j) \/ DeleteVideo(j)

RunStep(w) ==
  \/ LoadJob(w) \/ Cleanup(w) \/ CreateVideo(w) \/ CopyJobSegments(w)
  \/ StageDownloading(w) \/ StageExtracting(w) \/ SaveTranscript(w)
  \/ StageChunking(w) \/ StageEmbedding(w) \/ InsertChunks(w)
  \/ CompleteJob(w) \/ CompleteVideo(w) \/ GenerateSummary(w)
  \/ FailJob(w) \/ FailVideo(w)

WorkerStep(w) ==
  \/ \E j \in Jobs : SelectPending(w, j)
  \/ StopClaiming(w)
  \/ ClaimNextPending(w)
  \/ RunStep(w)

Process == Sigterm \/ GraceExceeded \/ Stopped \/ Crash \/ Start

Next ==
  \/ \E j \in Jobs : Api(j)
  \/ \E w \in Workers : Wake(w) \/ WorkerStep(w)
  \/ Process

Spec == Init /\ [][Next]_vars

(* A call that may stall: the ctx of a claim is done at SIGTERM, jobCtx, which *)
(* has no deadline, at jobCancel only.                                         *)
MayStall(w) ==
  /\ "stall" \in Faults
  /\ IF pc[w] \in {"claim", "commit"} THEN proc = "up" ELSE JobCtxAlive

(***************************************************************************)
(* The Go scheduler runs every goroutine whose call returns, the ticker    *)
(* wakes the pool again and again, the grace period ends.  Nothing obliges *)
(* an admin, a fault, a signal, R2 or Postgres to answer, or the service   *)
(* manager, which restarts the process on failure only.                    *)
(***************************************************************************)
Fairness ==
  /\ \A w \in Workers : WF_vars(WorkerStep(w) /\ ~MayStall(w))
  /\ WF_vars(\E w \in Workers : Wake(w))
  /\ WF_vars(GraceExceeded)
  /\ WF_vars(Stopped)

FairSpec == Spec /\ Fairness

-----------------------------------------------------------------------------
(* Properties *)

\* Where a worker is inside run, or about to record run's failure.
Owning == Labels \ {"idle", "claim", "commit", "failVideo"}

(***************************************************************************)
(* A job is run by at most one worker at a time, through claims, retries,  *)
(* lost acknowledgements, restarts and failing transactions: two runs      *)
(* would delete each other's video.  (A worker left at FailByJobID of an   *)
(* earlier attempt is not running the job; see CompletedAtRest.)           *)
(***************************************************************************)
SingleRunner ==
  \A v, w \in Workers :
    v # w /\ pc[v] \in Owning /\ pc[w] \in Owning => cur[v] # cur[w]

\* Where a run writes rows that refer to its video, or looks it up by its id.
Writing == {"segments", "downloading", "extracting", "transcript", "chunking",
            "embedding", "insert", "complete", "publish", "summary"}

(***************************************************************************)
(* No constraint of the tables ever refuses a run: where it creates its    *)
(* video the job has none, and from there to its summary the job's video   *)
(* is the one it created.  Whatever fails, is lost or is retried, no other *)
(* run comes between DeleteByJobID and Create, which are two transactions, *)
(* and no fail() of an earlier attempt takes the row away.                 *)
(***************************************************************************)
NoRunIsRefused ==
  \A w \in Workers :
    /\ pc[w] = "create" => videos[cur[w]].status = "none"
    /\ pc[w] \in Writing => HasRow(w)

(***************************************************************************)
(* SearchChunks never serves half a material: a video it may serve has its *)
(* segments, its transcript and all its chunks, whichever attempt failed   *)
(* or was interrupted before.                                              *)
(***************************************************************************)
SearchableIsComplete ==
  \A j \in Jobs : Searchable(videos[j]) => HasMaterial(videos[j])

(***************************************************************************)
(* A job reported completed has a video with everything a run persists;    *)
(* no later cleanup, retry or worker takes it away.                        *)
(***************************************************************************)
CompletedHasMaterial ==
  \A j \in Jobs : jobs[j].status = "completed" => HasMaterial(videos[j])

(***************************************************************************)
(* The stage the API shows tells the truth: from chunking on, the job's    *)
(* present video has its transcript, also after fail() wrote the stage it  *)
(* holds in memory, and after a retry started over.                        *)
(***************************************************************************)
LateStage == {"chunking", "embedding", "completed"}

StageMeansPersisted ==
  \A j \in Jobs : jobs[j].stage \in LateStage => videos[j].transcript # "none"

(***************************************************************************)
(* While a job is processing, its stage only advances: no second run and   *)
(* no stale setStage sets it back.                                         *)
(***************************************************************************)
StageOrder ==
  [none |-> 0, queued |-> 1, downloading |-> 2, transcribing |-> 3, parsing |-> 3,
   chunking |-> 4, embedding |-> 5, completed |-> 6]

StageOnlyAdvances ==
  [][\A j \in Jobs :
       jobs[j].status = "processing" /\ jobs'[j].status = "processing"
         => StageOrder[jobs[j].stage] <= StageOrder[jobs'[j].stage]]_vars

Held(j) == \E w \in Workers : cur[w] = j

(***************************************************************************)
(* A job that is processing is held by a worker.  Only a pending job is    *)
(* claimed and only a failed one may be retried, so a processing job that  *)
(* nobody holds stays processing for ever.                                 *)
(***************************************************************************)
NoStrandedJob == \A j \in Jobs : jobs[j].status = "processing" => Held(j)

(***************************************************************************)
(* A job reported completed, which no worker runs any more, has a video    *)
(* that is completed too (LLD_PLAN.md:746, step 15 of ProcessJob).         *)
(***************************************************************************)
CompletedAtRest ==
  \A j \in Jobs :
    jobs[j].status = "completed" /\ ~Held(j) => videos[j].status = "completed"

\* What the code leaves to R2 and Postgres: each call returns, late or failed.
CallsReturn == \A w \in Workers : WF_vars(WorkerStep(w))

(***************************************************************************)
(* Every job that is queued or running ends, completed or failed, while no *)
(* database error, signal or crash interferes and R2 and Postgres answer:  *)
(* the drain loop leaves no pending job behind, no goroutine waits for     *)
(* another, fail() frees a job that cannot succeed.                        *)
(***************************************************************************)
EveryJobFinishes ==
  CallsReturn /\ [](proc = "up") =>
    \A j \in Jobs :
      jobs[j].status \in {"pending", "processing"}
        ~> jobs[j].status \in {"completed", "failed"}

(***************************************************************************)
(* A process told to stop does stop, whether its runs finish, fail, stall  *)
(* or are cancelled, and however many jobs are still pending: the grace    *)
(* period's jobCancel ends what has no deadline (worker.go:203).           *)
(***************************************************************************)
ShutdownTerminates == proc = "draining" ~> proc = "down"

(***************************************************************************)
(* A completed job stays completed: "setelah job mencapai status final"    *)
(* (PRD.md:170).  No summary that fails takes it back (LLD_PLAN.md:10), no *)
(* other run, and not the cancellation of the video's update.  A database  *)
(* error there does, for fail() writes over the job (processor.go:146),    *)
(* although "Jika terjadi error sebelum step 15" (LLD_PLAN.md:752) has     *)
(* only steps before the completion fail it.                               *)
(***************************************************************************)
CompletedIsFinal ==
  [][\A j \in Jobs : jobs[j].status = "completed" => jobs'[j].status = "completed"]_vars

(***************************************************************************)
(* "On failure the job and its video are marked failed" (processor.go:73): *)
(* when the second half of fail() is over its job is not processing any    *)
(* more, unless a retry gave it to another worker.                         *)
(***************************************************************************)
FailureIsRecorded ==
  [][\A w \in Workers :
       pc[w] = "failVideo" /\ pc'[w] # "failVideo" /\ proc' # "down"
         => \/ jobs'[cur[w]].status # "processing"
            \/ \E v \in Workers \ {w} : cur[v] = cur[w]]_vars

(***************************************************************************)
(* The pipeline gives no job a reason to fail: while every call and every  *)
(* statement that may succeed does, no job fails, however the workers, the *)
(* API, a clean stop and crashes interleave.  No run loses its video to    *)
(* another one, or is refused a row by a constraint (LLD_PLAN.md, steps 1  *)
(* to 16 of ProcessJob).                                                   *)
(***************************************************************************)
NoSelfInflictedFailure ==
  Faults \subseteq {"stop", "crash"} => \A j \in Jobs : jobs[j].status # "failed"

(***************************************************************************)
(* What the pipeline keeps of it as deployed: while the providers and the  *)
(* database do what they are asked, a job fails at its transcript or not   *)
(* at all, and there only because the repository refuses it.  No worker,   *)
(* retry, restart or cancelled run of before takes the video from a run,   *)
(* and a cancelled run marks nothing failed.                               *)
(***************************************************************************)
TranscriptStages == {"transcribing", "parsing"}

OnlyTheTranscriptFails ==
  Faults \cap {"provider", "db", "unacked"} = {} =>
    \A j \in Jobs :
      jobs[j].status = "failed" => ~TakesEmptyID /\ jobs[j].stage \in TranscriptStages

(***************************************************************************)
(* What an API client relies on, see MaterialService.                      *)
(***************************************************************************)
Service ==
  INSTANCE MaterialService
    WITH status <- [j \in Jobs |-> jobs[j].status],
         searchable <- {j \in Jobs : Searchable(videos[j])},
         LostAcks <- "unacked" \in Faults

ServiceSpec == Service!Spec
=============================================================================
