------------------------------- MODULE Tables -------------------------------
(***************************************************************************)
(* The rows of the tables `jobs` and `videos` and the SQL statements that  *)
(* write them (migrations/001_init.sql, internal/database/queries/*.sql,   *)
(* called through internal/database/repo).  A statement is an operator     *)
(* from a row to the row it leaves.  The columns kept are those a guard or *)
(* a property reads; a video carries, with ON DELETE CASCADE, the rows of  *)
(* transcripts, chunks, summaries and video_segments that refer to it.     *)
(***************************************************************************)
EXTENDS Naturals

CONSTANT Workers   \* the goroutines of the worker pool (worker.go, concurrency)

JobStatus   == {"none", "pending", "processing", "completed", "failed"}
JobStage    == {"none", "queued", "downloading", "transcribing", "parsing",
                "chunking", "embedding", "completed"}
VideoStatus == {"none", "processing", "completed", "failed"}
Content     == {"none", "empty", "blank", "text"}
Summary     == {"none", "completed", "failed"}

(***************************************************************************)
(* uuid.NewString(): an id no other run of the pipeline uses.  A worker    *)
(* runs one attempt of a job at most once, so the pair is fresh.           *)
(***************************************************************************)
VideoID == (Workers \X Nat) \union {<<"none", 0>>}
NoID    == <<"none", 0>>

JobRow == [status   : JobStatus,
           stage    : JobStage,
           retries  : Nat,       \* retry_count
           finished : BOOLEAN]   \* finished_at IS NOT NULL

VideoRow == [id         : VideoID,
             status     : VideoStatus,
             deleted    : BOOLEAN,   \* deleted_at IS NOT NULL
             tagged     : BOOLEAN,   \* the job's segments are attached
             transcript : Content,   \* row of transcripts
             chunks     : BOOLEAN,   \* rows of chunks
             summary    : Summary]   \* row of summaries

\* No row.
NoJobRow == [status |-> "none", stage |-> "none", retries |-> 0, finished |-> FALSE]
NoVideo  == [id |-> NoID, status |-> "none", deleted |-> FALSE, tagged |-> FALSE,
             transcript |-> "none", chunks |-> FALSE, summary |-> "none"]

-----------------------------------------------------------------------------
(* jobs.sql *)

\* CreateJob: the insert made by the handler, status pending, stage queued.
InsertedJob == [status |-> "pending", stage |-> "queued", retries |-> 0, finished |-> FALSE]

\* Variant: the two arguments of UpdateStatus swapped.
WithStatusSwapped(row, status, stage) ==
  [row EXCEPT !.status = stage, !.stage = status,
              !.finished = @ \/ status \in {"completed", "failed"}]

\* UpdateJobStatus: unconditional on the present status.
WithStatus(row, status, stage) ==
  [row EXCEPT !.status = status, !.stage = stage,
              !.finished = @ \/ status \in {"completed", "failed"}]

\* RetryJob, for a row whose status is failed.
Requeued(row) ==
  [row EXCEPT !.status = "pending", !.stage = "queued",
              !.retries = @ + 1, !.finished = FALSE]

\* ClaimNextPendingJob, for the row its subquery selected.
Claimed(row) == [row EXCEPT !.status = "processing", !.stage = "downloading"]

-----------------------------------------------------------------------------
(* videos.sql, chunks.sql, transcripts.sql, summaries.sql, segments.sql *)

\* CreateVideo, as run() fills it.
InsertedVideo(id) == [NoVideo EXCEPT !.id = id, !.status = "processing"]

\* UpdateVideoStatus, for the row with the video's id.
WithVideoStatus(row, status) == [row EXCEPT !.status = status]

\* FailVideoByJobID: whatever row has the job's id, if any.
FailedByJobID(row) == IF row.status = "none" THEN row ELSE WithVideoStatus(row, "failed")

\* DeleteVideoByJobID, with ON DELETE CASCADE.
DeletedByJobID(row) == NoVideo

\* SoftDeleteVideo, for a row that has no deleted_at.
SoftDeleted(row) == [row EXCEPT !.deleted = TRUE]

\* AttachVideoSegment for each segment of the job.
WithSegments(row) == [row EXCEPT !.tagged = TRUE]

\* UpsertTranscript, InsertChunk for each chunk, UpsertSummary.
WithTranscript(row, content) == [row EXCEPT !.transcript = content]
WithChunks(row) == [row EXCEPT !.chunks = TRUE]
WithSummary(row, outcome) == [row EXCEPT !.summary = outcome]

\* Variant: SearchChunks without v.status = 'completed'.
SearchableInAnyStatus(row) == row.status # "none" /\ ~row.deleted

\* SearchChunks: the filter under which the chunks of a video reach an answer.
Searchable(row) == row.status = "completed" /\ ~row.deleted

\* Everything a run writes before it reports success.
HasMaterial(row) ==
  /\ row.status # "none"
  /\ row.tagged
  /\ row.transcript # "none"
  /\ row.transcript = "text" => row.chunks
=============================================================================
