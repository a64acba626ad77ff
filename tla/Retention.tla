------------------------------ MODULE Retention ------------------------------
(***************************************************************************)
(* The uploaded files in R2: clients upload them through presigned URLs,   *)
(* runs download them, the retention loop of the worker deletes those of   *)
(* old finalized jobs (internal/worker/retention.go) while an admin may    *)
(* retry one of these jobs.  Of a run only its status and its download are *)
(* kept; JobPipeline has the rest.                                         *)
(***************************************************************************)
EXTENDS Naturals

CONSTANTS
  Jobs,         \* the jobs, each with the file of its file_key
  Undeletable,  \* the files R2 refuses to delete
  MaxRetries    \* bound: retries an admin asks for, per job

ASSUME UndeletableAssumption == Undeletable \subseteq Jobs

INSTANCE Tables WITH Workers <- {}   \* the rows of jobs; no video is needed

VARIABLES
  jobs,      \* table jobs
  bucket,    \* the files in R2
  expired,   \* the files whose presigned URL has certainly expired
  old,       \* the jobs with finished_at <= now - retentionAge
  runs,      \* the jobs a worker is running
  fetched,   \* those of them that have their file on the worker's disk
  sweep      \* what runRetention has listed and not yet deleted

vars == <<jobs, bucket, expired, old, runs, fetched, sweep>>

TypeOK ==
  /\ jobs \in [Jobs -> JobRow]
  /\ bucket \in SUBSET Jobs /\ expired \in SUBSET Jobs
  /\ old \in SUBSET {k \in expired : jobs[k].finished}
  /\ runs \in SUBSET {k \in Jobs : jobs[k].status = "processing"}
  /\ fetched \in SUBSET runs
  /\ sweep \in SUBSET Jobs

Init ==
  /\ jobs = [k \in Jobs |-> NoJobRow]
  /\ bucket = {} /\ expired = {} /\ old = {} /\ runs = {} /\ fetched = {} /\ sweep = {}

-----------------------------------------------------------------------------
(* Clients, admins and the clock *)

\* PUT to the presigned URL; a client may repeat it, or come late.
Upload(k) ==
  /\ k \notin expired
  /\ bucket' = bucket \union {k}
  /\ UNCHANGED <<jobs, expired, old, runs, fetched, sweep>>

\* POST /jobs does not look whether the file is there.
CreateJob(k) ==
  /\ jobs[k].status = "none"
  /\ jobs' = [jobs EXCEPT ![k] = InsertedJob]
  /\ UNCHANGED <<bucket, expired, old, runs, fetched, sweep>>

RetryJob(k) ==
  /\ jobs[k].status = "failed" /\ jobs[k].retries < MaxRetries
  /\ jobs' = [jobs EXCEPT ![k] = Requeued(@)]
  /\ old' = old \ {k}
  /\ UNCHANGED <<bucket, expired, runs, fetched, sweep>>

(***************************************************************************)
(* retentionAge after its end.  The presigned URL, which lives minutes,    *)
(* has expired by then; no step can tell whether it did so before.         *)
(***************************************************************************)
GrowOld(k) ==
  /\ jobs[k].finished
  /\ old' = old \union {k} /\ expired' = expired \union {k}
  /\ UNCHANGED <<jobs, bucket, runs, fetched, sweep>>

-----------------------------------------------------------------------------
(* Runs *)

Claim(k) ==
  /\ jobs[k].status = "pending"
  /\ jobs' = [jobs EXCEPT ![k] = Claimed(@)]
  /\ runs' = runs \union {k}
  /\ UNCHANGED <<bucket, expired, old, fetched, sweep>>

\* extractTranscript: storage.Download, before anything is read of the file.
Download(k) ==
  /\ k \in runs \ fetched
  /\ k \in bucket
  /\ fetched' = fetched \union {k}
  /\ UNCHANGED <<jobs, bucket, expired, old, runs, sweep>>

\* Variant: the file on disk is not removed.
FinishKeepsFile(k, status) ==
  /\ k \in runs
  /\ status = "completed" => k \in fetched
  /\ jobs' = [jobs EXCEPT ![k] = WithStatus(@, status, IF status = "completed"
                                                       THEN status ELSE @.stage)]
  /\ runs' = runs \ {k}
  /\ UNCHANGED <<bucket, expired, old, fetched, sweep>>

\* A run ends; without its file it can only fail.
Finish(k, status) ==
  /\ k \in runs
  /\ status = "completed" => k \in fetched
  /\ jobs' = [jobs EXCEPT ![k] = WithStatus(@, status, IF status = "completed"
                                                       THEN status ELSE @.stage)]
  /\ runs' = runs \ {k}
  /\ fetched' = fetched \ {k}
  /\ UNCHANGED <<bucket, expired, old, sweep>>

-----------------------------------------------------------------------------
(* The retention loop *)

\* Variant: ListJobsForRetention without the condition on finished_at.
FinalizedAtAnyAge == {k \in Jobs : jobs[k].status \in {"completed", "failed"}}

\* ListJobsForRetention.
DueForRetention == {k \in old : jobs[k].status \in {"completed", "failed"}}

\* The ticker fires (or the loop starts) and runRetention lists.
ListForRetention ==
  /\ sweep = {}
  /\ sweep' = DueForRetention
  /\ UNCHANGED <<jobs, bucket, expired, old, runs, fetched>>

\* Variant: the loop returns at the first error.
DeleteOrReturn(k) ==
  /\ k \in sweep
  /\ sweep' = IF k \in Undeletable THEN {} ELSE sweep \ {k}
  /\ bucket' = IF k \in Undeletable THEN bucket ELSE bucket \ {k}
  /\ UNCHANGED <<jobs, expired, old, runs, fetched>>

(***************************************************************************)
(* One turn of the loop over the list: Delete succeeds also when the file  *)
(* is gone; after an error the loop continues.  The list is in the order   *)
(* of finished_at, here in any.                                            *)
(***************************************************************************)
DeleteNext(k) ==
  /\ k \in sweep
  /\ sweep' = sweep \ {k}
  /\ bucket' = IF k \in Undeletable THEN bucket ELSE bucket \ {k}
  /\ UNCHANGED <<jobs, expired, old, runs, fetched>>

\* The worker process stops or dies: nothing goes on with its runs or its list.
Halt ==
  /\ runs' = {} /\ fetched' = {} /\ sweep' = {}
  /\ UNCHANGED <<jobs, bucket, expired, old>>

RetentionLoop == ListForRetention \/ \E k \in Jobs : DeleteNext(k)

Next ==
  \/ RetentionLoop
  \/ Halt
  \/ \E k \in Jobs :
       \/ Upload(k) \/ CreateJob(k) \/ RetryJob(k) \/ GrowOld(k)
       \/ Claim(k) \/ Download(k)
       \/ \E status \in {"completed", "failed"} : Finish(k, status)

Spec == Init /\ [][Next]_vars

-----------------------------------------------------------------------------
(* Properties *)

(***************************************************************************)
(* A file is deleted only when its job's end is old, or when an admin has  *)
(* retried the job: a first attempt never loses its file, however late     *)
(* the deletion follows the listing.                                       *)
(***************************************************************************)
OnlyRetriesLoseTheirFile ==
  [][\A k \in bucket \ bucket' :
       (jobs[k].status \in {"completed", "failed"} /\ k \in old) \/ jobs[k].retries > 0]_vars

(***************************************************************************)
(* "runRetention deletes the R2 source files of finalized jobs older than  *)
(* the retention age" (retention.go:34): of no others.                     *)
(***************************************************************************)
DeletesOnlyFinalized ==
  [][\A k \in bucket \ bucket' : k \in DueForRetention]_vars
=============================================================================
