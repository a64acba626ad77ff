-------------------------- MODULE WorkerLoopsProofs --------------------------
(***************************************************************************)
(* First the invariant of the retention loop and what follows from it, for *)
(* any set of jobs, any number of retries and whatever R2 refuses to       *)
(* delete.  Then the loops: no wake is lost, for any number of jobs and    *)
(* workers and any capacity of the channel, and they do to the rows and    *)
(* the files what Retention allows, so that its theorems hold of them.     *)
(***************************************************************************)
EXTENDS WorkerLoops, TLAPS

(* Retention *)

Final(k) == jobs[k].status \in {"completed", "failed"} /\ k \in old

(***************************************************************************)
(* What is still to be deleted was due when it was listed; only a retry    *)
(* can have changed that since, because nothing else touches a finalized   *)
(* job, and a retry leaves its mark in retry_count.                        *)
(***************************************************************************)
ListedIsDue == \A k \in sweep : Final(k) \/ jobs[k].retries > 0

\* finished_at is set while, and only while, a job is finalized.
FinishedIsFinal ==
  \A k \in Jobs : /\ jobs[k].finished <=> jobs[k].status \in {"completed", "failed"}
                  /\ jobs[k].status = "none" => jobs[k].retries = 0

IInv == TypeOK /\ FinishedIsFinal /\ ListedIsDue

-----------------------------------------------------------------------------
(* What the statements of jobs.sql make of a row. *)

LEMMA InsertFacts ==
  /\ NoJobRow \in JobRow /\ InsertedJob \in JobRow
  /\ NoJobRow.status = "none" /\ NoJobRow.retries = 0 /\ ~NoJobRow.finished
  /\ InsertedJob.status = "pending" /\ ~InsertedJob.finished
  BY DEF JobRow, JobStatus, JobStage, InsertedJob, NoJobRow

LEMMA RequeueFacts ==
  ASSUME NEW row \in JobRow
  PROVE  /\ Requeued(row) \in JobRow
         /\ Requeued(row).status = "pending" /\ ~Requeued(row).finished
         /\ Requeued(row).retries > 0
  <1>1. row.retries \in Nat /\ row.retries + 1 \in Nat /\ row.retries + 1 > 0
    BY DEF JobRow
  <1>2. QED
    BY <1>1 DEF JobRow, JobStatus, JobStage, Requeued

LEMMA ClaimFacts ==
  ASSUME NEW row \in JobRow
  PROVE  /\ Claimed(row) \in JobRow
         /\ Claimed(row).status = "processing"
         /\ Claimed(row).finished = row.finished /\ Claimed(row).retries = row.retries
  BY DEF JobRow, JobStatus, JobStage, Claimed

LEMMA StatusFacts ==
  ASSUME NEW row \in JobRow, NEW status \in {"completed", "failed"}, NEW stage \in JobStage
  PROVE  /\ WithStatus(row, status, stage) \in JobRow
         /\ WithStatus(row, status, stage).status = status
         /\ WithStatus(row, status, stage).finished
         /\ WithStatus(row, status, stage).retries = row.retries
  <1>1. WithStatus(row, status, stage)
          = [row EXCEPT !.status = status, !.stage = stage, !.finished = TRUE]
    BY DEF WithStatus
  <1>2. QED
    BY <1>1 DEF JobRow, JobStatus

-----------------------------------------------------------------------------

LEMMA InitInvariant == Init => IInv
  BY InsertFacts DEF Init, IInv, TypeOK, FinishedIsFinal, ListedIsDue

(***************************************************************************)
(* A statement that turns a row that is not finalized and not new into     *)
(* another of the same retry count, or of a higher one.                    *)
(***************************************************************************)
LEMMA RowStep ==
  ASSUME IInv, NEW k \in Jobs, NEW row \in JobRow,
         jobs' = [jobs EXCEPT ![k] = row],
         row.finished <=> row.status \in {"completed", "failed"},
         row.status # "none",
         jobs[k].status \notin {"completed", "failed"} \/ row.retries > 0,
         row.retries = jobs[k].retries \/ row.retries > 0,
         runs' \in SUBSET {j \in runs \union {k} : j # k \/ row.status = "processing"},
         fetched' \in SUBSET (fetched \intersect runs'),
         old' = old \ {j \in {k} : ~row.finished},
         UNCHANGED <<bucket, expired, sweep>>
  PROVE  IInv'
  <1>1. jobs' \in [Jobs -> JobRow] /\ jobs'[k] = row /\ \A j \in Jobs \ {k} : jobs'[j] = jobs[j]
    BY DEF IInv, TypeOK
  <1>2. TypeOK'
    BY <1>1 DEF IInv, TypeOK
  <1>3. FinishedIsFinal'
    BY <1>1 DEF IInv, FinishedIsFinal
  <1>4. ListedIsDue'
    <2> SUFFICES ASSUME NEW j \in sweep PROVE Final(j)' \/ jobs'[j].retries > 0
      BY DEF ListedIsDue
    <2>1. CASE j = k
      <3>1. jobs[k].status \in {"completed", "failed"} \/ jobs[k].retries > 0
        BY <2>1 DEF IInv, ListedIsDue, Final
      <3>2. QED
        BY <1>1, <2>1, <3>1
    <2>2. CASE j # k
      BY <1>1, <2>2 DEF IInv, TypeOK, ListedIsDue, Final
    <2>3. QED
      BY <2>1, <2>2
  <1>5. QED
    BY <1>2, <1>3, <1>4 DEF IInv

LEMMA NextInvariant == IInv /\ [Next]_vars => IInv'
  <1> SUFFICES ASSUME IInv, [Next]_vars PROVE IInv'
    OBVIOUS
  <1>1. jobs \in [Jobs -> JobRow]
    BY DEF IInv, TypeOK
  <1> USE DEF JobRow
  <1>2. ASSUME NEW k \in Jobs, Upload(k) \/ GrowOld(k) \/ Download(k)
        PROVE  IInv'
    <2>1. UNCHANGED <<jobs, sweep>> /\ old \in SUBSET old'
      BY <1>2 DEF Upload, GrowOld, Download
    <2>2. TypeOK'
      BY <1>2 DEF IInv, TypeOK, Upload, GrowOld, Download
    <2>3. QED
      BY <2>1, <2>2 DEF IInv, FinishedIsFinal, ListedIsDue, Final
  <1>3. ASSUME NEW k \in Jobs, CreateJob(k) PROVE IInv'
    <2>1. k \notin runs /\ k \notin old /\ jobs[k].retries = 0 /\ InsertedJob.retries = 0
      BY <1>3 DEF CreateJob, IInv, TypeOK, FinishedIsFinal, InsertedJob
    <2>2. /\ runs' \in SUBSET {j \in runs \union {k} : j # k \/ InsertedJob.status = "processing"}
          /\ fetched' \in SUBSET (fetched \intersect runs')
      BY <1>3, <2>1 DEF CreateJob, IInv, TypeOK
    <2>3. old' = old \ {j \in {k} : ~InsertedJob.finished}
      BY <1>3, <2>1 DEF CreateJob
    <2>4. QED
      BY <1>3, <2>1, <2>2, <2>3, InsertFacts, RowStep DEF CreateJob
  <1>4. ASSUME NEW k \in Jobs, RetryJob(k) PROVE IInv'
    <2> DEFINE row == Requeued(jobs[k])
    <2>1. row \in JobRow /\ row.status = "pending" /\ ~row.finished /\ row.retries > 0
      BY <1>1, RequeueFacts
    <2>2. jobs' = [jobs EXCEPT ![k] = row] /\ old' = old \ {k} /\ k \notin runs
          /\ fetched \in SUBSET runs /\ UNCHANGED <<bucket, expired, runs, fetched, sweep>>
      BY <1>4 DEF RetryJob, IInv, TypeOK
    <2> HIDE DEF row
    <2>3. /\ runs' \in SUBSET {j \in runs \union {k} : j # k \/ row.status = "processing"}
          /\ fetched' \in SUBSET (fetched \intersect runs')
      BY <2>2
    <2>4. QED
      BY <2>1, <2>2, <2>3, RowStep
  <1>5. ASSUME NEW k \in Jobs, Claim(k) PROVE IInv'
    <2> DEFINE row == Claimed(jobs[k])
    <2>1. row \in JobRow /\ row.status = "processing" /\ row.retries = jobs[k].retries
          /\ row.finished = jobs[k].finished
      BY <1>1, ClaimFacts
    <2>2. jobs[k].status = "pending" /\ ~jobs[k].finished /\ k \notin old
      BY <1>5 DEF Claim, IInv, TypeOK, FinishedIsFinal
    <2>3. jobs' = [jobs EXCEPT ![k] = row] /\ runs' = runs \union {k}
          /\ fetched \in SUBSET runs /\ UNCHANGED <<bucket, expired, old, fetched, sweep>>
      BY <1>5 DEF Claim, IInv, TypeOK
    <2> HIDE DEF row
    <2>4. ~row.finished /\ old' = old \ {j \in {k} : ~row.finished}
      BY <2>1, <2>2, <2>3
    <2>5. /\ runs' \in SUBSET {j \in runs \union {k} : j # k \/ row.status = "processing"}
          /\ fetched' \in SUBSET (fetched \intersect runs')
      BY <2>1, <2>3
    <2>6. QED
      BY <2>1, <2>2, <2>3, <2>4, <2>5, RowStep
  <1>6. ASSUME NEW k \in Jobs, NEW status \in {"completed", "failed"}, Finish(k, status)
        PROVE  IInv'
    <2> DEFINE stage == IF status = "completed" THEN status ELSE jobs[k].stage
               row == WithStatus(jobs[k], status, stage)
    <2>1. stage \in JobStage
      BY <1>1 DEF JobStage
    <2>2. row \in JobRow /\ row.status = status /\ row.finished
          /\ row.retries = jobs[k].retries
      BY <1>1, <2>1, StatusFacts
    <2>3. jobs' = [jobs EXCEPT ![k] = row] /\ fetched' = fetched \ {k}
          /\ runs' = runs \ {k} /\ fetched \in SUBSET runs /\ jobs[k].status = "processing"
          /\ UNCHANGED <<bucket, expired, old, sweep>>
      BY <1>6 DEF Finish, IInv, TypeOK
    <2> HIDE DEF row
    <2>4. /\ runs' \in SUBSET {j \in runs \union {k} : j # k \/ row.status = "processing"}
          /\ fetched' \in SUBSET (fetched \intersect runs')
      BY <2>3
    <2>5. QED
      BY <2>2, <2>3, <2>4, RowStep
  <1>7. ASSUME ListForRetention PROVE IInv'
    BY <1>7 DEF ListForRetention, DueForRetention, IInv, TypeOK, FinishedIsFinal, ListedIsDue, Final
  <1>8. ASSUME NEW k \in Jobs, DeleteNext(k) PROVE IInv'
    BY <1>8 DEF DeleteNext, IInv, TypeOK, FinishedIsFinal, ListedIsDue, Final
  <1>9. ASSUME UNCHANGED vars \/ Halt PROVE IInv'
    BY <1>9 DEF vars, Halt, IInv, TypeOK, FinishedIsFinal, ListedIsDue, Final
  <1>10. QED
    BY <1>2, <1>3, <1>4, <1>5, <1>6, <1>7, <1>8, <1>9 DEF Next, RetentionLoop

(***************************************************************************)
(* The invariant holds in every reachable state of the retention loop.     *)
(***************************************************************************)
THEOREM Invariance == Spec => []IInv
  BY InitInvariant, NextInvariant, PTL DEF Spec

(***************************************************************************)
(* Types: a run has its job processing, and only a run has a file on disk. *)
(***************************************************************************)
THEOREM TypeCorrectness == Spec => []TypeOK
  BY Invariance, PTL DEF IInv

(***************************************************************************)
(* A first attempt never loses its file to retention (retention.go:37-50). *)
(***************************************************************************)
THEOREM FileSafety == Spec => OnlyRetriesLoseTheirFile
  <1>1. IInv /\ [Next]_vars
          => [\A k \in bucket \ bucket' :
                (jobs[k].status \in {"completed", "failed"} /\ k \in old)
                  \/ jobs[k].retries > 0]_vars
    <2> SUFFICES ASSUME IInv, Next, NEW k \in bucket \ bucket'
                 PROVE  Final(k) \/ jobs[k].retries > 0
      BY DEF Final
    <2>1. k \in sweep
      BY DEF Next, RetentionLoop, Upload, CreateJob, RetryJob, GrowOld, Claim, Download,
             Finish, ListForRetention, DeleteNext, Halt
    <2>2. QED
      BY <2>1 DEF IInv, ListedIsDue
  <1>2. QED
    BY <1>1, Invariance, PTL DEF Spec, OnlyRetriesLoseTheirFile

-----------------------------------------------------------------------------
(* The loops *)

(***************************************************************************)
(* A worker waits only when every pending job is locked by another one,    *)
(* which is then not waiting; a job is told of only while it is pending,   *)
(* so its claim ends the duty.                                             *)
(***************************************************************************)
ToldIsPending == \A k \in told : jobs[k].status = "pending"
HoldsAJob == \A w \in Workers : at[w] \in {"selected", "running"} => holds[w] \in Jobs

LoopsInv ==
  /\ LoopsTypeOK /\ ToldIsPending /\ HoldsAJob /\ NoWakeLost
  /\ proc = "down" => ~ticking

-----------------------------------------------------------------------------
(* Every step of the loops is one of Retention, or leaves its state alone. *)

LEMMA StepOfRetention ==
  ASSUME HoldsAJob, [LoopsNext]_loopVars
  PROVE  [Next]_vars
<1>1. ASSUME NEW k \in Jobs, CreateAndNotify(k) \/ Outside(k) \/ Receive(k) PROVE [Next]_vars
  BY <1>1 DEF CreateAndNotify, Outside, Receive, Next
<1>2. ASSUME Listen \/ Disconnect \/ Tick \/ Start PROVE [Next]_vars
  BY <1>2 DEF Listen, Disconnect, Tick, Start
<1>3. ASSUME NEW w \in Workers, WorkerStep(w) \/ Fetch(w) PROVE [Next]_vars
  <2>1. CASE TakeWake(w) \/ StopDraining(w) \/ ClaimFails(w) \/ \E k \in Jobs : Select(w, k)
    BY <2>1 DEF TakeWake, StopDraining, ClaimFails, Select
  <2>2. CASE ClaimSelected(w) \/ Fetch(w) \/ End(w)
    <3>1. holds[w] \in Jobs
      BY <2>2 DEF ClaimSelected, Fetch, End, HoldsAJob
    <3> QED
      BY <2>2, <3>1 DEF ClaimSelected, Fetch, End, Next
  <2> QED
    BY <1>3, <2>1, <2>2 DEF WorkerStep
<1>4. ASSUME Sweep \/ Stop PROVE [Next]_vars
  BY <1>4 DEF Sweep, Stop, Next
<1>5. CASE UNCHANGED loopVars
  BY <1>5 DEF loopVars
<1> QED
  BY <1>1, <1>2, <1>3, <1>4, <1>5 DEF LoopsNext

-----------------------------------------------------------------------------
LEMMA LoopsInitInvariant == LoopsInit => LoopsInv
<1> SUFFICES ASSUME LoopsInit PROVE LoopsInv
  OBVIOUS
<1>1. 0 \in 0..WakeBufferSize
  BY WakeBufferSizeAssumption
<1>2. LoopsTypeOK /\ HoldsAJob
  BY <1>1 DEF LoopsInit, LoopsTypeOK, HoldsAJob
<1> QED
  BY <1>2 DEF LoopsInit, LoopsInv, ToldIsPending, NoWakeLost

\* After sendWake there is a wake in the channel.
LEMMA SendWakeFacts ==
  ASSUME SendWake, wake \in 0..WakeBufferSize
  PROVE  wake' \in 0..WakeBufferSize /\ wake' > 0
  BY WakeBufferSizeAssumption DEF SendWake

\* Requests leave pending rows pending; a new job is told of with its notice.
LEMMA RequestInvariant ==
  ASSUME LoopsInv, TypeOK, NEW k \in Jobs, CreateAndNotify(k) \/ Outside(k)
  PROVE  LoopsInv'
<1> USE DEF LoopsInv, LoopsTypeOK
<1>1. UNCHANGED <<proc, session, ticking, wake, at, holds>>
  BY DEF CreateAndNotify, Outside, loops
<1>2. \A j \in Jobs : jobs[j].status = "pending" => jobs'[j].status = "pending"
  BY DEF CreateAndNotify, CreateJob, Outside, Upload, RetryJob, GrowOld, TypeOK, InsertedJob
<1>3. LoopsTypeOK' /\ HoldsAJob'
  BY <1>1 DEF CreateAndNotify, Outside, loops, HoldsAJob
<1>4. CASE CreateAndNotify(k)
  <2>1. jobs'[k].status = "pending"
    BY <1>4 DEF CreateAndNotify, CreateJob, TypeOK, InsertedJob
  <2>2. \/ notices' = notices /\ told' = told
        \/ notices' = notices \union {k} /\ told' = told \union {k} /\ session = "listening"
    BY <1>4 DEF CreateAndNotify
  <2> QED
    BY <1>1, <1>2, <1>3, <2>1, <2>2 DEF ToldIsPending, NoWakeLost
<1>5. CASE Outside(k)
  BY <1>1, <1>2, <1>3, <1>5 DEF Outside, loops, ToldIsPending, NoWakeLost
<1> QED
  BY <1>4, <1>5

\* The listener and the ticker: what leaves notices is in the channel.
LEMMA ListenerInvariant ==
  ASSUME LoopsInv, \/ Listen \/ Disconnect \/ Tick
                   \/ \E k \in Jobs : Receive(k)
  PROVE  LoopsInv'
<1> USE DEF LoopsInv, LoopsTypeOK
<1>1. CASE Listen
  BY <1>1 DEF Listen, vars, ToldIsPending, HoldsAJob, NoWakeLost
<1>2. CASE Disconnect
  BY <1>2 DEF Disconnect, vars, ToldIsPending, HoldsAJob, NoWakeLost
<1>3. CASE Tick \/ \E k \in Jobs : Receive(k)
  <2>1. wake' \in 0..WakeBufferSize /\ wake' > 0
    BY <1>3, SendWakeFacts DEF Tick, Receive
  <2>2. UNCHANGED <<vars, proc, session, at, holds, told>>
        /\ notices' \in SUBSET notices /\ ticking' \in BOOLEAN
        /\ (proc = "down" => ticking' = ticking)
    BY <1>3 DEF Tick, Receive
  <2> QED
    BY <2>1, <2>2 DEF vars, ToldIsPending, HoldsAJob, NoWakeLost
<1> QED
  BY <1>1, <1>2, <1>3

\* A worker that leaves the others as they are.
LEMMA WorkerInvariant ==
  ASSUME LoopsInv, TypeOK, NEW w \in Workers, WorkerStep(w) \/ Fetch(w)
  PROVE  LoopsInv'
<1> USE DEF LoopsInv, LoopsTypeOK, Goto
<1>1. CASE TakeWake(w)
  <2>1. wake' \in 0..WakeBufferSize
    BY <1>1, WakeBufferSizeAssumption DEF TakeWake
  <2>2. at'[w] = "claiming" /\ \A v \in Workers \ {w} : at'[v] = at[v]
    BY <1>1 DEF TakeWake
  <2> QED
    BY <1>1, <2>1, <2>2 DEF TakeWake, vars, ToldIsPending, HoldsAJob, NoWakeLost
<1>2. CASE \E k \in Jobs : Select(w, k)
  <2>1. PICK k \in Jobs : Select(w, k)
    BY <1>2
  <2>2. /\ at'[w] = "selected" /\ holds'[w] = k
        /\ \A v \in Workers \ {w} : at'[v] = at[v] /\ holds'[v] = holds[v]
    BY <2>1 DEF Select
  <2> QED
    BY <2>1, <2>2 DEF Select, vars, ToldIsPending, HoldsAJob, NoWakeLost
<1>3. CASE StopDraining(w)
  <2>1. at'[w] = "waiting" /\ \A v \in Workers \ {w} : at'[v] = at[v]
    BY <1>3 DEF StopDraining
  <2>2. \A k \in told : \E v \in Workers \ {w} : at[v] = "selected"
    BY <1>3 DEF StopDraining, Claimable, ToldIsPending
  <2>3. NoWakeLost'
    BY <2>1, <2>2, <1>3 DEF StopDraining, NoWakeLost
  <2> QED
    BY <1>3, <2>1, <2>3 DEF StopDraining, vars, ToldIsPending, HoldsAJob
<1>4. CASE ClaimSelected(w)
  <2>1. /\ at'[w] = "running" /\ holds' = holds /\ holds[w] \in Jobs
        /\ \A v \in Workers \ {w} : at'[v] = at[v]
    BY <1>4 DEF ClaimSelected, HoldsAJob
  <2>2. \A k \in Jobs \ {holds[w]} : jobs'[k] = jobs[k]
    BY <1>4 DEF ClaimSelected, Claim, TypeOK
  <2> QED
    BY <1>4, <2>1, <2>2 DEF ClaimSelected, ToldIsPending, HoldsAJob, NoWakeLost
<1>5. CASE ClaimFails(w)
  <2>1. /\ at'[w] = "claiming"
        /\ \A v \in Workers \ {w} : at'[v] = at[v] /\ holds'[v] = holds[v]
    BY <1>5 DEF ClaimFails
  <2> QED
    BY <1>5, <2>1 DEF ClaimFails, vars, ToldIsPending, HoldsAJob, NoWakeLost
<1>6. CASE End(w)
  <2>1. /\ at'[w] = "claiming"
        /\ \A v \in Workers \ {w} : at'[v] = at[v] /\ holds'[v] = holds[v]
    BY <1>6 DEF End
  <2>2. \A k \in Jobs : jobs[k].status = "pending" => jobs'[k] = jobs[k]
    BY <1>6 DEF End, Finish, TypeOK
  <2> QED
    BY <1>6, <2>1, <2>2 DEF End, ToldIsPending, HoldsAJob, NoWakeLost
<1>7. CASE Fetch(w)
  BY <1>7 DEF Fetch, Download, loops, ToldIsPending, HoldsAJob, NoWakeLost
<1> QED
  BY <1>1, <1>2, <1>3, <1>4, <1>5, <1>6, <1>7 DEF WorkerStep

LEMMA ProcessInvariant ==
  ASSUME LoopsInv, Sweep \/ Stop \/ Start
  PROVE  LoopsInv'
<1> USE DEF LoopsInv, LoopsTypeOK
<1>1. CASE Sweep
  <2>1. jobs' = jobs
    BY <1>1 DEF Sweep, RetentionLoop, ListForRetention, DeleteNext
  <2> QED
    BY <1>1, <2>1 DEF Sweep, loops, ToldIsPending, HoldsAJob, NoWakeLost
<1>2. CASE Stop
  <2>1. 0 \in 0..WakeBufferSize
    BY WakeBufferSizeAssumption
  <2> QED
    BY <1>2, <2>1 DEF Stop, ToldIsPending, HoldsAJob, NoWakeLost
<1>3. CASE Start
  BY <1>3 DEF Start, vars, ToldIsPending, HoldsAJob, NoWakeLost
<1> QED
  BY <1>1, <1>2, <1>3

LEMMA LoopsNextInvariant == LoopsInv /\ TypeOK /\ [LoopsNext]_loopVars => LoopsInv'
<1> SUFFICES ASSUME LoopsInv, TypeOK, [LoopsNext]_loopVars PROVE LoopsInv'
  OBVIOUS
<1>1. CASE UNCHANGED loopVars
  BY <1>1 DEF loopVars, loops, vars, LoopsInv, LoopsTypeOK, ToldIsPending, HoldsAJob, NoWakeLost
<1> QED
  BY <1>1, RequestInvariant, ListenerInvariant, WorkerInvariant, ProcessInvariant DEF LoopsNext

-----------------------------------------------------------------------------
(***************************************************************************)
(* The two invariants hold together: the loops' needs the rows' types, the *)
(* rows' needs that a worker holds a job.                                  *)
(***************************************************************************)
THEOREM LoopsInvariance == LoopsSpec => [](LoopsInv /\ IInv)
<1>1. LoopsInit => LoopsInv /\ IInv
  BY LoopsInitInvariant, InitInvariant DEF LoopsInit
<1>2. LoopsInv /\ IInv /\ [LoopsNext]_loopVars => (LoopsInv /\ IInv)'
  BY LoopsNextInvariant, StepOfRetention, NextInvariant DEF LoopsInv, IInv
<1> QED
  BY <1>1, <1>2, PTL DEF LoopsSpec

(***************************************************************************)
(* sendWake never overfills the channel (worker.go:340).                   *)
(***************************************************************************)
THEOREM LoopsTypeCorrectness == LoopsSpec => []LoopsTypeOK
  BY LoopsInvariance, PTL DEF LoopsInv

(***************************************************************************)
(* No drain and no dropped wake leaves a job the process has been told of  *)
(* without a worker on its way (worker.go:305-346).                        *)
(***************************************************************************)
THEOREM WakeSafety == LoopsSpec => []NoWakeLost
  BY LoopsInvariance, PTL DEF LoopsInv

(***************************************************************************)
(* Worker.Run with all its goroutines, restarts included, deletes no file  *)
(* of a first attempt before its time.                                     *)
(***************************************************************************)
THEOREM LoopsFileSafety == LoopsSpec => OnlyRetriesLoseTheirFile
<1>1. LoopsInit => Init
  BY DEF LoopsInit
<1>2. LoopsInv /\ IInv /\ [LoopsNext]_loopVars => [Next]_vars
  BY StepOfRetention DEF LoopsInv
<1>3. LoopsSpec => Spec
  BY <1>1, <1>2, LoopsInvariance, PTL DEF LoopsSpec, Spec
<1> QED
  BY <1>3, FileSafety
=============================================================================
