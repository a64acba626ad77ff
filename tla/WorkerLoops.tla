----------------------------- MODULE WorkerLoops -----------------------------
(***************************************************************************)
(* The goroutines of Worker.Run (internal/worker/worker.go) and what they  *)
(* share: the listener of the channel job_created, the ticker, the worker  *)
(* pool behind the buffered channel wake, the retention loop.  A run is    *)
(* what Retention keeps of it; the rows are those of Retention.            *)
(***************************************************************************)
EXTENDS Retention

CONSTANTS
  Workers,         \* the goroutines of the pool
  WakeBufferSize   \* the capacity of the channel wake

ASSUME JobsAreOrdered == Jobs \subseteq Nat \ {0}   \* by created_at
ASSUME WakeBufferSizeAssumption == WakeBufferSize \in Nat \ {0}

NoJob == 0

VARIABLES
  proc,      \* the worker process, "up" or "down"
  session,   \* the LISTEN session: "listening", or "down" between two of them
  notices,   \* jobs notified to the session and not received yet
  ticking,   \* tickerLoop has sent its initial wake
  wake,      \* the wakes in the channel
  at,        \* where each worker is in workerLoop
  holds,     \* the job it has selected or is running
  told       \* history: the pending jobs the process has been told of, as its
             \* backlog or by a notification of the present session

loops    == <<proc, session, notices, ticking, wake, at, holds, told>>
loopVars == <<vars, loops>>

LoopsTypeOK ==
  /\ proc \in {"up", "down"}
  /\ session \in {"listening", "down"}
  /\ notices \in SUBSET Jobs /\ told \in SUBSET Jobs
  /\ ticking \in BOOLEAN
  /\ wake \in 0..WakeBufferSize
  /\ at \in [Workers -> {"waiting", "claiming", "selected", "running"}]
  /\ holds \in [Workers -> Jobs \union {NoJob}]

LoopsInit ==
  /\ Init
  /\ proc = "down" /\ session = "down" /\ notices = {} /\ told = {}
  /\ ticking = FALSE /\ wake = 0
  /\ at = [w \in Workers |-> "waiting"]
  /\ holds = [w \in Workers |-> NoJob]

-----------------------------------------------------------------------------
(* Clients and admins; the trigger notifies of an INSERT, not of a retry *)

CreateAndNotify(k) ==
  /\ CreateJob(k)
  /\ LET heard == IF session = "listening" THEN {k} ELSE {} IN
       /\ notices' = notices \union heard
       /\ told' = told \union heard
  /\ UNCHANGED <<proc, session, ticking, wake, at, holds>>

Outside(k) ==
  /\ Upload(k) \/ RetryJob(k) \/ GrowOld(k)
  /\ UNCHANGED loops

-----------------------------------------------------------------------------
(* notifyListener and tickerLoop *)

\* Variant: a send that does not look at the buffer.
SendWakeUnbounded == wake' = wake + 1

\* sendWake: a wake that finds the buffer full is dropped.
SendWake == wake' = IF wake < WakeBufferSize THEN wake + 1 ELSE wake

\* listenOnce: LISTEN is executed on a connection of the pool.
Listen ==
  /\ proc = "up" /\ session = "down"
  /\ session' = "listening"
  /\ UNCHANGED <<vars, proc, notices, ticking, wake, at, holds, told>>

\* WaitForNotification returns one.
Receive(k) ==
  /\ k \in notices
  /\ notices' = notices \ {k}
  /\ SendWake
  /\ UNCHANGED <<vars, proc, session, ticking, at, holds, told>>

\* The connection drops, with what Postgres had queued for it.
Disconnect ==
  /\ session = "listening"
  /\ session' = "down" /\ notices' = {}
  /\ told' = told \ notices
  /\ UNCHANGED <<vars, proc, ticking, wake, at, holds>>

\* Variant: the ticker is a fallback for a listener that is down only.
TickWhenDeaf ==
  /\ proc = "up" /\ (session = "down" \/ ~ticking)
  /\ ticking' = TRUE
  /\ SendWake
  /\ UNCHANGED <<vars, proc, session, notices, at, holds, told>>

\* The initial wake of tickerLoop, then one per tick.
Tick ==
  /\ proc = "up"
  /\ ticking' = TRUE
  /\ SendWake
  /\ UNCHANGED <<vars, proc, session, notices, at, holds, told>>

-----------------------------------------------------------------------------
(* workerLoop *)

Goto(w, place) == at' = [at EXCEPT ![w] = place]

TakeWake(w) ==
  /\ proc = "up" /\ at[w] = "waiting" /\ wake > 0
  /\ wake' = wake - 1
  /\ Goto(w, "claiming")
  /\ UNCHANGED <<vars, proc, session, notices, ticking, holds, told>>

\* FOR UPDATE SKIP LOCKED.
Claimable ==
  {k \in Jobs : jobs[k].status = "pending"
                /\ \A w \in Workers : ~(at[w] = "selected" /\ holds[w] = k)}

Select(w, k) ==
  /\ at[w] = "claiming"
  /\ k \in Claimable /\ \A i \in Claimable : k <= i
  /\ Goto(w, "selected")
  /\ holds' = [holds EXCEPT ![w] = k]
  /\ UNCHANGED <<vars, proc, session, notices, ticking, wake, told>>

\* No row: the drain is over.
StopDraining(w) ==
  /\ at[w] = "claiming" /\ Claimable = {}
  /\ Goto(w, "waiting")
  /\ UNCHANGED <<vars, proc, session, notices, ticking, wake, holds, told>>

ClaimSelected(w) ==
  /\ at[w] = "selected"
  /\ Claim(holds[w])
  /\ Goto(w, "running")
  /\ told' = told \ {holds[w]}
  /\ UNCHANGED <<proc, session, notices, ticking, wake, holds>>

\* The UPDATE fails: log, sleep, claim again.
ClaimFails(w) ==
  /\ at[w] = "selected"
  /\ Goto(w, "claiming")
  /\ holds' = [holds EXCEPT ![w] = NoJob]
  /\ UNCHANGED <<vars, proc, session, notices, ticking, wake, told>>

Fetch(w) ==
  /\ at[w] = "running"
  /\ Download(holds[w])
  /\ UNCHANGED loops

\* Variant: one claim per wake.
EndAndWait(w) ==
  /\ at[w] = "running"
  /\ \E status \in {"completed", "failed"} : Finish(holds[w], status)
  /\ Goto(w, "waiting")
  /\ holds' = [holds EXCEPT ![w] = NoJob]
  /\ UNCHANGED <<proc, session, notices, ticking, wake, told>>

\* ProcessJob returns, and the worker claims again.
End(w) ==
  /\ at[w] = "running"
  /\ \E status \in {"completed", "failed"} : Finish(holds[w], status)
  /\ Goto(w, "claiming")
  /\ holds' = [holds EXCEPT ![w] = NoJob]
  /\ UNCHANGED <<proc, session, notices, ticking, wake, told>>

WorkerStep(w) ==
  \/ TakeWake(w) \/ StopDraining(w) \/ \E k \in Jobs : Select(w, k)
  \/ ClaimSelected(w) \/ ClaimFails(w) \/ End(w)

-----------------------------------------------------------------------------
(* The retention loop, and the process *)

Sweep == proc = "up" /\ RetentionLoop /\ UNCHANGED loops

\* However it ends (JobPipeline has the steps of an orderly shutdown), nothing
\* of the process is left.
Stop ==
  /\ proc = "up" /\ proc' = "down"
  /\ Halt
  /\ session' = "down" /\ notices' = {} /\ told' = {}
  /\ ticking' = FALSE /\ wake' = 0
  /\ at' = [w \in Workers |-> "waiting"]
  /\ holds' = [w \in Workers |-> NoJob]

\* Run starts every goroutine; what is pending by then is the backlog.
Start ==
  /\ proc = "down" /\ proc' = "up"
  /\ told' = {k \in Jobs : jobs[k].status = "pending"}
  /\ UNCHANGED <<vars, session, notices, ticking, wake, at, holds>>

LoopsNext ==
  \/ \E k \in Jobs : CreateAndNotify(k) \/ Outside(k) \/ Receive(k)
  \/ Listen \/ Disconnect \/ Tick
  \/ \E w \in Workers : WorkerStep(w) \/ Fetch(w)
  \/ Sweep \/ Stop \/ Start

LoopsSpec == LoopsInit /\ [][LoopsNext]_loopVars

(***************************************************************************)
(* The Go scheduler runs goroutines that can run, the tickers tick, and    *)
(* the database does not refuse every claim for ever.  That some worker    *)
(* moves on is enough: a run that never ends holds up no other job.        *)
(* Delete of R2 (r2.go:98) and the statements have no timeout: that they   *)
(* return, with an error or not, is assumed of R2 and Postgres.            *)
(* Nothing is asked of the listener.                                       *)
(***************************************************************************)
FairLoopsSpec ==
  /\ LoopsSpec
  /\ WF_loopVars(Tick) /\ WF_loopVars(Sweep)
  /\ WF_loopVars(\E w \in Workers : WorkerStep(w))
  /\ SF_loopVars(\E w \in Workers : ClaimSelected(w))

-----------------------------------------------------------------------------
(* Properties *)

(***************************************************************************)
(* A job the process has been told of is on its way to a worker: a wake    *)
(* dropped at a full buffer, one taken by a worker that finds the row      *)
(* locked by another, a claim that fails after that, cost no job its wake. *)
(* The ticker is needed for the jobs nobody tells of, and for no other.    *)
(***************************************************************************)
NoWakeLost ==
  \A k \in told :
    \/ ~ticking \/ k \in notices \/ wake > 0
    \/ \E w \in Workers : at[w] # "waiting"

StaysUp == <>[](proc = "up")

(***************************************************************************)
(* A pending job is claimed once the process stays up, also one that       *)
(* nothing is notified of: a retry, a job inserted between two sessions, a *)
(* notification lost with its session.                                     *)
(***************************************************************************)
PendingIsClaimed ==
  StaysUp => \A k \in Jobs : jobs[k].status = "pending" ~> jobs[k].status # "pending"

(***************************************************************************)
(* The file of a job that stays finalized goes once it is old, also while  *)
(* R2 refuses to delete another one for ever, and after restarts that lose *)
(* the list.                                                               *)
(***************************************************************************)
OldFilesGo ==
  StaysUp =>
    \A k \in Jobs \ Undeletable :
      k \in DueForRetention ~> (k \notin bucket \/ k \notin DueForRetention)
=============================================================================
