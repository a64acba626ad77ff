-------------------------- MODULE MaterialService --------------------------
(***************************************************************************)
(* What the admin and the query API promise their clients about a job and  *)
(* the material it makes (GET /jobs/:id, POST /query), with no worker, no  *)
(* stage and no row.                                                       *)
(***************************************************************************)
CONSTANTS
  Jobs,
  LostAcks   \* BOOLEAN: whether a commit may go unacknowledged

VARIABLES
  status,      \* the status GET /jobs/:id shows
  searchable   \* the jobs whose material an answer may quote

vars == <<status, searchable>>

Init ==
  /\ status = [j \in Jobs |-> "none"]
  /\ searchable = {}

Becomes(j, from, to) ==
  /\ status[j] \in from
  /\ status' = [status EXCEPT ![j] = to]
  /\ UNCHANGED searchable

Submit(j)  == Becomes(j, {"none"}, "pending")
Begin(j)   == Becomes(j, {"pending"}, "processing")
Succeed(j) == Becomes(j, {"processing"}, "completed")
Retry(j)   == Becomes(j, {"failed"}, "pending")

\* A success may still be taken back, as long as nobody can have been
\* answered from the material; only a lost acknowledgement hides that from run.
Fail(j) ==
  /\ j \notin searchable \/ LostAcks
  /\ Becomes(j, {"processing", "completed"}, "failed")

\* Only the material of a completed job is ever quoted.
Publish(j) ==
  /\ status[j] = "completed"
  /\ searchable' = searchable \union {j}
  /\ UNCHANGED status

Withdraw(j) ==
  /\ searchable' = searchable \ {j}
  /\ UNCHANGED status

Next ==
  \E j \in Jobs :
    Submit(j) \/ Begin(j) \/ Succeed(j) \/ Fail(j) \/ Retry(j) \/ Publish(j) \/ Withdraw(j)

Spec == Init /\ [][Next]_vars
=============================================================================
