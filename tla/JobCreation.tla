---------------------------- MODULE JobCreation ----------------------------
(***************************************************************************)
(* POST /upload-intents and any number of POST /jobs at the same time      *)
(* (handlers/upload_intent.go, handlers/job.go).  CreateJob is one         *)
(* transaction of several statements: it locks the intent's row, ensures   *)
(* each segment name, inserts the job.  The statements of different        *)
(* requests interleave; what one has written others see at its commit, but *)
(* they already wait for it, on the row's lock or in the unique index of   *)
(* segments.  The database is Postgres at its default, READ COMMITTED.     *)
(***************************************************************************)
EXTENDS Naturals, Sequences, FiniteSets

CONSTANTS
  Requests,   \* POST /jobs requests, each served by a goroutine of its own
  Intents,    \* upload intents, each with its file_key
  Segments,   \* segment names, up to lower(name)
  Wanted,     \* the lists req.Segments may be
  Faults      \* "db": a statement fails, or the client hangs up, which cancels
              \*       the ctx of the transaction
              \* "unacked": the commit goes through and the handler gets an error

ASSUME WantedAssumption == Wanted \subseteq Seq(Segments)
ASSUME FaultsAssumption == Faults \subseteq {"db", "unacked"}

VARIABLES
  intents,    \* table upload_intents: the status by intent, "none" without a row
  expired,    \* the intents whose expires_at has passed
  segments,   \* unique index on segments: "absent", "present", or the request
              \* whose open transaction has inserted the name
  created,    \* table jobs: the intents a job has been created from
  tags,       \* table job_segments
  pc,         \* where each request is
  file,       \* req.FileKey, as the intent it belongs to
  names,      \* req.Segments
  at,         \* the position in names of the segment to ensure next
  answer      \* what the client was told

vars    == <<intents, expired, segments, created, tags, pc, file, names, at, answer>>
table   == <<intents, expired, created, tags>>
request == <<file, names>>

Answers == {"none", "created", "notFound", "consumed", "expired",
            \* 500: pgx.ErrNoRows, deadlock_detected, unique_violation, other
            "noRow", "deadlock", "duplicate", "failed"}

ASSUME RequestsAssumption == Requests \intersect {"absent", "present"} = {}

TypeOK ==
  /\ intents \in [Intents -> {"none", "issued", "consumed"}]
  /\ expired \in SUBSET Intents
  /\ segments \in [Segments -> {"absent", "present"} \union Requests]
  /\ created \in SUBSET Intents
  /\ tags \in [Intents -> SUBSET Segments]
  /\ pc \in [Requests -> {"new", "lock", "ensure", "blocked", "insert", "done"}]
  /\ file \in [Requests -> Intents]
  /\ names \in [Requests -> Seq(Segments)]
  /\ at \in [Requests -> Nat \ {0}]
  /\ \A r \in Requests : pc[r] \in {"ensure", "blocked"} => at[r] \in DOMAIN names[r]
  /\ answer \in [Requests -> Answers]

Init ==
  /\ intents = [k \in Intents |-> "none"]
  /\ expired = {}
  /\ segments = [n \in Segments |-> "absent"]
  /\ created = {}
  /\ tags = [k \in Intents |-> {}]
  /\ pc = [r \in Requests |-> "new"]
  /\ file \in [Requests -> Intents]
  /\ names \in [Requests -> Wanted]
  /\ at = [r \in Requests |-> 1]
  /\ answer = [r \in Requests |-> "none"]

-----------------------------------------------------------------------------
(* POST /upload-intents, and the clock *)

CreateUploadIntent(k) ==
  /\ intents[k] = "none"
  /\ intents' = [intents EXCEPT ![k] = "issued"]
  /\ UNCHANGED <<expired, segments, created, tags, pc, request, at, answer>>

Expire(k) ==
  /\ intents[k] # "none"
  /\ expired' = expired \union {k}
  /\ UNCHANGED <<intents, segments, created, tags, pc, request, at, answer>>

-----------------------------------------------------------------------------
(* POST /jobs *)

\* A transaction holds the row it locked until it ends.
InTransaction(r) == pc[r] \in {"ensure", "blocked", "insert"}

Reply(r, a) ==
  /\ pc' = [pc EXCEPT ![r] = "done"]
  /\ answer' = [answer EXCEPT ![r] = a]

\* Variant: WithTenantTx returns an error without a rollback.
NoRollback(r, a) ==
  /\ Reply(r, a)
  /\ UNCHANGED <<segments, table, request, at>>

\* WithTenantTx: fn or the commit returned an error.
Rollback(r, a) ==
  /\ Reply(r, a)
  /\ segments' = [n \in Segments |-> IF segments[n] = r THEN "absent" ELSE segments[n]]
  /\ UNCHANGED <<table, request, at>>

\* validateCreateJob, WithTenantTx begins.
Begin(r) ==
  /\ pc[r] = "new"
  /\ pc' = [pc EXCEPT ![r] = "lock"]
  /\ UNCHANGED <<table, segments, request, at, answer>>

\* Variant: GetUploadIntentByFileKey without FOR UPDATE.
RowUnlocked(k) == TRUE

\* FOR UPDATE: the row is not locked by another transaction.
RowFree(k) == \A q \in Requests : ~(InTransaction(q) /\ file[q] = k)

\* Variant: one turn too many.
EnsurePastEnd(r, i) ==
  /\ at' = [at EXCEPT ![r] = i]
  /\ pc' = [pc EXCEPT ![r] = IF i <= Len(names[r]) + 1 THEN "ensure" ELSE "insert"]

\* The segments are ensured one by one, then the job is inserted.
Ensure(r, i) ==
  /\ at' = [at EXCEPT ![r] = i]
  /\ pc' = [pc EXCEPT ![r] = IF i <= Len(names[r]) THEN "ensure" ELSE "insert"]

\* Variant: the intent is consumed by UploadIntentRepository.Consume, which
\* has a transaction of its own.
ConsumeFirst(r) ==
  LET k == file[r] IN
  /\ pc[r] = "lock"
  /\ RowFree(k)
  /\ \/ intents[k] = "none" /\ Rollback(r, "notFound")
     \/ intents[k] = "consumed" /\ Rollback(r, "consumed")
     \/ intents[k] = "issued" /\ k \in expired /\ Rollback(r, "expired")
     \/ /\ intents[k] = "issued" /\ k \notin expired
        /\ intents' = [intents EXCEPT ![k] = "consumed"]
        /\ Ensure(r, 1)
        /\ UNCHANGED <<expired, created, tags, segments, request, answer>>

(***************************************************************************)
(* GetUploadIntentByFileKeyForUpdate waits for the row and reads it as the *)
(* last holder left it.  MarkUploadIntentConsumed follows under the same   *)
(* lock and is seen by others at the commit.                               *)
(***************************************************************************)
LockIntent(r) ==
  LET k == file[r] IN
  /\ pc[r] = "lock"
  /\ RowFree(k)
  /\ \/ intents[k] = "none" /\ Rollback(r, "notFound")
     \/ intents[k] = "consumed" /\ Rollback(r, "consumed")
     \/ intents[k] = "issued" /\ k \in expired /\ Rollback(r, "expired")
     \/ /\ intents[k] = "issued" /\ k \notin expired
        /\ Ensure(r, 1)
        /\ UNCHANGED <<table, segments, request, answer>>

Name(r) == names[r][at[r]]

(***************************************************************************)
(* EnsureSegmentByName: the name is there, or inserted before by this same *)
(* transaction; or it is inserted; or another open transaction has         *)
(* inserted it, and the INSERT waits for the end of that one.              *)
(***************************************************************************)
EnsureSegment(r) ==
  /\ pc[r] = "ensure"
  /\ \/ /\ segments[Name(r)] \in {"present", r}
        /\ Ensure(r, at[r] + 1)
        /\ UNCHANGED segments
     \/ /\ segments[Name(r)] = "absent"
        /\ segments' = [segments EXCEPT ![Name(r)] = r]
        /\ Ensure(r, at[r] + 1)
     \/ /\ segments[Name(r)] \in Requests \ {r}
        /\ pc' = [pc EXCEPT ![r] = "blocked"]
        /\ UNCHANGED <<segments, at>>
  /\ UNCHANGED <<table, request, answer>>

(***************************************************************************)
(* The other transaction rolled back: the INSERT goes on.  It committed:   *)
(* ON CONFLICT DO NOTHING returns no row, and the SELECT of the UNION,     *)
(* which has the statement's older snapshot, does not see the name either; *)
(* the handler gets pgx.ErrNoRows.                                         *)
(***************************************************************************)
Unblock(r) ==
  /\ pc[r] = "blocked"
  /\ \/ /\ segments[Name(r)] = "absent"
        /\ segments' = [segments EXCEPT ![Name(r)] = r]
        /\ Ensure(r, at[r] + 1)
        /\ UNCHANGED <<table, request, answer>>
     \/ segments[Name(r)] = "present" /\ Rollback(r, "noRow")

\* Transactions wait for each other in a cycle: Postgres aborts one of them.
WaitsFor(r) == segments[Name(r)]

Deadlocked(r) ==
  \E S \in SUBSET {q \in Requests : pc[q] = "blocked"} :
    r \in S /\ S = {WaitsFor(q) : q \in S}

DeadlockDetected(r) ==
  /\ pc[r] = "blocked" /\ Deadlocked(r)
  /\ Rollback(r, "deadlock")

(***************************************************************************)
(* CreateJob, AttachJobSegment for each, commit.  jobs.upload_intent_id    *)
(* and jobs.file_key are UNIQUE.                                           *)
(***************************************************************************)
InsertJob(r) ==
  LET k == file[r] IN
  /\ pc[r] = "insert"
  /\ \/ /\ k \notin created
        /\ created' = created \union {k}
        /\ intents' = [intents EXCEPT ![k] = "consumed"]
        /\ tags' = [tags EXCEPT ![k] = {names[r][i] : i \in DOMAIN names[r]}]
        /\ segments' = [n \in Segments |-> IF segments[n] = r THEN "present" ELSE segments[n]]
        /\ \/ Reply(r, "created")
           \/ "unacked" \in Faults /\ Reply(r, "failed")
        /\ UNCHANGED <<expired, request, at>>
     \/ k \in created /\ Rollback(r, "duplicate")

DbFails(r) ==
  /\ "db" \in Faults
  /\ pc[r] \in {"lock", "ensure", "blocked", "insert"}
  /\ Rollback(r, "failed")

Step(r) ==
  \/ LockIntent(r) \/ EnsureSegment(r) \/ Unblock(r) \/ DeadlockDetected(r)
  \/ InsertJob(r)

Next ==
  \/ \E k \in Intents : CreateUploadIntent(k) \/ Expire(k)
  \/ \E r \in Requests : Begin(r) \/ Step(r) \/ DbFails(r)

Spec == Init /\ [][Next]_vars

\* The server runs every handler; Postgres resolves every deadlock.
FairSpec == Spec /\ \A r \in Requests : WF_vars(Step(r))

-----------------------------------------------------------------------------
(* Properties *)

(***************************************************************************)
(* An intent is consumed exactly when its job exists: no failing, blocked  *)
(* or refused request uses up an upload (docs/03_schema.md:16).            *)
(***************************************************************************)
ConsumedHasJob == \A k \in Intents : intents[k] = "consumed" <=> k \in created

Shared(r, q) == {n \in Segments : \E i \in DOMAIN names[r], j \in DOMAIN names[q] :
                                    names[r][i] = n /\ names[q][j] = n}

(***************************************************************************)
(* The answers are true, whatever ran at the same time: a client told      *)
(* "created" is the only one and has the job with its own segments; one    *)
(* told "consumed" was beaten by a job that exists; the unique constraints *)
(* of jobs never speak, the lock does; and an internal error without a     *)
(* fault befalls only a request that shares a segment with one for another *)
(* intent.                                                                 *)
(***************************************************************************)
AnswersAreTrue ==
  \A r \in Requests :
    /\ answer[r] = "created" =>
         /\ file[r] \in created
         /\ tags[file[r]] = {names[r][i] : i \in DOMAIN names[r]}
         /\ \A n \in tags[file[r]] : segments[n] = "present"
         /\ \A q \in Requests \ {r} : ~(answer[q] = "created" /\ file[q] = file[r])
    /\ answer[r] = "consumed" => file[r] \in created
    /\ answer[r] # "duplicate"
    /\ answer[r] \in {"noRow", "deadlock"} =>
         \E q \in Requests : file[q] # file[r] /\ Shared(r, q) # {}

(***************************************************************************)
(* The query that the handler shares with EnsureByName "finds a segment by *)
(* name for the tenant, or creates it" (repo/segments.go:26): it does not  *)
(* end with neither.                                                       *)
(***************************************************************************)
EnsureFindsOrCreates == \A r \in Requests : answer[r] # "noRow"

(***************************************************************************)
(* Every request is answered: no lock of a failed request stays behind, no *)
(* cycle of waits lasts.                                                   *)
(***************************************************************************)
EveryRequestAnswered == \A r \in Requests : pc[r] = "lock" ~> pc[r] = "done"
=============================================================================
