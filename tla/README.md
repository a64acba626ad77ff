# A TLA+ model of the RAG pipeline

The repository is the backend of a retrieval service: an API process takes
uploads and questions, a worker process turns uploaded videos, audio files and
PDFs into searchable chunks, and Postgres holds everything they share. This
directory models the parts of it whose correctness depends on the order in which
things happen, checks them with TLC on small instances, and proves the most
important facts for every instance with TLAPS.

Paths below are relative to the repository; `processor.go` is
`internal/worker/processor.go`, `worker.go` is `internal/worker/worker.go`,
`breaker.go` is `internal/circuitbreaker/breaker.go`, `jobs.sql` is
`internal/database/queries/jobs.sql`.

## The system

| component | state it keeps | operations | talks to |
|---|---|---|---|
| admin API (`internal/httpapi/handlers`) | none | POST /upload-intents, POST /jobs, POST /jobs/:id/retry, DELETE /videos/:id, reads | Postgres (one transaction per operation), R2 (presigned URLs) |
| query API and `rager` | none | POST /query: embed, search, answer | providers, Postgres |
| auth, scopes, rate limit (`middleware`, `ratelimit`) | token buckets by key | before each request | Postgres (`api_keys`) |
| Postgres (`migrations`, `internal/database`) | `upload_intents`, `jobs`, `videos` and, cascading from it, `transcripts`, `chunks`, `summaries`, `video_segments` | the statements of `queries/*.sql`, in transactions of `tx.go` | NOTIFY on insert of a job |
| worker pool (`worker.go`) | a wake channel, `jobCtx` | LISTEN, ticker, claim, drain, shutdown | Postgres, pipeline |
| job pipeline (`processor.go`) | the job, video id, stage and transcript of a run, in memory | `run`, `fail` | R2, Groq, LlamaParse, Cloudflare, DeepSeek, Postgres |
| retention (`retention.go`) | none | delete files of old finalized jobs | Postgres, R2 |
| circuit breakers (`breaker.go`) | one per provider client: state, failures, openedAt, halfOpenCalls | `Execute`, `State` | the goroutines calling a provider |
| HTTP client (`httpclient`) | none | retry with backoff | providers |
| `chunker`, `summarizer` | none | pure text windows; map-reduce of a summary | LLM |

The API and the worker never call each other: they meet in the tables `jobs` and
`videos`. A job goes pending, processing, completed or failed; a retry sends a
failed one back to pending, and its run starts by deleting the video of the
previous attempt.

What is hard here:

- several goroutines (and an admin) write the same two rows in separate
  transactions, and a run is some fifteen of them;
- every one may fail, or commit without its caller learning it;
- SIGTERM stops claims but not runs, a second deadline cancels the runs, and the
  process may simply die;
- the breaker lets go of its mutex while a call runs, so results arrive late;
- notifications are lost, buffers are full, files disappear while a retry is
  on its way;
- a provider call is up to three attempts with waits between them, or an upload
  with sixty polls, under one guard of the breaker;
- an answer is made of reads in separate transactions, while runs, retries and
  deletions change what was read;
- texts, batches, sections and token buckets have ends, and each end is a
  boundary case.

What makes each part correct:

- *pipeline*: one runner per job; nothing half-made is searchable or reported
  completed; the stage shown is true; every job ends; failures are recorded;
  a failed verdict is withdrawn by a retry only, a completed one never while the
  database answers; a job fails only for an outside reason;
- *shutdown*: it ends, and leaves no job that nobody will ever touch;
- *breaker*: it trips at the threshold, limits its probes, moves only along its
  state machine, ignores cancellations and finds its way back;
- *wake-up*: no pending job waits for ever; *retention*: no file a retry still
  needs is deleted; *intents*: one job per intent, none after expiry; *limiter*:
  never more than capacity plus refill, and nobody starved; *provider calls*: bounded
  attempts and polls, one result for the breaker; *run content*: every word in a
  chunk, every chunk with its own embedding, a summary of the whole text;
  *queries*: nothing deleted is quoted, no reference without its segments.

`PROJECT.json` lists the components with their status and, under `hazards`, each
of these dangers at its line, with the property that watches it.

## Modules

| module | what it models |
|---|---|
| `Tables` | rows of `jobs` and `videos`; one operator per SQL statement |
| `JobPipeline` (extends `Tables`) | admin API, worker pool, pipeline, shutdown, crash |
| `MaterialService` | abstract: what clients are promised about a job and its material |
| `MCJobPipeline` | instance for TLC, symmetry of the workers |
| `JobPipelineProofs` | inductive invariant, theorems, the rows a run owns, the stage within one attempt |
| `ServiceProofs` | the pipeline implements `MaterialService`; what it takes for a job to fail, to be stranded, or to end with a video that is not completed |
| `CircuitBreaker` | one breaker and the goroutines that share it |
| `ProviderCall` (extends `CircuitBreaker`) | the guarded calls of the providers: HTTP attempts, backoffs, LlamaParse's polling |
| `CircuitBreakerProofs` | invariant, theorems, the bounds of `ProviderCall` |
| `JobCreation` | POST /upload-intents and concurrent POST /jobs, statement by statement |
| `MCJobCreation` | the segment lists of its instance |
| `JobCreationProofs` | lemmas on locks, owners and waits, theorems |
| `Retention` (instantiates `Tables`) | files in R2, the retention loop, retries |
| `WorkerLoops` (extends `Retention`) | the goroutines of `Worker.Run`: listener, ticker, wake channel, pool, retention |
| `WorkerLoopsProofs` | invariants of both, theorems |
| `TextWindows` | operators: sentences, chunks, sections |
| `TextWindowsProofs` | what sentences, windows and sections compute, by induction |
| `RunContent` (extends `TextWindows`) | chunks, embedding batches and the summary of one run |
| `RunContentProofs` | invariant, theorems |
| `RateQuota` | abstract: a level refilled continuously |
| `TokenBucket` | the lazily refilled bucket of a key |
| `Query` (extends `TokenBucket`, instantiates `Tables`) | POST /query from the middleware to the answer |
| `QueryProofs` | the bucket's arithmetic, what handlers know, theorems |

An operator marked "Variant:" is the code with one plausible mistake in it. No
specification uses it; it says how a property would fail, and `PROJECT.json`
(`mutants`) says which property it breaks.

### JobPipeline

*One transaction is one step.* `WithTenantTx` commits or rolls back, so an
action is one call of a repository, together with the provider call before it.
`Transaction` has the three outcomes: committed; committed but reported as an
error (`"unacked"`); not committed (a provider or the database failed, the ctx
was cancelled, or a constraint refused it).

- `jobs`, `videos`: the tables, by job. A video's row carries the presence of
  its cascaded rows (`tagged`, `transcript`, `chunks`, `summary`). A segment list
  or a text is only present or absent; a transcript is `"empty"`, `"blank"` (no
  sentence, so no chunk) or `"text"`, because `run` and `generateSummary` treat
  the three differently.
- `pc`, `cur`, `vid`, `stg`, `text`: the control point and local variables of
  each worker goroutine: `job.ID`, `video.ID`, `job.Stage`, the transcript.
- `proc`: `"up"`; `"draining"` once SIGTERM cancelled `ctx`; `"cancelled"` once
  `jobCancel` ran; `"down"`.

The claim is two steps: `SelectPending` is the subquery with FOR UPDATE SKIP
LOCKED, `ClaimNextPending` the UPDATE with its commit. The rest follows
`processor.go` line by line: `LoadJob`, `Cleanup`, `CreateVideo`,
`CopyJobSegments`, the stages, `SaveTranscript`, `InsertChunks`, `CompleteJob`,
`CompleteVideo`, `GenerateSummary`; `FailJob` and `FailVideo` are `fail`. Rows a
run writes by foreign key or `WHERE id` need the video to be still there
(`HasRow`), as `UpdateVideoStatus :one` needs a row to return.

The environment is the constant `Faults`: which of provider errors, database
errors, lost acknowledgements, SIGTERM, an exceeded grace period, crashes and
stalls may happen. Nothing happens that the set does not contain. A stall is a call
that does not return while its ctx is alive: `Download` (`r2.go:85`) runs on `jobCtx`,
which has no deadline (`worker.go:154`), and a statement has none either (`db.go:14`).
It is a step not taken, so `"stall"` shows in the fairness (`MayStall`), and the
runs on safety need not name it.

`copyJobSegments` lists the names, then ensures and attaches them one by one, each in a
transaction of its own (`processor.go:220-235`). `CopyJobSegments` is one step: `tagged`
says that all are attached, and a video with some of them is not tagged.

*The transcript's id.* `extractTranscript` never sets `Transcript.ID`
(`processor.go:180-187`, `204-210`; `groq.go:125`) and `repo/transcripts.go:27`
passes that empty string to a `uuid` column, which Postgres refuses. The
fake of `fakes_test.go` behind the same port takes it. The constant
`TakesEmptyID` says which repository is behind the port. With FALSE, the code as
deployed, every job fails: `PipelineNoTranscript`; nothing else makes it
fail, with providers and a database that answer: `PipelineDeployed`. All the other
configurations of the pipeline use TRUE: they describe `run` over a repository that stores the
transcript, as the unit tests have it and as it is after that line is fixed. The
theorems hold for both values.

### MaterialService

The abstract specification knows only the status of a job and the set of
jobs whose material an answer may quote. Only a completed job's material is
published, a success may be taken back only while it cannot be read, a job fails,
is retried and is withdrawn at any time. `JobPipeline` implements it with
`status` and `Searchable` (the filter of `SearchChunks`) as the mapping. One thing
is weaker when acknowledgements may be lost (`LostAcks`): if the commit that
publishes the video is not acknowledged, `fail` marks the job failed while its video
is still searchable, until its second transaction.

### CircuitBreaker

A step is one critical section (`Acquire`, `Record`, `EvaluateTimeout`) or one
event of a call running outside the mutex: `fn` returns (`Finish`), `Execute`
reaches the select or takes a ready case (`Select`), the ctx is done (`Cancel`).
When both cases are ready Go chooses either, and so does `Select`. Time is one
bit, whether `Timeout` has elapsed since `openedAt`; `fn` returns when and what it likes.
`probes` is a history variable: who was admitted in the present half-open period
and is still in `Execute`. `halfOpenCalls` is counted only under a limit, where
it is read.

### ProviderCall

`CircuitBreaker` leaves open what `fn` does; `ProviderCall` opens it up. `fn` makes an
exchange (LlamaParse an upload, polls and a fetch), an exchange is attempts with
`sleep` between them (`httpclient.doWithRetry`, `doWithRetryReader`), and a done ctx
ends it at the next request, sleep or pause. `Callers` share one breaker and
one client. The provider is up when it is reached and answers in time and with no
status that is retried; one that is down may do either. Whether it is up or down, an
`fn` also fails when the body of a submission cannot be built from the local file
(`client.go:118`, a disjunct of `Send`), and on any other status, a 4xx for instance, or a
body without what was asked for (`Unusable`); the breaker counts all of these. An `fn`
whose caller has gone makes no further request, so it is dropped. The steps around `fn`
are those of `CircuitBreaker`, so its safety holds of the calls by construction, and
the run checks it on them only because it is where all that `fn` can do is spelled out.

`Recovers` had to name two things beside a provider that is up. One is the callers'
patience (`CallersWait`): a caller that hangs up may take a probe's slot away
(`breaker.go:116`) or may be counted as a failure (`breaker.go:118`). The other is that it
is asked only what it can answer (`AsksAnswerable`): local errors and 4xx answers count
as failures, so the breaker of a provider that works may open, or stay open, because
of what it is sent.

### JobCreation

`JobPipeline` takes POST /jobs as one insert; here it is the transaction of
`handlers/job.go:51-108`, whose statements interleave with those of other requests.

- `LockIntent` waits for the row (FOR UPDATE), reads it as its last holder left it
  and answers 404, 409 or 410, or keeps the lock. `MarkUploadIntentConsumed` comes
  under the same lock and nobody sees it before the commit, so `intents` changes
  in `InsertJob`, which is the rest of the transaction and its commit.
- `segments` is the unique index on the lowered name: a name is absent, present, or
  inserted by an open transaction. Whoever meets the third case waits
  (`"blocked"`). If the other rolls back, the insert goes on; if it commits, ON
  CONFLICT DO NOTHING returns no row, the SELECT beside it has the snapshot
  from before the wait, and the handler gets `pgx.ErrNoRows`, a 500
  (`"noRow"`), where `repo/segments.go:26` says of the query that it finds or creates
  the name (`SegmentRace`). `AnswersAreTrue` permits that and says who may meet it.
- Two requests that ensure two new names in opposite orders wait for each
  other; Postgres aborts one (`DeadlockDetected`).
- `Rollback` is the one way out of a failing transaction (`tx.go`).

A request is used once; a client that tries again is another request. How Postgres
locks and waits is the documented behaviour of READ COMMITTED.

### Retention

One loop lists the finalized jobs whose `finished_at` is old (`sweep`) and deletes
their files one by one, after which nothing is written to the job. Around it
runs and admins go on: the rows are those of `Tables`, a run is only claim,
download and end. Time is two sets, the expired URLs and the old jobs; a job
gets old only after its URL expired, as seven days are longer than a URL may live.
The list is ordered by `finished_at`; the model deletes in any order, which
covers that one. `Halt` is the end of the process, with its runs and its list.

### WorkerLoops

The goroutines of `Worker.Run` around `Retention`'s rows: the LISTEN session and its
loss with what Postgres had queued for it, the trigger that notifies of an insert
and not of a retry, `sendWake` into a bounded channel, the ticker, the workers that
take a wake and drain until a claim finds nothing, a claim whose UPDATE fails, and
a process that stops and starts at any moment. `told` remembers which pending jobs
the process has been told of: its backlog at the start and what the session heard.
`NoWakeLost` says that these need no further tick, `PendingIsClaimed` that the others
get one. This is what `JobPipeline` assumes of its `Wake`.

### RunContent and TextWindows

A text is a sequence of words, sentence ends, spaces and line breaks; the last two are
what `TrimSpace` trims, but only a space after a sentence end is where
`cutAtSentenceBoundary` cuts. A chunk is the set of positions it covers, so two chunks
can be compared with the text and with each other. `Sentences`, `Windows`, `Chunk` are
`chunker.go`; `CutAtSentenceBoundary` and `Sections` the split of `summarizer.go`.
`RunContent` runs them as a run does: chunks, batches whose provider may return an
embedding too few (`embedOne` refuses that, on which `embedSections` relies), rows, then
at most two attempts of the summary, each from the beginning. A failing step between the
batches and the rows is `EmbedFails`; `JobPipeline` has the rest of the faults. A
character is one byte: `cutAtSentenceBoundary` counts bytes and may cut inside a
character of several bytes when it finds no sentence end, which is not modelled.

The last call of `Summarize` sends all the section summaries at once. Its comment,
"so the returned summary stays within the budget" (`summarizer.go:70`), is about the
answer; nothing bounds that call, and the models do not bound what a language model
answers.

### TokenBucket, RateQuota and Query

A tick is a second or so, `Minute` of them to a minute; the float64 tokens are counted
in parts, `Minute` to a token, so a tick is worth `Quota` parts and all amounts are
exact. What rounding does to float64 is left out. `age` is the time since `last`,
kept no longer than a full refill needs. `RateQuota` is the same limiter refilled at
every tick; `TokenBucket` implements it with `Refilled` as the mapping.
`QuotaInWindow` bounds the admissions in any window by burst plus refill. In a
first minute that is twice `quotaPerMinute`, where the documents speak of so many
requests a minute; a bucket with a burst means just that.

`Query` puts the limiter behind `RequireKey` and `RequireScope` and before the handler,
and `RAGService.Answer` behind it, one read after the other. Which of the searchable
videos are hit is open, and by how many chunks: the segments are listed once per chunk, so
one video's may be read several times with a retry in between, and one reference without
them makes the video's `"bare"`. Of
a run there is what the query reads: the row, its segments, its status, and the
deletion by the retry's first step. What a handler knows goes with its answer. The
buckets live in memory and a restart fills them (`Restart`).

## What the runs show

| run | instance | shows |
|---|---|---|
| `PipelineSafety` | 1 job (pdf), 3 workers, 2 retries, all faults | `TypeOK`, `SingleRunner`, `NoRunIsRefused`, `SearchableIsComplete`, `CompletedHasMaterial`, `StageMeansPersisted`, `StageOnlyAdvances`, implements `MaterialService` (`ServiceSpec`) |
| `PipelineProgress` | 2 jobs, 2 workers, no retry, provider faults, stop, overrun and stalls, fair | `CompletedIsFinal`, `EveryJobFinishes`, `ShutdownTerminates` |
| `ProviderCall` | 2 callers, threshold 2, 1 probe, cancellations, 1 retry, 2 polls, LlamaParse or another provider, fair | `TypeOK`, `CallTypeOK`, `ClosedBelowThreshold`, `ProbesBounded`, `StateMachine`, `EveryCallReturns`, `Recovers` |
| `JobCreation` | 3 requests, 2 intents, 2 names in both orders, one of them twice, database failures and lost acknowledgements, fair | `TypeOK`, `ConsumedHasJob`, `AnswersAreTrue`, `EveryRequestAnswered` |
| `WorkerLoops` | 2 jobs with a file each, one of which R2 refuses to delete, 1 retry, 2 workers, a buffer of 1, fair | `TypeOK`, `LoopsTypeOK`, `NoWakeLost`, `OnlyRetriesLoseTheirFile`, `PendingIsClaimed`, `OldFilesGo` |
| `RunContent` | every text of up to 6 characters and every phrase of up to 3 repeated up to 7 times, batches of 2, a budget of 2 tokens | `ChunksCoverText`, `EmbeddingsAligned`, `SectionsFit`, `SummaryOfWholeText` |
| `Query` | 2 clients with one key, 1 video, 2 tokens, 3 ticks a minute, windows of up to 2 ticks, fair | `TypeOK`, `QuotaInWindow`, `DeletedNotQuoted`, `ReferencesWhole`, `KeyNotStarved`, implements `RateQuota` (`EagerSpec`) |

Five more runs each end in a counterexample: a place where the code does other
than its comments or documents say (`findings` in `PROJECT.json`).

| run | what happens |
|---|---|
| `PipelineNoTranscript` | the transcript has no id, so with Postgres no job ever completes |
| `PipelineStranded` | SIGTERM cancels the claim after its UPDATE: the job stays processing, which nothing claims or retries |
| `PipelineStaleFailure` | a retry between the two halves of `fail`: the second marks the next attempt's finished video failed, so a completed job is never searchable and cannot be retried |
| `BreakerLeak` | a cancelled probe keeps its slot; with a limit of one the breaker refuses every call from then on |
| `RetentionStale` | an admin retries a failed job between the listing and the deletion: the file of a pending job goes, and the retry fails at its download |

`BreakerLeak` has the deployed limit: the mains leave `HalfOpenMaxCalls` 0 and each
provider's `New` makes it 1. The server passes the ctx of the request
(`handlers/query.go:36`), so one client that hangs up during the probe is enough to stop
POST /query until a restart.

Beside the runs there are six more configurations. `PipelineDeployed` checks
`OnlyTheTranscriptFails` on two jobs, two workers and two retries over the Postgres
repository, with stops, overruns and crashes; it holds, and is proved (below). The other
five end in a counterexample, too, each the precise form of a hazard that the properties
above permit or delimit:

| configuration | module | what happens |
|---|---|---|
| `PipelineHalfCompleted` | `MCJobPipeline` | the process dies between completing the job and completing its video (`processor.go:143-146`): `CompletedAtRest` fails, the material of a completed job is never searchable |
| `PipelineTakenBack` | `MCJobPipeline` | the update of the video fails: `fail` turns a job that is already completed failed, although `LLD_PLAN.md:752` has only the steps before do so; `CompletedIsFinal` therefore holds only while the database answers, and `MaterialService` permits the move |
| `PipelineCancelled` | `MCJobPipeline` | `jobCancel` ends a run, and both updates of `fail`, on the same ctx, fail with it (`processor.go:336-341`): the job stays processing, against `processor.go:73` (`FailureIsRecorded`) |
| `SegmentRace` | `MCJobCreation` | two requests ensure one new name: the one that waits gets neither the name nor an insert, and answers 500 (`EnsureFindsOrCreates`); `AnswersAreTrue` permits that |
| `BreakerCancellation` | `CircuitBreaker` | the ctx is done and `fn` has returned its error: the select may take the second, and the cancellation counts as a failure, against `breaker.go:85` (`CancellationsNotCounted`); the other properties of the breaker hold with either choice |

After a crash a job may stay processing; no document speaks of that, so nothing here calls
it a violation (`NobodyStranded` below says what strands a job).

### Bounds

- *Jobs.* Jobs share only the queue and the workers; the invariants are about one
  job at a time and three workers are enough for a run, a stale `fail` and a
  new claim of one job. The queue needs two jobs, and so does a shutdown with one
  in flight and one pending: the run on progress has them.
- *Retries* (`MaxRetries`): a bound of the model. Two retries give three attempts,
  one more than any pair of them that can meet. A retry is a claim like any other
  to the queue, so the run on progress has none.
- *Callers*: a probe and a late result or a new caller; threshold 2 separates a first
  failure from the tripping one; one probe is the deployed limit, at which a lost
  slot is fatal. One retry and two polls have a first, a last and one too many. The
  proofs cover any number of each.
- *Requests*: two for one intent and one for the other, or all for one; a cycle
  of waits and a lost race need two intents and two names.
- *Loops*: two jobs and two workers meet at one row, and a buffer of one is full with
  one wake; the file that cannot be deleted is listed with another; a second retry of a
  job adds nothing to its first.
- *Texts*: with six characters every arrangement of two sentences and their ends occurs;
  the repeated phrases give up to ten sentences, so windows with two, one or no
  sentence left, and sections with and without a boundary. A budget of two tokens
  makes sections of four characters, so most texts are split. The proofs cover texts of
  any length, any budget and any batch size.
- *Buckets*: three ticks a minute and two tokens make a tick worth two thirds of a token,
  so that levels off by a part occur; a window of two ticks is longer than a token
  takes. Windows begin at any moment, so one bound covers all of that length; the
  proofs cover every length.
- *Queries*: two clients race for one bucket; requests share nothing else, and videos
  share nothing, so one is enough for stale hits.
- Nothing else is bounded. Deadlock checking is on: a stopped process may be
  started again, and no system here should stop by itself. Only `JobCreation` ends, when
  every request has been answered, and `RunContent`, when its run is over, so their
  configurations turn the check off; `EveryRequestAnswered` says that nothing stops
  earlier.

### Fairness

`FairSpec` of the pipeline has weak fairness of each worker's steps except those that
may stall (`MayStall`), of some worker receiving a wake-up (the ticker sends again and
again, `worker.go:299`), of `GraceExceeded` (its timer fires while a run is in flight)
and of `Stopped` (`wg.Wait`). With that alone `ShutdownTerminates` holds: SIGTERM ends a
claim that stalls, `jobCancel` a run. `EveryJobFinishes` does not: a download that never
returns keeps its job processing and its worker busy, and no timeout of the code ends it
while the process is up. It is therefore a statement under an assumption about R2 and
Postgres, `CallsReturn`: that each call returns, late or with an error. Calls of the AI
providers return by themselves (`client.Timeout`, `EveryCallReturns`). Nothing is
assumed of admins, signals or of the service manager, which restarts on failure only.
`FairCallSpec` has weak fairness of each caller's steps (a request ends within
`client.Timeout`, timers fire) and of the clock; a breaker recovers only when it is
called, so it also assumes calls keep coming. It asks nothing of the provider, of what
it is asked or of the callers' patience: `Recovers` supposes the three from some moment
on. `JobCreation` has weak fairness of each request: the server runs its handlers, and
Postgres grants a free lock and resolves a deadlock. `FairLoopsSpec` has weak fairness
of the two tickers and of some worker's next step, and strong fairness of the claims,
that is, the database does not refuse every claim for ever. R2's `Delete` (`r2.go:98`)
and the statements have no timeout: that they return is assumed of R2 and Postgres.
Nothing is asked of the listener, of clients or admins. `FairSpec` of `Query` has weak
fairness of each handler's steps, of the clock, and of clients that ask again, which is
what starvation is about; runs, deletions and restarts may never happen.

## What is proved

For any jobs, workers, retries and faults (`JobPipelineProofs`), assuming only
what the ASSUMEs of `JobPipeline` say about its constants:

- `TypeCorrectness`, `MutualExclusion` (`SingleRunner`), `SearchSafety`
  (`SearchableIsComplete`), `CompletionSafety` (`CompletedHasMaterial`),
  `StageSafety` (`StageMeansPersisted`), all from `Invariance`;
- `ConstraintSafety` (`NoRunIsRefused`) and `StageProgress` (`StageOnlyAdvances`), each
  with a little more.

`SingleRunner` is not inductive: that nobody can claim or retry a job being run
follows from its status, and that the status is still what the runner left
follows from there being one runner. `IInv` therefore says, per worker, what its
label implies about its job's row (`JobOfWorker`), its video's row
(`VideoOfWorker`) and the stages (`StageOfWorker`); that two workers are `Apart`;
and what the rows show by themselves (`Rows`). The proof has one lemma per action.
Steps of a run go through `RunStepFrame`: they change rows of the runner's own job
only, so all other workers' facts stand. Steps that only set flags go through
`DetachedStep`. A worker at `failVideo` is deliberately outside `Apart`: it may
meet another run, and `Rows` survives because it only turns a status to failed.

`RowIInv` adds `NoRunIsRefused` itself to `IInv`: only `Cleanup` and `CreateVideo` replace a
row, on a job that no other worker runs, and every other statement leaves the id and the
row where they are (`RowsKept`), a late `FailByJobID` included. `StageReached` bounds the
stage of a job by the label of its runner, and from a label the run only writes later
stages.

`ServiceProofs` builds on these:

- `Refinement` (`Spec => ServiceSpec`), for all faults. `Published` says
  that a video is completed only while its job is, so that neither `fail` nor a retry
  withdraws what can be read; each action is then one of the moves `Allowed` for one
  job, and `ShownIsAllowed` turns such a move into a step of `MaterialService`. Where
  acknowledgements may be lost that does not hold, and the service asks less
  (`LossyStepAllowed`).
- `OnlyTheTranscriptFailsSafety` (`OnlyTheTranscriptFails`), over either repository; that
  providers and database do what they are asked is a premise of the property, while
  stops, overruns, crashes and stalls are not excluded. As no constraint refuses a run
  and every transaction goes through, `Clean` says that a worker in `fail` is there
  because the missing id was refused, with the stage of its transcript, or works on a
  ctx that is cancelled, and then marks nothing. The missing id, which
  `PipelineNoTranscript` shows, is therefore the only thing in `run` itself that makes a
  job fail, as far as it is modelled; with a repository that stores the transcript no
  job fails.
- `NobodyStranded`: `NoStrandedJob` holds while the only errors are the providers' (an
  overrun asks for a stop first), whatever stalls. A database error, a lost acknowledgement, a stop
  and a crash each break it by themselves, as `PipelineStranded` with that `Faults` shows,
  so nothing else strands a job. `Tended` says that a processing job has a worker
  inside `run` or at the first half of `fail`.
- `FirstAttemptSafety` (`FirstAttemptsAtRest`): `CompletedAtRest` holds for jobs that were
  never retried, while the database answers, the grace period is enough and
  nothing crashes; acknowledgements may be lost. Under those conditions only a job that
  was retried can end otherwise, as one does in `PipelineStaleFailure`. `Settled` says that whoever
  is at the second half of `fail` finds the job failed or retried since, and that a job completed
  before its video has a worker on its way to completing or failing it; `NoRunIsRefused`
  is what makes that `UpdateStatus` succeed.

For any set of callers and any limits (`CircuitBreakerProofs`): `TypeCorrectness`,
`ThresholdSafety` (`ClosedBelowThreshold`), `ProbeSafety` (`ProbesBounded`) and
`StateMachineSafety` (the action property `StateMachine`). The limit of probes is
inductive with `CounterCoversProbes`: while half-open the counter is at least the number
of probes in flight. It is a bound, not an equality, because a cancelled probe leaves
the counter up, the leak above. `CallSafety` carries all of them over to the calls of
`ProviderCall`, a corollary, since every step there is one of `CircuitBreaker` or leaves
its variables alone; `CallTypeCorrectness` bounds the attempts and polls.
`WaitingCallersLeakNoSlot` (`HalfOpenAdmits` when no caller hangs up) complements
`BreakerLeak`: without cancellations every slot counted belongs to a probe in flight
(`SlotsAreProbes`), so the leak takes a cancelled one.

For any requests, intents, names, lists and faults (`JobCreationProofs`):
`TypeCorrectness`, `IntentSafety` (`ConsumedHasJob`) and `AnswerSafety`
(`AnswersAreTrue`). The invariant adds four facts: two requests past `LockIntent` for
one intent are the same one, and the intent is still issued (`Locked`); a name belongs
to an open transaction that wants it (`Owned`); the names before the current one are
owned or present (`Ensured`); and whoever waits shares that name with a request for
another intent (`Caused`). From the last comes the clause that only such requests see an
internal error.

For any jobs, workers and buffer, and any files R2 refuses (`WorkerLoopsProofs`):
`FileSafety` (`OnlyRetriesLoseTheirFile`), by `ListedIsDue`, a listed job is still due
or has been retried since, and `FinishedIsFinal`; `LoopsFileSafety`, since every step
of the loops is one of `Retention`'s (`StepOfRetention`); `WakeSafety`
(`NoWakeLost`), with `ToldIsPending` and `HoldsAJob`: a worker goes back to waiting only
when every pending job is locked by another one, which is then not waiting.

For any keys, clients, videos, quota, length of a minute and of a window
(`QueryProofs`): `QuotaSafety` (`QuotaInWindow`) from `Paid`, what was admitted and what
is left is never more than burst and refill; `EagerRefinement`
(`Spec => EagerSpec`), where `TickFacts` and `AllowFacts` say what each step does to the
level; `DeletionSafety` (`DeletedNotQuoted`) and `ReferenceSafety`
(`ReferencesWhole`) from what a handler knows between its reads (`HiddenUnread`,
`HitsAreTagged`, `IdleHoldsNothing`): a video deleted before the question stays deleted
while its row is there, so no later read finds it.

For any texts, batch size and budget (`TextWindowsProofs`, `RunContentProofs`):
`ChunkSafety` (`ChunksCoverText`), `EmbeddingSafety` (`EmbeddingsAligned`), `SectionSafety`
(`SectionsFit`) and `SummarySafety` (`SummaryOfWholeText`). `Sentences`, `Windows` and
`Sections` are recursive functions, that is, `CHOOSE f : f = [...]`: for each,
`RecursionExists` gives a solution of the recursion and an induction says what every
solution computes (`SentencesAre`, `WindowsAre`, `SectionsAre`). The library's
induction takes an operator, which the provers here cannot instantiate, so the induction is
over membership in a set, by the least element that the well-founded order of
the naturals provides (`LeastElement`). `IInv` says of a run that the chunks so far are
those of the text and the rows those of the batches embedded (`RowsInv`), and that
the sections read and the rest together are the text (`SummaryInv`), whichever attempt
it is.

Model-checked only: liveness. Fairness and ENABLED are beyond the prover.

## Not modelled

- Tenants and row level security: enforced by Postgres; there is one tenant here.
- `last_used_at` of a key, written in the background and read by nothing; audit
  records, best effort and never read.
- Formatting, DTOs, logging, health, CORS, and configuration, whose constraints are the
  ASSUMEs. The reads GET /jobs and GET /videos return rows and change nothing.
- Building requests and streaming bodies (`buildMultipart` of groq), prompts, presigned
  URLs, the lengths of waits.
- A video with only some of its job's segments (see `CopyJobSegments`): no document says
  what it may be shown as, and it is not searchable before all are attached.
- The `buckets` map of the limiter is never pruned; it grows with the keys, which are
  rows an operator inserts.
- Nothing promises a summary row after a crash between completing a job and summarizing
  (`processor.go:151`), or says whether a retry may bring a deleted material back
  (`video.go:83`): both are steps of `JobPipeline`, and no property decides them.

What could follow: the reads of the admin API against the pipeline.

## Running

    tlc -config PipelineSafety.cfg MCJobPipeline.tla
    tlc -config PipelineDeployed.cfg MCJobPipeline.tla
    tlc -config ProviderCall.cfg ProviderCall.tla
    tlc -config JobCreation.cfg MCJobCreation.tla
    tlc -config WorkerLoops.cfg WorkerLoops.tla
    tlc -config RunContent.cfg RunContent.tla
    tlc -config Query.cfg Query.tla
    tlc -config BreakerLeak.cfg CircuitBreaker.tla
    tlapm JobPipelineProofs.tla
    tlapm ServiceProofs.tla
    tlapm JobCreationProofs.tla
    tlapm WorkerLoopsProofs.tla
    tlapm CircuitBreakerProofs.tla
    tlapm QueryProofs.tla
    tlapm TextWindowsProofs.tla
    tlapm RunContentProofs.tla
