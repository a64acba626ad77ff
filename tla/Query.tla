-------------------------------- MODULE Query --------------------------------
(***************************************************************************)
(* POST /api/v1/query from the middleware to the answer (router.go,        *)
(* middleware/auth.go, middleware/ratelimit.go, handlers/query.go,         *)
(* core/rager): a chain of reads, each in a transaction of its own, around *)
(* two provider calls, while runs, retries and deletions change the videos.*)
(* A hit stands for the chunks found of one video.                         *)
(***************************************************************************)
EXTENDS TokenBucket

INSTANCE Tables WITH Workers <- {}

CONSTANTS Clients, Videos

VARIABLES
  scope,     \* api_keys.scope
  videos,    \* the rows of videos
  at,        \* how far each client's request has come
  key,       \* the key it carries
  hits,      \* the videos of its hits whose segments are still to be listed
  refs,      \* references: for each video quoted, whether its segments are listed
  reply,     \* the answer to the last request
  lost,      \* those of its hits whose row a retry has deleted since the search
  hidden     \* history: the videos deleted when it began, their rows still there

request == <<at, key, hits, refs, reply, lost, hidden>>
vars    == <<bucketVars, scope, videos, request>>

Places  == {"idle", "key", "scope", "limit", "embed", "search", "segments", "answer"}
Replies == {"none", "refused", "rate limited", "error", "answered"}

Quoted == [Videos -> {"no", "bare", "listed"}]
NoRefs == [v \in Videos |-> "no"]

QueryTypeOK ==
  /\ scope \in [Keys -> {"admin", "query"}]
  /\ videos \in [Videos -> VideoRow]
  /\ at \in [Clients -> Places]
  /\ key \in [Clients -> Keys]
  /\ hits \in [Clients -> SUBSET Videos]
  /\ refs \in [Clients -> Quoted]
  /\ reply \in [Clients -> Replies]
  /\ lost \in [Clients -> SUBSET Videos]
  /\ hidden \in [Clients -> SUBSET Videos]

TypeOK == BucketTypeOK /\ QueryTypeOK

Init ==
  /\ BucketInit
  /\ scope \in [Keys -> {"admin", "query"}]
  /\ videos = [v \in Videos |-> NoVideo]
  /\ at = [c \in Clients |-> "idle"]
  /\ key \in [Clients -> Keys]
  /\ hits = [c \in Clients |-> {}]
  /\ refs = [c \in Clients |-> NoRefs]
  /\ reply = [c \in Clients |-> "none"]
  /\ lost = [c \in Clients |-> {}]
  /\ hidden = [c \in Clients |-> {}]

-----------------------------------------------------------------------------
(* The request *)

Goto(c, place) == at' = [at EXCEPT ![c] = place]

\* What the handler knows of its request is gone with the answer.
Forget(c) ==
  /\ hits' = [hits EXCEPT ![c] = {}]
  /\ refs' = [refs EXCEPT ![c] = NoRefs]
  /\ lost' = [lost EXCEPT ![c] = {}]
  /\ hidden' = [hidden EXCEPT ![c] = {}]

Answer(c, r) ==
  /\ Goto(c, "idle")
  /\ reply' = [reply EXCEPT ![c] = r]
  /\ Forget(c)

Ask(c) ==
  /\ at[c] = "idle" /\ Goto(c, "key")
  /\ \E k \in Keys : key' = [key EXCEPT ![c] = k]
  /\ reply' = [reply EXCEPT ![c] = "none"]
  /\ hidden' = [hidden EXCEPT ![c] = {v \in Videos : videos[v].deleted}]
  /\ UNCHANGED <<bucketVars, scope, videos, hits, refs, lost>>

\* From one step of the request to the next; the chain does not change the tables.
Pass(c, place) == Goto(c, place) /\ UNCHANGED <<reply, hits, refs, lost, hidden>>
Reads == UNCHANGED <<scope, videos, key>>

\* RequireKey: there may be no such key, a revoked one, or no database.
Authenticate(c) ==
  /\ at[c] = "key"
  /\ Pass(c, "scope") \/ Answer(c, "refused")
  /\ UNCHANGED bucketVars /\ Reads

\* RequireScope("query")
CheckScope(c) ==
  /\ at[c] = "scope"
  /\ IF scope[key[c]] = "query" THEN Pass(c, "limit") ELSE Answer(c, "refused")
  /\ UNCHANGED bucketVars /\ Reads

\* Limit
Limit(c) ==
  /\ at[c] = "limit"
  /\ \/ Admit(key[c]) /\ Pass(c, "embed")
     \/ Deny(key[c]) /\ Answer(c, "rate limited")
  /\ Reads

\* A provider or the database fails, or the question is not a valid one.
Fails(c) ==
  /\ at[c] \in {"embed", "search", "segments", "answer"}
  /\ Answer(c, "error")
  /\ UNCHANGED bucketVars /\ Reads

EmbedQuestion(c) ==
  /\ at[c] = "embed" /\ Pass(c, "search")
  /\ UNCHANGED bucketVars /\ Reads

\* Variant: the filter forgets deleted_at.
NearestWithDeleted == {v \in Videos : videos[v].status = "completed"}

\* What SearchChunks may return chunks of.
Nearest == {v \in Videos : Searchable(videos[v])}

\* Search: some of the nearest, by the embedding, the segment and the limit.
Search(c) ==
  /\ at[c] = "search"
  /\ \/ Answer(c, "answered")
     \/ \E found \in SUBSET Nearest \ {{}} :
          /\ hits' = [hits EXCEPT ![c] = found] /\ Goto(c, "segments")
          /\ UNCHANGED <<reply, refs, lost, hidden>>
  /\ UNCHANGED bucketVars /\ Reads

\* ListNamesByVideoID, for the next chunk found, which need not be the last one
\* of its video: nothing for a row that is gone.  A video is "bare" here if one
\* of its references is.
ListSegments(c) ==
  /\ at[c] = "segments"
  /\ \E v \in hits[c] :
       /\ refs' = [refs EXCEPT ![c][v] = IF videos[v].tagged /\ v \notin lost[c] /\ @ # "bare"
                                           THEN "listed" ELSE "bare"]
       /\ \/ /\ hits' = [hits EXCEPT ![c] = @ \ {v}]
             /\ Goto(c, IF hits[c] = {v} THEN "answer" ELSE "segments")
          \/ UNCHANGED <<hits, at>>
  /\ UNCHANGED <<bucketVars, reply, lost, hidden>> /\ Reads

\* AnswerQuery, and the answer with its references.
AnswerQuery(c) ==
  /\ at[c] = "answer"
  /\ Answer(c, "answered")
  /\ UNCHANGED bucketVars /\ Reads

Serve(c) ==
  \/ Authenticate(c) \/ CheckScope(c) \/ Limit(c) \/ EmbedQuestion(c)
  \/ Search(c) \/ ListSegments(c) \/ AnswerQuery(c) \/ Fails(c)

-----------------------------------------------------------------------------
(* What goes on meanwhile *)

Update(v, row) ==
  /\ videos' = [videos EXCEPT ![v] = row]
  /\ UNCHANGED <<bucketVars, scope, at, key, hits, refs, reply>>

\* A run, as far as the columns of its video go (JobPipeline has its steps).
\* A retry deletes whatever row there is.
Run(v) ==
  \/ /\ videos[v] = NoVideo
     /\ Update(v, InsertedVideo(NoID))
     /\ UNCHANGED <<lost, hidden>>
  \/ /\ videos[v].status = "processing"
     /\ Update(v, IF videos[v].tagged THEN WithVideoStatus(videos[v], "completed")
                                      ELSE WithSegments(videos[v]))
     /\ UNCHANGED <<lost, hidden>>
  \/ /\ videos[v] # NoVideo
     /\ Update(v, DeletedByJobID(videos[v]))
     /\ lost' = [c \in Clients |-> lost[c] \union ({v} \intersect hits[c])]
     /\ hidden' = [c \in Clients |-> hidden[c] \ {v}]

\* DELETE /videos/:id
Delete(v) ==
  /\ videos[v].status # "none" /\ ~videos[v].deleted
  /\ Update(v, SoftDeleted(videos[v]))
  /\ UNCHANGED <<lost, hidden>>

Tick == TickBuckets /\ UNCHANGED <<scope, videos, request>>

\* The server restarts: requests under way get no answer.
Restart ==
  /\ RestartBuckets
  /\ at' = [c \in Clients |-> "idle"]
  /\ hits' = [c \in Clients |-> {}]
  /\ refs' = [c \in Clients |-> NoRefs]
  /\ lost' = [c \in Clients |-> {}]
  /\ hidden' = [c \in Clients |-> {}]
  /\ UNCHANGED <<scope, videos, key, reply>>

Next ==
  \/ \E c \in Clients : Ask(c) \/ Serve(c)
  \/ \E v \in Videos : Run(v) \/ Delete(v)
  \/ Tick \/ Restart

Spec == Init /\ [][Next]_vars

(***************************************************************************)
(* Handlers run to their end (every provider call returns, ProviderCall),  *)
(* the clock runs, and clients that have been answered ask again.          *)
(***************************************************************************)
FairSpec ==
  /\ Spec
  /\ \A c \in Clients : WF_vars(Ask(c)) /\ WF_vars(Serve(c))
  /\ WF_vars(Tick)

-----------------------------------------------------------------------------
(* Properties *)

(***************************************************************************)
(* "Materi tidak muncul di query" (docs/04_api_contracts.md:12): a video   *)
(* whose deletion was answered before the question was asked is not quoted *)
(* in its answer, unless a retry has put a new row in its place.           *)
(***************************************************************************)
DeletedNotQuoted ==
  \A c \in Clients : \A v \in hidden[c] : at[c] = "answer" => refs[c][v] = "no"

(***************************************************************************)
(* A reference lists the segments of its video, although they are read     *)
(* after the search: only a retry that deletes the row in between leaves   *)
(* a reference without them.                                               *)
(***************************************************************************)
ReferencesWhole ==
  \A c \in Clients, v \in Videos :
    at[c] = "answer" /\ refs[c][v] = "bare" => v \in lost[c]

(***************************************************************************)
(* The clients of a key that the limiter has refused, and refuses again,   *)
(* are let through again and again as well: refusals cost nothing, however *)
(* often they ask.                                                         *)
(***************************************************************************)
KeyNotStarved ==
  \A k \in Keys :
    []<>(\E c \in Clients : key[c] = k /\ reply[c] = "rate limited")
      => []<>(\E c \in Clients : key[c] = k /\ at[c] = "embed")
=============================================================================
