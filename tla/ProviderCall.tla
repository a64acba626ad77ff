---------------------------- MODULE ProviderCall ----------------------------
(***************************************************************************)
(* The calls of one provider: CircuitBreaker with the fn of each Execute   *)
(* opened up, into the HTTP exchanges it makes (groq, deepseek and         *)
(* cloudflareai one; llamaparse an upload, polls and a fetch) and, in each *)
(* exchange, the attempts and backoffs of providers/httpclient.            *)
(***************************************************************************)
EXTENDS CircuitBreaker

CONSTANTS
  MaxRetries,  \* httpclient.maxRetries
  MaxPolls     \* llamaparse.Config.MaxPolls, 60 when 0

ASSUME MaxRetriesAssumption == MaxRetries \in Nat
ASSUME MaxPollsAssumption == MaxPolls \in Nat \ {0}

VARIABLES
  parser,    \* the provider is LlamaParse
  provider,  \* "up" when it is reached and answers within client.Timeout, and
             \* not with a status that is retried
  fn,        \* where the fn of each caller is
  exchange,  \* the exchange it is in
  attempt,   \* the attempts made of it, the present one included
  polls,     \* the polls made
  lost       \* history: a caller hung up during a probe of this half-open period

locals   == <<fn, exchange, attempt, polls>>
calls    == <<parser, provider, locals, lost>>
callVars == <<vars, calls>>

Places    == {"off",        \* not running, or nobody waits for it any more
              "ready",      \* about to make an attempt
              "in-flight",  \* the request sent
              "backoff",    \* in httpclient's sleep
              "pausing"}    \* waiting for pollEvery
Exchanges == {"submit", "poll", "fetch"}

CallTypeOK ==
  /\ parser \in BOOLEAN
  /\ provider \in {"up", "down"}
  /\ fn \in [Callers -> Places]
  /\ exchange \in [Callers -> Exchanges]
  /\ attempt \in [Callers -> 1..MaxRetries + 1]
  /\ polls \in [Callers -> 0..MaxPolls]
  /\ lost \in BOOLEAN

CallInit ==
  /\ Init
  /\ parser \in BOOLEAN
  /\ provider \in {"up", "down"}
  /\ fn = [c \in Callers |-> "off"]
  /\ exchange = [c \in Callers |-> "submit"]
  /\ attempt = [c \in Callers |-> 1]
  /\ polls = [c \in Callers |-> 0]
  /\ lost = FALSE

-----------------------------------------------------------------------------
(* The ends of fn *)

\* fn starts, or is over and has no locals any more.
Reset(c, place) ==
  /\ fn' = [fn EXCEPT ![c] = place]
  /\ exchange' = [exchange EXCEPT ![c] = "submit"]
  /\ attempt' = [attempt EXCEPT ![c] = 1]
  /\ polls' = [polls EXCEPT ![c] = 0]
  /\ UNCHANGED <<parser, provider>>

\* fn returns r; the steps that do so are otherwise those of CircuitBreaker.
Return(c, r) == Finish(c) /\ result'[c] = r /\ Reset(c, "off") /\ UNCHANGED lost

Goto(c, place) ==
  /\ fn' = [fn EXCEPT ![c] = place]
  /\ UNCHANGED <<vars, parser, provider, lost>>

NextExchange(c, e, place) ==
  /\ exchange' = [exchange EXCEPT ![c] = e]
  /\ attempt' = [attempt EXCEPT ![c] = 1]
  /\ Goto(c, place)

-----------------------------------------------------------------------------
(* httpclient: one exchange *)

\* client.Do on a ctx that is done sends nothing.  Before it, at each attempt,
\* the body of a submission is built, from the local file: an error ends fn.
Send(c) ==
  /\ fn[c] = "ready"
  /\ \/ /\ ctx[c] = "live"
        /\ Goto(c, "in-flight")
        /\ UNCHANGED <<exchange, attempt, polls>>
     \/ ctx[c] = "done" /\ Return(c, "ctxError")
     \/ exchange[c] = "submit" /\ Return(c, "error")

\* Variant: one attempt more than maxRetries allows.
TransientOffByOne(c) ==
  /\ provider = "down"
  /\ \/ /\ attempt[c] <= MaxRetries + 1
        /\ Goto(c, "backoff")
        /\ UNCHANGED <<exchange, attempt, polls>>
     \/ attempt[c] > MaxRetries + 1 /\ Return(c, "error")

\* A network error, an expired client.Timeout, 429 or 500, 502, 503, 504: the
\* same request once more, also one the provider has acted on.
Transient(c) ==
  /\ provider = "down"
  /\ \/ /\ attempt[c] <= MaxRetries
        /\ Goto(c, "backoff")
        /\ UNCHANGED <<exchange, attempt, polls>>
     \/ attempt[c] > MaxRetries /\ Return(c, "error")

\* Any other status, or a body without what was asked for: no transcript, no
\* choices, fewer embeddings than texts, no job id, a job that ended in error.
\* A provider that is up gives such answers too, to what it cannot use.
Unusable(c) == Return(c, "error")

\* Variant: the attempts are not counted.
BackoffForgets(c) ==
  /\ fn[c] = "backoff"
  /\ \/ Goto(c, "ready") /\ UNCHANGED <<exchange, attempt, polls>>
     \/ ctx[c] = "done" /\ Return(c, "ctxError")

\* sleep: the timer, or the ctx; either when both are ready.
Backoff(c) ==
  /\ fn[c] = "backoff"
  /\ \/ /\ attempt' = [attempt EXCEPT ![c] = @ + 1]
        /\ Goto(c, "ready")
        /\ UNCHANGED <<exchange, polls>>
     \/ ctx[c] = "done" /\ Return(c, "ctxError")

-----------------------------------------------------------------------------
(* The providers: what follows a usable answer *)

\* Parse: a job id begins the polling, SUCCESS ends it.
Answered(c) ==
  \/ (~parser \/ exchange[c] = "fetch") /\ Return(c, "ok")
  \/ /\ parser /\ exchange[c] = "submit"
     /\ NextExchange(c, "poll", "pausing") /\ UNCHANGED polls
  \/ /\ parser /\ exchange[c] = "poll"
     /\ NextExchange(c, "fetch", "ready") /\ UNCHANGED polls

\* waitUntilDone: the job is not done yet.
StillPending(c) ==
  /\ exchange[c] = "poll"
  /\ \/ polls[c] < MaxPolls /\ NextExchange(c, "poll", "pausing") /\ UNCHANGED polls
     \/ polls[c] = MaxPolls /\ Return(c, "error")

Pause(c) ==
  /\ fn[c] = "pausing"
  /\ \/ /\ polls' = [polls EXCEPT ![c] = @ + 1]
        /\ NextExchange(c, "poll", "ready")
     \/ ctx[c] = "done" /\ Return(c, "ctxError")

Respond(c) ==
  /\ fn[c] = "in-flight"
  /\ \/ Answered(c) \/ StillPending(c) \/ Transient(c) \/ Unusable(c)
     \/ ctx[c] = "done" /\ Return(c, "ctxError")

-----------------------------------------------------------------------------
(* The steps of CircuitBreaker around it *)

Enter(c) == Acquire(c) /\ Reset(c, "ready") /\ UNCHANGED lost

\* The result of the call is recorded.
RecordResult(c) ==
  /\ Record(c)
  /\ lost' = (lost /\ state' = "half-open")
  /\ UNCHANGED <<parser, provider, locals>>

\* A call that is given up leaves its fn running, but with a ctx that is done
\* fn makes no request any more and its result goes nowhere.
LeaveFn(c) ==
  /\ Select(c) \/ Cancel(c)
  /\ \/ call'[c] = "idle" /\ Reset(c, "off") /\ lost' = (lost \/ c \in probes)
     \/ call'[c] # "idle" /\ UNCHANGED calls

CallStep(c) ==
  Enter(c) \/ Send(c) \/ Respond(c) \/ Backoff(c) \/ Pause(c) \/ RecordResult(c)

\* The provider goes down, or comes back.
Toggle ==
  /\ provider' = IF provider = "up" THEN "down" ELSE "up"
  /\ UNCHANGED <<vars, parser, locals, lost>>

CallNext ==
  \/ \E c \in Callers : CallStep(c) \/ LeaveFn(c)
  \/ (EvaluateTimeout \/ Elapse) /\ UNCHANGED calls
  \/ Toggle

CallSpec == CallInit /\ [][CallNext]_callVars

(***************************************************************************)
(* Goroutines run, a request ends within client.Timeout, timers fire, time *)
(* passes, and there are jobs or questions left, so that calls keep coming. *)
(* Nothing is asked of the provider or of the callers' patience.           *)
(***************************************************************************)
FairCallSpec ==
  /\ CallSpec
  /\ \A c \in Callers : WF_callVars(CallStep(c)) /\ WF_callVars(Select(c) /\ LeaveFn(c))
  /\ WF_callVars(Elapse /\ UNCHANGED calls)

-----------------------------------------------------------------------------
(* Properties *)

(***************************************************************************)
(* A call returns also when the provider never does what it is asked and   *)
(* nobody hangs up.                                                        *)
(***************************************************************************)
EveryCallReturns == \A c \in Callers : call[c] # "idle" ~> call[c] = "idle"

(***************************************************************************)
(* Once the provider answers for good, is asked only what it can answer,   *)
(* and no caller hangs up any more, the breaker closes for good, however   *)
(* many results of the bad time are still on their way.  A caller that     *)
(* hangs up loses the slot of its probe (breaker.go:116) or may count as a *)
(* failure (breaker.go:118); a local file that cannot be read, or a 4xx,   *)
(* counts as a failure of a provider that is up.                           *)
(***************************************************************************)
CallersWait == ~lost /\ \A c \in Callers : ctx[c] = "live"

AsksAnswerable ==
  [][\A c \in Callers :
       result[c] # "error" /\ result'[c] = "error" => provider = "down"]_callVars

Recovers ==
  <>[]CallersWait /\ <>[](provider = "up") /\ <>AsksAnswerable => <>[](state = "closed")
=============================================================================
