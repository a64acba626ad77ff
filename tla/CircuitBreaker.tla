--------------------------- MODULE CircuitBreaker ---------------------------
(***************************************************************************)
(* One breaker of internal/circuitbreaker, shared by the goroutines that   *)
(* call a provider.  A step is what Execute does under the mutex, or one   *)
(* event of the call it guards: fn runs without the mutex, so a result may *)
(* reach a breaker that has moved on since the call was admitted.          *)
(***************************************************************************)
EXTENDS Naturals, FiniteSets

CONSTANTS
  Callers,           \* the goroutines that call the provider
  MaxFailures,       \* config.MaxFailures, positive (internal/config/config.go:95)
  HalfOpenMaxCalls,  \* config.HalfOpenMaxCalls, 0 for no limit; the New of each
                     \* provider makes it 1 (groq.go:58)
  Cancels            \* whether the ctx of a call may be done before fn returns

ASSUME MaxFailuresAssumption == MaxFailures \in Nat \ {0}
ASSUME HalfOpenMaxCallsAssumption == HalfOpenMaxCalls \in Nat
ASSUME CancelsAssumption == Cancels \in BOOLEAN

VARIABLES
  state, failures, halfOpenCalls,  \* fields of Breaker
  expired,   \* Timeout has elapsed since openedAt
  call,      \* where each caller is in Execute
  ctx,       \* the ctx of its call
  result,    \* what fn returned to it
  probes     \* history: the callers admitted in the present half-open period
             \* whose call is not over

vars    == <<state, failures, halfOpenCalls, expired, call, ctx, result, probes>>
breaker == <<state, failures, halfOpenCalls>>

States  == {"closed", "open", "half-open"}
Calls   == {"idle",       \* not in Execute
            "starting",   \* admitted, fn running, the select not reached yet
            "waiting",    \* blocked in the select
            "recording"}  \* the select has taken fn's result
Results == {"none", "ok", "error", "ctxError"}

TypeOK ==
  /\ state \in States
  /\ failures \in 0..MaxFailures
  /\ halfOpenCalls \in Nat
  /\ expired \in BOOLEAN
  /\ call \in [Callers -> Calls]
  /\ ctx \in [Callers -> {"live", "done"}]
  /\ result \in [Callers -> Results]
  /\ probes \in SUBSET Callers

Init ==
  /\ state = "closed" /\ failures = 0 /\ halfOpenCalls = 0
  /\ expired = FALSE
  /\ call = [c \in Callers |-> "idle"]
  /\ ctx = [c \in Callers |-> "live"]
  /\ result = [c \in Callers |-> "none"]
  /\ probes = {}

-----------------------------------------------------------------------------
(* The steps under the mutex *)

\* evaluateTimeout: the timeout turns an open breaker half-open, lazily.
TimedOut == state = "open" /\ expired
Effective == IF TimedOut THEN "half-open" ELSE state
UsedSlots == IF TimedOut THEN 0 ELSE halfOpenCalls

\* State(): nothing but evaluateTimeout.
EvaluateTimeout ==
  /\ TimedOut
  /\ state' = "half-open" /\ halfOpenCalls' = 0
  /\ UNCHANGED <<failures, expired, call, ctx, result, probes>>

\* Variant: one call more than the limit.
FreeSlotOffByOne == HalfOpenMaxCalls = 0 \/ UsedSlots <= HalfOpenMaxCalls

FreeSlot == HalfOpenMaxCalls = 0 \/ UsedSlots < HalfOpenMaxCalls

Admitted(c) ==
  /\ call' = [call EXCEPT ![c] = "starting"]
  /\ \E alive \in {"live"} \union (IF Cancels THEN {"done"} ELSE {}) :
       ctx' = [ctx EXCEPT ![c] = alive]
  /\ UNCHANGED <<failures, expired, result>>

\* allowAcquire; a refusal returns ErrOpen and changes nothing.  halfOpenCalls
\* is read only when there is a limit, so it counts only then.
Acquire(c) ==
  /\ call[c] = "idle"
  /\ \/ /\ Effective = "closed"
        /\ UNCHANGED <<state, halfOpenCalls, probes>>
     \/ /\ Effective = "half-open" /\ FreeSlot
        /\ state' = "half-open"
        /\ halfOpenCalls' = IF HalfOpenMaxCalls = 0 THEN 0 ELSE UsedSlots + 1
        /\ probes' = probes \union {c}
  /\ Admitted(c)

\* open()
Open ==
  /\ state' = "open" /\ expired' = FALSE
  /\ halfOpenCalls' = 0

\* Variant: a success closes whatever the state.
SuccessAlwaysCloses ==
  /\ failures' = 0 /\ halfOpenCalls' = 0
  /\ state' = "closed"
  /\ UNCHANGED expired

\* Variant: closing keeps the failures counted before.
SuccessKeepsFailures ==
  /\ halfOpenCalls' = 0
  /\ state' = IF state = "half-open" THEN "closed" ELSE state
  /\ UNCHANGED <<failures, expired>>

Success ==
  /\ failures' = 0 /\ halfOpenCalls' = 0
  /\ state' = IF state = "half-open" THEN "closed" ELSE state
  /\ UNCHANGED expired

CountFailure ==
  /\ failures' = failures + 1
  /\ IF failures + 1 >= MaxFailures THEN Open
     ELSE UNCHANGED <<state, expired, halfOpenCalls>>

\* Variant: only a closed breaker reacts to a failure.
FailureKeepsProbing ==
  \/ state = "closed" /\ CountFailure
  \/ state # "closed" /\ UNCHANGED <<breaker, expired>>

\* Variant: an open breaker counts late failures too.
FailureAlwaysCounts ==
  \/ state = "half-open" /\ Open /\ UNCHANGED failures
  \/ state # "half-open" /\ CountFailure

Failure ==
  \/ state = "half-open" /\ Open /\ UNCHANGED failures
  \/ state = "closed" /\ CountFailure
  \/ state = "open" /\ UNCHANGED <<breaker, expired>>

Leave(c) ==
  /\ call' = [call EXCEPT ![c] = "idle"]
  /\ ctx' = [ctx EXCEPT ![c] = "live"]
  /\ result' = [result EXCEPT ![c] = "none"]

\* record
Record(c) ==
  /\ call[c] = "recording"
  /\ IF result[c] = "ok" THEN Success ELSE Failure
  /\ Leave(c)
  /\ probes' = IF state' = "half-open" THEN probes \ {c} ELSE {}

-----------------------------------------------------------------------------
(* The call, outside the mutex *)

\* fn returns, whatever it has done.  A goroutine blocked in the select takes
\* the result at once.
Finish(c) ==
  /\ call[c] \in {"starting", "waiting"} /\ result[c] = "none"
  /\ \E r \in {"ok", "error"} \union (IF ctx[c] = "done" THEN {"ctxError"} ELSE {}) :
       result' = [result EXCEPT ![c] = r]
  /\ call' = [call EXCEPT ![c] = IF @ = "waiting" THEN "recording" ELSE @]
  /\ UNCHANGED <<breaker, expired, ctx, probes>>

\* Execute reaches the select: it takes one of the cases that are ready, or
\* blocks.
Select(c) ==
  /\ call[c] = "starting"
  /\ \/ /\ ctx[c] = "live" /\ result[c] = "none"
        /\ call' = [call EXCEPT ![c] = "waiting"]
        /\ UNCHANGED <<ctx, result, probes>>
     \/ /\ result[c] # "none"
        /\ call' = [call EXCEPT ![c] = "recording"]
        /\ UNCHANGED <<ctx, result, probes>>
     \/ /\ ctx[c] = "done"
        /\ Leave(c)
        /\ probes' = probes \ {c}
  /\ UNCHANGED <<breaker, expired>>

\* The ctx of a call is done: a blocked Execute returns ctx.Err(), recording
\* nothing; fn goes on and its result is dropped.
Cancel(c) ==
  /\ Cancels
  /\ \/ /\ call[c] = "starting" /\ ctx[c] = "live"
        /\ ctx' = [ctx EXCEPT ![c] = "done"]
        /\ UNCHANGED <<call, result, probes>>
     \/ /\ call[c] = "waiting"
        /\ Leave(c)
        /\ probes' = probes \ {c}
  /\ UNCHANGED <<breaker, expired>>

-----------------------------------------------------------------------------
(* The clock *)

Elapse ==
  /\ state = "open" /\ ~expired
  /\ expired' = TRUE
  /\ UNCHANGED <<breaker, call, ctx, result, probes>>

-----------------------------------------------------------------------------
Next ==
  \/ EvaluateTimeout
  \/ \E c \in Callers : Acquire(c) \/ Record(c) \/ Finish(c) \/ Select(c) \/ Cancel(c)
  \/ Elapse

Spec == Init /\ [][Next]_vars

-----------------------------------------------------------------------------
(* Properties *)

(***************************************************************************)
(* A closed breaker is below the threshold: whatever results arrive late,  *)
(* closing forgets the failures counted before the trip.                   *)
(***************************************************************************)
ClosedBelowThreshold == state = "closed" => failures < MaxFailures

(***************************************************************************)
(* No more than HalfOpenMaxCalls probes of one half-open period are in     *)
(* flight, although results of earlier calls may reset the counter.        *)
(***************************************************************************)
ProbesBounded == HalfOpenMaxCalls > 0 => Cardinality(probes) <= HalfOpenMaxCalls

Moves == {<<"closed", "open">>, <<"open", "half-open">>,
          <<"half-open", "closed">>, <<"half-open", "open">>}

(***************************************************************************)
(* The package comment: closed, open, half-open, closed.  The only other   *)
(* way is from half-open back to open; no late result moves an open        *)
(* breaker, nothing leaves closed but for open.                            *)
(***************************************************************************)
StateMachine == [][state' # state => <<state, state'>> \in Moves]_vars

(***************************************************************************)
(* "While half-open, up to HalfOpenMaxCalls probe calls are allowed"       *)
(* (breaker.go:80): when none is in flight another one is let in.          *)
(***************************************************************************)
HalfOpenAdmits == state = "half-open" /\ probes = {} => FreeSlot

(***************************************************************************)
(* "If ctx is cancellable and is done while fn is still running, Execute   *)
(* returns ctx.Err() without recording the call as a provider failure"     *)
(* (breaker.go:85): what fn returns because its ctx is done counts as      *)
(* nothing.                                                                *)
(***************************************************************************)
CancellationsNotCounted ==
  [][\A c \in Callers :
       call[c] = "recording" /\ result[c] = "ctxError" /\ call'[c] = "idle"
         => UNCHANGED <<state, failures>>]_vars
=============================================================================
