------------------------ MODULE CircuitBreakerProofs ------------------------
(***************************************************************************)
(* The safety of CircuitBreaker for any callers, threshold and limit,      *)
(* whatever fn does, so also of ProviderCall, whose steps are steps of the *)
(* breaker; and the limits of its attempts and polls.                      *)
(***************************************************************************)
EXTENDS ProviderCall, FiniteSetTheorems, TLAPS

(***************************************************************************)
(* ProbesBounded is not inductive alone: the probes are as few as the      *)
(* counter only because whatever resets the counter ends the period, so    *)
(* that no probe of that period is left to count.                          *)
(***************************************************************************)
CounterCoversProbes ==
  /\ IsFiniteSet(probes)
  /\ state # "half-open" => probes = {}
  /\ HalfOpenMaxCalls > 0 =>
       Cardinality(probes) <= halfOpenCalls /\ halfOpenCalls <= HalfOpenMaxCalls

IInv == TypeOK /\ ClosedBelowThreshold /\ CounterCoversProbes

\* New closes the breaker with every counter at zero.
LEMMA InitIInv == Init => IInv
<1> SUFFICES ASSUME Init PROVE IInv
  OBVIOUS
<1>0. failures \in 0..MaxFailures /\ failures < MaxFailures
  BY MaxFailuresAssumption DEF Init
<1>1. TypeOK /\ ClosedBelowThreshold
  BY <1>0 DEF Init, TypeOK, ClosedBelowThreshold, States, Calls, Results
<1>2. CounterCoversProbes
  BY HalfOpenMaxCallsAssumption, FS_EmptySet DEF Init, CounterCoversProbes
<1> QED
  BY <1>1, <1>2 DEF IInv

\* A period has one probe fewer, or the same.
LEMMA FewerProbes ==
  ASSUME CounterCoversProbes, NEW c, NEW rest, rest \in {probes, probes \ {c}},
         halfOpenCalls \in Nat
  PROVE  /\ IsFiniteSet(rest) /\ Cardinality(rest) <= Cardinality(probes)
         /\ Cardinality(rest) \in Nat /\ Cardinality(probes) \in Nat
<1>1. IsFiniteSet(probes) /\ Cardinality(probes) \in Nat
  BY FS_CardinalityType DEF CounterCoversProbes
<1>2. CASE rest = probes
  BY <1>1, <1>2
<1>3. CASE rest = probes \ {c}
  <2>1. /\ IsFiniteSet(rest)
        /\ Cardinality(rest) = IF c \in probes THEN Cardinality(probes) - 1
                                               ELSE Cardinality(probes)
    BY <1>1, <1>3, FS_RemoveElement
  <2>2. c \in probes => Cardinality(probes) # 0
    BY <1>1, FS_EmptySet
  <2> QED
    BY <1>1, <2>1, <2>2
<1> QED
  BY <1>2, <1>3

\* allowAcquire
LEMMA AcquireStep ==
  ASSUME IInv, NEW c \in Callers, Acquire(c)
  PROVE  IInv'
<1> USE MaxFailuresAssumption, HalfOpenMaxCallsAssumption
<1>1. TypeOK'
  BY DEF IInv, TypeOK, Acquire, Admitted, Effective, UsedSlots, States, Calls, Results
<1>2. CASE Effective = "closed" /\ UNCHANGED <<state, halfOpenCalls, probes>>
  BY <1>1, <1>2 DEF IInv, ClosedBelowThreshold, CounterCoversProbes, Acquire, Admitted
<1>3. CASE /\ Effective = "half-open" /\ FreeSlot
           /\ state' = "half-open"
           /\ halfOpenCalls' = IF HalfOpenMaxCalls = 0 THEN 0 ELSE UsedSlots + 1
           /\ probes' = probes \union {c}
  <2>1. IsFiniteSet(probes) /\ Cardinality(probes) \in Nat
    BY FS_CardinalityType DEF IInv, CounterCoversProbes
  <2>2. IsFiniteSet(probes') /\ Cardinality(probes') <= Cardinality(probes) + 1
        /\ Cardinality(probes') \in Nat
    BY <1>3, <2>1, FS_AddElement
  <2>3. HalfOpenMaxCalls > 0 => Cardinality(probes) <= UsedSlots /\ UsedSlots \in Nat
    <3>1. CASE TimedOut
      BY <3>1, FS_EmptySet DEF TimedOut, UsedSlots, IInv, CounterCoversProbes
    <3>2. CASE ~TimedOut
      BY <3>2 DEF UsedSlots, IInv, TypeOK, CounterCoversProbes
    <3> QED
      BY <3>1, <3>2
  <2>4. CounterCoversProbes'
    BY <1>3, <2>1, <2>2, <2>3 DEF CounterCoversProbes, FreeSlot
  <2> QED
    BY <1>1, <1>3, <2>4 DEF IInv, ClosedBelowThreshold
<1> QED
  BY <1>2, <1>3 DEF Acquire

\* record
LEMMA RecordStep ==
  ASSUME IInv, NEW c \in Callers, Record(c)
  PROVE  IInv'
<1> USE MaxFailuresAssumption, HalfOpenMaxCallsAssumption
<1>1. /\ state \in States /\ failures \in 0..MaxFailures /\ halfOpenCalls \in Nat
      /\ expired \in BOOLEAN /\ probes \subseteq Callers
      /\ state = "closed" => failures < MaxFailures
  BY DEF IInv, TypeOK, ClosedBelowThreshold
<1>2. /\ state' \in States /\ failures' \in 0..MaxFailures /\ halfOpenCalls' \in Nat
      /\ state' = "closed" => failures' < MaxFailures
      /\ state' # "half-open"
  <2>1. CASE Success
    BY <1>1, <2>1 DEF Success, States
  <2>2. CASE Failure
    <3>1. CASE state = "closed"
      <4>1. failures + 1 \in 0..MaxFailures /\ failures' = failures + 1
        BY <1>1, <2>2, <3>1 DEF Failure, CountFailure
      <4>2. CASE failures + 1 >= MaxFailures
        BY <1>1, <2>2, <3>1, <4>1, <4>2 DEF Failure, CountFailure, Open, States
      <4>3. CASE ~(failures + 1 >= MaxFailures)
        BY <1>1, <2>2, <3>1, <4>1, <4>3 DEF Failure, CountFailure, States
      <4> QED
        BY <4>2, <4>3
    <3>2. CASE state # "closed"
      BY <1>1, <2>2, <3>2 DEF Failure, Open, States, breaker
    <3> QED
      BY <3>1, <3>2
  <2> QED
    BY <2>1, <2>2 DEF Record
<1>3. probes' = {} /\ expired' \in {FALSE, expired}
  BY <1>2 DEF Record, Success, Failure, CountFailure, Open, breaker
<1>4. HalfOpenMaxCalls > 0 => halfOpenCalls' <= HalfOpenMaxCalls
  BY <1>1 DEF Record, Success, Failure, CountFailure, Open, breaker, IInv, CounterCoversProbes
<1>5. TypeOK'
  BY <1>1, <1>2, <1>3 DEF Record, Leave, IInv, TypeOK, Calls, Results
<1>6. CounterCoversProbes'
  BY <1>2, <1>3, <1>4, FS_EmptySet DEF CounterCoversProbes
<1> QED
  BY <1>2, <1>5, <1>6 DEF IInv, ClosedBelowThreshold

\* The steps of a call outside the mutex, which end a probe at most.
LEMMA OutsideStep ==
  ASSUME IInv, NEW c \in Callers, Finish(c) \/ Select(c) \/ Cancel(c)
  PROVE  IInv'
<1>1. UNCHANGED <<state, failures, halfOpenCalls, expired>> /\ probes' \in {probes, probes \ {c}}
  BY DEF Finish, Select, Cancel, Leave, breaker
<1>2. TypeOK'
  BY <1>1 DEF IInv, TypeOK, Finish, Select, Cancel, Leave, Calls, Results
<1>3. IsFiniteSet(probes') /\ Cardinality(probes') <= Cardinality(probes)
      /\ Cardinality(probes') \in Nat /\ Cardinality(probes) \in Nat
  BY <1>1, FewerProbes DEF IInv, TypeOK
<1>4. CounterCoversProbes'
  <2>1. state' # "half-open" => probes' = {}
    <3> SUFFICES ASSUME state' # "half-open" PROVE probes' = {}
      OBVIOUS
    <3>1. probes = {} /\ probes' \in {probes, probes \ {c}}
      BY <1>1 DEF IInv, CounterCoversProbes
    <3> QED
      BY <3>1
  <2>2. HalfOpenMaxCalls > 0 => Cardinality(probes') <= halfOpenCalls'
                               /\ halfOpenCalls' <= HalfOpenMaxCalls
    BY <1>1, <1>3, HalfOpenMaxCallsAssumption DEF IInv, TypeOK, CounterCoversProbes
  <2> QED
    BY <1>3, <2>1, <2>2 DEF CounterCoversProbes
<1> QED
  BY <1>1, <1>2, <1>4 DEF IInv, ClosedBelowThreshold

\* evaluateTimeout and the clock.
LEMMA EnvironmentStep ==
  ASSUME IInv, EvaluateTimeout \/ Elapse
  PROVE  IInv'
<1>1. TypeOK'
  <2>1. CASE EvaluateTimeout
    BY <2>1 DEF IInv, TypeOK, EvaluateTimeout, States
  <2>2. CASE Elapse
    BY <2>2 DEF IInv, TypeOK, Elapse, breaker
  <2> QED
    BY <2>1, <2>2
<1>2. CounterCoversProbes'
  <2>1. CASE EvaluateTimeout
    BY <2>1, HalfOpenMaxCallsAssumption, FS_EmptySet
       DEF IInv, CounterCoversProbes, EvaluateTimeout, TimedOut
  <2>2. CASE Elapse
    BY <2>2 DEF IInv, CounterCoversProbes, Elapse, breaker
  <2> QED
    BY <2>1, <2>2
<1>3. ClosedBelowThreshold'
  BY DEF IInv, ClosedBelowThreshold, EvaluateTimeout, Elapse, TimedOut, breaker
<1> QED
  BY <1>1, <1>2, <1>3 DEF IInv

\* The invariant is inductive.
LEMMA StepIInv == IInv /\ [Next]_vars => IInv'
<1> SUFFICES ASSUME IInv, [Next]_vars PROVE IInv'
  OBVIOUS
<1>1. CASE UNCHANGED vars
  BY <1>1 DEF vars, IInv, TypeOK, ClosedBelowThreshold, CounterCoversProbes
<1>2. CASE Next
  BY <1>2, AcquireStep, RecordStep, OutsideStep, EnvironmentStep DEF Next
<1> QED
  BY <1>1, <1>2

(***************************************************************************)
(* The fields of a breaker, and what Execute holds for each caller, keep   *)
(* their types; the failures counted never exceed the threshold.           *)
(***************************************************************************)
THEOREM TypeCorrectness == Spec => []TypeOK
<1>1. IInv => TypeOK
  BY DEF IInv
<1> QED
  BY <1>1, InitIInv, StepIInv, PTL DEF Spec

(***************************************************************************)
(* A breaker is never closed with as many failures as should have tripped  *)
(* it, in whatever order the results of concurrent calls are recorded.     *)
(***************************************************************************)
THEOREM ThresholdSafety == Spec => []ClosedBelowThreshold
<1>1. IInv => ClosedBelowThreshold
  BY DEF IInv
<1> QED
  BY <1>1, InitIInv, StepIInv, PTL DEF Spec

(***************************************************************************)
(* A half-open breaker never has more than HalfOpenMaxCalls probes of the  *)
(* period in flight.                                                       *)
(***************************************************************************)
THEOREM ProbeSafety == Spec => []ProbesBounded
<1>1. IInv => ProbesBounded
  <2> SUFFICES ASSUME IInv, HalfOpenMaxCalls > 0
               PROVE  Cardinality(probes) <= HalfOpenMaxCalls
    BY DEF ProbesBounded
  <2>1. Cardinality(probes) \in Nat
    BY FS_CardinalityType DEF IInv, CounterCoversProbes
  <2> QED
    BY <2>1, HalfOpenMaxCallsAssumption DEF IInv, TypeOK, CounterCoversProbes
<1> QED
  BY <1>1, InitIInv, StepIInv, PTL DEF Spec

(***************************************************************************)
(* The state only moves as the package comment of breaker.go says.         *)
(***************************************************************************)
THEOREM StateMachineSafety == Spec => StateMachine
<1>1. IInv /\ [Next]_vars => [state' # state => <<state, state'>> \in Moves]_vars
  <2> SUFFICES ASSUME IInv, Next, state' # state
               PROVE  <<state, state'>> \in Moves
    BY DEF vars
  <2>1. state \in States
    BY DEF IInv, TypeOK
  <2>2. CASE EvaluateTimeout
    BY <2>2 DEF EvaluateTimeout, TimedOut, Moves
  <2>3. ASSUME NEW c \in Callers, Acquire(c) PROVE <<state, state'>> \in Moves
    BY <2>3 DEF Acquire, Effective, TimedOut, Moves
  <2>4. ASSUME NEW c \in Callers, Record(c) PROVE <<state, state'>> \in Moves
    BY <2>1, <2>4
       DEF Record, Success, Failure, CountFailure, Open, breaker, States, Moves
  <2> QED
    BY <2>2, <2>3, <2>4 DEF Next, Finish, Select, Cancel, Elapse, breaker
<1> QED
  BY <1>1, InitIInv, StepIInv, PTL DEF Spec, StateMachine

(***************************************************************************)
(* While no ctx is ever done a probe ends only by being recorded, which    *)
(* ends the period: the slots used are those of the probes in flight.      *)
(***************************************************************************)
SlotsAreProbes ==
  /\ \A c \in Callers : ctx[c] = "live"
  /\ \A c \in probes : call[c] # "idle"
  /\ HalfOpenMaxCalls > 0 /\ state = "half-open" => halfOpenCalls = Cardinality(probes)

\* A recorded result ends the half-open period it falls into.
LEMMA RecordEndsPeriod ==
  ASSUME TypeOK, NEW c \in Callers, Record(c)
  PROVE  state' # "half-open" /\ probes' = {}
<1>1. state' # "half-open"
  BY DEF TypeOK, States, Record, Success, Failure, CountFailure, Open, breaker
<1> QED
  BY <1>1 DEF Record

LEMMA AcquireUsesSlot ==
  ASSUME ~Cancels, IInv, SlotsAreProbes, NEW c \in Callers, Acquire(c)
  PROVE  SlotsAreProbes'
<1>1. \A d \in Callers : ctx'[d] = "live"
  BY DEF SlotsAreProbes, Acquire, Admitted, IInv, TypeOK
<1>2. call \in [Callers -> Calls] /\ call' = [call EXCEPT ![c] = "starting"] /\ call[c] = "idle"
  BY DEF IInv, TypeOK, Acquire, Admitted
<1>3. CASE Effective = "closed" /\ UNCHANGED <<state, halfOpenCalls, probes>>
  <2>1. \A d \in probes' : call'[d] # "idle"
    BY <1>2, <1>3 DEF SlotsAreProbes, IInv, TypeOK
  <2>2. state' # "half-open"
    BY <1>3 DEF Effective, TimedOut
  <2> QED
    BY <1>1, <2>1, <2>2 DEF SlotsAreProbes
<1>4. CASE /\ Effective = "half-open"
           /\ halfOpenCalls' = IF HalfOpenMaxCalls = 0 THEN 0 ELSE UsedSlots + 1
           /\ probes' = probes \union {c}
  <2>1. \A d \in probes' : call'[d] # "idle"
    BY <1>2, <1>4 DEF SlotsAreProbes, IInv, TypeOK
  <2>2. c \notin probes
    BY <1>2 DEF SlotsAreProbes
  <2>3. IsFiniteSet(probes) /\ Cardinality(probes') = Cardinality(probes) + 1
    BY <1>4, <2>2, FS_AddElement DEF IInv, CounterCoversProbes
  <2>4. HalfOpenMaxCalls > 0 => UsedSlots = Cardinality(probes)
    <3>1. CASE TimedOut
      BY <3>1, FS_EmptySet DEF TimedOut, UsedSlots, IInv, CounterCoversProbes
    <3>2. CASE ~TimedOut
      BY <1>4, <3>2 DEF Effective, UsedSlots, SlotsAreProbes
    <3> QED
      BY <3>1, <3>2
  <2> QED
    BY <1>1, <1>4, <2>1, <2>3, <2>4 DEF SlotsAreProbes
<1> QED
  BY <1>3, <1>4 DEF Acquire

LEMMA SlotsStep == ~Cancels /\ IInv /\ SlotsAreProbes /\ [Next]_vars => SlotsAreProbes'
<1> SUFFICES ASSUME ~Cancels, IInv, SlotsAreProbes, [Next]_vars PROVE SlotsAreProbes'
  OBVIOUS
<1>1. CASE UNCHANGED vars
  BY <1>1 DEF vars, SlotsAreProbes
<1>2. ASSUME NEW c \in Callers, Record(c) PROVE SlotsAreProbes'
  <2>1. state' # "half-open" /\ probes' = {}
    BY <1>2, RecordEndsPeriod DEF IInv
  <2>2. \A d \in Callers : ctx'[d] = "live"
    BY <1>2 DEF Record, Leave, SlotsAreProbes, IInv, TypeOK
  <2> QED
    BY <2>1, <2>2 DEF SlotsAreProbes
<1>3. ASSUME NEW c \in Callers, Finish(c) \/ Select(c) PROVE SlotsAreProbes'
  <2>1. UNCHANGED <<state, halfOpenCalls, ctx, probes>>
    BY <1>3 DEF Finish, Select, breaker, SlotsAreProbes
  <2>2. call' = [call EXCEPT ![c] = call'[c]] /\ call'[c] # "idle" /\ call \in [Callers -> Calls]
    BY <1>3 DEF Finish, Select, SlotsAreProbes, IInv, TypeOK
  <2>3. \A d \in probes : call'[d] # "idle"
    BY <2>2 DEF SlotsAreProbes, IInv, TypeOK
  <2> QED
    BY <2>1, <2>3 DEF SlotsAreProbes
<1>4. CASE EvaluateTimeout
  <2>1. probes' = {} /\ halfOpenCalls' = 0
    BY <1>4 DEF EvaluateTimeout, TimedOut, IInv, CounterCoversProbes
  <2> QED
    BY <1>4, <2>1, FS_EmptySet DEF EvaluateTimeout, SlotsAreProbes
<1>5. CASE Elapse
  BY <1>5 DEF Elapse, breaker, SlotsAreProbes
<1> QED
  BY <1>1, <1>2, <1>3, <1>4, <1>5, AcquireUsesSlot DEF Next, Cancel

(***************************************************************************)
(* Cancelled calls are all that can use up the probes of a half-open       *)
(* breaker (breaker.go:116): with callers that wait for their result, one  *)
(* that has no probe in flight lets another one in.                        *)
(***************************************************************************)
THEOREM WaitingCallersLeakNoSlot == ~Cancels => (Spec => []HalfOpenAdmits)
<1>1. Init => SlotsAreProbes
  BY FS_EmptySet DEF Init, SlotsAreProbes
<1>2. IInv /\ SlotsAreProbes => HalfOpenAdmits
  <2> SUFFICES ASSUME IInv, SlotsAreProbes, state = "half-open", probes = {}
               PROVE  FreeSlot
    BY DEF HalfOpenAdmits
  <2>1. HalfOpenMaxCalls > 0 => halfOpenCalls = 0
    BY FS_EmptySet DEF SlotsAreProbes
  <2> QED
    BY <2>1, HalfOpenMaxCallsAssumption DEF FreeSlot, UsedSlots, TimedOut
<1>3. CASE ~Cancels
  <2>1. IInv /\ SlotsAreProbes /\ [Next]_vars => (IInv /\ SlotsAreProbes)'
    BY <1>3, StepIInv, SlotsStep
  <2> QED
    BY <1>1, <1>2, <2>1, InitIInv, PTL DEF Spec
<1> QED
  BY <1>3

-----------------------------------------------------------------------------
(* The calls of a provider *)

\* What a step of fn does to the breaker: nothing, or the end of fn.
LEMMA FnStep ==
  ASSUME NEW c \in Callers,
         Send(c) \/ Respond(c) \/ Backoff(c) \/ Pause(c)
  PROVE  Finish(c) \/ UNCHANGED vars
BY DEF Send, Respond, Answered, StillPending, Transient, Unusable, Backoff, Pause,
       Return, NextExchange, Goto

\* Every step of a call is one of the breaker, or one the breaker does not see.
LEMMA CallNextMaps == [CallNext]_callVars => [Next]_vars
<1> SUFFICES ASSUME CallNext PROVE Next \/ UNCHANGED vars
  BY DEF callVars
<1>1. ASSUME NEW c \in Callers, CallStep(c) PROVE Next \/ UNCHANGED vars
  BY <1>1, FnStep DEF CallStep, Enter, RecordResult, Next
<1>2. ASSUME NEW c \in Callers, LeaveFn(c) PROVE Next
  BY <1>2 DEF LeaveFn, Next
<1> QED
  BY <1>1, <1>2 DEF CallNext, Next, Toggle

(***************************************************************************)
(* The safety of the breaker carries over to the calls of a provider, with *)
(* their attempts, polls and cancellations.                                *)
(***************************************************************************)
THEOREM CallSafety ==
  CallSpec => [](TypeOK /\ ClosedBelowThreshold /\ ProbesBounded) /\ StateMachine
<1>1. CallInit => Init
  BY DEF CallInit
<1>2. CallSpec => Spec
  BY <1>1, CallNextMaps, PTL DEF CallSpec, Spec
<1> QED
  BY <1>2, TypeCorrectness, ThresholdSafety, ProbeSafety, StateMachineSafety, PTL

\* The locals of fn before and after a step that resets them.
LEMMA ResetKeepsTypes ==
  ASSUME CallTypeOK, lost' \in BOOLEAN, NEW c \in Callers, NEW place \in Places,
         Reset(c, place)
  PROVE  CallTypeOK'
BY MaxRetriesAssumption, MaxPollsAssumption DEF CallTypeOK, Reset, Exchanges

\* The attempts of an exchange and the polls of a job are counted after the
\* limit has been compared: a sleep is entered with one left.
PollsLeft == \A c \in Callers :
  /\ exchange[c] = "submit" => polls[c] = 0
  /\ fn[c] = "pausing" => polls[c] < MaxPolls
AttemptsLeft == \A c \in Callers : fn[c] = "backoff" => attempt[c] <= MaxRetries

LimitsRespected == CallTypeOK /\ PollsLeft /\ AttemptsLeft

LEMMA InitLimits == CallInit => LimitsRespected
<1> SUFFICES ASSUME CallInit PROVE LimitsRespected
  OBVIOUS
<1>1. 1 \in 1..MaxRetries + 1 /\ 0 \in 0..MaxPolls
  BY MaxRetriesAssumption, MaxPollsAssumption
<1>2. CallTypeOK
  BY <1>1 DEF CallInit, CallTypeOK, Places, Exchanges
<1>3. PollsLeft /\ AttemptsLeft
  BY DEF CallInit, PollsLeft, AttemptsLeft
<1> QED
  BY <1>2, <1>3 DEF LimitsRespected

\* fn starts or ends.
LEMMA ResetKeepsLimits ==
  ASSUME LimitsRespected, lost' \in BOOLEAN, NEW c \in Callers,
         Reset(c, "off") \/ Reset(c, "ready")
  PROVE  LimitsRespected'
<1>1. CallTypeOK'
  BY ResetKeepsTypes DEF LimitsRespected, Places
<1> QED
  BY <1>1 DEF LimitsRespected, CallTypeOK, PollsLeft, AttemptsLeft, Reset

LEMMA ReturnKeepsLimits ==
  ASSUME LimitsRespected, NEW c \in Callers, NEW r, Return(c, r)
  PROVE  LimitsRespected'
BY ResetKeepsLimits DEF Return, LimitsRespected, CallTypeOK

\* The steps of an exchange.
LEMMA ExchangeStep ==
  ASSUME LimitsRespected, NEW c \in Callers,
         Send(c) \/ Respond(c) \/ Backoff(c) \/ Pause(c)
  PROVE  LimitsRespected'
<1> USE MaxRetriesAssumption, MaxPollsAssumption
    DEF LimitsRespected, CallTypeOK, PollsLeft, AttemptsLeft, Places, Exchanges,
        Goto, NextExchange
<1>1. ASSUME NEW r, Return(c, r) PROVE LimitsRespected'
  BY <1>1, ReturnKeepsLimits
<1>2. CASE Send(c)
  BY <1>1, <1>2 DEF Send
<1>3. CASE Backoff(c)
  BY <1>1, <1>3 DEF Backoff
<1>4. CASE Pause(c)
  BY <1>1, <1>4 DEF Pause
<1>5. CASE Respond(c)
  <2>1. CASE Answered(c)
    BY <1>1, <2>1 DEF Answered
  <2>2. CASE StillPending(c)
    BY <1>1, <2>2 DEF StillPending
  <2>3. CASE Transient(c)
    BY <1>1, <2>3 DEF Transient
  <2> QED
    BY <1>1, <1>5, <2>1, <2>2, <2>3 DEF Respond, Unusable
<1> QED
  BY <1>2, <1>3, <1>4, <1>5

LEMMA LimitsStep == LimitsRespected /\ [CallNext]_callVars => LimitsRespected'
<1> SUFFICES ASSUME LimitsRespected, [CallNext]_callVars PROVE LimitsRespected'
  OBVIOUS
<1>1. CASE UNCHANGED calls
  BY <1>1 DEF calls, locals, LimitsRespected, CallTypeOK, PollsLeft, AttemptsLeft
<1>2. ASSUME NEW c \in Callers, Enter(c) PROVE LimitsRespected'
  BY <1>2, ResetKeepsLimits DEF Enter, LimitsRespected, CallTypeOK
<1>3. ASSUME NEW c \in Callers, RecordResult(c) PROVE LimitsRespected'
  BY <1>3 DEF RecordResult, locals, LimitsRespected, CallTypeOK, PollsLeft, AttemptsLeft
<1>4. ASSUME NEW c \in Callers, LeaveFn(c) PROVE LimitsRespected'
  <2>1. CASE Reset(c, "off") /\ lost' = (lost \/ c \in probes)
    <3>1. lost' \in BOOLEAN
      BY <2>1
    <3> QED
      BY <2>1, <3>1, ResetKeepsLimits
  <2> QED
    BY <1>1, <1>4, <2>1 DEF LeaveFn
<1>5. CASE Toggle
  BY <1>5 DEF Toggle, locals, LimitsRespected, CallTypeOK, PollsLeft, AttemptsLeft
<1> QED
  BY <1>1, <1>2, <1>3, <1>4, <1>5, ExchangeStep DEF CallNext, CallStep, callVars

(***************************************************************************)
(* No exchange makes more than MaxRetries + 1 attempts and no job is       *)
(* polled more than MaxPolls times, whatever the provider answers.         *)
(***************************************************************************)
THEOREM CallTypeCorrectness == CallSpec => []CallTypeOK
<1>1. LimitsRespected => CallTypeOK
  BY DEF LimitsRespected
<1> QED
  BY <1>1, InitLimits, LimitsStep, PTL DEF CallSpec
=============================================================================
