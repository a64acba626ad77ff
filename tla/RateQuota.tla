------------------------------ MODULE RateQuota ------------------------------
(***************************************************************************)
(* What the rate limiter promises for a key: a level that rises by Quota   *)
(* every tick, as if refilled continuously (router.go:98), never above a   *)
(* minute's worth, and pays a whole request at a time.  Amounts are in     *)
(* parts of a token, as many to a token as a minute has ticks.             *)
(***************************************************************************)
EXTENDS Naturals

CONSTANTS Keys, Quota, Minute

VARIABLE level

Full == Quota * Minute

Init == level = [k \in Keys |-> Full]

Tick ==
  level' = [k \in Keys |-> IF level[k] + Quota > Full THEN Full ELSE level[k] + Quota]

Pass(k) ==
  /\ level[k] >= Minute
  /\ level' = [level EXCEPT ![k] = @ - Minute]

\* The levels are kept in memory.
Restart == level' = [k \in Keys |-> Full]

Next == Tick \/ Restart \/ \E k \in Keys : Pass(k)

Spec == Init /\ [][Next]_level
=============================================================================
