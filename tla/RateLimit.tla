----------------------------- MODULE RateLimit ------------------------------
(***************************************************************************)
(* The limit on session-preflight and validate-session (server/vibe/       *)
(* auth.py, check_rate_limit): what one process admits from one address.   *)
(* Both handlers are coroutines that check before their first await, so    *)
(* the reading of the clock and the check are one step; an attempt that is *)
(* refused is not kept.                                                    *)
(*                                                                         *)
(* The attempts that were let in are numbered; the list the code keeps is  *)
(* the set of their numbers, since nothing depends on its order.           *)
(***************************************************************************)
EXTENDS Integers, Sequences, FiniteSets

CONSTANTS
  RateLimitMax,     \* RATE_LIMIT_MAX
  RateLimitWindow,  \* RATE_LIMIT_WINDOW
  MaxNow            \* bound: the clock

ASSUME RateAssumption == {RateLimitMax, RateLimitWindow, MaxNow} \subseteq Nat

VARIABLES
  now,       \* time.time()
  recent,    \* _rate_limits[ip]: the attempts it lists
  admitted   \* when each attempt that was let in came

rateVars == <<now, recent, admitted>>

RateInit == now = 0 /\ recent = {} /\ admitted = << >>

\* Mutant: the window is one tick short.
WithinShort(t) == now - t < RateLimitWindow - 1
Within(t) == now - t < RateLimitWindow

CheckRateLimit ==
  LET kept == {i \in recent : Within(admitted[i])} IN
  /\ IF Cardinality(kept) >= RateLimitMax
     THEN recent' = kept /\ UNCHANGED admitted
     ELSE /\ recent' = kept \union {Len(admitted) + 1}
          /\ admitted' = Append(admitted, now)
  /\ UNCHANGED now

Wait == now < MaxNow /\ now' = now + 1 /\ UNCHANGED <<recent, admitted>>

RateNext == CheckRateLimit \/ Wait

RateSpec == RateInit /\ [][RateNext]_rateVars

RateTypeOK == now \in Nat /\ admitted \in Seq(0..now) /\ recent \subseteq DOMAIN admitted

(* However the attempts are spaced, no stretch of time as long as the window *)
(* has more than the limit of them admitted.                                 *)
WindowIsBounded ==
  \A from \in 0..now :
    Cardinality({i \in DOMAIN admitted : admitted[i] \in from..(from + RateLimitWindow - 1)})
      <= RateLimitMax
=============================================================================
