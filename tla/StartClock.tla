----------------------------- MODULE StartClock -----------------------------
(***************************************************************************)
(* What POST /session-started promises (sessions.py, session_started): an  *)
(* interview has one start time.  It is chosen once, by whichever call     *)
(* comes first, and every call is answered with that time, however many    *)
(* windows and retries ask and in whatever order they run.                 *)
(***************************************************************************)
EXTENDS Naturals

CONSTANTS Sessions

VARIABLES
  anchor,  \* the session's start time, 0 until it is chosen
  told     \* the start times callers were answered with

Init ==
  /\ anchor = [s \in Sessions |-> 0]
  /\ told = [s \in Sessions |-> {}]

Choose(s) ==
  /\ anchor[s] = 0
  /\ anchor'[s] \in Nat \ {0}
  /\ anchor' = [anchor EXCEPT ![s] = anchor'[s]]
  /\ UNCHANGED told

Answer(s) ==
  /\ anchor[s] # 0
  /\ told' = [told EXCEPT ![s] = @ \union {anchor[s]}]
  /\ UNCHANGED anchor

Next == \E s \in Sessions : Choose(s) \/ Answer(s)

Spec == Init /\ [][Next]_<<anchor, told>>

\* All callers agree: no two answers differ, and they are the recorded time.
Agreement == \A s \in Sessions : told[s] \subseteq {anchor[s]}
=============================================================================
