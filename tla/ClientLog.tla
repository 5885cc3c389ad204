----------------------------- MODULE ClientLog -----------------------------
(***************************************************************************)
(* The extension's Logger (extension/src/logger.ts) and POST /api/v1/logs  *)
(* (server/vibe/app_logs.py): records wait in a buffer, a flush takes all  *)
(* of them out and posts them as one batch, a batch that fails goes back   *)
(* in front.  The extension host may be killed, or disposed of by a window *)
(* reload; what globalState holds is all the next activation has.          *)
(*                                                                         *)
(* A record is its position in `logged`, everything ever logged: ids and   *)
(* times grow in that order.                                               *)
(***************************************************************************)
EXTENDS Naturals, Sequences, SequencesExt

CONSTANTS
  Body,        \* what a record may say
  Cap,         \* MAX_BUFFERED_RECORDS
  Threshold,   \* FLUSH_THRESHOLD
  MaxLogged,   \* bound: records in all
  MaxEnds,     \* bound: ends of an extension host
  HostMayCrash \* whether the host may be killed, not only reloaded

ASSUME LogAssumption ==
  /\ Cap \in Nat \ {0} /\ Threshold \in Nat \ {0}
  /\ MaxLogged \in Nat /\ MaxEnds \in Nat /\ HostMayCrash \in BOOLEAN

VARIABLES
  logged,    \* every record so far
  up,        \* the extension host runs
  session,   \* setSession was called
  buffer,    \* _buffer
  batch,     \* the records of the POST in flight
  flight,    \* none, posting, or answered by the server but not yet heard
  saved,     \* globalState["vibe.logger.buffer"]
  received,  \* records with a row in app_logs
  limbo,     \* records of POSTs given up on, whose rows may still be inserted
  dropped,   \* records the cap threw away
  ends       \* ends of the host so far

lvars == <<logged, up, session, buffer, batch, flight, saved, received, limbo,
           dropped, ends>>

LInit ==
  /\ logged = << >>
  /\ up = TRUE
  /\ session = FALSE
  /\ buffer = << >> /\ batch = << >> /\ saved = << >>
  /\ flight = "none"
  /\ received = {} /\ limbo = {} /\ dropped = {}
  /\ ends = 0

----------------------------------------------------------------------------
(* flush with `records` in the buffer: nothing while a POST is in flight or *)
(* before a session is attached; otherwise everything is taken out, and     *)
(* globalState is given the emptied buffer before the POST leaves.          *)
FlushWith(records, attached) ==
  IF flight = "none" /\ attached /\ records # << >>
  THEN batch' = records /\ buffer' = << >> /\ saved' = << >> /\ flight' = "posting"
  ELSE buffer' = records /\ UNCHANGED <<batch, saved, flight>>

(* _log, with the flush a full buffer starts.                               *)
Log(body) ==
  /\ up
  /\ Len(logged) < MaxLogged
  /\ logged' = Append(logged, body)
  /\ LET records == Append(buffer, Len(logged) + 1)
     IN  IF Len(records) >= Threshold
         THEN FlushWith(records, session)
         ELSE buffer' = records /\ UNCHANGED <<batch, saved, flight>>
  /\ UNCHANGED <<up, session, received, limbo, dropped, ends>>

(* setSession drains at once; clearSession, which nobody calls today, lets  *)
(* records wait.                                                            *)
SetSession ==
  /\ up
  /\ ~session
  /\ session' = TRUE
  /\ FlushWith(buffer, TRUE)
  /\ UNCHANGED <<logged, up, received, limbo, dropped, ends>>
ClearSession ==
  /\ up
  /\ session
  /\ session' = FALSE
  /\ UNCHANGED <<logged, up, buffer, batch, flight, saved, received, limbo, dropped, ends>>

(* The interval.                                                            *)
FlushTick ==
  /\ up
  /\ session /\ flight = "none" /\ buffer # << >>
  /\ FlushWith(buffer, session)
  /\ UNCHANGED <<logged, up, session, received, limbo, dropped, ends>>

(* ingest_logs: the rows are inserted one by one, each on its own, so a     *)
(* server that dies leaves a first part of the batch.  A batch posted again *)
(* repeats rows, and readers take the oldest copy: one is kept here.        *)
Deliver(n) ==
  /\ flight = "posting"
  /\ n \in 1..Len(batch)
  /\ received' = received \union ToSet(SubSeq(batch, 1, n))
  /\ limbo' = limbo \ received'
  /\ flight' = IF n = Len(batch) THEN "stored" ELSE "cut"
  /\ UNCHANGED <<logged, up, session, buffer, batch, saved, dropped, ends>>

(* The answer arrives: the batch is done with.                              *)
PostOk ==
  /\ flight = "stored"
  /\ flight' = "none" /\ batch' = << >>
  /\ UNCHANGED <<logged, up, session, buffer, saved, received, limbo, dropped, ends>>

\* What a server that is still at work may insert after all: nothing of a batch
\* it died over, and nothing of one it has finished.
OnTheWay == IF flight = "posting" THEN batch ELSE << >>
Youngest(q, n) == IF Len(q) > n THEN SubSeq(q, Len(q) - n + 1, Len(q)) ELSE q

\* Mutants: the failed batch is forgotten; put behind the younger records.
PostForgets ==
  /\ flight # "none"
  /\ flight' = "none" /\ batch' = << >>
  /\ UNCHANGED <<logged, up, session, buffer, saved, received, limbo, dropped, ends>>
PostRestoresBehind ==
  /\ flight # "none"
  /\ LET restored == buffer \o batch
         kept == Youngest(restored, Cap)
     IN  /\ buffer' = kept /\ saved' = kept
         /\ dropped' = dropped \union (ToSet(restored) \ ToSet(kept))
  /\ limbo' = limbo \union (ToSet(OnTheWay) \ received)
  /\ flight' = "none" /\ batch' = << >>
  /\ UNCHANGED <<logged, up, session, received, ends>>

(* An error, a status from 300, the timeout, or no session any more; the    *)
(* server may have stored the batch all the same.  It goes back in front of *)
(* what was logged since, the cap drops the oldest, and globalState has it. *)
PostFails ==
  /\ flight # "none"
  /\ LET restored == batch \o buffer
         kept == Youngest(restored, Cap)
     IN  /\ buffer' = kept /\ saved' = kept
         /\ dropped' = dropped \union (ToSet(restored) \ ToSet(kept))
  /\ limbo' = limbo \union (ToSet(OnTheWay) \ received)
  /\ flight' = "none" /\ batch' = << >>
  /\ UNCHANGED <<logged, up, session, received, ends>>

\* The host is gone; of a POST that left rows may still be inserted.
HostEnds(posted) ==
  /\ up' = FALSE /\ session' = FALSE
  /\ buffer' = << >> /\ batch' = << >> /\ flight' = "none"
  /\ limbo' = limbo \union (ToSet(posted) \ received)
  /\ ends' = ends + 1
  /\ UNCHANGED <<logged, received, dropped>>

(* A request nobody waits for is carried out, whole or in part.             *)
LateInsert ==
  /\ \E id \in limbo : received' = received \union {id} /\ limbo' = limbo \ {id}
  /\ UNCHANGED <<logged, up, session, buffer, batch, flight, saved, dropped, ends>>

(* The extension host is killed.                                            *)
Crash ==
  /\ up
  /\ HostMayCrash
  /\ ends < MaxEnds
  /\ HostEnds(OnTheWay)
  /\ UNCHANGED saved

(* dispose: the buffer is saved, and then flush runs, which empties it, and *)
(* what was saved of it, before its POST leaves.                            *)
Dispose ==
  /\ up
  /\ ends < MaxEnds
  /\ IF flight = "none" /\ session /\ buffer # << >>
     THEN saved' = << >> /\ HostEnds(buffer)
     ELSE saved' = buffer /\ HostEnds(OnTheWay)

(* The constructor: what globalState has is the buffer again.               *)
Activate ==
  /\ ~up
  /\ up' = TRUE
  /\ buffer' = saved
  /\ UNCHANGED <<logged, session, batch, flight, saved, received, limbo, dropped, ends>>

----------------------------------------------------------------------------
LNext ==
  \/ \E body \in Body : Log(body)
  \/ SetSession \/ ClearSession \/ FlushTick
  \/ \E n \in 1..MaxLogged : Deliver(n)
  \/ PostOk \/ PostFails \/ LateInsert
  \/ Crash \/ Dispose \/ Activate

LSpec == LInit /\ [][LNext]_lvars

(* The interval fires, a POST ends by its timeout, and a server that is     *)
(* asked again and again stores a whole batch in the end.                   *)
LFairness ==
  /\ WF_lvars(FlushTick) /\ WF_lvars(PostOk \/ PostFails)
  /\ SF_lvars(\E n \in 1..MaxLogged : n = Len(batch) /\ Deliver(n))

----------------------------------------------------------------------------
Ids == 1..MaxLogged
Increasing(q) == \A i, j \in DOMAIN q : i < j => q[i] < q[j]

LTypeOK ==
  /\ logged \in Seq(Body) /\ Len(logged) <= MaxLogged
  /\ up \in BOOLEAN /\ session \in BOOLEAN
  /\ \A q \in {buffer, batch, saved} : q \in Seq(1..Len(logged))
  /\ flight \in {"none", "posting", "stored", "cut"}
  /\ (flight = "none") <=> (batch = << >>)
  /\ ~up => buffer = << >> /\ batch = << >> /\ ~session
  /\ received \union limbo \union dropped \subseteq 1..Len(logged)
  /\ received \intersect limbo = {}
  /\ ends \in 0..MaxEnds

\* No record overtakes an older one on its way, however often batches fail and
\* go back into the buffer.
KeptInOrder == Increasing(batch \o buffer) /\ Increasing(saved)

\* While the host lives no record disappears: it waits, is on its way, has
\* arrived, or was thrown away by the cap.
NoneMissing ==
  ends = 0 => 1..Len(logged) = ToSet(buffer) \union ToSet(batch)
                               \union received \union dropped

\* What the cap throws away is older than everything that still waits.
CapDropsOldest ==
  ends = 0 => \A d \in dropped, r \in ToSet(batch \o buffer) : d < r

\* What becomes of the records, however often batches fail, are answered late
\* or go back into a buffer that has filled up meanwhile: none is lost, none
\* overtakes another, and the cap takes the oldest.
RecordsAreKept == KeptInOrder /\ NoneMissing /\ CapDropsOldest

\* Whatever the host holds while a session is attached reaches the server.
EndOfHost == ~up \/ ~session
EveryRecordArrives ==
  \A id \in Ids :
    (id \in ToSet(batch \o buffer) /\ session) ~>
      (id \in received \/ id \in dropped \/ EndOfHost)

\* logger.ts:223-225: "Snapshot the buffer to globalState before the
\* (best-effort) async flush [...] If the host exits mid-POST, the next
\* activate() restores from this."
ReloadLosesNothing ==
  1..Len(logged) = ToSet(buffer) \union ToSet(batch) \union ToSet(saved)
                   \union received \union dropped
=============================================================================
