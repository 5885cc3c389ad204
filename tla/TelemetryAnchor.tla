--------------------------- MODULE TelemetryAnchor ---------------------------
(***************************************************************************)
(* How the grader decides whether the telemetry of an interview is whole.  *)
(* The extension (extension/src/telemetry.ts) appends events to            *)
(* .jivahire/telemetry.jsonl and reports the first one, the anchor,        *)
(* through the log of ClientLog; the auto-commit pushes the file with the  *)
(* branch; grader/telemetry_integrity.py compares the first event on the   *)
(* branch with the anchor in app_logs.                                     *)
(*                                                                         *)
(* Events are numbered as they are emitted: the number is the id and the   *)
(* ts of one.  The provisioned marker line is no event, and is left out;   *)
(* it is why the folder of the file exists before the first append.        *)
(* The grader may look at any time: after a submission, or when the sweep  *)
(* submits an interview whose machine is off.                              *)
(***************************************************************************)
EXTENDS ClientLog

CONSTANTS
  MaxEvents,        \* bound: events emitted
  MaxFailedWrites   \* bound: appends that fail (disk full, file locked)

Origins == {"first_event", "adopted", "resume"}
Report == [first : 1..MaxEvents, origin : Origins]

ASSUME AnchorAssumption ==
  /\ MaxEvents \in Nat /\ MaxFailedWrites \in Nat
  /\ Report \subseteq Body

VARIABLES
  emitted,   \* events so far
  disk,      \* telemetry.jsonl in the workspace
  pushed,    \* telemetry.jsonl on the branch
  tracking,  \* a TelemetryTracker exists
  anchor,    \* its _anchor
  stored,    \* globalState["vibe.telemetry.anchor"]
  removed,   \* whether the candidate ever removed the file or emptied it
  lost,      \* whether events were lost with a checkout before any was pushed
  failedWrites     \* appends that failedWrites so far

avars == <<emitted, disk, pushed, tracking, anchor, stored, removed, lost, failedWrites>>
anchorVars == <<lvars, avars>>

NoAnchor == 0
File == [there : BOOLEAN, events : Seq(1..MaxEvents)]

\* A fresh clone of a provisioned branch.
Marked == [there |-> TRUE, events |-> << >>]

AnchorInit ==
  /\ LInit
  /\ emitted = 0
  /\ disk = Marked /\ pushed = Marked
  /\ tracking = FALSE
  /\ anchor = NoAnchor /\ stored = NoAnchor
  /\ removed = FALSE /\ lost = FALSE
  /\ failedWrites = 0

----------------------------------------------------------------------------
(* The tracker *)

\* _readFirstEventFromDisk, and its answer when there is none.
FirstOnDisk == IF disk.events = << >> THEN NoAnchor ELSE Head(disk.events)
Reported(first, origin) == Log([first |-> first, origin |-> origin])

\* Mutant: the first event on disk is not adopted.
StartForgetful ==
  /\ session /\ ~tracking
  /\ tracking' = TRUE
  /\ anchor' = stored
  /\ IF stored # NoAnchor THEN Reported(stored, "resume") ELSE UNCHANGED lvars
  /\ UNCHANGED <<emitted, disk, pushed, stored, removed, lost, failedWrites>>

(* The constructor and _initAnchor: the anchor in globalState, else the     *)
(* first event on disk, else none yet.  One of another session's in         *)
(* globalState counts as none.                                              *)
StartTracking ==
  /\ session /\ ~tracking
  /\ tracking' = TRUE
  /\ IF stored # NoAnchor
     THEN /\ anchor' = stored
          /\ Reported(stored, "resume")
          /\ UNCHANGED stored
     ELSE IF FirstOnDisk # NoAnchor
     THEN /\ anchor' = FirstOnDisk /\ stored' = FirstOnDisk
          /\ Reported(FirstOnDisk, "adopted")
     ELSE UNCHANGED <<lvars, anchor, stored>>
  /\ UNCHANGED <<emitted, disk, pushed, removed, lost, failedWrites>>

\* Mutant: every event is captured as the anchor.
EmitRecaptures(written) ==
  LET event == emitted + 1 IN
  /\ tracking /\ emitted < MaxEvents
  /\ emitted' = event
  /\ anchor' = event /\ stored' = event
  /\ Reported(event, "first_event")
  /\ IF written
     THEN disk' = [there |-> TRUE, events |-> Append(disk.events, event)] /\ UNCHANGED failedWrites
     ELSE failedWrites < MaxFailedWrites /\ failedWrites' = failedWrites + 1 /\ UNCHANGED disk
  /\ UNCHANGED <<pushed, tracking, removed, lost>>

(* emit and _appendToJsonl: the first event is captured, saved and reported *)
(* before it is appended; an append that fails only leaves a warning.       *)
Emit(written) ==
  LET event == emitted + 1 IN
  /\ tracking /\ emitted < MaxEvents
  /\ emitted' = event
  /\ IF anchor = NoAnchor
     THEN /\ anchor' = event /\ stored' = event
          /\ Reported(event, "first_event")
     ELSE UNCHANGED <<lvars, anchor, stored>>
  /\ IF written
     THEN disk' = [there |-> TRUE, events |-> Append(disk.events, event)] /\ UNCHANGED failedWrites
     ELSE failedWrites < MaxFailedWrites /\ failedWrites' = failedWrites + 1 /\ UNCHANGED disk
  /\ UNCHANGED <<pushed, tracking, removed, lost>>

(* The auto-commit, or the push of submit: git add -A takes the file as it  *)
(* is, also when it is gone.                                                *)
AutoCommit ==
  /\ tracking
  /\ pushed' = disk
  /\ UNCHANGED <<lvars, emitted, disk, tracking, anchor, stored, removed, lost, failedWrites>>

(* The candidate deletes or empties the file.                               *)
RemoveFile ==
  /\ disk.events # << >>
  /\ disk' \in {[there |-> FALSE, events |-> << >>], Marked}
  /\ removed' = TRUE
  /\ UNCHANGED <<lvars, emitted, pushed, tracking, anchor, stored, lost, failedWrites>>

(* A checkout that is missing or unhealthy is cloned again when the next     *)
(* window opens: what it had beyond the branch is gone.                      *)
FreshClone ==
  /\ up /\ ~tracking
  /\ disk' = pushed
  /\ lost' = (lost \/ (disk.events # << >> /\ pushed.events = << >>))
  /\ UNCHANGED <<lvars, emitted, pushed, tracking, anchor, stored, removed, failedWrites>>

----------------------------------------------------------------------------
(* The logger and the host *)

LoggerRuns ==
  /\ \/ SetSession \/ FlushTick \/ PostOk \/ PostFails \/ LateInsert \/ Activate
     \/ \E n \in 1..MaxLogged : Deliver(n)
  /\ UNCHANGED avars

HostStops == tracking' = FALSE /\ anchor' = NoAnchor

(* A reload: globalState survives.                                          *)
Reload ==
  /\ Dispose
  /\ HostStops
  /\ UNCHANGED <<emitted, disk, pushed, stored, removed, lost, failedWrites>>

(* The host is killed: its last writes to globalState may be lost.          *)
HostDies ==
  /\ Crash
  /\ HostStops
  /\ stored' \in {stored, NoAnchor}
  /\ UNCHANGED <<emitted, disk, pushed, removed, lost, failedWrites>>

AnchorNext ==
  \/ StartTracking
  \/ \E written \in BOOLEAN : Emit(written)
  \/ AutoCommit
  \/ RemoveFile
  \/ FreshClone
  \/ LoggerRuns
  \/ Reload
  \/ HostDies

AnchorSpec == AnchorInit /\ [][AnchorNext]_anchorVars

(* The logger's fairness: see ClientLog.                                    *)
AnchorFairness ==
  /\ WF_anchorVars(FlushTick /\ UNCHANGED avars)
  /\ WF_anchorVars((PostOk \/ PostFails) /\ UNCHANGED avars)
  /\ SF_anchorVars((\E n \in 1..MaxLogged : n = Len(batch) /\ Deliver(n)) /\ UNCHANGED avars)

----------------------------------------------------------------------------
(* What the grader sees: telemetry_integrity.check *)

\* Mutant: the youngest report instead of the oldest.
YoungestAnchors ==
  {logged[id].first : id \in {i \in received : logged[i].origin # "resume" /\
     \A j \in received : logged[j].origin # "resume" => j <= i}}

\* _recorded_anchor: the oldest report whose origin is not resume, as a set of
\* one or none.
RecordedAnchors ==
  {logged[id].first : id \in {i \in received : logged[i].origin # "resume" /\
     \A j \in received : logged[j].origin # "resume" => i <= j}}

Verdict ==
  IF RecordedAnchors = {} THEN "unknown"
  ELSE IF ~pushed.there THEN "deleted"
  ELSE IF pushed.events = << >> THEN "emptied"
  ELSE IF Head(pushed.events) \notin RecordedAnchors THEN "recreated"
  ELSE "ok"
Tampered == Verdict \in {"deleted", "emptied", "recreated"}

----------------------------------------------------------------------------
(* Properties *)

AnchorTypeOK ==
  /\ LTypeOK
  /\ emitted \in 0..MaxEvents
  /\ disk \in File /\ pushed \in File
  /\ ~disk.there => disk.events = << >>
  /\ tracking \in BOOLEAN /\ (tracking => up /\ session)
  /\ anchor \in 0..emitted /\ stored \in 0..emitted
  /\ ~tracking => anchor = NoAnchor
  /\ removed \in BOOLEAN /\ lost \in BOOLEAN
  /\ failedWrites \in 0..MaxFailedWrites

\* The candidate removed nothing, and nothing was lost before it was written or
\* pushed.
Undisturbed == ~removed /\ ~lost /\ failedWrites = 0

\* An undisturbed interview that was pushed at least once is not penalised:
\* whatever reloads, crashes, fresh clones and lost reports there were, the
\* branch begins with the recorded anchor.
HonestPushPasses == Undisturbed /\ pushed.events # << >> => ~Tampered

\* telemetry_integrity.py:97-98: all reports carry the same first event, and so
\* do the tracker and globalState.
ReportsAgree ==
  Undisturbed =>
    /\ \A i \in DOMAIN logged : logged[i].first = 1
    /\ anchor \in {NoAnchor, 1} /\ stored \in {NoAnchor, 1}

\* Once the first event of the interview is in app_logs, a branch that passes
\* still begins with it: no removal, reload or crash afterwards, and no younger
\* report, lets a file that was started over pass.
FirstRecorded ==
  \E id \in received : logged[id].first = 1 /\ logged[id].origin # "resume"
RemovalIsNoticed == FirstRecorded /\ Verdict = "ok" => Head(pushed.events) = 1

\* A captured anchor reaches the grader unless the host ends first.
AnchorIsRecorded == (anchor # NoAnchor) ~> (RecordedAnchors # {} \/ ends > 0)

\* telemetry_integrity.py:22-24: "an integrity penalty is only ever applied to a
\* *provable* deletion, never to a candidate on the strength of a missing or
\* ambiguous data source".
OnlyRemovalIsPenalised == Tampered => removed
=============================================================================
