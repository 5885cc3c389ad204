----------------------------- MODULE EditReview -----------------------------
(***************************************************************************)
(* The review of an AI edit inside the editor (extension/src/chat/         *)
(* apply.ts): Apply on a code block opens a session whose hunks are shown  *)
(* next to the lines they replace until the candidate accepted or rejected *)
(* each; every decision rewrites the whole document.                       *)
(*                                                                         *)
(* A text gives each place of a file the versions that stand there: <<0>>  *)
(* is what the file began with, <<a>> what apply number a proposed, and a  *)
(* pending hunk shows both.  applyEdit changes the document, not the file  *)
(* on disk: only the candidate saves.  Edits are carried out in the order  *)
(* they were asked for, each with what the code does after its await.  The *)
(* ids of code blocks are numbered per message and stamped with the time   *)
(* of the rendering (view.ts, formatContent), so blocks of two messages    *)
(* may have the same id, and Apply may be pressed twice.                   *)
(***************************************************************************)
EXTENDS Integers, Sequences, FiniteSets

CONSTANTS
  Files,
  Places,      \* the places of a file a block may change
  MaxIds,      \* bound: different data-apply-block-ids
  MaxApplies,  \* bound: presses of Apply
  MaxEdits     \* bound: edits not carried out, when a decision is made

ASSUME ReviewAssumption == {MaxIds, MaxApplies, MaxEdits} \subseteq Nat

VARIABLES
  disk,      \* what is saved
  document,  \* what the editor shows
  apply,     \* each call of applyCodeBlock
  sessions,  \* _inlineSessions: which apply an id stands for
  edits,     \* applyEdit calls not carried out yet
  rejected,  \* edit_ai_rejected events: how many name a hunk of an apply
  refused    \* history: the files whose last edit VS Code refused

reviewVars == <<disk, document, apply, sessions, edits, rejected, refused>>

Applies == 1..MaxApplies
BlockIds == 1..MaxIds
NoApply == 0
Untouched == [p \in Places |-> <<0>>]
Statuses == {"equal", "pending", "accepted", "rejected"}
\* A call: not made; rejecting the older sessions of its file, and
\* awaiting the edit of one; its first edit
\* asked for; under review; over.
Phases == {"none", "clearing", "awaiting", "opening", "review", "over"}
NotCalled == [phase |-> "none"]

ReviewInit ==
  /\ disk = [f \in Files |-> Untouched]
  /\ document = disk
  /\ apply = [a \in Applies |-> NotCalled]
  /\ sessions = [id \in BlockIds |-> NoApply]
  /\ edits = << >>
  /\ rejected = [a \in Applies |-> [p \in Places |-> 0]]
  /\ refused = {}

Is(a, phase) == apply[a].phase = phase
Opened(a) == apply[a].phase \in {"opening", "review", "over"}
Hunks(s, status) == {p \in Places : s.status[p] = status}
Decided(s) == Hunks(s, "pending") = {}

(* _composeDocText.                                                          *)
Compose(a, s) ==
  [p \in Places |-> CASE s.status[p] = "accepted" -> <<a>>
                      [] s.status[p] = "pending" -> s.original[p] \o <<a>>
                      [] OTHER -> s.original[p]]

\* _writeSessionState for the session `s` of apply a; `gone` are the hunks the
\* telemetry is told of afterwards, `waiter` the apply that awaits it.
Edit(a, s, gone, waiter) ==
  [file |-> s.file, text |-> Compose(a, s), by |-> a, gone |-> gone, waiter |-> waiter]

----------------------------------------------------------------------------
(* Apply *)

(* applyCodeBlock up to its first await: other sessions on the file are to   *)
(* be rejected first; one with the same id is not.                           *)
PressApply ==
  \E a \in Applies, id \in BlockIds, f \in Files, changes \in SUBSET Places :
    /\ Is(a, "none") /\ id <= a /\ \A b \in 1..(a - 1) : ~Is(b, "none")
    /\ apply' = [apply EXCEPT ![a] =
         [phase |-> "clearing", id |-> id, file |-> f, changes |-> changes,
          todo |-> {i \in BlockIds \ {id} : sessions[i] # NoApply /\ apply[sessions[i]].file = f}]]
    /\ UNCHANGED <<disk, document, sessions, edits, rejected, refused>>

(* _resolveAllPending(status): every pending hunk at once, then one edit.    *)
ResolveAll(a, status, waiter, table) ==
  LET s == [table[a] EXCEPT !.status = [p \in Places |-> IF @[p] = "pending" THEN status ELSE @[p]]]
      gone == IF status = "rejected" THEN Hunks(table[a], "pending") ELSE {}
  IN  IF Decided(table[a])
      THEN apply' = [table EXCEPT ![a].resolved = TRUE] /\ UNCHANGED edits
      ELSE apply' = [table EXCEPT ![a] = s] /\ edits' = Append(edits, Edit(a, s, gone, waiter))

(* One more of them: awaited when there is anything to write.                *)
RejectOlder(a) ==
  /\ Is(a, "clearing") /\ apply[a].todo # {}
  /\ \E id \in apply[a].todo :
       LET old == sessions[id]
           table == [apply EXCEPT ![a].todo = @ \ {id},
                                  ![a].phase = IF old = NoApply \/ Decided(apply[old])
                                               THEN "clearing" ELSE "awaiting"]
       IN  IF old = NoApply
           THEN apply' = table /\ UNCHANGED edits
           ELSE ResolveAll(old, "rejected", a, table)
  /\ UNCHANGED <<disk, document, sessions, rejected, refused>>

(* The rest of applyCodeBlock until it awaits: the text is read from disk,   *)
(* the session registered, its hunks shown.  No hunks: nothing to review.    *)
OpenSession(a) ==
  /\ Is(a, "clearing") /\ apply[a].todo = {}
  /\ LET s == [phase |-> IF apply[a].changes = {} THEN "over" ELSE "opening",
               id |-> apply[a].id, file |-> apply[a].file, original |-> disk[apply[a].file],
               status |-> [p \in Places |-> IF p \in apply[a].changes THEN "pending" ELSE "equal"],
               resolved |-> FALSE, applied |-> {}]
     IN  /\ apply' = [apply EXCEPT ![a] = s]
         /\ IF s.phase = "over"
            THEN sessions' = [sessions EXCEPT ![s.id] = NoApply] /\ UNCHANGED edits
            ELSE /\ sessions' = [sessions EXCEPT ![s.id] = a]
                 /\ edits' = Append(edits, Edit(a, s, {}, NoApply))
  /\ UNCHANGED <<disk, document, rejected, refused>>

(* lifecyclePromise resolved: the id is taken out and what was accepted is   *)
(* reported as applied.                                                      *)
EndReview(a) ==
  /\ Is(a, "review") /\ apply[a].resolved
  /\ apply' = [apply EXCEPT ![a].phase = "over", ![a].applied = Hunks(apply[a], "accepted")]
  /\ sessions' = [sessions EXCEPT ![apply[a].id] = NoApply]
  /\ UNCHANGED <<disk, document, edits, rejected, refused>>

----------------------------------------------------------------------------
(* Decisions *)

(* acceptAiChanges, rejectAiChanges.                                         *)
DecideFile ==
  \E id \in BlockIds, status \in {"accepted", "rejected"} :
    /\ sessions[id] # NoApply /\ Len(edits) < MaxEdits
    /\ ResolveAll(sessions[id], status, NoApply, apply)
    /\ UNCHANGED <<disk, document, sessions, rejected, refused>>

\* Mutants: a hunk may be decided again; the document is written with the
\* hunks as they were.
DecideHunkAgain ==
  \E id \in BlockIds, p \in Places, status \in {"accepted", "rejected"} :
    LET a == sessions[id]
        s == [apply[a] EXCEPT !.status[p] = status]
    IN  /\ a # NoApply /\ Len(edits) < MaxEdits /\ apply[a].status[p] # "equal"
        /\ apply' = [apply EXCEPT ![a] = s]
        /\ edits' = Append(edits, Edit(a, s, IF status = "rejected" THEN {p} ELSE {}, NoApply))
        /\ UNCHANGED <<disk, document, sessions, rejected, refused>>
DecideHunkStale ==
  \E id \in BlockIds, p \in Places, status \in {"accepted", "rejected"} :
    LET a == sessions[id]
        s == [apply[a] EXCEPT !.status[p] = status]
    IN  /\ a # NoApply /\ Len(edits) < MaxEdits /\ apply[a].status[p] = "pending"
        /\ apply' = [apply EXCEPT ![a] = s]
        /\ edits' = Append(edits, Edit(a, apply[a], IF status = "rejected" THEN {p} ELSE {}, NoApply))
        /\ UNCHANGED <<disk, document, sessions, rejected, refused>>
(* _resolveHunk: only a pending hunk can be decided.                         *)
DecideHunk ==
  \E id \in BlockIds, p \in Places, status \in {"accepted", "rejected"} :
    LET a == sessions[id]
        s == [apply[a] EXCEPT !.status[p] = status]
    IN  /\ a # NoApply /\ Len(edits) < MaxEdits /\ apply[a].status[p] = "pending"
        /\ apply' = [apply EXCEPT ![a] = s]
        /\ edits' = Append(edits, Edit(a, s, IF status = "rejected" THEN {p} ELSE {}, NoApply))
        /\ UNCHANGED <<disk, document, sessions, rejected, refused>>

\* Mutant: only what is accepted ends a session.
EditLandsUnresolved ==
  /\ edits # << >>
  /\ LET e == Head(edits) IN
     /\ \/ document' = [document EXCEPT ![e.file] = e.text] /\ refused' = refused \ {e.file}
        \/ document' = document /\ refused' = refused \union {e.file}
     /\ rejected' = [rejected EXCEPT ![e.by] = [p \in Places |-> IF p \in e.gone THEN @[p] + 1 ELSE @[p]]]
     /\ apply' = [a \in Applies |->
          CASE a = e.by -> [apply[a] EXCEPT !.phase = IF @ = "opening" THEN "review" ELSE @,
                                            !.resolved = @ \/ (Decided(apply[a]) /\ e.gone = {})]
            [] a = e.waiter -> [apply[a] EXCEPT !.phase = "clearing"]
            [] OTHER -> apply[a]]
  /\ edits' = Tail(edits)
  /\ UNCHANGED <<disk, sessions>>
(* The oldest edit reaches the document, or VS Code refuses it and says so:  *)
(* the code looks at no answer.  What is behind its await runs: telemetry,   *)
(* the end of the session when nothing is pending any more, the apply that   *)
(* waited for it.                                                            *)
EditLands ==
  /\ edits # << >>
  /\ LET e == Head(edits) IN
     /\ \/ document' = [document EXCEPT ![e.file] = e.text] /\ refused' = refused \ {e.file}
        \/ document' = document /\ refused' = refused \union {e.file}
     /\ rejected' = [rejected EXCEPT ![e.by] = [p \in Places |-> IF p \in e.gone THEN @[p] + 1 ELSE @[p]]]
     /\ apply' = [a \in Applies |->
          CASE a = e.by -> [apply[a] EXCEPT !.phase = IF @ = "opening" THEN "review" ELSE @,
                                            !.resolved = @ \/ Decided(apply[a])]
            [] a = e.waiter -> [apply[a] EXCEPT !.phase = "clearing"]
            [] OTHER -> apply[a]]
  /\ edits' = Tail(edits)
  /\ UNCHANGED <<disk, sessions>>

(* The candidate saves a file.  A save no Apply is left to read is left out. *)
SaveFile ==
  \E f \in Files :
    /\ disk[f] # document[f] /\ \E a \in Applies : ~Opened(a)
    /\ disk' = [disk EXCEPT ![f] = document[f]]
    /\ UNCHANGED <<document, apply, sessions, edits, rejected, refused>>

ReviewNext ==
  \/ PressApply \/ DecideFile \/ DecideHunk \/ EditLands \/ SaveFile
  \/ \E a \in Applies : RejectOlder(a) \/ OpenSession(a) \/ EndReview(a)

ReviewSpec == ReviewInit /\ [][ReviewNext]_reviewVars

\* The editor carries out its edits, and a call whose await is over goes on;
\* nobody has to decide or save.
ReviewFairness ==
  /\ WF_reviewVars(EditLands)
  /\ \A a \in Applies : WF_reviewVars(RejectOlder(a)) /\ WF_reviewVars(OpenSession(a)) /\ WF_reviewVars(EndReview(a))

----------------------------------------------------------------------------
(* Properties *)

ReviewTypeOK ==
  /\ \A a \in Applies : apply[a].phase \in Phases
  /\ \A a \in Applies : Opened(a) => apply[a].status \in [Places -> Statuses]
  /\ \A id \in BlockIds : sessions[id] # NoApply => Opened(sessions[id]) /\ apply[sessions[id]].id = id
  /\ refused \subseteq Files

ToBeReported(a, p) == {i \in DOMAIN edits : edits[i].by = a /\ p \in edits[i].gone}

(* The telemetry adds up: a rejected hunk is in one edit_ai_rejected event,  *)
(* no other hunk is in any, and what the end of a review reports as applied  *)
(* is what was accepted, whatever order decisions and edits came in.         *)
ReportsAddUp ==
  \A a \in Applies : Opened(a) =>
    /\ apply[a].phase = "over" => apply[a].applied = Hunks(apply[a], "accepted")
    /\ \A p \in Places :
         rejected[a][p] + Cardinality(ToBeReported(a, p))
           = IF apply[a].status[p] = "rejected" THEN 1 ELSE 0

(* Once its edits are over, the document shows a session's decisions as they *)
(* stand, however many were made while an edit was awaited; a refused edit   *)
(* is made good by the next one (apply.ts:526-539).                          *)
ShownIsDecided ==
  \A f \in Files \ refused :
    LET own == {a \in Applies : Opened(a) /\ apply[a].file = f /\ Hunks(apply[a], "equal") # Places} IN
    (Cardinality(own) = 1 /\ \A i \in DOMAIN edits : edits[i].file # f)
      => \A a \in own : document[f] = Compose(a, apply[a])

(* A review of which every hunk is decided ends and is reported.             *)
DecidedReviewEnds ==
  \A a \in Applies :
    (Opened(a) /\ Decided(apply[a])) ~> Is(a, "over")
=============================================================================
