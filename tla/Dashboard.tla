------------------------------ MODULE Dashboard ------------------------------
(***************************************************************************)
(* What a recruiter reads of the sessions while they change: the paged     *)
(* list and the detail (server/vibe/sessions.py, list_sessions and         *)
(* get_session_detail).  Every statement commits by itself, so what one    *)
(* answer says comes from several moments, and a reading of several pages  *)
(* from several answers.                                                   *)
(*                                                                         *)
(* The reader's side, recruiter-backend, is external: it asks for the      *)
(* pages one after the other, by the limit each answer names, and stops    *)
(* at a page that is not full or, if it trusts the total, at the last      *)
(* page the total calls for.  SQL leaves the order of sessions created in  *)
(* the same second open.  A behaviour has one reading, of one of the two.  *)
(***************************************************************************)
EXTENDS Integers, Sequences, SequencesExt, FiniteSets, FiniteSetsExt

CONSTANTS
  MaxSessions,   \* bound: sessions
  MaxDbNow,      \* bound: seconds
  MaxMoves,      \* bound: changes of status
  MaxPageSize,   \* _MAX_PAGE_SIZE
  AskedLimits    \* the limits a reader may ask for, NoLimit among them or not

ASSUME DashboardAssumption ==
  {MaxSessions, MaxDbNow, MaxMoves} \union AskedLimits \subseteq Nat /\ MaxPageSize \in Nat \ {0}

VARIABLES
  table,   \* sessions, by rowid, each with its row of grades
  dbNow,   \* the database's clock
  moves,   \* changes of status so far
  list,    \* a reading of the list
  detail   \* a reading of one session's detail

dashboardVars == <<table, dbNow, moves, list, detail>>

NoLimit == 0
SessionStatuses == {"pending", "active", "submitted", "graded", "grading_failed"}
\* What a reader may filter by: nothing, or the interviews still going on.
StatusFilters == {SessionStatuses, {"pending", "active"}}
NoList == [step |-> "idle"]
NoDetail == [step |-> "idle"]

DashboardInit == table = << >> /\ dbNow = 0 /\ moves = 0 /\ list = NoList /\ detail = NoDetail

Matching(rows, filter) == {i \in DOMAIN rows : rows[i].status \in filter}

\* What a reading must know of the changes meanwhile: whether a session came
\* under its filter, and whether one left it.
Noted(rows) ==
  IF list.step \in {"idle", "done"} THEN list
  ELSE LET before == Matching(table, list.filter)
           after == Matching(rows, list.filter)
       IN  [list EXCEPT !.grown = @ \/ after \ before # {}, !.left = @ \/ before \ after # {}]

(* create_session, in this second of the database's clock or a later one.    *)
Create ==
  /\ Len(table) < MaxSessions
  /\ dbNow' \in dbNow..MaxDbNow
  /\ table' = Append(table, [created |-> dbNow', status |-> "pending", hasGrade |-> FALSE])
  /\ list' = Noted(table')
  /\ UNCHANGED <<moves, detail>>

\* The changes of status of SessionLifecycle, the revival included.
Moves ==
  {<<"pending", "active">>, <<"active", "submitted">>, <<"submitted", "grading_failed">>,
   <<"grading_failed", "active">>, <<"graded", "active">>}

SetStatus(i, status) ==
  /\ moves < MaxMoves
  /\ table' = [table EXCEPT ![i].status = status]
  /\ moves' = moves + 1
  /\ list' = Noted(table')
  /\ UNCHANGED <<dbNow, detail>>

Move(i) == \E m \in Moves : table[i].status = m[1] /\ SetStatus(i, m[2])

(* The end of a grading run: the grade, then the status.                     *)
WriteGrade(i) ==
  /\ table[i].status = "submitted" /\ ~table[i].hasGrade
  /\ table' = [table EXCEPT ![i].hasGrade = TRUE]
  /\ UNCHANGED <<dbNow, moves, list, detail>>
\* Mutant: the status is set before the grade is there.
MarkGradedFirst(i) == table[i].status = "submitted" /\ SetStatus(i, "graded")
MarkGraded(i) == table[i].status = "submitted" /\ table[i].hasGrade /\ SetStatus(i, "graded")

----------------------------------------------------------------------------
(* The list *)

\* Mutant: the answer names the limit that was asked for.
LimitUnclamped(asked) == asked
LimitNamed(asked) == Min({asked, MaxPageSize})
Clamped(asked) == Min({asked, MaxPageSize})

BeginList ==
  /\ list.step = "idle" /\ detail.step = "idle"
  /\ \E asked \in AskedLimits, filter \in StatusFilters, trusts \in BOOLEAN :
       list' = [step |-> "count", asked |-> asked, filter |-> filter, trusts |-> trusts,
                offset |-> 0, total |-> 0, seen |-> {}, due |-> Matching(table, filter),
                grown |-> FALSE, left |-> FALSE]
  /\ UNCHANGED <<table, dbNow, moves, detail>>

(* SELECT COUNT, a statement of its own.                                     *)
Count ==
  /\ list.step = "count"
  /\ list' = [list EXCEPT !.step = "page", !.total = Cardinality(Matching(table, list.filter))]
  /\ UNCHANGED <<table, dbNow, moves, detail>>

\* ORDER BY created_at DESC.
Ordered(filter) ==
  {rows \in SetToSeqs(Matching(table, filter)) :
     \A i, j \in DOMAIN rows : i < j => table[rows[i]].created >= table[rows[j]].created}

(* SELECT ... LIMIT ? OFFSET ?; without a limit everything comes at once.    *)
FetchPage ==
  /\ list.step = "page"
  /\ \E rows \in Ordered(list.filter) :
       LET limit == Clamped(list.asked)
           next == list.offset + LimitNamed(list.asked)
           page == IF list.asked = NoLimit THEN rows
                   ELSE SubSeq(rows, list.offset + 1, Min({list.offset + limit, Len(rows)}))
           last == \/ list.asked = NoLimit \/ page = << >>
                   \/ IF list.trusts THEN next >= list.total ELSE Len(page) < limit
       IN  list' = [list EXCEPT !.seen = @ \union ToSet(page), !.offset = next,
                                !.step = IF last THEN "done" ELSE "count"]
  /\ UNCHANGED <<table, dbNow, moves, detail>>

----------------------------------------------------------------------------
(* The detail: the row of sessions first, the row of grades after it *)

ReadSession(i) ==
  /\ list.step = "idle" /\ detail.step = "idle"
  /\ detail' = [step |-> "row", of |-> i, status |-> table[i].status]
  /\ UNCHANGED <<table, dbNow, moves, list>>

ReadGrade ==
  /\ detail.step = "row"
  /\ detail' = [step |-> "done", status |-> detail.status, hasGrade |-> table[detail.of].hasGrade]
  /\ UNCHANGED <<table, dbNow, moves, list>>

\* Bound: a behaviour ends with its reading.
DashboardNext ==
  /\ list.step # "done" /\ detail.step # "done"
  /\ \/ Create \/ BeginList \/ Count \/ FetchPage \/ ReadGrade
     \/ \E i \in DOMAIN table : Move(i) \/ WriteGrade(i) \/ MarkGraded(i) \/ ReadSession(i)

DashboardSpec == DashboardInit /\ [][DashboardNext]_dashboardVars

----------------------------------------------------------------------------
(* Properties *)

DashboardTypeOK ==
  /\ Len(table) <= MaxSessions /\ dbNow \in 0..MaxDbNow /\ moves \in 0..MaxMoves
  /\ \A i \in DOMAIN table : table[i].created \in 0..dbNow /\ table[i].status \in SessionStatuses
  /\ list.step \in {"idle", "count", "page", "done"} /\ detail.step \in {"idle", "row", "done"}

NoTies == \A i, j \in DOMAIN table : i # j => table[i].created # table[j].created

(* What several statements say together is true.  Page by page a reader sees *)
(* every session that was there when it began, however many are created      *)
(* meanwhile: the newest come first, so a session only moves to a later      *)
(* page.  Excepted are a session that left the filter, two of one second,    *)
(* and the reader that trusts a total from before the list grew.  And a      *)
(* detail that says "graded" has the grade.                                  *)
ReadersAreToldTheTruth ==
  /\ list.step = "done" /\ ~list.left /\ NoTies /\ ~(list.trusts /\ list.grown) =>
       list.due \subseteq list.seen
  /\ detail.step = "done" /\ detail.status = "graded" => detail.hasGrade
=============================================================================
