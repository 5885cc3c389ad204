----------------------------- MODULE MCServices -----------------------------
(* The parts that share no state with one another, on small instances, in    *)
(* one run: a behaviour is of one part, chosen at the start.                 *)
EXTENDS ChatProxy, InterviewVideo, FileEditor, RateLimit, EditReview, ClientLog, Dashboard

CONSTANTS entry, t1, t2, e1, e2, f1, p1, p2

VARIABLE part

MCRates == [m \in ChatModels |-> [input |-> 1, cached_input |-> 0, output |-> 2]]
OneBody == {entry}
TwoTabs == {t1, t2}
TwoEditors == {e1, e2}
OneFile == {f1}
TwoPlaces == {p1, p2}

vars == <<part, chatVars, videoVars, editorVars, rateVars, reviewVars, lvars, dashboardVars>>

Init ==
  /\ part \in {"chat", "video", "editor", "rate", "review", "log", "dashboard"}
  /\ ChatInit /\ VideoInit /\ EditorInit /\ RateInit /\ ReviewInit /\ LInit
  /\ DashboardInit

ChatOnly == UNCHANGED <<part, videoVars, editorVars, rateVars, reviewVars, lvars, dashboardVars>>
VideoOnly == UNCHANGED <<part, chatVars, editorVars, rateVars, reviewVars, lvars, dashboardVars>>
EditorOnly == UNCHANGED <<part, chatVars, videoVars, rateVars, reviewVars, lvars, dashboardVars>>
RateOnly == UNCHANGED <<part, chatVars, videoVars, editorVars, reviewVars, lvars, dashboardVars>>
ReviewOnly == UNCHANGED <<part, chatVars, videoVars, editorVars, rateVars, lvars, dashboardVars>>
LogOnly == UNCHANGED <<part, chatVars, videoVars, editorVars, rateVars, reviewVars, dashboardVars>>
DashboardOnly == UNCHANGED <<part, chatVars, videoVars, editorVars, rateVars, reviewVars, lvars>>

Next ==
  \/ part = "chat" /\ ChatNext /\ ChatOnly
  \/ part = "video" /\ VideoNext /\ VideoOnly
  \/ part = "editor" /\ EditorNext /\ EditorOnly
  \/ part = "rate" /\ RateNext /\ RateOnly
  \/ part = "review" /\ ReviewNext /\ ReviewOnly
  \/ part = "log" /\ LNext /\ LogOnly
  \/ part = "dashboard" /\ DashboardNext /\ DashboardOnly

\* A part that was not chosen never enables what its fairness is about.
Spec == Init /\ [][Next]_vars /\ ChatFairness /\ ReviewFairness /\ LFairness
=============================================================================
