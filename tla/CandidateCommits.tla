-------------------------- MODULE CandidateCommits --------------------------
(***************************************************************************)
(* Whose work is on the branch: the commits a session leaves, and the two  *)
(* ways the server tells the candidate's from those that set the branch    *)
(* up.  The grader goes by the subject (grader/git_ops.candidate_base, for *)
(* engagement.assess and for the recovery events of signals.py), the       *)
(* recruiter's code diff goes by the author (code_diff._starter_base).     *)
(*                                                                         *)
(* The extension commits with the subjects "auto:" and "submit:", under    *)
(* the address it sets in the clone (extension/src/submit.ts); whoever     *)
(* commits by hand before that, or in a new clone, does it under their     *)
(* own.  A tree of code is a number; telemetry.jsonl, which both ways      *)
(* leave out, changes all the time, so there is always something to        *)
(* commit.  git and the candidate's shell are external.                    *)
(***************************************************************************)
EXTENDS Integers, Sequences, SequencesExt, FiniteSetsExt

CONSTANTS
  MaxTree,     \* bound: different trees
  MaxCommits,  \* bound: commits on the branch, two of them the setup's
  Depth        \* --depth of the grader's clone

ASSUME CommitsAssumption ==
  /\ MaxTree \in Nat \ {0} /\ MaxCommits \in Nat \ 0..1 /\ Depth \in Nat \ {0}

VARIABLES
  branch,   \* the commits, oldest first
  desk,     \* the clone: its tree, and whether user.email is set in it
  counted,  \* whether the session's counters exceed _MIN_ENGAGED_CHARS
  chatted,  \* whether chat_exchanges has a row
  touched,  \* history: whether the candidate ever changed the tree
  handedIn  \* the interview is submitted

commitVars == <<branch, desk, counted, chatted, touched, handedIn>>

ImportTree == 0
HandedTree == 1
NoCommit == 0
Commit(subject, email, tree, large) ==
  [subject |-> subject, email |-> email, tree |-> tree, large |-> large]
Tip == Last(branch)

(* The starter's import and the commit that takes the answers out.           *)
CommitsInit ==
  /\ branch = <<Commit("import", "bot", ImportTree, FALSE),
                Commit("provision", "bot", HandedTree, TRUE)>>
  /\ desk = [tree |-> HandedTree, configured |-> FALSE]
  /\ counted = FALSE /\ chatted = FALSE /\ touched = FALSE /\ handedIn = FALSE

(* The tree changes: in the editor, which counts the characters, or by a     *)
(* tool the extension does not see.                                          *)
ChangeTree ==
  /\ ~handedIn
  /\ \E tree \in (0..MaxTree) \ {desk.tree} : desk' = [desk EXCEPT !.tree = tree]
  /\ counted' \in {counted, TRUE}
  /\ touched' = TRUE
  /\ UNCHANGED <<branch, chatted, handedIn>>

Chat ==
  /\ ~handedIn
  /\ chatted' = TRUE
  /\ UNCHANGED <<branch, desk, counted, touched, handedIn>>

\* A commit of the clone's tree; it may delete a lot.
Push(subject, email) ==
  /\ Len(branch) < MaxCommits
  /\ \E large \in {FALSE, desk.tree # Tip.tree} :
       branch' = Append(branch, Commit(subject, email, desk.tree, large))

(* gitCommitAndPushAsync on the interval.                                    *)
IntervalCommit ==
  /\ ~handedIn
  /\ Push("auto", "candidate")
  /\ desk' = [desk EXCEPT !.configured = TRUE]
  /\ UNCHANGED <<counted, chatted, touched, handedIn>>

(* The candidate commits by hand.                                            *)
HandCommit ==
  /\ ~handedIn
  /\ Push("hand", IF desk.configured THEN "candidate" ELSE "own")
  /\ UNCHANGED <<desk, counted, chatted, touched, handedIn>>

(* The folder is lost and cloned again.                                      *)
CloneAgain ==
  /\ ~handedIn
  /\ desk' = [tree |-> Tip.tree, configured |-> FALSE]
  /\ UNCHANGED <<branch, counted, chatted, touched, handedIn>>

(* The extension's submission: --allow-empty.                                *)
SubmitCommit ==
  /\ ~handedIn
  /\ Push("submit", "candidate")
  /\ desk' = [desk EXCEPT !.configured = TRUE]
  /\ handedIn' = TRUE
  /\ UNCHANGED <<counted, chatted, touched>>

(* The sweep submits what is on the branch.                                  *)
SweepSubmits ==
  /\ ~handedIn
  /\ handedIn' = TRUE
  /\ UNCHANGED <<branch, desk, counted, chatted, touched>>

CommitsNext ==
  \/ ChangeTree \/ Chat \/ IntervalCommit \/ HandCommit \/ CloneAgain \/ SubmitCommit \/ SweepSubmits

CommitsSpec == CommitsInit /\ [][CommitsNext]_commitVars

----------------------------------------------------------------------------
(* What the server makes of it *)

\* The newest of some commits that the shallow clone reaches, if there is one.
Newest(commits) == Max({i \in commits : i > Len(branch) - Depth} \union {NoCommit})

CandidateBase == Newest({i \in DOMAIN branch : branch[i].subject # "auto"})

\* Mutant: the subject decides here too.
StarterBaseBySubject == Newest({i \in DOMAIN branch : branch[i].subject # "auto"})
StarterBase == Newest({i \in DOMAIN branch : branch[i].email # "candidate"})

(* _code_changed: no base, no change.                                        *)
CodeChanged == CandidateBase # NoCommit /\ branch[CandidateBase].tree # Tip.tree

(* assess.                                                                   *)
Attended == counted \/ chatted \/ CodeChanged

(* _recovery_events: commits behind the base that delete fifty lines.        *)
Recoveries ==
  IF CandidateBase = NoCommit THEN {}
  ELSE {i \in (CandidateBase + 1)..Len(branch) : branch[i].large}

----------------------------------------------------------------------------
(* Properties *)

CommitsTypeOK ==
  /\ Len(branch) \in 2..MaxCommits
  /\ \A i \in DOMAIN branch : branch[i].tree \in 0..MaxTree
  /\ desk.tree \in 0..MaxTree

(* The setup is told apart from the work.  The code diff starts at the tree  *)
(* that was handed over, unless somebody committed under an own name or the  *)
(* setup is out of the clone's reach (then everything is shown); what set    *)
(* the branch up is neither a change nor a recovery of the candidate, so one *)
(* who did nothing is recognised.                                            *)
SetupIsToldApart ==
  /\ (\A i \in DOMAIN branch : branch[i].email # "own") /\ StarterBase # NoCommit
       => branch[StarterBase].tree = HandedTree
  /\ \A i \in Recoveries : branch[i].email # "bot"
  /\ ~touched => ~CodeChanged /\ Recoveries = {}

(* engagement.py:16-17: the gate "is conservative and never floors a         *)
(* candidate who did real work", any change to the starter on the branch     *)
(* being engagement enough.                                                  *)
WorkIsNeverFloored == handedIn /\ Tip.tree # HandedTree => Attended
=============================================================================
