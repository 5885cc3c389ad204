------------------------- MODULE BranchProvisioning -------------------------
(***************************************************************************)
(* What happens inside the await of validate-session: one interview's      *)
(* branch on GitHub, the calls of validate-session that create it          *)
(* (server/vibe/sessions.py, _create_github_branch and                     *)
(* _provision_candidate_branch), and the clone the extension makes of it.  *)
(*                                                                         *)
(* A branch is created in two requests: POST git/refs cuts a copy of the   *)
(* challenge, and a forced PATCH repoints it to the commit a candidate may *)
(* have (answer key stripped, integrity marker added).  A request whose    *)
(* answer does not arrive in time may still be carried out later, so       *)
(* `limbo` keeps those that nobody waits for.  GitHub is external; only    *)
(* what the code can see of it is modelled.                                *)
(***************************************************************************)
EXTENDS Naturals

CONSTANTS
  Calls,      \* calls of validate-session that may be in flight together
  MaxFaults,  \* bound: calls that break off
  MaxWork     \* bound: commits the candidate makes

ASSUME BranchAssumption == MaxFaults \in Nat /\ MaxWork \in Nat

VARIABLES
  status,   \* sessions.status, before any submission
  branch,   \* the branch's head on GitHub
  call,     \* where each call is
  limbo,    \* requests that were given up but may still be carried out
  token,    \* whether the candidate was answered with a clone token
  clone,    \* the candidate's checkout
  faults,   \* calls that broke off so far
  overlap   \* whether two calls were ever in flight together

vars == <<status, branch, call, limbo, token, clone, faults, overlap>>

\* A head: what the history starts from, and the candidate's commits on top.
Heads == [base : {"none", "copy", "ready"}, work : 0..MaxWork]
Nothing == [base |-> "none", work |-> 0]
Copy == [base |-> "copy", work |-> 0]
Provisioned == [base |-> "ready", work |-> 0]

\* The next thing a call does: POST git/refs, PATCH the ref, UPDATE the row,
\* mint the clone token.
Steps == {"idle", "cut", "repoint", "activate", "mint"}

Init ==
  /\ status = "pending"
  /\ branch = Nothing
  /\ call = [c \in Calls |-> "idle"]
  /\ limbo = {}
  /\ token = FALSE
  /\ clone = Nothing
  /\ faults = 0
  /\ overlap = FALSE

GoTo(c, step) == call' = [call EXCEPT ![c] = step]
Server == <<status, branch, limbo>>
Candidate == <<token, clone>>

----------------------------------------------------------------------------
(* The calls *)

(* validate_session reads the row: a pending one needs its branch first.    *)
Validate(c) ==
  /\ call[c] = "idle"
  /\ GoTo(c, IF status = "pending" THEN "cut" ELSE "mint")
  /\ overlap' = (overlap \/ \E d \in Calls : call[d] # "idle")
  /\ UNCHANGED <<Server, Candidate, faults>>

\* Mutants of the POST: an existing branch is repointed once more; it is an
\* error; the new copy is handed over as it is; the call waits for a retry.
CutRepoints(c) ==
  /\ call[c] = "cut"
  /\ branch' = IF branch = Nothing THEN Copy ELSE branch
  /\ GoTo(c, "repoint")
  /\ UNCHANGED <<status, limbo, Candidate, faults, overlap>>
CutRefused(c) ==
  /\ call[c] = "cut"
  /\ branch' = IF branch = Nothing THEN Copy ELSE branch
  /\ GoTo(c, IF branch = Nothing THEN "repoint" ELSE "idle")
  /\ UNCHANGED <<status, limbo, Candidate, faults, overlap>>
CutHandsOver(c) ==
  /\ call[c] = "cut"
  /\ branch' = IF branch = Nothing THEN Copy ELSE branch
  /\ GoTo(c, "activate")
  /\ UNCHANGED <<status, limbo, Candidate, faults, overlap>>

(* POST git/refs: 201 cuts the copy, 422 finds a branch and takes it as it  *)
(* is.                                                                      *)
Cut(c) ==
  /\ call[c] = "cut"
  /\ branch' = IF branch = Nothing THEN Copy ELSE branch
  /\ GoTo(c, IF branch = Nothing THEN "repoint" ELSE "activate")
  /\ UNCHANGED <<status, limbo, Candidate, faults, overlap>>

(* PATCH git/refs/heads/<branch>, force: whatever was there is replaced.    *)
Repoint(c) ==
  /\ call[c] = "repoint"
  /\ branch' = Provisioned
  /\ GoTo(c, "activate")
  /\ UNCHANGED <<status, limbo, Candidate, faults, overlap>>

(* UPDATE sessions SET status='active' WHERE id=?                           *)
Activate(c) ==
  /\ call[c] = "activate"
  /\ status' = "active"
  /\ GoTo(c, "mint")
  /\ UNCHANGED <<branch, limbo, Candidate, faults, overlap>>

(* The clone token is minted and the call answered.                         *)
Mint(c) ==
  /\ call[c] = "mint"
  /\ token' = TRUE
  /\ GoTo(c, "idle")
  /\ UNCHANGED <<Server, clone, faults, overlap>>

(* GitHub answers with an error or not in time, or the server dies.  The    *)
(* request the call was at is never sent or still on its way.               *)
BreakOff(c) ==
  /\ call[c] # "idle"
  /\ faults < MaxFaults
  /\ faults' = faults + 1
  /\ GoTo(c, "idle")
  /\ limbo' \in {limbo, limbo \union ({call[c]} \intersect {"cut", "repoint"})}
  /\ UNCHANGED <<status, branch, Candidate, overlap>>

(* ... and is carried out after all.                                        *)
Late ==
  \/ /\ "cut" \in limbo
     /\ limbo' = limbo \ {"cut"}
     /\ branch' = IF branch = Nothing THEN Copy ELSE branch
     /\ UNCHANGED <<status, call, Candidate, faults, overlap>>
  \/ /\ "repoint" \in limbo
     /\ limbo' = limbo \ {"repoint"}
     /\ branch' = Provisioned
     /\ UNCHANGED <<status, call, Candidate, faults, overlap>>

----------------------------------------------------------------------------
(* The candidate's machine *)

\* Mutant: the commit the branch started from instead of its tip.
CloneStart ==
  /\ token
  /\ clone = Nothing
  /\ branch # Nothing
  /\ clone' = [branch EXCEPT !.work = 0]
  /\ UNCHANGED <<Server, call, token, faults, overlap>>

(* _gitClone: the tip of the branch.                                        *)
Clone ==
  /\ token
  /\ clone = Nothing
  /\ branch # Nothing
  /\ clone' = branch
  /\ UNCHANGED <<Server, call, token, faults, overlap>>

(* The workspace is gone from the disk; Reopen clones again.                *)
LoseClone ==
  /\ clone # Nothing
  /\ clone' = Nothing
  /\ UNCHANGED <<Server, call, token, faults, overlap>>

(* A commit of the candidate's work.                                        *)
Commit ==
  /\ clone # Nothing
  /\ clone.work < MaxWork
  /\ clone' = [clone EXCEPT !.work = @ + 1]
  /\ UNCHANGED <<Server, call, token, faults, overlap>>

\* The push is a fast-forward of what is on GitHub; any other is rejected and
\* changes nothing.
FastForward == clone.base = branch.base /\ branch.work <= clone.work
Push ==
  /\ clone # Nothing
  /\ FastForward
  /\ branch' = clone
  /\ UNCHANGED <<status, limbo, call, Candidate, faults, overlap>>

----------------------------------------------------------------------------
Progress(c) == Cut(c) \/ Repoint(c) \/ Activate(c) \/ Mint(c)

Next ==
  \/ \E c \in Calls : Validate(c) \/ Progress(c) \/ BreakOff(c)
  \/ Late
  \/ Clone \/ LoseClone \/ Commit \/ Push

Spec == Init /\ [][Next]_vars

(* A handler that started runs on.  The candidate who has no workspace yet  *)
(* asks again when a call breaks off, and clones when there is a token.     *)
FairSpec ==
  /\ Spec
  /\ \A c \in Calls : WF_vars(Progress(c)) /\ WF_vars(Validate(c))
  /\ WF_vars(Clone)

----------------------------------------------------------------------------
(* Properties *)

TypeOK ==
  /\ status \in {"pending", "active"}
  /\ branch \in Heads /\ clone \in Heads
  /\ call \in [Calls -> Steps]
  /\ limbo \subseteq {"cut", "repoint"}
  /\ token \in BOOLEAN /\ overlap \in BOOLEAN
  /\ faults \in 0..MaxFaults

\* An interview is never activated, and a token never handed out, for a branch
\* that does not exist: the candidate's clone would fail.
ActiveHasBranch == status = "active" \/ token => branch # Nothing

\* Pushed work stays on the branch.  On a provisioned one no overlapping,
\* broken-off or late call of validate-session throws any away, although the
\* PATCH is forced and names no expected head.  On a bare copy that was handed
\* over, only the PATCH still owed does, after calls that broke off or
\* overlapped; what it leaves is provisioned, so it happens once.
PushedWorkIsKept ==
  [][/\ branch.base = "ready" => branch'.base = "ready" /\ branch.work <= branch'.work
     /\ branch.base = "copy" /\ branch.work > 0 =>
          \/ branch'.base = "copy" /\ branch.work <= branch'.work
          \/ branch' = Provisioned /\ (faults > 0 \/ overlap)]_vars

\* What a candidate clones is provisioned, when no call broke off and none
\* overlapped another.
QuietCloneIsReady == clone.base = "copy" => faults > 0 \/ overlap

\* A push from a provisioned checkout is never rejected.
ReadyCloneCanPush == clone.base = "ready" => FastForward

\* A candidate who keeps asking gets a workspace, wherever calls broke off:
\* the retry finds the branch and goes on.
RetriesGetThere == <>(clone # Nothing)

\* sessions.py:913-914: "a branch that might still carry the answer key must
\* not be handed to a candidate".
OnlyReadyIsHandedOver == clone.base # "copy"
=============================================================================
