------------------------------ MODULE BranchProofs --------------------------
(***************************************************************************)
(* Proofs about what happens to the branch of a session: how it is         *)
(* provisioned, for any number of overlapping calls of validate-session,   *)
(* any number of them breaking off; and what the extension pushes to it,   *)
(* for any number of submissions, changes, waiters, hung pushes and        *)
(* reloads.                                                                *)
(***************************************************************************)
EXTENDS BranchProvisioning, Workspace, TLAPS

(***************************************************************************)
(* Provisioning.                                                           *)
(*                                                                         *)
(* Everything hangs on one fact that no statement of the code checks: the  *)
(* forced PATCH is owed at most once, by the call that was answered 201 or *)
(* by the request it left behind, and while it is owed the branch is still *)
(* the bare copy.                                                          *)
(***************************************************************************)

Disturbed == faults > 0 \/ overlap

\* A branch or a checkout with no base is Nothing.
HeadsAreWhole ==
  /\ branch.base = "none" => branch = Nothing
  /\ clone.base = "none" => clone = Nothing

\* Past the POST there is a branch, also for what the calls leave behind.
BranchStays ==
  /\ \A c \in Calls : call[c] \in {"repoint", "activate", "mint"} => branch # Nothing
  /\ status = "active" \/ token \/ clone # Nothing \/ "repoint" \in limbo => branch # Nothing

\* One forced PATCH is owed, to a branch that is a bare copy.
OnePatch ==
  /\ \A c \in Calls : call[c] = "repoint" => branch.base = "copy" /\ "repoint" \notin limbo
  /\ "repoint" \in limbo => branch.base = "copy"
  /\ \A c, d \in Calls : call[c] = "repoint" /\ call[d] = "repoint" => c = d

\* While nothing broke off or overlapped, one call is in flight, and a bare copy
\* is on its way to be repointed.
QuietBranch ==
  ~Disturbed =>
    /\ \A c, d \in Calls : call[c] # "idle" /\ call[d] # "idle" => c = d
    /\ limbo = {}
    /\ branch.base = "copy" =>
         status = "pending" /\ ~token /\ \E c \in Calls : call[c] = "repoint"

\* Work is pushed to a bare copy only from a checkout of one.
CopyWorkIsDisturbed == branch.base = "copy" /\ branch.work > 0 => Disturbed

BInv ==
  /\ TypeOK
  /\ HeadsAreWhole
  /\ BranchStays
  /\ OnePatch
  /\ ReadyCloneCanPush
  /\ QuietBranch
  /\ QuietCloneIsReady
  /\ CopyWorkIsDisturbed

----------------------------------------------------------------------------
(* Records: what a head may be. *)

LEMMA HeadFacts ==
  /\ Nothing \in Heads /\ Copy \in Heads /\ Provisioned \in Heads
  /\ Nothing.base = "none" /\ Nothing.work = 0
  /\ Copy.base = "copy" /\ Copy.work = 0
  /\ Provisioned.base = "ready" /\ Provisioned.work = 0
  /\ \A h \in Heads : h.base \in {"none", "copy", "ready"} /\ h.work \in Nat /\ h.work <= MaxWork
  BY BranchAssumption DEF Heads, Nothing, Copy, Provisioned

\* One more commit on a head.
LEMMA OneMore ==
  ASSUME NEW h \in Heads, h.work < MaxWork
  PROVE  /\ [h EXCEPT !.work = @ + 1] \in Heads
         /\ [h EXCEPT !.work = @ + 1].base = h.base
         /\ [h EXCEPT !.work = @ + 1].work = h.work + 1
  BY BranchAssumption DEF Heads

LEMMA BInvInit == Init => BInv
  <1> SUFFICES ASSUME Init PROVE BInv
    OBVIOUS
  <1>1. /\ branch = Nothing /\ clone = Nothing /\ limbo = {} /\ status = "pending"
        /\ token = FALSE /\ faults = 0 /\ overlap = FALSE
        /\ call = [c \in Calls |-> "idle"]
    BY DEF Init
  <1>2. faults \in 0..MaxFaults
    BY <1>1, BranchAssumption
  <1>3. TypeOK
    BY <1>1, <1>2, HeadFacts, Zenon DEF TypeOK, Steps
  <1> QED BY <1>1, <1>3, HeadFacts DEF BInv, HeadsAreWhole, BranchStays, OnePatch,
           ReadyCloneCanPush, QuietBranch, QuietCloneIsReady, CopyWorkIsDisturbed, Disturbed

----------------------------------------------------------------------------
(* Steps of the calls. *)

LEMMA CallMoves ==
  ASSUME TypeOK, NEW c \in Calls, NEW step \in Steps, GoTo(c, step)
  PROVE  /\ call' \in [Calls -> Steps]
         /\ \A d \in Calls : call'[d] = IF d = c THEN step ELSE call[d]
  BY DEF TypeOK, GoTo

LEMMA Validated ==
  ASSUME BInv, NEW c \in Calls, Validate(c) PROVE BInv'
  <1> DEFINE step == IF status = "pending" THEN "cut" ELSE "mint"
  <1>t. TypeOK
    BY DEF BInv
  <1>1. /\ call[c] = "idle" /\ GoTo(c, step) /\ step \in Steps
        /\ branch' = branch /\ status' = status /\ limbo' = limbo
        /\ token' = token /\ clone' = clone /\ faults' = faults
    BY DEF Validate, Server, Candidate, Steps
  <1>2. step = "mint" => status = "active"
    BY <1>t DEF TypeOK
  <1>3. step \in {"cut", "mint"}
    OBVIOUS
  <1> HIDE DEF step
  <1>4. /\ call' \in [Calls -> Steps]
        /\ \A d \in Calls : call'[d] = IF d = c THEN step ELSE call[d]
    BY <1>t, <1>1, CallMoves
  <1>5. overlap' \in BOOLEAN
    BY Zenon DEF Validate
  <1>6. TypeOK'
    BY <1>t, <1>1, <1>4, <1>5 DEF TypeOK
  <1>7. HeadsAreWhole' /\ ReadyCloneCanPush'
    BY <1>1 DEF BInv, HeadsAreWhole, ReadyCloneCanPush, FastForward
  <1>8. BranchStays'
    BY <1>1, <1>2, <1>3, <1>4 DEF BInv, BranchStays
  <1>9. OnePatch'
    BY <1>1, <1>3, <1>4 DEF BInv, OnePatch
  <1>10. ~Disturbed' => ~Disturbed /\ \A d \in Calls : call[d] = "idle"
    BY <1>1, Zenon DEF Validate, Disturbed
  <1>11. QuietBranch'
    BY <1>1, <1>4, <1>10 DEF BInv, QuietBranch
  <1>12. QuietCloneIsReady'
    BY <1>1, <1>10 DEF BInv, QuietCloneIsReady, Disturbed
  <1>13. CopyWorkIsDisturbed'
    BY <1>1, <1>10 DEF BInv, CopyWorkIsDisturbed
  <1> QED BY <1>6, <1>7, <1>8, <1>9, <1>11, <1>12, <1>13 DEF BInv

LEMMA CutDone ==
  ASSUME BInv, NEW c \in Calls, Cut(c) PROVE BInv'
  <1> DEFINE step == IF branch = Nothing THEN "repoint" ELSE "activate"
  <1>t. TypeOK
    BY DEF BInv
  <1>1. /\ call[c] = "cut" /\ GoTo(c, step) /\ step \in Steps
        /\ branch' = IF branch = Nothing THEN Copy ELSE branch
        /\ status' = status /\ limbo' = limbo /\ token' = token /\ clone' = clone
        /\ faults' = faults /\ overlap' = overlap
    BY DEF Cut, Candidate, Steps
  <1>2. step = (IF branch = Nothing THEN "repoint" ELSE "activate")
    OBVIOUS
  <1> HIDE DEF step
  <1>4. /\ call' \in [Calls -> Steps]
        /\ \A d \in Calls : call'[d] = IF d = c THEN step ELSE call[d]
    BY <1>t, <1>1, CallMoves
  <1>5. branch' # Nothing /\ branch' \in Heads
    BY <1>t, <1>1, HeadFacts DEF TypeOK
  <1>6. TypeOK'
    BY <1>t, <1>1, <1>4, <1>5 DEF TypeOK
  <1>7. branch = Nothing => clone = Nothing /\ branch'.base = "copy"
    BY <1>1, HeadFacts DEF BInv, BranchStays
  <1>8. HeadsAreWhole' /\ ReadyCloneCanPush'
    BY <1>1, <1>7, HeadFacts DEF BInv, HeadsAreWhole, ReadyCloneCanPush, FastForward
  <1>9. BranchStays'
    BY <1>1, <1>5 DEF BInv, BranchStays
  <1>10. OnePatch'
    BY <1>1, <1>2, <1>4, <1>7 DEF BInv, OnePatch, BranchStays
  <1>11. Disturbed' = Disturbed
    BY <1>1, Zenon DEF Disturbed
  <1>12. QuietBranch'
    <2>1. ASSUME ~Disturbed
          PROVE  branch = Nothing \/ branch.base # "copy"
      BY <2>1, <1>1 DEF BInv, QuietBranch
    <2>2. branch = Nothing => status = "pending" /\ ~token
      BY <1>t DEF BInv, BranchStays, TypeOK
    <2> QED BY <1>1, <1>2, <1>4, <1>11, <2>1, <2>2 DEF BInv, QuietBranch
  <1>13. QuietCloneIsReady'
    BY <1>1 DEF BInv, QuietCloneIsReady
  <1>14. CopyWorkIsDisturbed'
    BY <1>1, <1>11, HeadFacts DEF BInv, CopyWorkIsDisturbed
  <1> QED BY <1>6, <1>8, <1>9, <1>10, <1>12, <1>13, <1>14 DEF BInv

\* The forced PATCH, by a call or late: it lands on the bare copy.
LEMMA Patched ==
  ASSUME BInv, branch.base = "copy", branch' = Provisioned, clone' = clone
  PROVE  /\ branch' # Nothing /\ branch' \in Heads /\ branch'.base = "ready"
         /\ HeadsAreWhole' /\ ReadyCloneCanPush' /\ CopyWorkIsDisturbed'
  BY HeadFacts DEF BInv, HeadsAreWhole, ReadyCloneCanPush, FastForward, CopyWorkIsDisturbed

LEMMA Repointed ==
  ASSUME BInv, NEW c \in Calls, Repoint(c) PROVE BInv'
  <1>t. TypeOK
    BY DEF BInv
  <1>1. /\ call[c] = "repoint" /\ GoTo(c, "activate") /\ "activate" \in Steps
        /\ branch' = Provisioned
        /\ status' = status /\ limbo' = limbo /\ token' = token /\ clone' = clone
        /\ faults' = faults /\ overlap' = overlap
    BY DEF Repoint, Candidate, Steps
  <1>2. /\ branch' # Nothing /\ branch' \in Heads /\ branch'.base = "ready"
        /\ HeadsAreWhole' /\ ReadyCloneCanPush' /\ CopyWorkIsDisturbed'
    BY <1>1, Patched DEF BInv, OnePatch
  <1>4. /\ call' \in [Calls -> Steps]
        /\ \A d \in Calls : call'[d] = IF d = c THEN "activate" ELSE call[d]
    BY <1>t, <1>1, CallMoves
  <1>6. TypeOK'
    BY <1>t, <1>1, <1>2, <1>4 DEF TypeOK
  <1>9. BranchStays'
    BY <1>2 DEF BranchStays
  <1>10. OnePatch'
    BY <1>1, <1>4 DEF BInv, OnePatch
  <1>11. Disturbed' = Disturbed
    BY <1>1, Zenon DEF Disturbed
  <1>12. QuietBranch'
    BY <1>1, <1>2, <1>4, <1>11 DEF BInv, QuietBranch
  <1>13. QuietCloneIsReady'
    BY <1>1 DEF BInv, QuietCloneIsReady
  <1> QED BY <1>2, <1>6, <1>9, <1>10, <1>12, <1>13 DEF BInv

LEMMA ActivateDone ==
  ASSUME BInv, NEW c \in Calls, Activate(c) PROVE BInv'
  <1>t. TypeOK
    BY DEF BInv
  <1>1. /\ call[c] = "activate" /\ GoTo(c, "mint") /\ "mint" \in Steps
        /\ branch' = branch /\ status' = "active" /\ limbo' = limbo
        /\ token' = token /\ clone' = clone /\ faults' = faults /\ overlap' = overlap
    BY DEF Activate, Candidate, Steps
  <1>4. /\ call' \in [Calls -> Steps]
        /\ \A d \in Calls : call'[d] = IF d = c THEN "mint" ELSE call[d]
    BY <1>t, <1>1, CallMoves
  <1>6. TypeOK'
    BY <1>t, <1>1, <1>4 DEF TypeOK
  <1>8. HeadsAreWhole' /\ ReadyCloneCanPush' /\ QuietCloneIsReady' /\ CopyWorkIsDisturbed'
    BY <1>1 DEF BInv, HeadsAreWhole, ReadyCloneCanPush, FastForward, QuietCloneIsReady,
               CopyWorkIsDisturbed, Disturbed
  <1>9. BranchStays'
    BY <1>1 DEF BInv, BranchStays
  <1>10. OnePatch'
    BY <1>1, <1>4 DEF BInv, OnePatch
  <1>11. Disturbed' = Disturbed
    BY <1>1, Zenon DEF Disturbed
  <1>12. QuietBranch'
    <2>1. ASSUME ~Disturbed PROVE branch.base # "copy"
      BY <2>1, <1>1 DEF BInv, QuietBranch
    <2> QED BY <1>1, <1>4, <1>11, <2>1 DEF BInv, QuietBranch
  <1> QED BY <1>6, <1>8, <1>9, <1>10, <1>12 DEF BInv

LEMMA Minted ==
  ASSUME BInv, NEW c \in Calls, Mint(c) PROVE BInv'
  <1>t. TypeOK
    BY DEF BInv
  <1>1. /\ call[c] = "mint" /\ GoTo(c, "idle") /\ "idle" \in Steps
        /\ branch' = branch /\ status' = status /\ limbo' = limbo
        /\ token' = TRUE /\ clone' = clone /\ faults' = faults /\ overlap' = overlap
    BY DEF Mint, Server, Steps
  <1>4. /\ call' \in [Calls -> Steps]
        /\ \A d \in Calls : call'[d] = IF d = c THEN "idle" ELSE call[d]
    BY <1>t, <1>1, CallMoves
  <1>6. TypeOK'
    BY <1>t, <1>1, <1>4 DEF TypeOK
  <1>8. HeadsAreWhole' /\ ReadyCloneCanPush' /\ QuietCloneIsReady' /\ CopyWorkIsDisturbed'
    BY <1>1 DEF BInv, HeadsAreWhole, ReadyCloneCanPush, FastForward, QuietCloneIsReady,
               CopyWorkIsDisturbed, Disturbed
  <1>9. BranchStays'
    BY <1>1, <1>4 DEF BInv, BranchStays
  <1>10. OnePatch'
    BY <1>1, <1>4 DEF BInv, OnePatch
  <1>11. Disturbed' = Disturbed
    BY <1>1, Zenon DEF Disturbed
  <1>12. QuietBranch'
    <2>1. ASSUME ~Disturbed PROVE branch.base # "copy"
      BY <2>1, <1>1 DEF BInv, QuietBranch
    <2> QED BY <1>1, <1>4, <1>11, <2>1 DEF BInv, QuietBranch
  <1> QED BY <1>6, <1>8, <1>9, <1>10, <1>12 DEF BInv

LEMMA BrokeOff ==
  ASSUME BInv, NEW c \in Calls, BreakOff(c) PROVE BInv'
  <1>t. TypeOK
    BY DEF BInv
  <1>1. /\ call[c] # "idle" /\ GoTo(c, "idle") /\ "idle" \in Steps
        /\ branch' = branch /\ status' = status /\ token' = token /\ clone' = clone
        /\ faults' = faults + 1 /\ faults < MaxFaults /\ overlap' = overlap
        /\ limbo' \in {limbo, limbo \union ({call[c]} \intersect {"cut", "repoint"})}
    BY DEF BreakOff, Candidate, Steps
  <1>2. limbo' \subseteq {"cut", "repoint"}
    BY <1>t, <1>1 DEF TypeOK
  <1>3. "repoint" \in limbo' => "repoint" \in limbo \/ call[c] = "repoint"
    BY <1>1
  <1>4. /\ call' \in [Calls -> Steps]
        /\ \A d \in Calls : call'[d] = IF d = c THEN "idle" ELSE call[d]
    BY <1>t, <1>1, CallMoves
  <1>5. faults' \in 0..MaxFaults /\ faults' > 0
    BY <1>t, <1>1, BranchAssumption DEF TypeOK
  <1>6. TypeOK'
    BY <1>t, <1>1, <1>2, <1>4, <1>5 DEF TypeOK
  <1>8. HeadsAreWhole' /\ ReadyCloneCanPush'
    BY <1>1 DEF BInv, HeadsAreWhole, ReadyCloneCanPush, FastForward
  <1>9. BranchStays'
    BY <1>1, <1>3, <1>4 DEF BInv, BranchStays
  <1>10. OnePatch'
    BY <1>1, <1>3, <1>4 DEF BInv, OnePatch
  <1>11. QuietBranch' /\ QuietCloneIsReady' /\ CopyWorkIsDisturbed'
    BY <1>5 DEF QuietBranch, Disturbed, QuietCloneIsReady, CopyWorkIsDisturbed
  <1> QED BY <1>6, <1>8, <1>9, <1>10, <1>11 DEF BInv

LEMMA CarriedOutLate ==
  ASSUME BInv, Late PROVE BInv'
  <1>t. TypeOK
    BY DEF BInv
  <1>1. /\ status' = status /\ call' = call /\ token' = token /\ clone' = clone
        /\ faults' = faults /\ overlap' = overlap
        /\ limbo' \subseteq limbo
    BY DEF Late, Candidate
  <1>2. Disturbed
    BY DEF Late, BInv, QuietBranch
  <1>3. Disturbed' /\ QuietBranch' /\ QuietCloneIsReady' /\ CopyWorkIsDisturbed'
    BY <1>1, <1>2 DEF Disturbed, QuietBranch, QuietCloneIsReady, CopyWorkIsDisturbed
  <1>4. CASE "cut" \in limbo /\ branch' = IF branch = Nothing THEN Copy ELSE branch
    <2>1. branch' \in Heads /\ branch' # Nothing
      BY <1>t, <1>4, HeadFacts DEF TypeOK
    <2>2. branch = Nothing => clone = Nothing /\ branch'.base = "copy"
      BY <1>4, HeadFacts DEF BInv, BranchStays
    <2>3. TypeOK'
      BY <1>t, <1>1, <2>1 DEF TypeOK
    <2>4. HeadsAreWhole' /\ ReadyCloneCanPush'
      BY <1>1, <1>4, <2>2, HeadFacts DEF BInv, HeadsAreWhole, ReadyCloneCanPush, FastForward
    <2>5. BranchStays'
      BY <2>1 DEF BranchStays
    <2>6. OnePatch'
      BY <1>1, <1>4, <2>2 DEF BInv, OnePatch, BranchStays
    <2> QED BY <1>3, <2>3, <2>4, <2>5, <2>6 DEF BInv
  <1>5. CASE "repoint" \in limbo /\ limbo' = limbo \ {"repoint"} /\ branch' = Provisioned
    <2>1. /\ branch' # Nothing /\ branch' \in Heads /\ branch'.base = "ready"
          /\ HeadsAreWhole' /\ ReadyCloneCanPush'
      BY <1>1, <1>5, Patched DEF BInv, OnePatch
    <2>3. TypeOK'
      BY <1>t, <1>1, <2>1 DEF TypeOK
    <2>5. BranchStays'
      BY <2>1 DEF BranchStays
    <2>6. OnePatch'
      BY <1>1, <1>5 DEF BInv, OnePatch
    <2> QED BY <1>3, <2>1, <2>3, <2>5, <2>6 DEF BInv
  <1> QED BY <1>4, <1>5 DEF Late

----------------------------------------------------------------------------
(* Steps of the candidate's machine. *)

\* What the candidate does is not seen by the calls: it can only move the head
\* to another commit of the same history.
LEMMA CandidateActs ==
  ASSUME BInv, UNCHANGED <<status, limbo, call, token, faults, overlap>>,
         branch' \in Heads, clone' \in Heads, branch'.base = branch.base,
         branch # Nothing => branch' # Nothing,
         clone' # Nothing => branch # Nothing,
         branch' = branch \/ branch' = clone,
         HeadsAreWhole', ReadyCloneCanPush', QuietCloneIsReady'
  PROVE  BInv'
  <1>1. TypeOK'
    BY DEF BInv, TypeOK
  <1>2. BranchStays'
    BY DEF BInv, BranchStays
  <1>3. OnePatch'
    BY DEF BInv, OnePatch
  <1>4. Disturbed' = Disturbed
    BY Zenon DEF Disturbed
  <1>5. QuietBranch'
    BY <1>4 DEF BInv, QuietBranch
  <1>6. CopyWorkIsDisturbed'
    BY <1>4 DEF BInv, CopyWorkIsDisturbed, QuietCloneIsReady, Disturbed
  <1> QED BY <1>1, <1>2, <1>3, <1>5, <1>6 DEF BInv

LEMMA ClonesAndCommits ==
  ASSUME BInv, Clone \/ LoseClone \/ Commit \/ Push PROVE BInv'
  <1>t. /\ branch \in Heads /\ clone \in Heads /\ TypeOK /\ HeadsAreWhole
        /\ ReadyCloneCanPush /\ QuietCloneIsReady /\ (clone # Nothing => branch # Nothing)
    BY DEF BInv, TypeOK, BranchStays
  <1>u. UNCHANGED <<status, limbo, call, token, faults, overlap>>
    BY DEF Clone, LoseClone, Commit, Push, Server, Candidate
  <1>1. CASE Clone
    <2>1. branch' = branch /\ clone' = branch /\ token /\ branch # Nothing
      BY <1>1 DEF Clone, Server
    <2>2. branch.work <= branch.work
      BY <1>t, HeadFacts
    <2>3. HeadsAreWhole' /\ ReadyCloneCanPush'
      BY <1>t, <2>1, <2>2 DEF HeadsAreWhole, ReadyCloneCanPush, FastForward
    <2>4. branch.base = "copy" => Disturbed
      BY <2>1 DEF BInv, QuietBranch
    <2>5. QuietCloneIsReady'
      BY <1>u, <2>1, <2>4 DEF QuietCloneIsReady, Disturbed
    <2> QED BY <1>t, <1>u, <2>1, <2>3, <2>5, CandidateActs
  <1>2. CASE LoseClone
    <2>1. branch' = branch /\ clone' = Nothing
      BY <1>2 DEF LoseClone, Server
    <2>2. HeadsAreWhole' /\ ReadyCloneCanPush' /\ QuietCloneIsReady'
      BY <1>t, <2>1, HeadFacts DEF HeadsAreWhole, ReadyCloneCanPush, QuietCloneIsReady
    <2> QED BY <1>t, <1>u, <2>1, <2>2, HeadFacts, CandidateActs
  <1>3. CASE Commit
    <2>1. branch' = branch /\ clone # Nothing /\ clone' = [clone EXCEPT !.work = @ + 1]
          /\ clone.work < MaxWork
      BY <1>3 DEF Commit, Server
    <2>2. clone' \in Heads /\ clone'.base = clone.base /\ clone'.work = clone.work + 1
      BY <1>t, <2>1, OneMore
    <2>3. branch.work <= clone.work => branch.work <= clone.work + 1
      BY <1>t, HeadFacts
    <2>4. HeadsAreWhole' /\ ReadyCloneCanPush' /\ QuietCloneIsReady'
      BY <1>t, <1>u, <2>1, <2>2, <2>3
         DEF HeadsAreWhole, ReadyCloneCanPush, FastForward, QuietCloneIsReady
    <2> QED BY <1>t, <1>u, <2>1, <2>2, <2>4, CandidateActs
  <1>4. CASE Push
    <2>1. branch' = clone /\ clone' = clone /\ clone # Nothing /\ clone.base = branch.base
      BY <1>4 DEF Push, FastForward, Candidate
    <2>2. clone.work <= clone.work
      BY <1>t, HeadFacts
    <2>3. HeadsAreWhole' /\ ReadyCloneCanPush' /\ QuietCloneIsReady'
      BY <1>t, <1>u, <2>1, <2>2
         DEF HeadsAreWhole, ReadyCloneCanPush, FastForward, QuietCloneIsReady
    <2> QED BY <1>t, <1>u, <2>1, <2>3, CandidateActs
  <1> QED BY <1>1, <1>2, <1>3, <1>4

----------------------------------------------------------------------------
LEMMA BInvStutters ==
  ASSUME BInv, UNCHANGED vars PROVE BInv'
  BY DEF BInv, vars, TypeOK, HeadsAreWhole, BranchStays, OnePatch, ReadyCloneCanPush,
         FastForward, QuietBranch, QuietCloneIsReady, CopyWorkIsDisturbed, Disturbed

LEMMA BInvStep == BInv /\ [Next]_vars => BInv'
  <1> SUFFICES ASSUME BInv, [Next]_vars PROVE BInv'
    OBVIOUS
  <1>1. ASSUME NEW c \in Calls, Validate(c) \/ Progress(c) \/ BreakOff(c) PROVE BInv'
    BY <1>1, Validated, CutDone, Repointed, ActivateDone, Minted, BrokeOff DEF Progress
  <1>2. CASE Late
    BY <1>2, CarriedOutLate
  <1>3. CASE Clone \/ LoseClone \/ Commit \/ Push
    BY <1>3, ClonesAndCommits
  <1>4. CASE UNCHANGED vars
    BY <1>4, BInvStutters
  <1> QED BY <1>1, <1>2, <1>3, <1>4 DEF Next

\* The inductive invariant holds in every reachable state, for any number of
\* calls, faults and commits.
THEOREM BranchInvariant == Spec => []BInv
  <1> QED BY BInvInit, BInvStep, PTL DEF Spec

\* The row, the branch, the calls and the checkout keep their types.
THEOREM BranchTyped == Spec => []TypeOK
  <1>1. BInv => TypeOK
    BY DEF BInv
  <1> QED BY <1>1, BranchInvariant, PTL

\* validate-session activates an interview, and hands out a token, only when
\* its branch exists.
THEOREM ActivatedHasBranch == Spec => []ActiveHasBranch
  <1>1. BInv => ActiveHasBranch
    BY DEF BInv, BranchStays, ActiveHasBranch
  <1> QED BY <1>1, BranchInvariant, PTL

\* Calls that neither broke off nor overlapped hand over provisioned branches.
THEOREM QuietIsReady == Spec => []QuietCloneIsReady
  <1>1. BInv => QuietCloneIsReady
    BY DEF BInv
  <1> QED BY <1>1, BranchInvariant, PTL

\* git push from a provisioned checkout is a fast-forward, whatever calls of
\* validate-session are still running or carried out late.
THEOREM ReadyPushIsAccepted == Spec => []ReadyCloneCanPush
  <1>1. BInv => ReadyCloneCanPush
    BY DEF BInv
  <1> QED BY <1>1, BranchInvariant, PTL

\* The forced PATCH is never sent to a provisioned branch, and to a bare copy
\* with work on it only after calls that broke off or overlapped: on every other
\* step the pushed commits stay (sessions.py:862-891, 957-966).
THEOREM PushedWorkStays == Spec => PushedWorkIsKept
  <1> DEFINE Kept == branch'.base = branch.base /\ branch.work <= branch'.work
             Patch == branch.base = "copy" /\ branch' = Provisioned
  <1>1. ASSUME BInv, Next, branch # Nothing
        PROVE  Kept \/ Patch
    <2>1. branch.work <= branch.work
      BY <1>1, HeadFacts DEF BInv, TypeOK
    <2>2. ASSUME NEW c \in Calls, Validate(c) \/ Progress(c) \/ BreakOff(c)
          PROVE  branch' = branch \/ Patch
      <3>1. CASE Repoint(c)
        BY <1>1, <3>1 DEF BInv, OnePatch, Repoint
      <3>2. CASE ~Repoint(c)
        BY <1>1, <2>2, <3>2
           DEF Validate, Progress, Cut, Activate, Mint, BreakOff, Server
      <3> QED BY <3>1, <3>2
    <2>3. Late => branch' = branch \/ Patch
      BY <1>1 DEF Late, BInv, OnePatch
    <2>4. Clone \/ LoseClone \/ Commit => branch' = branch
      BY DEF Clone, LoseClone, Commit, Server
    <2>5. Push => Kept
      BY DEF Push, FastForward
    <2> QED BY <1>1, <2>1, <2>2, <2>3, <2>4, <2>5 DEF Next
  <1>2. ASSUME BInv, [Next]_vars
        PROVE  [/\ branch.base = "ready" => branch'.base = "ready" /\ branch.work <= branch'.work
                /\ branch.base = "copy" /\ branch.work > 0 =>
                     \/ branch'.base = "copy" /\ branch.work <= branch'.work
                     \/ branch' = Provisioned /\ (faults > 0 \/ overlap)]_vars
    <2>1. branch.base \in {"ready", "copy"} => branch # Nothing
      BY HeadFacts
    <2>2. branch.base = "copy" /\ branch.work > 0 => faults > 0 \/ overlap
      BY <1>2 DEF BInv, CopyWorkIsDisturbed, Disturbed
    <2> QED BY <1>1, <1>2, <2>1, <2>2
  <1> QED BY <1>2, BranchInvariant, PTL DEF Spec, PushedWorkIsKept

-----------------------------------------------------------------------------
(***************************************************************************)
(* The workspace.                                                          *)
(*                                                                         *)
(* What the git lock gives: only its holder is past its first step, so     *)
(* from the set-url of an auto-commit to its push no submission can have   *)
(* run.  What is pushed never falls behind what was pushed, so the work of *)
(* a submission stays on the branch whatever follows.                      *)
(***************************************************************************)

\* From set-url to push, origin's URL carries the token.
TokenWhileWorking == Holds("auto", "commit") \/ Holds("auto", "push") => authed

\* The branch lags behind HEAD, and HEAD behind the working tree.
BranchLags == remote.rev <= local.rev /\ local.rev <= tree.rev

WInv ==
  /\ WTypeOK
  /\ TokenWhileWorking
  /\ WipesHaveACause
  /\ BranchLags
  /\ SubmittedWorkIsPushed

----------------------------------------------------------------------------
(* Tickets, and what appending, replacing and removing one does to a line. *)

LEMMA TicketFacts ==
  /\ "auto" \notin Submitters
  /\ \A x \in Submitters : [by |-> x, step |-> "sync"] \in Tickets
  /\ \A s \in AutoSteps : [by |-> "auto", step |-> s] \in Tickets
  /\ \A t \in Tickets : t.by = "auto" \/ (t.by \in Submitters /\ t.step = "sync")
  BY WorkspaceAssumption DEF Tickets, Submitters

LEMMA Appended ==
  ASSUME NEW s \in Seq(Tickets), NEW t \in Tickets, NEW r, r = Append(s, t)
  PROVE  /\ r \in Seq(Tickets) /\ Len(r) = Len(s) + 1
         /\ \A i \in 1..Len(s) : r[i] = s[i]
         /\ r[Len(s) + 1] = t
  OBVIOUS

LEMMA Popped ==
  ASSUME NEW s \in Seq(Tickets), s # << >>, NEW r, r = Tail(s)
  PROVE  /\ r \in Seq(Tickets) /\ Len(r) = Len(s) - 1 /\ Len(s) \in Nat \ {0}
         /\ \A i \in 1..Len(r) : r[i] = s[i + 1]
         /\ Head(s) = s[1]
  OBVIOUS

LEMMA Replaced ==
  ASSUME NEW s \in Seq(Tickets), s # << >>, NEW t \in Tickets,
         NEW r, r = << t >> \o Tail(s)
  PROVE  /\ r \in Seq(Tickets) /\ Len(r) = Len(s) /\ Len(s) \in Nat \ {0}
         /\ r[1] = t /\ Head(s) = s[1]
         /\ \A i \in 2..Len(s) : r[i] = s[i]
  OBVIOUS

----------------------------------------------------------------------------
(* The line stays well formed. *)

GoodLine == line \in Seq(Tickets) /\ Len(line) <= MaxLine /\ LineOK

LEMMA SameLine ==
  ASSUME GoodLine, line' = line, hung' = hung,
         \A x \in Submitters : sub'[x].step = "lock" <=> sub[x].step = "lock"
  PROVE  GoodLine'
  BY DEF GoodLine, LineOK, Holds

LEMMA AutoAsks ==
  ASSUME GoodLine, Len(line) < MaxLine, hung' = hung, sub' = sub,
         line' = Append(line, [by |-> "auto", step |-> "look"])
  PROVE  GoodLine'
  <1> DEFINE t == [by |-> "auto", step |-> "look"]
  <1>1. t \in Tickets
    BY TicketFacts DEF AutoSteps
  <1>2. /\ line' \in Seq(Tickets) /\ Len(line') = Len(line) + 1
        /\ \A i \in 1..Len(line) : line'[i] = line[i]
        /\ line'[Len(line) + 1] = t
    BY <1>1, Appended DEF GoodLine
  <1>3. Len(line) \in Nat /\ MaxLine \in Nat
    BY WorkspaceAssumption DEF GoodLine
  <1>4. t.by = "auto" /\ t.step = "look"
    OBVIOUS
  <1> HIDE DEF t
  <1>5. \A i \in 2..Len(line') : line'[i].step \in {"look", "sync"}
    BY <1>2, <1>3, <1>4 DEF GoodLine, LineOK
  <1>6. \A i, j \in 1..Len(line') : line'[i].by = line'[j].by => i = j \/ line'[i].by = "auto"
    BY <1>2, <1>3, <1>4 DEF GoodLine, LineOK
  <1>7. \A x \in Submitters :
          sub[x].step = "lock" <=> \E i \in 1..Len(line') : line'[i].by = x
    BY <1>2, <1>3, <1>4, TicketFacts DEF GoodLine, LineOK
  <1>8. hung => line' # << >> /\ Head(line') = [by |-> "auto", step |-> "push"]
    BY <1>2, <1>3 DEF GoodLine, LineOK, Holds
  <1> QED BY <1>2, <1>3, <1>5, <1>6, <1>7, <1>8 DEF GoodLine, LineOK, Holds

LEMMA SubmissionAsks ==
  ASSUME GoodLine, Len(line) < MaxLine, hung' = hung,
         NEW x \in Submitters, sub[x].step # "lock", sub'[x].step = "lock",
         \A y \in Submitters \ {x} : sub'[y].step = sub[y].step,
         line' = Append(line, [by |-> x, step |-> "sync"])
  PROVE  GoodLine'
  <1> DEFINE t == [by |-> x, step |-> "sync"]
  <1>1. t \in Tickets
    BY TicketFacts
  <1>2. /\ line' \in Seq(Tickets) /\ Len(line') = Len(line) + 1
        /\ \A i \in 1..Len(line) : line'[i] = line[i]
        /\ line'[Len(line) + 1] = t
    BY <1>1, Appended DEF GoodLine
  <1>3. Len(line) \in Nat /\ MaxLine \in Nat
    BY WorkspaceAssumption DEF GoodLine
  <1>4. t.by = x /\ t.step = "sync"
    OBVIOUS
  <1> HIDE DEF t
  <1>5. \A i \in 2..Len(line') : line'[i].step \in {"look", "sync"}
    BY <1>2, <1>3, <1>4 DEF GoodLine, LineOK
  <1>9. \A i \in 1..Len(line) : line[i].by # x
    BY DEF GoodLine, LineOK
  <1>6. \A i, j \in 1..Len(line') : line'[i].by = line'[j].by => i = j \/ line'[i].by = "auto"
    BY <1>2, <1>3, <1>4, <1>9 DEF GoodLine, LineOK
  <1>7. \A y \in Submitters :
          sub'[y].step = "lock" <=> \E i \in 1..Len(line') : line'[i].by = y
    <2> SUFFICES ASSUME NEW y \in Submitters
                 PROVE  sub'[y].step = "lock" <=> \E i \in 1..Len(line') : line'[i].by = y
      OBVIOUS
    <2>1. CASE y = x
      BY <2>1, <1>2, <1>3, <1>4
    <2>2. CASE y # x
      BY <2>2, <1>2, <1>3, <1>4 DEF GoodLine, LineOK
    <2> QED BY <2>1, <2>2
  <1>8. hung => line' # << >> /\ Head(line') = [by |-> "auto", step |-> "push"]
    BY <1>2, <1>3 DEF GoodLine, LineOK, Holds
  <1> QED BY <1>2, <1>3, <1>5, <1>6, <1>7, <1>8 DEF GoodLine, LineOK, Holds

\* The holder goes on; it is an auto-commit whose push does not hang.
LEMMA AutoGoesOn ==
  ASSUME GoodLine, ~hung, hung' = FALSE, sub' = sub,
         NEW from, Holds("auto", from), NEW to \in AutoSteps, AutoGoesTo(to)
  PROVE  GoodLine' /\ Len(line') = Len(line) /\ line'[1] = [by |-> "auto", step |-> to]
  <1> DEFINE t == [by |-> "auto", step |-> to]
  <1>1. t \in Tickets
    BY TicketFacts
  <1>2. /\ line' \in Seq(Tickets) /\ Len(line') = Len(line) /\ Len(line) \in Nat \ {0}
        /\ line'[1] = t /\ Head(line) = line[1]
        /\ \A i \in 2..Len(line) : line'[i] = line[i]
    BY <1>1, Replaced DEF GoodLine, Holds, AutoGoesTo
  <1>3. line[1].by = "auto" /\ t.by = "auto"
    BY <1>2 DEF Holds
  <1>4. \A i \in 1..Len(line) : line'[i].by = line[i].by
    BY <1>2, <1>3
  <1>5. \A i \in 2..Len(line') : line'[i].step \in {"look", "sync"}
    BY <1>2 DEF GoodLine, LineOK
  <1>6. \A i, j \in 1..Len(line') : line'[i].by = line'[j].by => i = j \/ line'[i].by = "auto"
    BY <1>2, <1>4 DEF GoodLine, LineOK
  <1>7. \A x \in Submitters :
          sub[x].step = "lock" <=> \E i \in 1..Len(line') : line'[i].by = x
    BY <1>2, <1>4 DEF GoodLine, LineOK
  <1> QED BY <1>2, <1>5, <1>6, <1>7 DEF GoodLine, LineOK, Holds

LEMMA AutoLeaves ==
  ASSUME GoodLine, ~hung, hung' = FALSE, sub' = sub,
         NEW step, Holds("auto", step), line' = Tail(line)
  PROVE  GoodLine' /\ (line' # << >> => line'[1].step \in {"look", "sync"})
  <1>2. /\ line' \in Seq(Tickets) /\ Len(line') = Len(line) - 1 /\ Len(line) \in Nat \ {0}
        /\ \A i \in 1..Len(line') : line'[i] = line[i + 1]
        /\ Head(line) = line[1]
    BY Popped DEF GoodLine, Holds
  <1>3. line[1].by = "auto" /\ "auto" \notin Submitters
    BY <1>2, TicketFacts DEF Holds
  <1>4. MaxLine \in Nat
    BY WorkspaceAssumption
  <1>5. \A i \in 1..Len(line') : line'[i].step \in {"look", "sync"}
    BY <1>2 DEF GoodLine, LineOK
  <1>6. \A i, j \in 1..Len(line') : line'[i].by = line'[j].by => i = j \/ line'[i].by = "auto"
    BY <1>2 DEF GoodLine, LineOK
  <1>7. \A x \in Submitters :
          sub[x].step = "lock" <=> \E i \in 1..Len(line') : line'[i].by = x
    <2> SUFFICES ASSUME NEW x \in Submitters
                 PROVE  sub[x].step = "lock" <=> \E i \in 1..Len(line') : line'[i].by = x
      OBVIOUS
    <2>1. ASSUME NEW i \in 1..Len(line), line[i].by = x
          PROVE  \E j \in 1..Len(line') : line'[j].by = x
      <3>1. i # 1
        BY <2>1, <1>3
      <3>2. i - 1 \in 1..Len(line') /\ line'[i - 1].by = x
        BY <2>1, <3>1, <1>2
      <3> QED BY <3>2
    <2>2. ASSUME NEW i \in 1..Len(line'), line'[i].by = x
          PROVE  \E j \in 1..Len(line) : line[j].by = x
      <3>1. i + 1 \in 1..Len(line) /\ line[i + 1].by = x
        BY <2>2, <1>2
      <3> QED BY <3>1
    <2>6. sub[x].step = "lock" <=> \E i \in 1..Len(line) : line[i].by = x
      BY DEF GoodLine, LineOK
    <2> QED BY <2>1, <2>2, <2>6
  <1> QED BY <1>2, <1>4, <1>5, <1>6, <1>7 DEF GoodLine, LineOK

LEMMA SubmissionLeaves ==
  ASSUME GoodLine, hung' = hung, NEW x \in Submitters, Holds(x, "sync"), line' = Tail(line),
         sub'[x].step # "lock",
         \A y \in Submitters \ {x} : sub'[y].step = sub[y].step
  PROVE  GoodLine' /\ (line' # << >> => line'[1].step \in {"look", "sync"})
  <1>2. /\ line' \in Seq(Tickets) /\ Len(line') = Len(line) - 1 /\ Len(line) \in Nat \ {0}
        /\ \A i \in 1..Len(line') : line'[i] = line[i + 1]
        /\ Head(line) = line[1]
    BY Popped DEF GoodLine, Holds
  <1>3. line[1].by = x /\ "auto" \notin Submitters /\ line[1].step = "sync"
    BY <1>2, TicketFacts DEF Holds
  <1>4. MaxLine \in Nat
    BY WorkspaceAssumption
  <1>5. \A i \in 1..Len(line') : line'[i].step \in {"look", "sync"}
    BY <1>2 DEF GoodLine, LineOK
  <1>6. \A i, j \in 1..Len(line') : line'[i].by = line'[j].by => i = j \/ line'[i].by = "auto"
    BY <1>2 DEF GoodLine, LineOK
  <1>7. \A y \in Submitters :
          sub'[y].step = "lock" <=> \E i \in 1..Len(line') : line'[i].by = y
    <2> SUFFICES ASSUME NEW y \in Submitters
                 PROVE  sub'[y].step = "lock" <=> \E i \in 1..Len(line') : line'[i].by = y
      OBVIOUS
    <2>1. ASSUME NEW i \in 1..Len(line), line[i].by = y, y # x
          PROVE  \E j \in 1..Len(line') : line'[j].by = y
      <3>1. i # 1
        BY <2>1, <1>3
      <3>2. i - 1 \in 1..Len(line') /\ line'[i - 1].by = y
        BY <2>1, <3>1, <1>2
      <3> QED BY <3>2
    <2>2. ASSUME NEW i \in 1..Len(line'), line'[i].by = y
          PROVE  \E j \in 1..Len(line) : line[j].by = y
      <3>1. i + 1 \in 1..Len(line) /\ line[i + 1].by = y
        BY <2>2, <1>2
      <3> QED BY <3>1
    <2>6. sub[y].step = "lock" <=> \E i \in 1..Len(line) : line[i].by = y
      BY DEF GoodLine, LineOK
    <2>3. ASSUME NEW i \in 1..Len(line'), line'[i].by = x
          PROVE  FALSE
      <3>1. i + 1 \in 1..Len(line) /\ 1 \in 1..Len(line) /\ line[i + 1].by = line[1].by
        BY <2>3, <1>2, <1>3
      <3>2. i + 1 = 1 \/ line[i + 1].by = "auto"
        BY <3>1 DEF GoodLine, LineOK
      <3> QED BY <3>1, <3>2, <1>3
    <2>4. CASE y = x
      BY <2>3, <2>4
    <2>5. CASE y # x
      BY <2>1, <2>2, <2>5, <2>6
    <2> QED BY <2>4, <2>5
  <1>8. ~hung
    BY <1>2, <1>3 DEF GoodLine, LineOK, Holds
  <1> QED BY <1>2, <1>4, <1>5, <1>6, <1>7, <1>8 DEF GoodLine, LineOK

----------------------------------------------------------------------------
(* What a submission's row becomes. *)

Rows == [step : SubSteps, rev : 0..MaxEdits]

LEMMA Goes ==
  ASSUME NEW f \in [Submitters -> Rows], NEW x \in Submitters, NEW s \in SubSteps,
         NEW g, g = [f EXCEPT ![x].step = s]
  PROVE  /\ g \in [Submitters -> Rows]
         /\ g[x].step = s /\ g[x].rev = f[x].rev
         /\ \A y \in Submitters \ {x} : g[y] = f[y]
  <1> DEFINE r == [f[x] EXCEPT !.step = s]
  <1>1. f[x] \in Rows
    OBVIOUS
  <1>2. r \in Rows /\ r.step = s /\ r.rev = f[x].rev
    BY <1>1 DEF Rows
  <1>3. g = [f EXCEPT ![x] = r]
    OBVIOUS
  <1> HIDE DEF r
  <1>4. g[x] = r /\ \A y \in Submitters \ {x} : g[y] = f[y]
    BY <1>3
  <1>5. g \in [Submitters -> Rows]
    BY <1>2, <1>3
  <1> QED BY <1>2, <1>4, <1>5

LEMMA Becomes ==
  ASSUME NEW f \in [Submitters -> Rows], NEW x \in Submitters, NEW r \in Rows,
         NEW g, g = [f EXCEPT ![x] = r]
  PROVE  /\ g \in [Submitters -> Rows]
         /\ g[x] = r
         /\ \A y \in Submitters \ {x} : g[y] = f[y]
  OBVIOUS

LEMMA IdleFacts == Idle \in Rows /\ Idle.step = "off" /\ Idle.rev = 0
  BY WorkspaceAssumption DEF Idle, Rows, SubSteps

----------------------------------------------------------------------------
(* Types. *)

Types ==
  /\ tree \in Trees /\ local \in Trees /\ remote \in Trees
  /\ ahead \in BOOLEAN /\ authed \in BOOLEAN /\ gone \in BOOLEAN
  /\ guard \in BOOLEAN /\ hung \in BOOLEAN /\ mishaps \in 0..MaxMishaps
  /\ sub \in [Submitters -> Rows]
  /\ saved \in {"none", "unanchored", "anchored"}
  /\ config \in {"none", "unanchored", "anchored"}
  /\ refresh \in {"off", "armed", "answered"}
  /\ win \in {"closed", "idle", "asking", "answered", "running"}
  /\ stopped \in BOOLEAN /\ fired \in BOOLEAN
  /\ server \in {"active", "submitted"} /\ started \in BOOLEAN /\ expired \in BOOLEAN

Flags ==
  /\ ahead \in BOOLEAN /\ authed \in BOOLEAN /\ gone \in BOOLEAN
  /\ guard \in BOOLEAN /\ hung \in BOOLEAN /\ stopped \in BOOLEAN /\ fired \in BOOLEAN

LEMMA TypesAndLine == WTypeOK <=> Types /\ GoodLine
  BY DEF WTypeOK, Types, GoodLine, Rows

LEMMA TreeFacts ==
  /\ \A t \in Trees : t.rev \in Nat /\ t.rev <= MaxEdits /\ t.whole \in BOOLEAN
  /\ \A n \in 0..MaxEdits, b \in BOOLEAN : [rev |-> n, whole |-> b] \in Trees
  BY WorkspaceAssumption DEF Trees

LEMMA TypesKept ==
  ASSUME Types, [WNext]_wvars
  PROVE  Types'
  <1> USE DEF Types, wvars, git, lock, client, remoteside
  <1>1. CASE UNCHANGED wvars
    BY <1>1
  <1>2. CASE Edit
    <2>1. PICK left \in BOOLEAN : tree' = [rev |-> tree.rev + 1, whole |-> left]
      BY <1>2 DEF Edit
    <2>2. tree.rev + 1 \in 0..MaxEdits
      BY <1>2, TreeFacts, WorkspaceAssumption DEF Edit
    <2>3. tree' \in Trees
      BY <2>1, <2>2, TreeFacts
    <2> QED BY <1>2, <2>3 DEF Edit
  <1>3. CASE GitRuns
    <2>1. CASE AutoTick
      BY <2>1 DEF AutoTick
    <2>2. CASE Deadline
      <3>1. Flags'
        BY <2>2 DEF Deadline, Flags
      <3> QED BY <2>2, <3>1 DEF Deadline, Flags
    <2>3. CASE AutoLook
      <3>1. Flags'
        BY <2>3 DEF AutoLook, AutoDone, Flags
      <3> QED BY <2>3, <3>1 DEF AutoLook, AutoDone, Flags
    <2>4. CASE AutoLookFails
      <3>1. Flags'
        BY <2>4 DEF AutoLookFails, AutoDone, Flags
      <3> QED BY <2>4, <3>1 DEF AutoLookFails, AutoDone, Flags
    <2>5. CASE AutoCommit
      <3>1. Flags'
        BY <2>5 DEF AutoCommit, Flags
      <3> QED BY <2>5, <3>1 DEF AutoCommit, Flags
    <2>6. CASE AutoCommitFails
      BY <2>6 DEF AutoCommitFails
    <2>7. CASE AutoPush
      <3>1. Flags'
        BY <2>7 DEF AutoPush, Flags
      <3> QED BY <2>7, <3>1 DEF AutoPush, Flags
    <2>8. CASE AutoPushFails
      BY <2>8 DEF AutoPushFails
    <2>9. CASE AutoRestore
      <3>1. Flags'
        BY <2>9 DEF AutoRestore, AutoDone, Flags
      <3> QED BY <2>9, <3>1 DEF AutoRestore, AutoDone, Flags
    <2>10. CASE PushHangs
      BY <2>10, WorkspaceAssumption DEF PushHangs
    <2> QED BY <1>3, <2>1, <2>2, <2>3, <2>4, <2>5, <2>6, <2>7, <2>8, <2>9, <2>10 DEF GitRuns
  <1>7. CASE TimerFires
    <2>1. sub' = sub \/ sub' = [sub EXCEPT ![Expiry].step = "lock"]
      BY <1>7 DEF TimerFires, SubGoesTo
    <2>2. Expiry \in Submitters /\ "lock" \in SubSteps
      BY DEF Submitters, SubSteps
    <2>3. sub' \in [Submitters -> Rows]
      BY <2>1, <2>2, Goes
    <2> QED BY <1>7, <2>3 DEF TimerFires
  <1>8. ASSUME NEW x \in Submitters, SubmissionRuns(x)
        PROVE  Types'
    <2>1. sub' \in [Submitters -> Rows]
      <3>1. ASSUME NEW s \in SubSteps, SubGoesTo(x, s)
            PROVE  sub' \in [Submitters -> Rows]
        BY <3>1, Goes DEF SubGoesTo
      <3>2. ASSUME Ends(x)
            PROVE  sub' \in [Submitters -> Rows]
        BY <3>2, Becomes, IdleFacts DEF Ends
      <3>3. ASSUME SyncGit(x)
            PROVE  sub' \in [Submitters -> Rows]
        <4>1. tree.rev \in 0..MaxEdits
          BY DEF Trees
        <4>2. [step |-> "post", rev |-> tree.rev] \in Rows
          BY <4>1 DEF Rows, SubSteps
        <4> QED BY <3>3, <4>2, Becomes DEF SyncGit
      <3>4. {"confirm", "lock", "clear", "stop"} \subseteq SubSteps
        BY DEF SubSteps
      <3> QED BY <1>8, <3>1, <3>2, <3>3, <3>4
              DEF SubmissionRuns, Submit, Cancel, Confirm, SyncCommitFails, SyncPushFails,
                  Post, PostFails, Clear, Stop
    <2>2. CASE Submit(x)
      BY <2>1, <2>2 DEF Submit
    <2>3. CASE Cancel(x)
      BY <2>1, <2>3 DEF Cancel
    <2>4. CASE Confirm(x)
      BY <2>1, <2>4 DEF Confirm
    <2>5. CASE SyncCommitFails(x)
      <3>1. Flags'
        BY <2>1, <2>5 DEF SyncCommitFails, Flags
      <3> QED BY <2>1, <2>5, <3>1 DEF SyncCommitFails, Flags
    <2>6. CASE SyncPushFails(x)
      <3>1. Flags'
        BY <2>1, <2>6 DEF SyncPushFails, Flags
      <3> QED BY <2>1, <2>6, <3>1 DEF SyncPushFails, Flags
    <2>7. CASE SyncGit(x)
      <3>1. Flags'
        BY <2>1, <2>7 DEF SyncGit, Flags
      <3> QED BY <2>1, <2>7, <3>1 DEF SyncGit, Flags
    <2>8. CASE Post(x)
      BY <2>1, <2>8 DEF Post
    <2>9. CASE PostFails(x)
      BY <2>1, <2>9 DEF PostFails
    <2>10. CASE Clear(x)
      BY <2>1, <2>10 DEF Clear
    <2>11. CASE Stop(x)
      BY <2>1, <2>11 DEF Stop
    <2> QED BY <1>8, <2>2, <2>3, <2>4, <2>5, <2>6, <2>7, <2>8, <2>9, <2>10, <2>11 DEF SubmissionRuns
  <1>9. CASE RefreshRuns
    BY <1>9 DEF RefreshRuns, RefreshIsServed, RefreshFails, RefreshDone, Rearmed
  <1>10. CASE ActivateInClone
    <2>1. Flags'
      BY <1>10 DEF ActivateInClone, StartServices, Flags
    <2> QED BY <1>10, <2>1 DEF ActivateInClone, StartServices, Flags
  <1>14. CASE ActivateIdle
    BY <1>14 DEF ActivateIdle
  <1>11. CASE Anchor
    BY <1>11 DEF Anchor
  <1>15. CASE AnchorDone
    BY <1>15 DEF AnchorDone, StartServices
  <1>16. CASE AnchorFails
    BY <1>16 DEF AnchorFails, StartServices
  <1>17. CASE Enter
    BY <1>17 DEF Enter
  <1>12. CASE Reload
    <2>1. sub' \in [Submitters -> Rows]
      BY <1>12, IdleFacts DEF Reload
    <2>2. mishaps' \in 0..MaxMishaps
      BY <1>12, WorkspaceAssumption DEF Reload
    <2> QED BY <1>12, <2>1, <2>2 DEF Reload
  <1>13. CASE TimeRunsOut
    BY <1>13 DEF TimeRunsOut
  <1>18. CASE SweepSubmits
    BY <1>18 DEF SweepSubmits
  <1> QED BY <1>1, <1>2, <1>3, <1>7, <1>8, <1>9, <1>10, <1>11, <1>12, <1>13, <1>14, <1>15,
             <1>16, <1>17, <1>18 DEF WNext, WindowRuns

----------------------------------------------------------------------------
(* The line stays well formed. *)

\* Steps that leave the line alone.
LEMMA RestKeepsLine ==
  ASSUME Types, GoodLine,
         \/ UNCHANGED wvars \/ Edit \/ Deadline \/ RefreshRuns
         \/ ActivateInClone \/ ActivateIdle \/ Anchor \/ AnchorDone \/ AnchorFails \/ Enter
         \/ TimeRunsOut \/ SweepSubmits
  PROVE  GoodLine' /\ line' = line /\ sub' = sub
  <1>1. line' = line /\ hung' = hung /\ sub' = sub
    BY DEF wvars, lock, Edit, Deadline, RefreshRuns, RefreshIsServed, RefreshFails, RefreshDone,
           ActivateInClone, ActivateIdle, Anchor, AnchorDone, AnchorFails, Enter,
           TimeRunsOut, SweepSubmits
  <1> QED BY <1>1, SameLine

LEMMA AutoKeepsLine ==
  ASSUME Types, GoodLine, GitRuns
  PROVE  GoodLine'
  <1> USE DEF git, lock
  <1>1. CASE AutoTick
    BY <1>1, AutoAsks DEF AutoTick
  <1>2. CASE Deadline
    BY <1>2, RestKeepsLine
  <1>3. ASSUME NEW step, Holds("auto", step), step # "push"
        PROVE  ~hung
    BY <1>3 DEF GoodLine, LineOK, Holds
  <1>4. ASSUME ~hung, hung' = hung
        PROVE  hung' = FALSE
    BY <1>4 DEF Types
  <1>5. CASE AutoLook
    <2>1. Holds("auto", "look") /\ hung' = hung /\ sub' = sub
          /\ (line' = Tail(line) \/ AutoGoesTo("push") \/ AutoGoesTo("commit"))
      BY <1>5 DEF AutoLook, AutoDone
    <2>2. ~hung /\ hung' = FALSE
      BY <2>1, <1>3, <1>4
    <2>3. CASE line' = Tail(line)
      BY <2>1, <2>2, <2>3, AutoLeaves
    <2>4. CASE AutoGoesTo("push") \/ AutoGoesTo("commit")
      BY <2>1, <2>2, <2>4, AutoGoesOn DEF AutoSteps
    <2> QED BY <2>1, <2>3, <2>4
  <1>6. CASE AutoLookFails
    <2>1. Holds("auto", "look") /\ hung' = hung /\ sub' = sub /\ line' = Tail(line)
      BY <1>6 DEF AutoLookFails, AutoDone
    <2> QED BY <2>1, <1>3, <1>4, AutoLeaves
  <1>7. CASE AutoCommit \/ AutoCommitFails
    <2>1. Holds("auto", "commit") /\ hung' = hung /\ sub' = sub
          /\ (AutoGoesTo("restore") \/ AutoGoesTo("push"))
      BY <1>7 DEF AutoCommit, AutoCommitFails
    <2>2. ~hung /\ hung' = FALSE
      BY <2>1, <1>3, <1>4
    <2> QED BY <2>1, <2>2, AutoGoesOn DEF AutoSteps
  <1>8. CASE AutoPush \/ AutoPushFails
    <2>1. Holds("auto", "push") /\ ~hung /\ hung' = hung /\ sub' = sub /\ AutoGoesTo("restore")
      BY <1>8 DEF AutoPush, AutoPushFails
    <2> QED BY <2>1, <1>4, AutoGoesOn DEF AutoSteps
  <1>9. CASE PushHangs
    BY <1>9 DEF PushHangs, GoodLine, LineOK, Holds
  <1>10. CASE AutoRestore
    <2>1. Holds("auto", "restore") /\ hung' = hung /\ sub' = sub /\ line' = Tail(line)
      BY <1>10 DEF AutoRestore, AutoDone
    <2> QED BY <2>1, <1>3, <1>4, AutoLeaves
  <1> QED BY <1>1, <1>2, <1>5, <1>6, <1>7, <1>8, <1>9, <1>10 DEF GitRuns

LEMMA TimerKeepsLine ==
  ASSUME Types, GoodLine, TimerFires
  PROVE  GoodLine'
  <1>1. hung' = hung
    BY DEF TimerFires
  <1>2. CASE sub' = sub /\ line' = line
    BY <1>1, <1>2, SameLine
  <1>3. CASE /\ sub[Expiry].step = "off" /\ Len(line) < MaxLine
             /\ sub' = [sub EXCEPT ![Expiry].step = "lock"]
             /\ line' = Append(line, [by |-> Expiry, step |-> "sync"])
    <2>1. Expiry \in Submitters /\ "lock" \in SubSteps
      BY DEF Submitters, SubSteps
    <2>2. sub'[Expiry].step = "lock" /\ \A y \in Submitters \ {Expiry} : sub'[y] = sub[y]
      BY <1>3, <2>1, Goes DEF Types
    <2> QED BY <1>1, <1>3, <2>1, <2>2, SubmissionAsks
  <1> QED BY <1>2, <1>3 DEF TimerFires, SubGoesTo

LEMMA SubmissionKeepsLine ==
  ASSUME Types, GoodLine, NEW x \in Submitters, SubmissionRuns(x)
  PROVE  GoodLine'
  <1> USE DEF lock
  <1>1. ASSUME NEW s \in SubSteps \ {"lock"}, SubGoesTo(x, s), sub[x].step # "lock"
        PROVE  \A y \in Submitters : sub'[y].step = "lock" <=> sub[y].step = "lock"
    <2>1. sub'[x].step = s /\ \A y \in Submitters \ {x} : sub'[y] = sub[y]
      BY <1>1, Goes DEF SubGoesTo, Types
    <2> QED BY <1>1, <2>1
  <1>2. ASSUME Ends(x)
        PROVE  sub'[x].step = "off" /\ \A y \in Submitters \ {x} : sub'[y] = sub[y]
    BY <1>2, Becomes, IdleFacts DEF Ends, Types
  <1>3. CASE Submit(x)
    <2>1. SubGoesTo(x, "confirm") /\ sub[x].step = "off" /\ line' = line /\ hung' = hung
      BY <1>3 DEF Submit
    <2> QED BY <2>1, <1>1, SameLine DEF SubSteps
  <1>4. CASE Cancel(x) \/ PostFails(x) \/ Stop(x)
    <2>1. Ends(x) /\ sub[x].step # "lock" /\ line' = line /\ hung' = hung
      BY <1>4 DEF Cancel, PostFails, Stop
    <2> QED BY <2>1, <1>2, SameLine
  <1>5. CASE Post(x)
    <2>1. sub[x].step # "lock" /\ line' = line /\ hung' = hung
      BY <1>5 DEF Post
    <2>2. CASE SubGoesTo(x, "clear")
      BY <2>1, <2>2, <1>1, SameLine DEF SubSteps
    <2>3. CASE Ends(x)
      BY <2>1, <2>3, <1>2, SameLine
    <2> QED BY <1>5, <2>2, <2>3 DEF Post
  <1>6. CASE Clear(x)
    <2>1. SubGoesTo(x, "stop") /\ sub[x].step # "lock" /\ line' = line /\ hung' = hung
      BY <1>6 DEF Clear
    <2> QED BY <2>1, <1>1, SameLine DEF SubSteps
  <1>7. CASE Confirm(x)
    <2>1. /\ SubGoesTo(x, "lock") /\ sub[x].step # "lock" /\ hung' = hung
          /\ Len(line) < MaxLine /\ line' = Append(line, [by |-> x, step |-> "sync"])
      BY <1>7 DEF Confirm
    <2>2. sub'[x].step = "lock" /\ \A y \in Submitters \ {x} : sub'[y] = sub[y]
      BY <2>1, Goes DEF SubGoesTo, Types, SubSteps
    <2> QED BY <2>1, <2>2, SubmissionAsks
  <1>8. CASE SyncCommitFails(x) \/ SyncPushFails(x)
    <2>1. Ends(x) /\ Holds(x, "sync") /\ hung' = hung /\ line' = Tail(line)
      BY <1>8 DEF SyncCommitFails, SyncPushFails
    <2> QED BY <2>1, <1>2, SubmissionLeaves
  <1>9. CASE SyncGit(x)
    <2> DEFINE r == [step |-> "post", rev |-> tree.rev]
    <2>1. /\ Holds(x, "sync") /\ hung' = hung /\ line' = Tail(line)
          /\ sub' = [sub EXCEPT ![x] = r]
      BY <1>9 DEF SyncGit
    <2>2. r \in Rows /\ r.step = "post"
      BY DEF Types, Trees, Rows, SubSteps
    <2> HIDE DEF r
    <2>3. sub'[x] = r /\ \A y \in Submitters \ {x} : sub'[y] = sub[y]
      BY <2>1, <2>2, Becomes DEF Types
    <2> QED BY <2>1, <2>2, <2>3, SubmissionLeaves
  <1> QED BY <1>3, <1>4, <1>5, <1>6, <1>7, <1>8, <1>9 DEF SubmissionRuns

LEMMA ReloadKeepsLine ==
  ASSUME Types, Reload
  PROVE  GoodLine'
  <1>1. line' = << >> /\ hung' = FALSE /\ \A x \in Submitters : sub'[x].step = "off"
    BY IdleFacts DEF Reload
  <1>2. line' \in Seq(Tickets) /\ Len(line') = 0 /\ MaxLine \in Nat
    BY <1>1, WorkspaceAssumption
  <1> QED BY <1>1, <1>2 DEF GoodLine, LineOK

LEMMA LineKept ==
  ASSUME Types, GoodLine, [WNext]_wvars
  PROVE  GoodLine'
  BY RestKeepsLine, AutoKeepsLine, TimerKeepsLine, SubmissionKeepsLine, ReloadKeepsLine
     DEF WNext, WindowRuns

----------------------------------------------------------------------------
(* The token: only the head of the line is past its first step, so what     *)
(* follows a holder that leaves has yet to put the token there.             *)

\* A line whose head has yet to begin.
LEMMA FreshHead ==
  ASSUME GoodLine', line' # << >> => line'[1].step \in {"look", "sync"}
  PROVE  TokenWhileWorking'
  <1>1. line' # << >> => Head(line') = line'[1]
    BY DEF GoodLine
  <1> QED BY <1>1 DEF TokenWhileWorking, Holds

\* A line with the head it had, or with one that has yet to begin.
LEMMA SameHead ==
  ASSUME GoodLine, TokenWhileWorking, authed' = authed, NEW t \in Tickets,
         line' = line \/ (line' = Append(line, t) /\ t.step \in {"look", "sync"})
  PROVE  TokenWhileWorking'
  <1>1. CASE line' = line
    BY <1>1 DEF TokenWhileWorking, Holds
  <1>2. CASE line' = Append(line, t) /\ t.step \in {"look", "sync"}
    <2>1. /\ line = << >> => Head(line') = t
          /\ line # << >> => Head(line') = Head(line)
      BY <1>2 DEF GoodLine
    <2> QED BY <1>2, <2>1 DEF TokenWhileWorking, Holds
  <1> QED BY <1>1, <1>2

\* What a holder that leaves makes room for.
LEMMA NextUp ==
  ASSUME GoodLine, GoodLine', line # << >>, line' = Tail(line)
  PROVE  TokenWhileWorking'
  <1>1. /\ Len(line') = Len(line) - 1 /\ Len(line) \in Nat \ {0}
        /\ \A i \in 1..Len(line') : line'[i] = line[i + 1]
    BY Popped DEF GoodLine
  <1>2. line' # << >> => line'[1].step \in {"look", "sync"}
    BY <1>1 DEF GoodLine, LineOK
  <1> QED BY <1>2, FreshHead

LEMMA TokenKept ==
  ASSUME Types, GoodLine, TokenWhileWorking, WNext
  PROVE  TokenWhileWorking'
  <1> USE DEF git, lock
  <1> DEFINE look == [by |-> "auto", step |-> "look"]
  <1>0. GoodLine' /\ look \in Tickets /\ look.step = "look"
    BY LineKept, TicketFacts DEF AutoSteps
  <1>1. CASE Edit \/ Deadline \/ RefreshRuns \/ ActivateInClone \/ ActivateIdle \/ Anchor
             \/ AnchorDone \/ AnchorFails \/ TimeRunsOut \/ SweepSubmits
    <2>1. line' = line
      BY <1>1, RestKeepsLine
    <2>2. authed' = authed
      BY <1>1 DEF Edit, Deadline, RefreshRuns, RefreshIsServed, RefreshFails, RefreshDone,
                  ActivateInClone, ActivateIdle, Anchor, AnchorDone, AnchorFails,
                  TimeRunsOut, SweepSubmits
    <2> QED BY <1>0, <2>1, <2>2, SameHead
  <1>2. CASE Enter
    <2>1. line' = line /\ (authed' = authed \/ authed' = TRUE)
      BY <1>2 DEF Enter
    <2> QED BY <2>1, Zenon DEF TokenWhileWorking, Holds
  <1>3. CASE AutoTick
    <2>1. line' = Append(line, look) /\ authed' = authed
      BY <1>3 DEF AutoTick
    <2> QED BY <1>0, <2>1, SameHead
  <1>4. CASE AutoLook
    <2>1. CASE AutoDone
      BY <1>0, <1>4, <2>1, NextUp DEF AutoLook, AutoDone, Holds
    <2>2. CASE ~AutoDone
      BY <1>4, <2>2, Zenon DEF AutoLook, TokenWhileWorking
    <2> QED BY <2>1, <2>2
  <1>5. CASE AutoLookFails \/ AutoRestore
    BY <1>0, <1>5, NextUp DEF AutoLookFails, AutoRestore, AutoDone, Holds
  <1>6. CASE AutoCommit
    <2>1. authed' = authed /\ authed
      BY <1>6, Zenon DEF AutoCommit, TokenWhileWorking
    <2> QED BY <2>1, Zenon DEF TokenWhileWorking
  <1>7. CASE AutoCommitFails \/ AutoPush \/ AutoPushFails
    <2>1. authed' = authed /\ authed
      BY <1>7, Zenon DEF AutoCommitFails, AutoPush, AutoPushFails, TokenWhileWorking
    <2> QED BY <2>1, Zenon DEF TokenWhileWorking
  <1>8. CASE PushHangs
    <2>1. line' = line /\ authed' = authed
      BY <1>8 DEF PushHangs
    <2> QED BY <1>0, <2>1, SameHead
  <1>9. CASE TimerFires
    <2> DEFINE t == [by |-> Expiry, step |-> "sync"]
    <2>1. t \in Tickets /\ t.step = "sync"
      BY TicketFacts DEF Submitters
    <2>2. authed' = authed /\ (line' = line \/ line' = Append(line, t))
      BY <1>9 DEF TimerFires
    <2> HIDE DEF t
    <2> QED BY <2>1, <2>2, SameHead
  <1>10. ASSUME NEW x \in Submitters, SubmissionRuns(x)
         PROVE  TokenWhileWorking'
    <2>1. CASE SyncCommitFails(x) \/ SyncPushFails(x) \/ SyncGit(x)
      <3>1. Holds(x, "sync") /\ line' = Tail(line)
        BY <2>1 DEF SyncCommitFails, SyncPushFails, SyncGit
      <3> QED BY <1>0, <3>1, NextUp DEF Holds
    <2>2. CASE Confirm(x)
      <3> DEFINE t == [by |-> x, step |-> "sync"]
      <3>1. t \in Tickets /\ t.step = "sync"
        BY TicketFacts
      <3>2. authed' = authed /\ line' = Append(line, t)
        BY <2>2 DEF Confirm
      <3> HIDE DEF t
      <3> QED BY <3>1, <3>2, SameHead
    <2>3. CASE Submit(x) \/ Cancel(x) \/ Post(x) \/ PostFails(x) \/ Clear(x) \/ Stop(x)
      <3>1. line' = line /\ authed' = authed
        BY <2>3 DEF Submit, Cancel, Post, PostFails, Clear, Stop
      <3> QED BY <1>0, <3>1, SameHead
    <2> QED BY <1>10, <2>1, <2>2, <2>3 DEF SubmissionRuns
  <1>11. CASE Reload
    BY <1>11 DEF Reload, TokenWhileWorking, Holds
  <1> QED BY <1>1, <1>2, <1>3, <1>4, <1>5, <1>6, <1>7, <1>8, <1>9, <1>10, <1>11
          DEF WNext, GitRuns, WindowRuns

----------------------------------------------------------------------------
(* What is on the branch. *)

\* Every step that moves nothing between the tree, HEAD and the branch.
Still == UNCHANGED <<tree, local, remote, gone>>

LEMMA Moves ==
  ASSUME [WNext]_wvars
  PROVE  \/ Still \/ Edit \/ AutoCommit \/ AutoPush \/ AutoPushFails \/ Enter \/ Reload
         \/ \E x \in Submitters : SyncPushFails(x) \/ SyncGit(x)
  <1> USE DEF git, Still
  <1>1. CASE UNCHANGED wvars
    BY <1>1 DEF wvars
  <1>2. CASE AutoTick \/ Deadline \/ AutoLook \/ AutoLookFails \/ AutoCommitFails \/ PushHangs
             \/ AutoRestore
    BY <1>2 DEF AutoTick, Deadline, AutoLook, AutoLookFails, AutoCommitFails, PushHangs,
                AutoRestore
  <1>3. CASE TimerFires \/ RefreshRuns \/ TimeRunsOut \/ SweepSubmits
    BY <1>3 DEF TimerFires, RefreshRuns, RefreshIsServed, RefreshFails, RefreshDone,
                TimeRunsOut, SweepSubmits
  <1>4. CASE ActivateInClone \/ ActivateIdle \/ Anchor \/ AnchorDone \/ AnchorFails
    BY <1>4 DEF ActivateInClone, ActivateIdle, Anchor, AnchorDone, AnchorFails
  <1>5. ASSUME NEW x \in Submitters, SubmissionRuns(x)
        PROVE  Still \/ SyncPushFails(x) \/ SyncGit(x)
    BY <1>5 DEF SubmissionRuns, Submit, Cancel, Confirm, SyncCommitFails, Post, PostFails,
                Clear, Stop
  <1> QED BY <1>1, <1>2, <1>3, <1>4, <1>5 DEF WNext, GitRuns, WindowRuns

LEMMA WipesKept ==
  ASSUME Types, WipesHaveACause, [WNext]_wvars
  PROVE  WipesHaveACause'
  <1> USE DEF git, lock, Types, WipesHaveACause, Trees
  <1>1. CASE Still
    BY <1>1 DEF Still
  <1>2. CASE Edit
    BY <1>2 DEF Edit
  <1>3. CASE AutoCommit
    <2>1. CASE local' = tree /\ ~WouldWipe(TRUE)
      BY <1>3, <2>1 DEF AutoCommit, WouldWipe, Wiping
    <2>2. CASE local' = tree /\ WouldWipe(TRUE)
      <3>1. gone' = TRUE
        BY <1>3, <2>2 DEF AutoCommit, WouldWipe, Wiping
      <3> QED BY <3>1
    <2>3. CASE UNCHANGED <<local, gone>>
      BY <1>3, <2>3 DEF AutoCommit
    <2> QED BY <1>3, <2>1, <2>2, <2>3 DEF AutoCommit
  <1>4. CASE AutoPush \/ AutoPushFails
    BY <1>4 DEF AutoPush, AutoPushFails
  <1>5. CASE Enter
    BY <1>5 DEF Enter
  <1>6. CASE Reload
    BY <1>6 DEF Reload
  <1>7. ASSUME NEW x \in Submitters, SyncPushFails(x)
        PROVE  WipesHaveACause'
    BY <1>7 DEF SyncPushFails
  <1>8. ASSUME NEW x \in Submitters, SyncGit(x)
        PROVE  WipesHaveACause'
    BY <1>8 DEF SyncGit
  <1> QED BY <1>1, <1>2, <1>3, <1>4, <1>5, <1>6, <1>7, <1>8, Moves

\* The branch goes forward, behind HEAD and the tree.
LEMMA LagsKept ==
  ASSUME Types, BranchLags, [WNext]_wvars
  PROVE  BranchLags' /\ remote.rev <= remote'.rev
  <1> USE DEF git, lock, BranchLags
  <1>0. tree.rev \in Nat /\ local.rev \in Nat /\ remote.rev \in Nat
    BY TreeFacts DEF Types
  <1>1. CASE Still
    BY <1>0, <1>1 DEF Still
  <1>2. CASE Edit
    <2>1. PICK left \in BOOLEAN : tree' = [rev |-> tree.rev + 1, whole |-> left]
      BY <1>2 DEF Edit
    <2> QED BY <1>0, <1>2, <2>1 DEF Edit
  <1>3. CASE AutoCommit
    BY <1>0, <1>3 DEF AutoCommit
  <1>4. CASE AutoPush \/ AutoPushFails
    BY <1>0, <1>4 DEF AutoPush, AutoPushFails
  <1>5. CASE Enter
    BY <1>0, <1>5 DEF Enter
  <1>6. CASE Reload
    BY <1>0, <1>6 DEF Reload
  <1>7. ASSUME NEW x \in Submitters, SyncPushFails(x) \/ SyncGit(x)
        PROVE  BranchLags' /\ remote.rev <= remote'.rev
    BY <1>0, <1>7 DEF SyncPushFails, SyncGit
  <1> QED BY <1>1, <1>2, <1>3, <1>4, <1>5, <1>6, <1>7, Moves

----------------------------------------------------------------------------
(* The work of a submission. *)

Telling == {"post", "clear", "stop"}

\* A submission that tells the server, or cleans up, has its work where it had it;
\* one that has just begun to has pushed it.
LEMMA Told ==
  ASSUME Types, [WNext]_wvars, NEW x \in Submitters, sub'[x].step \in Telling
  PROVE  \/ sub[x].step \in Telling /\ sub'[x].rev = sub[x].rev
         \/ sub'[x].rev = tree.rev /\ remote' = tree
  <1> DEFINE Same(y) == sub'[y] = sub[y] \/ (sub[y].step \in Telling /\ sub'[y].rev = sub[y].rev)
             Quiet(y) == sub'[y].step \notin Telling
             Pushed(y) == sub'[y].rev = tree.rev /\ remote' = tree
  <1>1. CASE UNCHANGED wvars \/ Edit \/ RefreshRuns \/ ActivateInClone \/ ActivateIdle \/ Anchor
             \/ AnchorDone \/ AnchorFails \/ Enter \/ TimeRunsOut \/ SweepSubmits
    <2>1. sub' = sub
      BY <1>1 DEF wvars, Edit, RefreshRuns, RefreshIsServed, RefreshFails, RefreshDone,
           ActivateInClone, ActivateIdle, Anchor, AnchorDone, AnchorFails, Enter,
           TimeRunsOut, SweepSubmits
    <2> QED BY <2>1
  <1>2. CASE GitRuns
    <2>1. sub' = sub
      BY <1>2 DEF GitRuns, AutoTick, Deadline, AutoLook, AutoLookFails, AutoCommit,
           AutoCommitFails, AutoPush, AutoPushFails, PushHangs, AutoRestore
    <2> QED BY <2>1
  <1>3. CASE TimerFires
    <2>1. Expiry \in Submitters /\ "lock" \in SubSteps \ Telling
      BY DEF Submitters, SubSteps, Telling
    <2>2. sub' = sub \/ sub' = [sub EXCEPT ![Expiry].step = "lock"]
      BY <1>3 DEF TimerFires, SubGoesTo
    <2>3. sub' = sub \/ (sub'[Expiry].step = "lock" /\ \A y \in Submitters \ {Expiry} : sub'[y] = sub[y])
      BY <2>1, <2>2, Goes DEF Types
    <2> QED BY <2>1, <2>3
  <1>4. CASE Reload
    BY <1>4, IdleFacts DEF Reload, Telling
  <1>5. ASSUME NEW z \in Submitters, SubmissionRuns(z)
        PROVE  Same(x) \/ Pushed(x)
    <2>1. ASSUME NEW s \in SubSteps, SubGoesTo(z, s), s \notin Telling \/ sub[z].step \in Telling
          PROVE  Same(x)
      <3>1. sub'[z].step = s /\ sub'[z].rev = sub[z].rev /\ \A y \in Submitters \ {z} : sub'[y] = sub[y]
        BY <2>1, Goes DEF SubGoesTo, Types
      <3> QED BY <2>1, <3>1
    <2>2. ASSUME Ends(z)
          PROVE  Same(x)
      <3>1. sub'[z].step = "off" /\ \A y \in Submitters \ {z} : sub'[y] = sub[y]
        BY <2>2, Becomes, IdleFacts DEF Ends, Types
      <3> QED BY <3>1 DEF Telling
    <2>3. CASE Submit(z)
      BY <2>1, <2>3 DEF Submit, SubSteps, Telling
    <2>4. CASE Cancel(z) \/ SyncCommitFails(z) \/ SyncPushFails(z) \/ PostFails(z) \/ Stop(z)
      BY <2>2, <2>4 DEF Cancel, SyncCommitFails, SyncPushFails, PostFails, Stop
    <2>5. CASE Confirm(z)
      BY <2>1, <2>5 DEF Confirm, SubSteps, Telling
    <2>6. CASE Post(z)
      BY <2>1, <2>2, <2>6 DEF Post, SubSteps, Telling
    <2>7. CASE Clear(z)
      BY <2>1, <2>7 DEF Clear, SubSteps, Telling
    <2>8. CASE SyncGit(z)
      <3> DEFINE r == [step |-> "post", rev |-> tree.rev]
      <3>1. sub' = [sub EXCEPT ![z] = r] /\ remote' = tree
        BY <2>8 DEF SyncGit
      <3>2. r \in Rows /\ r.rev = tree.rev
        BY DEF Types, Trees, Rows, SubSteps
      <3> HIDE DEF r
      <3>3. sub'[z] = r /\ \A y \in Submitters \ {z} : sub'[y] = sub[y]
        BY <3>1, <3>2, Becomes DEF Types
      <3> QED BY <3>1, <3>2, <3>3
    <2> QED BY <1>5, <2>3, <2>4, <2>5, <2>6, <2>7, <2>8 DEF SubmissionRuns
  <1> QED BY <1>1, <1>2, <1>3, <1>4, <1>5 DEF WNext, WindowRuns

LEMMA WorkKept ==
  ASSUME Types, BranchLags, SubmittedWorkIsPushed, [WNext]_wvars
  PROVE  SubmittedWorkIsPushed'
  <1> SUFFICES ASSUME NEW x \in Submitters, sub'[x].step \in Telling
               PROVE  remote'.rev >= sub'[x].rev
    BY DEF SubmittedWorkIsPushed, Telling
  <1>1. /\ tree.rev \in Nat /\ remote.rev \in Nat /\ remote'.rev \in Nat
        /\ remote.rev <= remote'.rev
    BY TypesKept, LagsKept, TreeFacts DEF Types
  <1>2. sub[x].rev \in Nat
    BY DEF Types, Rows
  <1>3. CASE sub[x].step \in Telling /\ sub'[x].rev = sub[x].rev
    BY <1>1, <1>2, <1>3 DEF SubmittedWorkIsPushed, Telling
  <1>4. CASE sub'[x].rev = tree.rev /\ remote' = tree
    BY <1>1, <1>4
  <1> QED BY <1>3, <1>4, Told

----------------------------------------------------------------------------
(* The invariant and what follows from it. *)

LEMMA WInitially == WInit => WInv
  <1> SUFFICES ASSUME WInit
               PROVE  WInv
    OBVIOUS
  <1>1. tree = [rev |-> 0, whole |-> TRUE] /\ tree \in Trees /\ tree.rev = 0 /\ tree.whole = TRUE
    BY WorkspaceAssumption DEF WInit, Trees
  <1>2. sub \in [Submitters -> Rows] /\ \A x \in Submitters : sub[x].step = "off"
    BY IdleFacts DEF WInit
  <1>3. Flags
    BY DEF WInit, Flags
  <1>4. Types
    <2>1. /\ tree \in Trees /\ local \in Trees /\ remote \in Trees
          /\ mishaps \in 0..MaxMishaps
      BY <1>1, WorkspaceAssumption DEF WInit
    <2>2. /\ saved \in {"none", "unanchored", "anchored"}
          /\ config \in {"none", "unanchored", "anchored"}
          /\ refresh \in {"off", "armed", "answered"}
          /\ win \in {"closed", "idle", "asking", "answered", "running"}
          /\ server \in {"active", "submitted"}
      BY DEF WInit
    <2>3. started \in BOOLEAN /\ expired \in BOOLEAN
      BY DEF WInit
    <2> QED BY <1>2, <1>3, <2>1, <2>2, <2>3, Zenon DEF Types, Flags
  <1>5. GoodLine
    <2>1. line = << >> /\ ~hung
      BY DEF WInit
    <2>2. line \in Seq(Tickets) /\ Len(line) = 0 /\ MaxLine \in Nat
      BY <2>1, WorkspaceAssumption
    <2> QED BY <1>2, <2>1, <2>2 DEF GoodLine, LineOK
  <1>6. TokenWhileWorking
    BY DEF WInit, TokenWhileWorking, Holds
  <1>7. WipesHaveACause /\ BranchLags
    BY <1>1 DEF WInit, WipesHaveACause, BranchLags
  <1>8. SubmittedWorkIsPushed
    BY <1>2 DEF SubmittedWorkIsPushed
  <1> QED BY <1>4, <1>5, <1>6, <1>7, <1>8, TypesAndLine DEF WInv

LEMMA WInductive == WInv /\ [WNext]_wvars => WInv'
  <1> SUFFICES ASSUME WInv, [WNext]_wvars
               PROVE  WInv'
    OBVIOUS
  <1>1. Types /\ GoodLine
    BY TypesAndLine DEF WInv
  <1>2. Types' /\ GoodLine'
    BY <1>1, TypesKept, LineKept
  <1>3. WTypeOK'
    BY <1>2 DEF WTypeOK, Types, GoodLine, Rows
  <1>4. TokenWhileWorking'
    <2>1. CASE UNCHANGED wvars
      BY <2>1 DEF WInv, TokenWhileWorking, Holds, wvars, git, lock
    <2>2. CASE WNext
      BY <1>1, <2>2, TokenKept DEF WInv
    <2> QED BY <2>1, <2>2
  <1>5. WipesHaveACause' /\ BranchLags' /\ SubmittedWorkIsPushed'
    BY <1>1, WipesKept, LagsKept, WorkKept DEF WInv
  <1> QED BY <1>3, <1>4, <1>5 DEF WInv

THEOREM WorkspaceInvariant == WSpec => []WInv
  <1> QED BY WInitially, WInductive, PTL DEF WSpec

\* Types, and that only the holder of the git lock is past its first step while the
\* submissions waiting for it stand in line once each.
THEOREM WorkspaceTypes == WSpec => []WTypeOK
  <1>1. WInv => WTypeOK
    BY DEF WInv
  <1> QED BY <1>1, WorkspaceInvariant, PTL

\* An auto-commit finds the token in origin's URL when it pushes, whatever the
\* submissions did since it was put there.
THEOREM PushesCarryToken == WSpec => []PushHasToken
  <1>1. WInv => PushHasToken
    BY DEF WInv, TokenWhileWorking, PushHasToken
  <1> QED BY <1>1, WorkspaceInvariant, PTL

\* The branch is emptied only after a submission committed an emptied folder, or an
\* auto-commit whose guard git did not answer.
THEOREM WipesHaveCauses == WSpec => []WipesHaveACause
  <1>1. WInv => WipesHaveACause
    BY DEF WInv
  <1> QED BY <1>1, WorkspaceInvariant, PTL

\* A submission the server may have been told of has its work on the branch.
THEOREM SubmissionsArePushed == WSpec => []SubmittedWorkIsPushed
  <1>1. WInv => SubmittedWorkIsPushed
    BY DEF WInv
  <1> QED BY <1>1, WorkspaceInvariant, PTL
=============================================================================
