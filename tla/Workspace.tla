----------------------------- MODULE Workspace -----------------------------
(***************************************************************************)
(* The extension in the candidate's window (extension/src/extension.ts,    *)
(* submit.ts, timer.ts): the clone, the three-minute auto-commit and the   *)
(* submissions that take turns on the git lock, the token refresh, the     *)
(* session kept in globalState, and what POST /submit, /session-started    *)
(* and /refresh-github-token answer.                                       *)
(*                                                                         *)
(* The extension host runs one thread, so code between two awaits is one   *)
(* step.  The submit path runs git synchronously: its commit and its push  *)
(* are one step, where the auto-commit's are several.                      *)
(***************************************************************************)
EXTENDS Naturals, Sequences

CONSTANTS
  Manuals,     \* calls of the vibe.submit command
  Expiry,      \* the submission the countdown starts
  MaxEdits,    \* bound: changes of the working tree
  MaxLine,     \* bound: holders and waiters of the git lock
  MaxMishaps   \* bound: pushes that never end and window reloads, in all

Submitters == Manuals \cup {Expiry}

ASSUME WorkspaceAssumption ==
  /\ Expiry \notin Manuals /\ "auto" \notin Submitters
  /\ MaxEdits \in Nat /\ MaxLine \in Nat /\ MaxMishaps \in Nat

VARIABLES
  tree,     \* the working tree: number of changes so far, challenge files left or not
  local,    \* the tree of HEAD
  remote,   \* the tree at the tip of the candidate's branch on GitHub
  ahead,    \* HEAD has commits the tracking branch lacks
  authed,   \* the URL of origin carries the token
  gone,     \* history: an emptied tree was committed by a submission, or by an
            \* auto-commit whose guard got no answer from git
  line,     \* _gitLock's chain: the head holds the lock
  guard,    \* autoCommitInFlight
  hung,     \* the push of the head never ends
  sub,      \* each submission: its step, and the change it committed
  saved,    \* globalState[SESSION_KEY]
  config,   \* startedAt of the session object in memory: set or 0
  refresh,  \* the token refresh: its timer, or its request
  stopped,  \* _stopAutoCommit and _stopTokenRefresh were called
  win,      \* the window: activation and services
  fired,    \* the countdown reached zero in this window
  server,   \* status of the session
  started,  \* the server has anchored started_at
  expired,  \* the time from started_at is over
  mishaps   \* pushes that hung and reloads so far

git == <<tree, local, remote, ahead, authed, gone>>
lock == <<line, guard, hung>>
client == <<saved, config, refresh, stopped, win, fired>>
remoteside == <<server, started, expired>>
wvars == <<git, lock, sub, client, remoteside, mishaps>>

Trees == [rev : 0..MaxEdits, whole : BOOLEAN]
AutoSteps == {"look", "commit", "push", "restore"}
Tickets == [by : {"auto"}, step : AutoSteps] \cup [by : Submitters, step : {"sync"}]
SubSteps == {"off", "confirm", "lock", "post", "clear", "stop"}
Idle == [step |-> "off", rev |-> 0]

(* promptForSession has validated the key and cloned, which leaves the      *)
(* token in origin's URL; the window is about to open the clone.            *)
WInit ==
  /\ tree = [rev |-> 0, whole |-> TRUE] /\ local = tree /\ remote = tree
  /\ ahead = FALSE /\ authed = TRUE /\ gone = FALSE
  /\ line = << >> /\ guard = FALSE /\ hung = FALSE
  /\ sub = [x \in Submitters |-> Idle]
  /\ saved = "unanchored" /\ config = "none" /\ refresh = "off" /\ stopped = FALSE
  /\ win = "closed" /\ fired = FALSE /\ mishaps = 0
  /\ server = "active" /\ started = FALSE /\ expired = FALSE

----------------------------------------------------------------------------
(* The candidate changes files, or empties the folder of everything but the *)
(* marker.                                                                  *)
Edit ==
  /\ tree.rev < MaxEdits
  /\ \E left \in BOOLEAN : tree' = [rev |-> tree.rev + 1, whole |-> left]
  /\ UNCHANGED <<local, remote, ahead, authed, gone, lock, sub, client, remoteside, mishaps>>

----------------------------------------------------------------------------
(* The git lock: a chain of promises, first come first served.              *)
Holds(who, step) == line # << >> /\ Head(line) = [by |-> who, step |-> step]
AutoGoesTo(step) == line' = << [by |-> "auto", step |-> step] >> \o Tail(line)

(* The interval of three minutes asks for the lock unless a commit is in    *)
(* flight.                                                                  *)
AutoTick ==
  /\ win = "running" /\ ~stopped /\ ~guard
  /\ Len(line) < MaxLine
  /\ guard' = TRUE
  /\ line' = Append(line, [by |-> "auto", step |-> "look"])
  /\ UNCHANGED <<git, hung, sub, client, remoteside, mishaps>>

(* The deadline frees the guard, not the lock.                              *)
Deadline ==
  /\ guard
  /\ guard' = FALSE
  /\ UNCHANGED <<git, line, hung, sub, client, remoteside, mishaps>>

(* The end of an auto-commit, with its lock and the guard, even if the      *)
(* guard by now stands for a later one.                                     *)
AutoDone == line' = Tail(line) /\ guard' = FALSE

\* Mutant: a clean tree ends the tick, pushed or not.
AutoLookClean ==
  /\ Holds("auto", "look")
  /\ \/ tree = local /\ AutoDone /\ UNCHANGED authed
     \/ tree # local /\ AutoGoesTo("commit") /\ authed' = TRUE /\ UNCHANGED guard
  /\ UNCHANGED <<tree, local, remote, ahead, gone, hung, sub, client, remoteside, mishaps>>

(* git status, and the count of commits not pushed when it is clean.        *)
AutoLook ==
  /\ Holds("auto", "look")
  /\ \/ /\ tree = local /\ ~ahead
        /\ AutoDone
        /\ UNCHANGED authed
     \/ /\ tree # local \/ ahead
        /\ AutoGoesTo(IF tree = local THEN "push" ELSE "commit")
        /\ authed' = TRUE
        /\ UNCHANGED guard
  /\ UNCHANGED <<tree, local, remote, ahead, gone, hung, sub, client, remoteside, mishaps>>

AutoLookFails ==
  /\ Holds("auto", "look")
  /\ AutoDone
  /\ UNCHANGED <<git, hung, sub, client, remoteside, mishaps>>

\* Mutant: no guard against an emptied folder.
NeverWipes(answered) == FALSE

Wiping == local.whole /\ ~tree.whole

(* The guard asks git twice what the commit would leave, and says no when   *)
(* git does not answer.                                                     *)
WouldWipe(answered) == answered /\ Wiping

(* git add and commit, unless the guard sees that this wipes the workspace. *)
AutoCommit ==
  /\ Holds("auto", "commit")
  /\ \E answered \in BOOLEAN :
       IF WouldWipe(answered)
       THEN AutoGoesTo("restore") /\ UNCHANGED <<local, ahead, gone>>
       ELSE /\ AutoGoesTo("push") /\ local' = tree /\ ahead' = TRUE
            /\ gone' = (gone \/ (~answered /\ Wiping))
  /\ UNCHANGED <<tree, remote, authed, guard, hung, sub, client, remoteside, mishaps>>

AutoCommitFails ==
  /\ Holds("auto", "commit")
  /\ AutoGoesTo("restore")
  /\ UNCHANGED <<git, guard, hung, sub, client, remoteside, mishaps>>

AutoPush ==
  /\ Holds("auto", "push") /\ ~hung
  /\ AutoGoesTo("restore")
  /\ remote' = local /\ ahead' = FALSE
  /\ UNCHANGED <<tree, local, authed, gone, guard, hung, sub, client, remoteside, mishaps>>

(* A push that fails may have reached GitHub all the same.                  *)
AutoPushFails ==
  /\ Holds("auto", "push") /\ ~hung
  /\ AutoGoesTo("restore")
  /\ remote' \in {remote, local}
  /\ UNCHANGED <<tree, local, ahead, authed, gone, guard, hung, sub, client, remoteside, mishaps>>

PushHangs ==
  /\ Holds("auto", "push") /\ ~hung
  /\ mishaps < MaxMishaps
  /\ hung' = TRUE /\ mishaps' = mishaps + 1
  /\ UNCHANGED <<git, line, guard, sub, client, remoteside>>

AutoRestore ==
  /\ Holds("auto", "restore")
  /\ authed' = FALSE
  /\ AutoDone
  /\ UNCHANGED <<tree, local, remote, ahead, gone, hung, sub, client, remoteside, mishaps>>

----------------------------------------------------------------------------
(* runSubmit.  The manual one reads the session and asks; the automatic one *)
(* starts at the lock.                                                      *)
SubGoesTo(x, step) == sub' = [sub EXCEPT ![x].step = step]
Ends(x) == sub' = [sub EXCEPT ![x] = Idle]

Activated == win \in {"asking", "answered", "running"}

Submit(x) ==
  /\ x \in Manuals /\ sub[x].step = "off"
  /\ Activated /\ saved # "none"
  /\ SubGoesTo(x, "confirm")
  /\ UNCHANGED <<git, lock, client, remoteside, mishaps>>

Cancel(x) ==
  /\ sub[x].step = "confirm"
  /\ Ends(x)
  /\ UNCHANGED <<git, lock, client, remoteside, mishaps>>

Confirm(x) ==
  /\ sub[x].step = "confirm"
  /\ Len(line) < MaxLine
  /\ SubGoesTo(x, "lock")
  /\ line' = Append(line, [by |-> x, step |-> "sync"])
  /\ UNCHANGED <<git, guard, hung, client, remoteside, mishaps>>

(* The countdown's one tick at zero.  An interview the server has not       *)
(* anchored counts down from this window's activation.                      *)
TimerFires ==
  /\ win = "running" /\ ~fired
  /\ config = "anchored" => expired
  /\ fired' = TRUE
  /\ IF saved = "none" \/ sub[Expiry].step # "off"
     THEN UNCHANGED <<sub, line>>
     ELSE /\ Len(line) < MaxLine
          /\ SubGoesTo(Expiry, "lock")
          /\ line' = Append(line, [by |-> Expiry, step |-> "sync"])
  /\ UNCHANGED <<git, guard, hung, saved, config, refresh, stopped, win, remoteside, mishaps>>

(* gitCommitAndPush with allowEmpty, then the release in `finally`.         *)
SyncCommitFails(x) ==
  /\ Holds(x, "sync")
  /\ Ends(x)
  /\ authed' \in {authed, FALSE} /\ line' = Tail(line)
  /\ UNCHANGED <<tree, local, remote, ahead, gone, guard, hung, client, remoteside, mishaps>>

\* Mutants: the release is not in a `finally`; the failed push is swallowed.
SyncPushKeepsLock(x) ==
  /\ Holds(x, "sync")
  /\ Ends(x)
  /\ authed' = FALSE
  /\ local' = tree /\ ahead' = TRUE /\ gone' = (gone \/ ~tree.whole)
  /\ UNCHANGED <<tree, remote, lock, client, remoteside, mishaps>>

SyncPushSwallowed(x) ==
  /\ Holds(x, "sync")
  /\ sub' = [sub EXCEPT ![x] = [step |-> "post", rev |-> tree.rev]]
  /\ authed' = FALSE /\ line' = Tail(line)
  /\ local' = tree /\ ahead' = TRUE /\ gone' = (gone \/ ~tree.whole)
  /\ UNCHANGED <<tree, remote, guard, hung, client, remoteside, mishaps>>

SyncPushFails(x) ==
  /\ Holds(x, "sync")
  /\ Ends(x)
  /\ authed' = FALSE /\ line' = Tail(line)
  /\ local' = tree /\ ahead' = TRUE /\ gone' = (gone \/ ~tree.whole)
  /\ remote' \in {remote, tree}
  /\ UNCHANGED <<tree, guard, hung, client, remoteside, mishaps>>

\* Mutant: the submission does not wait for the lock.
SyncWithoutLock(x) ==
  /\ sub[x].step = "lock"
  /\ sub' = [sub EXCEPT ![x] = [step |-> "post", rev |-> tree.rev]]
  /\ line' = SelectSeq(line, LAMBDA t : t.by # x)
  /\ authed' = FALSE
  /\ local' = tree /\ remote' = tree /\ ahead' = FALSE /\ gone' = (gone \/ ~tree.whole)
  /\ UNCHANGED <<tree, guard, hung, client, remoteside, mishaps>>

SyncGit(x) ==
  /\ Holds(x, "sync")
  /\ sub' = [sub EXCEPT ![x] = [step |-> "post", rev |-> tree.rev]]
  /\ authed' = FALSE /\ line' = Tail(line)
  /\ local' = tree /\ remote' = tree /\ ahead' = FALSE /\ gone' = (gone \/ ~tree.whole)
  /\ UNCHANGED <<tree, guard, hung, client, remoteside, mishaps>>

(* POST /submit: 202, or 409 when it was submitted before; both go on to    *)
(* the cleanup.  Any other answer, and a reply that is lost, ends in a toast.*)
Post(x) ==
  /\ sub[x].step = "post"
  /\ server' = "submitted"
  /\ SubGoesTo(x, "clear") \/ Ends(x)
  /\ UNCHANGED <<git, lock, client, started, expired, mishaps>>

PostFails(x) ==
  /\ sub[x].step = "post"
  /\ Ends(x)
  /\ UNCHANGED <<git, lock, client, remoteside, mishaps>>

(* onSubmitted: the saved session is cleared, and some awaits later the     *)
(* services that have been started are stopped.                             *)
Clear(x) ==
  /\ sub[x].step = "clear"
  /\ SubGoesTo(x, "stop")
  /\ saved' = "none"
  /\ UNCHANGED <<git, lock, config, refresh, stopped, win, fired, remoteside, mishaps>>

Stop(x) ==
  /\ sub[x].step = "stop"
  /\ Ends(x)
  /\ stopped' = (stopped \/ win = "running")
  /\ refresh' = IF refresh = "armed" THEN "off" ELSE refresh
  /\ UNCHANGED <<git, lock, saved, config, win, fired, remoteside, mishaps>>

----------------------------------------------------------------------------
(* The token refresh: a request the server serves, or one it refuses, which *)
(* changes nothing.  The answer is written to globalState whether or not    *)
(* the services were stopped meanwhile.                                     *)
RefreshIsServed ==
  /\ refresh = "armed" /\ server = "active"
  /\ refresh' = "answered"
  /\ UNCHANGED <<git, lock, sub, saved, config, stopped, win, fired, remoteside, mishaps>>

Rearmed == IF stopped THEN "off" ELSE "armed"

RefreshFails ==
  /\ refresh = "answered"
  /\ refresh' = Rearmed
  /\ UNCHANGED <<git, lock, sub, saved, config, stopped, win, fired, remoteside, mishaps>>

RefreshDone ==
  /\ refresh = "answered"
  /\ refresh' = Rearmed
  /\ saved' = config
  /\ UNCHANGED <<git, lock, sub, config, stopped, win, fired, remoteside, mishaps>>

----------------------------------------------------------------------------
(* activate, in a window with or without the clone's folder.                *)
Elapsed == saved = "anchored" /\ expired

StartServices(known) ==
  /\ win' = "running" /\ config' = known
  /\ refresh' = "armed" /\ stopped' = FALSE /\ fired' = FALSE

ActivateInClone ==
  /\ win = "closed" /\ saved # "none" /\ ~Elapsed
  /\ IF saved = "anchored"
     THEN StartServices("anchored")
     ELSE win' = "asking" /\ UNCHANGED <<config, refresh, stopped, fired>>
  /\ UNCHANGED <<git, lock, sub, saved, remoteside, mishaps>>

(* No session, one that is over, or a folder that is not the clone: the     *)
(* dialog reopens the clone, starts fresh, or is dismissed.                 *)
ActivateIdle ==
  /\ win = "closed"
  /\ win' = "idle"
  /\ saved' \in IF Elapsed THEN {"none"} ELSE {saved, "none"}
  /\ UNCHANGED <<git, lock, sub, config, refresh, stopped, fired, remoteside, mishaps>>

(* POST /session-started, anchored once; the activation awaits the answer.  *)
Anchor ==
  /\ win = "asking" /\ server = "active"
  /\ win' = "answered" /\ started' = TRUE
  /\ UNCHANGED <<git, lock, sub, saved, config, refresh, stopped, fired, server, expired, mishaps>>

AnchorDone ==
  /\ win = "answered"
  /\ saved' = "anchored"
  /\ StartServices("anchored")
  /\ UNCHANGED <<git, lock, sub, remoteside, mishaps>>

AnchorFails ==
  /\ win \in {"asking", "answered"}
  /\ StartServices("unanchored")
  /\ UNCHANGED <<git, lock, sub, saved, remoteside, mishaps>>

(* promptForSession in a window without the clone: a clone that is healthy  *)
(* is kept, one that is not is replaced; the folder is opened.              *)
Enter ==
  /\ win = "idle" /\ server = "active"
  /\ saved' = "unanchored" /\ win' = "closed"
  /\ IF tree.whole
     THEN UNCHANGED <<tree, local, ahead, authed>>
     ELSE tree' = remote /\ local' = remote /\ ahead' = FALSE /\ authed' = TRUE
  /\ UNCHANGED <<remote, gone, lock, sub, config, refresh, stopped, fired, remoteside, mishaps>>

(* The window reloads or closes: whatever is not in globalState or on disk  *)
(* is lost, and git may or may not finish a push without it.                *)
Reload ==
  /\ win # "closed" /\ mishaps < MaxMishaps
  /\ mishaps' = mishaps + 1
  /\ win' = "closed" /\ config' = "none" /\ refresh' = "off" /\ stopped' = FALSE /\ fired' = FALSE
  /\ line' = << >> /\ guard' = FALSE /\ hung' = FALSE
  /\ sub' = [x \in Submitters |-> Idle]
  /\ \/ UNCHANGED <<remote, ahead>>
     \/ Holds("auto", "push") /\ ~hung /\ remote' = local /\ ahead' \in BOOLEAN
  /\ UNCHANGED <<tree, local, authed, gone, saved, remoteside>>

----------------------------------------------------------------------------
(* The server's clock, and the sweep that submits what ran out.             *)
TimeRunsOut ==
  /\ started /\ ~expired
  /\ expired' = TRUE
  /\ UNCHANGED <<git, lock, sub, client, server, started, mishaps>>

SweepSubmits ==
  /\ expired /\ server = "active"
  /\ server' = "submitted"
  /\ UNCHANGED <<git, lock, sub, client, started, expired, mishaps>>

GitRuns ==
  \/ AutoTick \/ Deadline \/ AutoLook \/ AutoLookFails \/ AutoCommit \/ AutoCommitFails
  \/ AutoPush \/ AutoPushFails \/ PushHangs \/ AutoRestore

SubmissionRuns(x) ==
  \/ Submit(x) \/ Cancel(x) \/ Confirm(x)
  \/ SyncCommitFails(x) \/ SyncPushFails(x) \/ SyncGit(x)
  \/ Post(x) \/ PostFails(x) \/ Clear(x) \/ Stop(x)

RefreshRuns == RefreshIsServed \/ RefreshFails \/ RefreshDone

WindowRuns ==
  \/ ActivateInClone \/ ActivateIdle \/ Anchor \/ AnchorDone \/ AnchorFails
  \/ Enter \/ Reload

WNext ==
  \/ Edit \/ GitRuns \/ TimerFires \/ RefreshRuns \/ WindowRuns
  \/ TimeRunsOut \/ SweepSubmits
  \/ \E x \in Submitters : SubmissionRuns(x)

WSpec == WInit /\ [][WNext]_wvars

(* Node runs the callbacks and the interval while the window is open; git   *)
(* and GitHub answer for good now and then, and every request has a time    *)
(* limit.                                                                   *)
WFairness ==
  /\ WF_wvars(AutoTick) /\ SF_wvars(AutoLook) /\ SF_wvars(AutoCommit)
  /\ SF_wvars(AutoPush) /\ WF_wvars(AutoRestore)
  /\ \A x \in Submitters :
        /\ WF_wvars(SyncGit(x) \/ SyncCommitFails(x) \/ SyncPushFails(x))
        /\ WF_wvars(Post(x) \/ PostFails(x))
        /\ WF_wvars(Clear(x)) /\ WF_wvars(Stop(x))

WLiveSpec == WSpec /\ WFairness

----------------------------------------------------------------------------
(* Types; only the holder of the lock is past its first step, and the       *)
(* submissions that wait for the lock are those in the line, once each.     *)
LineOK ==
  /\ \A i \in 2..Len(line) : line[i].step \in {"look", "sync"}
  /\ \A i, j \in 1..Len(line) : line[i].by = line[j].by => i = j \/ line[i].by = "auto"
  /\ \A x \in Submitters :
        sub[x].step = "lock" <=> \E i \in 1..Len(line) : line[i].by = x
  /\ hung => Holds("auto", "push")

WTypeOK ==
  /\ tree \in Trees /\ local \in Trees /\ remote \in Trees
  /\ ahead \in BOOLEAN /\ authed \in BOOLEAN /\ gone \in BOOLEAN
  /\ line \in Seq(Tickets) /\ Len(line) <= MaxLine /\ LineOK
  /\ guard \in BOOLEAN /\ hung \in BOOLEAN  /\ mishaps \in 0..MaxMishaps
  /\ sub \in [Submitters -> [step : SubSteps, rev : 0..MaxEdits]]
  /\ saved \in {"none", "unanchored", "anchored"}
  /\ config \in {"none", "unanchored", "anchored"}
  /\ refresh \in {"off", "armed", "answered"}
  /\ win \in {"closed", "idle", "asking", "answered", "running"}
  /\ stopped \in BOOLEAN /\ fired \in BOOLEAN
  /\ server \in {"active", "submitted"} /\ started \in BOOLEAN /\ expired \in BOOLEAN

(* No auto-commit pushes with the token gone from origin's URL, whatever    *)
(* submission ran since it put the token there (submit.ts:16-22).           *)
PushHasToken == Holds("auto", "push") => authed

(* The branch loses every challenge file only if a submission committed a   *)
(* tree without them, or an auto-commit did whose guard git did not answer: *)
(* no other auto-commit of an emptied folder, no push of what an earlier    *)
(* tick committed, no reload and no clone gets there by itself              *)
(* (submit.ts:406-421, 436-462, extension.ts:963-968).                      *)
WipesHaveACause == ~local.whole \/ ~remote.whole => gone

(* From the moment a submission may tell the server, the branch holds the   *)
(* tree it committed or a later one (submit.ts:160-179).                    *)
SubmittedWorkIsPushed ==
  \A x \in Submitters :
    sub[x].step \in {"post", "clear", "stop"} => remote.rev >= sub[x].rev

(* A change is on the branch some ticks later, though git or the network    *)
(* fail any number of times: while the services run, no push hangs and the  *)
(* folder is not emptied (submit.ts:384-400).                               *)
Saving == win = "running" /\ ~stopped /\ ~hung /\ tree.whole

EditsAreSaved ==
  \A n \in 1..MaxEdits : (Saving /\ tree.rev = n) ~> (remote.rev >= n \/ ~Saving)

(* A submission that asked for the git lock comes to its end, behind any    *)
(* auto-commit that does not hang (submit.ts:20-22).                        *)
SubmissionEnds ==
  \A x \in Submitters : sub[x].step = "lock" ~> (sub[x].step = "off" \/ hung)

(* What the code says of a connection that hangs: it "times out rather than *)
(* wedging the auto-commit cycle forever" (extension.ts:643-644).           *)
NeverSpinsForever ==
  \A x \in Submitters : sub[x].step = "lock" ~> sub[x].step = "off"
=============================================================================
