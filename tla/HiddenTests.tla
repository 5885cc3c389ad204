---------------------------- MODULE HiddenTests ----------------------------
(***************************************************************************)
(* The third stage of a grading run (server/vibe/grader/runner.py): the    *)
(* challenge's files are read, one of the three backends (cpp_runner.py,   *)
(* python_runner.py, typescript_runner.py) builds the clone, and the       *)
(* hidden tests are run tag by tag, each in a process of its own with a    *)
(* timeout of its own.  The rubrics made of the result are in Scoring.     *)
(*                                                                         *)
(* The compilers, pip, npm and the test programs are external: a process   *)
(* succeeds, fails, hangs, or, for a tag, exits with 0 having run nothing. *)
(***************************************************************************)
EXTENDS FiniteSets

CONSTANTS
  TaskTags,  \* test_tag of the tasks in rubric.json
  TrapTags   \* detection_tag of the traps in traps.json

ASSUME TestsAssumption == IsFiniteSet(TaskTags) /\ IsFiniteSet(TrapTags)

VARIABLES
  clone,    \* the submission: what its processes do
  backend,  \* metadata.grader
  config,   \* which of the challenge's files can be read
  step,     \* where the stage is
  todo,     \* the tags still to be run
  results,  \* tag_results
  buildFailed  \* build_failed

testVars == <<clone, backend, config, step, todo, results, buildFailed>>

AllTags == TaskTags \union TrapTags
Backends == {"cpp", "python", "typescript"}
Outcomes == {"pass", "fail", "hang", "empty"}
NoTag == [t \in {} |-> TRUE]

TestsInit ==
  /\ clone \in [install : {"pass", "fail", "hang"}, tag : [AllTags -> Outcomes]]
  /\ backend \in Backends
  /\ config \in [metadata : BOOLEAN, rubric : BOOLEAN, traps : BOOLEAN]
  /\ step = "config"
  /\ todo = {}
  /\ results = NoTag
  /\ buildFailed = FALSE

(* The tags that are run: a rubric.json or traps.json that cannot be read    *)
(* counts as empty.                                                          *)
Tags == (IF config.rubric THEN TaskTags ELSE {}) \union (IF config.traps THEN TrapTags ELSE {})

\* The except clause around the stage: nothing is kept, and the report will
\* say that the code did not compile.
Raise == step' = "done" /\ results' = NoTag /\ buildFailed' = TRUE

(* _load_challenge_config: only metadata.json is missed.                     *)
LoadConfig ==
  /\ step = "config"
  /\ IF config.metadata
     THEN step' = "install" /\ todo' = Tags /\ UNCHANGED <<results, buildFailed>>
     ELSE Raise /\ UNCHANGED todo
  /\ UNCHANGED <<clone, backend, config>>

\* build_and_test returns, to a run that asks whether any tag was run.
Return(found) ==
  /\ step' = "done"
  /\ results' = found
  /\ buildFailed' = (Tags # {} /\ DOMAIN found = {})

(* Copy the hidden tests in and build: cmake, pip or npm.  Only the          *)
(* TypeScript backend turns a timeout into an exit code.                     *)
Install ==
  /\ step = "install"
  /\ CASE clone.install = "pass" -> step' = "tags" /\ UNCHANGED <<results, buildFailed>>
       [] clone.install = "hang" /\ backend # "typescript" -> Raise
       [] OTHER -> Return(NoTag)
  /\ UNCHANGED <<clone, backend, config, todo>>

CatchesTimeout == backend = "typescript"

\* Mutant: the exit code alone decides.
PassedByExit(t) == clone.tag[t] = "pass" \/ (clone.tag[t] = "empty" /\ backend # "python")
(* Whether a tag counts as passed.  With no test under the tag, pytest exits *)
(* with 5; vitest exits with 0, and its summary is read for that; the C++    *)
(* program's own exit code is taken.                                         *)
Passed(t) == clone.tag[t] = "pass" \/ (clone.tag[t] = "empty" /\ backend = "cpp")

(* One tag in one process.  The tags are sorted in the code; any order here. *)
RunTag(t) ==
  /\ step = "tags" /\ t \in todo
  /\ IF clone.tag[t] = "hang" /\ ~CatchesTimeout
     THEN Raise /\ UNCHANGED todo
     ELSE /\ results' = [u \in DOMAIN results \union {t} |-> IF u = t THEN Passed(t) ELSE results[u]]
          /\ todo' = todo \ {t}
          /\ UNCHANGED <<step, buildFailed>>
  /\ UNCHANGED <<clone, backend, config>>

Finish ==
  /\ step = "tags" /\ todo = {}
  /\ Return(results)
  /\ UNCHANGED <<clone, backend, config, todo>>

TestsNext == LoadConfig \/ Install \/ Finish \/ \E t \in AllTags : RunTag(t)

TestsSpec == TestsInit /\ [][TestsNext]_testVars

----------------------------------------------------------------------------
(* Properties *)

TestsTypeOK ==
  /\ step \in {"config", "install", "tags", "done"}
  /\ todo \subseteq AllTags
  /\ DOMAIN results \subseteq AllTags
  /\ buildFailed => step = "done" /\ DOMAIN results = {}

(* typescript_runner.py:4-5: "Each tag is run in its own subprocess so a     *)
(* hang in one test group cannot stall the others."  Whatever the other tags *)
(* do, a tag counts exactly when tests of its own ran and passed.            *)
EachTagOnItsOwn ==
  step = "done" /\ backend = "typescript" /\ clone.install = "pass" /\ config.metadata =>
    \A t \in Tags : t \in DOMAIN results /\ (results[t] <=> clone.tag[t] = "pass")
=============================================================================
