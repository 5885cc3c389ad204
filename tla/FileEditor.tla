----------------------------- MODULE FileEditor -----------------------------
(***************************************************************************)
(* The challenge file editor of the dashboard (server/vibe/repo_files.py): *)
(* recruiters who edit one file of a challenge on one variant branch.      *)
(*                                                                         *)
(* A save cuts the variant branch from its base unless it is there, reads  *)
(* the sha of the file as it is now and PUTs the text with that sha; a 409 *)
(* is tried once more, from the read on.  The sha the recruiter loaded the *)
(* file with is sent along and never used.  Every text ever written is     *)
(* different here, so a text is its number; 0 is the base's.  GitHub is    *)
(* external: it takes a PUT whose sha is the file's own, and it may carry  *)
(* one out whose answer is then lost.                                      *)
(***************************************************************************)
EXTENDS Naturals

CONSTANTS
  Editors,   \* recruiters' pages
  MaxTexts   \* bound: texts ever written

ASSUME EditorAssumption == MaxTexts \in Nat

VARIABLES
  variant,  \* whether the variant branch exists
  blob,     \* the file on it
  page      \* each editor: where its save is

editorVars == <<variant, blob, page>>

Where == {"closed", "open", "branch", "read", "put", "saved", "conflict", "failed"}
NewPage == [at |-> "closed", seen |-> 0, live |-> 0, tries |-> 0, since |-> 0]
In(e, at) == page[e].at = at
To(e, at) == page' = [page EXCEPT ![e].at = at]

EditorInit ==
  /\ variant = FALSE
  /\ blob = 0
  /\ page = [e \in Editors |-> NewPage]

(* get_file: the text as it is now.                                          *)
OpenFile(e) ==
  /\ page[e].at \notin {"branch", "read", "put"}
  /\ page' = [page EXCEPT ![e] = [NewPage EXCEPT !.at = "open", !.seen = blob]]
  /\ UNCHANGED <<variant, blob>>

(* save_file begins; `since` remembers what had been written by then.        *)
Save(e) ==
  /\ In(e, "open")
  /\ page' = [page EXCEPT ![e].at = "branch", ![e].since = blob]
  /\ UNCHANGED <<variant, blob>>

(* _create_github_branch(provision=False): there already is no error.        *)
CutVariant(e) ==
  /\ In(e, "branch")
  /\ variant' = TRUE
  /\ To(e, "read")
  /\ UNCHANGED blob

(* _live_blob_sha.                                                           *)
ReadSha(e) ==
  /\ In(e, "read")
  /\ page' = [page EXCEPT ![e].at = "put", ![e].live = blob]
  /\ UNCHANGED <<variant, blob>>

\* Mutant: a 409 is not tried again.
PutOnce(e) ==
  /\ In(e, "put")
  /\ IF page[e].live = blob
     THEN blob < MaxTexts /\ blob' = blob + 1 /\ To(e, "saved")
     ELSE To(e, "conflict") /\ UNCHANGED blob
  /\ UNCHANGED variant
Put(e) ==
  /\ In(e, "put")
  /\ IF page[e].live = blob
     THEN blob < MaxTexts /\ blob' = blob + 1 /\ To(e, "saved")
     ELSE /\ page' = [page EXCEPT ![e].tries = @ + 1,
                                  ![e].at = IF page[e].tries = 0 THEN "read" ELSE "conflict"]
          /\ UNCHANGED blob
  /\ UNCHANGED variant

(* A request fails or is not answered; a PUT may have been carried out.      *)
GitHubFails(e) ==
  /\ page[e].at \in {"branch", "read", "put"}
  /\ \/ UNCHANGED blob
     \/ In(e, "put") /\ page[e].live = blob /\ blob < MaxTexts /\ blob' = blob + 1
  /\ To(e, "failed")
  /\ UNCHANGED variant

EditorNext ==
  \E e \in Editors :
    OpenFile(e) \/ Save(e) \/ CutVariant(e) \/ ReadSha(e) \/ Put(e) \/ GitHubFails(e)

EditorSpec == EditorInit /\ [][EditorNext]_editorVars

----------------------------------------------------------------------------
(* Properties *)

EditorTypeOK ==
  /\ variant \in BOOLEAN /\ blob \in 0..MaxTexts
  /\ page \in [Editors -> [at : Where, seen : Nat, live : Nat, tries : 0..2, since : Nat]]

(* A recruiter is told of a conflict only when others wrote the file twice   *)
(* while the save was running: one other save never makes one fail.          *)
ConflictMeansTwoWrites == \A e \in Editors : In(e, "conflict") => blob >= page[e].since + 2
============================================================================
