--------------------------- MODULE InterviewVideo ---------------------------
(***************************************************************************)
(* The video a candidate records after the submission                      *)
(* (server/vibe/video.py): the endpoints, and the recording page served to *)
(* a browser, in the script at the end of the file.                        *)
(*                                                                         *)
(* A tab of the page asks for an upload address (init), records, PUTs the  *)
(* recording to the object store and reports it (complete).  The server    *)
(* mints a key per init, and complete is three statements: the link is     *)
(* looked up and the report checked, the row of the session is written,    *)
(* the link is marked as used.  Several tabs may have the same link open,  *)
(* on several devices, and a tab may be reloaded at any point.  The object *)
(* store is external.                                                      *)
(*                                                                         *)
(* Time is counted from the submission, in units of a hundred seconds; an  *)
(* interval of the page fires within Lag of its time.                      *)
(***************************************************************************)
EXTENDS Integers, Sequences

CONSTANTS
  Tabs,          \* pages that have the link open
  MaxInits,      \* bound: upload addresses minted
  MaxTime,       \* bound: the clock
  UploadWindow,  \* UPLOAD_WINDOW_SECONDS
  PutTtl,        \* PRESIGNED_PUT_TTL_SECONDS
  LinkTtl,       \* BROWSER_LINK_TTL_SECONDS
  MinDuration,   \* MIN_DURATION_SECONDS
  MaxDuration,   \* MAX_DURATION_SECONDS
  Lag            \* how late the page's interval may fire

ASSUME VideoAssumption ==
  /\ {MaxInits, MaxTime, UploadWindow, PutTtl, LinkTtl, MinDuration, MaxDuration, Lag} \subseteq Nat
  /\ MinDuration <= MaxDuration

VARIABLES
  clock,    \* seconds since submitted_at, or BeforeSubmit
  link,     \* the row of video_upload_tokens: its expiry, and whether it was used
  minted,   \* when each key was minted; the keys are numbered
  objects,  \* the keys the object store holds something under
  video,    \* video_s3_key, video_duration_seconds; `known`: keys minted when it was written
  tab       \* each page

videoVars == <<clock, link, minted, objects, video, tab>>

BeforeSubmit == -1
NoVideo == [key |-> 0, duration |-> 0, known |-> 0]
NoLink == [expires |-> BeforeSubmit, used |-> FALSE]
\* A page: closed; at init; camera asked for; recording; uploading; its report
\* to be checked; written; acknowledged or refused.
Pages == {"closed", "loading", "ready", "recording", "uploading", "uploaded", "checked", "stored",
          "done", "refused"}
Page(page) == [page |-> page, key |-> 0, from |-> 0, duration |-> 0]
On(t, page) == tab[t].page = page
Turn(t, page) == tab' = [tab EXCEPT ![t].page = page]

VideoInit ==
  /\ clock = BeforeSubmit
  /\ link = NoLink
  /\ minted = << >>
  /\ objects = {}
  /\ video = NoVideo
  /\ tab = [t \in Tabs |-> Page("closed")]

Earlier(a, b) == IF a < b THEN a ELSE b
Submitted == clock # BeforeSubmit
WindowOpen == Submitted /\ clock <= UploadWindow

\* Mutant: a stored video is no obstacle.
InitAllowedAgain == WindowOpen
(* _check_upload_preconditions.                                              *)
InitAllowed == WindowOpen /\ video = NoVideo

(* _resolve_token: an unused link that has not expired.                      *)
LinkIsGood == link # NoLink /\ ~link.used /\ clock <= link.expires

----------------------------------------------------------------------------
Submit ==
  /\ ~Submitted
  /\ clock' = 0
  /\ UNCHANGED <<link, minted, objects, video, tab>>

(* updateTimer stops a recording that reached the limit, within Lag.         *)
PageMustStop(t) == On(t, "recording") /\ clock - tab[t].from >= MaxDuration + Lag

Pass ==
  /\ Submitted /\ clock < MaxTime
  /\ \A t \in Tabs : ~PageMustStop(t)
  /\ clock' = clock + 1
  /\ UNCHANGED <<link, minted, objects, video, tab>>

(* browser_link: the link never outlives the window.                         *)
BrowserLink ==
  /\ link = NoLink /\ InitAllowed
  /\ link' = [expires |-> Earlier(clock + LinkTtl, UploadWindow), used |-> FALSE]
  /\ UNCHANGED <<clock, minted, objects, video, tab>>

(* The page is opened, or reloaded while it shows anything but the end.      *)
OpenPage(t) ==
  /\ link # NoLink /\ ~On(t, "loading") /\ ~On(t, "done")
  /\ tab' = [tab EXCEPT ![t] = Page(IF LinkIsGood THEN "loading" ELSE "refused")]
  /\ UNCHANGED <<clock, link, minted, objects, video>>

(* bootstrap: browser/init mints a key and an address to PUT to.             *)
Bootstrap(t) ==
  /\ On(t, "loading")
  /\ IF LinkIsGood /\ InitAllowed
     THEN /\ Len(minted) < MaxInits
          /\ minted' = Append(minted, clock)
          /\ tab' = [tab EXCEPT ![t].page = "ready", ![t].key = Len(minted')]
     ELSE UNCHANGED minted /\ Turn(t, "refused")
  /\ UNCHANGED <<clock, link, objects, video>>

(* requestCamera and Start; a camera that is refused leaves the page ready.  *)
StartRecording(t) ==
  /\ On(t, "ready")
  /\ tab' = [tab EXCEPT ![t].page = "recording", ![t].from = clock]
  /\ UNCHANGED <<clock, link, minted, objects, video>>

(* The recorder stops: by the button, which waits for minDur, by the timer   *)
(* at maxDur, or because the camera is gone.  Too short is not uploaded.     *)
StopRecording(t) ==
  /\ On(t, "recording")
  /\ LET elapsed == clock - tab[t].from IN
     tab' = [tab EXCEPT ![t].page = IF elapsed < MinDuration THEN "refused" ELSE "uploading",
                        ![t].duration = elapsed]
  /\ UNCHANGED <<clock, link, minted, objects, video>>

(* uploadToS3: the address is good for PutTtl; what fails is only reported.  *)
Upload(t) ==
  /\ On(t, "uploading")
  /\ \/ /\ clock <= minted[tab[t].key] + PutTtl
        /\ objects' = objects \union {tab[t].key}
        /\ Turn(t, "uploaded")
     \/ Turn(t, "refused") /\ UNCHANGED objects
  /\ UNCHANGED <<clock, link, minted, video>>

\* Mutant: the link is marked as soon as it was looked up.
CompleteMarks(t) ==
  /\ On(t, "uploaded")
  /\ Turn(t, IF LinkIsGood /\ WindowOpen THEN "checked" ELSE "refused")
  /\ link' = [link EXCEPT !.used = TRUE]
  /\ UNCHANGED <<clock, minted, objects, video>>
(* browser/complete: the link, the length, the window, and the object.       *)
Complete(t) ==
  /\ On(t, "uploaded")
  /\ Turn(t, IF /\ LinkIsGood /\ WindowOpen
                /\ tab[t].duration \in MinDuration..MaxDuration
                /\ tab[t].key \in objects
             THEN "checked" ELSE "refused")
  /\ UNCHANGED <<clock, link, minted, objects, video>>

(* The row is written without asking whether it has a video by now.          *)
Finalise(t) ==
  /\ On(t, "checked")
  /\ video' = [key |-> tab[t].key, duration |-> tab[t].duration, known |-> Len(minted)]
  /\ Turn(t, "stored")
  /\ UNCHANGED <<clock, link, minted, objects>>

MarkUsed(t) ==
  /\ On(t, "stored")
  /\ link' = [link EXCEPT !.used = TRUE]
  /\ Turn(t, "done")
  /\ UNCHANGED <<clock, minted, objects, video>>

(* The process dies between two statements of complete; the page shows an    *)
(* error, and the link stays unused if the video was already stored.         *)
ServerDies(t) ==
  /\ tab[t].page \in {"checked", "stored"}
  /\ Turn(t, "refused")
  /\ UNCHANGED <<clock, link, minted, objects, video>>

VideoNext ==
  \/ Submit \/ Pass \/ BrowserLink
  \/ \E t \in Tabs :
       \/ OpenPage(t) \/ Bootstrap(t) \/ StartRecording(t) \/ StopRecording(t) \/ Upload(t)
       \/ Complete(t) \/ Finalise(t) \/ MarkUsed(t) \/ ServerDies(t)

VideoSpec == VideoInit /\ [][VideoNext]_videoVars

----------------------------------------------------------------------------
(* Properties *)

VideoTypeOK ==
  /\ clock \in {BeforeSubmit} \union Nat
  /\ link \in [expires : Int, used : BOOLEAN]
  /\ minted \in Seq(Nat) /\ objects \subseteq 0..Len(minted)
  /\ video \in [key : 0..Len(minted), duration : Int, known : 0..Len(minted)]
  /\ tab \in [Tabs -> [page : Pages, key : 0..Len(minted), from : Int, duration : Int]]

(* A stored video gives way only to one whose page was let in before it was  *)
(* stored: nobody can begin another recording once there is a video.         *)
ReplacedOnlyByRacer ==
  [][video' # video /\ video # NoVideo => video'.key <= video.known]_videoVars

(* A link is used up only by a video that is in the row: at whatever         *)
(* statement the process dies, a candidate without a video keeps the link.   *)
UsedMeansStored == link.used => video # NoVideo
=============================================================================
