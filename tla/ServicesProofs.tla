--------------------------- MODULE ServicesProofs ---------------------------
(***************************************************************************)
(* Theorems about the services that keep a little state each: the rate     *)
(* limit, the file editor, the chat and the interview video, for every     *)
(* value of their limits and any number of attempts, editors, exchanges    *)
(* and tabs.                                                               *)
(***************************************************************************)
EXTENDS RateLimit, FileEditor, InterviewVideo, ChatProxy, SumOfSeqProofs, FiniteSetTheorems

\* One more element at most.
LEMMA AtMostOneMore ==
  ASSUME NEW S, IsFiniteSet(S), NEW x, NEW T, T \subseteq S \union {x}
  PROVE  /\ IsFiniteSet(T)
         /\ Cardinality(T) \in Nat /\ Cardinality(S) \in Nat
         /\ Cardinality(T) <= Cardinality(S) + 1
  <1>1. /\ IsFiniteSet(S \union {x}) /\ Cardinality(S) \in Nat
        /\ Cardinality(S \union {x}) \in Nat
        /\ Cardinality(S \union {x}) <= Cardinality(S) + 1
    BY FS_AddElement, FS_CardinalityType
  <1>2. IsFiniteSet(T) /\ Cardinality(T) <= Cardinality(S \union {x})
    BY <1>1, FS_Subset
  <1>3. Cardinality(T) \in Nat
    BY <1>2, FS_CardinalityType
  <1> QED BY <1>1, <1>2, <1>3

----------------------------------------------------------------------------
(* The rate limit.  What was dropped from the list is a whole window old, so *)
(* the attempts the code still counts are all that can share a window with   *)
(* the one it is asked about.                                                *)

DroppedAreOld == \A i \in DOMAIN admitted \ recent : admitted[i] + RateLimitWindow <= now

RateInv == RateTypeOK /\ DroppedAreOld /\ WindowIsBounded

InWindow(from) ==
  {i \in DOMAIN admitted : admitted[i] \in from..(from + RateLimitWindow - 1)}

LEMMA AdmittedFacts ==
  ASSUME RateTypeOK
  PROVE  /\ now \in Nat /\ Len(admitted) \in Nat /\ DOMAIN admitted = 1..Len(admitted)
         /\ \A i \in DOMAIN admitted : admitted[i] \in 0..now
         /\ IsFiniteSet(DOMAIN admitted)
  <1>1. /\ now \in Nat /\ Len(admitted) \in Nat /\ DOMAIN admitted = 1..Len(admitted)
        /\ \A i \in DOMAIN admitted : admitted[i] \in 0..now
    BY DEF RateTypeOK
  <1> QED BY <1>1, FS_Interval

LEMMA RateStart == RateInit => RateInv
  <1> SUFFICES ASSUME RateInit PROVE RateInv
    OBVIOUS
  <1>1. RateTypeOK /\ DOMAIN admitted = {}
    BY DEF RateInit, RateTypeOK
  <1>2. \A from : {i \in DOMAIN admitted : admitted[i] \in from..(from + RateLimitWindow - 1)} = {}
    BY <1>1
  <1>3. RateLimitMax \in Nat
    BY RateAssumption
  <1>4. WindowIsBounded
    BY <1>2, <1>3, FS_EmptySet DEF WindowIsBounded
  <1> QED BY <1>1, <1>4 DEF RateInv, DroppedAreOld

LEMMA RateWait == RateInv /\ Wait => RateInv'
  <1> SUFFICES ASSUME RateInv, Wait PROVE RateInv'
    OBVIOUS
  <1> USE RateAssumption
  <1>1. /\ now \in Nat /\ now' = now + 1 /\ admitted' = admitted /\ recent' = recent
        /\ admitted \in Seq(0..now)
    BY DEF RateInv, RateTypeOK, Wait
  <1>2. RateTypeOK'
    <2>1. \A i \in 1..Len(admitted) : admitted[i] \in 0..(now + 1)
      BY <1>1
    <2>2. admitted \in Seq(0..(now + 1))
      BY <1>1, <2>1
    <2> QED BY <1>1, <2>2 DEF RateInv, RateTypeOK
  <1>3. DroppedAreOld'
    BY <1>1, AdmittedFacts DEF RateInv, DroppedAreOld
  <1>4. WindowIsBounded'
    <2> SUFFICES ASSUME NEW from \in 0..(now + 1)
                 PROVE  Cardinality(InWindow(from)) <= RateLimitMax
      BY <1>1 DEF WindowIsBounded, InWindow
    <2>1. CASE from \in 0..now
      BY <2>1 DEF RateInv, WindowIsBounded, InWindow
    <2>2. CASE from = now + 1
      <3>1. InWindow(from) = {}
        BY <1>1, <2>2, AdmittedFacts DEF InWindow, RateInv
      <3> QED BY <3>1, FS_EmptySet
    <2> QED BY <1>1, <2>1, <2>2
  <1> QED BY <1>2, <1>3, <1>4 DEF RateInv

LEMMA RateCheck == RateInv /\ CheckRateLimit => RateInv'
  <1> SUFFICES ASSUME RateInv, CheckRateLimit PROVE RateInv'
    OBVIOUS
  <1> USE RateAssumption
  <1> DEFINE kept == {i \in recent : Within(admitted[i])}
             new == Len(admitted) + 1
  <1>1. RateTypeOK /\ DroppedAreOld /\ WindowIsBounded
    BY DEF RateInv
  <1>2. /\ now \in Nat /\ Len(admitted) \in Nat /\ DOMAIN admitted = 1..Len(admitted)
        /\ \A i \in DOMAIN admitted : admitted[i] \in 0..now
        /\ IsFiniteSet(DOMAIN admitted)
    BY <1>1, AdmittedFacts
  <1>3. now' = now /\ kept \subseteq recent /\ recent \subseteq DOMAIN admitted
    BY <1>1 DEF CheckRateLimit, RateTypeOK
  <1>4. \A i \in DOMAIN admitted \ kept : admitted[i] + RateLimitWindow <= now
    BY <1>1, <1>2 DEF DroppedAreOld, Within
  <1>5. IsFiniteSet(kept) /\ Cardinality(kept) \in Nat
    BY <1>2, <1>3, FS_Subset, FS_CardinalityType
  <1>6. CASE Cardinality(kept) >= RateLimitMax
    <2>1. recent' = kept /\ admitted' = admitted
      BY <1>6 DEF CheckRateLimit
    <2> QED BY <1>1, <1>3, <1>4, <2>1 DEF RateInv, RateTypeOK, DroppedAreOld, WindowIsBounded
  <1>7. CASE ~(Cardinality(kept) >= RateLimitMax)
    <2>1. recent' = kept \union {new} /\ admitted' = Append(admitted, now)
      BY <1>7 DEF CheckRateLimit
    <2>2. /\ admitted' \in Seq(0..now) /\ DOMAIN admitted' = DOMAIN admitted \union {new}
          /\ admitted'[new] = now /\ new \notin DOMAIN admitted
          /\ \A i \in DOMAIN admitted : admitted'[i] = admitted[i]
      BY <1>1, <1>2, <2>1 DEF RateTypeOK
    <2>3. RateTypeOK'
      BY <1>2, <1>3, <2>1, <2>2 DEF RateTypeOK
    <2>4. DroppedAreOld'
      BY <1>3, <1>4, <2>1, <2>2 DEF DroppedAreOld
    <2>5. ASSUME NEW from \in 0..now
          PROVE  Cardinality({i \in DOMAIN admitted' :
                                admitted'[i] \in from..(from + RateLimitWindow - 1)}) <= RateLimitMax
      <3> DEFINE window == {i \in DOMAIN admitted' :
                              admitted'[i] \in from..(from + RateLimitWindow - 1)}
      <3>1. CASE now \in from..(from + RateLimitWindow - 1)
        <4>1. window \ {new} \subseteq kept
          <5> SUFFICES ASSUME NEW i \in window, i # new
                       PROVE  i \in kept
            OBVIOUS
          <5>1. i \in DOMAIN admitted /\ admitted[i] >= from /\ admitted[i] \in Nat
            BY <1>2, <2>2
          <5>2. ~(admitted[i] + RateLimitWindow <= now)
            BY <1>2, <3>1, <5>1
          <5> QED BY <1>4, <5>1, <5>2
        <4>2. window \subseteq kept \union {new}
          BY <4>1
        <4>3. /\ Cardinality(window) \in Nat /\ Cardinality(kept) \in Nat
              /\ Cardinality(window) <= Cardinality(kept) + 1
          <5> HIDE DEF window, kept, new
          <5> QED BY <1>5, <4>2, AtMostOneMore
        <4> HIDE DEF kept, window
        <4>4. Cardinality(window) <= RateLimitMax
          BY <1>7, <4>3
        <4> QED BY <4>4 DEF window
      <3>2. CASE now \notin from..(from + RateLimitWindow - 1)
        <4>1. window = InWindow(from)
          BY <2>2, <3>2 DEF InWindow
        <4> QED BY <1>1, <4>1 DEF WindowIsBounded, InWindow
      <3> QED BY <3>1, <3>2
    <2>6. WindowIsBounded'
      BY <1>3, <2>5 DEF WindowIsBounded
    <2> QED BY <2>3, <2>4, <2>6 DEF RateInv
  <1> QED BY <1>6, <1>7

(* No stretch of time as long as the window has more attempts admitted than  *)
(* the limit, for every limit, window and spacing of attempts.               *)
THEOREM LimitHolds == RateSpec => []WindowIsBounded
  <1>1. RateInv /\ [RateNext]_rateVars => RateInv'
    <2>1. RateInv /\ UNCHANGED rateVars => RateInv'
      BY DEF RateInv, RateTypeOK, DroppedAreOld, WindowIsBounded, rateVars
    <2> QED BY <2>1, RateWait, RateCheck DEF RateNext
  <1>2. RateInv => WindowIsBounded
    BY DEF RateInv
  <1> QED BY <1>1, <1>2, RateStart, PTL DEF RateSpec

----------------------------------------------------------------------------
(* The file editor.  A save that is told of a conflict has read the file's   *)
(* sha twice; each time the file moved on before the write.                  *)

\* What the file has at least become, by where the save is.
SaveLags(e) ==
  /\ page[e].at = "branch" => page[e].tries = 0 /\ page[e].since <= blob
  /\ page[e].at = "read" => page[e].tries \in {0, 1} /\ page[e].since + page[e].tries <= blob
  /\ page[e].at = "put" => /\ page[e].tries \in {0, 1}
                          /\ page[e].since + page[e].tries <= page[e].live
                          /\ page[e].live <= blob
  /\ page[e].at = "conflict" => page[e].since + 2 <= blob
  /\ page[e].at = "open" => page[e].tries = 0

\* What is kept of one editor's page.
PageRecord == [at : Where, seen : Nat, live : Nat, tries : 0..2, since : Nat]

EditorInv == EditorTypeOK /\ \A e \in Editors : SaveLags(e)

LEMMA EditorStart == EditorInit => EditorInv
  <1> SUFFICES ASSUME EditorInit PROVE EditorInv
    OBVIOUS
  <1>1. /\ variant = FALSE /\ blob = 0 /\ blob \in 0..MaxTexts
        /\ page = [e \in Editors |-> NewPage]
    BY EditorAssumption DEF EditorInit
  <1>2. NewPage \in PageRecord
    BY DEF NewPage, Where, PageRecord
  <1>3. EditorTypeOK
    BY <1>1, <1>2 DEF EditorTypeOK, PageRecord
  <1>4. \A e \in Editors : page[e].at = "closed"
    BY <1>1 DEF NewPage
  <1> QED BY <1>1, <1>3, <1>4 DEF EditorInv, SaveLags

\* A step turns one page; what lags behind on the others still does.
LEMMA OtherPages ==
  ASSUME EditorInv, NEW e \in Editors, NEW new,
         new \in PageRecord,
         page' = [page EXCEPT ![e] = new],
         variant' \in BOOLEAN, blob' \in 0..MaxTexts, blob <= blob', SaveLags(e)'
  PROVE  EditorInv'
  <1>1. EditorTypeOK'
    BY DEF EditorInv, EditorTypeOK, PageRecord
  <1>2. ASSUME NEW f \in Editors, f # e
        PROVE  page'[f] = page[f] /\ SaveLags(f)'
    <2>1. /\ page'[f] = page[f] /\ SaveLags(f) /\ blob \in Nat /\ blob' \in Nat
          /\ page[f].since \in Nat /\ page[f].live \in Nat /\ page[f].tries \in Nat
      BY <1>2, EditorAssumption DEF EditorInv, EditorTypeOK
    <2> QED BY <2>1 DEF SaveLags
  <1> QED BY <1>1, <1>2 DEF EditorInv

LEMMA EditorStep ==
  ASSUME EditorInv, NEW e \in Editors,
         OpenFile(e) \/ Save(e) \/ CutVariant(e) \/ ReadSha(e) \/ Put(e) \/ GitHubFails(e)
  PROVE  EditorInv'
  <1>1. /\ blob \in Nat /\ blob \in 0..MaxTexts /\ MaxTexts \in Nat /\ variant \in BOOLEAN
        /\ page \in [Editors -> PageRecord] /\ page[e] \in PageRecord /\ SaveLags(e)
        /\ page[e].since \in Nat /\ page[e].live \in Nat /\ page[e].tries \in 0..2
    BY EditorAssumption DEF EditorInv, EditorTypeOK, PageRecord
  <1>2. CASE OpenFile(e)
    <2> DEFINE new == [NewPage EXCEPT !.at = "open", !.seen = blob]
    <2>1. NewPage \in PageRecord /\ NewPage.tries = 0
      BY DEF NewPage, Where, PageRecord
    <2>3. page' = [page EXCEPT ![e] = new] /\ UNCHANGED <<variant, blob>>
      BY <1>2 DEF OpenFile
    <2>4. new \in PageRecord /\ new.at = "open" /\ new.tries = 0
      BY <1>1, <2>1 DEF Where, PageRecord
    <2>5. page'[e] = new
      BY <1>1, <2>3
    <2>2. SaveLags(e)'
      BY <2>4, <2>5 DEF SaveLags
    <2> HIDE DEF new
    <2>7. /\ page' = [page EXCEPT ![e] = new] /\ new \in PageRecord /\ SaveLags(e)'
          /\ variant' \in BOOLEAN /\ blob' \in 0..MaxTexts /\ blob <= blob'
      BY <1>1, <2>2, <2>3, <2>4
    <2> QED BY <2>7, OtherPages
  <1>3. CASE Save(e)
    <2> DEFINE new == [page[e] EXCEPT !.at = "branch", !.since = blob]
    <2>1. /\ page' = [page EXCEPT ![e] = new] /\ UNCHANGED <<variant, blob>>
          /\ new \in PageRecord /\ new.at = "branch" /\ new.since = blob /\ new.tries = 0
          /\ page'[e] = new
      BY <1>1, <1>3 DEF Save, In, SaveLags, Where, PageRecord
    <2>2. SaveLags(e)'
      BY <1>1, <2>1 DEF SaveLags
    <2> HIDE DEF new
    <2>7. /\ page' = [page EXCEPT ![e] = new] /\ new \in PageRecord /\ SaveLags(e)'
          /\ variant' \in BOOLEAN /\ blob' \in 0..MaxTexts /\ blob <= blob'
      BY <1>1, <2>1, <2>2
    <2> QED BY <2>7, OtherPages
  <1>4. CASE CutVariant(e)
    <2> DEFINE new == [page[e] EXCEPT !.at = "read"]
    <2>1. /\ page' = [page EXCEPT ![e] = new] /\ blob' = blob /\ variant' = TRUE
          /\ new \in PageRecord /\ new.at = "read" /\ new.since = page[e].since /\ new.tries = page[e].tries
          /\ page'[e] = new /\ page[e].at = "branch"
      BY <1>1, <1>4 DEF CutVariant, In, To, Where, PageRecord
    <2>2. SaveLags(e)'
      BY <1>1, <2>1 DEF SaveLags
    <2> HIDE DEF new
    <2>7. /\ page' = [page EXCEPT ![e] = new] /\ new \in PageRecord /\ SaveLags(e)'
          /\ variant' \in BOOLEAN /\ blob' \in 0..MaxTexts /\ blob <= blob'
      BY <1>1, <2>1, <2>2
    <2> QED BY <2>7, OtherPages
  <1>5. CASE ReadSha(e)
    <2> DEFINE new == [page[e] EXCEPT !.at = "put", !.live = blob]
    <2>1. /\ page' = [page EXCEPT ![e] = new] /\ UNCHANGED <<variant, blob>>
          /\ new \in PageRecord /\ new.at = "put" /\ new.since = page[e].since
          /\ new.tries = page[e].tries /\ new.live = blob
          /\ page'[e] = new /\ page[e].at = "read"
      BY <1>1, <1>5 DEF ReadSha, In, Where, PageRecord
    <2>2. SaveLags(e)'
      BY <1>1, <2>1 DEF SaveLags
    <2> HIDE DEF new
    <2>7. /\ page' = [page EXCEPT ![e] = new] /\ new \in PageRecord /\ SaveLags(e)'
          /\ variant' \in BOOLEAN /\ blob' \in 0..MaxTexts /\ blob <= blob'
      BY <1>1, <2>1, <2>2
    <2> QED BY <2>7, OtherPages
  <1>6. CASE Put(e)
    <2>1. CASE page[e].live = blob
      <3> DEFINE new == [page[e] EXCEPT !.at = "saved"]
      <3>1. /\ page' = [page EXCEPT ![e] = new] /\ blob' = blob + 1 /\ blob' \in 0..MaxTexts
            /\ variant' = variant /\ new \in PageRecord /\ new.at = "saved" /\ page'[e] = new
            /\ page[e].at = "put"
        BY <1>1, <1>6, <2>1 DEF Put, In, To, Where, PageRecord
      <3>2. SaveLags(e)'
        BY <3>1 DEF SaveLags
      <3> HIDE DEF new
      <3>7. /\ page' = [page EXCEPT ![e] = new] /\ new \in PageRecord /\ SaveLags(e)'
            /\ variant' \in BOOLEAN /\ blob' \in 0..MaxTexts /\ blob <= blob'
        BY <1>1, <3>1, <3>2
      <3> QED BY <3>7, OtherPages
    <2>2. CASE page[e].live # blob
      <3> DEFINE new == [page[e] EXCEPT !.tries = @ + 1,
                                        !.at = IF page[e].tries = 0 THEN "read" ELSE "conflict"]
      <3>1. /\ page[e].at = "put" /\ page[e].tries \in {0, 1}
            /\ page[e].since + page[e].tries < blob
        BY <1>1, <1>6, <2>2 DEF Put, In, SaveLags
      <3>2. page' = [page EXCEPT ![e] = new] /\ UNCHANGED <<variant, blob>>
        BY <1>1, <1>6, <2>2 DEF Put
      <3>3. /\ new \in PageRecord /\ new.since = page[e].since /\ new.tries = page[e].tries + 1
            /\ new.at = IF page[e].tries = 0 THEN "read" ELSE "conflict"
        <4> DEFINE tries == page[e].tries + 1
                   next == IF page[e].tries = 0 THEN "read" ELSE "conflict"
        <4>1. tries \in 0..2 /\ next \in Where
          BY <3>1 DEF Where, PageRecord
        <4>2. new = [page[e] EXCEPT !.tries = tries, !.at = next]
          OBVIOUS
        <4> HIDE DEF new, tries, next
        <4>3. new \in PageRecord /\ new.since = page[e].since /\ new.tries = tries /\ new.at = next
          BY <1>1, <4>1, <4>2 DEF PageRecord
        <4> QED BY <4>3 DEF tries, next
      <3>4. page'[e] = new
        BY <1>1, <3>2
      <3>5. SaveLags(e)'
        <4> HIDE DEF new
        <4> QED BY <1>1, <3>1, <3>2, <3>3, <3>4 DEF SaveLags
      <3> HIDE DEF new
      <3>7. /\ page' = [page EXCEPT ![e] = new] /\ new \in PageRecord /\ SaveLags(e)'
            /\ variant' \in BOOLEAN /\ blob' \in 0..MaxTexts /\ blob <= blob'
        BY <1>1, <3>1, <3>2, <3>3, <3>5
      <3> QED BY <3>7, OtherPages
    <2> QED BY <2>1, <2>2
  <1>7. CASE GitHubFails(e)
    <2> DEFINE new == [page[e] EXCEPT !.at = "failed"]
    <2>1. /\ page' = [page EXCEPT ![e] = new] /\ variant' = variant
          /\ new \in PageRecord /\ new.at = "failed" /\ page'[e] = new
      BY <1>1, <1>7 DEF GitHubFails, To, Where, PageRecord
    <2>2. blob' \in 0..MaxTexts /\ blob <= blob'
      BY <1>1, <1>7 DEF GitHubFails, In
    <2>3. SaveLags(e)'
      BY <2>1 DEF SaveLags
    <2> HIDE DEF new
    <2>7. /\ page' = [page EXCEPT ![e] = new] /\ new \in PageRecord /\ SaveLags(e)'
          /\ variant' \in BOOLEAN /\ blob' \in 0..MaxTexts /\ blob <= blob'
      BY <1>1, <2>1, <2>2, <2>3
    <2> QED BY <2>7, OtherPages
  <1> QED BY <1>2, <1>3, <1>4, <1>5, <1>6, <1>7

LEMMA EditorInvariant == EditorSpec => []EditorInv
  <1>1. EditorInv /\ [EditorNext]_editorVars => EditorInv'
    <2>1. EditorInv /\ UNCHANGED editorVars => EditorInv'
      BY DEF EditorInv, EditorTypeOK, SaveLags, editorVars
    <2> QED BY <2>1, EditorStep DEF EditorNext
  <1> QED BY <1>1, EditorStart, PTL DEF EditorSpec

(* A recruiter is told of a conflict only when others wrote the file twice   *)
(* meanwhile, for any number of recruiters and texts.                        *)
THEOREM OneWriterIsAbsorbed == EditorSpec => []ConflictMeansTwoWrites
  <1>1. EditorInv => ConflictMeansTwoWrites
    BY DEF EditorInv, EditorTypeOK, SaveLags, ConflictMeansTwoWrites, In
  <1> QED BY <1>1, EditorInvariant, PTL

----------------------------------------------------------------------------
(* The chat and its bill.  The ledger is a sum over the rows and a sum over  *)
(* the requests; a step changes one place of the second, and Insert moves an *)
(* amount from there to the end of the first.                                *)

PaidAt(g) ==
  CASE g.stage = "paid" -> Bill(g)
    [] g.stage = "lost" -> g.paid
    [] OTHER -> 0
Unlisted == [r \in Requests |-> Paid(r)]
HasAnswer(g) == g.stage \in {"closing", "differed", "paid", "lost"}

ChatInv == ChatTypeOK /\ LedgerAgrees

\* What is counted for the candidate is not the server's own.
Charged(g) ==
  g.stage \in {"differed", "paid"} => g.unmeasured \/ g.candidate <= g.prompt - ServerPrompt

\* Only the request r moves.
Moves(r) ==
  /\ gen' \in [Requests -> RequestStates]
  /\ \A q \in Requests \ {r} : gen'[q] = gen[q]
BilledNext(q) ==
  q \in {exchanges'[i].request : i \in DOMAIN exchanges'} \/ HasAnswer(gen'[q])
\* What the view shows after the step it showed before, or is the answer to r.
ShowsOnly(r) ==
  \A i \in DOMAIN view.messages' :
    view.messages'[i].role = "assistant" =>
      \/ view.messages'[i].request = r /\ HasAnswer(gen'[r])
      \/ \E j \in DOMAIN view.messages : view.messages'[i] = view.messages[j]

LEMMA RequestFacts ==
  ASSUME NEW g \in RequestStates
  PROVE  /\ g.stage \in {"sent", "authed", "streaming", "closing", "differed", "paid"} =>
              g.model \in ChatModels /\ g.prompt \in Prompts
         /\ g.stage = "streaming" => g.remaining \in Nat /\ g.counted \in Nat /\ g.out \in Nat
         /\ g.stage \in {"closing", "differed", "paid"} => g.cached \in Nat /\ g.completion \in Nat
         /\ g.stage \in {"differed", "paid"} => g.candidate \in Nat /\ g.unmeasured \in BOOLEAN
         /\ g.stage = "lost" => g.paid \in Nat
  BY DEF RequestStates

LEMMA PromptFacts ==
  ASSUME NEW n \in Prompts
  PROVE  n \in Nat /\ n >= ServerPrompt /\ ServerPrompt \in Nat
  BY ChatAssumption DEF Prompts, ServerPrompt

LEMMA ProductOfNaturals ==
  ASSUME NEW a \in Nat, NEW b \in Nat
  PROVE  a * b \in Nat
  OBVIOUS

LEMMA BillIsCost ==
  ASSUME NEW g, g.model \in ChatModels, g.prompt \in Prompts, g.cached \in Nat, g.completion \in Nat
  PROVE  Bill(g) \in Nat
  <1>1. /\ Rates[g.model].input \in Nat /\ Rates[g.model].cached_input \in Nat
        /\ Rates[g.model].output \in Nat
    <2>1. Rates[g.model] \in [input : Nat, cached_input : Nat, output : Nat]
      BY ChatAssumption
    <2> QED BY <2>1
  <1>2. NonNegative(g.prompt - g.cached) \in Nat
    BY PromptFacts DEF NonNegative
  <1>3. /\ NonNegative(g.prompt - g.cached) * Rates[g.model].input \in Nat
        /\ g.cached * Rates[g.model].cached_input \in Nat
        /\ g.completion * Rates[g.model].output \in Nat
    BY <1>1, <1>2, ProductOfNaturals
  <1> QED BY <1>3 DEF Bill, ComputeCost

LEMMA PaidFacts ==
  ASSUME ChatTypeOK
  PROVE  /\ \A r \in Requests : Paid(r) = PaidAt(gen[r])
         /\ \A g \in RequestStates : PaidAt(g) \in Nat
         /\ Unlisted \in Seq(Nat) /\ DOMAIN Unlisted = Requests
         /\ Len(Unlisted) = MaxRequests
  <1>1. \A r \in Requests : Paid(r) = PaidAt(gen[r])
    BY DEF Paid, PaidAt, At
  <1>2. ASSUME NEW g \in RequestStates PROVE PaidAt(g) \in Nat
    <2>1. CASE g.stage = "paid"
      BY <2>1, RequestFacts, BillIsCost DEF PaidAt
    <2>2. CASE g.stage = "lost"
      BY <2>2, RequestFacts DEF PaidAt
    <2>3. CASE g.stage # "paid" /\ g.stage # "lost"
      BY <2>3 DEF PaidAt
    <2> QED BY <2>1, <2>2, <2>3
  <1>3. \A r \in Requests : Paid(r) \in Nat
    BY <1>1, <1>2 DEF ChatTypeOK
  <1>4. MaxRequests \in Nat
    BY ChatAssumption
  <1> QED BY <1>1, <1>2, <1>3, <1>4 DEF Unlisted, Requests

\* What the step of one request does to the sum over the requests.
LEMMA OneMoves ==
  ASSUME ChatTypeOK, NEW r \in Requests, Moves(r)
  PROVE  SumOf(Unlisted)' = SumOf(Unlisted) - PaidAt(gen[r]) + PaidAt(gen'[r])
  <1> DEFINE x == PaidAt(gen'[r])
  <1>1. gen[r] \in RequestStates /\ gen'[r] \in RequestStates
    BY DEF Moves, ChatTypeOK
  <1>2. x \in Int /\ PaidAt(gen[r]) \in Int /\ Unlisted[r] = PaidAt(gen[r])
    BY <1>1, PaidFacts DEF Unlisted
  <1>3. ASSUME NEW q \in Requests
        PROVE  Paid(q)' = IF q = r THEN x ELSE Paid(q)
    BY PaidFacts DEF Moves, Paid, PaidAt, At
  <1>4. Unlisted' = [Unlisted EXCEPT ![r] = x]
    BY <1>3 DEF Unlisted
  <1> HIDE DEF x
  <1>5. SumOf([Unlisted EXCEPT ![r] = x]) = SumOf(Unlisted) - Unlisted[r] + x
    <2>1. Unlisted \in Seq(Int) /\ r \in DOMAIN Unlisted
      BY PaidFacts
    <2> QED BY <1>2, <2>1, SumOfExcept
  <1>6. SumOf(Unlisted)' = SumOf([Unlisted EXCEPT ![r] = x])
    BY <1>4
  <1> QED BY <1>2, <1>5, <1>6 DEF x

\* Nothing new is shown.
ShowsOld ==
  \A i \in DOMAIN view.messages' :
    \E j \in DOMAIN view.messages : view.messages'[i] = view.messages[j]

LEMMA FailFacts ==
  ASSUME ChatTypeOK, NEW r, NEW flag, Fail(r, flag)
  PROVE  view' \in ViewStates /\ ShowsOld
  <1>1. view \in ViewStates /\ view.messages \in Seq(Message)
    BY DEF ChatTypeOK, ViewStates
  <1>2. CASE view.waiting # r
    BY <1>1, <1>2 DEF Fail, ShowsOld
  <1>3. CASE view.waiting = r
    <2> DEFINE ms == view.messages
    <2>1. /\ Front(ms) \in Seq(Message)
          /\ \A i \in DOMAIN Front(ms) : i \in DOMAIN ms /\ Front(ms)[i] = ms[i]
      BY <1>1 DEF Front
    <2>2. /\ (view.ended \/ flag = "ended") \in BOOLEAN
          /\ (view.exhausted \/ flag = "exhausted") \in BOOLEAN
      OBVIOUS
    <2>3. view' = [view EXCEPT !.messages = TakeBack, !.waiting = Nobody,
                     !.ended = @ \/ flag = "ended", !.exhausted = @ \/ flag = "exhausted"]
      BY <1>3 DEF Fail
    <2>4. TakeBack = Front(ms)
      BY DEF TakeBack
    <2>5. view' \in ViewStates /\ view'.messages = Front(ms)
      BY <1>1, <2>1, <2>2, <2>3, <2>4 DEF ViewStates
    <2> QED BY <2>1, <2>5 DEF ShowsOld
  <1> QED BY <1>2, <1>3

\* A request may move without a change to the ledger.
LEMMA QuietMove ==
  ASSUME ChatInv, NEW r \in Requests, Moves(r), UNCHANGED <<open, spent, exchanges>>,
         PaidAt(gen'[r]) = PaidAt(gen[r]), HasAnswer(gen[r]) => HasAnswer(gen'[r]),
         view' \in ViewStates, ShowsOnly(r)
  PROVE  ChatInv'
  <1>1. ChatTypeOK /\ ChatTypeOK'
    BY DEF ChatInv, ChatTypeOK, Moves
  <1>3. RowsCost' = RowsCost
    BY DEF RowsCost
  <1>4. SumOf(Unlisted)' = SumOf(Unlisted)
    <2>1. SumOf(Unlisted) \in Int /\ PaidAt(gen[r]) \in Int
      <3>1. gen[r] \in RequestStates
        BY <1>1 DEF ChatTypeOK
      <3> QED BY <1>1, <3>1, PaidFacts, SumOfNaturals
    <2>2. SumOf(Unlisted)' = SumOf(Unlisted) - PaidAt(gen[r]) + PaidAt(gen[r])
      BY <1>1, OneMoves
    <2> QED BY <2>1, <2>2
  <1>5. spent' = RowsCost' + SumOf(Unlisted)'
    BY <1>3, <1>4 DEF ChatInv, LedgerAgrees, Unlisted
  <1>6. ASSUME NEW q \in Requests, IsBilled(q) PROVE BilledNext(q)
    BY <1>6 DEF IsBilled, Recorded, Answered, At, Moves, BilledNext, HasAnswer
  <1>7. ASSUME NEW i \in DOMAIN view.messages', view.messages'[i].role = "assistant"
        PROVE  BilledNext(view.messages'[i].request)
    <2>1. CASE view.messages'[i].request = r /\ HasAnswer(gen'[r])
      BY <2>1 DEF BilledNext
    <2>2. CASE \E j \in DOMAIN view.messages : view.messages'[i] = view.messages[j]
      <3>1. PICK j \in DOMAIN view.messages : view.messages'[i] = view.messages[j]
        BY <2>2
      <3>2. IsBilled(view.messages[j].request)
        BY <1>7, <3>1 DEF ChatInv, LedgerAgrees
      <3>3. view.messages[j] \in Message
        <4>1. view.messages \in Seq(Message)
          BY <1>1 DEF ChatTypeOK, ViewStates
        <4> QED BY <4>1, <3>1
      <3>4. view.messages[j].request \in Requests
        BY <3>3 DEF Message
      <3> QED BY <1>6, <3>1, <3>2, <3>4
    <2> QED BY <1>7, <2>1, <2>2 DEF ShowsOnly
  <1>8. LedgerAgrees'
    BY <1>5, <1>7 DEF LedgerAgrees, Unlisted, IsBilled, Recorded, Answered, At, BilledNext, HasAnswer
  <1> QED BY <1>1, <1>8 DEF ChatInv

\* So may all of them at once.
LEMMA AllMove ==
  ASSUME ChatInv, UNCHANGED <<spent, exchanges>>, open' \in BOOLEAN,
         gen' \in [Requests -> RequestStates],
         \A q \in Requests : PaidAt(gen'[q]) = PaidAt(gen[q]),
         \A q \in Requests : HasAnswer(gen[q]) => HasAnswer(gen'[q]),
         view' \in ViewStates, ShowsOld
  PROVE  ChatInv'
  <1>1. ChatTypeOK /\ ChatTypeOK'
    BY DEF ChatInv, ChatTypeOK
  <1>2. RowsCost' = RowsCost
    BY DEF RowsCost
  <1>3. \A q \in Requests : Paid(q)' = Paid(q)
    BY DEF Paid, PaidAt, At
  <1>4. [q \in Requests |-> Paid(q)'] = [q \in Requests |-> Paid(q)]
    BY <1>3
  <1>5. (spent = RowsCost + SumOf([q \in Requests |-> Paid(q)]))'
    BY <1>2, <1>4 DEF ChatInv, LedgerAgrees
  <1>6. ASSUME NEW q \in Requests, IsBilled(q) PROVE BilledNext(q)
    BY <1>6 DEF IsBilled, Recorded, Answered, At, BilledNext, HasAnswer
  <1>7. ASSUME NEW i \in DOMAIN view.messages', view.messages'[i].role = "assistant"
        PROVE  BilledNext(view.messages'[i].request)
    <2>1. PICK j \in DOMAIN view.messages : view.messages'[i] = view.messages[j]
      BY DEF ShowsOld
    <2>2. view.messages \in Seq(Message)
      BY <1>1 DEF ChatTypeOK, ViewStates
    <2>3. view.messages[j] \in Message
      BY <2>1, <2>2
    <2>4. view.messages[j].request \in Requests
      BY <2>3 DEF Message
    <2>5. IsBilled(view.messages[j].request)
      BY <1>7, <2>1 DEF ChatInv, LedgerAgrees
    <2> QED BY <1>6, <2>1, <2>4, <2>5
  <1>8. LedgerAgrees'
    BY <1>5, <1>7 DEF LedgerAgrees, IsBilled, Recorded, Answered, At, BilledNext, HasAnswer
  <1> QED BY <1>1, <1>8 DEF ChatInv

\* So may the view alone.
LEMMA ViewMoves ==
  ASSUME ChatInv, UNCHANGED <<spent, exchanges, gen>>, open' \in BOOLEAN,
         view' \in ViewStates, ShowsOld
  PROVE  ChatInv'
  <1>1. gen' \in [Requests -> RequestStates]
    BY DEF ChatInv, ChatTypeOK
  <1> QED BY <1>1, AllMove

LEMMA ShownIsTyped ==
  ASSUME ChatTypeOK
  PROVE  /\ gen \in [Requests -> RequestStates] /\ view \in ViewStates
         /\ view.messages \in Seq(Message) /\ view.ended \in BOOLEAN /\ view.exhausted \in BOOLEAN
         /\ view.reloads \in Nat
         /\ view.waiting \in Requests \union {Nobody} /\ spent \in Nat /\ exchanges \in Seq(Exchange)
         /\ Size(view.messages) \in Nat
  <1>1. /\ gen \in [Requests -> RequestStates] /\ view \in ViewStates
        /\ spent \in Nat /\ exchanges \in Seq(Exchange)
    BY DEF ChatTypeOK
  <1>2. /\ view.messages \in Seq(Message) /\ view.ended \in BOOLEAN /\ view.exhausted \in BOOLEAN
        /\ view.reloads \in Nat /\ view.waiting \in Requests \union {Nobody}
    BY <1>1 DEF ViewStates
  <1>3. [i \in DOMAIN view.messages |-> view.messages[i].size] \in Seq(Nat)
    <2>1. \A i \in DOMAIN view.messages : view.messages[i].size \in Nat
      <3> SUFFICES ASSUME NEW i \in DOMAIN view.messages PROVE view.messages[i].size \in Nat
        OBVIOUS
      <3>1. view.messages[i] \in Message
        BY <1>2
      <3> QED BY <3>1 DEF Message
    <2> QED BY <1>2, <2>1
  <1>4. Size(view.messages) \in Nat
    BY <1>3, SumOfNaturals DEF Size
  <1> QED BY <1>1, <1>2, <1>4

\* What is in a sequence to which something was appended.
LEMMA LongerByOne ==
  ASSUME NEW S, NEW s \in Seq(S), NEW x \in S
  PROVE  /\ Append(s, x) \in Seq(S)
         /\ \A i \in DOMAIN Append(s, x) :
              \/ Append(s, x)[i] = x
              \/ \E j \in DOMAIN s : Append(s, x)[i] = s[j]
  OBVIOUS

LEMMA OldIsOnly ==
  ASSUME ShowsOld, NEW r
  PROVE  ShowsOnly(r)
  BY DEF ShowsOld, ShowsOnly

LEMMA SameIsOld ==
  ASSUME ChatTypeOK, view' = view
  PROVE  view' \in ViewStates /\ ShowsOld
  BY DEF ChatTypeOK, ShowsOld

LEMMA EndFacts ==
  ASSUME ChatTypeOK, NEW r \in Requests, End(r)
  PROVE  Moves(r) /\ gen'[r] = Over /\ PaidAt(gen'[r]) = 0
  BY DEF End, Over, Moves, ChatTypeOK, RequestStates, PaidAt

LEMMA ChatStart == ChatInit => ChatInv
  <1> SUFFICES ASSUME ChatInit PROVE ChatInv
    OBVIOUS
  <1>1. ChatTypeOK
    BY ChatAssumption DEF ChatInit, ChatTypeOK, ViewInit, ViewStates, Idle, RequestStates, Nobody
  <1>3. RowsCost = 0
    <2>1. [i \in DOMAIN exchanges |-> exchanges[i].cost] = << >>
      BY DEF ChatInit
    <2> QED BY <2>1, SumOfNothing DEF RowsCost
  <1>4. SumOf(Unlisted) = 0
    <2>1. \A r \in Requests : Unlisted[r] = 0
      BY DEF ChatInit, Unlisted, Paid, At, Idle
    <2>2. Unlisted \in Seq(Int) /\ DOMAIN Unlisted = Requests
      BY <1>1, PaidFacts
    <2> QED BY <2>1, <2>2, SumOfZeros
  <1>5. \A i \in DOMAIN view.messages : FALSE
    BY DEF ChatInit, ViewInit
  <1> QED BY <1>1, <1>3, <1>4, <1>5 DEF ChatInv, LedgerAgrees, ChatInit, Unlisted

LEMMA SendKeeps == ChatInv /\ Send => ChatInv'
  <1> SUFFICES ASSUME ChatInv, Send PROVE ChatInv'
    OBVIOUS
  <1>1. ChatTypeOK
    BY DEF ChatInv
  <1>2. PICK r \in Requests, m \in ChatModels :
          /\ At(r, "none")
          /\ view' = [view EXCEPT !.messages = Append(@, Said("user", r, 1)), !.waiting = r]
          /\ gen' = [gen EXCEPT ![r] =
               [stage |-> "sent", model |-> m,
                prompt |-> ServerPrompt + ClientPrompt + Size(view.messages) + 1]]
    BY DEF Send
  <1> DEFINE g == [stage |-> "sent", model |-> m,
                   prompt |-> ServerPrompt + ClientPrompt + Size(view.messages) + 1]
  <1>3. g \in RequestStates /\ PaidAt(g) = 0
    <2>1. ServerPrompt + ClientPrompt + Size(view.messages) + 1 \in Prompts
      <3>1. ServerPrompt \in Nat /\ ClientPrompt \in Nat
        BY ChatAssumption DEF ServerPrompt
      <3> QED BY <1>1, <3>1, ShownIsTyped DEF Prompts
    <2> QED BY <2>1 DEF RequestStates, PaidAt
  <1>4. Moves(r) /\ gen'[r] = g
    BY <1>1, <1>2, <1>3 DEF Moves, ChatTypeOK
  <1>5. PaidAt(gen[r]) = 0 /\ ~HasAnswer(gen[r])
    BY <1>2 DEF At, PaidAt, HasAnswer
  <1> DEFINE ms == Append(view.messages, Said("user", r, 1))
  <1>6. Said("user", r, 1) \in Message
    BY DEF Said, Message
  <1>7. /\ ms \in Seq(Message)
        /\ \A i \in DOMAIN ms :
             \/ ms[i] = Said("user", r, 1)
             \/ \E j \in DOMAIN view.messages : ms[i] = view.messages[j]
    <2>1. view.messages \in Seq(Message)
      BY <1>1, ShownIsTyped
    <2> QED BY <1>6, <2>1, LongerByOne
  <1>8. view' \in ViewStates /\ view'.messages = ms
    BY <1>1, <1>2, <1>7, ShownIsTyped DEF ViewStates
  <1>9. ShowsOnly(r)
    BY <1>7, <1>8 DEF ShowsOnly, Said
  <1> HIDE DEF g, ms
  <1> QED BY <1>3, <1>4, <1>5, <1>8, <1>9, QuietMove DEF Send

LEMMA ViewStepsKeep ==
  ChatInv /\ (ChangeModel \/ StreamTimeout \/ Reload \/ EndInterview) => ChatInv'
  <1> SUFFICES ASSUME ChatInv, ChangeModel \/ StreamTimeout \/ Reload \/ EndInterview PROVE ChatInv'
    OBVIOUS
  <1>1. ChatTypeOK /\ open \in BOOLEAN
    BY DEF ChatInv, ChatTypeOK
  <1>2. CASE ChangeModel
    <2>1. view' = [view EXCEPT !.exhausted = FALSE]
      BY <1>2 DEF ChangeModel
    <2>2. view' \in ViewStates /\ view'.messages = view.messages
      BY <1>1, <2>1, ShownIsTyped DEF ViewStates
    <2>3. ShowsOld
      BY <2>2 DEF ShowsOld
    <2> QED BY <1>1, <1>2, <2>2, <2>3, ViewMoves DEF ChangeModel
  <1>3. CASE StreamTimeout
    <2>1. view' \in ViewStates /\ ShowsOld
      BY <1>1, <1>3, FailFacts DEF StreamTimeout
    <2> QED BY <1>1, <1>3, <2>1, ViewMoves DEF StreamTimeout
  <1>4. CASE Reload
    <2>1. view' = ViewInit(view.reloads + 1) /\ view.reloads + 1 \in Nat
      BY <1>1, <1>4, ShownIsTyped DEF Reload
    <2>2. view' \in ViewStates /\ view'.messages = << >>
      BY <2>1 DEF ViewStates, ViewInit, Nobody
    <2>3. ShowsOld
      BY <2>2 DEF ShowsOld
    <2> QED BY <1>1, <1>4, <2>2, <2>3, ViewMoves DEF Reload
  <1>5. CASE EndInterview
    <2>1. PICK told \in BOOLEAN : view' = [view EXCEPT !.ended = @ \/ told]
      BY <1>5 DEF EndInterview
    <2>2. (view.ended \/ told) \in BOOLEAN
      OBVIOUS
    <2>3. view' \in ViewStates /\ view'.messages = view.messages
      BY <1>1, <2>1, <2>2, ShownIsTyped DEF ViewStates
    <2>4. ShowsOld
      BY <2>3 DEF ShowsOld
    <2>5. open' \in BOOLEAN
      BY <1>5 DEF EndInterview
    <2> QED BY <1>5, <2>3, <2>4, <2>5, ViewMoves DEF EndInterview
  <1> QED BY <1>2, <1>3, <1>4, <1>5

\* A request that is not answered yet may get somewhere, or nowhere.
LEMMA EarlyMove ==
  ASSUME ChatInv, NEW r \in Requests, NEW g \in RequestStates, gen' = [gen EXCEPT ![r] = g],
         ~HasAnswer(gen[r]), g.stage \notin {"paid", "lost"},
         UNCHANGED <<open, spent, exchanges>>, view' \in ViewStates, ShowsOld
  PROVE  ChatInv'
  <1>1. Moves(r) /\ gen'[r] = g
    BY DEF Moves, ChatInv, ChatTypeOK
  <1>2. PaidAt(gen[r]) = 0 /\ PaidAt(g) = 0
    BY DEF HasAnswer, PaidAt
  <1>3. ShowsOnly(r)
    BY OldIsOnly
  <1> QED BY <1>1, <1>2, <1>3, QuietMove

LEMMA EarlyEnd ==
  ASSUME ChatInv, NEW r \in Requests, End(r), ~HasAnswer(gen[r]),
         UNCHANGED <<open, spent, exchanges>>, view' \in ViewStates, ShowsOld
  PROVE  ChatInv'
  <1>1. Over \in RequestStates /\ Over.stage \notin {"paid", "lost"}
    BY DEF Over, RequestStates
  <1>2. gen' = [gen EXCEPT ![r] = Over]
    BY DEF End
  <1> QED BY <1>1, <1>2, EarlyMove

LEMMA AdmissionKeeps ==
  ASSUME ChatInv, NEW r \in Requests, CheckStatus(r) \/ CheckBudget(r)
  PROVE  ChatInv'
  <1>1. ChatTypeOK /\ gen[r] \in RequestStates /\ gen \in [Requests -> RequestStates]
    BY DEF ChatInv, ChatTypeOK
  <1>2. gen[r].stage \in {"sent", "authed"} /\ UNCHANGED <<open, spent, exchanges>>
    BY DEF CheckStatus, CheckBudget, At
  <1>3. ~HasAnswer(gen[r])
    BY <1>2 DEF HasAnswer
  <1>4. CASE End(r) /\ (Fail(r, "ended") \/ Fail(r, "none"))
    <2>1. view' \in ViewStates /\ ShowsOld
      BY <1>1, <1>4, FailFacts
    <2> QED BY <1>2, <1>3, <1>4, <2>1, EarlyEnd
  <1>5. CASE CheckStatus(r) /\ Step(r, "authed") /\ view' = view
    <2> DEFINE g == [gen[r] EXCEPT !.stage = "authed"]
    <2>1. gen[r] \in [stage : {"sent", "authed"}, model : ChatModels, prompt : Prompts]
      BY <1>1, <1>2 DEF RequestStates
    <2>2. g \in RequestStates /\ g.stage = "authed"
      BY <2>1 DEF RequestStates
    <2>3. gen' = [gen EXCEPT ![r] = g]
      BY <1>5 DEF Step
    <2>4. view' \in ViewStates /\ ShowsOld
      BY <1>1, <1>5, SameIsOld
    <2> HIDE DEF g
    <2> QED BY <1>2, <1>3, <2>2, <2>3, <2>4, EarlyMove
  <1>6. CASE /\ CheckBudget(r) /\ ~(spent >= LlmBudget) /\ view' = view
             /\ gen' = [gen EXCEPT ![r] = [stage |-> "streaming", model |-> @.model,
                  prompt |-> @.prompt, remaining |-> LlmBudget - spent, counted |-> 0, out |-> 0]]
    <2> DEFINE g == [stage |-> "streaming", model |-> gen[r].model, prompt |-> gen[r].prompt,
                     remaining |-> LlmBudget - spent, counted |-> 0, out |-> 0]
    <2>1. gen[r].model \in ChatModels /\ gen[r].prompt \in Prompts
      BY <1>1, <1>2, RequestFacts
    <2>2. LlmBudget - spent \in Nat
      BY <1>1, <1>6, ShownIsTyped, ChatAssumption
    <2>3. g \in RequestStates /\ g.stage = "streaming"
      BY <2>1, <2>2 DEF RequestStates
    <2>4. gen' = [gen EXCEPT ![r] = g]
      BY <1>1, <1>6
    <2>5. view' \in ViewStates /\ ShowsOld
      BY <1>1, <1>6, SameIsOld
    <2> HIDE DEF g
    <2> QED BY <1>2, <1>3, <2>3, <2>4, <2>5, EarlyMove
  <1> QED BY <1>4, <1>5, <1>6 DEF CheckStatus, CheckBudget

LEMMA StreamKeeps ==
  ASSUME ChatInv, NEW r \in Requests, StreamChunk(r) \/ UpstreamError(r) \/ ClientGone(r)
  PROVE  ChatInv'
  <1>1. ChatTypeOK /\ gen[r] \in RequestStates /\ gen \in [Requests -> RequestStates]
    BY DEF ChatInv, ChatTypeOK
  <1>2. gen[r].stage = "streaming" /\ UNCHANGED <<open, spent, exchanges>>
    BY DEF StreamChunk, UpstreamError, ClientGone, At
  <1>3. ~HasAnswer(gen[r])
    BY <1>2 DEF HasAnswer
  <1>4. CASE End(r) /\ (Fail(r, "exhausted") \/ Fail(r, "none"))
    <2>1. view' \in ViewStates /\ ShowsOld
      BY <1>1, <1>4, FailFacts
    <2> QED BY <1>2, <1>3, <1>4, <2>1, EarlyEnd
  <1>5. CASE End(r) /\ view' = view
    <2>1. view' \in ViewStates /\ ShowsOld
      BY <1>1, <1>5, SameIsOld
    <2> QED BY <1>2, <1>3, <1>5, <2>1, EarlyEnd
  <1>6. ASSUME NEW token \in 0..1, view' = view,
               gen' = [gen EXCEPT ![r].counted = gen[r].counted + token, ![r].out = @ + 1]
        PROVE  ChatInv'
    <2> DEFINE g == [gen[r] EXCEPT !.counted = gen[r].counted + token, !.out = @ + 1]
    <2>1. gen[r] \in [stage : {"streaming"}, model : ChatModels, prompt : Prompts,
                      remaining : Nat, counted : Nat, out : Nat]
      BY <1>1, <1>2 DEF RequestStates
    <2>2. gen[r].counted + token \in Nat /\ gen[r].out + 1 \in Nat
      BY <2>1
    <2>3. g \in RequestStates /\ g.stage = "streaming"
      BY <2>1, <2>2 DEF RequestStates
    <2>4. gen' = [gen EXCEPT ![r] = g]
      BY <1>1, <1>6
    <2>5. view' \in ViewStates /\ ShowsOld
      BY <1>1, <1>6, SameIsOld
    <2> HIDE DEF g
    <2> QED BY <1>2, <1>3, <2>3, <2>4, <2>5, EarlyMove
  <1>7. CASE StreamChunk(r)
    BY <1>4, <1>6, <1>7 DEF StreamChunk
  <1> QED BY <1>4, <1>5, <1>7 DEF UpstreamError, ClientGone

\* The answer is given, and its request is on the way to its row.
LEMMA AnswerKeeps ==
  ASSUME ChatInv, NEW r \in Requests, StreamEnds(r)
  PROVE  ChatInv'
  <1>1. ChatTypeOK /\ gen[r] \in RequestStates /\ gen \in [Requests -> RequestStates]
    BY DEF ChatInv, ChatTypeOK
  <1>2. gen[r].stage = "streaming" /\ UNCHANGED <<open, spent, exchanges>>
    BY DEF StreamEnds, At
  <1>3. PICK cached \in {0, ServerPrompt} :
          gen' = [gen EXCEPT ![r] = [stage |-> "closing", model |-> @.model,
                                     prompt |-> @.prompt, cached |-> cached, completion |-> @.out]]
    BY DEF StreamEnds
  <1> DEFINE g == [stage |-> "closing", model |-> gen[r].model, prompt |-> gen[r].prompt,
                   cached |-> cached, completion |-> gen[r].out]
  <1>4. /\ gen[r].model \in ChatModels /\ gen[r].prompt \in Prompts
        /\ gen[r].out \in Nat /\ cached \in Nat
    BY <1>1, <1>2, RequestFacts, ChatAssumption DEF ServerPrompt
  <1>5. g \in RequestStates /\ HasAnswer(g) /\ PaidAt(g) = 0 /\ PaidAt(gen[r]) = 0
    BY <1>2, <1>4 DEF RequestStates, HasAnswer, PaidAt
  <1>6. Moves(r) /\ gen'[r] = g
    BY <1>1, <1>3, <1>5 DEF Moves
  <1> DEFINE said == Said("assistant", r, gen[r].out)
             ms == Append(view.messages, said)
  <1> HIDE DEF g
  <1>7. CASE view.waiting # r
    <2>1. view' = view
      BY <1>7 DEF StreamEnds
    <2> QED BY <1>1, <1>2, <1>5, <1>6, <2>1, SameIsOld, OldIsOnly, QuietMove
  <1>8. CASE view.waiting = r
    <2>1. said \in Message /\ said.request = r
      BY <1>4 DEF Said, Message
    <2> HIDE DEF said
    <2>2. /\ ms \in Seq(Message)
          /\ \A i \in DOMAIN ms :
               \/ ms[i] = said
               \/ \E j \in DOMAIN view.messages : ms[i] = view.messages[j]
      <3>1. view.messages \in Seq(Message)
        BY <1>1, ShownIsTyped
      <3> QED BY <2>1, <3>1, LongerByOne
    <2>3. view' = [view EXCEPT !.messages = ms, !.waiting = Nobody]
      BY <1>8 DEF StreamEnds, said
    <2> HIDE DEF ms
    <2>4. view' \in ViewStates /\ view'.messages = ms
      BY <1>1, <2>2, <2>3, ShownIsTyped DEF ViewStates
    <2>5. ShowsOnly(r)
      BY <1>5, <1>6, <2>1, <2>2, <2>4 DEF ShowsOnly
    <2> QED BY <1>2, <1>5, <1>6, <2>4, <2>5, QuietMove
  <1> QED BY <1>7, <1>8

LEMMA LastRow ==
  ASSUME ChatTypeOK, exchanges # << >>
  PROVE  /\ Last(exchanges).prompt \in Prompts /\ Last(exchanges).completion \in Nat
  <1>1. exchanges \in Seq(Exchange)
    BY DEF ChatTypeOK
  <1>2. Last(exchanges) \in Exchange
    BY <1>1 DEF Last
  <1> QED BY <1>2 DEF Exchange

\* What a row counts for the candidate is what was sent since the row before,
\* or what the probes do not find the server to have put there.
LEMMA CandidateFacts ==
  ASSUME ChatTypeOK, NEW n \in Prompts, NEW probed \in Probes
  PROVE  /\ CandidateTokens(n, probed) \in Nat /\ Difference(n) \in Int
         /\ Difference(n) >= 0 \/ probed = ServerPrompt => CandidateTokens(n, probed) <= n - ServerPrompt
  <1>1. n \in Nat /\ ServerPrompt \in Nat /\ n >= ServerPrompt
    BY PromptFacts
  <1>2. probed \in Nat
    BY ChatAssumption DEF Probes
  <1>3. Difference(n) \in Int /\ (Difference(n) >= 0 => Difference(n) <= n - ServerPrompt)
    <2>1. CASE exchanges = << >>
      BY <2>1 DEF Difference
    <2>2. CASE exchanges # << >>
      <3>1. /\ Last(exchanges).prompt \in Nat /\ Last(exchanges).prompt >= ServerPrompt
            /\ Last(exchanges).completion \in Nat
        BY <2>2, LastRow, PromptFacts
      <3>2. Difference(n) = n - Last(exchanges).prompt - Last(exchanges).completion
        BY <2>2 DEF Difference
      <3> QED BY <1>1, <3>1, <3>2
    <2> QED BY <2>1, <2>2
  <1>4. CASE Difference(n) >= 0
    BY <1>3, <1>4 DEF CandidateTokens
  <1>5. CASE ~(Difference(n) >= 0)
    BY <1>1, <1>2, <1>3, <1>5 DEF CandidateTokens, NonNegative
  <1> QED BY <1>3, <1>4, <1>5

LEMMA ReadPriorFacts ==
  ASSUME ChatTypeOK, NEW r \in Requests, ReadPrior(r)
  PROVE  Moves(r) /\ gen'[r].stage = "differed" /\ Charged(gen'[r])
  <1>1. gen[r] \in RequestStates /\ gen \in [Requests -> RequestStates] /\ gen[r].stage = "closing"
    BY DEF ReadPrior, At, ChatTypeOK
  <1>2. PICK probed \in Probes :
          gen' = [gen EXCEPT ![r] = [stage |-> "differed", model |-> @.model,
                    prompt |-> @.prompt, cached |-> @.cached, completion |-> @.completion,
                    candidate |-> CandidateTokens(@.prompt, probed),
                    unmeasured |-> Difference(@.prompt) < 0 /\ probed # ServerPrompt]]
    BY DEF ReadPrior
  <1> DEFINE x == Difference(gen[r].prompt) < 0 /\ probed # ServerPrompt
             n == CandidateTokens(gen[r].prompt, probed)
             g == [stage |-> "differed", model |-> gen[r].model, prompt |-> gen[r].prompt,
                   cached |-> gen[r].cached, completion |-> gen[r].completion,
                   candidate |-> n, unmeasured |-> x]
  <1>3. /\ gen[r].model \in ChatModels /\ gen[r].prompt \in Prompts
        /\ gen[r].cached \in Nat /\ gen[r].completion \in Nat
    BY <1>1, RequestFacts
  <1>4. n \in Nat /\ x \in BOOLEAN /\ (x \/ n <= gen[r].prompt - ServerPrompt)
    BY <1>3, CandidateFacts
  <1>5. gen' = [gen EXCEPT ![r] = g]
    BY <1>2
  <1> HIDE DEF x, n
  <1>6. g \in RequestStates
    BY <1>3, <1>4 DEF RequestStates
  <1>7. Charged(g)
    BY <1>4 DEF Charged
  <1> QED BY <1>1, <1>5, <1>6, <1>7 DEF Moves

LEMMA ReadPriorKeeps ==
  ASSUME ChatInv, NEW r \in Requests, ReadPrior(r)
  PROVE  ChatInv'
  <1>1. ChatTypeOK
    BY DEF ChatInv
  <1>2. Moves(r) /\ gen'[r].stage = "differed"
    BY <1>1, ReadPriorFacts
  <1>3. PaidAt(gen[r]) = 0 /\ PaidAt(gen'[r]) = 0 /\ HasAnswer(gen'[r])
    BY <1>2 DEF ReadPrior, At, PaidAt, HasAnswer
  <1>4. UNCHANGED <<open, spent, exchanges, view>>
    BY DEF ReadPrior
  <1> QED BY <1>1, <1>2, <1>3, <1>4, SameIsOld, OldIsOnly, QuietMove

\* A step that pays or inserts: the two sums move by what is said, no answer is
\* forgotten, and the view does not change.
LEMMA LedgerMoves ==
  ASSUME ChatInv, ChatTypeOK', view' = view,
         spent' = RowsCost' + SumOf(Unlisted)',
         \A q \in Requests : IsBilled(q) => BilledNext(q)
  PROVE  ChatInv'
  <1>1. ASSUME NEW i \in DOMAIN view.messages, view.messages[i].role = "assistant"
        PROVE  BilledNext(view.messages[i].request)
    <2>1. view.messages \in Seq(Message)
      BY ShownIsTyped DEF ChatInv
    <2>2. view.messages[i] \in Message
      BY <2>1
    <2>3. view.messages[i].request \in Requests
      BY <2>2 DEF Message
    <2> QED BY <1>1, <2>3 DEF ChatInv, LedgerAgrees
  <1>2. LedgerAgrees'
    BY <1>1 DEF LedgerAgrees, Unlisted, IsBilled, Recorded, Answered, At, BilledNext, HasAnswer
  <1> QED BY <1>2 DEF ChatInv

LEMMA SumsAreInt ==
  ASSUME ChatTypeOK
  PROVE  /\ RowsCost \in Nat /\ SumOf(Unlisted) \in Nat
         /\ [i \in DOMAIN exchanges |-> exchanges[i].cost] \in Seq(Nat)
  <1>1. exchanges \in Seq(Exchange)
    BY DEF ChatTypeOK
  <1>2. \A i \in DOMAIN exchanges : exchanges[i].cost \in Nat
    <2> SUFFICES ASSUME NEW i \in DOMAIN exchanges PROVE exchanges[i].cost \in Nat
      OBVIOUS
    <2>1. exchanges[i] \in Exchange
      BY <1>1
    <2> QED BY <2>1 DEF Exchange
  <1>3. [i \in DOMAIN exchanges |-> exchanges[i].cost] \in Seq(Nat)
    BY <1>1, <1>2
  <1> QED BY <1>3, SumOfNaturals, PaidFacts DEF RowsCost

LEMMA PayKeeps ==
  ASSUME ChatInv, NEW r \in Requests, Pay(r)
  PROVE  ChatInv'
  <1>1. ChatTypeOK /\ gen[r] \in RequestStates /\ gen \in [Requests -> RequestStates]
        /\ spent \in Nat
    BY DEF ChatInv, ChatTypeOK
  <1>2. /\ gen[r].stage = "differed" /\ spent' = spent + Bill(gen[r]) /\ Step(r, "paid")
        /\ UNCHANGED <<open, exchanges, view>>
    BY DEF Pay, At
  <1> DEFINE g == [gen[r] EXCEPT !.stage = "paid"]
  <1>3. gen[r] \in [stage : {"differed", "paid"}, model : ChatModels, prompt : Prompts, cached : Nat,
                    completion : Nat, candidate : Nat, unmeasured : BOOLEAN]
    BY <1>1, <1>2 DEF RequestStates
  <1>4. /\ g \in RequestStates /\ g.stage = "paid" /\ g.model = gen[r].model
        /\ g.prompt = gen[r].prompt /\ g.cached = gen[r].cached /\ g.completion = gen[r].completion
    BY <1>3 DEF RequestStates
  <1>5. gen' = [gen EXCEPT ![r] = g]
    BY <1>2 DEF Step
  <1> HIDE DEF g
  <1>6. Moves(r) /\ gen'[r] = g
    BY <1>1, <1>4, <1>5 DEF Moves
  <1>7. PaidAt(gen[r]) = 0 /\ PaidAt(g) = Bill(gen[r])
    BY <1>2, <1>4 DEF PaidAt, Bill
  <1>8. Bill(gen[r]) \in Nat
    BY <1>3, BillIsCost
  <1>9. SumOf(Unlisted)' = SumOf(Unlisted) + Bill(gen[r])
    <2>1. SumOf(Unlisted)' = SumOf(Unlisted) - PaidAt(gen[r]) + PaidAt(gen'[r])
      BY <1>1, <1>6, OneMoves
    <2>2. SumOf(Unlisted) \in Nat
      BY <1>1, SumsAreInt
    <2> QED BY <1>6, <1>7, <1>8, <2>1, <2>2
  <1>10. RowsCost' = RowsCost /\ RowsCost \in Nat /\ SumOf(Unlisted) \in Nat
    BY <1>1, <1>2, SumsAreInt DEF RowsCost
  <1>11. spent = RowsCost + SumOf(Unlisted)
    BY DEF ChatInv, LedgerAgrees, Unlisted
  <1>12. spent' = RowsCost' + SumOf(Unlisted)'
    BY <1>2, <1>8, <1>9, <1>10, <1>11
  <1>13. ChatTypeOK'
    BY <1>1, <1>2, <1>6, <1>8 DEF ChatTypeOK, Moves
  <1>14. \A q \in Requests : IsBilled(q) => BilledNext(q)
    BY <1>2, <1>4, <1>6 DEF IsBilled, Recorded, Answered, At, BilledNext, HasAnswer, Moves
  <1> QED BY <1>2, <1>12, <1>13, <1>14, LedgerMoves

LEMMA CostsAppended ==
  ASSUME ChatTypeOK, NEW row \in Exchange
  PROVE  [i \in DOMAIN Append(exchanges, row) |-> Append(exchanges, row)[i].cost]
           = Append([i \in DOMAIN exchanges |-> exchanges[i].cost], row.cost)
  <1>1. exchanges \in Seq(Exchange)
    BY DEF ChatTypeOK
  <1> DEFINE s == Append(exchanges, row)
             c == [i \in DOMAIN exchanges |-> exchanges[i].cost]
             n == Len(exchanges)
  <1>2. /\ n \in Nat /\ DOMAIN exchanges = 1..n /\ DOMAIN s = 1..(n + 1)
        /\ s[n + 1] = row /\ \A i \in 1..n : s[i] = exchanges[i]
    BY <1>1
  <1>3. c \in Seq(Nat) /\ Len(c) = n
    BY <1>1, <1>2, SumsAreInt
  <1>4. row.cost \in Nat
    BY DEF Exchange
  <1>5. /\ DOMAIN Append(c, row.cost) = 1..(n + 1) /\ Append(c, row.cost)[n + 1] = row.cost
        /\ \A i \in 1..n : Append(c, row.cost)[i] = exchanges[i].cost
    BY <1>2, <1>3, <1>4
  <1>6. Append(c, row.cost) = [i \in 1..(n + 1) |-> Append(c, row.cost)[i]]
    BY <1>3, <1>4, <1>5
  <1> HIDE DEF s, c, n
  <1>7. \A i \in 1..(n + 1) : s[i].cost = Append(c, row.cost)[i]
    BY <1>2, <1>5
  <1>8. [i \in 1..(n + 1) |-> s[i].cost] = Append(c, row.cost)
    BY <1>6, <1>7
  <1> QED BY <1>2, <1>8 DEF s, c

LEMMA InsertFacts ==
  ASSUME ChatTypeOK, NEW r \in Requests, Insert(r)
  PROVE  \E row \in Exchange :
           /\ exchanges' = Append(exchanges, row)
           /\ row.request = r /\ row.prompt = gen[r].prompt
           /\ row.candidate = gen[r].candidate /\ row.unmeasured = gen[r].unmeasured
           /\ row.cost = PaidAt(gen[r])
  <1>1. gen[r] \in RequestStates /\ gen[r].stage = "paid"
    BY DEF Insert, At, ChatTypeOK
  <1>2. /\ gen[r].model \in ChatModels /\ gen[r].prompt \in Prompts
        /\ gen[r].cached \in Nat /\ gen[r].completion \in Nat /\ gen[r].candidate \in Nat
        /\ gen[r].unmeasured \in BOOLEAN
    BY <1>1, RequestFacts
  <1>3. Bill(gen[r]) \in Nat /\ PaidAt(gen[r]) = Bill(gen[r])
    BY <1>1, <1>2, BillIsCost DEF PaidAt
  <1> DEFINE row == [request |-> r, prompt |-> gen[r].prompt, completion |-> gen[r].completion,
                     cost |-> Bill(gen[r]), candidate |-> gen[r].candidate,
                     unmeasured |-> gen[r].unmeasured]
  <1>4. row \in Exchange
    BY <1>2, <1>3 DEF Exchange
  <1>5. exchanges' = Append(exchanges, row)
    BY DEF Insert
  <1> QED BY <1>3, <1>4, <1>5

LEMMA InsertKeeps ==
  ASSUME ChatInv, NEW r \in Requests, Insert(r)
  PROVE  ChatInv'
  <1>1. /\ ChatTypeOK /\ gen[r] \in RequestStates /\ exchanges \in Seq(Exchange)
        /\ gen[r].stage = "paid" /\ UNCHANGED <<open, spent, view>> /\ End(r)
    BY DEF ChatInv, ChatTypeOK, Insert, At
  <1>2. PICK row \in Exchange :
          /\ exchanges' = Append(exchanges, row)
          /\ row.request = r /\ row.cost = PaidAt(gen[r])
    BY <1>1, InsertFacts
  <1>3. Moves(r) /\ gen'[r] = Over /\ PaidAt(gen'[r]) = 0
    BY <1>1, EndFacts
  <1>4. exchanges' \in Seq(Exchange)
    BY <1>1, <1>2
  <1>5. ChatTypeOK'
    BY <1>1, <1>3, <1>4 DEF ChatTypeOK, Moves
  <1>6. RowsCost' = RowsCost + row.cost /\ row.cost \in Nat
    <2>1. RowsCost' = SumOf(Append([i \in DOMAIN exchanges |-> exchanges[i].cost], row.cost))
      BY <1>1, <1>2, CostsAppended DEF RowsCost
    <2>2. row.cost \in Nat
      BY DEF Exchange
    <2>3. [i \in DOMAIN exchanges |-> exchanges[i].cost] \in Seq(Int)
      BY <1>1, SumsAreInt
    <2> QED BY <2>1, <2>2, <2>3, SumOfAppend DEF RowsCost
  <1>7. SumOf(Unlisted)' = SumOf(Unlisted) - row.cost + 0
    BY <1>1, <1>2, <1>3, OneMoves
  <1>8. spent = RowsCost + SumOf(Unlisted) /\ RowsCost \in Nat /\ SumOf(Unlisted) \in Nat
    BY <1>1, SumsAreInt DEF ChatInv, LedgerAgrees, Unlisted
  <1>9. spent' = RowsCost' + SumOf(Unlisted)'
    BY <1>1, <1>6, <1>7, <1>8
  <1>10. ASSUME NEW q \in Requests, IsBilled(q) PROVE BilledNext(q)
    <2>1. /\ \A i \in DOMAIN exchanges : i \in DOMAIN exchanges' /\ exchanges'[i] = exchanges[i]
          /\ Len(exchanges) + 1 \in DOMAIN exchanges' /\ exchanges'[Len(exchanges) + 1] = row
      BY <1>1, <1>2
    <2>2. CASE q = r
      BY <1>2, <2>1, <2>2 DEF BilledNext
    <2>3. CASE q # r /\ q \in Recorded
      <3>1. PICK i \in DOMAIN exchanges : exchanges[i].request = q
        BY <2>3 DEF Recorded
      <3> QED BY <2>1, <3>1 DEF BilledNext
    <2>4. CASE q # r /\ q \notin Recorded
      <3>1. HasAnswer(gen[q]) /\ gen'[q] = gen[q]
        BY <1>3, <1>10, <2>4 DEF IsBilled, Answered, At, HasAnswer, Moves
      <3> QED BY <3>1 DEF BilledNext
    <2> QED BY <2>2, <2>3, <2>4
  <1> QED BY <1>1, <1>5, <1>9, <1>10, LedgerMoves

LEMMA DeathKeeps == ChatInv /\ ApiDies => ChatInv'
  <1> SUFFICES ASSUME ChatInv, ApiDies PROVE ChatInv'
    OBVIOUS
  <1>1. ChatTypeOK /\ gen \in [Requests -> RequestStates] /\ open \in BOOLEAN
    BY DEF ChatInv, ChatTypeOK
  <1>2. ASSUME NEW q \in Requests
        PROVE  /\ gen'[q] \in RequestStates /\ PaidAt(gen'[q]) = PaidAt(gen[q])
               /\ HasAnswer(gen[q]) => HasAnswer(gen'[q])
    <2>1. gen[q] \in RequestStates /\ Paid(q) = PaidAt(gen[q]) /\ PaidAt(gen[q]) \in Nat
      BY <1>1, PaidFacts
    <2>2. gen'[q] = IF q \notin Live THEN gen[q]
                    ELSE IF Answered(q) THEN [stage |-> "lost", paid |-> Paid(q)] ELSE Over
      BY DEF ApiDies
    <2>3. CASE q \notin Live
      BY <2>1, <2>2, <2>3
    <2>4. CASE q \in Live /\ Answered(q)
      <3>1. gen'[q] = [stage |-> "lost", paid |-> Paid(q)]
        BY <2>2, <2>4
      <3> QED BY <2>1, <3>1 DEF RequestStates, PaidAt, HasAnswer
    <2>5. CASE q \in Live /\ ~Answered(q)
      <3>1. gen'[q] = Over /\ gen[q].stage \notin {"closing", "differed", "paid", "lost"}
        BY <2>2, <2>5 DEF Live, Answered
      <3> QED BY <3>1 DEF RequestStates, PaidAt, HasAnswer, Over
    <2> QED BY <2>3, <2>4, <2>5
  <1>3. gen' \in [Requests -> RequestStates]
    <2>1. gen' = [q \in Requests |-> gen'[q]]
      BY DEF ApiDies
    <2> QED BY <1>2, <2>1
  <1>4. view' \in ViewStates /\ ShowsOld
    BY <1>1, FailFacts, SameIsOld DEF ApiDies
  <1>5. UNCHANGED <<spent, exchanges, open>>
    BY DEF ApiDies
  <1> QED BY <1>1, <1>2, <1>3, <1>4, <1>5, AllMove

LEMMA ChatStep == ChatInv /\ [ChatNext]_chatVars => ChatInv'
  <1> SUFFICES ASSUME ChatInv, [ChatNext]_chatVars PROVE ChatInv'
    OBVIOUS
  <1>1. CASE Send
    BY <1>1, SendKeeps
  <1>2. CASE ChangeModel \/ StreamTimeout \/ Reload \/ EndInterview
    BY <1>2, ViewStepsKeep
  <1>3. CASE ApiDies
    BY <1>3, DeathKeeps
  <1>4. ASSUME NEW r \in Requests, Proxy(r) PROVE ChatInv'
    BY <1>4, AdmissionKeeps, StreamKeeps, AnswerKeeps, ReadPriorKeeps, PayKeeps, InsertKeeps DEF Proxy
  <1>5. CASE UNCHANGED chatVars
    <2>1. view' \in ViewStates /\ ShowsOld /\ open' \in BOOLEAN
      BY <1>5, SameIsOld DEF chatVars, ChatInv, ChatTypeOK
    <2> QED BY <1>5, <2>1, ViewMoves DEF chatVars
  <1> QED BY <1>1, <1>2, <1>3, <1>4, <1>5 DEF ChatNext

\* What a session is said to have spent is what its rows cost, plus the rows
\* still to be inserted or lost with the process, whatever order the exchanges
\* are paid and inserted in; and no answer was given without being billed.
THEOREM BillAddsUp == ChatSpec => []LedgerAgrees
  <1>1. ChatInv => LedgerAgrees
    BY DEF ChatInv
  <1> QED BY <1>1, ChatStart, ChatStep, PTL DEF ChatSpec

\* Every variable of the chat keeps its type: no price, count of tokens or sum
\* is ever negative.
THEOREM ChatTyped == ChatSpec => []ChatTypeOK
  <1>1. ChatInv => ChatTypeOK
    BY DEF ChatInv
  <1> QED BY <1>1, ChatStart, ChatStep, PTL DEF ChatSpec

ChargeInv == ServerPromptIsNotCharged /\ \A r \in Requests : Charged(gen[r])

\* Only ReadPrior says what a row counts.
LEMMA ProxyCharges ==
  ASSUME ChatTypeOK, ChargeInv, NEW r \in Requests, Proxy(r)
  PROVE  \A q \in Requests : Charged(gen'[q])
  <1> SUFFICES ASSUME NEW q \in Requests PROVE Charged(gen'[q])
    OBVIOUS
  <1>1. gen \in [Requests -> RequestStates] /\ gen[r] \in RequestStates /\ Charged(gen[q])
    BY DEF ChatTypeOK, ChargeInv
  <1>2. CASE gen' = gen \/ q # r
    BY <1>1, <1>2 DEF Proxy, CheckStatus, CheckBudget, StreamChunk, UpstreamError, ClientGone,
                      StreamEnds, ReadPrior, Pay, Insert, Step, End
  <1>3. CASE q = r /\ End(r)
    BY <1>1, <1>3 DEF End, Over, Charged
  <1>4. CASE q = r /\ CheckStatus(r) /\ Step(r, "authed")
    <2>1. gen[r] \in [stage : {"sent", "authed"}, model : ChatModels, prompt : Prompts]
      BY <1>1, <1>4 DEF CheckStatus, At, RequestStates
    <2>2. gen'[r].stage = "authed"
      BY <1>1, <1>4, <2>1 DEF Step
    <2> QED BY <1>4, <2>2 DEF Charged
  <1>5. CASE q = r /\ CheckBudget(r) /\ ~End(r)
    <2>1. gen'[r].stage = "streaming"
      BY <1>1, <1>5 DEF CheckBudget
    <2> QED BY <1>5, <2>1 DEF Charged
  <1>6. CASE q = r /\ StreamChunk(r) /\ ~End(r)
    <2>1. gen[r] \in [stage : {"streaming"}, model : ChatModels, prompt : Prompts,
                      remaining : Nat, counted : Nat, out : Nat]
      BY <1>1, <1>6 DEF StreamChunk, At, RequestStates
    <2>2. PICK token \in 0..1 :
            gen' = [gen EXCEPT ![r].counted = gen[r].counted + token, ![r].out = @ + 1]
      BY <1>6 DEF StreamChunk
    <2>3. gen'[r].stage = "streaming"
      BY <1>1, <2>1, <2>2
    <2> QED BY <1>6, <2>3 DEF Charged
  <1>7. CASE q = r /\ StreamEnds(r)
    <2>1. gen'[r].stage = "closing"
      BY <1>1, <1>7 DEF StreamEnds
    <2> QED BY <1>7, <2>1 DEF Charged
  <1>8. CASE q = r /\ ReadPrior(r)
    BY <1>8, ReadPriorFacts
  <1>9. CASE q = r /\ Pay(r)
    <2>1. gen[r].stage = "differed" /\ gen' = [gen EXCEPT ![r].stage = "paid"]
      BY <1>9 DEF Pay, At, Step
    <2>2. gen[r] \in [stage : {"differed", "paid"}, model : ChatModels, prompt : Prompts,
                      cached : Nat, completion : Nat, candidate : Nat, unmeasured : BOOLEAN]
      BY <1>1, <2>1 DEF RequestStates
    <2>3. /\ gen'[r].candidate = gen[r].candidate /\ gen'[r].prompt = gen[r].prompt
          /\ gen'[r].unmeasured = gen[r].unmeasured
      BY <1>1, <2>1, <2>2
    <2> QED BY <1>1, <1>9, <2>1, <2>3 DEF Charged
  <1>10. q = r \/ q # r
    OBVIOUS
  <1>11. CASE UpstreamError(r) \/ ClientGone(r) \/ Insert(r)
    BY <1>2, <1>3, <1>11 DEF UpstreamError, ClientGone, Insert
  <1>12. CASE CheckStatus(r)
    BY <1>2, <1>3, <1>4, <1>12 DEF CheckStatus
  <1> QED BY <1>2, <1>3, <1>5, <1>6, <1>7, <1>8, <1>9, <1>11, <1>12 DEF Proxy

LEMMA ChargeStep == ChatTypeOK /\ ChargeInv /\ [ChatNext]_chatVars => ChargeInv'
  <1> SUFFICES ASSUME ChatTypeOK, ChargeInv, [ChatNext]_chatVars PROVE ChargeInv'
    OBVIOUS
  <1>1. exchanges \in Seq(Exchange) /\ gen \in [Requests -> RequestStates]
    BY DEF ChatTypeOK
  <1>2. CASE exchanges' = exchanges
    <2>1. ServerPromptIsNotCharged'
      BY <1>2 DEF ChargeInv, ServerPromptIsNotCharged
    <2>2. ASSUME NEW q \in Requests PROVE Charged(gen'[q])
      <3>1. CASE Send
        BY <1>1, <3>1 DEF Send, Charged, ChargeInv
      <3>2. CASE gen' = gen
        BY <3>2 DEF ChargeInv
      <3>3. CASE ApiDies
        BY <3>3 DEF ApiDies, Charged, ChargeInv, Over
      <3>4. CASE \E r \in Requests : Proxy(r)
        BY <3>4, ProxyCharges
      <3> QED BY <3>1, <3>2, <3>3, <3>4
            DEF ChatNext, chatVars, ChangeModel, StreamTimeout, Reload, EndInterview
    <2> QED BY <2>1, <2>2 DEF ChargeInv
  <1>3. CASE exchanges' # exchanges
    <2>1. PICK r \in Requests : Insert(r)
      BY <1>3 DEF ChatNext, chatVars, Send, ChangeModel, StreamTimeout, Reload, EndInterview, ApiDies,
                  Proxy, CheckStatus, CheckBudget, StreamChunk, UpstreamError, ClientGone,
                  StreamEnds, ReadPrior, Pay
    <2>2. PICK row \in Exchange :
            /\ exchanges' = Append(exchanges, row)
            /\ row.prompt = gen[r].prompt /\ row.candidate = gen[r].candidate
            /\ row.unmeasured = gen[r].unmeasured
      BY <2>1, InsertFacts
    <2>3. row.unmeasured \/ row.candidate <= row.prompt - ServerPrompt
      BY <2>1, <2>2 DEF ChargeInv, Charged, Insert, At
    <2>4. \A i \in DOMAIN exchanges' :
            \/ exchanges'[i] = row
            \/ \E j \in DOMAIN exchanges : exchanges'[i] = exchanges[j]
      BY <1>1, <2>2, LongerByOne
    <2>5. ServerPromptIsNotCharged'
      BY <2>3, <2>4 DEF ChargeInv, ServerPromptIsNotCharged
    <2>6. \A q \in Requests : Charged(gen'[q])
      BY <2>1, ProxyCharges DEF Proxy
    <2> QED BY <2>5, <2>6 DEF ChargeInv
  <1> QED BY <1>2, <1>3

\* The tokens a row counts for the candidate are those of the prompt less, at
\* the least, what the server itself put in front, whatever rows of other
\* requests were inserted between the reading of the last row and this one;
\* unless a probe failed that the count rests on (llm_proxy.py:98-120, 377-414).
THEOREM CandidatePaysOwnWords == ChatSpec => []ServerPromptIsNotCharged
  <1>1. ChatInit => ChargeInv
    BY DEF ChatInit, ChargeInv, ServerPromptIsNotCharged, Charged, Idle
  <1>2. ChargeInv => ServerPromptIsNotCharged
    BY DEF ChargeInv
  <1> QED BY <1>1, <1>2, ChatTyped, ChargeStep, PTL DEF ChatSpec

----------------------------------------------------------------------------
(* The interview video.  Once a video is stored no key is minted any more,   *)
(* so whatever is still on its way has a key from before.                    *)

\* The pages that have an address to upload to.
HasKey(t) ==
  tab[t].page \in {"ready", "recording", "uploading", "uploaded", "checked", "stored", "done"}

KeysFrozen == video # NoVideo => video.known = Len(minted)
KeysGiven == \A t \in Tabs : HasKey(t) => tab[t].key # 0
StoredIsThere == \A t \in Tabs : tab[t].page \in {"stored", "done"} => video # NoVideo

VideoInv == VideoTypeOK /\ KeysFrozen /\ KeysGiven /\ StoredIsThere /\ UsedMeansStored

USE VideoAssumption DEF On, Turn, BeforeSubmit

LEMMA VideoStart == VideoInit => VideoInv
  BY DEF VideoInit, VideoInv, VideoTypeOK, KeysFrozen, KeysGiven, StoredIsThere, UsedMeansStored,
         HasKey, NoVideo, NoLink, Page, Pages

\* A step that leaves keys, link and video alone.
LEMMA PageTurns ==
  ASSUME VideoInv, UNCHANGED <<link, minted, video>>,
         clock' \in {BeforeSubmit} \union Nat, objects' \subseteq 0..Len(minted),
         tab' \in [Tabs -> [page : Pages, key : 0..Len(minted), from : Int, duration : Int]],
         \A t \in Tabs : HasKey(t)' => HasKey(t) /\ tab'[t].key = tab[t].key,
         \A t \in Tabs : tab'[t].page \in {"stored", "done"} => tab[t].page \in {"stored", "done"}
  PROVE  VideoInv'
  BY DEF VideoInv, VideoTypeOK, KeysFrozen, KeysGiven, StoredIsThere, UsedMeansStored

LEMMA VideoStep == VideoInv /\ VideoNext => VideoInv'
  <1> SUFFICES ASSUME VideoInv, VideoNext PROVE VideoInv'
    OBVIOUS
  <1>1. VideoTypeOK
    BY DEF VideoInv
  <1>2. CASE Submit
    BY <1>1, <1>2, PageTurns DEF Submit, VideoTypeOK, HasKey
  <1>3. CASE Pass
    <2>1. clock' \in Nat
      BY <1>1, <1>3 DEF Pass, Submitted, VideoTypeOK
    <2>2. UNCHANGED <<link, minted, objects, video, tab>>
      BY <1>3 DEF Pass
    <2>3. /\ objects' \subseteq 0..Len(minted)
          /\ tab' \in [Tabs -> [page : Pages, key : 0..Len(minted), from : Int, duration : Int]]
      BY <1>1, <2>2 DEF VideoTypeOK
    <2>4. \A t \in Tabs : HasKey(t)' => HasKey(t) /\ tab'[t].key = tab[t].key
      BY <2>2 DEF HasKey
    <2> QED BY <2>1, <2>2, <2>3, <2>4, PageTurns
  <1>4. CASE BrowserLink
    <2>1. link' \in [expires : Int, used : BOOLEAN] /\ ~link'.used
      BY <1>1, <1>4 DEF BrowserLink, Earlier, VideoTypeOK
    <2> QED BY <1>4, <2>1 DEF BrowserLink, VideoInv, VideoTypeOK, KeysFrozen, KeysGiven,
                StoredIsThere, UsedMeansStored, HasKey
  <1>5. ASSUME NEW t \in Tabs, OpenPage(t) PROVE VideoInv'
    <2>1. PICK p \in {"loading", "refused"} : tab' = [tab EXCEPT ![t] = Page(p)]
      BY <1>5 DEF OpenPage
    <2>2. Page(p) \in [page : Pages, key : 0..Len(minted), from : Int, duration : Int]
      BY <1>1 DEF Page, Pages, VideoTypeOK
    <2>3. /\ tab' \in [Tabs -> [page : Pages, key : 0..Len(minted), from : Int, duration : Int]]
          /\ \A u \in Tabs \ {t} : tab'[u] = tab[u]
          /\ tab'[t].page = p
      BY <1>1, <2>1, <2>2 DEF VideoTypeOK, Page
    <2>4. \A u \in Tabs : HasKey(u)' => HasKey(u) /\ tab'[u].key = tab[u].key
      BY <2>3 DEF HasKey
    <2>5. \A u \in Tabs : tab'[u].page \in {"stored", "done"} => tab[u].page \in {"stored", "done"}
      BY <2>3
    <2>6. UNCHANGED <<clock, link, minted, objects, video>>
      BY <1>5 DEF OpenPage
    <2> QED BY <1>1, <2>3, <2>4, <2>5, <2>6, PageTurns DEF VideoTypeOK
  <1>6. ASSUME NEW t \in Tabs, Bootstrap(t) PROVE VideoInv'
    <2>1. CASE LinkIsGood /\ InitAllowed
      <3>1. /\ video = NoVideo /\ minted' = Append(minted, clock) /\ clock \in Nat
            /\ tab' = [tab EXCEPT ![t].page = "ready", ![t].key = Len(minted')]
            /\ ~link.used
            /\ UNCHANGED <<clock, link, objects, video>>
        BY <1>1, <1>6, <2>1 DEF Bootstrap, InitAllowed, LinkIsGood, WindowOpen, Submitted, VideoTypeOK
      <3>2. minted' \in Seq(Nat) /\ Len(minted') = Len(minted) + 1 /\ Len(minted) \in Nat
        BY <1>1, <3>1 DEF VideoTypeOK
      <3>3. /\ \A u \in Tabs \ {t} : tab'[u] = tab[u]
            /\ tab'[t].page = "ready" /\ tab'[t].key = Len(minted) + 1
            /\ tab' \in [Tabs -> [page : Pages, key : 0..(Len(minted) + 1), from : Int, duration : Int]]
        <4> DEFINE n == Len(minted)
                   Tab(k) == [page : Pages, key : 0..k, from : Int, duration : Int]
        <4>1. tab \in [Tabs -> Tab(n)] /\ n \in Nat
          BY <1>1, <3>2 DEF VideoTypeOK
        <4>2. tab[t] \in Tab(n)
          BY <4>1
        <4>3. [tab[t] EXCEPT !.page = "ready", !.key = n + 1] \in Tab(n + 1)
          <5>1. "ready" \in Pages /\ n + 1 \in 0..(n + 1)
            BY <4>1 DEF Pages
          <5>2. tab[t] \in Tab(n + 1)
            BY <4>1, <4>2
          <5> HIDE DEF n
          <5> QED BY <5>1, <5>2
        <4>4. tab \in [Tabs -> Tab(n + 1)]
          BY <4>1
        <4>5. tab' = [tab EXCEPT ![t] = [tab[t] EXCEPT !.page = "ready", !.key = n + 1]]
          BY <3>1, <3>2
        <4> HIDE DEF n, Tab
        <4> QED BY <4>3, <4>4, <4>5 DEF n, Tab
      <3>4. VideoTypeOK'
        <4>1. clock' \in {BeforeSubmit} \union Nat /\ link' \in [expires : Int, used : BOOLEAN]
          BY <1>1, <3>1 DEF VideoTypeOK
        <4>2. objects' \subseteq 0..Len(minted')
          <5>1. objects \subseteq 0..Len(minted) /\ objects' = objects
            BY <1>1, <3>1 DEF VideoTypeOK
          <5>2. 0..Len(minted) \subseteq 0..Len(minted')
            BY <3>2
          <5> QED BY <5>1, <5>2
        <4>3. video' \in [key : 0..Len(minted'), duration : Int, known : 0..Len(minted')]
          BY <1>1, <3>1, <3>2 DEF VideoTypeOK, NoVideo
        <4> QED BY <3>2, <3>3, <4>1, <4>2, <4>3 DEF VideoTypeOK
      <3>5. KeysGiven'
        <4> SUFFICES ASSUME NEW u \in Tabs, HasKey(u)'
                     PROVE  tab'[u].key # 0
          BY DEF KeysGiven
        <4>1. CASE u = t
          BY <3>2, <3>3, <4>1
        <4>2. CASE u # t
          BY <3>3, <4>2 DEF VideoInv, KeysGiven, HasKey
        <4> QED BY <4>1, <4>2
      <3>6. StoredIsThere' /\ KeysFrozen' /\ UsedMeansStored'
        BY <3>1, <3>3 DEF VideoInv, StoredIsThere, KeysFrozen, UsedMeansStored
      <3> QED BY <3>4, <3>5, <3>6 DEF VideoInv
    <2>2. CASE ~(LinkIsGood /\ InitAllowed)
      <3>1. UNCHANGED <<clock, link, minted, objects, video>> /\ tab' = [tab EXCEPT ![t].page = "refused"]
        BY <1>6, <2>2 DEF Bootstrap
      <3> QED BY <1>1, <3>1, PageTurns DEF VideoTypeOK, HasKey, Pages
    <2> QED BY <2>1, <2>2
  <1>7. ASSUME NEW t \in Tabs, StartRecording(t) PROVE VideoInv'
    <2>1. /\ tab' = [tab EXCEPT ![t].page = "recording", ![t].from = clock]
          /\ tab[t].page = "ready" /\ UNCHANGED <<clock, link, minted, objects, video>>
      BY <1>7 DEF StartRecording
    <2>2. /\ \A u \in Tabs \ {t} : tab'[u] = tab[u]
          /\ tab'[t].page = "recording" /\ tab'[t].key = tab[t].key
          /\ tab' \in [Tabs -> [page : Pages, key : 0..Len(minted), from : Int, duration : Int]]
      <3>1. clock \in Int /\ "recording" \in Pages
        BY <1>1 DEF VideoTypeOK, Pages
      <3> QED BY <1>1, <2>1, <3>1 DEF VideoTypeOK
    <2> QED BY <1>1, <2>1, <2>2, PageTurns DEF VideoTypeOK, HasKey
  <1>8. ASSUME NEW t \in Tabs, StopRecording(t) PROVE VideoInv'
    <2> DEFINE elapsed == clock - tab[t].from
               next == IF elapsed < MinDuration THEN "refused" ELSE "uploading"
    <2>1. /\ tab' = [tab EXCEPT ![t].page = next, ![t].duration = elapsed]
          /\ tab[t].page = "recording" /\ UNCHANGED <<clock, link, minted, objects, video>>
      BY <1>8 DEF StopRecording
    <2>2. elapsed \in Int /\ next \in {"refused", "uploading"}
      BY <1>1 DEF VideoTypeOK
    <2> HIDE DEF elapsed, next
    <2>3. /\ \A u \in Tabs \ {t} : tab'[u] = tab[u]
          /\ tab'[t].page = next /\ tab'[t].key = tab[t].key
          /\ tab' \in [Tabs -> [page : Pages, key : 0..Len(minted), from : Int, duration : Int]]
      BY <1>1, <2>1, <2>2 DEF VideoTypeOK, Pages
    <2> QED BY <1>1, <2>1, <2>2, <2>3, PageTurns DEF VideoTypeOK, HasKey
  <1>9. ASSUME NEW t \in Tabs, Upload(t) PROVE VideoInv'
    <2>1. /\ UNCHANGED <<clock, link, minted, video>> /\ objects' \subseteq 0..Len(minted)
          /\ tab[t].page = "uploading"
      BY <1>1, <1>9 DEF Upload, VideoTypeOK
    <2>2. PICK p \in {"uploaded", "refused"} : tab' = [tab EXCEPT ![t].page = p]
      BY <1>9 DEF Upload
    <2>3. /\ \A u \in Tabs \ {t} : tab'[u] = tab[u]
          /\ tab'[t].page = p /\ tab'[t].key = tab[t].key
          /\ tab' \in [Tabs -> [page : Pages, key : 0..Len(minted), from : Int, duration : Int]]
      BY <1>1, <2>2 DEF VideoTypeOK, Pages
    <2> QED BY <1>1, <2>1, <2>3, PageTurns DEF VideoTypeOK, HasKey
  <1>10. ASSUME NEW t \in Tabs, Complete(t) PROVE VideoInv'
    <2>1. UNCHANGED <<clock, link, minted, objects, video>> /\ tab[t].page = "uploaded"
      BY <1>10 DEF Complete
    <2>2. PICK p \in {"checked", "refused"} : tab' = [tab EXCEPT ![t].page = p]
      BY <1>10 DEF Complete
    <2>3. /\ \A u \in Tabs \ {t} : tab'[u] = tab[u]
          /\ tab'[t].page = p /\ tab'[t].key = tab[t].key
          /\ tab' \in [Tabs -> [page : Pages, key : 0..Len(minted), from : Int, duration : Int]]
      BY <1>1, <2>2 DEF VideoTypeOK, Pages
    <2> QED BY <1>1, <2>1, <2>3, PageTurns DEF VideoTypeOK, HasKey
  <1>11. ASSUME NEW t \in Tabs, Finalise(t) PROVE VideoInv'
    <2>1. tab[t].key \in 1..Len(minted) /\ Len(minted) \in Nat
      BY <1>1, <1>11 DEF Finalise, VideoInv, VideoTypeOK, KeysGiven, HasKey
    <2>2. /\ video' = [key |-> tab[t].key, duration |-> tab[t].duration, known |-> Len(minted)]
          /\ tab' = [tab EXCEPT ![t].page = "stored"]
          /\ tab[t].page = "checked"
          /\ UNCHANGED <<clock, link, minted, objects>>
      BY <1>11 DEF Finalise
    <2>3. video' # NoVideo /\ video'.known = Len(minted)
      BY <2>1, <2>2 DEF NoVideo
    <2>4. /\ \A u \in Tabs \ {t} : tab'[u] = tab[u]
          /\ tab'[t].page = "stored" /\ tab'[t].key = tab[t].key
          /\ tab' \in [Tabs -> [page : Pages, key : 0..Len(minted), from : Int, duration : Int]]
      BY <1>1, <2>2 DEF VideoTypeOK, Pages
    <2>5. VideoTypeOK'
      <3>1. video' \in [key : 0..Len(minted), duration : Int, known : 0..Len(minted)]
        BY <1>1, <1>11, <2>1, <2>2 DEF VideoTypeOK
      <3> QED BY <1>1, <2>2, <2>4, <3>1 DEF VideoTypeOK
    <2>6. KeysGiven'
      BY <2>2, <2>4 DEF VideoInv, KeysGiven, HasKey
    <2> QED BY <2>2, <2>3, <2>5, <2>6 DEF VideoInv, KeysFrozen, StoredIsThere, UsedMeansStored
  <1>12. ASSUME NEW t \in Tabs, MarkUsed(t) PROVE VideoInv'
    BY <1>12 DEF MarkUsed, VideoInv, VideoTypeOK, KeysFrozen, KeysGiven, StoredIsThere,
                 UsedMeansStored, HasKey, Pages
  <1>13. ASSUME NEW t \in Tabs, ServerDies(t) PROVE VideoInv'
    BY <1>1, <1>13, PageTurns DEF ServerDies, VideoTypeOK, HasKey, Pages
  <1> QED BY <1>2, <1>3, <1>4, <1>5, <1>6, <1>7, <1>8, <1>9, <1>10, <1>11, <1>12, <1>13
          DEF VideoNext

LEMMA VideoInvariant == VideoSpec => []VideoInv
  <1>1. VideoInv /\ [VideoNext]_videoVars => VideoInv'
    <2>1. VideoInv /\ UNCHANGED videoVars => VideoInv'
      BY DEF VideoInv, VideoTypeOK, KeysFrozen, KeysGiven, StoredIsThere, UsedMeansStored, HasKey,
             videoVars
    <2> QED BY <2>1, VideoStep
  <1> QED BY <1>1, VideoStart, PTL DEF VideoSpec

(* A link is used up only by a stored video, wherever the process may die    *)
(* and however many tabs have the link open.                                 *)
THEOREM LinkOutlivesDeath == VideoSpec => []UsedMeansStored
  <1>1. VideoInv => UsedMeansStored
    BY DEF VideoInv
  <1> QED BY <1>1, VideoInvariant, PTL

(* A stored video gives way only to one whose address was minted before it   *)
(* was stored.                                                               *)
THEOREM OnlyRacersReplace == VideoSpec => ReplacedOnlyByRacer
  <1>1. VideoInv /\ [VideoNext]_videoVars =>
          [video' # video /\ video # NoVideo => video'.key <= video.known]_videoVars
    <2> SUFFICES ASSUME VideoInv, VideoNext, video' # video, video # NoVideo
                 PROVE  video'.key <= video.known
      BY DEF videoVars
    <2>1. PICK t \in Tabs : Finalise(t)
      BY DEF VideoNext, Submit, Pass, BrowserLink, OpenPage, Bootstrap, StartRecording, StopRecording,
             Upload, Complete, MarkUsed, ServerDies
    <2>2. video'.key = tab[t].key /\ tab[t].key \in 0..Len(minted)
      BY <2>1 DEF Finalise, VideoInv, VideoTypeOK
    <2> QED BY <2>2 DEF VideoInv, KeysFrozen, VideoTypeOK
  <1> QED BY <1>1, VideoInvariant, PTL DEF VideoSpec, ReplacedOnlyByRacer
=============================================================================
