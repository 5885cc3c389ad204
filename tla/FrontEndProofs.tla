--------------------------- MODULE FrontEndProofs ---------------------------
(***************************************************************************)
(* Theorems about what people are shown: the candidate who reviews an AI   *)
(* edit or chats, the recruiter who reads the list and a detail.           *)
(***************************************************************************)
EXTENDS EditReview, Dashboard, FiniteSetTheorems, SequenceTheorems, TLAPS

----------------------------------------------------------------------------
(* The review of AI edits.  A rejected hunk is in the events or in one edit  *)
(* that is still to land, and the youngest edit of a file has all decisions. *)

Text == [Places -> Seq(Nat)]
Call == [phase : {"clearing", "awaiting"}, id : BlockIds, file : Files, changes : SUBSET Places,
         todo : SUBSET BlockIds]
Review == [phase : {"opening", "review", "over"}, id : BlockIds, file : Files, original : Text,
           status : [Places -> Statuses], resolved : BOOLEAN, applied : SUBSET Places]
EditOf == [file : Files, text : Text, by : Applies, gone : SUBSET Places,
           waiter : Applies \union {NoApply}]

ReviewTypes ==
  /\ disk \in [Files -> Text] /\ document \in [Files -> Text]
  /\ apply \in [Applies -> {NotCalled} \union Call \union Review]
  /\ sessions \in [BlockIds -> Applies \union {NoApply}]
  /\ edits \in Seq(EditOf)
  /\ rejected \in [Applies -> [Places -> {0, 1}]]
  /\ refused \subseteq Files

\* An id stands for a review that is not over.
Registered ==
  \A id \in BlockIds : sessions[id] # NoApply =>
    apply[sessions[id]].phase \in {"opening", "review"} /\ apply[sessions[id]].id = id

\* What ended was reported as it was accepted.
AppliedAsAccepted ==
  \A a \in Applies : Is(a, "over") => apply[a].applied = Hunks(apply[a], "accepted")

\* An edit is of an open review with something to show; an apply awaits one at most.
EditsAreOwned ==
  \A i \in DOMAIN edits :
    /\ Opened(edits[i].by) /\ apply[edits[i].by].file = edits[i].file
    /\ Hunks(apply[edits[i].by], "equal") # Places
    /\ edits[i].waiter # NoApply => Is(edits[i].waiter, "awaiting")
    /\ \A j \in DOMAIN edits : edits[i].waiter = edits[j].waiter /\ i # j => edits[i].waiter = NoApply

Tells(i, a, p) == edits[i].by = a /\ p \in edits[i].gone
RejectedByNow(a, p) == Opened(a) /\ apply[a].status[p] = "rejected"

\* A rejected hunk was told of, or is in one edit; no other hunk is.
ToldOnce ==
  \A a \in Applies, p \in Places :
    /\ rejected[a][p] = 1 => RejectedByNow(a, p)
    /\ \A i \in DOMAIN edits : Tells(i, a, p) =>
         /\ RejectedByNow(a, p) /\ rejected[a][p] = 0
         /\ \A j \in DOMAIN edits : Tells(j, a, p) => i = j
    /\ RejectedByNow(a, p) => rejected[a][p] = 1 \/ \E i \in DOMAIN edits : Tells(i, a, p)

\* Whether apply a is the only one that changes its file.
Owns(a) ==
  /\ Opened(a) /\ Hunks(apply[a], "equal") # Places
  /\ \A b \in Applies : Opened(b) /\ apply[b].file = apply[a].file /\ Hunks(apply[b], "equal") # Places => b = a
IsLastOf(i, f) == edits[i].file = f /\ \A j \in DOMAIN edits : edits[j].file = f => j <= i

\* The youngest edit of its file has its decisions, and without any the document has.
DecisionsShown ==
  \A a \in Applies : Owns(a) =>
    /\ \A i \in DOMAIN edits : IsLastOf(i, apply[a].file) => edits[i].text = Compose(a, apply[a])
    /\ apply[a].file \notin refused /\ (\A i \in DOMAIN edits : edits[i].file # apply[a].file)
         => document[apply[a].file] = Compose(a, apply[a])

ReviewInv ==
  ReviewTypes /\ Registered /\ AppliedAsAccepted /\ EditsAreOwned /\ ToldOnce /\ DecisionsShown

LEMMA ApplyFacts ==
  ASSUME ReviewTypes, NEW a \in Applies
  PROVE  /\ Opened(a) <=> apply[a] \in Review
         /\ Is(a, "clearing") \/ Is(a, "awaiting") <=> apply[a] \in Call
         /\ Opened(a) => ~Is(a, "none") /\ ~Is(a, "clearing") /\ ~Is(a, "awaiting")
  <1>1. apply[a] \in {NotCalled} \union Call \union Review
    BY DEF ReviewTypes
  <1>2. CASE apply[a] = NotCalled
    BY <1>2 DEF NotCalled, Opened, Is, Call, Review
  <1>3. CASE apply[a] \in Call
    BY <1>3 DEF Call, Opened, Is, Review
  <1>4. CASE apply[a] \in Review
    BY <1>4 DEF Review, Opened, Is, Call
  <1> QED BY <1>1, <1>2, <1>3, <1>4

LEMMA ComposedText == ASSUME NEW a \in Applies, NEW s \in Review PROVE Compose(a, s) \in Text
  <1>1. a \in Nat /\ s.original \in [Places -> Seq(Nat)]
    BY ReviewAssumption DEF Applies, Review, Text
  <1>2. <<a>> \in Seq(Nat)
    BY <1>1
  <1>3. \A p \in Places : s.original[p] \in Seq(Nat) /\ s.original[p] \o <<a>> \in Seq(Nat)
    BY <1>1, <1>2
  <1> QED BY <1>2, <1>3 DEF Compose, Text

LEMMA EditMade ==
  ASSUME NEW a \in Applies, NEW s \in Review, NEW gone \in SUBSET Places, NEW waiter \in Applies \union {NoApply}
  PROVE  /\ Edit(a, s, gone, waiter) \in EditOf
         /\ Edit(a, s, gone, waiter).file = s.file /\ Edit(a, s, gone, waiter).by = a
         /\ Edit(a, s, gone, waiter).gone = gone /\ Edit(a, s, gone, waiter).waiter = waiter
         /\ Edit(a, s, gone, waiter).text = Compose(a, s)
  <1>1. s.file \in Files /\ Compose(a, s) \in Text
    BY ComposedText DEF Review
  <1> QED BY <1>1 DEF Edit, EditOf

\* What the review of an apply shows and has decided stays.
StaysAsDecided(a) ==
  /\ apply'[a].file = apply[a].file /\ apply'[a].original = apply[a].original
  /\ apply'[a].status = apply[a].status

LEMMA StaysSame ==
  ASSUME NEW a \in Applies, Opened(a), Opened(a)', StaysAsDecided(a)
  PROVE  /\ \A status : Hunks(apply[a], status)' = Hunks(apply[a], status)
         /\ Compose(a, apply[a])' = Compose(a, apply[a])
         /\ \A p \in Places : RejectedByNow(a, p)' <=> RejectedByNow(a, p)
  <1>1. apply'[a].status = apply[a].status /\ apply'[a].original = apply[a].original
    BY DEF StaysAsDecided
  <1> QED BY <1>1 DEF Hunks, Compose, RejectedByNow

\* A step that asks for no edit, and opens at most reviews with nothing to decide.
LEMMA QuietStep ==
  ASSUME ReviewInv, UNCHANGED <<document, edits, rejected, refused>>,
         \A a \in Applies : Opened(a) => Opened(a)' /\ StaysAsDecided(a),
         \A a \in Applies : ~Opened(a) /\ Opened(a)' => apply'[a].status = [p \in Places |-> "equal"],
         \A a \in Applies : Is(a, "awaiting") => Is(a, "awaiting")'
  PROVE  EditsAreOwned' /\ ToldOnce' /\ DecisionsShown'
  <1>1. ReviewTypes /\ EditsAreOwned /\ ToldOnce /\ DecisionsShown
    BY DEF ReviewInv
  <1>2. \A i \in DOMAIN edits : edits[i] \in EditOf
    BY <1>1 DEF ReviewTypes
  <1>3. \A i \in DOMAIN edits : edits[i].by \in Applies /\ edits[i].waiter \in Applies \union {NoApply}
    BY <1>2 DEF EditOf
  <1>4. ASSUME NEW a \in Applies, Opened(a)
        PROVE  /\ Opened(a)' /\ apply'[a].file = apply[a].file
               /\ \A status : Hunks(apply[a], status)' = Hunks(apply[a], status)
               /\ Compose(a, apply[a])' = Compose(a, apply[a])
               /\ \A p \in Places : RejectedByNow(a, p)' <=> RejectedByNow(a, p)
    BY <1>4, StaysSame DEF StaysAsDecided
  <1>5. ASSUME NEW a \in Applies, ~Opened(a), Opened(a)'
        PROVE  /\ Hunks(apply[a], "equal")' = Places
               /\ \A p \in Places : ~RejectedByNow(a, p)'
    BY <1>5 DEF Hunks, RejectedByNow
  <1>6. EditsAreOwned'
    <2> SUFFICES ASSUME NEW i \in DOMAIN edits
                 PROVE  /\ Opened(edits[i].by)' /\ apply'[edits[i].by].file = edits[i].file
                        /\ Hunks(apply[edits[i].by], "equal")' # Places
                        /\ edits[i].waiter # NoApply => Is(edits[i].waiter, "awaiting")'
                        /\ \A j \in DOMAIN edits :
                             edits[i].waiter = edits[j].waiter /\ i # j => edits[i].waiter = NoApply
      BY DEF EditsAreOwned
    <2> QED BY <1>1, <1>3, <1>4 DEF EditsAreOwned
  <1>7. ToldOnce'
    <2> SUFFICES ASSUME NEW a \in Applies, NEW p \in Places
                 PROVE  /\ rejected[a][p] = 1 => RejectedByNow(a, p)'
                        /\ \A i \in DOMAIN edits : Tells(i, a, p) =>
                             /\ RejectedByNow(a, p)' /\ rejected[a][p] = 0
                             /\ \A j \in DOMAIN edits : Tells(j, a, p) => i = j
                        /\ RejectedByNow(a, p)' => rejected[a][p] = 1 \/ \E i \in DOMAIN edits : Tells(i, a, p)
      BY DEF ToldOnce, Tells
    <2>1. RejectedByNow(a, p)' <=> RejectedByNow(a, p)
      BY <1>4, <1>5 DEF RejectedByNow
    <2> QED BY <1>1, <2>1 DEF ToldOnce
  <1>8. DecisionsShown'
    <2> SUFFICES ASSUME NEW a \in Applies, Owns(a)'
                 PROVE  /\ \A i \in DOMAIN edits :
                             IsLastOf(i, apply'[a].file) => edits[i].text = Compose(a, apply[a])'
                        /\ apply'[a].file \notin refused /\ (\A i \in DOMAIN edits : edits[i].file # apply'[a].file)
                             => document[apply'[a].file] = Compose(a, apply[a])'
      BY DEF DecisionsShown, IsLastOf
    <2>1. Opened(a)
      BY <1>5 DEF Owns
    <2>2. Owns(a)
      BY <1>4, <2>1 DEF Owns
    <2> QED BY <1>1, <1>4, <2>1, <2>2 DEF DecisionsShown
  <1> QED BY <1>6, <1>7, <1>8

\* A step of apply b that asks for an edit: its review is new, or some of its
\* pending hunks were decided.
LEMMA AskStep ==
  ASSUME ReviewInv, NEW e \in EditOf, NEW b \in Applies, edits' = Append(edits, e), e.by = b,
         UNCHANGED <<document, rejected, refused>>,
         \A a \in Applies : Opened(a)' <=> Opened(a) \/ a = b,
         \A a \in Applies : Opened(a) /\ a # b => StaysAsDecided(a),
         \A a \in Applies : Is(a, "awaiting") => Is(a, "awaiting")',
         e.waiter # NoApply => Is(e.waiter, "awaiting")' /\ ~Is(e.waiter, "awaiting"),
         apply'[b].file = e.file, e.text = Compose(b, apply[b])', Hunks(apply[b], "equal")' # Places,
         Opened(b) => apply[b].file = e.file /\ Hunks(apply[b], "equal") # Places,
         \A p \in Places : RejectedByNow(b, p)' <=> RejectedByNow(b, p) \/ p \in e.gone,
         \A p \in Places : p \in e.gone => ~RejectedByNow(b, p)
  PROVE  EditsAreOwned' /\ ToldOnce' /\ DecisionsShown'
  <1> DEFINE n == Len(edits)
  <1>1. ReviewTypes /\ EditsAreOwned /\ ToldOnce /\ DecisionsShown
    BY DEF ReviewInv
  <1>2. /\ edits \in Seq(EditOf) /\ n \in Nat /\ DOMAIN edits = 1..n
        /\ DOMAIN edits' = 1..(n + 1) /\ edits'[n + 1] = e
        /\ \A i \in 1..n : edits'[i] = edits[i]
    BY <1>1 DEF ReviewTypes
  <1> HIDE DEF n
  <1>3. /\ \A i \in 1..n : edits[i].by \in Applies /\ edits[i].waiter \in Applies \union {NoApply}
        /\ e.waiter \in Applies \union {NoApply}
    <2>1. \A i \in 1..n : edits[i] \in EditOf
      BY <1>2
    <2> QED BY <2>1 DEF EditOf
  <1>4. /\ DOMAIN edits' = DOMAIN edits \union {n + 1} /\ n + 1 \notin DOMAIN edits
        /\ \A i \in DOMAIN edits : i <= n + 1 /\ ~(n + 1 <= i)
    BY <1>2
  <1>5. ASSUME NEW a \in Applies, Opened(a), a # b
        PROVE  /\ Opened(a)' /\ apply'[a].file = apply[a].file
               /\ \A status : Hunks(apply[a], status)' = Hunks(apply[a], status)
               /\ Compose(a, apply[a])' = Compose(a, apply[a])
               /\ \A p \in Places : RejectedByNow(a, p)' <=> RejectedByNow(a, p)
    BY <1>5, StaysSame DEF StaysAsDecided
  <1>6. EditsAreOwned'
    <2> SUFFICES ASSUME NEW i \in DOMAIN edits'
                 PROVE  /\ Opened(edits[i].by)' /\ apply'[edits'[i].by].file = edits'[i].file
                        /\ Hunks(apply'[edits'[i].by], "equal") # Places
                        /\ edits'[i].waiter # NoApply => apply'[edits'[i].waiter].phase = "awaiting"
                        /\ \A j \in DOMAIN edits' :
                             edits'[i].waiter = edits'[j].waiter /\ i # j => edits'[i].waiter = NoApply
      BY DEF EditsAreOwned, Is
    <2>1. \A j \in DOMAIN edits : edits[j].waiter # NoApply => edits[j].waiter # e.waiter
      BY <1>1 DEF EditsAreOwned
    <2>2. CASE i \in DOMAIN edits
      <3>1. edits'[i] = edits[i]
        BY <1>2, <2>2
      <3>2. Opened(edits[i].by)' /\ apply'[edits'[i].by].file = edits'[i].file
        <4>1. /\ edits[i].by \in Applies /\ Opened(edits[i].by)
              /\ apply[edits[i].by].file = edits[i].file
          BY <1>1, <1>2, <1>3, <2>2 DEF EditsAreOwned
        <4>2. apply'[edits[i].by].file = edits[i].file
          BY <1>5, <4>1
        <4>3. apply'[edits[i].by].phase \in {"opening", "review", "over"}
          BY <4>1 DEF Opened
        <4> QED BY <3>1, <4>2, <4>3 DEF Opened
      <3>3. Hunks(apply'[edits'[i].by], "equal") # Places
        <4>1. edits[i].by \in Applies /\ Opened(edits[i].by) /\ Hunks(apply[edits[i].by], "equal") # Places
          BY <1>1, <1>2, <1>3, <2>2 DEF EditsAreOwned
        <4>2. CASE edits[i].by = b
          BY <3>1, <4>2
        <4>3. CASE edits[i].by # b
          <5>1. Hunks(apply'[edits[i].by], "equal") # Places
            BY <1>5, <4>1, <4>3
          <5> QED BY <3>1, <5>1
        <4> QED BY <4>2, <4>3
      <3>4. edits[i].waiter # NoApply => apply'[edits[i].waiter].phase = "awaiting"
        <4>1. edits[i].waiter # NoApply => edits[i].waiter \in Applies /\ Is(edits[i].waiter, "awaiting")
          BY <1>1, <1>2, <1>3, <2>2 DEF EditsAreOwned
        <4> QED BY <4>1 DEF Is
      <3>5. \A j \in DOMAIN edits' : edits'[i].waiter = edits'[j].waiter /\ i # j => edits'[i].waiter = NoApply
        BY <1>1, <1>2, <1>4, <2>1, <2>2 DEF EditsAreOwned
      <3> QED BY <3>1, <3>2, <3>3, <3>4, <3>5
    <2>3. CASE i = n + 1
      <3>1. edits'[i] = e
        BY <1>2, <2>3
      <3>2. \A j \in DOMAIN edits' : edits'[i].waiter = edits'[j].waiter /\ i # j => edits'[i].waiter = NoApply
        BY <1>2, <1>4, <2>1, <2>3, <3>1
      <3>3. e.waiter # NoApply => apply'[e.waiter].phase = "awaiting"
        BY DEF Is
      <3>4. /\ Hunks(apply'[b], "equal") # Places /\ apply'[b].file = e.file
            /\ apply'[b].phase \in {"opening", "review", "over"}
        BY DEF Opened
      <3> QED BY <3>1, <3>2, <3>3, <3>4 DEF Opened
    <2> QED BY <1>4, <2>2, <2>3
  <1>7. ToldOnce'
    <2> SUFFICES ASSUME NEW a \in Applies, NEW p \in Places
                 PROVE  /\ rejected[a][p] = 1 => RejectedByNow(a, p)'
                        /\ \A i \in DOMAIN edits' : edits'[i].by = a /\ p \in edits'[i].gone =>
                             /\ RejectedByNow(a, p)' /\ rejected[a][p] = 0
                             /\ \A j \in DOMAIN edits' : edits'[j].by = a /\ p \in edits'[j].gone => i = j
                        /\ RejectedByNow(a, p)' =>
                             rejected[a][p] = 1 \/ \E i \in DOMAIN edits' : edits'[i].by = a /\ p \in edits'[i].gone
      BY DEF ToldOnce, Tells
    <2>1. /\ rejected[a][p] = 1 => RejectedByNow(a, p)
          /\ \A i \in DOMAIN edits : edits[i].by = a /\ p \in edits[i].gone =>
               /\ RejectedByNow(a, p) /\ rejected[a][p] = 0
               /\ \A j \in DOMAIN edits : edits[j].by = a /\ p \in edits[j].gone => i = j
          /\ RejectedByNow(a, p) =>
               rejected[a][p] = 1 \/ \E i \in DOMAIN edits : edits[i].by = a /\ p \in edits[i].gone
      BY <1>1 DEF ToldOnce, Tells
    <2>2. rejected[a][p] \in {0, 1}
      BY <1>1 DEF ReviewTypes
    <2>3. CASE a # b
      <3>1. RejectedByNow(a, p)' <=> RejectedByNow(a, p)
        BY <1>5, <2>3 DEF RejectedByNow
      <3> QED BY <1>2, <1>4, <2>1, <2>3, <3>1
    <2>4. CASE a = b /\ p \in e.gone
      <3>1. ~RejectedByNow(a, p) /\ RejectedByNow(a, p)'
        BY <2>4
      <3> QED BY <1>2, <1>4, <2>1, <2>2, <2>4, <3>1
    <2>5. CASE a = b /\ p \notin e.gone
      <3>1. RejectedByNow(a, p)' <=> RejectedByNow(a, p)
        BY <2>5
      <3> QED BY <1>2, <1>4, <2>1, <2>5, <3>1
    <2> QED BY <2>3, <2>4, <2>5
  <1>8. DecisionsShown'
    <2> SUFFICES ASSUME NEW a \in Applies, Owns(a)'
                 PROVE  /\ \A i \in DOMAIN edits' : IsLastOf(i, apply[a].file)' => edits'[i].text = Compose(a, apply[a])'
                        /\ apply'[a].file \notin refused /\ (\A i \in DOMAIN edits' : edits'[i].file # apply'[a].file)
                             => document[apply'[a].file] = Compose(a, apply[a])'
      BY DEF DecisionsShown
    <2>1. Opened(a)' /\ \A x \in Applies : Opened(x)' /\ apply'[x].file = apply'[a].file /\ Hunks(apply[x], "equal")' # Places => x = a
      BY DEF Owns
    <2>2. CASE a = b
      <3>1. edits'[n + 1].file = apply'[a].file /\ n + 1 \in DOMAIN edits'
        BY <1>2, <1>4, <2>2
      <3>2. \A i \in DOMAIN edits' : IsLastOf(i, apply[a].file)' => i = n + 1
        BY <1>4, <3>1 DEF IsLastOf
      <3> QED BY <1>2, <2>2, <3>1, <3>2
    <2>3. CASE a # b
      <3>1. Opened(a) /\ apply'[b].file # apply'[a].file
        BY <2>1, <2>3
      <3>2. e.file # apply'[a].file
        BY <3>1
      <3>3. apply'[a].file = apply[a].file /\ Compose(a, apply[a])' = Compose(a, apply[a])
        BY <1>5, <2>3, <3>1
      <3>4. Owns(a)
        <4>1. Hunks(apply[a], "equal") # Places
          BY <1>5, <2>3, <3>1 DEF Owns
        <4>2. ASSUME NEW x \in Applies, Opened(x), apply[x].file = apply[a].file, Hunks(apply[x], "equal") # Places
              PROVE  x = a
          <5>1. x # b
            BY <3>2, <3>3, <4>2
          <5> QED BY <1>5, <2>1, <3>3, <4>2, <5>1
        <4> QED BY <3>1, <4>1, <4>2 DEF Owns
      <3>5. /\ \A i \in DOMAIN edits : IsLastOf(i, apply[a].file) => edits[i].text = Compose(a, apply[a])
            /\ apply[a].file \notin refused /\ (\A i \in DOMAIN edits : edits[i].file # apply[a].file)
                 => document[apply[a].file] = Compose(a, apply[a])
        BY <1>1, <3>4 DEF DecisionsShown
      <3>6. \A i \in DOMAIN edits' : IsLastOf(i, apply[a].file)' => i \in DOMAIN edits /\ IsLastOf(i, apply[a].file)
        BY <1>2, <1>4, <3>2, <3>3 DEF IsLastOf
      <3>7. \A i \in DOMAIN edits : i \in DOMAIN edits' /\ edits'[i] = edits[i]
        BY <1>2, <1>4
      <3> QED BY <3>3, <3>5, <3>6, <3>7
    <2> QED BY <2>2, <2>3
  <1> QED BY <1>6, <1>7, <1>8

\* The review of an edit that landed.
AfterEdit(s) == [s EXCEPT !.phase = IF @ = "opening" THEN "review" ELSE @,
                          !.resolved = @ \/ Decided(s)]

LEMMA AfterEditFacts ==
  ASSUME NEW s \in Review
  PROVE  /\ AfterEdit(s) \in Review
         /\ AfterEdit(s).phase = "over" <=> s.phase = "over"
         /\ AfterEdit(s).id = s.id /\ AfterEdit(s).applied = s.applied /\ AfterEdit(s).file = s.file
         /\ AfterEdit(s).original = s.original /\ AfterEdit(s).status = s.status
  <1> DEFINE phase == IF s.phase = "opening" THEN "review" ELSE s.phase
             resolved == s.resolved \/ Decided(s)
  <1>1. phase \in {"opening", "review", "over"} /\ (phase = "over" <=> s.phase = "over")
    BY DEF Review
  <1>2. resolved \in BOOLEAN
    OBVIOUS
  <1>3. AfterEdit(s) = [s EXCEPT !.phase = phase, !.resolved = resolved]
    BY DEF AfterEdit
  <1> HIDE DEF phase, resolved
  <1>4. AfterEdit(s) \in Review
    BY <1>1, <1>2, <1>3 DEF Review
  <1>5. /\ AfterEdit(s).phase = phase
        /\ AfterEdit(s).id = s.id /\ AfterEdit(s).applied = s.applied /\ AfterEdit(s).file = s.file
        /\ AfterEdit(s).original = s.original /\ AfterEdit(s).status = s.status
    BY <1>3 DEF Review
  <1> QED BY <1>1, <1>4, <1>5

\* What the landing of an edit does to the calls.
LEMMA LandedApply ==
  ASSUME ReviewInv, EditLands
  PROVE  LET e == Head(edits) IN
         /\ e \in EditOf /\ Opened(e.by)
         /\ apply' \in [Applies -> {NotCalled} \union Call \union Review]
         /\ \A a \in Applies : Opened(a)' <=> Opened(a)
         /\ \A a \in Applies : Opened(a) =>
              /\ StaysAsDecided(a) /\ apply'[a].id = apply[a].id
              /\ apply'[a].phase = "over" <=> apply[a].phase = "over"
              /\ apply'[a].applied = apply[a].applied
         /\ \A a \in Applies : a # e.waiter => (Is(a, "awaiting") <=> Is(a, "awaiting")')
  <1> DEFINE e == Head(edits)
  <1>1. ReviewTypes /\ EditsAreOwned
    BY DEF ReviewInv
  <1>2. edits # << >> /\ edits \in Seq(EditOf)
    BY <1>1 DEF EditLands, ReviewTypes
  <1>3. e \in EditOf /\ e = edits[1] /\ 1 \in DOMAIN edits
    BY <1>2
  <1>4. apply' = [a \in Applies |->
          CASE a = e.by -> AfterEdit(apply[a])
            [] a = e.waiter -> [apply[a] EXCEPT !.phase = "clearing"]
            [] OTHER -> apply[a]]
    BY DEF EditLands, AfterEdit
  <1> HIDE DEF e
  <1>5. /\ e.by \in Applies /\ Opened(e.by) /\ apply[e.by] \in Review
        /\ e.waiter \in Applies \union {NoApply}
        /\ e.waiter # NoApply => Is(e.waiter, "awaiting") /\ apply[e.waiter] \in Call
    <2>1. e.by \in Applies /\ e.waiter \in Applies \union {NoApply}
      BY <1>3 DEF EditOf
    <2> QED BY <1>1, <1>3, <2>1, ApplyFacts DEF EditsAreOwned
  <1>6. ASSUME NEW a \in Applies, a = e.by
        PROVE  /\ apply'[a] \in Review /\ apply[a] \in Review
               /\ StaysAsDecided(a) /\ apply'[a].id = apply[a].id
               /\ apply'[a].phase = "over" <=> apply[a].phase = "over"
               /\ apply'[a].applied = apply[a].applied
    <2>1. apply[a] \in Review
      BY <1>5, <1>6
    <2>2. e.waiter # NoApply => ~Opened(e.waiter)
      BY <1>5 DEF Is, Opened
    <2>3. a # NoApply
      BY DEF NoApply, Applies
    <2>4. a # e.waiter
      BY <1>5, <1>6, <2>2, <2>3
    <2>5. apply'[a] = AfterEdit(apply[a])
      BY <1>4, <1>6, <2>4
    <2> QED BY <2>1, <2>5, AfterEditFacts DEF StaysAsDecided
  <1>7. ASSUME NEW a \in Applies, a # e.by, a = e.waiter
        PROVE  apply'[a] \in Call /\ apply[a] \in Call /\ Is(a, "clearing")'
    <2>1. apply'[a] = [apply[a] EXCEPT !.phase = "clearing"]
      BY <1>4, <1>7
    <2>2. e.waiter # NoApply
      BY <1>7 DEF NoApply, Applies
    <2>3. apply[a] \in Call
      BY <1>5, <1>7, <2>2
    <2> QED BY <2>1, <2>3 DEF Call, Is
  <1>8. \A a \in Applies : a # e.by /\ a # e.waiter => apply'[a] = apply[a]
    BY <1>4
  <1>9. apply' \in [Applies -> {NotCalled} \union Call \union Review]
    <2>1. \A a \in Applies : apply'[a] \in {NotCalled} \union Call \union Review
      BY <1>1, <1>6, <1>7, <1>8 DEF ReviewTypes
    <2> QED BY <1>4, <2>1
  <1>10. ASSUME NEW a \in Applies PROVE Opened(a)' <=> Opened(a)
    BY <1>1, <1>6, <1>7, <1>8, ApplyFacts DEF Opened, Review, Call
  <1>11. ASSUME NEW a \in Applies, Opened(a)
         PROVE  /\ StaysAsDecided(a) /\ apply'[a].id = apply[a].id
                /\ apply'[a].phase = "over" <=> apply[a].phase = "over"
                /\ apply'[a].applied = apply[a].applied
    <2>1. CASE a = e.by
      BY <1>6, <2>1
    <2>2. CASE a # e.by
      <3>1. apply[a] \in Review /\ apply[a] \notin Call
        BY <1>1, <1>11, ApplyFacts
      <3>2. apply'[a] = apply[a]
        BY <1>7, <1>8, <2>2, <3>1
      <3> QED BY <3>2 DEF StaysAsDecided
    <2> QED BY <2>1, <2>2
  <1>12. ASSUME NEW a \in Applies, a # e.waiter PROVE Is(a, "awaiting") <=> Is(a, "awaiting")'
    <2>1. CASE a = e.by
      <3>1. apply[a] \in Review /\ apply'[a] \in Review
        BY <1>6, <2>1
      <3> QED BY <3>1 DEF Review, Is
    <2>2. CASE a # e.by
      BY <1>8, <1>12, <2>2 DEF Is
    <2> QED BY <2>1, <2>2
  <1> QED BY <1>3, <1>5, <1>9, <1>10, <1>11, <1>12 DEF e

LEMMA LandStep == ASSUME ReviewInv, EditLands PROVE ReviewInv'
  <1> DEFINE e == Head(edits)
             n == Len(edits)
  <1>1. ReviewTypes /\ EditsAreOwned /\ ToldOnce /\ DecisionsShown /\ Registered /\ AppliedAsAccepted
    BY DEF ReviewInv
  <1>2. edits # << >> /\ edits \in Seq(EditOf) /\ edits' = Tail(edits)
    BY <1>1 DEF EditLands, ReviewTypes
  <1>3. /\ n \in Nat /\ n > 0 /\ DOMAIN edits = 1..n /\ 1 \in DOMAIN edits /\ e = edits[1] /\ e \in EditOf
        /\ edits' \in Seq(EditOf) /\ DOMAIN edits' = 1..(n - 1)
        /\ \A i \in 1..(n - 1) : edits'[i] = edits[i + 1]
    BY <1>2
  <1>4. /\ \/ document' = [document EXCEPT ![e.file] = e.text] /\ refused' = refused \ {e.file}
           \/ document' = document /\ refused' = refused \union {e.file}
        /\ rejected' = [rejected EXCEPT ![e.by] = [p \in Places |-> IF p \in e.gone THEN @[p] + 1 ELSE @[p]]]
        /\ UNCHANGED <<disk, sessions>>
    BY DEF EditLands
  <1>5. /\ Opened(e.by)
        /\ apply' \in [Applies -> {NotCalled} \union Call \union Review]
        /\ \A a \in Applies : Opened(a)' <=> Opened(a)
        /\ \A a \in Applies : Opened(a) =>
             /\ StaysAsDecided(a) /\ apply'[a].id = apply[a].id
             /\ apply'[a].phase = "over" <=> apply[a].phase = "over"
             /\ apply'[a].applied = apply[a].applied
        /\ \A a \in Applies : a # e.waiter => (Is(a, "awaiting") <=> Is(a, "awaiting")')
    BY LandedApply
  <1> HIDE DEF e, n
  <1>6. /\ e.by \in Applies /\ e.file \in Files /\ e.text \in Text
        /\ \A i \in DOMAIN edits : edits[i].by \in Applies /\ edits[i].waiter \in Applies \union {NoApply}
    <2>1. \A i \in DOMAIN edits : edits[i] \in EditOf
      BY <1>2
    <2> QED BY <1>3, <2>1 DEF EditOf
  \* Positions move by one.
  <1>7. /\ \A i \in DOMAIN edits' : i + 1 \in DOMAIN edits /\ edits'[i] = edits[i + 1] /\ i + 1 # 1
        /\ \A i \in DOMAIN edits : i = 1 \/ (i - 1 \in DOMAIN edits' /\ edits'[i - 1] = edits[i] /\ (i - 1) + 1 = i)
        /\ \A i, j \in DOMAIN edits' : i # j => i + 1 # j + 1
        /\ DOMAIN edits \subseteq Nat /\ DOMAIN edits' \subseteq Nat
    BY <1>3
  <1>8. \A a \in Applies : Opened(a) =>
          /\ \A status : Hunks(apply'[a], status) = Hunks(apply[a], status)
          /\ Compose(a, apply'[a]) = Compose(a, apply[a])
          /\ \A p \in Places : RejectedByNow(a, p)' <=> RejectedByNow(a, p)
    <2> SUFFICES ASSUME NEW a \in Applies, Opened(a)
                 PROVE  /\ \A status : Hunks(apply'[a], status) = Hunks(apply[a], status)
                        /\ Compose(a, apply'[a]) = Compose(a, apply[a])
                        /\ \A p \in Places : RejectedByNow(a, p)' <=> RejectedByNow(a, p)
      OBVIOUS
    <2> QED BY <1>5, StaysSame
  <1>9. /\ rejected' \in [Applies -> [Places -> {0, 1}]]
        /\ \A a \in Applies, p \in Places :
             rejected'[a][p] = IF a = e.by /\ p \in e.gone THEN 1 ELSE rejected[a][p]
    <2>1. rejected \in [Applies -> [Places -> {0, 1}]]
      BY <1>1 DEF ReviewTypes
    <2>2. \A p \in Places : p \in e.gone => rejected[e.by][p] = 0
      BY <1>1, <1>3, <1>6 DEF ToldOnce, Tells
    <2>3. [p \in Places |-> IF p \in e.gone THEN rejected[e.by][p] + 1 ELSE rejected[e.by][p]] \in [Places -> {0, 1}]
      BY <1>6, <2>1, <2>2
    <2>4. rejected' = [rejected EXCEPT ![e.by] =
                        [p \in Places |-> IF p \in e.gone THEN rejected[e.by][p] + 1 ELSE rejected[e.by][p]]]
      BY <1>4
    <2>5. rejected' \in [Applies -> [Places -> {0, 1}]]
      BY <1>6, <2>1, <2>3, <2>4
    <2> QED BY <1>6, <2>1, <2>2, <2>4, <2>5
  <1>10. ReviewTypes'
    <2>1. document' \in [Files -> Text]
      BY <1>1, <1>4, <1>6 DEF ReviewTypes
    <2>2. refused' \subseteq Files
      BY <1>1, <1>4, <1>6 DEF ReviewTypes
    <2> QED BY <1>1, <1>3, <1>4, <1>5, <1>9, <2>1, <2>2 DEF ReviewTypes
  <1>11. Registered'
    <2> SUFFICES ASSUME NEW id \in BlockIds, sessions[id] # NoApply
                 PROVE  apply'[sessions[id]].phase \in {"opening", "review"} /\ apply'[sessions[id]].id = id
      BY <1>4 DEF Registered
    <2>1. sessions[id] \in Applies /\ apply[sessions[id]].phase \in {"opening", "review"} /\ apply[sessions[id]].id = id
      BY <1>1 DEF Registered, ReviewTypes
    <2>2. Opened(sessions[id]) /\ apply[sessions[id]].phase # "over"
      BY <2>1 DEF Opened
    <2>3. apply'[sessions[id]].phase \in {"opening", "review", "over"}
      BY <1>5, <2>1, <2>2 DEF Opened
    <2> QED BY <1>5, <2>1, <2>2, <2>3
  <1>12. AppliedAsAccepted'
    <2> SUFFICES ASSUME NEW a \in Applies, apply'[a].phase = "over"
                 PROVE  apply'[a].applied = Hunks(apply'[a], "accepted")
      BY DEF AppliedAsAccepted, Is
    <2>1. Opened(a) /\ apply[a].phase = "over"
      BY <1>5 DEF Opened
    <2> QED BY <1>1, <1>5, <1>8, <2>1 DEF AppliedAsAccepted, Is
  <1>13. EditsAreOwned'
    <2> SUFFICES ASSUME NEW i \in DOMAIN edits'
                 PROVE  /\ Opened(edits[i].by)' /\ apply'[edits'[i].by].file = edits'[i].file
                        /\ Hunks(apply'[edits'[i].by], "equal") # Places
                        /\ edits'[i].waiter # NoApply => apply'[edits'[i].waiter].phase = "awaiting"
                        /\ \A j \in DOMAIN edits' :
                             edits'[i].waiter = edits'[j].waiter /\ i # j => edits'[i].waiter = NoApply
      BY DEF EditsAreOwned, Is
    <2> DEFINE x == edits[i + 1]
    <2>1. edits'[i] = x /\ i + 1 \in DOMAIN edits
      BY <1>7
    <2>2. /\ x.by \in Applies /\ Opened(x.by) /\ apply[x.by].file = x.file /\ Hunks(apply[x.by], "equal") # Places
          /\ x.waiter \in Applies \union {NoApply}
          /\ x.waiter # NoApply => Is(x.waiter, "awaiting") /\ x.waiter # e.waiter
      BY <1>1, <1>3, <1>6, <1>7, <2>1 DEF EditsAreOwned
    <2>3. Opened(edits[i].by)'
      <3>1. apply'[x.by].phase \in {"opening", "review", "over"}
        BY <1>5, <2>2 DEF Opened
      <3> QED BY <2>1, <3>1 DEF Opened
    <2>4. apply'[x.by].file = x.file /\ Hunks(apply'[x.by], "equal") # Places
      BY <1>5, <1>8, <2>2 DEF StaysAsDecided
    <2>5. x.waiter # NoApply => apply'[x.waiter].phase = "awaiting"
      BY <1>5, <2>2 DEF Is
    <2>6. \A j \in DOMAIN edits' : edits'[i].waiter = edits'[j].waiter /\ i # j => edits'[i].waiter = NoApply
      BY <1>1, <1>7 DEF EditsAreOwned
    <2> QED BY <2>1, <2>3, <2>4, <2>5, <2>6
  <1>14. ToldOnce'
    <2> SUFFICES ASSUME NEW a \in Applies, NEW p \in Places
                 PROVE  /\ rejected'[a][p] = 1 => RejectedByNow(a, p)'
                        /\ \A i \in DOMAIN edits' : edits'[i].by = a /\ p \in edits'[i].gone =>
                             /\ RejectedByNow(a, p)' /\ rejected'[a][p] = 0
                             /\ \A j \in DOMAIN edits' : edits'[j].by = a /\ p \in edits'[j].gone => i = j
                        /\ RejectedByNow(a, p)' =>
                             rejected'[a][p] = 1 \/ \E i \in DOMAIN edits' : edits'[i].by = a /\ p \in edits'[i].gone
      BY DEF ToldOnce, Tells
    <2>1. /\ rejected[a][p] = 1 => RejectedByNow(a, p)
          /\ \A i \in DOMAIN edits : edits[i].by = a /\ p \in edits[i].gone =>
               /\ RejectedByNow(a, p) /\ rejected[a][p] = 0
               /\ \A j \in DOMAIN edits : edits[j].by = a /\ p \in edits[j].gone => i = j
          /\ RejectedByNow(a, p) =>
               rejected[a][p] = 1 \/ \E i \in DOMAIN edits : edits[i].by = a /\ p \in edits[i].gone
      BY <1>1 DEF ToldOnce, Tells
    <2>2. RejectedByNow(a, p)' <=> RejectedByNow(a, p)
      BY <1>5, <1>8 DEF RejectedByNow
    <2>3. CASE a = e.by /\ p \in e.gone
      <3>1. rejected'[a][p] = 1 /\ RejectedByNow(a, p)
        BY <1>3, <1>9, <2>1, <2>3
      <3>2. ASSUME NEW i \in DOMAIN edits', edits'[i].by = a, p \in edits'[i].gone PROVE FALSE
        <4>1. i + 1 \in DOMAIN edits /\ edits[i + 1].by = a /\ p \in edits[i + 1].gone
          BY <1>7, <3>2
        <4>2. 1 \in DOMAIN edits /\ edits[1].by = a /\ p \in edits[1].gone
          BY <1>3, <2>3
        <4>3. i + 1 = 1
          BY <2>1, <4>1, <4>2
        <4> QED BY <1>7, <4>3
      <3> QED BY <2>2, <3>1, <3>2
    <2>4. CASE ~(a = e.by /\ p \in e.gone)
      <3>1. rejected'[a][p] = rejected[a][p]
        BY <1>9, <2>4
      <3>2. \A i \in DOMAIN edits' : edits'[i].by = a /\ p \in edits'[i].gone =>
               /\ RejectedByNow(a, p) /\ rejected[a][p] = 0
               /\ \A j \in DOMAIN edits' : edits'[j].by = a /\ p \in edits'[j].gone => i = j
        BY <1>7, <2>1
      <3>3. (\E i \in DOMAIN edits : edits[i].by = a /\ p \in edits[i].gone)
              => \E i \in DOMAIN edits' : edits'[i].by = a /\ p \in edits'[i].gone
        BY <1>3, <1>7, <2>4
      <3> QED BY <2>1, <2>2, <3>1, <3>2, <3>3
    <2> QED BY <2>3, <2>4
  <1>15. DecisionsShown'
    <2> SUFFICES ASSUME NEW a \in Applies, Owns(a)'
                 PROVE  /\ \A i \in DOMAIN edits' : IsLastOf(i, apply[a].file)' => edits'[i].text = Compose(a, apply'[a])
                        /\ apply'[a].file \notin refused' /\ (\A i \in DOMAIN edits' : edits'[i].file # apply'[a].file)
                             => document'[apply'[a].file] = Compose(a, apply'[a])
      BY DEF DecisionsShown
    <2>1. Opened(a) /\ apply'[a].file = apply[a].file /\ Compose(a, apply'[a]) = Compose(a, apply[a])
      BY <1>5, <1>8 DEF Owns, StaysAsDecided
    <2>2. Owns(a)
      <3>1. Opened(a)' /\ Hunks(apply'[a], "equal") # Places
            /\ \A b \in Applies : Opened(b)' /\ apply'[b].file = apply'[a].file /\ Hunks(apply'[b], "equal") # Places => b = a
        BY DEF Owns
      <3>2. Hunks(apply[a], "equal") # Places
        BY <1>8, <2>1, <3>1
      <3>3. ASSUME NEW b \in Applies, Opened(b), apply[b].file = apply[a].file, Hunks(apply[b], "equal") # Places
            PROVE  b = a
        BY <1>5, <1>8, <2>1, <3>1, <3>3 DEF StaysAsDecided
      <3> QED BY <2>1, <3>2, <3>3 DEF Owns
    <2>3. /\ \A i \in DOMAIN edits : IsLastOf(i, apply[a].file) => edits[i].text = Compose(a, apply[a])
          /\ apply[a].file \notin refused /\ (\A i \in DOMAIN edits : edits[i].file # apply[a].file)
               => document[apply[a].file] = Compose(a, apply[a])
      BY <1>1, <2>2 DEF DecisionsShown
    <2>4. ASSUME NEW i \in DOMAIN edits', IsLastOf(i, apply[a].file)'
          PROVE  edits'[i].text = Compose(a, apply'[a])
      <3>1. edits'[i].file = apply[a].file /\ \A j \in DOMAIN edits' : edits'[j].file = apply[a].file => j <= i
        BY <2>1, <2>4 DEF IsLastOf
      <3>2. ASSUME NEW j \in DOMAIN edits, edits[j].file = apply[a].file PROVE j <= i + 1
        <4>1. j = 1 \/ j - 1 <= i
          BY <1>7, <3>1, <3>2
        <4>2. i \in Nat /\ j \in Nat
          BY <1>7
        <4> QED BY <4>1, <4>2
      <3>3. IsLastOf(i + 1, apply[a].file)
        BY <1>7, <3>1, <3>2 DEF IsLastOf
      <3> QED BY <1>7, <2>1, <2>3, <3>3
    <2>5. ASSUME apply'[a].file \notin refused', \A i \in DOMAIN edits' : edits'[i].file # apply'[a].file
          PROVE  document'[apply'[a].file] = Compose(a, apply'[a])
      <3>1. \A i \in DOMAIN edits : edits[i].file = apply[a].file => i = 1
        BY <1>7, <2>1, <2>5
      <3>2. document \in [Files -> Text]
        BY <1>1 DEF ReviewTypes
      <3>3. CASE e.file = apply[a].file
        <4>1. IsLastOf(1, apply[a].file)
          BY <1>3, <3>1, <3>3 DEF IsLastOf
        <4>2. e.text = Compose(a, apply[a])
          BY <1>3, <2>3, <4>1
        <4>3. document' = [document EXCEPT ![e.file] = e.text]
          BY <1>4, <2>1, <2>5, <3>3
        <4> QED BY <1>6, <2>1, <3>2, <3>3, <4>2, <4>3
      <3>4. CASE e.file # apply[a].file
        <4>1. \A i \in DOMAIN edits : edits[i].file # apply[a].file
          BY <1>3, <3>1, <3>4
        <4>2. apply[a].file \notin refused
          BY <1>4, <2>1, <2>5, <3>4
        <4>3. document[apply[a].file] = Compose(a, apply[a])
          BY <2>3, <4>1, <4>2
        <4>4. apply[a] \in Review
          BY <1>1, <2>1, ApplyFacts
        <4>5. apply[a].file \in Files
          BY <4>4 DEF Review
        <4> QED BY <1>4, <2>1, <3>2, <3>4, <4>3, <4>5
      <3> QED BY <3>3, <3>4
    <2> QED BY <2>4, <2>5
  <1> QED BY <1>10, <1>11, <1>12, <1>13, <1>14, <1>15 DEF ReviewInv

\* The review of b with every pending hunk decided alike.
AllDecided(s, status) ==
  [s EXCEPT !.status = [p \in Places |-> IF @[p] = "pending" THEN status ELSE @[p]]]

LEMMA AllDecidedFacts ==
  ASSUME NEW s \in Review, NEW status \in {"accepted", "rejected"}
  PROVE  LET x == AllDecided(s, status) IN
         /\ x \in Review
         /\ x.phase = s.phase /\ x.id = s.id /\ x.applied = s.applied /\ x.file = s.file
         /\ \A p \in Places : x.status[p] = IF s.status[p] = "pending" THEN status ELSE s.status[p]
  <1> DEFINE statuses == [p \in Places |-> IF s.status[p] = "pending" THEN status ELSE s.status[p]]
             x == AllDecided(s, status)
  <1>1. s.status \in [Places -> Statuses]
    BY DEF Review
  <1>2. statuses \in [Places -> Statuses]
    BY <1>1 DEF Statuses
  <1>3. x = [s EXCEPT !.status = statuses]
    BY DEF AllDecided
  <1>4. \A p \in Places : statuses[p] = IF s.status[p] = "pending" THEN status ELSE s.status[p]
    OBVIOUS
  <1> HIDE DEF statuses, x
  <1>5. x \in Review /\ x.status = statuses
    BY <1>2, <1>3 DEF Review
  <1>6. x.phase = s.phase /\ x.id = s.id /\ x.applied = s.applied /\ x.file = s.file
    BY <1>3 DEF Review
  <1> QED BY <1>4, <1>5, <1>6 DEF x

\* One hunk decided.
HunkDecided(s, p, status) == [s EXCEPT !.status[p] = status]
DecidesHunk(s, p, status, x) ==
  /\ x \in Review
  /\ x.phase = s.phase /\ x.id = s.id /\ x.applied = s.applied /\ x.file = s.file
  /\ \A q \in Places : x.status[q] = IF q = p THEN status ELSE s.status[q]

LEMMA HunkDecidedFacts ==
  ASSUME NEW s \in Review, NEW p \in Places, NEW status \in {"accepted", "rejected"}
  PROVE  DecidesHunk(s, p, status, HunkDecided(s, p, status))
  <1> DEFINE statuses == [s.status EXCEPT ![p] = status]
             x == HunkDecided(s, p, status)
  <1>1. s.status \in [Places -> Statuses]
    BY DEF Review
  <1>2. statuses \in [Places -> Statuses]
    BY <1>1 DEF Statuses
  <1>3. x = [s EXCEPT !.status = statuses]
    BY DEF HunkDecided
  <1>4. \A q \in Places : statuses[q] = IF q = p THEN status ELSE s.status[q]
    BY <1>1
  <1> HIDE DEF statuses, x
  <1>5. x \in Review /\ x.status = statuses
    BY <1>2, <1>3 DEF Review
  <1>6. x.phase = s.phase /\ x.id = s.id /\ x.applied = s.applied /\ x.file = s.file
    BY <1>3 DEF Review
  <1>7. DecidesHunk(s, p, status, x)
    BY <1>4, <1>5, <1>6 DEF DecidesHunk
  <1> QED BY <1>7 DEF x

\* A decision makes x of the review of b and asks for the edit, on top of what
\* the apply that waits for it, if one does, did to its own call.
Decision(calls, b, x, gone, waiter) ==
  /\ apply' = [calls EXCEPT ![b] = x] /\ edits' = Append(edits, Edit(b, x, gone, waiter))
  /\ UNCHANGED <<disk, document, sessions, rejected, refused>>
  /\ apply[b] \in Review
  /\ Is(b, "opening") \/ Is(b, "review")
  /\ x.phase = apply[b].phase /\ x.id = apply[b].id /\ x.file = apply[b].file
  /\ \E p \in Places : apply[b].status[p] # "equal"
  /\ \A p \in Places : (x.status[p] = "equal") <=> (apply[b].status[p] = "equal")
  /\ \A p \in Places : x.status[p] = "rejected" <=> apply[b].status[p] = "rejected" \/ p \in gone
  /\ \A p \in gone : apply[b].status[p] # "rejected"
  /\ \A a \in Applies : a # waiter => calls[a] = apply[a]
  /\ waiter # NoApply => /\ Is(waiter, "clearing") /\ calls[waiter] \in Call
                         /\ calls[waiter].phase = "awaiting"

LEMMA DecisionStep ==
  ASSUME ReviewInv, NEW calls \in [Applies -> {NotCalled} \union Call \union Review],
         NEW b \in Applies, NEW x \in Review, NEW gone \in SUBSET Places,
         NEW waiter \in Applies \union {NoApply}, Decision(calls, b, x, gone, waiter)
  PROVE  ReviewInv'
  <1> USE DEF Decision
  <1> DEFINE e == Edit(b, x, gone, waiter)
  <1>1. ReviewTypes /\ Registered /\ AppliedAsAccepted
    BY DEF ReviewInv
  <1>2. /\ e \in EditOf /\ e.file = x.file /\ e.by = b /\ e.gone = gone /\ e.waiter = waiter
        /\ e.text = Compose(b, x)
    BY EditMade
  <1> HIDE DEF e
  <1>3. waiter # b
    BY DEF Is, NoApply, Applies
  <1>4. /\ apply'[b] = x
        /\ waiter # NoApply => waiter \in Applies /\ apply'[waiter] = calls[waiter]
        /\ \A a \in Applies : a # b /\ a # waiter => apply'[a] = apply[a]
        /\ apply' \in [Applies -> {NotCalled} \union Call \union Review]
    BY <1>3
  <1>5. waiter # NoApply => apply[waiter] \in Call
    BY <1>1, <1>4, ApplyFacts
  <1>6. ReviewTypes'
    <2>1. edits' \in Seq(EditOf)
      BY <1>1, <1>2 DEF ReviewTypes, e
    <2> QED BY <1>1, <1>4, <2>1 DEF ReviewTypes
  <1>7. \A a \in Applies : Opened(a)' <=> Opened(a)
    <2> SUFFICES ASSUME NEW a \in Applies PROVE Opened(a)' <=> Opened(a)
      OBVIOUS
    <2>1. CASE a = b
      BY <1>4, <2>1 DEF Opened
    <2>2. CASE a = waiter
      <3>1. waiter # NoApply
        BY <2>2 DEF NoApply, Applies
      <3>2. apply'[a].phase = "awaiting" /\ apply[a].phase = "clearing"
        BY <1>4, <2>2, <3>1 DEF Is
      <3> QED BY <3>2 DEF Opened
    <2>3. CASE a # b /\ a # waiter
      BY <1>4, <2>3 DEF Opened
    <2> QED BY <2>1, <2>2, <2>3
  <1>8. ASSUME NEW a \in Applies, Opened(a), a # b PROVE apply'[a] = apply[a]
    <2>1. a # waiter
      <3>1. a # NoApply
        BY DEF NoApply, Applies
      <3> QED BY <1>8, <3>1 DEF Opened, Is
    <2> QED BY <1>4, <1>8, <2>1
  <1>9. Opened(b) /\ apply[b].phase # "over"
    BY DEF Opened, Is
  <1>10. Registered'
    <2> SUFFICES ASSUME NEW id \in BlockIds, sessions[id] # NoApply
                 PROVE  apply'[sessions[id]].phase \in {"opening", "review"} /\ apply'[sessions[id]].id = id
      BY DEF Registered
    <2>1. sessions[id] \in Applies /\ apply[sessions[id]].phase \in {"opening", "review"} /\ apply[sessions[id]].id = id
      BY <1>1 DEF Registered, ReviewTypes
    <2>2. Opened(sessions[id])
      BY <2>1 DEF Opened
    <2>3. CASE sessions[id] = b
      BY <1>4, <2>1, <2>3
    <2>4. CASE sessions[id] # b
      BY <1>8, <2>1, <2>2, <2>4
    <2> QED BY <2>3, <2>4
  <1>11. AppliedAsAccepted'
    <2> SUFFICES ASSUME NEW a \in Applies, apply'[a].phase = "over"
                 PROVE  apply'[a].applied = Hunks(apply'[a], "accepted")
      BY DEF AppliedAsAccepted, Is
    <2>1. a # b
      BY <1>4, <1>9
    <2>2. Opened(a)
      <3>1. Opened(a)'
        BY DEF Opened
      <3> QED BY <1>7, <3>1
    <2>3. apply'[a] = apply[a]
      BY <1>8, <2>1, <2>2
    <2> QED BY <1>1, <2>3 DEF AppliedAsAccepted, Is
  <1>12. EditsAreOwned' /\ ToldOnce' /\ DecisionsShown'
    <2>1. \A a \in Applies : Opened(a)' <=> Opened(a) \/ a = b
      BY <1>7, <1>9
    <2>2. \A a \in Applies : Opened(a) /\ a # b => StaysAsDecided(a)
      BY <1>8 DEF StaysAsDecided
    <2>3. \A a \in Applies : Is(a, "awaiting") => Is(a, "awaiting")'
      <3> SUFFICES ASSUME NEW a \in Applies, Is(a, "awaiting") PROVE apply'[a].phase = "awaiting"
        BY DEF Is
      <3>1. a # NoApply /\ a # b
        BY DEF NoApply, Applies, Is
      <3>2. CASE a = waiter
        BY <1>4, <3>1, <3>2
      <3>3. CASE a # waiter
        BY <1>4, <3>1, <3>3 DEF Is
      <3> QED BY <3>2, <3>3
    <2>4. e.waiter # NoApply => Is(e.waiter, "awaiting")' /\ ~Is(e.waiter, "awaiting")
      <3>1. waiter # NoApply => Is(waiter, "awaiting")' /\ ~Is(waiter, "awaiting")
        BY <1>4 DEF Is
      <3> QED BY <1>2, <3>1
    <2>5. Hunks(apply'[b], "equal") # Places /\ Hunks(apply[b], "equal") # Places
      BY <1>4 DEF Hunks
    <2>6. \A p \in Places : RejectedByNow(b, p)' <=> RejectedByNow(b, p) \/ p \in e.gone
      BY <1>2, <1>4, <1>7, <1>9 DEF RejectedByNow
    <2>7. \A p \in Places : p \in e.gone => ~RejectedByNow(b, p)
      BY <1>2 DEF RejectedByNow
    <2>8. apply'[b].file = e.file /\ apply[b].file = e.file /\ e.text = Compose(b, apply'[b])
      BY <1>2, <1>4
    <2>9. edits' = Append(edits, e) /\ e.by = b
      BY <1>2 DEF e
    <2> QED BY <1>2, <2>1, <2>2, <2>3, <2>4, <2>5, <2>6, <2>7, <2>8, <2>9, AskStep
  <1> QED BY <1>6, <1>10, <1>11, <1>12 DEF ReviewInv

\* A step that only calls still before their review, files on disk or the
\* resolution of a review are touched by.
LEMMA CallsStep ==
  ASSUME ReviewInv, disk' \in [Files -> Text], apply' \in [Applies -> {NotCalled} \union Call \union Review],
         UNCHANGED <<document, edits, rejected, refused, sessions>>,
         \A a \in Applies : Opened(a)' <=> Opened(a),
         \A a \in Applies : Opened(a) =>
           /\ StaysAsDecided(a) /\ apply'[a].id = apply[a].id
           /\ apply'[a].phase = apply[a].phase /\ apply'[a].applied = apply[a].applied,
         \A a \in Applies : Is(a, "awaiting") => Is(a, "awaiting")'
  PROVE  ReviewInv'
  <1>1. ReviewTypes /\ Registered /\ AppliedAsAccepted
    BY DEF ReviewInv
  <1>2. ReviewTypes'
    BY <1>1 DEF ReviewTypes
  <1>3. EditsAreOwned' /\ ToldOnce' /\ DecisionsShown'
    BY QuietStep
  <1>4. Registered'
    <2> SUFFICES ASSUME NEW id \in BlockIds, sessions[id] # NoApply
                 PROVE  apply'[sessions[id]].phase \in {"opening", "review"} /\ apply'[sessions[id]].id = id
      BY DEF Registered
    <2>1. sessions[id] \in Applies /\ apply[sessions[id]].phase \in {"opening", "review"} /\ apply[sessions[id]].id = id
      BY <1>1 DEF Registered, ReviewTypes
    <2>2. Opened(sessions[id])
      BY <2>1 DEF Opened
    <2> QED BY <2>1, <2>2
  <1>5. AppliedAsAccepted'
    <2> SUFFICES ASSUME NEW a \in Applies, apply'[a].phase = "over"
                 PROVE  apply'[a].applied = Hunks(apply'[a], "accepted")
      BY DEF AppliedAsAccepted, Is
    <2>1. Opened(a)
      <3>1. Opened(a)'
        BY DEF Opened
      <3> QED BY <3>1
    <2>2. Hunks(apply'[a], "accepted") = Hunks(apply[a], "accepted")
      BY <2>1 DEF StaysAsDecided, Hunks
    <2> QED BY <1>1, <2>1, <2>2 DEF AppliedAsAccepted, Is
  <1> QED BY <1>2, <1>3, <1>4, <1>5 DEF ReviewInv

LEMMA PressApplyStep == ASSUME ReviewInv, PressApply PROVE ReviewInv'
  <1>1. ReviewTypes
    BY DEF ReviewInv
  <1>2. PICK a \in Applies, id \in BlockIds, f \in Files, changes \in SUBSET Places :
          /\ Is(a, "none")
          /\ apply' = [apply EXCEPT ![a] =
               [phase |-> "clearing", id |-> id, file |-> f, changes |-> changes,
                todo |-> {i \in BlockIds \ {id} : sessions[i] # NoApply /\ apply[sessions[i]].file = f}]]
          /\ UNCHANGED <<disk, document, sessions, edits, rejected, refused>>
    BY DEF PressApply
  <1> DEFINE todo == {i \in BlockIds \ {id} : sessions[i] # NoApply /\ apply[sessions[i]].file = f}
             call == [phase |-> "clearing", id |-> id, file |-> f, changes |-> changes, todo |-> todo]
  <1>3. todo \in SUBSET BlockIds
    OBVIOUS
  <1> HIDE DEF todo
  <1>4. call \in Call /\ call.phase = "clearing"
    BY <1>3 DEF Call
  <1>5. apply' = [apply EXCEPT ![a] = call]
    BY <1>2 DEF todo
  <1> HIDE DEF call
  <1>6. apply' \in [Applies -> {NotCalled} \union Call \union Review]
    BY <1>1, <1>4, <1>5 DEF ReviewTypes
  <1>7. apply'[a] = call /\ \A b \in Applies : b # a => apply'[b] = apply[b]
    BY <1>1, <1>5 DEF ReviewTypes
  <1>8. ~Opened(a) /\ ~Is(a, "awaiting") /\ ~(Opened(a)')
    BY <1>2, <1>4, <1>7 DEF Opened, Is
  <1>9. \A b \in Applies : Opened(b)' <=> Opened(b)
    <2> SUFFICES ASSUME NEW b \in Applies PROVE Opened(b)' <=> Opened(b)
      OBVIOUS
    <2> QED BY <1>7, <1>8 DEF Opened
  <1>10. \A b \in Applies : Opened(b) =>
           /\ StaysAsDecided(b) /\ apply'[b].id = apply[b].id
           /\ apply'[b].phase = apply[b].phase /\ apply'[b].applied = apply[b].applied
    BY <1>7, <1>8 DEF StaysAsDecided
  <1>11. \A b \in Applies : Is(b, "awaiting") => Is(b, "awaiting")'
    BY <1>7, <1>8 DEF Is
  <1>12. disk' \in [Files -> Text]
    BY <1>1, <1>2 DEF ReviewTypes
  <1> QED BY <1>2, <1>6, <1>9, <1>10, <1>11, <1>12, CallsStep

LEMMA SaveFileStep == ASSUME ReviewInv, SaveFile PROVE ReviewInv'
  <1>1. ReviewTypes
    BY DEF ReviewInv
  <1>2. PICK f \in Files : /\ disk' = [disk EXCEPT ![f] = document[f]]
                           /\ UNCHANGED <<document, apply, sessions, edits, rejected, refused>>
    BY DEF SaveFile
  <1>3. disk' \in [Files -> Text] /\ apply' \in [Applies -> {NotCalled} \union Call \union Review]
    BY <1>1, <1>2 DEF ReviewTypes
  <1>4. \A b \in Applies : Opened(b)' <=> Opened(b)
    BY <1>2 DEF Opened
  <1>5. \A b \in Applies : StaysAsDecided(b)
    BY <1>2 DEF StaysAsDecided
  <1>6. \A b \in Applies : Is(b, "awaiting") => Is(b, "awaiting")'
    BY <1>2 DEF Is
  <1> QED BY <1>2, <1>3, <1>4, <1>5, <1>6, CallsStep

\* The answer to a decision on a review that has nothing left to decide.
LEMMA ResolutionStep ==
  ASSUME ReviewInv, NEW calls \in [Applies -> {NotCalled} \union Call \union Review],
         NEW b \in Applies, apply' = [calls EXCEPT ![b].resolved = TRUE],
         UNCHANGED <<disk, document, sessions, edits, rejected, refused>>,
         Opened(b), calls[b] = apply[b],
         \A a \in Applies : calls[a] = apply[a] \/
            (calls[a] \in Call /\ apply[a] \in Call /\ calls[a].phase = apply[a].phase)
  PROVE  ReviewInv'
  <1>1. ReviewTypes
    BY DEF ReviewInv
  <1>2. apply[b] \in Review
    BY <1>1, ApplyFacts
  <1> DEFINE x == [apply[b] EXCEPT !.resolved = TRUE]
  <1>3. x \in Review
    BY <1>2 DEF Review
  <1>4. /\ x.id = apply[b].id /\ x.phase = apply[b].phase /\ x.applied = apply[b].applied
        /\ x.file = apply[b].file /\ x.original = apply[b].original /\ x.status = apply[b].status
    BY <1>2 DEF Review
  <1>5. apply' = [calls EXCEPT ![b] = x]
    OBVIOUS
  <1> HIDE DEF x
  <1>6. apply' \in [Applies -> {NotCalled} \union Call \union Review]
    BY <1>3, <1>5
  <1>7. apply'[b] = x /\ \A a \in Applies : a # b => apply'[a] = calls[a]
    BY <1>5
  <1>8. ASSUME NEW a \in Applies
        PROVE  /\ apply'[a].phase = apply[a].phase
               /\ Opened(a) => /\ StaysAsDecided(a) /\ apply'[a].id = apply[a].id
                               /\ apply'[a].applied = apply[a].applied
    <2>1. CASE a = b
      BY <1>4, <1>7, <2>1 DEF StaysAsDecided
    <2>2. CASE a # b /\ calls[a] = apply[a]
      BY <1>7, <2>2 DEF StaysAsDecided
    <2>3. CASE a # b /\ calls[a] # apply[a]
      <3>1. apply[a] \in Call /\ apply'[a].phase = apply[a].phase
        BY <1>7, <2>3
      <3>2. ~Opened(a)
        BY <3>1 DEF Call, Opened
      <3> QED BY <3>1, <3>2
    <2> QED BY <2>1, <2>2, <2>3
  <1>9. /\ \A a \in Applies : Opened(a)' <=> Opened(a)
        /\ \A a \in Applies : Is(a, "awaiting") => Is(a, "awaiting")'
    BY <1>8 DEF Opened, Is
  <1>10. disk' \in [Files -> Text]
    BY <1>1 DEF ReviewTypes
  <1> QED BY <1>6, <1>8, <1>9, <1>10, CallsStep

\* A session is of a review that is not over.
LEMMA SessionFacts ==
  ASSUME ReviewInv, NEW id \in BlockIds, sessions[id] # NoApply
  PROVE  /\ sessions[id] \in Applies /\ apply[sessions[id]] \in Review /\ Opened(sessions[id])
         /\ Is(sessions[id], "opening") \/ Is(sessions[id], "review")
  <1>1. ReviewTypes /\ Registered
    BY DEF ReviewInv
  <1>2. sessions[id] \in Applies /\ apply[sessions[id]].phase \in {"opening", "review"}
    BY <1>1 DEF Registered, ReviewTypes
  <1>3. Opened(sessions[id])
    BY <1>2 DEF Opened
  <1> QED BY <1>1, <1>2, <1>3, ApplyFacts DEF Is

\* All the hunks of one review decided alike.
LEMMA ResolveAllStep ==
  ASSUME ReviewInv, NEW calls \in [Applies -> {NotCalled} \union Call \union Review],
         NEW b \in Applies, NEW status \in {"accepted", "rejected"}, NEW waiter \in Applies \union {NoApply},
         ResolveAll(b, status, waiter, calls),
         UNCHANGED <<disk, document, sessions, rejected, refused>>,
         apply[b] \in Review, Is(b, "opening") \/ Is(b, "review"), calls[b] = apply[b],
         \A a \in Applies : a # waiter => calls[a] = apply[a],
         waiter # NoApply => /\ Is(waiter, "clearing") /\ calls[waiter] \in Call
                             /\ calls[waiter].phase = IF Decided(apply[b]) THEN "clearing" ELSE "awaiting"
  PROVE  ReviewInv'
  <1> DEFINE x == AllDecided(apply[b], status)
             gone == IF status = "rejected" THEN Hunks(apply[b], "pending") ELSE {}
  <1>0. ReviewTypes
    BY DEF ReviewInv
  <1>1. CASE Decided(apply[b])
    <2>1. apply' = [calls EXCEPT ![b].resolved = TRUE] /\ UNCHANGED edits
      BY <1>1 DEF ResolveAll
    <2>2. ASSUME NEW a \in Applies
          PROVE  calls[a] = apply[a] \/ (calls[a] \in Call /\ apply[a] \in Call /\ calls[a].phase = apply[a].phase)
      <3>1. CASE a # waiter
        BY <3>1
      <3>2. CASE a = waiter
        <4>1. waiter # NoApply
          BY <3>2 DEF NoApply, Applies
        <4> QED BY <1>0, <1>1, <3>2, <4>1, ApplyFacts DEF Is
      <3> QED BY <3>1, <3>2
    <2>3. Opened(b)
      BY DEF Opened, Is
    <2> QED BY <2>1, <2>2, <2>3, ResolutionStep
  <1>2. CASE ~Decided(apply[b])
    <2>1. apply' = [calls EXCEPT ![b] = x] /\ edits' = Append(edits, Edit(b, x, gone, waiter))
      BY <1>2 DEF ResolveAll, AllDecided
    <2>2. /\ x \in Review
          /\ x.phase = apply[b].phase /\ x.id = apply[b].id /\ x.file = apply[b].file
          /\ \A p \in Places : x.status[p] = IF apply[b].status[p] = "pending" THEN status ELSE apply[b].status[p]
      BY AllDecidedFacts
    <2>3. /\ gone \in SUBSET Places
          /\ \A p \in Places : p \in gone <=> status = "rejected" /\ apply[b].status[p] = "pending"
      BY DEF Hunks
    <2>4. \E p \in Places : apply[b].status[p] # "equal"
      BY <1>2 DEF Decided, Hunks
    <2> HIDE DEF x, gone
    <2>5. \A p \in Places : (x.status[p] = "equal") <=> (apply[b].status[p] = "equal")
      BY <2>2
    <2>6. \A p \in Places : x.status[p] = "rejected" <=> apply[b].status[p] = "rejected" \/ p \in gone
      BY <2>2, <2>3
    <2>7. \A p \in gone : apply[b].status[p] # "rejected"
      BY <2>3
    <2>8. waiter # NoApply => /\ Is(waiter, "clearing") /\ calls[waiter] \in Call
                              /\ calls[waiter].phase = "awaiting"
      BY <1>2
    <2>9. Decision(calls, b, x, gone, waiter)
      BY <2>1, <2>2, <2>4, <2>5, <2>6, <2>7, <2>8 DEF Decision
    <2>10. x \in Review /\ gone \in SUBSET Places
      BY <2>2, <2>3
    <2> QED BY <2>9, <2>10, DecisionStep
  <1> QED BY <1>1, <1>2

LEMMA DecideFileStep == ASSUME ReviewInv, DecideFile PROVE ReviewInv'
  <1>1. PICK id \in BlockIds, status \in {"accepted", "rejected"} :
          /\ sessions[id] # NoApply /\ ResolveAll(sessions[id], status, NoApply, apply)
          /\ UNCHANGED <<disk, document, sessions, rejected, refused>>
    BY DEF DecideFile
  <1>2. apply \in [Applies -> {NotCalled} \union Call \union Review]
    BY DEF ReviewInv, ReviewTypes
  <1> DEFINE b == sessions[id]
  <1>3. b \in Applies /\ apply[b] \in Review /\ (Is(b, "opening") \/ Is(b, "review"))
    BY <1>1, SessionFacts
  <1>4. ResolveAll(b, status, NoApply, apply)
    BY <1>1
  <1> HIDE DEF b
  <1> QED BY <1>1, <1>2, <1>3, <1>4, ResolveAllStep

LEMMA DecideHunkStep == ASSUME ReviewInv, DecideHunk PROVE ReviewInv'
  <1>1. PICK id \in BlockIds, p \in Places, status \in {"accepted", "rejected"} :
          LET a == sessions[id]
              s == [apply[a] EXCEPT !.status[p] = status]
          IN  /\ a # NoApply /\ apply[a].status[p] = "pending"
              /\ apply' = [apply EXCEPT ![a] = s]
              /\ edits' = Append(edits, Edit(a, s, IF status = "rejected" THEN {p} ELSE {}, NoApply))
              /\ UNCHANGED <<disk, document, sessions, rejected, refused>>
    BY DEF DecideHunk
  <1>2. apply \in [Applies -> {NotCalled} \union Call \union Review]
    BY DEF ReviewInv, ReviewTypes
  <1> DEFINE b == sessions[id]
             x == HunkDecided(apply[b], p, status)
             gone == IF status = "rejected" THEN {p} ELSE {}
  <1>3. b \in Applies /\ apply[b] \in Review /\ (Is(b, "opening") \/ Is(b, "review"))
    BY <1>1, SessionFacts
  <1>4. /\ apply[b].status[p] = "pending" /\ apply' = [apply EXCEPT ![b] = x]
        /\ edits' = Append(edits, Edit(b, x, gone, NoApply))
        /\ UNCHANGED <<disk, document, sessions, rejected, refused>>
    BY <1>1 DEF HunkDecided
  <1>5. gone \in SUBSET Places /\ \A q \in Places : q \in gone <=> status = "rejected" /\ q = p
    OBVIOUS
  <1> HIDE DEF b
  <1>6. /\ x \in Review
        /\ x.phase = apply[b].phase /\ x.id = apply[b].id /\ x.file = apply[b].file
        /\ \A q \in Places : x.status[q] = IF q = p THEN status ELSE apply[b].status[q]
    <2> DEFINE s == apply[b]
    <2>1. s \in Review /\ p \in Places /\ status \in {"accepted", "rejected"}
      BY <1>1, <1>3
    <2> HIDE DEF s
    <2>2. DecidesHunk(s, p, status, HunkDecided(s, p, status))
      BY <2>1, HunkDecidedFacts
    <2>3. DecidesHunk(s, p, status, x)
      BY <2>2 DEF s
    <2> HIDE DEF x
    <2> QED BY <2>3 DEF s, DecidesHunk
  <1> HIDE DEF x, gone
  <1>7. \E q \in Places : apply[b].status[q] # "equal"
    BY <1>4
  <1>8. /\ \A q \in Places : (x.status[q] = "equal") <=> (apply[b].status[q] = "equal")
        /\ \A q \in Places : x.status[q] = "rejected" <=> apply[b].status[q] = "rejected" \/ q \in gone
        /\ \A q \in gone : apply[b].status[q] # "rejected"
    BY <1>4, <1>5, <1>6
  <1>9. Decision(apply, b, x, gone, NoApply)
    BY <1>3, <1>4, <1>6, <1>7, <1>8 DEF Decision
  <1> QED BY <1>2, <1>3, <1>5, <1>6, <1>9, DecisionStep

LEMMA RejectOlderStep ==
  ASSUME ReviewInv, NEW a \in Applies, RejectOlder(a)
  PROVE  ReviewInv'
  <1>1. ReviewTypes /\ Is(a, "clearing") /\ UNCHANGED <<disk, document, sessions, rejected, refused>>
    BY DEF ReviewInv, RejectOlder
  <1>2. apply[a] \in Call /\ apply \in [Applies -> {NotCalled} \union Call \union Review]
    BY <1>1, ApplyFacts DEF ReviewTypes
  <1>3. PICK id \in apply[a].todo :
          LET old == sessions[id]
              calls == [apply EXCEPT ![a].todo = @ \ {id},
                                     ![a].phase = IF old = NoApply \/ Decided(apply[old])
                                                  THEN "clearing" ELSE "awaiting"]
          IN  IF old = NoApply THEN apply' = calls /\ UNCHANGED edits
                               ELSE ResolveAll(old, "rejected", a, calls)
    BY DEF RejectOlder
  <1>4. id \in BlockIds
    BY <1>2, <1>3 DEF Call
  <1> DEFINE old == sessions[id]
             phase == IF old = NoApply \/ Decided(apply[old]) THEN "clearing" ELSE "awaiting"
             c == [apply[a] EXCEPT !.todo = @ \ {id}, !.phase = phase]
             calls == [apply EXCEPT ![a] = c]
  <1>5. IF old = NoApply THEN apply' = calls /\ UNCHANGED edits ELSE ResolveAll(old, "rejected", a, calls)
    <2>1. calls = [apply EXCEPT ![a].todo = @ \ {id},
                               ![a].phase = IF old = NoApply \/ Decided(apply[old]) THEN "clearing" ELSE "awaiting"]
      BY <1>2
    <2> QED BY <1>3, <2>1
  <1>6. /\ phase \in {"clearing", "awaiting"}
        /\ old = NoApply => phase = "clearing"
        /\ old # NoApply => phase = IF Decided(apply[old]) THEN "clearing" ELSE "awaiting"
    OBVIOUS
  <1> HIDE DEF phase
  <1>7. c \in Call /\ c.phase = phase
    BY <1>2, <1>6 DEF Call
  <1> HIDE DEF c
  <1>8. /\ calls \in [Applies -> {NotCalled} \union Call \union Review]
        /\ calls[a] = c /\ \A x \in Applies : x # a => calls[x] = apply[x]
    BY <1>2, <1>7
  <1> HIDE DEF calls, old
  <1>9. CASE old = NoApply
    <2>1. apply' = calls /\ UNCHANGED edits
      BY <1>5, <1>9
    <2>2. ~Opened(a) /\ ~(Opened(a)') /\ ~Is(a, "awaiting")
      BY <1>1, <1>2, <1>6, <1>7, <1>8, <1>9, <2>1 DEF Opened, Is, Call
    <2>3. \A x \in Applies : Opened(x)' <=> Opened(x)
      <3> SUFFICES ASSUME NEW x \in Applies PROVE Opened(x)' <=> Opened(x)
        OBVIOUS
      <3>1. CASE x = a
        BY <2>2, <3>1
      <3>2. CASE x # a
        BY <1>8, <2>1, <3>2 DEF Opened
      <3> QED BY <3>1, <3>2
    <2>4. \A x \in Applies : Opened(x) =>
            /\ StaysAsDecided(x) /\ apply'[x].id = apply[x].id
            /\ apply'[x].phase = apply[x].phase /\ apply'[x].applied = apply[x].applied
      BY <1>8, <2>1, <2>2 DEF StaysAsDecided
    <2>5. \A x \in Applies : Is(x, "awaiting") => Is(x, "awaiting")'
      BY <1>8, <2>1, <2>2 DEF Is
    <2>6. disk' \in [Files -> Text] /\ apply' \in [Applies -> {NotCalled} \union Call \union Review]
      BY <1>1, <1>8, <2>1 DEF ReviewTypes
    <2> QED BY <1>1, <2>1, <2>3, <2>4, <2>5, <2>6, CallsStep
  <1>10. CASE old # NoApply
    <2>1. ResolveAll(old, "rejected", a, calls)
      BY <1>5, <1>10
    <2>2. old \in Applies /\ apply[old] \in Review /\ (Is(old, "opening") \/ Is(old, "review"))
      BY <1>4, <1>10, SessionFacts DEF old
    <2>3. old # a
      BY <1>1, <2>2 DEF Is
    <2>4. calls[old] = apply[old]
      BY <1>8, <2>2, <2>3
    <2>5. a \in Applies \union {NoApply} /\ "rejected" \in {"accepted", "rejected"}
      OBVIOUS
    <2>6. /\ Is(a, "clearing") /\ calls[a] \in Call
          /\ calls[a].phase = IF Decided(apply[old]) THEN "clearing" ELSE "awaiting"
      BY <1>1, <1>6, <1>7, <1>8, <1>10
    <2> QED BY <1>1, <1>8, <2>1, <2>2, <2>4, <2>5, <2>6, ResolveAllStep
  <1> QED BY <1>9, <1>10

\* The call of apply a is over with the review x, and its id is free: it had
\* nothing to review, or its review ends as it stands.
LEMMA OverStep ==
  ASSUME ReviewInv, NEW a \in Applies, NEW x \in Review, apply' = [apply EXCEPT ![a] = x],
         sessions' = [sessions EXCEPT ![x.id] = NoApply], UNCHANGED <<disk, document, edits, rejected, refused>>,
         x.phase = "over", x.applied = Hunks(x, "accepted"),
         ~Is(a, "awaiting"),
         Opened(a) => /\ x.id = apply[a].id /\ x.file = apply[a].file
                      /\ x.original = apply[a].original /\ x.status = apply[a].status,
         ~Opened(a) => x.status = [p \in Places |-> "equal"]
  PROVE  ReviewInv'
  <1>1. ReviewTypes /\ Registered /\ AppliedAsAccepted
    BY DEF ReviewInv
  <1>2. /\ apply \in [Applies -> {NotCalled} \union Call \union Review]
        /\ sessions \in [BlockIds -> Applies \union {NoApply}] /\ x.id \in BlockIds
    BY <1>1 DEF ReviewTypes, Review
  <1>3. /\ apply' \in [Applies -> {NotCalled} \union Call \union Review]
        /\ apply'[a] = x /\ \A b \in Applies : b # a => apply'[b] = apply[b]
        /\ sessions' \in [BlockIds -> Applies \union {NoApply}]
        /\ sessions'[x.id] = NoApply /\ \A id \in BlockIds : id # x.id => sessions'[id] = sessions[id]
    BY <1>2
  <1>4. ReviewTypes'
    BY <1>1, <1>3 DEF ReviewTypes
  <1>5. EditsAreOwned' /\ ToldOnce' /\ DecisionsShown'
    <2>1. \A b \in Applies : Opened(b) => Opened(b)' /\ StaysAsDecided(b)
      BY <1>3 DEF Opened, StaysAsDecided
    <2>2. ASSUME NEW b \in Applies, ~Opened(b), Opened(b)'
          PROVE  apply'[b].status = [p \in Places |-> "equal"]
      <3>1. b = a
        BY <1>3, <2>2 DEF Opened
      <3> QED BY <1>3, <2>2, <3>1
    <2>3. \A b \in Applies : Is(b, "awaiting") => Is(b, "awaiting")'
      BY <1>3 DEF Is
    <2> QED BY <2>1, <2>2, <2>3, QuietStep
  <1>6. Registered'
    <2> SUFFICES ASSUME NEW id \in BlockIds, sessions'[id] # NoApply
                 PROVE  apply'[sessions'[id]].phase \in {"opening", "review"} /\ apply'[sessions'[id]].id = id
      BY DEF Registered
    <2>1. id # x.id /\ sessions'[id] = sessions[id]
      BY <1>3
    <2>2. sessions[id] \in Applies /\ apply[sessions[id]].phase \in {"opening", "review"} /\ apply[sessions[id]].id = id
      BY <1>1, <2>1 DEF Registered, ReviewTypes
    <2>3. sessions[id] # a
      BY <2>1, <2>2 DEF Opened
    <2> QED BY <1>3, <2>1, <2>2, <2>3
  <1>7. AppliedAsAccepted'
    <2> SUFFICES ASSUME NEW b \in Applies, apply'[b].phase = "over"
                 PROVE  apply'[b].applied = Hunks(apply'[b], "accepted")
      BY DEF AppliedAsAccepted, Is
    <2>1. CASE b = a
      BY <1>3, <2>1
    <2>2. CASE b # a
      BY <1>1, <1>3, <2>2 DEF AppliedAsAccepted, Is
    <2> QED BY <2>1, <2>2
  <1> QED BY <1>4, <1>5, <1>6, <1>7 DEF ReviewInv

LEMMA EndReviewStep ==
  ASSUME ReviewInv, NEW a \in Applies, EndReview(a)
  PROVE  ReviewInv'
  <1>1. ReviewTypes
    BY DEF ReviewInv
  <1>2. Is(a, "review") /\ Opened(a) /\ ~Is(a, "awaiting")
    BY DEF EndReview, Is, Opened
  <1>3. apply[a] \in Review /\ apply \in [Applies -> {NotCalled} \union Call \union Review]
    BY <1>1, <1>2, ApplyFacts DEF ReviewTypes
  <1> DEFINE applied == Hunks(apply[a], "accepted")
             x == [apply[a] EXCEPT !.phase = "over", !.applied = applied]
  <1>4. applied \in SUBSET Places
    BY DEF Hunks
  <1>5. apply' = [apply EXCEPT ![a] = x]
    BY <1>3 DEF EndReview
  <1> HIDE DEF applied
  <1>6. /\ x \in Review /\ x.phase = "over" /\ x.applied = applied
        /\ x.id = apply[a].id /\ x.file = apply[a].file
        /\ x.original = apply[a].original /\ x.status = apply[a].status
    BY <1>3, <1>4 DEF Review
  <1>7. /\ sessions' = [sessions EXCEPT ![x.id] = NoApply]
        /\ UNCHANGED <<disk, document, edits, rejected, refused>>
    BY <1>6 DEF EndReview
  <1> HIDE DEF x
  <1>8. x.applied = Hunks(x, "accepted")
    BY <1>6 DEF Hunks, applied
  <1> QED BY <1>2, <1>5, <1>6, <1>7, <1>8, OverStep

LEMMA OpenSessionStep ==
  ASSUME ReviewInv, NEW a \in Applies, OpenSession(a)
  PROVE  ReviewInv'
  <1>1. ReviewTypes /\ Registered /\ AppliedAsAccepted /\ Is(a, "clearing")
    BY DEF ReviewInv, OpenSession
  <1>2. /\ apply[a] \in Call /\ ~Opened(a) /\ ~Is(a, "awaiting")
        /\ apply \in [Applies -> {NotCalled} \union Call \union Review]
        /\ sessions \in [BlockIds -> Applies \union {NoApply}] /\ disk \in [Files -> Text]
    BY <1>1, ApplyFacts DEF ReviewTypes, Is
  <1> DEFINE phase == IF apply[a].changes = {} THEN "over" ELSE "opening"
             status == [p \in Places |-> IF p \in apply[a].changes THEN "pending" ELSE "equal"]
             s == [phase |-> phase, id |-> apply[a].id, file |-> apply[a].file,
                   original |-> disk[apply[a].file], status |-> status, resolved |-> FALSE, applied |-> {}]
  <1>3. /\ apply' = [apply EXCEPT ![a] = s] /\ UNCHANGED <<disk, document, rejected, refused>>
        /\ phase = "over" => sessions' = [sessions EXCEPT ![s.id] = NoApply] /\ UNCHANGED edits
        /\ phase # "over" => /\ sessions' = [sessions EXCEPT ![s.id] = a]
                             /\ edits' = Append(edits, Edit(a, s, {}, NoApply))
    BY DEF OpenSession
  <1>4. /\ phase \in {"over", "opening"} /\ (phase = "over" <=> apply[a].changes = {})
        /\ status \in [Places -> Statuses]
        /\ \A p \in Places : status[p] = IF p \in apply[a].changes THEN "pending" ELSE "equal"
        /\ phase = "over" => status = [p \in Places |-> "equal"]
    BY DEF Statuses
  <1>5. apply[a].id \in BlockIds /\ apply[a].file \in Files /\ apply[a].changes \subseteq Places
    BY <1>2 DEF Call
  <1>6. disk[apply[a].file] \in Text
    BY <1>2, <1>5
  <1> HIDE DEF phase, status
  <1>7. /\ s \in Review /\ s.phase = phase /\ s.id = apply[a].id /\ s.file = apply[a].file
        /\ s.status = status /\ s.applied = {}
    BY <1>4, <1>5, <1>6 DEF Review
  <1> HIDE DEF s
  <1>8. CASE phase = "over"
    <2>1. s.applied = Hunks(s, "accepted")
      <3>1. \A p \in Places : s.status[p] # "accepted"
        BY <1>4, <1>7
      <3>2. Hunks(s, "accepted") = {}
        BY <3>1 DEF Hunks
      <3> QED BY <1>7, <3>2
    <2>2. s.status = [p \in Places |-> "equal"]
      BY <1>4, <1>7, <1>8
    <2> QED BY <1>2, <1>3, <1>7, <1>8, <2>1, <2>2, OverStep
  <1>9. CASE phase # "over"
    <2> DEFINE e == Edit(a, s, {}, NoApply)
    <2>1. /\ apply' \in [Applies -> {NotCalled} \union Call \union Review]
          /\ apply'[a] = s /\ \A b \in Applies : b # a => apply'[b] = apply[b]
          /\ sessions' \in [BlockIds -> Applies \union {NoApply}]
          /\ sessions'[s.id] = a /\ \A id \in BlockIds : id # s.id => sessions'[id] = sessions[id]
      BY <1>2, <1>3, <1>5, <1>7, <1>9
    <2>2. /\ e \in EditOf /\ e.file = s.file /\ e.by = a /\ e.gone = {} /\ e.waiter = NoApply
          /\ e.text = Compose(a, s)
      BY <1>7, EditMade
    <2>3. edits' = Append(edits, e)
      BY <1>3, <1>9
    <2> HIDE DEF e
    <2>4. ReviewTypes'
      <3>1. edits' \in Seq(EditOf)
        BY <1>1, <2>2, <2>3 DEF ReviewTypes
      <3> QED BY <1>1, <1>3, <2>1, <3>1 DEF ReviewTypes
    <2>5. Opened(a)' /\ \A b \in Applies : b # a => (Opened(b)' <=> Opened(b))
      BY <1>4, <1>7, <1>9, <2>1 DEF Opened
    <2>6. Registered'
      <3> SUFFICES ASSUME NEW id \in BlockIds, sessions'[id] # NoApply
                   PROVE  apply'[sessions'[id]].phase \in {"opening", "review"} /\ apply'[sessions'[id]].id = id
        BY DEF Registered
      <3>1. CASE id = s.id
        BY <1>4, <1>7, <1>9, <2>1, <3>1
      <3>2. CASE id # s.id
        <4>1. /\ sessions'[id] = sessions[id] /\ sessions[id] \in Applies
              /\ apply[sessions[id]].phase \in {"opening", "review"} /\ apply[sessions[id]].id = id
          BY <1>1, <1>2, <2>1, <3>2 DEF Registered
        <4>2. sessions[id] # a
          BY <1>2, <4>1 DEF Opened
        <4> QED BY <2>1, <4>1, <4>2
      <3> QED BY <3>1, <3>2
    <2>7. AppliedAsAccepted'
      <3> SUFFICES ASSUME NEW b \in Applies, apply'[b].phase = "over"
                   PROVE  apply'[b].applied = Hunks(apply'[b], "accepted")
        BY DEF AppliedAsAccepted, Is
      <3>1. b # a
        BY <1>7, <1>9, <2>1
      <3> QED BY <1>1, <2>1, <3>1 DEF AppliedAsAccepted, Is
    <2>8. EditsAreOwned' /\ ToldOnce' /\ DecisionsShown'
      <3>1. \A b \in Applies : Opened(b)' <=> Opened(b) \/ b = a
        BY <2>5
      <3>2. \A b \in Applies : Opened(b) /\ b # a => StaysAsDecided(b)
        BY <2>1 DEF StaysAsDecided
      <3>3. \A b \in Applies : Is(b, "awaiting") => Is(b, "awaiting")'
        BY <1>2, <2>1 DEF Is
      <3>4. Hunks(apply[a], "equal")' # Places
        <4>1. PICK p \in Places : p \in apply[a].changes
          BY <1>4, <1>5, <1>9
        <4>2. apply'[a].status[p] # "equal"
          BY <1>4, <1>7, <2>1, <4>1
        <4> QED BY <4>2 DEF Hunks
      <3>5. \A p \in Places : RejectedByNow(a, p)' <=> RejectedByNow(a, p) \/ p \in e.gone
        <4>1. \A p \in Places : apply'[a].status[p] # "rejected"
          BY <1>4, <1>7, <2>1
        <4> QED BY <1>2, <2>2, <4>1 DEF RejectedByNow
      <3>6. \A p \in Places : p \in e.gone => ~RejectedByNow(a, p)
        BY <2>2
      <3>7. e.waiter # NoApply => Is(e.waiter, "awaiting")' /\ ~Is(e.waiter, "awaiting")
        BY <2>2
      <3>8. /\ apply'[a].file = e.file /\ e.text = Compose(a, apply'[a])
            /\ e.by = a /\ ~Opened(a) /\ UNCHANGED <<document, rejected, refused>>
        BY <1>2, <1>3, <2>1, <2>2
      <3> QED BY <2>2, <2>3, <3>1, <3>2, <3>3, <3>4, <3>5, <3>6, <3>7, <3>8, AskStep
    <2> QED BY <2>4, <2>6, <2>7, <2>8 DEF ReviewInv
  <1> QED BY <1>8, <1>9

LEMMA ReviewStart == ReviewInit => ReviewInv
  <1> SUFFICES ASSUME ReviewInit PROVE ReviewInv
    OBVIOUS
  <1> USE DEF ReviewInit
  <1>1. Untouched \in Text
    <2>1. <<0>> \in Seq(Nat)
      OBVIOUS
    <2> QED BY <2>1 DEF Untouched, Text
  <1>2. NotCalled.phase = "none" /\ \A a \in Applies : apply[a] = NotCalled
    BY DEF NotCalled
  <1>3. \A a \in Applies : ~Opened(a) /\ ~Is(a, "over")
    BY <1>2 DEF Opened, Is
  <1>4. edits \in Seq(EditOf) /\ DOMAIN edits = {}
    OBVIOUS
  <1>5. ReviewTypes
    BY <1>1, <1>4 DEF ReviewTypes
  <1>6. Registered /\ AppliedAsAccepted
    BY <1>3 DEF Registered, AppliedAsAccepted
  <1>7. EditsAreOwned
    BY <1>4 DEF EditsAreOwned
  <1>8. ToldOnce
    BY <1>3, <1>4 DEF ToldOnce, RejectedByNow
  <1>9. DecisionsShown
    BY <1>3 DEF DecisionsShown, Owns
  <1> QED BY <1>5, <1>6, <1>7, <1>8, <1>9 DEF ReviewInv

LEMMA ReviewStep == ReviewInv /\ [ReviewNext]_reviewVars => ReviewInv'
  <1> SUFFICES ASSUME ReviewInv, [ReviewNext]_reviewVars PROVE ReviewInv'
    OBVIOUS
  <1>1. CASE UNCHANGED reviewVars
    <2>1. /\ disk' = disk /\ apply' = apply /\ UNCHANGED <<document, edits, rejected, refused, sessions>>
      BY <1>1 DEF reviewVars
    <2>2. disk' \in [Files -> Text] /\ apply' \in [Applies -> {NotCalled} \union Call \union Review]
      BY <2>1 DEF ReviewInv, ReviewTypes
    <2>3. \A b \in Applies : StaysAsDecided(b) /\ (Opened(b)' <=> Opened(b)) /\ (Is(b, "awaiting")' <=> Is(b, "awaiting"))
      BY <2>1 DEF StaysAsDecided, Opened, Is
    <2> QED BY <2>1, <2>2, <2>3, CallsStep
  <1>2. CASE PressApply
    BY <1>2, PressApplyStep
  <1>3. CASE DecideFile
    BY <1>3, DecideFileStep
  <1>4. CASE DecideHunk
    BY <1>4, DecideHunkStep
  <1>5. CASE EditLands
    BY <1>5, LandStep
  <1>6. CASE SaveFile
    BY <1>6, SaveFileStep
  <1>7. CASE \E a \in Applies : RejectOlder(a) \/ OpenSession(a) \/ EndReview(a)
    BY <1>7, RejectOlderStep, OpenSessionStep, EndReviewStep
  <1> QED BY <1>1, <1>2, <1>3, <1>4, <1>5, <1>6, <1>7 DEF ReviewNext

LEMMA ReviewInvariant == ReviewSpec => []ReviewInv
  BY ReviewStart, ReviewStep, PTL DEF ReviewSpec

\* Types of a review, and that an id of an applied block stands for the opened
\* review with that id, whichever apply replaced another (apply.ts, sessions).
THEOREM ReviewTyped == ReviewSpec => []ReviewTypeOK
  <1>1. ReviewInv => ReviewTypeOK
    <2> SUFFICES ASSUME ReviewInv PROVE ReviewTypeOK
      OBVIOUS
    <2>1. ReviewTypes /\ Registered
      BY DEF ReviewInv
    <2>2. ASSUME NEW a \in Applies
          PROVE  /\ apply[a].phase \in Phases
                 /\ Opened(a) => apply[a].status \in [Places -> Statuses]
      <3>1. apply[a] \in {NotCalled} \union Call \union Review
        BY <2>1 DEF ReviewTypes
      <3> QED BY <3>1 DEF NotCalled, Call, Review, Phases, Opened
    <2>3. ASSUME NEW id \in BlockIds, sessions[id] # NoApply
          PROVE  Opened(sessions[id]) /\ apply[sessions[id]].id = id
      BY <2>1, <2>3 DEF Registered, Opened
    <2> QED BY <2>1, <2>2, <2>3 DEF ReviewTypeOK, ReviewTypes
  <1> QED BY <1>1, ReviewInvariant, PTL

\* A rejected hunk is reported once, and the report of a finished review is what
\* was accepted, in every order of decisions and edits (apply.ts, _resolveHunk
\* and _resolveAllPending).
THEOREM RejectionsAddUp == ReviewSpec => []ReportsAddUp
  <1>1. ReviewInv => ReportsAddUp
    <2> SUFFICES ASSUME ReviewInv, NEW a \in Applies, Opened(a)
                 PROVE  /\ apply[a].phase = "over" => apply[a].applied = Hunks(apply[a], "accepted")
                        /\ \A p \in Places :
                             rejected[a][p] + Cardinality(ToBeReported(a, p))
                               = IF apply[a].status[p] = "rejected" THEN 1 ELSE 0
      BY DEF ReportsAddUp
    <2>1. apply[a].phase = "over" => apply[a].applied = Hunks(apply[a], "accepted")
      BY DEF ReviewInv, AppliedAsAccepted, Is
    <2>2. ASSUME NEW p \in Places
          PROVE  rejected[a][p] + Cardinality(ToBeReported(a, p)) = IF apply[a].status[p] = "rejected" THEN 1 ELSE 0
      <3>1. rejected[a][p] \in {0, 1}
        BY DEF ReviewInv, ReviewTypes
      <3>2. /\ rejected[a][p] = 1 => RejectedByNow(a, p)
            /\ \A i \in DOMAIN edits : Tells(i, a, p) =>
                 /\ RejectedByNow(a, p) /\ rejected[a][p] = 0
                 /\ \A j \in DOMAIN edits : Tells(j, a, p) => i = j
            /\ RejectedByNow(a, p) => rejected[a][p] = 1 \/ \E i \in DOMAIN edits : Tells(i, a, p)
        BY DEF ReviewInv, ToldOnce
      <3>3. RejectedByNow(a, p) <=> apply[a].status[p] = "rejected"
        BY DEF RejectedByNow
      <3>4. ToBeReported(a, p) = {i \in DOMAIN edits : Tells(i, a, p)}
        BY DEF ToBeReported, Tells
      <3>5. CASE \E i \in DOMAIN edits : Tells(i, a, p)
        <4>1. PICK i \in DOMAIN edits : Tells(i, a, p)
          BY <3>5
        <4>2. ToBeReported(a, p) = {i}
          BY <3>2, <3>4, <4>1
        <4>3. Cardinality(ToBeReported(a, p)) = 1
          BY <4>2, FS_Singleton
        <4>4. RejectedByNow(a, p) /\ rejected[a][p] = 0
          BY <3>2, <4>1
        <4> QED BY <3>3, <4>3, <4>4
      <3>6. CASE ~\E i \in DOMAIN edits : Tells(i, a, p)
        <4>1. ToBeReported(a, p) = {}
          BY <3>4, <3>6
        <4>2. Cardinality(ToBeReported(a, p)) = 0
          BY <4>1, FS_EmptySet
        <4>3. RejectedByNow(a, p) <=> rejected[a][p] = 1
          BY <3>2, <3>6
        <4> QED BY <3>1, <3>3, <4>2, <4>3
      <3> QED BY <3>5, <3>6
    <2> QED BY <2>1, <2>2
  <1> QED BY <1>1, ReviewInvariant, PTL

\* A document that one review changes shows the decisions of that review as soon
\* as no edit is on its way, unless VS Code refused the last one (apply.ts:526-539).
THEOREM DocumentFollowsReview == ReviewSpec => []ShownIsDecided
  <1>1. ReviewInv => ShownIsDecided
    <2> SUFFICES ASSUME ReviewInv, NEW f \in Files \ refused, NEW a \in Applies,
                        Opened(a) /\ apply[a].file = f /\ Hunks(apply[a], "equal") # Places,
                        Cardinality({b \in Applies : Opened(b) /\ apply[b].file = f /\ Hunks(apply[b], "equal") # Places}) = 1,
                        \A i \in DOMAIN edits : edits[i].file # f
                 PROVE  document[f] = Compose(a, apply[a])
      BY DEF ShownIsDecided
    <2> DEFINE own == {b \in Applies : Opened(b) /\ apply[b].file = f /\ Hunks(apply[b], "equal") # Places}
    <2>1. a \in own /\ Cardinality(own) = 1
      OBVIOUS
    <2>2. IsFiniteSet(own)
      <3>1. IsFiniteSet(Applies)
        BY FS_Interval, ReviewAssumption DEF Applies
      <3> QED BY <3>1, FS_Subset
    <2>3. \E x : own = {x}
      <3> HIDE DEF own
      <3> QED BY <2>1, <2>2, FS_Singleton
    <2>4. \A b \in own : b = a
      <3> HIDE DEF own
      <3> QED BY <2>1, <2>3
    <2>5. Owns(a)
      BY <2>4 DEF Owns
    <2> QED BY <2>5 DEF ReviewInv, DecisionsShown
  <1> QED BY <1>1, ReviewInvariant, PTL

----------------------------------------------------------------------------
(* The recruiter's list.  A session that is still due stands behind at least *)
(* as many as were asked for so far, so no later page can begin after it.    *)

Row == [created : Nat, status : SessionStatuses, hasGrade : BOOLEAN]
Reading == [step : {"count", "page", "done"}, asked : Nat, filter : StatusFilters, trusts : BOOLEAN,
            offset : Nat, total : Nat, seen : SUBSET Nat, due : SUBSET Nat, grown : BOOLEAN, left : BOOLEAN]
RowRead == [step : {"row"}, of : Nat, status : SessionStatuses]
DetailRead == [step : {"done"}, status : SessionStatuses, hasGrade : BOOLEAN]

DashboardTypes ==
  /\ table \in Seq(Row) /\ dbNow \in Nat /\ moves \in Nat
  /\ list \in {NoList} \union Reading
  /\ detail \in {NoDetail} \union RowRead \union DetailRead

\* A later row is not older.
Rising ==
  \A i \in DOMAIN table :
    /\ table[i].created <= dbNow
    /\ \A j \in DOMAIN table : i < j => table[i].created <= table[j].created

GradedHaveGrades == \A i \in DOMAIN table : table[i].status = "graded" => table[i].hasGrade
RowAgrees ==
  detail.step = "row" =>
    detail.of \in DOMAIN table /\ (detail.status = "graded" => table[detail.of].hasGrade)
DetailAgrees == detail.step = "done" /\ detail.status = "graded" => detail.hasGrade

Found == Matching(table, list.filter)
Newer(i) == {j \in Found : j > i}
Undisturbed == list.step \in {"count", "page"} /\ ~list.left
Kept == Undisturbed => list.due \subseteq Found
InReach == Undisturbed /\ NoTies => \A i \in list.due \ list.seen : list.offset <= Cardinality(Newer(i))
TotalHolds == Undisturbed /\ list.step = "page" /\ ~list.grown => list.total = Cardinality(Found)
AllSeen ==
  list.step = "done" /\ ~list.left /\ NoTies /\ ~(list.trusts /\ list.grown) => list.due \subseteq list.seen

DashboardInv ==
  /\ DashboardTypes /\ Rising /\ GradedHaveGrades /\ RowAgrees /\ DetailAgrees
  /\ Kept /\ InReach /\ TotalHolds /\ AllSeen

LEMMA MinOfTwo == ASSUME NEW a \in Int, NEW b \in Int PROVE Min({a, b}) = IF a <= b THEN a ELSE b
  <1> DEFINE m == IF a <= b THEN a ELSE b
  <1>1. m \in {a, b} /\ \A y \in {a, b} : m <= y
    OBVIOUS
  <1>2. \A x \in {a, b} : (\A y \in {a, b} : x <= y) => x = m
    OBVIOUS
  <1>3. Min({a, b}) = CHOOSE x \in {a, b} : \A y \in {a, b} : x <= y
    BY DEF Min
  <1> HIDE DEF m
  <1>4. Min({a, b}) \in {a, b} /\ \A y \in {a, b} : Min({a, b}) <= y
    BY <1>1, <1>3
  <1>5. Min({a, b}) = m
    BY <1>2, <1>4
  <1> QED BY <1>5 DEF m

LEMMA FoundIsFinite ==
  ASSUME NEW rows, rows \in Seq(Row), NEW filter
  PROVE  IsFiniteSet(Matching(rows, filter)) /\ Matching(rows, filter) \subseteq Nat
  <1>1. Len(rows) \in Nat /\ DOMAIN rows = 1..Len(rows)
    OBVIOUS
  <1>2. IsFiniteSet(1..Len(rows))
    BY <1>1, FS_Interval
  <1>3. Matching(rows, filter) \in SUBSET (1..Len(rows))
    BY <1>1 DEF Matching
  <1> QED BY <1>1, <1>2, <1>3, FS_Subset

\* The rows of a filter in the list's order: as many are before one as are newer.
LEMMA OrderedRows ==
  ASSUME table \in Seq(Row), Rising, NEW filter, NEW rows \in Ordered(filter)
  PROVE  LET m == Matching(table, filter)
             n == Cardinality(m)
         IN  /\ n \in Nat /\ rows \in [1..n -> m] /\ rows \in Seq(m) /\ Len(rows) = n
             /\ \A i \in m : \E k \in 1..n : rows[k] = i
             /\ NoTies => \A k \in 1..n : Cardinality({j \in m : j > rows[k]}) = k - 1
  <1> DEFINE m == Matching(table, filter)
             n == Cardinality(m)
  <1>1. IsFiniteSet(m) /\ m \subseteq Nat /\ m \subseteq DOMAIN table
    BY FoundIsFinite DEF Matching
  <1>2. n \in Nat /\ IsFiniteSet(1..n) /\ Cardinality(1..n) = n
    BY <1>1, FS_CardinalityType, FS_Interval
  <1>created. \A i \in DOMAIN table : table[i].created \in Nat
    <2>1. \A i \in DOMAIN table : table[i] \in Row
      OBVIOUS
    <2> QED BY <2>1 DEF Row
  <1>3. rows \in SetToSeqs(m) /\ \A i, j \in DOMAIN rows : i < j => table[rows[i]].created >= table[rows[j]].created
    BY DEF Ordered
  <1>4. rows \in [1..n -> m] /\ \A i, j \in 1..n : i # j => rows[i] # rows[j]
    BY <1>3 DEF SetToSeqs
  <1> HIDE DEF m, n
  <1>5. rows \in Seq(m) /\ Len(rows) = n /\ DOMAIN rows = 1..n
    BY <1>2, <1>4
  <1>6. rows \in Injection(1..n, m)
    BY <1>4 DEF Injection, IsInjective
  <1>7. \A i \in m : \E k \in 1..n : rows[k] = i
    <2>1. rows \in Surjection(1..n, m)
      BY <1>1, <1>2, <1>6, FS_Injection DEF n
    <2> QED BY <2>1 DEF Surjection
  <1>8. ASSUME NoTies, NEW k \in 1..n
        PROVE  Cardinality({j \in m : j > rows[k]}) = k - 1
    <2> DEFINE before == {rows[l] : l \in 1..(k - 1)}
               newer == {j \in m : j > rows[k]}
    <2>1. k \in Nat /\ 1..(k - 1) \subseteq 1..n /\ \A l \in 1..(k - 1) : l < k /\ l # k
      BY <1>2
    <2>2. \A i, j \in m : i < j => table[i].created < table[j].created
      <3> SUFFICES ASSUME NEW i \in m, NEW j \in m, i < j PROVE table[i].created < table[j].created
        OBVIOUS
      <3>1. i \in DOMAIN table /\ j \in DOMAIN table /\ i # j
        BY <1>1
      <3>2. table[i].created \in Nat /\ table[j].created \in Nat
        BY <1>created, <3>1
      <3>3. table[i].created <= table[j].created /\ table[i].created # table[j].created
        BY <1>8, <3>1 DEF Rising, NoTies
      <3> QED BY <3>2, <3>3
    <2>3. \A i \in m : i \in Nat /\ table[i].created \in Nat
      BY <1>1, <1>created
    <2>4. before \subseteq newer
      <3> SUFFICES ASSUME NEW l \in 1..(k - 1) PROVE rows[l] \in m /\ rows[l] > rows[k]
        OBVIOUS
      <3>1. /\ l \in 1..n /\ l < k /\ rows[l] \in m /\ rows[k] \in m /\ rows[l] # rows[k]
            /\ table[rows[l]].created >= table[rows[k]].created
        BY <1>3, <1>4, <1>5, <2>1
      <3>2. ~(rows[l] < rows[k])
        BY <2>2, <2>3, <3>1
      <3> QED BY <2>3, <3>1, <3>2
    <2>5. newer \subseteq before
      <3> SUFFICES ASSUME NEW j \in m, j > rows[k] PROVE j \in before
        OBVIOUS
      <3>1. PICK l \in 1..n : rows[l] = j
        BY <1>7
      <3>2. rows[k] \in m /\ table[rows[k]].created < table[j].created
        BY <1>4, <2>2, <2>3
      <3>3. ~(k < l) /\ k # l
        <4>1. ~(table[rows[k]].created >= table[rows[l]].created)
          BY <2>3, <3>1, <3>2
        <4>2. k # l
          BY <2>3, <3>1, <3>2
        <4> QED BY <1>3, <1>5, <4>1, <4>2
      <3>4. l \in 1..(k - 1)
        BY <1>2, <3>3
      <3> QED BY <3>1, <3>4
    <2>6. Cardinality(before) = k - 1
      <3> DEFINE f == [l \in 1..(k - 1) |-> rows[l]]
      <3>1. f \in Bijection(1..(k - 1), before)
        <4>1. f \in Injection(1..(k - 1), before)
          BY <1>4, <2>1 DEF Injection, IsInjective
        <4>2. f \in Surjection(1..(k - 1), before)
          BY DEF Surjection
        <4> QED BY <4>1, <4>2 DEF Bijection
      <3>2. ExistsBijection(1..(k - 1), before)
        BY <3>1 DEF ExistsBijection
      <3>3. IsFiniteSet(1..(k - 1)) /\ Cardinality(1..(k - 1)) = k - 1
        BY <2>1, FS_Interval
      <3> HIDE DEF before
      <3> QED BY <3>2, <3>3, FS_Bijection
    <2>7. newer = before
      BY <2>4, <2>5
    <2> QED BY <2>6, <2>7
  <1> QED BY <1>2, <1>4, <1>5, <1>7, <1>8 DEF m, n

\* A page of the rows and what its length tells.
LEMMA PageOfRows ==
  ASSUME NEW m, NEW n \in Nat, NEW rows \in [1..n -> m], NEW offset \in Nat, NEW limit \in Nat \ {0}
  PROVE  LET page == SubSeq(rows, offset + 1, Min({offset + limit, n}))
         IN  /\ \A k \in 1..n : offset < k /\ k <= offset + limit => rows[k] \in ToSet(page)
             /\ ToSet(page) \subseteq m
             /\ page = << >> => n <= offset
             /\ Len(page) \in Nat /\ (Len(page) < limit => n < offset + limit)
  <1> DEFINE upto == Min({offset + limit, n})
             page == SubSeq(rows, offset + 1, upto)
  <1>1. upto = IF offset + limit <= n THEN offset + limit ELSE n
    BY MinOfTwo
  <1>2. upto \in Nat /\ offset + 1 \in Int /\ \A i \in (offset + 1)..upto : rows[i] \in m
    <2>1. upto \in Nat /\ upto <= n
      BY <1>1
    <2> HIDE DEF upto
    <2> QED BY <2>1
  <1> HIDE DEF upto
  <1>3. /\ page \in Seq(m) /\ Len(page) = (IF offset + 1 <= upto THEN upto - (offset + 1) + 1 ELSE 0)
        /\ \A i \in 1..(upto - (offset + 1) + 1) : page[i] = rows[offset + 1 + i - 1]
    BY <1>2, SubSeqProperties
  <1> HIDE DEF page
  <1>4. DOMAIN page = 1..Len(page)
    BY <1>3
  <1>5. ASSUME NEW k \in 1..n, offset < k, k <= offset + limit PROVE rows[k] \in ToSet(page)
    <2>1. k - offset \in 1..(upto - (offset + 1) + 1) /\ k - offset \in DOMAIN page
      BY <1>1, <1>2, <1>3, <1>4, <1>5
    <2>2. page[k - offset] = rows[offset + 1 + (k - offset) - 1] /\ offset + 1 + (k - offset) - 1 = k
      BY <1>3, <2>1
    <2> QED BY <2>1, <2>2 DEF ToSet
  <1>6. ToSet(page) \subseteq m
    BY <1>3 DEF ToSet
  <1>7. page = << >> => n <= offset
    BY <1>1, <1>2, <1>3
  <1>8. Len(page) \in Nat /\ (Len(page) < limit => n < offset + limit)
    BY <1>1, <1>2, <1>3
  <1> QED BY <1>5, <1>6, <1>7, <1>8 DEF page, upto

\* A change of the table as a reading sees it: its notes are kept, and what it
\* has not noted did not happen.
Follows ==
  /\ list \notin Reading => list' = list
  /\ list \in Reading =>
       /\ list' \in Reading /\ list'.step = list.step /\ list'.filter = list.filter
       /\ list'.offset = list.offset /\ list'.total = list.total
       /\ list'.seen = list.seen /\ list'.due = list.due
       /\ ~list'.left => ~list.left /\ Matching(table, list.filter) \subseteq Matching(table', list.filter)
       /\ ~list'.grown => ~list.grown /\ Matching(table', list.filter) \subseteq Matching(table, list.filter)

LEMMA NotedFollows ==
  ASSUME list \in {NoList} \union Reading, list.step # "done", list' = Noted(table')
  PROVE  Follows
  <1>1. CASE list = NoList
    <2>1. list.step = "idle" /\ list' = list
      BY <1>1 DEF NoList, Noted
    <2>2. list \notin Reading
      BY <2>1 DEF Reading
    <2> QED BY <2>1, <2>2 DEF Follows
  <1>2. CASE list \in Reading
    <2> DEFINE before == Matching(table, list.filter)
               after == Matching(table', list.filter)
               grown == list.grown \/ after \ before # {}
               left == list.left \/ before \ after # {}
    <2>1. list' = [list EXCEPT !.grown = grown, !.left = left]
      BY <1>2 DEF Noted, Reading
    <2>2. /\ grown \in BOOLEAN /\ left \in BOOLEAN
          /\ ~left => ~list.left /\ before \subseteq after
          /\ ~grown => ~list.grown /\ after \subseteq before
      OBVIOUS
    <2> HIDE DEF before, after, grown, left
    <2>3. /\ list' \in Reading /\ list'.step = list.step /\ list'.filter = list.filter
          /\ list'.offset = list.offset /\ list'.total = list.total
          /\ list'.seen = list.seen /\ list'.due = list.due
          /\ list'.grown = grown /\ list'.left = left
      BY <1>2, <2>1, <2>2 DEF Reading
    <2>4. /\ ~list'.left => ~list.left /\ before \subseteq after
          /\ ~list'.grown => ~list.grown /\ after \subseteq before
      BY <2>2, <2>3
    <2> QED BY <1>2, <2>3, <2>4 DEF Follows, before, after
  <1> QED BY <1>1, <1>2

\* While the table changes nothing a reading counts on is lost.
LEMMA TableStep ==
  ASSUME DashboardInv, Follows, UNCHANGED detail, list.step # "done",
         table' \in Seq(Row), dbNow' \in Nat, moves' \in Nat, Rising', GradedHaveGrades',
         DOMAIN table \subseteq DOMAIN table',
         \A i \in DOMAIN table : table'[i].created = table[i].created,
         \A i \in DOMAIN table : table[i].hasGrade => table'[i].hasGrade
  PROVE  DashboardInv'
  <1>1. /\ DashboardTypes /\ RowAgrees /\ DetailAgrees /\ Kept /\ InReach /\ TotalHolds
        /\ list \in {NoList} \union Reading
    BY DEF DashboardInv, DashboardTypes
  <1>2. DashboardTypes'
    BY <1>1 DEF DashboardTypes, Follows
  <1>3. RowAgrees' /\ DetailAgrees'
    BY <1>1 DEF RowAgrees, DetailAgrees
  <1>4. CASE list \notin Reading
    <2>1. list' = NoList /\ NoList.step = "idle"
      BY <1>1, <1>4 DEF Follows, NoList
    <2>2. Kept' /\ InReach' /\ TotalHolds' /\ AllSeen'
      BY <2>1 DEF Kept, InReach, TotalHolds, AllSeen, Undisturbed
    <2> QED BY <1>2, <1>3, <2>2 DEF DashboardInv
  <1>5. CASE list \in Reading
    <2>1. /\ list'.step = list.step /\ list'.offset = list.offset /\ list'.total = list.total
          /\ list'.seen = list.seen /\ list'.due = list.due
          /\ Undisturbed' => Undisturbed /\ Found \subseteq Found'
          /\ Undisturbed' /\ ~list'.grown => ~list.grown /\ Found' \subseteq Found
      BY <1>5 DEF Follows, Undisturbed, Found
    <2>2. IsFiniteSet(Found') /\ list.offset \in Nat
      BY <1>5, FoundIsFinite DEF Found, Reading
    <2>3. NoTies' => NoTies
      BY DEF NoTies
    <2>4. Kept'
      BY <1>1, <2>1 DEF Kept
    <2>5. InReach'
      <3> SUFFICES ASSUME Undisturbed', NoTies', NEW i \in list.due \ list.seen
                   PROVE  list.offset <= Cardinality(Newer(i)')
        BY <2>1 DEF InReach
      <3>1. list.offset <= Cardinality(Newer(i))
        BY <1>1, <2>1, <2>3 DEF InReach
      <3>2. Newer(i) \subseteq Newer(i)' /\ Newer(i)' \subseteq Found'
        BY <2>1 DEF Newer
      <3>3. IsFiniteSet(Newer(i)')
        BY <2>2, <3>2, FS_Subset
      <3>4. /\ Cardinality(Newer(i)) <= Cardinality(Newer(i)')
            /\ Cardinality(Newer(i)) \in Nat /\ Cardinality(Newer(i)') \in Nat
        <4> DEFINE old == Newer(i)
                   new == Newer(i)'
        <4>1. old \in SUBSET new /\ IsFiniteSet(new)
          BY <3>2, <3>3
        <4> HIDE DEF old, new
        <4>2. IsFiniteSet(old) /\ Cardinality(old) <= Cardinality(new)
          BY <4>1, FS_Subset
        <4>3. Cardinality(old) \in Nat /\ Cardinality(new) \in Nat
          BY <4>1, <4>2, FS_CardinalityType
        <4> QED BY <4>2, <4>3 DEF old, new
      <3> QED BY <2>2, <3>1, <3>4
    <2>6. TotalHolds'
      <3> SUFFICES ASSUME Undisturbed', list'.step = "page", ~list'.grown
                   PROVE  list'.total = Cardinality(Found')
        BY DEF TotalHolds
      <3>1. Found' = Found
        BY <2>1
      <3> QED BY <1>1, <2>1, <3>1 DEF TotalHolds
    <2>7. AllSeen'
      BY <2>1 DEF AllSeen
    <2> QED BY <1>2, <1>3, <2>4, <2>5, <2>6, <2>7 DEF DashboardInv
  <1> QED BY <1>1, <1>4, <1>5

\* One row changes, and keeps its second and its grade.
LEMMA RowStep ==
  ASSUME DashboardInv, Follows, UNCHANGED <<dbNow, detail>>, list.step # "done", moves' \in Nat,
         NEW i \in DOMAIN table, NEW row \in Row, table' = [table EXCEPT ![i] = row],
         row.created = table[i].created, table[i].hasGrade => row.hasGrade,
         row.status = "graded" => row.hasGrade
  PROVE  DashboardInv'
  <1>1. DashboardTypes /\ Rising /\ GradedHaveGrades
    BY DEF DashboardInv
  <1>2. table \in Seq(Row) /\ dbNow \in Nat
    BY <1>1 DEF DashboardTypes
  <1>3. /\ table' \in Seq(Row) /\ DOMAIN table' = DOMAIN table
        /\ table'[i] = row /\ \A j \in DOMAIN table : j # i => table'[j] = table[j]
    BY <1>2
  <1>4. \A j \in DOMAIN table : table'[j].created = table[j].created
    BY <1>3
  <1>5. \A j \in DOMAIN table : table[j].hasGrade => table'[j].hasGrade
    BY <1>3
  <1>6. Rising'
    BY <1>1, <1>3, <1>4 DEF Rising
  <1>7. GradedHaveGrades'
    <2> SUFFICES ASSUME NEW j \in DOMAIN table, table'[j].status = "graded" PROVE table'[j].hasGrade
      BY <1>3 DEF GradedHaveGrades
    <2>1. CASE j = i
      BY <1>3, <2>1
    <2>2. CASE j # i
      BY <1>1, <1>3, <2>2 DEF GradedHaveGrades
    <2> QED BY <2>1, <2>2
  <1> QED BY <1>2, <1>3, <1>4, <1>5, <1>6, <1>7, TableStep

LEMMA CreateStep == ASSUME DashboardInv, list.step # "done", Create PROVE DashboardInv'
  <1>1. /\ DashboardTypes /\ Rising /\ GradedHaveGrades
        /\ table \in Seq(Row) /\ dbNow \in Nat /\ moves \in Nat /\ list \in {NoList} \union Reading
    BY DEF DashboardInv, DashboardTypes
  <1> DEFINE row == [created |-> dbNow', status |-> "pending", hasGrade |-> FALSE]
  <1>2. /\ dbNow' \in dbNow..MaxDbNow /\ table' = Append(table, row)
        /\ list' = Noted(table') /\ UNCHANGED <<moves, detail>>
    BY DEF Create
  <1>3. dbNow' \in Nat /\ dbNow <= dbNow'
    BY <1>1, <1>2, DashboardAssumption
  <1>4. row \in Row /\ row.created = dbNow' /\ row.status = "pending"
    BY <1>3 DEF Row, SessionStatuses
  <1> HIDE DEF row
  <1>5. /\ table' \in Seq(Row) /\ Len(table) \in Nat /\ DOMAIN table = 1..Len(table)
        /\ DOMAIN table' = 1..(Len(table) + 1) /\ table'[Len(table) + 1] = row
        /\ \A i \in DOMAIN table : table'[i] = table[i]
    BY <1>1, <1>2, <1>4
  <1>6. DOMAIN table' = DOMAIN table \union {Len(table) + 1} /\ \A i \in DOMAIN table : ~(Len(table) + 1 < i)
    BY <1>5
  <1>7. \A i \in DOMAIN table : table[i].created \in Nat
    <2>1. \A i \in DOMAIN table : table[i] \in Row
      BY <1>1
    <2> QED BY <2>1 DEF Row
  <1>8. Rising'
    <2>1. \A i \in DOMAIN table : table'[i].created = table[i].created /\ table[i].created <= dbNow'
      BY <1>1, <1>3, <1>5, <1>7 DEF Rising
    <2> SUFFICES ASSUME NEW i \in DOMAIN table'
                 PROVE  /\ table'[i].created <= dbNow'
                        /\ \A j \in DOMAIN table' : i < j => table'[i].created <= table'[j].created
      BY DEF Rising
    <2>2. CASE i \in DOMAIN table
      BY <1>1, <1>4, <1>5, <1>6, <2>1, <2>2 DEF Rising
    <2>3. CASE i = Len(table) + 1
      <3>1. table'[i].created = dbNow'
        BY <1>4, <1>5, <2>3
      <3>2. \A j \in DOMAIN table' : ~(i < j)
        BY <1>5, <2>3
      <3> QED BY <1>3, <3>1, <3>2
    <2> QED BY <1>6, <2>2, <2>3
  <1>9. GradedHaveGrades'
    BY <1>1, <1>4, <1>5, <1>6 DEF GradedHaveGrades
  <1>10. Follows
    BY <1>1, <1>2, NotedFollows
  <1>11. \A i \in DOMAIN table : table'[i].created = table[i].created
    BY <1>5
  <1>12. \A i \in DOMAIN table : table[i].hasGrade => table'[i].hasGrade
    BY <1>5
  <1>13. DOMAIN table \subseteq DOMAIN table' /\ moves' \in Nat
    BY <1>1, <1>2, <1>6
  <1> QED BY <1>2, <1>3, <1>5, <1>8, <1>9, <1>10, <1>11, <1>12, <1>13, TableStep

LEMMA StatusStep ==
  ASSUME DashboardInv, list.step # "done", NEW i \in DOMAIN table, NEW status \in SessionStatuses,
         SetStatus(i, status), status = "graded" => table[i].hasGrade
  PROVE  DashboardInv'
  <1>1. /\ DashboardTypes /\ table \in Seq(Row) /\ moves \in Nat /\ list \in {NoList} \union Reading
    BY DEF DashboardInv, DashboardTypes
  <1>2. table[i] \in Row
    BY <1>1
  <1> DEFINE row == [table[i] EXCEPT !.status = status]
  <1>3. /\ row \in Row /\ row.created = table[i].created /\ row.hasGrade = table[i].hasGrade
        /\ row.status = status
    BY <1>2 DEF Row
  <1>4. /\ table' = [table EXCEPT ![i] = row] /\ moves' = moves + 1
        /\ list' = Noted(table') /\ UNCHANGED <<dbNow, detail>>
    BY DEF SetStatus
  <1> HIDE DEF row
  <1>5. moves' \in Nat
    BY <1>1, <1>4
  <1>6. table[i].hasGrade => row.hasGrade
    BY <1>3
  <1>7. row.status = "graded" => row.hasGrade
    BY <1>3
  <1>8. Follows
    BY <1>1, <1>4, NotedFollows
  <1> QED BY <1>3, <1>4, <1>5, <1>6, <1>7, <1>8, RowStep

LEMMA MoveStep ==
  ASSUME DashboardInv, list.step # "done", NEW i \in DOMAIN table, Move(i)
  PROVE  DashboardInv'
  <1>1. PICK m \in Moves : SetStatus(i, m[2])
    BY DEF Move
  <1>2. m[2] \in SessionStatuses /\ m[2] # "graded"
    BY DEF Moves, SessionStatuses
  <1> QED BY <1>1, <1>2, StatusStep

LEMMA MarkGradedStep ==
  ASSUME DashboardInv, list.step # "done", NEW i \in DOMAIN table, MarkGraded(i)
  PROVE  DashboardInv'
  <1>1. table[i].hasGrade /\ SetStatus(i, "graded")
    BY DEF MarkGraded
  <1>2. "graded" \in SessionStatuses
    BY DEF SessionStatuses
  <1> QED BY <1>1, <1>2, StatusStep

LEMMA WriteGradeStep ==
  ASSUME DashboardInv, list.step # "done", NEW i \in DOMAIN table, WriteGrade(i)
  PROVE  DashboardInv'
  <1>1. /\ table \in Seq(Row) /\ moves \in Nat /\ list \in {NoList} \union Reading
    BY DEF DashboardInv, DashboardTypes
  <1>2. table[i] \in Row
    BY <1>1
  <1> DEFINE row == [table[i] EXCEPT !.hasGrade = TRUE]
  <1>3. /\ row \in Row /\ row.created = table[i].created /\ row.hasGrade /\ row.status = table[i].status
    BY <1>2 DEF Row
  <1>4. /\ table' = [table EXCEPT ![i] = row] /\ UNCHANGED <<dbNow, moves, list, detail>>
    BY DEF WriteGrade
  <1> HIDE DEF row
  <1>5. /\ DOMAIN table' = DOMAIN table /\ \A j \in DOMAIN table : table'[j].status = table[j].status
    BY <1>1, <1>3, <1>4
  <1>6. \A filter : Matching(table', filter) = Matching(table, filter)
    BY <1>5 DEF Matching
  <1>7. Follows
    <2>1. CASE list \in Reading
      BY <1>4, <1>6, <2>1 DEF Follows
    <2>2. CASE list \notin Reading
      BY <1>4, <2>2 DEF Follows
    <2> QED BY <2>1, <2>2
  <1>8. moves' \in Nat
    BY <1>1, <1>4
  <1> QED BY <1>3, <1>4, <1>7, <1>8, RowStep

LEMMA BeginListStep == ASSUME DashboardInv, BeginList PROVE DashboardInv'
  <1>1. PICK asked \in AskedLimits, filter \in StatusFilters, trusts \in BOOLEAN :
          list' = [step |-> "count", asked |-> asked, filter |-> filter, trusts |-> trusts,
                   offset |-> 0, total |-> 0, seen |-> {}, due |-> Matching(table, filter),
                   grown |-> FALSE, left |-> FALSE]
    BY DEF BeginList
  <1>2. UNCHANGED <<table, dbNow, moves, detail>> /\ DashboardTypes /\ table \in Seq(Row)
    BY DEF BeginList, DashboardInv, DashboardTypes
  <1>3. asked \in Nat /\ Matching(table, filter) \in SUBSET Nat /\ IsFiniteSet(Matching(table, filter))
    BY <1>2, FoundIsFinite, DashboardAssumption
  <1>4. /\ list' \in Reading /\ list'.step = "count" /\ list'.filter = filter /\ list'.offset = 0
        /\ list'.due = Matching(table, filter)
    BY <1>1, <1>3 DEF Reading
  <1>5. DashboardTypes'
    BY <1>2, <1>4 DEF DashboardTypes
  <1>6. Rising' /\ GradedHaveGrades' /\ RowAgrees' /\ DetailAgrees'
    BY <1>2 DEF DashboardInv, Rising, GradedHaveGrades, RowAgrees, DetailAgrees
  <1>7. Kept' /\ TotalHolds' /\ AllSeen'
    BY <1>2, <1>4 DEF Kept, TotalHolds, AllSeen, Undisturbed, Found
  <1>8. InReach'
    <2> SUFFICES ASSUME NEW i \in list'.due \ list'.seen PROVE 0 <= Cardinality(Newer(i)')
      BY <1>4 DEF InReach
    <2>1. Newer(i)' \in SUBSET Matching(table, filter)
      BY <1>2, <1>4 DEF Newer, Found
    <2>2. IsFiniteSet(Newer(i)')
      BY <1>3, <2>1, FS_Subset
    <2>3. Cardinality(Newer(i)') \in Nat
      BY <2>2, FS_CardinalityType
    <2> QED BY <2>3
  <1> QED BY <1>5, <1>6, <1>7, <1>8 DEF DashboardInv

LEMMA CountStep == ASSUME DashboardInv, Count PROVE DashboardInv'
  <1>1. /\ DashboardTypes /\ Kept /\ InReach /\ list \in {NoList} \union Reading /\ table \in Seq(Row)
        /\ list.step = "count" /\ UNCHANGED <<table, dbNow, moves, detail>>
    BY DEF DashboardInv, DashboardTypes, Count
  <1>2. list \in Reading
    BY <1>1 DEF NoList
  <1> DEFINE total == Cardinality(Found)
  <1>3. total \in Nat
    <2>1. IsFiniteSet(Found)
      BY <1>1, FoundIsFinite DEF Found
    <2> QED BY <2>1, FS_CardinalityType
  <1>4. list' = [list EXCEPT !.step = "page", !.total = total]
    BY DEF Count, Found
  <1> HIDE DEF total
  <1>5. /\ list' \in Reading /\ list'.step = "page" /\ list'.total = total /\ list'.filter = list.filter
        /\ list'.seen = list.seen /\ list'.due = list.due /\ list'.offset = list.offset
        /\ list'.left = list.left
    BY <1>2, <1>3, <1>4 DEF Reading
  <1>6. DashboardTypes'
    BY <1>1, <1>5 DEF DashboardTypes
  <1>7. Rising' /\ GradedHaveGrades' /\ RowAgrees' /\ DetailAgrees'
    BY <1>1 DEF DashboardInv, Rising, GradedHaveGrades, RowAgrees, DetailAgrees
  <1>8. /\ Undisturbed' => Undisturbed
        /\ Found' = Found /\ (NoTies' <=> NoTies) /\ \A i : Newer(i)' = Newer(i)
    BY <1>1, <1>5 DEF Undisturbed, Found, NoTies, Newer
  <1>9. Kept'
    BY <1>1, <1>5, <1>8 DEF Kept
  <1>10. InReach'
    BY <1>1, <1>5, <1>8 DEF InReach
  <1>11. TotalHolds' /\ AllSeen'
    BY <1>5, <1>8 DEF TotalHolds, AllSeen, total
  <1> QED BY <1>6, <1>7, <1>9, <1>10, <1>11 DEF DashboardInv

LEMMA ReadSessionStep ==
  ASSUME DashboardInv, NEW i \in DOMAIN table, ReadSession(i)
  PROVE  DashboardInv'
  <1>1. /\ DashboardTypes /\ GradedHaveGrades /\ table \in Seq(Row)
        /\ detail' = [step |-> "row", of |-> i, status |-> table[i].status]
        /\ UNCHANGED <<table, dbNow, moves, list>>
    BY DEF DashboardInv, DashboardTypes, ReadSession
  <1>2. i \in Nat /\ table[i].status \in SessionStatuses
    <2>1. table[i] \in Row /\ i \in Nat
      BY <1>1
    <2> QED BY <2>1 DEF Row
  <1>3. detail' \in RowRead /\ detail'.step = "row" /\ detail'.of = i /\ detail'.status = table[i].status
    BY <1>1, <1>2 DEF RowRead
  <1>4. DashboardTypes'
    BY <1>1, <1>3 DEF DashboardTypes
  <1>5. RowAgrees' /\ DetailAgrees'
    BY <1>1, <1>3 DEF GradedHaveGrades, RowAgrees, DetailAgrees
  <1>6. Rising' /\ GradedHaveGrades' /\ Kept' /\ InReach' /\ TotalHolds' /\ AllSeen'
    BY <1>1 DEF DashboardInv, Rising, GradedHaveGrades, Kept, InReach, TotalHolds, AllSeen, Undisturbed, Found,
                Newer, NoTies
  <1> QED BY <1>4, <1>5, <1>6 DEF DashboardInv

LEMMA ReadGradeStep == ASSUME DashboardInv, ReadGrade PROVE DashboardInv'
  <1>1. /\ DashboardTypes /\ RowAgrees /\ table \in Seq(Row) /\ detail \in {NoDetail} \union RowRead \union DetailRead
        /\ detail.step = "row"
        /\ detail' = [step |-> "done", status |-> detail.status, hasGrade |-> table[detail.of].hasGrade]
        /\ UNCHANGED <<table, dbNow, moves, list>>
    BY DEF DashboardInv, DashboardTypes, ReadGrade
  <1>2. detail \in RowRead
    BY <1>1 DEF NoDetail, DetailRead
  <1>3. table[detail.of] \in Row /\ detail.status \in SessionStatuses
    BY <1>1, <1>2 DEF RowAgrees, RowRead
  <1>4. /\ detail' \in DetailRead /\ detail'.step = "done" /\ detail'.status = detail.status
        /\ detail'.hasGrade = table[detail.of].hasGrade
    BY <1>1, <1>3 DEF DetailRead, Row
  <1>5. DashboardTypes'
    BY <1>1, <1>4 DEF DashboardTypes
  <1>6. RowAgrees' /\ DetailAgrees'
    BY <1>1, <1>4 DEF RowAgrees, DetailAgrees
  <1>7. Rising' /\ GradedHaveGrades' /\ Kept' /\ InReach' /\ TotalHolds' /\ AllSeen'
    BY <1>1 DEF DashboardInv, Rising, GradedHaveGrades, Kept, InReach, TotalHolds, AllSeen, Undisturbed, Found,
                Newer, NoTies
  <1> QED BY <1>5, <1>6, <1>7 DEF DashboardInv

\* A page takes all that were in reach of it; the reading goes on behind it, or
\* nothing was left.
LEMMA FetchPageStep == ASSUME DashboardInv, FetchPage PROVE DashboardInv'
  <1>1. /\ DashboardTypes /\ Rising /\ Kept /\ InReach /\ TotalHolds
        /\ list \in {NoList} \union Reading /\ table \in Seq(Row)
        /\ list.step = "page" /\ UNCHANGED <<table, dbNow, moves, detail>>
    BY DEF DashboardInv, DashboardTypes, FetchPage
  <1>2. list \in Reading
    BY <1>1 DEF NoList
  <1>3. PICK rows \in Ordered(list.filter) :
          LET limit == Clamped(list.asked)
              next == list.offset + LimitNamed(list.asked)
              page == IF list.asked = NoLimit THEN rows
                      ELSE SubSeq(rows, list.offset + 1, Min({list.offset + limit, Len(rows)}))
              last == \/ list.asked = NoLimit \/ page = << >>
                      \/ IF list.trusts THEN next >= list.total ELSE Len(page) < limit
          IN  list' = [list EXCEPT !.seen = @ \union ToSet(page), !.offset = next,
                                   !.step = IF last THEN "done" ELSE "count"]
    BY DEF FetchPage
  <1> DEFINE n == Cardinality(Found)
             limit == Clamped(list.asked)
             next == list.offset + limit
             page == IF list.asked = NoLimit THEN rows
                     ELSE SubSeq(rows, list.offset + 1, Min({list.offset + limit, Len(rows)}))
             last == \/ list.asked = NoLimit \/ page = << >>
                     \/ IF list.trusts THEN next >= list.total ELSE Len(page) < limit
             step == IF last THEN "done" ELSE "count"
             seen == list.seen \union ToSet(page)
  <1>4. list' = [list EXCEPT !.seen = seen, !.offset = next, !.step = step]
    BY <1>3 DEF LimitNamed, Clamped
  <1>5. /\ n \in Nat /\ rows \in [1..n -> Found] /\ rows \in Seq(Found) /\ Len(rows) = n
        /\ \A i \in Found : \E k \in 1..n : rows[k] = i
        /\ NoTies => \A k \in 1..n : Cardinality({j \in Found : j > rows[k]}) = k - 1
    BY <1>1, OrderedRows DEF Found
  <1>6. list.offset \in Nat /\ list.asked \in Nat /\ list.total \in Nat /\ list.trusts \in BOOLEAN
        /\ list.seen \subseteq Nat /\ list.due \subseteq Nat
    BY <1>2 DEF Reading
  <1>7. limit \in Nat /\ (list.asked # NoLimit => limit # 0) /\ next \in Nat
    BY <1>6, MinOfTwo, DashboardAssumption DEF Clamped, NoLimit
  <1>8. Found \subseteq Nat
    BY <1>1, FoundIsFinite DEF Found
  <1> HIDE DEF n, limit
  <1>9. /\ ToSet(page) \subseteq Found
        /\ list.asked = NoLimit => ToSet(page) = Found
        /\ list.asked # NoLimit =>
             /\ \A k \in 1..n : list.offset < k /\ k <= next => rows[k] \in ToSet(page)
             /\ page = << >> => n <= list.offset
             /\ Len(page) \in Nat /\ (Len(page) < limit => n < next)
    <2>1. CASE list.asked = NoLimit
      <3>1. DOMAIN rows = 1..n /\ page = rows
        BY <1>5, <2>1
      <3>2. ToSet(rows) = Found
        BY <1>5, <3>1 DEF ToSet
      <3> QED BY <2>1, <3>1, <3>2
    <2>2. CASE list.asked # NoLimit
      <3>1. page = SubSeq(rows, list.offset + 1, Min({list.offset + limit, n}))
        BY <1>5, <2>2
      <3>2. limit \in Nat \ {0}
        BY <1>7, <2>2
      <3> DEFINE sub == SubSeq(rows, list.offset + 1, Min({list.offset + limit, n}))
      <3>3. /\ \A k \in 1..n : list.offset < k /\ k <= list.offset + limit => rows[k] \in ToSet(sub)
            /\ ToSet(sub) \subseteq Found
            /\ sub = << >> => n <= list.offset
            /\ Len(sub) \in Nat /\ (Len(sub) < limit => n < list.offset + limit)
        <4>1. n \in Nat /\ rows \in [1..n -> Found] /\ list.offset \in Nat
          BY <1>5, <1>6
        <4> QED BY <3>2, <4>1, PageOfRows
      <3> HIDE DEF page, sub
      <3>4. page = sub
        BY <3>1 DEF sub
      <3> QED BY <2>2, <3>3, <3>4
    <2> QED BY <2>1, <2>2
  <1> DEFINE full == Len(page) < limit
  <1>10. last <=> \/ list.asked = NoLimit \/ page = << >>
                  \/ (list.trusts /\ next >= list.total) \/ (~list.trusts /\ full)
    <2>1. CASE list.trusts
      <3> HIDE DEF next, page, full
      <3> QED BY <2>1
    <2>2. CASE ~list.trusts
      BY <2>2
    <2> QED BY <2>1, <2>2
  <1>11. step \in {"count", "done"} /\ (step = "done" <=> last)
    OBVIOUS
  <1>12. seen \subseteq Nat /\ \A i : i \in seen <=> i \in list.seen \/ i \in ToSet(page)
    BY <1>6, <1>8, <1>9
  <1> HIDE DEF page, last, step, seen
  <1>13. /\ list' \in Reading /\ list'.step = step /\ list'.filter = list.filter /\ list'.due = list.due
         /\ list'.seen = seen /\ list'.offset = next
         /\ list'.left = list.left /\ list'.grown = list.grown /\ list'.trusts = list.trusts
    BY <1>2, <1>4, <1>7, <1>11, <1>12 DEF Reading
  <1>14. /\ Undisturbed <=> ~list.left
         /\ Undisturbed' => Undisturbed
         /\ Found' = Found /\ (NoTies' <=> NoTies) /\ \A i : Newer(i)' = Newer(i)
    BY <1>1, <1>13 DEF Undisturbed, Found, NoTies, Newer
  \* Who is still due stands behind the page.
  <1>15. ASSUME Undisturbed, NoTies, NEW i \in list.due \ seen
         PROVE  /\ list.asked # NoLimit
                /\ \E k \in 1..n : next < k /\ Cardinality(Newer(i)) = k - 1
    <2>1. i \in Found /\ i \in list.due \ list.seen /\ i \notin ToSet(page)
      BY <1>1, <1>12, <1>15 DEF Kept
    <2>2. PICK k \in 1..n : rows[k] = i
      BY <1>5, <2>1
    <2>3. Cardinality(Newer(i)) = k - 1
      BY <1>5, <1>15, <2>2 DEF Newer
    <2>4. list.offset <= k - 1
      BY <1>1, <1>15, <2>1, <2>3 DEF InReach
    <2>5. list.asked # NoLimit
      BY <1>9, <2>1
    <2>6. ~(list.offset < k /\ k <= next)
      BY <1>9, <2>1, <2>2, <2>5
    <2>7. next < k
      BY <1>5, <1>6, <1>7, <2>4, <2>6
    <2> QED BY <2>3, <2>5, <2>7
  <1>16. ASSUME Undisturbed, NoTies, last, ~(list.trusts /\ list.grown), NEW i \in list.due \ seen
         PROVE  FALSE
    <2>1. PICK k \in 1..n : next < k
      BY <1>15, <1>16
    <2>2. list.asked # NoLimit
      BY <1>15, <1>16
    <2>3. CASE page = << >>
      BY <1>5, <1>6, <1>7, <1>9, <2>1, <2>2, <2>3
    <2>4. CASE list.trusts /\ next >= list.total
      <3>1. list.total = n
        BY <1>1, <1>16, <2>4 DEF TotalHolds, n
      <3> QED BY <1>5, <1>6, <1>7, <2>1, <2>4, <3>1
    <2>5. CASE ~list.trusts /\ full
      <3>1. n < next
        BY <1>9, <2>2, <2>5
      <3> QED BY <1>5, <1>7, <2>1, <3>1
    <2> QED BY <1>10, <1>16, <2>2, <2>3, <2>4, <2>5
  <1>17. DashboardTypes'
    BY <1>1, <1>13 DEF DashboardTypes
  <1>18. Rising' /\ GradedHaveGrades' /\ RowAgrees' /\ DetailAgrees'
    BY <1>1 DEF DashboardInv, Rising, GradedHaveGrades, RowAgrees, DetailAgrees
  <1>19. Kept' /\ TotalHolds'
    BY <1>1, <1>11, <1>13, <1>14 DEF Kept, TotalHolds
  <1>20. InReach'
    <2> SUFFICES ASSUME Undisturbed', NoTies', NEW i \in list.due \ seen
                 PROVE  next <= Cardinality(Newer(i))
      BY <1>13, <1>14 DEF InReach
    <2>1. PICK k \in 1..n : next < k /\ Cardinality(Newer(i)) = k - 1
      BY <1>14, <1>15
    <2> QED BY <1>5, <1>7, <2>1
  <1>21. AllSeen'
    <2> SUFFICES ASSUME list'.step = "done", ~list'.left, NoTies', ~(list'.trusts /\ list'.grown),
                        NEW i \in list'.due \ list'.seen
                 PROVE  FALSE
      BY DEF AllSeen
    <2>1. Undisturbed /\ NoTies /\ last /\ i \in list.due \ seen
      BY <1>11, <1>13, <1>14
    <2>2. ~(list.trusts /\ list.grown)
      BY <1>13
    <2> QED BY <1>16, <2>1, <2>2
  <1> QED BY <1>17, <1>18, <1>19, <1>20, <1>21 DEF DashboardInv

LEMMA DashboardStart == DashboardInit => DashboardInv
  <1> SUFFICES ASSUME DashboardInit PROVE DashboardInv
    OBVIOUS
  <1>1. /\ table = << >> /\ dbNow = 0 /\ moves = 0 /\ list = NoList /\ detail = NoDetail
        /\ list.step = "idle" /\ detail.step = "idle"
    BY DEF DashboardInit, NoList, NoDetail
  <1>2. DashboardTypes
    BY <1>1 DEF DashboardTypes
  <1>3. Rising /\ GradedHaveGrades /\ RowAgrees /\ DetailAgrees
    BY <1>1 DEF Rising, GradedHaveGrades, RowAgrees, DetailAgrees
  <1>4. Kept /\ InReach /\ TotalHolds /\ AllSeen
    BY <1>1 DEF Kept, InReach, TotalHolds, AllSeen, Undisturbed
  <1> QED BY <1>2, <1>3, <1>4 DEF DashboardInv

LEMMA DashboardStep == DashboardInv /\ [DashboardNext]_dashboardVars => DashboardInv'
  <1> SUFFICES ASSUME DashboardInv, [DashboardNext]_dashboardVars PROVE DashboardInv'
    OBVIOUS
  <1>1. CASE UNCHANGED dashboardVars
    <2>1. UNCHANGED <<table, dbNow, moves, list, detail>>
      BY <1>1 DEF dashboardVars
    <2> QED BY <2>1 DEF DashboardInv, DashboardTypes, Rising, GradedHaveGrades, RowAgrees, DetailAgrees, Kept,
                       InReach, TotalHolds, AllSeen, Undisturbed, Found, Newer, NoTies
  <1>2. CASE DashboardNext
    <2>1. list.step # "done"
      BY <1>2 DEF DashboardNext
    <2>2. CASE Create
      BY <2>1, <2>2, CreateStep
    <2>3. CASE BeginList
      BY <2>3, BeginListStep
    <2>4. CASE Count
      BY <2>4, CountStep
    <2>5. CASE FetchPage
      BY <2>5, FetchPageStep
    <2>6. CASE ReadGrade
      BY <2>6, ReadGradeStep
    <2>7. CASE \E i \in DOMAIN table : Move(i) \/ WriteGrade(i) \/ MarkGraded(i) \/ ReadSession(i)
      BY <2>1, <2>7, MoveStep, WriteGradeStep, MarkGradedStep, ReadSessionStep
    <2> QED BY <1>2, <2>2, <2>3, <2>4, <2>5, <2>6, <2>7 DEF DashboardNext
  <1> QED BY <1>1, <1>2

\* A recruiter who pages through the list sees every session that was there when
\* the reading began and stays under its filter, for every page size and any
\* number of new sessions, and a detail that says graded has its grade
\* (sessions.py, list_sessions and get_session_detail).
THEOREM ListMissesNoSession == DashboardSpec => []ReadersAreToldTheTruth
  <1>1. DashboardInv => ReadersAreToldTheTruth
    BY DEF DashboardInv, AllSeen, DetailAgrees, ReadersAreToldTheTruth
  <1> QED BY <1>1, DashboardStart, DashboardStep, PTL DEF DashboardSpec
=============================================================================
