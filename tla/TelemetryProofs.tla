-------------------------- MODULE TelemetryProofs --------------------------
(***************************************************************************)
(* Theorems about the extension's log and about the anchor of the          *)
(* telemetry that is reported through it, for every size of the buffer and *)
(* any number of records, events and ends of the host.                     *)
(***************************************************************************)
EXTENDS TelemetryAnchor, TLAPS

(* What the sequences of record numbers are put through.                     *)

LEMMA SetOfConcat ==
  ASSUME NEW S, NEW p \in Seq(S), NEW q \in Seq(S)
  PROVE  ToSet(p \o q) = ToSet(p) \union ToSet(q)
  <1>1. /\ Len(p \o q) = Len(p) + Len(q) /\ Len(p) \in Nat /\ Len(q) \in Nat
        /\ p \o q \in Seq(S) /\ DOMAIN p = 1..Len(p) /\ DOMAIN q = 1..Len(q)
        /\ DOMAIN (p \o q) = 1..(Len(p) + Len(q))
        /\ \A i \in 1..Len(p) : (p \o q)[i] = p[i]
        /\ \A i \in (Len(p) + 1)..(Len(p) + Len(q)) : (p \o q)[i] = q[i - Len(p)]
    OBVIOUS
  <1>2. ASSUME NEW i \in DOMAIN q PROVE q[i] \in ToSet(p \o q)
    <2>1. i + Len(p) \in DOMAIN (p \o q) /\ (p \o q)[i + Len(p)] = q[i]
      BY <1>1
    <2> QED BY <2>1 DEF ToSet
  <1>3. ASSUME NEW i \in DOMAIN p PROVE p[i] \in ToSet(p \o q)
    <2>1. i \in DOMAIN (p \o q) /\ (p \o q)[i] = p[i]
      BY <1>1
    <2> QED BY <2>1 DEF ToSet
  <1>4. ASSUME NEW i \in DOMAIN (p \o q) PROVE (p \o q)[i] \in ToSet(p) \union ToSet(q)
    <2>1. CASE i <= Len(p)
      <3>1. i \in DOMAIN p /\ (p \o q)[i] = p[i]
        BY <1>1, <2>1
      <3> QED BY <3>1 DEF ToSet
    <2>2. CASE ~(i <= Len(p))
      <3>1. i - Len(p) \in DOMAIN q /\ (p \o q)[i] = q[i - Len(p)]
        BY <1>1, <2>2
      <3> QED BY <3>1 DEF ToSet
    <2> QED BY <2>1, <2>2
  <1> QED BY <1>2, <1>3, <1>4 DEF ToSet

\* Two increasing sequences, the first of them below the second.
LEMMA IncreasingConcat ==
  ASSUME NEW S, S \subseteq Nat, NEW p \in Seq(S), NEW q \in Seq(S)
  PROVE  Increasing(p \o q) <=>
           Increasing(p) /\ Increasing(q) /\ \A a \in ToSet(p), b \in ToSet(q) : a < b
  <1>1. /\ Len(p) \in Nat /\ Len(q) \in Nat /\ DOMAIN p = 1..Len(p) /\ DOMAIN q = 1..Len(q)
        /\ DOMAIN (p \o q) = 1..(Len(p) + Len(q))
        /\ \A i \in 1..Len(p) : (p \o q)[i] = p[i]
        /\ \A i \in (Len(p) + 1)..(Len(p) + Len(q)) : (p \o q)[i] = q[i - Len(p)]
    OBVIOUS
  <1>2. \A i \in DOMAIN q : i + Len(p) \in DOMAIN (p \o q) /\ (p \o q)[i + Len(p)] = q[i]
    BY <1>1
  <1>3. ASSUME Increasing(p \o q)
        PROVE  Increasing(p) /\ Increasing(q) /\ \A a \in ToSet(p), b \in ToSet(q) : a < b
    <2>1. Increasing(p)
      BY <1>1, <1>3 DEF Increasing
    <2>2. Increasing(q)
      <3> SUFFICES ASSUME NEW i \in DOMAIN q, NEW j \in DOMAIN q, i < j PROVE q[i] < q[j]
        BY DEF Increasing
      <3>1. i + Len(p) < j + Len(p)
        BY <1>1
      <3> QED BY <1>2, <1>3, <3>1 DEF Increasing
    <2>3. ASSUME NEW i \in DOMAIN p, NEW j \in DOMAIN q PROVE p[i] < q[j]
      <3>1. i < j + Len(p) /\ i \in DOMAIN (p \o q) /\ (p \o q)[i] = p[i]
        BY <1>1
      <3> QED BY <1>2, <1>3, <3>1 DEF Increasing
    <2> QED BY <2>1, <2>2, <2>3 DEF ToSet
  <1>4. ASSUME Increasing(p), Increasing(q), \A a \in ToSet(p), b \in ToSet(q) : a < b
        PROVE  Increasing(p \o q)
    <2> SUFFICES ASSUME NEW i \in DOMAIN (p \o q), NEW j \in DOMAIN (p \o q), i < j
                 PROVE  (p \o q)[i] < (p \o q)[j]
      BY DEF Increasing
    <2>1. CASE j <= Len(p)
      <3>1. i \in DOMAIN p /\ j \in DOMAIN p
        BY <1>1, <2>1
      <3> QED BY <1>1, <1>4, <3>1 DEF Increasing
    <2>2. CASE ~(i <= Len(p))
      <3>1. /\ i - Len(p) \in DOMAIN q /\ j - Len(p) \in DOMAIN q /\ i - Len(p) < j - Len(p)
            /\ (p \o q)[i] = q[i - Len(p)] /\ (p \o q)[j] = q[j - Len(p)]
        BY <1>1, <2>2
      <3> QED BY <1>4, <3>1 DEF Increasing
    <2>3. CASE i <= Len(p) /\ ~(j <= Len(p))
      <3>1. /\ i \in DOMAIN p /\ j - Len(p) \in DOMAIN q
            /\ (p \o q)[i] = p[i] /\ (p \o q)[j] = q[j - Len(p)]
        BY <1>1, <2>3
      <3> QED BY <1>4, <3>1 DEF ToSet
    <2> QED BY <1>1, <2>1, <2>2, <2>3
  <1> QED BY <1>3, <1>4

\* What the cap keeps of an increasing sequence is its greater part.
LEMMA CapKeepsYoungest ==
  ASSUME NEW S, S \subseteq Nat, NEW q \in Seq(S), NEW n \in Nat, Increasing(q)
  PROVE  LET kept == Youngest(q, n) IN
         /\ kept \in Seq(S) /\ Increasing(kept) /\ ToSet(kept) \subseteq ToSet(q)
         /\ \A d \in ToSet(q) \ ToSet(kept), r \in ToSet(kept) : d < r
  <1> DEFINE kept == Youngest(q, n)
             cut == Len(q) - n
  <1>1. CASE ~(Len(q) > n)
    BY <1>1 DEF Youngest
  <1>2. CASE Len(q) > n
    <2>1. cut \in Nat /\ cut <= Len(q) /\ Len(q) \in Nat /\ DOMAIN q = 1..Len(q)
      BY <1>2
    <2>2. kept = SubSeq(q, cut + 1, Len(q))
      BY <1>2 DEF Youngest
    <2>3. /\ kept \in Seq(S) /\ Len(kept) = n /\ DOMAIN kept = 1..n
          /\ \A i \in 1..n : kept[i] = q[i + cut]
      <3> HIDE DEF kept
      <3>1. cut + 1 \in 1..(Len(q) + 1) /\ Len(q) \in 0..Len(q)
        BY <2>1
      <3>2. Len(kept) = Len(q) - (cut + 1) + 1
        BY <2>1, <2>2
      <3>3. \A i \in 1..Len(kept) : kept[i] = q[cut + 1 + i - 1]
        BY <2>1, <2>2
      <3>4. kept \in Seq(S)
        BY <2>1, <2>2
      <3> QED BY <2>1, <3>2, <3>3, <3>4
    <2> HIDE DEF kept, cut
    <2>4. \A i \in 1..n : i + cut \in DOMAIN q
      BY <2>1 DEF cut
    <2>5. Increasing(kept)
      <3> SUFFICES ASSUME NEW i \in 1..n, NEW j \in 1..n, i < j PROVE kept[i] < kept[j]
        BY <2>3 DEF Increasing
      <3>1. i + cut < j + cut
        BY <2>1
      <3> QED BY <2>3, <2>4, <3>1 DEF Increasing
    <2>6. ToSet(kept) \subseteq ToSet(q)
      BY <2>3, <2>4 DEF ToSet
    <2>7. ASSUME NEW d \in ToSet(q) \ ToSet(kept), NEW r \in ToSet(kept) PROVE d < r
      <3>1. PICK i \in DOMAIN q : d = q[i]
        BY DEF ToSet
      <3>2. PICK j \in 1..n : r = q[j + cut]
        BY <2>3 DEF ToSet
      <3>3. i <= cut
        <4> SUFFICES ASSUME i > cut PROVE FALSE
          BY <2>1
        <4>1. i - cut \in 1..n /\ (i - cut) + cut = i
          BY <2>1 DEF cut
        <4>2. kept[i - cut] = q[i]
          BY <2>3, <4>1
        <4> QED BY <2>3, <3>1, <4>1, <4>2 DEF ToSet
      <3>4. i < j + cut
        BY <2>1, <3>3
      <3> QED BY <2>4, <3>1, <3>2, <3>4 DEF Increasing
    <2> QED BY <2>3, <2>5, <2>6, <2>7 DEF kept
  <1> QED BY <1>1, <1>2

----------------------------------------------------------------------------
(* The log.  What is in flight is older than what waits, and a batch whose   *)
(* answer is on its way has its rows.                                        *)

InOrder ==
  /\ Increasing(batch) /\ Increasing(buffer) /\ Increasing(saved)
  /\ \A a \in ToSet(batch), b \in ToSet(buffer) : a < b
DroppedFirst == ends = 0 => \A d \in dropped, r \in ToSet(batch) \union ToSet(buffer) : d < r
StoredArrived == flight = "stored" => ToSet(batch) \subseteq received
FirstHostUp == ends = 0 => up

LogInv == LTypeOK /\ InOrder /\ NoneMissing /\ DroppedFirst /\ StoredArrived /\ FirstHostUp

LEMMA EmptyQueue == Increasing(<< >>) /\ ToSet(<< >>) = {}
  BY DEF Increasing, ToSet

LEMMA MembersOf == ASSUME NEW S, NEW q \in Seq(S) PROVE ToSet(q) \subseteq S
  BY DEF ToSet

LEMMA LogTypes ==
  ASSUME LTypeOK
  PROVE  /\ Len(logged) \in Nat
         /\ buffer \in Seq(1..Len(logged)) /\ batch \in Seq(1..Len(logged))
         /\ saved \in Seq(1..Len(logged))
         /\ ToSet(buffer) \subseteq 1..Len(logged) /\ ToSet(batch) \subseteq 1..Len(logged)
  <1>1. /\ Len(logged) \in Nat /\ buffer \in Seq(1..Len(logged))
        /\ batch \in Seq(1..Len(logged)) /\ saved \in Seq(1..Len(logged))
    BY DEF LTypeOK
  <1> QED BY <1>1, MembersOf

\* What concerns the records is all there is to it.
LEMMA LogStays ==
  ASSUME LogInv, UNCHANGED <<logged, up, buffer, batch, flight, saved, received, limbo, dropped, ends>>,
         session' \in BOOLEAN, ~up => ~session'
  PROVE  LogInv'
  <1>1. LTypeOK'
    BY DEF LogInv, LTypeOK
  <1>2. InOrder'
    BY DEF LogInv, InOrder, Increasing, ToSet
  <1>3. NoneMissing'
    BY DEF LogInv, NoneMissing, ToSet
  <1>4. DroppedFirst' /\ StoredArrived' /\ FirstHostUp'
    BY DEF LogInv, DroppedFirst, StoredArrived, FirstHostUp, ToSet
  <1> QED BY <1>1, <1>2, <1>3, <1>4 DEF LogInv

LEMMA LogStart == LInit => LogInv
  <1> SUFFICES ASSUME LInit PROVE LogInv
    OBVIOUS
  <1>1. /\ logged = << >> /\ buffer = << >> /\ batch = << >> /\ saved = << >> /\ flight = "none"
        /\ received = {} /\ limbo = {} /\ dropped = {} /\ ends = 0 /\ up = TRUE /\ session = FALSE
    BY DEF LInit
  <1>2. Len(logged) = 0 /\ logged \in Seq(Body) /\ 1..0 = {} /\ << >> \in Seq(1..0)
    BY <1>1
  <1>3. LTypeOK
    <2>1. \A q \in {buffer, batch, saved} : q \in Seq(1..Len(logged))
      BY <1>1, <1>2
    <2>2. received \union limbo \union dropped \subseteq 1..Len(logged) /\ ends \in 0..MaxEnds
      BY <1>1, <1>2, LogAssumption
    <2>3. Len(logged) <= MaxLogged
      BY <1>2, LogAssumption
    <2>4. up \in BOOLEAN /\ session \in BOOLEAN /\ (~up => buffer = << >> /\ batch = << >> /\ ~session)
      BY <1>1
    <2>5. received \intersect limbo = {} /\ (flight = "none") /\ (batch = << >>)
      BY <1>1
    <2> QED BY <1>2, <2>1, <2>2, <2>3, <2>4, <2>5 DEF LTypeOK
  <1>4. InOrder
    BY <1>1, EmptyQueue DEF InOrder
  <1>5. NoneMissing
    BY <1>1, <1>2, EmptyQueue DEF NoneMissing
  <1> QED BY <1>1, <1>3, <1>4, <1>5 DEF LogInv, DroppedFirst, StoredArrived, FirstHostUp

LEMMA LogAnswers == LogInv => RecordsAreKept
  <1> SUFFICES ASSUME LogInv PROVE RecordsAreKept
    OBVIOUS
  <1>1. /\ Len(logged) \in Nat /\ 1..Len(logged) \subseteq Nat
        /\ buffer \in Seq(1..Len(logged)) /\ batch \in Seq(1..Len(logged))
    BY LogTypes DEF LogInv
  <1>2. Increasing(batch \o buffer)
    BY <1>1, IncreasingConcat DEF LogInv, InOrder
  <1>3. ToSet(batch \o buffer) = ToSet(batch) \union ToSet(buffer)
    BY <1>1, SetOfConcat
  <1> QED BY <1>2, <1>3 DEF RecordsAreKept, KeptInOrder, CapDropsOldest, LogInv, InOrder, DroppedFirst

\* A flush moves what waits into the batch, or leaves it.
LEMMA FlushMoves ==
  ASSUME NEW n \in Nat, NEW records \in Seq(1..n),
         batch \in Seq(1..n), saved \in Seq(1..n), flight \in {"none", "posting", "stored", "cut"},
         (flight = "none") <=> (batch = << >>),
         Increasing(batch), Increasing(records), Increasing(saved),
         \A a \in ToSet(batch), b \in ToSet(records) : a < b,
         FlushWith(records, TRUE) \/ FlushWith(records, FALSE)
  PROVE  /\ batch' \in Seq(1..n) /\ buffer' \in Seq(1..n) /\ saved' \in Seq(1..n)
         /\ flight' \in {"none", "posting", "stored", "cut"}
         /\ (flight' = "none") <=> (batch' = << >>)
         /\ flight' = "stored" => flight = "stored" /\ batch' = batch
         /\ InOrder'
         /\ ToSet(batch)' \union ToSet(buffer)' = ToSet(batch) \union ToSet(records)
  <1>1. CASE flight = "none" /\ FlushWith(records, TRUE) /\ records # << >>
    <2>1. batch' = records /\ buffer' = << >> /\ saved' = << >> /\ flight' = "posting" /\ batch = << >>
      BY <1>1 DEF FlushWith
    <2>2. ToSet(batch)' = ToSet(records) /\ ToSet(buffer)' = {} /\ ToSet(batch) = {}
      BY <2>1, EmptyQueue DEF ToSet
    <2>3. InOrder'
      BY <2>1, <2>2, EmptyQueue DEF InOrder, Increasing
    <2> QED BY <1>1, <2>1, <2>2, <2>3
  <1>2. CASE ~(flight = "none" /\ FlushWith(records, TRUE) /\ records # << >>)
    <2>1. buffer' = records /\ UNCHANGED <<batch, saved, flight>>
      BY <1>2 DEF FlushWith
    <2>2. ToSet(batch)' = ToSet(batch) /\ ToSet(buffer)' = ToSet(records)
      BY <2>1 DEF ToSet
    <2>3. InOrder'
      BY <2>1, <2>2 DEF InOrder, Increasing
    <2> QED BY <2>1, <2>2, <2>3
  <1> QED BY <1>1, <1>2

LEMMA LogRecord == ASSUME LogInv, NEW body \in Body, Log(body) PROVE LogInv'
  <1> USE LogAssumption
  <1> DEFINE n == Len(logged)
             records == Append(buffer, n + 1)
  <1>1. /\ n \in Nat /\ n < MaxLogged /\ LTypeOK /\ logged \in Seq(Body)
        /\ buffer \in Seq(1..n) /\ batch \in Seq(1..n) /\ saved \in Seq(1..n)
        /\ ToSet(buffer) \subseteq 1..n /\ ToSet(batch) \subseteq 1..n
    BY LogTypes DEF LogInv, LTypeOK, Log
  <1>2. logged' \in Seq(Body) /\ Len(logged') = n + 1 /\ n + 1 \in Nat
    BY <1>1 DEF Log
  <1>3. /\ records \in Seq(1..(n + 1)) /\ batch \in Seq(1..(n + 1)) /\ saved \in Seq(1..(n + 1))
        /\ buffer \in Seq(1..(n + 1)) /\ <<n + 1>> \in Seq(1..(n + 1))
        /\ records = buffer \o <<n + 1>> /\ 1..(n + 1) \subseteq Nat
    <2>1. 1..n \subseteq 1..(n + 1) /\ n + 1 \in 1..(n + 1)
      BY <1>1
    <2> HIDE DEF n
    <2> QED BY <1>1, <2>1
  <1>4. ToSet(<<n + 1>>) = {n + 1} /\ Increasing(<<n + 1>>)
    BY DEF ToSet, Increasing
  <1>5. ToSet(records) = ToSet(buffer) \union {n + 1}
    <2> HIDE DEF n, records
    <2> DEFINE last == <<n + 1>>
    <2>1. last \in Seq(1..(n + 1)) /\ records = buffer \o last /\ ToSet(last) = {n + 1}
      BY <1>3, <1>4
    <2> HIDE DEF last
    <2>2. ToSet(buffer \o last) = ToSet(buffer) \union ToSet(last)
      BY <1>3, <2>1, SetOfConcat
    <2> QED BY <2>1, <2>2
  <1>6. Increasing(records)
    <2>1. \A a \in ToSet(buffer) : a < n + 1
      BY <1>1
    <2> HIDE DEF n, records
    <2>2. Increasing(buffer) /\ \A a \in ToSet(buffer), b \in ToSet(<<n + 1>>) : a < b
      BY <1>4, <2>1 DEF LogInv, InOrder
    <2> QED BY <1>3, <1>4, <2>2, IncreasingConcat
  <1>7. \A a \in ToSet(batch), b \in ToSet(records) : a < b
    BY <1>1, <1>5 DEF LogInv, InOrder
  <1>8. FlushWith(records, TRUE) \/ FlushWith(records, FALSE)
    <2> HIDE DEF n
    <2>1. n = Len(logged)
      BY DEF n
    <2> QED BY <2>1 DEF Log, FlushWith
  <1>9. /\ batch' \in Seq(1..(n + 1)) /\ buffer' \in Seq(1..(n + 1)) /\ saved' \in Seq(1..(n + 1))
        /\ flight' \in {"none", "posting", "stored", "cut"}
        /\ (flight' = "none") <=> (batch' = << >>)
        /\ flight' = "stored" => flight = "stored" /\ batch' = batch
        /\ InOrder'
        /\ ToSet(batch)' \union ToSet(buffer)' = ToSet(batch) \union ToSet(records)
    <2>1. /\ flight \in {"none", "posting", "stored", "cut"}
          /\ (flight = "none") <=> (batch = << >>)
          /\ Increasing(batch) /\ Increasing(saved)
      BY DEF LogInv, LTypeOK, InOrder
    <2> HIDE DEF n, records
    <2>3. /\ n + 1 \in Nat /\ records \in Seq(1..(n + 1)) /\ batch \in Seq(1..(n + 1))
          /\ saved \in Seq(1..(n + 1)) /\ Increasing(records)
      BY <1>2, <1>3, <1>6
    <2> QED BY <1>7, <1>8, <2>1, <2>3, FlushMoves
  <1>10. up /\ UNCHANGED <<up, session, received, limbo, dropped, ends>>
    BY DEF Log
  <1>11. LTypeOK'
    <2>1. 1..n \subseteq 1..(n + 1) /\ n + 1 <= MaxLogged
      BY <1>1
    <2> HIDE DEF n, records
    <2>2. Len(logged) = n
      BY DEF n
    <2> QED BY <1>2, <1>9, <1>10, <2>1, <2>2 DEF LogInv, LTypeOK
  <1>12. NoneMissing'
    <2>1. ends = 0 => 1..n = ToSet(buffer) \union ToSet(batch) \union received \union dropped
      BY DEF LogInv, NoneMissing
    <2>2. 1..(n + 1) = 1..n \union {n + 1}
      BY <1>1
    <2> HIDE DEF n, records
    <2> QED BY <1>2, <1>5, <1>9, <1>10, <2>1, <2>2 DEF NoneMissing
  <1>13. DroppedFirst'
    <2>1. dropped \subseteq 1..n
      BY DEF LogInv, LTypeOK
    <2>2. \A d \in dropped : d < n + 1
      BY <1>1, <2>1
    <2> HIDE DEF n, records
    <2> QED BY <1>5, <1>9, <1>10, <2>2 DEF LogInv, DroppedFirst
  <1>14. StoredArrived' /\ FirstHostUp'
    BY <1>9, <1>10 DEF LogInv, StoredArrived, FirstHostUp, ToSet
  <1> QED BY <1>9, <1>11, <1>12, <1>13, <1>14 DEF LogInv

LEMMA LogFlush ==
  ASSUME LogInv, FlushWith(buffer, TRUE), session' = TRUE, up,
         UNCHANGED <<logged, up, received, limbo, dropped, ends>>
  PROVE  LogInv'
  <1> DEFINE n == Len(logged)
  <1>1. /\ n \in Nat /\ LTypeOK /\ Len(logged)' = n
        /\ buffer \in Seq(1..n) /\ batch \in Seq(1..n) /\ saved \in Seq(1..n)
    BY LogTypes DEF LogInv
  <1> HIDE DEF n
  <1>2. /\ flight \in {"none", "posting", "stored", "cut"}
        /\ (flight = "none") <=> (batch = << >>)
        /\ Increasing(batch) /\ Increasing(buffer) /\ Increasing(saved)
        /\ \A a \in ToSet(batch), b \in ToSet(buffer) : a < b
    BY DEF LogInv, LTypeOK, InOrder
  <1>4. /\ batch' \in Seq(1..n) /\ buffer' \in Seq(1..n) /\ saved' \in Seq(1..n)
        /\ flight' \in {"none", "posting", "stored", "cut"}
        /\ (flight' = "none") <=> (batch' = << >>)
        /\ flight' = "stored" => flight = "stored" /\ batch' = batch
        /\ InOrder'
        /\ ToSet(batch)' \union ToSet(buffer)' = ToSet(batch) \union ToSet(buffer)
    BY <1>1, <1>2, FlushMoves
  <1>5. LTypeOK'
    BY <1>1, <1>4 DEF LTypeOK
  <1>6. NoneMissing' /\ DroppedFirst'
    BY <1>1, <1>4 DEF LogInv, NoneMissing, DroppedFirst
  <1>7. StoredArrived' /\ FirstHostUp'
    BY <1>4 DEF LogInv, StoredArrived, FirstHostUp, ToSet
  <1> QED BY <1>4, <1>5, <1>6, <1>7 DEF LogInv

LEMMA LogDeliver == ASSUME LogInv, NEW k \in 1..MaxLogged, Deliver(k) PROVE LogInv'
  <1> DEFINE rows == ToSet(SubSeq(batch, 1, k))
  <1>1. /\ Len(logged) \in Nat /\ batch \in Seq(1..Len(logged)) /\ k \in 1..Len(batch)
        /\ ToSet(batch) \subseteq 1..Len(logged)
    BY LogTypes DEF LogInv, Deliver
  <1>2. /\ Len(SubSeq(batch, 1, k)) = k /\ DOMAIN SubSeq(batch, 1, k) = 1..k
        /\ \A i \in 1..k : SubSeq(batch, 1, k)[i] = batch[i] /\ i \in DOMAIN batch
    BY <1>1
  <1>3. rows \subseteq ToSet(batch) /\ (k = Len(batch) => rows = ToSet(batch))
    <2>1. rows = {batch[i] : i \in 1..k}
      BY <1>2 DEF ToSet
    <2>2. ToSet(batch) = {batch[i] : i \in 1..Len(batch)}
      BY <1>1 DEF ToSet
    <2> QED BY <1>1, <2>1, <2>2
  <1>4. /\ flight = "posting" /\ received' = received \union rows /\ limbo' = limbo \ received'
        /\ flight' = (IF k = Len(batch) THEN "stored" ELSE "cut")
        /\ UNCHANGED <<logged, up, session, buffer, batch, saved, dropped, ends>>
    BY DEF Deliver
  <1> HIDE DEF rows
  <1>5. LTypeOK'
    BY <1>1, <1>3, <1>4 DEF LogInv, LTypeOK
  <1>6. NoneMissing'
    BY <1>3, <1>4 DEF LogInv, NoneMissing, ToSet
  <1>7. StoredArrived'
    BY <1>3, <1>4 DEF StoredArrived, ToSet
  <1>8. InOrder' /\ DroppedFirst' /\ FirstHostUp'
    BY <1>4 DEF LogInv, InOrder, DroppedFirst, FirstHostUp, Increasing, ToSet
  <1> QED BY <1>5, <1>6, <1>7, <1>8 DEF LogInv

LEMMA LogPostOk == ASSUME LogInv, PostOk PROVE LogInv'
  <1>1. /\ flight = "stored" /\ flight' = "none" /\ batch' = << >>
        /\ UNCHANGED <<logged, up, session, buffer, saved, received, limbo, dropped, ends>>
    BY DEF PostOk
  <1>2. ToSet(batch)' = {} /\ ToSet(buffer)' = ToSet(buffer) /\ ToSet(batch) \subseteq received
    BY <1>1, EmptyQueue DEF LogInv, StoredArrived, ToSet
  <1>3. << >> \in Seq(1..Len(logged))
    OBVIOUS
  <1>4. LTypeOK'
    BY <1>1, <1>3 DEF LogInv, LTypeOK
  <1>5. InOrder'
    BY <1>1, <1>2, EmptyQueue DEF LogInv, InOrder, Increasing
  <1> QED BY <1>1, <1>2, <1>4, <1>5 DEF LogInv, NoneMissing, DroppedFirst, StoredArrived, FirstHostUp

LEMMA LogPostFails == ASSUME LogInv, PostFails PROVE LogInv'
  <1> USE LogAssumption
  <1> DEFINE n == Len(logged)
             restored == batch \o buffer
             kept == Youngest(restored, Cap)
  <1>1. /\ n \in Nat /\ buffer \in Seq(1..n) /\ batch \in Seq(1..n) /\ saved \in Seq(1..n)
        /\ 1..n \subseteq Nat /\ restored \in Seq(1..n) /\ << >> \in Seq(1..n)
        /\ ToSet(buffer) \subseteq 1..n /\ ToSet(batch) \subseteq 1..n
    BY LogTypes DEF LogInv
  <1>2. /\ flight # "none" /\ buffer' = kept /\ saved' = kept
        /\ dropped' = dropped \union (ToSet(restored) \ ToSet(kept))
        /\ limbo' = limbo \union (ToSet(OnTheWay) \ received)
        /\ flight' = "none" /\ batch' = << >>
        /\ UNCHANGED <<logged, up, session, received, ends>>
    BY DEF PostFails
  <1>3. ToSet(OnTheWay) \subseteq 1..n
    BY <1>1, EmptyQueue DEF OnTheWay
  <1>4. Len(logged)' = n
    BY <1>2
  <1> HIDE DEF n
  <1>5. Increasing(restored) /\ ToSet(restored) = ToSet(batch) \union ToSet(buffer)
    <2>1. Increasing(restored)
      BY <1>1, IncreasingConcat DEF LogInv, InOrder
    <2>2. ToSet(restored) = ToSet(batch) \union ToSet(buffer)
      BY <1>1, SetOfConcat
    <2> QED BY <2>1, <2>2
  <1> HIDE DEF restored
  <1>6. /\ kept \in Seq(1..n) /\ Increasing(kept) /\ ToSet(kept) \subseteq ToSet(restored)
        /\ \A d \in ToSet(restored) \ ToSet(kept), r \in ToSet(kept) : d < r
    BY <1>1, <1>5, CapKeepsYoungest
  <1> HIDE DEF kept
  <1>7. ToSet(batch)' = {} /\ ToSet(buffer)' = ToSet(kept) /\ Increasing(batch)' /\ Increasing(saved)'
        /\ Increasing(buffer)'
    BY <1>2, <1>6, EmptyQueue DEF ToSet, Increasing
  <1>8. InOrder'
    BY <1>7 DEF InOrder
  <1>9. LTypeOK'
    <2>1. /\ received \union limbo' \union dropped' \subseteq 1..n /\ received \intersect limbo' = {}
          /\ (~up => ~session /\ kept = << >>)
      <3>1. received \union limbo \union dropped \subseteq 1..n /\ received \intersect limbo = {}
        BY DEF LogInv, LTypeOK, n
      <3>2. up
        BY <1>2 DEF LogInv, LTypeOK
      <3> QED BY <1>1, <1>2, <1>3, <1>5, <3>1, <3>2
    <2> QED BY <1>1, <1>2, <1>4, <1>6, <2>1 DEF LogInv, LTypeOK, n
  <1>10. NoneMissing'
    BY <1>2, <1>5, <1>6, <1>7 DEF LogInv, NoneMissing
  <1>11. DroppedFirst'
    <2> SUFFICES ASSUME ends = 0, NEW d \in dropped', NEW r \in ToSet(kept) PROVE d < r
      BY <1>2, <1>7 DEF DroppedFirst
    <2>1. CASE d \in dropped
      BY <1>5, <1>6, <2>1 DEF LogInv, DroppedFirst
    <2>2. CASE d \notin dropped
      BY <1>2, <1>6, <2>2
    <2> QED BY <2>1, <2>2
  <1> QED BY <1>2, <1>8, <1>9, <1>10, <1>11 DEF LogInv, StoredArrived, FirstHostUp

LEMMA LogHostEnds ==
  ASSUME LogInv, NEW posted, ToSet(posted) \subseteq 1..Len(logged), ends < MaxEnds, HostEnds(posted),
         saved' \in {saved, buffer, << >>}
  PROVE  LogInv'
  <1> USE LogAssumption
  <1>1. /\ buffer \in Seq(1..Len(logged)) /\ saved \in Seq(1..Len(logged)) /\ << >> \in Seq(1..Len(logged))
        /\ Increasing(buffer) /\ Increasing(saved) /\ ends \in Nat
    BY LogTypes DEF LogInv, InOrder, LTypeOK
  <1>2. /\ up' = FALSE /\ session' = FALSE /\ buffer' = << >> /\ batch' = << >> /\ flight' = "none"
        /\ limbo' = limbo \union (ToSet(posted) \ received) /\ ends' = ends + 1
        /\ UNCHANGED <<logged, received, dropped>>
    BY DEF HostEnds
  <1>3. saved' \in Seq(1..Len(logged)) /\ Increasing(saved')
    BY <1>1, EmptyQueue
  <1>4. LTypeOK'
    <2>1. /\ ends' \in 0..MaxEnds
          /\ received' \union limbo' \union dropped' \subseteq 1..Len(logged)
          /\ received' \intersect limbo' = {}
      BY <1>2 DEF LogInv, LTypeOK
    <2>2. up' \in BOOLEAN /\ session' \in BOOLEAN /\ logged' \in Seq(Body) /\ Len(logged') <= MaxLogged
      BY <1>2 DEF LogInv, LTypeOK
    <2> QED BY <1>1, <1>2, <1>3, <2>1, <2>2 DEF LTypeOK
  <1>5. InOrder'
    BY <1>2, <1>3, EmptyQueue DEF InOrder, Increasing, ToSet
  <1> QED BY <1>1, <1>2, <1>4, <1>5 DEF LogInv, NoneMissing, DroppedFirst, StoredArrived, FirstHostUp

LEMMA LogStep == LogInv /\ LNext => LogInv'
  <1> SUFFICES ASSUME LogInv, LNext PROVE LogInv'
    OBVIOUS
  <1>1. /\ ToSet(buffer) \subseteq 1..Len(logged) /\ ToSet(batch) \subseteq 1..Len(logged)
        /\ ToSet(OnTheWay) \subseteq 1..Len(logged)
    BY LogTypes, EmptyQueue DEF LogInv, OnTheWay
  <1>2. CASE \E body \in Body : Log(body)
    BY <1>2, LogRecord
  <1>3. CASE SetSession
    BY <1>3, LogFlush DEF SetSession
  <1>4. CASE ClearSession
    BY <1>4, LogStays DEF ClearSession
  <1>5. CASE FlushTick
    <2>1. FlushWith(buffer, TRUE)
      BY <1>5 DEF FlushTick, FlushWith
    <2> QED BY <1>5, <2>1, LogFlush DEF FlushTick, LogInv, LTypeOK
  <1>6. CASE \E k \in 1..MaxLogged : Deliver(k)
    BY <1>6, LogDeliver
  <1>7. CASE PostOk
    BY <1>7, LogPostOk
  <1>8. CASE PostFails
    BY <1>8, LogPostFails
  <1>9. CASE LateInsert
    <2>1. PICK id \in limbo : received' = received \union {id} /\ limbo' = limbo \ {id}
      BY <1>9 DEF LateInsert
    <2>2. UNCHANGED <<logged, up, session, buffer, batch, flight, saved, dropped, ends>>
      BY <1>9 DEF LateInsert
    <2>3. LTypeOK'
      BY <2>1, <2>2 DEF LogInv, LTypeOK
    <2>4. NoneMissing' /\ StoredArrived'
      BY <1>1, <2>1, <2>2 DEF LogInv, LTypeOK, NoneMissing, StoredArrived, ToSet
    <2> QED BY <2>2, <2>3, <2>4 DEF LogInv, InOrder, DroppedFirst, FirstHostUp, Increasing, ToSet
  <1>10. CASE Crash
    BY <1>1, <1>10, LogHostEnds DEF Crash
  <1>11. CASE Dispose
    BY <1>1, <1>11, LogHostEnds DEF Dispose
  <1>12. CASE Activate
    <2>1. /\ ~up /\ up' = TRUE /\ buffer' = saved
          /\ UNCHANGED <<logged, session, batch, flight, saved, received, limbo, dropped, ends>>
      BY <1>12 DEF Activate
    <2>2. batch = << >> /\ ToSet(batch) = {} /\ ends # 0
      BY <2>1, EmptyQueue DEF LogInv, LTypeOK, FirstHostUp
    <2>3. LTypeOK'
      BY <2>1, <2>2 DEF LogInv, LTypeOK
    <2>4. InOrder'
      BY <2>1, <2>2 DEF LogInv, InOrder, Increasing, ToSet
    <2> QED BY <2>1, <2>2, <2>3, <2>4 DEF LogInv, NoneMissing, DroppedFirst, StoredArrived, FirstHostUp, ToSet
  <1> QED BY <1>2, <1>3, <1>4, <1>5, <1>6, <1>7, <1>8, <1>9, <1>10, <1>11, <1>12 DEF LNext

LEMMA LogInvariant == LSpec => []LogInv
  <1>1. LogInv /\ [LNext]_lvars => LogInv'
    <2>1. LogInv /\ UNCHANGED lvars => LogInv'
      BY LogStays DEF lvars, LogInv, LTypeOK
    <2> QED BY <2>1, LogStep
  <1> QED BY <1>1, LogStart, PTL DEF LSpec

(* The log's state is what the code's types say, for every size of it.       *)
THEOREM LogTyped == LSpec => []LTypeOK
  <1>1. LogInv => LTypeOK
    BY DEF LogInv
  <1> QED BY <1>1, LogInvariant, PTL

(* While the first host lives no record is lost, none overtakes another and  *)
(* the cap takes the oldest, for every cap, threshold and failure of a POST. *)
THEOREM LogKeepsRecords == LSpec => []RecordsAreKept
  BY LogInvariant, LogAnswers, PTL

----------------------------------------------------------------------------
(* The anchor.  Whatever is removed or lost, the first event that the        *)
(* workspace and the branch begin with, the events reported and the believed *)
(* reports stay in step.                                                     *)

\* The first event of a file, if it has one.
FirstOf(file) == IF file.events = << >> THEN NoAnchor ELSE Head(file.events)

AnchorTypes ==
  /\ emitted \in 0..MaxEvents
  /\ disk \in File /\ pushed \in File
  /\ ~disk.there => disk.events = << >>
  /\ ~pushed.there => pushed.events = << >>
  /\ tracking \in BOOLEAN /\ (tracking => up /\ session)
  /\ anchor \in 0..emitted /\ stored \in 0..emitted
  /\ ~tracking => anchor = NoAnchor
  /\ removed \in BOOLEAN /\ lost \in BOOLEAN
  /\ failedWrites \in 0..MaxFailedWrites

\* The branch never begins with a younger event than the workspace.
FirstsInOrder ==
  /\ FirstOf(disk) \in 0..emitted /\ FirstOf(pushed) \in 0..emitted
  /\ FirstOf(disk) # NoAnchor /\ FirstOf(pushed) # NoAnchor => FirstOf(pushed) <= FirstOf(disk)

ReportsGiven == logged \in Seq(Report) /\ \A i \in DOMAIN logged : logged[i].first <= emitted

\* An undisturbed interview has one first event, wherever it is kept.
OneFirst ==
  Undisturbed =>
    /\ \A i \in DOMAIN logged : logged[i].first = 1
    /\ anchor \in {NoAnchor, 1} /\ stored \in {NoAnchor, 1}
    /\ FirstOf(pushed) \in {NoAnchor, 1}
    /\ emitted > 0 => FirstOf(disk) = 1
    /\ tracking /\ emitted > 0 => anchor = 1

\* A report the grader believes.
Given(i) == logged[i].origin # "resume"

\* A report that is not of event 1 and was made before one that is: no file
\* begins with its event any more.
Superseded ==
  \A r, k \in DOMAIN logged :
    r < k /\ Given(k) /\ logged[k].first = 1 /\ Given(r) /\ logged[r].first # 1
      => logged[r].first \notin {FirstOf(disk), FirstOf(pushed)}

AnchorInv ==
  /\ LogInv
  /\ AnchorTypes /\ FirstsInOrder /\ ReportsGiven /\ OneFirst /\ Superseded

LEMMA FirstOfFile ==
  ASSUME NEW file \in File
  PROVE  /\ FirstOf(file) \in 0..MaxEvents
         /\ FirstOf(file) = NoAnchor <=> file.events = << >>
         /\ file.events # << >> => FirstOf(file) = Head(file.events)
  <1>1. file.events \in Seq(1..MaxEvents) /\ MaxEvents \in Nat
    BY AnchorAssumption DEF File
  <1>2. CASE file.events = << >>
    BY <1>1, <1>2 DEF FirstOf, NoAnchor
  <1>3. CASE file.events # << >>
    <2>1. Head(file.events) \in 1..MaxEvents
      BY <1>1, <1>3
    <2> QED BY <1>1, <1>3, <2>1 DEF FirstOf, NoAnchor
  <1> QED BY <1>2, <1>3

\* The file after an append.
LEMMA FirstOfAppended ==
  ASSUME NEW file \in File, NEW event \in 1..MaxEvents
  PROVE  LET longer == [there |-> TRUE, events |-> Append(file.events, event)] IN
         /\ longer \in File
         /\ FirstOf(longer) = IF FirstOf(file) = NoAnchor THEN event ELSE FirstOf(file)
  <1> DEFINE q == file.events
             longer == [there |-> TRUE, events |-> Append(q, event)]
  <1>1. q \in Seq(1..MaxEvents)
    BY DEF File
  <1>2. Append(q, event) \in Seq(1..MaxEvents) /\ Append(q, event) # << >>
    <2> HIDE DEF q
    <2> QED BY <1>1
  <1>3. longer \in File
    <2> HIDE DEF q
    <2> QED BY <1>2 DEF File
  <1>4. Head(Append(q, event)) = IF q = << >> THEN event ELSE Head(q)
    <2> HIDE DEF q
    <2>1. Head(Append(q, event)) = Append(q, event)[1] /\ Head(q) = q[1]
      BY <1>1, <1>2
    <2>2. CASE q = << >>
      BY <2>1, <2>2
    <2>3. CASE q # << >>
      <3>1. Len(q) >= 1
        BY <1>1, <2>3
      <3> QED BY <1>1, <2>1, <2>3, <3>1
    <2> QED BY <2>2, <2>3
  <1>5. FirstOf(longer) = Head(Append(q, event))
    BY <1>2 DEF FirstOf
  <1>6. (FirstOf(file) = NoAnchor <=> q = << >>) /\ (q # << >> => FirstOf(file) = Head(q))
    BY FirstOfFile
  <1> HIDE DEF q
  <1> QED BY <1>3, <1>4, <1>5, <1>6 DEF q

LEMMA FirstOfNothing ==
  /\ FirstOf(Marked) = NoAnchor
  /\ FirstOf([there |-> FALSE, events |-> << >>]) = NoAnchor
  /\ Marked \in File /\ [there |-> FALSE, events |-> << >>] \in File
  BY DEF FirstOf, Marked, File

\* A report more in the log.
LEMMA ReportMade ==
  ASSUME logged \in Seq(Report), NEW body \in Report, Log(body)
  PROVE  /\ logged' \in Seq(Report) /\ Len(logged) \in Nat
         /\ DOMAIN logged = 1..Len(logged) /\ DOMAIN logged' = 1..(Len(logged) + 1)
         /\ logged'[Len(logged) + 1] = body
         /\ \A i \in DOMAIN logged : logged'[i] = logged[i]
         /\ UNCHANGED <<up, session>>
  BY DEF Log

\* What a step of the anchor does to the log is a step of the log.
LEMMA AnchorLogs == AnchorInv /\ AnchorNext => LNext \/ UNCHANGED lvars
  <1> USE AnchorAssumption
  <1> SUFFICES ASSUME AnchorInv, AnchorNext PROVE LNext \/ UNCHANGED lvars
    OBVIOUS
  <1>1. AnchorTypes /\ FirstsInOrder
    BY DEF AnchorInv
  <1>2. ASSUME NEW first \in 1..MaxEvents, NEW origin \in Origins, Reported(first, origin) PROVE LNext
    <2>1. [first |-> first, origin |-> origin] \in Body
      BY DEF Report
    <2> QED BY <1>2, <2>1 DEF Reported, LNext
  <1>3. CASE StartTracking
    <2>1. stored # NoAnchor => stored \in 1..MaxEvents
      BY <1>1 DEF AnchorTypes, NoAnchor
    <2>2. FirstOnDisk # NoAnchor => FirstOnDisk \in 1..MaxEvents
      <3>1. FirstOnDisk \in 0..MaxEvents
        BY <1>1, FirstOfFile DEF AnchorTypes, FirstOf, FirstOnDisk
      <3> QED BY <3>1 DEF NoAnchor
    <2>3. "resume" \in Origins /\ "adopted" \in Origins
      BY DEF Origins
    <2> QED BY <1>2, <1>3, <2>1, <2>2, <2>3 DEF StartTracking, lvars
  <1>4. ASSUME NEW written \in BOOLEAN, Emit(written) PROVE LNext \/ UNCHANGED lvars
    <2>1. emitted + 1 \in 1..MaxEvents /\ "first_event" \in Origins
      BY <1>1, <1>4 DEF AnchorTypes, Emit, Origins
    <2> QED BY <1>2, <1>4, <2>1 DEF Emit, lvars
  <1>5. CASE LoggerRuns
    BY <1>5 DEF LoggerRuns, LNext
  <1>6. CASE Reload \/ HostDies
    BY <1>6 DEF Reload, HostDies, LNext
  <1>7. CASE AutoCommit \/ RemoveFile \/ FreshClone
    BY <1>7 DEF AutoCommit, RemoveFile, FreshClone, lvars
  <1> QED BY <1>3, <1>4, <1>5, <1>6, <1>7 DEF AnchorNext

LEMMA LogInvStays == LogInv /\ UNCHANGED lvars => LogInv'
  BY LogStays DEF lvars, LogInv, LTypeOK

\* The two files and the reports, after a step that makes no report.
LEMMA FilesStep ==
  ASSUME AnchorInv, UNCHANGED <<logged, emitted>>, disk' \in File, pushed' \in File,
         {FirstOf(disk'), FirstOf(pushed')} \subseteq {NoAnchor, FirstOf(disk), FirstOf(pushed)},
         FirstOf(disk') # NoAnchor /\ FirstOf(pushed') # NoAnchor => FirstOf(pushed') <= FirstOf(disk')
  PROVE  FirstsInOrder' /\ ReportsGiven' /\ Superseded'
  <1>1. FirstsInOrder'
    BY DEF AnchorInv, FirstsInOrder, AnchorTypes, NoAnchor
  <1>2. ReportsGiven'
    BY DEF AnchorInv, ReportsGiven
  <1>3. Superseded'
    <2> SUFFICES ASSUME NEW r \in DOMAIN logged, NEW k \in DOMAIN logged,
                        r < k, Given(k), logged[k].first = 1, Given(r), logged[r].first # 1
                 PROVE  logged[r].first \notin {FirstOf(disk'), FirstOf(pushed')}
      BY DEF Superseded, Given
    <2>1. logged[r].first \notin {FirstOf(disk), FirstOf(pushed)}
      BY DEF AnchorInv, Superseded
    <2>2. logged[r] \in Report
      BY DEF AnchorInv, ReportsGiven
    <2>3. logged[r].first \in 1..MaxEvents
      BY <2>2 DEF Report
    <2> QED BY <2>1, <2>3, AnchorAssumption DEF NoAnchor
  <1> QED BY <1>1, <1>2, <1>3

LEMMA AnchorStart == AnchorInit => AnchorInv
  <1> SUFFICES ASSUME AnchorInit PROVE AnchorInv
    OBVIOUS
  <1> USE AnchorAssumption
  <1>1. LogInv /\ logged = << >>
    BY LogStart DEF AnchorInit, LInit
  <1>2. /\ emitted = 0 /\ disk = Marked /\ pushed = Marked /\ tracking = FALSE
        /\ anchor = NoAnchor /\ stored = NoAnchor /\ removed = FALSE /\ lost = FALSE /\ failedWrites = 0
    BY DEF AnchorInit
  <1>3. FirstOf(disk) = NoAnchor /\ FirstOf(pushed) = NoAnchor /\ disk \in File /\ pushed \in File
    BY <1>2, FirstOfNothing
  <1>4. AnchorTypes
    <2>1. disk.there /\ pushed.there
      BY <1>2 DEF Marked
    <2>2. 0 \in 0..MaxEvents /\ 0 \in 0..MaxFailedWrites /\ 0 \in 0..0
      OBVIOUS
    <2>3. /\ emitted \in 0..MaxEvents /\ anchor \in 0..emitted /\ stored \in 0..emitted
          /\ failedWrites \in 0..MaxFailedWrites
      BY <1>2, <2>2 DEF NoAnchor
    <2>4. tracking \in BOOLEAN /\ removed \in BOOLEAN /\ lost \in BOOLEAN /\ ~tracking
      BY <1>2
    <2> QED BY <1>2, <1>3, <2>1, <2>3, <2>4 DEF AnchorTypes
  <1>5. FirstsInOrder
    BY <1>2, <1>3 DEF FirstsInOrder, NoAnchor
  <1>6. DOMAIN logged = {} /\ logged \in Seq(Report)
    BY <1>1
  <1>7. ReportsGiven /\ Superseded
    BY <1>6 DEF ReportsGiven, Superseded
  <1>8. OneFirst
    BY <1>2, <1>3, <1>6 DEF OneFirst, NoAnchor
  <1> QED BY <1>1, <1>4, <1>5, <1>7, <1>8 DEF AnchorInv

LEMMA AutoCommitStep == ASSUME AnchorInv, AutoCommit PROVE AnchorInv'
  <1>1. /\ pushed' = disk
        /\ UNCHANGED <<lvars, logged, up, session, emitted, disk, tracking, anchor, stored, removed, lost, failedWrites>>
    BY DEF AutoCommit, lvars
  <1>2. LogInv'
    BY <1>1, LogInvStays DEF AnchorInv
  <1>3. AnchorTypes'
    BY <1>1 DEF AnchorInv, AnchorTypes
  <1>4. FirstOf(disk') = FirstOf(disk) /\ FirstOf(pushed') = FirstOf(disk)
    BY <1>1
  <1>5. FirstsInOrder' /\ ReportsGiven' /\ Superseded'
    <2>1. FirstOf(disk) \in Nat /\ disk' \in File /\ pushed' \in File
      BY <1>1 DEF AnchorInv, FirstsInOrder, AnchorTypes
    <2> QED BY <1>1, <1>4, <2>1, FilesStep
  <1>6. OneFirst'
    <2>1. emitted \in Nat /\ FirstOf(disk) \in 0..emitted
      BY DEF AnchorInv, AnchorTypes, FirstsInOrder
    <2>2. emitted = 0 => FirstOf(disk) = NoAnchor
      BY <2>1 DEF NoAnchor
    <2> QED BY <1>1, <1>4, <2>1, <2>2 DEF AnchorInv, OneFirst, Undisturbed
  <1> QED BY <1>2, <1>3, <1>5, <1>6 DEF AnchorInv

LEMMA RemoveFileStep == ASSUME AnchorInv, RemoveFile PROVE AnchorInv'
  <1>1. /\ disk' \in {[there |-> FALSE, events |-> << >>], Marked} /\ removed' = TRUE
        /\ UNCHANGED <<lvars, logged, up, session, emitted, pushed, tracking, anchor, stored, lost, failedWrites>>
    BY DEF RemoveFile, lvars
  <1>2. LogInv'
    BY <1>1, LogInvStays DEF AnchorInv
  <1>3. FirstOf(disk') = NoAnchor /\ disk' \in File /\ disk'.events = << >>
    <2>1. Marked.events = << >> /\ [there |-> FALSE, events |-> << >>].events = << >>
      BY DEF Marked
    <2>2. CASE disk' = Marked
      BY <2>1, <2>2, FirstOfNothing
    <2>3. CASE disk' = [there |-> FALSE, events |-> << >>]
      BY <2>1, <2>3, FirstOfNothing
    <2> QED BY <1>1, <2>2, <2>3
  <1>4. AnchorTypes'
    BY <1>1, <1>3 DEF AnchorInv, AnchorTypes
  <1>5. FirstsInOrder' /\ ReportsGiven' /\ Superseded'
    <2>1. pushed' \in File /\ FirstOf(pushed') = FirstOf(pushed)
      BY <1>1 DEF AnchorInv, AnchorTypes
    <2> QED BY <1>1, <1>3, <2>1, FilesStep
  <1>6. OneFirst'
    BY <1>1 DEF OneFirst, Undisturbed
  <1> QED BY <1>2, <1>4, <1>5, <1>6 DEF AnchorInv

LEMMA FreshCloneStep == ASSUME AnchorInv, FreshClone PROVE AnchorInv'
  <1>1. /\ disk' = pushed /\ lost' = (lost \/ (disk.events # << >> /\ pushed.events = << >>)) /\ ~tracking
        /\ UNCHANGED <<lvars, logged, up, session, emitted, pushed, tracking, anchor, stored, removed, failedWrites>>
    BY DEF FreshClone, lvars
  <1>2. LogInv'
    BY <1>1, LogInvStays DEF AnchorInv
  <1>3. AnchorTypes'
    BY <1>1 DEF AnchorInv, AnchorTypes
  <1>4. FirstOf(disk') = FirstOf(pushed) /\ FirstOf(pushed') = FirstOf(pushed)
    BY <1>1
  <1>5. FirstsInOrder' /\ ReportsGiven' /\ Superseded'
    <2>1. FirstOf(pushed) \in Nat /\ disk' \in File /\ pushed' \in File
      BY <1>1 DEF AnchorInv, FirstsInOrder, AnchorTypes
    <2> QED BY <1>1, <1>4, <2>1, FilesStep
  <1>6. OneFirst'
    <2> SUFFICES ASSUME Undisturbed' PROVE OneFirst'
      BY DEF OneFirst
    <2>1. Undisturbed /\ ~(disk.events # << >> /\ pushed.events = << >>)
      <3>1. lost' = FALSE /\ lost \in BOOLEAN
        BY DEF Undisturbed, AnchorInv, AnchorTypes
      <3> QED BY <1>1, <3>1 DEF Undisturbed, AnchorInv, AnchorTypes
    <2>2. FirstOf(disk) # NoAnchor => FirstOf(pushed) # NoAnchor
      BY <2>1, FirstOfFile DEF AnchorInv, AnchorTypes
    <2>3. /\ \A i \in DOMAIN logged : logged[i].first = 1
          /\ anchor \in {NoAnchor, 1} /\ stored \in {NoAnchor, 1}
          /\ FirstOf(pushed) \in {NoAnchor, 1}
          /\ emitted > 0 => FirstOf(disk) = 1
      BY <2>1 DEF AnchorInv, OneFirst
    <2>4. emitted > 0 => FirstOf(pushed) = 1
      BY <2>2, <2>3 DEF NoAnchor
    <2> QED BY <1>1, <1>4, <2>3, <2>4 DEF OneFirst
  <1> QED BY <1>2, <1>3, <1>5, <1>6 DEF AnchorInv

\* The logger, the end of a host and what it forgets, on their own.
LEMMA HostStep ==
  ASSUME AnchorInv, LogInv', UNCHANGED <<logged, emitted, disk, pushed, removed, lost, failedWrites>>,
         tracking' \in {tracking, FALSE}, anchor' = (IF tracking' THEN anchor ELSE NoAnchor),
         stored' \in {stored, NoAnchor}, tracking' => up' /\ session'
  PROVE  AnchorInv'
  <1>1. /\ anchor' \in {anchor, NoAnchor} /\ (~tracking' => anchor' = NoAnchor)
        /\ tracking' => tracking /\ anchor' = anchor
    <2>1. tracking \in BOOLEAN /\ (~tracking => anchor = NoAnchor)
      BY DEF AnchorInv, AnchorTypes
    <2>2. CASE tracking'
      BY <2>1, <2>2
    <2>3. CASE ~tracking'
      BY <2>1, <2>3
    <2> QED BY <2>2, <2>3
  <1>2. AnchorTypes'
    <2>1. 0 \in 0..emitted
      BY DEF AnchorInv, AnchorTypes
    <2> QED BY <1>1, <2>1 DEF AnchorInv, AnchorTypes, NoAnchor
  <1>3. FirstsInOrder' /\ ReportsGiven' /\ Superseded'
    BY DEF AnchorInv, FirstsInOrder, ReportsGiven, Superseded, Given
  <1>4. OneFirst'
    BY <1>1 DEF AnchorInv, OneFirst, Undisturbed
  <1> QED BY <1>2, <1>3, <1>4 DEF AnchorInv

LEMMA HostActionsStep == ASSUME AnchorInv, LoggerRuns \/ Reload \/ HostDies PROVE AnchorInv'
  <1>1. LogInv'
    <2>1. AnchorNext
      BY DEF AnchorNext
    <2> QED BY <2>1, AnchorLogs, LogStep, LogInvStays DEF AnchorInv
  <1>2. tracking \in BOOLEAN /\ (~tracking => anchor = NoAnchor) /\ (tracking => up /\ session)
    BY DEF AnchorInv, AnchorTypes
  <1>3. CASE LoggerRuns
    <2>1. UNCHANGED <<emitted, disk, pushed, tracking, anchor, stored, removed, lost, failedWrites>>
      BY <1>3 DEF LoggerRuns, avars
    <2>2. UNCHANGED logged /\ (up /\ session => up' /\ session')
      <3>1. CASE SetSession \/ FlushTick
        <4>1. UNCHANGED <<logged, up>>
          BY <3>1 DEF SetSession, FlushTick
        <4>2. session' = TRUE \/ session' = session
          BY <3>1 DEF SetSession, FlushTick
        <4> QED BY <4>1, <4>2
      <3>2. CASE PostOk \/ PostFails \/ LateInsert \/ \E k \in 1..MaxLogged : Deliver(k)
        BY <3>2 DEF PostOk, PostFails, LateInsert, Deliver
      <3>3. CASE Activate
        BY <3>3 DEF Activate
      <3> QED BY <1>3, <3>1, <3>2, <3>3 DEF LoggerRuns
    <2>3. anchor' = (IF tracking' THEN anchor ELSE NoAnchor)
      BY <1>2, <2>1
    <2> QED BY <1>1, <1>2, <2>1, <2>2, <2>3, HostStep
  <1>4. CASE Reload \/ HostDies
    <2>1. /\ tracking' = FALSE /\ anchor' = NoAnchor /\ stored' \in {stored, NoAnchor}
          /\ UNCHANGED <<emitted, disk, pushed, removed, lost, failedWrites>>
      BY <1>4 DEF Reload, HostDies, HostStops
    <2>2. UNCHANGED logged
      BY <1>4 DEF Reload, HostDies, Dispose, Crash, HostEnds
    <2>3. anchor' = (IF tracking' THEN anchor ELSE NoAnchor)
      BY <2>1
    <2> QED BY <1>1, <2>1, <2>2, <2>3, HostStep
  <1> QED BY <1>3, <1>4

\* The tracker starts: the reports are in order again.
LEMMA StartTrackingStep == ASSUME AnchorInv, StartTracking PROVE AnchorInv'
  <1> USE AnchorAssumption
  <1> DEFINE n == Len(logged)
             d == FirstOf(disk)
  <1>1. LogInv'
    <2>1. AnchorNext
      BY DEF AnchorNext
    <2> QED BY <2>1, AnchorLogs, LogStep, LogInvStays DEF AnchorInv
  <1>2. /\ session /\ ~tracking /\ tracking' = TRUE
        /\ UNCHANGED <<emitted, disk, pushed, removed, lost, failedWrites>>
    BY DEF StartTracking
  <1>3. /\ FirstOnDisk = d /\ d \in 0..emitted /\ FirstOf(pushed) \in 0..emitted
        /\ emitted \in 0..MaxEvents /\ anchor \in 0..emitted /\ stored \in 0..emitted
        /\ session => up
        /\ logged \in Seq(Report) /\ n \in Nat /\ DOMAIN logged = 1..n
    <2>1. session => up
      BY DEF AnchorInv, LogInv, LTypeOK
    <2>2. logged \in Seq(Report)
      BY DEF AnchorInv, ReportsGiven
    <2> QED BY <2>1, <2>2 DEF AnchorInv, AnchorTypes, FirstsInOrder, FirstOnDisk, FirstOf
  <1>4. FirstsInOrder'
    BY <1>2 DEF AnchorInv, FirstsInOrder
  <1>5. CASE stored = NoAnchor /\ FirstOnDisk = NoAnchor
    <2>1. UNCHANGED <<lvars, logged, up, session, anchor, stored>>
      BY <1>5 DEF StartTracking, lvars
    <2>2. AnchorTypes'
      BY <1>2, <1>3, <2>1 DEF AnchorInv, AnchorTypes
    <2>3. OneFirst'
      BY <1>2, <1>3, <1>5, <2>1 DEF AnchorInv, OneFirst, Undisturbed, NoAnchor
    <2>4. ReportsGiven' /\ Superseded'
      BY <1>2, <2>1 DEF AnchorInv, ReportsGiven, Superseded, Given
    <2> QED BY <1>1, <1>4, <2>2, <2>3, <2>4 DEF AnchorInv
  <1>6. ASSUME NEW first \in 1..emitted, NEW origin \in {"resume", "adopted"},
               Reported(first, origin), anchor' = first, stored' = first,
               origin = "adopted" => first = d,
               Undisturbed => first = 1
        PROVE  AnchorInv'
    <2> DEFINE body == [first |-> first, origin |-> origin]
    <2>1. body \in Report /\ body.first = first /\ body.origin = origin
      BY <1>3 DEF Report, Origins
    <2>2. Log(body)
      BY <1>6 DEF Reported
    <2> HIDE DEF body
    <2>3. /\ logged' \in Seq(Report) /\ DOMAIN logged' = 1..(n + 1) /\ logged'[n + 1] = body
          /\ \A i \in DOMAIN logged : logged'[i] = logged[i]
          /\ UNCHANGED <<up, session>>
      BY <1>3, <2>1, <2>2, ReportMade
    <2> HIDE DEF n, d
    <2>4. \A i \in 1..(n + 1) : i \in DOMAIN logged \/ i = n + 1
      BY <1>3
    <2>5. AnchorTypes'
      <3>1. first \in 0..emitted
        BY <1>3
      <3> QED BY <1>2, <1>3, <1>6, <2>3, <3>1 DEF AnchorInv, AnchorTypes
    <2>6. ReportsGiven'
      <3>1. first <= emitted /\ \A i \in DOMAIN logged : logged[i].first <= emitted
        BY <1>3 DEF AnchorInv, ReportsGiven
      <3> QED BY <1>2, <2>1, <2>3, <2>4, <3>1 DEF ReportsGiven
    <2>7. OneFirst'
      <3> SUFFICES ASSUME Undisturbed PROVE OneFirst'
        BY <1>2 DEF OneFirst, Undisturbed
      <3>1. /\ \A i \in DOMAIN logged : logged[i].first = 1
            /\ FirstOf(pushed) \in {NoAnchor, 1}
            /\ emitted > 0 => FirstOf(disk) = 1
        BY DEF AnchorInv, OneFirst
      <3>2. \A i \in DOMAIN logged' : logged'[i].first = 1
        BY <1>6, <2>1, <2>3, <2>4, <3>1
      <3> QED BY <1>2, <1>6, <3>1, <3>2 DEF OneFirst
    <2>8. Superseded'
      <3> SUFFICES ASSUME NEW r \in 1..(n + 1), NEW k \in 1..(n + 1), r < k,
                          logged'[k].origin # "resume", logged'[k].first = 1,
                          logged'[r].origin # "resume", logged'[r].first # 1
                   PROVE  logged'[r].first \notin {FirstOf(disk), FirstOf(pushed)}
        BY <1>2, <2>3 DEF Superseded, Given
      <3>1. r \in DOMAIN logged /\ logged'[r] = logged[r] /\ logged[r] \in Report
        <4>1. r \in 1..n
          BY <1>3
        <4>2. r \in DOMAIN logged
          BY <1>3, <4>1
        <4> QED BY <1>3, <2>3, <4>2
      <3>2. CASE k \in DOMAIN logged
        BY <2>3, <3>1, <3>2 DEF AnchorInv, Superseded, Given
      <3>3. CASE k = n + 1
        <4>1. first = 1 /\ d = 1
          BY <1>6, <2>1, <2>3, <3>3
        <4>2. FirstOf(pushed) \in {NoAnchor, 1}
          BY <1>3, <4>1 DEF AnchorInv, FirstsInOrder, NoAnchor, d
        <4>3. logged[r].first # NoAnchor
          BY <3>1 DEF Report, NoAnchor
        <4> QED BY <3>1, <4>1, <4>2, <4>3 DEF d
      <3> QED BY <2>4, <3>2, <3>3
    <2> QED BY <1>1, <1>4, <2>5, <2>6, <2>7, <2>8 DEF AnchorInv
  <1>7. CASE stored # NoAnchor
    <2>1. Reported(stored, "resume") /\ anchor' = stored /\ stored' = stored /\ stored \in 1..emitted
      BY <1>3, <1>7 DEF StartTracking, NoAnchor
    <2>2. Undisturbed => stored = 1
      BY <1>7 DEF AnchorInv, OneFirst
    <2> QED BY <1>6, <2>1, <2>2
  <1>8. CASE stored = NoAnchor /\ FirstOnDisk # NoAnchor
    <2>1. Reported(d, "adopted") /\ anchor' = d /\ stored' = d /\ d \in 1..emitted
      <3>1. FirstOnDisk \in 1..emitted
        BY <1>3, <1>8 DEF NoAnchor
      <3> QED BY <1>3, <1>8, <3>1 DEF StartTracking
    <2>2. Undisturbed => d = 1
      BY <1>3, <2>1 DEF AnchorInv, OneFirst
    <2> HIDE DEF d
    <2> QED BY <1>6, <2>1, <2>2
  <1> QED BY <1>5, <1>7, <1>8

\* An event: the first one is reported before it is written.
LEMMA EmitStep == ASSUME AnchorInv, NEW written \in BOOLEAN, Emit(written) PROVE AnchorInv'
  <1> USE AnchorAssumption
  <1> DEFINE n == Len(logged)
             event == emitted + 1
             d == FirstOf(disk)
  <1>1. LogInv'
    <2>1. AnchorNext
      BY DEF AnchorNext
    <2> QED BY <2>1, AnchorLogs, LogStep, LogInvStays DEF AnchorInv
  <1>2. /\ tracking /\ emitted < MaxEvents /\ emitted' = event
        /\ UNCHANGED <<pushed, tracking, removed, lost>>
    BY DEF Emit
  <1>3. /\ emitted \in 0..MaxEvents /\ event \in 1..MaxEvents /\ event = emitted + 1
        /\ d \in 0..emitted /\ FirstOf(pushed) \in 0..emitted
        /\ d # NoAnchor /\ FirstOf(pushed) # NoAnchor => FirstOf(pushed) <= d
        /\ anchor \in 0..emitted /\ stored \in 0..emitted
        /\ failedWrites \in 0..MaxFailedWrites
        /\ disk \in File /\ pushed \in File
        /\ logged \in Seq(Report) /\ n \in Nat /\ DOMAIN logged = 1..n
        /\ \A i \in DOMAIN logged : logged[i].first <= emitted
    <2>1. emitted \in 0..MaxEvents /\ event \in 1..MaxEvents
      BY <1>2 DEF AnchorInv, AnchorTypes
    <2>2. logged \in Seq(Report)
      BY DEF AnchorInv, ReportsGiven
    <2> QED BY <2>1, <2>2 DEF AnchorInv, AnchorTypes, FirstsInOrder, ReportsGiven
  \* What becomes of the file.
  <1>4. /\ disk' \in File /\ FirstOf(disk') \in {d, event} /\ (~disk'.there => disk'.events = << >>)
        /\ d # NoAnchor => FirstOf(disk') = d
        /\ failedWrites' \in 0..MaxFailedWrites
        /\ failedWrites' = 0 => failedWrites = 0 /\ FirstOf(disk') # NoAnchor
    <2>1. CASE written
      <3>1. disk' = [there |-> TRUE, events |-> Append(disk.events, event)] /\ UNCHANGED failedWrites
        BY <2>1 DEF Emit
      <3>2. disk' \in File /\ FirstOf(disk') = IF d = NoAnchor THEN event ELSE d
        BY <1>3, <3>1, FirstOfAppended
      <3>3. disk'.there /\ event # NoAnchor
        BY <1>3, <3>1 DEF NoAnchor
      <3> HIDE DEF event, d
      <3> QED BY <1>3, <3>1, <3>2, <3>3
    <2>2. CASE ~written
      <3>1. UNCHANGED disk /\ failedWrites < MaxFailedWrites /\ failedWrites' = failedWrites + 1
        BY <2>2 DEF Emit
      <3>2. FirstOf(disk') = d /\ (~disk'.there => disk'.events = << >>)
        BY <3>1 DEF AnchorInv, AnchorTypes
      <3>3. failedWrites' \in 0..MaxFailedWrites /\ failedWrites' # 0
        BY <1>3, <3>1
      <3> HIDE DEF event, d
      <3> QED BY <1>3, <3>1, <3>2, <3>3
    <2> QED BY <2>1, <2>2
  <1>5. FirstsInOrder'
    <2> HIDE DEF event, d
    <2>1. FirstOf(disk') \in 0..event /\ FirstOf(pushed) \in 0..event
      BY <1>3, <1>4
    <2>2. FirstOf(disk') # NoAnchor /\ FirstOf(pushed) # NoAnchor => FirstOf(pushed) <= FirstOf(disk')
      BY <1>3, <1>4
    <2> QED BY <1>2, <2>1, <2>2 DEF FirstsInOrder
  \* An undisturbed interview before and after.
  <1>6. Undisturbed' => Undisturbed /\ FirstOf(disk') # NoAnchor
    BY <1>2, <1>4 DEF Undisturbed
  <1>7. Undisturbed => /\ \A i \in DOMAIN logged : logged[i].first = 1
                       /\ anchor \in {NoAnchor, 1} /\ stored \in {NoAnchor, 1}
                       /\ FirstOf(pushed) \in {NoAnchor, 1}
                       /\ emitted > 0 => d = 1 /\ anchor = 1
    BY <1>2 DEF AnchorInv, OneFirst
  <1>8. Undisturbed' => FirstOf(disk') = 1
    <2> HIDE DEF event, d
    <2>1. emitted = 0 => event = 1 /\ d = NoAnchor
      BY <1>3 DEF NoAnchor
    <2>2. CASE emitted = 0
      BY <1>4, <1>6, <2>1, <2>2
    <2>3. CASE emitted # 0
      <3>1. emitted > 0
        BY <1>3, <2>3
      <3> QED BY <1>4, <1>6, <1>7, <3>1 DEF NoAnchor
    <2> QED BY <2>2, <2>3
  <1>9. CASE anchor # NoAnchor
    <2>1. UNCHANGED <<lvars, logged, up, session, anchor, stored>>
      BY <1>9 DEF Emit, lvars
    <2>2. AnchorTypes'
      <3>1. anchor \in 0..event /\ stored \in 0..event /\ event \in 0..MaxEvents
        BY <1>3
      <3> HIDE DEF event
      <3> QED BY <1>2, <1>4, <2>1, <3>1 DEF AnchorInv, AnchorTypes
    <2>3. OneFirst'
      <3>1. anchor \in {NoAnchor, 1} => anchor = 1
        BY <1>9
      <3> QED BY <1>2, <1>6, <1>7, <1>8, <2>1, <3>1 DEF OneFirst
    <2>4. ReportsGiven'
      <3>1. \A i \in DOMAIN logged : logged[i].first <= event
        <4> SUFFICES ASSUME NEW i \in DOMAIN logged PROVE logged[i].first <= event
          OBVIOUS
        <4>1. logged[i] \in Report /\ logged[i].first <= emitted
          BY <1>3
        <4>2. logged[i].first \in Nat
          BY <4>1 DEF Report
        <4> QED BY <1>3, <4>1, <4>2
      <3> HIDE DEF event
      <3> QED BY <1>2, <1>3, <2>1, <3>1 DEF ReportsGiven
    <2>5. Superseded'
      <3> SUFFICES ASSUME NEW r \in DOMAIN logged, NEW k \in DOMAIN logged,
                          r < k, Given(k), logged[k].first = 1, Given(r), logged[r].first # 1
                   PROVE  logged[r].first \notin {FirstOf(disk'), FirstOf(pushed)}
        BY <1>2, <2>1 DEF Superseded, Given
      <3>1. logged[r].first \notin {FirstOf(disk), FirstOf(pushed)}
        BY DEF AnchorInv, Superseded
      <3>2. logged[r] \in Report /\ logged[r].first <= emitted
        BY <1>3
      <3>3. logged[r].first # event
        BY <1>3, <3>2 DEF Report
      <3> HIDE DEF event
      <3> QED BY <1>4, <3>1, <3>3
    <2> QED BY <1>1, <1>5, <2>2, <2>3, <2>4, <2>5 DEF AnchorInv
  <1>10. CASE anchor = NoAnchor
    <2> DEFINE body == [first |-> event, origin |-> "first_event"]
    <2>1. body \in Report /\ body.first = event /\ body.origin = "first_event"
      BY <1>3 DEF Report, Origins
    <2>2. Log(body) /\ anchor' = event /\ stored' = event
      BY <1>10 DEF Emit, Reported
    <2> HIDE DEF body
    <2>3. /\ logged' \in Seq(Report) /\ DOMAIN logged' = 1..(n + 1) /\ logged'[n + 1] = body
          /\ \A i \in DOMAIN logged : logged'[i] = logged[i]
          /\ UNCHANGED <<up, session>>
      BY <1>3, <2>1, <2>2, ReportMade
    <2> HIDE DEF n
    <2>4. \A i \in 1..(n + 1) : i \in DOMAIN logged \/ i = n + 1
      BY <1>3
    <2>5. AnchorTypes'
      <3>1. event \in 0..event /\ event \in 0..MaxEvents
        BY <1>3
      <3> HIDE DEF event
      <3> QED BY <1>2, <1>4, <2>2, <2>3, <3>1 DEF AnchorInv, AnchorTypes
    <2>6. OneFirst'
      <3> SUFFICES ASSUME Undisturbed' PROVE OneFirst'
        BY DEF OneFirst
      <3>1. emitted = 0
        BY <1>3, <1>6, <1>7, <1>10 DEF NoAnchor
      <3>2. event = 1
        BY <3>1
      <3>3. \A i \in DOMAIN logged' : logged'[i].first = 1
        BY <1>6, <1>7, <2>1, <2>3, <2>4, <3>2
      <3> HIDE DEF event
      <3> QED BY <1>2, <1>6, <1>7, <1>8, <2>2, <3>2, <3>3 DEF OneFirst
    <2>7. ReportsGiven'
      <3>1. \A i \in DOMAIN logged : logged[i].first <= event
        <4> SUFFICES ASSUME NEW i \in DOMAIN logged PROVE logged[i].first <= event
          OBVIOUS
        <4>1. logged[i] \in Report /\ logged[i].first <= emitted
          BY <1>3
        <4>2. logged[i].first \in Nat
          BY <4>1 DEF Report
        <4> QED BY <1>3, <4>1, <4>2
      <3>2. event <= event
        BY <1>3
      <3> HIDE DEF event
      <3> QED BY <1>2, <2>1, <2>3, <2>4, <3>1, <3>2 DEF ReportsGiven
    <2>8. Superseded'
      <3> SUFFICES ASSUME NEW r \in 1..(n + 1), NEW k \in 1..(n + 1), r < k,
                          logged'[k].origin # "resume", logged'[k].first = 1,
                          logged'[r].origin # "resume", logged'[r].first # 1
                   PROVE  logged'[r].first \notin {FirstOf(disk'), FirstOf(pushed)}
        BY <1>2, <2>3 DEF Superseded, Given
      <3>1. r \in DOMAIN logged /\ logged'[r] = logged[r] /\ logged[r] \in Report
        <4>1. r \in 1..n
          BY <1>3
        <4>2. r \in DOMAIN logged
          BY <1>3, <4>1
        <4> QED BY <1>3, <2>3, <4>2
      <3>2. logged[r].first <= emitted /\ logged[r].first \in 1..MaxEvents
        BY <1>3, <3>1 DEF Report
      <3>3. CASE k \in DOMAIN logged
        <4>1. logged[r].first \notin {FirstOf(disk), FirstOf(pushed)}
          BY <2>3, <3>1, <3>3 DEF AnchorInv, Superseded, Given
        <4>2. logged[r].first # event
          BY <1>3, <3>2
        <4> HIDE DEF event
        <4> QED BY <1>4, <3>1, <4>1, <4>2
      <3>4. CASE k = n + 1
        \* The first event is given once, before any other report.
        <4>1. event = 1
          BY <2>1, <2>3, <3>4
        <4> QED BY <1>3, <3>2, <4>1
      <3> QED BY <2>4, <3>3, <3>4
    <2> QED BY <1>1, <1>5, <2>5, <2>6, <2>7, <2>8 DEF AnchorInv
  <1> QED BY <1>9, <1>10

LEMMA AnchorStep == AnchorInv /\ [AnchorNext]_anchorVars => AnchorInv'
  <1>1. ASSUME AnchorInv, UNCHANGED anchorVars PROVE AnchorInv'
    <2>1. /\ UNCHANGED <<lvars, logged, up, session, emitted, disk, pushed, tracking, anchor>>
          /\ UNCHANGED <<stored, removed, lost, failedWrites>>
      BY <1>1 DEF anchorVars, avars, lvars
    <2>2. LogInv'
      BY <1>1, <2>1, LogInvStays DEF AnchorInv
    <2>3. tracking \in BOOLEAN /\ (~tracking => anchor = NoAnchor) /\ (tracking => up /\ session)
      BY <1>1 DEF AnchorInv, AnchorTypes
    <2>4. anchor' = (IF tracking' THEN anchor ELSE NoAnchor)
      BY <2>1, <2>3
    <2> QED BY <1>1, <2>1, <2>2, <2>3, <2>4, HostStep
  <1> QED BY <1>1, StartTrackingStep, EmitStep, AutoCommitStep, RemoveFileStep, FreshCloneStep,
             HostActionsStep DEF AnchorNext

LEMMA AnchorInvariant == AnchorSpec => []AnchorInv
  BY AnchorStart, AnchorStep, PTL DEF AnchorSpec

\* Types of the anchor: it is held only while the tracker runs, and no copy of
\* it names an event that was not emitted.
THEOREM AnchorTyped == AnchorSpec => []AnchorTypeOK
  <1>1. AnchorInv => AnchorTypeOK
    BY DEF AnchorInv, LogInv, AnchorTypes, AnchorTypeOK
  <1> QED BY <1>1, AnchorInvariant, PTL

(* All reports of an undisturbed interview name its first event, whatever    *)
(* reloads and crashes there were (telemetry_integrity.py:97-98).            *)
THEOREM ReportsName == AnchorSpec => []ReportsAgree
  <1>1. AnchorInv => ReportsAgree
    BY DEF AnchorInv, OneFirst, ReportsAgree
  <1> QED BY <1>1, AnchorInvariant, PTL

LEMMA ReceivedAreLogged ==
  ASSUME AnchorInv
  PROVE  received \subseteq DOMAIN logged /\ received \subseteq Nat /\ logged \in Seq(Report)
  <1>1. received \subseteq 1..Len(logged) /\ logged \in Seq(Report)
    BY DEF AnchorInv, LogInv, LTypeOK, ReportsGiven
  <1> QED BY <1>1

(* The grader penalises no candidate who removed nothing, whose events were  *)
(* all written and of whom the branch has something, whichever reports are   *)
(* missing and whenever it looks.                                            *)
THEOREM HonestBranchPasses == AnchorSpec => []HonestPushPasses
  <1>1. ASSUME AnchorInv, Undisturbed, pushed.events # << >> PROVE ~Tampered
    <2>1. \A i \in DOMAIN logged : logged[i].first = 1
      BY <1>1 DEF AnchorInv, OneFirst
    <2>2. RecordedAnchors \subseteq {1}
      BY <1>1, <2>1, ReceivedAreLogged DEF RecordedAnchors
    <2>3. pushed.there
      BY <1>1 DEF AnchorInv, AnchorTypes
    <2>4. Head(pushed.events) = 1
      <3>1. FirstOf(pushed) = Head(pushed.events) /\ FirstOf(pushed) # NoAnchor
        BY <1>1, FirstOfFile DEF AnchorInv, AnchorTypes
      <3> QED BY <1>1, <3>1 DEF AnchorInv, OneFirst
    <2>5. RecordedAnchors = {} \/ Head(pushed.events) \in RecordedAnchors
      BY <2>2, <2>4
    <2>6. Verdict \in {"unknown", "ok"}
      BY <1>1, <2>3, <2>5 DEF Verdict
    <2> QED BY <2>6 DEF Tampered
  <1>2. AnchorInv => HonestPushPasses
    BY <1>1 DEF HonestPushPasses
  <1> QED BY <1>2, AnchorInvariant, PTL

(* Once the first event of the interview is in app_logs, no file that was    *)
(* started over passes for the whole one.                                    *)
THEOREM StartingOverIsNoticed == AnchorSpec => []RemovalIsNoticed
  <1>1. ASSUME AnchorInv, FirstRecorded, Verdict = "ok" PROVE Head(pushed.events) = 1
    <2>1. pushed.events # << >> /\ Head(pushed.events) \in RecordedAnchors
      BY <1>1 DEF Verdict
    <2>2. FirstOf(pushed) = Head(pushed.events)
      BY <2>1 DEF FirstOf
    <2>3. PICK k \in received : logged[k].first = 1 /\ Given(k)
      BY <1>1 DEF FirstRecorded, Given
    <2>4. PICK r \in received : /\ Given(r) /\ Head(pushed.events) = logged[r].first
                                /\ \A j \in received : Given(j) => r <= j
      BY <2>1 DEF RecordedAnchors, Given
    <2>5. r = k \/ r < k
      BY <1>1, <2>3, <2>4, ReceivedAreLogged
    <2>6. r < k /\ logged[r].first # 1 => logged[r].first # FirstOf(pushed)
      BY <1>1, <2>3, <2>4, ReceivedAreLogged DEF AnchorInv, Superseded
    <2> QED BY <2>2, <2>3, <2>4, <2>5, <2>6
  <1>2. AnchorInv => RemovalIsNoticed
    BY <1>1 DEF RemovalIsNoticed
  <1> QED BY <1>2, AnchorInvariant, PTL
=============================================================================
