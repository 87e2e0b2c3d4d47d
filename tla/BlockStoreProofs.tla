-------------------------- MODULE BlockStoreProofs --------------------------
(***************************************************************************)
(* What holds of the block queue for every set of digests, every journal   *)
(* length and every kSaveEveryOps, with crashes and failing saves allowed. *)
(***************************************************************************)
EXTENDS BlockStore, FiniteSetTheorems, SequenceTheorems, TLAPS

\* How many more blocks the end of the journal will cost when a line is appended
\* to it: that line, and a row there that has no newline yet.
Tear == IF tail = "ended" THEN 0 ELSE IF tail = "torn" THEN 1 ELSE 2

\* The journal lacks two blocks at most per append that was cut, those its torn
\* end has still to cost included; and while it is read the queue is part of it.
JournalInv == /\ IsFiniteSet(Uncovered)
              /\ Cardinality(Uncovered) + Tear <= 2 * cuts
              /\ phase = "recovering" => Hashes(pending) \subseteq Hashes(Lines)

\* The inductive invariant: the checked invariants, that of the journal in its
\* stronger form, and the facts they need: dirty_ops_ stays under the threshold
\* between calls, and the queue is finite, so that a load, which numbers its
\* rows, can count them.
StoreInv == /\ TypeOK
            /\ IndexExact
            /\ SnapshotSound
            /\ JournalInv
            /\ phase \in {"up", "recovering"} => dirty < SaveEvery
            /\ IsFiniteSet(pending) /\ IsFiniteSet(dbRows)

-----------------------------------------------------------------------------

\* A set that did not grow keeps its bound.
LEMMA FewerDigests ==
    ASSUME NEW new, NEW old, IsFiniteSet(old), NEW n \in Nat, NEW m \in Nat,
           Cardinality(old) <= n, new \subseteq old, n <= m
    PROVE  IsFiniteSet(new) /\ Cardinality(new) <= m
BY FS_Subset, FS_CardinalityType

\* One more digest costs one.
LEMMA OneMoreDigest ==
    ASSUME NEW new, NEW old, NEW h, IsFiniteSet(old), NEW n \in Nat,
           Cardinality(old) <= n, new \subseteq old \cup {h}
    PROVE  IsFiniteSet(new) /\ Cardinality(new) <= n + 1
<1>1. /\ IsFiniteSet(old \cup {h})
      /\ Cardinality(old \cup {h}) <= n + 1
      /\ Cardinality(old \cup {h}) \in Nat
  <2>1. Cardinality(old) \in Nat
    BY FS_CardinalityType
  <2>2. /\ IsFiniteSet(old \cup {h})
        /\ Cardinality(old \cup {h}) = Cardinality(old)
             \/ Cardinality(old \cup {h}) = Cardinality(old) + 1
    BY FS_AddElement, Zenon
  <2>. QED
    BY <2>1, <2>2
<1>. QED
  BY <1>1, FS_Subset, FS_CardinalityType

\* Taking the last line off a journal loses that line and no other.
LEMMA FrontLines ==
    ASSUME jsonl \in Seq(Row), jsonl' = SubSeq(jsonl, 1, Len(jsonl) - 1)
    PROVE  /\ jsonl' \in Seq(Row) /\ Lines' \subseteq Lines
           /\ Lines \subseteq Lines' \cup {jsonl[Len(jsonl)]}
<1>. DEFINE n == Len(jsonl) - 1
<1>1. Len(jsonl) \in Nat /\ DOMAIN jsonl = 1 .. Len(jsonl) /\ n \in Int
  OBVIOUS
<1>2. \A i \in 1 .. n : jsonl[i] \in Row
  BY <1>1
<1>3. /\ jsonl' \in Seq(Row) /\ Len(jsonl') = IF 1 <= n THEN n - 1 + 1 ELSE 0
      /\ \A i \in 1 .. n - 1 + 1 : jsonl'[i] = jsonl[1 + i - 1]
  <2>. HIDE DEF n
  <2>. QED
    BY <1>1, <1>2, SubSeqProperties DEF n
<1>4. DOMAIN jsonl' = 1 .. n /\ \A i \in 1 .. n : jsonl'[i] = jsonl[i]
  <2>1. DOMAIN jsonl' = 1 .. Len(jsonl')
    BY <1>3
  <2>. QED
    BY <1>1, <1>3, <2>1
<1>5. /\ 1 .. n \subseteq 1 .. Len(jsonl)
      /\ 1 .. Len(jsonl) \subseteq (1 .. n) \cup {Len(jsonl)}
  BY <1>1
<1>6. /\ Lines' = {jsonl'[i] : i \in 1 .. n}
      /\ Lines = {jsonl[i] : i \in 1 .. Len(jsonl)}
  BY <1>1, <1>4, Zenon DEF Lines
<1>7. Lines' = {jsonl[i] : i \in 1 .. n}
  BY <1>4, <1>6, Zenon
<1>8. Lines' \subseteq Lines
  BY <1>5, <1>6, <1>7, Zenon
<1>9. Lines \subseteq Lines' \cup {jsonl[Len(jsonl)]}
  BY <1>5, <1>6, <1>7, Zenon
<1>. QED
  BY <1>3, <1>8, <1>9

\* The lines of the journal after a row was appended at its end.
LEMMA AppendLines ==
    ASSUME jsonl \in Seq(Row), NEW row \in Row, jsonl' = Append(jsonl, row)
    PROVE  Lines' = Lines \cup {row} /\ jsonl' \in Seq(Row)
<1>1. /\ Len(jsonl) \in Nat /\ DOMAIN jsonl = 1..Len(jsonl)
      /\ DOMAIN jsonl' = 1..(Len(jsonl) + 1) /\ jsonl' \in Seq(Row)
  OBVIOUS
<1>2. /\ \A i \in 1..Len(jsonl) : jsonl'[i] = jsonl[i]
      /\ jsonl'[Len(jsonl) + 1] = row
  OBVIOUS
<1>3. 1..(Len(jsonl) + 1) = (1..Len(jsonl)) \cup {Len(jsonl) + 1}
  BY <1>1
<1>. QED
  BY <1>1, <1>2, <1>3 DEF Lines

\* What an append does to the journal, whole or cut: it adds its line and costs
\* nothing, or does not and costs that line, and the one before it if that had no
\* newline.
LEMMA JournalAfterAppend ==
    ASSUME TypeOK, NEW row \in Row, AppendQueueJsonl(row)
    PROVE  /\ jsonl' \in Seq(Row) /\ Lines' \subseteq Lines \cup {row}
           /\ tail' \in {"ended", "unended", "torn"} /\ cuts' \in 0..MaxCuts
           /\ cuts' \in {cuts, cuts + 1}
           /\ \/ Lines' = Lines \cup {row} /\ Tear' <= Tear + 2 * (cuts' - cuts)
              \/ Lines' = Lines /\ 1 + Tear' <= Tear + 2 * (cuts' - cuts)
              \/ /\ Lines \subseteq Lines' \cup {jsonl[Len(jsonl)]}
                 /\ 2 + Tear' <= Tear + 2 * (cuts' - cuts)
<1>. USE BoundsNat
<1>0. jsonl \in Seq(Row) /\ tail \in {"ended", "unended", "torn"} /\ cuts \in 0..MaxCuts
  BY DEF TypeOK
<1>1. CASE jsonl' = Append(jsonl, row) /\ tail = "ended"
  <2>1. Lines' = Lines \cup {row} /\ jsonl' \in Seq(Row)
    BY <1>0, <1>1, AppendLines
  <2>2. \/ tail' = "ended" /\ cuts' = cuts
        \/ cuts < MaxCuts /\ cuts' = cuts + 1 /\ tail' \in {"torn", "unended"}
        \/ cuts < MaxCuts /\ cuts' = cuts + 1 /\ tail' = tail
    BY <1>1 DEF AppendQueueJsonl, AppendWhole, AppendCut
  <2>3. cuts' \in 0..MaxCuts /\ cuts' \in {cuts, cuts + 1} /\ tail' \in {"ended", "unended", "torn"}
    BY <1>0, <2>2
  <2>4. Tear' <= Tear + 2 * (cuts' - cuts)
    BY <1>0, <1>1, <2>2 DEF Tear
  <2>. QED
    BY <2>1, <2>3, <2>4
<1>2. CASE jsonl' = Kept /\ tail' # "unended" /\ ~(tail = "ended" /\ tail' = "ended")
  <2>1. \/ tail' = "ended" /\ cuts' = cuts
        \/ cuts < MaxCuts /\ cuts' = cuts + 1 /\ tail' = "torn"
        \/ cuts < MaxCuts /\ cuts' = cuts + 1 /\ tail' = tail
    BY <1>2 DEF AppendQueueJsonl, AppendWhole, AppendCut
  <2>2. cuts' \in 0..MaxCuts /\ cuts' \in {cuts, cuts + 1} /\ tail' \in {"ended", "unended", "torn"}
    BY <1>0, <2>1
  <2>3. CASE tail = "unended"
    <3>1. /\ jsonl' \in Seq(Row) /\ Lines' \subseteq Lines
          /\ Lines \subseteq Lines' \cup {jsonl[Len(jsonl)]}
      BY <1>0, <1>2, <2>3, FrontLines DEF Kept
    <3>2. 2 + Tear' <= Tear + 2 * (cuts' - cuts)
      BY <1>0, <1>2, <2>1, <2>3 DEF Tear
    <3>. QED
      BY <2>2, <3>1, <3>2
  <2>4. CASE tail # "unended"
    <3>1. jsonl' \in Seq(Row) /\ Lines' = Lines
      BY <1>0, <1>2, <2>4 DEF Kept, Lines
    <3>2. 1 + Tear' <= Tear + 2 * (cuts' - cuts)
      BY <1>0, <1>2, <2>1, <2>4 DEF Tear
    <3>. QED
      BY <2>2, <3>1, <3>2
  <2>. QED
    BY <2>3, <2>4
<1>3. CASE /\ UNCHANGED <<jsonl, tail>> /\ cuts < MaxCuts /\ cuts' = cuts + 1
  <2>1. Lines' = Lines /\ Tear' = Tear
    BY <1>3 DEF Lines, Tear
  <2>2. Tear \in Nat
    BY <1>0 DEF Tear
  <2>3. 1 + Tear' <= Tear + 2 * (cuts' - cuts)
    BY <1>0, <1>3, <2>1, <2>2
  <2>. QED
    BY <1>0, <1>3, <2>1, <2>3
<1>4. \/ jsonl' = Append(jsonl, row) /\ tail = "ended"
      \/ jsonl' = Kept /\ tail' # "unended" /\ ~(tail = "ended" /\ tail' = "ended")
      \/ /\ UNCHANGED <<jsonl, tail>> /\ cuts < MaxCuts /\ cuts' = cuts + 1
  BY <1>0 DEF AppendQueueJsonl, AppendWhole, AppendCut
<1>. QED
  BY <1>1, <1>2, <1>3, <1>4

\* One more row is one more digest.
LEMMA HashesAdd ==
    ASSUME NEW rows, NEW row
    PROVE  Hashes(rows \cup {row}) = Hashes(rows) \cup {row.hash}
BY DEF Hashes

\* Taking rows out of a sound queue leaves a sound queue, and takes exactly
\* their digests out of the index.
LEMMA RemoveRows ==
    ASSUME NEW rows, NEW out \in SUBSET rows, NEW next, Distinct(rows, next)
    PROVE  /\ Distinct(rows \ out, next)
           /\ Hashes(rows) \ Hashes(out) = Hashes(rows \ out)
           /\ Hashes(rows \ out) \subseteq Hashes(rows)
BY DEF Distinct, Hashes

\* An operation that leaves the journal alone and asks no more of it.
LEMMA JournalLeft ==
    ASSUME TypeOK, JournalInv, UNCHANGED <<jsonl, tail, cuts>>, Uncovered' \subseteq Uncovered,
           phase' = "recovering" => Hashes(pending') \subseteq Hashes(Lines)
    PROVE  JournalInv'
<1>1. Lines' = Lines /\ Tear' = Tear /\ cuts' = cuts
  BY DEF Lines, Tear
<1>2. IsFiniteSet(Uncovered) /\ Cardinality(Uncovered) \in Nat
  BY FS_CardinalityType DEF JournalInv
<1>3. IsFiniteSet(Uncovered') /\ Cardinality(Uncovered') <= Cardinality(Uncovered)
  BY <1>2, FewerDigests
<1>4. Tear \in Nat /\ cuts \in Nat /\ Cardinality(Uncovered') \in Nat
  BY <1>3, BoundsNat, FS_CardinalityType DEF Tear, TypeOK
<1>5. Cardinality(Uncovered') + Tear <= 2 * cuts
  BY <1>2, <1>3, <1>4 DEF JournalInv
<1>. QED
  BY <1>1, <1>3, <1>5 DEF JournalInv

\* The sum of the journal's invariant over one step that loses k lines more.
LEMMA JournalSum ==
    ASSUME NEW c \in Nat, NEW d \in Nat, NEW t \in Nat, NEW u \in Nat, NEW m \in Nat, NEW n \in Nat,
           NEW k \in Nat, c + t <= 2 * m, d <= c + k, k + u <= t + 2 * (n - m)
    PROVE  d + u <= 2 * n
OBVIOUS

\* A row that is journalled, or is not, on a disk that may be full.
LEMMA JournalOfEnqueue ==
    ASSUME TypeOK, JournalInv, NEW row \in Row, AppendQueueJsonl(row),
           phase = "up", phase' \in {"up", "saving"},
           pending' = pending \cup {row}, UNCHANGED <<dbState, dbRows>>
    PROVE  JournalInv'
<1>. DEFINE h == row.hash
            g == jsonl[Len(jsonl)].hash
<1>1. Hashes(pending') = Hashes(pending) \cup {h}
  BY DEF Hashes
<1>2. IsFiniteSet(Uncovered) /\ Cardinality(Uncovered) \in Nat
  BY FS_CardinalityType DEF JournalInv
<1>3. Cardinality(Uncovered) <= Cardinality(Uncovered)
  BY <1>2
<1>4. cuts \in Nat /\ cuts' \in Nat /\ Tear \in Nat /\ Tear' \in Nat
  BY JournalAfterAppend, BoundsNat DEF TypeOK, Tear
<1>5. ASSUME NEW k \in Nat, IsFiniteSet(Uncovered'), Cardinality(Uncovered') <= Cardinality(Uncovered) + k,
             k + Tear' <= Tear + 2 * (cuts' - cuts)
      PROVE  JournalInv'
  <2>1. Cardinality(Uncovered') \in Nat
    BY <1>5, FS_CardinalityType
  <2>2. Cardinality(Uncovered) + Tear <= 2 * cuts
    BY DEF JournalInv
  <2>3. Cardinality(Uncovered') + Tear' <= 2 * cuts'
    BY <1>2, <1>4, <1>5, <2>1, <2>2, JournalSum
  <2>. QED
    BY <1>5, <2>3 DEF JournalInv
<1>. HIDE DEF h, g
<1>6. CASE Lines' = Lines \cup {row} /\ Tear' <= Tear + 2 * (cuts' - cuts)
  <2>1. Uncovered' \subseteq Uncovered
    <3>1. Hashes(Lines') = Hashes(Lines) \cup {h}
      BY <1>6 DEF Hashes, h
    <3>. QED
      BY <1>1, <3>1 DEF Uncovered
  <2>2. IsFiniteSet(Uncovered') /\ Cardinality(Uncovered') <= Cardinality(Uncovered)
    BY <1>2, <1>3, <2>1, FewerDigests
  <2>3. \A n \in Nat : n + 0 = n /\ 0 + n = n
    OBVIOUS
  <2>. QED
    BY <1>2, <1>4, <1>5, <1>6, <2>2, <2>3
<1>7. CASE Lines' = Lines /\ 1 + Tear' <= Tear + 2 * (cuts' - cuts)
  <2>1. Uncovered' \subseteq Uncovered \cup {h}
    BY <1>1, <1>7 DEF Uncovered
  <2>2. IsFiniteSet(Uncovered') /\ Cardinality(Uncovered') <= Cardinality(Uncovered) + 1
    BY <1>2, <1>3, <2>1, OneMoreDigest
  <2>. QED
    BY <1>5, <1>7, <2>2
<1>8. CASE /\ Lines \subseteq Lines' \cup {jsonl[Len(jsonl)]}
           /\ 2 + Tear' <= Tear + 2 * (cuts' - cuts)
  <2>. DEFINE some == Uncovered \cup {h}
  <2>1. Uncovered' \subseteq some \cup {g}
    <3>1. Hashes(Lines) \subseteq Hashes(Lines') \cup {g}
      BY <1>8 DEF Hashes, g
    <3>. QED
      BY <1>1, <3>1 DEF Uncovered
  <2>2. IsFiniteSet(some) /\ Cardinality(some) <= Cardinality(Uncovered) + 1
    <3>1. some \subseteq Uncovered \cup {h}
      OBVIOUS
    <3>. HIDE DEF some
    <3>. QED
      BY <1>2, <1>3, <3>1, OneMoreDigest
  <2>. HIDE DEF some
  <2>3. Cardinality(Uncovered) + 1 \in Nat
    BY <1>2
  <2>4. IsFiniteSet(Uncovered') /\ Cardinality(Uncovered') <= (Cardinality(Uncovered) + 1) + 1
    BY <2>1, <2>2, <2>3, OneMoreDigest
  <2>5. Cardinality(Uncovered') <= Cardinality(Uncovered) + 2
    BY <1>2, <2>4
  <2>. QED
    BY <1>5, <1>8, <2>4, <2>5
<1>. QED
  BY <1>6, <1>7, <1>8, JournalAfterAppend

\* The queue starts in the invariant: nothing in RAM, nothing on disk.
LEMMA InitStoreInv == Init => StoreInv
<1>. SUFFICES ASSUME Init PROVE StoreInv
  OBVIOUS
<1>1. Uncovered = {} /\ Tear = 0 /\ cuts = 0 /\ phase = "down"
  BY DEF Init, Uncovered, Tear
<1>2. JournalInv
  BY <1>1, FS_EmptySet DEF JournalInv
<1>. QED
  BY <1>2, SaveEveryPos, BoundsNat, FS_EmptySet
     DEF Init, StoreInv, TypeOK, IndexExact, SnapshotSound, Row, Phase, Hashes, Distinct

\* Every step of every operation keeps it.
LEMMA NextStoreInv == StoreInv /\ [Next]_vars => StoreInv'
<1>. SUFFICES ASSUME StoreInv, [Next]_vars PROVE StoreInv'
  OBVIOUS
<1>. USE SaveEveryPos
<1>0. /\ TypeOK /\ IndexExact /\ SnapshotSound /\ JournalInv
      /\ IsFiniteSet(pending) /\ IsFiniteSet(dbRows)
  BY DEF StoreInv
<1>1. CASE LoadSnapshot
  <2>1. /\ phase = "down" /\ dbState = "ok" /\ pending' = dbRows
        /\ index' = Hashes(dbRows) /\ dirty' = 0 /\ phase' = "up"
        /\ nextId' \in {dbNext + Cardinality(dbRows)} \cup {r.id + 1 : r \in dbRows}
        /\ \A r \in dbRows : r.id < nextId'
        /\ UNCHANGED <<cursor, dbState, dbRows, dbNext, jsonl, tail, cuts, leaving, gone>>
    BY <1>1 DEF LoadSnapshot, NextIdAfterLoad, disk
  <2>2. nextId' \in Nat \ {0}
    <3>1. Cardinality(dbRows) \in Nat
      BY <1>0, FS_CardinalityType
    <3>. QED
      BY <1>0, <2>1, <3>1 DEF TypeOK, Row
  <2>3. TypeOK'
    BY <1>0, <2>1, <2>2 DEF TypeOK, Hashes, Row, Phase
  <2>4. Distinct(pending', nextId')
    BY <1>0, <2>1 DEF SnapshotSound, Distinct
  <2>5. JournalInv'
    <3>1. Uncovered' \subseteq Uncovered
      BY <2>1 DEF Uncovered, Lines
    <3>. QED
      BY <1>0, <2>1, <3>1, JournalLeft
  <2>. QED
    BY <1>0, <2>1, <2>3, <2>4, <2>5 DEF StoreInv, IndexExact, SnapshotSound
<1>2. CASE LoadJournal
  <2>1. /\ phase = "down" /\ dbState # "ok" /\ phase' = "recovering" /\ cursor' = 1
        /\ pending' = {} /\ index' = {} /\ nextId' = 1 /\ dirty' = 0
        /\ UNCHANGED <<dbState, dbRows, dbNext, jsonl, tail, cuts, leaving, gone>>
    BY <1>2 DEF LoadJournal, disk
  <2>2. JournalInv'
    <3>1. Hashes(pending') = {}
      BY <2>1 DEF Hashes
    <3>2. Uncovered' \subseteq Uncovered
      BY <2>1, <3>1 DEF Uncovered
    <3>. QED
      BY <1>0, <2>1, <3>1, <3>2, JournalLeft
  <2>3. TypeOK'
    BY <1>0, <2>1 DEF TypeOK, Phase
  <2>4. IndexExact' /\ SnapshotSound'
    BY <1>0, <2>1 DEF IndexExact, SnapshotSound, Distinct, Hashes
  <2>. QED
    BY <1>0, <2>1, <2>2, <2>3, <2>4, FS_EmptySet DEF StoreInv
<1>3. CASE RecoverLine
  <2>. DEFINE line == jsonl[cursor]
              id   == IF line.id \in Ids(pending) THEN nextId ELSE line.id
              row  == [id |-> id, hash |-> line.hash]
  <2>0. /\ phase = "recovering" /\ cursor \in DOMAIN jsonl /\ cursor' = cursor + 1
        /\ UNCHANGED <<dirty, phase, dbState, dbRows, dbNext, jsonl, tail, cuts, leaving, gone>>
    BY <1>0, <1>3 DEF RecoverLine, disk, TypeOK
  <2>1. line \in Row /\ line \in Lines /\ line.id \in Nat \ {0} /\ line.hash \in Hash
    <3>1. line \in Row
      BY <1>0, <2>0 DEF TypeOK
    <3>. QED
      BY <3>1, <2>0 DEF Row, Lines
  <2>2. id \in Nat \ {0} /\ id \notin Ids(pending) /\ row \in Row
    BY <1>0, <2>0, <2>1 DEF TypeOK, IndexExact, Ids, Row, Distinct
  <2>3. CASE line.hash \in index
    <3>1. UNCHANGED <<pending, index, nextId>>
      BY <2>3, <1>3 DEF RecoverLine
    <3>2. JournalInv'
      <4>1. Uncovered' \subseteq Uncovered
        BY <2>0, <3>1 DEF Uncovered, Lines
      <4>. QED
        BY <1>0, <2>0, <3>1, <4>1, JournalLeft DEF JournalInv
    <3>3. TypeOK'
      BY <1>0, <2>0, <3>1 DEF TypeOK, Phase
    <3>. QED
      BY <1>0, <2>0, <3>1, <3>2, <3>3 DEF StoreInv, IndexExact, SnapshotSound
  <2>4. CASE line.hash \notin index
    <3>1. /\ pending' = pending \cup {row}
          /\ index' = index \cup {line.hash}
          /\ nextId' = (IF id < nextId THEN nextId ELSE id + 1)
      BY <2>4, <1>3 DEF RecoverLine
    <3>2. nextId' \in Nat \ {0} /\ nextId <= nextId' /\ id < nextId'
      BY <1>0, <2>2, <3>1 DEF TypeOK
    <3>3. Distinct(pending, nextId) /\ index = Hashes(pending)
      BY <1>0, <2>0 DEF IndexExact
    <3>4. \A r \in pending : r.id # row.id /\ r.hash # row.hash
      BY <2>2, <2>4, <3>3 DEF Ids, Hashes
    <3>5. \A r \in pending' : r.id < nextId'
      BY <1>0, <2>2, <3>1, <3>2, <3>3 DEF Distinct, TypeOK, Row
    <3>6. Distinct(pending', nextId')
      BY <3>1, <3>3, <3>4, <3>5 DEF Distinct
    <3>7. Hashes(pending') = Hashes(pending) \cup {line.hash}
      BY <3>1, HashesAdd
    <3>8. JournalInv'
      <4>1. line.hash \in Hashes(Lines)
        BY <2>1 DEF Hashes
      <4>2. Lines' = Lines
        BY <2>0 DEF Lines
      <4>3. Hashes(pending') \subseteq Hashes(Lines)
        BY <1>0, <2>0, <3>7, <4>1 DEF JournalInv
      <4>4. Uncovered' \subseteq Uncovered
        BY <2>0, <3>7, <4>1, <4>2 DEF Uncovered
      <4>. QED
        BY <1>0, <2>0, <4>3, <4>4, JournalLeft
    <3>9. TypeOK'
      BY <1>0, <2>0, <2>1, <2>2, <3>1, <3>2 DEF TypeOK
    <3>10. IsFiniteSet(pending')
      BY <1>0, <3>1, FS_AddElement
    <3>. QED
      BY <1>0, <2>0, <3>1, <3>3, <3>6, <3>7, <3>8, <3>9, <3>10
         DEF StoreInv, IndexExact, SnapshotSound
  <2>. QED
    BY <2>3, <2>4
<1>4. CASE RecoverDone
  <2>1. /\ phase = "recovering" /\ (phase' = "up" \/ phase' = "saving")
        /\ phase' = "up" => pending = {}
        /\ UNCHANGED <<pending, index, nextId, dirty, cursor, dbState, dbRows, dbNext,
                       jsonl, tail, cuts, leaving, gone>>
    BY <1>4 DEF RecoverDone, ram, disk
  <2>2. JournalInv'
    <3>1. Uncovered' \subseteq Uncovered
      BY <2>1 DEF Uncovered, Lines
    <3>. QED
      BY <1>0, <2>1, <3>1, JournalLeft
  <2>. QED
    BY <1>0, <2>1, <2>2 DEF StoreInv, TypeOK, IndexExact, SnapshotSound, Phase
<1>5. CASE Truncate
  <2>1. /\ phase \in {"saving", "exiting"} /\ phase' \in {"writing", "lastWrite"}
        /\ dbState' = "torn"
        /\ UNCHANGED <<pending, index, nextId, dirty, cursor, dbRows, dbNext, jsonl, tail, cuts,
                       leaving, gone>>
    BY <1>5 DEF Truncate, ram, journal
  <2>2. JournalInv'
    <3>1. Uncovered' \subseteq Uncovered
      BY <2>1 DEF Uncovered, Lines
    <3>. QED
      BY <1>0, <2>1, <3>1, JournalLeft
  <2>. QED
    BY <1>0, <2>1, <2>2 DEF StoreInv, TypeOK, IndexExact, SnapshotSound, Phase
<1>6. CASE FinishSave
  <2>1. /\ phase # "down" /\ dbState' = "ok" /\ dbRows' = pending /\ dbNext' = nextId
        /\ dirty' = 0 /\ (phase' = "up" \/ phase' = "down")
        /\ gone' = gone \cup leaving /\ leaving' = {}
        /\ UNCHANGED <<pending, index, nextId, cursor, jsonl, tail, cuts>>
    BY <1>6 DEF FinishSave, Returns, journal
  <2>2. TypeOK'
    BY <1>0, <2>1 DEF TypeOK, Phase
  <2>3. JournalInv'
    <3>1. Uncovered' \subseteq Uncovered
      BY <2>1 DEF Uncovered, Lines
    <3>. QED
      BY <1>0, <2>1, <3>1, JournalLeft
  <2>. QED
    BY <1>0, <2>1, <2>2, <2>3 DEF StoreInv, IndexExact, SnapshotSound
<1>7. CASE SaveFails
  <2>1. /\ phase # "down" /\ dirty' = 0 /\ (phase' = "up" \/ phase' = "down")
        /\ gone' = gone \cup leaving /\ leaving' = {}
        /\ UNCHANGED <<pending, index, nextId, cursor, dbState, dbRows, dbNext, jsonl, tail, cuts>>
    BY <1>7 DEF SaveFails, Returns, disk
  <2>2. TypeOK'
    BY <1>0, <2>1 DEF TypeOK, Phase
  <2>3. JournalInv'
    <3>1. Uncovered' \subseteq Uncovered
      BY <2>1 DEF Uncovered, Lines
    <3>. QED
      BY <1>0, <2>1, <3>1, JournalLeft
  <2>. QED
    BY <1>0, <2>1, <2>2, <2>3 DEF StoreInv, IndexExact, SnapshotSound
<1>8. ASSUME NEW h \in Hash, Enqueue(h) PROVE StoreInv'
  <2>. DEFINE row == [id |-> nextId, hash |-> h]
  <2>1. /\ phase = "up" /\ h \notin index /\ pending' = pending \cup {row}
        /\ AppendQueueJsonl(row) /\ index' = index \cup {h}
        /\ nextId' = nextId + 1 /\ dirty' = dirty + 1 /\ gone' = gone \ {h}
        /\ phase' = (IF dirty + 1 >= SaveEvery THEN "saving" ELSE "up")
        /\ UNCHANGED <<cursor, dbState, dbRows, dbNext, leaving>>
    BY <1>8 DEF Enqueue, MaybeSave
  <2>2. row \in Row
    BY <1>0 DEF Row, TypeOK
  <2>3. /\ jsonl' \in Seq(Row) /\ tail' \in {"ended", "unended", "torn"}
        /\ cuts' \in 0..MaxCuts
    <3>. HIDE DEF row
    <3>. QED
      BY <1>0, <2>1, <2>2, JournalAfterAppend
  <2>4. Distinct(pending, nextId) /\ index = Hashes(pending) /\ dirty < SaveEvery
    BY <1>0, <2>1 DEF IndexExact, StoreInv
  <2>5. Distinct(pending', nextId')
    <3>1. \A r \in pending : r.id # row.id /\ r.hash # row.hash /\ r.id < nextId + 1
      BY <1>0, <2>1, <2>4 DEF Distinct, Hashes, TypeOK, Row
    <3>. QED
      BY <1>0, <2>1, <2>4, <3>1 DEF Distinct, TypeOK
  <2>6. Hashes(pending') = Hashes(pending) \cup {h}
    BY <2>1, HashesAdd
  <2>7. TypeOK'
    BY <1>0, <2>1, <2>2, <2>3, <2>4 DEF TypeOK, Phase
  <2>8. JournalInv'
    <3>. HIDE DEF row
    <3>. QED
      BY <1>0, <2>1, <2>2, JournalOfEnqueue
  <2>9. phase' = "up" => dirty' < SaveEvery
    BY <1>0, <2>1 DEF TypeOK
  <2>10. IsFiniteSet(pending')
    BY <1>0, <2>1, FS_AddElement
  <2>. QED
    BY <1>0, <2>1, <2>4, <2>5, <2>6, <2>7, <2>8, <2>9, <2>10
       DEF StoreInv, IndexExact, SnapshotSound
<1>9. ASSUME NEW out \in SUBSET pending, phase = "up", phase' = "saving",
             pending' = pending \ out, index' = index \ Hashes(out),
             leaving' = Hashes(out), dirty' \in {dirty, dirty + 1},
             UNCHANGED <<nextId, cursor, dbState, dbRows, dbNext, jsonl, tail, cuts, gone>>
      PROVE  StoreInv'
  <2>1. Distinct(pending, nextId) /\ index = Hashes(pending) /\ dirty < SaveEvery
    BY <1>0, <1>9 DEF IndexExact, StoreInv
  <2>2. /\ Distinct(pending', nextId') /\ index' = Hashes(pending')
        /\ Hashes(pending') \subseteq Hashes(pending)
    BY <1>9, <2>1, RemoveRows
  <2>3. TypeOK'
    BY <1>0, <1>9, <2>1 DEF TypeOK, Phase, Hashes, Row
  <2>4. JournalInv'
    <3>1. Uncovered' \subseteq Uncovered
      BY <1>9, <2>2 DEF Uncovered, Lines
    <3>. QED
      BY <1>0, <1>9, <3>1, JournalLeft
  <2>5. IsFiniteSet(pending')
    BY <1>0, <1>9, FS_Subset
  <2>. QED
    BY <1>0, <1>9, <2>2, <2>3, <2>4, <2>5 DEF StoreInv, IndexExact, SnapshotSound
<1>10. ASSUME NEW ids \in SUBSET (Ids(pending) \cup {0}), MarkSubmittedMany(ids) PROVE StoreInv'
  BY <1>9, <1>10 DEF MarkSubmittedMany, disk
<1>11. ASSUME NEW hashes \in SUBSET Hash, DropByHash(hashes) PROVE StoreInv'
  BY <1>9, <1>11 DEF DropByHash, disk
<1>12. ASSUME phase # "down", phase' = "up" => dirty' < SaveEvery, phase' # "recovering",
              phase' \in Phase, dirty' \in 0..SaveEvery, leaving' \in SUBSET Hash,
              UNCHANGED <<pending, index, nextId, cursor, dbState, dbRows, dbNext,
                          jsonl, tail, cuts, gone>>
       PROVE  StoreInv'
  <2>1. JournalInv'
    <3>1. Uncovered' \subseteq Uncovered
      BY <1>12 DEF Uncovered, Lines
    <3>. QED
      BY <1>0, <1>12, <3>1, JournalLeft
  <2>. QED
    BY <1>0, <1>12, <2>1 DEF StoreInv, TypeOK, IndexExact, SnapshotSound
<1>13. CASE MarkPendingReason
  BY <1>0, <1>12, <1>13 DEF MarkPendingReason, MaybeSave, StoreInv, TypeOK, Phase, disk
<1>14. CASE DeferAllToNextStart
  BY <1>0, <1>12, <1>14 DEF DeferAllToNextStart, StoreInv, TypeOK, Phase, disk
<1>15. CASE Flush
  BY <1>0, <1>12, <1>15 DEF Flush, TypeOK, Phase, disk, ram
<1>16. CASE Destroy
  BY <1>0, <1>12, <1>16 DEF Destroy, TypeOK, Phase, disk, ram
<1>17. CASE Crash
  BY <1>0, <1>12, <1>17 DEF Crash, TypeOK, Phase, disk, ram
<1>18. CASE UNCHANGED vars
  <2>1. JournalInv'
    BY <1>0, <1>18 DEF vars, JournalInv, Uncovered, Lines, Tear
  <2>. QED
    BY <1>0, <1>18, <2>1 DEF vars, StoreInv, TypeOK, IndexExact, SnapshotSound
<1>. QED
  BY <1>1, <1>2, <1>3, <1>4, <1>5, <1>6, <1>7, <1>8, <1>10, <1>11, <1>13,
     <1>14, <1>15, <1>16, <1>17, <1>18 DEF Next

\* The inductive invariant holds of every behaviour.
THEOREM StoreInvariant == Spec => []StoreInv
BY InitStoreInv, NextStoreInv, PTL DEF Spec

\* Type correctness of the queue (all operations, crashes, failing saves).
THEOREM StoreTypeCorrect == Spec => []TypeOK
BY StoreInvariant, PTL DEF StoreInv

\* The duplicate index is exact in every reachable state: no digest is refused
\* that is not queued, none is queued twice.
THEOREM IndexAlwaysExact == Spec => []IndexExact
BY StoreInvariant, PTL DEF StoreInv

\* Whatever blocks.db holds when it parses is a sound queue.
THEOREM SnapshotAlwaysSound == Spec => []SnapshotSound
BY StoreInvariant, PTL DEF StoreInv

\* An unreadable snapshot loses no row whose append reached the disk whole and
\* was not followed into its line, and at most two blocks per append that did not.
THEOREM JournalAlwaysCovers == Spec => []JournalCovers
<1>1. StoreInv => JournalCovers
  <2>. SUFFICES ASSUME StoreInv PROVE JournalCovers
    OBVIOUS
  <2>1. /\ Cardinality(Uncovered) \in Nat /\ Tear \in Nat /\ cuts \in Nat
        /\ Cardinality(Uncovered) + Tear <= 2 * cuts
    BY BoundsNat, FS_CardinalityType DEF StoreInv, JournalInv, TypeOK, Tear
  <2>. QED
    BY <2>1 DEF JournalCovers
<1>. QED
  BY <1>1, StoreInvariant, PTL

\* A live id never comes to name another row, so a flush wave that erases by
\* id after its HTTP answers erases what it sent and nothing else.
THEOREM LiveIdsNotReused == Spec => IdsNotReused
<1>1. StoreInv /\ [Next]_vars =>
        [phase = "up" => /\ nextId <= nextId'
                         /\ \A r \in pending' \ pending : r.id >= nextId]_vars
  <2>. SUFFICES ASSUME StoreInv, [Next]_vars, phase = "up"
                PROVE  /\ nextId <= nextId' /\ nextId \in Nat
                       /\ \A r \in pending' \ pending : r.id >= nextId
    OBVIOUS
  <2>0. nextId \in Nat
    BY DEF StoreInv, TypeOK
  <2>1. ASSUME NEW h \in Hash, Enqueue(h)
        PROVE  nextId' = nextId + 1 /\ \A r \in pending' \ pending : r.id = nextId
    BY <2>1 DEF Enqueue
  <2>2. \/ nextId' = nextId /\ pending' \subseteq pending
        \/ \E h \in Hash : Enqueue(h)
    BY DEF Next, vars, ram, LoadSnapshot, LoadJournal, RecoverLine, RecoverDone, Truncate,
           FinishSave, SaveFails, MarkSubmittedMany, DropByHash, MarkPendingReason,
           DeferAllToNextStart, Flush, Destroy, Crash
  <2>. QED
    BY <2>0, <2>1, <2>2
<1>. QED
  BY <1>1, StoreInvariant, PTL DEF Spec, IdsNotReused

-----------------------------------------------------------------------------
(* The loss bound.  It needs every save to reach the disk.                  *)

\* Digests that are queued, or on their way out, and that a restart would not find.
Unsaved == (Hashes(pending) \cup leaving) \ Recoverable

\* What holds when saves reach the disk.  A digest is on its way out only while
\* its call saves; the journal is read only when there is no readable snapshot,
\* and every line read so far is in the queue; without a snapshot each row of a
\* living process is a dirty operation, which stands in for the line it may not
\* have; and the two checked properties.
LossInv ==
    /\ leaving # {} => phase \in {"saving", "writing"}
    /\ leaving \cap Hashes(pending) = {}
    /\ phase = "recovering" =>
           /\ dbState # "ok" /\ dirty = 0
           /\ \A i \in 1 .. Len(jsonl) : i < cursor => jsonl[i].hash \in index
    /\ phase \in {"up", "saving", "exiting"} =>
           IsFiniteSet(Unsaved) /\ Cardinality(Unsaved) <= dirty
    /\ phase = "up" /\ dbState # "ok" =>
           IsFiniteSet(Hashes(pending)) /\ Cardinality(Hashes(pending)) <= dirty
    /\ CleanIsDurable

\* What holds when, moreover, no crash falls into the middle of a write: there
\* is a whole snapshot or there never was one, what is gone is in neither
\* queue, and a restart finds nothing that is not in RAM or just leaving it.
WholeInv ==
    /\ dbState = "torn" => phase \in {"writing", "lastWrite"}
    /\ dbState = "absent" => gone = {}
    /\ dbState = "ok" => gone \cap Hashes(dbRows) = {}
    /\ phase \notin {"down", "recovering"} => gone \cap Hashes(pending) = {}
    /\ phase \in {"up", "saving", "exiting"} =>
           Recoverable \subseteq Hashes(pending) \cup leaving

\* Nothing unsaved is within any bound.
LEMMA NoneUnsaved == IsFiniteSet({}) /\ Cardinality({}) = 0
BY FS_EmptySet

\* Taking rows out puts their digests on the way out, and on no other way.
LEMMA RowsOnTheirWay ==
    ASSUME NEW rows, NEW out \in SUBSET rows, NEW next, Distinct(rows, next)
    PROVE  /\ Hashes(rows \ out) \cap Hashes(out) = {}
           /\ Hashes(rows \ out) \cup Hashes(out) = Hashes(rows)
BY DEF Distinct, Hashes

\* Once the last journal line is read the queue is what the journal holds.
LEMMA JournalRead ==
    ASSUME StoreInv, LossInv, phase = "recovering", cursor > Len(jsonl)
    PROVE  leaving = {} /\ Recoverable = Hashes(Lines) /\ Hashes(Lines) = Hashes(pending)
<1>1. jsonl \in Seq(Row) /\ cursor \in Nat /\ index = Hashes(pending)
      /\ Hashes(pending) \subseteq Hashes(Lines)
  BY DEF StoreInv, TypeOK, IndexExact, JournalInv
<1>2. \A i \in DOMAIN jsonl : jsonl[i].hash \in index
  <2>1. Len(jsonl) \in Nat /\ DOMAIN jsonl = 1 .. Len(jsonl)
    BY <1>1
  <2>. QED
    BY <1>1, <2>1 DEF LossInv
<1>3. Hashes(Lines) \subseteq Hashes(pending)
  BY <1>1, <1>2 DEF Hashes, Lines
<1>. QED
  BY <1>1, <1>3 DEF LossInv, Recoverable

\* Every step keeps the loss bound when saves reach the disk.
LEMMA NextLossInv ==
    ASSUME ~SaveMayFail, StoreInv, LossInv, [Next]_vars
    PROVE  LossInv'
<1>0. /\ TypeOK /\ IndexExact /\ dirty \in Nat
      /\ leaving # {} => phase \in {"saving", "writing"}
      /\ leaving \cap Hashes(pending) = {}
  BY SaveEveryPos DEF StoreInv, TypeOK, LossInv
<1>1. CASE LoadSnapshot
  <2>1. /\ leaving' = {} /\ phase' = "up" /\ dirty' = 0 /\ Recoverable' = Hashes(pending')
        /\ dbState' = "ok"
    BY <1>0, <1>1 DEF LoadSnapshot, disk, Recoverable
  <2>2. Unsaved' = {}
    BY <2>1 DEF Unsaved
  <2>. QED
    BY <2>1, <2>2, NoneUnsaved DEF LossInv, CleanIsDurable
<1>2. CASE LoadJournal
  <2>1. /\ leaving' = {} /\ phase' = "recovering" /\ dbState' # "ok" /\ cursor' = 1
        /\ dirty' = 0
    BY <1>0, <1>2 DEF LoadJournal, disk
  <2>. QED
    BY <2>1 DEF LossInv, CleanIsDurable
<1>3. CASE RecoverLine
  <2>1. /\ phase = "recovering" /\ phase' = "recovering" /\ cursor' = cursor + 1
        /\ UNCHANGED <<dirty, dbState, jsonl, leaving>> /\ leaving = {}
    BY <1>0, <1>3 DEF RecoverLine, disk
  <2>2. index \subseteq index' /\ jsonl[cursor].hash \in index'
    BY <1>3 DEF RecoverLine
  <2>3. \A i \in 1 .. Len(jsonl) : i < cursor + 1 => jsonl[i].hash \in index'
    <3>. SUFFICES ASSUME NEW i \in 1 .. Len(jsonl), i < cursor + 1
                  PROVE  jsonl[i].hash \in index'
      OBVIOUS
    <3>1. i < cursor \/ i = cursor
      BY <1>0 DEF TypeOK
    <3>. QED
      BY <2>1, <2>2, <3>1 DEF LossInv
  <2>. QED
    BY <2>1, <2>3 DEF LossInv, CleanIsDurable
<1>4. CASE RecoverDone
  <2>1. /\ phase = "recovering" /\ phase' \in {"up", "saving"}
        /\ phase' = "up" => pending = {}
        /\ UNCHANGED <<pending, dirty, dbState, dbRows, jsonl, leaving>>
        /\ leaving = {} /\ Recoverable = Hashes(pending)
    BY <1>4, JournalRead DEF RecoverDone, ram, disk
  <2>2. Recoverable' = Hashes(pending')
    BY <2>1 DEF Recoverable, Lines
  <2>3. Unsaved' = {}
    BY <2>1, <2>2 DEF Unsaved
  <2>4. phase' = "up" => Hashes(pending') = {}
    BY <2>1 DEF Hashes
  <2>. QED
    BY <1>0, <2>1, <2>2, <2>3, <2>4, NoneUnsaved DEF LossInv, CleanIsDurable
<1>5. CASE Truncate
  BY <1>0, <1>5 DEF Truncate, ram, LossInv, CleanIsDurable
<1>6. CASE FinishSave
  <2>1. /\ dbState' = "ok" /\ dbRows' = pending' /\ dirty' = 0 /\ phase' # "recovering"
        /\ leaving' = {}
    BY <1>6 DEF FinishSave, Returns
  <2>2. Recoverable' = Hashes(pending') /\ Unsaved' = {}
    BY <2>1 DEF Unsaved, Recoverable
  <2>. QED
    BY <2>1, <2>2, NoneUnsaved DEF LossInv, CleanIsDurable
<1>7. CASE SaveFails
  BY <1>7 DEF SaveFails
<1>8. ASSUME NEW h \in Hash, Enqueue(h) PROVE LossInv'
  <2>. DEFINE row == [id |-> nextId, hash |-> h]
  <2>1. /\ phase = "up" /\ phase' \in {"up", "saving"} /\ dirty' = dirty + 1
        /\ pending' = pending \cup {row}
        /\ UNCHANGED <<dbState, dbRows, leaving>> /\ leaving = {}
    BY <1>0, <1>8 DEF Enqueue, MaybeSave
  <2>2. Hashes(pending') = Hashes(pending) \cup {h}
    BY <2>1, HashesAdd
  <2>3. IsFiniteSet(Unsaved') /\ Cardinality(Unsaved') <= dirty'
    <3>1. CASE dbState = "ok"
      <4>1. Unsaved' \subseteq Unsaved \cup {h}
        BY <2>1, <2>2, <3>1 DEF Unsaved, Recoverable
      <4>. QED
        BY <1>0, <2>1, <4>1, OneMoreDigest DEF LossInv
    <3>2. CASE dbState # "ok"
      <4>1. Unsaved' \subseteq Hashes(pending) \cup {h}
        BY <2>1, <2>2 DEF Unsaved
      <4>. QED
        BY <1>0, <2>1, <3>2, <4>1, OneMoreDigest DEF LossInv
    <3>. QED
      BY <3>1, <3>2
  <2>4. dbState' # "ok" => /\ IsFiniteSet(Hashes(pending'))
                           /\ Cardinality(Hashes(pending')) <= dirty'
    BY <1>0, <2>1, <2>2, OneMoreDigest DEF LossInv
  <2>. QED
    BY <1>0, <2>1, <2>3, <2>4 DEF LossInv, CleanIsDurable
<1>9. ASSUME phase \in {"up", "saving", "exiting"}, phase' # "recovering",
             Hashes(pending') \cup leaving' \subseteq Hashes(pending) \cup leaving,
             leaving' # {} => phase' \in {"saving", "writing"},
             leaving' \cap Hashes(pending') = {},
             dirty' \in Nat, dirty <= dirty', phase' = "up" => dirty' # 0,
             phase' = "up" => phase = "up" /\ pending' = pending,
             UNCHANGED <<dbState, dbRows, jsonl>>
      PROVE  LossInv'
  <2>1. Unsaved' \subseteq Unsaved
    BY <1>9 DEF Unsaved, Recoverable, Lines, Hashes
  <2>2. IsFiniteSet(Unsaved') /\ Cardinality(Unsaved') <= dirty'
    BY <1>0, <1>9, <2>1, FewerDigests DEF LossInv
  <2>3. phase' = "up" /\ dbState' # "ok" =>
            IsFiniteSet(Hashes(pending')) /\ Cardinality(Hashes(pending')) <= dirty'
    BY <1>0, <1>9, FewerDigests DEF LossInv
  <2>. QED
    BY <1>9, <2>2, <2>3 DEF LossInv, CleanIsDurable
<1>10. ASSUME NEW out \in SUBSET pending, phase = "up", phase' = "saving",
              pending' = pending \ out, leaving' = Hashes(out),
              dirty' \in Nat, dirty <= dirty', UNCHANGED <<dbState, dbRows, jsonl>>
       PROVE  LossInv'
  <2>1. /\ Hashes(pending') \cap leaving' = {}
        /\ Hashes(pending') \cup leaving' = Hashes(pending)
    BY <1>0, <1>10, RowsOnTheirWay DEF IndexExact
  <2>. QED
    BY <1>9, <1>10, <2>1
<1>11. ASSUME NEW ids \in SUBSET (Ids(pending) \cup {0}), MarkSubmittedMany(ids) PROVE LossInv'
  BY <1>0, <1>10, <1>11 DEF MarkSubmittedMany, disk
<1>12. ASSUME NEW hashes \in SUBSET Hash, DropByHash(hashes) PROVE LossInv'
  BY <1>0, <1>10, <1>12 DEF DropByHash, disk
<1>13. CASE MarkPendingReason \/ DeferAllToNextStart
  BY <1>0, <1>9, <1>13 DEF MarkPendingReason, DeferAllToNextStart, MaybeSave, disk
<1>14. CASE Flush \/ Destroy
  BY <1>0, <1>9, <1>14 DEF Flush, Destroy, disk, ram
<1>15. CASE Crash
  BY <1>15 DEF Crash, LossInv, CleanIsDurable
<1>16. CASE UNCHANGED vars
  BY <1>16 DEF vars, LossInv, CleanIsDurable, Unsaved, Recoverable, Lines
<1>. QED
  BY <1>1, <1>2, <1>3, <1>4, <1>5, <1>6, <1>7, <1>8, <1>11, <1>12, <1>13, <1>14, <1>15,
     <1>16 DEF Next

LEMMA LossInvariant == ASSUME ~SaveMayFail PROVE Spec => []LossInv
<1>1. Init => LossInv
  BY DEF Init, LossInv, CleanIsDurable
<1>2. StoreInv /\ LossInv /\ [Next]_vars => LossInv'
  BY NextLossInv
<1>. QED
  BY <1>1, <1>2, StoreInvariant, PTL DEF Spec

\* A crash forgets at most one block per dirty operation, for every threshold.
THEOREM LossAlwaysBounded == ASSUME ~SaveMayFail PROVE Spec => []LossBounded
<1>1. StoreInv /\ LossInv => LossBounded
  <2>. SUFFICES ASSUME StoreInv, LossInv, phase \in {"up", "saving", "exiting"}
                PROVE  Cardinality(Hashes(pending) \ Recoverable) <= dirty
    BY DEF LossBounded
  <2>1. /\ dirty \in Nat /\ IsFiniteSet(Unsaved) /\ Cardinality(Unsaved) <= dirty
        /\ Hashes(pending) \ Recoverable \subseteq Unsaved
    BY SaveEveryPos DEF StoreInv, TypeOK, LossInv, Unsaved
  <2>. QED
    BY <2>1, FewerDigests
<1>. QED
  BY <1>1, StoreInvariant, LossInvariant, PTL

\* An operation that left dirty_ops_ at zero left the whole queue on disk: a
\* restart would find exactly what is queued, no less and no more.
THEOREM CleanAlwaysDurable == ASSUME ~SaveMayFail PROVE Spec => []CleanIsDurable
<1>1. LossInv => CleanIsDurable
  BY DEF LossInv
<1>. QED
  BY <1>1, LossInvariant, PTL

-----------------------------------------------------------------------------

\* Every step keeps WholeInv when no crash falls into a write.
LEMMA NextWholeInv ==
    ASSUME ~SaveMayFail, ~CrashInWrite, StoreInv, LossInv, WholeInv, [Next]_vars
    PROVE  WholeInv'
<1>0. /\ IndexExact /\ TypeOK
      /\ leaving # {} => phase \in {"saving", "writing"}
      /\ leaving \cap Hashes(pending) = {}
  BY DEF StoreInv, LossInv
<1>1. CASE LoadSnapshot
  BY <1>0, <1>1 DEF LoadSnapshot, disk, WholeInv, Recoverable
<1>2. CASE LoadJournal
  BY <1>2 DEF LoadJournal, disk, WholeInv
<1>3. CASE RecoverLine
  BY <1>3 DEF RecoverLine, disk, WholeInv
<1>4. CASE RecoverDone
  <2>1. /\ phase = "recovering" /\ phase' \in {"up", "saving"}
        /\ UNCHANGED <<pending, dbState, dbRows, jsonl, leaving, gone>>
        /\ dbState # "ok" /\ Recoverable = Hashes(pending)
    BY <1>4, JournalRead DEF RecoverDone, ram, disk, LossInv
  <2>2. Recoverable' = Hashes(pending')
    BY <2>1 DEF Recoverable, Lines
  <2>3. dbState = "absent" /\ gone = {}
    BY <1>0, <2>1 DEF WholeInv, TypeOK
  <2>. QED
    BY <2>1, <2>2, <2>3 DEF WholeInv
<1>5. CASE Truncate
  BY <1>5 DEF Truncate, ram, journal, WholeInv
<1>6. CASE FinishSave
  <2>1. /\ dbState' = "ok" /\ dbRows' = pending' /\ pending' = pending
        /\ gone' = gone \cup leaving /\ leaving' = {}
        /\ phase \in {"writing", "lastWrite"}
    BY <1>6 DEF FinishSave, Returns
  <2>2. gone' \cap Hashes(pending') = {} /\ Recoverable' = Hashes(pending')
    BY <1>0, <2>1 DEF WholeInv, Recoverable
  <2>. QED
    BY <2>1, <2>2 DEF WholeInv
<1>7. CASE SaveFails
  BY <1>7 DEF SaveFails
<1>8. ASSUME NEW h \in Hash, Enqueue(h) PROVE WholeInv'
  <2>. DEFINE row == [id |-> nextId, hash |-> h]
  <2>1. /\ phase = "up" /\ phase' \in {"up", "saving"}
        /\ pending' = pending \cup {row} /\ AppendQueueJsonl(row)
        /\ gone' = gone \ {h} /\ leaving = {} /\ leaving' = {}
        /\ UNCHANGED <<dbState, dbRows>>
    BY <1>0, <1>8 DEF Enqueue, MaybeSave
  <2>2. Hashes(pending') = Hashes(pending) \cup {h}
    BY <2>1, HashesAdd
  <2>3. Lines' \subseteq Lines \cup {row}
    <3>1. row \in Row
      BY <1>0 DEF TypeOK, Row
    <3>. QED
      <4>. HIDE DEF row
      <4>. QED
        BY <1>0, <2>1, <3>1, JournalAfterAppend
  <2>4. Recoverable' \subseteq Recoverable \cup {h}
    <3>1. Hashes(Lines') \subseteq Hashes(Lines) \cup {h}
      BY <2>3 DEF Hashes
    <3>. QED
      BY <2>1, <3>1 DEF Recoverable
  <2>. QED
    BY <2>1, <2>2, <2>4 DEF WholeInv
<1>9. ASSUME phase \in {"up", "saving", "exiting"}, dbState' = dbState,
             Hashes(pending') \cup leaving' = Hashes(pending) \cup leaving,
             Hashes(pending') \subseteq Hashes(pending),
             UNCHANGED <<dbRows, jsonl, gone>>
      PROVE  WholeInv'
  <2>1. Recoverable' = Recoverable
    BY <1>9 DEF Recoverable, Lines
  <2>. QED
    BY <1>9, <2>1 DEF WholeInv
<1>10. ASSUME NEW out \in SUBSET pending, phase = "up",
              pending' = pending \ out, leaving' = Hashes(out),
              UNCHANGED <<dbState, dbRows, jsonl, gone>>
       PROVE  WholeInv'
  <2>1. /\ Hashes(pending') \cup leaving' = Hashes(pending)
        /\ Hashes(pending') \subseteq Hashes(pending) /\ leaving = {}
    BY <1>0, <1>10, RowsOnTheirWay, RemoveRows DEF IndexExact
  <2>. QED
    BY <1>9, <1>10, <2>1
<1>11. ASSUME NEW ids \in SUBSET (Ids(pending) \cup {0}), MarkSubmittedMany(ids) PROVE WholeInv'
  BY <1>10, <1>11 DEF MarkSubmittedMany, disk
<1>12. ASSUME NEW hashes \in SUBSET Hash, DropByHash(hashes) PROVE WholeInv'
  BY <1>10, <1>12 DEF DropByHash, disk
<1>13. CASE MarkPendingReason \/ DeferAllToNextStart \/ Flush \/ Destroy
  BY <1>9, <1>13 DEF MarkPendingReason, DeferAllToNextStart, MaybeSave, Flush, Destroy, disk, ram
<1>14. CASE Crash
  BY <1>14 DEF Crash, WholeInv, disk
<1>15. CASE UNCHANGED vars
  BY <1>15 DEF vars, WholeInv, Recoverable, Lines
<1>. QED
  BY <1>1, <1>2, <1>3, <1>4, <1>5, <1>6, <1>7, <1>8, <1>11, <1>12, <1>13, <1>14, <1>15 DEF Next

LEMMA WholeInvariant == ASSUME ~SaveMayFail, ~CrashInWrite PROVE Spec => []WholeInv
<1>1. Init => WholeInv
  BY DEF Init, WholeInv
<1>2. StoreInv /\ LossInv /\ WholeInv /\ [Next]_vars => WholeInv'
  BY NextWholeInv
<1>. QED
  BY <1>1, <1>2, StoreInvariant, LossInvariant, PTL DEF Spec

\* What was submitted or handed off comes back into the live queue by no
\* restart, for every number of restarts and every kSaveEveryOps.
THEOREM NoneResurrected == ASSUME ~SaveMayFail PROVE Spec => []NoResurrection
<1>1. CASE CrashInWrite
  <2>1. NoResurrection
    BY <1>1 DEF NoResurrection
  <2>. QED
    BY <2>1, PTL
<1>2. CASE ~CrashInWrite
  <2>1. WholeInv => NoResurrection
    BY DEF WholeInv, NoResurrection
  <2>. QED
    BY <1>2, <2>1, WholeInvariant, PTL
<1>. QED
  BY <1>1, <1>2

-----------------------------------------------------------------------------
(* The store implements the lossy bag (LossyBag.tla), step by step.         *)

\* The bag a state stands for.
TheUp   == phase \notin {"down", "recovering"}
TheBag  == IF phase \in {"down", "recovering"} THEN Recoverable ELSE Hashes(pending) \cup leaving
TheRisk == IF phase \in {"down", "recovering"} THEN 0 ELSE dirty
Idle    == UNCHANGED <<TheUp, TheBag, leaving, TheRisk>>

\* The bag's operations, of that bag.
LEMMA BagOperations ==
    /\ Bag!Open <=> ~TheUp /\ TheUp' = TRUE /\ UNCHANGED <<TheBag, leaving, TheRisk>>
    /\ \A h \in Hash : Bag!Put(h) <=>
           /\ TheUp /\ leaving = {} /\ h \notin TheBag /\ TheRisk < SaveEvery
           /\ TheBag' = TheBag \cup {h} /\ TheRisk' = TheRisk + 1 /\ UNCHANGED <<TheUp, leaving>>
    /\ \A S \in SUBSET Hash : Bag!Ask(S) <=>
           /\ TheUp /\ leaving = {} /\ S \subseteq TheBag /\ leaving' = S
           /\ TheRisk' \in {TheRisk, TheRisk + 1} /\ TheRisk' <= SaveEvery
           /\ UNCHANGED <<TheUp, TheBag>>
    /\ Bag!Save <=> /\ TheUp /\ TheBag' = TheBag \ leaving /\ leaving' = {} /\ TheRisk' = 0
                    /\ UNCHANGED TheUp
    /\ Bag!Die <=> /\ TheUp /\ TheUp' = FALSE
                   /\ \E lost \in SUBSET TheBag : /\ Cardinality(lost) <= TheRisk
                                                  /\ TheBag' = TheBag \ lost
                   /\ leaving' = {} /\ TheRisk' = 0
<1>. USE DEF TheUp, TheBag, TheRisk
<1>1. Bag!Open <=> ~TheUp /\ TheUp' = TRUE /\ UNCHANGED <<TheBag, leaving, TheRisk>>
  BY Zenon DEF Bag!Open
<1>2. \A h \in Hash : Bag!Put(h) <=>
           /\ TheUp /\ leaving = {} /\ h \notin TheBag /\ TheRisk < SaveEvery
           /\ TheBag' = TheBag \cup {h} /\ TheRisk' = TheRisk + 1 /\ UNCHANGED <<TheUp, leaving>>
  BY Zenon DEF Bag!Put
<1>3. \A S \in SUBSET Hash : Bag!Ask(S) <=>
           /\ TheUp /\ leaving = {} /\ S \subseteq TheBag /\ leaving' = S
           /\ TheRisk' \in {TheRisk, TheRisk + 1} /\ TheRisk' <= SaveEvery
           /\ UNCHANGED <<TheUp, TheBag>>
  BY Zenon DEF Bag!Ask
<1>4. Bag!Save <=> /\ TheUp /\ TheBag' = TheBag \ leaving /\ leaving' = {} /\ TheRisk' = 0
                   /\ UNCHANGED TheUp
  BY Zenon DEF Bag!Save
<1>5. Bag!Die <=> /\ TheUp /\ TheUp' = FALSE
                  /\ \E lost \in SUBSET TheBag : /\ Cardinality(lost) <= TheRisk
                                                 /\ TheBag' = TheBag \ lost
                  /\ leaving' = {} /\ TheRisk' = 0
  BY Zenon DEF Bag!Die, Bag!Cardinality, Cardinality
<1>. QED
  BY <1>1, <1>2, <1>3, <1>4, <1>5

LEMMA InitIsBagInit == Init => Bag!Init
BY DEF Init, Bag!Init, Recoverable, Hashes, Lines

\* A living process that ends forgets what it had not saved, and brings nothing
\* back.
LEMMA EndIsDeath ==
    ASSUME ~SaveMayFail, ~CrashInWrite, StoreInv, LossInv, WholeInv,
           phase \in {"up", "saving", "exiting"}, phase' = "down", leaving' = {},
           UNCHANGED <<pending, dbState, dbRows, jsonl>>
    PROVE  Bag!Die
<1>1. TheBag' = Recoverable /\ ~TheUp' /\ TheRisk' = 0
  BY DEF TheBag, TheUp, TheRisk, Recoverable, Lines
<1>2. /\ TheUp /\ TheBag = Hashes(pending) \cup leaving /\ TheRisk = dirty
      /\ Recoverable \subseteq TheBag
  BY DEF TheUp, TheBag, TheRisk, WholeInv
<1>3. Unsaved \in SUBSET TheBag /\ TheBag' = TheBag \ Unsaved
  BY <1>1, <1>2 DEF Unsaved
<1>4. Cardinality(Unsaved) <= TheRisk
  BY <1>2 DEF LossInv
<1>. QED
  BY <1>1, <1>2, <1>3, <1>4, BagOperations

\* Every step of the store is a step of the bag or leaves it alone.
LEMMA StepIsBagStep ==
    ASSUME ~SaveMayFail, ~CrashInWrite, StoreInv, LossInv, WholeInv, [Next]_vars
    PROVE  Bag!Next \/ Idle
<1>0. /\ TypeOK /\ IndexExact /\ phase \in Phase /\ dirty \in 0 .. SaveEvery /\ SaveEvery \in Nat
      /\ leaving # {} => phase \in {"saving", "writing"}
      /\ leaving \cap Hashes(pending) = {} /\ leaving \in SUBSET Hash
      /\ phase = "up" => dirty < SaveEvery
      /\ phase = "recovering" => dirty = 0
  BY SaveEveryPos DEF StoreInv, LossInv, TypeOK
<1>1. CASE LoadSnapshot
  <2>1. /\ phase = "down" /\ phase' = "up" /\ dirty' = 0 /\ leaving = {} /\ leaving' = {}
        /\ Recoverable = Hashes(dbRows) /\ pending' = dbRows
    BY <1>0, <1>1 DEF LoadSnapshot, disk, Recoverable
  <2>2. ~TheUp /\ TheUp' /\ TheRisk = 0 /\ TheRisk' = 0
    BY <2>1 DEF TheUp, TheRisk
  <2>3. TheBag' = TheBag
    BY <2>1 DEF TheBag, Hashes
  <2>. QED
    BY <2>1, <2>2, <2>3, BagOperations DEF Bag!Next
<1>2. CASE LoadJournal \/ RecoverLine
  <2>1. /\ phase \in {"down", "recovering"} /\ phase' = "recovering"
        /\ UNCHANGED <<dbState, dbRows, jsonl, leaving>>
    BY <1>2 DEF LoadJournal, RecoverLine, disk
  <2>. QED
    BY <2>1 DEF Idle, TheUp, TheBag, TheRisk, Recoverable, Lines
<1>3. CASE RecoverDone
  <2>1. /\ phase = "recovering" /\ phase' \in {"up", "saving"} /\ dirty = 0
        /\ UNCHANGED <<pending, leaving, dirty>> /\ leaving = {} /\ Recoverable = Hashes(pending)
    BY <1>0, <1>3, JournalRead DEF RecoverDone, ram
  <2>2. ~TheUp /\ TheUp' /\ TheRisk = 0 /\ TheRisk' = 0
    BY <2>1 DEF TheUp, TheRisk
  <2>3. TheBag' = TheBag
    BY <2>1 DEF TheBag
  <2>. QED
    BY <2>1, <2>2, <2>3, BagOperations DEF Bag!Next
<1>4. CASE Truncate
  <2>1. /\ phase \in {"saving", "exiting"} /\ phase' \in {"writing", "lastWrite"}
        /\ UNCHANGED <<pending, dirty, leaving>>
    BY <1>4 DEF Truncate, ram
  <2>. QED
    BY <2>1 DEF Idle, TheUp, TheBag, TheRisk
<1>5. CASE FinishSave
  <2>1. /\ phase \in {"writing", "lastWrite"} /\ leaving' = {} /\ dirty' = 0
        /\ dbState' = "ok" /\ dbRows' = pending' /\ pending' = pending
        /\ phase' = IF phase = "writing" THEN "up" ELSE "down"
    BY <1>5 DEF FinishSave, Returns
  <2>2. /\ TheUp /\ TheBag = Hashes(pending) \cup leaving /\ TheBag' = Hashes(pending)
        /\ TheRisk' = 0 /\ TheRisk = dirty
    BY <2>1 DEF TheBag, TheUp, TheRisk, Recoverable
  <2>3. CASE phase = "writing"
    <3>1. TheUp' /\ TheBag' = TheBag \ leaving
      BY <1>0, <2>1, <2>2, <2>3 DEF TheUp
    <3>. QED
      BY <2>1, <2>2, <3>1, BagOperations DEF Bag!Next
  <2>4. CASE phase = "lastWrite"
    <3>1. ~TheUp' /\ leaving = {}
      BY <1>0, <2>1, <2>4 DEF TheUp
    <3>2. {} \in SUBSET TheBag /\ Cardinality({}) <= TheRisk /\ TheBag' = TheBag \ {}
      BY <1>0, <2>2, <3>1, FS_EmptySet
    <3>. QED
      BY <2>1, <2>2, <3>1, <3>2, BagOperations DEF Bag!Next
  <2>. QED
    BY <2>1, <2>3, <2>4
<1>6. CASE SaveFails
  BY <1>6 DEF SaveFails
<1>7. ASSUME NEW h \in Hash, Enqueue(h) PROVE Bag!Next
  <2>1. /\ phase = "up" /\ phase' \in {"up", "saving"} /\ leaving = {} /\ leaving' = {}
        /\ h \notin index /\ pending' = pending \cup {[id |-> nextId, hash |-> h]}
        /\ dirty' = dirty + 1
    BY <1>0, <1>7 DEF Enqueue, MaybeSave
  <2>2. Hashes(pending') = Hashes(pending) \cup {h}
    BY <2>1, HashesAdd
  <2>3. h \notin TheBag /\ TheBag' = TheBag \cup {h}
    BY <1>0, <2>1, <2>2 DEF TheBag, IndexExact
  <2>4. TheUp /\ TheUp' /\ TheRisk < SaveEvery /\ TheRisk' = TheRisk + 1
    BY <1>0, <2>1 DEF TheUp, TheRisk
  <2>. QED
    BY <2>1, <2>3, <2>4, BagOperations DEF Bag!Next
<1>8. ASSUME phase = "up", phase' \in {"up", "saving"}, leaving' \in SUBSET Hash,
             leaving' \subseteq Hashes(pending), Hashes(pending') \cup leaving' = Hashes(pending),
             dirty' \in {dirty, dirty + 1}
      PROVE  Bag!Next
  <2>1. TheUp /\ TheUp' /\ leaving = {}
    BY <1>0, <1>8 DEF TheUp
  <2>2. TheBag = Hashes(pending) /\ TheBag' = TheBag
    BY <1>8, <2>1 DEF TheBag
  <2>3. TheRisk' \in {TheRisk, TheRisk + 1} /\ TheRisk' <= SaveEvery
    BY <1>0, <1>8 DEF TheRisk
  <2>4. leaving' \subseteq TheBag
    BY <1>8, <2>2
  <2>5. Bag!Ask(leaving')
    BY <1>8, <2>1, <2>2, <2>3, <2>4, BagOperations
  <2>. QED
    BY <1>8, <2>5 DEF Bag!Next
<1>9. ASSUME NEW out \in SUBSET pending, phase = "up", phase' = "saving",
             pending' = pending \ out, leaving' = Hashes(out), dirty' \in {dirty, dirty + 1}
      PROVE  Bag!Next
  <2>1. Hashes(pending') \cup leaving' = Hashes(pending)
    BY <1>0, <1>9, RowsOnTheirWay DEF IndexExact
  <2>2. leaving' \in SUBSET Hash
    BY <1>0, <1>9 DEF TypeOK, Hashes, Row
  <2>. QED
    BY <1>8, <1>9, <2>1, <2>2
<1>10. ASSUME NEW ids \in SUBSET (Ids(pending) \cup {0}), MarkSubmittedMany(ids)
       PROVE  Bag!Next
  BY <1>9, <1>10 DEF MarkSubmittedMany
<1>11. ASSUME NEW hashes \in SUBSET Hash, DropByHash(hashes) PROVE Bag!Next
  BY <1>9, <1>11 DEF DropByHash
<1>12. CASE MarkPendingReason \/ DeferAllToNextStart
  <2>1. /\ phase = "up" /\ phase' \in {"up", "saving"} /\ leaving' = {} /\ pending' = pending
        /\ dirty' = dirty + 1
    BY <1>0, <1>12 DEF MarkPendingReason, DeferAllToNextStart, MaybeSave
  <2>. QED
    BY <1>8, <2>1
<1>13. CASE Flush
  BY <1>13 DEF Flush, ram, Idle, TheUp, TheBag, TheRisk
<1>14. CASE Destroy
  <2>1. CASE dirty > 0
    BY <1>14, <2>1 DEF Destroy, ram, Idle, TheUp, TheBag, TheRisk
  <2>2. CASE dirty = 0
    <3>1. /\ phase = "up" /\ phase' = "down" /\ leaving' = {}
          /\ UNCHANGED <<pending, dbState, dbRows, jsonl>>
      BY <1>0, <1>14, <2>2 DEF Destroy, ram, disk
    <3>. QED
      BY <3>1, EndIsDeath DEF Bag!Next
  <2>. QED
    BY <1>0, <2>1, <2>2
<1>15. CASE Crash
  <2>1. /\ phase \in {"recovering", "up", "saving", "exiting"} /\ phase' = "down" /\ leaving' = {}
        /\ UNCHANGED <<pending, dbState, dbRows, jsonl>>
    BY <1>0, <1>15 DEF Crash, ram, disk, Phase
  <2>2. CASE phase = "recovering"
    <3>1. leaving = {}
      BY <1>0, <2>2
    <3>. QED
      BY <2>1, <2>2, <3>1 DEF Idle, TheUp, TheBag, TheRisk, Recoverable, Lines
  <2>. QED
    BY <2>1, <2>2, EndIsDeath DEF Bag!Next
<1>16. CASE UNCHANGED vars
  BY <1>16 DEF vars, Idle, TheUp, TheBag, TheRisk, Recoverable, Lines
<1>. QED
  BY <1>1, <1>2, <1>3, <1>4, <1>5, <1>6, <1>7, <1>10, <1>11, <1>12, <1>13, <1>14, <1>15,
     <1>16 DEF Next

\* The store implements the lossy bag when saves reach the disk and no crash
\* falls into one: a death takes at most as many blocks with it as there are
\* operations since the last save, never more than kSaveEveryOps, whatever
\* became of their journal lines; and what left does not come back.
THEOREM StoreIsLossyBag == ASSUME ~SaveMayFail, ~CrashInWrite PROVE Spec => ImplementsLossyBag
<1>1. StoreInv /\ LossInv /\ WholeInv /\ [Next]_vars => [Bag!Next]_(Bag!bagVars)
  BY StepIsBagStep DEF Idle, TheUp, TheBag, TheRisk, Bag!bagVars
<1>. QED
  BY <1>1, InitIsBagInit, StoreInvariant, LossInvariant, WholeInvariant, PTL
     DEF Spec, ImplementsLossyBag, Bag!Spec
=============================================================================
