------------------------ MODULE FramerStream_proofs ------------------------
(***************************************************************************)
(* Proofs about FramerStream: for every width of the bundles, every number *)
(* of slots, every set of images and every stream, however its words are   *)
(* cut into bundles and whatever the consumer takes, the framer keeps the  *)
(* stream in order and delivers the records its headers announce.          *)
(*                                                                         *)
(* The scan of the buffer is a recursive function: it is unfolded once and *)
(* for all (StartUnfolds), and what is said of every record is shown of    *)
(* the least counterexample.  FramerInv, the inductive invariant, relates  *)
(* the buffer, the stream received and the records delivered.              *)
(***************************************************************************)
EXTENDS FramerStream, FiniteSetTheorems, SequenceTheorems,
        WellFoundedInduction, TLAPS

\* A set of numbers has a least member: induction by counterexample.
LEMMA Least ==
  ASSUME NEW T \in SUBSET Nat, T # {}
  PROVE  \E m \in T : \A k \in T : m =< k
<1>1. \E m \in T : \A k \in T : <<k, m>> \notin OpToRel(<, Nat)
  BY WFMin, NatLessThanWellFounded
<1>2. PICK m \in T : \A k \in T : <<k, m>> \notin OpToRel(<, Nat)
  BY <1>1, Zenon
<1>3. \A k \in T : ~(k < m)
  BY <1>2, Zenon DEF OpToRel
<1>4. \A k \in T : m =< k
  BY <1>3
<1> QED BY <1>4

\* A bounded set of numbers has a greatest member.
LEMMA Greatest ==
  ASSUME NEW n \in Nat, NEW T \in SUBSET (1..n), T # {}
  PROVE  \E m \in T : \A k \in T : k =< m
<1> DEFINE B == {b \in Nat : \A k \in T : k =< b}
<1>1. n \in B
  OBVIOUS
<1>2. PICK m \in B : \A k \in B : m =< k
  BY <1>1, Least
<1>3. m \in T
  <2>1. SUFFICES ASSUME m \notin T PROVE FALSE
    OBVIOUS
  <2>2. PICK t \in T : TRUE
    OBVIOUS
  <2>3. m - 1 \in B
    <3>1. \A k \in T : k =< m /\ k # m /\ k \in 1..n
      BY <1>2, <2>1
    <3>2. m \in Nat /\ t =< m /\ t >= 1
      BY <1>2, <2>2, <3>1
    <3> QED BY <3>1, <3>2
  <2> QED BY <1>2, <2>3
<1> QED BY <1>2, <1>3

----------------------------------------------------------------------------
(* The scan of the buffer                                                  *)

\* Whether a record starts at i, if f says so of the places before it.
Starts(f, i) ==
  \/ i = 1
  \/ \E j \in 1..(i - 1) :
        j + Present(j) = i /\ Framed(j) /\ ~EndAt(j) /\ f[j]

\* One pass over the buffer decides it of every place.
LEMMA ScanExists ==
  ASSUME NEW n \in Nat
  PROVE  \E f : f = [i \in 1..n |-> Starts(f, i)]
<1> DEFINE Scan(f, k) == f = [i \in 1..k |-> Starts(f, i)]
           Bad == {k \in Nat : ~ \E f : Scan(f, k)}
<1> SUFFICES ASSUME Bad # {} PROVE FALSE
  OBVIOUS
<1>1. PICK m \in Bad : \A k \in Bad : m =< k
  BY Least
<1>2. CASE m = 0
  <2> DEFINE f == [i \in 1..0 |-> TRUE]
  <2>1. Scan(f, 0)
    OBVIOUS
  <2> QED BY <1>1, <1>2, <2>1
<1>3. CASE m # 0
  <2>1. m - 1 \in Nat /\ m - 1 \notin Bad
    BY <1>1, <1>3
  <2>2. PICK f : Scan(f, m - 1)
    BY <2>1
  <2> DEFINE g == [i \in 1..m |-> IF i = m THEN Starts(f, m) ELSE f[i]]
  <2>3. \A i \in 1..m : \A j \in 1..(i - 1) : g[j] = f[j]
    BY <1>1
  <2>4. \A i \in 1..m : Starts(g, i) = Starts(f, i)
    BY <2>3 DEF Starts
  <2>5. \A i \in 1..(m - 1) : f[i] = Starts(f, i)
    BY <2>2
  <2>6. ASSUME NEW i \in 1..m PROVE g[i] = Starts(g, i)
    <3>1. CASE i = m
      BY <2>4, <3>1
    <3>2. CASE i # m
      <4>1. i \in 1..(m - 1)
        BY <1>1, <3>2
      <4> QED BY <2>4, <2>5, <3>2, <4>1
    <3> QED BY <3>1, <3>2
  <2>7. Scan(g, m)
    BY <2>6
  <2> QED BY <1>1, <2>7
<1> QED BY <1>2, <1>3

\* IsStart, the function the module defines by recursion, is that pass.
LEMMA StartUnfolds ==
  ASSUME Len(words) \in Nat
  PROVE  IsStart = [i \in 1..Len(words) |-> Starts(IsStart, i)]
BY ScanExists DEF IsStart, Starts

\* The words in the buffer are words of the image.
Readable ==
  /\ words \in Seq(Nat) /\ image \in Images
  /\ \A i \in DOMAIN words : words[i] \in DOMAIN image

\* A record is one to four words long and within the buffer; one that is
\* not whole reaches to its end.
LEMMA PresentIs ==
  ASSUME Readable, NEW i \in 1..Len(words)
  PROVE  /\ Need(i) \in 1..4 /\ Present(i) \in 1..4
         /\ i + Present(i) - 1 =< Len(words)
         /\ Whole(i) => Present(i) = Need(i)
         /\ ~Whole(i) => Present(i) < Need(i) /\ i + Present(i) - 1 = Len(words)
<1>1. Need(i) \in 1..4
  BY FramerAssumption DEF Readable, Need, MaxRecordWords
<1>2. Left(i) \in 1..Len(words) /\ i + Left(i) - 1 = Len(words)
  BY DEF Readable, Left
<1> QED BY <1>1, <1>2 DEF Present, Whole

\* What it means to be shown as a record.
LEMMA RecordIs ==
  ASSUME Readable, NEW i \in Records
  PROVE  i \in 1..Len(words) /\ IsStart[i] /\ Framed(i)
BY DEF Records

\* The buffer begins with a record.
LEMMA FirstIsStart ==
  ASSUME Readable, words # << >>
  PROVE  1 \in 1..Len(words) /\ IsStart[1]
<1>1. Len(words) \in Nat /\ 1 \in 1..Len(words)
  BY DEF Readable
<1>2. IsStart[1] = Starts(IsStart, 1)
  BY <1>1, StartUnfolds
<1> QED BY <1>1, <1>2 DEF Starts

\* Every other record begins where another one, not an END, ends.
LEMMA HasPredecessor ==
  ASSUME Readable, NEW i \in Records, i # 1
  PROVE  \E j \in Records : j < i /\ j + Present(j) = i /\ ~EndAt(j)
<1>1. i \in 1..Len(words) /\ IsStart[i] /\ Len(words) \in Nat
  BY RecordIs DEF Readable
<1>2. Starts(IsStart, i)
  BY <1>1, StartUnfolds
<1>3. PICK j \in 1..(i - 1) :
        j + Present(j) = i /\ Framed(j) /\ ~EndAt(j) /\ IsStart[j]
  BY <1>2 DEF Starts
<1> QED BY <1>1, <1>3 DEF Records

\* Records do not overlap.
LEMMA RecordsApart ==
  ASSUME Readable
  PROVE  \A i, j \in Records : i < j => i + Present(i) =< j
<1> DEFINE Clear(j) == \A i \in Records : i < j => i + Present(i) =< j
           Bad == {j \in Records : ~Clear(j)}
<1> SUFFICES ASSUME Bad # {} PROVE FALSE
  OBVIOUS
<1>1. \A i \in Records : i \in 1..Len(words) /\ Present(i) \in 1..4
  BY RecordIs, PresentIs
<1>2. PICK j \in Bad : \A k \in Bad : j =< k
  <2>1. Bad \in SUBSET Nat
    BY <1>1 DEF Readable
  <2> QED BY <2>1, Least
<1>3. PICK i \in Records : i < j /\ ~(i + Present(i) =< j)
  BY <1>2
<1>4. PICK p \in Records : p < j /\ p + Present(p) = j
  BY <1>1, <1>2, <1>3, HasPredecessor DEF Readable
<1>5. Clear(p) /\ Clear(i)
  BY <1>1, <1>2, <1>3, <1>4
<1>6. CASE i < p
  BY <1>1, <1>3, <1>4, <1>5, <1>6
<1>7. CASE p < i
  BY <1>1, <1>3, <1>4, <1>5, <1>7
<1>8. CASE p = i
  BY <1>1, <1>3, <1>4, <1>8
<1> QED BY <1>1, <1>6, <1>7, <1>8

\* No record follows an END.
LEMMA EndIsLast ==
  ASSUME Readable, NEW e \in Records, EndAt(e)
  PROVE  \A i \in Records : i =< e
<1> DEFINE Bad == {i \in Records : e < i}
<1> SUFFICES ASSUME Bad # {} PROVE FALSE
  BY RecordIs DEF Readable
<1>1. \A i \in Records : i \in 1..Len(words) /\ Present(i) \in 1..4
  BY RecordIs, PresentIs
<1>2. PICK j \in Bad : \A k \in Bad : j =< k
  <2>1. Bad \in SUBSET Nat
    BY <1>1 DEF Readable
  <2> QED BY <2>1, Least
<1>3. PICK p \in Records : p < j /\ p + Present(p) = j /\ ~EndAt(p)
  BY <1>1, <1>2, HasPredecessor DEF Readable
<1>4. p < e
  BY <1>1, <1>2, <1>3 DEF Readable
<1>5. p + Present(p) =< e
  BY <1>4, RecordsApart
<1> QED BY <1>1, <1>2, <1>3, <1>5 DEF Readable

\* The END found is a record, and the buffer counts up to its last word.
LEMMA EndIs ==
  ASSUME Readable
  PROVE  /\ EndFound => /\ EndPosition \in Records /\ EndAt(EndPosition)
                        /\ EffectiveWords = EndPosition + Present(EndPosition) - 1
         /\ ~EndFound => EffectiveWords = Len(words)
         /\ EffectiveWords \in 0..Len(words)
<1>1. EndFound => EndPosition \in Records /\ EndAt(EndPosition)
  BY Zenon DEF EndFound, EndPosition
<1>2. Len(words) \in Nat
  BY DEF Readable
<1>3. CASE EndFound
  <2>1. EffectiveWords = EndPosition + Present(EndPosition) - 1
    BY <1>3 DEF EffectiveWords
  <2> HIDE DEF EndPosition
  <2>2. EndPosition \in 1..Len(words)
    BY <1>1, <1>3, RecordIs
  <2> QED BY <1>1, <1>2, <1>3, <2>1, <2>2, PresentIs
<1>4. CASE ~EndFound
  BY <1>2, <1>4 DEF EffectiveWords
<1> QED BY <1>1, <1>3, <1>4

\* The same facts in a form that also holds of the next state.
Scanned == IsStart = [i \in 1..Len(words) |-> Starts(IsStart, i)]

\* StartUnfolds as an implication.
LEMMA ScanUnfolds == Len(words) \in Nat => Scanned
BY StartUnfolds DEF Scanned

\* EndIs as an implication.
LEMMA EndPlace ==
  Readable => (EndFound => /\ EndPosition \in Records /\ EndAt(EndPosition)
                           /\ EffectiveWords = EndPosition + Present(EndPosition) - 1)
BY EndIs

\* There is one END at most.
LEMMA OneEnd ==
  Readable => \A i, j \in Records : EndAt(i) /\ EndAt(j) => i = j
<1> SUFFICES ASSUME Readable, NEW i \in Records, NEW j \in Records, EndAt(i), EndAt(j)
             PROVE  i = j
  OBVIOUS
<1>1. i =< j /\ j =< i
  BY EndIsLast
<1>2. i \in Int /\ j \in Int
  BY RecordIs
<1> QED BY <1>1, <1>2

----------------------------------------------------------------------------
(* The records a cycle takes *)

\* Slots are taken with every older one.
Prefix(taken) ==
  /\ taken \subseteq Records
  /\ \A i \in taken : \A j \in Records : j =< i => j \in taken

\* Whatever the ready mask asks for, the slots accepted are such a prefix.
LEMMA AcceptedIsPrefix ==
  ASSUME Readable, NEW taken \in Takes
  PROVE  Prefix(taken)
<1>1. PICK ready \in SUBSET (1..AdmitSlots) : taken = Accepted(ready)
  BY DEF Takes
<1>2. taken = {i \in Records : \A j \in Records : j =< i => Slot(Records, j) \in ready}
  BY <1>1 DEF Accepted
<1>3. \A i \in Records : i \in Int
  BY RecordIs
<1> QED BY <1>2, <1>3 DEF Prefix

\* The words that leave are those of the records taken: the last of them ends
\* where the rest begins.
LEMMA TakenEnds ==
  ASSUME Readable, NEW taken, Prefix(taken)
  PROVE  /\ AcceptedWords(taken) \in 0..EffectiveWords
         /\ taken = {} => AcceptedWords(taken) = 0
         /\ taken # {} => \E last \in taken :
              /\ \A i \in taken : i =< last
              /\ AcceptedWords(taken) = last + Present(last) - 1
<1>1. CASE taken = {}
  BY <1>1, EndIs DEF AcceptedWords, Readable
<1>2. CASE taken # {}
  <2>1. taken \in SUBSET (1..Len(words)) /\ Len(words) \in Nat
    BY RecordIs DEF Prefix, Readable
  <2>2. \E i \in taken : \A j \in taken : j =< i
    BY <1>2, <2>1, Greatest
  <2> DEFINE last == CHOOSE i \in taken : \A j \in taken : j =< i
  <2>3. last \in taken /\ \A i \in taken : i =< last
    BY <2>2
  <2>4. AcceptedWords(taken) = last + Present(last) - 1
    BY <1>2 DEF AcceptedWords
  <2> HIDE DEF last
  <2>5. last \in 1..Len(words) /\ last \in Records
    BY <2>1, <2>3 DEF Prefix
  <2>6. Present(last) \in 1..4 /\ last + Present(last) - 1 =< Len(words)
    BY <2>5, PresentIs
  <2>7. last + Present(last) - 1 =< EffectiveWords
    <3>1. CASE EndFound
      <4> DEFINE e == EndPosition
      <4>1. e \in Records /\ EndAt(e) /\ EffectiveWords = e + Present(e) - 1
        BY <3>1, EndIs
      <4> HIDE DEF e
      <4>2. e \in 1..Len(words) /\ Present(e) \in 1..4
        BY <4>1, RecordIs, PresentIs
      <4>3. last =< e
        BY <2>5, <4>1, EndIsLast
      <4>4. last < e => last + Present(last) =< e
        BY <2>5, <4>1, RecordsApart
      <4> QED BY <2>5, <2>6, <4>1, <4>2, <4>3, <4>4
    <3>2. CASE ~EndFound
      BY <2>6, <3>2, EndIs
    <3> QED BY <3>1, <3>2
  <2> QED BY <1>2, <2>3, <2>4, <2>5, <2>6, <2>7, EndIs
<1> QED BY <1>1, <1>2

\* Records that stay begin behind those words, records that leave end in them.
LEMMA TakenSplits ==
  ASSUME Readable, NEW taken, Prefix(taken)
  PROVE  /\ \A i \in taken : i + Present(i) - 1 =< AcceptedWords(taken)
         /\ \A i \in Records \ taken : AcceptedWords(taken) < i
<1>1. \A i \in Records : i \in 1..Len(words) /\ Present(i) \in 1..4
  BY RecordIs, PresentIs
<1>2. taken \subseteq Records
  BY DEF Prefix
<1>3. CASE taken = {}
  BY <1>1, <1>3, TakenEnds
<1>4. CASE taken # {}
  <2>1. PICK last \in taken : /\ \A i \in taken : i =< last
                              /\ AcceptedWords(taken) = last + Present(last) - 1
    BY <1>4, TakenEnds
  <2>2. ASSUME NEW i \in taken PROVE i + Present(i) - 1 =< AcceptedWords(taken)
    <3>1. i < last => i + Present(i) =< last
      BY <1>2, RecordsApart
    <3> QED BY <1>1, <1>2, <2>1, <3>1
  <2>3. ASSUME NEW i \in Records \ taken PROVE AcceptedWords(taken) < i
    <3>1. ~(i =< last)
      BY <2>3 DEF Prefix
    <3>2. last + Present(last) =< i
      BY <1>1, <1>2, <3>1, RecordsApart
    <3> QED BY <1>1, <1>2, <2>1, <3>2
  <2> QED BY <2>2, <2>3
<1> QED BY <1>3, <1>4

\* The records taken cover those words.
LEMMA TakenCovers ==
  ASSUME Readable, NEW taken, Prefix(taken), NEW k \in 1..AcceptedWords(taken)
  PROVE  \E i \in taken : k \in i..(i + Present(i) - 1)
<1>1. \A i \in Records : i \in 1..Len(words) /\ Present(i) \in 1..4
  BY RecordIs, PresentIs
<1>2. taken \subseteq Records
  BY DEF Prefix
<1>3. PICK last \in taken : AcceptedWords(taken) = last + Present(last) - 1
  BY TakenEnds
<1> DEFINE Reaching == {i \in taken : k =< i + Present(i) - 1}
<1>4. Reaching \in SUBSET Nat /\ Reaching # {}
  BY <1>1, <1>2, <1>3
<1>5. PICK i \in Reaching : \A j \in Reaching : i =< j
  BY <1>4, Least
<1>6. CASE i =< k
  BY <1>1, <1>2, <1>5, <1>6
<1>7. CASE k < i
  <2>1. PICK p \in Records : p < i /\ p + Present(p) = i
    BY <1>1, <1>2, <1>5, <1>7, HasPredecessor
  <2>2. p \in taken
    BY <1>1, <1>2, <1>5, <2>1 DEF Prefix
  <2> QED BY <1>1, <1>2, <1>5, <1>7, <2>1, <2>2
<1> QED BY <1>1, <1>2, <1>5, <1>6, <1>7

\* With an END everything effective leaves.
LEMMA TakenEnd ==
  ASSUME Readable, NEW taken, Prefix(taken), NEW i \in taken, EndAt(i)
  PROVE  AcceptedWords(taken) = EffectiveWords
<1>1. i \in Records /\ EndFound
  BY DEF Prefix, EndFound
<1> DEFINE e == EndPosition
<1>2. e \in Records /\ EndAt(e) /\ EffectiveWords = e + Present(e) - 1
  BY <1>1, EndIs
<1> HIDE DEF e
<1>3. i \in 1..Len(words) /\ e \in 1..Len(words) /\ Present(i) \in 1..4
  BY <1>1, <1>2, RecordIs, PresentIs
<1>4. i = e
  BY <1>1, <1>2, <1>3, EndIsLast
<1>5. i + Present(i) - 1 =< AcceptedWords(taken)
  BY TakenSplits
<1> QED BY <1>2, <1>3, <1>4, <1>5, TakenEnds, EndIs

----------------------------------------------------------------------------
(* What stays is framed as before.                                         *)

\* An END that a cycle does not take is found again in the next buffer, as
\* its last record: the scan of what is retained begins where the scan of
\* the whole buffer left off.
LEMMA EndStays ==
  ASSUME Readable, NEW taken, Prefix(taken), EndFound,
         words' = Retained(taken), words' # << >>, UNCHANGED image
  PROVE  /\ EndFound' /\ EffectiveWords' = Len(words')
         /\ EndPosition' = EndPosition - AcceptedWords(taken)
<1> PICK n, m, e : n = AcceptedWords(taken) /\ m = EffectiveWords /\ e = EndPosition
  OBVIOUS
<1>1. n \in 0..m /\ m \in 0..Len(words) /\ Len(words) \in Nat
  BY TakenEnds, EndIs DEF Readable
<1>2. e \in Records /\ EndAt(e) /\ m = e + Present(e) - 1
  BY EndIs
<1>3. /\ Len(words') = m - n /\ n < m
      /\ \A i \in 1..(m - n) : words'[i] = words[i + n]
  BY <1>1, SMTT(20) DEF Retained, Readable
<1>4. Readable'
  <2>1. words' = SubSeq(words, n + 1, m)
    BY DEF Retained
  <2>2. words' \in Seq(Nat) /\ DOMAIN words' = 1..(m - n)
    <3>1. n + 1 \in Int /\ m \in Int /\ \A i \in (n + 1)..m : words[i] \in Nat
      BY <1>1 DEF Readable
    <3>2. words' \in Seq(Nat)
      BY <2>1, <3>1, SubSeqProperties
    <3> QED BY <1>1, <1>3, <3>2
  <2>3. \A i \in 1..(m - n) : i + n \in DOMAIN words
    BY <1>1 DEF Readable
  <2> QED BY <1>3, <2>2, <2>3 DEF Readable
<1>5. \A i \in Records : i \in 1..Len(words) /\ Present(i) \in 1..4
  BY RecordIs, PresentIs
<1>6. e \notin taken
  <2>1. e \in taken => n = m
    BY <1>2, TakenEnd
  <2> QED BY <1>1, <1>3, <2>1
\* A record before the END, or the END itself, is whole in both buffers.
<1>7. ASSUME NEW i \in Records \ taken
      PROVE  /\ i - n \in 1..Len(words') /\ Whole(i - n)' /\ Present(i - n)' = Present(i)
             /\ EndAt(i - n)' = EndAt(i)
  <2>1. n < i /\ i =< e
    BY <1>2, <1>7, TakenSplits, EndIsLast
  <2>2. i < e => i + Present(i) =< e
    BY <1>2, RecordsApart
  <2>3. i + Present(i) - 1 =< m
    BY <1>2, <1>5, <2>1, <2>2
  <2>4. Whole(i)
    <3>1. CASE i = e
      BY <1>2, <3>1 DEF EndAt
    <3>2. CASE i < e
      BY <1>2, <1>5, <2>2, <3>2, PresentIs
    <3> QED BY <1>2, <1>5, <2>1, <3>1, <3>2
  <2>5. Present(i) = Need(i)
    BY <1>5, <2>4, PresentIs
  <2>6. i - n \in 1..(m - n) /\ i - n + n = i
    BY <1>1, <1>5, <2>1, <2>3
  <2>7. words'[i - n] = words[i]
    BY <1>3, <2>6
  <2>8. Need(i - n)' = Need(i) /\ Left(i - n)' = m - i + 1
    BY <1>1, <1>3, <1>5, <2>7 DEF Need, Left
  <2>9. Left(i - n)' >= Need(i - n)'
    BY <1>1, <1>5, <2>3, <2>5, <2>8
  <2>10. Whole(i - n)' /\ Present(i - n)' = Present(i)
    BY <2>5, <2>8, <2>9 DEF Whole, Present
  <2>11. EndAt(i - n)' = EndAt(i)
    BY <2>4, <2>7, <2>10 DEF EndAt
  <2> QED BY <1>3, <2>6, <2>10, <2>11
<1>8. \A i \in Records \ taken : IsStart'[i - n]
  <2> DEFINE Bad == {i \in Records \ taken : ~IsStart'[i - n]}
  <2> SUFFICES ASSUME Bad # {} PROVE FALSE
    OBVIOUS
  <2>1. Bad \in SUBSET Nat
    BY <1>5
  <2>2. PICK i \in Bad : \A j \in Bad : i =< j
    BY <2>1, Least
  <2>3. IsStart'[i - n] = Starts(IsStart, i - n)'
    <3>1. Scanned'
      <4>1. (Len(words) \in Nat)'
        BY <1>1, <1>3
      <4> QED BY <4>1, ScanUnfolds, PTL
    <3> QED BY <1>7, <2>2, <3>1 DEF Scanned
  <2>4. CASE i = n + 1
    <3>1. i - n = 1
      BY <1>1, <2>4
    <3>2. Starts(IsStart, i - n)'
      BY <3>1 DEF Starts
    <3> QED BY <2>2, <2>3, <3>2
  <2>5. CASE i # n + 1
    <3>1. n < i
      BY TakenSplits
    <3>2. i # 1
      BY <1>1, <2>5, <3>1
    <3>3. PICK p \in Records : p < i /\ p + Present(p) = i /\ ~EndAt(p)
      BY <3>2, HasPredecessor
    <3>4. p \notin taken
      <4>1. p \in taken => p + Present(p) - 1 =< n
        BY TakenSplits
      <4> QED BY <1>1, <1>5, <2>5, <3>1, <3>3, <4>1, SMTT(20)
    <3>5. IsStart'[p - n]
      BY <1>5, <2>2, <3>3, <3>4
    <3>6. /\ p - n \in 1..(i - n - 1) /\ p - n + Present(p - n)' = i - n
          /\ Whole(p - n)' /\ ~EndAt(p - n)'
      <4>1. /\ p - n \in 1..Len(words') /\ Whole(p - n)' /\ Present(p - n)' = Present(p)
            /\ EndAt(p - n)' = EndAt(p)
        BY <1>7, <3>3, <3>4
      <4>2. p - n \in 1..(i - n - 1) /\ p - n + Present(p) = i - n
        BY <1>1, <1>5, <3>3, <4>1, SMTT(20)
      <4> QED BY <3>3, <4>1, <4>2
    <3>7. Framed(p - n)'
      BY <3>6 DEF Framed
    <3>8. Starts(IsStart, i - n)'
      BY <3>5, <3>6, <3>7 DEF Starts
    <3> QED BY <2>2, <2>3, <3>8
  <2> QED BY <2>4, <2>5
<1>9. e - n \in Records' /\ EndAt(e - n)' /\ Present(e - n)' = Present(e)
  <2>1. e - n \in 1..Len(words') /\ Whole(e - n)' /\ IsStart'[e - n]
        /\ Present(e - n)' = Present(e) /\ EndAt(e - n)'
    BY <1>2, <1>6, <1>7, <1>8
  <2>2. Framed(e - n)'
    BY <2>1 DEF Framed
  <2> QED BY <2>1, <2>2 DEF Records
<1>10. EndFound'
  BY <1>9 DEF EndFound
<1>11. EffectiveWords' = Len(words') /\ EndPosition' = e - n
  <2>1. (EndFound => /\ EndPosition \in Records /\ EndAt(EndPosition)
                     /\ EffectiveWords = EndPosition + Present(EndPosition) - 1)'
    BY <1>4, EndPlace, PTL
  <2>2. (\A i, j \in Records : EndAt(i) /\ EndAt(j) => i = j)'
    BY <1>4, OneEnd, PTL
  <2>3. EndPosition' = e - n
    BY <1>9, <1>10, <2>1, <2>2
  <2>4. EffectiveWords' = e - n + Present(e - n)' - 1
    BY <1>10, <2>1, <2>3
  <2>5. e \in 1..Len(words) /\ Present(e) \in 1..4
    BY <1>2, <1>5
  <2>6. EffectiveWords' = Len(words')
    BY <1>1, <1>2, <1>3, <1>9, <2>4, <2>5, SMTT(20)
  <2> QED BY <2>3, <2>6
<1> QED BY <1>10, <1>11

----------------------------------------------------------------------------
(* Sequences                                                               *)

\* Two sequences one behind the other.
Joining(s, t, u) == u = s \o t

\* The members of both, each in its place.
Behind(s, t, u) ==
  /\ u \in Seq(Nat) /\ Len(u) = Len(s) + Len(t) /\ DOMAIN u = 1..(Len(s) + Len(t))
  /\ \A i \in 1..Len(s) : u[i] = s[i]
  /\ \A i \in 1..Len(t) : u[Len(s) + i] = t[i]

LEMMA Joined ==
  ASSUME NEW s \in Seq(Nat), NEW t \in Seq(Nat), NEW u, Joining(s, t, u)
  PROVE  Behind(s, t, u)
<1> PICK p \in Nat, k \in Nat : p = Len(s) /\ k = Len(t)
  OBVIOUS
<1>1. s \o t \in Seq(Nat) /\ Len(s \o t) = p + k
  BY ConcatProperties
<1>2. \A i \in 1..p : (s \o t)[i] = s[i]
  OBVIOUS
<1>3. ASSUME NEW i \in 1..k PROVE (s \o t)[p + i] = t[i]
  <2>1. p + i \in 1..(p + k) /\ ~(p + i =< p) /\ p + i - p = i
    OBVIOUS
  <2> QED BY <2>1, ConcatProperties
<1>4. DOMAIN (s \o t) = 1..(p + k)
  BY <1>1
<1> QED BY <1>1, <1>2, <1>3, <1>4 DEF Joining, Behind

\* A property of both parts is one of the whole.
LEMMA BothParts ==
  ASSUME NEW p \in Nat, NEW k \in Nat, NEW i \in 1..(p + k)
  PROVE  i \in 1..p \/ \E j \in 1..k : i = p + j
<1>1. CASE i =< p
  BY <1>1
<1>2. CASE p < i
  <2>1. i - p \in 1..k /\ i = p + (i - p)
    BY <1>2
  <2> QED BY <2>1
<1> QED BY <1>1, <1>2

\* What holds the members of two sequences holds those of both joined.
LEMMA JoinedIn ==
  ASSUME NEW s, NEW t, NEW u, NEW D, Behind(s, t, u), Len(s) \in Nat, Len(t) \in Nat,
         \A i \in 1..Len(s) : s[i] \in D, \A i \in 1..Len(t) : t[i] \in D
  PROVE  \A i \in DOMAIN u : u[i] \in D
<1> PICK p \in Nat, k \in Nat : p = Len(s) /\ k = Len(t)
  OBVIOUS
<1> SUFFICES ASSUME NEW i \in DOMAIN u PROVE u[i] \in D
  OBVIOUS
<1>1. /\ i \in 1..(p + k)
      /\ \A j \in 1..p : u[j] = s[j]
      /\ \A j \in 1..k : u[p + j] = t[j]
  BY DEF Behind
<1>2. i \in 1..p \/ \E j \in 1..k : i = p + j
  BY <1>1, BothParts
<1> QED BY <1>1, <1>2

----------------------------------------------------------------------------
(* The buffer                                                              *)

\* Only a valid stream is buffered, none is while a broken one is swallowed,
\* and behind a recorded END nothing is left.
BufferInv ==
  /\ FramerTypeOK /\ Readable
  /\ words # << >> => expectedValid
  /\ discarding => ~expectedValid
  /\ terminalStop /\ words # << >> => EndFound /\ EffectiveWords = Len(words)

\* What stays of the buffer in a cycle.
LEMMA RetainedIs ==
  ASSUME Readable, NEW taken, Prefix(taken)
  PROVE  /\ AcceptedWords(taken) \in Nat /\ EffectiveWords \in Nat
         /\ Retained(taken) \in Seq(Nat)
         /\ Len(Retained(taken)) = EffectiveWords - AcceptedWords(taken)
         /\ Len(Retained(taken)) =< Len(words)
         /\ \A i \in 1..Len(Retained(taken)) :
              /\ Retained(taken)[i] = words[i + AcceptedWords(taken)]
              /\ i + AcceptedWords(taken) \in DOMAIN words
<1> DEFINE n == AcceptedWords(taken)
           m == EffectiveWords
<1>1. n \in 0..m /\ m \in 0..Len(words) /\ Len(words) \in Nat
  BY TakenEnds, EndIs DEF Readable
<1>2. Retained(taken) = SubSeq(words, n + 1, m)
  BY DEF Retained
<1> HIDE DEF n, m
<1>3. n + 1 \in Int /\ m \in Int /\ \A i \in (n + 1)..m : words[i] \in Nat
  BY <1>1 DEF Readable
<1>4. /\ Retained(taken) \in Seq(Nat)
      /\ Len(Retained(taken)) = IF n + 1 <= m THEN m - (n + 1) + 1 ELSE 0
      /\ \A i \in 1..(m - (n + 1) + 1) : Retained(taken)[i] = words[(n + 1) + i - 1]
  BY <1>2, <1>3, SubSeqProperties
<1>5. Len(Retained(taken)) = m - n
  BY <1>1, <1>4
<1>6. ASSUME NEW i \in 1..(m - n)
      PROVE  Retained(taken)[i] = words[i + n] /\ i + n \in DOMAIN words
  <2>1. (n + 1) + i - 1 = i + n /\ i \in 1..(m - (n + 1) + 1)
    BY <1>1
  <2>2. i + n \in 1..Len(words)
    BY <1>1
  <2> QED BY <1>4, <2>1, <2>2 DEF Readable
<1> QED BY <1>1, <1>4, <1>5, <1>6 DEF n, m

\* The place of the END is an address.
LEMMA FoundPcIs ==
  ASSUME Readable, terminalPc \in Nat, basePc \in Nat
  PROVE  FoundPc \in Nat
<1>1. EndFound => EndPosition \in 1..Len(words)
  BY EndIs, RecordIs
<1> QED BY <1>1 DEF FoundPc, RecordPc

\* The stop and its place keep their types.
LEMMA TerminalType ==
  ASSUME FramerTypeOK, Readable, NEW restart, KeepTerminal(restart)
  PROVE  terminalStop' \in BOOLEAN /\ terminalPc' \in Nat
<1>1. FoundPc \in Nat /\ 0 \in Nat
  BY FoundPcIs DEF FramerTypeOK
<1>2. terminalPc' \in Nat
  BY <1>1, Zenon DEF KeepTerminal
<1>3. terminalStop' \in BOOLEAN
  BY Zenon DEF KeepTerminal, Bit
<1> QED BY <1>2, <1>3

\* The error flag is a flag.
LEMMA ErrorType ==
  ASSUME NEW bad, NEW clear, SetFramerError(bad, clear)
  PROVE  framerError' \in BOOLEAN
BY DEF SetFramerError, Bit

\* A cycle without a bundle leaves a buffer that can be read.
LEMMA ShiftKeeps ==
  ASSUME BufferInv, NEW taken \in Takes, NEW restart, NEW clear \in BOOLEAN,
         FramerShift(taken, restart, clear), UNCHANGED image
  PROVE  BufferInv'
<1> USE DEF BufferInv
<1>1. Prefix(taken)
  BY AcceptedIsPrefix
<1>2. words' = Retained(taken)
  BY DEF FramerShift
<1>3. Readable'
  <2>1. /\ words' \in Seq(Nat)
        /\ \A i \in 1..Len(words') :
             /\ words'[i] = words[i + AcceptedWords(taken)]
             /\ i + AcceptedWords(taken) \in DOMAIN words
    BY <1>1, <1>2, RetainedIs
  <2>2. DOMAIN words' = 1..Len(words')
    BY <2>1
  <2>3. \A i \in DOMAIN words' : words'[i] \in DOMAIN image'
    BY <2>1, <2>2, Zenon DEF Readable
  <2>4. image' \in Images
    BY DEF Readable
  <2> QED BY <2>1, <2>3, <2>4 DEF Readable
<1>4. FramerTypeOK'
  <2>1. words' \in Seq(Nat) /\ Len(words') =< BufferWords
    <3>1. Len(words) \in Nat /\ BufferWords \in Int
      BY StreamAssumption DEF Readable, BufferWords, MaxRecordWords
    <3>2. Len(words') \in Nat
      BY <1>3 DEF Readable
    <3> QED BY <1>1, <1>2, <3>1, <3>2, RetainedIs DEF FramerTypeOK
  <2>2. basePc' \in Nat
    BY <1>1, RetainedIs DEF FramerShift, FramerTypeOK
  <2>3. terminalStop' \in BOOLEAN /\ terminalPc' \in Nat /\ framerError' \in BOOLEAN
    BY TerminalType, ErrorType DEF FramerShift
  <2>4. expectedPc' \in Nat /\ discarding' \in BOOLEAN
    BY DEF FramerShift, FramerTypeOK
  <2>5. eofSeen' \in BOOLEAN /\ expectedValid' \in BOOLEAN /\ framesDone' \in BOOLEAN
    BY DEF FramerShift, Bit
  <2> QED BY <2>1, <2>2, <2>3, <2>4, <2>5 DEF FramerTypeOK
<1>5. words = << >> => words' = << >>
  <2>1. Len(words) \in Nat /\ Len(words') \in Nat /\ Len(words') =< Len(words)
    BY <1>1, <1>2, <1>3, RetainedIs DEF Readable
  <2> QED BY <1>3, <2>1 DEF Readable
<1>6. words' # << >> => expectedValid'
  BY <1>2, <1>5 DEF FramerShift, Bit, Halted
<1>7. discarding' => ~expectedValid'
  BY DEF FramerShift, Bit
<1>8. terminalStop' /\ words' # << >> => EndFound' /\ EffectiveWords' = Len(words')
  <2>1. terminalStop' => terminalStop \/ EndFound
    BY DEF FramerShift, KeepTerminal, Bit, StopFetch
  <2>2. EndFound /\ words' # << >> => EndFound' /\ EffectiveWords' = Len(words')
    BY <1>1, <1>2, EndStays
  <2> QED BY <1>5, <2>1, <2>2
<1> QED BY <1>3, <1>4, <1>6, <1>7, <1>8

\* A bundle that names the words of the image it carries.
Truthful(b) ==
  /\ b.data = b.base /\ b.base \in Nat /\ b.last \in BOOLEAN
  /\ b.count \in 0..(BundleWords + 1)
  /\ \A i \in DOMAIN Lanes(b) : Aligned(b.data) => Lanes(b)[i] \in DOMAIN image

\* Every bundle of the open environment does.
LEMMA InputsAreTruthful ==
  ASSUME NEW b \in BundleInputs
  PROVE  Truthful(b)
BY StreamAssumption DEF BundleInputs, Truthful

\* The words of a good bundle are words of the image.
LEMMA LanesAre ==
  ASSUME NEW b, Truthful(b), BundleOk(b)
  PROVE  /\ b.count \in 1..BundleWords /\ b.base \in Nat /\ b.data = b.base /\ b.last \in BOOLEAN
         /\ Lanes(b) \in Seq(Nat) /\ Len(Lanes(b)) = b.count
         /\ \A i \in 1..b.count : Lanes(b)[i] = b.base + 4 * (i - 1) /\ Lanes(b)[i] \in DOMAIN image
<1>1. /\ b.data = b.base /\ b.base \in Nat /\ b.last \in BOOLEAN
      /\ b.count \in 0..(BundleWords + 1)
      /\ \A i \in DOMAIN Lanes(b) : Aligned(b.data) => Lanes(b)[i] \in DOMAIN image
  BY DEF Truthful
<1>2. b.count \in 1..BundleWords /\ Aligned(b.base)
  BY <1>1, StreamAssumption DEF BundleOk, CountOk
<1>3. Lanes(b) = [i \in 1..b.count |-> b.data + 4 * (i - 1)]
  BY DEF Lanes
<1>4. Lanes(b) \in [1..b.count -> Nat]
  BY <1>1, <1>2, <1>3
<1>5. Lanes(b) \in Seq(Nat) /\ Len(Lanes(b)) = b.count
  BY <1>2, <1>4
<1> QED BY <1>1, <1>2, <1>3, <1>4, <1>5

\* A good bundle goes behind what stays, and there is room for it.
LEMMA AppendKeeps ==
  ASSUME BufferInv, NEW b, Truthful(b), NEW taken \in Takes, NEW clear \in BOOLEAN,
         FramerAppend(b, taken, clear), UNCHANGED image
  PROVE  BufferInv' /\ ~terminalStop'
<1> USE DEF BufferInv
<1>1. Prefix(taken)
  BY AcceptedIsPrefix
<1>2. ~discarding /\ BundleReady(b, taken) /\ BundleOk(b)
  BY DEF FramerAppend
<1>3. ~StopFetch /\ Len(Retained(taken)) + b.count =< BufferWords
  BY <1>2 DEF BundleReady, Capacity, BundleOk
<1> DEFINE kept == Retained(taken)
<1>4. /\ kept \in Seq(Nat) /\ Lanes(b) \in Seq(Nat) /\ words' = kept \o Lanes(b)
      /\ \A i \in 1..Len(kept) : kept[i] \in DOMAIN image
      /\ \A i \in 1..Len(Lanes(b)) : Lanes(b)[i] \in DOMAIN image
      /\ Len(Lanes(b)) = b.count
  BY <1>1, <1>2, RetainedIs, LanesAre DEF FramerAppend, Readable
<1> HIDE DEF kept
<1>5. /\ words' \in Seq(Nat) /\ Len(words') = Len(kept) + b.count
      /\ \A i \in DOMAIN words' : words'[i] \in DOMAIN image
  <2>1. Joining(kept, Lanes(b), words')
    BY <1>4 DEF Joining
  <2>2. Behind(kept, Lanes(b), words')
    BY <1>4, <2>1, Joined
  <2>3. words' \in Seq(Nat) /\ Len(words') = Len(kept) + b.count
    BY <1>4, <2>2 DEF Behind
  <2>4. Len(kept) \in Nat /\ Len(Lanes(b)) \in Nat
    BY <1>4
  <2>5. \A i \in DOMAIN words' : words'[i] \in DOMAIN image
    BY <1>4, <2>2, <2>4, JoinedIn, Zenon
  <2> QED BY <2>3, <2>5
<1>6. Readable'
  BY <1>5 DEF Readable
<1>7. ~terminalStop'
  BY <1>3 DEF FramerAppend, KeepTerminal, Bit, StopFetch
<1>8. FramerTypeOK'
  <2>1. terminalPc' \in Nat /\ framerError' \in BOOLEAN
    BY TerminalType, ErrorType DEF FramerAppend
  <2>2. basePc' \in Nat
    <3>1. basePc \in Nat /\ AcceptedWords(taken) \in Nat
      BY <1>1, RetainedIs DEF FramerTypeOK
    <3>2. b.base \in Nat
      BY <1>2, LanesAre
    <3>3. basePc + 4 * AcceptedWords(taken) \in Nat
      BY <3>1
    <3> QED BY <3>2, <3>3 DEF FramerAppend
  <2>3. expectedPc' \in Nat /\ eofSeen' \in BOOLEAN
    BY <1>2, LanesAre DEF FramerAppend
  <2>4. discarding' \in BOOLEAN /\ expectedValid' = TRUE /\ framesDone' = FALSE
    BY DEF FramerAppend, FramerTypeOK
  <2>5. terminalStop' \in BOOLEAN
    BY TerminalType DEF FramerAppend
  <2> QED BY <1>3, <1>5, <2>1, <2>2, <2>3, <2>4, <2>5 DEF FramerTypeOK, kept
<1> QED BY <1>2, <1>6, <1>7, <1>8 DEF FramerAppend

\* A cycle that drops the stream leaves an empty buffer.
LEMMA EmptyKeeps ==
  ASSUME BufferInv, NoStream, UNCHANGED image, terminalStop' \in BOOLEAN, terminalPc' \in Nat,
         discarding' \in BOOLEAN, framesDone' \in BOOLEAN, framerError' \in BOOLEAN
  PROVE  BufferInv'
<1>1. words' = << >> /\ words' \in Seq(Nat) /\ Len(words') = 0 /\ DOMAIN words' = {}
  BY DEF NoStream
<1>2. Readable'
  BY <1>1 DEF BufferInv, Readable
<1>3. 0 =< BufferWords /\ 0 \in Nat
  BY StreamAssumption DEF BufferWords, MaxRecordWords
<1>4. FramerTypeOK'
  BY <1>1, <1>3, Zenon DEF NoStream, FramerTypeOK
<1> QED BY <1>1, <1>2, <1>4 DEF BufferInv, NoStream

\* The buffer starts empty.
LEMMA BufferInit == FramerInit /\ image \in Images => BufferInv
<1> SUFFICES ASSUME FramerInit, image \in Images PROVE BufferInv
  OBVIOUS
<1>1. words = << >> /\ words \in Seq(Nat) /\ Len(words) = 0 /\ DOMAIN words = {}
  BY DEF FramerInit
<1>2. 0 =< BufferWords /\ 0 \in Nat
  BY StreamAssumption DEF BufferWords, MaxRecordWords
<1>3. FramerTypeOK
  BY <1>1, <1>2, Zenon DEF FramerInit, FramerTypeOK
<1>4. Readable
  BY <1>1, Zenon DEF Readable
<1> QED BY <1>1, <1>3, <1>4 DEF FramerInit, BufferInv

\* A cycle that leaves the buffer alone leaves its scan alone.
LEMMA BufferStays ==
  ASSUME BufferInv, UNCHANGED <<image, framerVars>>
  PROVE  BufferInv' /\ EndFound' = EndFound /\ FoundPc' = FoundPc
<1> USE DEF framerVars, bufferVars, haltVars
<1>1. IsStart' = IsStart
  BY DEF IsStart, Present, Framed, EndAt, Whole, Left, Need
<1>2. Records' = Records
  BY <1>1 DEF Records, Framed, Whole, Left, Need
<1>3. EndFound' = EndFound /\ EffectiveWords' = EffectiveWords
  BY <1>2 DEF EndFound, EffectiveWords, EndPosition, EndAt, Present, Whole, Left, Need
<1>4. FoundPc' = FoundPc
  BY <1>2, <1>3 DEF FoundPc, EndPosition, RecordPc, EndAt, Whole, Left, Need
<1> QED BY <1>3, <1>4 DEF BufferInv, FramerTypeOK, Readable

\* Every step keeps the buffer readable and within its size.
LEMMA BufferStep == BufferInv /\ [StreamNext]_streamVars => BufferInv'
<1> SUFFICES ASSUME BufferInv, [StreamNext]_streamVars PROVE BufferInv'
  OBVIOUS
<1>1. CASE Consume
  BY <1>1, ShiftKeeps DEF Consume
<1>2. CASE Receive
  BY <1>2, AppendKeeps, InputsAreTruthful DEF Receive
<1>3. CASE Break
  <2>1. PICK b \in BundleInputs, taken \in Takes, clear \in BOOLEAN :
          FramerReject(b, taken, clear) /\ UNCHANGED image
    BY <1>3 DEF Break
  <2>2. terminalStop' \in BOOLEAN /\ terminalPc' \in Nat /\ framerError' \in BOOLEAN
    BY <2>1, TerminalType, ErrorType DEF FramerReject, BufferInv
  <2>3. discarding' \in BOOLEAN /\ framesDone' \in BOOLEAN /\ NoStream
    BY <2>1 DEF FramerReject, Bit
  <2> QED BY <2>1, <2>2, <2>3, EmptyKeeps
<1>4. CASE Swallow
  <2>1. PICK b \in BundleInputs, clear \in BOOLEAN : FramerSwallow(b, clear) /\ UNCHANGED image
    BY <1>4 DEF Swallow
  <2>2. terminalStop' \in BOOLEAN /\ terminalPc' \in Nat /\ framerError' \in BOOLEAN
    BY <2>1, TerminalType, ErrorType DEF FramerSwallow, BufferInv
  <2>3. discarding' \in BOOLEAN /\ framesDone' \in BOOLEAN /\ UNCHANGED bufferVars
    BY <2>1 DEF FramerSwallow, Bit
  <2>4. words = << >> /\ ~expectedValid
    BY <2>1 DEF FramerSwallow, BufferInv
  <2>5. Readable'
    BY <2>1, <2>3 DEF BufferInv, Readable, bufferVars
  <2>6. FramerTypeOK'
    BY <2>2, <2>3 DEF BufferInv, FramerTypeOK, bufferVars
  <2> QED BY <2>3, <2>4, <2>5, <2>6 DEF BufferInv, bufferVars
<1>5. CASE Abort
  <2>1. PICK clear \in BOOLEAN : FramerAbort(clear) /\ UNCHANGED image
    BY <1>5 DEF Abort
  <2>2. terminalStop' \in BOOLEAN /\ framerError' \in BOOLEAN
    BY <2>1, ErrorType DEF FramerAbort, StopAfterAbort, Bit
  <2>3. terminalPc' \in Nat
    BY <2>1, FoundPcIs DEF FramerAbort, BufferInv, FramerTypeOK
  <2> QED BY <2>1, <2>2, <2>3, EmptyKeeps DEF FramerAbort
<1>6. CASE Flush
  <2>1. framerError' \in BOOLEAN
    BY <1>6 DEF Flush, FramerFlush, BufferInv, FramerTypeOK
  <2> QED BY <1>6, <2>1, EmptyKeeps DEF Flush, FramerFlush
<1>7. CASE UNCHANGED streamVars
  BY <1>7, BufferStays DEF streamVars
<1> QED BY <1>1, <1>2, <1>3, <1>4, <1>5, <1>6, <1>7 DEF StreamNext

----------------------------------------------------------------------------
(* The records delivered                                                   *)

\* They are intervals of the stream, apart from each other, that together
\* cover it up to Consumed.
Tiled ==
  /\ Consumed \in Nat
  /\ \A r \in delivered : /\ r.at \in Nat \ {0} /\ r.size \in Nat \ {0}
                          /\ r.at + r.size - 1 =< Consumed
  /\ \A r, s \in delivered : r = s \/ r.at + r.size =< s.at \/ s.at + s.size =< r.at
  /\ \A k \in 1..Consumed : \E r \in delivered : k \in r.at..(r.at + r.size - 1)

\* Nothing delivered covers nothing.
LEMMA NoneDelivered ==
  ASSUME delivered' = {}
  PROVE  Tiled' /\ Consumed' = 0
BY DEF Tiled, Consumed

\* Taking records moves Consumed on by their words, and what is delivered
\* still tiles the stream.
LEMMA Delivers ==
  ASSUME Readable, Tiled, NEW taken, Prefix(taken), DeliverRecords(taken)
  PROVE  Tiled' /\ Consumed' = Consumed + AcceptedWords(taken)
<1> PICK c, n : c = Consumed /\ n = AcceptedWords(taken)
  OBVIOUS
<1> DEFINE Rec(i) == [at |-> c + i, size |-> Present(i)]
<1>1. delivered' = delivered \cup {Rec(i) : i \in taken}
  BY DEF DeliverRecords
<1>2. c \in Nat /\ n \in Nat /\ n =< Len(words) /\ Len(words) \in Nat
  BY TakenEnds, EndIs DEF Tiled, Readable
<1>3. \A i \in taken : i \in Records /\ i \in 1..Len(words) /\ Present(i) \in 1..4
  BY RecordIs, PresentIs DEF Prefix
<1>4. \A i \in taken : i + Present(i) - 1 =< n
  BY TakenSplits
<1>5. \A r \in delivered : /\ r.at \in Nat \ {0} /\ r.size \in Nat \ {0}
                           /\ r.at + r.size - 1 =< c
  BY DEF Tiled
<1>6. Consumed' = c + n
  <2>1. CASE taken = {}
    <3>1. delivered' = delivered /\ n = 0
      BY <1>1, <2>1, TakenEnds
    <3> QED BY <1>2, <3>1 DEF Consumed
  <2>2. CASE taken # {}
    <3>1. PICK last \in taken : (\A i \in taken : i =< last) /\ n = last + Present(last) - 1
      BY <2>2, TakenEnds
    <3> DEFINE Latest(x) == \A y \in delivered' : y.at =< x.at
    <3>2. Rec(last) \in delivered' /\ Latest(Rec(last))
      <4>1. \A y \in delivered : y.at =< c + last
        BY <1>2, <1>3, <1>5, <3>1
      <4>2. \A i \in taken : c + i =< c + last
        BY <1>2, <1>3, <3>1
      <4> QED BY <1>1, <3>1, <4>1, <4>2
    <3>3. ASSUME NEW x \in delivered', Latest(x) PROVE x = Rec(last)
      <4>1. c + last =< x.at
        BY <3>2, <3>3
      <4>2. x \notin delivered
        BY <1>2, <1>3, <1>5, <3>1, <4>1
      <4>3. PICK i \in taken : x = Rec(i)
        BY <1>1, <4>2
      <4>4. i = last
        BY <1>2, <1>3, <3>1, <4>1, <4>3
      <4> QED BY <4>3, <4>4
    <3>4. (CHOOSE x \in delivered' : Latest(x)) = Rec(last)
      <4> HIDE DEF Rec, Latest
      <4> QED BY <3>2, <3>3
    <3>5. delivered' # {}
      BY <3>2
    <3>6. Consumed' = Rec(last).at + Rec(last).size - 1
      <4> HIDE DEF Rec
      <4> QED BY <3>4, <3>5 DEF Consumed
    <3> QED BY <1>2, <1>3, <3>1, <3>6, SMTT(20)
  <2> QED BY <2>1, <2>2
<1>7. \A i \in taken : Rec(i).at = c + i /\ Rec(i).size = Present(i)
  OBVIOUS
<1>8. ASSUME NEW r \in delivered'
      PROVE  /\ r.at \in Nat \ {0} /\ r.size \in Nat \ {0}
             /\ r.at + r.size - 1 =< c + n
             /\ r \notin delivered => c < r.at
  <2>1. CASE r \in delivered
    BY <1>2, <1>5, <2>1
  <2>2. CASE r \notin delivered
    <3>1. PICK i \in taken : r = Rec(i)
      BY <1>1, <2>2
    <3>2. r.at = c + i /\ r.size = Present(i)
      BY <3>1
    <3> QED BY <1>2, <1>3, <1>4, <3>2
  <2> QED BY <2>1, <2>2
<1>9. ASSUME NEW r \in delivered', NEW s \in delivered'
      PROVE  r = s \/ r.at + r.size =< s.at \/ s.at + s.size =< r.at
  <2>1. CASE r \in delivered /\ s \in delivered
    BY <2>1 DEF Tiled
  <2>2. CASE r \in delivered /\ s \notin delivered
    BY <1>2, <1>5, <1>8, <2>2
  <2>3. CASE r \notin delivered /\ s \in delivered
    BY <1>2, <1>5, <1>8, <2>3
  <2>4. CASE r \notin delivered /\ s \notin delivered
    <3>1. PICK i \in taken, j \in taken : r = Rec(i) /\ s = Rec(j)
      BY <1>1, <2>4
    <3>2. i = j \/ i + Present(i) =< j \/ j + Present(j) =< i
      BY <1>3, RecordsApart
    <3>3. r.at = c + i /\ r.size = Present(i) /\ s.at = c + j /\ s.size = Present(j)
      BY <3>1
    <3> QED BY <1>2, <1>3, <3>1, <3>2, <3>3, SMTT(20)
  <2> QED BY <2>1, <2>2, <2>3, <2>4
<1>10. ASSUME NEW k \in 1..(c + n)
       PROVE  \E r \in delivered' : k \in r.at..(r.at + r.size - 1)
  <2>1. CASE k =< c
    <3>1. \E r \in delivered : k \in r.at..(r.at + r.size - 1)
      BY <1>2, <2>1 DEF Tiled
    <3> QED BY <1>1, <3>1
  <2>2. CASE c < k
    <3>1. k - c \in 1..n
      BY <1>2, <2>2
    <3>2. PICK i \in taken : k - c \in i..(i + Present(i) - 1)
      BY <3>1, TakenCovers
    <3>3. Rec(i) \in delivered' /\ Rec(i).at = c + i /\ Rec(i).size = Present(i)
      BY <1>1
    <3>4. k \in (c + i)..(c + i + Present(i) - 1)
      BY <1>2, <1>3, <3>2
    <3> HIDE DEF Rec
    <3> QED BY <3>3, <3>4
  <2> QED BY <1>2, <2>1, <2>2
<1> QED BY <1>2, <1>6, <1>8, <1>9, <1>10 DEF Tiled

----------------------------------------------------------------------------
(* The stream                                                              *)

\* The buffer is the part of the stream behind Consumed; unless an END cut
\* it, it is all of that part, so that the next bundle continues it.
StreamInv ==
  /\ stream \in Seq(Nat)
  /\ Consumed + Len(words) =< Len(stream)
  /\ \A i \in DOMAIN words : words[i] = stream[Consumed + i] /\ words[i] = RecordPc(i)
  /\ expectedValid /\ ~terminalStop => Consumed + Len(words) = Len(stream)
  /\ expectedValid /\ stream # << >> => expectedPc = stream[Len(stream)] + 4

\* A stream that is dropped leaves an empty one.
LEMMA ForgottenStream ==
  ASSUME stream' = << >>, Consumed' = 0, words' = << >>
  PROVE  StreamInv'
<1>1. stream' \in Seq(Nat) /\ Len(stream') = 0 /\ Len(words') = 0 /\ DOMAIN words' = {}
  OBVIOUS
<1> QED BY <1>1 DEF StreamInv

\* Taking records moves the front of the buffer along the stream.
LEMMA ShiftStream ==
  ASSUME BufferInv, Tiled, StreamInv, NEW taken \in Takes, NEW restart \in BOOLEAN,
         NEW clear \in BOOLEAN, FramerShift(taken, restart, clear), DeliverRecords(taken),
         UNCHANGED <<image, stream>>, BufferInv'
  PROVE  StreamInv'
<1>1. Prefix(taken)
  BY AcceptedIsPrefix DEF BufferInv
<1> PICK c, n, m : c = Consumed /\ n = AcceptedWords(taken) /\ m = EffectiveWords
  OBVIOUS
<1>2. Consumed' = c + n /\ c \in Nat
  BY <1>1, Delivers DEF BufferInv, Tiled
<1>3. /\ n \in 0..m /\ m \in 0..Len(words) /\ Len(words) \in Nat
      /\ Len(words') = m - n
      /\ \A i \in DOMAIN words' : words'[i] = words[i + n] /\ i + n \in DOMAIN words /\ i \in Nat
  <2>1. words' = Retained(taken)
    BY DEF FramerShift
  <2>2. n \in 0..m /\ m \in 0..Len(words) /\ Len(words) \in Nat
    BY <1>1, TakenEnds, EndIs DEF BufferInv, Readable
  <2> QED BY <1>1, <2>1, <2>2, RetainedIs DEF BufferInv
<1>4. c + Len(words) =< Len(stream) /\ Len(stream) \in Nat /\ stream' = stream
  BY DEF StreamInv
<1>5. Consumed' + Len(words') =< Len(stream')
  BY <1>2, <1>3, <1>4
<1>6. ASSUME NEW i \in DOMAIN words'
      PROVE  words'[i] = stream'[Consumed' + i] /\ words'[i] = RecordPc(i)'
  <2>1. words[i + n] = stream[c + (i + n)] /\ words[i + n] = basePc + 4 * (i + n - 1)
    BY <1>3, SMTT(20) DEF StreamInv, RecordPc
  <2>2. basePc' = basePc + 4 * n /\ basePc \in Nat
    BY DEF FramerShift, BufferInv, FramerTypeOK
  <2>3. c + (i + n) = (c + n) + i /\ basePc + 4 * (i + n - 1) = basePc' + 4 * (i - 1)
    BY <1>2, <1>3, <2>2, SMTT(20)
  <2> QED BY <1>2, <1>3, <1>4, <2>1, <2>3 DEF RecordPc
<1>7. expectedValid' /\ ~terminalStop' => Consumed' + Len(words') = Len(stream')
  <2> SUFFICES ASSUME expectedValid', ~terminalStop' PROVE Consumed' + Len(words') = Len(stream')
    OBVIOUS
  <2>1. expectedValid /\ ~(restart /\ Halted)
    BY DEF FramerShift, Bit
  <2>2. ~StopFetch
    BY <2>1 DEF FramerShift, KeepTerminal, Bit
  <2>3. ~terminalStop /\ m = Len(words)
    BY <2>2, EndIs DEF StopFetch, BufferInv
  <2>4. c + Len(words) = Len(stream)
    BY <2>1, <2>3 DEF StreamInv
  <2>5. n \in Nat /\ m \in Nat /\ Len(words') = m - n
    BY <1>3
  <2>6. Consumed' + Len(words') = c + m
    BY <1>2, <2>5
  <2> QED BY <1>4, <2>3, <2>4, <2>6
<1>8. expectedValid' /\ stream' # << >> => expectedPc' = stream'[Len(stream')] + 4
  BY <1>4 DEF FramerShift, StreamInv, Bit
<1> QED BY <1>4, <1>5, <1>6, <1>7, <1>8 DEF StreamInv

\* A bundle continues the stream, or begins it.
Continues(b, taken) ==
  IF expectedValid THEN DeliverRecords(taken) /\ stream' = stream \o Lanes(b)
                   ELSE delivered' = {} /\ stream' = Lanes(b)

\* A bundle goes behind the stream as it goes behind the buffer: its check
\* against expectedPc is what keeps every word at its own address.
LEMMA AppendStream ==
  ASSUME BufferInv, Tiled, StreamInv, NEW b \in BundleInputs, NEW taken \in Takes,
         NEW clear \in BOOLEAN, FramerAppend(b, taken, clear), UNCHANGED image, BufferInv',
         Continues(b, taken)
  PROVE  StreamInv'
<1>1. Prefix(taken)
  BY AcceptedIsPrefix DEF BufferInv
<1>2. BundleOk(b) /\ ~StopFetch
  BY DEF FramerAppend, BundleReady
<1>3. /\ Lanes(b) \in Seq(Nat) /\ Len(Lanes(b)) = b.count /\ b.count \in Nat /\ 1 =< b.count
      /\ b.base \in Nat /\ \A i \in 1..b.count : Lanes(b)[i] = b.base + 4 * (i - 1)
  BY <1>2, StreamAssumption, LanesAre, InputsAreTruthful
<1>4. /\ AcceptedWords(taken) \in 0..Len(words) /\ Len(words) \in Nat
      /\ EffectiveWords = Len(words) /\ Consumed \in Nat
  <2>1. EffectiveWords = Len(words) /\ Len(words) \in Nat
    BY <1>2, EndIs DEF BufferInv, StopFetch, Readable
  <2> QED BY <1>1, <2>1, TakenEnds DEF BufferInv, Tiled
<1>n. PICK c \in Nat, n \in Nat, k \in Nat, p \in Nat, old \in Seq(Nat), lanes \in Seq(Nat) :
      /\ c = Consumed /\ n = AcceptedWords(taken) /\ k = b.count /\ Len(words) = n + p
      /\ old = Retained(taken) /\ lanes = Lanes(b)
  <2>1. Retained(taken) \in Seq(Nat)
    BY <1>1, RetainedIs DEF BufferInv
  <2>2. Len(words) - AcceptedWords(taken) \in Nat
        /\ Len(words) = AcceptedWords(taken) + (Len(words) - AcceptedWords(taken))
        /\ AcceptedWords(taken) \in Nat
    BY <1>4
  <2> QED BY <1>3, <1>4, <2>1, <2>2
<1>l. Len(lanes) = k /\ 1 =< k /\ b.base \in Nat /\ \A i \in 1..k : lanes[i] = b.base + 4 * (i - 1)
  BY <1>3, <1>n
<1>o. /\ Len(words) = n + p /\ Len(old) = p
      /\ \A i \in 1..p : old[i] = words[i + n] /\ i + n \in DOMAIN words
  <2>1. Len(Retained(taken)) = p
    BY <1>1, <1>4, <1>n, RetainedIs DEF BufferInv
  <2> QED BY <1>1, <1>n, <2>1, RetainedIs DEF BufferInv
<1>5. words' = old \o lanes
  BY <1>n DEF FramerAppend
<1>6. /\ words' \in Seq(Nat) /\ Len(words') = p + k /\ DOMAIN words' = 1..(p + k)
      /\ \A i \in 1..p : words'[i] = old[i]
      /\ \A i \in 1..k : words'[p + i] = lanes[i]
  <2>1. Len(old) = p /\ Len(lanes) = k
    BY <1>l, <1>o
  <2>2. Joining(old, lanes, words')
    BY <1>5 DEF Joining
  <2>3. Behind(old, lanes, words')
    BY <1>n, <2>2, Joined
  <2> QED BY <2>1, <2>3 DEF Behind
\* Where the stream goes on, it goes on behind what was buffered.
<1>7. PICK d \in Nat :
      /\ d = Consumed'
      /\ stream' \in Seq(Nat) /\ Len(stream') = d + p + k
      /\ \A i \in 1..k : stream'[d + p + i] = lanes[i]
      /\ \A i \in 1..p : words'[i] = stream'[d + i]
  <2>1. CASE expectedValid
    <3>1. stream' = stream \o lanes /\ stream \in Seq(Nat) /\ Consumed' = c + n
      BY <1>1, <1>n, <2>1, Delivers DEF BufferInv, StreamInv, Tiled, Continues
    <3>2. PICK d \in Nat : d = c + n
      OBVIOUS
    <3>3. Len(stream) = d + p
      <4>1. c + Len(words) = Len(stream)
        BY <1>2, <1>n, <2>1 DEF StreamInv, StopFetch
      <4> QED BY <1>o, <3>2, <4>1
    <3>4. /\ stream' \in Seq(Nat) /\ Len(stream') = d + p + k
          /\ \A i \in 1..(d + p) : stream'[i] = stream[i]
          /\ \A i \in 1..k : stream'[d + p + i] = lanes[i]
      <4>1. PICK q \in Nat : q = d + p
        OBVIOUS
      <4>2. Joining(stream, lanes, stream')
        BY <3>1 DEF Joining
      <4>3. Len(stream) = q /\ Len(lanes) = k
        BY <1>l, <3>3, <4>1
      <4>4. /\ stream' \in Seq(Nat) /\ Len(stream') = q + k
            /\ \A i \in 1..q : stream'[i] = stream[i]
            /\ \A i \in 1..k : stream'[q + i] = lanes[i]
        <5>1. stream \in Seq(Nat)
          BY <3>1
        <5>2. Behind(stream, lanes, stream')
          BY <1>n, <4>2, <5>1, Joined
        <5> QED BY <4>3, <5>2 DEF Behind
      <4> QED BY <4>1, <4>4
    <3>5. ASSUME NEW i \in 1..p PROVE words'[i] = stream'[d + i]
      <4>1. words'[i] = words[i + n] /\ i + n \in DOMAIN words
        BY <1>6, <1>o
      <4>2. words[i + n] = stream[c + (i + n)]
        BY <1>n, <4>1 DEF StreamInv
      <4>3. d + i \in 1..(d + p) /\ c + (i + n) = d + i
        BY <3>2
      <4> QED BY <3>4, <4>1, <4>2, <4>3
    <3> QED BY <3>1, <3>2, <3>4, <3>5
  <2>2. CASE ~expectedValid
    <3>1. stream' = lanes /\ Consumed' = 0
      BY <1>n, <2>2, NoneDelivered DEF Continues
    <3>2. p = 0
      <4>1. words = << >>
        BY <2>2 DEF BufferInv
      <4>2. n + p = 0
        BY <1>n, <4>1
      <4> QED BY <4>2
    <3>3. 0 + p + k = k /\ 1..p = {} /\ \A i \in 1..k : 0 + p + i = i
      BY <3>2
    <3> QED BY <1>l, <3>1, <3>3, Zenon
  <2> QED BY <2>1, <2>2
<1>9. ASSUME NEW i \in 1..(p + k) PROVE words'[i] = stream'[d + i]
  <2>1. CASE i \in 1..p
    BY <1>7, <2>1
  <2>2. ASSUME NEW j \in 1..k, i = p + j PROVE words'[i] = stream'[d + i]
    <3>1. d + p + j = d + i
      BY <2>2
    <3> QED BY <1>6, <1>7, <2>2, <3>1
  <2> QED BY <2>1, <2>2, BothParts
<1>10. stream'[Len(stream')] = b.base + 4 * (k - 1)
  <2>1. k \in 1..k
    BY <1>l
  <2>2. stream'[d + p + k] = lanes[k] /\ lanes[k] = b.base + 4 * (k - 1)
    BY <1>l, <1>7, <2>1
  <2> QED BY <1>7, <2>2
<1>11. expectedPc' = stream'[Len(stream')] + 4
  <2>1. expectedPc' = b.base + 4 * k
    BY <1>n DEF FramerAppend
  <2> QED BY <1>l, <1>10, <2>1
\* The place of the first word carries over to the words of the bundle.
<1>12. basePc' \in Nat /\ b.base = basePc' + 4 * p /\ \A i \in 1..p : words'[i] = basePc' + 4 * (i - 1)
  <2>1. CASE p = 0
    <3>1. old = << >>
      BY <1>o, <2>1
    <3>2. basePc' = b.base
      BY <1>n, <3>1 DEF FramerAppend
    <3> QED BY <1>l, <2>1, <3>2
  <2>2. CASE p # 0
    <3>1. old # << >>
      BY <1>o, <2>2
    <3>2. basePc' = basePc + 4 * n /\ basePc \in Nat
      BY <1>n, <3>1 DEF FramerAppend, BufferInv, FramerTypeOK
    <3>3. p \in 1..p /\ p + n \in DOMAIN words
      BY <1>o, <2>2
    <3>4. expectedValid
      <4>1. words # << >>
        BY <3>3
      <4> QED BY <4>1 DEF BufferInv
    <3>5. \A i \in DOMAIN words : words[i] = basePc + 4 * (i - 1) /\ words[i] = stream[c + i]
      BY <1>n DEF StreamInv, RecordPc
    <3>6. c + Len(words) = Len(stream) /\ stream \in Seq(Nat)
      BY <1>2, <1>n, <3>4 DEF StreamInv, StopFetch
    <3>7. stream # << >> /\ stream[Len(stream)] = stream[c + (p + n)]
      <4>1. Len(stream) = c + (p + n) /\ Len(stream) # 0
        BY <1>o, <2>2, <3>6
      <4> QED BY <3>6, <4>1
    <3>8. b.base = expectedPc /\ expectedPc = stream[Len(stream)] + 4
      BY <1>2, <3>4, <3>7 DEF StreamInv, BundleOk
    <3>9. stream[c + (p + n)] = basePc + 4 * (p + n - 1)
      BY <3>3, <3>5
    <3>10. ASSUME NEW i \in 1..p PROVE words'[i] = basePc' + 4 * (i - 1)
      <4>1. words'[i] = words[i + n] /\ i + n \in DOMAIN words
        BY <1>6, <1>o
      <4>2. basePc + 4 * (i + n - 1) = basePc' + 4 * (i - 1)
        BY <3>2
      <4>3. words[i + n] = basePc + 4 * ((i + n) - 1)
        BY <3>5, <4>1
      <4> QED BY <4>1, <4>2, <4>3
    <3>11. b.base = basePc' + 4 * p
      <4>1. b.base = basePc + 4 * (p + n - 1) + 4
        BY <3>7, <3>8, <3>9
      <4> QED BY <3>2, <4>1
    <3>12. basePc' \in Nat
      BY <3>2
    <3> QED BY <3>10, <3>11, <3>12
  <2> QED BY <2>1, <2>2
<1>13. ASSUME NEW i \in 1..(p + k) PROVE words'[i] = basePc' + 4 * (i - 1)
  <2>1. CASE i \in 1..p
    BY <1>12, <2>1
  <2>2. ASSUME NEW j \in 1..k, i = p + j PROVE words'[i] = basePc' + 4 * (i - 1)
    <3>1. words'[i] = b.base + 4 * (j - 1)
      BY <1>l, <1>6, <2>2
    <3> QED BY <1>12, <2>2, <3>1
  <2> QED BY <2>1, <2>2, BothParts
<1>14. \A i \in DOMAIN words' : words'[i] = stream'[Consumed' + i] /\ words'[i] = RecordPc(i)'
  BY <1>6, <1>7, <1>9, <1>13 DEF RecordPc
<1>15. Consumed' + Len(words') = Len(stream') /\ Len(stream') \in Nat
  BY <1>6, <1>7
<1> QED BY <1>7, <1>11, <1>14, <1>15 DEF StreamInv

----------------------------------------------------------------------------
(* What was delivered is what the headers say                              *)

\* The header of a delivered record, and the place of its last word.
HeaderOf(r) == image[stream[r.at]]
LastOf(r)   == r.at + r.size - 1

\* Each record has the length of its header, except one the transport ends
\* in; an END is the last one, and stops the fetch while its stream lasts.
RecordsInv ==
  \A r \in delivered :
    /\ \/ r.size = HeaderOf(r).need
       \/ r.size < HeaderOf(r).need /\ LastOf(r) = Len(stream) /\ (eofSeen \/ ~expectedValid)
    /\ HeaderOf(r).kind = "END" /\ r.size = HeaderOf(r).need =>
         LastOf(r) = Consumed /\ words = << >> /\ (terminalStop \/ ~expectedValid)

\* A record that is taken is as long as its header says, unless the
\* transport ends in it; with an END everything effective leaves.
LEMMA TakenRecord ==
  ASSUME BufferInv, Tiled, StreamInv, NEW taken, Prefix(taken), NEW i \in taken,
         NEW r, r.at = Consumed + i, r.size = Present(i)
  PROVE  /\ i \in 1..Len(words) /\ r.at \in 1..Len(stream) /\ stream[r.at] = words[i]
         /\ \/ r.size = HeaderOf(r).need
            \/ r.size < HeaderOf(r).need /\ LastOf(r) = Len(stream) /\ eofSeen
         /\ HeaderOf(r).kind = "END" /\ r.size = HeaderOf(r).need =>
              /\ EndFound /\ i + r.size - 1 = AcceptedWords(taken)
              /\ AcceptedWords(taken) = EffectiveWords
<1>1. Readable
  BY DEF BufferInv
<1>2. i \in Records
  BY DEF Prefix
<1>3. i \in 1..Len(words) /\ Framed(i) /\ Len(words) \in Nat /\ Consumed \in Nat /\ Len(stream) \in Nat
  BY <1>1, <1>2, RecordIs DEF Readable, Tiled, StreamInv
<1>4. r.at \in 1..Len(stream) /\ stream[r.at] = words[i]
  <2>1. words[i] = stream[Consumed + i] /\ Consumed + Len(words) =< Len(stream)
    BY <1>1, <1>3 DEF StreamInv, Readable
  <2> QED BY <1>3, <2>1
<1>5. HeaderOf(r).need = Need(i) /\ HeaderOf(r) = image[words[i]]
  BY <1>4 DEF HeaderOf, Need
<1>6. /\ Need(i) \in 1..4 /\ Present(i) \in 1..4
      /\ Whole(i) => Present(i) = Need(i)
      /\ ~Whole(i) => Present(i) < Need(i) /\ i + Present(i) - 1 = Len(words)
  BY <1>1, <1>3, PresentIs
<1>7. ~Whole(i) => LastOf(r) = Len(stream) /\ eofSeen
  <2> SUFFICES ASSUME ~Whole(i) PROVE LastOf(r) = Len(stream) /\ eofSeen
    OBVIOUS
  <2>1. eofSeen
    BY <1>3 DEF Framed
  <2>2. words # << >> /\ expectedValid
    <3>1. words # << >>
      BY <1>3
    <3> QED BY <3>1 DEF BufferInv
  <2>3. ~terminalStop
    <3> SUFFICES ASSUME terminalStop PROVE FALSE
      OBVIOUS
    <3> DEFINE e == EndPosition
    <3>1. e \in Records /\ EndAt(e) /\ Len(words) = e + Present(e) - 1
      BY <1>1, <2>2, EndIs DEF BufferInv
    <3> HIDE DEF e
    <3>2. e \in 1..Len(words)
      BY <1>1, <3>1, RecordIs
    <3>3. i =< e
      BY <1>1, <1>2, <3>1, EndIsLast
    <3>4. i < e => i + Present(i) =< e
      BY <1>1, <1>2, <3>1, RecordsApart
    <3>5. i # e
      BY <3>1 DEF EndAt
    <3> QED BY <1>3, <1>6, <3>2, <3>3, <3>4, <3>5
  <2>4. Consumed + Len(words) = Len(stream)
    BY <2>2, <2>3 DEF StreamInv
  <2>5. LastOf(r) = Consumed + (i + Present(i) - 1)
    BY <1>3, <1>6 DEF LastOf
  <2> QED BY <1>6, <2>1, <2>4, <2>5
<1>8. ASSUME HeaderOf(r).kind = "END", r.size = HeaderOf(r).need
      PROVE  /\ EndFound /\ i + r.size - 1 = AcceptedWords(taken)
             /\ AcceptedWords(taken) = EffectiveWords
  <2>1. Whole(i)
    BY <1>5, <1>6, <1>8
  <2>2. EndAt(i)
    BY <1>5, <1>8, <2>1 DEF EndAt
  <2>3. EndFound /\ AcceptedWords(taken) = EffectiveWords
    BY <1>1, <1>2, <2>2, TakenEnd DEF EndFound
  <2>4. EndPosition = i /\ EffectiveWords = EndPosition + Present(EndPosition) - 1
    BY <1>1, <1>2, <2>2, <2>3, EndIs, OneEnd
  <2> QED BY <2>3, <2>4
<1> QED BY <1>3, <1>4, <1>5, <1>6, <1>7, <1>8

\* A cycle without a bundle delivers such records.
LEMMA ShiftRecords ==
  ASSUME BufferInv, Tiled, StreamInv, RecordsInv, NEW taken \in Takes,
         NEW restart \in BOOLEAN, NEW clear \in BOOLEAN,
         FramerShift(taken, restart, clear), DeliverRecords(taken),
         UNCHANGED <<image, stream>>
  PROVE  RecordsInv'
<1>1. Prefix(taken) /\ Readable
  BY AcceptedIsPrefix DEF BufferInv
<1>2. Consumed' = Consumed + AcceptedWords(taken) /\ Consumed \in Nat
  BY <1>1, Delivers DEF Tiled
<1>3. /\ AcceptedWords(taken) \in 0..EffectiveWords /\ EffectiveWords \in 0..Len(words)
      /\ words' \in Seq(Nat) /\ Len(words') = EffectiveWords - AcceptedWords(taken)
      /\ Len(words) \in Nat
  BY <1>1, TakenEnds, EndIs, RetainedIs DEF FramerShift, Readable
<1>4. eofSeen \/ ~expectedValid => eofSeen' \/ ~expectedValid'
  BY DEF FramerShift, Bit
<1>5. StopFetch => terminalStop' \/ ~expectedValid'
  BY DEF FramerShift, KeepTerminal, Bit
<1>6. ~expectedValid => ~expectedValid'
  BY DEF FramerShift, Bit
<1>7. \A r : HeaderOf(r)' = HeaderOf(r) /\ LastOf(r)' = LastOf(r)
  BY DEF HeaderOf, LastOf
<1>8. ASSUME NEW r \in delivered
      PROVE  /\ \/ r.size = HeaderOf(r).need
                \/ r.size < HeaderOf(r).need /\ LastOf(r) = Len(stream) /\ (eofSeen' \/ ~expectedValid')
             /\ HeaderOf(r).kind = "END" /\ r.size = HeaderOf(r).need =>
                  LastOf(r) = Consumed' /\ words' = << >> /\ (terminalStop' \/ ~expectedValid')
  <2>1. \/ r.size = HeaderOf(r).need
        \/ r.size < HeaderOf(r).need /\ LastOf(r) = Len(stream) /\ (eofSeen \/ ~expectedValid)
    BY DEF RecordsInv
  <2>2. HeaderOf(r).kind = "END" /\ r.size = HeaderOf(r).need =>
          LastOf(r) = Consumed /\ words = << >> /\ (terminalStop \/ ~expectedValid)
    BY DEF RecordsInv
  <2>3. words = << >> => Consumed' = Consumed /\ words' = << >>
    <3> SUFFICES ASSUME words = << >> PROVE Consumed' = Consumed /\ words' = << >>
      OBVIOUS
    <3>1. Len(words) = 0
      OBVIOUS
    <3>2. AcceptedWords(taken) = 0 /\ EffectiveWords = 0
      BY <1>3, <3>1
    <3>3. Len(words') = 0
      BY <1>3, <3>2
    <3>4. words' = << >>
      BY <1>3, <3>3
    <3> QED BY <1>2, <3>2, <3>4
  <2> QED BY <1>4, <1>5, <1>6, <2>1, <2>2, <2>3 DEF StopFetch
<1>9. ASSUME NEW i \in taken, NEW r, r.at = Consumed + i, r.size = Present(i)
      PROVE  /\ \/ r.size = HeaderOf(r).need
                \/ r.size < HeaderOf(r).need /\ LastOf(r) = Len(stream) /\ (eofSeen' \/ ~expectedValid')
             /\ HeaderOf(r).kind = "END" /\ r.size = HeaderOf(r).need =>
                  LastOf(r) = Consumed' /\ words' = << >> /\ (terminalStop' \/ ~expectedValid')
  <2>1. /\ i \in 1..Len(words)
        /\ \/ r.size = HeaderOf(r).need
           \/ r.size < HeaderOf(r).need /\ LastOf(r) = Len(stream) /\ eofSeen
        /\ HeaderOf(r).kind = "END" /\ r.size = HeaderOf(r).need =>
              /\ EndFound /\ i + r.size - 1 = AcceptedWords(taken)
              /\ AcceptedWords(taken) = EffectiveWords
    BY <1>1, <1>9, TakenRecord
  <2>2. Present(i) \in 1..4
    BY <1>1, <2>1, PresentIs
  <2>3. LastOf(r) = Consumed + (i + r.size - 1)
    BY <1>2, <1>9, <2>1, <2>2 DEF LastOf
  <2>4. AcceptedWords(taken) = EffectiveWords => words' = << >>
    BY <1>3
  <2> QED BY <1>2, <1>4, <1>5, <2>1, <2>3, <2>4 DEF StopFetch
<1>10. ASSUME NEW r \in delivered', r \notin delivered
       PROVE  \E i \in taken : r.at = Consumed + i /\ r.size = Present(i)
  BY <1>10 DEF DeliverRecords
<1>11. stream' = stream
  OBVIOUS
<1>12. ASSUME NEW r \in delivered'
       PROVE  /\ \/ r.size = HeaderOf(r)'.need
                 \/ r.size < HeaderOf(r)'.need /\ LastOf(r)' = Len(stream') /\ (eofSeen' \/ ~expectedValid')
              /\ HeaderOf(r)'.kind = "END" /\ r.size = HeaderOf(r)'.need =>
                   LastOf(r)' = Consumed' /\ words' = << >> /\ (terminalStop' \/ ~expectedValid')
  <2>1. /\ \/ r.size = HeaderOf(r).need
           \/ r.size < HeaderOf(r).need /\ LastOf(r) = Len(stream) /\ (eofSeen' \/ ~expectedValid')
        /\ HeaderOf(r).kind = "END" /\ r.size = HeaderOf(r).need =>
             LastOf(r) = Consumed' /\ words' = << >> /\ (terminalStop' \/ ~expectedValid')
    BY <1>8, <1>9, <1>10
  <2> QED BY <1>7, <1>11, <2>1
<1> QED BY <1>12 DEF RecordsInv

\* A bundle arrives only before the end of the transport and before an END:
\* all that is delivered is whole, and stays where it is.
LEMMA AppendRecords ==
  ASSUME BufferInv, Tiled, StreamInv, RecordsInv, NEW b \in BundleInputs, NEW taken \in Takes,
         NEW clear \in BOOLEAN, FramerAppend(b, taken, clear), UNCHANGED image,
         expectedValid, Continues(b, taken)
  PROVE  RecordsInv'
<1>1. Prefix(taken) /\ Readable
  BY AcceptedIsPrefix DEF BufferInv
<1>2. BundleOk(b) /\ ~eofSeen /\ ~terminalStop /\ ~EndFound
  BY DEF FramerAppend, BundleReady, StopFetch
<1>3. DeliverRecords(taken) /\ stream \in Seq(Nat) /\ Lanes(b) \in Seq(Nat)
  BY <1>2, LanesAre, InputsAreTruthful DEF Continues, StreamInv
<1>4. \A j \in 1..Len(stream) : stream'[j] = stream[j]
  <2>1. Joining(stream, Lanes(b), stream')
    BY DEF Continues, Joining
  <2>2. Behind(stream, Lanes(b), stream')
    BY <1>3, <2>1, Joined
  <2> QED BY <2>2 DEF Behind
<1>5. Consumed \in Nat /\ Len(words) \in Nat /\ Len(stream) \in Nat /\ Consumed + Len(words) =< Len(stream)
  BY <1>1 DEF Tiled, Readable, StreamInv
<1>6. ASSUME NEW r \in delivered
      PROVE  /\ r.at \in 1..Len(stream)
             /\ r.size = HeaderOf(r).need /\ HeaderOf(r).kind # "END"
  <2>1. r.at \in Nat \ {0} /\ r.size \in Nat \ {0} /\ r.at + r.size - 1 =< Consumed
    BY DEF Tiled
  <2>2. r.size = HeaderOf(r).need /\ HeaderOf(r).kind # "END"
    BY <1>2 DEF RecordsInv
  <2> QED BY <1>5, <2>1, <2>2
<1>7. ASSUME NEW i \in taken, NEW r, r.at = Consumed + i, r.size = Present(i)
      PROVE  /\ r.at \in 1..Len(stream)
             /\ r.size = HeaderOf(r).need /\ HeaderOf(r).kind # "END"
  BY <1>1, <1>2, <1>7, TakenRecord
<1>8. ASSUME NEW r \in delivered', r \notin delivered
      PROVE  \E i \in taken : r.at = Consumed + i /\ r.size = Present(i)
  BY <1>3, <1>8 DEF DeliverRecords
<1>9. ASSUME NEW r \in delivered'
      PROVE  r.size = HeaderOf(r)'.need /\ HeaderOf(r)'.kind # "END"
  <2>1. r.at \in 1..Len(stream) /\ r.size = HeaderOf(r).need /\ HeaderOf(r).kind # "END"
    BY <1>6, <1>7, <1>8
  <2>2. HeaderOf(r)' = HeaderOf(r)
    BY <1>4, <2>1 DEF HeaderOf
  <2> QED BY <2>1, <2>2
<1> QED BY <1>9 DEF RecordsInv

----------------------------------------------------------------------------
(* All of it is inductive.                                                 *)

\* The inductive invariant
FramerInv == BufferInv /\ Tiled /\ StreamInv /\ RecordsInv

\* It holds before the first bundle.
LEMMA FramerInvInit == StreamInit => FramerInv
<1> SUFFICES ASSUME StreamInit PROVE FramerInv
  OBVIOUS
<1>1. BufferInv
  BY BufferInit DEF StreamInit
<1>2. Tiled /\ Consumed = 0 /\ RecordsInv
  BY DEF StreamInit, Tiled, Consumed, RecordsInv
<1>3. stream \in Seq(Nat) /\ Len(stream) = 0 /\ Len(words) = 0 /\ DOMAIN words = {}
  BY DEF StreamInit, FramerInit
<1>4. StreamInv
  BY <1>2, <1>3 DEF StreamInit, FramerInit, StreamInv
<1> QED BY <1>1, <1>2, <1>4 DEF FramerInv

\* It holds of a stream that was dropped.
LEMMA ForgetAll ==
  ASSUME stream' = << >>, delivered' = {}, words' = << >>
  PROVE  Tiled' /\ StreamInv' /\ RecordsInv'
<1>1. Tiled' /\ Consumed' = 0
  BY NoneDelivered
<1>2. StreamInv'
  BY <1>1, ForgottenStream
<1> QED BY <1>1, <1>2 DEF RecordsInv

\* Every step preserves it.
LEMMA FramerInvStep == FramerInv /\ [StreamNext]_streamVars => FramerInv'
<1> SUFFICES ASSUME FramerInv, [StreamNext]_streamVars PROVE FramerInv'
  OBVIOUS
<1> USE DEF FramerInv
<1>1. BufferInv'
  BY BufferStep
<1>2. CASE Consume
  <2>1. PICK taken \in Takes, restart \in BOOLEAN, clear \in BOOLEAN :
          /\ FramerShift(taken, restart, clear) /\ DeliverRecords(taken)
          /\ UNCHANGED <<image, stream>>
    BY <1>2 DEF Consume
  <2>2. Tiled'
    BY <2>1, AcceptedIsPrefix, Delivers DEF BufferInv
  <2> QED BY <1>1, <2>1, <2>2, ShiftStream, ShiftRecords
<1>3. CASE Receive
  <2>1. PICK b \in BundleInputs, taken \in Takes, clear \in BOOLEAN :
          FramerAppend(b, taken, clear) /\ UNCHANGED image /\ Continues(b, taken)
    BY <1>3 DEF Receive, Continues
  <2>2. StreamInv'
    BY <1>1, <2>1, AppendStream
  <2>3. CASE expectedValid
    <3>1. Tiled'
      BY <2>1, <2>3, AcceptedIsPrefix, Delivers DEF BufferInv, Continues
    <3> QED BY <1>1, <2>1, <2>2, <2>3, <3>1, AppendRecords
  <2>4. CASE ~expectedValid
    <3>1. delivered' = {}
      BY <2>1, <2>4 DEF Continues
    <3> QED BY <1>1, <2>2, <3>1, NoneDelivered DEF RecordsInv
  <2> QED BY <2>3, <2>4
<1>4. CASE Break \/ Swallow \/ Abort \/ Flush
  <2>1. stream' = << >> /\ delivered' = {}
    BY <1>4 DEF Break, Swallow, Abort, Flush, Forget
  <2>2. words' = << >>
    <3>1. CASE Swallow
      BY <3>1 DEF Swallow, FramerSwallow, BufferInv, bufferVars
    <3> QED BY <1>4, <3>1 DEF Break, FramerReject, Abort, FramerAbort, Flush, FramerFlush, NoStream
  <2> QED BY <1>1, <2>1, <2>2, ForgetAll
<1>5. CASE UNCHANGED streamVars
  <2>1. UNCHANGED <<delivered, stream, words, image, basePc, expectedPc, expectedValid, eofSeen, terminalStop>>
    BY <1>5 DEF streamVars, framerVars, bufferVars, haltVars
  <2>2. Consumed' = Consumed
    BY <2>1 DEF Consumed
  <2>3. Tiled'
    BY <2>1, <2>2 DEF Tiled
  <2>4. StreamInv'
    BY <2>1, <2>2 DEF StreamInv, RecordPc
  <2>5. RecordsInv'
    BY <2>1, <2>2 DEF RecordsInv, HeaderOf, LastOf
  <2> QED BY <1>1, <2>3, <2>4, <2>5
<1> QED BY <1>2, <1>3, <1>4, <1>5 DEF StreamNext

\* The invariant holds throughout, however the stream is cut and taken.
THEOREM FramerInvHolds == StreamSpec => []FramerInv
<1> QED BY FramerInvInit, FramerInvStep, PTL DEF StreamSpec

----------------------------------------------------------------------------
(* What follows from it                                                    *)

\* Every register keeps its range: the buffer never overflows, whatever the
\* bundles and the consumer do.
THEOREM FramerTypeCorrect == StreamSpec => []FramerTypeOK
<1>1. FramerInv => FramerTypeOK
  BY DEF FramerInv, BufferInv
<1> QED BY <1>1, FramerInvHolds, PTL

\* The buffer holds exactly the undelivered part of the stream, each word at
\* its own address: no word is lost, duplicated or moved between bundles.
THEOREM FramerLosesNothing == StreamSpec => []NothingLost
<1>1. FramerInv => NothingLost
  <2> SUFFICES ASSUME FramerInv PROVE NothingLost
    OBVIOUS
  <2> USE DEF FramerInv
  <2>1. PICK c \in Nat, k \in Nat : c = Consumed /\ k = Len(words)
    BY DEF BufferInv, Readable, Tiled
  <2>2. c + k =< Len(stream) /\ stream \in Seq(Nat) /\ words \in Seq(Nat)
    BY <2>1 DEF StreamInv, BufferInv, Readable
  <2>3. PICK t : t = SubSeq(stream, c + 1, c + k)
    OBVIOUS
  <2>4. t \in Seq(Nat) /\ Len(t) = k /\ \A i \in 1..k : t[i] = stream[c + i]
    <3>1. PICK a \in Int, m \in Int : a = c + 1 /\ m = c + k
      OBVIOUS
    <3>2. t = SubSeq(stream, a, m) /\ \A i \in a..m : stream[i] \in Nat
      BY <2>2, <2>3, <3>1
    <3>3. /\ t \in Seq(Nat)
          /\ Len(t) = IF a <= m THEN m - a + 1 ELSE 0
          /\ \A i \in 1..(m - a + 1) : t[i] = stream[a + i - 1]
      BY <3>2, SubSeqProperties
    <3>4. Len(t) = k
      BY <3>1, <3>3
    <3>5. ASSUME NEW i \in 1..k PROVE t[i] = stream[c + i]
      <4>1. a + i - 1 = c + i /\ i \in 1..(m - a + 1)
        BY <3>1
      <4> QED BY <3>3, <4>1
    <3> QED BY <3>3, <3>4, <3>5
  <2>5. \A i \in 1..k : words[i] = stream[c + i] /\ words[i] = RecordPc(i)
    <3>1. DOMAIN words = 1..k
      BY <2>1, <2>2
    <3>2. \A i \in DOMAIN words : words[i] = stream[Consumed + i] /\ words[i] = RecordPc(i)
      BY DEF StreamInv
    <3> QED BY <2>1, <3>1, <3>2
  <2>6. words = t
    <3>1. \A i \in 1..k : words[i] = t[i]
      BY <2>4, <2>5
    <3> QED BY <2>1, <2>2, <2>4, <3>1, SeqEqual
  <2>7. words = SubSeq(stream, Consumed + 1, Consumed + Len(words))
    BY <2>1, <2>3, <2>6
  <2>8. words # << >> /\ ~terminalStop => Consumed + Len(words) = Len(stream)
    BY DEF BufferInv, StreamInv
  <2>9. expectedValid /\ stream # << >> => expectedPc = stream[Len(stream)] + 4
    BY DEF StreamInv
  <2>10. \A i \in DOMAIN words : words[i] = RecordPc(i)
    BY DEF StreamInv
  <2> QED BY <2>7, <2>8, <2>9, <2>10 DEF NothingLost
<1> QED BY <1>1, FramerInvHolds, PTL

\* The delivered records are those of the stream, not of its bundles: every
\* word lies in one record, as long as its header says, none follows an END.
THEOREM FramingIndependent == StreamSpec => []FramingIgnoresCuts
<1>1. FramerInv => FramingIgnoresCuts
  <2> SUFFICES ASSUME FramerInv PROVE FramingIgnoresCuts
    OBVIOUS
  <2> USE DEF FramerInv
  <2>1. ASSUME NEW k \in 1..Consumed
        PROVE  Cardinality({r \in delivered : k \in r.at..(r.at + r.size - 1)}) = 1
    <3>1. PICK r \in delivered : k \in r.at..(r.at + r.size - 1)
      BY DEF Tiled
    <3>2. ASSUME NEW s \in delivered, k \in s.at..(s.at + s.size - 1) PROVE s = r
      <4>1. /\ r.at \in Nat /\ r.size \in Nat /\ s.at \in Nat /\ s.size \in Nat
            /\ r = s \/ r.at + r.size =< s.at \/ s.at + s.size =< r.at
        BY DEF Tiled
      <4>2. k \in Nat
        BY DEF Tiled
      <4> QED BY <3>1, <3>2, <4>1, <4>2
    <3>3. {s \in delivered : k \in s.at..(s.at + s.size - 1)} = {r}
      BY <3>1, <3>2
    <3> QED BY <3>3, FS_Singleton
  <2>2. ASSUME NEW r \in delivered
        PROVE  LET head == image[stream[r.at]]
                   end  == r.at + r.size - 1
               IN  /\ \/ r.size = head.need
                      \/ r.size < head.need /\ end = Len(stream) /\ (eofSeen \/ ~expectedValid)
                   /\ head.kind = "END" /\ r.size = head.need =>
                        end = Consumed /\ words = << >>
    BY DEF RecordsInv, HeaderOf, LastOf
  <2> QED BY <2>1, <2>2 DEF FramingIgnoresCuts
<1> QED BY <1>1, FramerInvHolds, PTL

\* As long as no record can be shown, a whole bundle fits: the carry space
\* of the code is enough for every bundle width.
THEOREM CarrySufficient == StreamSpec => []CarryFits
<1>1. FramerInv => CarryFits
  <2> SUFFICES ASSUME FramerInv, Records = {} PROVE Len(words) + BundleWords <= BufferWords
    BY DEF CarryFits
  <2>1. Readable /\ Len(words) \in Nat /\ BundleWords \in Nat
    BY StreamAssumption DEF FramerInv, BufferInv, Readable
  <2>2. Len(words) =< 3
    <3> SUFFICES ASSUME ~(Len(words) =< 3) PROVE FALSE
      OBVIOUS
    <3>1. words # << >>
      BY <2>1
    <3>2. 1 \in 1..Len(words) /\ IsStart[1]
      BY <2>1, <3>1, FirstIsStart
    <3>3. Need(1) \in 1..4 /\ Left(1) = Len(words)
      BY <2>1, <3>2, PresentIs DEF Left
    <3>4. Framed(1)
      BY <2>1, <3>3 DEF Framed, Whole
    <3> QED BY <3>2, <3>4 DEF Records
  <2> QED BY <2>1, <2>2 DEF BufferWords, MaxRecordWords
<1> QED BY <1>1, FramerInvHolds, PTL

\* Once it is up, stop_fetch falls only with the restart of a halted framer
\* or with a redirect.
THEOREM StopKept == StreamSpec => StopIsKept
<1>1. [StreamNext]_streamVars => [StopFetch /\ ~StopFetch' => Halted \/ FramerFlush]_streamVars
  <2> SUFFICES ASSUME StreamNext, StopFetch, ~terminalStop', ~Halted PROVE FramerFlush
    BY DEF StopFetch
  <2>1. \A restart : KeepTerminal(restart) => terminalStop'
    BY DEF KeepTerminal, Bit
  <2>2. ~Consume /\ ~Receive /\ ~Break /\ ~Swallow
    BY <2>1 DEF Consume, FramerShift, Receive, FramerAppend, Break, FramerReject,
                Swallow, FramerSwallow
  <2>3. ~Abort
    BY DEF Abort, FramerAbort, StopAfterAbort, Bit
  <2> QED BY <2>2, <2>3 DEF StreamNext, Flush
<1> QED BY <1>1, PTL DEF StreamSpec, StopIsKept
============================================================================
