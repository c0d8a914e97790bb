------------------------ MODULE ProgramWrapper_proofs ------------------------
(***************************************************************************)
(* Proofs about the program wrapper, for every bundle width, every set of  *)
(* images and of launch ranges, and every register width.                  *)
(*                                                                         *)
(* The induction goes in three layers.  AtOnceInv says that one action is  *)
(* in flight at a time and needs nothing else.  PathInv adds where the     *)
(* words of the program are: the record that is due in a holding register, *)
(* the records behind it in the framer's buffer, the words behind those in *)
(* the held bundle or still to be fetched, each part beginning where the   *)
(* one before it ends.  CloseInv adds what ends a program: where an END is *)
(* on its way from the framer to its retirement, what a report of the end  *)
(* of the file means, and which faults have cut the path short.  Why a     *)
(* program fails and that the wrapper implements OrderedProgram follow.    *)
(* The proof rests on the invariant of the fetch engine and on the facts   *)
(* about the scan of the buffer; of FramerStream only those are used here, *)
(* its history variables do not occur.                                     *)
(***************************************************************************)
EXTENDS ProgramWrapper, ProgramSource_proofs, FramerStream_proofs

----------------------------------------------------------------------------
(* One action at a time                                                    *)

\* At most one engine is busy, and the decode entry holds an action that
\* leaves in this very cycle.
AtOnceInv ==
  /\ ~(StateBusy /\ BranchBusy)
  /\ ~(StateBusy /\ ControllerBusy)
  /\ ~(BranchBusy /\ ControllerBusy)
  /\ routerError = FALSE
  /\ raw.valid => programActive
  /\ decoded.valid =>
       /\ programActive /\ EnginesIdle /\ ~raw.valid
       /\ decoded.legal /\ Header(decoded.head).kind = "MEMORY" =>
            decoded.base = stateReg

\* Engines that exclude each other never overlap.
LEMMA NoOverlap == AtOnceInv => ~Overlap
<1> SUFFICES ASSUME AtOnceInv PROVE ~Overlap
  OBVIOUS
<1> PICK s, b, c : s = StateBusy /\ b = BranchBusy /\ c = ControllerBusy
  OBVIOUS
<1> DEFINE S == {p \in {<<"STATE", s>>, <<"BRANCH", b>>, <<"CLUSTER", c>>} : p[2]}
<1>1. Overlap <=> Cardinality(S) > 1
  BY DEF Overlap
<1>2. ~(s /\ b) /\ ~(s /\ c) /\ ~(b /\ c)
  BY DEF AtOnceInv
<1>3. \E x : S \subseteq {x}
  <2>1. CASE s
    <3>1. ~b /\ ~c
      BY <1>2, <2>1
    <3>2. S \subseteq {<<"STATE", s>>}
      BY <3>1
    <3> QED BY <3>2
  <2>2. CASE b
    <3>1. ~s /\ ~c
      BY <1>2, <2>2
    <3>2. S \subseteq {<<"BRANCH", b>>}
      BY <3>1
    <3> QED BY <3>2
  <2>3. CASE ~s /\ ~b
    <3>1. S \subseteq {<<"CLUSTER", c>>}
      BY <1>2, <2>3
    <3> QED BY <3>1
  <2> QED BY <2>1, <2>2, <2>3
<1>4. PICK x : S = {} \/ S = {x}
  BY <1>3
<1> HIDE DEF S
<1>5. Cardinality(S) = 0 \/ Cardinality(S) = 1
  BY <1>4, FS_EmptySet, FS_Singleton
<1> QED BY <1>1, <1>5

\* A decoded action leaves in the cycle that finds the engines idle.
LEMMA DecodedLeaves ==
  ASSUME AtOnceInv, decoded.valid, NEW ready
  PROVE  DecodedFire(ready)
BY DEF AtOnceInv, DecodedFire, StateFire, BranchFire, BranchIssue, ClusterFire, StateSelected,
       AdapterValid, EnginesIdle, CaptureReady

\* From idle the controller only becomes busy by capturing an action.
LEMMA ControllerStays ==
  ASSUME NEW ready, NEW clear, ClusterCycle(ready, clear), ~ClusterFire, ControllerBusy'
  PROVE  ControllerBusy
<1> SUFFICES ASSUME ~ControllerBusy PROVE FALSE
  OBVIOUS
<1>1. canonical = NoAction /\ ctrl = "IDLE" /\ cpl = NoCpl
  BY DEF ControllerBusy
<1>2. ControllerStall(FALSE, clear)
  BY <1>1
  DEF ClusterCycle, RejectLocally, StartEngine, StartEnd, Admits, FinishEngine, Waiting, FinishEnd,
      RetireAction, Engines
<1> QED BY <1>2 DEF ControllerStall, ControllerBusy

\* Whatever the fetch engine does, all but a launch move the other parts on.
LEMMA OthersMove ==
  ASSUME WrapperNext, ~LaunchCycle
  PROVE  \E ready, clear \in BOOLEAN : Rest(ready, clear)
<1>1. CASE RedirectCycle
  BY <1>1 DEF RedirectCycle
<1>2. CASE RequestCycle
  BY <1>2 DEF RequestCycle
<1>3. CASE ResponseCycle
  BY <1>3 DEF ResponseCycle
<1>4. CASE TransferCycle
  BY <1>4 DEF TransferCycle
<1>5. CASE QuietCycle
  BY <1>5 DEF QuietCycle
<1> QED BY <1>1, <1>2, <1>3, <1>4, <1>5 DEF WrapperNext

\* A program that holds a record, or takes one, runs on.
LEMMA RunsOn ==
  ASSUME NEW ready, NEW clear, Rest(ready, clear), programActive,
         raw.valid \/ decoded.valid \/ RecordTaken # {}
  PROVE  programActive' = TRUE
<1>1. programActive' = Bit(~FinishSuccess /\ ~FinishFailure)
  BY DEF Rest, LifecycleIdle, LifecycleRun
<1>2. CASE raw.valid \/ decoded.valid
  BY <1>1, <1>2 DEF Bit, FinishSuccess, FinishFailure, Settled
<1>3. CASE RecordTaken # {}
  <2>1. Records # {}
    BY <1>3, Zenon DEF RecordTaken, Accepted
  <2>2. words # << >>
    BY <2>1 DEF Records
  <2> QED BY <1>1, <2>1, <2>2 DEF Bit, FinishSuccess, FinishFailure, Halted
<1> QED BY <1>2, <1>3

\* Every cycle but a launch keeps it.
LEMMA RestAtOnce ==
  ASSUME AtOnceInv, NEW ready \in BOOLEAN, NEW clear \in BOOLEAN, Rest(ready, clear)
  PROVE  AtOnceInv'
<1> USE DEF Rest
<1>1. routerError' = FALSE
  BY NoOverlap DEF GlueCycle, Sticky, Bit, AtOnceInv
<1>2. raw'.valid => programActive'
  <2> SUFFICES ASSUME raw'.valid PROVE programActive'
    OBVIOUS
  <2>1. raw.valid \/ RecordTaken # {}
    BY DEF RawCycle, NoRecord
  <2>2. programActive
    BY <2>1 DEF AtOnceInv, RecordTaken, RecordReady
  <2> QED BY <2>1, <2>2, RunsOn
<1>3. CASE decoded.valid
  <2>1. /\ programActive /\ ~StateBusy /\ ~BranchBusy /\ ~ControllerBusy /\ ~raw.valid
        /\ DecodedFire(ready)
    BY <1>3, DecodedLeaves DEF AtOnceInv, EnginesIdle
  <2>2. decoded' = NoDecoded
    BY <2>1 DEF DecodeCycle, DecodeFire
  <2>3. /\ StateFire(ready) => ~BranchFire /\ ~ClusterFire
        /\ BranchFire => ~ClusterFire
    BY DEF StateFire, BranchFire, BranchIssue, ClusterFire, StateSelected, IsState, IsBranch
  <2>4. /\ StateBusy' => StateFire(ready)
        /\ BranchBusy' => BranchFire
        /\ ControllerBusy' => ClusterFire
    BY <2>1, ControllerStays DEF StateCycle, BranchCycle, StateBusy, BranchBusy, StateAck, BranchAck
  <2>5. ~decoded'.valid
    BY <2>2 DEF NoDecoded
  <2> QED BY <1>1, <1>2, <2>3, <2>4, <2>5 DEF AtOnceInv
<1>4. CASE ~decoded.valid
  <2>1. ~StateFire(ready) /\ ~BranchFire /\ ~ClusterFire /\ ~Redirecting
    BY <1>4 DEF StateFire, BranchFire, BranchIssue, ClusterFire, StateSelected, AdapterValid, Redirecting
  <2>2. (StateBusy' => StateBusy) /\ (BranchBusy' => BranchBusy) /\ (ControllerBusy' => ControllerBusy)
    BY <2>1, ControllerStays DEF StateCycle, BranchCycle, StateBusy, BranchBusy, NoTag, NoBranch
  <2>3. CASE DecodeFire
    <3>1. raw.valid /\ programActive /\ EnginesIdle
      BY <2>3 DEF DecodeFire
    <3>2. raw' = NoRecord /\ decoded' = Decode(raw) /\ stateReg' = stateReg /\ image' = image
      BY <2>1, <2>3, <3>1
      DEF RawCycle, FlushesRaw, RecordTaken, RecordReady, DecodeCycle, StateCycle
    <3>3. programActive'
      BY <3>1, RunsOn
    <3>4. ~raw'.valid /\ EnginesIdle'
      BY <2>2, <3>1, <3>2 DEF NoRecord, EnginesIdle
    <3>5. (decoded.legal /\ Header(decoded.head).kind = "MEMORY" => decoded.base = stateReg)'
      BY <3>2 DEF Decode, Header
    <3> QED BY <1>1, <1>2, <2>2, <3>3, <3>4, <3>5 DEF AtOnceInv
  <2>4. CASE ~DecodeFire
    <3>1. ~decoded'.valid
      BY <1>4, <2>4 DEF DecodeCycle, NoDecoded
    <3> QED BY <1>1, <1>2, <2>2, <3>1 DEF AtOnceInv
  <2> QED BY <2>3, <2>4
<1> QED BY <1>3, <1>4

\* Every step keeps it: a launch finds all engines idle.
LEMMA AtOnceStep == AtOnceInv /\ [WrapperNext]_wrapperVars => AtOnceInv'
<1> SUFFICES ASSUME AtOnceInv, [WrapperNext]_wrapperVars PROVE AtOnceInv'
  OBVIOUS
<1>1. CASE LaunchCycle
  <2>1. PICK s \in PcInputs, e \in PcInputs, clear \in BOOLEAN :
          /\ StartReadyNow
          /\ ControllerStall(FALSE, clear)
          /\ GlueCycle(TRUE, clear)
          /\ LifecycleStart(s, e)
          /\ UNCHANGED <<image, raw, decoded, localVars>>
    BY <1>1 DEF LaunchCycle
  <2>2. routerError' = FALSE
    BY <2>1, NoOverlap DEF GlueCycle, Sticky, Bit, AtOnceInv
  <2>3. ~StateBusy' /\ ~BranchBusy' /\ ~ControllerBusy'
    BY <2>1
    DEF StartReadyNow, EnginesIdle, StateBusy, BranchBusy, ControllerBusy, ControllerStall, localVars
  <2>4. ~raw'.valid /\ ~decoded'.valid
    BY <2>1 DEF StartReadyNow
  <2> QED BY <2>2, <2>3, <2>4 DEF AtOnceInv
<1>2. CASE WrapperNext /\ ~LaunchCycle
  BY <1>2, OthersMove, RestAtOnce
<1>3. CASE UNCHANGED wrapperVars
  BY <1>3
  DEF wrapperVars, glueVars, decodeVars, localVars, controllerVars, programVars, AtOnceInv, StateBusy,
      BranchBusy, ControllerBusy, EnginesIdle, Header
<1> QED BY <1>1, <1>2, <1>3

\* It holds at reset.
LEMMA AtOnceInit == WrapperInit => AtOnceInv
BY DEF WrapperInit, AtOnceInv, NoRecord, NoDecoded, NoTag, NoBranch, StateBusy, BranchBusy, ControllerInit,
       ControllerBusy

\* Engines never overlap, the router never reports that they did, and the
\* decode entry leaves at once, so its sampled MEMORY base is never stale.
THEOREM OneActionAtATime == WrapperSpec => []DispatchesAtOnce
<1>1. AtOnceInv => DispatchesAtOnce
  BY NoOverlap DEF AtOnceInv, DispatchesAtOnce
<1> QED BY <1>1, AtOnceInit, AtOnceStep, PTL DEF WrapperSpec

----------------------------------------------------------------------------
(* The records of the program in order                                     *)

\* How many words of the range the record at p has.
SizeAt(p) == IF Header(p).need <= (progEnd - p) \div 4 THEN Header(p).need
                                                       ELSE (progEnd - p) \div 4

\* Where the record behind the holding registers begins.
Front == IF raw.valid \/ decoded.valid THEN due + 4 * SizeAt(due) ELSE due

\* A holding register holds the next record, and what it says of it is so.
EntryInv ==
  /\ raw.valid \/ decoded.valid => due < progEnd
  /\ raw.valid => raw.pc = due /\ raw.head = due /\ raw.size = SizeAt(due)
  /\ decoded.valid =>
       /\ decoded.pc = due /\ decoded.head = due
       /\ decoded.whole <=> SizeAt(due) = Header(due).need
       /\ decoded.legal <=> /\ decoded.whole /\ Header(due).legal
                            /\ Header(due).kind = "END" => EndAllowed(due)

\* The buffer holds the words from there on, up to the end of the range if
\* the stream has ended and no END shows.
BufferAt ==
  words # << >> =>
    /\ basePc = Front
    /\ \A i \in DOMAIN words : words[i] = RecordPc(i)
    /\ basePc + 4 * Len(words) <= progEnd
    /\ eofSeen => basePc + 4 * Len(words) = progEnd \/ EndFound

\* The fetch engine goes on with the words behind the buffer.
StreamAt ==
  running /\ ~StopFetch =>
    /\ pc = Front + 4 * Len(words)
    /\ expectedValid => expectedPc = pc

LiveInv ==
  /\ progStart = startPc /\ progEnd = endPc
  /\ progStart \in PcInputs /\ progEnd \in PcInputs
  /\ due \in Nat /\ Aligned(due) /\ progStart <= due /\ due <= progEnd
  /\ EntryInv /\ BufferAt /\ StreamAt

\* A program that runs: nothing is left of the one before it, and once its
\* fetch has failed it stays stopped until a branch restarts it.
ActiveInv ==
  /\ framerError = FALSE /\ storeError = FALSE /\ discarding = FALSE
  /\ framerClear = FALSE
  /\ terminalDrain => terminalStop
  /\ transportFailure \/ storeFault \/ framerAbort => ~running
  /\ IF rangeValid THEN sourceError = FALSE /\ LiveInv
     ELSE words = << >> /\ ~raw.valid /\ ~decoded.valid

PathInv ==
  /\ SourceIInv /\ BufferInv /\ AtOnceInv
  /\ SourceRunning => programActive
  /\ programActive => ActiveInv

\* What is known of the range and of the place of the next record.
LEMMA PlaceIs ==
  ASSUME SourceIInv, LiveInv, rangeValid
  PROVE  /\ progStart \in Nat /\ progEnd \in Nat /\ due \in Nat
         /\ Aligned(progEnd) /\ Aligned(due)
BY DEF SourceIInv, SourceTypeOK, SourcePcsOK, LiveRequest, LiveInv

\* Every word of the range is a header of the image.
LEMMA HeaderIs ==
  ASSUME image \in Images, LiveInv, NEW p \in Nat, Aligned(p), progStart <= p, p < progEnd
  PROVE  /\ p \in DOMAIN image /\ Header(p) = image[p]
         /\ Header(p).need \in 1..4 /\ Header(p).arg \in Int
<1>1. progStart \in Nat /\ progEnd \in Nat /\ progStart \in PcInputs /\ progEnd \in PcInputs
  BY StreamAssumption DEF LiveInv
<1>2. p \in progStart..(progEnd - 1)
  BY <1>1
<1>3. p \in DOMAIN image
  BY <1>1, <1>2, ProgramAssumption
<1> QED BY <1>3, FramerAssumption, ProgramAssumption DEF Header, MaxRecordWords

\* The record at p stays inside the range, and reaches its end if it is cut.
LEMMA SizeIs ==
  ASSUME NEW p \in Nat, Aligned(p), progEnd \in Nat, Aligned(progEnd), p < progEnd,
         Header(p).need \in 1..4
  PROVE  /\ SizeAt(p) \in 1..4 /\ SizeAt(p) <= Header(p).need
         /\ p + 4 * SizeAt(p) <= progEnd /\ Aligned(p + 4 * SizeAt(p))
         /\ SizeAt(p) # Header(p).need => p + 4 * SizeAt(p) = progEnd
         /\ SizeAt(p) = Header(p).need <=> p + 4 * Header(p).need <= progEnd
<1> PICK h \in 1..4, e \in Nat : h = Header(p).need /\ e = progEnd
  OBVIOUS
<1>1. (e - p) \div 4 \in Nat /\ 4 * ((e - p) \div 4) = e - p
  BY WordSpan
<1> PICK k \in Nat : k = (e - p) \div 4 /\ 4 * k = e - p
  BY <1>1
<1>2. SizeAt(p) = IF h <= k THEN h ELSE k
  BY DEF SizeAt
<1>3. SizeAt(p) \in Nat
  BY <1>2
<1>4. Aligned(p + 4 * SizeAt(p))
  BY <1>3, AlignedStep
<1> QED BY <1>2, <1>4

\* One record is taken at a time, the oldest.
LEMMA TakesFirst ==
  ASSUME Readable
  PROVE  /\ Prefix(RecordTaken)
         /\ \/ RecordTaken = {} /\ AcceptedWords(RecordTaken) = 0
            \/ /\ RecordTaken = {1} /\ RecordReady /\ 1 \in Records /\ words # << >>
               /\ AcceptedWords(RecordTaken) = Present(1)
<1> DEFINE T == Accepted({1})
<1>1. Prefix(T) /\ Prefix({})
  <2>1. T \in Takes
    BY FramerAssumption DEF Takes
  <2> QED BY <2>1, AcceptedIsPrefix DEF Prefix
<1>2. T = {i \in Records : \A j \in Records : j <= i => Slot(Records, j) \in {1}}
  BY DEF Accepted
<1>3. \A i \in Records : i \in 1..Len(words)
  BY RecordIs
<1>4. Len(words) \in Nat
  BY DEF Readable
<1>5. ASSUME NEW i \in T PROVE i = 1
  <2>1. i \in Records /\ Slot(Records, i) = 1
    BY <1>2, <1>3
  <2> SUFFICES ASSUME i # 1 PROVE FALSE
    OBVIOUS
  <2>2. PICK p \in Records : p < i
    BY <2>1, HasPredecessor
  <2> DEFINE S == {j \in Records : j <= i}
  <2>3. IsFiniteSet(S)
    <3>1. S \subseteq 1..Len(words)
      BY <1>3
    <3>2. 1 \in Int /\ Len(words) \in Int /\ IsFiniteSet(1..Len(words))
      BY <1>4, FS_Interval
    <3> HIDE DEF S
    <3> QED BY <3>1, <3>2, FS_Subset
  <2>4. p \in S /\ i \in S
    BY <1>3, <2>1, <2>2
  <2>5. Cardinality(S) = 1
    BY <2>1 DEF Slot
  <2> HIDE DEF S
  <2>6. PICK x : S = {x}
    BY <2>3, <2>5, FS_Singleton
  <2> QED BY <1>3, <2>1, <2>2, <2>4, <2>6
<1>6. T = {} \/ T = {1}
  BY <1>5
<1>7. ASSUME T = {1} PROVE 1 \in Records /\ words # << >> /\ AcceptedWords(T) = Present(1)
  <2>1. 1 \in Records
    BY <1>2, <1>7
  <2>2. PICK last \in T : AcceptedWords(T) = last + Present(last) - 1
    BY <1>1, <1>7, TakenEnds
  <2>3. last = 1
    BY <1>5
  <2>4. 1 \in 1..Len(words) /\ Present(1) \in 1..4
    BY <1>3, <2>1, PresentIs
  <2>5. words # << >>
    BY <2>4
  <2> QED BY <2>1, <2>2, <2>3, <2>4, <2>5
<1>8. AcceptedWords({}) = 0
  BY DEF AcceptedWords
<1> HIDE DEF T
<1>9. RecordTaken = IF RecordReady THEN T ELSE {}
  BY DEF RecordTaken, T
<1>10. CASE RecordReady /\ T = {1}
  BY <1>1, <1>7, <1>9, <1>10
<1>11. CASE ~RecordReady \/ T = {}
  BY <1>1, <1>8, <1>9, <1>11
<1> QED BY <1>6, <1>10, <1>11

\* If an END shows, every record that does is whole.
LEMMA WholeBeforeEnd ==
  ASSUME Readable, EndFound, NEW i \in Records
  PROVE  Whole(i)
<1> PICK e : e = EndPosition
  OBVIOUS
<1>1. e \in Records /\ EndAt(e) /\ e \in 1..Len(words) /\ Present(e) \in 1..4
  BY EndIs, RecordIs, PresentIs
<1>2. i \in 1..Len(words) /\ Present(i) \in 1..4 /\ i <= e
  BY <1>1, RecordIs, PresentIs, EndIsLast
<1>3. CASE i = e
  BY <1>1, <1>3 DEF EndAt
<1>4. CASE i < e
  <2>1. i + Present(i) <= e
    BY <1>1, <1>4, RecordsApart
  <2>2. e <= Len(words) /\ Len(words) \in Nat
    BY <1>1 DEF Readable
  <2> QED BY <1>1, <1>2, <2>1, <2>2, PresentIs
<1> QED BY <1>1, <1>2, <1>3, <1>4

\* The record the framer shows is the one the program goes on with.
LEMMA FirstIsNext ==
  ASSUME SourceIInv, LiveInv, rangeValid, Readable, 1 \in Records
  PROVE  /\ words # << >> /\ words[1] = Front /\ basePc = Front /\ Front \in Nat /\ Aligned(Front)
         /\ progStart <= Front /\ Front < progEnd
         /\ Present(1) = SizeAt(Front)
         /\ EndAt(1) <=> SizeAt(Front) = Header(Front).need /\ Header(Front).kind = "END"
<1>1. words # << >> /\ 1 \in 1..Len(words) /\ Framed(1) /\ Len(words) \in Nat
  BY RecordIs DEF Readable
<1>2. /\ basePc = Front
      /\ \A i \in DOMAIN words : words[i] = RecordPc(i)
      /\ basePc + 4 * Len(words) <= progEnd
      /\ eofSeen => basePc + 4 * Len(words) = progEnd \/ EndFound
  BY <1>1 DEF LiveInv, BufferAt
<1>3. words[1] \in Nat /\ words[1] = RecordPc(1) /\ words[1] \in DOMAIN image
  BY <1>1, <1>2 DEF Readable
<1>4. /\ progStart \in Nat /\ progEnd \in Nat /\ due \in Nat
      /\ Aligned(progEnd) /\ Aligned(due) /\ progStart <= due
  BY PlaceIs DEF LiveInv
<1>5. Front \in Nat /\ Aligned(Front) /\ progStart <= Front
  <2>1. CASE raw.valid \/ decoded.valid
    <3>1. due < progEnd
      BY <2>1 DEF LiveInv, EntryInv
    <3>2. Header(due).need \in 1..4
      BY <1>4, <3>1, HeaderIs DEF Readable
    <3>3. SizeAt(due) \in 1..4 /\ Aligned(due + 4 * SizeAt(due))
      BY <1>4, <3>1, <3>2, SizeIs
    <3> QED BY <1>4, <2>1, <3>3 DEF Front
  <2>2. CASE ~(raw.valid \/ decoded.valid)
    BY <1>4, <2>2 DEF Front
  <2> QED BY <2>1, <2>2
<1>6. words[1] = Front /\ Front < progEnd
  BY <1>1, <1>2, <1>3, <1>4, <1>5 DEF RecordPc
<1>7. Need(1) = Header(Front).need /\ Need(1) \in 1..4
  BY <1>1, <1>6, PresentIs DEF Need, Header
<1>8. /\ SizeAt(Front) \in 1..4
      /\ SizeAt(Front) # Header(Front).need => Front + 4 * SizeAt(Front) = progEnd
      /\ SizeAt(Front) = Header(Front).need <=> Front + 4 * Header(Front).need <= progEnd
  BY <1>4, <1>5, <1>6, <1>7, SizeIs
<1>9. Left(1) = Len(words)
  BY <1>1 DEF Left
<1>10. CASE Whole(1)
  <2>1. Need(1) <= Len(words) /\ Present(1) = Need(1)
    BY <1>1, <1>9, <1>10, PresentIs DEF Whole
  <2>2. SizeAt(Front) = Header(Front).need
    BY <1>1, <1>2, <1>4, <1>5, <1>7, <1>8, <2>1
  <2>3. EndAt(1) <=> Header(Front).kind = "END"
    BY <1>6, <1>10 DEF EndAt, Header
  <2> QED BY <1>1, <1>2, <1>5, <1>6, <1>7, <2>1, <2>2, <2>3
<1>11. CASE ~Whole(1)
  <2>1. ~EndFound
    BY <1>11, WholeBeforeEnd
  <2>2. basePc + 4 * Len(words) = progEnd
    BY <1>1, <1>2, <1>11, <2>1 DEF Framed
  <2>3. Present(1) = Len(words) /\ Len(words) < Need(1)
    BY <1>1, <1>7, <1>9, <1>11 DEF Present, Whole
  <2>4. SizeAt(Front) # Header(Front).need
    BY <1>1, <1>2, <1>4, <1>5, <1>7, <1>8, <2>2, <2>3
  <2>5. SizeAt(Front) = Len(words)
    BY <1>1, <1>2, <1>4, <1>5, <1>8, <2>2, <2>4
  <2>6. ~EndAt(1)
    BY <1>11 DEF EndAt
  <2> QED BY <1>1, <1>2, <1>5, <1>6, <2>3, <2>4, <2>5, <2>6
<1> QED BY <1>10, <1>11

----------------------------------------------------------------------------
(* What each part does in a cycle without a launch or a redirect           *)

\* The fetch engine stops or goes on, in the same range.
SourceStays ==
  /\ UNCHANGED <<startPc, endPc, rangeValid>>
  /\ running' = running \/ running' = FALSE
  /\ SourceRunning' => SourceRunning
  /\ sourceError = FALSE => sourceError' = FALSE
  /\ storeFault' => storeFault \/ ~running'
  /\ \/ pc' = pc /\ ~BundleFire
     \/ BundleFire /\ pc' = pc + 4 * bundle.count /\ (running' => ~bundle.last)
  /\ deliveryDone' => BundleFire /\ bundle.last

\* Within the range a branch that fires is a redirect the engine accepts.
LEMMA NeverRefused ==
  ASSUME SourceIInv, AtOnceInv, programActive => ActiveInv
  PROVE  ~RefusedRedirect
<1> SUFFICES ASSUME Redirecting PROVE RedirectOk(NextPc)
  BY DEF RefusedRedirect
<1>1. decoded.valid /\ NextPcOk /\ programActive
  BY DEF Redirecting, BranchFire, BranchIssue, AdapterValid
<1>2. rangeValid /\ LiveInv
  BY <1>1 DEF ActiveInv
<1> QED BY <1>1, <1>2 DEF NextPcOk, RedirectOk, LiveInv

\* The cycles of the fetch engine.
LEMMA SourceMoves ==
  ASSUME PathInv, WrapperNext, ~LaunchCycle, ~Redirecting
  PROVE  /\ SourceIInv' /\ SourceStays
         /\ \E ready, clear \in BOOLEAN : Rest(ready, clear)
<1> USE DEF PathInv
<1>1. ~RefusedRedirect /\ ~Commits
  BY NeverRefused DEF Commits
<1>2. SourceFlagsOK
  BY DEF SourceIInv, SourceTypeOK
<1>3. CASE RequestCycle
  <2>1. PICK ready \in BOOLEAN, clear \in BOOLEAN :
          SourceRequest(clear) /\ StoreAccept /\ Rest(ready, clear)
    BY <1>3 DEF RequestCycle
  <2>2. SourceIInv'
    BY <2>1, RequestInv
  <2>3. SourceStays
    BY <1>2, <2>1
    DEF SourceRequest, RequestValid, SourceStays, SourceRunning, SetSourceError, KeepStoreFault,
        Sticky, Bit, BundleFire, progVars, SourceFlagsOK
  <2> QED BY <2>1, <2>2, <2>3
<1>4. CASE ResponseCycle
  <2>1. PICK ready \in BOOLEAN, clear \in BOOLEAN, fault \in BOOLEAN :
          /\ StoreAnswer /\ SourceResponse(store.pc, fault, FALSE, clear)
          /\ Rest(ready, clear)
    <3>1. RefusedRedirect = FALSE
      BY <1>1 DEF RefusedRedirect
    <3> QED BY <1>4, <3>1 DEF ResponseCycle
  <2>2. SourceIInv'
    BY <2>1, ResponseInv
  <2>3. SourceStays
    BY <1>2, <2>1
    DEF SourceResponse, AnswerIsStale, ResponseReady, SourceStays, SourceRunning, SetSourceError,
        KeepStoreFault, Sticky, Bit, BundleFire, progVars, SourceFlagsOK
  <2> QED BY <2>1, <2>2, <2>3
<1>5. CASE TransferCycle
  <2>1. PICK ready \in BOOLEAN, clear \in BOOLEAN :
          /\ BundleTaken /\ SourceTransfer(FALSE, clear) /\ UNCHANGED store
          /\ Rest(ready, clear)
    <3>1. RefusedRedirect = FALSE
      BY <1>1 DEF RefusedRedirect
    <3> QED BY <1>5, <3>1 DEF TransferCycle
  <2>2. SourceIInv'
    BY <2>1, TransferInv
  <2>3. SourceStays
    BY <1>2, <2>1
    DEF SourceTransfer, SourceStays, SourceRunning, SetSourceError, KeepStoreFault, Sticky, Bit,
        BundleFire, SourceFlagsOK
  <2> QED BY <2>1, <2>2, <2>3
<1>6. CASE QuietCycle
  <2>1. PICK ready \in BOOLEAN, clear \in BOOLEAN :
          /\ ~BundleFire /\ SourceQuiet(FALSE, clear) /\ UNCHANGED store
          /\ Rest(ready, clear)
    <3>1. RefusedRedirect = FALSE
      BY <1>1 DEF RefusedRedirect
    <3> QED BY <1>6, <3>1 DEF QuietCycle
  <2>2. SourceIInv'
    BY <2>1, QuietInv
  <2>3. SourceStays
    BY <1>2, <2>1
    DEF SourceQuiet, SourceStays, SourceRunning, SetSourceError, KeepStoreFault, Sticky, Bit, progVars,
        flowVars, SourceFlagsOK
  <2> QED BY <2>1, <2>2, <2>3
<1> QED BY <1>1, <1>3, <1>4, <1>5, <1>6 DEF WrapperNext, RedirectCycle

\* The bundle held continues the buffer, so the framer takes it as good.
LEMMA BundleIsGood ==
  ASSUME PathInv, bundleValid, ~terminalDrain, FramerTakes
  PROVE  /\ programActive /\ rangeValid /\ running /\ LiveInv /\ ~discarding /\ ~StopFetch
         /\ BundleReady(bundle, RecordTaken) /\ BundleOk(bundle) /\ Truthful(bundle)
         /\ bundle.base = pc /\ bundle.count \in 1..BundleWords /\ bundle.last \in BOOLEAN
         /\ pc = Front + 4 * Len(words) /\ pc \in Nat
         /\ pc + 4 * bundle.count <= progEnd
         /\ bundle.last <=> (pc + 4 * bundle.count = progEnd)
<1> USE DEF PathInv
<1>1. programActive /\ rangeValid /\ running /\ LiveInv /\ ~discarding
  BY DEF ActiveInv, SourceRunning, SourceIInv, FetchInRange, LiveRequest
<1>2. BundleReady(bundle, RecordTaken) /\ ~StopFetch
  BY <1>1 DEF FramerTakes, BundleReady
<1>3. /\ bundle.base = pc /\ bundle.data = pc /\ pc \in Nat /\ bundle.last \in BOOLEAN
      /\ bundle.count \in 1..BundleWords /\ pc + 4 * bundle.count <= progEnd
      /\ bundle.last <=> (pc + 4 * bundle.count = progEnd)
  BY <1>1, StreamAssumption
  DEF SourceIInv, SourceTypeOK, SourcePcsOK, BundleIsCurrentPath, Bundle, LiveInv
<1>4. Aligned(pc) /\ progStart <= pc
  BY <1>1 DEF SourceIInv, FetchInRange, LiveInv
<1>5. pc = Front + 4 * Len(words) /\ (expectedValid => expectedPc = pc)
  BY <1>1, <1>2 DEF LiveInv, StreamAt
<1>6. BundleOk(bundle)
  BY <1>3, <1>4, <1>5, StreamAssumption DEF BundleOk, CountOk
<1>7. ASSUME NEW i \in DOMAIN Lanes(bundle) PROVE Lanes(bundle)[i] \in DOMAIN image
  <2>1. i \in 1..bundle.count /\ Lanes(bundle)[i] = pc + 4 * (i - 1)
    BY <1>3 DEF Lanes
  <2>2. i - 1 \in Nat /\ i - 1 < bundle.count /\ bundle.count \in Nat
    BY <1>3, <2>1, StreamAssumption
  <2>3. Aligned(pc + 4 * (i - 1))
    BY <1>3, <1>4, <2>2, AlignedStep
  <2>4. progStart \in Nat /\ progEnd \in Nat
    BY <1>1, PlaceIs
  <2>5. pc + 4 * (i - 1) \in Nat /\ progStart <= pc + 4 * (i - 1) /\ pc + 4 * (i - 1) < progEnd
    BY <1>3, <1>4, <2>2, <2>4
  <2>6. image \in Images
    BY DEF BufferInv, Readable
  <2> QED BY <1>1, <2>1, <2>3, <2>5, <2>6, HeaderIs
<1>8. Truthful(bundle)
  BY <1>3, <1>7, StreamAssumption DEF Truthful
<1> QED BY <1>1, <1>2, <1>3, <1>5, <1>6, <1>8

\* The framer drops its stream, appends the bundle or goes on without one.
LEMMA FramerMoves ==
  ASSUME PathInv, NEW clear, FramerCycle(clear), ~Redirecting
  PROVE  \/ framerAbort /\ FramerAbort(clear)
         \/ /\ ~framerAbort /\ bundleValid /\ ~terminalDrain /\ FramerTakes
            /\ FramerAppend(bundle, RecordTaken, clear)
         \/ /\ ~framerAbort /\ ~(bundleValid /\ ~terminalDrain /\ FramerTakes)
            /\ FramerShift(RecordTaken, framerClear, clear)
<1>1. CASE framerAbort
  BY <1>1 DEF FramerCycle, FlushesFramer
<1>2. CASE ~framerAbort /\ bundleValid /\ ~terminalDrain /\ FramerTakes
  <2>1. ~discarding /\ BundleOk(bundle)
    BY <1>2, BundleIsGood
  <2>2. ~FramerReject(bundle, RecordTaken, clear) /\ ~FramerSwallow(bundle, clear)
    BY <2>1 DEF FramerReject, FramerSwallow
  <2>3. \/ FramerAppend(bundle, RecordTaken, clear)
        \/ FramerReject(bundle, RecordTaken, clear)
        \/ FramerSwallow(bundle, clear)
    BY <1>2 DEF FramerCycle, FlushesFramer
  <2> QED BY <1>2, <2>2, <2>3
<1>3. CASE ~framerAbort /\ ~(bundleValid /\ ~terminalDrain /\ FramerTakes)
  BY <1>3 DEF FramerCycle, FlushesFramer
<1> QED BY <1>1, <1>2, <1>3

\* The record taken is one the masks of FramerStream take.
LEMMA TakenInTakes == RecordTaken \in Takes
<1>1. {1} \in SUBSET (1..AdmitSlots) /\ {} \in SUBSET (1..AdmitSlots)
  BY FramerAssumption
<1>2. Accepted({}) = {}
  <2>1. \A i \in Records : i <= i
    BY DEF Records
  <2> QED BY <2>1 DEF Accepted
<1> QED BY <1>1, <1>2, Zenon DEF RecordTaken, Takes

\* The buffer stays readable.
LEMMA RestBuffer ==
  ASSUME PathInv, NEW ready \in BOOLEAN, NEW clear \in BOOLEAN, Rest(ready, clear)
  PROVE  BufferInv'
<1> USE DEF PathInv
<1>1. FramerCycle(clear) /\ image' = image
  BY DEF Rest
<1>2. CASE Redirecting
  <2>1. FramerFlush
    BY <1>1, <1>2 DEF FramerCycle, FlushesFramer
  <2>2. framerError' \in BOOLEAN
    BY <2>1 DEF FramerFlush, BufferInv, FramerTypeOK
  <2> QED BY <1>1, <2>1, <2>2, EmptyKeeps DEF FramerFlush
<1>3. CASE ~Redirecting
  <2>1. CASE framerAbort /\ FramerAbort(clear)
    <3>1. terminalStop' \in BOOLEAN /\ framerError' \in BOOLEAN
      BY <2>1, ErrorType DEF FramerAbort, StopAfterAbort, Bit
    <3>2. terminalPc' \in Nat
      BY <2>1, FoundPcIs DEF FramerAbort, BufferInv, FramerTypeOK
    <3> QED BY <1>1, <2>1, <3>1, <3>2, EmptyKeeps DEF FramerAbort
  <2>2. CASE /\ ~framerAbort /\ bundleValid /\ ~terminalDrain /\ FramerTakes
             /\ FramerAppend(bundle, RecordTaken, clear)
    <3>1. Truthful(bundle)
      BY <2>2, BundleIsGood
    <3> QED BY <1>1, <2>2, <3>1, TakenInTakes, AppendKeeps
  <2>3. CASE FramerShift(RecordTaken, framerClear, clear)
    BY <1>1, <2>3, TakenInTakes, ShiftKeeps
  <2> QED BY <1>1, <1>3, <2>1, <2>2, <2>3, FramerMoves
<1> QED BY <1>2, <1>3

\* What a cycle without a bundle makes of the buffer.
LEMMA ShiftPlace ==
  ASSUME BufferInv, NEW taken, Prefix(taken), NEW clear, FramerShift(taken, FALSE, clear),
         UNCHANGED image
  PROVE  /\ Len(words) \in Nat /\ Len(words') \in Nat /\ AcceptedWords(taken) \in Nat
         /\ words' # << >> => words # << >>
         /\ basePc' = basePc + 4 * AcceptedWords(taken)
         /\ DOMAIN words' = 1..Len(words')
         /\ \A i \in 1..Len(words') : /\ words'[i] = words[i + AcceptedWords(taken)]
                                      /\ i + AcceptedWords(taken) \in DOMAIN words
         /\ AcceptedWords(taken) + Len(words') <= Len(words)
         /\ ~EndFound => AcceptedWords(taken) + Len(words') = Len(words)
         /\ EndFound /\ words' # << >> => EndFound'
         /\ StopFetch => terminalStop'
         /\ (eofSeen' => eofSeen) /\ (expectedValid' => expectedValid /\ expectedPc' = expectedPc)
<1>1. words' = Retained(taken) /\ basePc' = basePc + 4 * AcceptedWords(taken)
  BY DEF FramerShift
<1>2. Readable
  BY DEF BufferInv
<1>3. /\ AcceptedWords(taken) \in Nat /\ EffectiveWords \in Nat /\ words' \in Seq(Nat)
      /\ Len(words') = EffectiveWords - AcceptedWords(taken)
      /\ \A i \in 1..Len(words') : /\ words'[i] = words[i + AcceptedWords(taken)]
                                   /\ i + AcceptedWords(taken) \in DOMAIN words
  BY <1>1, <1>2, RetainedIs
<1>4. /\ Len(words) \in Nat /\ AcceptedWords(taken) \in 0..EffectiveWords
      /\ EffectiveWords \in 0..Len(words) /\ (~EndFound => EffectiveWords = Len(words))
  BY <1>2, TakenEnds, EndIs DEF Readable
<1>5. DOMAIN words' = 1..Len(words') /\ Len(words') \in Nat
  BY <1>3
<1>6. words' # << >> => words # << >>
  <2> SUFFICES ASSUME words = << >> PROVE words' = << >>
    OBVIOUS
  <2>1. Len(words) = 0
    OBVIOUS
  <2>2. Len(words') = 0
    BY <1>3, <1>4, <2>1
  <2> QED BY <1>3, <2>2
<1>7. EndFound /\ words' # << >> => EndFound'
  BY <1>1, <1>2, EndStays
<1>8. StopFetch => terminalStop'
  BY DEF FramerShift, KeepTerminal, Bit
<1>9. (eofSeen' => eofSeen) /\ (expectedValid' => expectedValid /\ expectedPc' = expectedPc)
  BY DEF FramerShift, Bit
<1>10. /\ AcceptedWords(taken) + Len(words') <= Len(words)
       /\ ~EndFound => AcceptedWords(taken) + Len(words') = Len(words)
  BY <1>3, <1>4
<1> QED BY <1>1, <1>3, <1>4, <1>5, <1>6, <1>7, <1>8, <1>9, <1>10

\* What a cycle with a good bundle makes of it.
LEMMA AppendPlace ==
  ASSUME BufferInv, NEW taken, Prefix(taken), NEW b, Truthful(b), NEW clear,
         FramerAppend(b, taken, clear), UNCHANGED image
  PROVE  \E p \in Nat :
         /\ Len(words) \in Nat /\ AcceptedWords(taken) \in Nat /\ b.count \in Nat
         /\ Len(words) = AcceptedWords(taken) + p
         /\ Len(words') = p + b.count /\ DOMAIN words' = 1..(p + b.count)
         /\ \A i \in 1..p : /\ words'[i] = words[i + AcceptedWords(taken)]
                            /\ i + AcceptedWords(taken) \in DOMAIN words
         /\ \A i \in 1..b.count : words'[p + i] = b.base + 4 * (i - 1)
         /\ basePc' = IF p = 0 THEN b.base ELSE basePc + 4 * AcceptedWords(taken)
<1>1. Readable /\ BundleOk(b) /\ ~EndFound
  BY DEF BufferInv, FramerAppend, BundleReady, StopFetch
<1>2. /\ b.count \in Nat /\ Lanes(b) \in Seq(Nat) /\ Len(Lanes(b)) = b.count
      /\ \A i \in 1..b.count : Lanes(b)[i] = b.base + 4 * (i - 1)
  BY <1>1, LanesAre, StreamAssumption
<1>3. /\ Len(words) \in Nat /\ AcceptedWords(taken) \in 0..Len(words)
      /\ EffectiveWords = Len(words)
  BY <1>1, TakenEnds, EndIs DEF Readable
<1>4. PICK n \in Nat, p \in Nat : n = AcceptedWords(taken) /\ Len(words) = n + p
  <2>1. Len(words) - AcceptedWords(taken) \in Nat /\ AcceptedWords(taken) \in Nat
        /\ Len(words) = AcceptedWords(taken) + (Len(words) - AcceptedWords(taken))
    BY <1>3
  <2> QED BY <2>1
<1>5. /\ Retained(taken) \in Seq(Nat) /\ Len(Retained(taken)) = p
      /\ \A i \in 1..p : Retained(taken)[i] = words[i + n] /\ i + n \in DOMAIN words
  <2>1. Len(Retained(taken)) = p
    BY <1>1, <1>3, <1>4, RetainedIs
  <2> QED BY <1>1, <1>4, <2>1, RetainedIs
<1>6. Behind(Retained(taken), Lanes(b), words')
  <2>1. Joining(Retained(taken), Lanes(b), words')
    BY DEF FramerAppend, Joining
  <2> QED BY <1>2, <1>5, <2>1, Joined
<1>7. /\ Len(words') = p + b.count /\ DOMAIN words' = 1..(p + b.count)
      /\ \A i \in 1..p : words'[i] = Retained(taken)[i]
      /\ \A i \in 1..b.count : words'[p + i] = Lanes(b)[i]
  BY <1>2, <1>5, <1>6 DEF Behind
<1>8. Retained(taken) = << >> <=> p = 0
  BY <1>5
<1>9. basePc' = IF p = 0 THEN b.base ELSE basePc + 4 * n
  BY <1>4, <1>8 DEF FramerAppend
<1> QED BY <1>2, <1>3, <1>4, <1>5, <1>7, <1>9

\* Where the record behind the holding registers begins.
LEMMA FrontIs ==
  ASSUME SourceIInv, LiveInv, rangeValid, image \in Images
  PROVE  /\ Front \in Nat /\ Aligned(Front) /\ progStart <= Front /\ Front <= progEnd
         /\ raw.valid \/ decoded.valid =>
              /\ due < progEnd /\ Header(due).need \in 1..4 /\ SizeAt(due) \in 1..4
<1>1. /\ progStart \in Nat /\ progEnd \in Nat /\ due \in Nat /\ Aligned(progEnd)
      /\ Aligned(due) /\ progStart <= due /\ due <= progEnd /\ EntryInv
  BY PlaceIs DEF LiveInv
<1>2. CASE raw.valid \/ decoded.valid
  <2>1. due < progEnd
    BY <1>1, <1>2 DEF EntryInv
  <2>2. Header(due).need \in 1..4
    BY <1>1, <2>1, HeaderIs
  <2>3. SizeAt(due) \in 1..4 /\ due + 4 * SizeAt(due) <= progEnd /\ Aligned(due + 4 * SizeAt(due))
    BY <1>1, <2>1, <2>2, SizeIs
  <2>4. Front = due + 4 * SizeAt(due)
    BY <1>2 DEF Front
  <2> QED BY <1>1, <2>1, <2>2, <2>3, <2>4
<1>3. CASE ~(raw.valid \/ decoded.valid)
  BY <1>1, <1>3 DEF Front
<1> QED BY <1>2, <1>3

\* The action that leaves hands the program on to the record behind it.
LEMMA DueMoves ==
  ASSUME AtOnceInv, EntryInv, ~Redirecting, NEW ready \in BOOLEAN, NEW clear \in BOOLEAN,
         Rest(ready, clear)
  PROVE  /\ due' = (IF decoded.valid THEN Front ELSE due)
         /\ decoded' = (IF DecodeFire THEN Decode(raw)
                        ELSE IF decoded.valid THEN NoDecoded ELSE decoded)
<1>1. ASSUME decoded.valid PROVE Follow(decoded.pc) = Front
  <2>1. decoded.pc = due /\ decoded.head = due
    BY <1>1 DEF EntryInv
  <2> QED BY <1>1, <2>1 DEF Follow, Front, SizeAt
<1>2. decoded.valid => DecodedFire(ready)
  BY DecodedLeaves
<1>3. ~decoded.valid => ~DecodedFire(ready)
  BY DEF DecodedFire, StateFire, BranchFire, BranchIssue, ClusterFire, StateSelected, AdapterValid
<1>4. due' = (IF decoded.valid THEN Front ELSE due)
  BY <1>1, <1>2, <1>3 DEF Rest, HistoryCycle
<1>5. decoded' = IF DecodeFire THEN Decode(raw) ELSE IF decoded.valid THEN NoDecoded ELSE decoded
  BY <1>2, <1>3 DEF Rest, DecodeCycle
<1> QED BY <1>4, <1>5

\* A record fills the raw register, moves on to the decode entry, or leaves.
LEMMA HoldingMoves ==
  ASSUME AtOnceInv, EntryInv, ~Redirecting, NEW ready \in BOOLEAN, NEW clear \in BOOLEAN,
         Rest(ready, clear)
  PROVE  /\ RecordTaken # {} => raw'.valid /\ ~decoded'.valid /\ due' = Front
         /\ RecordTaken = {} /\ decoded.valid => ~raw'.valid /\ ~decoded'.valid /\ due' = Front
         /\ RecordTaken = {} /\ ~decoded.valid =>
              due' = due /\ (raw'.valid \/ decoded'.valid => raw.valid \/ decoded.valid)
         /\ RecordTaken = {} /\ ~decoded.valid /\ raw.valid => raw'.valid \/ decoded'.valid
<1>1. /\ due' = (IF decoded.valid THEN Front ELSE due)
      /\ decoded' = (IF DecodeFire THEN Decode(raw)
                     ELSE IF decoded.valid THEN NoDecoded ELSE decoded)
  BY DueMoves
<1>2. raw' = IF RecordTaken # {}
             THEN [valid |-> TRUE, pc |-> basePc, head |-> words[1], size |-> Present(1)]
             ELSE IF DecodeFire THEN NoRecord ELSE raw
  BY DEF Rest, RawCycle, FlushesRaw
<1>3. ASSUME RecordTaken # {} PROVE raw'.valid /\ ~decoded'.valid /\ due' = Front
  <2>1. ~raw.valid
    BY <1>3 DEF RecordTaken, RecordReady
  <2> QED BY <1>1, <1>2, <1>3, <2>1 DEF DecodeFire, NoDecoded, Front
<1>4. ASSUME RecordTaken = {}, decoded.valid
      PROVE  ~raw'.valid /\ ~decoded'.valid /\ due' = Front
  <2>1. ~raw.valid
    BY <1>4 DEF AtOnceInv
  <2> QED BY <1>1, <1>2, <1>4, <2>1 DEF DecodeFire, NoDecoded
<1>5. ASSUME RecordTaken = {}, ~decoded.valid
      PROVE  /\ due' = due
             /\ raw'.valid \/ decoded'.valid => raw.valid \/ decoded.valid
             /\ raw.valid => raw'.valid \/ decoded'.valid
  <2>1. CASE DecodeFire
    <3>1. raw.valid /\ decoded' = Decode(raw)
      BY <1>1, <2>1 DEF DecodeFire
    <3> QED BY <1>1, <1>5, <3>1 DEF Decode
  <2>2. CASE ~DecodeFire
    BY <1>1, <1>2, <1>5, <2>2
  <2> QED BY <2>1, <2>2
<1> QED BY <1>3, <1>4, <1>5

\* The holding registers move along the program: whatever of them leaves or
\* fills, together with the due address they point to the same words.
LEMMA FrontMoves ==
  ASSUME PathInv, programActive, rangeValid, ~Redirecting, NEW ready \in BOOLEAN,
         NEW clear \in BOOLEAN, Rest(ready, clear)
  PROVE  /\ Front' = Front + 4 * AcceptedWords(RecordTaken)
         /\ EntryInv'
         /\ due' \in Nat /\ Aligned(due') /\ progStart <= due' /\ due' <= progEnd
<1>1. /\ SourceIInv /\ BufferInv /\ AtOnceInv /\ LiveInv /\ Readable /\ image \in Images
  BY DEF PathInv, ActiveInv, BufferInv, Readable
<1>2. /\ progStart \in Nat /\ progEnd \in Nat /\ due \in Nat /\ Aligned(progEnd)
      /\ Aligned(due) /\ progStart <= due /\ due <= progEnd /\ EntryInv
  BY <1>1, PlaceIs DEF LiveInv
<1>3. UNCHANGED <<image, progStart, progEnd>>
  BY DEF Rest, LifecycleIdle, LifecycleRun
<1>4. \A p : SizeAt(p)' = SizeAt(p) /\ Header(p)' = Header(p) /\ EndAllowed(p)' = EndAllowed(p)
  BY <1>3 DEF SizeAt, Header, EndAllowed
<1>5. raw.valid \/ decoded.valid =>
        /\ due < progEnd /\ Header(due).need \in 1..4 /\ SizeAt(due) \in 1..4
        /\ due + 4 * SizeAt(due) <= progEnd /\ Aligned(due + 4 * SizeAt(due))
        /\ due + 4 * SizeAt(due) \in Nat
  <2> SUFFICES ASSUME raw.valid \/ decoded.valid
               PROVE  /\ due < progEnd /\ Header(due).need \in 1..4 /\ SizeAt(due) \in 1..4
                      /\ due + 4 * SizeAt(due) <= progEnd /\ Aligned(due + 4 * SizeAt(due))
                      /\ due + 4 * SizeAt(due) \in Nat
    OBVIOUS
  <2>1. due < progEnd
    BY <1>2 DEF EntryInv
  <2>2. Header(due).need \in 1..4
    BY <1>1, <1>2, <2>1, HeaderIs
  <2>3. SizeAt(due) \in 1..4 /\ due + 4 * SizeAt(due) <= progEnd /\ Aligned(due + 4 * SizeAt(due))
    BY <1>2, <2>1, <2>2, SizeIs
  <2> QED BY <1>2, <2>1, <2>2, <2>3
<1>6. Front \in Nat /\ Aligned(Front) /\ progStart <= Front /\ Front <= progEnd
  BY <1>2, <1>5 DEF Front
<1>8. /\ due' = (IF decoded.valid THEN Front ELSE due)
      /\ decoded' = (IF DecodeFire THEN Decode(raw)
                     ELSE IF decoded.valid THEN NoDecoded ELSE decoded)
  BY <1>1, <1>2, DueMoves
<1>9. due' \in Nat /\ Aligned(due') /\ progStart <= due' /\ due' <= progEnd
  BY <1>2, <1>6, <1>8
\* A record moves into the raw register.
<1>11. CASE RecordTaken # {}
  <2>1. /\ RecordTaken = {1} /\ RecordReady /\ 1 \in Records
        /\ AcceptedWords(RecordTaken) = Present(1)
    BY <1>1, <1>11, TakesFirst
  <2>2. ~raw.valid /\ ~DecodeFire
    BY <2>1 DEF RecordReady, DecodeFire
  <2>3. /\ words[1] = Front /\ basePc = Front /\ Front < progEnd /\ Present(1) = SizeAt(Front)
    BY <1>1, <2>1, FirstIsNext
  <2>4. raw' = [valid |-> TRUE, pc |-> Front, head |-> Front, size |-> SizeAt(Front)]
    BY <1>11, <2>3 DEF Rest, RawCycle, FlushesRaw
  <2>5. due' = Front
    BY <1>8, <2>2 DEF Front
  <2>6. ~decoded'.valid
    BY <1>8, <2>2 DEF NoDecoded
  <2>7. EntryInv'
    BY <1>3, <1>4, <2>3, <2>4, <2>5, <2>6 DEF EntryInv
  <2>8. Front' = Front + 4 * AcceptedWords(RecordTaken)
    BY <1>4, <2>1, <2>3, <2>4, <2>5 DEF Front
  <2> QED BY <1>9, <2>7, <2>8
<1>12. CASE RecordTaken = {} /\ decoded.valid
  <2>1. ~raw.valid /\ ~DecodeFire
    BY <1>1, <1>12 DEF AtOnceInv, DecodeFire
  <2>2. ~raw'.valid /\ ~decoded'.valid
    BY <1>8, <1>12, <2>1 DEF Rest, RawCycle, FlushesRaw, NoDecoded
  <2>3. Front' = Front
    BY <1>8, <1>12, <2>2 DEF Front
  <2>4. EntryInv'
    BY <2>2 DEF EntryInv
  <2>5. AcceptedWords(RecordTaken) = 0
    BY <1>1, <1>12, TakesFirst
  <2> QED BY <1>6, <1>9, <2>3, <2>4, <2>5
<1>13. CASE RecordTaken = {} /\ ~decoded.valid
  <2>1. AcceptedWords(RecordTaken) = 0
    BY <1>1, <1>13, TakesFirst
  <2>2. due' = due
    BY <1>8, <1>13
  <2>3. CASE DecodeFire
    <3>1. raw.valid
      BY <2>3 DEF DecodeFire
    <3>2. raw' = NoRecord /\ decoded' = Decode(raw)
      BY <1>8, <1>13, <2>3 DEF Rest, RawCycle, FlushesRaw
    <3>3. ~raw'.valid /\ decoded'.valid
      BY <3>2 DEF NoRecord, Decode
    <3>4. /\ decoded'.pc = due /\ decoded'.head = due /\ due < progEnd
          /\ decoded'.whole <=> SizeAt(due) = Header(due).need
          /\ decoded'.legal <=> /\ decoded'.whole /\ Header(due).legal
                                /\ Header(due).kind = "END" => EndAllowed(due)
      BY <1>2, <3>1, <3>2 DEF EntryInv, Decode, RecordWhole, RecordLegal
    <3>5. EntryInv'
      BY <1>3, <1>4, <2>2, <3>3, <3>4 DEF EntryInv
    <3>6. Front' = Front
      BY <1>4, <2>2, <3>1, <3>3 DEF Front
    <3> QED BY <1>6, <1>9, <2>1, <3>5, <3>6
  <2>4. CASE ~DecodeFire
    <3>1. raw' = raw /\ decoded' = decoded
      BY <1>8, <1>13, <2>4 DEF Rest, RawCycle, FlushesRaw
    <3>2. EntryInv'
      BY <1>2, <1>3, <1>4, <2>2, <3>1 DEF EntryInv
    <3>3. Front' = Front
      BY <1>4, <2>2, <3>1 DEF Front
    <3> QED BY <1>6, <1>9, <2>1, <3>2, <3>3
  <2> QED BY <2>3, <2>4
<1> QED BY <1>11, <1>12, <1>13

\* With the words that leave at the front and the bundle that comes at the
\* back, the buffer stays the part of the range between the two.
LEMMA RestBufferAt ==
  ASSUME PathInv, programActive, rangeValid, ~Redirecting, NEW ready \in BOOLEAN,
         NEW clear \in BOOLEAN, Rest(ready, clear), SourceStays
  PROVE  BufferAt' /\ StreamAt'
<1>1. /\ BufferInv /\ LiveInv /\ Readable /\ UNCHANGED image /\ FramerCycle(clear)
      /\ terminalDrain => terminalStop
      /\ framerAbort => ~running
      /\ framerClear = FALSE
  BY DEF PathInv, ActiveInv, BufferInv, Rest
<1>2. PICK n : n = AcceptedWords(RecordTaken)
  OBVIOUS
<1>3. Front \in Nat /\ Front' = Front + 4 * n
  <2>1. Front \in Nat
    BY <1>1, FrontIs DEF PathInv, Readable
  <2>2. Front' = Front + 4 * AcceptedWords(RecordTaken)
    BY FrontMoves
  <2> QED BY <1>2, <2>1, <2>2
<1>4. Prefix(RecordTaken)
  BY <1>1, TakesFirst
<1>5. progEnd \in Nat /\ progEnd' = progEnd
  BY <1>1, PlaceIs DEF PathInv, Rest, LifecycleIdle, LifecycleRun
<1>6. (running' => running) /\ ((pc' = pc /\ ~BundleFire) \/ (BundleFire /\ pc' = pc + 4 * bundle.count))
  <2>1. running' => running
    BY Zenon DEF SourceStays
  <2> QED BY <2>1 DEF SourceStays
<1>7. /\ words # << >> =>
           /\ basePc = Front
           /\ \A i \in DOMAIN words : words[i] = basePc + 4 * (i - 1)
           /\ basePc + 4 * Len(words) <= progEnd
           /\ eofSeen => basePc + 4 * Len(words) = progEnd \/ EndFound
      /\ running /\ ~StopFetch => pc = Front + 4 * Len(words) /\ (expectedValid => expectedPc = pc)
  BY <1>1 DEF LiveInv, BufferAt, StreamAt, RecordPc
<1>8. CASE framerAbort /\ FramerAbort(clear)
  <2>1. words' = << >> /\ ~running'
    BY <1>1, <1>6, <1>8 DEF FramerAbort, NoStream
  <2> QED BY <2>1 DEF BufferAt, StreamAt
<1>9. CASE /\ ~framerAbort /\ bundleValid /\ ~terminalDrain /\ FramerTakes
           /\ FramerAppend(bundle, RecordTaken, clear)
  <2>1. /\ Truthful(bundle) /\ bundle.base = pc /\ pc \in Nat /\ bundle.last \in BOOLEAN
        /\ pc = Front + 4 * Len(words) /\ pc + 4 * bundle.count <= progEnd
        /\ bundle.last <=> (pc + 4 * bundle.count = progEnd)
    BY <1>9, BundleIsGood
  <2>2. BundleFire
    BY <1>9 DEF BundleFire, BundleTaken
  <2>14. PICK p \in Nat :
         /\ Len(words) \in Nat /\ AcceptedWords(RecordTaken) \in Nat /\ bundle.count \in Nat
         /\ Len(words) = AcceptedWords(RecordTaken) + p
         /\ Len(words') = p + bundle.count /\ DOMAIN words' = 1..(p + bundle.count)
         /\ \A i \in 1..p : /\ words'[i] = words[i + AcceptedWords(RecordTaken)]
                            /\ i + AcceptedWords(RecordTaken) \in DOMAIN words
         /\ \A i \in 1..bundle.count : words'[p + i] = bundle.base + 4 * (i - 1)
         /\ basePc' = IF p = 0 THEN bundle.base ELSE basePc + 4 * AcceptedWords(RecordTaken)
    BY <1>1, <1>4, <1>9, <2>1, AppendPlace
  <2>4. PICK c \in Nat : c = bundle.count
    BY <2>14
  <2>3. /\ Len(words) \in Nat /\ n \in Nat /\ Len(words) = n + p
        /\ Len(words') = p + c /\ DOMAIN words' = 1..(p + c)
        /\ \A i \in 1..p : words'[i] = words[i + n] /\ i + n \in DOMAIN words
        /\ \A i \in 1..c : words'[p + i] = pc + 4 * (i - 1)
        /\ basePc' = IF p = 0 THEN pc ELSE basePc + 4 * n
    BY <1>2, <2>1, <2>4, <2>14
  <2>5. pc' = pc + 4 * c
    BY <1>6, <2>2, <2>4
  <2>6. p # 0 => words # << >>
    BY <2>3
  <2>7. basePc' = Front'
    <3>1. CASE p = 0
      BY <1>3, <2>1, <2>3, <3>1
    <3>2. CASE p # 0
      BY <1>3, <1>7, <2>3, <2>6, <3>2
    <3> QED BY <3>1, <3>2
  <2>8. basePc' \in Nat /\ pc = basePc' + 4 * p
    BY <1>3, <2>1, <2>3, <2>7
  <2>9. basePc' + 4 * Len(words') = pc + 4 * c
    BY <2>1, <2>3, <2>4, <2>8, SMTT(20)
  <2>10. ASSUME NEW i \in DOMAIN words' PROVE words'[i] = basePc' + 4 * (i - 1)
    <3>1. CASE i \in 1..p
      <4>1. words'[i] = words[i + n] /\ i + n \in DOMAIN words
        BY <2>3, <3>1
      <4>2. words # << >> /\ words[i + n] = basePc + 4 * (i + n - 1)
        BY <1>7, <2>3, <2>6, <3>1, <4>1
      <4>3. basePc = Front /\ basePc' = basePc + 4 * n
        BY <1>7, <2>3, <3>1, <4>2
      <4> QED BY <1>3, <2>3, <3>1, <4>1, <4>2, <4>3
    <3>2. CASE i \notin 1..p
      <4>1. i - p \in 1..c /\ i = p + (i - p) /\ i \in Nat
        <5>1. i \in 1..(p + c)
          BY <2>3
        <5> QED BY <3>2, <5>1
      <4>2. words'[p + (i - p)] = pc + 4 * ((i - p) - 1)
        BY <2>3, <4>1
      <4> QED BY <2>3, <2>8, <4>1, <4>2, SMTT(20)
    <3> QED BY <3>1, <3>2
  <2>11. /\ eofSeen' = bundle.last /\ expectedPc' = bundle.base + 4 * bundle.count
    BY <1>9 DEF FramerAppend
  <2>12. BufferAt'
    <3>1. eofSeen' => basePc' + 4 * Len(words') = progEnd'
      BY <1>5, <2>1, <2>4, <2>9, <2>11
    <3>2. basePc' + 4 * Len(words') <= progEnd'
      BY <1>5, <2>1, <2>4, <2>9
    <3> QED BY <2>7, <2>10, <3>1, <3>2 DEF BufferAt, RecordPc
  <2>13. StreamAt'
    <3>1. pc' = Front' + 4 * Len(words')
      BY <2>5, <2>7, <2>9
    <3>2. expectedPc' = pc'
      BY <2>1, <2>4, <2>5, <2>11
    <3> QED BY <3>1, <3>2 DEF StreamAt
  <2> QED BY <2>12, <2>13
<1>10. CASE /\ ~framerAbort /\ ~(bundleValid /\ ~terminalDrain /\ FramerTakes)
            /\ FramerShift(RecordTaken, framerClear, clear)
  <2>1. FramerShift(RecordTaken, FALSE, clear)
    BY <1>1, <1>10
  <2>2. /\ Len(words) \in Nat /\ Len(words') \in Nat /\ n \in Nat
        /\ words' # << >> => words # << >>
        /\ basePc' = basePc + 4 * n
        /\ DOMAIN words' = 1..Len(words')
        /\ \A i \in 1..Len(words') : words'[i] = words[i + n] /\ i + n \in DOMAIN words
        /\ n + Len(words') <= Len(words)
        /\ ~EndFound => n + Len(words') = Len(words)
        /\ EndFound /\ words' # << >> => EndFound'
        /\ StopFetch => terminalStop'
        /\ (eofSeen' => eofSeen) /\ (expectedValid' => expectedValid /\ expectedPc' = expectedPc)
    BY <1>1, <1>2, <1>4, <2>1, ShiftPlace
  <2>3. BufferAt'
    <3> SUFFICES ASSUME words' # << >>
                 PROVE  /\ basePc' = Front'
                        /\ \A i \in DOMAIN words' : words'[i] = basePc' + 4 * (i - 1)
                        /\ basePc' + 4 * Len(words') <= progEnd'
                        /\ eofSeen' => basePc' + 4 * Len(words') = progEnd' \/ EndFound'
      BY DEF BufferAt, RecordPc
    <3>1. words # << >> /\ basePc = Front /\ basePc + 4 * Len(words) <= progEnd
      BY <1>7, <2>2
    <3>2. basePc' = Front'
      BY <1>3, <2>2, <3>1
    <3>3. ASSUME NEW i \in DOMAIN words' PROVE words'[i] = basePc' + 4 * (i - 1)
      <4>1. i \in Nat /\ words'[i] = words[i + n] /\ i + n \in DOMAIN words
        BY <2>2
      <4>2. words[i + n] = basePc + 4 * (i + n - 1)
        <5>1. \A k \in DOMAIN words : words[k] = basePc + 4 * (k - 1)
          BY <1>7, <3>1
        <5>2. PICK k : k = i + n
          OBVIOUS
        <5>3. words[k] = basePc + 4 * (k - 1)
          BY <4>1, <5>1, <5>2
        <5> QED BY <2>2, <4>1, <5>2, <5>3
      <4> QED BY <1>3, <2>2, <3>1, <4>1, <4>2
    <3>4. basePc' + 4 * Len(words') <= progEnd'
      BY <1>3, <1>5, <2>2, <3>1
    <3>5. eofSeen' => basePc' + 4 * Len(words') = progEnd' \/ EndFound'
      <4>1. CASE EndFound
        BY <2>2, <4>1
      <4>2. CASE ~EndFound
        <5>1. eofSeen' => basePc + 4 * Len(words) = progEnd
          BY <1>7, <2>2, <3>1, <4>2
        <5> QED BY <1>3, <1>5, <2>2, <3>1, <4>2, <5>1
      <4> QED BY <4>1, <4>2
    <3> QED BY <3>2, <3>3, <3>4, <3>5
  <2>4. StreamAt'
    <3> SUFFICES ASSUME running', ~StopFetch'
                 PROVE  /\ pc' = Front' + 4 * Len(words')
                        /\ expectedValid' => expectedPc' = pc'
      BY DEF StreamAt
    <3>1. ~StopFetch /\ ~EndFound
      BY <2>2 DEF StopFetch
    <3>2. ~BundleFire
      BY <1>1, <1>10, <3>1 DEF BundleFire, BundleTaken, StopFetch
    <3>3. pc' = pc
      BY <1>6, <3>2
    <3>4. pc = Front + 4 * Len(words) /\ (expectedValid => expectedPc = pc)
      BY <1>6, <1>7, <3>1
    <3>5. n + Len(words') = Len(words)
      BY <2>2, <3>1
    <3> QED BY <1>3, <2>2, <3>3, <3>4, <3>5, SMTT(20)
  <2> QED BY <2>3, <2>4
<1> QED BY <1>1, <1>8, <1>9, <1>10, FramerMoves

\* While a program runs no error of the framer or the store appears, an END
\* that shows stops the fetch, and a failure comes with a fetch that stopped.
LEMMA RestFlags ==
  ASSUME PathInv, programActive, ~Redirecting, NEW ready \in BOOLEAN,
         NEW clear \in BOOLEAN, Rest(ready, clear), SourceStays
  PROVE  /\ framerError' = FALSE /\ storeError' = FALSE /\ discarding' = FALSE
         /\ framerClear' = FALSE
         /\ terminalDrain' => terminalStop'
         /\ transportFailure' \/ storeFault' \/ framerAbort' => ~running'
<1>1. /\ framerError = FALSE /\ storeError = FALSE /\ discarding = FALSE /\ framerClear = FALSE
      /\ terminalDrain => terminalStop
      /\ transportFailure \/ storeFault \/ framerAbort => ~running
      /\ rangeValid => sourceError = FALSE
  BY DEF PathInv, ActiveInv
<1>2. FramerCycle(clear) /\ StoreCycle(clear) /\ GlueCycle(FALSE, clear) /\ LifecycleRun(ready)
  BY DEF Rest, LifecycleIdle
<1>3. /\ framerError' = FALSE /\ discarding' = FALSE
      /\ StopFetch => terminalStop'
  <2>1. CASE framerAbort /\ FramerAbort(clear)
    BY <1>1, <2>1 DEF FramerAbort, SetFramerError, StopAfterAbort, Bit
  <2>2. CASE FramerAppend(bundle, RecordTaken, clear)
    <3>1. ~StopFetch
      BY <1>1, <2>2 DEF FramerAppend, BundleReady
    <3> QED BY <1>1, <2>2, <3>1 DEF FramerAppend, SetFramerError, Bit
  <2>3. CASE FramerShift(RecordTaken, framerClear, clear)
    BY <1>1, <2>3 DEF FramerShift, SetFramerError, KeepTerminal, Bit
  <2> QED BY <1>2, <2>1, <2>2, <2>3, FramerMoves
<1>4. storeError' = FALSE
  BY <1>1, <1>2 DEF StoreCycle, Sticky, Bit
<1>5. framerClear' = FALSE
  BY <1>2 DEF GlueCycle, ClearsFramer, Bit
<1>6. terminalDrain' => terminalStop'
  <2>1. terminalDrain' => StopFetch \/ terminalDrain
    BY <1>2 DEF GlueCycle, Bit
  <2>2. terminalDrain => StopFetch
    BY <1>1 DEF StopFetch
  <2> QED BY <1>3, <2>1, <2>2
<1>7. transportFailure \/ TransportFailureNow => ~running
  <2>1. ~rangeValid => ~running
    BY DEF PathInv, SourceIInv, FetchInRange, SourceRunning
  <2> QED BY <1>1, <2>1 DEF TransportFailureNow
<1>8. running' => running
  BY Zenon DEF SourceStays
<1>9. transportFailure' => transportFailure \/ TransportFailureNow
  BY <1>2 DEF LifecycleRun, ClosingCycle, Revoked, Bit
<1>10. framerAbort' => transportFailure \/ TransportFailureNow
  BY <1>2 DEF GlueCycle, Bit
<1>11. storeFault' => storeFault \/ ~running'
  BY DEF SourceStays
<1>12. storeFault => TransportFailureNow
  BY DEF TransportFailureNow
<1>13. transportFailure' \/ storeFault' \/ framerAbort' => ~running'
  BY <1>7, <1>8, <1>9, <1>10, <1>11, <1>12
<1> QED BY <1>3, <1>4, <1>5, <1>6, <1>13

\* A bad range brings nothing.
LEMMA RestEmpty ==
  ASSUME PathInv, programActive, ~rangeValid, NEW ready \in BOOLEAN,
         NEW clear \in BOOLEAN, Rest(ready, clear)
  PROVE  words' = << >> /\ ~raw'.valid /\ ~decoded'.valid
<1>1. /\ words = << >> /\ ~raw.valid /\ ~decoded.valid /\ BufferInv /\ Readable
      /\ framerClear = FALSE /\ ~bundleValid
  BY DEF PathInv, ActiveInv, BufferInv, SourceIInv, FetchInRange, SourceRunning
<1>2. ~Redirecting
  BY <1>1 DEF Redirecting, BranchFire, BranchIssue, AdapterValid
<1>3. RecordTaken = {} /\ Prefix(RecordTaken)
  BY <1>1, TakesFirst
<1>4. words' = << >>
  <2>1. CASE framerAbort /\ FramerAbort(clear)
    BY <2>1 DEF FramerAbort, NoStream
  <2>2. CASE FramerShift(RecordTaken, framerClear, clear)
    <3>1. FramerShift(RecordTaken, FALSE, clear) /\ UNCHANGED image
      BY <1>1, <2>2 DEF Rest
    <3> QED BY <1>1, <1>3, <3>1, ShiftPlace
  <2>3. FramerCycle(clear)
    BY DEF Rest
  <2> QED BY <1>1, <1>2, <2>1, <2>2, <2>3, FramerMoves
<1>5. ~raw'.valid
  BY <1>1, <1>3 DEF Rest, RawCycle, NoRecord
<1>6. ~decoded'.valid
  BY <1>1 DEF Rest, DecodeCycle, DecodeFire, NoDecoded
<1> QED BY <1>4, <1>5, <1>6

\* A program is not closed while its fetch runs.
LEMMA RestRuns ==
  ASSUME PathInv, NEW ready \in BOOLEAN, NEW clear \in BOOLEAN, Rest(ready, clear)
  PROVE  /\ programActive' => programActive
         /\ SourceRunning => programActive'
<1>1. programActive' => programActive
  BY DEF Rest, LifecycleIdle, LifecycleRun
<1>2. ASSUME SourceRunning PROVE programActive'
  <2>1. programActive
    BY <1>2 DEF PathInv
  <2>2. programActive' = Bit(~FinishSuccess /\ ~FinishFailure)
    BY <2>1 DEF Rest, LifecycleIdle, LifecycleRun
  <2>3. ~FinishSuccess /\ ~FinishFailure
    BY <1>2 DEF FinishSuccess, FinishFailure, Settled
  <2> QED BY <2>2, <2>3 DEF Bit
<1> QED BY <1>1, <1>2

\* Every cycle without a launch or a redirect keeps the invariant.
LEMMA RestPath ==
  ASSUME PathInv, WrapperNext, ~LaunchCycle, ~Redirecting
  PROVE  PathInv'
<1>1. /\ SourceIInv' /\ SourceStays
      /\ \E ready, clear \in BOOLEAN : Rest(ready, clear)
  BY SourceMoves
<1>2. PICK ready \in BOOLEAN, clear \in BOOLEAN : Rest(ready, clear)
  BY <1>1
<1>3. BufferInv' /\ AtOnceInv'
  BY <1>2, RestBuffer, RestAtOnce DEF PathInv
<1>4. SourceRunning' => programActive'
  BY <1>1, <1>2, RestRuns DEF SourceStays
<1>5. ASSUME programActive' PROVE ActiveInv'
  <2>1. programActive
    BY <1>2, <1>5, RestRuns
  <2>2. /\ framerError' = FALSE /\ storeError' = FALSE /\ discarding' = FALSE
        /\ framerClear' = FALSE
        /\ terminalDrain' => terminalStop'
        /\ transportFailure' \/ storeFault' \/ framerAbort' => ~running'
    BY <1>1, <1>2, <2>1, RestFlags
  <2>3. rangeValid' = rangeValid /\ UNCHANGED <<startPc, endPc, progStart, progEnd>>
    BY <1>1, <1>2 DEF SourceStays, Rest, LifecycleIdle, LifecycleRun
  <2>4. CASE rangeValid
    <3>1. sourceError = FALSE /\ LiveInv
      BY <2>1, <2>4 DEF PathInv, ActiveInv
    <3>2. sourceError' = FALSE
      BY <1>1, <3>1 DEF SourceStays
    <3>3. /\ EntryInv' /\ due' \in Nat /\ Aligned(due') /\ progStart <= due' /\ due' <= progEnd
      BY <1>2, <2>1, <2>4, FrontMoves
    <3>4. BufferAt' /\ StreamAt'
      BY <1>1, <1>2, <2>1, <2>4, RestBufferAt
    <3>5. LiveInv'
      BY <2>3, <3>1, <3>3, <3>4 DEF LiveInv, Aligned
    <3> QED BY <2>2, <2>3, <2>4, <3>2, <3>5 DEF ActiveInv
  <2>5. CASE ~rangeValid
    <3>1. words' = << >> /\ ~raw'.valid /\ ~decoded'.valid
      BY <1>2, <2>1, <2>5, RestEmpty
    <3> QED BY <2>2, <2>3, <2>5, <3>1 DEF ActiveInv
  <2> QED BY <2>4, <2>5
<1> QED BY <1>1, <1>3, <1>4, <1>5 DEF PathInv

\* A branch that is followed leaves nothing of the old path behind: all parts
\* begin anew at its target.
LEMMA RedirectPath ==
  ASSUME PathInv, WrapperNext, ~LaunchCycle, Redirecting
  PROVE  /\ PathInv'
         /\ words' = << >> /\ terminalStop' = FALSE /\ framesDone' = FALSE
         /\ ~raw'.valid /\ ~decoded'.valid
         /\ eofDone' = FALSE /\ boundaryError' = FALSE /\ transportFailure' = FALSE
         /\ storeFault' = FALSE /\ framerAbort' = FALSE /\ rangeValid'
         /\ deliveryDone' => Front' = progEnd'
<1>1. /\ programActive /\ decoded.valid /\ NextPcOk
      /\ rangeValid /\ sourceError = FALSE /\ LiveInv
      /\ framerError = FALSE /\ storeError = FALSE
  BY DEF Redirecting, BranchFire, BranchIssue, AdapterValid, PathInv, ActiveInv
<1>2. Commits
  BY <1>1, NeverRefused DEF PathInv, RefusedRedirect, Commits
<1>3. PICK ready \in BOOLEAN, clear \in BOOLEAN :
        /\ \/ SourceRedirect(NextPc, FALSE, clear) /\ UNCHANGED store
           \/ SourceRedirect(NextPc, TRUE, clear) /\ StoreAnswer
        /\ Rest(ready, clear)
  BY <1>2 DEF WrapperNext, RedirectCycle, RequestCycle, ResponseCycle, TransferCycle, QuietCycle
<1>4. /\ progStart \in Nat /\ progEnd \in Nat /\ due \in Nat /\ decoded.pc = due
      /\ decoded.head = due /\ due < progEnd /\ Aligned(due) /\ progStart <= due
  BY <1>1, PlaceIs DEF PathInv, LiveInv, EntryInv
<1>5. Header(due).arg \in Int
  BY <1>1, <1>4, HeaderIs DEF PathInv, BufferInv, Readable
<1>6. NextPc \in Nat /\ Aligned(NextPc) /\ progStart <= NextPc /\ NextPc <= progEnd
  <2>1. NextPc \in Int
    BY <1>4, <1>5 DEF NextPc
  <2>2. Aligned(NextPc) /\ progStart <= NextPc /\ NextPc <= progEnd
    BY <1>1 DEF NextPcOk
  <2> QED BY <1>4, <2>1, <2>2
<1> PICK t \in Nat : t = NextPc /\ Aligned(t) /\ progStart <= t /\ t <= progEnd
  BY <1>6
<1>7. \/ SourceRedirect(t, FALSE, clear) /\ UNCHANGED store
      \/ SourceRedirect(t, TRUE, clear) /\ StoreAnswer
  BY <1>3
<1>8. SourceIInv'
  BY <1>7, RedirectInv DEF PathInv
<1>9. /\ pc' = t /\ storeFault' = FALSE /\ sourceError' = FALSE
      /\ UNCHANGED <<startPc, endPc, rangeValid>>
  BY <1>1, <1>7 DEF SourceRedirect, SetSourceError, Sticky, Bit
<1>10. BufferInv' /\ AtOnceInv'
  BY <1>3, RestBuffer, RestAtOnce DEF PathInv
<1>11. /\ words' = << >> /\ expectedValid' = FALSE /\ discarding' = FALSE /\ framerError' = FALSE
  BY <1>1, <1>3 DEF Rest, FramerCycle, FlushesFramer, FramerFlush, NoStream
<1>12. /\ programActive' = TRUE /\ transportFailure' = FALSE /\ UNCHANGED <<progStart, progEnd>>
  BY <1>1, <1>3
  DEF Rest, LifecycleIdle, LifecycleRun, ClosingCycle, Revoked, FinishSuccess, FinishFailure,
      Settled, Bit
<1>13. /\ terminalDrain' = FALSE /\ framerAbort' = FALSE /\ framerClear' = FALSE
       /\ storeError' = FALSE
  BY <1>1, <1>3 DEF Rest, GlueCycle, DrainStops, ClearsFramer, StoreCycle, Sticky, Bit
<1>14. DecodedFire(ready) /\ ~DecodeFire
  BY DEF DecodedFire, DecodeFire, Redirecting
<1>15. raw' = NoRecord /\ decoded' = NoDecoded
  BY <1>3, <1>14 DEF Rest, RawCycle, FlushesRaw, DecodeCycle
<1>16. due' = t
  BY <1>3, <1>14 DEF Rest, HistoryCycle, Follow
<1>17. ~raw'.valid /\ ~decoded'.valid
  BY <1>15 DEF NoRecord, NoDecoded
<1>18. Front' = t
  BY <1>16, <1>17 DEF Front
<1>19. EntryInv' /\ BufferAt'
  BY <1>11, <1>17 DEF EntryInv, BufferAt
<1>20. StreamAt'
  <2>1. Len(words') = 0
    BY <1>11
  <2> QED BY <1>9, <1>11, <1>18, <2>1 DEF StreamAt
<1>21. LiveInv'
  BY <1>1, <1>9, <1>12, <1>16, <1>19, <1>20 DEF LiveInv, Aligned
<1>22. ActiveInv'
  BY <1>1, <1>9, <1>11, <1>12, <1>13, <1>21 DEF ActiveInv
<1>23. PathInv'
  BY <1>8, <1>10, <1>12, <1>22 DEF PathInv
<1>24. terminalStop' = FALSE /\ framesDone' = FALSE
  BY <1>3 DEF Rest, FramerCycle, FlushesFramer, FramerFlush
<1>25. eofDone' = FALSE /\ boundaryError' = FALSE
  BY <1>1, <1>3 DEF Rest, LifecycleIdle, LifecycleRun, ClosingCycle, Revoked, Bit
<1>26. deliveryDone' => Front' = progEnd'
  <2>1. deliveryDone' => t = endPc
    BY <1>7 DEF SourceRedirect, Bit
  <2> QED BY <1>1, <1>12, <1>18, <2>1 DEF LiveInv
<1> QED BY <1>1, <1>9, <1>11, <1>12, <1>13, <1>17, <1>23, <1>24, <1>25, <1>26

\* A launch finds every part empty, of its host's making where need be, and
\* sets all of them on the first record of the range.
LEMMA LaunchPath ==
  ASSUME PathInv, LaunchCycle, HostClears = TRUE, StaleLaunch = FALSE
  PROVE  /\ PathInv'
         /\ words' = << >> /\ terminalStop' = FALSE /\ framesDone' = FALSE
         /\ ~raw'.valid /\ ~decoded'.valid /\ EnginesIdle'
         /\ EnginesIdle /\ UNCHANGED <<canonical, ctrl, cpl>>
         /\ programActive' = TRUE /\ programDone' = FALSE /\ programFailed' = FALSE
         /\ eofDone' = FALSE /\ endRetired' = FALSE /\ boundaryError' = FALSE
         /\ transportFailure' = FALSE /\ framerAbort' = FALSE
         /\ ~rangeValid' \/ storeFault' => cut'
         /\ deliveryDone' => Front' = progEnd'
<1>1. PICK s \in PcInputs, e \in PcInputs, clear \in BOOLEAN :
        /\ StartReadyNow
        /\ SourceStart(s, e, clear) /\ UNCHANGED store
        /\ FramerShift({}, FALSE, clear)
        /\ StoreCycle(clear) /\ GlueCycle(TRUE, clear)
        /\ expectedValid => StaleLaunch
        /\ HostClears => ~sourceError /\ ~framerError /\ ~storeError'
        /\ LifecycleStart(s, e)
        /\ due' = s /\ cut' = Bit(~RangeOk(s, e))
        /\ ControllerStall(FALSE, clear)
        /\ UNCHANGED <<image, raw, decoded, localVars>>
  BY DEF LaunchCycle
<1>2. s \in Nat /\ e \in Nat
  BY StreamAssumption
<1>3. /\ ~programActive /\ ~raw.valid /\ ~decoded.valid /\ words = << >> /\ ~discarding
      /\ ~terminalStop /\ ~running
  BY <1>1 DEF StartReadyNow, FramerIdle, StartReady
<1>4. ~expectedValid /\ ~sourceError /\ ~framerError /\ ~storeError'
  BY <1>1
<1>5. SourceIInv'
  BY <1>1, StartInv DEF PathInv
<1>6. BufferInv /\ Prefix({}) /\ {} \in Takes
  <2>1. BufferInv /\ Readable
    BY DEF PathInv, BufferInv
  <2>2. \A i \in Records : i <= i
    BY DEF Records
  <2>3. Accepted({}) = {}
    BY <2>2 DEF Accepted
  <2>4. {} \in Takes
    <3>1. {} \in SUBSET (1..AdmitSlots)
      OBVIOUS
    <3> QED BY <2>3, <3>1, Zenon DEF Takes
  <2> QED BY <2>1, <2>4, AcceptedIsPrefix
<1>7. BufferInv'
  BY <1>1, <1>6, ShiftKeeps
<1>8. words' = << >> /\ ~expectedValid'
  BY <1>1, <1>3, <1>4, <1>6, ShiftPlace
<1>9. discarding' = FALSE /\ framerError' = FALSE
  <2>1. discarding \in BOOLEAN /\ framerError \in BOOLEAN
    BY <1>6 DEF BufferInv, FramerTypeOK
  <2> QED BY <1>1, <1>3, <1>4, <2>1 DEF FramerShift, SetFramerError, Bit
<1>10. AtOnceInv'
  <2>1. WrapperNext
    BY DEF WrapperNext
  <2> QED BY <2>1, AtOnceStep DEF PathInv
<1>11. /\ programActive' = TRUE /\ progStart' = s /\ progEnd' = e /\ due' = s
       /\ transportFailure' = FALSE
  BY <1>1 DEF LifecycleStart
<1>12. /\ storeError' = FALSE /\ framerClear' = FALSE /\ framerAbort' = FALSE
       /\ terminalDrain' = FALSE
  <2>1. storeError' = FALSE
    BY <1>1, <1>4 DEF StoreCycle, Sticky, Bit
  <2> QED BY <1>1, <1>3, <2>1 DEF GlueCycle, ClearsFramer, Halted, DrainStops, Bit
<1>13. ~raw'.valid /\ ~decoded'.valid
  BY <1>1, <1>3
<1>14. /\ programDone' = FALSE /\ programFailed' = FALSE /\ eofDone' = FALSE
       /\ endRetired' = FALSE /\ boundaryError' = FALSE
  BY <1>1 DEF LifecycleStart
<1>15. terminalStop' = FALSE /\ framesDone' = FALSE
  <2>1. ~StopFetch
    BY <1>3 DEF StopFetch, EndFound, Records
  <2> QED BY <1>1, <2>1 DEF FramerShift, KeepTerminal, Bit
<1>16. EnginesIdle /\ EnginesIdle' /\ UNCHANGED <<canonical, ctrl, cpl>>
  BY <1>1
  DEF StartReadyNow, EnginesIdle, StateBusy, BranchBusy, ControllerBusy, ControllerStall, localVars
<1>17. CASE RangeOk(s, e)
  <2>1. /\ pc' = s /\ startPc' = s /\ endPc' = e /\ storeFault' = FALSE /\ sourceError' = FALSE
        /\ rangeValid' = TRUE
    BY <1>1, <1>4, <1>17 DEF SourceStart, SetSourceError, Sticky, Bit
  <2>2. Aligned(s) /\ s <= e
    BY <1>17 DEF RangeOk
  <2>3. EntryInv' /\ BufferAt'
    BY <1>8, <1>13 DEF EntryInv, BufferAt
  <2>4. StreamAt'
    <3>1. Len(words') = 0
      BY <1>8
    <3>2. Front' = s
      BY <1>11, <1>13 DEF Front
    <3> QED BY <1>2, <1>8, <2>1, <3>1, <3>2 DEF StreamAt
  <2>5. LiveInv'
    BY <1>2, <1>11, <2>1, <2>2, <2>3, <2>4 DEF LiveInv, Aligned
  <2>6. ActiveInv'
    BY <1>9, <1>11, <1>12, <2>1, <2>5 DEF ActiveInv
  <2>7. PathInv'
    BY <1>5, <1>7, <1>10, <1>11, <2>6 DEF PathInv
  <2>8. deliveryDone' => Front' = progEnd'
    <3>1. deliveryDone' => s = e
      BY <1>1, <1>17 DEF SourceStart, Bit
    <3> QED BY <1>11, <1>13, <3>1 DEF Front
  <2> QED BY <1>8, <1>11, <1>12, <1>13, <1>14, <1>15, <1>16, <2>1, <2>7, <2>8
<1>18. CASE ~RangeOk(s, e)
  <2>1. rangeValid' = FALSE /\ running' = running
    BY <1>1, <1>18 DEF SourceStart, flowVars
  <2>2. ~running'
    BY <1>3, <2>1
  <2>3. ActiveInv'
    BY <1>8, <1>9, <1>12, <1>13, <2>1, <2>2 DEF ActiveInv
  <2>4. PathInv'
    BY <1>5, <1>7, <1>10, <1>11, <2>3 DEF PathInv
  <2>5. cut' /\ ~deliveryDone'
    BY <1>1, <1>18 DEF SourceStart, Bit
  <2> QED BY <1>8, <1>11, <1>12, <1>13, <1>14, <1>15, <1>16, <2>4, <2>5
<1> QED BY <1>17, <1>18

\* It holds before the first launch.
LEMMA PathInit == WrapperInit => PathInv
<1> SUFFICES ASSUME WrapperInit PROVE PathInv
  OBVIOUS
<1>1. SourceIInv
  BY SourceInitInv DEF WrapperInit
<1>2. BufferInv
  BY BufferInit DEF WrapperInit
<1>3. AtOnceInv
  BY AtOnceInit
<1>4. ~SourceRunning /\ ~programActive
  BY DEF WrapperInit, FetchInit, SourceInit, SourceRunning
<1> QED BY <1>1, <1>2, <1>3, <1>4 DEF PathInv

\* Every step keeps it.
LEMMA PathStep ==
  ASSUME HostClears = TRUE, StaleLaunch = FALSE
  PROVE  PathInv /\ [WrapperNext]_wrapperVars => PathInv'
<1> SUFFICES ASSUME PathInv, [WrapperNext]_wrapperVars PROVE PathInv'
  OBVIOUS
<1>1. CASE LaunchCycle
  BY <1>1, LaunchPath
<1>2. CASE WrapperNext /\ ~LaunchCycle /\ Redirecting
  BY <1>2, RedirectPath
<1>3. CASE WrapperNext /\ ~LaunchCycle /\ ~Redirecting
  BY <1>3, RestPath
<1>4. CASE UNCHANGED wrapperVars
  <2>1. SourceIInv'
    BY <1>4, SourceStepInv DEF PathInv, wrapperVars
  <2>2. BufferInv' /\ EndFound' = EndFound
    BY <1>4, BufferStays DEF PathInv, wrapperVars
  <2>3. AtOnceInv'
    BY AtOnceStep DEF PathInv
  <2>4. /\ UNCHANGED <<pc, startPc, endPc, rangeValid, running, outstanding, bundleValid,
                       storeFault, sourceError>>
        /\ UNCHANGED <<image, words, basePc, expectedPc, expectedValid, eofSeen, discarding,
                       terminalStop, framerError>>
        /\ UNCHANGED <<raw, decoded, progStart, progEnd, programActive, transportFailure,
                       framerClear, framerAbort, terminalDrain, storeError, due>>
    BY <1>4
    DEF wrapperVars, fetchVars, sourceVars, progVars, flowVars, framerVars, bufferVars, haltVars,
        decodeVars, programVars, closeVars, glueVars
  <2>5. ActiveInv => ActiveInv'
    <3>1. Front' = Front
      BY <2>4 DEF Front, SizeAt, Header
    <3>2. EntryInv => EntryInv'
      BY <2>4 DEF EntryInv, SizeAt, Header, EndAllowed
    <3>3. BufferAt => BufferAt'
      BY <2>2, <2>4, <3>1 DEF BufferAt, RecordPc
    <3>4. StreamAt => StreamAt'
      BY <2>2, <2>4, <3>1 DEF StreamAt, StopFetch
    <3>5. LiveInv => LiveInv'
      BY <2>4, <3>2, <3>3, <3>4 DEF LiveInv
    <3> QED BY <2>4, <3>5 DEF ActiveInv
  <2>6. SourceRunning' = SourceRunning
    BY <2>4 DEF SourceRunning
  <2> QED BY <2>1, <2>2, <2>3, <2>4, <2>5, <2>6 DEF PathInv
<1> QED BY <1>1, <1>2, <1>3, <1>4

\* The program goes its way record by record: under a host that launches on
\* a clean front end, each holding register only ever holds the record that
\* is due next.
THEOREM RunsTheProgram ==
  ASSUME HostClears = TRUE, StaleLaunch = FALSE
  PROVE  WrapperSpec => []HoldsNextRecord
<1>1. PathInv => HoldsNextRecord
  <2>1. programActive /\ (raw.valid \/ decoded.valid) /\ PathInv => LiveInv
    BY DEF PathInv, ActiveInv
  <2> QED BY <2>1 DEF PathInv, AtOnceInv, LiveInv, EntryInv, HoldsNextRecord
<1> QED BY <1>1, PathInit, PathStep, PTL DEF WrapperSpec

----------------------------------------------------------------------------
(* The action in flight                                                    *)

\* The controller holds an action in one place.
ControlInv ==
  /\ cpl # NoCpl => canonical = NoAction /\ ctrl = "IDLE"
  /\ ctrl # "IDLE" => canonical = NoAction
  /\ cpl.end => cpl.status = "OK"

\* An idle controller holds no END.
LEMMA IdleHoldsNone ==
  ASSUME ~ControllerBusy
  PROVE  ~EndInFlight
BY DEF ControllerBusy, EndInFlight, NoAction, NoCpl

\* Without a new action an END in flight stays one until it retires.
LEMMA ControllerMoves ==
  ASSUME ControlInv, NEW ready, NEW clear, ClusterCycle(ready, clear), ~ClusterFire
  PROVE  /\ ControlInv'
         /\ \/ /\ ClusterAck(ready) /\ ControllerBusy /\ ~ControllerBusy' /\ ~EndInFlight'
               /\ EndRetires <=> EndInFlight
            \/ /\ ~ClusterAck(ready) /\ (ControllerBusy' <=> ControllerBusy)
               /\ EndInFlight' <=> EndInFlight
<1> USE DEF ControlInv, ControllerBusy, EndInFlight
<1>1. CASE RejectLocally(FALSE, clear)
  <2>1. canonical # NoAction /\ ctrl = "IDLE" /\ cpl = NoCpl /\ LocalStatus(canonical) # "OK"
    BY <1>1 DEF RejectLocally, Admits
  <2>2. /\ canonical' = NoAction /\ ctrl' = ctrl
        /\ cpl' = [class |-> canonical.class, tag |-> canonical.tag,
                   status |-> LocalStatus(canonical), end |-> FALSE]
    BY <1>1 DEF RejectLocally, Complete
  <2>3. cpl' # NoCpl
    BY <2>1, <2>2 DEF NoCpl
  <2>4. ~(canonical.class = "CONTROL" /\ canonical.end /\ canonical.legal)
    BY <2>1 DEF LocalStatus, Engines
  <2>5. ~EndInFlight /\ ~EndInFlight'
    BY <2>1, <2>2, <2>4 DEF NoCpl, NoAction
  <2>6. ~ClusterAck(ready)
    BY <2>1 DEF ClusterAck
  <2> QED BY <2>1, <2>2, <2>3, <2>5, <2>6
<1>2. CASE StartEngine(NoDone, FALSE, clear)
  <2>1. canonical # NoAction /\ ctrl = "IDLE" /\ cpl = NoCpl /\ canonical.class \in Engines
    BY <1>2 DEF StartEngine, Admits
  <2>2. canonical' = NoAction /\ cpl' = cpl /\ ctrl' = Waiting(canonical.class)
    BY <1>2 DEF StartEngine
  <2>3. ctrl' # "IDLE" /\ ctrl' # "WAIT_END"
    BY <2>2 DEF Waiting
  <2>4. ~EndInFlight /\ ~EndInFlight'
    BY <2>1, <2>2, <2>3 DEF NoCpl, NoAction, Engines
  <2>5. ~ClusterAck(ready)
    BY <2>1 DEF ClusterAck
  <2> QED BY <2>1, <2>2, <2>3, <2>4, <2>5 DEF NoCpl
<1>3. CASE StartEnd(FALSE, clear)
  <2>1. /\ canonical # NoAction /\ ctrl = "IDLE" /\ cpl = NoCpl
        /\ canonical.class = "CONTROL" /\ LocalStatus(canonical) = "OK"
    BY <1>3 DEF StartEnd, Admits
  <2>2. canonical.end /\ canonical.legal
    BY <2>1 DEF LocalStatus
  <2>3. canonical' = NoAction /\ cpl' = cpl /\ ctrl' = "WAIT_END"
    BY <1>3 DEF StartEnd
  <2>4. ~ClusterAck(ready)
    BY <2>1 DEF ClusterAck
  <2> QED BY <2>1, <2>2, <2>3, <2>4 DEF NoCpl
<1>4. CASE \E class \in Engines : \E done \in Answers(class) :
             FinishEngine(class, done, FALSE, clear)
  <2>1. PICK class \in Engines : \E done \in Answers(class) :
               FinishEngine(class, done, FALSE, clear)
    BY <1>4
  <2>2. PICK done : FinishEngine(class, done, FALSE, clear)
    BY <2>1
  <2>3. ctrl # "IDLE" /\ ctrl # "WAIT_END"
    BY <2>2 DEF FinishEngine, Waiting
  <2>4. canonical = NoAction /\ cpl = NoCpl
    BY <2>3
  <2>5. /\ canonical' = NoAction /\ ctrl' = "IDLE"
        /\ cpl' = [class |-> class, tag |-> active.tag,
                   status |-> EngineStatus(class, active.tag, done), end |-> FALSE]
    BY <2>2, <2>4 DEF FinishEngine, Complete
  <2>6. cpl' # NoCpl
    BY <2>5 DEF NoCpl, Engines
  <2>7. ~EndInFlight /\ ~EndInFlight'
    BY <2>3, <2>4, <2>5 DEF NoCpl, NoAction
  <2>8. ~ClusterAck(ready)
    BY <2>4 DEF ClusterAck
  <2> QED BY <2>3, <2>4, <2>5, <2>6, <2>7, <2>8
<1>5. CASE FinishEnd(TRUE, FALSE, clear)
  <2>1. ctrl = "WAIT_END" /\ canonical = NoAction /\ cpl = NoCpl
    BY <1>5 DEF FinishEnd
  <2>2. /\ canonical' = NoAction /\ ctrl' = "IDLE"
        /\ cpl' = [class |-> "CONTROL", tag |-> active.tag, status |-> "OK", end |-> TRUE]
    BY <1>5, <2>1 DEF FinishEnd, Complete
  <2>3. cpl' # NoCpl
    BY <2>2 DEF NoCpl
  <2>4. EndInFlight /\ EndInFlight'
    BY <2>1, <2>2
  <2>5. ~ClusterAck(ready)
    BY <2>1 DEF ClusterAck
  <2> QED BY <2>1, <2>2, <2>3, <2>4, <2>5
<1>6. CASE ClusterAck(ready) /\ RetireAction(FALSE, clear)
  <2>1. cpl # NoCpl /\ canonical = NoAction /\ ctrl = "IDLE"
    BY <1>6 DEF RetireAction
  <2>2. cpl' = NoCpl /\ canonical' = NoAction /\ ctrl' = "IDLE"
    BY <1>6, <2>1 DEF RetireAction
  <2>3. ~EndInFlight'
    BY <2>2 DEF NoCpl, NoAction
  <2>4. EndRetires <=> EndInFlight
    BY <2>1 DEF EndRetires, NoAction
  <2> QED BY <1>6, <2>1, <2>2, <2>3, <2>4 DEF NoCpl
<1>7. CASE ~ClusterFire /\ ~ClusterAck(ready) /\ ControllerStall(FALSE, clear)
  BY <1>7 DEF ControllerStall
<1> QED BY <1>1, <1>2, <1>3, <1>4, <1>5, <1>6, <1>7 DEF ClusterCycle

\* A new action finds the controller empty.
LEMMA ControllerCaptures ==
  ASSUME NEW ready, NEW clear, ClusterCycle(ready, clear), ClusterFire
  PROVE  /\ ControlInv' /\ ControllerBusy' /\ ~ClusterAck(ready)
         /\ EndInFlight' <=> Canonical.class = "CONTROL" /\ Canonical.end /\ Canonical.legal
<1>1. canonical = NoAction /\ ctrl = "IDLE" /\ cpl = NoCpl
  BY DEF ClusterFire, CaptureReady, ControllerBusy
<1>2. Capture(Canonical, FALSE, clear)
  BY <1>1
  DEF ClusterCycle, RejectLocally, StartEngine, StartEnd, Admits, FinishEngine, Waiting, FinishEnd,
      RetireAction, Engines
<1>3. canonical' = Canonical /\ ctrl' = "IDLE" /\ cpl' = NoCpl
  BY <1>1, <1>2 DEF Capture
<1>4. Canonical # NoAction
  BY DEF Canonical, NoAction
<1>5. ~ClusterAck(ready)
  BY <1>1 DEF ClusterAck
<1> QED BY <1>3, <1>4, <1>5 DEF ControlInv, ControllerBusy, EndInFlight, NoCpl

\* A decoded action is in flight in the next cycle.
LEMMA ActionIssues ==
  ASSUME AtOnceInv, ControlInv, NEW ready \in BOOLEAN, NEW clear \in BOOLEAN,
         Rest(ready, clear), decoded.valid
  PROVE  /\ ControlInv' /\ ~EnginesIdle' /\ ~ClusterAck(ready)
         /\ StateFire(ready) <=> IsState /\ decoded.legal
         /\ EndInFlight' <=> /\ decoded.whole /\ decoded.legal
                             /\ Header(decoded.head).kind = "END"
<1>1. /\ ~StateBusy /\ ~BranchBusy /\ ~ControllerBusy /\ programActive /\ DecodedFire(ready)
  BY DecodedLeaves DEF AtOnceInv, EnginesIdle
<1>2. ClusterCycle(ready, clear) /\ StateCycle(ready) /\ BranchCycle(ready)
  BY DEF Rest
<1>3. ~ClusterAck(ready)
  BY <1>1 DEF ClusterAck, ControllerBusy
<1>4. StateFire(ready) <=> IsState /\ decoded.legal
  BY <1>1 DEF StateFire, StateSelected, AdapterValid
<1>5. CASE ClusterFire
  <2>1. ~IsBranch /\ ~StateFire(ready)
    BY <1>5 DEF ClusterFire, StateFire
  <2>2. /\ ControlInv' /\ ControllerBusy'
        /\ EndInFlight' <=> Canonical.class = "CONTROL" /\ Canonical.end /\ Canonical.legal
    BY <1>2, <1>5, ControllerCaptures
  <2>3. Canonical.class = "CONTROL" /\ Canonical.end /\ Canonical.legal
          <=> /\ decoded.whole /\ decoded.legal
              /\ Header(decoded.head).kind = "END"
    BY DEF Canonical, ClassOf
  <2> QED BY <1>3, <1>4, <2>2, <2>3 DEF EnginesIdle
<1>6. CASE ~ClusterFire
  <2>1. StateFire(ready) \/ BranchFire
    BY <1>1, <1>6 DEF DecodedFire
  <2>2. StateBusy' \/ BranchBusy'
    BY <1>2, <2>1 DEF StateCycle, BranchCycle, StateBusy, BranchBusy
  <2>3. ControlInv' /\ ~EndInFlight'
    BY <1>1, <1>2, <1>6, ControllerMoves, IdleHoldsNone
  <2>4. IsState \/ IsBranch
    BY <2>1 DEF StateFire, StateSelected, BranchFire, BranchIssue
  <2>5. Header(decoded.head).kind # "END"
    BY <2>4 DEF IsState, IsBranch
  <2> QED BY <1>3, <1>4, <2>2, <2>3, <2>5 DEF EnginesIdle
<1> QED BY <1>5, <1>6

\* Without a decoded action the one in flight stays in flight or retires.
LEMMA ActionRetires ==
  ASSUME AtOnceInv, ControlInv, NEW ready \in BOOLEAN, NEW clear \in BOOLEAN,
         Rest(ready, clear), ~decoded.valid
  PROVE  /\ ControlInv' /\ ~DecodedFire(ready) /\ ~StateFire(ready)
         /\ \/ /\ (EnginesIdle' <=> EnginesIdle) /\ (EndInFlight' <=> EndInFlight)
               /\ ~(ClusterAck(ready) /\ EndRetires)
            \/ /\ ~EnginesIdle /\ EnginesIdle' /\ ~EndInFlight'
               /\ ClusterAck(ready) /\ EndRetires <=> EndInFlight
<1>1. ~StateFire(ready) /\ ~BranchFire /\ ~ClusterFire /\ ~DecodedFire(ready)
  BY DEF DecodedFire, StateFire, BranchFire, BranchIssue, ClusterFire, StateSelected, AdapterValid
<1>2. ClusterCycle(ready, clear) /\ StateCycle(ready) /\ BranchCycle(ready)
  BY DEF Rest
<1>3. /\ StateBusy' <=> StateBusy /\ ~StateAck(ready)
      /\ BranchBusy' <=> BranchBusy /\ ~BranchAck(ready)
  BY <1>1, <1>2
  DEF StateCycle, BranchCycle, StateBusy, BranchBusy, StateAck, BranchAck, NoTag, NoBranch
<1>4. /\ ControlInv'
      /\ \/ /\ ClusterAck(ready) /\ ControllerBusy /\ ~ControllerBusy' /\ ~EndInFlight'
            /\ EndRetires <=> EndInFlight
         \/ /\ ~ClusterAck(ready) /\ (ControllerBusy' <=> ControllerBusy)
            /\ EndInFlight' <=> EndInFlight
  BY <1>1, <1>2, ControllerMoves
<1>5. CASE ControllerBusy
  <2>1. ~StateBusy /\ ~BranchBusy /\ ~StateBusy' /\ ~BranchBusy'
    BY <1>3, <1>5 DEF AtOnceInv
  <2> QED BY <1>1, <1>4, <1>5, <2>1 DEF EnginesIdle
<1>6. CASE ~ControllerBusy
  <2>1. ~ClusterAck(ready) /\ ~EndInFlight /\ ~EndInFlight' /\ ~ControllerBusy'
    BY <1>4, <1>6, IdleHoldsNone
  <2> QED BY <1>1, <1>3, <1>4, <1>6, <2>1 DEF EnginesIdle
<1> QED BY <1>5, <1>6

----------------------------------------------------------------------------
(* The END of a program                                                    *)

\* What the framer knows of an END, and what becomes of it: it stays where
\* it is found, and a halted framer has given it away with the last record.
LEMMA StopMoves ==
  ASSUME PathInv, programActive, ~Redirecting, NEW ready \in BOOLEAN,
         NEW clear \in BOOLEAN, Rest(ready, clear)
  PROVE  /\ StopFetch => terminalStop' /\ FoundPc' = FoundPc
         /\ Halted => Halted' /\ terminalPc' = terminalPc /\ RecordTaken = {}
         /\ Halted' => \/ Halted \/ framerAbort
                       \/ RecordTaken = {1} /\ 1 \in Records /\ EndAt(1)
         /\ RecordTaken # {} /\ EndAt(1) => Halted' /\ terminalPc' = basePc
<1>1. /\ BufferInv /\ Readable /\ UNCHANGED image /\ FramerCycle(clear) /\ framerClear = FALSE
  BY DEF PathInv, ActiveInv, BufferInv, Rest
<1>2. /\ Prefix(RecordTaken)
      /\ \/ RecordTaken = {} /\ AcceptedWords(RecordTaken) = 0
         \/ /\ RecordTaken = {1} /\ RecordReady /\ 1 \in Records /\ words # << >>
            /\ AcceptedWords(RecordTaken) = Present(1)
  BY <1>1, TakesFirst
<1>3. words = << >> => ~EndFound /\ FoundPc = terminalPc /\ RecordTaken = {}
  BY <1>2 DEF EndFound, FoundPc, Records
<1>4. words' = << >> => ~EndFound' /\ FoundPc' = terminalPc'
  BY DEF EndFound, FoundPc, Records
<1>5. Len(words) \in Nat
  BY <1>1 DEF Readable
<1>6. CASE framerAbort /\ FramerAbort(clear)
  <2>1. words' = << >> /\ terminalStop' = Bit(StopFetch) /\ terminalPc' = FoundPc
    BY <1>6 DEF FramerAbort, NoStream, StopAfterAbort
  <2>2. RecordTaken = {}
    BY <1>6 DEF RecordTaken, RecordReady, FramerOpen
  <2> QED BY <1>3, <1>4, <1>6, <2>1, <2>2 DEF StopFetch, Halted, Bit
<1>7. CASE FramerAppend(bundle, RecordTaken, clear)
  <2>1. ~StopFetch
    BY <1>1, <1>7 DEF FramerAppend, BundleReady
  <2>2. ~Halted' /\ ~Halted
    BY <1>7, <2>1 DEF FramerAppend, KeepTerminal, Halted, StopFetch, Bit
  <2>3. ~EndAt(1) \/ RecordTaken = {}
    BY <1>2, <2>1 DEF StopFetch, EndFound
  <2> QED BY <2>1, <2>2, <2>3
<1>8. CASE FramerShift(RecordTaken, framerClear, clear)
  <2>1. FramerShift(RecordTaken, FALSE, clear)
    BY <1>1, <1>8
  <2>2. /\ terminalStop' = Bit(StopFetch) /\ terminalPc' = FoundPc
        /\ words' = Retained(RecordTaken)
        /\ basePc' = basePc + 4 * AcceptedWords(RecordTaken)
    BY <2>1 DEF FramerShift, KeepTerminal
  <2>3. words' # << >> => words # << >>
    BY <1>1, <1>2, <2>1, ShiftPlace
  \* An END that stays buffered stays at its address.
  <2>4. StopFetch => FoundPc' = FoundPc
    <3> SUFFICES ASSUME StopFetch PROVE FoundPc' = FoundPc
      OBVIOUS
    <3>1. CASE words' = << >>
      BY <1>4, <2>2, <3>1
    <3>2. CASE words' # << >>
      <4>1. EndFound
        BY <1>1, <2>3, <3>2 DEF BufferInv, StopFetch
      <4>2. /\ EndFound' /\ EndPosition' = EndPosition - AcceptedWords(RecordTaken)
        BY <1>1, <1>2, <2>2, <3>2, <4>1, EndStays
      <4>3. EndPosition \in Nat /\ AcceptedWords(RecordTaken) \in Nat /\ basePc \in Nat
        <5>1. EndPosition \in 1..Len(words)
          BY <1>1, <4>1, EndIs, RecordIs
        <5>2. AcceptedWords(RecordTaken) \in Nat
          BY <1>1, <1>2, RetainedIs
        <5> QED BY <1>1, <1>5, <5>1, <5>2 DEF BufferInv, FramerTypeOK
      <4>4. FoundPc = basePc + 4 * (EndPosition - 1) /\ FoundPc' = basePc' + 4 * (EndPosition' - 1)
        BY <4>1, <4>2 DEF FoundPc, RecordPc
      <4> QED BY <2>2, <4>2, <4>3, <4>4
    <3> QED BY <3>1, <3>2
  <2>5. Halted => Halted' /\ terminalPc' = terminalPc
    BY <1>3, <2>2, <2>3 DEF Halted, StopFetch, Bit
  \* Where an END shows, what shows before it is taken one by one.
  <2>6. ASSUME Halted', ~Halted PROVE RecordTaken = {1} /\ 1 \in Records /\ EndAt(1)
    <3>1. words' = << >> /\ StopFetch
      BY <2>2, <2>6 DEF Halted, Bit
    <3>2. EndFound
      BY <1>1, <2>6, <3>1 DEF StopFetch, BufferInv, Halted
    <3>3. PICK e : e = EndPosition
      OBVIOUS
    <3>4. /\ e \in Records /\ EndAt(e) /\ e \in 1..Len(words) /\ Present(e) \in 1..4
          /\ EffectiveWords = e + Present(e) - 1
      BY <1>1, <3>2, <3>3, EndIs, RecordIs, PresentIs
    <3>5. EffectiveWords - AcceptedWords(RecordTaken) = 0
      <4>1. Len(words') = EffectiveWords - AcceptedWords(RecordTaken)
        BY <1>1, <1>2, <2>2, RetainedIs
      <4> QED BY <3>1, <4>1
    <3>6. RecordTaken = {1} /\ 1 \in Records /\ AcceptedWords(RecordTaken) = Present(1)
      BY <1>2, <3>4, <3>5
    <3>7. 1 \in 1..Len(words) /\ Present(1) \in 1..4
      BY <1>1, <3>6, RecordIs, PresentIs
    <3>8. e = 1
      <4> SUFFICES ASSUME 1 < e PROVE FALSE
        BY <3>4
      <4>1. 1 + Present(1) <= e
        BY <1>1, <3>4, <3>6, RecordsApart
      <4> QED BY <3>4, <3>5, <3>6, <3>7, <4>1
    <3> QED BY <3>4, <3>6, <3>8
  <2>7. ASSUME RecordTaken # {}, EndAt(1) PROVE Halted' /\ terminalPc' = basePc
    <3>1. 1 \in Records /\ AcceptedWords(RecordTaken) = Present(1) /\ EndFound
      BY <1>2, <2>7 DEF EndFound
    <3>2. EndPosition = 1
      BY <1>1, <2>7, <3>1, EndPlace, OneEnd
    <3>3. EffectiveWords = 1 + Present(1) - 1 /\ FoundPc = basePc + 4 * (1 - 1)
      BY <3>1, <3>2 DEF EffectiveWords, FoundPc, RecordPc
    <3>4. 1 \in 1..Len(words) /\ Present(1) \in 1..4 /\ basePc \in Nat
      BY <1>1, <3>1, RecordIs, PresentIs DEF BufferInv, FramerTypeOK
    <3>5. Len(words') = 0
      BY <1>1, <1>2, <2>2, <3>1, <3>3, <3>4, RetainedIs
    <3>6. words' = << >>
      <4>1. words' \in Seq(Nat)
        BY <1>1, <1>2, <2>2, RetainedIs
      <4> QED BY <3>5, <4>1
    <3> QED BY <2>2, <3>1, <3>3, <3>4, <3>6 DEF Halted, StopFetch, Bit
  <2> QED BY <1>3, <2>2, <2>4, <2>5, <2>6, <2>7 DEF Bit, Halted
<1> QED BY <1>1, <1>6, <1>7, <1>8, FramerMoves

\* The record held in front is a whole END.
EndHeld == /\ raw.valid \/ decoded.valid
           /\ SizeAt(due) = Header(due).need /\ Header(due).kind = "END"

\* An END that left the framer has halted it, so nothing follows; only the
\* END that closes the range is executed, any other cuts the path short.
EndInv ==
  /\ EndHeld => Halted /\ terminalPc = due
  /\ EndInFlight \/ endRetired =>
       Halted /\ terminalPc + 4 = progEnd /\ ~raw.valid /\ ~decoded.valid
  /\ boundaryError => StopFetch /\ FoundPc + 4 # progEnd
  /\ Halted => cut \/ EndHeld \/ EndInFlight \/ endRetired

\* No word of the range is left.
AtEnd == words = << >> /\ Front = progEnd

\* The end of file is reported at the end of the range.
FileInv ==
  /\ eofDone \/ framesDone => cut \/ terminalStop \/ AtEnd
  /\ deliveryDone => cut \/ terminalStop \/ eofSeen \/ AtEnd

\* A failure of the transport has cut the path short.
CutInv == transportFailure \/ storeFault \/ framerAbort \/ ~rangeValid => cut

IdleInv ==
  /\ programActive \in BOOLEAN /\ endRetired \in BOOLEAN
  /\ IF programActive THEN programDone = FALSE /\ programFailed = FALSE
                      ELSE EnginesIdle

CloseInv ==
  /\ ControlInv /\ IdleInv
  /\ programActive => EndInv /\ FileInv /\ CutInv

\* A path that was cut short stays so until a branch leaves it.
LEMMA CutStays ==
  ASSUME PathInv, CutInv, programActive, ~Redirecting, NEW ready \in BOOLEAN,
         NEW clear \in BOOLEAN, Rest(ready, clear), SourceStays
  PROVE  CutInv' /\ (cut => cut')
<1>1. cut' = Bit(\/ cut \/ storeFault'
                 \/ /\ DecodedFire(ready) /\ ~decoded.legal
                    /\ Header(decoded.head).kind = "END")
  BY DEF Rest, HistoryCycle, Bit
<1>2. (cut => cut') /\ (storeFault' => cut')
  BY <1>1 DEF Bit
<1>3. TransportFailureNow => cut
  <2>1. sourceError => ~rangeValid
    BY DEF PathInv, ActiveInv
  <2>2. ~framerError /\ ~storeError
    BY DEF PathInv, ActiveInv
  <2> QED BY <2>1, <2>2 DEF TransportFailureNow, CutInv
<1>4. transportFailure' => cut
  BY <1>3 DEF Rest, LifecycleIdle, LifecycleRun, ClosingCycle, Revoked, Bit, CutInv
<1>5. framerAbort' => cut
  BY <1>3 DEF Rest, GlueCycle, Bit, CutInv
<1>6. ~rangeValid' => cut
  BY DEF SourceStays, CutInv
<1> QED BY <1>2, <1>4, <1>5, <1>6 DEF CutInv

\* With no word left none comes, and the path stays at its end.
LEMMA EndReached ==
  ASSUME PathInv, programActive, rangeValid, ~Redirecting, NEW ready \in BOOLEAN,
         NEW clear \in BOOLEAN, Rest(ready, clear), AtEnd
  PROVE  AtEnd'
<1>1. /\ words = << >> /\ Front = progEnd /\ LiveInv /\ BufferInv /\ Readable
      /\ framerClear = FALSE /\ FramerCycle(clear) /\ UNCHANGED image
      /\ progEnd' = progEnd
  BY DEF PathInv, ActiveInv, BufferInv, Rest, LifecycleIdle, LifecycleRun, AtEnd
<1>2. progEnd \in Nat /\ Len(words) = 0
  BY <1>1, PlaceIs DEF PathInv
<1>3. Prefix(RecordTaken) /\ AcceptedWords(RecordTaken) = 0
  BY <1>1, TakesFirst
<1>4. Front' = progEnd'
  <2>1. Front' = Front + 4 * AcceptedWords(RecordTaken)
    BY FrontMoves
  <2> QED BY <1>1, <1>2, <1>3, <2>1
<1>5. words' = << >>
  <2>1. CASE framerAbort /\ FramerAbort(clear)
    BY <2>1 DEF FramerAbort, NoStream
  <2>2. ~(bundleValid /\ ~terminalDrain /\ FramerTakes)
    <3> SUFFICES ASSUME bundleValid, ~terminalDrain, FramerTakes PROVE FALSE
      OBVIOUS
    <3>1. /\ pc = Front + 4 * Len(words) /\ pc \in Nat /\ pc + 4 * bundle.count <= progEnd
          /\ bundle.count \in 1..BundleWords
      BY BundleIsGood
    <3> QED BY <1>1, <1>2, <3>1, StreamAssumption
  <2>3. CASE FramerShift(RecordTaken, framerClear, clear)
    BY <1>1, <1>3, <2>3, ShiftPlace
  <2> QED BY <1>1, <2>1, <2>2, <2>3, FramerMoves
<1> QED BY <1>4, <1>5 DEF AtEnd

\* The reports of an end of file come true.
LEMMA FileMoves ==
  ASSUME PathInv, CutInv, FileInv, programActive, ~Redirecting, NEW ready \in BOOLEAN,
         NEW clear \in BOOLEAN, Rest(ready, clear), SourceStays
  PROVE  FileInv'
<1>1. (cut => cut') /\ (~rangeValid => cut)
  BY CutStays DEF CutInv
<1>2. CASE cut
  BY <1>1, <1>2 DEF FileInv
<1>3. CASE ~cut
  <2>1. rangeValid
    BY <1>1, <1>3
  <2>2. AtEnd => AtEnd'
    BY <2>1, EndReached
  <2>3. StopFetch => terminalStop'
    BY StopMoves
  <2>4. /\ BufferInv /\ Readable /\ LiveInv /\ UNCHANGED image /\ FramerCycle(clear)
        /\ framerClear = FALSE /\ (terminalDrain => terminalStop) /\ progEnd' = progEnd
    BY <2>1 DEF PathInv, ActiveInv, BufferInv, Rest, LifecycleIdle, LifecycleRun
  <2>5. framesDone' => terminalStop' \/ AtEnd'
    <3> SUFFICES ASSUME framesDone', ~StopFetch PROVE AtEnd'
      BY <2>3
    <3>1. CASE framerAbort /\ FramerAbort(clear)
      BY <3>1 DEF FramerAbort
    <3>2. CASE FramerAppend(bundle, RecordTaken, clear)
      BY <3>2 DEF FramerAppend
    <3>3. CASE FramerShift(RecordTaken, framerClear, clear)
      <4>1. eofSeen /\ Retained(RecordTaken) = << >> /\ RecordTaken # {} /\ words' = << >>
        BY <3>3 DEF FramerShift, Bit
      <4>2. words # << >> /\ Prefix(RecordTaken)
        BY <2>4, <4>1, TakesFirst
      <4>3. basePc = Front /\ basePc + 4 * Len(words) = progEnd
        BY <2>4, <4>1, <4>2 DEF LiveInv, BufferAt, StopFetch
      <4>4. AcceptedWords(RecordTaken) + Len(words') = Len(words) /\ Len(words) \in Nat
            /\ AcceptedWords(RecordTaken) \in Nat
        BY <2>4, <3>3, <4>2, ShiftPlace DEF StopFetch
      <4>5. Len(words') = 0
        BY <4>1
      <4>6. Front' = Front + 4 * AcceptedWords(RecordTaken)
        BY <2>1, FrontMoves
      <4>7. Front' = progEnd'
        BY <2>4, <4>3, <4>4, <4>5, <4>6
      <4> QED BY <4>1, <4>7 DEF AtEnd
    <3> QED BY <2>4, <3>1, <3>2, <3>3, FramerMoves
  <2>6. eofDone' => terminalStop' \/ AtEnd'
    <3>1. eofDone' => eofDone \/ framesDone \/ (deliveryDone /\ FramerIdle)
      BY DEF Rest, LifecycleIdle, LifecycleRun, ClosingCycle, Revoked, EofNow, Bit
    <3>2. deliveryDone /\ FramerIdle => AtEnd
      BY <1>3 DEF FileInv, FramerIdle
    <3>3. eofDone \/ framesDone => StopFetch \/ AtEnd
      BY <1>3 DEF FileInv, StopFetch
    <3> QED BY <2>2, <2>3, <3>1, <3>2, <3>3
  <2>7. deliveryDone' => terminalStop' \/ eofSeen'
    <3> SUFFICES ASSUME deliveryDone', ~StopFetch PROVE eofSeen'
      BY <2>3
    <3>1. BundleFire /\ bundle.last
      BY DEF SourceStays
    <3>2. bundleValid /\ ~terminalDrain /\ FramerTakes
      BY <2>4, <3>1 DEF BundleFire, BundleTaken, StopFetch
    <3>3. ~framerAbort
      BY <3>2 DEF FramerTakes, FramerOpen
    <3>4. FramerAppend(bundle, RecordTaken, clear)
      BY <2>4, <3>2, <3>3, FramerMoves
    <3> QED BY <3>1, <3>4 DEF FramerAppend
  <2> QED BY <2>5, <2>6, <2>7 DEF FileInv
<1> QED BY <1>2, <1>3

\* Nothing is held of a bad range.
LEMMA HeldInRange ==
  ASSUME PathInv, programActive, raw.valid \/ decoded.valid \/ words # << >>
  PROVE  rangeValid /\ LiveInv /\ EntryInv
BY DEF PathInv, ActiveInv, LiveInv

\* An END the framer has found goes through the holding registers and the
\* controller before it retires, or its path has been cut short.
LEMMA EndMoves ==
  ASSUME PathInv, ControlInv, IdleInv, EndInv, CutInv, programActive, ~Redirecting,
         NEW ready \in BOOLEAN, NEW clear \in BOOLEAN, Rest(ready, clear), SourceStays
  PROVE  EndInv'
<1>1. /\ AtOnceInv /\ BufferInv /\ Readable
      /\ UNCHANGED <<image, progStart, progEnd>>
  BY DEF PathInv, BufferInv, Rest, LifecycleIdle, LifecycleRun
<1>2. \A p : SizeAt(p)' = SizeAt(p) /\ Header(p)' = Header(p)
  BY <1>1 DEF SizeAt, Header
<1>3. /\ StopFetch => terminalStop' /\ FoundPc' = FoundPc
      /\ Halted => Halted' /\ terminalPc' = terminalPc /\ RecordTaken = {}
      /\ Halted' => \/ Halted \/ framerAbort
                    \/ RecordTaken = {1} /\ 1 \in Records /\ EndAt(1)
      /\ RecordTaken # {} /\ EndAt(1) => Halted' /\ terminalPc' = basePc
  BY StopMoves
<1>4. cut => cut'
  BY CutStays
<1>5. \/ RecordTaken = {}
      \/ RecordTaken = {1} /\ 1 \in Records /\ words # << >>
  BY <1>1, TakesFirst
<1>6. endRetired' = Bit(endRetired \/ (ClusterAck(ready) /\ EndRetires))
  BY DEF Rest, LifecycleIdle, LifecycleRun, ClosingCycle
<1>7. boundaryError' => StopFetch' /\ FoundPc' + 4 # progEnd'
  <2>1. boundaryError' => boundaryError \/ (StopFetch /\ FoundPc + 4 # progEnd)
    BY DEF Rest, LifecycleIdle, LifecycleRun, ClosingCycle, Revoked, BoundaryErrorNow, Bit
  <2>2. boundaryError' => StopFetch /\ FoundPc + 4 # progEnd
    BY <2>1 DEF EndInv
  <2> QED BY <1>1, <1>3, <2>2 DEF StopFetch
\* The record taken is the END, or the entry is an older one.
<1>8. CASE RecordTaken # {}
  <2>1. RecordTaken = {1} /\ 1 \in Records /\ words # << >> /\ rangeValid /\ LiveInv /\ EntryInv
    BY <1>5, <1>8, HeldInRange
  <2>2. raw'.valid /\ ~decoded'.valid /\ due' = Front
    BY <1>1, <1>8, <2>1, HoldingMoves
  <2>3. /\ basePc = Front
        /\ EndAt(1) <=> SizeAt(Front) = Header(Front).need /\ Header(Front).kind = "END"
    BY <1>1, <2>1, FirstIsNext DEF PathInv
  <2>4. EndHeld' <=> EndAt(1)
    BY <1>2, <2>2, <2>3 DEF EndHeld
  <2>5. ~Halted
    BY <1>3, <1>8
  <2>6. ~EndInFlight /\ ~endRetired
    BY <2>5 DEF EndInv
  <2>7. ~EndInFlight' /\ ~endRetired'
    <3>1. CASE decoded.valid
      <4>1. ~ClusterAck(ready)
            /\ (EndInFlight' => /\ decoded.whole /\ Header(decoded.head).kind = "END")
        BY <1>1, <3>1, ActionIssues
      <4>2. ~EndHeld
        BY <2>5 DEF EndInv
      <4>3. ~EndInFlight'
        BY <2>1, <3>1, <4>1, <4>2 DEF EntryInv, EndHeld
      <4> QED BY <1>6, <2>6, <4>1, <4>3 DEF Bit
    <3>2. CASE ~decoded.valid
      BY <1>1, <1>6, <2>6, <3>2, ActionRetires DEF Bit
    <3> QED BY <3>1, <3>2
  <2>8. EndHeld' => Halted' /\ terminalPc' = due'
    BY <1>3, <1>8, <2>2, <2>3, <2>4
  <2>9. Halted' => cut' \/ EndHeld'
    <3>1. framerAbort => cut
      BY DEF CutInv
    <3> QED BY <1>3, <1>4, <2>4, <2>5, <3>1
  <2> QED BY <1>7, <2>7, <2>8, <2>9 DEF EndInv
<1>9. CASE RecordTaken = {} /\ decoded.valid
  <2>1. rangeValid /\ EntryInv /\ decoded.head = due
    BY <1>9, HeldInRange DEF EntryInv
  <2>2. ~raw'.valid /\ ~decoded'.valid
    BY <1>1, <1>9, <2>1, HoldingMoves
  <2>3. ~endRetired /\ ~EndInFlight
    BY <1>9 DEF EndInv
  <2>4. /\ ~ClusterAck(ready)
        /\ EndInFlight' <=> decoded.whole /\ decoded.legal /\ Header(decoded.head).kind = "END"
    BY <1>1, <1>9, ActionIssues
  <2>5. ~endRetired'
    BY <1>6, <2>3, <2>4 DEF Bit
  <2>6. EndHeld <=> decoded.whole /\ Header(decoded.head).kind = "END"
    BY <1>9, <2>1 DEF EntryInv, EndHeld
  <2>7. EndInFlight' => EndHeld /\ due + 4 = progEnd
    BY <1>9, <2>1, <2>4, <2>6 DEF EntryInv, EndAllowed
  <2>8. EndInFlight' => Halted' /\ terminalPc' + 4 = progEnd'
    BY <1>1, <1>3, <2>7 DEF EndInv
  <2>9. ~EndHeld'
    BY <2>2 DEF EndHeld
  <2>10. Halted' => cut' \/ EndInFlight'
    <3> SUFFICES ASSUME Halted', ~EndInFlight' PROVE cut'
      OBVIOUS
    <3>1. Halted \/ framerAbort
      BY <1>3, <1>9
    <3>2. cut \/ EndHeld
      BY <2>3, <3>1 DEF EndInv, CutInv
    <3>3. CASE EndHeld
      <4>1. ~decoded.legal /\ Header(decoded.head).kind = "END"
        BY <2>4, <2>6, <3>3
      <4>2. DecodedFire(ready)
        BY <1>1, <1>9, DecodedLeaves
      <4> QED BY <4>1, <4>2 DEF Rest, HistoryCycle, Bit
    <3> QED BY <1>4, <3>2, <3>3
  <2> QED BY <1>7, <2>2, <2>5, <2>8, <2>9, <2>10 DEF EndInv
<1>10. CASE RecordTaken = {} /\ ~decoded.valid
  <2>1. \/ /\ (EndInFlight' <=> EndInFlight) /\ ~(ClusterAck(ready) /\ EndRetires)
        \/ /\ ~EndInFlight' /\ (ClusterAck(ready) /\ EndRetires <=> EndInFlight)
    BY <1>1, <1>10, ActionRetires
  <2>2. EndInFlight' \/ endRetired' <=> EndInFlight \/ endRetired
    BY <1>6, <2>1 DEF Bit
  <2>3. CASE raw.valid
    <3>1. EntryInv
      BY <2>3, HeldInRange
    <3>2. due' = due /\ (raw'.valid \/ decoded'.valid)
      BY <1>1, <1>10, <2>3, <3>1, HoldingMoves
    <3>3. EndHeld' <=> EndHeld
      BY <1>2, <2>3, <3>2 DEF EndHeld
    <3>4. ~EndInFlight' /\ ~endRetired'
      BY <2>2, <2>3 DEF EndInv
    <3>5. EndHeld' => Halted' /\ terminalPc' = due'
      BY <1>3, <3>2, <3>3 DEF EndInv
    <3>6. Halted' => cut' \/ EndHeld'
      <4>1. Halted' => Halted \/ framerAbort
        BY <1>3, <1>10
      <4>2. Halted \/ framerAbort => cut \/ EndHeld
        BY <2>2, <3>4 DEF EndInv, CutInv
      <4> QED BY <1>4, <3>3, <4>1, <4>2
    <3> QED BY <1>7, <3>4, <3>5, <3>6 DEF EndInv
  <2>4. CASE ~raw.valid
    <3>1. ~raw'.valid /\ ~decoded'.valid
      BY <1>10, <2>4 DEF Rest, RawCycle, NoRecord, DecodeCycle, DecodeFire, NoDecoded
    <3>2. ~EndHeld /\ ~EndHeld'
      BY <1>10, <2>4, <3>1 DEF EndHeld
    <3>3. EndInFlight' \/ endRetired' => Halted' /\ terminalPc' + 4 = progEnd'
      BY <1>1, <1>3, <2>2 DEF EndInv
    <3>4. Halted' => cut' \/ EndInFlight' \/ endRetired'
      <4>1. Halted' => Halted \/ framerAbort
        BY <1>3, <1>10
      <4>2. Halted \/ framerAbort => cut \/ EndInFlight \/ endRetired
        BY <3>2 DEF EndInv, CutInv
      <4> QED BY <1>4, <2>2, <4>1, <4>2
    <3> QED BY <1>7, <3>1, <3>2, <3>3, <3>4 DEF EndInv
  <2> QED BY <2>3, <2>4
<1> QED BY <1>8, <1>9, <1>10

\* Every cycle but a launch and a redirect keeps what closes a program.
LEMMA RestClose ==
  ASSUME PathInv, CloseInv, WrapperNext, ~LaunchCycle, ~Redirecting
  PROVE  CloseInv'
<1>1. PICK ready \in BOOLEAN, clear \in BOOLEAN : Rest(ready, clear)
  BY SourceMoves
<1>2. SourceStays /\ AtOnceInv /\ ControlInv /\ IdleInv
  BY SourceMoves DEF PathInv, CloseInv
<1>3. ControlInv'
  BY <1>1, <1>2, ActionIssues, ActionRetires
<1>4. CASE programActive
  <2>1. programActive' = Bit(~FinishSuccess /\ ~FinishFailure)
        /\ programDone' = Bit(FinishSuccess)
        /\ programFailed' = Bit(FinishFailure /\ ~FinishSuccess)
        /\ endRetired' = Bit(endRetired \/ (ClusterAck(ready) /\ EndRetires))
    BY <1>1, <1>4 DEF Rest, LifecycleIdle, LifecycleRun, ClosingCycle
  <2>2. ASSUME ~programActive' PROVE EnginesIdle'
    <3>1. Settled
      BY <2>1, <2>2 DEF Bit, FinishSuccess, FinishFailure
    <3>2. ~decoded.valid /\ EnginesIdle
      BY <3>1 DEF Settled
    <3> QED BY <1>1, <1>2, <3>2, ActionRetires
  <2>3. IdleInv'
    BY <2>1, <2>2 DEF IdleInv, Bit
  <2>4. EndInv /\ FileInv /\ CutInv
    BY <1>4 DEF CloseInv
  <2>5. EndInv' /\ FileInv' /\ CutInv'
    BY <1>1, <1>2, <1>4, <2>4, EndMoves, FileMoves, CutStays
  <2> QED BY <1>3, <2>3, <2>5 DEF CloseInv
<1>5. CASE ~programActive
  <2>1. programActive' = programActive /\ endRetired' = endRetired
    BY <1>1, <1>5 DEF Rest, LifecycleIdle, LifecycleRun, KeepClosing, closeVars
  <2>2. ~decoded.valid /\ EnginesIdle
    BY <1>2, <1>5 DEF AtOnceInv, IdleInv
  <2>3. EnginesIdle'
    BY <1>1, <1>2, <2>2, ActionRetires
  <2> QED BY <1>2, <1>3, <1>5, <2>1, <2>3 DEF CloseInv, IdleInv
<1> QED BY <1>4, <1>5

\* A branch that is followed revokes it.
LEMMA RedirectClose ==
  ASSUME PathInv, CloseInv, WrapperNext, ~LaunchCycle, Redirecting
  PROVE  CloseInv'
<1>1. PICK ready \in BOOLEAN, clear \in BOOLEAN : Rest(ready, clear)
  BY OthersMove
<1>2. decoded.valid /\ programActive /\ IsBranch /\ AtOnceInv /\ ControlInv
  BY DEF Redirecting, BranchFire, BranchIssue, AdapterValid, PathInv, CloseInv
<1>3. ControlInv' /\ ~ClusterAck(ready) /\ ~EndInFlight'
  <2>1. Header(decoded.head).kind # "END"
    BY <1>2 DEF IsBranch
  <2> QED BY <1>1, <1>2, <2>1, ActionIssues
<1>4. ~endRetired /\ endRetired \in BOOLEAN
  BY <1>2 DEF CloseInv, EndInv, IdleInv
<1>5. endRetired' = FALSE /\ programActive' = TRUE /\ programDone' = FALSE /\ programFailed' = FALSE
  BY <1>1, <1>2, <1>3, <1>4
  DEF Rest, LifecycleIdle, LifecycleRun, ClosingCycle, FinishSuccess, FinishFailure, Settled, Bit
<1>6. /\ words' = << >> /\ terminalStop' = FALSE /\ framesDone' = FALSE
      /\ ~raw'.valid /\ ~decoded'.valid
      /\ eofDone' = FALSE /\ boundaryError' = FALSE /\ transportFailure' = FALSE
      /\ storeFault' = FALSE /\ framerAbort' = FALSE /\ rangeValid'
      /\ deliveryDone' => Front' = progEnd'
  BY RedirectPath
<1>7. EndInv'
  BY <1>3, <1>5, <1>6 DEF EndInv, EndHeld, Halted
<1>8. FileInv' /\ CutInv'
  BY <1>6 DEF FileInv, CutInv, AtEnd
<1> QED BY <1>3, <1>5, <1>7, <1>8 DEF CloseInv, IdleInv

\* A launch finds an idle cluster and begins with none of it.
LEMMA LaunchClose ==
  ASSUME PathInv, CloseInv, LaunchCycle, HostClears = TRUE, StaleLaunch = FALSE
  PROVE  CloseInv'
<1>1. /\ words' = << >> /\ terminalStop' = FALSE /\ framesDone' = FALSE
      /\ ~raw'.valid /\ ~decoded'.valid /\ EnginesIdle'
      /\ EnginesIdle /\ UNCHANGED <<canonical, ctrl, cpl>>
      /\ programActive' = TRUE /\ programDone' = FALSE /\ programFailed' = FALSE
      /\ eofDone' = FALSE /\ endRetired' = FALSE /\ boundaryError' = FALSE
      /\ transportFailure' = FALSE /\ framerAbort' = FALSE
      /\ ~rangeValid' \/ storeFault' => cut'
      /\ deliveryDone' => Front' = progEnd'
  BY LaunchPath
<1>2. ~EndInFlight'
  <2>1. ~EndInFlight
    BY <1>1, IdleHoldsNone DEF EnginesIdle
  <2> QED BY <1>1, <2>1 DEF EndInFlight
<1>3. ControlInv'
  BY <1>1 DEF CloseInv, ControlInv
<1>4. EndInv' /\ FileInv' /\ CutInv'
  BY <1>1, <1>2 DEF EndInv, EndHeld, Halted, FileInv, AtEnd, CutInv
<1> QED BY <1>1, <1>3, <1>4 DEF CloseInv, IdleInv

\* It holds at reset.
LEMMA CloseInit == WrapperInit => CloseInv
<1> SUFFICES ASSUME WrapperInit PROVE CloseInv
  OBVIOUS
<1>1. ControlInv
  BY DEF WrapperInit, ControllerInit, ControlInv, NoCpl
<1>2. EnginesIdle
  BY DEF WrapperInit, ControllerInit, EnginesIdle, StateBusy, BranchBusy, ControllerBusy, NoTag, NoBranch
<1>3. programActive = FALSE /\ endRetired = FALSE
  BY DEF WrapperInit
<1> QED BY <1>1, <1>2, <1>3 DEF CloseInv, IdleInv

\* Every step keeps it.
LEMMA CloseStep ==
  ASSUME HostClears = TRUE, StaleLaunch = FALSE
  PROVE  PathInv /\ CloseInv /\ [WrapperNext]_wrapperVars => CloseInv'
<1> SUFFICES ASSUME PathInv, CloseInv, [WrapperNext]_wrapperVars PROVE CloseInv'
  OBVIOUS
<1>1. CASE LaunchCycle
  BY <1>1, LaunchClose
<1>2. CASE WrapperNext /\ ~LaunchCycle /\ Redirecting
  BY <1>2, RedirectClose
<1>3. CASE WrapperNext /\ ~LaunchCycle /\ ~Redirecting
  BY <1>3, RestClose
<1>4. CASE UNCHANGED wrapperVars
  <2>1. /\ UNCHANGED <<canonical, ctrl, cpl, stateCpl, branchCpl, programActive, programDone,
                       programFailed, endRetired, eofDone, framesDone, boundaryError>>
        /\ UNCHANGED <<image, words, basePc, eofSeen, terminalStop, terminalPc, deliveryDone, raw, decoded,
                       progEnd, due, cut, transportFailure, storeFault, framerAbort, rangeValid>>
    BY <1>4
    DEF wrapperVars, fetchVars, sourceVars, progVars, flowVars, framerVars, bufferVars, haltVars,
        decodeVars, programVars, closeVars, glueVars, controllerVars, localVars
  <2>2. EndInFlight' = EndInFlight /\ EnginesIdle' = EnginesIdle
    BY <2>1 DEF EndInFlight, EnginesIdle, StateBusy, BranchBusy, ControllerBusy
  <2>3. Front' = Front /\ EndHeld' = EndHeld /\ Halted' = Halted
    BY <2>1 DEF Front, EndHeld, SizeAt, Header, Halted
  <2>8. FoundPc' = FoundPc /\ EndFound' = EndFound
    BY <1>4, BufferStays DEF PathInv, wrapperVars
  <2>4. FoundPc' = FoundPc /\ StopFetch' = StopFetch
    BY <2>1, <2>8 DEF StopFetch
  <2>5. CutInv => CutInv'
    BY <2>1 DEF CutInv
  <2>6. FileInv => FileInv'
    BY <2>1, <2>3 DEF FileInv, AtEnd
  <2>7. EndInv => EndInv'
    BY <2>1, <2>2, <2>3, <2>4 DEF EndInv
  <2> QED BY <2>1, <2>2, <2>5, <2>6, <2>7 DEF CloseInv, IdleInv, ControlInv
<1> QED BY <1>1, <1>2, <1>3, <1>4

\* A cluster that has settled holds no END.
LEMMA SettledHolds ==
  ASSUME PathInv, CloseInv, Settled
  PROVE  /\ EnginesIdle /\ ~EndInFlight /\ ~EndHeld /\ ~raw.valid /\ ~decoded.valid
         /\ Front = due
<1>1. EnginesIdle /\ ~raw.valid /\ ~decoded.valid
  BY DEF Settled
<1>2. ~EndInFlight
  BY <1>1, IdleHoldsNone DEF EnginesIdle
<1> QED BY <1>1, <1>2 DEF EndHeld, Front

\* A program whose END has retired closes as done.
LEMMA RetiredSucceeds ==
  ASSUME PathInv, CloseInv, programActive, endRetired, Settled
  PROVE  FinishSuccess
<1>1. EndInv /\ Halted /\ terminalPc + 4 = progEnd
  BY DEF CloseInv, EndInv
<1>2. words = << >>
  BY <1>1 DEF Halted
<1>3. ~EndFound
  BY <1>2 DEF EndFound, Records
<1>4. FoundPc = terminalPc
  BY <1>3 DEF FoundPc
<1>5. ~boundaryError
  BY <1>1, <1>4 DEF EndInv
<1> QED BY <1>1, <1>5 DEF FinishSuccess

\* A program that fails has been cut short or has run past its last record.
LEMMA FailsForCause ==
  ASSUME PathInv, CloseInv, FinishFailure, ~FinishSuccess
  PROVE  cut \/ (due = progEnd /\ ~endRetired)
<1>1. programActive /\ Settled /\ Records = {} /\ EndInv /\ FileInv /\ CutInv
  BY DEF FinishFailure, CloseInv
<1>2. ~EndInFlight /\ ~EndHeld /\ Front = due
  BY <1>1, SettledHolds
<1>3. ~endRetired
  BY <1>1, RetiredSucceeds
<1>4. Halted => cut
  BY <1>2, <1>3, <1>1 DEF EndInv
<1>5. CASE boundaryError /\ Halted
  BY <1>4, <1>5
<1>6. CASE transportFailure
  BY <1>1, <1>6 DEF CutInv
<1>7. CASE eofDone /\ ~endRetired
  <2>1. cut \/ terminalStop \/ AtEnd
    BY <1>1, <1>7 DEF FileInv
  <2>2. ASSUME terminalStop PROVE cut
    <3>1. ~EndFound
      BY <1>1 DEF EndFound
    <3>2. words = << >>
      BY <2>2, <3>1 DEF PathInv, BufferInv
    <3> QED BY <1>4, <2>2, <3>2 DEF Halted
  <2> QED BY <1>2, <1>3, <2>1, <2>2 DEF AtEnd
<1> QED BY <1>5, <1>6, <1>7 DEF FinishFailure

\* A program fails for a reason of its own: under a host that launches on a
\* clean front end, the step that reports a failure finds the current path cut
\* short, or its last record executed and no END retired.
THEOREM FailuresHaveCauses ==
  ASSUME HostClears = TRUE, StaleLaunch = FALSE
  PROVE  WrapperSpec => FailureHasCause
<1>1. PathInv /\ CloseInv /\ [WrapperNext]_wrapperVars
        => [programFailed' /\ ~programFailed
              => cut \/ (due = progEnd /\ ~endRetired)]_wrapperVars
  <2> SUFFICES ASSUME PathInv, CloseInv, [WrapperNext]_wrapperVars, programFailed', ~programFailed
               PROVE  cut \/ (due = progEnd /\ ~endRetired)
    OBVIOUS
  <2>1. ~UNCHANGED wrapperVars
    BY DEF wrapperVars, programVars
  <2>2. ~LaunchCycle
    BY LaunchPath
  <2>3. PICK ready \in BOOLEAN, clear \in BOOLEAN : Rest(ready, clear)
    BY <2>1, <2>2, OthersMove
  <2>4. LifecycleRun(ready)
    BY <2>3 DEF Rest, LifecycleIdle
  <2>5. FinishFailure /\ ~FinishSuccess
    BY <2>4 DEF LifecycleRun, Bit
  <2> QED BY <2>5, FailsForCause
<1> QED BY <1>1, PathInit, CloseInit, PathStep, CloseStep, PTL DEF WrapperSpec, FailureHasCause

----------------------------------------------------------------------------
(* The program as its specification runs it                                *)

\* The record at hand is the one the decode entry holds.
LEMMA RecordAtHand ==
  ASSUME PathInv, programActive, decoded.valid
  PROVE  /\ rangeValid /\ decoded.pc = due /\ decoded.head = due /\ Header(due) = Ordered!Record
         /\ due \in Nat /\ progStart \in Nat /\ progEnd \in Nat /\ due < progEnd
         /\ Ordered!Record.need \in 1..4 /\ Ordered!Record.arg \in Int
         /\ decoded.whole <=> Ordered!Whole
         /\ decoded.legal <=> /\ Ordered!Legal
                              /\ Ordered!Record.kind = "END" => due + 4 = progEnd
         /\ due + 4 * SizeAt(due) = Ordered!Next1
<1>1. rangeValid /\ LiveInv /\ EntryInv /\ SourceIInv /\ image \in Images
  BY HeldInRange DEF PathInv, BufferInv, Readable
<1>2. /\ progStart \in Nat /\ progEnd \in Nat /\ due \in Nat /\ Aligned(progEnd) /\ Aligned(due)
      /\ progStart <= due
  BY <1>1, PlaceIs DEF LiveInv
<1>3. decoded.pc = due /\ decoded.head = due /\ due < progEnd
  BY <1>1 DEF EntryInv
<1>4. /\ Header(due) = image[due] /\ Header(due).need \in 1..4 /\ Header(due).arg \in Int
  BY <1>1, <1>2, <1>3, HeaderIs
<1>5. Header(due) = Ordered!Record
  BY DEF Header, Ordered!Record
<1>6. /\ SizeAt(due) # Header(due).need => due + 4 * SizeAt(due) = progEnd
      /\ SizeAt(due) = Header(due).need <=> due + 4 * Header(due).need <= progEnd
  BY <1>2, <1>3, <1>4, SizeIs
<1>7. Ordered!Whole <=> SizeAt(due) = Header(due).need
  BY <1>5, <1>6 DEF Ordered!Whole
<1>8. decoded.whole <=> Ordered!Whole
  BY <1>1, <1>7 DEF EntryInv
<1>9. decoded.legal <=> /\ Ordered!Legal
                        /\ Ordered!Record.kind = "END" => due + 4 = progEnd
  BY <1>1, <1>5, <1>8 DEF EntryInv, EndAllowed, Ordered!Legal
<1>10. due + 4 * SizeAt(due) = Ordered!Next1
  BY <1>5, <1>6, <1>7 DEF Ordered!Next1
<1> QED BY <1>1, <1>2, <1>3, <1>4, <1>5, <1>8, <1>9, <1>10

\* A branch is followed where its specification follows it.
LEMMA BranchesAsTold ==
  ASSUME PathInv, programActive, decoded.valid
  PROVE  /\ Redirecting <=> /\ Ordered!Legal /\ Ordered!Record.kind = "BRANCH"
                            /\ Ordered!TargetOk
         /\ NextPc = Ordered!Target
<1>1. /\ decoded.pc = due /\ decoded.head = due /\ Header(due) = Ordered!Record
      /\ due \in Nat /\ progStart \in Nat /\ progEnd \in Nat
      /\ Ordered!Record.arg \in Int
      /\ decoded.whole <=> Ordered!Whole
      /\ decoded.legal <=> /\ Ordered!Legal
                           /\ Ordered!Record.kind = "END" => due + 4 = progEnd
  BY RecordAtHand
<1>2. Taken <=> Ordered!Jumps
  BY <1>1 DEF Taken, Ordered!Jumps
<1>3. NextPc = Ordered!Target /\ NextPc \in Int
  BY <1>1, <1>2 DEF NextPc, Ordered!Target
<1>4. NextPcOk <=> decoded.legal /\ Ordered!TargetOk
  <2> PICK n, a, b : n = NextPc /\ a = progStart /\ b = progEnd
    OBVIOUS
  <2>1. NextPcOk <=> /\ decoded.legal /\ n % 4 = 0 /\ a <= n /\ n <= b
                     /\ Taken => n < b
    BY DEF NextPcOk, Aligned
  <2>2. Ordered!TargetOk <=> /\ n % 4 = 0 /\ a <= n
                             /\ IF Taken THEN n < b ELSE n <= b
    BY <1>2, <1>3 DEF Ordered!TargetOk
  <2>3. n \in Int /\ a \in Int /\ b \in Int
    BY <1>1, <1>3
  <2>4. n < b => n <= b
    BY <2>3
  <2> QED BY <2>1, <2>2, <2>4
<1>5. BranchFire <=> decoded.whole /\ Ordered!Record.kind = "BRANCH"
  BY <1>1 DEF BranchFire, BranchIssue, AdapterValid, IsBranch, PathInv, AtOnceInv
<1>6. Ordered!Legal => decoded.whole
  BY <1>1 DEF Ordered!Legal
<1> QED BY <1>1, <1>3, <1>4, <1>5, <1>6 DEF Redirecting

\* The cycle in which the decode entry leaves executes the record at hand.
LEMMA IssueRefines ==
  ASSUME PathInv, CloseInv, NEW ready \in BOOLEAN, NEW clear \in BOOLEAN, Rest(ready, clear),
         decoded.valid
  PROVE  Ordered!Issue
<1>1. AtOnceInv /\ ControlInv /\ IdleInv
  BY DEF PathInv, CloseInv
<1>2. programActive /\ EnginesIdle /\ ~raw.valid
  BY <1>1 DEF AtOnceInv
<1>3. /\ decoded.pc = due /\ decoded.head = due /\ Header(due) = Ordered!Record /\ due < progEnd
      /\ decoded.whole <=> Ordered!Whole
      /\ decoded.legal <=> /\ Ordered!Legal
                           /\ Ordered!Record.kind = "END" => due + 4 = progEnd
      /\ due + 4 * SizeAt(due) = Ordered!Next1
  BY <1>2, RecordAtHand
<1>4. ~endRetired /\ endRetired \in BOOLEAN /\ programDone = FALSE /\ programFailed = FALSE
  BY <1>2 DEF CloseInv, EndInv, IdleInv
<1>5. /\ ~EnginesIdle' /\ ~ClusterAck(ready)
      /\ StateFire(ready) <=> IsState /\ decoded.legal
      /\ EndInFlight' <=> decoded.whole /\ decoded.legal /\ Header(decoded.head).kind = "END"
  BY <1>1, ActionIssues
<1>6. InFlight = "NONE"
  BY <1>2 DEF InFlight
<1>7. InFlight' = IF Ordered!Legal /\ Ordered!Record.kind = "END" /\ due + 4 = progEnd
                  THEN "END" ELSE "ACTION"
  <2>1. EndInFlight' <=> Ordered!Legal /\ Ordered!Record.kind = "END" /\ due + 4 = progEnd
    BY <1>3, <1>5 DEF Ordered!Legal
  <2> QED BY <1>5, <2>1 DEF InFlight
<1>8. stateReg' = IF Ordered!Legal /\ Ordered!Record.kind = "STATE" THEN Ordered!Value ELSE stateReg
  <2>1. StateFire(ready) <=> Ordered!Legal /\ Ordered!Record.kind = "STATE"
    BY <1>3, <1>5 DEF IsState, Ordered!Legal
  <2>2. StateResult(decoded.head) = Ordered!Value
    BY <1>3 DEF StateResult, Ordered!Value
  <2> QED BY <2>1, <2>2 DEF Rest, StateCycle
<1>9. due' = IF Ordered!Legal /\ Ordered!Record.kind = "BRANCH" /\ Ordered!TargetOk
             THEN Ordered!Target ELSE Ordered!Next1
  <2>1. DecodedFire(ready)
    BY <1>1, DecodedLeaves
  <2>2. due' = Follow(due)
    BY <1>3, <2>1 DEF Rest, HistoryCycle
  <2>3. Follow(due) = IF Redirecting THEN NextPc ELSE due + 4 * SizeAt(due)
    BY <1>3 DEF Follow, SizeAt
  <2> QED BY <1>2, <1>3, <2>2, <2>3, BranchesAsTold
<1>10. /\ programActive' = programActive /\ endRetired' = endRetired
       /\ programDone' = programDone /\ programFailed' = programFailed
       /\ UNCHANGED <<image, progStart, progEnd>>
  <2>1. LifecycleRun(ready) /\ UNCHANGED image
    BY <1>2 DEF Rest, LifecycleIdle
  <2>2. ~FinishSuccess /\ ~FinishFailure
    BY DEF FinishSuccess, FinishFailure, Settled
  <2>3. programActive \in BOOLEAN
    BY <1>1 DEF IdleInv
  <2> QED BY <1>2, <1>4, <1>5, <2>1, <2>2, <2>3 DEF LifecycleRun, ClosingCycle, Bit
<1> QED BY <1>2, <1>3, <1>4, <1>6, <1>7, <1>8, <1>9, <1>10 DEF Ordered!Issue

\* Any other cycle of a program retires its action, closes it, or changes
\* nothing its specification sees.
LEMMA OthersRefine ==
  ASSUME PathInv, CloseInv, NEW ready \in BOOLEAN, NEW clear \in BOOLEAN, Rest(ready, clear),
         ~decoded.valid
  PROVE  [Ordered!Next]_(Ordered!vars)
<1>1. AtOnceInv /\ ControlInv /\ IdleInv
  BY DEF PathInv, CloseInv
<1>2. /\ ~DecodedFire(ready) /\ ~StateFire(ready)
      /\ \/ /\ (EnginesIdle' <=> EnginesIdle) /\ (EndInFlight' <=> EndInFlight)
            /\ ~(ClusterAck(ready) /\ EndRetires)
         \/ /\ ~EnginesIdle /\ EnginesIdle' /\ ~EndInFlight'
            /\ ClusterAck(ready) /\ EndRetires <=> EndInFlight
  BY <1>1, ActionRetires
<1>3. due' = due /\ stateReg' = stateReg /\ UNCHANGED <<image, progStart, progEnd>>
  BY <1>2 DEF Rest, HistoryCycle, StateCycle, LifecycleIdle, LifecycleRun
<1>4. CASE ~programActive
  <2>1. /\ programActive' = programActive /\ endRetired' = endRetired
        /\ programDone' = FALSE /\ programFailed' = FALSE
    BY <1>4 DEF Rest, LifecycleIdle, LifecycleRun, KeepClosing, closeVars
  <2>2. EnginesIdle /\ EnginesIdle'
    BY <1>1, <1>2, <1>4 DEF IdleInv
  <2>3. InFlight' = InFlight
    BY <2>2 DEF InFlight
  <2> QED BY <1>3, <1>4, <2>1, <2>3 DEF Ordered!Next, Ordered!Settle, Ordered!progress
<1>5. CASE programActive
  <2>1. /\ programDone = FALSE /\ programFailed = FALSE /\ programActive = TRUE
        /\ endRetired \in BOOLEAN
    BY <1>1, <1>5 DEF IdleInv
  <2>2. /\ programActive' = Bit(~FinishSuccess /\ ~FinishFailure)
        /\ programDone' = Bit(FinishSuccess)
        /\ programFailed' = Bit(FinishFailure /\ ~FinishSuccess)
        /\ endRetired' = Bit(endRetired \/ (ClusterAck(ready) /\ EndRetires))
    BY <1>5 DEF Rest, LifecycleIdle, LifecycleRun, ClosingCycle
  <2>3. CASE ~EnginesIdle /\ EnginesIdle'
    <3>1. ~FinishSuccess /\ ~FinishFailure
      BY <2>3 DEF FinishSuccess, FinishFailure, Settled
    <3>2. programActive' = programActive /\ programDone' = programDone /\ programFailed' = programFailed
      BY <2>1, <2>2, <3>1 DEF Bit
    <3>3. InFlight' = "NONE" /\ InFlight = IF EndInFlight THEN "END" ELSE "ACTION"
      BY <2>3 DEF InFlight
    <3>4. endRetired' = (endRetired \/ InFlight = "END")
      BY <1>2, <2>1, <2>2, <2>3, <3>3 DEF Bit
    <3> QED BY <1>3, <3>2, <3>3, <3>4 DEF Ordered!Next, Ordered!Retire
  <2>4. CASE ~(~EnginesIdle /\ EnginesIdle')
    <3>1. InFlight' = InFlight /\ endRetired' = endRetired
      BY <1>2, <2>1, <2>2, <2>4 DEF InFlight, Bit
    <3>2. CASE ~FinishSuccess /\ ~FinishFailure
      <4>1. programActive' = programActive /\ programDone' = programDone
            /\ programFailed' = programFailed
        BY <2>1, <2>2, <3>2 DEF Bit
      <4> QED BY <1>3, <3>1, <4>1 DEF Ordered!vars, Ordered!progress
    <3>3. CASE FinishSuccess \/ FinishFailure
      <4>1. Settled
        BY <3>3 DEF FinishSuccess, FinishFailure
      <4>2. InFlight = "NONE"
        BY <4>1 DEF Settled, InFlight
      <4>3. FinishSuccess <=> endRetired
        BY <1>5, <4>1, RetiredSucceeds DEF FinishSuccess
      <4>4. programActive' = FALSE /\ programDone' = endRetired /\ programFailed' = ~endRetired
        BY <2>1, <2>2, <3>3, <4>3 DEF Bit
      <4> QED BY <1>3, <1>5, <3>1, <4>2, <4>4 DEF Ordered!Next, Ordered!Close, Ordered!progress
    <3> QED BY <3>2, <3>3
  <2> QED BY <2>3, <2>4
<1> QED BY <1>4, <1>5

\* A launch begins a program there too.
LEMMA LaunchRefines ==
  ASSUME PathInv, LaunchCycle, HostClears = TRUE, StaleLaunch = FALSE
  PROVE  Ordered!Launch
<1>1. PICK s \in PcInputs, e \in PcInputs, clear \in BOOLEAN :
        /\ StartReadyNow
        /\ LifecycleStart(s, e)
        /\ due' = s
        /\ UNCHANGED <<image, raw, decoded, localVars>>
  BY DEF LaunchCycle
<1>2. EnginesIdle /\ EnginesIdle'
  BY LaunchPath
<1>3. InFlight = "NONE" /\ InFlight' = "NONE"
  BY <1>2 DEF InFlight
<1>4. ~programActive /\ UNCHANGED <<image, stateReg>>
  BY <1>1 DEF StartReadyNow, localVars
<1>5. /\ programActive' = TRUE /\ progStart' = s /\ progEnd' = e /\ endRetired' = FALSE
      /\ programDone' = FALSE /\ programFailed' = FALSE
  BY <1>1 DEF LifecycleStart
<1> QED BY <1>1, <1>3, <1>4, <1>5 DEF Ordered!Launch

\* The wrapper implements the sequential program: under a host that launches
\* on a clean front end, whatever is prefetched, buffered, poisoned, flushed or
\* aborted, exactly the records of the sequential execution are issued, each
\* after its predecessor retired, and only a good END makes a run "done".
THEOREM ProgramRefinement ==
  ASSUME HostClears = TRUE, StaleLaunch = FALSE
  PROVE  WrapperSpec => ExecutesInOrder
<1>1. WrapperInit => Ordered!Init
  <2> SUFFICES ASSUME WrapperInit PROVE Ordered!Init
    OBVIOUS
  <2>1. EnginesIdle
    BY DEF WrapperInit, ControllerInit, EnginesIdle, StateBusy, BranchBusy, ControllerBusy, NoTag, NoBranch
  <2>2. InFlight = "NONE"
    BY <2>1 DEF InFlight
  <2> QED BY <2>2 DEF WrapperInit, Ordered!Init
<1>2. PathInv /\ CloseInv /\ [WrapperNext]_wrapperVars => [Ordered!Next]_(Ordered!vars)
  <2> SUFFICES ASSUME PathInv, CloseInv, [WrapperNext]_wrapperVars
               PROVE  [Ordered!Next]_(Ordered!vars)
    OBVIOUS
  <2>1. CASE LaunchCycle
    BY <2>1, LaunchRefines DEF Ordered!Next
  <2>2. CASE WrapperNext /\ ~LaunchCycle
    <3>1. PICK ready \in BOOLEAN, clear \in BOOLEAN : Rest(ready, clear)
      BY <2>2, OthersMove
    <3>2. CASE decoded.valid
      BY <3>1, <3>2, IssueRefines DEF Ordered!Next
    <3>3. CASE ~decoded.valid
      BY <3>1, <3>3, OthersRefine
    <3> QED BY <3>2, <3>3
  <2>3. CASE UNCHANGED wrapperVars
    <3>1. UNCHANGED <<image, programActive, progStart, progEnd, due, stateReg, endRetired,
                      programDone, programFailed, stateCpl, branchCpl, canonical, ctrl, cpl>>
      BY <2>3
      DEF wrapperVars, controllerVars, localVars, programVars, closeVars
    <3>2. InFlight' = InFlight
      BY <3>1 DEF InFlight, EnginesIdle, EndInFlight, StateBusy, BranchBusy, ControllerBusy
    <3> QED BY <3>1, <3>2 DEF Ordered!vars, Ordered!progress
  <2> QED BY <2>1, <2>2, <2>3
<1> QED BY <1>1, <1>2, PathInit, CloseInit, PathStep, CloseStep, PTL
    DEF WrapperSpec, ExecutesInOrder, Ordered!Spec
============================================================================
