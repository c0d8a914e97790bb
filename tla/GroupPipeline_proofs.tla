------------------------ MODULE GroupPipeline_proofs ------------------------
(***************************************************************************)
(* The operand stage of a SIMD group, for every set of operations and      *)
(* every datapath: the state stays within its declarations, and forwarding *)
(* gives an operation the operands it would have read had everything       *)
(* before it been written back; and so the group behaves as OrderedGroup,  *)
(* one request at a time.  And the networks of Permutation that the group  *)
(* and the wide units move lanes through, for every number of lanes: what  *)
(* a compactor packs an expansion restores, a slide crosses the groups,    *)
(* the modes of the wide gather undo each other, and the four passes of    *)
(* the gather engine are one complete gather.                              *)
(***************************************************************************)
EXTENDS GroupPipeline, Integers, SequenceTheorems, FiniteSetTheorems, WellFoundedInduction, TLAPS

----------------------------------------------------------------------------
(* Rows, masked writes and one-entry registers *)

LEMMA MergeType ==
  ASSUME NEW S, NEW mask \in Mask, NEW new \in Row(S), NEW old \in Row(S)
  PROVE  Merge(mask, new, old) \in Row(S)
BY DEF Row, Merge

LEMMA MergeBitsType ==
  ASSUME NEW mask \in Mask, NEW new \in Mask, NEW old \in Mask
  PROVE  MergeBits(mask, new, old) \in Mask
BY DEF Mask, MergeBits

LEMMA ConcatOne ==
  ASSUME NEW x
  PROVE  /\ <<>> \o <<>> = <<>>
         /\ <<>> \o <<x>> = <<x>>
         /\ <<x>> \o <<>> = <<x>>
OBVIOUS

LEMMA PushPending ==
  ASSUME NEW register, Pending(register), NEW channel, NEW taken,
         NEW entries, Pending(entries),
         entries # <<>> => CanPush(register, channel, taken)
  PROVE  Pending(Push(register, channel, taken, entries))
<1> DEFINE kept == IF channel \in taken THEN <<>> ELSE register
<1>1. CASE entries = <<>>
  <2>1. Push(register, channel, taken, entries) = kept \o <<>>
    BY <1>1 DEF Push
  <2>2. kept = <<>> \/ kept = <<register[1]>>
    BY DEF Pending
  <2>3. CASE kept = <<>>
    BY <2>1, <2>3, ConcatOne DEF Pending
  <2>4. CASE kept = <<register[1]>>
    <3>1. Push(register, channel, taken, entries) = <<register[1]>>
      BY <2>1, <2>4, ConcatOne
    <3> QED BY <3>1 DEF Pending
  <2> QED BY <2>2, <2>3, <2>4
<1>2. CASE entries # <<>>
  <2>1. kept = <<>>
    BY <1>2 DEF CanPush
  <2>2. Push(register, channel, taken, entries) = <<>> \o <<entries[1]>>
    BY <1>2, <2>1 DEF Push, Pending
  <2>3. Push(register, channel, taken, entries) = <<entries[1]>>
    BY <2>2, ConcatOne
  <2> QED BY <2>3 DEF Pending
<1> QED BY <1>1, <1>2

----------------------------------------------------------------------------
(* Execution of an operation keeps the files, and laying what it writes    *)
(* over operands already read is reading them after it has been committed. *)

LEMMA CommitType ==
  ASSUME NEW f \in Files, NEW op \in ExecOp, NEW d \in Answers
  PROVE  Commit(f, op, d) \in Files
<1>1. d.mask \in Mask /\ d.predicate \in Mask /\ WriteMask(op, d) \in Mask
  BY DEF Answers, WriteMask, Mask
<1>2. d.narrow \in Row(Narrow) /\ d.wide \in Row(Wide)
  BY DEF Answers
<1>3. f.v \in [VRegs -> Row(Narrow)] /\ f.a \in [ARegs -> Row(Wide)]
      /\ f.m \in [MRegs -> Mask]
  BY DEF Files
<1>4. op.dstV \in VRegs /\ op.dstA \in ARegs /\ op.dstM \in MRegs
  BY DEF ExecOp
<1>5. WriteRow(f.v, op.writeV, op.dstV, WriteMask(op, d), d.narrow)
        \in [VRegs -> Row(Narrow)]
  <2>1. Merge(WriteMask(op, d), d.narrow, f.v[op.dstV]) \in Row(Narrow)
    BY <1>1, <1>2, <1>3, <1>4, MergeType
  <2> QED BY <2>1, <1>3 DEF WriteRow
<1>6. WriteRow(f.a, op.writeA, op.dstA, d.mask, d.wide)
        \in [ARegs -> Row(Wide)]
  <2>1. Merge(d.mask, d.wide, f.a[op.dstA]) \in Row(Wide)
    BY <1>1, <1>2, <1>3, <1>4, MergeType
  <2> QED BY <2>1, <1>3 DEF WriteRow
<1>7. WriteBits(f.m, op.writeM, op.dstM, WriteMask(op, d), d.predicate)
        \in [MRegs -> Mask]
  <2>1. MergeBits(WriteMask(op, d), d.predicate, f.m[op.dstM]) \in Mask
    BY <1>1, <1>3, <1>4, MergeBitsType
  <2> QED BY <2>1, <1>3 DEF WriteBits
<1> QED BY <1>5, <1>6, <1>7 DEF Commit, Files

LEMMA OperandsType ==
  ASSUME NEW f \in Files, NEW op \in ExecOp
  PROVE  Operands(f, op) \in OperandSet
BY DEF Files, ExecOp, Operands, OperandSet

(* The forwarding network: what simd_group_wrapper lays over the operands  *)
(* it reads is what the producer will write, for every pair of operations. *)
LEMMA OverlayIsCommit ==
  ASSUME NEW f \in Files, NEW by \in ExecOp, NEW d \in Answers,
         NEW op \in ExecOp
  PROVE  Overlay(by, d, op, Operands(f, op)) = Operands(Commit(f, by, d), op)
<1>1. CASE Refused(by, d)
  BY <1>1 DEF Overlay, Commit
<1>2. CASE ~Refused(by, d)
  <2> DEFINE W == WriteMask(by, d)
             g == Commit(f, by, d)
  <2>1. /\ g.v = WriteRow(f.v, by.writeV, by.dstV, W, d.narrow)
        /\ g.a = WriteRow(f.a, by.writeA, by.dstA, d.mask, d.wide)
        /\ g.m = WriteBits(f.m, by.writeM, by.dstM, W, d.predicate)
    BY <1>2 DEF Commit
  <2>2. /\ op.a \in VRegs /\ op.b \in VRegs /\ op.acc \in ARegs
        /\ op.mask \in MRegs /\ op.select \in MRegs
    BY DEF ExecOp
  <2>3. DOMAIN f.v = VRegs /\ DOMAIN f.a = ARegs /\ DOMAIN f.m = MRegs
    BY DEF Files
  <2> HIDE DEF g
  <2>4. ASSUME NEW s \in VRegs
        PROVE  g.v[s] = Forward(by.writeV, by.dstV, s,
                                Merge(W, d.narrow, f.v[s]), f.v[s])
    <3> HIDE DEF W
    <3> QED BY <2>1, <2>3 DEF WriteRow, Forward
  <2>5. ASSUME NEW s \in ARegs
        PROVE  g.a[s] = Forward(by.writeA, by.dstA, s,
                                Merge(d.mask, d.wide, f.a[s]), f.a[s])
    BY <2>1, <2>3 DEF WriteRow, Forward
  <2>6. ASSUME NEW s \in MRegs
        PROVE  g.m[s] = Forward(by.writeM, by.dstM, s,
                                MergeBits(W, d.predicate, f.m[s]), f.m[s])
    <3> HIDE DEF W
    <3> QED BY <2>1, <2>3 DEF WriteBits, Forward
  <2>7. Operands(g, op) =
          [a |-> g.v[op.a], b |-> g.v[op.b], acc |-> g.a[op.acc],
           mask |-> g.m[op.mask], select |-> g.m[op.select]]
    BY DEF Operands
  <2>8. Overlay(by, d, op, Operands(f, op)) =
          [a |-> Forward(by.writeV, by.dstV, op.a,
                         Merge(W, d.narrow, f.v[op.a]), f.v[op.a]),
           b |-> Forward(by.writeV, by.dstV, op.b,
                         Merge(W, d.narrow, f.v[op.b]), f.v[op.b]),
           acc |-> Forward(by.writeA, by.dstA, op.acc,
                           Merge(d.mask, d.wide, f.a[op.acc]), f.a[op.acc]),
           mask |-> Forward(by.writeM, by.dstM, op.mask,
                            MergeBits(W, d.predicate, f.m[op.mask]),
                            f.m[op.mask]),
           select |-> Forward(by.writeM, by.dstM, op.select,
                              MergeBits(W, d.predicate, f.m[op.select]),
                              f.m[op.select])]
    BY <1>2 DEF Overlay, Operands
  <2>9. Operands(g, op) = Overlay(by, d, op, Operands(f, op))
    BY <2>2, <2>4, <2>5, <2>6, <2>7, <2>8
  <2> QED BY <2>9 DEF g
<1> QED BY <1>1, <1>2

----------------------------------------------------------------------------
(* What is in flight *)

LEMMA AfterResultType ==
  ASSUME GroupTypeOK
  PROVE  AfterResult \in Files
<1>1. CASE res = <<>>
  BY <1>1 DEF AfterResult, GroupTypeOK
<1>2. CASE res # <<>>
  <2>1. res[1].op \in ExecOp /\ res[1].answer \in Answers /\ files \in Files
    BY <1>2, CommandsAssumption DEF GroupTypeOK
  <2> QED BY <1>2, <2>1, CommitType DEF AfterResult
<1> QED BY <1>1, <1>2

LEMMA PipeAnswerType ==
  ASSUME GroupTypeOK, pipe # <<>>
  PROVE  pipe[1].op \in ExecOp /\ PipeAnswer \in Answers
BY CommandsAssumption DEF GroupTypeOK, PipeAnswer

(* An operation captures what it would read behind everything in flight.   *)
LEMMA CapturedIsCurrent ==
  ASSUME GroupTypeOK, NEW op \in ExecOps
  PROVE  Captured(op) = Operands(Architectural, op)
<1>1. op \in ExecOp /\ files \in Files
  BY CommandsAssumption DEF GroupTypeOK
<1>2. FromResult(op, Operands(files, op)) = Operands(AfterResult, op)
  <2>1. CASE res = <<>>
    BY <2>1 DEF FromResult, AfterResult
  <2>2. CASE res # <<>>
    <3>1. res[1].op \in ExecOp /\ res[1].answer \in Answers
      BY <2>2, CommandsAssumption DEF GroupTypeOK
    <3> QED BY <1>1, <2>2, <3>1, OverlayIsCommit DEF FromResult, AfterResult
  <2> QED BY <2>1, <2>2
<1>3. CASE pipe = <<>>
  BY <1>2, <1>3 DEF Captured, FromPipe, Architectural
<1>4. CASE pipe # <<>>
  BY <1>1, <1>2, <1>4, AfterResultType, PipeAnswerType, OverlayIsCommit
     DEF Captured, FromPipe, Architectural
<1> QED BY <1>3, <1>4

LEMMA CapturedType ==
  ASSUME GroupTypeOK, NEW op \in ExecOps
  PROVE  Captured(op) \in OperandSet
<1>1. op \in ExecOp
  BY CommandsAssumption
<1>2. Architectural \in Files
  BY AfterResultType, PipeAnswerType, CommitType DEF Architectural
<1> QED BY <1>1, <1>2, CapturedIsCurrent, OperandsType

----------------------------------------------------------------------------
(* A clock edge: what all four actions do to the stages *)

LEMMA AnswersPending ==
  ASSUME GroupTypeOK, NEW taken
  PROVE  /\ Pending(CompletionsOf(Retired(taken)))
         /\ Pending(ResponsesOf(Retired(taken)))
         /\ CompletionsOf(Retired(taken)) # <<>> => CanPush(cpl, "CPL", taken)
         /\ ResponsesOf(Retired(taken)) # <<>> => CanPush(rsp, "RSP", taken)
BY DEF Retired, Retires, CompletionsOf, ResponsesOf, ExecResponses, Pending

LEMMA StagesType ==
  ASSUME GroupTypeOK, NEW taken, NEW admitted, Stages(taken, admitted),
         admitted = <<>> \/ \E op \in ExecOps :
                              admitted = <<[op |-> op, operands |-> Captured(op)]>>
  PROVE  /\ Pending(pipe') /\ Pending(res') /\ Pending(rsp')
         /\ pipe' # <<>> => /\ pipe'[1].op \in ExecOps
                            /\ pipe'[1].operands \in OperandSet
         /\ res' # <<>> => res'[1].op \in ExecOps /\ res'[1].answer \in Answers
<1>1. /\ pipe' = IF admitted # <<>> THEN admitted
                 ELSE IF Advances(taken) THEN <<>> ELSE pipe
      /\ res' = IF Advances(taken)
                THEN <<[op |-> pipe[1].op, answer |-> PipeAnswer]>>
                ELSE IF Retires(taken) THEN <<>> ELSE res
      /\ rsp' = Push(rsp, "RSP", taken, ResponsesOf(Retired(taken)))
  BY DEF Stages
<1>2. Pending(rsp')
  BY <1>1, AnswersPending, PushPending DEF GroupTypeOK
<1>3. /\ Pending(pipe')
      /\ pipe' # <<>> => /\ pipe'[1].op \in ExecOps
                         /\ pipe'[1].operands \in OperandSet
  <2>1. CASE admitted = <<>>
    BY <1>1, <2>1 DEF GroupTypeOK, Pending
  <2>2. CASE admitted # <<>>
    <3>1. PICK op \in ExecOps :
            admitted = <<[op |-> op, operands |-> Captured(op)]>>
      BY <2>2
    <3>2. pipe' = <<[op |-> op, operands |-> Captured(op)]>>
      BY <1>1, <2>2, <3>1
    <3> QED BY <3>2, CapturedType DEF Pending
  <2> QED BY <2>1, <2>2
<1>4. /\ Pending(res')
      /\ res' # <<>> => res'[1].op \in ExecOps /\ res'[1].answer \in Answers
  <2>1. CASE Advances(taken)
    <3>1. pipe # <<>> /\ pipe[1].op \in ExecOps
      BY <2>1 DEF Advances, GroupTypeOK
    <3>2. PipeAnswer \in Answers
      BY <3>1, PipeAnswerType
    <3>3. res' = <<[op |-> pipe[1].op, answer |-> PipeAnswer]>>
      BY <1>1, <2>1
    <3> QED BY <3>1, <3>2, <3>3 DEF Pending
  <2>2. CASE ~Advances(taken)
    BY <1>1, <2>2 DEF GroupTypeOK, Pending
  <2> QED BY <2>1, <2>2
<1> QED BY <1>2, <1>3, <1>4

LEMMA StateWriteType ==
  ASSUME NEW f \in Files, NEW w \in WriteOps
  PROVE  StateWrite(f, w) \in Files
<1>1. CASE WriteIllegal(w)
  BY <1>1 DEF StateWrite
<1>2. CASE ~WriteIllegal(w)
  <2>1. f.v \in [VRegs -> Row(Narrow)] /\ f.a \in [ARegs -> Row(Wide)]
        /\ f.m \in [MRegs -> Mask]
    BY DEF Files
  <2>2. WriteOp(w)
    BY CommandsAssumption
  <2>3. WriteRow(f.v, w.file = "VRF", w.addr, w.mask, w.row)
          \in [VRegs -> Row(Narrow)]
    BY <2>1, <2>2, MergeType DEF WriteRow, WriteOp
  <2>4. WriteRow(f.a, w.file = "ARF", w.addr, w.mask, w.row)
          \in [ARegs -> Row(Wide)]
    BY <2>1, <2>2, MergeType DEF WriteRow, WriteOp
  <2>5. WriteBits(f.m, w.file = "MRF", w.addr, w.mask, w.bits)
          \in [MRegs -> Mask]
    BY <2>1, <2>2, MergeBitsType DEF WriteBits, WriteOp
  <2> QED BY <1>2, <2>3, <2>4, <2>5 DEF StateWrite, Files
<1> QED BY <1>1, <1>2

----------------------------------------------------------------------------
(* Type correctness *)

LEMMA WriteBackType ==
  ASSUME GroupTypeOK, NEW taken
  PROVE  WriteBack(taken) \in Files
BY AfterResultType DEF WriteBack, GroupTypeOK

LEMMA ReturnReadType ==
  ASSUME GroupTypeOK, NEW taken, NEW completions, NEW rows,
         ReturnRead(taken, completions, rows),
         Pending(completions), Pending(rows),
         completions # <<>> => CanPush(readCpl, "READ_CPL", taken),
         rows # <<>> => CanPush(readRsp, "READ_RSP", taken)
  PROVE  Pending(readCpl') /\ Pending(readRsp')
BY PushPending DEF ReturnRead, GroupTypeOK

LEMMA NothingPending == Pending(<<>>)
BY DEF Pending

LEMMA OnePending == \A x : Pending(<<x>>)
BY DEF Pending

LEMMA ExecTypeStep ==
  ASSUME GroupTypeOK, NEW taken, AcceptExec(taken)
  PROVE  GroupTypeOK'
<1>1. PICK op \in ExecOps :
        /\ Stages(taken, <<[op |-> op, operands |-> Captured(op)]>>)
        /\ files' = WriteBack(taken)
        /\ Complete(taken, CompletionsOf(Retired(taken)))
        /\ ReturnRead(taken, <<>>, <<>>)
  BY DEF AcceptExec
<1>2. files' \in Files
  BY <1>1, WriteBackType
<1>3. Pending(cpl')
  BY <1>1, AnswersPending, PushPending DEF Complete, GroupTypeOK
<1>4. Pending(readCpl') /\ Pending(readRsp')
  BY <1>1, ReturnReadType, NothingPending
<1>5. /\ Pending(pipe') /\ Pending(res') /\ Pending(rsp')
      /\ pipe' # <<>> => /\ pipe'[1].op \in ExecOps
                         /\ pipe'[1].operands \in OperandSet
      /\ res' # <<>> => res'[1].op \in ExecOps /\ res'[1].answer \in Answers
  <2> DEFINE entry == <<[op |-> op, operands |-> Captured(op)]>>
  <2>1. Stages(taken, entry)
    BY <1>1
  <2>2. \E o \in ExecOps : entry = <<[op |-> o, operands |-> Captured(o)]>>
    OBVIOUS
  <2> HIDE DEF entry
  <2> QED BY <2>1, <2>2, StagesType
<1> QED BY <1>2, <1>3, <1>4, <1>5 DEF GroupTypeOK, Pending

LEMMA WriteTypeStep ==
  ASSUME GroupTypeOK, NEW taken, AcceptWrite(taken)
  PROVE  GroupTypeOK'
<1>1. PICK w \in WriteOps :
        /\ MayWrite(taken) /\ Stages(taken, <<>>)
        /\ files' = StateWrite(WriteBack(taken), w)
        /\ Complete(taken, CompletionsOf(Retired(taken)) \o
                           <<Completion(w, WriteIllegal(w), FALSE)>>)
        /\ ReturnRead(taken, <<>>, <<>>)
  BY DEF AcceptWrite
<1>2. files' \in Files
  BY <1>1, WriteBackType, StateWriteType
<1>3. Pending(cpl')
  <2> DEFINE c == Completion(w, WriteIllegal(w), FALSE)
  <2>1. CompletionsOf(Retired(taken)) = <<>>
    BY <1>1 DEF MayWrite, Retired, CompletionsOf
  <2> HIDE DEF c
  <2>2. CompletionsOf(Retired(taken)) \o <<c>> = <<c>>
    BY <2>1, ConcatOne
  <2>3. cpl' = Push(cpl, "CPL", taken, <<c>>)
    BY <1>1, <2>2 DEF Complete, c
  <2> QED BY <1>1, <2>3, OnePending, PushPending DEF MayWrite, GroupTypeOK
<1>4. Pending(readCpl') /\ Pending(readRsp')
  BY <1>1, ReturnReadType, NothingPending
<1>5. /\ Pending(pipe') /\ Pending(res') /\ Pending(rsp')
      /\ pipe' # <<>> => /\ pipe'[1].op \in ExecOps
                         /\ pipe'[1].operands \in OperandSet
      /\ res' # <<>> => res'[1].op \in ExecOps /\ res'[1].answer \in Answers
  BY <1>1, StagesType
<1> QED BY <1>2, <1>3, <1>4, <1>5 DEF GroupTypeOK, Pending

LEMMA ReadTypeStep ==
  ASSUME GroupTypeOK, NEW taken, AcceptRead(taken)
  PROVE  GroupTypeOK'
<1>1. PICK r \in ReadOps :
        /\ MayRead(taken) /\ Stages(taken, <<>>)
        /\ files' = WriteBack(taken)
        /\ Complete(taken, CompletionsOf(Retired(taken)))
        /\ ReturnRead(taken, <<Completion(r, ReadIllegal(r), TRUE)>>,
                      <<StateRead(files, r)>>)
  BY DEF AcceptRead
<1>2. files' \in Files
  BY <1>1, WriteBackType
<1>3. Pending(cpl')
  BY <1>1, AnswersPending, PushPending DEF Complete, GroupTypeOK
<1>4. Pending(readCpl') /\ Pending(readRsp')
  <2>1. CanPush(readCpl, "READ_CPL", taken) /\ CanPush(readRsp, "READ_RSP", taken)
    BY <1>1 DEF MayRead
  <2> QED BY <1>1, <2>1, OnePending, ReturnReadType
<1>5. /\ Pending(pipe') /\ Pending(res') /\ Pending(rsp')
      /\ pipe' # <<>> => /\ pipe'[1].op \in ExecOps
                         /\ pipe'[1].operands \in OperandSet
      /\ res' # <<>> => res'[1].op \in ExecOps /\ res'[1].answer \in Answers
  BY <1>1, StagesType
<1> QED BY <1>2, <1>3, <1>4, <1>5 DEF GroupTypeOK, Pending

LEMMA IdleTypeStep ==
  ASSUME GroupTypeOK, NEW taken, AcceptNothing(taken)
  PROVE  GroupTypeOK'
<1>1. /\ Stages(taken, <<>>)
      /\ files' = WriteBack(taken)
      /\ Complete(taken, CompletionsOf(Retired(taken)))
      /\ ReturnRead(taken, <<>>, <<>>)
  BY DEF AcceptNothing
<1>2. files' \in Files
  BY <1>1, WriteBackType
<1>3. Pending(cpl')
  BY <1>1, AnswersPending, PushPending DEF Complete, GroupTypeOK
<1>4. Pending(readCpl') /\ Pending(readRsp')
  BY <1>1, ReturnReadType, NothingPending
<1>5. /\ Pending(pipe') /\ Pending(res') /\ Pending(rsp')
      /\ pipe' # <<>> => /\ pipe'[1].op \in ExecOps
                         /\ pipe'[1].operands \in OperandSet
      /\ res' # <<>> => res'[1].op \in ExecOps /\ res'[1].answer \in Answers
  BY <1>1, StagesType
<1> QED BY <1>2, <1>3, <1>4, <1>5 DEF GroupTypeOK, Pending

(* Every reachable state is one the declarations of simd_group_wrapper     *)
(* allow; no answer is pushed into a return register that is still full.   *)
THEOREM GroupTypeCorrect == GroupSpec => []GroupTypeOK
<1>1. GroupInit => GroupTypeOK
  BY DEF GroupInit, GroupTypeOK, Pending
<1>2. GroupTypeOK /\ [GroupNext]_groupVars => GroupTypeOK'
  <2> SUFFICES ASSUME GroupTypeOK, [GroupNext]_groupVars
               PROVE  GroupTypeOK'
    OBVIOUS
  <2>1. CASE GroupNext
    BY <2>1, ExecTypeStep, WriteTypeStep, ReadTypeStep, IdleTypeStep
       DEF GroupNext
  <2>2. CASE UNCHANGED groupVars
    BY <2>2 DEF groupVars, returnVars, GroupTypeOK, Pending
  <2> QED BY <2>1, <2>2
<1> QED BY <1>1, <1>2, PTL DEF GroupSpec

----------------------------------------------------------------------------
(* Forwarding *)

(* An operation is admitted at an edge that leaves in front of it exactly  *)
(* what was in flight: the stages move on, nothing is lost or kept twice.  *)
LEMMA AdmittedBehind ==
  ASSUME GroupTypeOK, NEW taken, MayExecute(taken), NEW op \in ExecOps,
         Stages(taken, <<[op |-> op, operands |-> Captured(op)]>>),
         files' = WriteBack(taken)
  PROVE  AfterResult' = Architectural
<1>1. res' = IF Advances(taken)
             THEN <<[op |-> pipe[1].op, answer |-> PipeAnswer]>>
             ELSE IF Retires(taken) THEN <<>> ELSE res
  BY DEF Stages
<1>2. AfterResult' =
        IF res' = <<>> THEN files' ELSE Commit(files', res'[1].op, res'[1].answer)
  BY DEF AfterResult
<1>3. CASE pipe = <<>>
  <2>1. res' = IF Retires(taken) THEN <<>> ELSE res
    BY <1>1, <1>3 DEF Advances
  <2>2. Architectural = AfterResult
    BY <1>3 DEF Architectural
  <2>3. CASE Retires(taken)
    BY <1>2, <2>1, <2>2, <2>3 DEF WriteBack
  <2>4. CASE ~Retires(taken)
    BY <1>2, <2>1, <2>2, <2>4 DEF WriteBack, AfterResult
  <2> QED BY <2>3, <2>4
<1>4. CASE pipe # <<>>
  <2>1. Advances(taken)
    BY <1>4 DEF MayExecute
  <2>2. files' = AfterResult
    BY <2>1 DEF Advances, WriteBack, AfterResult
  <2>3. res' = <<[op |-> pipe[1].op, answer |-> PipeAnswer]>>
    BY <1>1, <2>1
  <2>4. AfterResult' = Commit(files', pipe[1].op, PipeAnswer)
    BY <1>2, <2>3
  <2> QED BY <1>4, <2>2, <2>4 DEF Architectural
<1> QED BY <1>3, <1>4

LEMMA ExecForwardStep ==
  ASSUME GroupTypeOK, NEW taken, AcceptExec(taken)
  PROVE  OperandsUpToDate'
<1>1. PICK op \in ExecOps :
        /\ MayExecute(taken)
        /\ Stages(taken, <<[op |-> op, operands |-> Captured(op)]>>)
        /\ files' = WriteBack(taken)
  BY DEF AcceptExec
<1>2. pipe' = <<[op |-> op, operands |-> Captured(op)]>>
  BY <1>1 DEF Stages
<1>3. pipe'[1].op = op /\ pipe'[1].operands = Captured(op)
  BY <1>2
<1>4. Captured(op) = Operands(AfterResult', op)
  BY <1>1, AdmittedBehind, CapturedIsCurrent
<1>5. pipe'[1].operands = Operands(AfterResult', pipe'[1].op)
  BY <1>3, <1>4
<1> QED BY <1>5 DEF OperandsUpToDate

(* Where nothing is admitted an operation that stays in the operand stage  *)
(* stays behind the same result.                                           *)
LEMMA StayForwardStep ==
  ASSUME GroupTypeOK, OperandsUpToDate, NEW taken, Stages(taken, <<>>),
         pipe = <<>> \/ files' = WriteBack(taken)
  PROVE  OperandsUpToDate'
<1>1. pipe' = IF Advances(taken) THEN <<>> ELSE pipe
  BY DEF Stages
<1>2. CASE pipe = <<>> \/ Advances(taken)
  BY <1>1, <1>2 DEF OperandsUpToDate
<1>3. CASE pipe # <<>> /\ ~Advances(taken)
  <2>1. res # <<>> /\ ~Retires(taken)
    BY <1>3 DEF Advances
  <2>2. pipe' = pipe /\ res' = res /\ files' = files
    BY <1>1, <1>3, <2>1 DEF Stages, WriteBack
  <2> QED BY <2>2 DEF OperandsUpToDate, AfterResult
<1> QED BY <1>2, <1>3

(* An operation in the operand stage of simd_group_wrapper holds the       *)
(* operands it would read had everything before it been written back.      *)
THEOREM ForwardingCorrect == GroupSpec => []OperandsUpToDate
<1>1. GroupInit => OperandsUpToDate
  BY DEF GroupInit, OperandsUpToDate
<1>2. GroupTypeOK /\ OperandsUpToDate /\ [GroupNext]_groupVars
        => OperandsUpToDate'
  <2> SUFFICES ASSUME GroupTypeOK, OperandsUpToDate, [GroupNext]_groupVars
               PROVE  OperandsUpToDate'
    OBVIOUS
  <2>1. ASSUME NEW taken, AcceptExec(taken) PROVE OperandsUpToDate'
    BY <2>1, ExecForwardStep
  <2>2. ASSUME NEW taken, AcceptWrite(taken) PROVE OperandsUpToDate'
    BY <2>2, StayForwardStep DEF AcceptWrite, MayWrite
  <2>3. ASSUME NEW taken, AcceptRead(taken) PROVE OperandsUpToDate'
    BY <2>3, StayForwardStep DEF AcceptRead
  <2>4. ASSUME NEW taken, AcceptNothing(taken) PROVE OperandsUpToDate'
    BY <2>4, StayForwardStep DEF AcceptNothing
  <2>5. CASE UNCHANGED groupVars
    BY <2>5 DEF groupVars, OperandsUpToDate, AfterResult
  <2> QED BY <2>1, <2>2, <2>3, <2>4, <2>5 DEF GroupNext
<1> QED BY <1>1, <1>2, GroupTypeCorrect, PTL DEF GroupSpec

----------------------------------------------------------------------------
(* The group behaves as if it did one request at a time *)

(* What each request does and is answered is the same in both modules.     *)
LEMMA SameRequests ==
  /\ Ordered!Files = Files
  /\ \A f, op : Ordered!Operands(f, op) = Operands(f, op)
  /\ \A f, op, d : Ordered!Commit(f, op, d) = Commit(f, op, d)
  /\ \A op, d : /\ Ordered!ExecCompletion(op, d) = ExecCompletion(op, d)
                /\ Ordered!ExecResponses(op, d) = ExecResponses(op, d)
  /\ \A r, i, h : Ordered!Completion(r, i, h) = Completion(r, i, h)
  /\ \A w : Ordered!WriteIllegal(w) = WriteIllegal(w)
  /\ \A f, w : Ordered!StateWrite(f, w) = StateWrite(f, w)
  /\ \A r : Ordered!ReadIllegal(r) = ReadIllegal(r)
  /\ \A f, r : Ordered!StateRead(f, r) = StateRead(f, r)
<1>1. Ordered!Files = Files
  BY DEF Ordered!Files, Files, Ordered!Row, Row, Ordered!Mask, Mask
<1>2. \A f, op : Ordered!Operands(f, op) = Operands(f, op)
  BY DEF Ordered!Operands, Operands
<1>3. \A op, d : Ordered!Refused(op, d) = Refused(op, d)
  BY DEF Ordered!Refused, Refused, Ordered!EndpointIllegal, EndpointIllegal,
     Ordered!WideOnly, WideOnly
<1>4. /\ \A op : Ordered!GroupOp(op) = GroupOp(op)
      /\ \A op : Ordered!MaskLogic(op) = MaskLogic(op)
      /\ \A op : Ordered!Compact(op) = Compact(op)
  BY DEF Ordered!GroupOp, GroupOp, Ordered!MaskLogic, MaskLogic, Ordered!Compact, Compact
<1>5. /\ \A op, d : Ordered!WriteMask(op, d) = WriteMask(op, d)
      /\ \A op, d : Ordered!NarrowMask(op, d) = NarrowMask(op, d)
      /\ \A op : Ordered!NeedsResult(op) = NeedsResult(op)
  BY <1>4 DEF Ordered!WriteMask, WriteMask, Ordered!NarrowMask, NarrowMask,
     Ordered!NeedsResult, NeedsResult
<1>6. /\ \A f, e, a, m, r : Ordered!WriteRow(f, e, a, m, r) = WriteRow(f, e, a, m, r)
      /\ \A f, e, a, m, r : Ordered!WriteBits(f, e, a, m, r) = WriteBits(f, e, a, m, r)
      /\ \A m, r : Ordered!Returned(m, r) = Returned(m, r)
  BY DEF Ordered!WriteRow, WriteRow, Ordered!WriteBits, WriteBits, Ordered!Merge, Merge,
     Ordered!MergeBits, MergeBits, Ordered!Returned, Returned
<1>7. \A f, op, d : Ordered!Commit(f, op, d) = Commit(f, op, d)
  BY <1>3, <1>5, <1>6 DEF Ordered!Commit, Commit
<1>8. \A r, i, h : Ordered!Completion(r, i, h) = Completion(r, i, h)
  BY DEF Ordered!Completion, Completion
<1>9. \A op, d : /\ Ordered!ExecCompletion(op, d) = ExecCompletion(op, d)
                 /\ Ordered!ExecResponses(op, d) = ExecResponses(op, d)
  BY <1>3, <1>5, <1>6, <1>8 DEF Ordered!ExecCompletion, ExecCompletion,
     Ordered!ExecResponses, ExecResponses, Ordered!Response, Response
<1>10. \A w : Ordered!WriteIllegal(w) = WriteIllegal(w)
  BY DEF Ordered!WriteIllegal, WriteIllegal, Ordered!Rows, Rows
<1>11. \A f, w : Ordered!StateWrite(f, w) = StateWrite(f, w)
  BY <1>6, <1>10 DEF Ordered!StateWrite, StateWrite
<1>12. \A r : Ordered!ReadIllegal(r) = ReadIllegal(r)
  BY DEF Ordered!ReadIllegal, ReadIllegal
<1>13. \A f, r : Ordered!StateRead(f, r) = StateRead(f, r)
  BY <1>6, <1>12 DEF Ordered!StateRead, StateRead
<1> QED BY <1>1, <1>2, <1>7, <1>8, <1>9, <1>10, <1>11, <1>12, <1>13

(* Concatenation under a name of its own: the facts below are all the      *)
(* proofs use of it.                                                       *)
Cat(s, t) == s \o t

LEMMA CatFacts ==
  ASSUME NEW S
  PROVE  /\ \A s, t \in Seq(S) : Cat(s, t) \in Seq(S)
         /\ \A s \in Seq(S) : Cat(s, <<>>) = s /\ Cat(<<>>, s) = s
         /\ \A s, t, u \in Seq(S) : Cat(Cat(s, t), u) = Cat(s, Cat(t, u))
<1>1. \A s, t \in Seq(S) : s \o t \in Seq(S)
  OBVIOUS
<1>2. \A s \in Seq(S) : s \o <<>> = s /\ <<>> \o s = s
  OBVIOUS
<1>3. \A s, t, u \in Seq(S) : (s \o t) \o u = s \o (t \o u)
  OBVIOUS
<1> QED BY <1>1, <1>2, <1>3 DEF Cat

(* Without its first entry.                                                *)
LEMMA TailOfOne ==
  ASSUME NEW S, NEW x \in S, NEW s \in Seq(S)
  PROVE  Cat(<<x>>, s) # <<>> /\ Tail(Cat(<<x>>, s)) = s
<1> DEFINE one == <<x>>
           q == one \o s
<1>1. one \in Seq(S) /\ Len(one) = 1 /\ Len(s) \in Nat
  OBVIOUS
<1> HIDE DEF one
<1>2. /\ q \in Seq(S) /\ Len(q) = 1 + Len(s)
      /\ \A i \in 1 .. 1 + Len(s) : q[i] = IF i <= 1 THEN one[i] ELSE s[i - 1]
  BY <1>1, ConcatProperties
<1> HIDE DEF q
<1>3. q # <<>> /\ \A i \in 1 .. Len(s) : q[i + 1] = s[i]
  BY <1>1, <1>2
<1>4. /\ Tail(q) \in Seq(S) /\ Len(Tail(q)) = Len(s)
      /\ \A i \in 1 .. Len(s) : Tail(q)[i] = s[i]
  BY <1>1, <1>2, <1>3, HeadTailProperties
<1>5. Tail(q) = s
  BY <1>4, SeqEqual
<1> QED BY <1>3, <1>5 DEF q, one, Cat

(* A channel of at most one waiting answer in front of those in flight:    *)
(* taking the first and promising more is what a step of the channel is.   *)
ChannelMoves(q, r, more) ==
  r = Cat(q, more) \/ (q # <<>> /\ r = Cat(Tail(q), more))

LEMMA ChannelStep ==
  ASSUME NEW S, NEW register \in Seq(S), Pending(register),
         NEW flight \in Seq(S), NEW more \in Seq(S),
         NEW channel, NEW taken, channel \in taken => register # <<>>
  PROVE  ChannelMoves(Cat(register, flight),
                      Cat(IF channel \in taken THEN <<>> ELSE register, Cat(flight, more)),
                      more)
<1>1. CASE channel \notin taken
  BY <1>1, CatFacts DEF ChannelMoves
<1>2. CASE channel \in taken
  <2>1. register = <<register[1]>> /\ register[1] \in S
    BY <1>2 DEF Pending
  <2>2. Tail(Cat(register, flight)) = flight /\ Cat(register, flight) # <<>>
    BY <2>1, TailOfOne
  <2>3. Cat(<<>>, Cat(flight, more)) = Cat(flight, more)
    BY CatFacts
  <2> QED BY <1>2, <2>2, <2>3 DEF ChannelMoves
<1> QED BY <1>1, <1>2

(* What retires, moves on and stays is what was in flight, then what is    *)
(* admitted behind it.                                                     *)
LEMMA FlightMoves ==
  ASSUME NEW S, NEW kept \in Seq(S), NEW result \in Seq(S), NEW operand \in Seq(S),
         NEW new \in Seq(S)
  PROVE  /\ Cat(Cat(Cat(kept, result), operand), new)
              = Cat(kept, Cat(Cat(result, operand), new))
         /\ Cat(Cat(Cat(kept, <<>>), result), operand)
              = Cat(kept, Cat(Cat(result, operand), <<>>))
         /\ Cat(Cat(Cat(kept, <<>>), result), new)
              = Cat(kept, Cat(Cat(result, <<>>), new))
<1>1. Cat(Cat(Cat(kept, result), operand), new) = Cat(kept, Cat(Cat(result, operand), new))
  <2>1. Cat(Cat(kept, result), operand) = Cat(kept, Cat(result, operand))
    BY CatFacts
  <2>2. Cat(result, operand) \in Seq(S)
    BY CatFacts
  <2> QED BY <2>1, <2>2, CatFacts
<1>2. Cat(kept, <<>>) = kept /\ Cat(result, <<>>) = result
      /\ Cat(Cat(result, operand), <<>>) = Cat(result, operand)
  BY CatFacts
<1>3. /\ Cat(Cat(kept, result), operand) = Cat(kept, Cat(result, operand))
      /\ Cat(Cat(kept, result), new) = Cat(kept, Cat(result, new))
  BY CatFacts
<1> QED BY <1>1, <1>2, <1>3

(* The three ways in which an edge moves the stages.                       *)
LEMMA StagesMove ==
  ASSUME GroupTypeOK, NEW taken, NEW admitted, Stages(taken, admitted),
         admitted # <<>> => MayExecute(taken)
  PROVE  \/ /\ Retired(taken) = res
            /\ res' = IF pipe = <<>> THEN <<>>
                      ELSE <<[op |-> pipe[1].op, answer |-> PipeAnswer]>>
            /\ pipe' = admitted
         \/ /\ Retired(taken) = <<>> /\ res' = res /\ admitted = <<>> /\ pipe' = pipe
         \/ /\ Retired(taken) = <<>> /\ res' = res /\ pipe = <<>> /\ pipe' = admitted
<1>1. /\ pipe' = IF admitted # <<>> THEN admitted
                 ELSE IF Advances(taken) THEN <<>> ELSE pipe
      /\ res' = IF Advances(taken)
                THEN <<[op |-> pipe[1].op, answer |-> PipeAnswer]>>
                ELSE IF Retires(taken) THEN <<>> ELSE res
  BY DEF Stages
<1>2. CASE Advances(taken)
  <2>1. Retired(taken) = res /\ pipe # <<>>
    BY <1>2 DEF Advances, Retired
  <2>2. pipe' = admitted
    BY <1>1, <1>2
  <2> QED BY <1>1, <1>2, <2>1, <2>2
<1>3. CASE ~Advances(taken) /\ pipe = <<>>
  BY <1>1, <1>3 DEF Retired
<1>4. CASE ~Advances(taken) /\ pipe # <<>>
  <2>1. admitted = <<>> /\ ~Retires(taken)
    BY <1>4 DEF MayExecute, Advances
  <2> QED BY <1>1, <1>4, <2>1 DEF Retired
<1> QED BY <1>2, <1>3, <1>4

(* A one-entry register is a sequence.                                     *)
LEMMA PendingSeq ==
  ASSUME NEW S, NEW x, Pending(x), x # <<>> => x[1] \in S
  PROVE  x \in Seq(S)
<1>1. CASE x = <<>>
  BY <1>1
<1>2. CASE x # <<>>
  <2>1. x = <<x[1]>> /\ x[1] \in S
    BY <1>2 DEF Pending
  <2>2. \A y \in S : <<y>> \in Seq(S)
    OBVIOUS
  <2> QED BY <2>1, <2>2
<1> QED BY <1>1, <1>2

(* A stage owes at most one completion and one response.                   *)
LEMMA InFlightPending ==
  /\ GroupTypeOK => Pending(PipeCompletions) /\ Pending(PipeResponses)
  /\ GroupTypeOK => Pending(CompletionsOf(res)) /\ Pending(ResponsesOf(res))
BY DEF PipeCompletions, PipeResponses, CompletionsOf, ResponsesOf, ExecResponses, Pending

(* One edge of the completion channel and of the result channel.           *)
Owed == cpl \o CompletionsOf(res) \o PipeCompletions
Results == rsp \o ResponsesOf(res) \o PipeResponses

LEMMA AnswersMove ==
  ASSUME GroupTypeOK, GroupTypeOK', NEW taken \in SUBSET Occupied, NEW admitted,
         Stages(taken, admitted), admitted # <<>> => MayExecute(taken)
  PROVE  /\ Complete(taken, CompletionsOf(Retired(taken))) =>
              ChannelMoves(Owed, Owed', IF admitted = <<>> THEN <<>> ELSE PipeCompletions')
         /\ ChannelMoves(Results, Results', IF admitted = <<>> THEN <<>> ELSE PipeResponses')
<1>1. ASSUME NEW register, Pending(register), NEW channel, channel \in taken => register # <<>>,
             NEW retired, NEW result, NEW operand, NEW result2, NEW operand2, NEW new,
             Pending(result), Pending(operand), Pending(new),
             \/ retired = result /\ result2 = operand /\ operand2 = new
             \/ retired = <<>> /\ result2 = result /\ operand2 = operand /\ new = <<>>
             \/ retired = <<>> /\ result2 = result /\ operand = <<>> /\ operand2 = new
      PROVE  ChannelMoves(Cat(Cat(register, result), operand),
                          Cat(Cat(Push(register, channel, taken, retired), result2), operand2), new)
  <2> DEFINE S == {register[1], result[1], operand[1], new[1]}
             kept == IF channel \in taken THEN <<>> ELSE register
  <2>1. register \in Seq(S) /\ result \in Seq(S) /\ operand \in Seq(S) /\ new \in Seq(S)
    BY <1>1, PendingSeq
  <2>2. <<>> \in Seq(S)
    OBVIOUS
  <2>3. kept \in Seq(S) /\ retired \in Seq(S) /\ result2 \in Seq(S) /\ operand2 \in Seq(S)
    BY <1>1, <2>1, <2>2
  <2> HIDE DEF S
  <2>4. Cat(Cat(Cat(kept, retired), result2), operand2)
          = Cat(kept, Cat(Cat(result, operand), new))
    <3> HIDE DEF kept
    <3>1. \/ retired = result /\ result2 = operand /\ operand2 = new
          \/ retired = <<>> /\ result2 = result /\ operand2 = operand /\ new = <<>>
          \/ retired = <<>> /\ result2 = result /\ operand = <<>> /\ operand2 = new
      BY <1>1
    <3>2. /\ Cat(Cat(Cat(kept, result), operand), new)
                = Cat(kept, Cat(Cat(result, operand), new))
          /\ Cat(Cat(Cat(kept, <<>>), result), operand)
                = Cat(kept, Cat(Cat(result, operand), <<>>))
          /\ Cat(Cat(Cat(kept, <<>>), result), new)
                = Cat(kept, Cat(Cat(result, <<>>), new))
      BY <2>1, <2>3, FlightMoves
    <3> QED BY <3>1, <3>2
  <2>5. Cat(result, operand) \in Seq(S)
    BY <2>1, CatFacts
  <2>6. Cat(Cat(register, result), operand) = Cat(register, Cat(result, operand))
    BY <2>1, CatFacts
  <2>7. ChannelMoves(Cat(register, Cat(result, operand)),
                     Cat(kept, Cat(Cat(result, operand), new)), new)
    BY <1>1, <2>1, <2>5, ChannelStep
  <2>8. Push(register, channel, taken, retired) = Cat(kept, retired)
    BY DEF Push, Cat
  <2> QED BY <2>4, <2>6, <2>7, <2>8
<1>2. /\ Pending(cpl) /\ ("CPL" \in taken => cpl # <<>>)
      /\ Pending(rsp) /\ ("RSP" \in taken => rsp # <<>>)
  BY DEF GroupTypeOK, Occupied
<1> DEFINE newC == IF admitted = <<>> THEN <<>> ELSE PipeCompletions'
           newR == IF admitted = <<>> THEN <<>> ELSE PipeResponses'
<1>3. Pending(newC) /\ Pending(newR)
  <2>1. Pending(PipeCompletions') /\ Pending(PipeResponses')
    BY DEF PipeCompletions, PipeResponses, ExecResponses, Pending
  <2> QED BY <2>1, NothingPending
<1>4. \/ /\ CompletionsOf(Retired(taken)) = CompletionsOf(res)
         /\ CompletionsOf(res') = PipeCompletions /\ PipeCompletions' = newC
         /\ ResponsesOf(Retired(taken)) = ResponsesOf(res)
         /\ ResponsesOf(res') = PipeResponses /\ PipeResponses' = newR
      \/ /\ CompletionsOf(Retired(taken)) = <<>>
         /\ CompletionsOf(res') = CompletionsOf(res)
         /\ PipeCompletions' = PipeCompletions /\ newC = <<>>
         /\ ResponsesOf(Retired(taken)) = <<>>
         /\ ResponsesOf(res') = ResponsesOf(res)
         /\ PipeResponses' = PipeResponses /\ newR = <<>>
      \/ /\ CompletionsOf(Retired(taken)) = <<>>
         /\ CompletionsOf(res') = CompletionsOf(res)
         /\ PipeCompletions = <<>> /\ PipeCompletions' = newC
         /\ ResponsesOf(Retired(taken)) = <<>>
         /\ ResponsesOf(res') = ResponsesOf(res)
         /\ PipeResponses = <<>> /\ PipeResponses' = newR
  <2>1. CASE /\ Retired(taken) = res
             /\ res' = IF pipe = <<>> THEN <<>>
                       ELSE <<[op |-> pipe[1].op, answer |-> PipeAnswer]>>
             /\ pipe' = admitted
    <3>1. CompletionsOf(res') = PipeCompletions /\ ResponsesOf(res') = PipeResponses
      BY <2>1 DEF CompletionsOf, ResponsesOf, PipeCompletions, PipeResponses
    <3>2. PipeCompletions' = newC /\ PipeResponses' = newR
      BY <2>1 DEF PipeCompletions, PipeResponses
    <3> QED BY <2>1, <3>1, <3>2
  <2>2. CASE Retired(taken) = <<>> /\ res' = res /\ admitted = <<>> /\ pipe' = pipe
    BY <2>2 DEF CompletionsOf, ResponsesOf, PipeCompletions, PipeResponses, PipeAnswer
  <2>3. CASE Retired(taken) = <<>> /\ res' = res /\ pipe = <<>> /\ pipe' = admitted
    BY <2>3 DEF CompletionsOf, ResponsesOf, PipeCompletions, PipeResponses
  <2> QED BY <2>1, <2>2, <2>3, StagesMove
<1> HIDE DEF newC, newR
<1>5. Pending(CompletionsOf(res)) /\ Pending(PipeCompletions)
      /\ Pending(ResponsesOf(res)) /\ Pending(PipeResponses)
  BY InFlightPending
<1>6. ASSUME Complete(taken, CompletionsOf(Retired(taken)))
      PROVE  ChannelMoves(Owed, Owed', newC)
  <2>1. ChannelMoves(Cat(Cat(cpl, CompletionsOf(res)), PipeCompletions),
          Cat(Cat(Push(cpl, "CPL", taken, CompletionsOf(Retired(taken))), CompletionsOf(res')),
              PipeCompletions'), newC)
    BY <1>1, <1>2, <1>3, <1>4, <1>5
  <2>2. cpl' = Push(cpl, "CPL", taken, CompletionsOf(Retired(taken)))
    BY <1>6 DEF Complete
  <2>3. /\ Owed = Cat(Cat(cpl, CompletionsOf(res)), PipeCompletions)
        /\ Owed' = Cat(Cat(cpl', CompletionsOf(res')), PipeCompletions')
    BY Zenon DEF Owed, Cat
  <2> QED BY <2>1, <2>2, <2>3
<1>7. ChannelMoves(Results, Results', newR)
  <2>1. ChannelMoves(Cat(Cat(rsp, ResponsesOf(res)), PipeResponses),
          Cat(Cat(Push(rsp, "RSP", taken, ResponsesOf(Retired(taken))), ResponsesOf(res')),
              PipeResponses'), newR)
    BY <1>1, <1>2, <1>3, <1>4, <1>5
  <2>2. rsp' = Push(rsp, "RSP", taken, ResponsesOf(Retired(taken)))
    BY DEF Stages
  <2>3. /\ Results = Cat(Cat(rsp, ResponsesOf(res)), PipeResponses)
        /\ Results' = Cat(Cat(rsp', ResponsesOf(res')), PipeResponses')
    BY Zenon DEF Results, Cat
  <2> QED BY <2>1, <2>2, <2>3
<1> QED BY <1>6, <1>7 DEF newC, newR

(* A return register that nothing in flight stands behind.                 *)
LEMMA RegisterMoves ==
  ASSUME NEW register, Pending(register), NEW channel, NEW taken,
         channel \in taken => register # <<>>, NEW more, Pending(more)
  PROVE  ChannelMoves(register, Push(register, channel, taken, more), more)
<1> DEFINE S == {register[1], more[1]}
           kept == IF channel \in taken THEN <<>> ELSE register
<1>1. register \in Seq(S) /\ more \in Seq(S) /\ <<>> \in Seq(S)
  BY PendingSeq
<1> HIDE DEF S
<1>2. ChannelMoves(Cat(register, <<>>), Cat(kept, Cat(<<>>, more)), more)
  BY <1>1, ChannelStep
<1>3. Cat(register, <<>>) = register /\ Cat(<<>>, more) = more
  BY <1>1, CatFacts
<1>4. Push(register, channel, taken, more) = Cat(kept, more)
  BY DEF Push, Cat
<1> QED BY <1>2, <1>3, <1>4

(* At an edge that admits nothing the architectural files stay.            *)
LEMMA StagesKeepFiles ==
  ASSUME GroupTypeOK, NEW taken, Stages(taken, <<>>), files' = WriteBack(taken)
  PROVE  Architectural' = Architectural
<1>1. CASE /\ Retired(taken) = res
           /\ res' = IF pipe = <<>> THEN <<>>
                     ELSE <<[op |-> pipe[1].op, answer |-> PipeAnswer]>>
           /\ pipe' = <<>>
  <2>1. files' = AfterResult
    BY <1>1 DEF WriteBack, Retired, AfterResult
  <2>2. Architectural' = AfterResult'
    BY <1>1 DEF Architectural
  <2>3. AfterResult' = IF res' = <<>> THEN files' ELSE Commit(files', res'[1].op, res'[1].answer)
    BY DEF AfterResult
  <2>4. CASE pipe = <<>>
    BY <1>1, <2>1, <2>2, <2>3, <2>4 DEF Architectural
  <2>5. CASE pipe # <<>>
    <3>1. res'[1].op = pipe[1].op /\ res'[1].answer = PipeAnswer /\ res' # <<>>
      BY <1>1, <2>5
    <3> QED BY <2>1, <2>2, <2>3, <2>5, <3>1 DEF Architectural
  <2> QED BY <2>4, <2>5
<1>2. CASE Retired(taken) = <<>> /\ res' = res /\ pipe' = pipe
  <2>1. files' = files
    BY <1>2 DEF WriteBack, Retired, Retires
  <2> QED BY <1>2, <2>1 DEF Architectural, AfterResult, PipeAnswer
<1> QED BY <1>1, <1>2, StagesMove

(* An edge of the two registers of the reads.                              *)
LEMMA ReadsMove ==
  ASSUME GroupTypeOK, NEW taken \in SUBSET Occupied, NEW completions, NEW rows,
         Pending(completions), Pending(rows), ReturnRead(taken, completions, rows)
  PROVE  /\ ChannelMoves(readCpl, readCpl', completions)
         /\ ChannelMoves(readRsp, readRsp', rows)
<1>1. /\ Pending(readCpl) /\ ("READ_CPL" \in taken => readCpl # <<>>)
      /\ Pending(readRsp) /\ ("READ_RSP" \in taken => readRsp # <<>>)
  BY DEF GroupTypeOK, Occupied
<1> QED BY <1>1, RegisterMoves DEF ReturnRead

(* Each of the four kinds of edge is a step of OrderedGroup.               *)
LEMMA ExecRefines ==
  ASSUME GroupTypeOK, GroupTypeOK', NEW taken \in SUBSET Occupied, AcceptExec(taken)
  PROVE  Ordered!Execute
<1>1. PICK op \in ExecOps :
        /\ MayExecute(taken)
        /\ Stages(taken, <<[op |-> op, operands |-> Captured(op)]>>)
        /\ files' = WriteBack(taken)
        /\ Complete(taken, CompletionsOf(Retired(taken)))
        /\ ReturnRead(taken, <<>>, <<>>)
  BY DEF AcceptExec
<1> DEFINE d == Datapath(op, Operands(Architectural, op))
           entry == <<[op |-> op, operands |-> Captured(op)]>>
<1>2. entry # <<>> /\ entry[1].op = op /\ entry[1].operands = Captured(op)
  OBVIOUS
<1>3. Stages(taken, entry)
  BY <1>1
<1> HIDE DEF entry
<1>4. pipe' = entry
  BY <1>2, <1>3 DEF Stages
<1>5. PipeAnswer' = d
  BY <1>2, <1>4, CapturedIsCurrent DEF PipeAnswer
<1>6. AfterResult' = Architectural
  BY <1>1, AdmittedBehind
<1> HIDE DEF d
<1>7. Architectural' = Commit(Architectural, op, d)
  BY <1>2, <1>4, <1>5, <1>6 DEF Architectural
<1>8. PipeCompletions' = <<ExecCompletion(op, d)>> /\ PipeResponses' = ExecResponses(op, d)
  BY <1>2, <1>4, <1>5 DEF PipeCompletions, PipeResponses
<1>9. ChannelMoves(Owed, Owed', <<ExecCompletion(op, d)>>)
      /\ ChannelMoves(Results, Results', ExecResponses(op, d))
  BY <1>1, <1>2, <1>3, <1>8, AnswersMove
<1>10. ChannelMoves(readCpl, readCpl', <<>>) /\ ChannelMoves(readRsp, readRsp', <<>>)
  BY <1>1, ReadsMove, NothingPending
<1>11. /\ d = Datapath(op, Ordered!Operands(Architectural, op))
       /\ ExecCompletion(op, d) = Ordered!ExecCompletion(op, d)
       /\ ExecResponses(op, d) = Ordered!ExecResponses(op, d)
       /\ Commit(Architectural, op, d) = Ordered!Commit(Architectural, op, d)
  BY SameRequests DEF d
<1> QED BY <1>7, <1>9, <1>10, <1>11, Zenon
     DEF Ordered!Execute, Ordered!Answer, Ordered!Channel, ChannelMoves, Cat, Owed, Results

LEMMA WriteRefines ==
  ASSUME GroupTypeOK, GroupTypeOK', NEW taken \in SUBSET Occupied, AcceptWrite(taken)
  PROVE  Ordered!WriteState
<1>1. PICK w \in WriteOps :
        /\ MayWrite(taken) /\ Stages(taken, <<>>)
        /\ files' = StateWrite(WriteBack(taken), w)
        /\ Complete(taken, CompletionsOf(Retired(taken)) \o
                           <<Completion(w, WriteIllegal(w), FALSE)>>)
        /\ ReturnRead(taken, <<>>, <<>>)
  BY DEF AcceptWrite
<1> DEFINE c == <<Completion(w, WriteIllegal(w), FALSE)>>
<1>2. pipe = <<>> /\ res = <<>>
  BY <1>1 DEF MayWrite
<1>3. Retired(taken) = <<>> /\ pipe' = <<>> /\ res' = <<>> /\ WriteBack(taken) = files
  BY <1>1, <1>2 DEF Stages, Advances, Retires, Retired, WriteBack
<1>4. Architectural = files /\ Architectural' = files'
  BY <1>2, <1>3 DEF Architectural, AfterResult
<1>5. ChannelMoves(Owed, Owed', c)
  <2>1. CompletionsOf(Retired(taken)) \o c = c
    BY <1>3, ConcatOne DEF CompletionsOf
  <2> HIDE DEF c
  <2>2. cpl' = Push(cpl, "CPL", taken, c)
    BY <1>1, <2>1 DEF Complete, c
  <2>3. Pending(cpl) /\ Pending(cpl') /\ Pending(c) /\ ("CPL" \in taken => cpl # <<>>)
    BY OnePending DEF GroupTypeOK, Occupied, c
  <2>4. ChannelMoves(cpl, cpl', c)
    BY <2>2, <2>3, RegisterMoves
  <2>5. Owed = cpl /\ Owed' = cpl'
    <3>1. \A x : Pending(x) => Cat(Cat(x, <<>>), <<>>) = x
      <4> SUFFICES ASSUME NEW x, Pending(x) PROVE Cat(Cat(x, <<>>), <<>>) = x
        OBVIOUS
      <4>1. x \in Seq({x[1]})
        BY PendingSeq
      <4> QED BY <4>1, CatFacts
    <3>2. Owed = Cat(Cat(cpl, <<>>), <<>>) /\ Owed' = Cat(Cat(cpl', <<>>), <<>>)
      BY <1>2, <1>3, Zenon DEF Owed, Cat, CompletionsOf, PipeCompletions
    <3> QED BY <2>3, <3>1, <3>2
  <2> QED BY <2>4, <2>5
<1>6. ChannelMoves(Results, Results', <<>>)
  BY <1>1, AnswersMove
<1>7. ChannelMoves(readCpl, readCpl', <<>>) /\ ChannelMoves(readRsp, readRsp', <<>>)
  BY <1>1, ReadsMove, NothingPending
<1>8. Architectural' = StateWrite(Architectural, w)
  BY <1>1, <1>3, <1>4
<1>9. /\ StateWrite(Architectural, w) = Ordered!StateWrite(Architectural, w)
      /\ Completion(w, WriteIllegal(w), FALSE)
           = Ordered!Completion(w, Ordered!WriteIllegal(w), FALSE)
  BY SameRequests
<1> QED BY <1>5, <1>6, <1>7, <1>8, <1>9, Zenon
     DEF Ordered!WriteState, Ordered!Answer, Ordered!Channel, ChannelMoves, Cat, Owed, Results

LEMMA ReadRefines ==
  ASSUME GroupTypeOK, GroupTypeOK', NEW taken \in SUBSET Occupied, AcceptRead(taken)
  PROVE  Ordered!ReadState
<1>1. PICK r \in ReadOps :
        /\ MayRead(taken) /\ Stages(taken, <<>>)
        /\ files' = WriteBack(taken)
        /\ Complete(taken, CompletionsOf(Retired(taken)))
        /\ ReturnRead(taken, <<Completion(r, ReadIllegal(r), TRUE)>>,
                      <<StateRead(files, r)>>)
  BY DEF AcceptRead
<1>2. Architectural = files
  BY <1>1 DEF MayRead, Architectural, AfterResult
<1>3. ChannelMoves(readCpl, readCpl', <<Completion(r, ReadIllegal(r), TRUE)>>)
      /\ ChannelMoves(readRsp, readRsp', <<StateRead(files, r)>>)
  BY <1>1, ReadsMove, OnePending
<1>4. ChannelMoves(Owed, Owed', <<>>) /\ ChannelMoves(Results, Results', <<>>)
  BY <1>1, AnswersMove
<1>5. Architectural' = Architectural
  BY <1>1, StagesKeepFiles
<1>6. /\ Completion(r, ReadIllegal(r), TRUE) = Ordered!Completion(r, Ordered!ReadIllegal(r), TRUE)
      /\ StateRead(Architectural, r) = Ordered!StateRead(Architectural, r)
  BY SameRequests
<1>7. ChannelMoves(readRsp, readRsp', <<StateRead(Architectural, r)>>)
  BY <1>2, <1>3
<1> QED BY <1>3, <1>4, <1>5, <1>6, <1>7, Zenon
     DEF Ordered!ReadState, Ordered!Answer, Ordered!Channel, ChannelMoves, Cat, Owed, Results

LEMMA IdleRefines ==
  ASSUME GroupTypeOK, GroupTypeOK', NEW taken \in SUBSET Occupied, AcceptNothing(taken)
  PROVE  Ordered!Deliver
<1>1. /\ Stages(taken, <<>>)
      /\ files' = WriteBack(taken)
      /\ Complete(taken, CompletionsOf(Retired(taken)))
      /\ ReturnRead(taken, <<>>, <<>>)
  BY DEF AcceptNothing
<1>2. ChannelMoves(readCpl, readCpl', <<>>) /\ ChannelMoves(readRsp, readRsp', <<>>)
  BY <1>1, ReadsMove, NothingPending
<1>3. ChannelMoves(Owed, Owed', <<>>) /\ ChannelMoves(Results, Results', <<>>)
  BY <1>1, AnswersMove
<1>4. Architectural' = Architectural
  BY <1>1, StagesKeepFiles
<1> QED BY <1>2, <1>3, <1>4, Zenon
     DEF Ordered!Deliver, Ordered!Answer, Ordered!Channel, ChannelMoves, Cat, Owed, Results

(* simd_group_wrapper implements OrderedGroup: whatever the consumers      *)
(* stall, every request takes effect as if at once on the files everything *)
(* before it left, and is answered once and in order on each channel.      *)
THEOREM PipelineRefinement == GroupSpec => ExecutesInTurn
<1>1. GroupInit => Ordered!Init
  <2> SUFFICES ASSUME GroupInit PROVE Ordered!Init
    OBVIOUS
  <2>1. Architectural = files /\ files \in Files
    BY DEF GroupInit, Architectural, AfterResult
  <2>2. Owed = <<>> /\ Results = <<>>
    <3>1. cpl = <<>> /\ rsp = <<>> /\ CompletionsOf(res) = <<>> /\ PipeCompletions = <<>>
          /\ ResponsesOf(res) = <<>> /\ PipeResponses = <<>>
      BY DEF GroupInit, CompletionsOf, PipeCompletions, ResponsesOf, PipeResponses
    <3> QED BY <3>1, ConcatOne DEF Owed, Results
  <2>3. readCpl = <<>> /\ readRsp = <<>>
    BY DEF GroupInit
  <2> QED BY <2>1, <2>2, <2>3, SameRequests DEF Ordered!Init, Owed, Results
<1>2. GroupTypeOK /\ GroupTypeOK' /\ [GroupNext]_groupVars => [Ordered!Next]_(Ordered!vars)
  <2> SUFFICES ASSUME GroupTypeOK, GroupTypeOK', [GroupNext]_groupVars
               PROVE  [Ordered!Next]_(Ordered!vars)
    OBVIOUS
  <2>1. CASE GroupNext
    <3>1. PICK taken \in SUBSET Occupied :
            \/ AcceptExec(taken) \/ AcceptWrite(taken)
            \/ AcceptRead(taken) \/ AcceptNothing(taken)
      BY <2>1 DEF GroupNext
    <3>2. Ordered!Execute \/ Ordered!WriteState \/ Ordered!ReadState \/ Ordered!Deliver
      BY <3>1, ExecRefines, WriteRefines, ReadRefines, IdleRefines
    <3> QED BY <3>2 DEF Ordered!Next
  <2>2. CASE UNCHANGED groupVars
    BY <2>2 DEF groupVars, returnVars, Ordered!vars, Architectural, AfterResult, PipeAnswer,
       CompletionsOf, ResponsesOf, PipeCompletions, PipeResponses
  <2> QED BY <2>1, <2>2
<1> QED BY <1>1, <1>2, GroupTypeCorrect, PTL DEF GroupSpec, ExecutesInTurn, Ordered!Spec

----------------------------------------------------------------------------
(* The networks that move lanes, for every number of lanes *)

Network == INSTANCE Permutation

\* The networks count as everybody does.
LEMMA NetworkCount == \A S : Network!Cardinality(S) = Cardinality(S)
BY Zenon DEF Network!Cardinality, Cardinality

\* The active lanes below one
BelowLane(mask, i) == {j \in mask : j < i}

LEMMA ActiveLanes ==
  ASSUME NEW n \in Nat, NEW mask \in SUBSET Network!Lanes(n)
  PROVE  IsFiniteSet(mask) /\ Cardinality(mask) \in 0..n /\ mask \subseteq Nat
<1>1. Network!Lanes(n) = 0..(n - 1) /\ n - 1 \in Int /\ 0 \in Int
  BY DEF Network!Lanes
<1>2. IsFiniteSet(Network!Lanes(n)) /\ Cardinality(Network!Lanes(n)) = n
  BY <1>1, FS_Interval
<1>3. IsFiniteSet(mask) /\ Cardinality(mask) =< n
  BY <1>2, FS_Subset
<1> QED BY <1>1, <1>3, FS_CardinalityType

LEMMA LaneRank ==
  ASSUME NEW n \in Nat, NEW mask \in SUBSET Network!Lanes(n), NEW i
  PROVE  /\ Network!Rank(mask, i) = Cardinality(BelowLane(mask, i))
         /\ Network!Rank(mask, i) \in Nat /\ IsFiniteSet(BelowLane(mask, i))
<1>1. BelowLane(mask, i) \in SUBSET Network!Lanes(n)
  BY DEF BelowLane
<1>2. Network!Rank(mask, i) = Cardinality(BelowLane(mask, i))
  BY NetworkCount DEF Network!Rank, BelowLane
<1> QED BY <1>1, <1>2, ActiveLanes

\* A higher lane has a higher rank, and every rank is below the count.
LEMMA RankKeepsOrder ==
  ASSUME NEW n \in Nat, NEW mask \in SUBSET Network!Lanes(n), NEW i \in mask
  PROVE  /\ \A k \in mask : i < k => Network!Rank(mask, i) < Network!Rank(mask, k)
         /\ Network!Rank(mask, i) \in 0..(Cardinality(mask) - 1)
<1>1. mask \subseteq Nat /\ IsFiniteSet(mask) /\ Cardinality(mask) \in Nat
  BY ActiveLanes
<1>2. i \notin BelowLane(mask, i) /\ BelowLane(mask, i) \cup {i} \subseteq mask
  BY <1>1 DEF BelowLane
<1>3. /\ Cardinality(BelowLane(mask, i) \cup {i}) = Network!Rank(mask, i) + 1
      /\ Network!Rank(mask, i) \in Nat
  BY <1>2, LaneRank, FS_AddElement
<1>4. ASSUME NEW k \in mask, i < k
      PROVE  Network!Rank(mask, i) < Network!Rank(mask, k)
  <2>1. BelowLane(mask, i) \cup {i} \subseteq BelowLane(mask, k)
    <3>1. i \in Nat /\ k \in Nat /\ \A j \in mask : j \in Nat
      BY <1>1
    <3>2. \A j \in mask : j < i => j < k
      BY <1>4, <3>1
    <3> QED BY <1>4, <3>2, Zenon DEF BelowLane
  <2>2. /\ IsFiniteSet(BelowLane(mask, k)) /\ Network!Rank(mask, k) \in Nat
        /\ Cardinality(BelowLane(mask, k)) = Network!Rank(mask, k)
    BY LaneRank
  <2>3. Cardinality(BelowLane(mask, i) \cup {i}) =< Network!Rank(mask, k)
    BY <2>1, <2>2, FS_Subset
  <2> QED BY <1>3, <2>2, <2>3
<1>5. Network!Rank(mask, i) + 1 =< Cardinality(mask)
  BY <1>1, <1>2, <1>3, FS_Subset
<1> QED BY <1>1, <1>3, <1>4, <1>5

LEMMA RankTellsLanes ==
  ASSUME NEW n \in Nat, NEW mask \in SUBSET Network!Lanes(n), NEW i \in mask, NEW k \in mask,
         Network!Rank(mask, i) = Network!Rank(mask, k)
  PROVE  i = k
<1>1. i \in Nat /\ k \in Nat /\ Network!Rank(mask, i) \in Nat
  BY ActiveLanes, LaneRank
<1>2. ~(i < k) /\ ~(k < i)
  <2>1. i < k => Network!Rank(mask, i) < Network!Rank(mask, k)
    BY RankKeepsOrder
  <2>2. k < i => Network!Rank(mask, k) < Network!Rank(mask, i)
    BY RankKeepsOrder
  <2>3. PICK r \in Nat : r = Network!Rank(mask, i) /\ r = Network!Rank(mask, k)
    BY <1>1
  <2> QED BY <2>1, <2>2, <2>3
<1> QED BY <1>1, <1>2

\* So the ranks of the active lanes are the numbers below their count: as
\* many lanes as numbers, and no number twice.
LEMMA RanksFill ==
  ASSUME NEW n \in Nat, NEW mask \in SUBSET Network!Lanes(n)
  PROVE  {Network!Rank(mask, i) : i \in mask} = 0..(Cardinality(mask) - 1)
<1> DEFINE Numbers == 0..(Cardinality(mask) - 1)
           ranks == [i \in mask |-> Network!Rank(mask, i)]
<1>1. Cardinality(mask) \in Nat /\ IsFiniteSet(mask)
  BY ActiveLanes
<1>2. IsFiniteSet(Numbers) /\ Cardinality(Numbers) = Cardinality(mask)
  <2>1. Cardinality(mask) - 1 \in Int /\ 0 \in Int
    BY <1>1
  <2> QED BY <1>1, <2>1, FS_Interval
<1>3. ranks \in [mask -> Numbers]
  BY RankKeepsOrder
<1>4. ranks \in Injection(mask, Numbers)
  <2>1. \A i, k \in mask : ranks[i] = ranks[k] => i = k
    BY RankTellsLanes
  <2> QED BY <1>3, <2>1, Zenon DEF Injection, IsInjective
<1> HIDE DEF Numbers
<1>5. ranks \in Surjection(mask, Numbers)
  BY <1>2, <1>4, FS_Injection
<1>6. \A m \in Numbers : \E i \in mask : ranks[i] = m
  BY <1>5, Zenon DEF Surjection
<1> QED BY <1>3, <1>6 DEF Numbers

\* The active lane of a rank
Origin(mask, d) == CHOOSE i \in mask : Network!Rank(mask, i) = d

\* What the compactor does in each direction
LEMMA Compressed ==
  ASSUME NEW n, NEW mask, NEW data
  PROVE  Network!Compact(FALSE, data, mask, n)
           = [data  |-> [d \in Network!Lanes(n) |->
                           IF d \in {Network!Rank(mask, i) : i \in mask}
                           THEN data[Origin(mask, d)] ELSE 0],
              valid |-> {Network!Rank(mask, i) : i \in mask},
              count |-> Cardinality(mask)]
BY NetworkCount DEF Network!Compact, Origin

LEMMA Expanded ==
  ASSUME NEW n, NEW mask, NEW data
  PROVE  Network!Compact(TRUE, data, mask, n)
           = [data  |-> [d \in Network!Lanes(n) |->
                           IF d \in mask THEN data[Network!Rank(mask, d)] ELSE 0],
              valid |-> mask,
              count |-> Cardinality(mask)]
BY NetworkCount DEF Network!Compact

\* The compactor packs the active lanes into the lowest ones, all of them and
\* in their order, and expanding what it packed with the same mask puts every
\* active lane back where it was, for every number of lanes and every mask.
THEOREM ExpandRestores ==
  ASSUME NEW n \in Nat, NEW mask \in SUBSET Network!Lanes(n), NEW data
  PROVE  LET packed == Network!Compact(FALSE, data, mask, n)
             spread == Network!Compact(TRUE, packed.data, mask, n)
         IN  /\ packed.valid = 0..(packed.count - 1) /\ packed.count = Cardinality(mask)
             /\ \A i \in mask : packed.data[Network!Rank(mask, i)] = data[i]
             /\ \A i, k \in mask : i < k => Network!Rank(mask, i) < Network!Rank(mask, k)
             /\ \A d \in Network!Lanes(n) \ packed.valid : packed.data[d] = 0
             /\ spread.valid = mask
             /\ \A d \in Network!Lanes(n) : spread.data[d] = IF d \in mask THEN data[d] ELSE 0
<1> DEFINE Ranks == {Network!Rank(mask, i) : i \in mask}
           Packed == [d \in Network!Lanes(n) |-> IF d \in Ranks THEN data[Origin(mask, d)] ELSE 0]
           Spread == [d \in Network!Lanes(n) |->
                        IF d \in mask THEN Packed[Network!Rank(mask, d)] ELSE 0]
           packed == Network!Compact(FALSE, data, mask, n)
           spread == Network!Compact(TRUE, packed.data, mask, n)
<1>1. packed.data = Packed /\ packed.valid = Ranks /\ packed.count = Cardinality(mask)
  <2>1. packed = [data |-> Packed, valid |-> Ranks, count |-> Cardinality(mask)]
    BY Compressed, Zenon
  <2> HIDE DEF packed, Packed, Ranks
  <2> QED BY <2>1
<1>2. spread.data = Spread /\ spread.valid = mask
  <2> HIDE DEF Packed, packed
  <2>1. spread = [data  |-> [d \in Network!Lanes(n) |->
                              IF d \in mask THEN packed.data[Network!Rank(mask, d)] ELSE 0],
                  valid |-> mask, count |-> Cardinality(mask)]
    BY Expanded, Zenon
  <2>2. spread = [data |-> Spread, valid |-> mask, count |-> Cardinality(mask)]
    BY <1>1, <2>1, Zenon
  <2> HIDE DEF spread, Spread
  <2> QED BY <2>2
<1>3. Ranks = 0..(Cardinality(mask) - 1)
  BY RanksFill
<1>4. \A i \in mask : Origin(mask, Network!Rank(mask, i)) = i
  BY RankTellsLanes DEF Origin
<1>5. \A i \in mask : Network!Rank(mask, i) \in Network!Lanes(n) /\ Network!Rank(mask, i) \in Ranks
  <2> TAKE i \in mask
  <2>1. Network!Rank(mask, i) \in 0..(Cardinality(mask) - 1) /\ Cardinality(mask) \in 0..n
    BY RankKeepsOrder, ActiveLanes
  <2> QED BY <2>1 DEF Network!Lanes
<1> HIDE DEF Ranks
<1>6. \A i \in mask : Packed[Network!Rank(mask, i)] = data[i]
  BY <1>4, <1>5
<1>7. \A d \in Network!Lanes(n) \ Ranks : Packed[d] = 0
  OBVIOUS
<1>8. \A d \in Network!Lanes(n) : Spread[d] = IF d \in mask THEN data[d] ELSE 0
  BY <1>6
<1>9. \A i, k \in mask : i < k => Network!Rank(mask, i) < Network!Rank(mask, k)
  BY RankKeepsOrder
<1> HIDE DEF Packed, Spread, packed, spread
<1>10. /\ packed.valid = 0..(packed.count - 1) /\ packed.count = Cardinality(mask)
       /\ \A i \in mask : packed.data[Network!Rank(mask, i)] = data[i]
       /\ \A i, k \in mask : i < k => Network!Rank(mask, i) < Network!Rank(mask, k)
       /\ \A d \in Network!Lanes(n) \ packed.valid : packed.data[d] = 0
       /\ spread.valid = mask
       /\ \A d \in Network!Lanes(n) : spread.data[d] = IF d \in mask THEN data[d] ELSE 0
  BY <1>1, <1>2, <1>3, <1>6, <1>7, <1>8, <1>9
<1> QED BY <1>10 DEF packed, spread

\* Whole numbers of groups
LEMMA GroupsBeside ==
  ASSUME NEW g \in Int, NEW n \in Nat
  PROVE  /\ g * n \in Int
         /\ (g - 1) * n = g * n - n
         /\ (g + 1) * n = g * n + n
OBVIOUS

\* What a slide selects, lane by lane
LEMMA UpLanes ==
  ASSUME NEW n \in Nat, NEW in, in.amount \in 0..n
  PROVE  /\ ~Network!Route("SLIDE_UP", in, n).illegal
         /\ \A d \in Network!Lanes(n) : Network!Route("SLIDE_UP", in, n).data[d]
              = IF d < in.amount THEN in.lower[n - in.amount + d] ELSE in.data[d - in.amount]
<1>1. \A d \in 0..(n - 1) : ~(d < in.amount) => d - in.amount \in 0..(n - 1)
  OBVIOUS
<1>2. n > 0 => 0 \in 0..(n - 1)
  OBVIOUS
<1>3. ~(in.amount > n)
  OBVIOUS
<1>4. ~Network!Route("SLIDE_UP", in, n).illegal
  <2>1. Network!Route("SLIDE_UP", in, n).illegal
          => \E d \in 0..(n - 1) : (IF d < in.amount THEN 0 ELSE d - in.amount) \notin 0..(n - 1)
    BY <1>3 DEF Network!Route, Network!Crossbar, Network!Lanes
  <2>2. \A d \in 0..(n - 1) : (IF d < in.amount THEN 0 ELSE d - in.amount) \in 0..(n - 1)
    BY <1>1, <1>2
  <2> QED BY <2>1, <2>2, Zenon
<1>5. ASSUME NEW d \in Network!Lanes(n)
      PROVE  Network!Route("SLIDE_UP", in, n).data[d]
               = IF d < in.amount THEN in.lower[n - in.amount + d] ELSE in.data[d - in.amount]
  <2>1. CASE d < in.amount
    BY <1>3, <2>1 DEF Network!Route, Network!Crossbar, Network!Lanes
  <2>2. CASE ~(d < in.amount)
    BY <1>1, <1>3, <2>2 DEF Network!Route, Network!Crossbar, Network!Lanes
  <2> QED BY <2>1, <2>2
<1> QED BY <1>4, <1>5

LEMMA DownLanes ==
  ASSUME NEW n \in Nat, NEW in, in.amount \in 0..n
  PROVE  /\ ~Network!Route("SLIDE_DOWN", in, n).illegal
         /\ \A d \in Network!Lanes(n) : Network!Route("SLIDE_DOWN", in, n).data[d]
              = IF d + in.amount >= n THEN in.upper[d + in.amount - n] ELSE in.data[d + in.amount]
<1>1. \A d \in 0..(n - 1) : ~(d + in.amount >= n) => d + in.amount \in 0..(n - 1)
  OBVIOUS
<1>2. n > 0 => 0 \in 0..(n - 1)
  OBVIOUS
<1>3. ~(in.amount > n)
  OBVIOUS
<1>4. ~Network!Route("SLIDE_DOWN", in, n).illegal
  <2>1. Network!Route("SLIDE_DOWN", in, n).illegal
          => \E d \in 0..(n - 1) : (IF d + in.amount >= n THEN 0 ELSE d + in.amount) \notin 0..(n - 1)
    BY <1>3 DEF Network!Route, Network!Crossbar, Network!Lanes
  <2>2. \A d \in 0..(n - 1) : (IF d + in.amount >= n THEN 0 ELSE d + in.amount) \in 0..(n - 1)
    BY <1>1, <1>2
  <2> QED BY <2>1, <2>2, Zenon
<1>5. ASSUME NEW d \in Network!Lanes(n)
      PROVE  Network!Route("SLIDE_DOWN", in, n).data[d]
               = IF d + in.amount >= n THEN in.upper[d + in.amount - n] ELSE in.data[d + in.amount]
  <2>1. CASE d + in.amount >= n
    BY <1>3, <2>1 DEF Network!Route, Network!Crossbar, Network!Lanes
  <2>2. CASE ~(d + in.amount >= n)
    BY <1>1, <1>3, <2>2 DEF Network!Route, Network!Crossbar, Network!Lanes
  <2> QED BY <2>1, <2>2
<1> QED BY <1>4, <1>5

\* A slide by at most a group is a slide of the whole vector: when the
\* adjacent inputs of group g carry the lanes of its neighbours, every lane of
\* the group takes the element that many places below, or above, its own,
\* whichever group that lies in, and the selection is never illegal.
THEOREM SlideCrossesGroups ==
  ASSUME NEW n \in Nat, NEW g \in Int, NEW in, NEW V, in.amount \in 0..n,
         in.data = [l \in Network!Lanes(n) |-> V[g * n + l]],
         in.lower = [l \in Network!Lanes(n) |-> V[(g - 1) * n + l]],
         in.upper = [l \in Network!Lanes(n) |-> V[(g + 1) * n + l]]
  PROVE  LET up   == Network!Route("SLIDE_UP", in, n)
             down == Network!Route("SLIDE_DOWN", in, n)
         IN  /\ ~up.illegal /\ ~down.illegal
             /\ \A d \in Network!Lanes(n) : /\ up.data[d] = V[g * n + d - in.amount]
                                            /\ down.data[d] = V[g * n + d + in.amount]
<1> DEFINE Ports == Network!Lanes(n)
           amount == in.amount
<1>1. PICK p \in Int : p = g * n /\ (g - 1) * n = p - n /\ (g + 1) * n = p + n
  BY GroupsBeside
<1>2. Ports = 0..(n - 1) /\ amount \in 0..n
  BY DEF Network!Lanes
<1>3. /\ \A l \in Ports : in.data[l] = V[p + l]
      /\ \A l \in Ports : in.lower[l] = V[p - n + l]
      /\ \A l \in Ports : in.upper[l] = V[p + n + l]
  BY <1>1
<1> HIDE DEF Ports, amount
<1>4. /\ ~Network!Route("SLIDE_UP", in, n).illegal
      /\ \A d \in Ports : Network!Route("SLIDE_UP", in, n).data[d]
           = IF d < amount THEN in.lower[n - amount + d] ELSE in.data[d - amount]
  BY UpLanes DEF Ports, amount
<1>5. /\ ~Network!Route("SLIDE_DOWN", in, n).illegal
      /\ \A d \in Ports : Network!Route("SLIDE_DOWN", in, n).data[d]
           = IF d + amount >= n THEN in.upper[d + amount - n] ELSE in.data[d + amount]
  BY DownLanes DEF Ports, amount
<1>6. ASSUME NEW d \in Ports
      PROVE  /\ Network!Route("SLIDE_UP", in, n).data[d] = V[p + d - amount]
             /\ Network!Route("SLIDE_DOWN", in, n).data[d] = V[p + d + amount]
  <2>1. ASSUME d < amount
        PROVE  Network!Route("SLIDE_UP", in, n).data[d] = V[p + d - amount]
    <3>1. n - amount + d \in Ports /\ p - n + (n - amount + d) = p + d - amount
      BY <1>2, <2>1
    <3>2. in.lower[n - amount + d] = V[p - n + (n - amount + d)]
      BY <1>3, <3>1
    <3>3. Network!Route("SLIDE_UP", in, n).data[d] = in.lower[n - amount + d]
      BY <1>4, <2>1
    <3>4. V[p - n + (n - amount + d)] = V[p + d - amount]
      BY <3>1
    <3> QED BY <3>2, <3>3, <3>4, Zenon
  <2>2. ASSUME ~(d < amount)
        PROVE  Network!Route("SLIDE_UP", in, n).data[d] = V[p + d - amount]
    <3>1. d - amount \in Ports /\ p + (d - amount) = p + d - amount
      BY <1>2, <2>2
    <3>2. in.data[d - amount] = V[p + (d - amount)]
      BY <1>3, <3>1
    <3>3. Network!Route("SLIDE_UP", in, n).data[d] = in.data[d - amount]
      BY <1>4, <2>2
    <3>4. V[p + (d - amount)] = V[p + d - amount]
      BY <3>1
    <3> QED BY <3>2, <3>3, <3>4, Zenon
  <2>3. ASSUME d + amount >= n
        PROVE  Network!Route("SLIDE_DOWN", in, n).data[d] = V[p + d + amount]
    <3>1. d + amount - n \in Ports /\ p + n + (d + amount - n) = p + d + amount
      BY <1>2, <2>3
    <3>2. in.upper[d + amount - n] = V[p + n + (d + amount - n)]
      BY <1>3, <3>1
    <3>3. Network!Route("SLIDE_DOWN", in, n).data[d] = in.upper[d + amount - n]
      BY <1>5, <2>3
    <3>4. V[p + n + (d + amount - n)] = V[p + d + amount]
      BY <3>1
    <3> QED BY <3>2, <3>3, <3>4, Zenon
  <2>4. ASSUME ~(d + amount >= n)
        PROVE  Network!Route("SLIDE_DOWN", in, n).data[d] = V[p + d + amount]
    <3>1. d + amount \in Ports /\ p + (d + amount) = p + d + amount
      BY <1>2, <2>4
    <3>2. in.data[d + amount] = V[p + (d + amount)]
      BY <1>3, <3>1
    <3>3. Network!Route("SLIDE_DOWN", in, n).data[d] = in.data[d + amount]
      BY <1>5, <2>4
    <3>4. V[p + (d + amount)] = V[p + d + amount]
      BY <3>1
    <3> QED BY <3>2, <3>3, <3>4, Zenon
  <2>5. /\ Network!Route("SLIDE_UP", in, n).data[d] = V[p + d - amount]
    BY <2>1, <2>2
  <2>6. /\ Network!Route("SLIDE_DOWN", in, n).data[d] = V[p + d + amount]
    BY <2>3, <2>4
  <2> QED BY <2>5, <2>6
<1> QED BY <1>1, <1>4, <1>5, <1>6, Zenon DEF Ports, amount

----------------------------------------------------------------------------
(* The wide gather: modes that undo each other                            *)

\* A lane of a square tile is a row and a column.
LEMMA GridSplit ==
  ASSUME NEW t \in Nat \ {0}, NEW q \in 0..(t - 1), NEW r \in 0..(t - 1)
  PROVE  /\ q * t + r \in 0..(t * t - 1)
         /\ (q * t + r) \div t = q /\ (q * t + r) % t = r
<1>1. q * t + r \in 0..(t * t - 1)
  <2>1. q * t >= 0
    BY SMT
  <2>2. (t - 1 - q) * t >= 0
    BY SMT
  <2>3. (t - 1 - q) * t = t * t - t - q * t
    BY SMT
  <2>4. q * t \in Int /\ t * t \in Int
    OBVIOUS
  <2> QED BY <2>1, <2>2, <2>3, <2>4
<1>2. (q * t + r) \div t = q 
  BY SMTT(30)
<1>3. (q * t + r) % t = r
  BY SMTT(30)
<1> QED BY <1>1, <1>2, <1>3

LEMMA GridOf ==
  ASSUME NEW t \in Nat \ {0}, NEW d \in 0..(t * t - 1)
  PROVE  \E q \in 0..(t - 1), r \in 0..(t - 1) : d = q * t + r
<1> DEFINE q == d \div t
           r == d % t
<1>1. q \in Int /\ r \in 0..(t - 1) /\ d = q * t + r
  BY SMTT(30)
<1> HIDE DEF q, r
<1>2. q >= 0
  BY <1>1, SMTT(30)
<1>3. q < t
  BY <1>1, SMTT(30)
<1> QED BY <1>1, <1>2, <1>3

\* The side of a square tile.
LEMMA RootUnique ==
  ASSUME NEW t \in Nat, NEW s \in Nat, s * s =< t * t, (s + 1) * (s + 1) > t * t
  PROVE  s = t
<1>1. ~(s > t)
  BY SMTT(30)
<1>2. ~(s < t)
  BY SMTT(30)
<1> QED BY <1>1, <1>2

LEMMA TileIs ==
  ASSUME NEW t \in Nat, NEW n \in Nat, n = t * t
  PROVE  (CHOOSE s \in 0..n : s * s <= n /\ (s + 1) * (s + 1) > n) = t
<1>1. t \in 0..n /\ t * t <= n /\ (t + 1) * (t + 1) > n
  BY SMTT(30)
<1>2. PICK s \in 0..n : s = (CHOOSE x \in 0..n : x * x <= n /\ (x + 1) * (x + 1) > n)
                     /\ s * s <= n /\ (s + 1) * (s + 1) > n
  BY <1>1, Zenon
<1>3. s \in Nat
  BY <1>2
<1>4. s = t
  BY <1>2, <1>3, RootUnique
<1> QED BY <1>2, <1>4


\* The lanes that each mode selects.
\* The lanes that each mode selects.
\* The lanes that each mode selects.
\* The lanes that each mode selects.
LEMMA ReverseLanes ==
  ASSUME NEW n \in Nat, NEW in
  PROVE  /\ ~Network!LaneGather("REVERSE", in, n).illegal
         /\ \A d \in Network!Lanes(n) :
              Network!LaneGather("REVERSE", in, n).data[d]
                = in.data[n - 1 - d]
<1>1. "REVERSE" \in {Network!GatherModes[i] : i \in DOMAIN Network!GatherModes}
  <2>1. 6 \in DOMAIN Network!GatherModes /\ Network!GatherModes[6] = "REVERSE"
    BY DEF Network!GatherModes
  <2> QED BY <2>1
<1>2. \A d \in 0..(n - 1) :
        (n - 1 - d) \in 0..(n - 1)
  OBVIOUS
<1>4. ~Network!LaneGather("REVERSE", in, n).illegal
  BY <1>1, <1>2 DEF Network!LaneGather, Network!Crossbar, Network!Lanes
<1>5. ASSUME NEW d \in Network!Lanes(n)
      PROVE  Network!LaneGather("REVERSE", in, n).data[d]
                = in.data[n - 1 - d]
  BY <1>1, <1>2 DEF Network!LaneGather, Network!Crossbar, Network!Lanes
<1> QED BY <1>4, <1>5

LEMMA RotateUpLanes ==
  ASSUME NEW n \in Nat, NEW in, in.amount \in 0..(n - 1)
  PROVE  /\ ~Network!LaneGather("ROTATE_UP", in, n).illegal
         /\ \A d \in Network!Lanes(n) :
              Network!LaneGather("ROTATE_UP", in, n).data[d]
                = in.data[IF d >= in.amount THEN d - in.amount ELSE n + d - in.amount]
<1>1. "ROTATE_UP" \in {Network!GatherModes[i] : i \in DOMAIN Network!GatherModes}
  <2>1. 4 \in DOMAIN Network!GatherModes /\ Network!GatherModes[4] = "ROTATE_UP"
    BY DEF Network!GatherModes
  <2> QED BY <2>1
<1>2. \A d \in 0..(n - 1) :
        (IF d >= in.amount THEN d - in.amount ELSE n + d - in.amount) \in 0..(n - 1)
  OBVIOUS
<1>3. ~(in.amount >= n)
  OBVIOUS
<1>4. ~Network!LaneGather("ROTATE_UP", in, n).illegal
  BY <1>1, <1>2, <1>3 DEF Network!LaneGather, Network!Crossbar, Network!Lanes
<1>5. ASSUME NEW d \in Network!Lanes(n)
      PROVE  Network!LaneGather("ROTATE_UP", in, n).data[d]
                = in.data[IF d >= in.amount THEN d - in.amount ELSE n + d - in.amount]
  BY <1>1, <1>2, <1>3 DEF Network!LaneGather, Network!Crossbar, Network!Lanes
<1> QED BY <1>4, <1>5

LEMMA RotateDownLanes ==
  ASSUME NEW n \in Nat, NEW in, in.amount \in 0..(n - 1)
  PROVE  /\ ~Network!LaneGather("ROTATE_DOWN", in, n).illegal
         /\ \A d \in Network!Lanes(n) :
              Network!LaneGather("ROTATE_DOWN", in, n).data[d]
                = in.data[IF d + in.amount < n THEN d + in.amount ELSE d + in.amount - n]
<1>1. "ROTATE_DOWN" \in {Network!GatherModes[i] : i \in DOMAIN Network!GatherModes}
  <2>1. 5 \in DOMAIN Network!GatherModes /\ Network!GatherModes[5] = "ROTATE_DOWN"
    BY DEF Network!GatherModes
  <2> QED BY <2>1
<1>2. \A d \in 0..(n - 1) :
        (IF d + in.amount < n THEN d + in.amount ELSE d + in.amount - n) \in 0..(n - 1)
  OBVIOUS
<1>3. ~(in.amount >= n)
  OBVIOUS
<1>4. ~Network!LaneGather("ROTATE_DOWN", in, n).illegal
  BY <1>1, <1>2, <1>3 DEF Network!LaneGather, Network!Crossbar, Network!Lanes
<1>5. ASSUME NEW d \in Network!Lanes(n)
      PROVE  Network!LaneGather("ROTATE_DOWN", in, n).data[d]
                = in.data[IF d + in.amount < n THEN d + in.amount ELSE d + in.amount - n]
  BY <1>1, <1>2, <1>3 DEF Network!LaneGather, Network!Crossbar, Network!Lanes
<1> QED BY <1>4, <1>5

LEMMA DeinterleaveLanes ==
  ASSUME NEW n \in Nat, NEW in, NEW half \in Nat, n = 2 * half
  PROVE  /\ ~Network!LaneGather("DEINTERLEAVE", in, n).illegal
         /\ \A d \in Network!Lanes(n) :
              Network!LaneGather("DEINTERLEAVE", in, n).data[d]
                = in.data[IF d < half THEN 2 * d ELSE 2 * (d - half) + 1]
<1>1. "DEINTERLEAVE" \in {Network!GatherModes[i] : i \in DOMAIN Network!GatherModes}
  <2>1. 8 \in DOMAIN Network!GatherModes /\ Network!GatherModes[8] = "DEINTERLEAVE"
    BY DEF Network!GatherModes
  <2> QED BY <2>1
<1>2. \A d \in 0..(n - 1) :
        (IF d < half THEN 2 * d ELSE 2 * (d - half) + 1) \in 0..(n - 1)
  OBVIOUS
<1>3. n \div 2 = half /\ (n \div 2) * 2 = n
  OBVIOUS
<1>4. ~Network!LaneGather("DEINTERLEAVE", in, n).illegal
  BY <1>1, <1>2, <1>3 DEF Network!LaneGather, Network!Crossbar, Network!Lanes
<1>5. ASSUME NEW d \in Network!Lanes(n)
      PROVE  Network!LaneGather("DEINTERLEAVE", in, n).data[d]
                = in.data[IF d < half THEN 2 * d ELSE 2 * (d - half) + 1]
  BY <1>1, <1>2, <1>3 DEF Network!LaneGather, Network!Crossbar, Network!Lanes
<1> QED BY <1>4, <1>5

LEMMA InterleaveLanes ==
  ASSUME NEW n \in Nat, NEW in, NEW half \in Nat, n = 2 * half
  PROVE  /\ ~Network!LaneGather("INTERLEAVE", in, n).illegal
         /\ \A d \in Network!Lanes(n) :
              Network!LaneGather("INTERLEAVE", in, n).data[d]
                = in.data[IF d % 2 = 0 THEN d \div 2 ELSE half + (d \div 2)]
<1>1. "INTERLEAVE" \in {Network!GatherModes[i] : i \in DOMAIN Network!GatherModes}
  <2>1. 9 \in DOMAIN Network!GatherModes /\ Network!GatherModes[9] = "INTERLEAVE"
    BY DEF Network!GatherModes
  <2> QED BY <2>1
<1>2. \A d \in 0..(n - 1) :
        (IF d % 2 = 0 THEN d \div 2 ELSE half + (d \div 2)) \in 0..(n - 1)
  OBVIOUS
<1>3. n \div 2 = half /\ (n \div 2) * 2 = n
  OBVIOUS
<1>4. ~Network!LaneGather("INTERLEAVE", in, n).illegal
  BY <1>1, <1>2, <1>3 DEF Network!LaneGather, Network!Crossbar, Network!Lanes
<1>5. ASSUME NEW d \in Network!Lanes(n)
      PROVE  Network!LaneGather("INTERLEAVE", in, n).data[d]
                = in.data[IF d % 2 = 0 THEN d \div 2 ELSE half + (d \div 2)]
  BY <1>1, <1>2, <1>3 DEF Network!LaneGather, Network!Crossbar, Network!Lanes
<1> QED BY <1>4, <1>5

LEMMA TransposeLanes ==
  ASSUME NEW n \in Nat, NEW in, NEW t \in Nat \ {0}, n = t * t
  PROVE  /\ ~Network!LaneGather("TRANSPOSE", in, n).illegal
         /\ \A d \in Network!Lanes(n) :
              Network!LaneGather("TRANSPOSE", in, n).data[d]
                = in.data[(d % t) * t + (d \div t)]
<1>1. "TRANSPOSE" \in {Network!GatherModes[i] : i \in DOMAIN Network!GatherModes}
  <2>1. 7 \in DOMAIN Network!GatherModes /\ Network!GatherModes[7] = "TRANSPOSE"
    BY DEF Network!GatherModes
  <2> QED BY <2>1
<1>2. \A d \in 0..(n - 1) : (d % t) * t + (d \div t) \in 0..(n - 1)
  <2> TAKE d \in 0..(n - 1)
  <2>1. PICK q \in 0..(t - 1), r \in 0..(t - 1) : d = q * t + r
    BY GridOf
  <2>2. d \div t = q /\ d % t = r
    BY <2>1, GridSplit
  <2>3. r * t + q \in 0..(t * t - 1)
    BY GridSplit
  <2> QED BY <2>2, <2>3
<1> DEFINE tile == CHOOSE s \in 0 .. n : s * s <= n /\ (s + 1) * (s + 1) > n
<1>3. tile = t
  BY TileIs
<1> HIDE DEF tile
<1>4. ~Network!LaneGather("TRANSPOSE", in, n).illegal
  BY <1>1, <1>2, <1>3 DEF Network!LaneGather, Network!Crossbar, Network!Lanes, tile
<1>5. ASSUME NEW d \in Network!Lanes(n)
      PROVE  Network!LaneGather("TRANSPOSE", in, n).data[d] = in.data[(d % t) * t + (d \div t)]
  BY <1>1, <1>2, <1>3 DEF Network!LaneGather, Network!Crossbar, Network!Lanes, tile
<1> QED BY <1>4, <1>5


\* The modes that undo each other on n lanes.
Undoing(n) ==
  {<<"ROTATE_UP", "ROTATE_DOWN">>, <<"ROTATE_DOWN", "ROTATE_UP">>, <<"REVERSE", "REVERSE">>}
    \cup {p \in {<<"INTERLEAVE", "DEINTERLEAVE">>, <<"DEINTERLEAVE", "INTERLEAVE">>} : n % 2 = 0}
    \cup {p \in {<<"TRANSPOSE", "TRANSPOSE">>} : \E t \in Nat : n = t * t}

\* Two legal modes that undo each other give the lanes back.
THEOREM LanesReturn ==
  ASSUME NEW n \in Nat, NEW in, in.amount \in 0..(n - 1),
         NEW modes \in Undoing(n), NEW back, back.amount = in.amount,
         back.data = Network!LaneGather(modes[1], in, n).data
  PROVE  /\ ~Network!LaneGather(modes[1], in, n).illegal
         /\ ~Network!LaneGather(modes[2], back, n).illegal
         /\ \A d \in Network!Lanes(n) :
              Network!LaneGather(modes[2], back, n).data[d] = in.data[d]
<1>1. CASE modes = <<"ROTATE_UP", "ROTATE_DOWN">>
  <2>1. modes[1] = "ROTATE_UP" /\ modes[2] = "ROTATE_DOWN"
    BY <1>1
  <2>2. back.amount \in 0..(n - 1)
    OBVIOUS
  <2>3. /\ ~Network!LaneGather("ROTATE_UP", in, n).illegal
        /\ \A d \in Network!Lanes(n) :
             back.data[d]
               = in.data[IF d >= in.amount THEN d - in.amount ELSE n + d - in.amount]
    BY <2>1, RotateUpLanes
  <2>4. /\ ~Network!LaneGather("ROTATE_DOWN", back, n).illegal
        /\ \A d \in Network!Lanes(n) :
             Network!LaneGather("ROTATE_DOWN", back, n).data[d]
               = back.data[IF d + back.amount < n THEN d + back.amount ELSE d + back.amount - n]
    BY <2>2, RotateDownLanes
  <2>5. ASSUME NEW d \in Network!Lanes(n)
        PROVE  Network!LaneGather("ROTATE_DOWN", back, n).data[d] = in.data[d]
    <3>1. PICK s \in Network!Lanes(n) :
            /\ s = IF d + in.amount < n THEN d + in.amount ELSE d + in.amount - n
            /\ (IF s >= in.amount THEN s - in.amount ELSE n + s - in.amount) = d
      BY DEF Network!Lanes
    <3> QED BY <2>3, <2>4, <3>1
  <2> QED BY <2>1, <2>3, <2>4, <2>5
<1>2. CASE modes = <<"ROTATE_DOWN", "ROTATE_UP">>
  <2>1. modes[1] = "ROTATE_DOWN" /\ modes[2] = "ROTATE_UP"
    BY <1>2
  <2>2. back.amount \in 0..(n - 1)
    OBVIOUS
  <2>3. /\ ~Network!LaneGather("ROTATE_DOWN", in, n).illegal
        /\ \A d \in Network!Lanes(n) :
             back.data[d]
               = in.data[IF d + in.amount < n THEN d + in.amount ELSE d + in.amount - n]
    BY <2>1, RotateDownLanes
  <2>4. /\ ~Network!LaneGather("ROTATE_UP", back, n).illegal
        /\ \A d \in Network!Lanes(n) :
             Network!LaneGather("ROTATE_UP", back, n).data[d]
               = back.data[IF d >= back.amount THEN d - back.amount ELSE n + d - back.amount]
    BY <2>2, RotateUpLanes
  <2>5. ASSUME NEW d \in Network!Lanes(n)
        PROVE  Network!LaneGather("ROTATE_UP", back, n).data[d] = in.data[d]
    <3>1. PICK s \in Network!Lanes(n) :
            /\ s = IF d >= in.amount THEN d - in.amount ELSE n + d - in.amount
            /\ (IF s + in.amount < n THEN s + in.amount ELSE s + in.amount - n) = d
      <4>1. d \in 0..(n - 1)
        BY DEF Network!Lanes
      <4> DEFINE s == IF d >= in.amount THEN d - in.amount ELSE n + d - in.amount
      <4>2. CASE d >= in.amount
        <5>1. s = d - in.amount /\ s \in 0..(n - 1) /\ s + in.amount = d /\ d < n
          BY <4>1, <4>2
        <5> QED BY <5>1 DEF Network!Lanes
      <4>3. CASE ~(d >= in.amount)
        <5>1. s = n + d - in.amount /\ s \in 0..(n - 1)
              /\ ~(s + in.amount < n) /\ s + in.amount - n = d
          BY <4>1, <4>3
        <5> QED BY <5>1 DEF Network!Lanes
      <4> QED BY <4>2, <4>3
    <3> QED BY <2>3, <2>4, <3>1
  <2> QED BY <2>1, <2>3, <2>4, <2>5
<1>3. CASE modes = <<"REVERSE", "REVERSE">>
  <2>1. modes[1] = "REVERSE" /\ modes[2] = "REVERSE"
    BY <1>3
  <2>2. /\ ~Network!LaneGather("REVERSE", in, n).illegal
        /\ \A d \in Network!Lanes(n) : back.data[d] = in.data[n - 1 - d]
    BY <2>1, ReverseLanes
  <2>3. /\ ~Network!LaneGather("REVERSE", back, n).illegal
        /\ \A d \in Network!Lanes(n) :
             Network!LaneGather("REVERSE", back, n).data[d] = back.data[n - 1 - d]
    BY ReverseLanes
  <2>4. ASSUME NEW d \in Network!Lanes(n)
        PROVE  Network!LaneGather("REVERSE", back, n).data[d] = in.data[d]
    <3>1. n - 1 - d \in Network!Lanes(n) /\ n - 1 - (n - 1 - d) = d
      BY DEF Network!Lanes
    <3> QED BY <2>2, <2>3, <3>1
  <2> QED BY <2>1, <2>2, <2>3, <2>4
<1>4. CASE modes = <<"INTERLEAVE", "DEINTERLEAVE">> /\ n % 2 = 0
  <2>1. modes[1] = "INTERLEAVE" /\ modes[2] = "DEINTERLEAVE"
    BY <1>4
  <2>2. PICK half \in Nat : n = 2 * half
    BY <1>4
  <2>3. /\ ~Network!LaneGather("INTERLEAVE", in, n).illegal
        /\ \A d \in Network!Lanes(n) :
             back.data[d] = in.data[IF d % 2 = 0 THEN d \div 2 ELSE half + (d \div 2)]
    BY <2>1, <2>2, InterleaveLanes
  <2>4. /\ ~Network!LaneGather("DEINTERLEAVE", back, n).illegal
        /\ \A d \in Network!Lanes(n) :
             Network!LaneGather("DEINTERLEAVE", back, n).data[d]
               = back.data[IF d < half THEN 2 * d ELSE 2 * (d - half) + 1]
    BY <2>2, DeinterleaveLanes
  <2>5. ASSUME NEW d \in Network!Lanes(n)
        PROVE  Network!LaneGather("DEINTERLEAVE", back, n).data[d] = in.data[d]
    <3>1. PICK s \in Network!Lanes(n) :
            /\ s = IF d < half THEN 2 * d ELSE 2 * (d - half) + 1
            /\ (IF s % 2 = 0 THEN s \div 2 ELSE half + (s \div 2)) = d
      BY <2>2 DEF Network!Lanes
    <3> QED BY <2>3, <2>4, <3>1
  <2> QED BY <2>1, <2>3, <2>4, <2>5
<1>5. CASE modes = <<"DEINTERLEAVE", "INTERLEAVE">> /\ n % 2 = 0
  <2>1. modes[1] = "DEINTERLEAVE" /\ modes[2] = "INTERLEAVE"
    BY <1>5
  <2>2. PICK half \in Nat : n = 2 * half
    BY <1>5
  <2>3. /\ ~Network!LaneGather("DEINTERLEAVE", in, n).illegal
        /\ \A d \in Network!Lanes(n) :
             back.data[d] = in.data[IF d < half THEN 2 * d ELSE 2 * (d - half) + 1]
    BY <2>1, <2>2, DeinterleaveLanes
  <2>4. /\ ~Network!LaneGather("INTERLEAVE", back, n).illegal
        /\ \A d \in Network!Lanes(n) :
             Network!LaneGather("INTERLEAVE", back, n).data[d]
               = back.data[IF d % 2 = 0 THEN d \div 2 ELSE half + (d \div 2)]
    BY <2>2, InterleaveLanes
  <2>5. ASSUME NEW d \in Network!Lanes(n)
        PROVE  Network!LaneGather("INTERLEAVE", back, n).data[d] = in.data[d]
    <3>1. PICK s \in Network!Lanes(n) :
            /\ s = IF d % 2 = 0 THEN d \div 2 ELSE half + (d \div 2)
            /\ (IF s < half THEN 2 * s ELSE 2 * (s - half) + 1) = d
      BY <2>2 DEF Network!Lanes
    <3> QED BY <2>3, <2>4, <3>1
  <2> QED BY <2>1, <2>3, <2>4, <2>5
<1>6. CASE modes = <<"TRANSPOSE", "TRANSPOSE">> /\ \E t \in Nat : n = t * t
  <2>1. modes[1] = "TRANSPOSE" /\ modes[2] = "TRANSPOSE"
    BY <1>6
  <2>2. PICK t \in Nat \ {0} : n = t * t
    <3>1. PICK t \in Nat : n = t * t
      BY <1>6
    <3>2. t # 0
      BY <3>1
    <3> QED BY <3>1, <3>2
  <2>3. /\ ~Network!LaneGather("TRANSPOSE", in, n).illegal
        /\ \A d \in Network!Lanes(n) : back.data[d] = in.data[(d % t) * t + (d \div t)]
    BY <2>1, <2>2, TransposeLanes
  <2>4. /\ ~Network!LaneGather("TRANSPOSE", back, n).illegal
        /\ \A d \in Network!Lanes(n) :
             Network!LaneGather("TRANSPOSE", back, n).data[d] = back.data[(d % t) * t + (d \div t)]
    BY <2>2, TransposeLanes
  <2>5. ASSUME NEW d \in Network!Lanes(n)
        PROVE  Network!LaneGather("TRANSPOSE", back, n).data[d] = in.data[d]
    <3>1. PICK q \in 0..(t - 1), r \in 0..(t - 1) : d = q * t + r
      BY <2>2, GridOf DEF Network!Lanes
    <3>2. d \div t = q /\ d % t = r
      BY <3>1, GridSplit
    <3>3. PICK s \in Network!Lanes(n) : s = r * t + q /\ s \div t = r /\ s % t = q
      BY <2>2, GridSplit DEF Network!Lanes
    <3>4. s = (d % t) * t + (d \div t) /\ d = (s % t) * t + (s \div t)
      BY <3>1, <3>2, <3>3
    <3> QED BY <2>3, <2>4, <3>4, Zenon
  <2> QED BY <2>1, <2>3, <2>4, <2>5
<1> QED BY <1>1, <1>2, <1>3, <1>4, <1>5, <1>6 DEF Undoing

----------------------------------------------------------------------------
(* The gather engine                                                       *)

GatherPorts == 0..15

\* The states and the inputs of the engine, for the values S of a lane and
\* the owners of commands
EngineStates(S, Owners) ==
  [busy : BOOLEAN, phase : 0..3, valid : BOOLEAN, owner : Owners,
   source : [GatherPorts -> S], index : [GatherPorts -> Nat], active : SUBSET GatherPorts,
   data : [GatherPorts -> S], write : SUBSET GatherPorts, oob : SUBSET GatherPorts]
EngineInputs(S, Owners) ==
  [reset : BOOLEAN, valid : BOOLEAN, ready : BOOLEAN, owner : Owners,
   source : [GatherPorts -> S], index : [GatherPorts -> Nat], active : SUBSET GatherPorts]

\* The lanes whose pass is over, and what is known of them: each has taken
\* the lane its index names, or is reported, and no other lane is written.
PassOver(e, l) == e.busy => l % 4 < e.phase
GathersSoFar(e) ==
  /\ e.busy => ~e.valid
  /\ ~e.busy => e.phase = 0
  /\ \A l \in GatherPorts :
       /\ l \in e.write <=> PassOver(e, l) /\ l \in e.active /\ e.index[l] < 16
       /\ l \in e.oob <=> PassOver(e, l) /\ l \in e.active /\ ~(e.index[l] < 16)
       /\ e.data[l] = IF l \in e.write THEN e.source[e.index[l]] ELSE 0

\* One pass: four lanes, one of each group.
PassOf(e) == Network!Pass(e.source, e.index, e.active, e.phase)

LEMMA PassGathers ==
  ASSUME NEW e, e.index \in [GatherPorts -> Nat], e.phase \in 0..3
  PROVE  /\ PassOf(e).write \subseteq 0..3 /\ PassOf(e).oob \subseteq 0..3
         /\ \A g \in 0..3 :
              /\ g * 4 + e.phase \in GatherPorts
              /\ g \in PassOf(e).write <=> g * 4 + e.phase \in e.active /\ e.index[g * 4 + e.phase] < 16
              /\ g \in PassOf(e).oob <=> g * 4 + e.phase \in e.active /\ ~(e.index[g * 4 + e.phase] < 16)
              /\ g \in PassOf(e).write => PassOf(e).byte[g] = e.source[e.index[g * 4 + e.phase]]
<1> DEFINE pass == Network!Pass(e.source, e.index, e.active, e.phase)
<1>0. pass.write \subseteq 0..3 /\ pass.oob \subseteq 0..3
  BY DEF Network!Pass, Network!Groups
<1> SUFFICES ASSUME NEW g \in 0..3
             PROVE  /\ g * 4 + e.phase \in GatherPorts
                    /\ g \in PassOf(e).write <=> g * 4 + e.phase \in e.active /\ e.index[g * 4 + e.phase] < 16
                    /\ g \in PassOf(e).oob <=> g * 4 + e.phase \in e.active /\ ~(e.index[g * 4 + e.phase] < 16)
                    /\ g \in PassOf(e).write => PassOf(e).byte[g] = e.source[e.index[g * 4 + e.phase]]
  BY <1>0 DEF PassOf
<1>1. PICK l \in GatherPorts : l = g * 4 + e.phase
  BY DEF GatherPorts
<1>2. e.index[l] \in Nat
  BY <1>1
<1>3. Network!Groups = 4 /\ Network!GroupLanes = 4 /\ Network!GatherLanes = 16
  BY DEF Network!Groups, Network!GroupLanes, Network!GatherLanes
<1>4. /\ g \in pass.write <=> l \in e.active /\ e.index[l] < 16
      /\ g \in pass.oob <=> l \in e.active /\ ~(e.index[l] < 16)
  BY <1>1, <1>3 DEF Network!Pass
<1>5. ASSUME e.index[l] < 16
      PROVE  pass.byte[g] = e.source[e.index[l]]
  <2>1. PICK i \in 0..15 : i = e.index[l]
    BY <1>2, <1>5
  <2>2. PICK word \in 0..3, byte \in 0..3 :
          word = i \div 4 /\ byte = i % 4 /\ word * 4 + byte = i
    <3>1. i \div 4 \in 0..3 /\ i % 4 \in 0..3 /\ (i \div 4) * 4 + (i % 4) = i
      OBVIOUS
    <3> QED BY <3>1
  <2> DEFINE All == 0..Network!Groups - 1
             Places == 0..Network!GroupLanes - 1
             Outputs == Network!Lanes(Network!Groups)
             valid == {h \in All : e.index[h * Network!GroupLanes + e.phase] < Network!GatherLanes}
             Word(h) == IF h \in valid
                        THEN e.index[h * Network!GroupLanes + e.phase] \div Network!GroupLanes ELSE 0
             words == [h \in All |-> [m \in Places |-> e.source[h * Network!GroupLanes + m]]]
             select == [h \in All |-> Word(h)]
             selected == [d \in Outputs |-> IF select[d] \in Outputs THEN words[select[d]] ELSE 0]
  <2>3. pass.byte
          = [h \in All |-> IF h \in valid
                           THEN selected[h][e.index[h * Network!GroupLanes + e.phase] % Network!GroupLanes]
                           ELSE 0]
    BY DEF Network!Pass, Network!Crossbar
  <2>4. All = 0..3 /\ Places = 0..3 /\ Outputs = 0..3
    BY <1>3 DEF Network!Lanes
  <2> HIDE DEF All, Places, Outputs
  <2>5. g \in All /\ g \in valid /\ select[g] = word
    BY <1>1, <1>3, <1>5, <2>1, <2>2, <2>4
  <2>6. selected[g] = words[word] /\ words[word][byte] = e.source[word * 4 + byte]
    <3>1. selected[g] = words[select[g]]
      <4> HIDE DEF words, select, valid
      <4> QED BY <2>4, <2>5
    <3>2. words[word][byte] = e.source[word * 4 + byte]
      <4>1. word \in All /\ byte \in Places
        BY <2>4
      <4> QED BY <1>3, <4>1
    <3> QED BY <2>5, <3>1, <3>2, Zenon
  <2> HIDE DEF selected, words, select
  <2>7. e.index[g * Network!GroupLanes + e.phase] % Network!GroupLanes = byte
    BY <1>1, <1>3, <2>1, <2>2
  <2> HIDE DEF valid, pass
  <2>8. pass.byte[g] = e.source[word * 4 + byte]
    BY <2>3, <2>5, <2>6, <2>7
  <2> QED BY <2>1, <2>2, <2>8, Zenon
<1> HIDE DEF pass
<1>6. PassOf(e) = pass
  BY DEF pass, PassOf
<1> QED BY <1>1, <1>4, <1>5, <1>6

\* What an edge of the engine does: a reset, a command taken, a pass, or none
LEMMA EngineConstants ==
  /\ Network!Lanes(Network!GatherLanes) = GatherPorts
  /\ Network!GroupLanes = 4
BY DEF Network!Lanes, Network!GatherLanes, Network!Groups, Network!GroupLanes, GatherPorts

LEMMA ResetState ==
  /\ Network!EngineReset.busy = FALSE /\ Network!EngineReset.valid = FALSE
  /\ Network!EngineReset.phase = 0 /\ Network!EngineReset.owner = <<0, 0>>
  /\ Network!EngineReset.source = [l \in GatherPorts |-> 0]
  /\ Network!EngineReset.index = [l \in GatherPorts |-> 0]
  /\ Network!EngineReset.data = [l \in GatherPorts |-> 0]
  /\ Network!EngineReset.active = {} /\ Network!EngineReset.write = {}
  /\ Network!EngineReset.oob = {}
BY EngineConstants DEF Network!EngineReset, Network!Zeros

LEMMA ResetTyped ==
  ASSUME NEW S, 0 \in S, NEW Owners, <<0, 0>> \in Owners
  PROVE  Network!EngineReset \in EngineStates(S, Owners)
<1>1. Network!Zeros(Network!GatherLanes) = [l \in GatherPorts |-> 0]
  BY EngineConstants DEF Network!Zeros
<1>2. [l \in GatherPorts |-> 0] \in [GatherPorts -> S]
  OBVIOUS
<1>3. [l \in GatherPorts |-> 0] \in [GatherPorts -> Nat]
  OBVIOUS
<1> QED BY <1>1, <1>2, <1>3 DEF Network!EngineReset, EngineStates

LEMMA EdgeAccepts ==
  ASSUME NEW S, 0 \in S, NEW Owners, <<0, 0>> \in Owners,
         NEW e \in EngineStates(S, Owners), NEW in \in EngineInputs(S, Owners),
         ~in.reset, in.valid, Network!EngineReady(e, in.ready)
  PROVE  LET next == Network!Engine(e, in)
         IN  /\ next \in EngineStates(S, Owners)
             /\ next.busy /\ ~next.valid /\ next.phase = 0
             /\ next.owner = in.owner /\ next.source = in.source
             /\ next.index = in.index /\ next.active = in.active
             /\ next.write = {} /\ next.oob = {} /\ \A l \in GatherPorts : next.data[l] = 0
<1>1. Network!Engine(e, in)
        = [Network!EngineReset EXCEPT !.busy = TRUE, !.owner = in.owner, !.source = in.source,
                                      !.index = in.index, !.active = in.active]
  BY DEF Network!Engine
<1>2. Network!EngineReset \in EngineStates(S, Owners)
  BY ResetTyped
<1>3. /\ in.owner \in Owners /\ in.source \in [GatherPorts -> S]
      /\ in.index \in [GatherPorts -> Nat] /\ in.active \in SUBSET GatherPorts
  BY DEF EngineInputs
<1>4. Network!Engine(e, in) \in EngineStates(S, Owners)
  BY <1>1, <1>2, <1>3 DEF EngineStates
<1> QED BY <1>1, <1>2, <1>4, ResetState DEF EngineStates

LEMMA EdgePasses ==
  ASSUME NEW S, 0 \in S, NEW Owners, <<0, 0>> \in Owners,
         NEW e \in EngineStates(S, Owners), NEW in \in EngineInputs(S, Owners),
         ~in.reset, e.busy, ~e.valid
  PROVE  LET next == Network!Engine(e, in)
             pass == PassOf(e)
         IN  /\ next.owner = e.owner /\ next.source = e.source
             /\ next.index = e.index /\ next.active = e.active
             /\ next.phase = IF e.phase = 3 THEN 0 ELSE e.phase + 1
             /\ next.busy = (e.phase # 3) /\ next.valid = (e.phase = 3)
             /\ next.data = [l \in GatherPorts |->
                               IF l % 4 = e.phase /\ l \div 4 \in pass.write
                               THEN pass.byte[l \div 4] ELSE e.data[l]]
             /\ next.write = e.write \cup {g * 4 + e.phase : g \in pass.write}
             /\ next.oob = e.oob \cup {g * 4 + e.phase : g \in pass.oob}
             /\ next.data \in [GatherPorts -> S] /\ next.write \in SUBSET GatherPorts
                /\ next.oob \in SUBSET GatherPorts => next \in EngineStates(S, Owners)
<1> DEFINE pass == PassOf(e)
<1> HIDE DEF pass
<1>1. ~Network!EngineReady(e, in.ready)
  BY DEF Network!EngineReady
<1>2. Network!Engine(e, in)
        = [e EXCEPT !.data = [l \in GatherPorts |->
                                IF l % 4 = e.phase /\ l \div 4 \in pass.write
                                THEN pass.byte[l \div 4] ELSE e.data[l]],
                    !.write = e.write \cup {g * 4 + e.phase : g \in pass.write},
                    !.oob   = e.oob \cup {g * 4 + e.phase : g \in pass.oob},
                    !.phase = IF e.phase = 4 - 1 THEN 0 ELSE e.phase + 1,
                    !.busy  = ~(e.phase = 4 - 1),
                    !.valid = (e.phase = 4 - 1) \/ (e.valid /\ ~in.ready)]
  BY <1>1, EngineConstants DEF Network!Engine, pass, PassOf
<1> DEFINE next == Network!Engine(e, in)
           data == [l \in GatherPorts |->
                      IF l % 4 = e.phase /\ l \div 4 \in pass.write
                      THEN pass.byte[l \div 4] ELSE e.data[l]]
           write == e.write \cup {g * 4 + e.phase : g \in pass.write}
           oob == e.oob \cup {g * 4 + e.phase : g \in pass.oob}
           phase == IF e.phase = 3 THEN 0 ELSE e.phase + 1
<1>3. /\ phase \in 0..3 /\ (e.phase # 3) \in BOOLEAN /\ (e.phase = 3) \in BOOLEAN
      /\ 4 - 1 = 3
  BY DEF EngineStates
<1>4. next = [e EXCEPT !.data = data, !.write = write, !.oob = oob, !.phase = phase,
                       !.busy = (e.phase # 3), !.valid = (e.phase = 3)]
  BY <1>2, <1>3
<1> HIDE DEF next, data, write, oob, phase
<1>5. /\ next.owner = e.owner /\ next.source = e.source
      /\ next.index = e.index /\ next.active = e.active
      /\ next.phase = phase /\ next.busy = (e.phase # 3) /\ next.valid = (e.phase = 3)
      /\ next.data = data /\ next.write = write /\ next.oob = oob
      /\ data \in [GatherPorts -> S] /\ write \in SUBSET GatherPorts
         /\ oob \in SUBSET GatherPorts => next \in EngineStates(S, Owners)
  BY <1>3, <1>4 DEF EngineStates
<1> QED BY <1>5, Zenon DEF pass, next, data, write, oob, phase

LEMMA EdgeWaits ==
  ASSUME NEW S, NEW Owners, NEW e \in EngineStates(S, Owners), NEW in \in EngineInputs(S, Owners),
         ~in.reset, ~(in.valid /\ Network!EngineReady(e, in.ready)), ~e.busy
  PROVE  LET next == Network!Engine(e, in)
         IN  /\ next \in EngineStates(S, Owners) /\ next = [e EXCEPT !.valid = next.valid]
             /\ next.valid = (e.valid /\ ~in.ready)
<1>1. Network!Engine(e, in) = [e EXCEPT !.valid = e.valid /\ ~in.ready]
  BY DEF Network!Engine
<1>2. (e.valid /\ ~in.ready) \in BOOLEAN
  OBVIOUS
<1> QED BY <1>1, <1>2 DEF EngineStates

\* A port is a lane of a group.
LEMMA PortSplit ==
  /\ \A l \in GatherPorts : l \div 4 \in 0..3 /\ l % 4 \in 0..3 /\ l = (l \div 4) * 4 + (l % 4)
  /\ \A g \in 0..3, p \in 0..3 : /\ g * 4 + p \in GatherPorts
                                 /\ (g * 4 + p) % 4 = p /\ (g * 4 + p) \div 4 = g
BY DEF GatherPorts

LEMMA PortsOf ==
  ASSUME NEW groups \in SUBSET (0..3), NEW p \in 0..3
  PROVE  /\ {g * 4 + p : g \in groups} \subseteq GatherPorts
         /\ \A l \in GatherPorts :
              l \in {g * 4 + p : g \in groups} <=> l % 4 = p /\ l \div 4 \in groups
<1>1. ASSUME NEW l \in GatherPorts
      PROVE  l \in {g * 4 + p : g \in groups} <=> l % 4 = p /\ l \div 4 \in groups
  <2>1. ASSUME NEW g \in groups, l = g * 4 + p
        PROVE  l % 4 = p /\ l \div 4 \in groups
    BY <2>1, PortSplit
  <2>2. ASSUME l % 4 = p, l \div 4 \in groups
        PROVE  \E g \in groups : l = g * 4 + p
    BY <2>2, PortSplit
  <2> QED BY <2>1, <2>2
<1>2. \A g \in groups : g * 4 + p \in GatherPorts
  BY PortSplit
<1> QED BY <1>1, <1>2

\* Every edge keeps what has been gathered so far.
LEMMA EngineKeeps ==
  ASSUME NEW S, 0 \in S, NEW Owners, <<0, 0>> \in Owners,
         NEW e \in EngineStates(S, Owners), NEW in \in EngineInputs(S, Owners), GathersSoFar(e)
  PROVE  /\ Network!Engine(e, in) \in EngineStates(S, Owners)
         /\ GathersSoFar(Network!Engine(e, in))
<1> DEFINE next == Network!Engine(e, in)
<1>1. CASE in.reset
  <2>1. next = Network!EngineReset
    BY <1>1 DEF Network!Engine
  <2> QED BY <2>1, ResetTyped, ResetState DEF GathersSoFar
<1>2. CASE ~in.reset /\ in.valid /\ Network!EngineReady(e, in.ready)
  <2>1. /\ next \in EngineStates(S, Owners)
        /\ next.busy /\ ~next.valid /\ next.phase = 0
        /\ next.write = {} /\ next.oob = {} /\ \A l \in GatherPorts : next.data[l] = 0
    BY <1>2, EdgeAccepts
  <2>2. \A l \in GatherPorts : ~PassOver(next, l)
    BY <2>1, PortSplit DEF PassOver
  <2> HIDE DEF next
  <2>3. GathersSoFar(next)
    BY <2>1, <2>2 DEF GathersSoFar
  <2> QED BY <2>1, <2>3 DEF next
<1>3. CASE ~in.reset /\ ~(in.valid /\ Network!EngineReady(e, in.ready)) /\ ~e.busy
  <2>1. next \in EngineStates(S, Owners) /\ next = [e EXCEPT !.valid = next.valid]
    BY <1>3, EdgeWaits
  <2> HIDE DEF next
  <2>2. /\ next.busy = e.busy /\ next.phase = e.phase /\ next.write = e.write /\ next.oob = e.oob
        /\ next.data = e.data /\ next.source = e.source /\ next.index = e.index
        /\ next.active = e.active
    BY <2>1 DEF EngineStates
  <2>3. GathersSoFar(next)
    BY <1>3, <2>2 DEF GathersSoFar, PassOver
  <2> QED BY <2>1, <2>3 DEF next
<1>4. CASE ~in.reset /\ e.busy
  <2> DEFINE pass == PassOf(e)
  <2>1. /\ e.phase \in 0..3 /\ e.source \in [GatherPorts -> S] /\ e.index \in [GatherPorts -> Nat]
        /\ e.active \in SUBSET GatherPorts /\ e.data \in [GatherPorts -> S]
        /\ e.write \in SUBSET GatherPorts /\ e.oob \in SUBSET GatherPorts /\ ~e.valid
    BY <1>4 DEF EngineStates, GathersSoFar
  <2>2. /\ pass.write \subseteq 0..3 /\ pass.oob \subseteq 0..3
        /\ \A g \in 0..3 :
             /\ g \in pass.write <=> g * 4 + e.phase \in e.active /\ e.index[g * 4 + e.phase] < 16
             /\ g \in pass.oob <=> g * 4 + e.phase \in e.active /\ ~(e.index[g * 4 + e.phase] < 16)
             /\ g \in pass.write => pass.byte[g] = e.source[e.index[g * 4 + e.phase]]
    BY <2>1, PassGathers
  <2>3. /\ next.owner = e.owner /\ next.source = e.source
        /\ next.index = e.index /\ next.active = e.active
        /\ next.phase = IF e.phase = 3 THEN 0 ELSE e.phase + 1
        /\ next.busy = (e.phase # 3) /\ next.valid = (e.phase = 3)
        /\ next.data = [l \in GatherPorts |->
                          IF l % 4 = e.phase /\ l \div 4 \in pass.write
                          THEN pass.byte[l \div 4] ELSE e.data[l]]
        /\ next.write = e.write \cup {g * 4 + e.phase : g \in pass.write}
        /\ next.oob = e.oob \cup {g * 4 + e.phase : g \in pass.oob}
        /\ next.data \in [GatherPorts -> S] /\ next.write \in SUBSET GatherPorts
           /\ next.oob \in SUBSET GatherPorts => next \in EngineStates(S, Owners)
    BY <1>4, <2>1, EdgePasses
  <2> HIDE DEF next, pass
  <2>p. /\ pass.write \in SUBSET (0..3) /\ pass.oob \in SUBSET (0..3) /\ e.phase \in 0..3
    BY <2>1, <2>2
  <2>4. ASSUME NEW l \in GatherPorts
        PROVE  /\ l % 4 = e.phase /\ l \div 4 \in pass.write
                    <=> l % 4 = e.phase /\ l \in e.active /\ e.index[l] < 16
               /\ l % 4 = e.phase /\ l \div 4 \in pass.oob
                    <=> l % 4 = e.phase /\ l \in e.active /\ ~(e.index[l] < 16)
               /\ l % 4 = e.phase /\ l \div 4 \in pass.write
                    => pass.byte[l \div 4] = e.source[e.index[l]]
    <3>1. PICK g \in 0..3 : g = l \div 4 /\ (l % 4 = e.phase => l = g * 4 + e.phase)
      BY PortSplit
    <3> QED BY <2>2, <3>1
  <2>5. ASSUME NEW l \in GatherPorts
        PROVE  /\ l \in next.write <=> l \in e.write \/ (l % 4 = e.phase /\ l \in e.active
                                                         /\ e.index[l] < 16)
               /\ l \in next.oob <=> l \in e.oob \/ (l % 4 = e.phase /\ l \in e.active
                                                     /\ ~(e.index[l] < 16))
               /\ next.data[l] = IF l % 4 = e.phase /\ l \in e.active /\ e.index[l] < 16
                                 THEN e.source[e.index[l]] ELSE e.data[l]
    <3>1. /\ l \in {g * 4 + e.phase : g \in pass.write}
               <=> l % 4 = e.phase /\ l \div 4 \in pass.write
          /\ l \in {g * 4 + e.phase : g \in pass.oob}
               <=> l % 4 = e.phase /\ l \div 4 \in pass.oob
      BY <2>p, PortsOf, Zenon
    <3> QED BY <2>3, <2>4, <3>1
  <2>6. next \in EngineStates(S, Owners)
    <3>1. next.data \in [GatherPorts -> S]
      <4>1. \A l \in GatherPorts : next.data[l] \in S
        <5> TAKE l \in GatherPorts
        <5>1. e.index[l] \in Nat
          BY <2>1
        <5>2. e.index[l] < 16 => e.index[l] \in GatherPorts
          BY <5>1 DEF GatherPorts
        <5> QED BY <2>1, <2>5, <5>2
      <4> QED BY <2>3, <4>1
    <3>2. /\ next.write \in SUBSET GatherPorts /\ next.oob \in SUBSET GatherPorts
      <4>1. /\ {g * 4 + e.phase : g \in pass.write} \subseteq GatherPorts
            /\ {g * 4 + e.phase : g \in pass.oob} \subseteq GatherPorts
        BY <2>p, PortsOf, Zenon
      <4> QED BY <2>1, <2>3, <4>1
    <3> QED BY <2>3, <3>1, <3>2, Zenon
  <2>7. ASSUME NEW l \in GatherPorts
        PROVE  /\ PassOver(e, l) <=> l % 4 < e.phase
               /\ PassOver(next, l) <=> l % 4 < e.phase \/ l % 4 = e.phase
    <3>1. PICK m \in 0..3 : m = l % 4
      BY PortSplit
    <3>2. PICK phase \in 0..3 : phase = e.phase
      BY <2>1
    <3>3. /\ next.busy = (phase # 3) /\ next.phase = IF phase = 3 THEN 0 ELSE phase + 1
      BY <2>3, <3>2
    <3>4. (next.busy => m < next.phase) <=> (m < phase \/ m = phase)
      <4>1. CASE phase = 3
        <5>1. ~next.busy
          BY <3>3, <4>1, Zenon
        <5>2. m < 3 \/ m = 3
          OBVIOUS
        <5> QED BY <4>1, <5>1, <5>2, Zenon
      <4>2. CASE phase # 3
        <5>1. next.busy /\ next.phase = phase + 1
          BY <3>3, <4>2
        <5>2. m < phase + 1 <=> m < phase \/ m = phase
          OBVIOUS
        <5> QED BY <5>1, <5>2
      <4> QED BY <4>1, <4>2
    <3> QED BY <1>4, <3>1, <3>2, <3>4 DEF PassOver
  <2>8. GathersSoFar(next)
    <3>1. (next.busy => ~next.valid) /\ (~next.busy => next.phase = 0)
      BY <2>1, <2>3
    <3>2. ASSUME NEW l \in GatherPorts
          PROVE  /\ l \in next.write <=> PassOver(next, l) /\ l \in next.active /\ next.index[l] < 16
                 /\ l \in next.oob <=> PassOver(next, l) /\ l \in next.active
                                       /\ ~(next.index[l] < 16)
                 /\ next.data[l] = IF l \in next.write THEN next.source[next.index[l]] ELSE 0
      <4>1. /\ l \in e.write <=> PassOver(e, l) /\ l \in e.active /\ e.index[l] < 16
            /\ l \in e.oob <=> PassOver(e, l) /\ l \in e.active /\ ~(e.index[l] < 16)
            /\ e.data[l] = IF l \in e.write THEN e.source[e.index[l]] ELSE 0
        BY DEF GathersSoFar
      <4>2. next.source = e.source /\ next.index = e.index /\ next.active = e.active
        BY <2>3
      <4>3. /\ PassOver(e, l) <=> l % 4 < e.phase
            /\ PassOver(next, l) <=> l % 4 < e.phase \/ l % 4 = e.phase
        BY <2>7
      <4>4. /\ l \in next.write <=> l \in e.write \/ (l % 4 = e.phase /\ l \in e.active
                                                      /\ e.index[l] < 16)
            /\ l \in next.oob <=> l \in e.oob \/ (l % 4 = e.phase /\ l \in e.active
                                                  /\ ~(e.index[l] < 16))
            /\ next.data[l] = IF l % 4 = e.phase /\ l \in e.active /\ e.index[l] < 16
                              THEN e.source[e.index[l]] ELSE e.data[l]
        BY <2>5
      <4> QED BY <4>1, <4>2, <4>3, <4>4
    <3> QED BY <3>1, <3>2 DEF GathersSoFar
  <2> QED BY <2>6, <2>8 DEF next
<1>5. ~e.busy \/ ~Network!EngineReady(e, in.ready)
  BY DEF Network!EngineReady
<1> QED BY <1>1, <1>2, <1>3, <1>4, <1>5

\* A set of numbers has a least member: induction by counterexample.
LEMMA LeastEdge ==
  ASSUME NEW T \in SUBSET Nat, T # {}
  PROVE  \E m \in T : \A k \in T : m =< k
<1>1. \E m \in T : \A k \in T : <<k, m>> \notin OpToRel(<, Nat)
  <2>1. IsWellFoundedOn(OpToRel(<, Nat), Nat)
    BY NatLessThanWellFounded, Zenon
  <2> QED BY <2>1, WFMin, Zenon
<1>2. PICK m \in T : \A k \in T : <<k, m>> \notin OpToRel(<, Nat)
  BY <1>1, Zenon
<1>3. \A k \in T : ~(k < m)
  BY <1>2, Zenon DEF OpToRel
<1>4. \A k \in T : m =< k
  BY <1>3
<1> QED BY <1>4

\* A run of the engine: its states at the edges, and its inputs
EngineRun(e, in, S, Owners) ==
  /\ in \in [Nat -> EngineInputs(S, Owners)]
  /\ e[0] = Network!EngineReset
  /\ \A t \in Nat : e[t + 1] = Network!Engine(e[t], in[t])

\* The result of a command c: every active lane whose index names a lane has
\* taken it, the other active ones are reported, and the rest shows nothing.
Gathered(out, c) ==
  /\ out.write = {l \in c.active : c.index[l] < 16}
  /\ out.oob = {l \in c.active : ~(c.index[l] < 16)}
  /\ \A l \in GatherPorts : out.data[l] = IF l \in out.write THEN c.source[c.index[l]] ELSE 0

LEMMA RunGathers ==
  ASSUME NEW S, 0 \in S, NEW Owners, <<0, 0>> \in Owners, NEW e, NEW in,
         EngineRun(e, in, S, Owners)
  PROVE  \A t \in Nat : e[t] \in EngineStates(S, Owners) /\ GathersSoFar(e[t])
<1> DEFINE Broken == {t \in Nat : ~(e[t] \in EngineStates(S, Owners) /\ GathersSoFar(e[t]))}
<1> SUFFICES ASSUME Broken # {} PROVE FALSE
  OBVIOUS
<1>1. PICK m \in Broken : \A k \in Broken : m =< k
  <2>1. Broken \in SUBSET Nat
    OBVIOUS
  <2> HIDE DEF Broken
  <2> QED BY <2>1, LeastEdge
<1>2. e[0] \in EngineStates(S, Owners) /\ GathersSoFar(e[0])
  BY ResetTyped, ResetState DEF EngineRun, GathersSoFar
<1>3. m # 0
  BY <1>2
<1>4. m - 1 \in Nat /\ m - 1 \notin Broken /\ (m - 1) + 1 = m
  BY <1>1, <1>3
<1>5. e[m - 1] \in EngineStates(S, Owners) /\ GathersSoFar(e[m - 1])
  BY <1>4
<1>6. in[m - 1] \in EngineInputs(S, Owners) /\ e[m] = Network!Engine(e[m - 1], in[m - 1])
  <2>1. in \in [Nat -> EngineInputs(S, Owners)]
        /\ \A t \in Nat : e[t + 1] = Network!Engine(e[t], in[t])
    BY DEF EngineRun
  <2>2. e[(m - 1) + 1] = Network!Engine(e[m - 1], in[m - 1])
    BY <1>4, <2>1
  <2> QED BY <1>4, <2>1, <2>2
<1>7. e[m] \in EngineStates(S, Owners) /\ GathersSoFar(e[m])
  BY <1>5, <1>6, EngineKeeps
<1> QED BY <1>7

\* A pass that is not reset keeps the command.
LEMMA PassKeepsCommand ==
  ASSUME NEW S, 0 \in S, NEW Owners, <<0, 0>> \in Owners,
         NEW e \in EngineStates(S, Owners), NEW in \in EngineInputs(S, Owners), GathersSoFar(e),
         ~in.reset, e.busy
  PROVE  LET next == Network!Engine(e, in)
         IN  /\ next.owner = e.owner /\ next.source = e.source
             /\ next.index = e.index /\ next.active = e.active
             /\ next.phase = IF e.phase = 3 THEN 0 ELSE e.phase + 1
             /\ next.busy = (e.phase # 3) /\ next.valid = (e.phase = 3)
<1> DEFINE next == Network!Engine(e, in)
           pass == PassOf(e)
<1>1. ~e.valid
  BY DEF GathersSoFar
<1>2. /\ next.owner = e.owner /\ next.source = e.source
      /\ next.index = e.index /\ next.active = e.active
      /\ next.phase = IF e.phase = 3 THEN 0 ELSE e.phase + 1
      /\ next.busy = (e.phase # 3) /\ next.valid = (e.phase = 3)
      /\ next.data = [l \in GatherPorts |->
                        IF l % 4 = e.phase /\ l \div 4 \in pass.write
                        THEN pass.byte[l \div 4] ELSE e.data[l]]
      /\ next.write = e.write \cup {g * 4 + e.phase : g \in pass.write}
      /\ next.oob = e.oob \cup {g * 4 + e.phase : g \in pass.oob}
      /\ next.data \in [GatherPorts -> S] /\ next.write \in SUBSET GatherPorts
         /\ next.oob \in SUBSET GatherPorts => next \in EngineStates(S, Owners)
  BY <1>1, EdgePasses
<1> HIDE DEF pass
<1> QED BY <1>2

\* The four passes gather: a result that is shown is the whole gather of the
\* operands it was captured with, and a command that is taken shows that
\* result, under its owner, five edges later whatever the inputs are in
\* between, unless a reset comes.
THEOREM FourPassesGather ==
  ASSUME NEW S, 0 \in S, NEW Owners, <<0, 0>> \in Owners, NEW e, NEW in,
         EngineRun(e, in, S, Owners)
  PROVE  \A t \in Nat :
           /\ e[t].valid => Gathered(e[t], e[t])
           /\ /\ in[t].valid /\ Network!EngineReady(e[t], in[t].ready)
              /\ \A k \in 0..4 : ~in[t + k].reset
              => /\ e[t + 5].valid /\ e[t + 5].owner = in[t].owner
                 /\ Gathered(e[t + 5], in[t])
<1>1. ASSUME NEW t \in Nat, ~e[t].busy
      PROVE  Gathered(e[t], e[t])
  <2>1. e[t] \in EngineStates(S, Owners) /\ GathersSoFar(e[t])
    BY RunGathers
  <2>2. e[t].write \subseteq GatherPorts /\ e[t].oob \subseteq GatherPorts
        /\ e[t].active \subseteq GatherPorts
    BY <2>1 DEF EngineStates
  <2>3. \A l \in GatherPorts :
          /\ l \in e[t].write <=> l \in e[t].active /\ e[t].index[l] < 16
          /\ l \in e[t].oob <=> l \in e[t].active /\ ~(e[t].index[l] < 16)
          /\ e[t].data[l] = IF l \in e[t].write THEN e[t].source[e[t].index[l]] ELSE 0
    BY <1>1, <2>1 DEF GathersSoFar, PassOver
  <2> QED BY <2>2, <2>3 DEF Gathered
<1>2. ASSUME NEW t \in Nat, e[t].valid
      PROVE  Gathered(e[t], e[t])
  <2>1. ~e[t].busy
    BY <1>2, RunGathers DEF GathersSoFar
  <2> QED BY <1>1, <2>1
<1>3. ASSUME NEW t \in Nat, in[t].valid, Network!EngineReady(e[t], in[t].ready),
             \A k \in 0..4 : ~in[t + k].reset
      PROVE  /\ e[t + 5].valid /\ e[t + 5].owner = in[t].owner
             /\ Gathered(e[t + 5], in[t])
  <2>1. \A u \in Nat : /\ e[u + 1] = Network!Engine(e[u], in[u])
                       /\ in[u] \in EngineInputs(S, Owners)
                       /\ e[u] \in EngineStates(S, Owners) /\ GathersSoFar(e[u])
    BY RunGathers DEF EngineRun
  <2>2. /\ ~in[t].reset /\ ~in[t + 1].reset /\ ~in[t + 2].reset /\ ~in[t + 3].reset
        /\ ~in[t + 4].reset
    <3>1. t + 0 = t
      OBVIOUS
    <3> QED BY <1>3, <3>1
  <2>3. /\ e[t + 1].busy /\ e[t + 1].phase = 0 /\ e[t + 1].owner = in[t].owner
        /\ e[t + 1].source = in[t].source /\ e[t + 1].index = in[t].index
        /\ e[t + 1].active = in[t].active
    BY <1>3, <2>1, <2>2, EdgeAccepts
  <2> DEFINE Keeps(u) == /\ e[u + 1].owner = e[u].owner /\ e[u + 1].source = e[u].source
                         /\ e[u + 1].index = e[u].index /\ e[u + 1].active = e[u].active
                         /\ e[u + 1].phase = IF e[u].phase = 3 THEN 0 ELSE e[u].phase + 1
                         /\ e[u + 1].busy = (e[u].phase # 3) /\ e[u + 1].valid = (e[u].phase = 3)
  <2>4. ASSUME NEW u \in Nat, e[u].busy, ~in[u].reset
        PROVE  Keeps(u)
    BY <2>1, <2>4, PassKeepsCommand
  <2>5. /\ t + 1 \in Nat /\ t + 2 \in Nat /\ t + 3 \in Nat /\ t + 4 \in Nat
        /\ (t + 1) + 1 = t + 2 /\ (t + 2) + 1 = t + 3 /\ (t + 3) + 1 = t + 4 /\ (t + 4) + 1 = t + 5
    OBVIOUS
  <2> HIDE DEF Keeps
  <2>6. Keeps(t + 1) /\ e[t + 2].busy /\ e[t + 2].phase = 1
    <3>1. Keeps(t + 1)
      <4>1. t + 1 \in Nat /\ e[t + 1].busy /\ ~in[t + 1].reset
        BY <2>2, <2>3, <2>5
      <4>2. PICK u \in Nat : u = t + 1
        BY <4>1
      <4>3. Keeps(u)
        BY <2>4, <4>1, <4>2
      <4> QED BY <4>2, <4>3 DEF Keeps
    <3>2. e[t + 1].phase = 0 /\ (t + 1) + 1 = t + 2 /\ 0 # 3 /\ 0 + 1 = 1
      BY <2>3, <2>5
    <3>3. e[t + 2].busy = (e[t + 1].phase # 3)
          /\ e[t + 2].phase = IF e[t + 1].phase = 3 THEN 0 ELSE e[t + 1].phase + 1
      BY <3>1, <3>2 DEF Keeps
    <3> HIDE DEF Keeps
    <3>4. e[t + 2].busy /\ e[t + 2].phase = 1
      BY <3>2, <3>3, Zenon
    <3> QED BY <3>1, <3>4
  <2>7. Keeps(t + 2) /\ e[t + 3].busy /\ e[t + 3].phase = 2
    <3>1. Keeps(t + 2)
      BY <2>2, <2>4, <2>5, <2>6
    <3> QED BY <2>5, <2>6, <3>1 DEF Keeps
  <2>8. Keeps(t + 3) /\ e[t + 4].busy /\ e[t + 4].phase = 3
    <3>1. Keeps(t + 3)
      BY <2>2, <2>4, <2>5, <2>7
    <3> QED BY <2>5, <2>7, <3>1 DEF Keeps
  <2>9. Keeps(t + 4) /\ ~e[t + 5].busy /\ e[t + 5].valid
    <3>1. Keeps(t + 4)
      BY <2>2, <2>4, <2>5, <2>8
    <3> QED BY <2>5, <2>8, <3>1 DEF Keeps
  <2>10. /\ e[t + 5].owner = in[t].owner /\ e[t + 5].source = in[t].source
         /\ e[t + 5].index = in[t].index /\ e[t + 5].active = in[t].active
    <3>1. /\ e[t + 2].owner = in[t].owner /\ e[t + 2].source = in[t].source
          /\ e[t + 2].index = in[t].index /\ e[t + 2].active = in[t].active
      BY <2>3, <2>5, <2>6 DEF Keeps
    <3>2. /\ e[t + 3].owner = in[t].owner /\ e[t + 3].source = in[t].source
          /\ e[t + 3].index = in[t].index /\ e[t + 3].active = in[t].active
      BY <2>5, <2>7, <3>1 DEF Keeps
    <3>3. /\ e[t + 4].owner = in[t].owner /\ e[t + 4].source = in[t].source
          /\ e[t + 4].index = in[t].index /\ e[t + 4].active = in[t].active
      BY <2>5, <2>8, <3>2 DEF Keeps
    <3> QED BY <2>5, <2>9, <3>3 DEF Keeps
  <2>11. Gathered(e[t + 5], e[t + 5])
    <3>1. t + 5 \in Nat
      OBVIOUS
    <3> QED BY <1>1, <2>9, <3>1
  <2> QED BY <2>9, <2>10, <2>11 DEF Gathered
<1> QED BY <1>2, <1>3
============================================================================
