--------------------------- MODULE GroupPipeline ---------------------------
(***************************************************************************)
(* simd_group_wrapper: an operand stage and a result stage in front of the *)
(* register files, with forwarding from both into the operands of the next *)
(* operation; state writes and reads enter only when both stages are empty.*)
(* A one-entry register is a sequence of at most one element.  An action   *)
(* is one clock edge; "taken" are the return registers whose consumer is   *)
(* ready.  At most one request is accepted at an edge, of any class that   *)
(* may go: the rotating preference decides only between classes offered    *)
(* together, and which are offered is free.                                *)
(*                                                                         *)
(* An operator marked (mutant) is a broken variant of the operator below   *)
(* it; no specification uses it.                                           *)
(***************************************************************************)
EXTENDS GroupCommands

VARIABLES
  files,   \* registers of u_vrf, u_arf and u_mrf
  pipe,    \* exec_pipe_*_q: an operation and its captured operands
  res,     \* exec_result_q
  cpl, rsp, readCpl, readRsp  \* return registers

returnVars == <<cpl, rsp, readCpl, readRsp>>
groupVars == <<files, pipe, res, returnVars>>

----------------------------------------------------------------------------
(* Movement through the stages *)
CanPush(register, channel, taken) == register = <<>> \/ channel \in taken

(* (mutant) a result does not wait for the result channel *)
RetiresUnheard(taken) == res # <<>> /\ CanPush(cpl, "CPL", taken)

Retires(taken) ==
  /\ res # <<>> /\ CanPush(cpl, "CPL", taken)
  /\ NeedsResult(res[1].op) => CanPush(rsp, "RSP", taken)

CompletionsOf(stage) == IF stage = <<>> THEN <<>>
                        ELSE <<ExecCompletion(stage[1].op, stage[1].answer)>>
ResponsesOf(stage) == IF stage = <<>> THEN <<>>
                      ELSE ExecResponses(stage[1].op, stage[1].answer)

Advances(taken) == pipe # <<>> /\ (res = <<>> \/ Retires(taken))

PipeAnswer == Datapath(pipe[1].op, pipe[1].operands)

----------------------------------------------------------------------------
(* Admission *)
(* (mutant) a state write waits for the operand stage only *)
MayWriteBehindResult(taken) == pipe = <<>> /\ CanPush(cpl, "CPL", taken)

MayExecute(taken) == pipe = <<>> \/ Advances(taken)
MayWrite(taken) == pipe = <<>> /\ res = <<>> /\ CanPush(cpl, "CPL", taken)
MayRead(taken) == /\ pipe = <<>> /\ res = <<>>
                  /\ CanPush(readCpl, "READ_CPL", taken)
                  /\ CanPush(readRsp, "READ_RSP", taken)

----------------------------------------------------------------------------
(* Forwarding: a producer in flight replaces the lanes it will write *)
Forward(written, dst, src, new, row) ==
  IF written /\ dst = src THEN new ELSE row

\* What "by" with the answer d writes, laid over the operands x of "op".
Overlay(by, d, op, x) ==
  LET row(src, old) == Forward(by.writeV, by.dstV, src,
                               Merge(WriteMask(by, d), d.narrow, old), old)
      bits(src, old) == Forward(by.writeM, by.dstM, src,
                                MergeBits(WriteMask(by, d), d.predicate, old),
                                old)
  IN  IF Refused(by, d) THEN x
      ELSE [a |-> row(op.a, x.a), b |-> row(op.b, x.b),
            acc |-> Forward(by.writeA, by.dstA, op.acc,
                            Merge(d.mask, d.wide, x.acc), x.acc),
            mask |-> bits(op.mask, x.mask),
            select |-> bits(op.select, x.select)]

FromResult(op, x) ==
  IF res = <<>> THEN x ELSE Overlay(res[1].op, res[1].answer, op, x)

FromPipe(op, x) ==
  IF pipe = <<>> THEN x ELSE Overlay(pipe[1].op, PipeAnswer, op, x)

(* (mutant) the older producer overrides the newer one *)
CapturedOlderWins(op) == FromResult(op, FromPipe(op, Operands(files, op)))

\* An operation is admitted only when the operand stage is empty or leaves.
Captured(op) == FromPipe(op, FromResult(op, Operands(files, op)))

----------------------------------------------------------------------------
(* The clock edge *)
Push(register, channel, taken, entries) ==
  (IF channel \in taken THEN <<>> ELSE register) \o entries

Retired(taken) == IF Retires(taken) THEN res ELSE <<>>

\* Both stages move; whatever retires is written back and reported.
Stages(taken, admitted) ==
  /\ pipe' = IF admitted # <<>> THEN admitted
             ELSE IF Advances(taken) THEN <<>> ELSE pipe
  /\ res' = IF Advances(taken) THEN <<[op |-> pipe[1].op, answer |-> PipeAnswer]>>
            ELSE IF Retires(taken) THEN <<>> ELSE res
  /\ rsp' = Push(rsp, "RSP", taken, ResponsesOf(Retired(taken)))

AfterResult ==
  IF res = <<>> THEN files ELSE Commit(files, res[1].op, res[1].answer)

WriteBack(taken) == IF Retires(taken) THEN AfterResult ELSE files

Complete(taken, completions) == cpl' = Push(cpl, "CPL", taken, completions)

ReturnRead(taken, completions, rows) ==
  /\ readCpl' = Push(readCpl, "READ_CPL", taken, completions)
  /\ readRsp' = Push(readRsp, "READ_RSP", taken, rows)

AcceptExec(taken) ==
  \E op \in ExecOps :
    /\ MayExecute(taken)
    /\ Stages(taken, <<[op |-> op, operands |-> Captured(op)]>>)
    /\ files' = WriteBack(taken)
    /\ Complete(taken, CompletionsOf(Retired(taken)))
    /\ ReturnRead(taken, <<>>, <<>>)

AcceptWrite(taken) ==
  \E w \in WriteOps :
    /\ MayWrite(taken)
    /\ Stages(taken, <<>>)
    /\ files' = StateWrite(WriteBack(taken), w)
    /\ Complete(taken, CompletionsOf(Retired(taken)) \o
                        <<Completion(w, WriteIllegal(w), FALSE)>>)
    /\ ReturnRead(taken, <<>>, <<>>)

AcceptRead(taken) ==
  \E r \in ReadOps :
    /\ MayRead(taken)
    /\ Stages(taken, <<>>)
    /\ files' = WriteBack(taken)
    /\ Complete(taken, CompletionsOf(Retired(taken)))
    /\ ReturnRead(taken, <<Completion(r, ReadIllegal(r), TRUE)>>,
                  <<StateRead(files, r)>>)

AcceptNothing(taken) ==
  /\ Stages(taken, <<>>)
  /\ files' = WriteBack(taken)
  /\ Complete(taken, CompletionsOf(Retired(taken)))
  /\ ReturnRead(taken, <<>>, <<>>)

\* A ready consumer matters only where there is something to take.
Occupied ==
  (IF cpl # <<>> THEN {"CPL"} ELSE {}) \cup
  (IF rsp # <<>> THEN {"RSP"} ELSE {}) \cup
  (IF readCpl # <<>> THEN {"READ_CPL"} ELSE {}) \cup
  (IF readRsp # <<>> THEN {"READ_RSP"} ELSE {})

GroupNext ==
  \E taken \in SUBSET Occupied :
    \/ AcceptExec(taken) \/ AcceptWrite(taken)
    \/ AcceptRead(taken) \/ AcceptNothing(taken)

GroupInit ==
  /\ files \in Files  \* the register files have no reset
  /\ pipe = <<>> /\ res = <<>>
  /\ cpl = <<>> /\ rsp = <<>> /\ readCpl = <<>> /\ readRsp = <<>>

GroupSpec == GroupInit /\ [][GroupNext]_groupVars

----------------------------------------------------------------------------
(* The group is in one of the states its declarations allow: the register  *)
(* files hold rows, and every stage and return register holds at most one  *)
(* entry: an answer is not overwritten before it is taken.                 *)
Pending(register) == register = <<>> \/ register = <<register[1]>>

GroupTypeOK ==
  /\ files \in Files
  /\ Pending(pipe) /\ Pending(res)
  /\ pipe # <<>> => pipe[1].op \in ExecOps /\ pipe[1].operands \in OperandSet
  /\ res # <<>> => res[1].op \in ExecOps /\ res[1].answer \in Answers
  /\ Pending(cpl) /\ Pending(rsp) /\ Pending(readCpl) /\ Pending(readRsp)

(* The register files once what is in flight has been written back.        *)
Architectural ==
  IF pipe = <<>> THEN AfterResult
  ELSE Commit(AfterResult, pipe[1].op, PipeAnswer)

(* An operation in the operand stage works on the operands it would read   *)
(* had everything before it been written back, however long either stage   *)
(* has been stalled since they were captured.                              *)
OperandsUpToDate ==
  pipe # <<>> => pipe[1].operands = Operands(AfterResult, pipe[1].op)

(* The pipeline executes its requests as if one at a time: forwarding,     *)
(* masked writes, stalled returns and the arbiter are invisible, and every *)
(* request is answered once and in order on each channel.                  *)
PipeCompletions == IF pipe = <<>> THEN <<>>
                   ELSE <<ExecCompletion(pipe[1].op, PipeAnswer)>>
PipeResponses == IF pipe = <<>> THEN <<>>
                 ELSE ExecResponses(pipe[1].op, PipeAnswer)

Ordered == INSTANCE OrderedGroup WITH
  files <- Architectural,
  owed <- cpl \o CompletionsOf(res) \o PipeCompletions,
  results <- rsp \o ResponsesOf(res) \o PipeResponses,
  readOwed <- readCpl, readData <- readRsp

ExecutesInTurn == Ordered!Spec
============================================================================
