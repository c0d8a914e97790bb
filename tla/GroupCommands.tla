--------------------------- MODULE GroupCommands ---------------------------
(***************************************************************************)
(* The requests a SIMD group takes and what each does to its three         *)
(* register files when it is executed alone: the execution of an already   *)
(* decoded operation, a masked write of one register row, a read of one    *)
(* vector row.  What the lanes compute is the constant operator Datapath.  *)
(***************************************************************************)
EXTENDS Naturals, Sequences

CONSTANTS
  Lanes, Contexts,
  VRegs, ARegs, MRegs,  \* rows of the vector, accumulator and mask files
  Narrow, Wide,         \* what a lane of a vector or accumulator row holds
  ExecOps, WriteOps, ReadOps,
  Datapath(_, _)        \* what simd_datapath answers to operation and operands

Row(S) == [Lanes -> S]
Mask == SUBSET Lanes  \* the lanes whose bit is set

Files == [v : [VRegs -> Row(Narrow)], a : [ARegs -> Row(Wide)],
          m : [MRegs -> Mask]]

OperandSet == [a : Row(Narrow), b : Row(Narrow), acc : Row(Wide),
               mask : Mask, select : Mask]

Answers == [illegal : BOOLEAN, narrow : Row(Narrow), wide : Row(Wide),
            predicate : Mask, mask : Mask]

\* An operation names its operands and destinations; write* say which of the
\* destinations it writes.
ExecOp ==
  [code : STRING, context : Nat,
   a : VRegs, b : VRegs, acc : ARegs, mask : MRegs, select : MRegs,
   masked : BOOLEAN, dstV : VRegs, dstA : ARegs, dstM : MRegs,
   writeV : BOOLEAN, writeA : BOOLEAN, writeM : BOOLEAN,
   export : BOOLEAN, reduce : BOOLEAN]

\* The data of a write as the file it names takes it.
WriteOp(w) ==
  /\ w.mask \in Mask
  /\ w.file = "VRF" => w.row \in Row(Narrow)
  /\ w.file = "ARF" => w.row \in Row(Wide)
  /\ w.file = "MRF" => w.bits \in Mask

ASSUME CommandsAssumption ==
  /\ ExecOps \subseteq ExecOp
  /\ \A w \in WriteOps : WriteOp(w)
  /\ \A op \in ExecOps, x \in OperandSet : Datapath(op, x) \in Answers

----------------------------------------------------------------------------
(* Shapes of the operations *)
MaskLogic(op) == op.code \in {"MAND", "MOR", "MXOR", "MNOT"}
Compact(op) == op.code \in {"COMPRESS", "EXPAND"}
GroupOp(op) == MaskLogic(op) \/ Compact(op)

NeedsResult(op) == op.export \/ op.reduce \/ Compact(op)

WideOnly == {"WIDEN_U", "WIDEN_S", "WADD_U", "WADD_S", "WSUB_U", "WSUB_S",
             "RSHIFT_RND_U", "RSHIFT_RND_S"}

EndpointIllegal(op) ==
  op.context \notin Contexts \/ (op.export /\ op.code \in WideOnly)

----------------------------------------------------------------------------
(* Execution of one operation on given operands *)
Operands(files, op) ==
  [a |-> files.v[op.a], b |-> files.v[op.b], acc |-> files.a[op.acc],
   mask |-> files.m[op.mask], select |-> files.m[op.select]]

Refused(op, d) == EndpointIllegal(op) \/ d.illegal

\* The lanes of a destination that are written, and those of a row that
\* carry a result: an operation on the whole group writes every lane.
WriteMask(op, d) == IF GroupOp(op) THEN Lanes ELSE d.mask
NarrowMask(op, d) == IF MaskLogic(op) THEN Lanes
                     ELSE IF Compact(op) THEN d.predicate ELSE d.mask

\* A masked write of a row of lanes, and of a row of the mask file.
Merge(mask, new, old) ==
  [l \in Lanes |-> IF l \in mask THEN new[l] ELSE old[l]]
MergeBits(mask, new, old) == (new \cap mask) \cup (old \ mask)

WriteRow(file, enable, addr, mask, row) ==
  IF enable THEN [file EXCEPT ![addr] = Merge(mask, row, file[addr])]
  ELSE file

WriteBits(file, enable, addr, mask, row) ==
  IF enable THEN [file EXCEPT ![addr] = MergeBits(mask, row, file[addr])]
  ELSE file

Commit(files, op, d) ==
  IF Refused(op, d) THEN files
  ELSE [v |-> WriteRow(files.v, op.writeV, op.dstV, WriteMask(op, d), d.narrow),
        a |-> WriteRow(files.a, op.writeA, op.dstA, d.mask, d.wide),
        m |-> WriteBits(files.m, op.writeM, op.dstM, WriteMask(op, d),
                        d.predicate)]

----------------------------------------------------------------------------
(* What a request is answered *)
Completion(request, illegal, hasResult) ==
  [request |-> request, illegal |-> illegal, hasResult |-> hasResult]

\* The lanes of a row that are returned.
Returned(mask, row) == [l \in mask |-> row[l]]

\* Reduction and element count are functions of the answer and left out.
Response(op, d) ==
  [request |-> op, illegal |-> Refused(op, d),
   row |-> IF op.export /\ ~Refused(op, d)
           THEN Returned(NarrowMask(op, d), d.narrow) ELSE <<>>]

ExecCompletion(op, d) == Completion(op, Refused(op, d), NeedsResult(op))
ExecResponses(op, d) == IF NeedsResult(op) THEN <<Response(op, d)>> ELSE <<>>

----------------------------------------------------------------------------
(* State writes and reads *)
Rows(file) == CASE file = "VRF" -> VRegs [] file = "ARF" -> ARegs
                [] file = "MRF" -> MRegs [] OTHER -> {}

WriteIllegal(w) == w.context \notin Contexts \/ w.addr \notin Rows(w.file)

StateWrite(files, w) ==
  IF WriteIllegal(w) THEN files
  ELSE [v |-> WriteRow(files.v, w.file = "VRF", w.addr, w.mask, w.row),
        a |-> WriteRow(files.a, w.file = "ARF", w.addr, w.mask, w.row),
        m |-> WriteBits(files.m, w.file = "MRF", w.addr, w.mask, w.bits)]

ReadIllegal(r) == r.context \notin Contexts \/ r.addr \notin VRegs

StateRead(files, r) ==
  [request |-> r, illegal |-> ReadIllegal(r),
   row |-> IF ReadIllegal(r) THEN <<>>
           ELSE Returned(r.mask, files.v[r.addr])]
============================================================================
