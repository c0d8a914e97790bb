------------------------------ MODULE Datapath ------------------------------
(***************************************************************************)
(* simd_datapath.sv with the values its lanes compute: three register      *)
(* files, the route unit before the lanes, the execution stage, the        *)
(* rearrangement and mask units beside it, the reduction behind it, and    *)
(* the legality of an operation (simd_uop_legal.sv over simd_pkg.sv).      *)
(* One call of DatapathClock is one clock edge; DatapathOut is what the    *)
(* outputs show before it.                                                 *)
(*                                                                         *)
(* An operation is a record; a unit it does not use is "NONE", and a field  *)
(* that carries nothing is None.  An immediate is the function from its     *)
(* four bytes, a configuration write a row and its data.                    *)
(***************************************************************************)
EXTENDS LaneArithmetic, Permutation

N == 4      \* lanes of the group
None == <<>>

Rearranges == {"COMPRESS", "EXPAND"}
Defined == LaneOps \cup Rearranges \cup MaskOps

(* What an operation may be asked for: its element modes, the files it can  *)
(* write, whether its narrow result may be reduced and its source routed.   *)
AnyMode == {"ADD", "SUB", "MIN_U", "MAX_U", "MIN_S", "MAX_S", "AND", "OR", "XOR", "SHL", "SHR_U",
            "SHR_S", "CMPEQ", "CMPGT_U", "CMPGT_S", "PASS_A", "SELECT", "COMPRESS", "EXPAND"}
WideOnlyOps == {"WIDEN_U", "WIDEN_S", "WADD_U", "WADD_S", "WSUB_U", "WSUB_S",
             "RSHIFT_RND_U", "RSHIFT_RND_S"}

ModeLegal(op, mode) == op \in Defined /\ mode \in (IF op \in AnyMode THEN 0 .. 2 ELSE {0})
CanWriteVrf(op) == op \in Defined \ WideOnlyOps
CanWriteArf(op) == op \in WideOps
CanWriteMrf(op) == op \in CompareOps \cup Rearranges \cup MaskOps
CanReduce(op, mode) == mode = 0 /\ op \in Defined \ (CompareOps \cup WideOnlyOps \cup MaskOps)
CanRoute(op) == op \in Defined \ ({"RSHIFT_RND_U", "RSHIFT_RND_S", "NCLIP_U", "NCLIP_S", "NSLICE"}
                                  \cup MaskOps)

WritebackLegal(op, in) == /\ in.writeV => CanWriteVrf(op)
                          /\ in.writeA => CanWriteArf(op)
                          /\ in.writeM => CanWriteMrf(op)
ShapeLegal(in) == /\ ModeLegal(in.op, in.mode)
                  /\ WritebackLegal(in.op, in)
                  /\ in.reduce # "NONE" => CanReduce(in.op, in.mode)
                  /\ in.route # "NONE" => CanRoute(in.op)

(* A wider element is active only when all its lanes are set. *)
NormalizedLoose(mask, mode) == mask      \* mutant
Normalized(mask, mode) ==
    {i \in Lanes(N) : \A j \in Lanes(N) : ElementOf(mode, j) = ElementOf(mode, i) => j \in mask}

TernaryOps == {"WADD_U", "WADD_S", "WSUB_U", "WSUB_S"}

(* The operands as the lanes see them: the immediate takes B's place, or is *)
(* the alignment of an operation that needs both its sources.               *)
SourceB(files, in) ==
    IF in.imm # None /\ in.op \notin TernaryOps
    THEN [i \in Lanes(N) |-> in.imm[i % Span(in.mode)]]
    ELSE files.v[in.b]
Alignment(in) ==
    IF in.imm # None /\ in.op \in TernaryOps THEN in.imm[0] % 2^ClogTwo(AccW) ELSE 0
RoutedA(files, in) ==
    Route(in.route, [in.routing EXCEPT !.data = files.v[in.a]], N)
SourceA(files, in) == IF in.route = "NONE" THEN files.v[in.a] ELSE RoutedA(files, in).data

ExecMask(files, in) ==
    IF in.mode = IllegalMode THEN {}
    ELSE Normalized(IF in.masked THEN files.m[in.mask] ELSE Lanes(N), in.mode)
Selected(files, in) ==
    IF in.mode = IllegalMode THEN {} ELSE Normalized(files.m[in.select], in.mode)
Executed(files, in, mask) ==
    Execute(in.op, in.mode,
            [a |-> SourceA(files, in), b |-> SourceB(files, in), acc |-> files.a[in.acc],
             align |-> Alignment(in), mask |-> mask, select |-> Selected(files, in),
             merge |-> Zeros(N)], N)
Packed(files, in, mask) == Compact(in.op = "EXPAND", SourceA(files, in), mask, N)
MaskBits(files, in) == MaskAlu(in.op, files.m[in.mask], files.m[in.select], N).result

(* The group's result: that of the lanes, of the compactor or of the mask   *)
(* unit, before the reduction.                                              *)
Result(in, mask, lanes, packed, bits) ==
    IF in.op \in MaskOps
    THEN [narrow |-> [i \in Lanes(N) |-> IF i \in bits THEN Ones(ElemW) ELSE 0],
          wide |-> Zeros(N), predicate |-> bits, valid |-> Lanes(N), count |-> None,
          illegal |-> FALSE]
    ELSE IF in.op \in Rearranges
    THEN [narrow |-> packed.data, wide |-> Zeros(N), predicate |-> packed.valid,
          valid |-> packed.valid, count |-> <<packed.count>>, illegal |-> FALSE]
    ELSE [narrow |-> lanes.result, wide |-> lanes.wide, predicate |-> lanes.predicate,
          valid |-> mask, count |-> None, illegal |-> lanes.illegal]

IllegalOp(in, result, routed, reduced) ==
    \/ in.mode = IllegalMode
    \/ ~ShapeLegal(in)
    \/ result.illegal
    \/ in.route # "NONE" /\ routed.illegal
    \/ in.reduce # "NONE" /\ reduced.illegal

Ports(in, mask, result, boundary, reduced, illegal) ==
    LET done == in.issue /\ ~illegal
    IN  [illegal   |-> in.issue /\ illegal,
         commits   |-> done,
         narrow    |-> result.narrow,
         wide      |-> result.wide,
         predicate |-> result.predicate,
         execMask  |-> mask,
         boundary  |-> IF in.route = "NONE" THEN {} ELSE boundary,
         reduction |-> IF done /\ in.reduce # "NONE" /\ reduced.valid
                       THEN <<reduced.value, reduced.index>> ELSE None,
         count     |-> IF done THEN result.count ELSE None]

Summed(in, mask, result, routed, reduced) ==
    Ports(in, mask, result, routed.boundary, reduced, IllegalOp(in, result, routed, reduced))
Reduced(files, in, mask, result) ==
    Summed(in, mask, result, RoutedA(files, in), Reduce(in.reduce, result.valid, result.narrow, N))
Masked(files, in, mask) ==
    Reduced(files, in, mask, Result(in, mask, Executed(files, in, mask), Packed(files, in, mask),
                                    MaskBits(files, in)))
DatapathOut(files, in) == Masked(files, in, ExecMask(files, in))

(* One edge: a configuration write takes a file's port before the operation *)
(* does, and whole-group operations write every lane.                       *)
Merged(row, mask, new) == [i \in Lanes(N) |-> IF i \in mask THEN new[i] ELSE row[i]]

Written(files, in, out, mask) ==
    LET W(file, config, writes, dst, value) ==
            IF config # None THEN [file EXCEPT ![config[1]] = config[2]]
            ELSE IF writes /\ out.commits THEN [file EXCEPT ![dst] = value]
            ELSE file
    IN  [v |-> W(files.v, in.configV, in.writeV, in.dstV, Merged(files.v[in.dstV], mask, out.narrow)),
         a |-> W(files.a, in.configA, in.writeA, in.dstA,
                 Merged(files.a[in.dstA], out.execMask, out.wide)),
         m |-> W(files.m, in.configM, in.writeM, in.dstM,
                 (files.m[in.dstM] \ mask) \cup (out.predicate \cap mask))]
WriteFiles(files, in, out) ==
    Written(files, in, out, IF in.op \in Rearranges \cup MaskOps THEN Lanes(N) ELSE out.execMask)
DatapathClock(files, in) == WriteFiles(files, in, DatapathOut(files, in))

(* The idle input: no operation, no write, every option absent. *)
Idle == [issue |-> FALSE, op |-> "PASS_A", mode |-> 0, a |-> 0, b |-> 0, acc |-> 0, imm |-> None,
         masked |-> FALSE, mask |-> 0, select |-> 0, dstV |-> 0, dstA |-> 0, dstM |-> 0,
         writeV |-> FALSE, writeA |-> FALSE, writeM |-> FALSE, reduce |-> "NONE",
         route |-> "NONE",
         routing |-> [data |-> Zeros(N), index |-> Zeros(N), lane |-> 0, amount |-> 0,
                      lower |-> Zeros(N), upper |-> Zeros(N)],
         configV |-> None, configA |-> None, configM |-> None]

=============================================================================
