-------------------------- MODULE MCGroupPipeline --------------------------
(***************************************************************************)
(* Two lanes of one bit, two vector rows, one accumulator row and one mask *)
(* row: every operation reads what another one writes.  The datapath is    *)
(* simd_datapath on byte elements without route or immediate, for one      *)
(* operation of each shape: lane arithmetic, comparison, selection,        *)
(* accumulation, widening, mask logic and rearrangement.  A narrow lane    *)
(* counts modulo Cardinality(Narrow), a wide one modulo Cardinality(Wide). *)
(***************************************************************************)
EXTENDS GroupPipeline, FiniteSets, TLC

NarrowBits(n) == n % Cardinality(Narrow)
WideBits(n) == n % Cardinality(Wide)
AllOnes == Cardinality(Narrow) - 1

(* Which destinations the shape of an operation allows *)
WritesPredicate(code) ==
  code \in {"CMPEQ", "CMPGT_U", "CMPGT_S",
           "MAND", "MOR", "MXOR", "MNOT", "COMPRESS", "EXPAND"}

WritesWide(code) ==
  code \in {"MUL_U", "MUL_S", "MAC_U", "MAC_S"} \cup WideOnly

IllegalShape(op) ==
  \/ op.writeV /\ op.code \in WideOnly
  \/ op.writeA /\ ~WritesWide(op.code)
  \/ op.writeM /\ ~WritesPredicate(op.code)
  \/ op.reduce /\ (op.code \in WideOnly \cup {"CMPEQ", "CMPGT_U", "CMPGT_S"}
                    \/ MaskLogic(op))

(* One lane; a lane that takes no part keeps its accumulator *)
LaneNarrow(op, x, l) ==
  CASE op.code = "ADD"     -> NarrowBits(x.a[l] + x.b[l])
    [] op.code = "CMPEQ"   -> IF x.a[l] = x.b[l] THEN AllOnes ELSE 0
    [] op.code = "SELECT"  -> IF l \in x.select THEN x.a[l] ELSE x.b[l]
    [] op.code = "MAC_U"   -> NarrowBits(x.a[l] * x.b[l])
    [] op.code = "WIDEN_U" -> NarrowBits(x.a[l] * 2^x.b[l])

LaneWide(op, x, l) ==
  CASE op.code = "MAC_U"   -> WideBits(x.acc[l] + x.a[l] * x.b[l])
    [] op.code = "WIDEN_U" -> WideBits(x.a[l] * 2^x.b[l])
    [] OTHER               -> WideBits(LaneNarrow(op, x, l))

\* The n-th active lane and the n-th lane of the packed row trade places.
Rank(mask, l) == Cardinality({k \in mask : k < l})
Packed(mask) == {Rank(mask, l) : l \in mask}
Active(mask, n) == CHOOSE l \in mask : Rank(mask, l) = n

Filled(op, mask) == IF op.code = "EXPAND" THEN mask ELSE Packed(mask)
From(op, mask, d) == IF op.code = "EXPAND" THEN Rank(mask, d)
                     ELSE Active(mask, d)

MaskBits(op, x) ==
  CASE op.code = "MAND" -> x.mask \cap x.select
    [] op.code = "MOR"  -> x.mask \cup x.select
    [] op.code = "MXOR" -> (x.mask \ x.select) \cup (x.select \ x.mask)
    [] op.code = "MNOT" -> Lanes \ x.mask

ExecMask(op, x) == IF op.masked THEN x.mask ELSE Lanes

Zero == [l \in Lanes |-> 0]

NarrowRow(op, x, mask) ==
  IF MaskLogic(op)
  THEN [l \in Lanes |-> IF l \in MaskBits(op, x) THEN AllOnes ELSE 0]
  ELSE IF Compact(op)
  THEN [d \in Filled(op, mask) |-> x.a[From(op, mask, d)]] @@ Zero
  ELSE [l \in mask |-> LaneNarrow(op, x, l)] @@ Zero

WideRow(op, x, mask) ==
  IF GroupOp(op) THEN Zero ELSE [l \in mask |-> LaneWide(op, x, l)] @@ x.acc

PredicateBits(op, x, mask) ==
  IF MaskLogic(op) THEN MaskBits(op, x)
  ELSE IF Compact(op) THEN Filled(op, mask)
  ELSE {l \in mask : op.code = "CMPEQ" /\ x.a[l] = x.b[l]}

LaneDatapath(op, x) ==
  [illegal |-> IllegalShape(op), mask |-> ExecMask(op, x),
   narrow |-> NarrowRow(op, x, ExecMask(op, x)),
   wide |-> WideRow(op, x, ExecMask(op, x)),
   predicate |-> PredicateBits(op, x, ExecMask(op, x))]

----------------------------------------------------------------------------
(* The instance.                                                           *)

TwoLanes == {0, 1}
TwoRows == {0, 1}
OneRow == {0}
Bits == 0..1
OneValue == {0}

Op(code, dst) ==
  [code |-> code, context |-> 0, a |-> 0, b |-> 1, acc |-> 0, mask |-> 0,
   select |-> 0, masked |-> FALSE, dstV |-> dst, dstA |-> 0, dstM |-> 0,
   writeV |-> FALSE, writeA |-> FALSE, writeM |-> FALSE,
   export |-> FALSE, reduce |-> FALSE]

\* A comparison that makes the mask, a rearrangement under it, a masked
\* accumulation, a refused export.
MCExecOps ==
  {[Op("CMPEQ", 0) EXCEPT !.writeM = TRUE],
   [Op("COMPRESS", 0) EXCEPT !.masked = TRUE, !.writeV = TRUE],
   [Op("WIDEN_U", 0) EXCEPT !.writeA = TRUE, !.export = TRUE]}

FirstLane == {0}
Ones == [l \in TwoLanes |-> 1]

\* A masked write, and one that names a row the file has not.
MCWriteOps ==
  {[context |-> 0, file |-> "VRF", addr |-> 0, mask |-> FirstLane,
    row |-> Ones, bits |-> {}],
   [context |-> 0, file |-> "MRF", addr |-> 1, mask |-> FirstLane,
    row |-> Ones, bits |-> {}]}

MCReadOps == {[context |-> 0, addr |-> 0, mask |-> FirstLane]}
=============================================================================
