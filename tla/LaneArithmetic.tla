--------------------------- MODULE LaneArithmetic ---------------------------
(***************************************************************************)
(* The arithmetic of one SIMD group: the lane (simd_lane.sv), the units    *)
(* that join slices into elements (simd_partitioned_addsub.sv, _shifter.sv *)
(* and _compare.sv, chosen by simd_dynamic_alu.sv), the execution stage    *)
(* that merges inactive lanes (simd_exec.sv), the mask unit                *)
(* (simd_mask_alu.sv) and the reduction tree (simd_reduce.sv).             *)
(*                                                                         *)
(* A lane holds a natural below 2^ElemW, an accumulator one below          *)
(* 2^AccW; a register is a function from the lanes 0 .. n-1, and a mask the *)
(* set of its lanes.  The units are combinational, so each is an operator. *)
(***************************************************************************)
EXTENDS Integers, Sequences, FiniteSets, Bitwise

CONSTANTS ElemW,    \* bits of a lane (ELEM_W, SLICE_W)
          AccW      \* bits of an accumulator (ACC_W)

ASSUME WidthAssumption ==
    /\ {ElemW, AccW} \subseteq Nat
    /\ ElemW >= 2                     \* simd_lane.sv's own elaboration checks
    /\ AccW >= 2 * ElemW

LOCAL Pick(c, x, y) == IF c THEN x ELSE y

Ones(w) == 2^w - 1

(* The signed reading of a w-bit value, and the w-bit pattern of an integer. *)
SignOf(x, w) == IF x >= 2^(w - 1) THEN x - 2^w ELSE x
Wrap(x, w)   == x % 2^w

(* Logical and arithmetic shifts of a w-bit value by any amount: a shift by *)
(* the width or more leaves no bit.                                         *)
Shl(x, s, w)  == IF s >= w THEN 0 ELSE (x % 2^(w - s)) * 2^s
Shr(x, s, w)  == IF s >= w THEN 0 ELSE x \div 2^s
Sar(x, s, w)  == IF s >= w THEN (IF x >= 2^(w - 1) THEN Ones(w) ELSE 0)
                 ELSE Wrap(SignOf(x, w) \div 2^s, w)

ClogTwo(n) == CHOOSE k \in 0 .. n : 2^k >= n /\ \A j \in 0 .. k - 1 : 2^j < n

-----------------------------------------------------------------------------
(* One lane. *)

(* The bits of an operand that hold a scale or alignment of an accumulator, *)
(* and those that hold a shift of a lane.                                   *)
ScaleOf(b) == b % 2^ClogTwo(AccW)
ShamtOf(b) == b % 2^ClogTwo(ElemW)

(* The rounding increment is the last bit shifted out. *)
IncrementNext(acc, s) == IF s = 0 THEN 0 ELSE (acc \div 2^s) % 2      \* mutant
Increment(acc, s) == IF s = 0 \/ s > AccW THEN 0 ELSE (acc \div 2^(s - 1)) % 2

RoundedU(acc, s) == Wrap(Shr(acc, s, AccW) + Increment(acc, s), AccW)
RoundedS(acc, s) == Wrap(Sar(acc, s, AccW) + Increment(acc, s), AccW)

(* acc + A - B or acc + A + B by one 3:2 compressor: the sum and carry words *)
(* of the three operands, B complemented and a one carried in to subtract.   *)
Compressed(acc, x, y, subtract) ==
    LET b     == IF subtract THEN Ones(AccW) - y ELSE y
        sum   == (acc ^^ x) ^^ b
        carry == Shl(((acc & x) | (acc & b)) | (x & b), 1, AccW)
    IN  Wrap(sum + carry + Pick(subtract, 1, 0), AccW)

Extended(x, signed) == IF signed THEN Wrap(SignOf(x, ElemW), AccW) ELSE x
Aligned(x, s, signed) == Shl(Extended(x, signed), s, AccW)

Product(a, b, signed) ==
    IF signed THEN Wrap(SignOf(a, ElemW) * SignOf(b, ElemW), AccW) ELSE a * b

WideOps == {"MUL_U", "MUL_S", "MAC_U", "MAC_S", "WIDEN_U", "WIDEN_S",
            "WADD_U", "WADD_S", "WSUB_U", "WSUB_S", "RSHIFT_RND_U", "RSHIFT_RND_S"}
CompareOps == {"CMPEQ", "CMPGT_U", "CMPGT_S"}
LaneOps == WideOps \cup CompareOps \cup
           {"ADD", "SUB", "ADD_SAT_U", "SUB_SAT_U", "ADD_SAT_S", "SUB_SAT_S",
            "MIN_U", "MAX_U", "MIN_S", "MAX_S", "ABSDIFF_U", "AVG_U", "AVG_S",
            "AND", "OR", "XOR", "SHL", "SHR_U", "SHR_S", "ABS_SAT_S", "PASS_A",
            "SELECT", "NCLIP_U", "NCLIP_S", "NSLICE"}
SignedOps == {"MUL_S", "MAC_S", "WIDEN_S", "WADD_S", "WSUB_S"}

Compares(op, a, b) ==
    CASE op = "CMPEQ"   -> a = b
      [] op = "CMPGT_U" -> a > b
      [] op = "CMPGT_S" -> SignOf(a, ElemW) > SignOf(b, ElemW)
      [] OTHER          -> FALSE

(* What an operation writes to the accumulator when it produces a wide value. *)
WideResult(op, a, b, acc, align) ==
    LET signed == op \in SignedOps
        s      == ScaleOf(b)
        t      == ScaleOf(align)
    IN  CASE op \in {"MUL_U", "MUL_S"} -> Product(a, b, signed)
          [] op \in {"MAC_U", "MAC_S"} -> Wrap(acc + Product(a, b, signed), AccW)
          [] op \in {"WIDEN_U", "WIDEN_S"} -> Aligned(a, s, signed)
          [] op \in {"WADD_U", "WADD_S", "WSUB_U", "WSUB_S"} ->
                 Compressed(acc, Aligned(a, t, signed), Aligned(b, t, signed),
                            op \in {"WSUB_U", "WSUB_S"})
          [] op = "RSHIFT_RND_U" -> RoundedU(acc, s)
          [] op = "RSHIFT_RND_S" -> RoundedS(acc, s)

(* A sum or difference that left the signed range goes to the end it left by. *)
SignedMin(w) == 2^(w - 1)
SignedMax(w) == 2^(w - 1) - 1
Negative(x) == x >= SignedMin(ElemW)
Clamped(a, overflowed, x) ==
    IF overflowed THEN (IF Negative(a) THEN SignedMin(ElemW) ELSE SignedMax(ElemW)) ELSE x

(* Halving an ElemW+1 bit sum, its lowest bit rounded up. *)
Averaged(sum) == Wrap((sum \div 2) + (sum % 2), ElemW)

NarrowResult(op, a, b, acc, select) ==
    LET sum  == Wrap(a + b, ElemW)
        diff == Wrap(a - b, ElemW)
        sa   == SignOf(a, ElemW)
        sb   == SignOf(b, ElemW)
        s    == ScaleOf(b)
        rs   == SignOf(RoundedS(acc, s), AccW)
    IN  CASE op = "ADD" -> sum
          [] op = "SUB" -> diff
          [] op = "ADD_SAT_U" -> IF a + b > Ones(ElemW) THEN Ones(ElemW) ELSE sum
          [] op = "SUB_SAT_U" -> IF a < b THEN 0 ELSE diff
          [] op = "ADD_SAT_S" ->
                 Clamped(a, Negative(a) = Negative(b) /\ Negative(sum) # Negative(a), sum)
          [] op = "SUB_SAT_S" ->
                 Clamped(a, Negative(a) # Negative(b) /\ Negative(diff) # Negative(a), diff)
          [] op = "MIN_U" -> IF a < b THEN a ELSE b
          [] op = "MAX_U" -> IF a > b THEN a ELSE b
          [] op = "MIN_S" -> IF sa < sb THEN a ELSE b
          [] op = "MAX_S" -> IF sa > sb THEN a ELSE b
          [] op = "ABSDIFF_U" -> IF a >= b THEN diff ELSE Wrap(b - a, ElemW)
          [] op = "AVG_U" -> Averaged(a + b)
          [] op = "AVG_S" -> Averaged(Wrap(sa + sb, ElemW + 1))
          [] op = "AND" -> a & b
          [] op = "OR"  -> a | b
          [] op = "XOR" -> a ^^ b
          [] op = "SHL" -> Shl(a, ShamtOf(b), ElemW)
          [] op = "SHR_U" -> Shr(a, ShamtOf(b), ElemW)
          [] op = "SHR_S" -> Sar(a, ShamtOf(b), ElemW)
          [] op \in CompareOps -> IF Compares(op, a, b) THEN Ones(ElemW) ELSE 0
          [] op = "ABS_SAT_S" ->
                 IF a = SignedMin(ElemW) THEN SignedMax(ElemW)
                 ELSE IF Negative(a) THEN Wrap(-a, ElemW) ELSE a
          [] op = "PASS_A" -> a
          [] op = "SELECT" -> IF select THEN a ELSE b
          [] op = "NCLIP_U" ->
                 IF RoundedU(acc, s) >= 2^ElemW THEN Ones(ElemW) ELSE RoundedU(acc, s)
          [] op = "NCLIP_S" ->
                 IF rs > SignedMax(ElemW) THEN SignedMax(ElemW)
                 ELSE IF rs < -SignedMin(ElemW) THEN SignedMin(ElemW) ELSE Wrap(rs, ElemW)
          [] op = "NSLICE" -> Wrap(Shr(acc, s, AccW), ElemW)

(* The whole lane: a wide operation shows its low bits as the narrow result *)
(* (a MAC those of the product alone), a narrow one is widened with zeros,  *)
(* and an opcode of no operation is illegal and writes zeros.               *)
Lane(op, a, b, acc, align, select) ==
    IF op \notin LaneOps THEN [result |-> 0, wide |-> 0, predicate |-> FALSE, illegal |-> TRUE]
    ELSE LET wide == WideResult(op, a, b, acc, align)
             low  == IF op \in {"MAC_U", "MAC_S"}
                     THEN Product(a, b, op \in SignedOps) ELSE wide
             narrow == IF op \in WideOps THEN Wrap(low, ElemW)
                       ELSE NarrowResult(op, a, b, acc, select)
         IN  [result    |-> narrow,
              wide      |-> IF op \in WideOps THEN wide ELSE narrow,
              predicate |-> Compares(op, a, b),
              illegal   |-> FALSE]

-----------------------------------------------------------------------------
(* Slices joined into elements of one, two or four lanes: mode 0, 1 or 2. *)

IllegalMode == 3
Span(mode) == 2^mode
ElementStartFirst(mode, lane) == lane = 0      \* mutant: carries cross elements
ElementStart(mode, lane) == mode = IllegalMode \/ lane % Span(mode) = 0
ElementEnd(mode, lane)   == mode = IllegalMode \/ lane % Span(mode) = Span(mode) - 1
ElementOf(mode, lane)    == lane \div Span(mode)

(* The carry ripples from a slice to the next of its element only. *)
AddSub(mode, subtract, a, b, n) ==
    LET c0 == Pick(subtract, 1, 0)
        Y(i) == IF subtract THEN Ones(ElemW) - b[i] ELSE b[i]
        Slice[i \in 0 .. n - 1] ==
            a[i] + Y(i) + (IF ElementStart(mode, i) THEN c0 ELSE Slice[i - 1] \div 2^ElemW)
    IN  [i \in 0 .. n - 1 |-> Slice[i] % 2^ElemW]

(* Logarithmic shifter over bits: stage k moves a bit 2^k places within its *)
(* element when bit k of the element's amount is set; what comes from       *)
(* outside the element is zero, or the element's sign.                      *)
BitAt(v, i) == (v[i \div ElemW] \div 2^(i % ElemW)) % 2
Shifter(mode, left, arithmetic, data, amount, n) ==
    LET width == Span(mode) * ElemW
        Base(i) == (i \div width) * width
        Fill(i) == IF arithmetic THEN BitAt(data, Base(i) + width - 1) ELSE 0
        Moves(i, k) == k < ClogTwo(width) /\ BitAt(amount, Base(i) + k) = 1
        Stage[k \in 0 .. ClogTwo(4 * ElemW)] ==
            IF k = 0 THEN [i \in 0 .. n * ElemW - 1 |-> BitAt(data, i)]
            ELSE LET before == Stage[k - 1]
                     From(i) == IF left THEN i - 2^(k - 1) ELSE i + 2^(k - 1)
                     Moved(i) ==
                         IF From(i) \in 0 .. n * ElemW - 1 /\ Base(From(i)) = Base(i)
                         THEN before[From(i)] ELSE (IF left THEN 0 ELSE Fill(i))
                 IN  [i \in 0 .. n * ElemW - 1 |->
                         IF Moves(i, k - 1) THEN Moved(i) ELSE before[i]]
        bits == Stage[ClogTwo(4 * ElemW)]
        Bits[m \in 0 .. ElemW, i \in 0 .. n - 1] ==
            IF m = 0 THEN 0 ELSE Bits[m - 1, i] + bits[i * ElemW + m - 1] * 2^(m - 1)
    IN  [i \in 0 .. n - 1 |-> Bits[ElemW, i]]

(* The comparison walks from the lowest slice up: a slice that differs      *)
(* replaces what was below it, and only the last slice of an element reads  *)
(* its sign.  Every lane of the element then gets the last slice's answer.  *)
Prefix(rel, mode, a, b, n) ==
    LET Slice(i) ==
            IF rel = "CMPEQ" THEN a[i] = b[i]
            ELSE IF rel = "CMPGT_S" /\ ElementEnd(mode, i)
            THEN SignOf(a[i], ElemW) > SignOf(b[i], ElemW)
            ELSE a[i] > b[i]
        Chain[i \in 0 .. n - 1] ==
            IF ElementStart(mode, i) THEN Slice(i)
            ELSE IF rel = "CMPEQ" THEN Chain[i - 1] /\ Slice(i)
            ELSE IF a[i] = b[i] THEN Chain[i - 1] ELSE Slice(i)
    IN  Chain

PartitionedCompare(rel, mode, a, b, n) ==
    LET chain == Prefix(rel, mode, a, b, n)
    IN  {i \in 0 .. n - 1 : chain[ElementOf(mode, i) * Span(mode) + Span(mode) - 1]}

ShiftOps   == {"SHL", "SHR_U", "SHR_S"}
MinMaxOps  == {"MIN_U", "MAX_U", "MIN_S", "MAX_S"}
DynamicOps == {"ADD", "SUB"} \cup ShiftOps \cup MinMaxOps \cup CompareOps

DynamicAlu(op, mode, a, b, n) ==
    IF op \notin DynamicOps \/ mode = IllegalMode
    THEN [result |-> [i \in 0 .. n - 1 |-> 0], predicate |-> {}, illegal |-> TRUE]
    ELSE LET rel == CASE op \in {"MIN_U", "MAX_U"} -> "CMPGT_U"
                      [] op \in {"MIN_S", "MAX_S"} -> "CMPGT_S"
                      [] OTHER -> op
             holds == PartitionedCompare(rel, mode, a, b, n)
             Chosen(x, y) == [i \in 0 .. n - 1 |-> IF i \in holds THEN x[i] ELSE y[i]]
         IN  [result |->
                CASE op \in {"ADD", "SUB"} -> AddSub(mode, op = "SUB", a, b, n)
                  [] op \in ShiftOps -> Shifter(mode, op = "SHL", op = "SHR_S", a, b, n)
                  [] op \in {"MIN_U", "MIN_S"} -> Chosen(b, a)
                  [] op \in {"MAX_U", "MAX_S"} -> Chosen(a, b)
                  [] OTHER -> [i \in 0 .. n - 1 |-> IF i \in holds THEN Ones(ElemW) ELSE 0],
              predicate |-> IF op \in CompareOps THEN holds ELSE {},
              illegal |-> FALSE]

(* The execution stage: an inactive lane keeps the merge value and its own *)
(* accumulator, and never sets its predicate.                              *)
Execute(op, mode, in, n) ==
    LET dynamic == op \in DynamicOps
        alu == DynamicAlu(op, mode, in.a, in.b, n)
        L(i) == Lane(op, in.a[i], in.b[i], in.acc[i], in.align, i \in in.select)
    IN  [result |-> [i \in 0 .. n - 1 |->
                        IF i \notin in.mask THEN in.merge[i]
                        ELSE IF dynamic THEN alu.result[i] ELSE L(i).result],
         wide   |-> [i \in 0 .. n - 1 |->
                        IF i \notin in.mask THEN in.acc[i]
                        ELSE IF dynamic THEN alu.result[i] ELSE L(i).wide],
         predicate |-> {i \in in.mask :
                        IF dynamic THEN i \in alu.predicate ELSE L(i).predicate},
         illegal |-> IF dynamic THEN alu.illegal ELSE op \notin LaneOps]

-----------------------------------------------------------------------------
(* Masks, and the reduction of a masked register to one value. *)

MaskOps == {"MAND", "MOR", "MXOR", "MNOT"}
MaskAlu(op, a, b, n) ==
    [illegal |-> op \notin MaskOps,
     result  |-> CASE op = "MAND" -> a \cap b
                   [] op = "MOR"  -> a \cup b
                   [] op = "MXOR" -> (a \ b) \cup (b \ a)
                   [] op = "MNOT" -> 0 .. n - 1 \ a
                   [] OTHER -> {}]

ReduceOps == {"SUM_U", "SUM_S", "MIN_U", "MIN_S", "MAX_U", "MAX_S"}

(* A complete binary tree in heap order, node 0 its root and the lanes its *)
(* leaves; of two equal values the left one wins.                          *)
Reduce(op, mask, data, n) ==
    LET signed == op \in {"SUM_S", "MIN_S", "MAX_S"}
        V(x)   == IF signed THEN SignOf(x, AccW) ELSE x
        Right(l, r) == CASE op \in {"MIN_U", "MIN_S"} -> V(r.value) < V(l.value)
                         [] op \in {"MAX_U", "MAX_S"} -> V(r.value) > V(l.value)
                         [] OTHER -> FALSE
        Join(l, r) ==
            IF l.valid /\ r.valid
            THEN IF op \in {"SUM_U", "SUM_S"}
                 THEN [l EXCEPT !.value = Wrap(l.value + r.value, AccW)]
                 ELSE IF Right(l, r) THEN r ELSE l
            ELSE IF l.valid THEN l
            ELSE IF r.valid THEN r
            ELSE [value |-> 0, index |-> 0, valid |-> FALSE]
        Tree[node \in 0 .. 2 * n - 2] ==
            IF node >= n - 1
            THEN [value |-> Extended(data[node - (n - 1)], signed),
                  index |-> node - (n - 1), valid |-> node - (n - 1) \in mask]
            ELSE Join(Tree[2 * node + 1], Tree[2 * node + 2])
        illegal == op \notin ReduceOps
        valid   == ~illegal /\ Tree[0].valid
    IN  [illegal |-> illegal, valid |-> valid,
         value |-> IF valid THEN Tree[0].value ELSE 0,
         index |-> IF valid THEN Tree[0].index ELSE 0]

=============================================================================
