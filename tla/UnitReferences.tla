-------------------------- MODULE UnitReferences --------------------------
(***************************************************************************)
(* The golden models the unit benches under src/sim compute their expected *)
(* values with, and for each unit the agreement its bench demands of the   *)
(* two.  A reference is written the way the C++ computes it -- on integers *)
(* of unlimited range cut to a width at the end, lane after lane with a    *)
(* cursor or a running best -- and shares no definition with the unit but  *)
(* the reading of a bit pattern as a signed number.                        *)
(***************************************************************************)
EXTENDS Datapath, SequencesExt

(* The opcodes in the order of simd_pkg: an opcode's number is its place    *)
(* here less one.                                                           *)
OpNames == <<"ADD", "SUB", "ADD_SAT_U", "SUB_SAT_U", "ADD_SAT_S", "SUB_SAT_S", "MIN_U", "MAX_U",
             "MIN_S", "MAX_S", "ABSDIFF_U", "AVG_U", "AND", "OR", "XOR", "SHL",
             "SHR_U", "SHR_S", "CMPEQ", "CMPGT_U", "CMPGT_S", "ABS_SAT_S", "MUL_U", "MUL_S",
             "MAC_U", "MAC_S", "PASS_A", "SELECT", "WIDEN_U", "WIDEN_S", "WADD_U", "WADD_S",
             "WSUB_U", "WSUB_S", "RSHIFT_RND_U", "RSHIFT_RND_S", "NCLIP_U", "NCLIP_S", "NSLICE", "AVG_S",
             "COMPRESS", "EXPAND", "MAND", "MOR", "MXOR", "MNOT">>
OpName(code) == IF code + 1 \in DOMAIN OpNames THEN OpNames[code + 1] ELSE "UNDEFINED"

-----------------------------------------------------------------------------
(* simd_exec_tb: one lane on C++ integers.  A narrow result that is not     *)
(* computed from a wide one is the wide one.                                *)
Low(x)  == x % 2^ElemW
Wide(x) == x % 2^AccW
SignedSat(x) == IF x > 2^(ElemW - 1) - 1 THEN 2^(ElemW - 1) - 1
                ELSE IF x < -(2^(ElemW - 1)) THEN 2^(ElemW - 1) ELSE Low(x)

RefShifted(x, s) == IF s >= AccW THEN 0 ELSE Wide((x % 2^(AccW - s)) * 2^s)

RefRounded(op, acc, s) ==
    LET v == IF op \in {"RSHIFT_RND_U", "NCLIP_U"} THEN acc ELSE SignOf(acc, AccW)
        increment == IF s = 0 THEN 0 ELSE (acc \div 2^(s - 1)) % 2
    IN  (v \div 2^s) + increment

RefWide(op, a, b, acc, align) ==
    LET sa == SignOf(a, ElemW)
        sb == SignOf(b, ElemW)
        s  == b % 2^ClogTwo(AccW)
        t  == align % 2^ClogTwo(AccW)
    IN  CASE op = "MUL_U" -> a * b
          [] op = "MUL_S" -> Wide(sa * sb)
          [] op = "MAC_U" -> Wide(acc + a * b)
          [] op = "MAC_S" -> Wide(acc + sa * sb)
          [] op = "WIDEN_U" -> RefShifted(a, s)
          [] op = "WIDEN_S" -> RefShifted(sa, s)
          [] op = "WADD_U" -> Wide(Wide(acc + RefShifted(a, t)) + RefShifted(b, t))
          [] op = "WADD_S" -> Wide(Wide(acc + RefShifted(sa, t)) + RefShifted(sb, t))
          [] op = "WSUB_U" -> Wide(Wide(acc + RefShifted(a, t)) - RefShifted(b, t))
          [] op = "WSUB_S" -> Wide(Wide(acc + RefShifted(sa, t)) - RefShifted(sb, t))
          [] op \in {"RSHIFT_RND_U", "RSHIFT_RND_S"} -> Wide(RefRounded(op, acc, s))

RefNarrow(op, a, b, acc, select) ==
    LET sa == SignOf(a, ElemW)
        sb == SignOf(b, ElemW)
        k  == b % 2^ClogTwo(ElemW)
        s  == b % 2^ClogTwo(AccW)
        most == 2^ElemW - 1
        All(p) == IF p THEN most ELSE 0
    IN  CASE op = "ADD" -> Low(a + b)
          [] op = "SUB" -> Low(a - b)
          [] op = "ADD_SAT_U" -> IF a + b > most THEN most ELSE a + b
          [] op = "SUB_SAT_U" -> IF a < b THEN 0 ELSE a - b
          [] op = "ADD_SAT_S" -> SignedSat(sa + sb)
          [] op = "SUB_SAT_S" -> SignedSat(sa - sb)
          [] op = "MIN_U" -> IF a < b THEN a ELSE b
          [] op = "MAX_U" -> IF a > b THEN a ELSE b
          [] op = "MIN_S" -> IF sa < sb THEN a ELSE b
          [] op = "MAX_S" -> IF sa > sb THEN a ELSE b
          [] op = "ABSDIFF_U" -> IF a >= b THEN a - b ELSE b - a
          [] op = "AVG_U" -> (a + b + 1) \div 2
          \* C++ division rounds towards zero, \div towards minus infinity.
          [] op = "AVG_S" -> Low(IF sa + sb >= 0 THEN (sa + sb + 1) \div 2 ELSE -((-(sa + sb)) \div 2))
          [] op = "AND" -> a & b
          [] op = "OR"  -> a | b
          [] op = "XOR" -> a ^^ b
          [] op = "SHL" -> Low(a * 2^k)
          [] op = "SHR_U" -> a \div 2^k
          [] op = "SHR_S" -> Low(sa \div 2^k)
          [] op = "CMPEQ" -> All(a = b)
          [] op = "CMPGT_U" -> All(a > b)
          [] op = "CMPGT_S" -> All(sa > sb)
          [] op = "ABS_SAT_S" -> IF sa = -(2^(ElemW - 1)) THEN 2^(ElemW - 1) - 1
                                 ELSE IF sa < 0 THEN -sa ELSE sa
          [] op = "PASS_A" -> a
          [] op = "SELECT" -> IF select THEN a ELSE b
          [] op = "NCLIP_U" -> IF RefRounded(op, acc, s) > most THEN most
                               ELSE RefRounded(op, acc, s)
          [] op = "NCLIP_S" -> SignedSat(RefRounded(op, acc, s))
          [] op = "NSLICE" -> Low(acc \div 2^s)

RefWideOps == {"MUL_U", "MUL_S", "MAC_U", "MAC_S", "WIDEN_U", "WIDEN_S", "WADD_U", "WADD_S",
               "WSUB_U", "WSUB_S", "RSHIFT_RND_U", "RSHIFT_RND_S"}

RefLane(op, a, b, acc, align, select) ==
    LET wide == RefWide(op, a, b, acc, align)
        narrow == CASE op = "MAC_U" -> Low(a * b)
                    [] op = "MAC_S" -> Low(SignOf(a, ElemW) * SignOf(b, ElemW))
                    [] op \in RefWideOps -> Low(wide)
                    [] OTHER -> RefNarrow(op, a, b, acc, select)
    IN  [result |-> narrow,
         wide   |-> IF op \in RefWideOps THEN wide ELSE narrow,
         predicate |-> op \in {"CMPEQ", "CMPGT_U", "CMPGT_S"} /\ narrow # 0]

(* The bench's comparison of one vector: active lanes by the reference, an   *)
(* inactive one keeps its merge value and accumulator and sets nothing.      *)
RefVector(op, in, n) ==
    [i \in Lanes(n) |->
        IF i \in in.mask
        THEN RefLane(op, in.a[i], in.b[i], in.acc[i], in.align, i \in in.select)
        ELSE [result |-> in.merge[i], wide |-> in.acc[i], predicate |-> FALSE]]
Matches(out, expected) ==
    /\ ~out.illegal
    /\ \A i \in DOMAIN expected :
          expected[i] = [result |-> out.result[i], wide |-> out.wide[i],
                         predicate |-> i \in out.predicate]
ExecAgrees(op, in, n) == Matches(Execute(op, 0, in, n), RefVector(op, in, n))

(* Its directed vectors: slices, halves rounded up, a shared alignment; and  *)
(* the codes without an operation, here and in the two units behind.         *)
DirectedAgrees ==
    LET Row(s) == [i \in 0 .. 3 |-> s[i + 1]]
        Run(c) ==
            Execute(c.op, 0, [a |-> Row(c.a), b |-> Row(c.b), acc |-> Row(c.acc), align |-> c.align,
                              mask |-> Lanes(4), select |-> {}, merge |-> Zeros(4)], 4)
        Case(op, a, b, acc, align, result, wide) ==
            [op |-> op, a |-> a, b |-> b, acc |-> acc, align |-> align, result |-> result,
             wide |-> wide]
        none == <<0, 0, 0, 0>>
        Sum(op, wide) ==
            Case(op, <<1, 2, 3, 4>>, <<10, 20, 30, 40>>, <<1000, 2000, 3000, 4000>>, 2, <<>>, wide)
        Holds(c, out) ==
            /\ out.illegal = (c.op = "UNDEFINED")
            /\ c.result # <<>> => out.result = Row(c.result)
            /\ c.wide # <<>> => out.wide = Row(c.wide)
    IN  /\ \A c \in {Case("AVG_S", <<127, 128, 255, 127>>, <<127, 128, 0, 128>>, none, 0,
                          <<127, 128, 0, 0>>, <<>>),
                     Case("NSLICE", none, <<0, 8, 16, 20>>,
                          <<305420016, 162254319, 270544960, 1072618956>>, 0,
                          <<240, 205, 32, 254>>, <<>>),
                     Sum("WADD_U", <<1044, 2088, 3132, 4176>>),
                     Sum("WSUB_U", <<964, 1928, 2892, 3856>>),
                     Case("UNDEFINED", none, none, none, 0, <<>>, <<>>)} : Holds(c, Run(c))
        /\ Reduce("RESERVED", Lanes(4), Zeros(4), 4)
                = [illegal |-> TRUE, valid |-> FALSE, value |-> 0, index |-> 0]
        /\ MaskAlu("RESERVED", {0}, {1}, 4) = [illegal |-> TRUE, result |-> {}]

-----------------------------------------------------------------------------
(* simd_dynamic_alu_tb: elements cut out of one packed word.  A word here   *)
(* is four slices, as there.                                                *)
SliceOf(x, i) == (x \div 2^(i * ElemW)) % 2^ElemW

RefElement(op, av, bv, w) ==
    LET as == SignOf(av, w)
        bs == SignOf(bv, w)
        shift == bv % w
        Max2(p, x, y) == IF p THEN x ELSE y
    IN  CASE op = "ADD" -> (av + bv) % 2^w
          [] op = "SUB" -> (av - bv) % 2^w
          [] op = "MIN_U" -> Max2(av < bv, av, bv)
          [] op = "MAX_U" -> Max2(av > bv, av, bv)
          [] op = "MIN_S" -> Max2(as < bs, av, bv)
          [] op = "MAX_S" -> Max2(as > bs, av, bv)
          [] op = "SHL" -> (av * 2^shift) % 2^w
          [] op = "SHR_U" -> av \div 2^shift
          [] op = "SHR_S" -> (as \div 2^shift) % 2^w
          [] op = "CMPEQ" -> Max2(av = bv, 2^w - 1, 0)
          [] op = "CMPGT_U" -> Max2(av > bv, 2^w - 1, 0)
          [] op = "CMPGT_S" -> Max2(as > bs, 2^w - 1, 0)

RefDynamic(op, mode, x, y) ==
    LET w == ElemW * 2^mode
        lanes == 2^mode
        Element(z, e) == (z \div 2^(e * w)) % 2^w
        Value(e) == RefElement(op, Element(x, e), Element(y, e), w)
        Compares2 == op \in {"CMPEQ", "CMPGT_U", "CMPGT_S"}
    IN  [result |-> [i \in 0 .. 3 |-> SliceOf(Value(i \div lanes), i % lanes)],
         predicate |-> {i \in 0 .. 3 : Compares2 /\ Value(i \div lanes) # 0},
         illegal |-> FALSE]

DynamicAgrees(op, mode, x, y) ==
    LET S(z) == [i \in 0 .. 3 |-> SliceOf(z, i)]
    IN  IF mode = 3
        THEN DynamicAlu(op, mode, S(x), S(y), 4) =
                [result |-> Zeros(4), predicate |-> {}, illegal |-> TRUE]
        ELSE DynamicAlu(op, mode, S(x), S(y), 4) = RefDynamic(op, mode, x, y)

-----------------------------------------------------------------------------
(* simd_reduce_tb: one pass over the lanes with a running sum and best.     *)
RefReduce(op, mask, data, n) ==
    LET signed == op \in {"SUM_S", "MIN_S", "MAX_S"}
        V(i) == IF signed THEN SignOf(data[i], ElemW) ELSE data[i]
        Better(i, r) == \/ r.first
                        \/ op \in {"MIN_U", "MIN_S"} /\ V(i) < r.best
                        \/ op \in {"MAX_U", "MAX_S"} /\ V(i) > r.best
        Seen(r, i) ==
            IF i \notin mask THEN r
            ELSE IF op \in {"SUM_U", "SUM_S"} THEN [r EXCEPT !.sum = @ + V(i), !.first = FALSE]
            ELSE IF Better(i, r) THEN [r EXCEPT !.best = V(i), !.index = i, !.first = FALSE]
            ELSE r
        last == FoldLeft(Seen, [sum |-> 0, best |-> 0, index |-> 0, first |-> TRUE],
                         [i \in 1 .. n |-> i - 1])
    IN  [valid |-> mask # {}, index |-> last.index,
         value |-> IF mask = {} THEN 0
                   ELSE Wide(IF op \in {"SUM_U", "SUM_S"} THEN last.sum ELSE last.best)]

ReduceAgrees(op, mask, data, n) ==
    LET out == Reduce(op, mask, data, n)
        ref == RefReduce(op, mask, data, n)
    IN  /\ ~out.illegal
        /\ out.valid = ref.valid
        /\ out.value = ref.value
        /\ mask # {} /\ op \in {"MIN_U", "MIN_S", "MAX_U", "MAX_S"} => out.index = ref.index

(* simd_mask_alu_tb: the packed masks as numbers. *)
RefMask(op, a, b, n) ==
    CASE op = "MAND" -> a & b
      [] op = "MOR"  -> a | b
      [] op = "MXOR" -> a ^^ b
      [] op = "MNOT" -> 2^n - 1 - a

MaskAgrees(op, a, b, n) ==
    LET Members(m) == {i \in Lanes(n) : (m \div 2^i) % 2 = 1}
    IN  MaskAlu(op, Members(a), Members(b), n) =
            [illegal |-> FALSE, result |-> Members(RefMask(op, a, b, n))]

-----------------------------------------------------------------------------
(* simd_compact_tb: a cursor over the active lanes. *)
RefCompact(expand, data, mask, n) ==
    LET Seen(r, i) ==
            IF i \notin mask THEN r
            ELSE LET to == IF expand THEN i ELSE r.count
                     from == IF expand THEN r.count ELSE i
                 IN  [data |-> [r.data EXCEPT ![to] = data[from]],
                      valid |-> r.valid \cup {to}, count |-> r.count + 1]
    IN  FoldLeft(Seen, [data |-> Zeros(n), valid |-> {}, count |-> 0], [i \in 1 .. n |-> i - 1])

(* simd_route_tb: the operation, lane by lane. *)
RefRoute(op, in, n) ==
    LET k == in.amount
    IN  [data |-> [i \in Lanes(n) |->
            CASE op = "GATHER" -> in.data[in.index[i]]
              [] op = "BROADCAST" -> in.data[in.lane]
              [] op = "SLIDE_UP" -> IF i >= k THEN in.data[i - k] ELSE in.lower[n - k + i]
              [] op = "SLIDE_DOWN" -> IF i + k < n THEN in.data[i + k] ELSE in.upper[i + k - n]],
         boundary |-> CASE op = "SLIDE_UP" -> {i \in Lanes(n) : i < k}
                        [] op = "SLIDE_DOWN" -> {i \in Lanes(n) : i + k >= n}
                        [] OTHER -> {},
         illegal |-> FALSE]

(* benes_network_tb: wires switched and shuffled stage after stage. *)
RefBenes(k, control) ==
    LET half == 2^(k - 1)
        Bit(i) == (control \div 2^i) % 2 = 1
        Switch(wires, stage) ==
            [p \in Lanes(2^k) |->
                LET cross == Bit(stage * half + (p \div 2))
                    even  == 2 * (p \div 2)
                IN  IF cross = (p = even) THEN wires[even + 1] ELSE wires[even]]
        NextLink(stage, link) ==
            IF stage < k - 1 THEN ((link * 2) & (2^k - 1)) | (link \div 2^(k - 1))
            ELSE (link \div 2) | ((link & 1) * 2^(k - 1))
        Stage(wires, stage) ==
            LET switched == Switch(wires, stage)
            IN  IF stage = 2 * k - 2 THEN switched
                ELSE [p \in Lanes(2^k) |->
                        switched[CHOOSE link \in Lanes(2^k) : NextLink(stage, link) = p]]
    IN  FoldLeft(Stage, [p \in Lanes(2^k) |-> p], [s \in 1 .. 2 * k - 1 |-> s - 1])

BenesAgrees(k, control) ==
    Benes(k, [i \in 0 .. (2 * k - 1) * 2^(k - 1) - 1 |-> (control \div 2^i) % 2 = 1],
          [p \in Lanes(2^k) |-> p]) = RefBenes(k, control)

(* The bench's claim of the whole network: every permutation is reached. *)
BenesReachesAll(k) ==
    LET controls == 0 .. 2^((2 * k - 1) * 2^(k - 1)) - 1
        Permutation(w) == {w[p] : p \in Lanes(2^k)} = Lanes(2^k)
        reached == {RefBenes(k, c) : c \in controls}
    IN  /\ \A w \in reached : Permutation(w)
        /\ \A w \in [Lanes(2^k) -> Lanes(2^k)] : Permutation(w) => w \in reached

-----------------------------------------------------------------------------
(* vsp_lane_gather_tb: what a mode must do, said without its selection --    *)
(* the directed rotates, and the compositions that give the input back.      *)
GatherOf(mode, data, amount) == LaneGather(mode, [data |-> data, amount |-> amount], 16)

RotatesAgree(data, amount) ==
    /\ GatherOf("ROTATE_UP", data, amount) =
        [data |-> [i \in Lanes(16) |-> data[(i + 16 - amount) % 16]],
         wrap |-> {i \in Lanes(16) : i < amount}, illegal |-> FALSE]
    /\ GatherOf("ROTATE_DOWN", data, amount) =
        [data |-> [i \in Lanes(16) |-> data[(i + amount) % 16]],
         wrap |-> {i \in Lanes(16) : i + amount >= 16}, illegal |-> FALSE]
    /\ GatherOf("ROTATE_DOWN", GatherOf("ROTATE_UP", data, amount).data, amount).data = data
    \* A rotate with its wrapped lanes masked off is a shift that fills zeros.
    /\ LET up == GatherOf("ROTATE_UP", data, amount)
       IN  [i \in Lanes(16) |-> IF i \in up.wrap THEN 0 ELSE up.data[i]] =
           [i \in Lanes(16) |-> IF i >= amount THEN data[i - amount] ELSE 0]

GatherAgrees(data, index) ==
    /\ LaneGather("GATHER", [data |-> data, index |-> index, amount |-> 0], 16) =
        [data |-> [i \in Lanes(16) |-> data[index[i]]], wrap |-> {}, illegal |-> FALSE]
    /\ GatherOf("IDENTITY", data, 0).data = data
    /\ \A source \in Lanes(16) :
        GatherOf("BROADCAST", data, source).data = [i \in Lanes(16) |-> data[source]]
    /\ \A mode \in {"REVERSE", "TRANSPOSE"} :
        GatherOf(mode, GatherOf(mode, data, 0).data, 0).data = data
    /\ GatherOf("INTERLEAVE", GatherOf("DEINTERLEAVE", data, 0).data, 0).data = data
    /\ GatherOf("RESERVED", data, 3) = [data |-> Zeros(16), wrap |-> {}, illegal |-> TRUE]

(* The hand-written anchors, as the source lane of every output. *)
GatherAnchors ==
    [REVERSE |-> <<15, 14, 13, 12, 11, 10, 9, 8, 7, 6, 5, 4, 3, 2, 1, 0>>,
     TRANSPOSE |-> <<0, 4, 8, 12, 1, 5, 9, 13, 2, 6, 10, 14, 3, 7, 11, 15>>,
     DEINTERLEAVE |-> <<0, 2, 4, 6, 8, 10, 12, 14, 1, 3, 5, 7, 9, 11, 13, 15>>,
     INTERLEAVE |-> <<0, 8, 1, 9, 2, 10, 3, 11, 4, 12, 5, 13, 6, 14, 7, 15>>]

AnchorsAgree(base) ==
    \A mode \in DOMAIN GatherAnchors :
        GatherOf(mode, [i \in Lanes(16) |-> base + i], 0) =
            [data |-> [i \in Lanes(16) |-> base + GatherAnchors[mode][i + 1]],
             wrap |-> {}, illegal |-> FALSE]

(* vsp_word_first_gather_phase_tb and vsp_four_pass_gather_engine_tb: an    *)
(* active destination whose index names a lane takes that lane's byte.      *)
RefGather(source, index, active) ==
    LET writes == {i \in active : index[i] < 16}
    IN  [data |-> [i \in Lanes(16) |-> IF i \in writes THEN source[index[i]] ELSE 0],
         write |-> writes, oob |-> active \ writes]

PassesAgree(source, index, active) ==
    LET ref == RefGather(source, index, active)
    IN  \A phase \in 0 .. 3 :
            LET pass == Pass(source, index, active, phase)
                G(S) == {g \in 0 .. 3 : g * 4 + phase \in S}
            IN  /\ pass.write = G(ref.write)
                /\ pass.oob = G(ref.oob)
                /\ \A g \in pass.write : pass.byte[g] = ref.data[g * 4 + phase]

-----------------------------------------------------------------------------
(* simd_uop_legal_tb: legality as ranges of opcode numbers. *)
RefDefined(code) == code <= 45
RefDynamicMode(code) == code \in (0 .. 1) \cup (6 .. 9) \cup (12 .. 20) \cup (26 .. 27) \cup (40 .. 41)
RefModeLegal(code, mode) ==
    RefDefined(code) /\ (IF RefDynamicMode(code) THEN mode <= 2 ELSE mode = 0)
RefCanWriteVrf(code) == RefDefined(code) /\ (code <= 27 \/ code >= 36)
RefCanWriteArf(code) == code \in (22 .. 25) \cup (28 .. 35)
RefCanWriteMrf(code) == code \in (18 .. 20) \cup (40 .. 45)
RefCanReduce(code, mode) ==
    mode = 0 /\ RefDefined(code) /\ code \notin (18 .. 20) \cup (28 .. 35) \cup (42 .. 45)
RefCanRoute(code) == RefDefined(code) /\ code \notin (34 .. 38) \cup (42 .. 45)

LegalAgrees(code) ==
    LET op == OpName(code)
    IN  \A mode \in 0 .. 3, v, a, m, reduced, routed \in BOOLEAN :
            LET in == [Idle EXCEPT !.op = op, !.mode = mode,
                                   !.writeV = v, !.writeA = a, !.writeM = m,
                                   !.reduce = IF reduced THEN "SUM_U" ELSE "NONE",
                                   !.route = IF routed THEN "GATHER" ELSE "NONE"]
                writeback == /\ v => RefCanWriteVrf(code)
                             /\ a => RefCanWriteArf(code)
                             /\ m => RefCanWriteMrf(code)
            IN  /\ ModeLegal(op, mode) = RefModeLegal(code, mode)
                /\ WritebackLegal(op, in) = writeback
                /\ ShapeLegal(in) = /\ RefModeLegal(code, mode)
                                    /\ writeback
                                    /\ reduced => RefCanReduce(code, mode)
                                    /\ routed => RefCanRoute(code)

-----------------------------------------------------------------------------
(* sad_kernel_tb: the execution stage's absolute differences reduced to a    *)
(* sum, against one loop over the lanes.                                     *)
RefSad(a, b, mask, n) ==
    FoldLeft(LAMBDA sum, i : IF i \notin mask THEN sum
                             ELSE sum + (IF a[i] >= b[i] THEN a[i] - b[i] ELSE b[i] - a[i]),
             0, [i \in 1 .. n |-> i - 1])

SadAgrees(a, b, mask, n) ==
    LET zero == Zeros(n)
        Holds(lanes, sad) == /\ ~lanes.illegal /\ ~sad.illegal
                             /\ sad.valid = (mask # {})
                             /\ sad.value = RefSad(a, b, mask, n)
        Checked(lanes) == Holds(lanes, Reduce("SUM_U", mask, lanes.result, n))
    IN  Checked(Execute("ABSDIFF_U", 0, [a |-> a, b |-> b, acc |-> zero, align |-> 0,
                       mask |-> mask, select |-> {}, merge |-> zero], n))

(* mul32_microcode_tb: the low half of a four-byte product, a byte product  *)
(* at a time or a whole diagonal at a time, and the micro-operations spent.  *)
ByteOf(x, i) == (x \div 2^(i * ElemW)) % 2^ElemW
WordBits(bytes) == bytes * ElemW

SerialPmac(x, y) ==
    LET products == <<<<0, 0>>, <<0, 1>>, <<1, 0>>, <<0, 2>>, <<1, 1>>, <<2, 0>>,
                      <<0, 3>>, <<1, 2>>, <<2, 1>>, <<3, 0>>>>
        Add(r, p) == [acc |-> (r.acc + ByteOf(x, p[1]) * ByteOf(y, p[2]) * 2^((p[1] + p[2]) * ElemW))
                              % 2^WordBits(4),
                      ops |-> r.ops + 1]
    IN  FoldLeft(Add, [acc |-> 0, ops |-> 0], products)

DiagonalConv(x, y) ==
    LET Sum(d) == FoldLeft(LAMBDA sum, i : sum + ByteOf(x, i) * ByteOf(y, d - i), 0,
                           [i \in 1 .. d + 1 |-> i - 1])
        Add(r, d) == [acc |-> (r.acc + Sum(d) * 2^(d * ElemW)) % 2^WordBits(4), ops |-> r.ops + 1]
    IN  FoldLeft(Add, [acc |-> 0, ops |-> 0], <<0, 1, 2, 3>>)

MulAgrees(x, y) ==
    /\ SerialPmac(x, y) = [acc |-> (x * y) % 2^WordBits(4), ops |-> 10]
    /\ DiagonalConv(x, y) = [acc |-> (x * y) % 2^WordBits(4), ops |-> 4]

=============================================================================
