----------------------------- MODULE MCBenches -----------------------------
(***************************************************************************)
(* The benches under src/sim replayed on the models.  Each starts in a     *)
(* state of its own and runs to its end:                                   *)
(*   a unit bench      a unit against its reference, a line of operands at *)
(*                     a time, at small widths where that is exhaustive;   *)
(*   a workload        an image filtered by micro-operations;              *)
(*   a directed bench  a script of inputs and demanded outputs.            *)
(*                                                                         *)
(* The module holds what runs on the SIMD group's datapath, and takes the  *)
(* scripts of the other parts from the bench modules.  The image workloads *)
(* under src/sim are each a program of micro-operations for blocks of four *)
(* pixels, run on the datapath block after block, and a golden model that  *)
(* computes the same filter on integers.  The register files, the tail     *)
(* mask and the accumulators stay as one block leaves them for the next.   *)
(* An image is [width, height, pixels], pixels a function of y * width + x *)
(* as vsp_image_io.h stores them; what lies outside it is zero.            *)
(*                                                                         *)
(* The directed benches of the datapath and of the gather engine are       *)
(* scripts: a sequence of clocks, each with the inputs the bench drives    *)
(* and, in `see`, the outputs it demands before the edge.  Played on the   *)
(* models clock by clock, a script shows that the model does what the      *)
(* bench demands of the program.                                           *)
(***************************************************************************)
EXTENDS UnitReferences

----------------------------------------------------------------------------
(* The image workloads *)

At(image, x, y) ==
    IF x \in 0 .. image.width - 1 /\ y \in 0 .. image.height - 1
    THEN image.pixels[y * image.width + x] ELSE 0

ImageOf(w, h, P(_, _)) ==
    [width |-> w, height |-> h, pixels |-> [i \in 0 .. w * h - 1 |-> P(i % w, i \div w)]]

Blank(image) == ImageOf(image.width, image.height, LAMBDA x, y : 0)

(* The patterns, each aimed at a numerical corner. *)
Flat(w, h, value) == ImageOf(w, h, LAMBDA x, y : value)
Ramp(w, h) == ImageOf(w, h, LAMBDA x, y : (x * 255) \div (IF w > 1 THEN w - 1 ELSE 1))
Impulse(w, h) == ImageOf(w, h, LAMBDA x, y : IF x = w \div 2 /\ y = h \div 2 THEN 255 ELSE 0)
Checkerboard(w, h, period) ==
    ImageOf(w, h, LAMBDA x, y : IF ((x \div period) + (y \div period)) % 2 = 0 THEN 255 ELSE 0)
StepEdge(w, h, direction) ==
    ImageOf(w, h, LAMBDA x, y :
        LET high == CASE direction = 0 -> x >= w \div 2
                      [] direction = 1 -> y >= h \div 2
                      [] direction = 2 -> x + y >= (w + h) \div 2
        IN  IF high THEN 255 ELSE 0)
ZonePlate(w, h) ==
    ImageOf(w, h, LAMBDA x, y :
        LET dx == x - (w \div 2)
            dy == y - (h \div 2)
            phase == (dx * dx + dy * dy) % 16
        IN  ((IF phase < 8 THEN phase ELSE 16 - phase) * 255) \div 8)

-----------------------------------------------------------------------------
(* The inputs the workloads share: rows and masks written through the        *)
(* configuration ports, and operations masked by the tail of the block.      *)
TailMask == 0
WriteVrf(row, data) == [Idle EXCEPT !.configV = <<row, data>>]
WriteMrf(row, mask) == [Idle EXCEPT !.configM = <<row, mask>>]
ClearArf(row)       == [Idle EXCEPT !.configA = <<row, Zeros(N)>>]
Imm(k) == [i \in 0 .. 3 |-> IF i = 0 THEN k ELSE 0]
Issue  == [Idle EXCEPT !.issue = TRUE, !.masked = TRUE, !.mask = TailMask]

LoadGroup(image, y, firstX) == [lane \in Lanes(N) |-> At(image, firstX + lane, y)]
RowBlock(image, y, firstX) == [lower  |-> LoadGroup(image, y, firstX - N),
                               center |-> LoadGroup(image, y, firstX),
                               upper  |-> LoadGroup(image, y, firstX + N)]
TailLanes(image, firstX) == {lane \in Lanes(N) : firstX + lane < image.width}

Routed(in, route, row) ==
    [in EXCEPT !.route = route, !.routing.amount = 1,
               !.routing.lower = row.lower, !.routing.upper = row.upper]

(* A tap of a weighted sum: the first multiplies into the accumulator, the   *)
(* others add to it; the narrowing rounds and shifts it into the output row. *)
OutputRow == 11
Tap(first, vrf, coefficient) ==
    [Issue EXCEPT !.op = IF first THEN "MUL_U" ELSE "MAC_U", !.a = vrf,
                  !.imm = Imm(coefficient), !.writeA = TRUE]
Nclip(shift) == [Issue EXCEPT !.op = "NCLIP_U", !.imm = Imm(shift), !.dstV = OutputRow,
                              !.writeV = TRUE]

(* gaussian3x3_tb: three rows, nine taps, one rounding. *)
GaussianBlock(image, x, y) ==
    LET Row(r) == RowBlock(image, y + r - 1, x)
        Taps(r, side, middle) ==
            <<Routed(Tap(r = 0, r, side), "SLIDE_UP", Row(r)),
              Tap(FALSE, r, middle),
              Routed(Tap(FALSE, r, side), "SLIDE_DOWN", Row(r))>>
    IN  [r \in 1 .. 3 |-> WriteVrf(r - 1, Row(r - 1).center)]
        \o <<WriteMrf(TailMask, TailLanes(image, x))>>
        \o Taps(0, 1, 2) \o Taps(1, 2, 4) \o Taps(2, 1, 2) \o <<Nclip(4)>>

GaussianPixel(image, x, y) ==
    LET Weighted(dy) == At(image, x - 1, y + dy) + 2 * At(image, x, y + dy) + At(image, x + 1, y + dy)
    IN  (Weighted(-1) + 2 * Weighted(0) + Weighted(1) + 8) \div 16

(* gaussian3x3_separable_tb: a horizontal pass into an intermediate image    *)
(* and a vertical one out of it, each with a rounding of its own.            *)
HorizontalBlock(image, x, y) ==
    LET row == RowBlock(image, y, x)
    IN  <<WriteVrf(0, row.center), WriteMrf(TailMask, TailLanes(image, x)),
          Routed(Tap(TRUE, 0, 1), "SLIDE_UP", row), Tap(FALSE, 0, 2),
          Routed(Tap(FALSE, 0, 1), "SLIDE_DOWN", row), Nclip(2)>>
VerticalBlock(image, x, y) ==
    [r \in 1 .. 3 |-> WriteVrf(r - 1, LoadGroup(image, y + r - 2, x))]
    \o <<WriteMrf(TailMask, TailLanes(image, x)),
         Tap(TRUE, 0, 1), Tap(FALSE, 1, 2), Tap(FALSE, 2, 1), Nclip(2)>>

HorizontalPixel(image, x, y) ==
    (At(image, x - 1, y) + 2 * At(image, x, y) + At(image, x + 1, y) + 2) \div 4
SeparablePixel(image, x, y) ==
    LET Middle(v) == IF v \in 0 .. image.height - 1 THEN HorizontalPixel(image, x, v) ELSE 0
    IN  (Middle(y - 1) + 2 * Middle(y) + Middle(y + 1) + 2) \div 4
DeviationBound == 2

(* sobel3x3_tb: neighbour columns into rows of their own, two gradients in   *)
(* wide accumulators that start from a row held at zero, narrowed with sign, *)
(* and the saturating sum of their magnitudes.                               *)
AccX == 0
AccY == 1
AccZero == 7
Shift(from, to, route, row) ==
    Routed([Issue EXCEPT !.op = "PASS_A", !.a = from, !.dstV = to, !.writeV = TRUE], route, row)
WideDifference(a, b, align, from, to) ==
    [Issue EXCEPT !.op = "WSUB_U", !.a = a, !.b = b, !.imm = Imm(align), !.acc = from,
                  !.dstA = to, !.writeA = TRUE]
NarrowTo(op, a, b, to) == [Issue EXCEPT !.op = op, !.a = a, !.b = b, !.dstV = to, !.writeV = TRUE]
NclipS(shift, acc, to) ==
    [Issue EXCEPT !.op = "NCLIP_S", !.imm = Imm(shift), !.acc = acc, !.dstV = to, !.writeV = TRUE]

SobelBlock(image, x, y, shift) ==
    LET above  == RowBlock(image, y - 1, x)
        center == RowBlock(image, y, x)
        below  == RowBlock(image, y + 1, x)
        Right(in, row) == Routed(in, "SLIDE_DOWN", row)
    IN  <<WriteVrf(0, above.center), WriteVrf(1, center.center), WriteVrf(2, below.center),
          WriteMrf(TailMask, TailLanes(image, x)),
          Shift(0, 3, "SLIDE_UP", above), Shift(1, 4, "SLIDE_UP", center),
          Shift(2, 5, "SLIDE_UP", below), Shift(2, 6, "SLIDE_DOWN", below),
          Right(WideDifference(0, 3, 0, AccZero, AccX), above),
          Right(WideDifference(1, 4, 1, AccX, AccX), center),
          Right(WideDifference(2, 5, 0, AccX, AccX), below),
          WideDifference(3, 5, 0, AccZero, AccY),
          WideDifference(0, 2, 1, AccY, AccY),
          Right(WideDifference(0, 6, 0, AccY, AccY), above),
          NclipS(shift, AccX, 7), NclipS(shift, AccY, 8),
          NarrowTo("ABS_SAT_S", 7, 0, 9), NarrowTo("ABS_SAT_S", 8, 0, 10),
          NarrowTo("ADD_SAT_U", 9, 10, OutputRow)>>

SobelPixel(image, x, y, shift) ==
    LET D(v) == At(image, x + 1, v) - At(image, x - 1, v)
        E(u) == At(image, u, y - 1) - At(image, u, y + 1)
        NclipOf(g) == LET scaled == (g \div 2^shift)
                                    + (IF shift = 0 THEN 0 ELSE (g \div 2^(shift - 1)) % 2)
                      IN  IF scaled > 127 THEN 127 ELSE IF scaled < -128 THEN -128 ELSE scaled
        AbsOf(g) == IF g = -128 THEN 127 ELSE IF g < 0 THEN -g ELSE g
        magnitude == AbsOf(NclipOf(D(y - 1) + 2 * D(y) + D(y + 1)))
                     + AbsOf(NclipOf(E(x - 1) + 2 * E(x) + E(x + 1)))
    IN  IF magnitude > 255 THEN 255 ELSE magnitude

(* median3x3_tb: nineteen compare-exchanges on the nine rows of the window,  *)
(* three operations each; the fifth row ends with the median.                *)
MedianPairs == <<<<1, 2>>, <<4, 5>>, <<7, 8>>, <<0, 1>>, <<3, 4>>, <<6, 7>>,
                 <<1, 2>>, <<4, 5>>, <<7, 8>>, <<0, 3>>, <<5, 8>>, <<4, 7>>,
                 <<3, 6>>, <<1, 4>>, <<2, 5>>, <<4, 7>>, <<4, 2>>, <<6, 4>>, <<4, 2>>>>
MedianRow == 4
SpareRow == 9
SortPair(p) == <<NarrowTo("MAX_U", p[1], p[2], SpareRow), NarrowTo("MIN_U", p[1], p[2], p[1]),
                 NarrowTo("PASS_A", SpareRow, 0, p[2])>>
MedianBlock(image, x, y) ==
    <<WriteMrf(TailMask, TailLanes(image, x))>>
    \o [i \in 1 .. 9 |-> WriteVrf(i - 1, LoadGroup(image, y + ((i - 1) \div 3) - 1,
                                                          x + ((i - 1) % 3) - 1))]
    \o FlattenSeq([p \in DOMAIN MedianPairs |-> SortPair(MedianPairs[p])])

MedianPixel(image, x, y) ==
    LET value == [i \in 0 .. 8 |-> At(image, x + (i % 3) - 1, y + (i \div 3) - 1)]
    IN  CHOOSE m \in {value[i] : i \in 0 .. 8} :
            /\ Cardinality({i \in 0 .. 8 : value[i] < m}) <= 4
            /\ Cardinality({i \in 0 .. 8 : value[i] > m}) <= 4

(* The network on its own.  The bench runs every order of nine ranks; nine   *)
(* two-valued inputs decide the same for a network of compare-exchanges.     *)
NetworkSelects(ones) ==
    LET Exchange(v, p) == IF v[p[1]] > v[p[2]]
                          THEN [v EXCEPT ![p[1]] = v[p[2]], ![p[2]] = v[p[1]]] ELSE v
        out == FoldLeft(Exchange, [i \in 0 .. 8 |-> IF i \in ones THEN 1 ELSE 0], MedianPairs)
    IN  out[MedianRow] = IF Cardinality(ones) >= 5 THEN 1 ELSE 0

-----------------------------------------------------------------------------
(* Running a workload: one step is one clock, a write through a              *)
(* configuration port or an operation.  The state holds the register files,  *)
(* the image the current pass reads, the one it has written so far, the      *)
(* block and the place in its program, and whether every operation was legal *)
(* and every slide took exactly its one lane from the neighbouring group.    *)
Passes(kernel) == IF kernel = "separable" THEN 2 ELSE 1
BlocksPerRow(image) == (image.width + N - 1) \div N
BlocksOf(image) == BlocksPerRow(image) * image.height
BlockX(image, k) == N * (k % BlocksPerRow(image))
BlockY(image, k) == (k % BlocksOf(image)) \div BlocksPerRow(image)

ProgramOf(kernel, source, k) ==
    LET x == BlockX(source, k)
        y == BlockY(source, k)
    IN  CASE kernel = "gaussian" -> GaussianBlock(source, x, y)
          [] kernel = "sobel"    -> SobelBlock(source, x, y, 0)
          [] kernel = "median"   -> MedianBlock(source, x, y)
          [] kernel = "separable" -> IF k < BlocksOf(source) THEN HorizontalBlock(source, x, y)
                                     ELSE VerticalBlock(source, x, y)

Boundary(route) == CASE route = "SLIDE_UP" -> {0} [] route = "SLIDE_DOWN" -> {N - 1} [] OTHER -> {}

NoFiles == [v |-> [r \in 0 .. 15 |-> Zeros(N)], a |-> [r \in 0 .. 7 |-> Zeros(N)],
            m |-> [r \in 0 .. 3 |-> {}]]
KernelStart(kernel, image) ==
    [files |-> IF kernel = "sobel" THEN DatapathClock(NoFiles, ClearArf(AccZero)) ELSE NoFiles,
     source |-> image, result |-> Blank(image), block |-> 0, at |-> 1, legal |-> TRUE]

KernelEnds(kernel, d) == d.block = Passes(kernel) * BlocksOf(d.source)

(* The pixels of a block, read from its output row once the program is over. *)
Stored(kernel, image, files, x, y, result) ==
    LET row == DatapathOut(files, [Idle EXCEPT !.a = IF kernel = "median" THEN MedianRow
                                                     ELSE OutputRow]).narrow
    IN  [result EXCEPT !.pixels =
            [i \in DOMAIN @ |-> IF i \div image.width = y /\ (i % image.width) - x \in TailLanes(image, x)
                                THEN row[(i % image.width) - x] ELSE @[i]]]

Turns(d, last) == last /\ (d.block + 1) % BlocksOf(d.source) = 0
Advance(kernel, d, in, out, files, last, result) ==
    [files |-> files,
     source |-> IF Turns(d, last) /\ ~KernelEnds(kernel, [d EXCEPT !.block = @ + 1])
                THEN result ELSE d.source,
     result |-> result,
     block |-> IF last THEN d.block + 1 ELSE d.block,
     at |-> IF last THEN 1 ELSE d.at + 1,
     legal |-> d.legal /\ ~out.illegal /\ out.boundary = Boundary(in.route)]
StoreBlock(kernel, d, in, out, files, last) ==
    Advance(kernel, d, in, out, files, last,
            IF last THEN Stored(kernel, d.source, files, BlockX(d.source, d.block),
                                BlockY(d.source, d.block), d.result)
            ELSE d.result)
Clock(kernel, d, in, out, last) ==
    StoreBlock(kernel, d, in, out, WriteFiles(d.files, in, out), last)
Issued(kernel, d, in, last) == Clock(kernel, d, in, DatapathOut(d.files, in), last)
RunFrom(kernel, d, program) == Issued(kernel, d, program[d.at], d.at = Len(program))
KernelStep(kernel, d) == RunFrom(kernel, d, ProgramOf(kernel, d.source, d.block))

(* check_image, after every block: the pixels it wrote are the golden        *)
(* model's; the separable result also stays near the exact one.              *)
Golden(kernel, image, k, x, y) ==
    CASE kernel = "gaussian" -> GaussianPixel(image, x, y)
      [] kernel = "sobel"    -> SobelPixel(image, x, y, 0)
      [] kernel = "median"   -> MedianPixel(image, x, y)
      [] kernel = "separable" -> IF k < BlocksOf(image) THEN HorizontalPixel(image, x, y)
                                 ELSE SeparablePixel(image, x, y)

Deviates(image, x, y) ==
    LET difference == SeparablePixel(image, x, y) - GaussianPixel(image, x, y)
    IN  IF difference < 0 THEN -difference ELSE difference

BlockAgrees(kernel, image, d, k) ==
    \A lane \in TailLanes(image, BlockX(image, k)) :
        LET x == BlockX(image, k) + lane
            y == BlockY(image, k)
        IN  /\ At(d.result, x, y) = Golden(kernel, image, k, x, y)
            /\ kernel = "separable" /\ k >= BlocksOf(image)
                => Deviates(image, x, y) <= DeviationBound

KernelAgrees(kernel, image, d) ==
    /\ d.legal
    /\ d.at = 1 /\ d.block > 0 => BlockAgrees(kernel, image, d, d.block - 1)

-----------------------------------------------------------------------------
(* The directed benches *)

Bytes(s)  == [i \in Lanes(Len(s)) |-> s[i + 1]]
Same(x)   == Bytes(<<x, x, x, x>>)
Nothing   == <<>>
Do(in)    == [in |-> in, see |-> Nothing]
Look(in, see) == [in |-> in, see |-> see]

SetV(row, s) == Do(WriteVrf(row, Bytes(s)))
SetA(row, s) == Do([Idle EXCEPT !.configA = <<row, Bytes(s)>>])
SetM(row, m) == Do(WriteMrf(row, m))

(* An operation on two rows, and the files it writes. *)
Act(op, a, b)    == [Idle EXCEPT !.issue = TRUE, !.op = op, !.a = a, !.b = b]
ToV(in, row)     == [in EXCEPT !.dstV = row, !.writeV = TRUE]
ToA(in, acc, row) == [in EXCEPT !.acc = acc, !.dstA = row, !.writeA = TRUE]
ToM(in, row)     == [in EXCEPT !.dstM = row, !.writeM = TRUE]
Under(in, row)   == [in EXCEPT !.masked = TRUE, !.mask = row]
Elements(in, mode) == [in EXCEPT !.mode = mode]

(* Reading back without issuing: PASS_A shows a vector row, a shift by row 0's *)
(* zeros an accumulator, and the execution mask a mask row.                  *)
GetV(row, s) == Look([Idle EXCEPT !.a = row], [narrow |-> Bytes(s)])
GetA(row, s) == Look([Idle EXCEPT !.op = "RSHIFT_RND_U", !.acc = row], [wide |-> Bytes(s)])
GetM(row, m) == Look(Under(Idle, row), [execMask |-> m])

(* Masked writes of each file, a predicate made and used, and an operation   *)
(* whose reduction is illegal: it must write nothing at all.                 *)
MaskedWrites ==
    <<SetV(0, <<0, 0, 0, 0>>), SetV(1, <<250, 10, 100, 20>>), SetV(2, <<10, 20, 50, 30>>),
      SetV(3, <<9, 9, 9, 9>>), SetV(4, <<0, 0, 0, 0>>),
      SetA(0, <<1000, 2000, 3000, 4000>>), SetA(1, <<7, 7, 7, 7>>), SetM(0, {0, 2}),
      Do(Under(ToV(Act("ADD_SAT_U", 1, 2), 3), 0)), GetV(3, <<255, 9, 150, 9>>),
      Do(ToM(Act("CMPGT_U", 1, 2), 1)),
      Do([ToV(Act("SELECT", 1, 2), 4) EXCEPT !.select = 1]), GetV(4, <<250, 20, 100, 30>>),
      Do(Under(ToA(Act("MAC_U", 1, 2), 0, 1), 0)), GetA(1, <<3500, 7, 8000, 7>>),
      SetV(12, <<1, 2, 3, 4>>), SetV(13, <<10, 20, 30, 40>>), SetV(14, <<90, 91, 92, 93>>),
      Look([ToV(Act("ADD", 12, 13), 14) EXCEPT !.reduce = "RESERVED"], [illegal |-> TRUE]),
      GetV(14, <<90, 91, 92, 93>>)>>

(* Two rows and an accumulator added or subtracted; an immediate is then the *)
(* alignment both rows share.                                                *)
WideSums ==
    LET Sum(op, a, acc, to) == ToA(Act(op, a, 11), acc, to)
    IN  <<SetV(10, <<5, 250, 7, 200>>), SetV(11, <<10, 20, 30, 40>>),
          SetA(3, <<1000, 2000, 3000, 4000>>),
          Do(Sum("WADD_U", 10, 3, 4)), GetA(4, <<1015, 2270, 3037, 4240>>),
          Do([Sum("WADD_U", 10, 3, 4) EXCEPT !.imm = Imm(2)]), GetA(4, <<1060, 3080, 3148, 4960>>),
          SetV(12, <<255, 128, 127, 1>>), SetA(5, <<1000, 2000, 3000, 4000>>),
          Do(Sum("WADD_S", 12, 5, 6)), GetA(6, <<1009, 1892, 3157, 4041>>),
          Do(Sum("WSUB_U", 10, 3, 4)), GetA(4, <<995, 2230, 2977, 4160>>),
          Do(Sum("WSUB_S", 12, 5, 6)), GetA(6, <<989, 1852, 3097, 3961>>)>>

(* A masked reduction, the routed moves, and slices and immediates between   *)
(* the files.  The accumulators are written without the two bits above the   *)
(* model's width: the last slice then reads 63 where the bench reads 255.    *)
Moves ==
    LET Move(to) == ToV(Act("PASS_A", 1, 0), to)
    IN  <<Look([Under(Act("ABSDIFF_U", 1, 2), 0) EXCEPT !.reduce = "SUM_U"],
               [reduction |-> <<290, 0>>, illegal |-> FALSE]),
          Do([Move(5) EXCEPT !.route = "GATHER", !.routing.index = Bytes(<<3, 1, 1, 0>>)]),
          GetV(5, <<20, 10, 10, 250>>),
          Do([Move(6) EXCEPT !.route = "BROADCAST", !.routing.lane = 2]),
          GetV(6, <<100, 100, 100, 100>>),
          Look([Move(7) EXCEPT !.route = "SLIDE_UP", !.routing.amount = 2,
                               !.routing.lower = Bytes(<<1, 2, 3, 4>>)], [boundary |-> {0, 1}]),
          GetV(7, <<3, 4, 250, 10>>),
          SetA(2, <<305420016, 162254319, 270544960, 1072618956>>), SetV(8, <<0, 8, 16, 24>>),
          Do([ToV(Act("NSLICE", 0, 8), 9) EXCEPT !.acc = 2]), GetV(9, <<240, 205, 32, 63>>),
          SetV(13, <<1, 2, 3, 4>>),
          Do([ToV(Act("ADD", 13, 11), 14) EXCEPT !.imm = Imm(10)]), GetV(14, <<11, 12, 13, 14>>),
          Do([ToA(Act("WIDEN_U", 13, 11), 0, 7) EXCEPT !.imm = Imm(8)]),
          Do([ToV(Act("NSLICE", 0, 11), 15) EXCEPT !.acc = 7, !.imm = Imm(8)]),
          GetV(15, <<1, 2, 3, 4>>)>>

(* COMPRESS and EXPAND write the whole row, zeros included, and a mask; an   *)
(* empty mask packs nothing and is legal.                                    *)
Rearrangements ==
    LET Op(op, from, to) == ToM(ToV(Under(Act(op, from, 0), 2), to), 3)
        Sees(s, m) == [narrow |-> Bytes(s), predicate |-> m, count |-> <<Cardinality(m)>>,
                       illegal |-> FALSE]
    IN  <<SetM(2, {1, 3}),
          Look(Op("COMPRESS", 1, 14), Sees(<<10, 20, 0, 0>>, {0, 1})),
          GetV(14, <<10, 20, 0, 0>>), GetM(3, {0, 1}),
          Look(Op("EXPAND", 14, 15), Sees(<<0, 10, 0, 20>>, {1, 3})),
          GetV(15, <<0, 10, 0, 20>>), GetM(3, {1, 3}),
          SetM(2, {}),
          Look(Under(Act("COMPRESS", 1, 0), 2), Sees(<<0, 0, 0, 0>>, {}))>>

(* Mask logic ignores the execution mask and writes every bit of its row. *)
MaskLogic ==
    LET AllOnes(m) == [i \in Lanes(N) |-> IF i \in m THEN 255 ELSE 0]
        Op(op) == [ToM(Act(op, 0, 0), 3) EXCEPT !.mask = 0, !.select = 1]
        Case(in, m) == <<Look(in, [predicate |-> m, narrow |-> AllOnes(m), illegal |-> FALSE]),
                         GetM(3, m)>>
    IN  <<SetM(0, {1, 3}), SetM(1, {2, 3})>>
        \o Case(ToV(Op("MAND"), 13), {3}) \o Case(Op("MOR"), {1, 2, 3})
        \o Case(Op("MXOR"), {1, 2}) \o Case(Op("MNOT"), {0, 2})
        \o <<GetV(13, <<0, 0, 0, 255>>)>>

(* Elements of two and four lanes: carries and borrows, shift amounts, whole *)
(* elements chosen by a comparison, and an immediate as wide as the element. *)
PartitionedElements ==
    LET Rows(a, b) == <<SetV(10, a), SetV(11, b)>>
        Op(op, mode, s) == <<Do(Elements(ToV(Act(op, 10, 11), 14), mode)), GetV(14, s)>>
    IN  Rows(<<255, 0, 255, 255>>, <<1, 0, 1, 0>>) \o Op("ADD", 1, <<0, 1, 0, 0>>)
        \o Rows(<<0, 0, 1, 0>>, <<1, 0, 0, 0>>) \o Op("SUB", 2, <<255, 255, 0, 0>>)
        \o Rows(<<128, 0, 1, 0>>, <<1, 0, 4, 0>>) \o Op("SHL", 1, <<0, 1, 16, 0>>)
        \o <<SetV(10, <<1, 1, 1, 1>>),
             Do([Elements(ToV(Act("ADD", 10, 0), 14), 2) EXCEPT !.imm = Bytes(<<4, 3, 2, 1>>)]),
             GetV(14, <<5, 4, 3, 2>>)>>
        \o Rows(<<0, 1, 0, 128>>, <<255, 0, 255, 127>>)
        \o Op("MIN_U", 1, <<255, 0, 255, 127>>) \o Op("MIN_S", 1, <<255, 0, 0, 128>>)

(* A comparison's predicate is the same on every lane of an element, and an  *)
(* element whose mask has a hole is not written at all.                      *)
PartitionedPredicates ==
    LET Sees(x, m) == [narrow |-> x, predicate |-> m, illegal |-> FALSE]
    IN  <<SetV(10, <<52, 18, 120, 86>>), SetV(11, <<52, 18, 121, 86>>),
          Look(Elements(ToM(Act("CMPEQ", 10, 11), 3), 1), Sees(Bytes(<<255, 255, 0, 0>>), {0, 1})),
          GetM(3, {0, 1}),
          SetV(10, <<0, 0, 0, 128>>), SetV(11, <<255, 255, 255, 127>>),
          Look(Elements(Act("CMPGT_U", 10, 11), 2), Sees(Same(255), Lanes(N))),
          Look(Elements(Act("CMPGT_S", 10, 11), 2), Sees(Same(0), {})),
          SetV(14, <<9, 9, 9, 9>>), SetV(10, <<1, 2, 3, 4>>), SetV(11, <<10, 20, 30, 40>>),
          SetM(2, {0, 2, 3}),
          Look(Elements(Under(ToV(Act("ADD", 10, 11), 14), 2), 1), [execMask |-> {2, 3}]),
          GetV(14, <<9, 9, 33, 44>>)>>

DatapathScript == MaskedWrites \o WideSums \o Moves \o Rearrangements \o MaskLogic
                  \o PartitionedElements \o PartitionedPredicates

-----------------------------------------------------------------------------
(* vsp_four_pass_gather_engine_tb.  The bench overwrites the command's       *)
(* inputs once it is accepted: the passes must run on what was captured.     *)
All16 == Lanes(GatherLanes)
RampFrom(base) == [l \in All16 |-> base + l]
Constant(x) == [l \in All16 |-> x]
Corrupt == [reset |-> FALSE, valid |-> FALSE, ready |-> FALSE, owner |-> <<0, 0>>,
            source |-> Constant(238), index |-> Constant(255), active |-> {}]
Command(index, active, owner) ==
    [Corrupt EXCEPT !.valid = TRUE, !.owner = owner, !.source = RampFrom(48), !.index = index,
                    !.active = active]
Answer(index, active, owner) ==
    LET r == RefGather(RampFrom(48), index, active)
    IN  [valid |-> TRUE, busy |-> FALSE, data |-> r.data, write |-> r.write, oob |-> r.oob,
         owner |-> owner]
RunsFourPasses ==
    [phase \in 1 .. 4 |-> Look(Corrupt, [busy |-> TRUE, phase |-> phase - 1, valid |-> FALSE,
                                         ready |-> FALSE])]
Consumed == <<Do([Corrupt EXCEPT !.ready = TRUE]), Look(Corrupt, [valid |-> FALSE, ready |-> TRUE])>>
AcceptAndRun(index, active, owner) ==
    <<Look(Command(index, active, owner), [ready |-> TRUE])>>
    \o RunsFourPasses \o <<Look(Corrupt, Answer(index, active, owner))>>

GatherScript ==
    LET identity == RampFrom(0)
        oob == [identity EXCEPT ![0] = 16, ![5] = 31, ![10] = 255, ![15] = 99]
        stripes == {1, 3, 4, 6, 8, 10, 13, 15}            \* the mask 0xa55a
        middle  == All16 \ {0, 5, 10, 15}                 \* the mask 0x7bde
        idle == Look(Corrupt, [ready |-> TRUE, busy |-> FALSE, valid |-> FALSE])
    IN  <<Do([Corrupt EXCEPT !.reset = TRUE]), idle>>
        \o AcceptAndRun(identity, All16, <<2, 81>>)
        \* A result nobody takes blocks the next command and does not change.
        \o [c \in 1 .. 7 |-> Look(Command(identity, All16, <<1, 34>>),
                                  [ready |-> FALSE] @@ Answer(identity, All16, <<2, 81>>))]
        \* It is taken and the next command accepted on one edge.
        \o <<Look([Command(Constant(7), stripes, <<3, 114>>) EXCEPT !.ready = TRUE],
                  [ready |-> TRUE])>>
        \o RunsFourPasses \o <<Look(Corrupt, Answer(Constant(7), stripes, <<3, 114>>))>> \o Consumed
        \o AcceptAndRun(oob, middle, <<1, 145>>) \o Consumed
        \* A reset in the middle of a command leaves nothing of it.
        \o <<Do(Command(identity, All16, <<2, 51>>)), Do(Corrupt), Look(Corrupt, [busy |-> TRUE]),
             Do([Corrupt EXCEPT !.reset = TRUE]), idle>>
        \o AcceptAndRun([l \in All16 |-> (l * 11) % 19], stripes, <<0, 7>>) \o Consumed

EngineOut(e, in) == [ready |-> EngineReady(e, in.ready), busy |-> e.busy, phase |-> e.phase,
                     valid |-> e.valid, owner |-> e.owner, data |-> e.data, write |-> e.write,
                     oob |-> e.oob]

----------------------------------------------------------------------------
(* The runs *)

Four == INSTANCE UnitReferences WITH ElemW <- 4, AccW <- 8
Two  == INSTANCE UnitReferences WITH ElemW <- 2, AccW <- 4

-----------------------------------------------------------------------------
(* Unit benches: the number of lines, and what a line checks. *)
MaskOf(m, n) == {i \in 0 .. n - 1 : (m \div 2^i) % 2 = 1}
Spread(l, n, k) == [i \in 0 .. n - 1 |-> (l * (2 * i + 3) + i * k) % 256]
Nibbles == 0 .. 15

(* Every pair of four-bit operands under every operation, with accumulators  *)
(* at the ends and middle of their range and every alignment that matters.   *)
ExecLine(l) ==
    LET op == OpName(l \div 16)
        a  == l % 16
        Accs == IF op \in {"MAC_U", "MAC_S", "WADD_U", "WADD_S", "WSUB_U", "WSUB_S", "RSHIFT_RND_U",
                           "RSHIFT_RND_S", "NCLIP_U", "NCLIP_S", "NSLICE"}
                THEN {0, 1, 7, 8, 127, 128, 170, 255} ELSE {170}
        Aligns == IF op \in TernaryOps THEN 0 .. 7 ELSE {5}
    IN  \A b \in Nibbles, acc \in Accs, align \in Aligns :
            Four!ExecAgrees(op, [a |-> Bytes(<<a, a, b, a>>), b |-> Bytes(<<b, b, a, b>>),
                                 acc |-> Bytes(<<acc, acc, 255 - acc, acc>>), align |-> align,
                                 mask |-> {0, 1, 2}, select |-> {0, 2},
                                 merge |-> Bytes(<<9, 10, 11, 12>>)], 4)

DynamicNames == <<"ADD", "SUB", "MIN_U", "MAX_U", "MIN_S", "MAX_S", "SHL", "SHR_U", "SHR_S",
                  "CMPEQ", "CMPGT_U", "CMPGT_S">>
DynamicLine(l) ==
    \A mode \in 0 .. 3, k \in Nibbles, y \in 0 .. 11 :
        Two!DynamicAgrees(DynamicNames[(l \div 16) + 1], mode, (l % 16) * 16 + k, (y * 73) % 256)

ReduceNames == <<"SUM_U", "SUM_S", "MIN_U", "MIN_S", "MAX_U", "MAX_S">>
ReduceLine(l) ==
    \A mask \in SUBSET (0 .. 3), d \in [0 .. 3 -> 0 .. 3] :
        Two!ReduceAgrees(ReduceNames[l + 1], mask, d, 4)

MaskLine(l) == \A a, b \in Nibbles : MaskAgrees(<<"MAND", "MOR", "MXOR", "MNOT">>[l + 1], a, b, 4)

CompactLine(l) ==
    \A expand \in BOOLEAN : LET data == Spread(l, 8, 29)
                            IN  Compact(expand, data, MaskOf(l, 8), 8)
                                    = RefCompact(expand, data, MaskOf(l, 8), 8)

RouteLine(l) ==
    LET In(index, lane, amount) ==
            [data |-> Bytes(<<10, 20, 30, 40>>), lower |-> Bytes(<<1, 2, 3, 4>>),
             upper |-> Bytes(<<5, 6, 7, 8>>), index |-> index, lane |-> lane, amount |-> amount]
        Agrees(op, in) == Route(op, in, 4) = RefRoute(op, in, 4)
    IN  IF l = 0
        THEN \A index \in [0 .. 3 -> 0 .. 3] : Agrees("GATHER", In(index, 0, 0))
        ELSE /\ \A lane \in 0 .. 3 : Agrees("BROADCAST", In(Same(0), lane, 0))
             /\ \A k \in 0 .. 4, op \in {"SLIDE_UP", "SLIDE_DOWN"} : Agrees(op, In(Same(0), 0, k))
             /\ Route("SLIDE_DOWN", In(Same(0), 0, 5), 4)
                    = [data |-> Zeros(4), boundary |-> {}, illegal |-> TRUE]

BenesLine(l) == IF l < 64 THEN BenesAgrees(2, l) ELSE BenesReachesAll(2)

GatherLine(l) ==
    LET data == Spread(l, 16, 61)
    IN  /\ RotatesAgree(data, l % 16)
        /\ GatherAgrees(data, [i \in 0 .. 15 |-> (i * l + (i \div 3)) % 16])
        /\ l < 200 => AnchorsAgree(l)

PassLine(l) ==
    \A active \in {0 .. 15, {}, MaskOf(31710, 16), MaskOf(42330 + l, 16)} :
        PassesAgree(Spread(l, 16, 7), [i \in 0 .. 15 |-> (i * (l % 13) + l) % (16 + (l % 9))], active)

SadLine(l) ==
    \A mask \in SUBSET (0 .. 3) : SadAgrees(Spread(l, 4, 97), Spread(255 - l, 4, 53), mask, 4)

MulLine(l) == \A y \in 0 .. 255 : Two!MulAgrees(l, y)

UnitBenches ==
    [exec |-> 16 * 40, dynamic |-> 12 * 16, reduce |-> 6, maskalu |-> 4, compact |-> 256,
     route |-> 2, benes |-> 65, gather |-> 64, pass |-> 64, legal |-> 64, sad |-> 64, mul |-> 256, directed |-> 1,
     network |-> 512]
UnitAgrees(b, l) ==
    CASE b = "exec"    -> ExecLine(l)
      [] b = "dynamic" -> DynamicLine(l)
      [] b = "reduce"  -> ReduceLine(l)
      [] b = "maskalu" -> MaskLine(l)
      [] b = "compact" -> CompactLine(l)
      [] b = "route"   -> RouteLine(l)
      [] b = "benes"   -> BenesLine(l)
      [] b = "gather"  -> GatherLine(l)
      [] b = "pass"    -> PassLine(l)
      [] b = "legal"   -> LegalAgrees(l)
      [] b = "sad"     -> SadLine(l)
      [] b = "mul"     -> MulLine(l)
      [] b = "directed" -> DirectedAgrees
      [] b = "network" -> NetworkSelects(MaskOf(l, 9))

-----------------------------------------------------------------------------
(* Workloads: the benches' images by kernel, smaller, with fixed pixels for   *)
(* their random ones; widths 1 to 14 give every tail of a block.             *)
Noise(w, h) == ImageOf(w, h, LAMBDA x, y : (x * x * 37 + y * 101 + x * y * 59 + 17) % 256)
GaussianImages ==
    [gaussianFlat |-> Flat(9, 7, 0), gaussianImpulse |-> Impulse(9, 7), gaussianRamp |-> Ramp(13, 4),
     gaussianNoise |-> Noise(11, 6)]
SobelImages ==
    [sobelFlat |-> Flat(5, 4, 0), sobelImpulse |-> Impulse(9, 7), sobelRamp |-> Ramp(13, 4),
     sobelNoise |-> Noise(11, 6), sobelStep |-> StepEdge(5, 5, 2)]
MedianImages ==
    [medianFlat |-> Flat(5, 3, 128), medianImpulse |-> Impulse(6, 3), medianNoise |-> Noise(7, 3)]
SeparableImages ==
    [separableFlat |-> Flat(9, 7, 200), separableRamp |-> Ramp(14, 3), separableZone |-> ZonePlate(11, 9),
     separableStep |-> StepEdge(7, 6, 1), separableChecker |-> Checkerboard(8, 6, 2),
     separableImpulse |-> Impulse(5, 5), separableNoise |-> Noise(11, 7), separableThin |-> Noise(1, 5)]
Filtered(kernel, images) == [name \in DOMAIN images |-> <<kernel, images[name]>>]
Workloads == Filtered("gaussian", GaussianImages) @@ Filtered("sobel", SobelImages)
             @@ Filtered("median", MedianImages) @@ Filtered("separable", SeparableImages)
Kernel(b) == Workloads[b][1]
Picture(b) == Workloads[b][2]

-----------------------------------------------------------------------------
(* Scripts on models that are functions of their state. *)
Scripts == [datapath |-> DatapathScript, engine |-> GatherScript]
Outputs(b, d, in) == CASE b = "datapath" -> DatapathOut(d, in)
                       [] b = "engine"   -> EngineOut(d, in)
Clocked(b, d, in) == CASE b = "datapath" -> DatapathClock(d, in)
                       [] b = "engine"   -> Engine(d, in)
PowerOn(b) == CASE b = "datapath" -> NoFiles
                [] b = "engine"   -> EngineReset
Seen(out, see) == \A field \in DOMAIN see : out[field] = see[field]

-----------------------------------------------------------------------------
VARIABLES unit,   \* the unit under test
          bench,  \* the bench that runs
          line,   \* how far it is
          script, \* the lines still to come
          dut     \* what the model of its unit holds, or the cycles waited

(* The machines the other scripts drive; each rests while another's runs. *)
VARIABLES phase, staged, owned, retired, terminal, result, irqPending, mgmt, mmioRsp, clearPulse
VARIABLES owner, lock, mergeError, asks, slave
VARIABLES pc, startPc, endPc, rangeValid, running, outstanding, discard, req, bundleValid, bundle,
          deliveryDone, storeFault, sourceError, store
VARIABLES words, basePc, expectedPc, expectedValid, eofSeen, discarding, terminalStop, terminalPc,
          framesDone, framerError
VARIABLES canonical, ctrl, active, cpl, ctrlError
VARIABLES groupOwner, queue, shadow, rrBase, entry, doneHold, doneNext, trackerError, ingress, pipe,
          res, childCpl, rsp, stateHold, stateNext, collected, collectNext, reject, completion,
          preferReject
VARIABLES state, kind, cmd, base, addr, group, lane, remaining, completed, committed, loadRow,
          storeRow, indexRow, readRow, cplSeen, rspSeen, readBad, outcome, fault, mem, vrf,
          dmemAnswer, writeAnswer, readCpl, readRsp

(* The causes the memory of the vector engine's benches may answer. *)
FaultCauses == {"TRANSLATION", "PERMISSION", "ACCESS", "BUS", "DATA_INTEGRITY"}

(* The header at each address of the framer's bench: four words for the      *)
(* MEMORY records it splits, END where it writes END.                        *)
FramerImage ==
    [a \in {4 * k : k \in 64 .. 1023} |->
       [need |-> IF a \in {512, 1024, 1536, 2816, 3840} THEN 4 ELSE 1,
        kind |-> IF a \in {520, 780, 900, 2560, 2828} THEN "END" ELSE "OTHER"]]

(* 2^32 in the code, beyond TLC's integers; no bench retires more than three. *)
Counted == 2^16

Control == INSTANCE ControlBenches
           WITH Configs <- {"A", "B", "BAD"}, GoodConfigs <- {"A", "B"},
                Infos <- {"tag00", "tag21", "tag22", "tag99"}, CountRange <- Counted,
                BundleWords <- 4, PcInputs <- {}, AdmitSlots <- 3, Images <- {}, Tags <- {}, image <- FramerImage

Path == INSTANCE ExecBenches
        WITH ContextCount <- 3, SlotCount <- 3, GroupCount <- 4, QueueDepth <- 3, EntryCount <- 4,
             Ops <- {"ADD", "EXPORT", "BAD"}, Tags <- {}, ResultOps <- {"EXPORT"},
             RefusedOps <- {"BAD"}, Writes <- {}, Grants <- {}, owner <- groupOwner, cpl <- childCpl
Small == INSTANCE ExecBenches
         WITH ContextCount <- 3, SlotCount <- 3, GroupCount <- 4, QueueDepth <- 1, EntryCount <- 1,
              Ops <- {"ADD", "EXPORT", "BAD"}, Tags <- {}, ResultOps <- {"EXPORT"},
              RefusedOps <- {"BAD"}, Writes <- {}, Grants <- {}, owner <- groupOwner,
              cpl <- childCpl

Mover == INSTANCE VectorBenches
         WITH GroupCount <- 4, RowBytes <- 4, Rows <- 16, AddrLimit <- 512, Commands <- {},
              Faults <- FaultCauses, result <- outcome
WideMover == INSTANCE VectorBenches
             WITH GroupCount <- 16, RowBytes <- 4, Rows <- 16, AddrLimit <- 2048, Commands <- {},
                  Faults <- FaultCauses, result <- outcome

host   == <<phase, staged, owned, retired, terminal, result, irqPending, mgmt, mmioRsp, clearPulse>>
merge  == <<owner, lock, mergeError, asks, slave>>
source == <<pc, startPc, endPc, rangeValid, running, outstanding, discard, req, bundleValid, bundle,
            deliveryDone, storeFault, sourceError, store>>
framer == <<words, basePc, expectedPc, expectedValid, eofSeen, discarding, terminalStop, terminalPc,
            framesDone, framerError>>
action == <<canonical, ctrl, active, cpl, ctrlError>>
path == <<groupOwner, queue, shadow, rrBase, entry, doneHold, doneNext, trackerError, ingress, pipe,
          res, childCpl, rsp, stateHold, stateNext, collected, collectNext, reject, completion,
          preferReject>>
vector == <<state, kind, cmd, base, addr, group, lane, remaining, completed, committed, loadRow,
            storeRow, indexRow, readRow, cplSeen, rspSeen, readBad, outcome, fault, mem, vrf,
            dmemAnswer, writeAnswer, readCpl, readRsp>>
vars == <<unit, bench, line, script, dut, host, merge, source, framer, action, path, vector>>

MachineScripts ==
    [host |-> Control!HostScripts, merge |-> Control!MergeScripts, source |-> Control!SourceScripts,
     framer |-> Control!FramerScripts, action |-> Control!ActionScripts, queue |-> Path!QueueScripts,
     front |-> Path!FrontScripts, tracker |-> Path!TrackerScripts,
     collector |-> Path!CollectorScripts, exec |-> Path!ExecScripts,
     smallQueue |-> Small!SmallQueueScripts, smallExec |-> Small!SmallExecScripts,
     handshakes |-> Mover!HandshakeScripts]
CommandScripts == [commands |-> Mover!EngineScripts, wideCommands |-> WideMover!WideEngineScripts]
Commanded == unit \in {"commands", "wideCommands"}
Ended == script = <<>>

(* What the unit under the running script shows before the edge. *)
Shown(in) ==
    CASE unit = "function" -> Outputs(bench, dut, in)
      [] unit = "host" -> Control!HostView
      [] unit = "merge" -> Control!MergeView
      [] unit = "source" -> Control!SourceView(in)
      [] unit = "framer" -> Control!FramerView(in)
      [] unit = "action" -> Control!ActionView(in)
      [] unit = "queue" -> Path!QueueView(in)
      [] unit = "front" -> Path!FrontView(in)
      [] unit = "tracker" -> Path!TrackerView(in)
      [] unit = "collector" -> Path!CollectorView(in)
      [] unit = "exec" -> Path!ExecView(in)
      [] unit = "smallQueue" -> Small!QueueView(in)
      [] unit = "smallExec" -> Small!ExecView(in)
      [] unit = "handshakes" -> Mover!EngineView
      [] unit = "commands" -> Mover!Reported(dut)
      [] unit = "wideCommands" -> WideMover!Reported(dut)

(* A line that waits lets cycles pass until its outputs are shown. *)
Awaits(l) == "await" \in DOMAIN l
Patience == 100

(* A command is compared with its line when it completes. *)
Unfinished(l) == IF Commanded THEN state # "DONE" ELSE Awaits(l) /\ dut < Patience

Complies(l) == Unfinished(l) \/ Seen(Shown(l.in), l.see)

Randoms == Path!RandomCycles
Stimulus == Path!Stimulus(bench, line, dut)

-----------------------------------------------------------------------------
MachinesInit ==
    /\ Control!HostInit /\ staged["MMU"] = "A" /\ staged["MAINT"] = "A" /\ Control!MergeInit
    /\ Control!FetchInit /\ Control!FramerInit /\ Control!ControllerInit
    /\ Path!ClusterInit /\ Mover!VectorInit

(* A unit bench is gone through from several lines at once. *)
Starts(lines) == {l \in 0 .. lines - 1 : l % 64 = 0}

Init ==
    /\ \/ /\ unit = "reference" /\ bench \in DOMAIN UnitBenches /\ line \in Starts(UnitBenches[bench])
          /\ script = <<>> /\ dut = Nothing
       \/ /\ unit = "kernel" /\ bench \in DOMAIN Workloads /\ line = 0 /\ script = <<>>
          /\ dut = KernelStart(Kernel(bench), Picture(bench))
       \/ /\ unit = "function" /\ bench \in DOMAIN Scripts /\ line = 1 /\ script = Scripts[bench]
          /\ dut = PowerOn(bench)
       \/ /\ unit \in DOMAIN MachineScripts /\ bench \in DOMAIN MachineScripts[unit] /\ line = 1
          /\ script = MachineScripts[unit][bench] /\ dut = 0
       \/ /\ unit \in DOMAIN CommandScripts /\ bench \in DOMAIN CommandScripts[unit] /\ line = 1
          /\ script = CommandScripts[unit][bench] /\ dut = Mover!NoLog
       \/ /\ unit = "random" /\ bench \in DOMAIN Randoms /\ line = 0 /\ script = <<>>
          /\ dut = Path!RandomStart[bench]
    /\ groupOwner = Path!OwnersOf(bench)
    /\ MachinesInit

NextUnit ==
    /\ unit = "reference"
    /\ line + 1 < UnitBenches[bench]
    /\ line' = line + 1
    /\ UNCHANGED <<unit, bench, script, dut, host, merge, source, framer, action, path, vector>>

NextClock ==
    /\ unit = "kernel"
    /\ ~KernelEnds(Kernel(bench), dut)
    /\ dut' = KernelStep(Kernel(bench), dut)
    /\ UNCHANGED <<unit, bench, line, script, host, merge, source, framer, action, path, vector>>

NextLine ==
    /\ ~Ended /\ unit = "function"
    /\ line' = line + 1 /\ script' = Tail(script)
    /\ dut' = Clocked(bench, dut, Head(script).in)
    /\ UNCHANGED <<unit, bench, host, merge, source, framer, action, path, vector>>

PlayHost(in) ==
    /\ unit = "host"
    /\ Control!HostEdge(in)
    /\ UNCHANGED <<merge, source, framer, action, path, vector>>

PlayMerge(in) ==
    /\ unit = "merge"
    /\ Control!MergePlay(in)
    /\ UNCHANGED <<host, source, framer, action, path, vector>>

PlaySource(in) ==
    /\ unit = "source"
    /\ Control!SourcePlay(in)
    /\ UNCHANGED <<host, merge, framer, action, path, vector>>

PlayFramer(in) ==
    /\ unit = "framer"
    /\ Control!FramerPlay(in)
    /\ UNCHANGED <<host, merge, source, action, path, vector>>

PlayAction(in) ==
    /\ unit = "action"
    /\ Control!ActionPlay(in)
    /\ UNCHANGED <<host, merge, source, framer, path, vector>>

PlayPath(in) ==
    /\ \/ unit = "queue" /\ Path!QueuePlay(in)
       \/ unit = "front" /\ Path!FrontPlay(in, groupOwner)
       \/ unit = "tracker" /\ Path!TrackerPlay(in)
       \/ unit = "collector" /\ Path!CollectorPlay(in)
       \/ unit = "exec" /\ Path!ExecPlay(in)
       \/ unit = "smallQueue" /\ Small!QueuePlay(in)
       \/ unit = "smallExec" /\ Small!ExecPlay(in)
    /\ UNCHANGED <<host, merge, source, framer, action, vector>>

PlayVector(in) ==
    /\ unit = "handshakes"
    /\ Mover!EnginePlay(in)
    /\ UNCHANGED <<host, merge, source, framer, action, path>>

Plays(in) ==
    \/ PlayHost(in) \/ PlayMerge(in) \/ PlaySource(in) \/ PlayFramer(in) \/ PlayAction(in)
    \/ PlayPath(in) \/ PlayVector(in)

PlayLine(l, met) ==
    /\ line' = line + 1 /\ UNCHANGED <<unit, bench>>
    /\ IF met THEN script' = Tail(script) /\ dut' = 0 ELSE dut' = dut + 1 /\ UNCHANGED script
    /\ IF met /\ Awaits(l) THEN UNCHANGED <<host, merge, source, framer, action, path, vector>>
       ELSE Plays(l.in)

NextCycle ==
    /\ ~Ended /\ unit # "function" /\ ~Commanded
    /\ PlayLine(Head(script), Awaits(Head(script)) => Seen(Shown(Head(script).in), Head(script).see))

NextTransfer ==
    /\ ~Ended
    /\ \/ /\ unit = "commands" /\ Mover!RunCommand(Head(script).in, dut)
          /\ dut' = IF state = "DONE" THEN Mover!NoLog ELSE Mover!Logged(dut)
       \/ /\ unit = "wideCommands" /\ WideMover!RunCommand(Head(script).in, dut)
          /\ dut' = IF state = "DONE" THEN Mover!NoLog ELSE WideMover!Logged(dut)
    /\ IF state = "DONE" THEN line' = line + 1 /\ script' = Tail(script)
       ELSE UNCHANGED <<line, script>>
    /\ UNCHANGED <<unit, bench, host, merge, source, framer, action, path>>

NextRandom ==
    /\ unit = "random"
    /\ line < Randoms[bench]
    /\ line' = line + 1
    /\ dut' = Path!Gold(bench, line, Stimulus, dut)
    /\ Path!RandomPlay(bench, line, Stimulus, dut')
    /\ UNCHANGED <<unit, bench, script, host, merge, source, framer, action, vector>>

Finished ==
    /\ CASE unit = "reference" -> line + 1 = UnitBenches[bench]
         [] unit = "kernel" -> KernelEnds(Kernel(bench), dut)
         [] unit = "random" -> line = Randoms[bench]
         [] OTHER -> Ended
    /\ UNCHANGED vars

Next == NextUnit \/ NextClock \/ NextLine \/ NextCycle \/ NextTransfer \/ NextRandom \/ Finished

Spec == Init /\ [][Next]_vars

(* A unit of the group computes what the golden model of its bench computes, *)
(* whatever the operands, masks, element widths and controls: no carry,      *)
(* shifted-in bit, sign or comparison crosses an element's boundary, rounding *)
(* and saturation are those of exact integers, and every legality predicate  *)
(* is the bench's table.  And a filter run as micro-operations, block after  *)
(* block on files nobody clears in between, yields the pixels of its golden  *)
(* model at every edge and tail of the image.                                *)
ComputesItsReference ==
    /\ unit = "reference" => UnitAgrees(bench, line)
    /\ unit = "kernel" => KernelAgrees(Kernel(bench), Picture(bench), dut)

(* Driven with the inputs of a directed bench, a model shows at every clock   *)
(* what the bench demands of the unit's outputs: what was written under a    *)
(* mask, which illegal operation wrote nothing, whose result is still held.  *)
(* And under the stimuli of a random section it shows what the bench's own   *)
(* transaction model allows.                                                 *)
BenchesAgree ==
    /\ ~Ended => Complies(Head(script))
    /\ unit = "random" =>
          /\ Path!RandomAgrees(bench, line, Stimulus, dut)
          /\ line = Randoms[bench] => Path!Covered(bench, dut)
=============================================================================
