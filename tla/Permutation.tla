---------------------------- MODULE Permutation ----------------------------
(***************************************************************************)
(* The networks that move lanes without computing on them: the compactor   *)
(* (simd_compact.sv), the crossbar and the group's route unit over it      *)
(* (simd_crossbar.sv, simd_route.sv), the Benes network                    *)
(* (benes_network.sv), the wide lane gather (vsp_lane_gather.sv), and the  *)
(* word-first gather with the engine that runs its four passes             *)
(* (vsp_word_first_gather_phase.sv, vsp_four_pass_gather_engine.sv).       *)
(* A register is a function from its lanes 0 .. n-1; its values are opaque *)
(* but for 0, which an output nobody drives shows.                         *)
(***************************************************************************)
EXTENDS Integers, Sequences, FiniteSets

Lanes(n) == 0 .. n - 1
Zeros(n) == [i \in Lanes(n) |-> 0]
Rank(mask, i) == Cardinality({j \in mask : j < i})

(* The n-th active lane and lane n trade places: into the low lanes to      *)
(* compress, out of them to expand.                                         *)
Compact(expand, data, mask, n) ==
    LET packed == {Rank(mask, i) : i \in mask}
        Source(d) == IF expand THEN Rank(mask, d)
                     ELSE CHOOSE i \in mask : Rank(mask, i) = d
        filled == IF expand THEN mask ELSE packed
    IN  [data  |-> [d \in Lanes(n) |-> IF d \in filled THEN data[Source(d)] ELSE 0],
         valid |-> filled,
         count |-> Cardinality(mask)]

(* Every output has a source index of its own; one that names no port drives *)
(* nothing and makes the whole selection illegal.                            *)
Crossbar(data, select, n) ==
    [data    |-> [d \in Lanes(n) |-> IF select[d] \in Lanes(n) THEN data[select[d]] ELSE 0],
     illegal |-> \E d \in Lanes(n) : select[d] \notin Lanes(n)]

(* The route unit turns its operation into a crossbar selection, and fills a *)
(* slide's missing lanes from the adjacent group.                            *)
Route(op, in, n) ==
    LET slide    == op \in {"SLIDE_UP", "SLIDE_DOWN"}
        outside  == IF op = "SLIDE_UP" THEN {d \in Lanes(n) : d < in.amount}
                    ELSE {d \in Lanes(n) : d + in.amount >= n}
        illegal  == op \notin {"GATHER", "BROADCAST", "SLIDE_UP", "SLIDE_DOWN"}
                    \/ (slide /\ in.amount > n)
        boundary == IF slide /\ ~illegal THEN outside ELSE {}
        Select(d) == IF op = "GATHER" THEN in.index[d]
                     ELSE IF op = "BROADCAST" THEN in.lane
                     ELSE IF d \in outside \/ ~slide THEN 0
                     ELSE IF op = "SLIDE_UP" THEN d - in.amount ELSE d + in.amount
        Adjacent(d) == IF op = "SLIDE_UP" THEN in.lower[n - in.amount + d]
                       ELSE in.upper[d + in.amount - n]
        routed == Crossbar(in.data, [d \in Lanes(n) |-> Select(d)], n)
    IN  [data |-> [d \in Lanes(n) |->
                      IF illegal THEN 0
                      ELSE IF d \in boundary THEN Adjacent(d) ELSE routed.data[d]],
         boundary |-> boundary,
         illegal  |-> illegal \/ (~illegal /\ routed.illegal)]

-----------------------------------------------------------------------------
(* A Benes network of 2^k ports: 2k-1 stages of switches on neighbouring     *)
(* ports, joined by perfect shuffles and, from the middle on, their inverse. *)
Shuffled(link, k)   == ((link * 2) % 2^k) + (link \div 2^(k - 1))
Unshuffled(link, k) == (link \div 2) + (link % 2) * 2^(k - 1)

Benes(k, ctrl, data) ==
    LET ports == Lanes(2^k)
        half  == 2^(k - 1)
        last  == 2 * k - 2
        Neighbour(p) == IF p % 2 = 0 THEN p + 1 ELSE p - 1
        Switched(stage, wires) ==
            [p \in ports |-> IF ctrl[stage * half + (p \div 2)] THEN wires[Neighbour(p)]
                             ELSE wires[p]]
        Next(stage, link) == IF stage < k - 1 THEN Shuffled(link, k) ELSE Unshuffled(link, k)
        Joined(stage, wires) ==
            [p \in ports |-> wires[CHOOSE link \in ports : Next(stage, link) = p]]
        Out[stage \in 0 .. last] ==
            Switched(stage, IF stage = 0 THEN data ELSE Joined(stage - 1, Out[stage - 1]))
    IN  Out[last]

-----------------------------------------------------------------------------
(* The wide gather: a mode names the selection, and a rotate reports the     *)
(* lanes whose source came round the end of the vector.                      *)
GatherModes == <<"IDENTITY", "GATHER", "BROADCAST", "ROTATE_UP", "ROTATE_DOWN",
                 "REVERSE", "TRANSPOSE", "DEINTERLEAVE", "INTERLEAVE">>

LaneGather(mode, in, n) ==
    LET tile   == CHOOSE s \in 0 .. n : s * s <= n /\ (s + 1) * (s + 1) > n
        half   == n \div 2
        amount == in.amount
        illegal == \/ mode \notin {GatherModes[i] : i \in DOMAIN GatherModes}
                   \/ mode \in {"BROADCAST", "ROTATE_UP", "ROTATE_DOWN"} /\ amount >= n
                   \/ mode = "TRANSPOSE" /\ tile * tile # n
                   \/ mode \in {"DEINTERLEAVE", "INTERLEAVE"} /\ half * 2 # n
        Select(d) ==
            CASE illegal -> 0
              [] mode = "IDENTITY"  -> d
              [] mode = "GATHER"    -> in.index[d]
              [] mode = "BROADCAST" -> amount
              [] mode = "ROTATE_UP" -> IF d >= amount THEN d - amount ELSE n + d - amount
              [] mode = "ROTATE_DOWN" -> IF d + amount < n THEN d + amount ELSE d + amount - n
              [] mode = "REVERSE"   -> n - 1 - d
              [] mode = "TRANSPOSE" -> (d % tile) * tile + (d \div tile)
              [] mode = "DEINTERLEAVE" -> IF d < half THEN 2 * d ELSE 2 * (d - half) + 1
              [] mode = "INTERLEAVE" -> IF d % 2 = 0 THEN d \div 2 ELSE half + (d \div 2)
        routed == Crossbar(in.data, [d \in Lanes(n) |-> Select(d)], n)
    IN  [data |-> IF illegal THEN Zeros(n) ELSE routed.data,
         wrap |-> CASE illegal -> {}
                    [] mode = "ROTATE_UP"   -> {d \in Lanes(n) : d < amount}
                    [] mode = "ROTATE_DOWN" -> {d \in Lanes(n) : d + amount >= n}
                    [] OTHER -> {},
         illegal |-> illegal \/ routed.illegal]

-----------------------------------------------------------------------------
(* One pass of the word-first gather over four groups of four lanes: every   *)
(* group's lane `phase` takes a word by the high bits of its index and a     *)
(* byte of it by the low ones; an index of no lane writes nothing.           *)
Groups == 4
GroupLanes == 4
GatherLanes == Groups * GroupLanes

Pass(source, index, active, phase) ==
    LET Lane(g)  == g * GroupLanes + phase
        valid    == {g \in 0 .. Groups - 1 : index[Lane(g)] < GatherLanes}
        Word(g)  == IF g \in valid THEN index[Lane(g)] \div GroupLanes ELSE 0
        words    == [g \in 0 .. Groups - 1 |-> [l \in 0 .. GroupLanes - 1 |-> source[g * GroupLanes + l]]]
        selected == Crossbar(words, [g \in 0 .. Groups - 1 |-> Word(g)], Groups).data
        on       == {g \in 0 .. Groups - 1 : Lane(g) \in active}
    IN  [byte |-> [g \in 0 .. Groups - 1 |->
                      IF g \in valid THEN selected[g][index[Lane(g)] % GroupLanes] ELSE 0],
         write |-> on \cap valid,
         oob   |-> on \ valid]

(* The engine: it captures a command, runs the four passes on the captured   *)
(* operands and holds the result until it is taken.                          *)
EngineReset == [busy |-> FALSE, phase |-> 0, valid |-> FALSE, owner |-> <<0, 0>>,
                source |-> Zeros(GatherLanes), index |-> Zeros(GatherLanes), active |-> {},
                data |-> Zeros(GatherLanes), write |-> {}, oob |-> {}]

EngineReadyEager(e, ready) == ~e.busy      \* mutant: overwrites a waiting result
EngineReady(e, ready) == ~e.busy /\ (~e.valid \/ ready)

Engine(e, in) ==
    LET pass    == Pass(e.source, e.index, e.active, e.phase)
        Lane(g) == g * GroupLanes + e.phase
        last    == e.phase = GroupLanes - 1
        kept    == e.valid /\ ~in.ready
    IN  IF in.reset THEN EngineReset
        ELSE IF in.valid /\ EngineReady(e, in.ready)
        THEN [EngineReset EXCEPT !.busy = TRUE, !.owner = in.owner, !.source = in.source,
                                 !.index = in.index, !.active = in.active]
        ELSE IF e.busy
        THEN [e EXCEPT !.data = [l \in Lanes(GatherLanes) |->
                            IF l % GroupLanes = e.phase /\ l \div GroupLanes \in pass.write
                            THEN pass.byte[l \div GroupLanes] ELSE e.data[l]],
                       !.write = e.write \cup {Lane(g) : g \in pass.write},
                       !.oob   = e.oob \cup {Lane(g) : g \in pass.oob},
                       !.phase = IF last THEN 0 ELSE e.phase + 1,
                       !.busy  = ~last,
                       !.valid = last \/ kept]
        ELSE [e EXCEPT !.valid = kept]

=============================================================================
