--------------------------- MODULE VectorBenches ---------------------------
(***************************************************************************)
(* The benches of the vector memory engine: vsp_vector_memory_engine_tb,   *)
(* with four groups, and its variant with sixteen.                         *)
(*                                                                         *)
(* A command of a bench is given to the engine and served to its end by    *)
(* the bench's memory and register file, which fail where the options of   *)
(* the command say.  What the two saw, in order, and the completion are    *)
(* compared with what the bench demands.  A byte is known by where it came *)
(* from, so a transfer seen by an endpoint tells its address, its row and  *)
(* its lanes.  The sections that drive single handshakes are scripts of    *)
(* lines: the handshakes offered on a clock and the outputs before it.     *)
(***************************************************************************)
EXTENDS VectorMemory, Sequences, TLC

Line(in, see) == [in |-> in, see |-> see]

\* Fixed noise: the k-th choice of test n among m.
Dice(n, k, m) ==
  LET h == (n * 7919 + k * 15401 + 12345) % 46337
  IN  (((h * h) % 46337) \div 7) % m

----------------------------------------------------------------------------
(* Commands *)

Linear(op, place, groups, row, span) ==
  [op |-> op, mode |-> "UNIT_STRIDE", base |-> place[1], offset |-> place[2],
   groups |-> groups, row |-> row, index |-> 0, span |-> span,
   held |-> Unread]

Listed(op, place, groups, row, index, held) ==
  [op |-> op, mode |-> "INDEX_U8", base |-> place[1], offset |-> place[2],
   groups |-> groups, row |-> row, index |-> index, span |-> 0,
   held |-> [g \in Groups |-> [l \in Lanes |->
               IF g \in DOMAIN held THEN held[g][l + 1] ELSE 0]]]

Window(c) == c.base + c.offset
InOrder(c) ==
  [i \in 1 .. Cardinality(c.groups) |->
     CHOOSE g \in c.groups : Cardinality({h \in c.groups : h < g}) = i - 1]

\* Which access fails and how, and in what order the two halves of the
\* answer to a row read arrive.
Plain ==
  [order |-> "COMPLETION", cause |-> "BUS", faultGroup |-> -1,
   faultRequest |-> -1, errorGroup |-> -1, responseError |-> -1,
   foreignGroup |-> -1]

Orders == <<"RESPONSE", "COMPLETION", "TOGETHER">>

----------------------------------------------------------------------------
(* The endpoints of the benches, and what they see *)

NoLog == [requests |-> <<>>, reads |-> <<>>, writes |-> <<>>]

AnswersAs(o, log) ==
  /\ dmemAnswer'.valid => dmemAnswer'.cause =
       IF o.faultGroup = group \/ o.faultRequest = Len(log.requests)
       THEN o.cause ELSE "NONE"
  /\ writeAnswer'.valid =>
       /\ writeAnswer'.done = (group # o.errorGroup)
       /\ writeAnswer'.verdict = IF group = o.errorGroup THEN "ERROR"
                                 ELSE IF group = o.foreignGroup THEN "FOREIGN"
                                 ELSE "OK"
  /\ readCpl'.valid =>
       readCpl'.verdict = IF group = o.errorGroup THEN "ERROR" ELSE "OK"
  /\ readRsp'.valid =>
       readRsp'.verdict = IF group = o.responseError THEN "ERROR" ELSE "OK"

Halves(order) ==
  IF readCpl.valid /\ readRsp.valid
  THEN CASE order = "RESPONSE"   -> ReadAnswers(FALSE, TRUE, FALSE)
         [] order = "COMPLETION" -> ReadAnswers(TRUE, FALSE, FALSE)
         [] order = "TOGETHER"   -> ReadAnswers(TRUE, TRUE, FALSE)
  ELSE ReadAnswers(readCpl.valid, readRsp.valid, FALSE)

Served(o, log) ==
  /\ \/ LinearLoadRequest \/ LinearLoadResponse
     \/ WriteRequest \/ WriteCompletion(FALSE)
     \/ ReadRequest \/ Halves(o.order)
     \/ LinearStoreRequest \/ LinearStoreResponse
     \/ IndexedRequest \/ IndexedResponse
  /\ AnswersAs(o, log)

\* A read beat, or the bytes a beat has changed.
SeenByMemory ==
  IF cmd.op = "LOAD" THEN dmemAnswer'.row
  ELSE {<<a, mem'[a]>> : a \in {x \in Addrs : mem'[x] # mem[x]}}

SeenByFile ==
  LET Changed == {p \in Groups \X (0 .. Rows - 1) :
                    vrf'[p[1]][p[2]] # vrf[p[1]][p[2]]}
  IN  {<<p[1], p[2], l, vrf'[p[1]][p[2]][l]>> :
         <<p, l>> \in {q \in Changed \X Lanes :
                         vrf'[q[1][1]][q[1][2]][q[2]]
                           # vrf[q[1][1]][q[1][2]][q[2]]}}

Logged(log) ==
  [requests |-> IF dmemAnswer'.valid /\ ~dmemAnswer.valid
                THEN Append(log.requests, SeenByMemory) ELSE log.requests,
   reads    |-> IF readRsp'.valid /\ ~readRsp.valid
                THEN Append(log.reads, readRsp'.row) ELSE log.reads,
   writes   |-> IF writeAnswer'.valid /\ ~writeAnswer.valid
                THEN Append(log.writes, SeenByFile) ELSE log.writes]

RunCommand(in, log) ==
  IF state = "IDLE" THEN AcceptCommand(in.command)
  ELSE IF state = "DONE" THEN DeliverCompletion
  ELSE Served(in.options, log)

Reported(log) ==
  Outcome @@ log @@
  [requestCount |-> Len(log.requests), readCount |-> Len(log.reads),
   writeCount |-> Len(log.writes), protocol |-> fault, memory |-> mem,
   partial |-> result.status # "OK" /\ committed # 0]

----------------------------------------------------------------------------
(* What the benches demand *)

MemoryByte(a) == [name |-> <<a>>, number |-> 0]
Beat(a) == [l \in Lanes |-> MemoryByte(a + l)]
FileByte(c, g, r, l) ==
  [name |-> <<g, r, l>>, number |-> IF r = c.index THEN c.held[g][l] ELSE 0]
FileRow(c, g, r) == [l \in Lanes |-> FileByte(c, g, r, l)]

LowBytes(n) == 0 .. n - 1

Success(c) ==
  [status |-> "OK", cause |-> "NONE", eaddr |-> 0, completed |-> c.groups,
   failed |-> {}, partial |-> FALSE,
   committed |-> IF Indexed(c) THEN Cardinality(c.groups) * RowBytes
                 ELSE c.span]

\* Span bytes, packed in memory, spread over the groups in ascending order.
Mapping(c) ==
  LET groups == InOrder(c)
      last == IF c.span % RowBytes = 0 THEN RowBytes ELSE c.span % RowBytes
      Mask(i) == IF i = Len(groups) THEN LowBytes(last) ELSE Lanes
      Place(i) == Window(c) + (i - 1) * RowBytes
  IN  IF c.op = "LOAD"
      THEN [requests |-> [i \in DOMAIN groups |-> Beat(Place(i))],
            reads |-> <<>>,
            writes |-> [i \in DOMAIN groups |->
              {<<groups[i], c.row, l, MemoryByte(Place(i) + l)>> :
                 l \in Mask(i)}]]
      ELSE [requests |-> [i \in DOMAIN groups |->
              {<<Place(i) + l, FileByte(c, groups[i], c.row, l)>> :
                 l \in Mask(i)}],
            reads |-> [i \in DOMAIN groups |-> FileRow(c, groups[i], c.row)],
            writes |-> <<>>]

Target(c, g, l) == Window(c) + c.held[g][l]

\* A beat for every lane of every group, extracted into a full row.
Gathered(c) ==
  LET groups == InOrder(c)
      Of(i) == groups[(i - 1) \div RowBytes + 1]
      At(i) == Target(c, Of(i), (i - 1) % RowBytes)
  IN  [requests |-> [i \in 1 .. Len(groups) * RowBytes |->
                       Beat(At(i) - (At(i) % RowBytes))],
       reads |-> [i \in DOMAIN groups |-> FileRow(c, groups[i], c.index)],
       writes |-> [i \in DOMAIN groups |->
         {<<groups[i], c.row, l, MemoryByte(Target(c, groups[i], l))>> :
            l \in Lanes}]]

\* The index row, then the data row of a group; a one-byte write for every
\* lane of every group.
Scattered(c) ==
  LET groups == InOrder(c)
      Of(i) == groups[(i - 1) \div RowBytes + 1]
      Lane(i) == (i - 1) % RowBytes
  IN  [requests |-> [i \in 1 .. Len(groups) * RowBytes |->
         {<<Target(c, Of(i), Lane(i)), FileByte(c, Of(i), c.row, Lane(i))>>}],
       reads |-> [i \in 1 .. 2 * Len(groups) |->
         FileRow(c, groups[(i + 1) \div 2],
                 IF i % 2 = 1 THEN c.index ELSE c.row)],
       writes |-> <<>>]

\* The highest lane of the highest group that names an address wins it.
LastWriter(c) ==
  [a \in Addrs |->
     LET Hits == {g * RowBytes + l : <<g, l>> \in
                    {p \in c.groups \X Lanes : Target(c, p[1], p[2]) = a}}
     IN  IF Hits = {} THEN MemoryByte(a)
         ELSE FileByte(c, Max(Hits) \div RowBytes, c.row,
                       Max(Hits) % RowBytes)]

Failure(status, cause, eaddr, whole, failed, bytes) ==
  [status |-> status, cause |-> cause, eaddr |-> eaddr,
   completed |-> whole, failed |-> failed, committed |-> bytes]

Run(c, o, see) == [in |-> [command |-> c, options |-> o], see |-> see]
Maps(c, o) == Run(c, o, Success(c) @@ Mapping(c))
Gathers(c, o) == Run(c, o, Success(c) @@ Gathered(c))
Scatters(c, o) == Run(c, o, Success(c) @@ Scattered(c))

----------------------------------------------------------------------------
(* Four groups.  Addresses are those of the bench modulo the window of 512. *)

SparseLoads ==
  <<Maps(Linear("LOAD", <<0, 32>>, {1, 3}, 3, 6), Plain),
    Maps(Linear("LOAD", <<64, -32>>, {0, 2}, 4, 8), Plain)>>

StoreOrders ==
  [i \in 1 .. 3 |->
     Maps(Linear("STORE", <<i * 64, 0>>,
                 IF i = 2 THEN {0, 3} ELSE {1, 2}, 7, 6),
          [Plain EXCEPT !.order = Orders[i]])]

IndexedGather ==
  Gathers(Listed("LOAD", <<1, 2>>, {0, 2}, 9, 6,
                 (0 :> <<0, 1, 4, 1>>) @@ (2 :> <<2, 8, 255, 5>>)), Plain)

ScatterRows == (0 :> <<5, 1, 5, 7>>) @@ (1 :> <<0, 3, 1, 5>>)
ScatterCommand == Listed("STORE", <<2, 1>>, {0, 1}, 10, 7, ScatterRows)
IndexedScatter ==
  LET run == Scatters(ScatterCommand, [Plain EXCEPT !.order = "RESPONSE"])
  IN  [run EXCEPT !.see = @ @@ [memory |-> LastWriter(ScatterCommand)]]

\* The third byte of a scatter faults: two are stored, its address is told.
IndexedFault ==
  Run(Listed("STORE", <<1, 0>>, {0}, 10, 7, 0 :> <<2, 7, 9, 13>>),
      [Plain EXCEPT !.faultRequest = 2, !.cause = "PERMISSION"],
      Failure("MEMORY_FAULT", "PERMISSION", 10, {}, {0}, 2) @@
      [partial |-> TRUE, requestCount |-> 3])

\* The base can be addressed, the base and the first index cannot.
IndexedOverflow ==
  Run(Listed("LOAD", <<AddrLimit - 1, 0>>, {0}, 9, 6, 0 :> <<1, 0, 0, 0>>),
      Plain, [status |-> "BAD_EADDR", completed |-> {}, committed |-> 0,
              requestCount |-> 0, writeCount |-> 0, readCount |-> 1])

Rejected(c, status) ==
  Run(c, Plain, Failure(status, "NONE", 0, {}, {}, 0) @@
                [requestCount |-> 0, readCount |-> 0, writeCount |-> 0])

Rejects ==
  <<Rejected(Linear("LOAD", <<0, 0>>, {}, 0, 4), "BAD_REQUEST"),
    Rejected(Linear("LOAD", <<0, 0>>, {0, 1}, 0, 4), "BAD_REQUEST"),
    Rejected(Linear("LOAD", <<0, 2>>, {0}, 0, 4), "BAD_EADDR"),
    Rejected(Linear("STORE", <<4, -8>>, {0}, 0, 4), "BAD_EADDR"),
    Rejected([Linear("LOAD", <<0, 0>>, {0}, 0, 4) EXCEPT !.mode = "UNDEFINED"],
             "BAD_REQUEST")>>

FailingLoad == Linear("LOAD", <<0, 0>>, {0, 1, 3}, 2, 12)
FailingLoads ==
  <<Run(FailingLoad, [Plain EXCEPT !.faultGroup = 1, !.cause = "TRANSLATION"],
        Failure("MEMORY_FAULT", "TRANSLATION", 4, {0}, {1}, 4) @@
        [partial |-> TRUE]),
    Run(FailingLoad, [Plain EXCEPT !.errorGroup = 1],
        Failure("VRF_ERROR", "NONE", 0, {0}, {1}, 4))>>

FailingStore == Linear("STORE", <<0, 0>>, {1, 2, 3}, 5, 12)
FailingStores ==
  <<Run(FailingStore, [Plain EXCEPT !.faultGroup = 2, !.cause = "PERMISSION"],
        Failure("MEMORY_FAULT", "PERMISSION", 4, {1}, {2}, 4)),
    Run(FailingStore, [Plain EXCEPT !.errorGroup = 2, !.order = "TOGETHER"],
        Failure("VRF_ERROR", "NONE", 0, {1}, {2}, 4))>>

ResponseError ==
  Run(FailingStore, [Plain EXCEPT !.responseError = 2, !.order = "RESPONSE"],
      Failure("VRF_ERROR", "NONE", 0, {1}, {2}, 4) @@
      [requestCount |-> 1, protocol |-> FALSE])

Causes == <<"TRANSLATION", "PERMISSION", "ACCESS", "BUS", "DATA_INTEGRITY">>
FaultCauses ==
  [i \in DOMAIN Causes |->
     Run(Linear("LOAD", <<i * 64, 0>>, {0}, i - 1, 4),
         [Plain EXCEPT !.faultGroup = 0, !.cause = Causes[i]],
         Failure("MEMORY_FAULT", Causes[i], i * 64, {}, {0}, 0) @@
         [partial |-> FALSE])]

\* Legal spans: some of the groups, and as many bytes as need all of them.
RandomCommand(n) ==
  LET Chosen == {g \in Groups : Dice(n, g, 2) = 0}
      groups == IF Chosen = {} THEN {Dice(n, 20, GroupCount)} ELSE Chosen
      least == (Cardinality(groups) - 1) * RowBytes + 1
  IN  Linear(<<"LOAD", "STORE">>[Dice(n, 21, 2) + 1],
             <<(n % 7) * 64, 4 * Dice(n, 22, 2)>>, groups, Dice(n, 23, Rows),
             least + Dice(n, 24, RowBytes))

RandomSpans ==
  [n \in 1 .. 120 |->
     Maps(RandomCommand(n),
          [Plain EXCEPT !.order = Orders[Dice(n, 25, 3) + 1]])]

EngineScripts ==
  [spans |-> SparseLoads \o StoreOrders,
   indexed |-> <<IndexedGather, IndexedScatter, IndexedFault,
                 IndexedOverflow>>,
   rejects |-> Rejects,
   failures |-> FailingLoads \o FailingStores \o <<ResponseError>>,
   causes |-> FaultCauses,
   randomSpans |-> RandomSpans]

----------------------------------------------------------------------------
(* One handshake at a time *)

\* The handshake the engine waits for.
Port ==
  CASE state = "IDLE" -> "COMMAND"
    [] state = "DONE" -> "COMPLETION"
    [] state = "LINEAR_LOAD_DMEM_REQ" -> "REQUEST"
    [] state = "LINEAR_LOAD_DMEM_RSP" -> "ANSWER"
    [] state = "VRF_WRITE_REQ" -> "WRITE"
    [] state = "VRF_WRITE_CPL" -> "WRITTEN"
    [] OTHER -> "OTHER"

FirstLoad == Linear("LOAD", <<128, 0>>, {0}, 2, 4)
SecondLoad == Linear("LOAD", <<192, 0>>, {1}, 3, 4)
Mismatched == Linear("LOAD", <<0, 0>>, {0}, 0, 4)

Quiet == [command |-> SecondLoad, ports |-> {}, clear |-> FALSE,
          options |-> Plain]
On(ports) == [Quiet EXCEPT !.ports = ports]
Times(n, l) == [i \in 1 .. n |-> l]

EngineView ==
  [ready |-> Port = "COMMAND", request |-> Port = "REQUEST",
   answer |-> Port = "ANSWER", write |-> Port = "WRITE",
   written |-> Port = "WRITTEN", done |-> Port = "COMPLETION",
   status |-> result.status, eaddr |-> addr, command |-> cmd,
   busy |-> state # "IDLE", protocol |-> fault]

EnginePlay(in) ==
  IF Port \in in.ports
  THEN IF Port = "COMMAND" THEN AcceptCommand(in.command)
       ELSE IF Port = "COMPLETION" THEN DeliverCompletion
       ELSE Served(in.options, NoLog)
  ELSE IF in.clear /\ fault THEN ClearFault
  ELSE UNCHANGED memoryVars

\* A second command is offered throughout the first, and is not taken.
SingleFlight ==
  LET Only(out) == [o \in {"ready", "request"} |-> o = out]
      first == [Quiet EXCEPT !.command = FirstLoad, !.ports = {"COMMAND"}]
      Offered(ports, out) == Line(On({"COMMAND"} \cup ports),
                                  Only(out) @@ [command |-> FirstLoad])
      held == [request |-> TRUE, ready |-> FALSE, eaddr |-> 128]
  IN  <<Line(first, [ready |-> TRUE])>>
      \o Times(3, Line(On({"COMMAND"}), held))
      \o <<Offered({"REQUEST"}, "request")>>
      \o Times(2, Offered({"REQUEST"}, "none"))
      \o <<Line(On({"COMMAND", "ANSWER"}), [answer |-> TRUE, ready |-> FALSE]),
           Line(On({"COMMAND", "WRITE"}), [write |-> TRUE, command |-> FirstLoad]),
           Line(On({"COMMAND", "WRITTEN"}), [written |-> TRUE])>>
      \o Times(3, Line(On({"COMMAND"}), Only("none") @@
                      [done |-> TRUE, command |-> FirstLoad]))
      \o <<Line(On({"COMMAND", "COMPLETION"}), [done |-> TRUE, ready |-> FALSE]),
           Line(Quiet, [ready |-> TRUE, busy |-> FALSE])>>

\* The completion of a write carries another identity.
Mismatch ==
  LET foreign == [Plain EXCEPT !.foreignGroup = 0]
      In(port) == [Quiet EXCEPT !.command = Mismatched, !.ports = {port},
                               !.options = foreign]
  IN  <<Line(In("COMMAND"), [ready |-> TRUE]),
        Line(In("REQUEST"), [request |-> TRUE]),
        Line(In("ANSWER"), [answer |-> TRUE]),
        Line(In("WRITE"), [write |-> TRUE]),
        Line(In("WRITTEN"), [written |-> TRUE]),
        Line(In("COMPLETION"), [protocol |-> TRUE, done |-> TRUE,
                                status |-> "VRF_ERROR"]),
        Line([Quiet EXCEPT !.clear = TRUE], [ready |-> TRUE]),
        Line(Quiet, [protocol |-> FALSE])>>

HandshakeScripts == [mismatch |-> Mismatch, singleFlight |-> SingleFlight]

----------------------------------------------------------------------------
(* Sixteen groups, with the addresses of the bench. *)

Ordinal(g, l) == g * RowBytes + l

FullLoad == Linear("LOAD", <<128, 0>>, Groups, 8, GroupCount * RowBytes)

FullGather ==
  Listed("LOAD", <<257, 0>>, Groups, 9, 6,
         [g \in Groups |-> [i \in 1 .. RowBytes |-> Ordinal(g, i - 1)]])

\* The first and the last lane name the same address.
AliasedRows ==
  [g \in Groups |-> [i \in 1 .. RowBytes |->
     IF Ordinal(g, i - 1) \in {0, GroupCount * RowBytes - 1} THEN 200
     ELSE Ordinal(g, i - 1)]]
FullScatter(address) ==
  Listed("STORE", <<address, 0>>, Groups, 10, 7, AliasedRows)

\* Every endpoint answers at once, also with both halves of a row; one
\* request may fail.
RunFull(c, failing, see) ==
  Run(c, [Plain EXCEPT !.order = "TOGETHER", !.cause = "PERMISSION",
                       !.faultRequest = failing], see)

FullSuccess ==
  Failure("OK", "NONE", 0, Groups, {}, 64) @@ [partial |-> FALSE]

AllLoaded == RunFull(FullLoad, -1, FullSuccess @@ Mapping(FullLoad))
AllGathered == RunFull(FullGather, -1, FullSuccess @@ Gathered(FullGather))
AllScattered ==
  RunFull(FullScatter(512), -1,
          FullSuccess @@ Scattered(FullScatter(512)) @@
          [memory |-> LastWriter(FullScatter(512))])

LateFault ==
  RunFull(FullScatter(1024), 62,
      Failure("MEMORY_FAULT", "PERMISSION", 1086, Groups \ {15}, {15}, 62) @@
      [partial |-> TRUE, requestCount |-> 63, protocol |-> FALSE])

WideEngineScripts ==
  [fullLoad |-> <<AllLoaded>>, fullGather |-> <<AllGathered>>,
   fullScatter |-> <<AllScattered, LateFault>>]
============================================================================
