---------------------------- MODULE VectorMemory ----------------------------
(***************************************************************************)
(* vsp_vector_memory_engine between its three endpoints: it lowers one     *)
(* LOAD, STORE, GATHER or SCATTER at a time to row transfers, with at most *)
(* one request of each kind outstanding.  An action is one clock edge on   *)
(* which a handshake of the engine fires; nothing changes on other edges.  *)
(* An endpoint decides when it takes a request what it will answer: the    *)
(* memory in order, the register file with a completion and, for a read,   *)
(* a response that may arrive in either order.                             *)
(*                                                                         *)
(* An operator marked (mutant) is a broken variant of the operator below   *)
(* it; no specification uses it.                                           *)
(***************************************************************************)
EXTENDS VectorCommands, Registers

VARIABLES
  state, kind,  \* state_q, read_kind_q
  cmd,          \* command_*_q, requested_group_mask_q
  base, addr,   \* window_base_eaddr_q, linear_eaddr_q
  group, lane,  \* current_group_q, current_lane_q
  remaining, completed, committed,  \* *_group_mask_q, bytes_committed_q
  loadRow, storeRow, indexRow, readRow,  \* *_data_q
  cplSeen, rspSeen, readBad,        \* read_*_q
  result,       \* completion_*_q
  fault,        \* protocol_error_q
  mem, vrf,     \* external: the bytes behind the endpoints
  dmemAnswer, writeAnswer, readCpl, readRsp  \* external: answers to come

progressVars == <<addr, group, remaining, completed, committed>>
dataVars == <<loadRow, storeRow, indexRow, readRow>>
readVars == <<cplSeen, rspSeen, readBad>>
answerVars == <<dmemAnswer, writeAnswer, readCpl, readRsp>>
memoryVars == <<state, kind, cmd, base, lane, result, fault, mem, vrf,
                progressVars, dataVars, readVars, answerVars>>

None == [valid |-> FALSE]

\* An answer may carry the identity of another request, or an error.
Verdict == {"OK", "ERROR", "FOREIGN"}
Sound(answer) == answer.verdict = "OK"

Result(status, cause, eaddr, failed) ==
  [status |-> status, cause |-> cause, eaddr |-> eaddr, failed |-> failed]

Ok == Result("OK", "NONE", 0, {})

----------------------------------------------------------------------------
(* Validation of a command: addresses have one bit more than MEM_EADDR_W *)
Extend(n) == n % (2 * AddrLimit)
TopBit(n) == n >= AddrLimit

AddrSum(c) == Extend(c.base + c.offset)
EffectiveAddr(c) == AddrSum(c) % AddrLimit

LastByteOffset(c) ==
  IF c.groups = {} THEN 0 ELSE Cardinality(c.groups) * RowBytes - 1

FieldsError(c) ==
  \/ c.mode = "UNDEFINED" \/ c.row >= Rows \/ c.groups = {}
  \/ IF Indexed(c) THEN c.index >= Rows \/ c.span # 0
     ELSE \/ c.span = 0 \/ c.span > GroupCount * RowBytes
          \/ (c.span + RowBytes - 1) \div RowBytes # Cardinality(c.groups)

(* (mutant) only the first byte of the span has to be addressable *)
AddrErrorFirst(c) ==
  \/ TopBit(AddrSum(c))
  \/ ~Indexed(c) /\ EffectiveAddr(c) % RowBytes # 0

AddrError(c) ==
  \/ TopBit(AddrSum(c))
  \/ ~Indexed(c) /\ (\/ EffectiveAddr(c) % RowBytes # 0
                     \/ TopBit(EffectiveAddr(c) + LastByteOffset(c)))

FinalBytes(c) ==
  IF Indexed(c) \/ c.span % RowBytes = 0 THEN Lanes
  ELSE 0..((c.span % RowBytes) - 1)

----------------------------------------------------------------------------
(* The current group, lane and indexed byte *)

After == remaining \ {group}
LastGroup == After = {}

(* (mutant) the lane counter is compared with the number of lanes *)
LastLaneLate == lane = RowBytes

LastLane == lane = RowBytes - 1
ByteMask == IF LastGroup THEN FinalBytes(cmd) ELSE Lanes

IndexedSum == base + indexRow[lane].number
IndexedError == TopBit(IndexedSum)
ByteAddr == IndexedSum % AddrLimit
BeatLane == ByteAddr % RowBytes
BeatAddr == ByteAddr - BeatLane

----------------------------------------------------------------------------
(* The endpoints *)

\* The memory reads or writes when it takes a request and keeps the answer;
\* a faulting access does nothing.
MemoryTakes(op, a, row, strobe) ==
  \E cause \in Faults \cup {"NONE"} :
    /\ dmemAnswer' =
         [valid |-> TRUE, cause |-> cause,
          row |-> IF op = "LOAD" /\ cause = "NONE"
                  THEN [l \in Lanes |-> mem[(a + l) % AddrLimit]] ELSE NoRow]
    /\ mem' = IF op = "STORE" /\ cause = "NONE"
              THEN [x \in Addrs |-> IF x - a \in strobe THEN row[x - a]
                                    ELSE mem[x]]
              ELSE mem

\* A refused write does nothing; of one that is answered wrongly it is not
\* known whether it was done.
FileTakesWrite(g, r, mask, row) ==
  \E verdict \in Verdict, done \in BOOLEAN :
    /\ verdict = "OK" => done
    /\ verdict = "ERROR" => ~done
    /\ writeAnswer' = [valid |-> TRUE, verdict |-> verdict, done |-> done]
    /\ vrf' = IF done
              THEN [vrf EXCEPT ![g][r] =
                      [l \in Lanes |-> IF l \in mask THEN row[l] ELSE @[l]]]
              ELSE vrf

FileTakesRead(g, r) ==
  \E first, second \in Verdict :
    /\ readCpl' = [valid |-> TRUE, verdict |-> first]
    /\ readRsp' = [valid |-> TRUE, verdict |-> second,
                   row |-> IF second = "OK" THEN vrf[g][r] ELSE NoRow]

----------------------------------------------------------------------------
(* Steps of the engine *)
Report(status, failed) ==
  /\ state' = "DONE"
  /\ result' = Result(status, "NONE", 0, failed)

ReportFault(cause, a) ==
  /\ state' = "DONE"
  /\ result' = Result("MEMORY_FAULT", cause, a, {group})

SetFault(set, clear) == fault' = Sticky(fault, set, clear)

VectorInit ==
  /\ state = "IDLE" /\ kind = "LINEAR_STORE"
  /\ cmd = [op |-> "LOAD", mode |-> "UNIT_STRIDE", base |-> 0, offset |-> 0,
            groups |-> {}, row |-> 0, index |-> 0, span |-> 0,
            held |-> Unread]
  /\ base = 0 /\ addr = 0 /\ group = 0 /\ lane = 0
  /\ remaining = {} /\ completed = {} /\ committed = 0
  /\ loadRow = NoRow /\ storeRow = NoRow /\ indexRow = NoRow
  /\ readRow = NoRow
  /\ cplSeen = FALSE /\ rspSeen = FALSE /\ readBad = FALSE
  /\ result = Ok /\ fault = FALSE
  /\ mem = FreshMemory /\ vrf = FreshRows(0, Unread)
  /\ dmemAnswer = None /\ writeAnswer = None
  /\ readCpl = None /\ readRsp = None

\* command_fire; what the bytes were before has been overwritten by others
AcceptCommand(c) ==
  /\ state = "IDLE"
  /\ cmd' = c /\ base' = EffectiveAddr(c) /\ addr' = EffectiveAddr(c)
  /\ group' = FirstGroup(c.groups) /\ lane' = 0
  /\ remaining' = c.groups /\ completed' = {} /\ committed' = 0
  /\ loadRow' = NoRow /\ storeRow' = NoRow /\ indexRow' = NoRow
  /\ readRow' = NoRow
  /\ cplSeen' = FALSE /\ rspSeen' = FALSE /\ readBad' = FALSE
  /\ mem' = FreshMemory /\ vrf' = FreshRows(c.index, c.held)
  /\ IF FieldsError(c)    THEN Report("BAD_REQUEST", {}) /\ UNCHANGED kind
     ELSE IF AddrError(c) THEN Report("BAD_EADDR", {}) /\ UNCHANGED kind
     ELSE /\ result' = Ok
          /\ IF Indexed(c)
             THEN kind' = "INDEX" /\ state' = "VRF_READ_REQ"
             ELSE IF c.op = "STORE"
             THEN kind' = "LINEAR_STORE" /\ state' = "VRF_READ_REQ"
             ELSE UNCHANGED kind /\ state' = "LINEAR_LOAD_DMEM_REQ"
  /\ UNCHANGED <<fault, answerVars>>

\* The current group is finished; the next one starts in state next.
FinishGroup(bytes, next) ==
  /\ remaining' = After /\ completed' = completed \cup {group}
  /\ committed' = committed + bytes
  /\ IF LastGroup
     THEN /\ Report("OK", {})
          /\ UNCHANGED <<group, addr, kind>>
     ELSE /\ group' = Min(After)
          /\ addr' = IF Indexed(cmd) THEN addr
                    ELSE (addr + RowBytes) % AddrLimit
          /\ kind' = IF Indexed(cmd) THEN "INDEX"
                     ELSE IF cmd.op = "STORE" THEN "LINEAR_STORE" ELSE kind
          /\ state' = next
          /\ UNCHANGED result

LinearLoadRequest ==
  /\ state = "LINEAR_LOAD_DMEM_REQ"
  /\ MemoryTakes("LOAD", addr, NoRow, {})
  /\ state' = "LINEAR_LOAD_DMEM_RSP"
  /\ UNCHANGED <<kind, cmd, base, lane, result, fault, vrf, progressVars,
                 dataVars, readVars, writeAnswer, readCpl, readRsp>>

LinearLoadResponse ==
  /\ state = "LINEAR_LOAD_DMEM_RSP" /\ dmemAnswer.valid
  /\ dmemAnswer' = None
  /\ IF dmemAnswer.cause # "NONE"
     THEN ReportFault(dmemAnswer.cause, addr) /\ UNCHANGED loadRow
     ELSE /\ loadRow' = dmemAnswer.row /\ state' = "VRF_WRITE_REQ"
          /\ UNCHANGED result
  /\ UNCHANGED <<kind, cmd, base, lane, fault, mem, vrf, progressVars,
                 storeRow, indexRow, readRow, readVars, writeAnswer,
                 readCpl, readRsp>>

WriteRequest ==
  /\ state = "VRF_WRITE_REQ"
  /\ FileTakesWrite(group, cmd.row, IF Indexed(cmd) THEN Lanes ELSE ByteMask,
                    loadRow)
  /\ state' = "VRF_WRITE_CPL"
  /\ UNCHANGED <<kind, cmd, base, lane, result, fault, mem, progressVars,
                 dataVars, readVars, dmemAnswer, readCpl, readRsp>>

WriteCompletion(clear) ==
  /\ state = "VRF_WRITE_CPL" /\ writeAnswer.valid
  /\ writeAnswer' = None
  /\ SetFault(writeAnswer.verdict = "FOREIGN", clear)
  /\ IF ~Sound(writeAnswer)
     THEN /\ Report("VRF_ERROR", {group})
          /\ UNCHANGED <<kind, lane, loadRow, progressVars>>
     ELSE /\ FinishGroup(Cardinality(ByteMask),
                         IF Indexed(cmd) THEN "VRF_READ_REQ"
                         ELSE "LINEAR_LOAD_DMEM_REQ")
          /\ loadRow' = IF LastGroup THEN loadRow ELSE NoRow
          /\ lane' = IF ~LastGroup /\ Indexed(cmd) THEN 0 ELSE lane
  /\ UNCHANGED <<cmd, base, mem, vrf, storeRow, indexRow, readRow, readVars,
                 dmemAnswer, readCpl, readRsp>>

ReadRequest ==
  /\ state = "VRF_READ_REQ"
  /\ FileTakesRead(group, IF kind = "INDEX" THEN cmd.index ELSE cmd.row)
  /\ state' = "VRF_READ_WAIT"
  /\ cplSeen' = FALSE /\ rspSeen' = FALSE /\ readBad' = FALSE
  /\ UNCHANGED <<kind, cmd, base, lane, result, fault, mem, vrf,
                 progressVars, dataVars, dmemAnswer, writeAnswer>>

(* (mutant) an error ends the command before the second half arrives *)
BothSeenOrBad(cpl, rsp, bad) ==
  bad \/ ((cplSeen \/ cpl) /\ (rspSeen \/ rsp))

(* (mutant) the half that arrived on an earlier edge is forgotten *)
BothSeenNow(cpl, rsp, bad) == cpl /\ rsp

BothSeen(cpl, rsp, bad) == (cplSeen \/ cpl) /\ (rspSeen \/ rsp)

\* What a row that has been read is for.
UseRow(row) ==
  /\ lane' = IF kind = "LINEAR_STORE" THEN lane ELSE 0
  /\ indexRow' = IF kind = "INDEX" THEN row ELSE indexRow
  /\ storeRow' = IF kind = "INDEX" THEN storeRow ELSE row
  /\ IF kind = "LINEAR_STORE"
     THEN state' = "LINEAR_STORE_DMEM_REQ" /\ UNCHANGED kind
     ELSE IF kind = "INDEX" /\ cmd.op = "STORE"
     THEN state' = "VRF_READ_REQ" /\ kind' = "SCATTER_DATA"
     ELSE state' = "INDEXED_DMEM_REQ" /\ UNCHANGED kind
  /\ UNCHANGED result

\* The completion, the response or both arrive.
ReadAnswers(cpl, rsp, clear) ==
  LET bad == \/ readBad
             \/ cpl /\ ~Sound(readCpl)
             \/ rsp /\ ~Sound(readRsp)
      row == IF rsp THEN readRsp.row ELSE readRow
      end == BothSeen(cpl, rsp, bad)
  IN  /\ state = "VRF_READ_WAIT" /\ (cpl \/ rsp)
      /\ cpl => readCpl.valid /\ ~cplSeen
      /\ rsp => readRsp.valid /\ ~rspSeen
      /\ readCpl' = IF cpl THEN None ELSE readCpl
      /\ readRsp' = IF rsp THEN None ELSE readRsp
      /\ readRow' = row
      /\ SetFault(\/ cpl /\ readCpl.verdict = "FOREIGN"
                  \/ rsp /\ readRsp.verdict = "FOREIGN", clear)
      /\ cplSeen' = Bit(~end /\ (cplSeen \/ cpl))
      /\ rspSeen' = Bit(~end /\ (rspSeen \/ rsp))
      /\ readBad' = Bit(~end /\ bad)
      /\ IF end /\ ~bad THEN UseRow(row)
         ELSE /\ IF end THEN Report("VRF_ERROR", {group})
                 ELSE UNCHANGED <<state, result>>
              /\ UNCHANGED <<kind, lane, indexRow, storeRow>>
      /\ UNCHANGED <<cmd, base, mem, vrf, progressVars, loadRow,
                     dmemAnswer, writeAnswer>>

LinearStoreRequest ==
  /\ state = "LINEAR_STORE_DMEM_REQ"
  /\ MemoryTakes("STORE", addr, storeRow, ByteMask)
  /\ state' = "LINEAR_STORE_DMEM_RSP"
  /\ UNCHANGED <<kind, cmd, base, lane, result, fault, vrf, progressVars,
                 dataVars, readVars, writeAnswer, readCpl, readRsp>>

LinearStoreResponse ==
  /\ state = "LINEAR_STORE_DMEM_RSP" /\ dmemAnswer.valid
  /\ dmemAnswer' = None
  /\ IF dmemAnswer.cause # "NONE"
     THEN /\ ReportFault(dmemAnswer.cause, addr)
          /\ UNCHANGED <<kind, progressVars>>
     ELSE FinishGroup(Cardinality(ByteMask), "VRF_READ_REQ")
  /\ UNCHANGED <<cmd, base, lane, fault, mem, vrf, dataVars, readVars,
                 writeAnswer, readCpl, readRsp>>

IndexedRequest ==
  /\ state = "INDEXED_DMEM_REQ"
  /\ IF IndexedError
     THEN /\ Report("BAD_EADDR", {group})
          /\ UNCHANGED <<mem, dmemAnswer>>
     ELSE /\ IF cmd.op = "STORE"
             THEN MemoryTakes("STORE", BeatAddr,
                              [NoRow EXCEPT ![BeatLane] = storeRow[lane]],
                              {BeatLane})
             ELSE MemoryTakes("LOAD", BeatAddr, NoRow, {})
          /\ state' = "INDEXED_DMEM_RSP"
          /\ UNCHANGED result
  /\ UNCHANGED <<kind, cmd, base, lane, fault, vrf, progressVars, dataVars,
                 readVars, writeAnswer, readCpl, readRsp>>

IndexedResponse ==
  /\ state = "INDEXED_DMEM_RSP" /\ dmemAnswer.valid
  /\ dmemAnswer' = None
  /\ IF dmemAnswer.cause # "NONE"
     THEN /\ ReportFault(dmemAnswer.cause, ByteAddr)
          /\ UNCHANGED <<kind, lane, loadRow, progressVars>>
     ELSE /\ loadRow' = IF cmd.op = "LOAD"
                        THEN [loadRow EXCEPT ![lane] =
                                dmemAnswer.row[BeatLane]]
                        ELSE loadRow
          /\ IF ~LastLane
             THEN /\ lane' = (lane + 1) % RowBytes /\ state' = "INDEXED_DMEM_REQ"
                  /\ committed' = IF cmd.op = "LOAD" THEN committed
                                  ELSE committed + 1
                  /\ UNCHANGED <<kind, result, addr, group, remaining,
                                 completed>>
             ELSE IF cmd.op = "LOAD"
             THEN /\ state' = "VRF_WRITE_REQ"
                  /\ UNCHANGED <<kind, lane, result, progressVars>>
             ELSE /\ FinishGroup(1, "VRF_READ_REQ")
                  /\ lane' = IF LastGroup THEN lane ELSE 0
  /\ UNCHANGED <<cmd, base, fault, mem, vrf, storeRow, indexRow, readRow,
                 readVars, writeAnswer, readCpl, readRsp>>

\* completion_fire
DeliverCompletion ==
  /\ state = "DONE"
  /\ state' = "IDLE"
  /\ mem' = FreshMemory /\ vrf' = FreshRows(0, Unread)
  /\ UNCHANGED <<kind, cmd, base, lane, result, fault, progressVars,
                 dataVars, readVars, answerVars>>

ClearFault ==
  /\ fault /\ SetFault(FALSE, TRUE)
  /\ UNCHANGED <<state, kind, cmd, base, lane, result, mem, vrf,
                 progressVars, dataVars, readVars, answerVars>>

VectorStep ==
  \/ LinearLoadRequest \/ LinearLoadResponse
  \/ WriteRequest \/ ReadRequest
  \/ LinearStoreRequest \/ LinearStoreResponse
  \/ IndexedRequest \/ IndexedResponse
  \/ \E clear \in BOOLEAN :
       \/ WriteCompletion(clear)
       \/ \E cpl, rsp \in BOOLEAN : ReadAnswers(cpl, rsp, clear)

VectorNext ==
  \/ \E c \in Commands : AcceptCommand(c)
  \/ VectorStep \/ DeliverCompletion \/ ClearFault

\* Endpoints take and answer every request.
VectorSpec ==
  /\ VectorInit /\ [][VectorNext]_memoryVars /\ WF_memoryVars(VectorStep)

----------------------------------------------------------------------------
(* Properties *)

\* Every register holds a value of its range.
VectorTypeOK ==
  /\ state \in {"IDLE", "LINEAR_LOAD_DMEM_REQ", "LINEAR_LOAD_DMEM_RSP",
                "VRF_WRITE_REQ", "VRF_WRITE_CPL", "VRF_READ_REQ",
                "VRF_READ_WAIT", "LINEAR_STORE_DMEM_REQ",
                "LINEAR_STORE_DMEM_RSP", "INDEXED_DMEM_REQ",
                "INDEXED_DMEM_RSP", "DONE"}
  /\ kind \in {"LINEAR_STORE", "INDEX", "SCATTER_DATA"}
  /\ base \in Addrs /\ addr \in Addrs /\ group \in Groups /\ lane \in Lanes
  /\ remaining \subseteq Groups /\ completed \subseteq Groups
  /\ committed \in 0..(GroupCount * RowBytes)
  /\ cplSeen \in BOOLEAN /\ rspSeen \in BOOLEAN /\ readBad \in BOOLEAN
  /\ fault \in BOOLEAN

\* Whatever fails, an answer is awaited exactly while the engine is in the
\* state that takes it: a command never ends with a request of its own
\* still out, whose answer would be taken for the next command's.
NothingLeftOut ==
  /\ dmemAnswer.valid <=> state \in {"LINEAR_LOAD_DMEM_RSP",
                           "LINEAR_STORE_DMEM_RSP", "INDEXED_DMEM_RSP"}
  /\ writeAnswer.valid <=> state = "VRF_WRITE_CPL"
  /\ readCpl.valid <=> state = "VRF_READ_WAIT" /\ ~cplSeen
  /\ readRsp.valid <=> state = "VRF_READ_WAIT" /\ ~rspSeen

\* Every accepted command is reported, whatever the endpoints answer.
CommandsReport == state # "IDLE" ~> state = "DONE"

\* Bytes that have reached their destination but are not acknowledged yet.
Underway ==
  IF writeAnswer.valid
  THEN IF writeAnswer.done THEN Cardinality(ByteMask) ELSE 0
  ELSE IF dmemAnswer.valid /\ cmd.op = "STORE" /\ dmemAnswer.cause = "NONE"
  THEN IF Indexed(cmd) THEN 1 ELSE Cardinality(ByteMask)
  ELSE 0

Outcome ==
  [status |-> result.status, cause |-> result.cause, eaddr |-> result.eaddr,
   completed |-> completed, failed |-> result.failed,
   committed |-> committed]

Transfer == INSTANCE VectorTransfer WITH
  job    <- IF state = "IDLE" THEN [op |-> "NONE"] ELSE cmd,
  moved  <- IF state = "IDLE" THEN 0 ELSE committed + Underway,
  report <- IF state = "DONE" THEN Outcome ELSE [status |-> "NONE"]

\* The engine moves the bytes of a command, and reports them, as
\* VectorTransfer says: in order, up to the first that cannot move, naming
\* the groups that are complete, the one that failed and the bytes that
\* arrived - also when indices collide, an index row is overwritten by its
\* own gather, or a scatter stops inside a group.
MovesAndReports == Transfer!Spec
============================================================================
