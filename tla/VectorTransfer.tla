--------------------------- MODULE VectorTransfer ---------------------------
(***************************************************************************)
(* What a vector memory command promises: the bytes of the selected groups *)
(* move in ascending order of group and lane - one byte at a time when     *)
(* they are scattered, a row at a time otherwise - until all have moved or *)
(* one cannot, and the report says exactly how far it came.                *)
(***************************************************************************)
EXTENDS VectorCommands

VARIABLES
  mem,     \* byte at each address
  vrf,     \* byte of each group, row and lane
  job,     \* the command in progress, or NoJob
  moved,   \* how many of its bytes have moved
  report   \* its outcome, or NoReport

vars == <<mem, vrf, job, moved, report>>

NoJob == [op |-> "NONE"]
NoReport == [status |-> "NONE"]

Report(status, cause, eaddr, completed, failed, committed) ==
  [status |-> status, cause |-> cause, eaddr |-> eaddr,
   completed |-> completed, failed |-> failed, committed |-> committed]

Rejected(status) == Report(status, "NONE", 0, {}, {}, 0)

Target(c) == c.base + c.offset

WellFormed(c) ==
  /\ c.mode # "UNDEFINED" /\ c.groups # {} /\ c.row < Rows
  /\ IF Indexed(c) THEN c.index < Rows /\ c.span = 0
     ELSE \* the span needs every selected group, the last perhaps in part
          /\ c.span > (Cardinality(c.groups) - 1) * RowBytes
          /\ c.span <= Cardinality(c.groups) * RowBytes

Reachable(c) ==
  IF Indexed(c) THEN Target(c) \in Addrs
  ELSE /\ Target(c) >= 0 /\ Target(c) % RowBytes = 0
       /\ Target(c) + Cardinality(c.groups) * RowBytes <= AddrLimit

Total(c) == IF Indexed(c) THEN Cardinality(c.groups) * RowBytes ELSE c.span

\* The group, lane and address of the k-th byte that moves: every group
\* comes after the ones with lower numbers.
Rank(c, g) == Cardinality({h \in c.groups : h < g})
GroupAt(c, k) == CHOOSE g \in c.groups : Rank(c, g) = k \div RowBytes
LaneAt(k) == k % RowBytes
AddrAt(c, k) ==
  Target(c) + IF Indexed(c) THEN vrf[GroupAt(c, k)][c.index][LaneAt(k)].number
              ELSE k

Bytewise(c) == Indexed(c) /\ c.op = "STORE"

\* The bytes that move together with the k-th.
Beat(c, k) ==
  IF Bytewise(c) THEN {k}
  ELSE {j \in 0..(Total(c) - 1) : j \div RowBytes = k \div RowBytes}

Init ==
  /\ mem = FreshMemory /\ vrf = FreshRows(0, Unread)
  /\ job = NoJob /\ moved = 0 /\ report = NoReport

\* The bytes have been replaced by others since the last command.
Begin ==
  \E c \in Commands :
    /\ job = NoJob /\ job' = c /\ moved' = 0
    /\ mem' = FreshMemory /\ vrf' = FreshRows(c.index, c.held)
    /\ report' = IF ~WellFormed(c)     THEN Rejected("BAD_REQUEST")
                 ELSE IF ~Reachable(c) THEN Rejected("BAD_EADDR")
                 ELSE NoReport

Running == job # NoJob /\ report = NoReport

\* The beat of the k-th byte moves.
Carry(c, k) ==
  LET beat == Beat(c, k)
      g    == GroupAt(c, k)
  IN  /\ \A b \in beat : AddrAt(c, b) \in Addrs
      /\ IF c.op = "LOAD"
         THEN /\ vrf' = [vrf EXCEPT ![g][c.row] = [l \in Lanes |->
                   IF \E b \in beat : LaneAt(b) = l
                   THEN mem[AddrAt(c, CHOOSE b \in beat : LaneAt(b) = l)]
                   ELSE @[l]]]
              /\ UNCHANGED mem
         ELSE /\ mem' = [a \in Addrs |->
                   IF \E b \in beat : AddrAt(c, b) = a
                   THEN vrf[g][c.row][LaneAt(CHOOSE b \in beat :
                                               AddrAt(c, b) = a)]
                   ELSE mem[a]]
              /\ UNCHANGED vrf

Move ==
  /\ Running /\ moved < Total(job)
  /\ Carry(job, moved)
  /\ moved' = moved + Cardinality(Beat(job, moved))
  /\ UNCHANGED <<job, report>>

\* The groups whose bytes are all among the first k.
Complete(c, k) ==
  {g \in c.groups : \A j \in 0..(Total(c) - 1) : GroupAt(c, j) = g => j < k}

Succeed ==
  /\ Running /\ moved = Total(job)
  /\ report' = Report("OK", "NONE", 0, job.groups, {}, moved)
  /\ UNCHANGED <<mem, vrf, job, moved>>

\* The k-th byte is the first that is not reported as moved.  A row that
\* was written and then answered wrongly is not reported, although it moved.
FailAt(k) ==
  /\ Running /\ k < Total(job)
  /\ \E status \in {"MEMORY_FAULT", "VRF_ERROR", "BAD_EADDR"},
        cause \in Faults \cup {"NONE"}, eaddr \in Addrs :
       /\ status = "MEMORY_FAULT" <=> cause # "NONE"
       /\ moved = k \/ (status = "VRF_ERROR" /\ job.op = "LOAD"
                        /\ moved = k + Cardinality(Beat(job, k)))
       /\ status = "MEMORY_FAULT" =>
            IF Indexed(job)
            THEN \E j \in Beat(job, k) : eaddr = AddrAt(job, j)
            ELSE eaddr = AddrAt(job, k)
       /\ status = "BAD_EADDR" =>
            \E j \in Beat(job, k) : AddrAt(job, j) >= AddrLimit
       /\ status # "MEMORY_FAULT" => eaddr = 0
       /\ report' = Report(status, cause, eaddr, Complete(job, k),
                           {GroupAt(job, k)}, k)
       /\ moved' = k
  /\ UNCHANGED <<mem, vrf, job>>

Fail == \E k \in 0..(GroupCount * RowBytes) : FailAt(k)

Deliver ==
  /\ report # NoReport
  /\ job' = NoJob /\ report' = NoReport /\ moved' = 0
  /\ mem' = FreshMemory /\ vrf' = FreshRows(0, Unread)

Next == Begin \/ Move \/ Succeed \/ Fail \/ Deliver

Spec == Init /\ [][Next]_vars
============================================================================
