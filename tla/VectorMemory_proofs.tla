------------------------ MODULE VectorMemory_proofs ------------------------
(***************************************************************************)
(* Proofs about VectorMemory, for every geometry, every set of commands,   *)
(* every fault and every order of the answers: the registers keep their    *)
(* ranges, the count of bytes among them; no command ends with a request   *)
(* of its own still out; and the engine is an implementation of            *)
(* VectorTransfer.  The last is argued from the rank of the current group: *)
(* the groups below it are the completed ones, so the count of completed   *)
(* groups gives the first byte of the row (PlaceInv), and what is carried  *)
(* from a read to a write is still what lies at its source (CarriedInv).   *)
(***************************************************************************)
EXTENDS VectorMemory, Sequences, FiniteSetTheorems, WellFoundedInduction, TLAPS

\* A set of numbers has a least member: induction by counterexample.
LEMMA Least ==
  ASSUME NEW T \in SUBSET Nat, T # {}
  PROVE  \E m \in T : \A k \in T : m =< k
<1>1. \E m \in T : \A k \in T : <<k, m>> \notin OpToRel(<, Nat)
  BY WFMin, NatLessThanWellFounded
<1>2. PICK m \in T : \A k \in T : <<k, m>> \notin OpToRel(<, Nat)
  BY <1>1, Zenon
<1>3. \A k \in T : ~(k < m)
  BY <1>2, Zenon DEF OpToRel
<1>4. \A k \in T : m =< k
  BY <1>3
<1> QED BY <1>4

\* So the next group is one of those that remain.
LEMMA MinOfGroups ==
  ASSUME NEW S \in SUBSET Groups, S # {}
  PROVE  Min(S) \in S
<1>1. S \in SUBSET Nat
  BY GeometryAssumption DEF Groups
<1>2. \E m \in S : \A k \in S : m =< k
  BY <1>1, Least
<1> QED BY <1>2, Zenon DEF Min

\* Addresses wrap into the memory.
LEMMA Wraps ==
  ASSUME NEW n \in Int
  PROVE  n % AddrLimit \in Addrs /\ Extend(n) \in Nat
BY GeometryAssumption DEF Addrs, Extend

\* The lanes of a row, and the bytes of a command's last row.
LEMMA MaskSize ==
  ASSUME cmd.span \in Nat
  PROVE  Cardinality(ByteMask) \in 0..RowBytes
<1>1. IsFiniteSet(Lanes) /\ Cardinality(Lanes) = RowBytes /\ RowBytes \in Nat
  <2>1. RowBytes \in Nat /\ RowBytes - 1 \in Int /\ 0 \in Int
    BY GeometryAssumption
  <2> QED BY <2>1, FS_Interval DEF Lanes
<1>2. cmd.span % RowBytes \in 0..(RowBytes - 1)
  BY GeometryAssumption
<1>3. ByteMask \in SUBSET Lanes
  BY <1>1, <1>2 DEF ByteMask, FinalBytes, Lanes
<1> QED BY <1>1, <1>3, FS_Subset, FS_CardinalityType

----------------------------------------------------------------------------
(* The registers                                                           *)

Busy == state \notin {"IDLE", "DONE"}

\* The bytes of the current group that a scatter has already committed
Within == IF Indexed(cmd) /\ cmd.op = "STORE" THEN lane ELSE 0

\* The groups are done one after the other, each once, and what is committed
\* is at most the rows of those that are complete and the bytes within.
ProgressInv ==
  /\ group \in remaining /\ group \notin completed
  /\ remaining \cap completed = {}
  /\ committed =< Cardinality(completed) * RowBytes + Within

\* Each state belongs to one kind of command.
PathInv ==
  /\ state \in {"LINEAR_LOAD_DMEM_REQ", "LINEAR_LOAD_DMEM_RSP"} =>
       ~Indexed(cmd) /\ cmd.op = "LOAD"
  /\ state \in {"VRF_WRITE_REQ", "VRF_WRITE_CPL"} => cmd.op = "LOAD"
  /\ state \in {"LINEAR_STORE_DMEM_REQ", "LINEAR_STORE_DMEM_RSP"} =>
       ~Indexed(cmd) /\ cmd.op = "STORE"
  /\ state \in {"INDEXED_DMEM_REQ", "INDEXED_DMEM_RSP"} => Indexed(cmd)
  /\ state \in {"VRF_READ_REQ", "VRF_READ_WAIT"} =>
       /\ kind = "LINEAR_STORE" <=> ~Indexed(cmd)
       /\ ~Indexed(cmd) => cmd.op = "STORE"
       /\ Indexed(cmd) => lane = 0

VectorInv ==
  /\ VectorTypeOK
  /\ cmd.span \in Nat /\ cmd.op \in {"LOAD", "STORE"}
  /\ PathInv
  /\ Busy => ProgressInv

\* Rows of r bytes, one after the other.
LEMMA Products ==
  ASSUME NEW c \in Nat, NEW r \in Nat, NEW d \in Nat
  PROVE  /\ (c + 1) * r = c * r + r
         /\ (c + 1 + d) * r = c * r + r + d * r
         /\ d * r \in Nat /\ c * r \in Nat
<1>1. (c + 1) * r = c * r + r
  OBVIOUS
<1>2. (c + 1 + d) * r = (c + 1) * r + d * r
  OBVIOUS
<1> QED BY <1>1, <1>2

\* As many bytes as the groups have, at most.
LEMMA CommittedFits ==
  ASSUME NEW S \in SUBSET Groups, NEW g \in Groups, g \notin S, NEW n \in Nat,
         NEW extra \in 0..RowBytes, n =< Cardinality(S) * RowBytes + extra
  PROVE  /\ n =< Cardinality(S \cup {g}) * RowBytes
         /\ n \in 0..(GroupCount * RowBytes)
<1>1. IsFiniteSet(Groups) /\ Cardinality(Groups) = GroupCount /\ GroupCount \in Nat /\ RowBytes \in Nat
  <2>1. GroupCount \in Nat /\ RowBytes \in Nat /\ GroupCount - 1 \in Int /\ 0 \in Int
    BY GeometryAssumption
  <2> QED BY <2>1, FS_Interval DEF Groups
<1>2. IsFiniteSet(S) /\ Cardinality(S) \in Nat
  BY <1>1, FS_Subset, FS_CardinalityType
<1>3. Cardinality(S \cup {g}) = Cardinality(S) + 1 /\ Cardinality(S \cup {g}) =< GroupCount
  <2>1. S \cup {g} \in SUBSET Groups
    OBVIOUS
  <2> QED BY <1>1, <1>2, <2>1, FS_AddElement, FS_Subset
<1>4. PICK c \in Nat, r \in Nat, d \in Nat :
        c = Cardinality(S) /\ r = RowBytes /\ GroupCount = c + 1 + d
  <2>1. GroupCount - (Cardinality(S) + 1) \in Nat
    BY <1>1, <1>2, <1>3
  <2>2. GroupCount = Cardinality(S) + 1 + (GroupCount - (Cardinality(S) + 1))
    BY <1>1, <1>2
  <2> QED BY <1>1, <1>2, <2>1, <2>2
<1>5. (c + 1) * r = c * r + r /\ (c + 1 + d) * r = c * r + r + d * r /\ d * r \in Nat /\ c * r \in Nat
  BY Products
<1>6. n =< c * r + r
  BY <1>4, <1>5
<1>7. n =< (c + 1) * r /\ n =< (c + 1 + d) * r /\ (c + 1 + d) * r \in Nat
  BY <1>5, <1>6
<1> QED BY <1>3, <1>4, <1>7

\* Finishing a group, with the bytes the step adds.
LEMMA GroupFinished ==
  ASSUME VectorInv, Busy, NEW bytes \in Nat, Within + bytes =< RowBytes,
         NEW next \in {"VRF_READ_REQ", "LINEAR_LOAD_DMEM_REQ"}, FinishGroup(bytes, next)
  PROVE  /\ remaining' \subseteq Groups /\ completed' \subseteq Groups
         /\ group' \in Groups /\ addr' \in Addrs
         /\ kind' \in {"LINEAR_STORE", "INDEX", "SCATTER_DATA"}
         /\ committed' \in 0..(GroupCount * RowBytes)
         /\ LastGroup => state' = "DONE"
         /\ ~LastGroup => /\ state' = next
                          /\ kind' = IF Indexed(cmd) THEN "INDEX"
                                     ELSE IF cmd.op = "STORE" THEN "LINEAR_STORE" ELSE kind
                          /\ group' \in remaining' /\ group' \notin completed'
                          /\ remaining' \cap completed' = {}
                          /\ committed' =< Cardinality(completed') * RowBytes
<1>1. ProgressInv /\ VectorTypeOK
  BY DEF VectorInv
<1>2. group \in Groups /\ remaining \subseteq Groups /\ completed \subseteq Groups
  BY <1>1 DEF VectorTypeOK
<1>3. remaining' = remaining \ {group} /\ completed' = completed \cup {group}
  BY DEF FinishGroup, After
<1>4. lane \in Nat /\ Within \in 0..RowBytes /\ committed \in Nat /\ committed' = committed + bytes
  <2>1. lane \in Nat /\ lane =< RowBytes /\ RowBytes \in Nat /\ committed \in Nat
    BY <1>1, GeometryAssumption DEF VectorTypeOK, Lanes
  <2> QED BY <2>1 DEF Within, FinishGroup
<1>5. committed' =< Cardinality(completed) * RowBytes + (Within + bytes)
  <2>1. Cardinality(completed) \in Nat
    <3>1. IsFiniteSet(Groups)
      BY GeometryAssumption, FS_Interval DEF Groups
    <3> QED BY <1>2, <3>1, FS_Subset, FS_CardinalityType
  <2>2. PICK p \in Nat : p = Cardinality(completed) * RowBytes
    BY <2>1, GeometryAssumption
  <2>3. committed =< p + Within
    BY <1>1, <2>2 DEF ProgressInv
  <2> QED BY <1>4, <2>2, <2>3
<1>6. /\ committed' =< Cardinality(completed') * RowBytes
      /\ committed' \in 0..(GroupCount * RowBytes)
  <2>1. Within + bytes \in 0..RowBytes /\ committed' \in Nat
    BY <1>4, GeometryAssumption
  <2>2. group \notin completed
    BY <1>1 DEF ProgressInv
  <2> QED BY <1>2, <1>3, <1>5, <2>1, <2>2, CommittedFits
<1>7. CASE LastGroup
  BY <1>1, <1>2, <1>3, <1>6, <1>7 DEF FinishGroup, Report, VectorTypeOK
<1>8. CASE ~LastGroup
  <2>1. group' = Min(After) /\ After = remaining'
    BY <1>3, <1>8 DEF FinishGroup, After
  <2>2. group' \in remaining'
    <3>1. After \in SUBSET Groups /\ After # {}
      BY <1>2, <1>8 DEF After, LastGroup
    <3> QED BY <2>1, <3>1, MinOfGroups
  <2>3. addr' \in Addrs
    <3>1. addr \in Addrs /\ addr + RowBytes \in Int
      BY <1>1, GeometryAssumption DEF VectorTypeOK, Addrs
    <3> QED BY <1>8, <3>1, Wraps DEF FinishGroup
  <2>4. group' \notin completed' /\ remaining' \cap completed' = {}
    BY <1>1, <1>3, <2>2 DEF ProgressInv
  <2>5. kind' = (IF Indexed(cmd) THEN "INDEX"
                 ELSE IF cmd.op = "STORE" THEN "LINEAR_STORE" ELSE kind) /\ state' = next
    BY <1>8 DEF FinishGroup
  <2>6. kind' \in {"LINEAR_STORE", "INDEX", "SCATTER_DATA"}
    BY <1>1, <2>5 DEF VectorTypeOK
  <2> QED BY <1>2, <1>3, <1>6, <1>8, <2>2, <2>3, <2>4, <2>5, <2>6
<1> QED BY <1>7, <1>8
\* Reset leaves no command in progress.
LEMMA VectorInvInit == VectorInit => VectorInv
<1> SUFFICES ASSUME VectorInit PROVE VectorInv
  OBVIOUS
<1>1. 0 \in Addrs /\ 0 \in Groups /\ 0 \in Lanes /\ 0 \in 0..(GroupCount * RowBytes)
  <2>1. GroupCount * RowBytes \in Nat
    BY GeometryAssumption
  <2> QED BY <2>1, GeometryAssumption DEF Addrs, Groups, Lanes
<1>2. VectorTypeOK
  BY <1>1, Zenon DEF VectorInit, VectorTypeOK
<1>3. cmd.span = 0 /\ cmd.op = "LOAD" /\ state = "IDLE"
  BY DEF VectorInit
<1> QED BY <1>2, <1>3 DEF VectorInv, PathInv, Busy

\* A command that is accepted starts with all its groups to do.
LEMMA AcceptKeeps ==
  ASSUME VectorInv, NEW c \in Commands, AcceptCommand(c)
  PROVE  VectorInv'
<1>1. /\ c.groups \subseteq Groups /\ c.base \in Int /\ c.offset \in Int /\ c.span \in Nat
      /\ c.op \in {"LOAD", "STORE"}
  BY CommandAssumption, GeometryAssumption DEF Command, Addrs
<1>2. EffectiveAddr(c) \in Addrs
  <2>1. AddrSum(c) \in Nat
    BY <1>1, Wraps DEF AddrSum
  <2> QED BY <2>1, Wraps DEF EffectiveAddr
<1>3. 0 \in Groups /\ 0 \in Lanes /\ 0 \in 0..(GroupCount * RowBytes) /\ {} \subseteq Groups
  <2>1. GroupCount * RowBytes \in Nat
    BY GeometryAssumption
  <2> QED BY <2>1, GeometryAssumption DEF Groups, Lanes
<1>4. FirstGroup(c.groups) \in Groups /\ (c.groups # {} => FirstGroup(c.groups) \in c.groups)
  BY <1>1, <1>3, MinOfGroups DEF FirstGroup
<1>5. /\ cmd' = c /\ base' \in Addrs /\ addr' \in Addrs /\ group' = FirstGroup(c.groups) /\ lane' = 0
      /\ remaining' = c.groups /\ completed' = {} /\ committed' = 0
      /\ cplSeen' = FALSE /\ rspSeen' = FALSE /\ readBad' = FALSE /\ fault' = fault
  BY <1>2 DEF AcceptCommand
<1>6. /\ state' \in {"DONE", "VRF_READ_REQ", "LINEAR_LOAD_DMEM_REQ"}
      /\ kind' \in {kind, "INDEX", "LINEAR_STORE"}
      /\ state' = "VRF_READ_REQ" => /\ kind' \in {"INDEX", "LINEAR_STORE"}
                                    /\ kind' = "LINEAR_STORE" <=> ~Indexed(c)
                                    /\ ~Indexed(c) => c.op = "STORE"
      /\ state' = "LINEAR_LOAD_DMEM_REQ" => ~Indexed(c) /\ c.op # "STORE"
      /\ state' # "DONE" => c.groups # {}
  BY DEF AcceptCommand, Report, FieldsError
<1>7. VectorTypeOK'
  <2>1. kind' \in {"LINEAR_STORE", "INDEX", "SCATTER_DATA"} /\ fault' \in BOOLEAN
    BY <1>5, <1>6 DEF VectorInv, VectorTypeOK
  <2>2. state' \in {"IDLE", "LINEAR_LOAD_DMEM_REQ", "LINEAR_LOAD_DMEM_RSP",
                    "VRF_WRITE_REQ", "VRF_WRITE_CPL", "VRF_READ_REQ",
                    "VRF_READ_WAIT", "LINEAR_STORE_DMEM_REQ",
                    "LINEAR_STORE_DMEM_RSP", "INDEXED_DMEM_REQ",
                    "INDEXED_DMEM_RSP", "DONE"}
    BY <1>6
  <2> QED BY <1>1, <1>3, <1>4, <1>5, <2>1, <2>2, Zenon DEF VectorTypeOK
<1>8. PathInv'
  BY <1>1, <1>5, <1>6 DEF PathInv, Indexed
<1>9. Busy' => ProgressInv'
  <2> SUFFICES ASSUME Busy' PROVE ProgressInv'
    OBVIOUS
  <2>1. c.groups # {}
    BY <1>6 DEF Busy
  <2>2. Cardinality(completed') = 0 /\ Within' = 0 /\ committed' = 0
    BY <1>5, FS_EmptySet DEF Within
  <2>3. committed' =< Cardinality(completed') * RowBytes + Within'
    BY <2>2, GeometryAssumption
  <2> QED BY <1>4, <1>5, <2>1, <2>3 DEF ProgressInv
<1> QED BY <1>1, <1>5, <1>7, <1>8, <1>9 DEF VectorInv

\* A step that leaves the progress alone, and the lane unless it says so.
QuietStep ==
  /\ UNCHANGED <<cmd, base, addr, group, remaining, completed, committed>>
  /\ lane' = lane \/ (lane' = 0 /\ Within = 0)
  /\ state' \in {"IDLE", "LINEAR_LOAD_DMEM_RSP", "VRF_WRITE_REQ", "VRF_WRITE_CPL",
                 "VRF_READ_REQ", "VRF_READ_WAIT", "LINEAR_STORE_DMEM_REQ",
                 "LINEAR_STORE_DMEM_RSP", "INDEXED_DMEM_REQ", "INDEXED_DMEM_RSP", "DONE"}
  /\ state' \in {"IDLE", "DONE"} \/ Busy
  /\ kind' \in {"LINEAR_STORE", "INDEX", "SCATTER_DATA"}
  /\ cplSeen' \in BOOLEAN /\ rspSeen' \in BOOLEAN /\ readBad' \in BOOLEAN /\ fault' \in BOOLEAN
\* What such a step changes is only where the command is in its group.
LEMMA QuietKeeps ==
  ASSUME VectorInv, QuietStep, PathInv'
  PROVE  VectorInv'
<1>1. /\ cmd' = cmd /\ base' = base /\ addr' = addr /\ group' = group
      /\ remaining' = remaining /\ completed' = completed /\ committed' = committed
  BY DEF QuietStep
<1>2. 0 \in Lanes
  BY GeometryAssumption DEF Lanes
<1>3. VectorTypeOK'
  <2>1. lane' \in Lanes
    BY <1>2 DEF VectorInv, VectorTypeOK, QuietStep
  <2>2. state' \in {"IDLE", "LINEAR_LOAD_DMEM_REQ", "LINEAR_LOAD_DMEM_RSP",
                    "VRF_WRITE_REQ", "VRF_WRITE_CPL", "VRF_READ_REQ",
                    "VRF_READ_WAIT", "LINEAR_STORE_DMEM_REQ",
                    "LINEAR_STORE_DMEM_RSP", "INDEXED_DMEM_REQ",
                    "INDEXED_DMEM_RSP", "DONE"}
    BY DEF QuietStep
  <2>3. /\ kind' \in {"LINEAR_STORE", "INDEX", "SCATTER_DATA"}
        /\ cplSeen' \in BOOLEAN /\ rspSeen' \in BOOLEAN /\ readBad' \in BOOLEAN
        /\ fault' \in BOOLEAN
    BY DEF QuietStep
  <2> QED BY <1>1, <2>1, <2>2, <2>3, Zenon DEF VectorInv, VectorTypeOK
<1>4. Within' = Within
  BY <1>1 DEF Within, Indexed, QuietStep
<1>5. Busy' => ProgressInv'
  BY <1>1, <1>4 DEF VectorInv, ProgressInv, QuietStep, Busy
<1> QED BY <1>1, <1>3, <1>5 DEF VectorInv

\* A step that finishes a group; an indexed one begins the next with lane 0.
LEMMA FinishKeeps ==
  ASSUME VectorInv, Busy, UNCHANGED <<cmd, base>>, NEW bytes \in Nat, Within + bytes =< RowBytes,
         NEW next \in {"VRF_READ_REQ", "LINEAR_LOAD_DMEM_REQ"}, FinishGroup(bytes, next),
         next = "VRF_READ_REQ" <=> Indexed(cmd) \/ cmd.op = "STORE",
         lane' = lane \/ lane' = 0, ~LastGroup /\ Indexed(cmd) => lane' = 0,
         cplSeen' \in BOOLEAN, rspSeen' \in BOOLEAN, readBad' \in BOOLEAN, fault' \in BOOLEAN
  PROVE  VectorInv'
<1>1. /\ remaining' \subseteq Groups /\ completed' \subseteq Groups
      /\ group' \in Groups /\ addr' \in Addrs
      /\ kind' \in {"LINEAR_STORE", "INDEX", "SCATTER_DATA"}
      /\ committed' \in 0..(GroupCount * RowBytes)
      /\ LastGroup => state' = "DONE"
      /\ ~LastGroup => /\ state' = next
                       /\ kind' = IF Indexed(cmd) THEN "INDEX"
                                  ELSE IF cmd.op = "STORE" THEN "LINEAR_STORE" ELSE kind
                       /\ group' \in remaining' /\ group' \notin completed'
                       /\ remaining' \cap completed' = {}
                       /\ committed' =< Cardinality(completed') * RowBytes
  BY GroupFinished
<1>2. cmd' = cmd /\ base' = base /\ Indexed(cmd)' = Indexed(cmd)
  BY DEF Indexed
<1>3. VectorTypeOK'
  <2>1. 0 \in Lanes
    BY GeometryAssumption DEF Lanes
  <2>2. lane' \in Lanes /\ base' \in Addrs
    BY <1>2, <2>1 DEF VectorInv, VectorTypeOK
  <2>3. state' \in {"VRF_READ_REQ", "LINEAR_LOAD_DMEM_REQ", "DONE"}
    BY <1>1
  <2> QED BY <1>1, <2>2, <2>3, Zenon DEF VectorTypeOK
<1>4. CASE LastGroup
  BY <1>1, <1>2, <1>3, <1>4 DEF VectorInv, PathInv, Busy
<1>5. CASE ~LastGroup
  <2>1. PathInv'
    BY <1>1, <1>2, <1>5 DEF PathInv, VectorInv
  <2>2. Within' = 0
    <3>1. cmd.op # "STORE" \/ ~Indexed(cmd) \/ lane' = 0
      BY <1>5
    <3> QED BY <1>2, <3>1 DEF Within
  <2>3. ProgressInv'
    <3>1. Cardinality(completed') * RowBytes + Within' = Cardinality(completed') * RowBytes
      <4>1. IsFiniteSet(completed')
        <5>1. IsFiniteSet(Groups)
          BY GeometryAssumption, FS_Interval DEF Groups
        <5> QED BY <1>1, <5>1, FS_Subset
      <4>2. Cardinality(completed') \in Nat
        BY <4>1, FS_CardinalityType
      <4> QED BY <2>2, <4>2, GeometryAssumption
    <3> QED BY <1>1, <1>5, <3>1 DEF ProgressInv
  <2> QED BY <1>2, <1>3, <2>1, <2>3 DEF VectorInv
<1> QED BY <1>4, <1>5

\* Every step of the engine preserves the invariant.
LEMMA VectorInvStep == VectorInv /\ [VectorNext]_memoryVars => VectorInv'
<1> SUFFICES ASSUME VectorInv, [VectorNext]_memoryVars PROVE VectorInv'
  OBVIOUS
<1>t. /\ kind \in {"LINEAR_STORE", "INDEX", "SCATTER_DATA"} /\ lane \in Lanes
      /\ cplSeen \in BOOLEAN /\ rspSeen \in BOOLEAN /\ readBad \in BOOLEAN /\ fault \in BOOLEAN
  BY DEF VectorInv, VectorTypeOK
<1>p. PathInv /\ cmd.op \in {"LOAD", "STORE"}
  BY DEF VectorInv
<1>s. \A set, clear : SetFault(set, clear) => fault' \in BOOLEAN
  BY DEF SetFault, Sticky, Bit
<1>1. ASSUME NEW c \in Commands, AcceptCommand(c) PROVE VectorInv'
  BY <1>1, AcceptKeeps
<1>2. CASE LinearLoadRequest
  <2>1. PathInv'
    BY <1>p, <1>2 DEF LinearLoadRequest, PathInv, Indexed
  <2> QED
    <3>1. QuietStep
      BY <1>t, <1>2, <2>1 DEF QuietStep, progressVars, LinearLoadRequest, readVars, Busy
    <3> QED BY <2>1, <3>1, QuietKeeps
<1>3. CASE LinearLoadResponse
  <2>1. state' \in {"DONE", "VRF_WRITE_REQ"} /\ state = "LINEAR_LOAD_DMEM_RSP"
    BY <1>3 DEF LinearLoadResponse, ReportFault
  <2>2. PathInv'
    BY <1>p, <1>3, <2>1 DEF LinearLoadResponse, PathInv, Indexed
  <2> QED
    <3>1. QuietStep
      BY <1>t, <1>3, <2>1, <2>2 DEF QuietStep, progressVars, LinearLoadResponse, readVars, Busy
    <3> QED BY <2>2, <3>1, QuietKeeps
<1>4. CASE WriteRequest
  <2>1. PathInv'
    BY <1>p, <1>4 DEF WriteRequest, PathInv, Indexed
  <2> QED
    <3>1. QuietStep
      BY <1>t, <1>4, <2>1 DEF QuietStep, progressVars, WriteRequest, readVars, Busy
    <3> QED BY <2>1, <3>1, QuietKeeps
<1>5. ASSUME NEW clear \in BOOLEAN, WriteCompletion(clear) PROVE VectorInv'
  <2>1. /\ state = "VRF_WRITE_CPL" /\ UNCHANGED <<cmd, base, readVars>> /\ fault' \in BOOLEAN
        /\ cmd.op = "LOAD"
    BY <1>p, <1>s, <1>5 DEF WriteCompletion, PathInv
  <2>2. CASE ~Sound(writeAnswer)
    <3>1. state' = "DONE" /\ UNCHANGED <<kind, lane, progressVars>>
      BY <1>5, <2>2 DEF WriteCompletion, Report
    <3>2. PathInv'
      BY <3>1 DEF PathInv
    <3> QED
      <4>1. QuietStep
        BY <1>t, <2>1, <3>1, <3>2 DEF QuietStep, progressVars, readVars, Busy
      <4> QED BY <3>2, <4>1, QuietKeeps
  <2>3. CASE Sound(writeAnswer)
    <3>1. FinishGroup(Cardinality(ByteMask),
                      IF Indexed(cmd) THEN "VRF_READ_REQ" ELSE "LINEAR_LOAD_DMEM_REQ")
      BY <1>5, <2>3 DEF WriteCompletion
    <3>2. lane' = IF ~LastGroup /\ Indexed(cmd) THEN 0 ELSE lane
      BY <1>5, <2>3 DEF WriteCompletion
    <3>3. Cardinality(ByteMask) \in 0..RowBytes /\ Within = 0
      BY <2>1, MaskSize DEF VectorInv, Within
    <3>4. PICK bytes \in Nat, next \in {"VRF_READ_REQ", "LINEAR_LOAD_DMEM_REQ"} :
            FinishGroup(bytes, next) /\ Within + bytes =< RowBytes
            /\ (next = "VRF_READ_REQ" <=> Indexed(cmd))
      BY <3>1, <3>3, GeometryAssumption
    <3> QED BY <1>t, <2>1, <3>2, <3>4, FinishKeeps DEF readVars, Busy
  <2> QED BY <2>2, <2>3
<1>6. CASE ReadRequest
  <2>1. PathInv'
    BY <1>p, <1>6 DEF ReadRequest, PathInv, Indexed
  <2> QED
    <3>1. QuietStep
      BY <1>t, <1>6, <2>1 DEF QuietStep, progressVars, ReadRequest, Busy
    <3> QED BY <2>1, <3>1, QuietKeeps
<1>7. ASSUME NEW clear \in BOOLEAN, NEW cpl \in BOOLEAN, NEW rsp \in BOOLEAN,
             ReadAnswers(cpl, rsp, clear)
      PROVE  VectorInv'
  <2>1. /\ state = "VRF_READ_WAIT" /\ UNCHANGED <<cmd, base, progressVars>>
        /\ fault' \in BOOLEAN
    BY <1>s, <1>7 DEF ReadAnswers
  <2>2. cplSeen' \in BOOLEAN /\ rspSeen' \in BOOLEAN /\ readBad' \in BOOLEAN
    BY <1>7 DEF ReadAnswers, Bit
  <2>3. \/ UNCHANGED <<state, kind, lane>>
        \/ state' = "DONE" /\ UNCHANGED <<kind, lane>>
        \/ \E row : UseRow(row)
    BY <1>7 DEF ReadAnswers, Report
  <2>4. Within = 0
    BY <1>p, <2>1 DEF PathInv, Within
  <2>5. CASE UNCHANGED <<state, kind, lane>>
    <3>1. PathInv'
      BY <1>p, <2>1, <2>5 DEF PathInv, Indexed
    <3> QED
      <4>1. QuietStep
        BY <1>t, <2>1, <2>2, <2>5, <3>1 DEF QuietStep, progressVars, Busy
      <4> QED BY <3>1, <4>1, QuietKeeps
  <2>6. CASE state' = "DONE" /\ UNCHANGED <<kind, lane>>
    <3>1. PathInv'
      BY <2>6 DEF PathInv
    <3> QED
      <4>1. QuietStep
        BY <1>t, <2>1, <2>2, <2>6, <3>1 DEF QuietStep, progressVars, Busy
      <4> QED BY <3>1, <4>1, QuietKeeps
  <2>7. ASSUME NEW row, UseRow(row) PROVE VectorInv'
    <3>1. /\ lane' = IF kind = "LINEAR_STORE" THEN lane ELSE 0
          /\ \/ kind = "LINEAR_STORE" /\ state' = "LINEAR_STORE_DMEM_REQ" /\ kind' = kind
             \/ kind = "INDEX" /\ state' = "VRF_READ_REQ" /\ kind' = "SCATTER_DATA"
             \/ kind # "LINEAR_STORE" /\ state' = "INDEXED_DMEM_REQ" /\ kind' = kind
      BY <2>7 DEF UseRow
    <3>2. PathInv'
      BY <1>p, <2>1, <3>1 DEF PathInv, Indexed
    <3>3. (lane' = lane \/ (lane' = 0 /\ Within = 0)) /\ kind' \in {"LINEAR_STORE", "INDEX", "SCATTER_DATA"}
          /\ state' \in {"LINEAR_STORE_DMEM_REQ", "VRF_READ_REQ", "INDEXED_DMEM_REQ"}
      BY <1>t, <2>4, <3>1
    <3> QED
      <4>1. QuietStep
        BY <1>t, <2>1, <2>2, <3>2, <3>3 DEF QuietStep, progressVars, Busy
      <4> QED BY <3>2, <4>1, QuietKeeps
  <2> QED BY <2>3, <2>5, <2>6, <2>7
<1>8. CASE LinearStoreRequest
  <2>1. PathInv'
    BY <1>p, <1>8 DEF LinearStoreRequest, PathInv, Indexed
  <2> QED
    <3>1. QuietStep
      BY <1>t, <1>8, <2>1 DEF QuietStep, progressVars, LinearStoreRequest, readVars, Busy
    <3> QED BY <2>1, <3>1, QuietKeeps
<1>9. CASE LinearStoreResponse
  <2>1. /\ state = "LINEAR_STORE_DMEM_RSP" /\ UNCHANGED <<cmd, base, lane, fault, readVars>>
        /\ ~Indexed(cmd)
    BY <1>p, <1>9 DEF LinearStoreResponse, PathInv
  <2>2. CASE dmemAnswer.cause # "NONE"
    <3>1. state' = "DONE" /\ UNCHANGED <<kind, progressVars>>
      BY <1>9, <2>2 DEF LinearStoreResponse, ReportFault
    <3>2. PathInv'
      BY <3>1 DEF PathInv
    <3> QED
      <4>1. QuietStep
        BY <1>t, <2>1, <3>1, <3>2 DEF QuietStep, progressVars, readVars, Busy
      <4> QED BY <3>2, <4>1, QuietKeeps
  <2>3. CASE dmemAnswer.cause = "NONE"
    <3>1. FinishGroup(Cardinality(ByteMask), "VRF_READ_REQ")
      BY <1>9, <2>3 DEF LinearStoreResponse
    <3>2. Cardinality(ByteMask) \in 0..RowBytes /\ Within = 0
      BY <2>1, MaskSize DEF VectorInv, Within
    <3>3. PICK bytes \in Nat : FinishGroup(bytes, "VRF_READ_REQ") /\ Within + bytes =< RowBytes
      BY <3>1, <3>2, GeometryAssumption
    <3>4. cmd.op = "STORE"
      BY <1>p, <2>1 DEF PathInv
    <3> QED BY <1>t, <2>1, <3>3, <3>4, FinishKeeps DEF readVars, Busy
  <2> QED BY <2>2, <2>3
<1>10. CASE IndexedRequest
  <2>1. state' \in {"DONE", "INDEXED_DMEM_RSP"} /\ state = "INDEXED_DMEM_REQ"
    BY <1>10 DEF IndexedRequest, Report
  <2>2. PathInv'
    BY <1>p, <1>10, <2>1 DEF IndexedRequest, PathInv, Indexed
  <2> QED
    <3>1. QuietStep
      BY <1>t, <1>10, <2>1, <2>2 DEF QuietStep, progressVars, IndexedRequest, readVars, Busy
    <3> QED BY <2>2, <3>1, QuietKeeps
<1>11. CASE IndexedResponse
  <2>1. /\ state = "INDEXED_DMEM_RSP" /\ UNCHANGED <<cmd, base, fault, readVars>> /\ Indexed(cmd)
    BY <1>p, <1>11 DEF IndexedResponse, PathInv
  <2>2. lane \in 0..(RowBytes - 1) /\ RowBytes \in Nat
    BY <1>t, GeometryAssumption DEF Lanes
  <2>3. CASE dmemAnswer.cause # "NONE"
    <3>1. state' = "DONE" /\ UNCHANGED <<kind, lane, progressVars>>
      BY <1>11, <2>3 DEF IndexedResponse, ReportFault
    <3>2. PathInv'
      BY <3>1 DEF PathInv
    <3> QED
      <4>1. QuietStep
        BY <1>t, <2>1, <3>1, <3>2 DEF QuietStep, progressVars, readVars, Busy
      <4> QED BY <3>2, <4>1, QuietKeeps
  <2>4. CASE dmemAnswer.cause = "NONE" /\ ~LastLane
    <3>1. /\ lane' = (lane + 1) % RowBytes /\ state' = "INDEXED_DMEM_REQ"
          /\ committed' = IF cmd.op = "LOAD" THEN committed ELSE committed + 1
          /\ UNCHANGED <<kind, result, addr, group, remaining, completed>>
      BY <1>11, <2>4 DEF IndexedResponse
    <3>2. lane' = lane + 1 /\ lane' \in Lanes
      <4>1. lane + 1 \in 0..(RowBytes - 1)
        BY <2>2, <2>4 DEF LastLane
      <4> QED BY <2>2, <3>1, <4>1 DEF Lanes
    <3>3. PathInv'
      BY <2>1, <3>1 DEF PathInv, Indexed
    <3>4. ProgressInv /\ committed \in Nat /\ completed \subseteq Groups /\ group \in Groups
      BY <2>1 DEF VectorInv, VectorTypeOK, Busy
    <3>5. PICK p \in Nat : p = Cardinality(completed) * RowBytes
      <4>1. IsFiniteSet(Groups)
        BY GeometryAssumption, FS_Interval DEF Groups
      <4>2. Cardinality(completed) \in Nat
        BY <3>4, <4>1, FS_Subset, FS_CardinalityType
      <4> QED BY <2>2, <4>2
    <3>6. committed' =< p + Within' /\ committed' \in Nat /\ Within' \in 0..RowBytes
      <4>1. committed =< p + Within
        BY <3>4, <3>5 DEF ProgressInv
      <4>2. CASE cmd.op = "STORE"
        BY <2>1, <2>2, <3>1, <3>2, <3>4, <4>1, <4>2 DEF Within, Indexed
      <4>3. CASE cmd.op # "STORE"
        BY <1>p, <2>1, <2>2, <3>1, <3>4, <4>1, <4>3 DEF Within, Indexed
      <4> QED BY <4>2, <4>3
    <3>7. ProgressInv'
      BY <3>1, <3>4, <3>5, <3>6 DEF ProgressInv
    <3>8. committed' \in 0..(GroupCount * RowBytes)
      <4>1. group \notin completed
        BY <3>4 DEF ProgressInv
      <4> QED BY <3>4, <3>5, <3>6, <4>1, CommittedFits
    <3>9. VectorTypeOK'
      <4>1. /\ kind' = kind /\ addr' = addr /\ group' = group /\ remaining' = remaining
            /\ completed' = completed /\ base' = base /\ fault' = fault
            /\ cplSeen' = cplSeen /\ rspSeen' = rspSeen /\ readBad' = readBad
        BY <2>1, <3>1 DEF readVars
      <4>2. state' = "INDEXED_DMEM_REQ"
        BY <3>1
      <4> QED BY <3>2, <3>8, <4>1, <4>2, Zenon DEF VectorInv, VectorTypeOK
    <3> QED BY <2>1, <3>3, <3>7, <3>9 DEF VectorInv
  <2>5. CASE dmemAnswer.cause = "NONE" /\ LastLane /\ cmd.op = "LOAD"
    <3>1. state' = "VRF_WRITE_REQ" /\ UNCHANGED <<kind, lane, progressVars>>
      BY <1>11, <2>5 DEF IndexedResponse
    <3>2. PathInv'
      BY <2>1, <2>5, <3>1 DEF PathInv
    <3> QED
      <4>1. QuietStep
        BY <1>t, <2>1, <3>1, <3>2 DEF QuietStep, progressVars, readVars, Busy
      <4> QED BY <3>2, <4>1, QuietKeeps
  <2>6. CASE dmemAnswer.cause = "NONE" /\ LastLane /\ cmd.op # "LOAD"
    <3>1. FinishGroup(1, "VRF_READ_REQ") /\ lane' = IF LastGroup THEN lane ELSE 0
      BY <1>11, <2>6 DEF IndexedResponse
    <3>2. Within + 1 =< RowBytes
      BY <2>2 DEF Within, LastLane
    <3> QED BY <1>t, <2>1, <3>1, <3>2, FinishKeeps DEF readVars, Busy
  <2> QED BY <2>3, <2>4, <2>5, <2>6
<1>12. CASE DeliverCompletion
  <2>1. state' = "IDLE" /\ UNCHANGED <<cmd, base, progressVars, kind, lane, fault, readVars>>
    BY <1>12 DEF DeliverCompletion
  <2>2. PathInv'
    BY <2>1 DEF PathInv
  <2> QED
    <3>1. QuietStep
      BY <1>t, <2>1, <2>2 DEF QuietStep, progressVars, readVars, Busy
    <3> QED BY <2>2, <3>1, QuietKeeps
<1>13. CASE ClearFault \/ UNCHANGED memoryVars
  <2>1. /\ UNCHANGED <<state, cmd, base, addr, group, remaining, completed, committed, kind, lane,
                       cplSeen, rspSeen, readBad>>
        /\ fault' \in BOOLEAN
    BY <1>t, <1>s, <1>13 DEF ClearFault, memoryVars, progressVars, readVars
  <2>2. PathInv'
    BY <1>p, <2>1 DEF PathInv, Indexed
  <2>3. VectorTypeOK'
    BY <2>1, Zenon DEF VectorInv, VectorTypeOK
  <2>4. Busy' => ProgressInv'
    BY <2>1 DEF VectorInv, Busy, ProgressInv, Within, Indexed
  <2> QED BY <2>1, <2>2, <2>3, <2>4 DEF VectorInv
<1> QED BY <1>1, <1>2, <1>3, <1>4, <1>5, <1>6, <1>7, <1>8, <1>9, <1>10, <1>11, <1>12, <1>13
        DEF VectorNext, VectorStep

\* Every register stays in its range, the count of committed bytes among
\* them, for every geometry, every command and whatever the endpoints answer.
THEOREM VectorTypeCorrect == VectorSpec => []VectorTypeOK
<1>1. VectorInv => VectorTypeOK
  BY DEF VectorInv
<1> QED BY <1>1, VectorInvInit, VectorInvStep, PTL DEF VectorSpec

----------------------------------------------------------------------------
(* Requests and answers                                                    *)

\* The states that wait for an answer, and what is out in them.
LEMMA OutStep == VectorInv /\ NothingLeftOut /\ [VectorNext]_memoryVars => NothingLeftOut'
<1> SUFFICES ASSUME VectorInv, NothingLeftOut, [VectorNext]_memoryVars PROVE NothingLeftOut'
  OBVIOUS
<1>t. cplSeen \in BOOLEAN /\ rspSeen \in BOOLEAN
  BY DEF VectorInv, VectorTypeOK
<1>1. ASSUME NEW c \in Commands, AcceptCommand(c) PROVE NothingLeftOut'
  <2>1. state' \in {"DONE", "VRF_READ_REQ", "LINEAR_LOAD_DMEM_REQ"} /\ state = "IDLE"
        /\ UNCHANGED <<dmemAnswer, writeAnswer, readCpl, readRsp>>
    BY <1>1 DEF AcceptCommand, Report, answerVars
  <2> QED BY <2>1 DEF NothingLeftOut
<1>2. CASE LinearLoadRequest \/ LinearStoreRequest
  <2>1. /\ state' \in {"LINEAR_LOAD_DMEM_RSP", "LINEAR_STORE_DMEM_RSP"} /\ dmemAnswer'.valid
        /\ state \in {"LINEAR_LOAD_DMEM_REQ", "LINEAR_STORE_DMEM_REQ"}
        /\ UNCHANGED <<writeAnswer, readCpl, readRsp>>
    BY <1>2 DEF LinearLoadRequest, LinearStoreRequest, MemoryTakes
  <2> QED BY <2>1 DEF NothingLeftOut
<1>3. CASE LinearLoadResponse
  <2>1. /\ state' \in {"DONE", "VRF_WRITE_REQ"} /\ ~dmemAnswer'.valid
        /\ state = "LINEAR_LOAD_DMEM_RSP"
        /\ UNCHANGED <<writeAnswer, readCpl, readRsp>>
    BY <1>3 DEF LinearLoadResponse, ReportFault, None
  <2> QED BY <2>1 DEF NothingLeftOut
<1>4. CASE WriteRequest
  <2>1. /\ state' = "VRF_WRITE_CPL" /\ writeAnswer'.valid /\ state = "VRF_WRITE_REQ"
        /\ UNCHANGED <<dmemAnswer, readCpl, readRsp>>
    BY <1>4 DEF WriteRequest, FileTakesWrite
  <2> QED BY <2>1 DEF NothingLeftOut
<1>5. ASSUME NEW clear \in BOOLEAN, WriteCompletion(clear) PROVE NothingLeftOut'
  <2>1. /\ state' \in {"DONE", "VRF_READ_REQ", "LINEAR_LOAD_DMEM_REQ"} /\ ~writeAnswer'.valid
        /\ state = "VRF_WRITE_CPL"
        /\ UNCHANGED <<dmemAnswer, readCpl, readRsp>>
    BY <1>5 DEF WriteCompletion, Report, FinishGroup, None
  <2> QED BY <2>1 DEF NothingLeftOut
<1>6. CASE ReadRequest
  <2>1. /\ state' = "VRF_READ_WAIT" /\ readCpl'.valid /\ readRsp'.valid
        /\ cplSeen' = FALSE /\ rspSeen' = FALSE
        /\ state = "VRF_READ_REQ" /\ UNCHANGED <<dmemAnswer, writeAnswer>>
    BY <1>6 DEF ReadRequest, FileTakesRead
  <2> QED BY <2>1 DEF NothingLeftOut
\* The two halves of a read: each is out until it arrives, and the second to
\* arrive ends the wait, with or without an error.
<1>7. ASSUME NEW clear \in BOOLEAN, NEW cpl \in BOOLEAN, NEW rsp \in BOOLEAN,
             ReadAnswers(cpl, rsp, clear)
      PROVE  NothingLeftOut'
  <2>1. state = "VRF_READ_WAIT" /\ UNCHANGED <<dmemAnswer, writeAnswer>>
    BY <1>7 DEF ReadAnswers
  <2>2. /\ readCpl.valid <=> ~cplSeen
        /\ readRsp.valid <=> ~rspSeen
        /\ ~dmemAnswer.valid /\ ~writeAnswer.valid
    BY <2>1 DEF NothingLeftOut
  <2>3. /\ readCpl' = IF cpl THEN None ELSE readCpl
        /\ readRsp' = IF rsp THEN None ELSE readRsp
    BY <1>7 DEF ReadAnswers
  <2>4. /\ readCpl'.valid <=> ~(cplSeen \/ cpl)
        /\ readRsp'.valid <=> ~(rspSeen \/ rsp)
    BY <2>2, <2>3 DEF None
  <2>5. CASE (cplSeen \/ cpl) /\ (rspSeen \/ rsp)
    <3>1. state' \in {"DONE", "LINEAR_STORE_DMEM_REQ", "VRF_READ_REQ", "INDEXED_DMEM_REQ"}
      BY <1>7, <2>5 DEF ReadAnswers, BothSeen, UseRow, Report
    <3> QED BY <2>1, <2>2, <2>4, <2>5, <3>1 DEF NothingLeftOut
  <2>6. CASE ~((cplSeen \/ cpl) /\ (rspSeen \/ rsp))
    <3>1. /\ state' = state /\ cplSeen' = Bit(cplSeen \/ cpl) /\ rspSeen' = Bit(rspSeen \/ rsp)
      BY <1>7, <2>6 DEF ReadAnswers, BothSeen, Bit
    <3>2. (cplSeen' <=> cplSeen \/ cpl) /\ (rspSeen' <=> rspSeen \/ rsp)
      BY <3>1 DEF Bit
    <3> QED BY <2>1, <2>2, <2>4, <3>1, <3>2 DEF NothingLeftOut
  <2> QED BY <2>5, <2>6
<1>8. CASE LinearStoreResponse
  <2>1. /\ state' \in {"DONE", "VRF_READ_REQ"} /\ ~dmemAnswer'.valid
        /\ state = "LINEAR_STORE_DMEM_RSP"
        /\ UNCHANGED <<writeAnswer, readCpl, readRsp>>
    BY <1>8 DEF LinearStoreResponse, ReportFault, FinishGroup, Report, None
  <2> QED BY <2>1 DEF NothingLeftOut
<1>9. CASE IndexedRequest
  <2>1. /\ \/ state' = "DONE" /\ dmemAnswer' = dmemAnswer
           \/ state' = "INDEXED_DMEM_RSP" /\ dmemAnswer'.valid
        /\ state = "INDEXED_DMEM_REQ"
        /\ UNCHANGED <<writeAnswer, readCpl, readRsp>>
    BY <1>9 DEF IndexedRequest, Report, MemoryTakes
  <2> QED BY <2>1 DEF NothingLeftOut
<1>10. CASE IndexedResponse
  <2>1. /\ state' \in {"DONE", "INDEXED_DMEM_REQ", "VRF_WRITE_REQ", "VRF_READ_REQ"}
        /\ ~dmemAnswer'.valid /\ state = "INDEXED_DMEM_RSP"
        /\ UNCHANGED <<writeAnswer, readCpl, readRsp>>
    BY <1>10 DEF IndexedResponse, ReportFault, FinishGroup, Report, None
  <2> QED BY <2>1 DEF NothingLeftOut
<1>11. CASE DeliverCompletion
  <2>1. state' = "IDLE" /\ state = "DONE" /\ UNCHANGED <<dmemAnswer, writeAnswer, readCpl, readRsp>>
    BY <1>11 DEF DeliverCompletion, answerVars
  <2> QED BY <2>1 DEF NothingLeftOut
<1>12. CASE ClearFault \/ UNCHANGED memoryVars
  <2>1. UNCHANGED <<state, cplSeen, rspSeen, dmemAnswer, writeAnswer, readCpl, readRsp>>
    BY <1>12 DEF ClearFault, memoryVars, readVars, answerVars
  <2> QED BY <2>1 DEF NothingLeftOut
<1> QED BY <1>1, <1>2, <1>3, <1>4, <1>5, <1>6, <1>7, <1>8, <1>9, <1>10, <1>11, <1>12
        DEF VectorNext, VectorStep

\* An answer is out exactly while the engine is in the state that takes it,
\* whatever failed before: no command leaves one for the next.
THEOREM NothingLeft == VectorSpec => []NothingLeftOut
<1>1. VectorInit => NothingLeftOut
  BY DEF VectorInit, NothingLeftOut, None
<1>2. VectorInv /\ NothingLeftOut /\ [VectorNext]_memoryVars => (VectorInv /\ NothingLeftOut)'
  BY VectorInvStep, OutStep
<1> QED BY <1>1, <1>2, VectorInvInit, PTL DEF VectorSpec

----------------------------------------------------------------------------
(* Rows of bytes                                                           *)

\* Quotient and remainder of a lane of a row.
LEMMA RowAndLane ==
  ASSUME NEW i \in Nat, NEW r \in Nat \ {0}, NEW l \in 0..(r - 1)
  PROVE  (i * r + l) \div r = i /\ (i * r + l) % r = l
<1>1. PICK p \in Nat : p = i * r
  OBVIOUS
<1>2. PICK q \in Int, m \in 0..(r - 1) : q = (p + l) \div r /\ m = (p + l) % r
  OBVIOUS
<1>3. p + l = q * r + m
  BY <1>2
<1>4. q \in Nat
  BY <1>2, <1>1
<1>5. ~(q < i)
  <2> SUFFICES ASSUME q < i PROVE FALSE
    OBVIOUS
  <2>1. PICK d \in Nat : i = q + 1 + d
    <3>1. i - q - 1 \in Nat /\ i = q + 1 + (i - q - 1)
      BY <1>4
    <3> QED BY <3>1
  <2>2. i * r = q * r + r + d * r /\ d * r \in Nat /\ q * r \in Nat
    BY <2>1, <1>4, Products
  <2> QED BY <2>2, <1>1, <1>3
<1>6. ~(i < q)
  <2> SUFFICES ASSUME i < q PROVE FALSE
    OBVIOUS
  <2>1. PICK d \in Nat : q = i + 1 + d
    <3>1. q - i - 1 \in Nat /\ q = i + 1 + (q - i - 1)
      BY <1>4
    <3> QED BY <3>1
  <2>2. q * r = i * r + r + d * r /\ d * r \in Nat /\ i * r \in Nat
    BY <2>1, Products
  <2> QED BY <2>2, <1>1, <1>3
<1>7. q = i
  BY <1>4, <1>5, <1>6
<1>8. m = l
  BY <1>7, <1>1, <1>3
<1> QED BY <1>1, <1>2, <1>7, <1>8

\* Every number is a lane of one row.
LEMMA LaneOfRow ==
  ASSUME NEW k \in Nat, NEW r \in Nat \ {0}
  PROVE  /\ k \div r \in Nat /\ k % r \in 0..(r - 1)
         /\ k = (k \div r) * r + (k % r)
OBVIOUS

\* Rows of one number lie after all rows of smaller ones.
LEMMA RowsInOrder ==
  ASSUME NEW i \in Nat, NEW j \in Nat, NEW r \in Nat, i < j
  PROVE  i * r + r =< j * r /\ i * r \in Nat /\ j * r \in Nat
<1>1. j - i - 1 \in Nat /\ j = i + 1 + (j - i - 1)
  OBVIOUS
<1>2. PICK d \in Nat : j = i + 1 + d
  BY <1>1
<1>3. j * r = i * r + r + d * r /\ d * r \in Nat /\ i * r \in Nat
  BY <1>2, Products
<1> QED BY <1>3
----------------------------------------------------------------------------
(* The groups of a command in ascending order                              *)

\* The abstract transfer counts as the engine does.
LEMMA SameCount == \A S : Transfer!Cardinality(S) = Cardinality(S)
BY Zenon DEF Transfer!Cardinality, Cardinality

\* The selected groups below one: what is complete while it is the current.
Below(c, g) == {h \in c.groups : h < g}

\* Sets of groups are finite.
LEMMA Finite ==
  ASSUME NEW S \in SUBSET Groups
  PROVE  /\ IsFiniteSet(S) /\ Cardinality(S) \in 0..GroupCount
         /\ Cardinality(S) = 0 <=> S = {}
<1>1. IsFiniteSet(Groups) /\ Cardinality(Groups) = GroupCount
  <2>1. GroupCount \in Nat /\ GroupCount - 1 \in Int /\ 0 \in Int
    BY GeometryAssumption
  <2> QED BY <2>1, FS_Interval DEF Groups
<1>2. IsFiniteSet(S) /\ Cardinality(S) =< GroupCount
  BY <1>1, FS_Subset
<1>3. Cardinality(S) = 0 <=> S = {}
  BY <1>2, FS_EmptySet
<1> QED BY <1>2, <1>3, FS_CardinalityType, GeometryAssumption

\* The rank of a group is the number of groups below it.
LEMMA RankIs ==
  ASSUME NEW c, c.groups \in SUBSET Groups, NEW g
  PROVE  /\ Transfer!Rank(c, g) = Cardinality(Below(c, g))
         /\ Transfer!Rank(c, g) \in Nat
         /\ IsFiniteSet(Below(c, g)) /\ Below(c, g) \in SUBSET Groups
<1>1. Below(c, g) \in SUBSET Groups
  BY DEF Below
<1>2. Transfer!Rank(c, g) = Cardinality(Below(c, g))
  BY SameCount DEF Transfer!Rank, Below
<1> QED BY <1>1, <1>2, Finite

\* A lower group has a lower rank.
LEMMA RankGrows ==
  ASSUME NEW c, c.groups \in SUBSET Groups, NEW g \in c.groups,
         NEW h \in Groups, g < h
  PROVE  Transfer!Rank(c, g) < Transfer!Rank(c, h)
<1>1. g \in Nat /\ h \in Nat /\ \A x \in c.groups : x \in Nat
  BY GeometryAssumption DEF Groups
<1>2. Below(c, g) \cup {g} \subseteq Below(c, h) /\ g \notin Below(c, g)
  BY <1>1 DEF Below
<1>3. /\ IsFiniteSet(Below(c, h)) /\ IsFiniteSet(Below(c, g))
      /\ Cardinality(Below(c, g)) = Transfer!Rank(c, g)
      /\ Cardinality(Below(c, h)) = Transfer!Rank(c, h)
      /\ Transfer!Rank(c, h) \in Nat /\ Transfer!Rank(c, g) \in Nat
  BY RankIs
<1>4. Cardinality(Below(c, g) \cup {g}) = Transfer!Rank(c, g) + 1
  BY <1>2, <1>3, FS_AddElement
<1>5. Cardinality(Below(c, g) \cup {g}) =< Transfer!Rank(c, h)
  BY <1>2, <1>3, FS_Subset
<1> QED BY <1>3, <1>4, <1>5

\* Every rank is below the number of groups.
LEMMA RankFits ==
  ASSUME NEW c, c.groups \in SUBSET Groups, NEW g \in c.groups
  PROVE  Transfer!Rank(c, g) + 1 =< Cardinality(c.groups)
<1>1. g \in Nat /\ \A x \in c.groups : x \in Nat
  BY GeometryAssumption DEF Groups
<1>2. Below(c, g) \cup {g} \subseteq c.groups /\ g \notin Below(c, g)
  BY <1>1 DEF Below
<1>3. /\ IsFiniteSet(c.groups) /\ IsFiniteSet(Below(c, g))
      /\ Cardinality(Below(c, g)) = Transfer!Rank(c, g)
  BY RankIs, Finite
<1>4. Cardinality(Below(c, g) \cup {g}) = Transfer!Rank(c, g) + 1
  BY <1>2, <1>3, FS_AddElement
<1> QED BY <1>2, <1>3, <1>4, FS_Subset

\* Two groups of one rank are one group.
LEMMA OneOfRank ==
  ASSUME NEW c, c.groups \in SUBSET Groups, NEW g \in c.groups,
         NEW h \in c.groups, Transfer!Rank(c, g) = Transfer!Rank(c, h)
  PROVE  g = h
<1>1. g \in Nat /\ h \in Nat
  BY GeometryAssumption DEF Groups
<1>2. Transfer!Rank(c, g) \in Nat
  BY RankIs
<1>3. ~(g < h) /\ ~(h < g)
  <2>1. ASSUME g < h PROVE FALSE
    BY <1>2, <2>1, RankGrows
  <2>2. ASSUME h < g PROVE FALSE
    BY <1>2, <2>2, RankGrows
  <2> QED BY <2>1, <2>2
<1> QED BY <1>1, <1>3

\* The lowest of the groups above g is the one of the next rank.
LEMMA NextRank ==
  ASSUME NEW c, c.groups \in SUBSET Groups, NEW g \in c.groups,
         NEW h \in c.groups, g < h, \A x \in c.groups : g < x => h =< x
  PROVE  /\ Below(c, h) = Below(c, g) \cup {g}
         /\ Transfer!Rank(c, h) = Transfer!Rank(c, g) + 1
<1>1. g \in Nat /\ h \in Nat /\ \A x \in c.groups : x \in Nat
  BY GeometryAssumption DEF Groups
<1>2. Below(c, h) = Below(c, g) \cup {g} /\ g \notin Below(c, g)
  BY <1>1 DEF Below
<1>3. /\ IsFiniteSet(Below(c, g))
      /\ Cardinality(Below(c, g)) = Transfer!Rank(c, g)
      /\ Cardinality(Below(c, h)) = Transfer!Rank(c, h)
  BY RankIs
<1> QED BY <1>2, <1>3, FS_AddElement

\* The lowest group has rank 0.
LEMMA FirstRank ==
  ASSUME NEW c, c.groups \in SUBSET Groups, NEW g \in c.groups,
         \A x \in c.groups : g =< x
  PROVE  Below(c, g) = {} /\ Transfer!Rank(c, g) = 0
<1>1. g \in Nat /\ \A x \in c.groups : x \in Nat
  BY GeometryAssumption DEF Groups
<1>2. Below(c, g) = {}
  BY <1>1 DEF Below
<1> QED BY <1>2, RankIs, FS_EmptySet

\* There is a group of every rank: of the ranks without one take the least.
LEMMA EveryRank ==
  ASSUME NEW c, c.groups \in SUBSET Groups,
         NEW i \in Nat, i < Cardinality(c.groups)
  PROVE  \E g \in c.groups : Transfer!Rank(c, g) = i
<1> DEFINE Without == {j \in Nat : j < Cardinality(c.groups) /\
                         ~\E g \in c.groups : Transfer!Rank(c, g) = j}
<1> SUFFICES ASSUME Without # {} PROVE FALSE
  OBVIOUS
<1>1. PICK m \in Without : \A k \in Without : m =< k
  <2>1. Without \in SUBSET Nat
    OBVIOUS
  <2> HIDE DEF Without
  <2> QED BY <2>1, Least
<1>2. c.groups \in SUBSET Nat /\ IsFiniteSet(c.groups) /\ Cardinality(c.groups) \in Nat
  BY Finite, GeometryAssumption DEF Groups
<1>3. m # 0
  <2> SUFFICES ASSUME m = 0 PROVE FALSE
    OBVIOUS
  <2>1. c.groups # {}
    BY <1>2, Finite
  <2>2. PICK g \in c.groups : \A x \in c.groups : g =< x
    BY <2>1, <1>2, Least
  <2>3. Transfer!Rank(c, g) = 0
    BY <2>2, FirstRank
  <2> QED BY <2>3
<1>4. PICK g \in c.groups : Transfer!Rank(c, g) = m - 1
  <2>1. m - 1 \in Nat /\ m - 1 < Cardinality(c.groups) /\ m - 1 \notin Without
    BY <1>1, <1>2, <1>3
  <2> QED BY <2>1
<1> DEFINE Above == {x \in c.groups : g < x}
<1>5. Above # {}
  <2> SUFFICES ASSUME Above = {} PROVE FALSE
    OBVIOUS
  <2>1. c.groups = Below(c, g) \cup {g} /\ g \notin Below(c, g)
    BY <1>2 DEF Below
  <2>2. Cardinality(c.groups) = m
    <3>1. /\ IsFiniteSet(Below(c, g))
          /\ Cardinality(Below(c, g)) = m - 1
      BY RankIs, <1>4
    <3>2. Cardinality(Below(c, g) \cup {g}) = (m - 1) + 1
      BY <2>1, <3>1, FS_AddElement
    <3> QED BY <2>1, <3>2, <1>1
  <2> QED BY <2>2
<1>6. PICK h \in Above : \A x \in Above : h =< x
  <2>1. Above \in SUBSET Nat
    BY <1>2
  <2> HIDE DEF Above
  <2> QED BY <2>1, <1>5, Least
<1>7. Transfer!Rank(c, h) = m
  BY <1>4, <1>6, NextRank
<1> QED BY <1>6, <1>7

\* Which group a byte of a row belongs to.
LEMMA GroupOfByte ==
  ASSUME NEW c, c.groups \in SUBSET Groups, NEW g \in c.groups,
         NEW k \in Nat, k \div RowBytes = Transfer!Rank(c, g)
  PROVE  Transfer!GroupAt(c, k) = g
<1>1. \A h \in c.groups : Transfer!Rank(c, h) = k \div RowBytes => h = g
  BY OneOfRank
<1> QED BY <1>1 DEF Transfer!GroupAt

----------------------------------------------------------------------------
(* What the engine rejects is what the transfer rejects                    *)

\* Products of one factor keep the order of the other.
LEMMA RowsKeepOrder ==
  ASSUME NEW i \in Nat, NEW j \in Nat, NEW r \in Nat, i =< j
  PROVE  i * r =< j * r /\ i * r \in Nat /\ j * r \in Nat
<1>1. CASE i = j
  BY <1>1
<1>2. CASE i < j
  BY <1>2, RowsInOrder
<1> QED BY <1>1, <1>2

\* How many rows a span needs.
LEMMA RowsNeeded ==
  ASSUME NEW s \in Nat \ {0}, NEW n \in Nat \ {0}, NEW r \in Nat \ {0}
  PROVE  (s + r - 1) \div r = n <=> (s > (n - 1) * r /\ s =< n * r)
<1>1. s + r - 1 \in Nat /\ n - 1 \in Nat
  OBVIOUS
<1>2. PICK p \in Nat : p = (n - 1) * r /\ n * r = p + r
  <2>1. ((n - 1) + 1) * r = (n - 1) * r + r /\ (n - 1) * r \in Nat
    BY <1>1, Products
  <2>2. (n - 1) + 1 = n
    OBVIOUS
  <2> QED BY <2>1, <2>2
<1>3. ASSUME s > p, s =< p + r PROVE (s + r - 1) \div r = n
  <2>1. PICK l \in 0..(r - 1) : l = s - p - 1
    BY <1>3, <1>2
  <2>2. s + r - 1 = n * r + l
    BY <2>1, <1>2
  <2> QED BY <2>1, <2>2, RowAndLane
<1>4. ASSUME (s + r - 1) \div r = n PROVE s > p /\ s =< p + r
  <2>1. PICK l \in 0..(r - 1) : s + r - 1 = n * r + l
    BY <1>1, <1>4, LaneOfRow
  <2> QED BY <2>1, <1>2
<1> QED BY <1>2, <1>3, <1>4

\* A negative number wraps once.
LEMMA WrapsOnce ==
  ASSUME NEW m \in Nat \ {0}, NEW a \in Int, a < 0, -m =< a
  PROVE  a % m = a + m
<1>1. PICK q \in Int, e \in 0..(m - 1) : e = a % m /\ a = q * m + e
  OBVIOUS
<1>2. ~(q >= 0)
  <2> SUFFICES ASSUME q >= 0 PROVE FALSE
    OBVIOUS
  <2>1. q * m \in Nat
    OBVIOUS
  <2> QED BY <1>1, <2>1
<1>3. ~(q < -1)
  <2> SUFFICES ASSUME q < -1 PROVE FALSE
    OBVIOUS
  <2>1. PICK d \in Nat : q = -(1 + 1 + d)
    <3>1. -q - 2 \in Nat /\ q = -(1 + 1 + (-q - 2))
      OBVIOUS
    <3> QED BY <3>1
  <2>2. PICK u \in Nat : u = 1 + 1 + d /\ q = -u
    BY <2>1
  <2>3. u * m = 1 * m + m + d * m /\ d * m \in Nat
    BY <2>2, Products
  <2>4. q * m = -(u * m)
    BY <2>2
  <2> QED BY <1>1, <2>3, <2>4
<1>4. q = -1
  BY <1>2, <1>3
<1>5. a = e - m
  BY <1>1, <1>4
<1> QED BY <1>1, <1>5

\* The engine refuses exactly the commands that are not well formed.
LEMMA FieldsAgree ==
  ASSUME NEW c \in Command
  PROVE  FieldsError(c) <=> ~Transfer!WellFormed(c)
<1>1. /\ c.groups \in SUBSET Groups /\ c.span \in Nat /\ c.row \in Nat
      /\ c.index \in Nat /\ c.mode \in {"UNIT_STRIDE", "INDEX_U8", "UNDEFINED"}
  BY DEF Command
<1>2. /\ Rows \in Nat \ {0} /\ RowBytes \in Nat \ {0} /\ GroupCount \in Nat
  BY GeometryAssumption
<1>3. (Transfer!Indexed(c) <=> Indexed(c)) /\ Transfer!Cardinality(c.groups) = Cardinality(c.groups)
  BY SameCount DEF Transfer!Indexed, Indexed
<1>4. CASE c.groups = {}
  BY <1>4 DEF FieldsError, Transfer!WellFormed
<1>5. CASE Indexed(c)
  BY <1>1, <1>2, <1>3, <1>5 DEF FieldsError, Transfer!WellFormed
<1>6. CASE c.groups # {} /\ ~Indexed(c)
  <2>1. PICK n \in Nat \ {0} : n = Cardinality(c.groups) /\ n =< GroupCount
    BY <1>1, <1>2, <1>6, Finite
  <2>2. n * RowBytes =< GroupCount * RowBytes /\ n * RowBytes \in Nat /\ GroupCount * RowBytes \in Nat
    BY <1>2, <2>1, RowsKeepOrder
  <2>3. (n - 1) * RowBytes \in Nat
    <3>1. n - 1 \in Nat
      OBVIOUS
    <3> QED BY <3>1, <1>2, RowsKeepOrder
  <2>4. FieldsError(c) <=> \/ c.mode = "UNDEFINED" \/ c.row >= Rows
                           \/ c.span = 0 \/ c.span > GroupCount * RowBytes
                           \/ (c.span + RowBytes - 1) \div RowBytes # n
    BY <1>6, <2>1 DEF FieldsError
  <2>5. Transfer!WellFormed(c) <=> /\ c.mode # "UNDEFINED" /\ c.row < Rows
                                   /\ c.span > (n - 1) * RowBytes
                                   /\ c.span =< n * RowBytes
    BY <1>3, <1>6, <2>1 DEF Transfer!WellFormed
  <2>6. c.span # 0 =>
          ((c.span + RowBytes - 1) \div RowBytes = n <=>
             (c.span > (n - 1) * RowBytes /\ c.span =< n * RowBytes))
    BY <1>1, <1>2, RowsNeeded
  <2>7. PICK p \in Nat, q \in Nat, t \in Nat :
          p = (n - 1) * RowBytes /\ q = n * RowBytes /\ t = GroupCount * RowBytes
    BY <2>2, <2>3
  <2>8. q =< t
    BY <2>2, <2>7
  <2> QED BY <1>1, <1>2, <2>4, <2>5, <2>6, <2>7, <2>8
<1> QED BY <1>4, <1>5, <1>6

\* ... and the ones with bytes outside the memory, or not on a row boundary.
LEMMA AddressesAgree ==
  ASSUME NEW c \in Command, ~FieldsError(c)
  PROVE  /\ AddrError(c) <=> ~Transfer!Reachable(c)
         /\ ~AddrError(c) => /\ EffectiveAddr(c) = Transfer!Target(c)
                             /\ Transfer!Target(c) \in Addrs
         /\ Cardinality(c.groups) \in Nat \ {0}
<1>1. /\ c.groups \in SUBSET Groups /\ c.base \in 0..(AddrLimit - 1)
      /\ c.offset \in (-AddrLimit)..(AddrLimit - 1)
  BY DEF Command, Addrs
<1>2. RowBytes \in Nat \ {0} /\ GroupCount \in Nat /\ AddrLimit \in Nat \ {0}
  <2>1. GroupCount * RowBytes \in Nat
    BY GeometryAssumption
  <2> QED BY <2>1, GeometryAssumption
<1>3. c.groups # {} /\ (Transfer!Indexed(c) <=> Indexed(c))
  BY DEF FieldsError, Indexed, Transfer!Indexed
<1>4. PICK n \in Nat \ {0} : n = Cardinality(c.groups) /\ n =< GroupCount
  BY <1>1, <1>2, <1>3, Finite
<1>5. Transfer!Cardinality(c.groups) = n
  BY <1>4, SameCount
<1>6. PICK size \in Nat \ {0} :
        size = n * RowBytes /\ LastByteOffset(c) = size - 1 /\ size < AddrLimit
  <2>1. n * RowBytes =< GroupCount * RowBytes /\ n * RowBytes \in Nat /\ GroupCount * RowBytes \in Nat
    BY <1>2, <1>4, RowsKeepOrder
  <2>2. n * RowBytes # 0
    <3>1. 0 * RowBytes + RowBytes =< n * RowBytes
      BY <1>2, RowsInOrder
    <3> QED BY <1>2, <3>1
  <2>3. n * RowBytes < AddrLimit
    BY <1>2, <2>1, GeometryAssumption
  <2> QED BY <1>3, <1>4, <2>1, <2>2, <2>3 DEF LastByteOffset
<1>7. PICK a \in Int : a = c.base + c.offset
  BY <1>1
<1>8. -AddrLimit =< a /\ a < 2 * AddrLimit
  BY <1>1, <1>2, <1>7
<1>9. TopBit(AddrSum(c)) <=> ~(0 =< a /\ a < AddrLimit)
  <2>1. AddrSum(c) = a % (2 * AddrLimit)
    BY <1>7 DEF AddrSum, Extend
  <2>2. CASE 0 =< a
    <3>1. a % (2 * AddrLimit) = a
      BY <1>2, <1>8, <2>2
    <3> QED BY <1>2, <2>1, <2>2, <3>1 DEF TopBit
  <2>3. CASE a < 0
    <3>1. a % (2 * AddrLimit) = a + 2 * AddrLimit
      <4>1. 2 * AddrLimit \in Nat \ {0} /\ -(2 * AddrLimit) =< a
        BY <1>2, <1>8
      <4> QED BY <4>1, <2>3, WrapsOnce
    <3> QED BY <1>2, <1>8, <2>1, <2>3, <3>1 DEF TopBit
  <2> QED BY <2>2, <2>3
<1>10. ASSUME 0 =< a, a < AddrLimit
       PROVE  EffectiveAddr(c) = a
  <2>1. AddrSum(c) = a
    <3>1. a % (2 * AddrLimit) = a
      BY <1>2, <1>10
    <3> QED BY <1>7, <3>1 DEF AddrSum, Extend
  <2> QED BY <1>2, <1>10, <2>1 DEF EffectiveAddr
<1>11. Transfer!Target(c) = a /\ Transfer!Addrs = Addrs /\ (a \in Addrs <=> 0 =< a /\ a < AddrLimit)
  BY <1>2, <1>7 DEF Transfer!Target, Transfer!Addrs, Addrs
<1>12. AddrError(c) <=> ~Transfer!Reachable(c)
  <2>1. CASE ~(0 =< a /\ a < AddrLimit)
    <3>1. AddrError(c)
      BY <1>9, <2>1 DEF AddrError
    <3>2. ~Transfer!Reachable(c)
      BY <1>2, <1>3, <1>5, <1>6, <1>11, <2>1 DEF Transfer!Reachable
    <3> QED BY <3>1, <3>2
  <2>2. CASE 0 =< a /\ a < AddrLimit
    <3>1. EffectiveAddr(c) = a
      BY <1>10, <2>2
    <3>2. TopBit(a + LastByteOffset(c)) <=> a + size > AddrLimit
      BY <1>2, <1>6 DEF TopBit
    <3>3. AddrError(c) <=> ~Indexed(c) /\ (a % RowBytes # 0 \/ a + size > AddrLimit)
      BY <1>9, <2>2, <3>1, <3>2 DEF AddrError
    <3>4. Transfer!Reachable(c) <=>
            IF Indexed(c) THEN TRUE
            ELSE a % RowBytes = 0 /\ a + size =< AddrLimit
      BY <1>3, <1>5, <1>6, <1>11, <2>2 DEF Transfer!Reachable
    <3> QED BY <1>2, <1>6, <3>3, <3>4
  <2> QED BY <2>1, <2>2
<1>13. ~AddrError(c) => 0 =< a /\ a < AddrLimit
  BY <1>9 DEF AddrError
<1> QED BY <1>4, <1>10, <1>11, <1>12, <1>13

\* Where the current row of the command starts
Start == Cardinality(completed) * RowBytes

\* An accepted command is at its current group: the ones below are complete,
\* and what is committed and addressed follows from how many they are.
PlaceInv ==
  /\ cmd \in Command /\ ~FieldsError(cmd) /\ ~AddrError(cmd)
  /\ base = Transfer!Target(cmd)
  /\ group \in cmd.groups /\ completed = Below(cmd, group)
  /\ remaining = cmd.groups \ completed
  /\ lane \in Lanes
  /\ committed = Start + Within
  /\ ~Indexed(cmd) => addr = base + Start

\* What the place of a command says about its numbers, stated once.
LEMMA CommandFacts ==
  ASSUME PlaceInv
  PROVE  /\ cmd.groups \in SUBSET Groups /\ group \in Groups
         /\ Cardinality(completed) \in Nat
         /\ Cardinality(cmd.groups) \in Nat \ {0}
         /\ Cardinality(completed) + 1 =< Cardinality(cmd.groups)
         /\ Transfer!Rank(cmd, group) = Cardinality(completed)
         /\ Start \in Nat /\ RowBytes \in Nat \ {0}
         /\ AddrLimit \in Nat \ {0}
         /\ cmd.span \in Nat /\ base \in Addrs
         /\ Lanes = 0..(RowBytes - 1)
         /\ Transfer!Indexed(cmd) <=> Indexed(cmd)
         /\ Transfer!Cardinality(cmd.groups) = Cardinality(cmd.groups)
         /\ Transfer!WellFormed(cmd) /\ Transfer!Reachable(cmd)
<1>1. cmd.groups \in SUBSET Groups /\ cmd.span \in Nat
  BY DEF PlaceInv, Command
<1>2. group \in Groups /\ completed = Below(cmd, group)
  BY <1>1 DEF PlaceInv
<1>3. /\ Transfer!Rank(cmd, group) = Cardinality(completed)
      /\ Cardinality(completed) \in Nat
  BY <1>1, <1>2, RankIs
<1>4. Cardinality(completed) + 1 =< Cardinality(cmd.groups)
  BY <1>1, <1>3, RankFits DEF PlaceInv
<1>5. RowBytes \in Nat \ {0} /\ AddrLimit \in Nat \ {0}
  <2>1. GroupCount * RowBytes \in Nat
    BY GeometryAssumption
  <2> QED BY <2>1, GeometryAssumption
<1>6. Start \in Nat
  BY <1>3, <1>5 DEF Start
<1>7. /\ Transfer!WellFormed(cmd) /\ Transfer!Reachable(cmd) /\ base \in Addrs
      /\ Cardinality(cmd.groups) \in Nat \ {0}
  BY FieldsAgree, AddressesAgree DEF PlaceInv
<1>8. (Transfer!Indexed(cmd) <=> Indexed(cmd)) /\ Lanes = 0..(RowBytes - 1)
      /\ Transfer!Cardinality(cmd.groups) = Cardinality(cmd.groups)
  BY SameCount DEF Transfer!Indexed, Indexed, Lanes
<1> QED BY <1>1, <1>2, <1>3, <1>4, <1>5, <1>6, <1>7, <1>8

\* The last group is the one of the highest rank.
LEMMA LastRank ==
  ASSUME PlaceInv
  PROVE  LastGroup <=> Cardinality(completed) + 1 = Cardinality(cmd.groups)
<1>1. /\ cmd.groups \in SUBSET Groups /\ group \in cmd.groups
      /\ completed = Below(cmd, group) /\ remaining = cmd.groups \ completed
      /\ Transfer!Rank(cmd, group) = Cardinality(completed)
      /\ Cardinality(completed) \in Nat /\ Cardinality(cmd.groups) \in Nat
  BY CommandFacts DEF PlaceInv
<1>2. \A x \in cmd.groups : x \in Nat
  BY <1>1, GeometryAssumption DEF Groups
<1>3. After = {x \in cmd.groups : group < x}
  BY <1>1, <1>2 DEF After, Below
<1>4. ASSUME LastGroup PROVE Cardinality(completed) + 1 = Cardinality(cmd.groups)
  <2>1. cmd.groups = completed \cup {group} /\ group \notin completed
    BY <1>1, <1>2, <1>3, <1>4 DEF LastGroup, Below
  <2>2. IsFiniteSet(completed)
    BY <1>1, RankIs
  <2> QED BY <2>1, <2>2, FS_AddElement
<1>5. ASSUME ~LastGroup PROVE Cardinality(completed) + 1 # Cardinality(cmd.groups)
  <2>1. PICK h \in cmd.groups : group < h
    BY <1>3, <1>5 DEF LastGroup
  <2>2. Transfer!Rank(cmd, group) < Transfer!Rank(cmd, h) /\ Transfer!Rank(cmd, h) \in Nat
    BY <1>1, <2>1, RankGrows, RankIs
  <2>3. Transfer!Rank(cmd, h) + 1 =< Cardinality(cmd.groups)
    BY <1>1, RankFits
  <2> QED BY <1>1, <2>2, <2>3
<1> QED BY <1>4, <1>5

\* How many bytes the current row moves, and how many all do.
LEMMA RowSize ==
  ASSUME PlaceInv
  PROVE  \E m \in 1..RowBytes :
           /\ ByteMask = 0..(m - 1) /\ Cardinality(ByteMask) = m
           /\ Indexed(cmd) \/ ~LastGroup => m = RowBytes
           /\ Transfer!Total(cmd) \in Nat
           /\ LastGroup => Transfer!Total(cmd) = Start + m
           /\ ~LastGroup => Transfer!Total(cmd) > Start + RowBytes
<1> DEFINE Moves(m) ==
             /\ ByteMask = 0..(m - 1) /\ Cardinality(ByteMask) = m
             /\ Indexed(cmd) \/ ~LastGroup => m = RowBytes
             /\ Transfer!Total(cmd) \in Nat
             /\ LastGroup => Transfer!Total(cmd) = Start + m
             /\ ~LastGroup => Transfer!Total(cmd) > Start + RowBytes
<1> SUFFICES \E m \in 1..RowBytes : Moves(m)
  OBVIOUS
<1>1. PICK n \in Nat \ {0}, i \in Nat :
        n = Cardinality(cmd.groups) /\ i = Cardinality(completed) /\ i + 1 =< n
  BY CommandFacts
<1>2. PICK r \in Nat \ {0} : r = RowBytes
  BY CommandFacts
<1>3. PICK p \in Nat : p = i * r /\ Start = p /\ (i + 1) * r = p + r
  BY <1>1, <1>2, Products DEF Start
<1>4. PICK s \in Nat : s = cmd.span
  BY CommandFacts
<1>5. LastGroup <=> i + 1 = n
  BY <1>1, LastRank
<1>6. ~Indexed(cmd) => s > (n - 1) * r /\ s =< n * r
  BY <1>1, <1>2, <1>4, CommandFacts DEF Transfer!WellFormed
<1>7. Transfer!Total(cmd) = IF Indexed(cmd) THEN n * r ELSE s
  BY <1>1, <1>2, <1>4, CommandFacts DEF Transfer!Total
<1>8. \A m \in 1..r : IsFiniteSet(0..(m - 1)) /\ Cardinality(0..(m - 1)) = m
  BY FS_Interval
<1>9. n * r \in Nat
  BY <1>1, <1>2
<1>10. CASE ~LastGroup
  <2>1. ByteMask = 0..(r - 1)
    BY <1>2, <1>10, CommandFacts DEF ByteMask
  <2>2. (i + 1) * r + r =< n * r
    BY <1>1, <1>5, <1>10, RowsInOrder
  <2>3. ~Indexed(cmd) => (i + 1) * r =< (n - 1) * r
    <3>1. i + 1 =< n - 1 /\ n - 1 \in Nat /\ i + 1 \in Nat
      BY <1>1, <1>5, <1>10
    <3> QED BY <3>1, RowsKeepOrder
  <2>4. (n - 1) * r \in Nat
    BY <1>1, <1>2
  <2>5. Transfer!Total(cmd) > p + r /\ Transfer!Total(cmd) \in Nat
    BY <1>3, <1>6, <1>7, <1>9, <2>2, <2>3, <2>4
  <2>6. Moves(r) /\ r \in 1..RowBytes
    BY <1>2, <1>3, <1>8, <1>10, <2>1, <2>5
  <2> HIDE DEF Moves
  <2> QED BY <2>6
<1>11. CASE LastGroup /\ (Indexed(cmd) \/ s % r = 0)
  <2>1. ByteMask = 0..(r - 1)
    BY <1>2, <1>4, <1>11, CommandFacts DEF ByteMask, FinalBytes
  <2>2. n * r = p + r
    BY <1>3, <1>5, <1>11
  <2>3. ~Indexed(cmd) => s = p + r
    <3> SUFFICES ASSUME ~Indexed(cmd) PROVE s = p + r
      OBVIOUS
    <3>1. s > p /\ s =< p + r
      <4>1. n - 1 = i
        BY <1>1, <1>5, <1>11
      <4> QED BY <1>3, <1>6, <2>2, <4>1
    <3>2. s % r = 0
      BY <1>11
    <3>3. CASE s < p + r
      <4>1. s - p \in 0..(r - 1) /\ s = i * r + (s - p)
        BY <1>3, <3>1, <3>3
      <4>2. (i * r + (s - p)) % r = s - p
        BY <4>1, RowAndLane
      <4> QED BY <3>1, <3>2, <4>1, <4>2
    <3> QED BY <3>1, <3>3
  <2>4. Transfer!Total(cmd) = p + r
    BY <1>7, <2>2, <2>3
  <2>5. Moves(r) /\ r \in 1..RowBytes
    BY <1>2, <1>3, <1>8, <1>11, <2>1, <2>4
  <2> HIDE DEF Moves
  <2> QED BY <2>5
<1>12. CASE LastGroup /\ ~Indexed(cmd) /\ s % r # 0
  <2>1. s > p /\ s =< p + r
    <3>1. n - 1 = i
      BY <1>1, <1>5, <1>12
    <3>2. n * r = p + r
      BY <1>3, <1>5, <1>12
    <3> QED BY <1>3, <1>6, <1>12, <3>1, <3>2
  <2>2. s # p + r
    <3> SUFFICES ASSUME s = p + r PROVE FALSE
      OBVIOUS
    <3>1. s = (i + 1) * r + 0 /\ 0 \in 0..(r - 1) /\ i + 1 \in Nat
      BY <1>3
    <3>2. ((i + 1) * r + 0) % r = 0
      BY <3>1, RowAndLane
    <3> QED BY <1>12, <3>1, <3>2
  <2>3. PICK m \in 1..(r - 1) : m = s - p
    BY <2>1, <2>2
  <2>4. s % r = m
    <3>1. s = i * r + m /\ m \in 0..(r - 1)
      BY <1>3, <2>3
    <3> QED BY <3>1, RowAndLane
  <2>5. ByteMask = 0..(m - 1)
    BY <1>2, <1>4, <1>12, <2>4 DEF ByteMask, FinalBytes
  <2>6. m \in 1..RowBytes
    BY <1>2
  <2>7. Moves(m)
    <3>1. Cardinality(0..(m - 1)) = m
      BY <1>8
    <3>2. Transfer!Total(cmd) = p + m /\ p + m \in Nat
      BY <1>4, <1>7, <1>12, <2>1, <2>3
    <3> QED BY <1>3, <1>12, <2>5, <3>1, <3>2
  <2> HIDE DEF Moves
  <2> QED BY <2>6, <2>7
<1> QED BY <1>10, <1>11, <1>12

\* The bytes of the current row belong to the current group, in its lanes.
LEMMA ByteOfRow ==
  ASSUME PlaceInv, NEW l \in Lanes
  PROVE  /\ Start + l \in Nat
         /\ (Start + l) \div RowBytes = Cardinality(completed)
         /\ Transfer!LaneAt(Start + l) = l
         /\ Transfer!GroupAt(cmd, Start + l) = group
<1>1. l \in 0..(RowBytes - 1) /\ Start \in Nat /\ RowBytes \in Nat \ {0}
      /\ Cardinality(completed) \in Nat /\ cmd.groups \in SUBSET Groups
      /\ Transfer!Rank(cmd, group) = Cardinality(completed)
  BY CommandFacts
<1>2. /\ (Start + l) \div RowBytes = Cardinality(completed)
      /\ (Start + l) % RowBytes = l
  BY <1>1, RowAndLane DEF Start
<1>3. Start + l \in Nat
  BY <1>1
<1>4. Transfer!GroupAt(cmd, Start + l) = group
  BY <1>1, <1>2, <1>3, GroupOfByte DEF PlaceInv
<1> QED BY <1>2, <1>3, <1>4 DEF Transfer!LaneAt

\* The bytes that move together are those of the current row.
LEMMA BeatOfRow ==
  ASSUME PlaceInv, ~Transfer!Bytewise(cmd)
  PROVE  /\ Transfer!Beat(cmd, Start) = {Start + l : l \in ByteMask}
         /\ Transfer!Cardinality(Transfer!Beat(cmd, Start)) = Cardinality(ByteMask)
<1>1. PICK m \in 1..RowBytes :
           /\ ByteMask = 0..(m - 1) /\ Cardinality(ByteMask) = m
           /\ Indexed(cmd) \/ ~LastGroup => m = RowBytes
           /\ Transfer!Total(cmd) \in Nat
           /\ LastGroup => Transfer!Total(cmd) = Start + m
           /\ ~LastGroup => Transfer!Total(cmd) > Start + RowBytes
  BY RowSize
<1>2. Start \in Nat /\ RowBytes \in Nat \ {0} /\ Lanes = 0..(RowBytes - 1)
      /\ Cardinality(completed) \in Nat
  BY CommandFacts
<1>3. Start \div RowBytes = Cardinality(completed)
  <2>1. 0 \in Lanes /\ Start + 0 = Start
    BY <1>2
  <2> QED BY <2>1, ByteOfRow
<1>4. \A j \in 0..(Transfer!Total(cmd) - 1) :
        j \div RowBytes = Cardinality(completed) <=> j \in Start..(Start + m - 1)
  <2> SUFFICES ASSUME NEW j \in 0..(Transfer!Total(cmd) - 1)
               PROVE  j \div RowBytes = Cardinality(completed) <=> j \in Start..(Start + m - 1)
    OBVIOUS
  <2>1. j \in Nat /\ (LastGroup => j < Start + m)
    BY <1>1, <1>2
  <2>2. ASSUME j \in Start..(Start + m - 1) PROVE j \div RowBytes = Cardinality(completed)
    <3>1. PICK l \in Lanes : j = Start + l
      <4>1. j - Start \in Lanes /\ j = Start + (j - Start)
        BY <1>1, <1>2, <2>2
      <4> QED BY <4>1
    <3> QED BY <3>1, ByteOfRow
  <2>3. ASSUME j \div RowBytes = Cardinality(completed) PROVE j \in Start..(Start + m - 1)
    <3>1. PICK l \in 0..(RowBytes - 1) : j = Start + l
      <4>1. j % RowBytes \in 0..(RowBytes - 1) /\ j = (j \div RowBytes) * RowBytes + (j % RowBytes)
        BY <1>2, <2>1, LaneOfRow
      <4> QED BY <2>3, <4>1 DEF Start
    <3>2. ~LastGroup => m = RowBytes
      BY <1>1
    <3> QED BY <1>1, <1>2, <2>1, <3>1, <3>2
  <2> QED BY <2>2, <2>3
<1>5. Start + m =< Transfer!Total(cmd)
  BY <1>1, <1>2
<1>6. Transfer!Beat(cmd, Start) = Start..(Start + m - 1)
  <2>1. Transfer!Beat(cmd, Start) =
          {j \in 0..(Transfer!Total(cmd) - 1) : j \div RowBytes = Cardinality(completed)}
    BY <1>3 DEF Transfer!Beat
  <2>2. \A j : j \in Start..(Start + m - 1) => j \in 0..(Transfer!Total(cmd) - 1)
    BY <1>1, <1>2, <1>5
  <2> QED BY <1>4, <2>1, <2>2
<1>7. Start..(Start + m - 1) = {Start + l : l \in ByteMask}
  <2>1. \A j \in Start..(Start + m - 1) : j - Start \in 0..(m - 1) /\ j = Start + (j - Start)
    BY <1>2
  <2>2. \A l \in 0..(m - 1) : Start + l \in Start..(Start + m - 1)
    BY <1>2
  <2> QED BY <1>1, <2>1, <2>2
<1>8. Cardinality(Start..(Start + m - 1)) = m
  <2>1. Start \in Int /\ Start + m - 1 \in Int /\ Start =< Start + m - 1
    BY <1>2
  <2>2. (Start + m - 1) - Start + 1 = m
    BY <1>2
  <2> QED BY <2>1, <2>2, FS_Interval
<1> QED BY <1>1, <1>6, <1>7, <1>8, SameCount

\* The groups whose bytes have all moved are those counted as complete.
LEMMA CompleteSoFar ==
  ASSUME PlaceInv, NEW l \in Lanes, l # 0 => Indexed(cmd)
  PROVE  Transfer!Complete(cmd, Start + l) = completed
<1>1. /\ Start \in Nat /\ RowBytes \in Nat \ {0} /\ l \in 0..(RowBytes - 1)
      /\ Cardinality(completed) \in Nat /\ cmd.groups \in SUBSET Groups
      /\ Transfer!Rank(cmd, group) = Cardinality(completed)
      /\ completed = Below(cmd, group) /\ group \in cmd.groups
  BY CommandFacts DEF PlaceInv
<1>2. PICK n \in Nat \ {0} : n = Cardinality(cmd.groups)
  BY CommandFacts
<1>3. /\ Transfer!Total(cmd) \in Nat /\ Transfer!Total(cmd) =< n * RowBytes
      /\ Transfer!Total(cmd) > (n - 1) * RowBytes
      /\ Indexed(cmd) => Transfer!Total(cmd) = n * RowBytes
  <2>1. Transfer!Total(cmd) = IF Indexed(cmd) THEN n * RowBytes ELSE cmd.span
    BY <1>2, CommandFacts DEF Transfer!Total
  <2>2. ~Indexed(cmd) => cmd.span > (n - 1) * RowBytes /\ cmd.span =< n * RowBytes
    BY <1>2, CommandFacts DEF Transfer!WellFormed
  <2>3. (n - 1) * RowBytes + RowBytes =< n * RowBytes /\ (n - 1) * RowBytes \in Nat
        /\ n * RowBytes \in Nat
    <3>1. n - 1 \in Nat
      OBVIOUS
    <3> QED BY <1>1, <3>1, RowsInOrder
  <2> QED BY <1>1, <2>1, <2>2, <2>3, CommandFacts
<1>4. ASSUME NEW g \in completed, NEW j \in 0..(Transfer!Total(cmd) - 1),
             Transfer!GroupAt(cmd, j) = g
      PROVE  j < Start + l
  <2> SUFFICES ASSUME j >= Start + l PROVE FALSE
    BY <1>1, <1>3
  <2>a. j \in Nat
    BY <1>3
  <2>1. j \in Nat /\ j \div RowBytes \in Nat /\ j = (j \div RowBytes) * RowBytes + (j % RowBytes)
        /\ j % RowBytes \in 0..(RowBytes - 1)
    BY <1>1, <2>a, LaneOfRow
  <2>2. j \div RowBytes < n
    <3> SUFFICES ASSUME n =< j \div RowBytes PROVE FALSE
      BY <2>1
    <3>1. n * RowBytes =< (j \div RowBytes) * RowBytes
      BY <1>1, <2>1, RowsKeepOrder
    <3> QED BY <1>1, <1>3, <2>1, <3>1
  <2>3. PICK h \in cmd.groups : Transfer!Rank(cmd, h) = j \div RowBytes
    BY <1>1, <1>2, <2>1, <2>2, EveryRank
  <2>4. h = g
    BY <1>1, <1>4, <2>1, <2>3, GroupOfByte
  <2>5. Transfer!Rank(cmd, g) < Cardinality(completed)
    <3>1. g \in cmd.groups /\ g < group /\ group \in Groups
      BY <1>1 DEF Below
    <3> QED BY <1>1, <3>1, RankGrows
  <2>6. (j \div RowBytes) * RowBytes + RowBytes =< Start
    BY <1>1, <2>1, <2>3, <2>4, <2>5, RowsInOrder DEF Start
  <2>7. PICK p \in Nat : p = (j \div RowBytes) * RowBytes
    BY <1>1, <2>1
  <2> QED BY <1>1, <2>1, <2>6, <2>7
<1>5. ASSUME NEW g \in cmd.groups, g \notin completed
      PROVE  \E j \in 0..(Transfer!Total(cmd) - 1) :
               Transfer!GroupAt(cmd, j) = g /\ ~(j < Start + l)
  <2>1. g \in Nat /\ group \in Nat /\ group =< g
    BY <1>1, <1>5, GeometryAssumption DEF Below, Groups
  <2>2. CASE g = group
    <3>1. Start + l \in 0..(Transfer!Total(cmd) - 1)
      <4>1. Start + RowBytes =< n * RowBytes
        BY <1>1, <1>2, CommandFacts, RowsInOrder DEF Start
      <4>2. CASE l = 0
        <5>1. Start =< (n - 1) * RowBytes /\ (n - 1) * RowBytes \in Nat
          <6>1. Cardinality(completed) =< n - 1 /\ n - 1 \in Nat
            BY <1>1, <1>2, CommandFacts
          <6> QED BY <1>1, <6>1, RowsKeepOrder DEF Start
        <5> QED BY <1>1, <1>3, <4>2, <5>1
      <4>3. CASE Indexed(cmd)
        BY <1>1, <1>3, <4>1, <4>3
      <4> QED BY <4>2, <4>3
    <3>2. Transfer!GroupAt(cmd, Start + l) = g /\ ~(Start + l < Start + l)
      BY <2>2, ByteOfRow, <1>1
    <3> QED BY <3>1, <3>2
  <2>3. CASE group < g
    <3>1. PICK i \in Nat : i = Transfer!Rank(cmd, g)
      BY <1>1, RankIs
    <3>2. Cardinality(completed) < i /\ i + 1 =< n
      BY <1>1, <1>2, <2>3, <3>1, RankGrows, RankFits
    <3>3. PICK j \in Nat : j = i * RowBytes /\ j = i * RowBytes + 0
      BY <1>1
    <3>4. j \div RowBytes = i
      <4>1. 0 \in 0..(RowBytes - 1)
        BY <1>1
      <4> QED BY <1>1, <3>3, <4>1, RowAndLane
    <3>5. Transfer!GroupAt(cmd, j) = g
      BY <1>1, <3>1, <3>4, GroupOfByte
    <3>6. Start + RowBytes =< j
      BY <1>1, <3>2, <3>3, RowsInOrder DEF Start
    <3>7. j =< (n - 1) * RowBytes /\ (n - 1) * RowBytes \in Nat
      <4>1. i =< n - 1 /\ n - 1 \in Nat
        BY <3>2
      <4> QED BY <1>1, <3>3, <4>1, RowsKeepOrder
    <3>8. j \in 0..(Transfer!Total(cmd) - 1) /\ ~(j < Start + l)
      BY <1>1, <1>3, <3>6, <3>7
    <3> QED BY <3>5, <3>8
  <2> QED BY <2>1, <2>2, <2>3
<1>6. completed \subseteq cmd.groups
  BY <1>1 DEF Below
<1> QED BY <1>4, <1>5, <1>6 DEF Transfer!Complete

\* Bytes of the memory and of the register file
Byte == [name : Seq(Int), number : Nat]
Row == [Lanes -> Byte]

\* The bytes behind the endpoints, and those being loaded, are bytes.
BytesInv ==
  /\ mem \in [Addrs -> Byte]
  /\ vrf \in [Groups -> [0..(Rows - 1) -> Row]]
  /\ loadRow \in Row

\* The first byte of the current row.
LEMMA FirstOfRow ==
  ASSUME PlaceInv
  PROVE  Transfer!GroupAt(cmd, Start) = group /\ Transfer!LaneAt(Start) = 0 /\ 0 \in Lanes
<1>1. 0 \in Lanes /\ Start + 0 = Start
  BY CommandFacts
<1> QED BY <1>1, ByteOfRow

\* Rows the engine reads exist.
LEMMA RowsExist ==
  ASSUME PlaceInv
  PROVE  /\ cmd.row \in 0..(Rows - 1)
         /\ Indexed(cmd) => cmd.index \in 0..(Rows - 1)
<1>1. cmd.row \in Nat /\ cmd.index \in Nat
  BY DEF PlaceInv, Command
<1> QED BY <1>1, GeometryAssumption DEF PlaceInv, FieldsError

\* The addresses of a linear row are in the memory, one after the other.
LEMMA LinearPlace ==
  ASSUME PlaceInv, ~Indexed(cmd), NEW l \in Lanes
  PROVE  /\ Transfer!AddrAt(cmd, Start + l) = addr + l
         /\ addr + l \in Addrs /\ (addr + l) % AddrLimit = addr + l
<1>1. PICK n \in Nat \ {0}, r \in Nat \ {0} : n = Cardinality(cmd.groups) /\ r = RowBytes
  BY CommandFacts
<1>2. base + n * r =< AddrLimit /\ base \in Nat
  BY <1>1, CommandFacts DEF Transfer!Reachable, PlaceInv, Addrs
<1>3. Start + r =< n * r
  BY <1>1, CommandFacts, RowsInOrder DEF Start
<1>4. PICK p \in Nat : p = n * r
  BY <1>1
<1>5. addr = base + Start /\ Start \in Nat /\ l \in 0..(r - 1)
  BY <1>1, CommandFacts DEF PlaceInv
<1>6. addr + l \in Nat /\ addr + l < AddrLimit /\ AddrLimit \in Nat \ {0}
  BY <1>2, <1>3, <1>4, <1>5, CommandFacts
<1>7. Transfer!AddrAt(cmd, Start + l) = base + (Start + l)
  BY CommandFacts DEF Transfer!AddrAt, PlaceInv
<1>8. (addr + l) % AddrLimit = addr + l
  BY <1>6
<1> QED BY <1>2, <1>5, <1>6, <1>7, <1>8 DEF Addrs

\* The address an index stands for.
LEMMA IndexedPlace ==
  ASSUME PlaceInv, Indexed(cmd), NEW l \in Lanes
  PROVE  Transfer!AddrAt(cmd, Start + l) = base + vrf[group][cmd.index][l].number
<1>1. Transfer!GroupAt(cmd, Start + l) = group /\ Transfer!LaneAt(Start + l) = l
  BY ByteOfRow
<1> QED BY <1>1, CommandFacts DEF Transfer!AddrAt, PlaceInv

\* A row that is written with what its places in memory hold moves as promised.
LEMMA RowIsCarried ==
  ASSUME PlaceInv, BytesInv, cmd.op = "LOAD",
         \A l \in ByteMask : /\ Transfer!AddrAt(cmd, Start + l) \in Addrs
                             /\ loadRow[l] = mem[Transfer!AddrAt(cmd, Start + l)],
         vrf' = [vrf EXCEPT ![group][cmd.row] =
                   [l \in Lanes |-> IF l \in ByteMask THEN loadRow[l] ELSE @[l]]],
         mem' = mem
  PROVE  Transfer!Carry(cmd, Start)
<1> DEFINE beat == Transfer!Beat(cmd, Start)
<1>1. beat = {Start + l : l \in ByteMask}
  BY BeatOfRow DEF Transfer!Bytewise
<1>2. ByteMask \subseteq Lanes
  BY RowSize, CommandFacts
<1>3. \A l \in ByteMask : Start + l \in beat /\ Transfer!LaneAt(Start + l) = l
  BY <1>1, <1>2, ByteOfRow
<1>4. \A b \in beat : b = Start + Transfer!LaneAt(b) /\ Transfer!LaneAt(b) \in ByteMask
  BY <1>1, <1>3
<1>5. \A b \in beat : Transfer!AddrAt(cmd, b) \in Addrs
  BY <1>1
<1>6. Transfer!Addrs = Addrs /\ Transfer!Lanes = Lanes
  BY DEF Transfer!Addrs, Addrs, Transfer!Lanes, Lanes
<1> HIDE DEF beat
<1>7. \A l \in Lanes :
        /\ (\E b \in beat : Transfer!LaneAt(b) = l) <=> l \in ByteMask
        /\ l \in ByteMask => (CHOOSE b \in beat : Transfer!LaneAt(b) = l) = Start + l
  BY <1>3, <1>4
<1>8. [l \in Lanes |->
         IF \E b \in beat : Transfer!LaneAt(b) = l
         THEN mem[Transfer!AddrAt(cmd, CHOOSE b \in beat : Transfer!LaneAt(b) = l)]
         ELSE vrf[group][cmd.row][l]] =
      [l \in Lanes |-> IF l \in ByteMask THEN loadRow[l] ELSE vrf[group][cmd.row][l]]
  BY <1>7
<1>9. Transfer!GroupAt(cmd, Start) = group
  BY FirstOfRow
<1>10. vrf' = [vrf EXCEPT ![group][cmd.row] =
                 [l \in Lanes |->
                    IF \E b \in beat : Transfer!LaneAt(b) = l
                    THEN mem[Transfer!AddrAt(cmd, CHOOSE b \in beat : Transfer!LaneAt(b) = l)]
                    ELSE @[l]]]
  BY <1>8
<1> QED BY <1>5, <1>6, <1>9, <1>10 DEF Transfer!Carry, beat

\* ... and so does a row that is stored at the places of its bytes.
LEMMA RowIsStored ==
  ASSUME PlaceInv, BytesInv, cmd.op = "STORE", ~Indexed(cmd),
         storeRow = vrf[group][cmd.row],
         mem' = [x \in Addrs |-> IF x - addr \in ByteMask THEN storeRow[x - addr] ELSE mem[x]],
         vrf' = vrf
  PROVE  Transfer!Carry(cmd, Start)
<1> DEFINE beat == Transfer!Beat(cmd, Start)
<1>1. beat = {Start + l : l \in ByteMask}
  BY BeatOfRow, CommandFacts DEF Transfer!Bytewise
<1>2. ByteMask \subseteq Lanes
  BY RowSize, CommandFacts
<1>3. \A l \in ByteMask : /\ Start + l \in beat /\ Transfer!LaneAt(Start + l) = l
                          /\ Transfer!AddrAt(cmd, Start + l) = addr + l /\ addr + l \in Addrs
  BY <1>1, <1>2, ByteOfRow, LinearPlace
<1>4. \A b \in beat : \E l \in ByteMask : b = Start + l
  BY <1>1
<1>5. Transfer!Addrs = Addrs /\ Lanes \subseteq Int /\ Addrs \subseteq Int /\ addr \in Int
  BY CommandFacts DEF Transfer!Addrs, Addrs, PlaceInv
<1> HIDE DEF beat
<1>6. \A x \in Addrs :
        /\ (\E b \in beat : Transfer!AddrAt(cmd, b) = x) <=> x - addr \in ByteMask
        /\ x - addr \in ByteMask =>
             (CHOOSE b \in beat : Transfer!AddrAt(cmd, b) = x) = Start + (x - addr)
  <2> SUFFICES ASSUME NEW x \in Addrs
               PROVE  /\ (\E b \in beat : Transfer!AddrAt(cmd, b) = x) <=> x - addr \in ByteMask
                      /\ x - addr \in ByteMask =>
                           (CHOOSE b \in beat : Transfer!AddrAt(cmd, b) = x) = Start + (x - addr)
    OBVIOUS
  <2>1. \A b \in beat : Transfer!AddrAt(cmd, b) = x =>
          x - addr \in ByteMask /\ b = Start + (x - addr)
    <3> SUFFICES ASSUME NEW b \in beat, Transfer!AddrAt(cmd, b) = x
                 PROVE  x - addr \in ByteMask /\ b = Start + (x - addr)
      OBVIOUS
    <3>1. PICK l \in ByteMask : b = Start + l
      BY <1>4
    <3>2. x = addr + l /\ l \in Int
      BY <1>2, <1>3, <1>5, <3>1
    <3>3. x - addr = l
      BY <1>5, <3>2
    <3> QED BY <3>1, <3>3
  <2>2. x - addr \in ByteMask =>
          Start + (x - addr) \in beat /\ Transfer!AddrAt(cmd, Start + (x - addr)) = x
    <3>1. addr + (x - addr) = x
      BY <1>5
    <3> QED BY <1>3, <3>1
  <2> QED BY <2>1, <2>2
<1>7. [x \in Addrs |->
         IF \E b \in beat : Transfer!AddrAt(cmd, b) = x
         THEN vrf[group][cmd.row][Transfer!LaneAt(CHOOSE b \in beat : Transfer!AddrAt(cmd, b) = x)]
         ELSE mem[x]] = mem'
  BY <1>3, <1>6
<1>8. \A b \in beat : Transfer!AddrAt(cmd, b) \in Addrs
  BY <1>3, <1>4
<1>9. Transfer!GroupAt(cmd, Start) = group
  BY FirstOfRow
<1>10. mem' = [a \in Addrs |->
         IF \E b \in beat : Transfer!AddrAt(cmd, b) = a
         THEN vrf[group][cmd.row][Transfer!LaneAt(CHOOSE b \in beat : Transfer!AddrAt(cmd, b) = a)]
         ELSE mem[a]]
  BY <1>7
<1> QED BY <1>5, <1>8, <1>9, <1>10 DEF Transfer!Carry, beat

\* A byte that is scattered moves alone.
LEMMA ByteIsScattered ==
  ASSUME PlaceInv, BytesInv, cmd.op = "STORE", Indexed(cmd),
         NEW x \in Addrs, x = Transfer!AddrAt(cmd, Start + lane),
         mem' = [mem EXCEPT ![x] = vrf[group][cmd.row][lane]],
         vrf' = vrf
  PROVE  /\ Transfer!Carry(cmd, Start + lane)
         /\ Transfer!Beat(cmd, Start + lane) = {Start + lane}
         /\ Transfer!Cardinality(Transfer!Beat(cmd, Start + lane)) = 1
<1> DEFINE k == Start + lane
           beat == Transfer!Beat(cmd, k)
<1>1. beat = {k}
  BY CommandFacts DEF Transfer!Beat, Transfer!Bytewise
<1>2. Transfer!LaneAt(k) = lane /\ Transfer!GroupAt(cmd, k) = group
  BY ByteOfRow DEF PlaceInv
<1>3. Transfer!Addrs = Addrs
  BY DEF Transfer!Addrs, Addrs
<1>4. Transfer!Cardinality(beat) = 1
  BY <1>1, SameCount, FS_Singleton
<1>5. x = Transfer!AddrAt(cmd, k)
  OBVIOUS
<1> HIDE DEF beat, k
<1>6. \A a \in Addrs :
        /\ (\E b \in beat : Transfer!AddrAt(cmd, b) = a) <=> a = x
        /\ (\E b \in beat : Transfer!AddrAt(cmd, b) = a) =>
             (CHOOSE b \in beat : Transfer!AddrAt(cmd, b) = a) = k
  BY <1>1, <1>5
<1>7. mem' = [a \in Addrs |->
         IF \E b \in beat : Transfer!AddrAt(cmd, b) = a
         THEN vrf[group][cmd.row][Transfer!LaneAt(CHOOSE b \in beat : Transfer!AddrAt(cmd, b) = a)]
         ELSE mem[a]]
  BY <1>2, <1>6 DEF BytesInv
<1>8. \A b \in beat : Transfer!AddrAt(cmd, b) \in Addrs
  BY <1>1, <1>5
<1>9. Transfer!Carry(cmd, k)
  BY <1>2, <1>3, <1>7, <1>8 DEF Transfer!Carry, beat
<1> QED BY <1>1, <1>4, <1>9 DEF beat, k

\* The rows a step moves, the address of an indexed lane, and the lanes of a
\* gather that have been read.
MemRow(a) == [l \in Lanes |-> mem[a + l]]
SourceRow == vrf[group][IF kind = "INDEX" THEN cmd.index ELSE cmd.row]
Place(l) == base + indexRow[l].number
Gathered(lanes) ==
  \A l \in lanes : Place(l) \in Addrs /\ loadRow[l] = mem[Place(l)]

\* The states that request an indexed byte, and those that read a row
Requesting == state \in {"INDEXED_DMEM_REQ", "INDEXED_DMEM_RSP"}
Reading == state \in {"VRF_READ_REQ", "VRF_READ_WAIT"}

\* What the engine and the answers carry is what lies at the places the
\* command names, from the read until the write.
CarriedInv ==
  /\ state = "LINEAR_LOAD_DMEM_RSP" /\ dmemAnswer.cause = "NONE" =>
       dmemAnswer.row = MemRow(addr)
  /\ state = "VRF_WRITE_REQ" =>
       IF Indexed(cmd) THEN indexRow = vrf[group][cmd.index] /\ Gathered(Lanes)
       ELSE loadRow = MemRow(addr)
  /\ state = "VRF_READ_WAIT" =>
       /\ readRsp.valid /\ readRsp.verdict = "OK" => readRsp.row = SourceRow
       /\ rspSeen /\ ~readBad => readRow = SourceRow
  /\ state = "LINEAR_STORE_DMEM_REQ" => storeRow = vrf[group][cmd.row]
  /\ Reading /\ kind = "SCATTER_DATA" =>
       cmd.op = "STORE" /\ indexRow = vrf[group][cmd.index]
  /\ Requesting =>
       /\ indexRow = vrf[group][cmd.index]
       /\ cmd.op = "STORE" => storeRow = vrf[group][cmd.row]
       /\ cmd.op = "LOAD" => Gathered(0..(lane - 1))
  /\ state = "INDEXED_DMEM_RSP" =>
       /\ Place(lane) \in Addrs
       /\ cmd.op = "LOAD" /\ dmemAnswer.cause = "NONE" =>
            dmemAnswer.row[BeatLane] = mem[ByteAddr]
  /\ state = "VRF_WRITE_CPL" /\ writeAnswer.verdict = "OK" => writeAnswer.done
  /\ dmemAnswer.valid => dmemAnswer.cause \in Faults \cup {"NONE"}

\* The strengthening that makes every edge a step of the transfer.
TransferInv == Busy => PlaceInv /\ BytesInv /\ CarriedInv

EngineInv == VectorInv /\ NothingLeftOut /\ TransferInv

----------------------------------------------------------------------------
(* Steps of the abstract transfer                                          *)

\* The bytes that have reached their destination
Moved == committed + Underway

\* What is underway follows from the state of the engine.
UnderwayByState ==
  /\ Underway = IF state = "VRF_WRITE_CPL"
                THEN IF writeAnswer.done THEN Cardinality(ByteMask) ELSE 0
                ELSE IF state = "LINEAR_STORE_DMEM_RSP" /\ dmemAnswer.cause = "NONE"
                THEN Cardinality(ByteMask)
                ELSE IF /\ state = "INDEXED_DMEM_RSP" /\ cmd.op = "STORE"
                        /\ dmemAnswer.cause = "NONE"
                THEN 1 ELSE 0
  /\ committed \in 0..(GroupCount * RowBytes)
  /\ cmd.op \in {"LOAD", "STORE"}

\* It does in every state the engine can be in.
LEMMA UnderwayIs == VectorInv /\ NothingLeftOut => UnderwayByState
BY DEF VectorInv, VectorTypeOK, NothingLeftOut, PathInv, Underway, UnderwayByState

\* The same after a step.
LEMMA UnderwayNext == (VectorInv /\ NothingLeftOut)' => UnderwayByState'
BY UnderwayIs, PTL

\* A beat whose bytes are carried is a step of the transfer.
LEMMA MoveStep ==
  ASSUME Busy, Busy', cmd' = cmd, cmd.op \in {"LOAD", "STORE"},
         NEW k, Moved = k, k < Transfer!Total(cmd), Transfer!Carry(cmd, k),
         Moved' = k + Transfer!Cardinality(Transfer!Beat(cmd, k))
  PROVE  Transfer!Next
<1>1. cmd # [op |-> "NONE"] /\ state # "IDLE" /\ state # "DONE" /\ state' # "IDLE" /\ state' # "DONE"
  BY DEF Busy
<1>2. Transfer!Running
  BY <1>1 DEF Transfer!Running, Transfer!NoJob, Transfer!NoReport
<1>3. Transfer!Move
  BY <1>1, <1>2 DEF Transfer!Move, Moved
<1> QED BY <1>3 DEF Transfer!Next

\* A step that moves no byte leaves the transfer where it is.
LEMMA StutterStep ==
  ASSUME Busy, Busy', cmd' = cmd, mem' = mem, vrf' = vrf, Moved' = Moved
  PROVE  UNCHANGED Transfer!vars
BY DEF Busy, Transfer!vars, Moved

\* The next byte to be committed belongs to the current group.
LEMMA NextByte ==
  ASSUME PlaceInv
  PROVE  /\ Within \in Lanes /\ (Within # 0 => Indexed(cmd) /\ Transfer!Bytewise(cmd))
         /\ Transfer!GroupAt(cmd, committed) = group
         /\ Transfer!Complete(cmd, committed) = completed
         /\ committed < Transfer!Total(cmd) /\ committed \in Nat
         /\ Indexed(cmd) => Start + lane \in Transfer!Beat(cmd, committed)
<1>1. Within \in Lanes /\ (Within # 0 => Indexed(cmd) /\ Transfer!Bytewise(cmd))
  BY CommandFacts DEF PlaceInv, Within, Transfer!Bytewise
<1>2. committed = Start + Within
  BY DEF PlaceInv
<1>3. Transfer!GroupAt(cmd, committed) = group
  BY <1>1, <1>2, ByteOfRow
<1>4. Transfer!Complete(cmd, committed) = completed
  BY <1>1, <1>2, CompleteSoFar
<1>5. committed < Transfer!Total(cmd) /\ committed \in Nat
  BY <1>1, <1>2, RowSize, CommandFacts
<1>6. ASSUME Indexed(cmd) PROVE Start + lane \in Transfer!Beat(cmd, committed)
  <2>1. CASE Transfer!Bytewise(cmd)
    <3>1. Within = lane
      BY <1>6, <2>1 DEF Within, Transfer!Bytewise
    <3> QED BY <1>2, <2>1, <3>1 DEF Transfer!Beat
  <2>2. CASE ~Transfer!Bytewise(cmd)
    <3>1. committed = Start
      BY <1>1, <1>2, <2>2, CommandFacts
    <3>2. ByteMask = Lanes
      BY <1>6, RowSize, CommandFacts
    <3> QED BY <2>2, <3>1, <3>2, BeatOfRow DEF PlaceInv
  <2> QED BY <2>1, <2>2
<1> QED BY <1>1, <1>3, <1>4, <1>5, <1>6

\* A report of a failure is the one the transfer promises: the groups before
\* the current one are complete, the current one failed.
LEMMA FailStep ==
  ASSUME Busy, PlaceInv, cmd.op \in {"LOAD", "STORE"},
         state' = "DONE", cmd' = cmd, mem' = mem, vrf' = vrf,
         completed' = completed, committed' = committed, Underway' = 0,
         committed \in 0..(GroupCount * RowBytes),
         NEW status \in {"MEMORY_FAULT", "VRF_ERROR", "BAD_EADDR"},
         NEW cause \in Faults \cup {"NONE"}, NEW eaddr \in Addrs,
         result' = Result(status, cause, eaddr, {group}),
         status = "MEMORY_FAULT" <=> cause # "NONE",
         \/ Underway = 0
         \/ /\ status = "VRF_ERROR" /\ cmd.op = "LOAD"
            /\ Underway = Transfer!Cardinality(Transfer!Beat(cmd, committed)),
         status = "MEMORY_FAULT" =>
           IF Indexed(cmd) THEN eaddr = Transfer!AddrAt(cmd, Start + lane)
           ELSE eaddr = Transfer!AddrAt(cmd, committed),
         status = "BAD_EADDR" =>
           Indexed(cmd) /\ Transfer!AddrAt(cmd, Start + lane) >= AddrLimit,
         status # "MEMORY_FAULT" => eaddr = 0
  PROVE  Transfer!Next
<1>1. cmd # [op |-> "NONE"] /\ state # "IDLE" /\ state # "DONE"
  BY DEF Busy
<1>2. Transfer!Running
  BY <1>1 DEF Transfer!Running, Transfer!NoJob, Transfer!NoReport
<1>3. /\ Transfer!GroupAt(cmd, committed) = group
      /\ Transfer!Complete(cmd, committed) = completed
      /\ committed < Transfer!Total(cmd) /\ committed \in Nat
      /\ Indexed(cmd) => Start + lane \in Transfer!Beat(cmd, committed)
      /\ Transfer!Indexed(cmd) <=> Indexed(cmd)
  BY NextByte, CommandFacts
<1>4. Transfer!Addrs = Addrs
  BY DEF Transfer!Addrs, Addrs
<1>5. Outcome' = Transfer!Report(status, cause, eaddr, Transfer!Complete(cmd, committed),
                                 {Transfer!GroupAt(cmd, committed)}, committed)
  BY <1>3 DEF Outcome, Result, Transfer!Report
<1>6. \/ committed + Underway = committed
      \/ /\ status = "VRF_ERROR" /\ cmd.op = "LOAD"
         /\ committed + Underway = committed + Transfer!Cardinality(Transfer!Beat(cmd, committed))
  BY <1>3
<1>7. Moved' = committed
  BY <1>3 DEF Moved
<1>8. /\ status = "MEMORY_FAULT" =>
           IF Transfer!Indexed(cmd)
           THEN \E j \in Transfer!Beat(cmd, committed) : eaddr = Transfer!AddrAt(cmd, j)
           ELSE eaddr = Transfer!AddrAt(cmd, committed)
      /\ status = "BAD_EADDR" =>
           \E j \in Transfer!Beat(cmd, committed) : Transfer!AddrAt(cmd, j) >= AddrLimit
  BY <1>3
<1>9. Transfer!FailAt(committed)
  <2>1. \E st \in {"MEMORY_FAULT", "VRF_ERROR", "BAD_EADDR"},
           ca \in Faults \cup {"NONE"}, ea \in Transfer!Addrs :
          /\ st = "MEMORY_FAULT" <=> ca # "NONE"
          /\ \/ committed + Underway = committed
             \/ /\ st = "VRF_ERROR" /\ cmd.op = "LOAD"
                /\ committed + Underway = committed + Transfer!Cardinality(Transfer!Beat(cmd, committed))
          /\ st = "MEMORY_FAULT" =>
               IF Transfer!Indexed(cmd)
               THEN \E j \in Transfer!Beat(cmd, committed) : ea = Transfer!AddrAt(cmd, j)
               ELSE ea = Transfer!AddrAt(cmd, committed)
          /\ st = "BAD_EADDR" =>
               \E j \in Transfer!Beat(cmd, committed) : Transfer!AddrAt(cmd, j) >= AddrLimit
          /\ st # "MEMORY_FAULT" => ea = 0
          /\ Outcome' = Transfer!Report(st, ca, ea, Transfer!Complete(cmd, committed),
                                        {Transfer!GroupAt(cmd, committed)}, committed)
          /\ (committed + Underway)' = committed
    BY <1>4, <1>5, <1>6, <1>7, <1>8 DEF Moved
  <2> QED BY <1>1, <1>2, <1>3, <2>1 DEF Transfer!FailAt
<1>10. Transfer!Fail
  BY <1>9 DEF Transfer!Fail
<1> QED BY <1>10 DEF Transfer!Next

\* The report after the last byte is the one of success.
LEMMA SucceedStep ==
  ASSUME Busy, cmd.op \in {"LOAD", "STORE"},
         state' = "DONE", cmd' = cmd, mem' = mem, vrf' = vrf,
         completed' = cmd.groups, Moved = Transfer!Total(cmd),
         committed' = Moved, Moved' = Moved,
         result' = Result("OK", "NONE", 0, {})
  PROVE  Transfer!Next
<1>1. cmd # [op |-> "NONE"] /\ state # "IDLE" /\ state # "DONE"
  BY DEF Busy
<1>2. Transfer!Running
  BY <1>1 DEF Transfer!Running, Transfer!NoJob, Transfer!NoReport
<1>3. Outcome' = Transfer!Report("OK", "NONE", 0, cmd.groups, {}, Moved)
  BY DEF Outcome, Result, Transfer!Report
<1>4. Transfer!Succeed
  BY <1>1, <1>2, <1>3 DEF Transfer!Succeed, Moved
<1> QED BY <1>4 DEF Transfer!Next

----------------------------------------------------------------------------
(* The steps of the engine, one lemma each                                 *)

\* What an edge of the engine is to the transfer.
Promised == Transfer!Next \/ UNCHANGED Transfer!vars

\* Within a row the place of the command stays.
LEMMA PlaceStays ==
  ASSUME PlaceInv, UNCHANGED <<cmd, base, addr, group, remaining, completed>>,
         lane' \in Lanes, committed' = Start + Within'
  PROVE  PlaceInv'
BY DEF PlaceInv, Start, FieldsError, AddrError, Below, Transfer!Target, Indexed

\* A row of bytes is typed.
LEMMA RowsTyped ==
  ASSUME PlaceInv, BytesInv
  PROVE  /\ vrf[group][cmd.row] \in Row
         /\ Indexed(cmd) => vrf[group][cmd.index] \in Row
         /\ NoByte \in Byte /\ NoRow \in Row
<1>1. NoByte \in Byte /\ NoRow \in Row
  BY DEF NoByte, NoRow, Byte, Row
<1> QED BY <1>1, RowsExist, CommandFacts DEF BytesInv

\* LinearLoadRequest: the memory reads the row the command is at.
LEMMA LinearLoadRequestKeeps ==
  ASSUME EngineInv, (VectorInv /\ NothingLeftOut)', LinearLoadRequest
  PROVE  TransferInv' /\ Promised
<1>1. /\ Busy /\ Busy' /\ PlaceInv /\ BytesInv
      /\ cmd.op = "LOAD" /\ ~Indexed(cmd)
      /\ state = "LINEAR_LOAD_DMEM_REQ" /\ state' = "LINEAR_LOAD_DMEM_RSP"
      /\ UNCHANGED <<cmd, base, addr, group, remaining, completed, lane, committed, vrf, mem, loadRow>>
  BY DEF EngineInv, TransferInv, Busy, VectorInv, PathInv, LinearLoadRequest, MemoryTakes, progressVars, dataVars
<1>2. PlaceInv'
  BY <1>1, PlaceStays DEF PlaceInv, Within
<1>3. dmemAnswer'.cause = "NONE" => dmemAnswer'.row = [l \in Lanes |-> mem[addr + l]]
  BY <1>1, LinearPlace DEF LinearLoadRequest, MemoryTakes
<1>4. dmemAnswer'.cause \in Faults \cup {"NONE"}
  BY DEF LinearLoadRequest, MemoryTakes
<1>5. CarriedInv'
  BY <1>1, <1>3, <1>4 DEF CarriedInv, MemRow, Reading, Requesting
<1>6. BytesInv'
  BY <1>1 DEF BytesInv
<1>7. Moved' = Moved
  BY <1>1, UnderwayIs, UnderwayNext DEF EngineInv, UnderwayByState, Moved
<1> QED BY <1>1, <1>2, <1>5, <1>6, <1>7, StutterStep DEF TransferInv, Promised

\* LinearLoadResponse: the row is kept, or its first address reported.
LEMMA LinearLoadResponseKeeps ==
  ASSUME EngineInv, (VectorInv /\ NothingLeftOut)', LinearLoadResponse
  PROVE  TransferInv' /\ Promised
<1>1. /\ Busy /\ PlaceInv /\ BytesInv /\ CarriedInv
      /\ cmd.op = "LOAD" /\ ~Indexed(cmd) /\ addr \in Addrs
      /\ state = "LINEAR_LOAD_DMEM_RSP" /\ dmemAnswer.valid
      /\ UNCHANGED <<cmd, base, addr, group, remaining, completed, lane, committed, vrf, mem>>
  BY DEF EngineInv, TransferInv, Busy, VectorInv, VectorTypeOK, PathInv, LinearLoadResponse, progressVars, dataVars
<1>2. Underway = 0 /\ committed \in 0..(GroupCount * RowBytes) /\ committed = Start
  BY <1>1, UnderwayIs, CommandFacts DEF EngineInv, UnderwayByState, PlaceInv, Within
<1>3. dmemAnswer.cause \in Faults \cup {"NONE"}
  BY <1>1 DEF CarriedInv
<1>4. CASE dmemAnswer.cause # "NONE"
  <2>1. /\ state' = "DONE" /\ ~Busy' /\ Underway' = 0
        /\ result' = Result("MEMORY_FAULT", dmemAnswer.cause, addr, {group})
    BY <1>4, UnderwayNext DEF LinearLoadResponse, ReportFault, Busy, UnderwayByState
  <2>2. addr = Transfer!AddrAt(cmd, committed)
    <3>1. 0 \in Lanes /\ Start + 0 = Start /\ addr + 0 = addr
      BY <1>1, CommandFacts DEF Addrs
    <3>2. Transfer!AddrAt(cmd, Start + 0) = addr + 0
      BY <1>1, <3>1, LinearPlace
    <3> QED BY <1>2, <3>1, <3>2
  <2>3. Transfer!Next
    BY <1>1, <1>2, <1>3, <1>4, <2>1, <2>2, FailStep
  <2> QED BY <2>1, <2>3 DEF TransferInv, Promised
<1>5. CASE dmemAnswer.cause = "NONE"
  <2>1. state' = "VRF_WRITE_REQ" /\ Busy' /\ loadRow' = dmemAnswer.row
        /\ ~dmemAnswer'.valid
    BY <1>5 DEF LinearLoadResponse, Busy, None
  <2>2. PlaceInv'
    BY <1>1, PlaceStays DEF PlaceInv, Within
  <2>3. loadRow' = MemRow(addr)
    BY <1>1, <1>5, <2>1 DEF CarriedInv
  <2>4. loadRow' \in Row
    BY <1>1, <2>3, LinearPlace DEF MemRow, Row, BytesInv
  <2>5. BytesInv'
    BY <1>1, <2>4 DEF BytesInv
  <2>6. CarriedInv'
    <3>1. ~Indexed(cmd)'
      BY <1>1 DEF Indexed
    <3>2. loadRow' = MemRow(addr)'
      BY <1>1, <2>3 DEF MemRow
    <3> QED BY <2>1, <3>1, <3>2 DEF CarriedInv, Reading, Requesting
  <2>7. Moved' = Moved
    BY <1>1, <1>2, <2>1, UnderwayNext DEF Moved, UnderwayByState
  <2> QED BY <1>1, <2>1, <2>2, <2>5, <2>6, <2>7, StutterStep DEF TransferInv, Promised
<1> QED BY <1>4, <1>5

\* WriteRequest: the row moves into the register file, also when the answer to
\* come is wrong; a refused write moves nothing.
LEMMA WriteRequestKeeps ==
  ASSUME EngineInv, (VectorInv /\ NothingLeftOut)', WriteRequest
  PROVE  TransferInv' /\ Promised
<1>1. /\ Busy /\ Busy' /\ PlaceInv /\ BytesInv /\ CarriedInv
      /\ cmd.op = "LOAD"
      /\ state = "VRF_WRITE_REQ" /\ state' = "VRF_WRITE_CPL"
      /\ UNCHANGED <<cmd, base, addr, group, remaining, completed, lane, committed, mem, loadRow, indexRow, dmemAnswer>>
      /\ group \in Groups
  BY CommandFacts DEF EngineInv, TransferInv, Busy, VectorInv, VectorTypeOK, PathInv, WriteRequest, progressVars, dataVars
<1>2. Underway = 0 /\ committed = Start /\ committed \in Nat /\ Moved = Start
  BY <1>1, UnderwayIs, CommandFacts DEF EngineInv, UnderwayByState, PlaceInv, Within, Moved
<1>3. PlaceInv'
  BY <1>1, PlaceStays DEF PlaceInv, Within
<1>4. PICK done \in BOOLEAN :
        /\ writeAnswer'.done = done
        /\ writeAnswer'.verdict = "OK" => done
        /\ vrf' = IF done
                  THEN [vrf EXCEPT ![group][cmd.row] =
                         [l \in Lanes |-> IF l \in ByteMask THEN loadRow[l] ELSE @[l]]]
                  ELSE vrf
  <2>1. (IF Indexed(cmd) THEN Lanes ELSE ByteMask) = ByteMask
    BY <1>1, RowSize, CommandFacts
  <2>2. PICK verdict \in Verdict, done \in BOOLEAN :
          /\ verdict = "OK" => done
          /\ writeAnswer' = [valid |-> TRUE, verdict |-> verdict, done |-> done]
          /\ vrf' = IF done
                    THEN [vrf EXCEPT ![group][cmd.row] =
                           [l \in Lanes |-> IF l \in ByteMask THEN loadRow[l] ELSE @[l]]]
                    ELSE vrf
    BY <2>1 DEF WriteRequest, FileTakesWrite
  <2>3. writeAnswer'.done = done /\ writeAnswer'.verdict = verdict
    BY <2>2
  <2> QED BY <2>2, <2>3
<1>5. ByteMask' = ByteMask
  BY <1>1 DEF ByteMask, LastGroup, After, FinalBytes, Indexed
<1>6. CarriedInv'
  BY <1>1, <1>4 DEF CarriedInv, Reading, Requesting
<1>7. BytesInv'
  <2>1. vrf' \in [Groups -> [0..(Rows - 1) -> Row]]
    <3>1. [l \in Lanes |-> IF l \in ByteMask THEN loadRow[l] ELSE vrf[group][cmd.row][l]] \in Row
      BY <1>1, RowsTyped DEF Row, BytesInv
    <3> QED BY <1>1, <1>4, <3>1 DEF BytesInv
  <2> QED BY <1>1, <2>1 DEF BytesInv
<1>8. Promised
  <2>1. CASE ~writeAnswer'.done
    <3>1. Moved' = Moved
      BY <1>1, <1>2, <2>1, UnderwayNext DEF UnderwayByState, Moved
    <3> QED BY <1>1, <1>4, <2>1, <3>1, StutterStep DEF Promised
  <2>2. CASE writeAnswer'.done
    <3>1. ~Transfer!Bytewise(cmd)
      BY <1>1 DEF Transfer!Bytewise
    <3>2. Moved' = Start + Transfer!Cardinality(Transfer!Beat(cmd, Start))
      <4>1. Underway' = Cardinality(ByteMask)
        BY <1>1, <1>5, <2>2, UnderwayNext DEF UnderwayByState
      <4> QED BY <1>1, <1>2, <3>1, <4>1, BeatOfRow DEF Moved
    <3>3. \A l \in ByteMask : /\ Transfer!AddrAt(cmd, Start + l) \in Addrs
                              /\ loadRow[l] = mem[Transfer!AddrAt(cmd, Start + l)]
      <4>1. ByteMask \subseteq Lanes
        BY <1>1, RowSize, CommandFacts
      <4>2. CASE Indexed(cmd)
        BY <1>1, <4>1, <4>2, IndexedPlace DEF CarriedInv, Gathered, Place
      <4>3. CASE ~Indexed(cmd)
        BY <1>1, <4>1, <4>3, LinearPlace DEF CarriedInv, MemRow
      <4> QED BY <4>2, <4>3
    <3>4. Transfer!Carry(cmd, Start)
      BY <1>1, <1>4, <2>2, <3>3, RowIsCarried
    <3>5. Start < Transfer!Total(cmd)
      BY <1>1, <1>2, NextByte
    <3> QED BY <1>1, <1>2, <3>2, <3>4, <3>5, MoveStep DEF Promised
  <2> QED BY <2>1, <2>2
<1> QED BY <1>1, <1>3, <1>6, <1>7, <1>8 DEF TransferInv

\* The next group takes the place after the current one.
LEMMA NextPlace ==
  ASSUME PlaceInv, ~LastGroup, cmd' = cmd, base' = base,
         remaining' = After, completed' = completed \cup {group},
         group' = Min(After),
         addr' = IF Indexed(cmd) THEN addr ELSE (addr + RowBytes) % AddrLimit,
         lane' \in Lanes, Within' = 0, committed' = Start + RowBytes
  PROVE  PlaceInv'
<1>1. /\ cmd.groups \in SUBSET Groups /\ group \in cmd.groups /\ group \in Groups
      /\ completed = Below(cmd, group) /\ remaining = cmd.groups \ completed
      /\ Transfer!Rank(cmd, group) = Cardinality(completed)
      /\ Cardinality(completed) \in Nat /\ Cardinality(cmd.groups) \in Nat
      /\ RowBytes \in Nat \ {0}
  BY CommandFacts DEF PlaceInv
<1>2. \A x \in cmd.groups : x \in Nat
  BY <1>1, GeometryAssumption DEF Groups
<1>3. After = {x \in cmd.groups : group < x} /\ After # {}
  BY <1>1, <1>2 DEF After, Below, LastGroup
<1>4. group' \in After /\ \A x \in After : group' =< x
  <2>1. \E m \in After : \A x \in After : m =< x
    <3>1. After \in SUBSET Nat
      BY <1>2, <1>3
    <3> QED BY <1>3, <3>1, Least
  <2> QED BY <2>1, Zenon DEF Min
<1>5. group' \in cmd.groups /\ group < group' /\ \A x \in cmd.groups : group < x => group' =< x
  BY <1>3, <1>4
<1>6. /\ Below(cmd, group') = completed'
      /\ Transfer!Rank(cmd, group') = Cardinality(completed) + 1
  BY <1>1, <1>5, NextRank
<1>7. Cardinality(completed') = Cardinality(completed) + 1
  BY <1>1, <1>6, RankIs
<1>8. Start' = Start + RowBytes /\ Start \in Nat
  <2>1. PICK i \in Nat, r \in Nat \ {0} : i = Cardinality(completed) /\ r = RowBytes
    BY <1>1
  <2>2. (i + 1) * r = i * r + r /\ i * r \in Nat
    BY <2>1, Products
  <2> QED BY <1>7, <2>1, <2>2 DEF Start
<1>9. remaining' = cmd.groups \ completed'
  BY <1>1 DEF After
<1>10. ~Indexed(cmd) => addr' = base + Start'
  <2> SUFFICES ASSUME ~Indexed(cmd) PROVE addr' = base + Start'
    OBVIOUS
  <2>1. PICK n \in Nat \ {0}, r \in Nat \ {0}, i \in Nat :
          n = Cardinality(cmd.groups) /\ r = RowBytes /\ i = Cardinality(completed)
    BY CommandFacts
  <2>2. base + n * r =< AddrLimit /\ base \in Nat
    BY <2>1, CommandFacts DEF Transfer!Reachable, PlaceInv, Addrs
  <2>3. i + 1 < n
    BY <1>1, <2>1, LastRank, CommandFacts
  <2>4. (i + 1) * r + r =< n * r
    BY <2>1, <2>3, RowsInOrder
  <2>5. PICK p \in Nat : p = i * r /\ (i + 1) * r = p + r /\ Start = p
    BY <2>1, Products DEF Start
  <2>6. PICK q \in Nat : q = n * r
    BY <2>1
  <2>7. addr + RowBytes = base + Start + RowBytes
    BY CommandFacts DEF PlaceInv
  <2>8. base + Start + RowBytes \in Nat /\ base + Start + RowBytes < AddrLimit
    <3>1. p + r + r =< q /\ base + q =< AddrLimit /\ base \in Nat
      BY <2>2, <2>4, <2>5, <2>6
    <3>2. AddrLimit \in Nat
      BY GeometryAssumption
    <3> QED BY <2>1, <2>5, <3>1, <3>2
  <2>9. (base + Start + RowBytes) % AddrLimit = base + Start + RowBytes
    <3>1. PICK a \in Nat, limit \in Nat :
            a = base + Start + RowBytes /\ limit = AddrLimit /\ a < limit
      BY <2>8, GeometryAssumption
    <3>2. a % limit = a
      BY <3>1
    <3> QED BY <3>1, <3>2
  <2> QED BY <1>8, <2>2, <2>7, <2>9, CommandFacts
<1>11. committed' = Start' + Within'
  BY <1>8
<1> QED BY <1>5, <1>6, <1>9, <1>10, <1>11
        DEF PlaceInv, FieldsError, AddrError, Transfer!Target, Below, Indexed

\* Finishing a group ends the command or brings it to its next place.
LEMMA GroupEnds ==
  ASSUME EngineInv, (VectorInv /\ NothingLeftOut)', Busy,
         NEW bytes \in Nat, NEW next \in {"VRF_READ_REQ", "LINEAR_LOAD_DMEM_REQ"},
         FinishGroup(bytes, next), cmd' = cmd, base' = base, mem' = mem, vrf' = vrf,
         Underway = bytes, Within + bytes = Cardinality(ByteMask),
         lane' = IF ~LastGroup /\ Indexed(cmd) THEN 0 ELSE lane
  PROVE  /\ Promised
         /\ LastGroup => ~Busy'
         /\ ~LastGroup => Busy' /\ PlaceInv' /\ state' = next
         /\ ~LastGroup /\ Indexed(cmd) => kind' = "INDEX"
         /\ ~LastGroup /\ ~Indexed(cmd) /\ cmd.op = "STORE" => kind' = "LINEAR_STORE"
<1>1. PlaceInv /\ cmd.op \in {"LOAD", "STORE"} /\ lane \in Lanes
  BY DEF EngineInv, TransferInv, VectorInv, PlaceInv
<1>2. PICK m \in 1..RowBytes :
           /\ ByteMask = 0..(m - 1) /\ Cardinality(ByteMask) = m
           /\ Indexed(cmd) \/ ~LastGroup => m = RowBytes
           /\ Transfer!Total(cmd) \in Nat
           /\ LastGroup => Transfer!Total(cmd) = Start + m
           /\ ~LastGroup => Transfer!Total(cmd) > Start + RowBytes
  BY <1>1, RowSize
<1>3. /\ committed = Start + Within /\ Within \in Nat /\ Start \in Nat /\ RowBytes \in Nat \ {0}
      /\ committed' = committed + bytes
      /\ remaining' = After /\ completed' = completed \cup {group}
  BY <1>1, NextByte, CommandFacts DEF PlaceInv, FinishGroup, Lanes
<1>4. Moved = committed + bytes /\ committed' = Moved /\ Moved = Start + m
  BY <1>2, <1>3 DEF Moved
<1>5. CASE LastGroup
  <2>1. state' = "DONE" /\ ~Busy' /\ result' = Result("OK", "NONE", 0, {})
    BY <1>5 DEF FinishGroup, Report, Busy
  <2>2. completed' = cmd.groups
    BY <1>1, <1>3, <1>5, CommandFacts DEF LastGroup, After, PlaceInv, Below
  <2>3. Moved' = Moved
    BY <1>2, <1>3, <1>4, <2>1, UnderwayNext DEF Moved, UnderwayByState
  <2>4. Transfer!Next
    BY <1>1, <1>2, <1>4, <1>5, <2>1, <2>2, <2>3, SucceedStep
  <2> QED BY <1>5, <2>1, <2>4 DEF Promised
<1>6. CASE ~LastGroup
  <2>1. /\ state' = next /\ Busy' /\ group' = Min(After)
        /\ addr' = IF Indexed(cmd) THEN addr ELSE (addr + RowBytes) % AddrLimit
        /\ kind' = IF Indexed(cmd) THEN "INDEX" ELSE IF cmd.op = "STORE" THEN "LINEAR_STORE" ELSE kind
    BY <1>6 DEF FinishGroup, Busy
  <2>2. lane' \in Lanes /\ Within' = 0
    BY <1>1, <1>6, CommandFacts DEF Within, Indexed
  <2>3. PlaceInv'
    BY <1>1, <1>2, <1>3, <1>4, <1>6, <2>1, <2>2, NextPlace
  <2>4. Moved' = Moved
    BY <1>2, <1>3, <1>4, <2>1, UnderwayNext DEF Moved, UnderwayByState
  <2>5. UNCHANGED Transfer!vars
    BY <2>1, <2>4, StutterStep
  <2> QED BY <1>6, <2>1, <2>3, <2>5 DEF Promised
<1> QED BY <1>5, <1>6

\* WriteCompletion: what the write moved is committed, or reported as lost.
LEMMA WriteCompletionKeeps ==
  ASSUME EngineInv, (VectorInv /\ NothingLeftOut)', NEW clear \in BOOLEAN, WriteCompletion(clear)
  PROVE  TransferInv' /\ Promised
<1>1. /\ Busy /\ PlaceInv /\ BytesInv /\ CarriedInv
      /\ cmd.op = "LOAD"
      /\ state = "VRF_WRITE_CPL" /\ writeAnswer.valid
      /\ UNCHANGED <<cmd, base, mem, vrf, indexRow, dmemAnswer>>
      /\ ~dmemAnswer.valid
  BY DEF EngineInv, TransferInv, Busy, VectorInv, VectorTypeOK, PathInv, NothingLeftOut, WriteCompletion
<1>2. /\ Underway = IF writeAnswer.done THEN Cardinality(ByteMask) ELSE 0
      /\ committed \in 0..(GroupCount * RowBytes)
      /\ committed = Start
  BY <1>1, UnderwayIs, CommandFacts DEF EngineInv, UnderwayByState, PlaceInv, Within
<1>3. CASE ~Sound(writeAnswer)
  <2>1. /\ state' = "DONE" /\ ~Busy' /\ Underway' = 0
        /\ result' = Result("VRF_ERROR", "NONE", 0, {group})
        /\ completed' = completed /\ committed' = committed
    BY <1>3, UnderwayNext DEF WriteCompletion, Report, Busy, UnderwayByState, progressVars
  <2>2. 0 \in Addrs
    BY <1>1, CommandFacts DEF Addrs
  <2>3. \/ Underway = 0
        \/ Underway = Transfer!Cardinality(Transfer!Beat(cmd, committed))
    <3>1. ~Transfer!Bytewise(cmd)
      BY <1>1 DEF Transfer!Bytewise
    <3> QED BY <1>1, <1>2, <3>1, BeatOfRow
  <2>4. Transfer!Next
    BY <1>1, <1>2, <2>1, <2>2, <2>3, FailStep
  <2> QED BY <2>1, <2>4 DEF TransferInv, Promised
<1>4. CASE Sound(writeAnswer)
  <2>1. writeAnswer.done
    BY <1>1, <1>4 DEF CarriedInv, Sound
  <2>2. PICK next \in {"VRF_READ_REQ", "LINEAR_LOAD_DMEM_REQ"} :
          /\ FinishGroup(Cardinality(ByteMask), next)
          /\ next = "VRF_READ_REQ" => Indexed(cmd)
    BY <1>4 DEF WriteCompletion
  <2>3. /\ loadRow' = IF LastGroup THEN loadRow ELSE NoRow
        /\ lane' = IF ~LastGroup /\ Indexed(cmd) THEN 0 ELSE lane
    BY <1>4 DEF WriteCompletion
  <2>4. Cardinality(ByteMask) \in Nat /\ Within = 0
    BY <1>1, RowSize, CommandFacts DEF Within
  <2>5. /\ Promised /\ (LastGroup => ~Busy')
        /\ ~LastGroup => PlaceInv' /\ state' = next
        /\ ~LastGroup /\ Indexed(cmd) => kind' = "INDEX"
    BY <1>1, <1>2, <2>1, <2>2, <2>3, <2>4, GroupEnds
  <2>6. ~LastGroup => BytesInv'
    BY <1>1, <2>3, RowsTyped DEF BytesInv
  <2>7. ~LastGroup => CarriedInv'
    BY <1>1, <2>2, <2>5 DEF CarriedInv, Reading, Requesting
  <2> QED BY <2>5, <2>6, <2>7 DEF TransferInv
<1> QED BY <1>3, <1>4

\* LinearStoreResponse: the row that was stored is committed, or the fault
\* reported.
LEMMA LinearStoreResponseKeeps ==
  ASSUME EngineInv, (VectorInv /\ NothingLeftOut)', LinearStoreResponse
  PROVE  TransferInv' /\ Promised
<1>1. /\ Busy /\ PlaceInv /\ BytesInv /\ CarriedInv
      /\ cmd.op = "STORE" /\ ~Indexed(cmd) /\ addr \in Addrs
      /\ state = "LINEAR_STORE_DMEM_RSP" /\ dmemAnswer.valid
      /\ UNCHANGED <<cmd, base, mem, vrf, loadRow, lane>> /\ dmemAnswer' = None
  BY DEF EngineInv, TransferInv, Busy, VectorInv, VectorTypeOK, PathInv, LinearStoreResponse, dataVars
<1>2. /\ Underway = IF dmemAnswer.cause = "NONE" THEN Cardinality(ByteMask) ELSE 0
      /\ committed \in 0..(GroupCount * RowBytes)
      /\ committed = Start
      /\ dmemAnswer.cause \in Faults \cup {"NONE"}
  BY <1>1, UnderwayIs, CommandFacts DEF EngineInv, UnderwayByState, PlaceInv, Within, CarriedInv
<1>3. CASE dmemAnswer.cause # "NONE"
  <2>1. /\ state' = "DONE" /\ ~Busy' /\ Underway' = 0
        /\ result' = Result("MEMORY_FAULT", dmemAnswer.cause, addr, {group})
        /\ completed' = completed /\ committed' = committed
    BY <1>3, UnderwayNext DEF LinearStoreResponse, ReportFault, Busy, UnderwayByState, progressVars
  <2>2. addr = Transfer!AddrAt(cmd, committed)
    <3>1. 0 \in Lanes /\ Start + 0 = Start /\ addr + 0 = addr
      BY <1>1, CommandFacts DEF Addrs
    <3>2. Transfer!AddrAt(cmd, Start + 0) = addr + 0
      BY <1>1, <3>1, LinearPlace
    <3> QED BY <1>2, <3>1, <3>2
  <2>3. Transfer!Next
    BY <1>1, <1>2, <1>3, <2>1, <2>2, FailStep
  <2> QED BY <2>1, <2>3 DEF TransferInv, Promised
<1>4. CASE dmemAnswer.cause = "NONE"
  <2>1. FinishGroup(Cardinality(ByteMask), "VRF_READ_REQ")
    BY <1>4 DEF LinearStoreResponse
  <2>2. Cardinality(ByteMask) \in Nat /\ Within = 0
    BY <1>1, RowSize, CommandFacts DEF Within
  <2>3. /\ Promised /\ (LastGroup => ~Busy')
        /\ ~LastGroup => PlaceInv' /\ state' = "VRF_READ_REQ" /\ kind' = "LINEAR_STORE"
    BY <1>1, <1>2, <1>4, <2>1, <2>2, GroupEnds
  <2>4. ~LastGroup => BytesInv'
    BY <1>1 DEF BytesInv
  <2>5. ~LastGroup => CarriedInv'
    BY <1>1, <2>3 DEF CarriedInv, Reading, Requesting, None
  <2> QED BY <2>3, <2>4, <2>5 DEF TransferInv
<1> QED BY <1>3, <1>4

\* ReadRequest: the register file is read at the current group.
LEMMA ReadRequestKeeps ==
  ASSUME EngineInv, (VectorInv /\ NothingLeftOut)', ReadRequest
  PROVE  TransferInv' /\ Promised
<1>1. /\ Busy /\ Busy' /\ PlaceInv /\ BytesInv /\ CarriedInv
      /\ state = "VRF_READ_REQ" /\ state' = "VRF_READ_WAIT"
      /\ UNCHANGED <<kind, cmd, base, addr, group, remaining, completed, lane, committed, mem, vrf,
                     loadRow, indexRow, storeRow, dmemAnswer>>
      /\ ~rspSeen' /\ ~dmemAnswer.valid
  BY DEF EngineInv, TransferInv, Busy, NothingLeftOut, ReadRequest, progressVars, dataVars
<1>2. PlaceInv'
  BY <1>1, PlaceStays DEF PlaceInv, Within, Indexed
<1>3. BytesInv'
  BY <1>1 DEF BytesInv
<1>4. readRsp'.verdict = "OK" => readRsp'.row = SourceRow
  <2>1. PICK first \in Verdict, second \in Verdict :
          readRsp' = [valid |-> TRUE, verdict |-> second,
                      row |-> IF second = "OK" THEN SourceRow ELSE NoRow]
    BY DEF ReadRequest, FileTakesRead, SourceRow
  <2> QED BY <2>1
<1>5. SourceRow' = SourceRow
  BY <1>1 DEF SourceRow
<1>6. CarriedInv'
  BY <1>1, <1>4, <1>5 DEF CarriedInv, Reading, Requesting
<1>7. Moved' = Moved
  BY <1>1, UnderwayIs, UnderwayNext DEF EngineInv, UnderwayByState, Moved
<1> QED BY <1>1, <1>2, <1>3, <1>6, <1>7, StutterStep DEF TransferInv, Promised

\* ReadAnswers: in either order of the halves, the row that is used is the one
\* that was read.
LEMMA ReadAnswersKeep ==
  ASSUME EngineInv, (VectorInv /\ NothingLeftOut)',
         NEW clear \in BOOLEAN, NEW cpl \in BOOLEAN, NEW rsp \in BOOLEAN,
         ReadAnswers(cpl, rsp, clear)
  PROVE  TransferInv' /\ Promised
<1> DEFINE bad == \/ readBad
                  \/ cpl /\ ~Sound(readCpl)
                  \/ rsp /\ ~Sound(readRsp)
           row == IF rsp THEN readRsp.row ELSE readRow
           end == BothSeen(cpl, rsp, bad)
<1>1. /\ Busy /\ PlaceInv /\ BytesInv /\ CarriedInv
      /\ state = "VRF_READ_WAIT" /\ cmd.op \in {"LOAD", "STORE"}
      /\ kind \in {"LINEAR_STORE", "INDEX", "SCATTER_DATA"}
      /\ kind = "LINEAR_STORE" <=> ~Indexed(cmd)
      /\ ~Indexed(cmd) => cmd.op = "STORE"
      /\ Indexed(cmd) => lane = 0
      /\ UNCHANGED <<cmd, base, addr, group, remaining, completed, committed, mem, vrf, loadRow, dmemAnswer>>
      /\ ~dmemAnswer.valid
  BY DEF EngineInv, TransferInv, Busy, VectorInv, VectorTypeOK, PathInv, NothingLeftOut, ReadAnswers, progressVars
<1>2. /\ Underway = 0 /\ committed \in 0..(GroupCount * RowBytes)
      /\ committed = Start /\ Within = 0 /\ Moved = committed
  BY <1>1, UnderwayIs, CommandFacts DEF EngineInv, UnderwayByState, PlaceInv, Within, Moved
<1>3. /\ readRow' = row
      /\ cpl => readCpl.valid /\ ~cplSeen
      /\ rsp => readRsp.valid /\ ~rspSeen
      /\ rspSeen' = Bit(~end /\ (rspSeen \/ rsp)) /\ readBad' = Bit(~end /\ bad)
      /\ IF end /\ ~bad THEN UseRow(row)
         ELSE /\ IF end THEN Report("VRF_ERROR", {group}) ELSE UNCHANGED <<state, result>>
              /\ UNCHANGED <<kind, lane, indexRow, storeRow>>
      /\ readRsp' = IF rsp THEN None ELSE readRsp
  BY DEF ReadAnswers
<1>4. (rspSeen \/ rsp) /\ ~bad => row = SourceRow
  BY <1>1, <1>3 DEF CarriedInv, Sound
<1>5. BytesInv'
  BY <1>1 DEF BytesInv
<1>6. CASE end /\ bad
  <2>1. /\ state' = "DONE" /\ ~Busy' /\ Underway' = 0
        /\ result' = Result("VRF_ERROR", "NONE", 0, {group})
    BY <1>3, <1>6, UnderwayNext DEF Report, Busy, UnderwayByState
  <2>2. 0 \in Addrs
    BY <1>1, CommandFacts DEF Addrs
  <2>3. Transfer!Next
    BY <1>1, <1>2, <2>1, <2>2, FailStep
  <2> QED BY <2>1, <2>3 DEF TransferInv, Promised
<1>7. CASE ~end
  <2>1. /\ state' = state /\ Busy' /\ UNCHANGED <<kind, lane, indexRow, storeRow>>
    BY <1>1, <1>3, <1>7 DEF Busy
  <2>2. PlaceInv'
    BY <1>1, <2>1, PlaceStays DEF PlaceInv, Within, Indexed
  <2>3. SourceRow' = SourceRow
    BY <1>1, <2>1 DEF SourceRow
  <2>4. (rspSeen' => rspSeen \/ rsp) /\ (bad => readBad')
    BY <1>3, <1>7 DEF Bit
  <2>5. readRsp'.valid /\ readRsp'.verdict = "OK" => readRsp'.row = SourceRow
    BY <1>1, <1>3 DEF CarriedInv, None
  <2>6. rspSeen' /\ ~readBad' => readRow' = SourceRow
    BY <1>3, <1>4, <2>4
  <2>7. CarriedInv'
    BY <1>1, <2>1, <2>3, <2>5, <2>6 DEF CarriedInv, Reading, Requesting
  <2>8. Moved' = Moved
    BY <1>1, <1>2, <2>1, UnderwayNext DEF UnderwayByState, Moved
  <2> QED BY <1>1, <1>5, <2>1, <2>2, <2>7, <2>8, StutterStep DEF TransferInv, Promised
<1>8. CASE end /\ ~bad
  <2>1. UseRow(row) /\ row = SourceRow
    BY <1>3, <1>4, <1>8 DEF BothSeen
  <2>2. lane' = IF kind = "LINEAR_STORE" THEN lane ELSE 0
    BY <2>1 DEF UseRow
  <2>3. Busy' /\ lane' = lane
    BY <1>1, <2>1, <2>2 DEF UseRow, Busy
  <2>4. PlaceInv'
    BY <1>1, <2>3, PlaceStays DEF PlaceInv, Within, Indexed
  <2>5. Moved' = Moved
    BY <1>1, <1>2, <2>1, UnderwayNext DEF UnderwayByState, Moved, UseRow
  <2>6. CASE kind = "LINEAR_STORE"
    <3>1. state' = "LINEAR_STORE_DMEM_REQ" /\ storeRow' = vrf[group][cmd.row]
      BY <2>1, <2>6 DEF UseRow, SourceRow
    <3> QED BY <1>1, <1>5, <2>3, <2>4, <2>5, <3>1, StutterStep
            DEF TransferInv, Promised, CarriedInv, Reading, Requesting
  <2>7. CASE kind = "INDEX" /\ cmd.op = "STORE"
    <3>1. /\ state' = "VRF_READ_REQ" /\ kind' = "SCATTER_DATA"
          /\ indexRow' = vrf[group][cmd.index]
      BY <2>1, <2>7 DEF UseRow, SourceRow
    <3> QED BY <1>1, <1>5, <2>3, <2>4, <2>5, <2>7, <3>1, StutterStep
            DEF TransferInv, Promised, CarriedInv, Reading, Requesting
  <2>8. CASE kind = "INDEX" /\ cmd.op = "LOAD"
    <3>1. /\ state' = "INDEXED_DMEM_REQ" /\ indexRow' = vrf[group][cmd.index] /\ lane' = 0
      BY <2>1, <2>2, <2>8 DEF UseRow, SourceRow
    <3>2. Gathered(0..(lane - 1))'
      BY <3>1 DEF Gathered
    <3> QED BY <1>1, <1>5, <2>3, <2>4, <2>5, <2>8, <3>1, <3>2, StutterStep
            DEF TransferInv, Promised, CarriedInv, Reading, Requesting
  <2>9. CASE kind = "SCATTER_DATA"
    <3>1. /\ state' = "INDEXED_DMEM_REQ" /\ indexRow' = indexRow /\ storeRow' = vrf[group][cmd.row]
      BY <2>1, <2>9 DEF UseRow, SourceRow
    <3>2. cmd.op = "STORE" /\ indexRow = vrf[group][cmd.index]
      BY <1>1, <2>9 DEF CarriedInv, Reading
    <3> QED BY <1>1, <1>5, <2>3, <2>4, <2>5, <3>1, <3>2, StutterStep
            DEF TransferInv, Promised, CarriedInv, Reading, Requesting
  <2> QED BY <1>1, <2>6, <2>7, <2>8, <2>9
<1> QED BY <1>6, <1>7, <1>8

\* LinearStoreRequest: the bytes of the row move into the memory.
LEMMA LinearStoreRequestKeeps ==
  ASSUME EngineInv, (VectorInv /\ NothingLeftOut)', LinearStoreRequest
  PROVE  TransferInv' /\ Promised
<1>1. /\ Busy /\ Busy' /\ PlaceInv /\ BytesInv /\ CarriedInv
      /\ cmd.op = "STORE" /\ ~Indexed(cmd)
      /\ state = "LINEAR_STORE_DMEM_REQ" /\ state' = "LINEAR_STORE_DMEM_RSP"
      /\ UNCHANGED <<cmd, base, addr, group, remaining, completed, lane, committed, vrf, loadRow>>
      /\ storeRow = vrf[group][cmd.row]
  BY DEF EngineInv, TransferInv, Busy, VectorInv, PathInv, CarriedInv, LinearStoreRequest, progressVars, dataVars
<1>2. Underway = 0 /\ committed = Start /\ committed \in Nat /\ Moved = Start
  BY <1>1, UnderwayIs, CommandFacts DEF EngineInv, UnderwayByState, PlaceInv, Within, Moved
<1>3. PlaceInv'
  BY <1>1, PlaceStays DEF PlaceInv, Within
<1>4. PICK cause \in Faults \cup {"NONE"} :
        /\ dmemAnswer'.cause = cause
        /\ mem' = IF cause = "NONE"
                  THEN [x \in Addrs |-> IF x - addr \in ByteMask THEN storeRow[x - addr] ELSE mem[x]]
                  ELSE mem
  BY DEF LinearStoreRequest, MemoryTakes
<1>5. ByteMask' = ByteMask
  BY <1>1 DEF ByteMask, LastGroup, After, FinalBytes, Indexed
<1>6. CarriedInv'
  BY <1>1, <1>4 DEF CarriedInv, Reading, Requesting
<1>7. BytesInv'
  <2>1. ByteMask \subseteq Lanes /\ storeRow \in Row
    BY <1>1, RowSize, CommandFacts, RowsTyped
  <2>2. mem' \in [Addrs -> Byte]
    BY <1>1, <1>4, <2>1 DEF BytesInv, Row
  <2> QED BY <1>1, <2>2 DEF BytesInv
<1>8. Promised
  <2>1. CASE dmemAnswer'.cause # "NONE"
    <3>1. Moved' = Moved
      BY <1>1, <1>2, <2>1, UnderwayNext DEF UnderwayByState, Moved
    <3> QED BY <1>1, <1>4, <2>1, <3>1, StutterStep DEF Promised
  <2>2. CASE dmemAnswer'.cause = "NONE"
    <3>1. ~Transfer!Bytewise(cmd)
      BY <1>1, CommandFacts DEF Transfer!Bytewise
    <3>2. Moved' = Start + Transfer!Cardinality(Transfer!Beat(cmd, Start))
      <4>1. Underway' = Cardinality(ByteMask)
        BY <1>1, <1>5, <2>2, UnderwayNext DEF UnderwayByState
      <4> QED BY <1>1, <1>2, <3>1, <4>1, BeatOfRow DEF Moved
    <3>3. Transfer!Carry(cmd, Start)
      BY <1>1, <1>4, <2>2, RowIsStored
    <3>4. Start < Transfer!Total(cmd)
      BY <1>1, <1>2, NextByte
    <3> QED BY <1>1, <1>2, <3>2, <3>3, <3>4, MoveStep DEF Promised
  <2> QED BY <2>1, <2>2
<1> QED BY <1>1, <1>3, <1>6, <1>7, <1>8 DEF TransferInv

\* The bytes of an index row are numbers, so its places are addresses or above.
LEMMA IndexedFacts ==
  ASSUME PlaceInv, BytesInv, Indexed(cmd), indexRow = vrf[group][cmd.index]
  PROVE  /\ Place(lane) = Transfer!AddrAt(cmd, Start + lane)
         /\ Place(lane) \in Nat /\ IndexedSum = Place(lane)
         /\ IndexedError <=> Place(lane) \notin Addrs
         /\ ~IndexedError => /\ ByteAddr = Place(lane) /\ ByteAddr \in Addrs
                             /\ BeatLane \in Lanes /\ BeatAddr \in Int
                             /\ BeatAddr + BeatLane = ByteAddr
<1>1. Place(lane) = Transfer!AddrAt(cmd, Start + lane)
  BY IndexedPlace DEF Place, PlaceInv
<1>2. indexRow[lane].number \in Nat
  <2>1. indexRow[lane] \in Byte
    BY RowsTyped DEF Row, PlaceInv
  <2> QED BY <2>1 DEF Byte
<1>3. Place(lane) \in Nat /\ IndexedSum = Place(lane)
  <2>1. base \in Nat
    BY CommandFacts DEF Addrs
  <2> QED BY <1>2, <2>1 DEF Place, IndexedSum
<1>4. PICK limit \in Nat \ {0}, r \in Nat \ {0}, p \in Nat :
        limit = AddrLimit /\ r = RowBytes /\ p = Place(lane)
  BY <1>3, CommandFacts
<1>5. IndexedError <=> Place(lane) \notin Addrs
  BY <1>3, <1>4 DEF IndexedError, TopBit, Addrs
<1>6. ASSUME ~IndexedError
      PROVE  /\ ByteAddr = Place(lane) /\ ByteAddr \in Addrs
             /\ BeatLane \in Lanes /\ BeatAddr \in Int
             /\ BeatAddr + BeatLane = ByteAddr
  <2>1. p < limit
    BY <1>3, <1>4, <1>6 DEF IndexedError, TopBit
  <2>2. p % limit = p
    BY <2>1
  <2>3. ByteAddr = p
    BY <1>3, <1>4, <2>2 DEF ByteAddr
  <2>4. p % r \in 0..(r - 1)
    BY LaneOfRow
  <2>5. BeatLane \in Lanes /\ BeatLane = p % r
    BY <1>4, <2>3, <2>4, CommandFacts DEF BeatLane
  <2>6. BeatAddr = p - BeatLane
    BY <2>3 DEF BeatAddr
  <2> QED BY <1>4, <1>5, <1>6, <2>3, <2>4, <2>5, <2>6
<1> QED BY <1>1, <1>3, <1>5, <1>6

\* IndexedRequest: one byte is read, or scattered, at the address its index
\* names, or that address is reported as outside the memory.
LEMMA IndexedRequestKeeps ==
  ASSUME EngineInv, (VectorInv /\ NothingLeftOut)', IndexedRequest
  PROVE  TransferInv' /\ Promised
<1>1. /\ Busy /\ PlaceInv /\ BytesInv /\ CarriedInv
      /\ cmd.op \in {"LOAD", "STORE"} /\ Indexed(cmd)
      /\ state = "INDEXED_DMEM_REQ"
      /\ indexRow = vrf[group][cmd.index]
      /\ cmd.op = "STORE" => storeRow = vrf[group][cmd.row]
      /\ cmd.op = "LOAD" => Gathered(0..(lane - 1))
      /\ UNCHANGED <<cmd, base, addr, group, remaining, completed, lane, committed, vrf,
                     loadRow, indexRow, storeRow>>
      /\ lane \in Lanes
  BY DEF EngineInv, TransferInv, Busy, VectorInv, PathInv, CarriedInv, PlaceInv, Requesting,
         IndexedRequest, progressVars, dataVars
<1>2. /\ Underway = 0 /\ committed \in 0..(GroupCount * RowBytes)
      /\ committed \in Nat /\ Moved = committed /\ committed = Start + Within
  BY <1>1, UnderwayIs, NextByte DEF EngineInv, UnderwayByState, PlaceInv, Moved
<1>3. /\ Place(lane) = Transfer!AddrAt(cmd, Start + lane)
      /\ Place(lane) \in Nat
      /\ IndexedError <=> Place(lane) \notin Addrs
      /\ ~IndexedError => /\ ByteAddr = Place(lane) /\ ByteAddr \in Addrs
                          /\ BeatLane \in Lanes /\ BeatAddr \in Int
                          /\ BeatAddr + BeatLane = ByteAddr
  BY <1>1, IndexedFacts
<1>4. CASE IndexedError
  <2>1. /\ state' = "DONE" /\ ~Busy' /\ Underway' = 0
        /\ result' = Result("BAD_EADDR", "NONE", 0, {group}) /\ mem' = mem
    BY <1>4, UnderwayNext DEF IndexedRequest, Report, Busy, UnderwayByState
  <2>2. 0 \in Addrs
    BY <1>1, CommandFacts DEF Addrs
  <2>3. Transfer!AddrAt(cmd, Start + lane) >= AddrLimit
    BY <1>3, <1>4, GeometryAssumption DEF Addrs
  <2>4. Transfer!Next
    BY <1>1, <1>2, <2>1, <2>2, <2>3, FailStep
  <2> QED BY <2>1, <2>4 DEF TransferInv, Promised
<1>5. CASE ~IndexedError
  <2>1. state' = "INDEXED_DMEM_RSP" /\ Busy'
    BY <1>5 DEF IndexedRequest, Busy
  <2>2. PlaceInv'
    BY <1>1, PlaceStays DEF PlaceInv, Within, Indexed
  <2>3. UNCHANGED <<Place(lane), BeatLane, ByteAddr>>
    BY <1>1 DEF Place, BeatLane, ByteAddr, IndexedSum
  <2>4. Place(lane) \in Addrs
    BY <1>3, <1>5
  <2>5. CASE cmd.op = "LOAD"
    <3>1. PICK cause \in Faults \cup {"NONE"} :
            /\ dmemAnswer'.cause = cause
            /\ cause = "NONE" => dmemAnswer'.row = [l \in Lanes |-> mem[(BeatAddr + l) % AddrLimit]]
            /\ mem' = mem
      BY <1>5, <2>5 DEF IndexedRequest, MemoryTakes
    <3>2. cause = "NONE" => dmemAnswer'.row[BeatLane] = mem[ByteAddr]
      <4>1. ByteAddr % AddrLimit = ByteAddr
        <5>1. PICK limit \in Nat, a \in Nat : limit = AddrLimit /\ a = ByteAddr /\ a < limit
          BY <1>1, <1>3, <1>5, CommandFacts DEF Addrs
        <5>2. a % limit = a
          BY <5>1
        <5> QED BY <5>1, <5>2
      <4> QED BY <1>3, <1>5, <3>1, <4>1
    <3>3. Gathered(0..(lane - 1))'
      BY <1>1, <2>5, <3>1 DEF Gathered, Place
    <3>4. CarriedInv'
      BY <1>1, <2>1, <2>3, <2>4, <2>5, <3>1, <3>2, <3>3 DEF CarriedInv, Reading, Requesting
    <3>5. BytesInv'
      BY <1>1, <3>1 DEF BytesInv
    <3>6. Moved' = Moved
      BY <1>1, <1>2, <2>1, <2>5, UnderwayNext DEF UnderwayByState, Moved
    <3> QED BY <1>1, <2>1, <2>2, <3>1, <3>4, <3>5, <3>6, StutterStep DEF TransferInv, Promised
  <2>6. CASE cmd.op = "STORE"
    <3>1. PICK cause \in Faults \cup {"NONE"} :
            /\ dmemAnswer'.cause = cause
            /\ mem' = IF cause = "NONE"
                      THEN [x \in Addrs |->
                              IF x - BeatAddr \in {BeatLane}
                              THEN [NoRow EXCEPT ![BeatLane] = storeRow[lane]][x - BeatAddr]
                              ELSE mem[x]]
                      ELSE mem
      BY <1>5, <2>6 DEF IndexedRequest, MemoryTakes
    <3>2. cause = "NONE" => mem' = [mem EXCEPT ![ByteAddr] = vrf[group][cmd.row][lane]]
      <4>1. \A x \in Addrs : x - BeatAddr = BeatLane <=> x = ByteAddr
        BY <1>3, <1>5, GeometryAssumption DEF Addrs, Lanes
      <4>2. [NoRow EXCEPT ![BeatLane] = storeRow[lane]][BeatLane] = vrf[group][cmd.row][lane]
        BY <1>1, <1>3, <1>5, <2>6 DEF NoRow
      <4> QED BY <1>1, <1>3, <1>5, <3>1, <4>1, <4>2 DEF BytesInv
    <3>3. CarriedInv'
      BY <1>1, <2>1, <2>3, <2>4, <2>6, <3>1 DEF CarriedInv, Reading, Requesting
    <3>4. BytesInv'
      <4>1. vrf[group][cmd.row][lane] \in Byte
        BY <1>1, RowsTyped DEF Row
      <4> QED BY <1>1, <3>1, <3>2, <4>1 DEF BytesInv
    <3>5. CASE cause # "NONE"
      <4>1. Moved' = Moved
        BY <1>1, <1>2, <2>1, <3>1, <3>5, UnderwayNext DEF UnderwayByState, Moved
      <4> QED BY <1>1, <2>1, <2>2, <3>1, <3>3, <3>4, <3>5, <4>1, StutterStep DEF TransferInv, Promised
    <3>6. CASE cause = "NONE"
      <4>1. committed = Start + lane /\ committed < Transfer!Total(cmd)
        BY <1>1, <1>2, <2>6, NextByte DEF Within
      <4>2. /\ Transfer!Carry(cmd, Start + lane)
            /\ Transfer!Cardinality(Transfer!Beat(cmd, Start + lane)) = 1
        BY <1>1, <1>3, <1>5, <2>6, <3>2, <3>6, ByteIsScattered
      <4>3. Moved' = committed + 1
        BY <1>1, <1>2, <2>1, <2>6, <3>1, <3>6, UnderwayNext DEF UnderwayByState, Moved
      <4>4. Transfer!Next
        BY <1>1, <1>2, <2>1, <4>1, <4>2, <4>3, MoveStep
      <4> QED BY <2>2, <3>3, <3>4, <4>4 DEF TransferInv, Promised
    <3> QED BY <3>5, <3>6
  <2> QED BY <1>1, <2>5, <2>6
<1> QED BY <1>4, <1>5

\* IndexedResponse: a gathered byte takes its lane, a scattered one is
\* committed, and the last lane ends the row.
LEMMA IndexedResponseKeeps ==
  ASSUME EngineInv, (VectorInv /\ NothingLeftOut)', IndexedResponse
  PROVE  TransferInv' /\ Promised
<1>1. /\ Busy /\ PlaceInv /\ BytesInv /\ CarriedInv
      /\ cmd.op \in {"LOAD", "STORE"} /\ Indexed(cmd)
      /\ state = "INDEXED_DMEM_RSP" /\ dmemAnswer.valid /\ dmemAnswer' = None
      /\ indexRow = vrf[group][cmd.index]
      /\ cmd.op = "STORE" => storeRow = vrf[group][cmd.row]
      /\ cmd.op = "LOAD" => Gathered(0..(lane - 1))
      /\ cmd.op = "LOAD" /\ dmemAnswer.cause = "NONE" => dmemAnswer.row[BeatLane] = mem[ByteAddr]
      /\ Place(lane) \in Addrs
      /\ UNCHANGED <<cmd, base, vrf, mem, indexRow, storeRow>>
      /\ lane \in Lanes /\ dmemAnswer.cause \in Faults \cup {"NONE"}
  BY DEF EngineInv, TransferInv, Busy, VectorInv, PathInv, CarriedInv, PlaceInv, Requesting,
         IndexedResponse
<1>2. /\ Underway = (IF cmd.op = "STORE" /\ dmemAnswer.cause = "NONE" THEN 1 ELSE 0)
      /\ committed \in 0..(GroupCount * RowBytes)
      /\ committed \in Nat /\ Moved = committed + Underway
      /\ committed = Start + Within
  BY <1>1, UnderwayIs, NextByte DEF EngineInv, UnderwayByState, PlaceInv, Moved
<1>3. /\ Place(lane) = Transfer!AddrAt(cmd, Start + lane)
      /\ ByteAddr = Place(lane) /\ ByteAddr \in Addrs /\ BeatLane \in Lanes
  BY <1>1, IndexedFacts
<1>4. RowBytes \in Nat \ {0} /\ Lanes = 0..(RowBytes - 1) /\ Start \in Nat
  BY <1>1, CommandFacts
<1>5. CASE dmemAnswer.cause # "NONE"
  <2>1. /\ state' = "DONE" /\ ~Busy' /\ Underway' = 0
        /\ result' = Result("MEMORY_FAULT", dmemAnswer.cause, ByteAddr, {group})
        /\ completed' = completed /\ committed' = committed
    BY <1>5, UnderwayNext DEF IndexedResponse, ReportFault, Busy, UnderwayByState, progressVars
  <2>2. Transfer!Next
    BY <1>1, <1>2, <1>3, <1>5, <2>1, FailStep
  <2> QED BY <2>1, <2>2 DEF TransferInv, Promised
<1>6. CASE dmemAnswer.cause = "NONE" /\ cmd.op = "LOAD"
  <2>1. /\ loadRow' = [loadRow EXCEPT ![lane] = dmemAnswer.row[BeatLane]]
        /\ UNCHANGED <<addr, group, remaining, completed, committed>>
        /\ IF LastLane THEN state' = "VRF_WRITE_REQ" /\ lane' = lane
           ELSE state' = "INDEXED_DMEM_REQ" /\ lane' = (lane + 1) % RowBytes
    BY <1>6 DEF IndexedResponse, progressVars
  <2>2. Busy' /\ lane' \in Lanes /\ (~LastLane => lane' = lane + 1)
    <3>1. CASE LastLane
      BY <1>1, <2>1, <3>1 DEF Busy
    <3>2. CASE ~LastLane
      <4>1. PICK r \in Nat \ {0}, l \in Nat : r = RowBytes /\ l = lane /\ l < r - 1
        BY <1>1, <1>4, <3>2 DEF LastLane
      <4>2. (l + 1) % r = l + 1
        BY <4>1
      <4> QED BY <1>4, <2>1, <3>2, <4>1, <4>2 DEF Busy
    <3> QED BY <3>1, <3>2
  <2>3. PlaceInv'
    BY <1>1, <1>6, <2>1, <2>2, PlaceStays DEF PlaceInv, Within, Indexed
  <2>4. loadRow \in Row /\ mem[ByteAddr] \in Byte
    BY <1>1, <1>3 DEF BytesInv
  <2>5. loadRow' \in Row
    BY <1>1, <1>6, <2>1, <2>4 DEF Row
  <2>6. BytesInv'
    BY <1>1, <2>5 DEF BytesInv
  <2>7. \A l \in 0..lane : Place(l) \in Addrs /\ loadRow'[l] = mem[Place(l)]
    <3>1. \A l \in 0..(lane - 1) : Place(l) \in Addrs /\ loadRow[l] = mem[Place(l)]
      BY <1>1, <1>6 DEF Gathered
    <3>2. loadRow'[lane] = mem[Place(lane)] /\ Place(lane) \in Addrs
      BY <1>1, <1>3, <1>6, <2>1, <2>4 DEF Row
    <3>3. \A l \in 0..(lane - 1) : l \in Lanes /\ l # lane
      BY <1>1, <1>4
    <3>4. \A l \in 0..(lane - 1) : loadRow'[l] = loadRow[l]
      BY <2>1, <2>4, <3>3 DEF Row
    <3>5. \A l \in 0..lane : l \in 0..(lane - 1) \/ l = lane
      BY <1>1, <1>4
    <3> QED BY <3>1, <3>2, <3>4, <3>5
  <2>8. \A l : Place(l)' = Place(l)
    BY <1>1 DEF Place
  <2>9. Gathered(0..(lane - 1))' \/ LastLane
    <3> SUFFICES ASSUME ~LastLane PROVE \A l \in 0..(lane' - 1) : Place(l)' \in Addrs /\ loadRow'[l] = mem'[Place(l)']
      BY DEF Gathered
    <3>1. lane' - 1 = lane
      BY <1>1, <1>4, <2>2
    <3> QED BY <1>1, <2>7, <2>8, <3>1
  <2>10. LastLane => Gathered(Lanes)'
    BY <1>1, <1>4, <2>7, <2>8 DEF Gathered, LastLane
  <2>11. CarriedInv'
    <3>1. Indexed(cmd)'
      BY <1>1 DEF Indexed
    <3> QED BY <1>1, <1>6, <2>1, <2>9, <2>10, <3>1 DEF CarriedInv, Reading, Requesting, None
  <2>12. Moved' = Moved
    BY <1>1, <1>2, <1>6, <2>1, UnderwayNext DEF UnderwayByState, Moved
  <2> QED BY <1>1, <2>1, <2>2, <2>3, <2>6, <2>11, <2>12, StutterStep DEF TransferInv, Promised
<1>7. CASE dmemAnswer.cause = "NONE" /\ cmd.op = "STORE"
  <2>1. loadRow' = loadRow
    BY <1>7 DEF IndexedResponse
  <2>2. Within = lane
    BY <1>1, <1>7 DEF Within
  <2>3. BytesInv'
    BY <1>1, <2>1 DEF BytesInv
  <2>4. CASE ~LastLane
    <3>1. /\ UNCHANGED <<addr, group, remaining, completed>>
          /\ state' = "INDEXED_DMEM_REQ" /\ lane' = (lane + 1) % RowBytes
          /\ committed' = committed + 1
      BY <1>7, <2>4 DEF IndexedResponse
    <3>2. Busy' /\ lane' \in Lanes /\ lane' = lane + 1
      <4>1. PICK r \in Nat \ {0}, l \in Nat : r = RowBytes /\ l = lane /\ l < r - 1
        BY <1>1, <1>4, <2>4 DEF LastLane
      <4>2. (l + 1) % r = l + 1
        BY <4>1
      <4> QED BY <1>4, <3>1, <4>1, <4>2 DEF Busy
    <3>3. committed' = Start + Within'
      BY <1>1, <1>2, <1>4, <1>7, <2>2, <3>1, <3>2 DEF Within, Indexed
    <3>4. PlaceInv'
      BY <1>1, <3>1, <3>2, <3>3, PlaceStays
    <3>5. CarriedInv'
      BY <1>1, <1>7, <3>1 DEF CarriedInv, Reading, Requesting, None
    <3>6. Moved' = Moved
      BY <1>1, <1>2, <1>7, <3>1, UnderwayNext DEF UnderwayByState, Moved
    <3> QED BY <1>1, <2>3, <3>1, <3>2, <3>4, <3>5, <3>6, StutterStep DEF TransferInv, Promised
  <2>5. CASE LastLane
    <3>1. FinishGroup(1, "VRF_READ_REQ") /\ lane' = IF LastGroup THEN lane ELSE 0
      BY <1>7, <2>5 DEF IndexedResponse
    <3>2. Within + 1 = Cardinality(ByteMask)
      BY <1>1, <1>4, <2>2, <2>5, RowSize DEF LastLane
    <3>3. /\ Promised /\ (LastGroup => ~Busy')
          /\ ~LastGroup => PlaceInv' /\ state' = "VRF_READ_REQ" /\ kind' = "INDEX"
      BY <1>1, <1>2, <1>7, <3>1, <3>2, GroupEnds
    <3>4. ~LastGroup => CarriedInv'
      BY <1>1, <3>3 DEF CarriedInv, Reading, Requesting, None
    <3> QED BY <2>3, <3>3, <3>4 DEF TransferInv
  <2> QED BY <2>4, <2>5
<1> QED BY <1>1, <1>5, <1>6, <1>7

----------------------------------------------------------------------------
(* Beginning, end and refinement                                           *)

\* Fresh bytes are bytes, the same for the engine and for the transfer.
LEMMA FreshBytes ==
  /\ Transfer!FreshMemory = FreshMemory /\ FreshMemory \in [Addrs -> Byte]
  /\ NoRow \in Row
<1>1. \A a \in Addrs : <<a>> \in Seq(Int)
  BY GeometryAssumption DEF Addrs
<1>2. NoByte \in Byte
  BY DEF NoByte, Byte
<1> QED BY <1>1, <1>2 DEF Transfer!FreshMemory, FreshMemory, Transfer!Addrs, Addrs, Byte, NoRow, Row

\* The same of the register file.
LEMMA FreshFile ==
  ASSUME NEW index, NEW held \in [Groups -> [Lanes -> Nat]]
  PROVE  /\ Transfer!FreshRows(index, held) = FreshRows(index, held)
         /\ FreshRows(index, held) \in [Groups -> [0..(Rows - 1) -> Row]]
<1>1. Transfer!FreshRows(index, held) = FreshRows(index, held)
  BY DEF Transfer!FreshRows, FreshRows, Transfer!Groups, Groups, Transfer!Lanes, Lanes
<1>2. ASSUME NEW g \in Groups, NEW r \in 0..(Rows - 1), NEW l \in Lanes
      PROVE  [name |-> <<g, r, l>>, number |-> IF r = index THEN held[g][l] ELSE 0] \in Byte
  <2>1. g \in Int /\ r \in Int /\ l \in Int
    BY GeometryAssumption DEF Groups, Lanes
  <2>2. <<g, r, l>> \in Seq(Int)
    BY <2>1
  <2>3. (IF r = index THEN held[g][l] ELSE 0) \in Nat
    OBVIOUS
  <2> QED BY <2>2, <2>3 DEF Byte
<1>3. FreshRows(index, held) \in [Groups -> [0..(Rows - 1) -> Row]]
  BY <1>2 DEF FreshRows, Row
<1> QED BY <1>1, <1>3

\* No bytes of an idle engine are named.
LEMMA FreshUnread ==
  /\ Transfer!FreshRows(0, Transfer!Unread) = FreshRows(0, Unread)
  /\ Unread \in [Groups -> [Lanes -> Nat]]
<1>1. Unread \in [Groups -> [Lanes -> Nat]]
  BY DEF Unread
<1>2. Transfer!Unread = Unread
  BY DEF Transfer!Unread, Unread, Transfer!Groups, Groups, Transfer!Lanes, Lanes
<1> QED BY <1>1, <1>2, FreshFile

\* A command is rejected, or taken to its first byte, as the transfer begins it.
LEMMA AcceptCommandKeeps ==
  ASSUME EngineInv, (VectorInv /\ NothingLeftOut)', NEW c \in Commands, AcceptCommand(c)
  PROVE  TransferInv' /\ Promised
<1>1. /\ state = "IDLE" /\ cmd' = c /\ committed' = 0 /\ completed' = {}
      /\ base' = EffectiveAddr(c) /\ addr' = EffectiveAddr(c)
      /\ group' = FirstGroup(c.groups) /\ lane' = 0 /\ remaining' = c.groups
      /\ loadRow' = NoRow /\ mem' = FreshMemory /\ vrf' = FreshRows(c.index, c.held)
  BY DEF AcceptCommand
<1>2. /\ c \in Command /\ c.held \in [Groups -> [Lanes -> Nat]]
      /\ c.groups \in SUBSET Groups /\ c.op \in {"LOAD", "STORE"}
  BY CommandAssumption DEF Command
<1>3. /\ FieldsError(c) => state' = "DONE" /\ result' = Result("BAD_REQUEST", "NONE", 0, {})
      /\ ~FieldsError(c) /\ AddrError(c) =>
           state' = "DONE" /\ result' = Result("BAD_EADDR", "NONE", 0, {})
      /\ ~FieldsError(c) /\ ~AddrError(c) =>
           /\ state' \in {"VRF_READ_REQ", "LINEAR_LOAD_DMEM_REQ"}
           /\ state' = "VRF_READ_REQ" => kind' \in {"INDEX", "LINEAR_STORE"}
      /\ state' \in {"DONE", "VRF_READ_REQ", "LINEAR_LOAD_DMEM_REQ"}
  BY DEF AcceptCommand, Report
<1>4. Underway' = 0 /\ ~dmemAnswer'.valid
  BY <1>3, UnderwayNext DEF UnderwayByState, NothingLeftOut
<1>5. /\ Transfer!FreshMemory = mem' /\ Transfer!FreshRows(c.index, c.held) = vrf'
      /\ BytesInv'
  BY <1>1, <1>2, FreshBytes, FreshFile DEF BytesInv
<1>6. Promised
  <2>1. Outcome' = [status |-> result'.status, cause |-> result'.cause, eaddr |-> result'.eaddr,
                    completed |-> {}, failed |-> result'.failed, committed |-> 0]
    BY <1>1 DEF Outcome
  <2>2. (IF state' = "DONE" THEN Outcome' ELSE [status |-> "NONE"]) =
          IF ~Transfer!WellFormed(c) THEN Transfer!Rejected("BAD_REQUEST")
          ELSE IF ~Transfer!Reachable(c) THEN Transfer!Rejected("BAD_EADDR")
          ELSE Transfer!NoReport
    <3>1. CASE FieldsError(c)
      <4>1. ~Transfer!WellFormed(c)
        BY <1>2, <3>1, FieldsAgree
      <4>2. state' = "DONE" /\ result' = Result("BAD_REQUEST", "NONE", 0, {})
        BY <1>3, <3>1
      <4>3. Outcome' = Transfer!Rejected("BAD_REQUEST")
        BY <2>1, <4>2 DEF Result, Transfer!Rejected, Transfer!Report
      <4> QED BY <4>1, <4>2, <4>3
    <3>2. CASE ~FieldsError(c) /\ AddrError(c)
      <4>1. Transfer!WellFormed(c) /\ ~Transfer!Reachable(c)
        BY <1>2, <3>2, FieldsAgree, AddressesAgree
      <4>2. state' = "DONE" /\ result' = Result("BAD_EADDR", "NONE", 0, {})
        BY <1>3, <3>2
      <4>3. Outcome' = Transfer!Rejected("BAD_EADDR")
        BY <2>1, <4>2 DEF Result, Transfer!Rejected, Transfer!Report
      <4> QED BY <4>1, <4>2, <4>3
    <3>3. CASE ~FieldsError(c) /\ ~AddrError(c)
      BY <1>2, <1>3, <3>3, FieldsAgree, AddressesAgree DEF Transfer!NoReport
    <3> QED BY <3>1, <3>2, <3>3
  <2>3. state' # "IDLE" /\ committed' + Underway' = 0
    BY <1>1, <1>3, <1>4
  <2>4. Transfer!Begin
    BY <1>1, <1>5, <2>2, <2>3 DEF Transfer!Begin, Transfer!NoJob
  <2> QED BY <2>4 DEF Transfer!Next, Promised
<1>7. ASSUME Busy' PROVE PlaceInv' /\ CarriedInv'
  <2>1. /\ ~FieldsError(c) /\ ~AddrError(c)
        /\ state' \in {"VRF_READ_REQ", "LINEAR_LOAD_DMEM_REQ"}
        /\ state' = "VRF_READ_REQ" => kind' \in {"INDEX", "LINEAR_STORE"}
    BY <1>3, <1>7 DEF Busy
  <2>2. base' = Transfer!Target(c) /\ base' \in Addrs /\ c.groups # {}
    BY <1>1, <1>2, <2>1, AddressesAgree DEF FieldsError
  <2>3. group' \in c.groups /\ Below(c, group') = {}
    <3>1. group' = Min(c.groups)
      BY <1>1, <2>2 DEF FirstGroup
    <3>2. \E m \in c.groups : \A k \in c.groups : m =< k
      <4>1. c.groups \in SUBSET Nat
        BY <1>2, GeometryAssumption DEF Groups
      <4> QED BY <2>2, <4>1, Least
    <3>3. group' \in c.groups /\ \A k \in c.groups : group' =< k
      BY <3>1, <3>2, Zenon DEF Min
    <3> QED BY <1>2, <3>3, FirstRank
  <2>4. Cardinality(completed') = 0
    BY <1>1, FS_EmptySet
  <2>5. RowBytes \in Nat \ {0} /\ 0 \in Lanes /\ base' \in Nat
    BY <2>2, GeometryAssumption DEF Lanes, Addrs
  <2>6. Start' = 0 /\ Within' = 0
    BY <1>1, <2>4, <2>5 DEF Start, Within
  <2>7. PlaceInv'
    BY <1>1, <1>2, <2>1, <2>2, <2>3, <2>5, <2>6 DEF PlaceInv, Below, Transfer!Target
  <2>8. CarriedInv'
    BY <1>4, <2>1 DEF CarriedInv, Reading, Requesting
  <2> QED BY <2>7, <2>8
<1> QED BY <1>5, <1>6, <1>7 DEF TransferInv

\* A delivered report ends the transfer.
LEMMA DeliverCompletionKeeps ==
  ASSUME EngineInv, DeliverCompletion
  PROVE  TransferInv' /\ Promised
<1>1. /\ state = "DONE" /\ state' = "IDLE" /\ mem' = FreshMemory /\ vrf' = FreshRows(0, Unread)
  BY DEF DeliverCompletion
<1>2. Outcome # [status |-> "NONE"]
  BY DEF Outcome
<1>3. Transfer!Deliver
  BY <1>1, <1>2, FreshBytes, FreshUnread DEF Transfer!Deliver, Transfer!NoReport, Transfer!NoJob
<1> QED BY <1>1, <1>3 DEF TransferInv, Busy, Promised, Transfer!Next

\* Nothing the transfer shows or the invariant reads is among what is left.
LEMMA QuietStepKeeps ==
  ASSUME EngineInv, ClearFault \/ UNCHANGED memoryVars
  PROVE  TransferInv' /\ Promised
<1>1. UNCHANGED <<state, kind, cmd, base, lane, result, mem, vrf, addr, group, remaining,
                  completed, committed, loadRow, storeRow, indexRow, readRow,
                  cplSeen, rspSeen, readBad, dmemAnswer, writeAnswer, readCpl, readRsp>>
  BY DEF ClearFault, memoryVars, progressVars, dataVars, readVars, answerVars
<1>2. UNCHANGED <<Busy, PlaceInv, BytesInv, CarriedInv>>
  <2>1. UNCHANGED <<Busy, PlaceInv>>
    BY <1>1 DEF Busy, PlaceInv, Start, Within, FieldsError, AddrError, Below, Indexed, Transfer!Target
  <2>2. UNCHANGED BytesInv
    BY <1>1 DEF BytesInv
  <2>3. UNCHANGED CarriedInv
    BY <1>1 DEF CarriedInv, MemRow, SourceRow, Place, Gathered, Requesting, Reading, BeatLane,
                ByteAddr, IndexedSum, Indexed
  <2> QED BY <2>1, <2>2, <2>3
<1>3. TransferInv'
  BY <1>2 DEF TransferInv, EngineInv
<1>4. UNCHANGED Transfer!vars
  BY <1>1 DEF Transfer!vars, Underway, Outcome, ByteMask, LastGroup, After, FinalBytes, Indexed
<1> QED BY <1>3, <1>4 DEF Promised

\* Every edge of the engine is a step of the transfer, or none.
LEMMA EngineStep ==
  EngineInv /\ [VectorNext]_memoryVars => EngineInv' /\ [Transfer!Next]_Transfer!vars
<1> SUFFICES ASSUME EngineInv, [VectorNext]_memoryVars
             PROVE  EngineInv' /\ [Transfer!Next]_Transfer!vars
  OBVIOUS
<1>1. (VectorInv /\ NothingLeftOut)'
  BY VectorInvStep, OutStep DEF EngineInv
<1> SUFFICES TransferInv' /\ Promised
  BY <1>1 DEF EngineInv, Promised
<1>2. ASSUME NEW c \in Commands, AcceptCommand(c) PROVE TransferInv' /\ Promised
  BY <1>1, <1>2, AcceptCommandKeeps
<1>3. CASE LinearLoadRequest
  BY <1>1, <1>3, LinearLoadRequestKeeps
<1>4. CASE LinearLoadResponse
  BY <1>1, <1>4, LinearLoadResponseKeeps
<1>5. CASE WriteRequest
  BY <1>1, <1>5, WriteRequestKeeps
<1>6. ASSUME NEW clear \in BOOLEAN, WriteCompletion(clear) PROVE TransferInv' /\ Promised
  BY <1>1, <1>6, WriteCompletionKeeps
<1>7. CASE ReadRequest
  BY <1>1, <1>7, ReadRequestKeeps
<1>8. ASSUME NEW clear \in BOOLEAN, NEW cpl \in BOOLEAN, NEW rsp \in BOOLEAN,
             ReadAnswers(cpl, rsp, clear)
      PROVE  TransferInv' /\ Promised
  BY <1>1, <1>8, ReadAnswersKeep
<1>9. CASE LinearStoreRequest
  BY <1>1, <1>9, LinearStoreRequestKeeps
<1>10. CASE LinearStoreResponse
  BY <1>1, <1>10, LinearStoreResponseKeeps
<1>11. CASE IndexedRequest
  BY <1>1, <1>11, IndexedRequestKeeps
<1>12. CASE IndexedResponse
  BY <1>1, <1>12, IndexedResponseKeeps
<1>13. CASE DeliverCompletion
  BY <1>13, DeliverCompletionKeeps
<1>14. CASE ClearFault \/ UNCHANGED memoryVars
  BY <1>14, QuietStepKeeps
<1> QED BY <1>2, <1>3, <1>4, <1>5, <1>6, <1>7, <1>8, <1>9, <1>10, <1>11, <1>12, <1>13, <1>14
        DEF VectorNext, VectorStep

\* The engine moves the bytes of every command, and reports how far it came,
\* as VectorTransfer says: for every geometry, every set of commands, every
\* fault and every order of the answers.
THEOREM VectorRefinement == VectorSpec => MovesAndReports
<1>1. VectorInit => EngineInv /\ Transfer!Init
  <2> SUFFICES ASSUME VectorInit PROVE EngineInv /\ Transfer!Init
    OBVIOUS
  <2>1. /\ state = "IDLE" /\ mem = FreshMemory /\ vrf = FreshRows(0, Unread)
        /\ ~dmemAnswer.valid /\ ~writeAnswer.valid /\ ~readCpl.valid /\ ~readRsp.valid
    BY DEF VectorInit, None
  <2>2. EngineInv
    BY <2>1, VectorInvInit DEF EngineInv, NothingLeftOut, TransferInv, Busy
  <2>3. Transfer!Init
    BY <2>1, FreshBytes, FreshUnread DEF Transfer!Init, Transfer!NoJob, Transfer!NoReport
  <2> QED BY <2>2, <2>3
<1> QED BY <1>1, EngineStep, PTL DEF VectorSpec, MovesAndReports, Transfer!Spec

----------------------------------------------------------------------------
(* How much work a command is                                              *)

\* The most handshakes that one group takes: those of a scatter, which reads
\* an index row and a data row and then stores every byte for itself.
GroupWork == 2 * RowBytes + 6

\* Handshakes of the current group that are still to come
HalvesDue == (IF cplSeen THEN 0 ELSE 1) + (IF rspSeen THEN 0 ELSE 1)
WriteWork == IF cmd.op = "LOAD" THEN 2 ELSE 0
RowWork ==
  IF kind = "LINEAR_STORE" THEN 2
  ELSE 2 * RowBytes + IF kind = "INDEX" /\ cmd.op = "STORE" THEN 3 ELSE WriteWork

Left ==
  CASE state = "LINEAR_LOAD_DMEM_REQ"  -> 4
    [] state = "LINEAR_LOAD_DMEM_RSP"  -> 3
    [] state = "VRF_WRITE_REQ"         -> 2
    [] state = "VRF_WRITE_CPL"         -> 1
    [] state = "LINEAR_STORE_DMEM_REQ" -> 2
    [] state = "LINEAR_STORE_DMEM_RSP" -> 1
    [] state = "VRF_READ_REQ"          -> 3 + RowWork
    [] state = "VRF_READ_WAIT"         -> HalvesDue + RowWork
    [] state = "INDEXED_DMEM_REQ"      -> 2 * (RowBytes - lane) + WriteWork
    [] state = "INDEXED_DMEM_RSP"      -> 2 * (RowBytes - lane) - 1 + WriteWork

\* At most the handshakes until the command is reported
Effort == IF Busy THEN Cardinality(After) * GroupWork + Left ELSE 0

WorkLeft == Effort \in 0..(GroupCount * GroupWork)

\* Every handshake of the engine brings its command nearer to the report, and
\* nothing that happens between them takes it further away.
WorkFalls ==
  state # "IDLE" => Effort' =< Effort /\ (VectorStep => Effort' < Effort)

LEMMA LeftByState ==
  /\ state = "LINEAR_LOAD_DMEM_REQ" => Left = 4
  /\ state = "LINEAR_LOAD_DMEM_RSP" => Left = 3
  /\ state = "VRF_WRITE_REQ" => Left = 2
  /\ state = "VRF_WRITE_CPL" => Left = 1
  /\ state = "LINEAR_STORE_DMEM_REQ" => Left = 2
  /\ state = "LINEAR_STORE_DMEM_RSP" => Left = 1
  /\ state = "VRF_READ_REQ" => Left = 3 + RowWork
  /\ state = "VRF_READ_WAIT" => Left = HalvesDue + RowWork
  /\ state = "INDEXED_DMEM_REQ" => Left = 2 * (RowBytes - lane) + WriteWork
  /\ state = "INDEXED_DMEM_RSP" => Left = 2 * (RowBytes - lane) - 1 + WriteWork
BY DEF Left

LEMMA LeftByNextState ==
  /\ state' = "LINEAR_LOAD_DMEM_REQ" => Left' = 4
  /\ state' = "LINEAR_LOAD_DMEM_RSP" => Left' = 3
  /\ state' = "VRF_WRITE_REQ" => Left' = 2
  /\ state' = "VRF_WRITE_CPL" => Left' = 1
  /\ state' = "LINEAR_STORE_DMEM_REQ" => Left' = 2
  /\ state' = "LINEAR_STORE_DMEM_RSP" => Left' = 1
  /\ state' = "VRF_READ_REQ" => Left' = 3 + RowWork'
  /\ state' = "VRF_READ_WAIT" => Left' = HalvesDue' + RowWork'
  /\ state' = "INDEXED_DMEM_REQ" => Left' = 2 * (RowBytes - lane') + WriteWork'
  /\ state' = "INDEXED_DMEM_RSP" => Left' = 2 * (RowBytes - lane') - 1 + WriteWork'
BY DEF Left

\* The current group has a handshake left, and never more than a group has.
LEMMA LeftFits ==
  ASSUME VectorInv, Busy
  PROVE  Left \in 1..GroupWork
<1>1. RowBytes \in Nat /\ lane \in 0..(RowBytes - 1) /\ RowBytes > 0
  BY GeometryAssumption DEF VectorInv, VectorTypeOK, Lanes
<1>2. HalvesDue \in 0..2 /\ WriteWork \in {0, 2}
  BY DEF HalvesDue, WriteWork
<1>3. RowWork \in 2..(2 * RowBytes + 3)
  BY <1>1, <1>2 DEF RowWork, WriteWork
<1>4. GroupWork = 2 * RowBytes + 6
  BY DEF GroupWork
<1>5. state \in {"LINEAR_LOAD_DMEM_REQ", "LINEAR_LOAD_DMEM_RSP", "VRF_WRITE_REQ", "VRF_WRITE_CPL",
                 "VRF_READ_REQ", "VRF_READ_WAIT", "LINEAR_STORE_DMEM_REQ",
                 "LINEAR_STORE_DMEM_RSP", "INDEXED_DMEM_REQ", "INDEXED_DMEM_RSP"}
  BY Zenon DEF VectorInv, VectorTypeOK, Busy
<1> QED BY <1>1, <1>2, <1>3, <1>4, <1>5, LeftByState

LEMMA LeftFitsNext == (VectorInv /\ Busy)' => Left' \in 1..GroupWork'
<1>1. VectorInv /\ Busy => Left \in 1..GroupWork
  BY LeftFits
<1>2. (VectorInv /\ Busy)' => (Left \in 1..GroupWork)'
  BY <1>1, PTL
<1> QED BY <1>2

\* A step inside the current group, or the report.
LEMMA WithinGroupFalls ==
  ASSUME VectorInv, Busy, VectorInv', UNCHANGED <<remaining, group>>,
         state' = "DONE" \/ (Busy' /\ Left' < Left)
  PROVE  Effort' < Effort
<1>1. Cardinality(After) \in Nat /\ GroupWork \in Nat /\ Left \in 1..GroupWork
  <2>1. After \in SUBSET Groups
    BY DEF VectorInv, VectorTypeOK, After
  <2>2. Cardinality(After) \in Nat
    BY <2>1, Finite, GeometryAssumption
  <2> QED BY <2>2, LeftFits, GeometryAssumption DEF GroupWork
<1>2. PICK p \in Nat : p = Cardinality(After) * GroupWork
  BY <1>1
<1>3. Effort = p + Left
  BY <1>2 DEF Effort
<1>4. CASE state' = "DONE"
  BY <1>1, <1>3, <1>4 DEF Effort, Busy
<1>5. CASE Busy' /\ Left' < Left
  <2>1. After' = After
    BY DEF After
  <2>2. Effort' = p + Left'
    BY <1>2, <1>5, <2>1 DEF Effort, GroupWork
  <2>3. Left' \in 1..GroupWork
    BY <1>5, LeftFitsNext DEF GroupWork
  <2>4. PICK before \in Nat, after \in Nat : before = Left /\ after = Left'
    BY <1>1, <2>3
  <2>5. after < before /\ Effort = p + before /\ Effort' = p + after
    BY <1>3, <1>5, <2>2, <2>4
  <2>6. p + after < p + before
    BY <2>5
  <2> QED BY <2>5, <2>6
<1> QED BY <1>4, <1>5

\* The last step of a group: one group fewer is left.
LEMMA NextGroupFalls ==
  ASSUME VectorInv, Busy, VectorInv', NEW bytes, NEW next \in {"VRF_READ_REQ", "LINEAR_LOAD_DMEM_REQ"},
         FinishGroup(bytes, next)
  PROVE  Effort' < Effort
<1>1. After \in SUBSET Groups /\ Cardinality(After) \in Nat /\ GroupWork \in Nat
      /\ Left \in 1..GroupWork
  <2>1. After \in SUBSET Groups
    BY DEF VectorInv, VectorTypeOK, After
  <2>2. Cardinality(After) \in Nat
    BY <2>1, Finite, GeometryAssumption
  <2> QED BY <2>1, <2>2, LeftFits, GeometryAssumption DEF GroupWork
<1>2. Effort = Cardinality(After) * GroupWork + Left
  BY DEF Effort
<1>3. CASE LastGroup
  <2>1. Effort' = 0
    BY <1>3 DEF FinishGroup, Report, Effort, Busy
  <2>2. Cardinality(After) * GroupWork \in Nat
    BY <1>1
  <2> QED BY <1>1, <1>2, <2>1, <2>2
<1>4. CASE ~LastGroup
  <2>1. state' = next /\ remaining' = After /\ group' = Min(After)
    BY <1>4 DEF FinishGroup
  <2>2. group' \in After
    <3>1. After # {}
      BY <1>4 DEF LastGroup
    <3> QED BY <1>1, <2>1, <3>1, MinOfGroups
  <2>3. After' = After \ {group'}
    BY <2>1 DEF After
  <2>4. Cardinality(After') \in Nat /\ Cardinality(After) = Cardinality(After') + 1
    <3>1. IsFiniteSet(After)
      BY <1>1, Finite
    <3>2. Cardinality(After') = Cardinality(After) - 1 /\ IsFiniteSet(After')
      BY <2>2, <2>3, <3>1, FS_RemoveElement
    <3>3. Cardinality(After') \in Nat
      BY <3>2, FS_CardinalityType
    <3> QED BY <1>1, <3>2, <3>3
  <2>5. Busy'
    BY <2>1 DEF Busy
  <2>6. GroupWork' = GroupWork
    BY DEF GroupWork
  <2>7. Left' \in 1..GroupWork
    BY <2>5, <2>6, LeftFitsNext
  <2>8. Effort' = Cardinality(After') * GroupWork + Left'
    BY <2>5, <2>6 DEF Effort
  <2>9. PICK p \in Nat : /\ p = Cardinality(After') * GroupWork
                         /\ p + GroupWork = Cardinality(After) * GroupWork
    BY <1>1, <2>4, Products
  <2> QED BY <1>1, <1>2, <2>7, <2>8, <2>9
<1> QED BY <1>3, <1>4

\* Each handshake brings the report nearer.
LEMMA HandshakeFalls ==
  ASSUME VectorInv, VectorInv', VectorStep
  PROVE  Busy /\ Effort' < Effort
<1>r. RowBytes \in Nat /\ lane \in 0..(RowBytes - 1) /\ RowBytes > 0
  BY GeometryAssumption DEF VectorInv, VectorTypeOK, Lanes
<1>p. PathInv /\ cmd.op \in {"LOAD", "STORE"} /\ kind \in {"LINEAR_STORE", "INDEX", "SCATTER_DATA"}
      /\ cplSeen \in BOOLEAN /\ rspSeen \in BOOLEAN
  BY DEF VectorInv, VectorTypeOK
<1>w. WriteWork \in {0, 2} /\ (cmd.op = "LOAD" => WriteWork = 2)
  BY DEF WriteWork
<1>1. CASE LinearLoadRequest
  <2>1. /\ state = "LINEAR_LOAD_DMEM_REQ" /\ state' = "LINEAR_LOAD_DMEM_RSP"
        /\ UNCHANGED <<remaining, group>>
    BY <1>1 DEF LinearLoadRequest, progressVars
  <2>2. Busy /\ Busy' /\ Left' < Left
    BY <2>1, LeftByState, LeftByNextState DEF Busy
  <2> QED BY <2>1, <2>2, WithinGroupFalls
<1>2. CASE LinearLoadResponse
  <2>1. /\ state = "LINEAR_LOAD_DMEM_RSP" /\ state' \in {"DONE", "VRF_WRITE_REQ"}
        /\ UNCHANGED <<remaining, group>>
    BY <1>2 DEF LinearLoadResponse, ReportFault, progressVars
  <2>2. Busy /\ (state' # "DONE" => Busy' /\ Left' < Left)
    BY <2>1, LeftByState, LeftByNextState DEF Busy
  <2> QED BY <2>1, <2>2, WithinGroupFalls
<1>3. CASE WriteRequest
  <2>1. /\ state = "VRF_WRITE_REQ" /\ state' = "VRF_WRITE_CPL"
        /\ UNCHANGED <<remaining, group>>
    BY <1>3 DEF WriteRequest, progressVars
  <2>2. Busy /\ Busy' /\ Left' < Left
    BY <2>1, LeftByState, LeftByNextState DEF Busy
  <2> QED BY <2>1, <2>2, WithinGroupFalls
<1>4. ASSUME NEW clear \in BOOLEAN, WriteCompletion(clear) PROVE Busy /\ Effort' < Effort
  <2>1. Busy
    BY <1>4 DEF WriteCompletion, Busy
  <2>2. CASE ~Sound(writeAnswer)
    <3>1. state' = "DONE" /\ UNCHANGED <<remaining, group>>
      BY <1>4, <2>2 DEF WriteCompletion, Report, progressVars
    <3> QED BY <2>1, <3>1, WithinGroupFalls
  <2>3. CASE Sound(writeAnswer)
    <3>1. PICK next \in {"VRF_READ_REQ", "LINEAR_LOAD_DMEM_REQ"} :
            FinishGroup(Cardinality(ByteMask), next)
      BY <1>4, <2>3 DEF WriteCompletion
    <3> QED BY <2>1, <3>1, NextGroupFalls
  <2> QED BY <2>2, <2>3
<1>5. CASE ReadRequest
  <2>1. /\ state = "VRF_READ_REQ" /\ state' = "VRF_READ_WAIT"
        /\ UNCHANGED <<remaining, group, cmd, kind>> /\ cplSeen' = FALSE /\ rspSeen' = FALSE
    BY <1>5 DEF ReadRequest, progressVars
  <2>2. HalvesDue' = 2 /\ RowWork' = RowWork /\ RowWork \in Nat
    BY <1>r, <1>w, <2>1 DEF HalvesDue, RowWork, WriteWork
  <2>3. Busy /\ Busy' /\ Left = 3 + RowWork /\ Left' = 2 + RowWork
    BY <2>1, <2>2, LeftByState, LeftByNextState DEF Busy
  <2>4. Left' < Left
    BY <2>2, <2>3
  <2> QED BY <2>1, <2>3, <2>4, WithinGroupFalls
<1>6. ASSUME NEW clear \in BOOLEAN, NEW cpl \in BOOLEAN, NEW rsp \in BOOLEAN,
             ReadAnswers(cpl, rsp, clear)
      PROVE  Busy /\ Effort' < Effort
  <2>1. /\ state = "VRF_READ_WAIT" /\ (cpl \/ rsp) /\ (cpl => ~cplSeen) /\ (rsp => ~rspSeen)
        /\ UNCHANGED <<cmd, remaining, group>>
    BY <1>6 DEF ReadAnswers, progressVars
  <2>2. \/ /\ ~BothSeen(cpl, rsp, FALSE) /\ UNCHANGED <<state, kind>>
           /\ cplSeen' = (cplSeen \/ cpl) /\ rspSeen' = (rspSeen \/ rsp)
        \/ state' = "DONE"
        \/ \E row : UseRow(row)
    BY <1>6 DEF ReadAnswers, Report, BothSeen, Bit
  <2>3. /\ Busy /\ HalvesDue \in 1..2 /\ RowWork \in Nat /\ Left = HalvesDue + RowWork
    <3>1. HalvesDue \in 1..2
      BY <1>p, <2>1 DEF HalvesDue
    <3>2. RowWork \in Nat
      BY <1>r, <1>w DEF RowWork
    <3> QED BY <2>1, <3>1, <3>2, LeftByState DEF Busy
  <2>4. CASE /\ UNCHANGED <<state, kind>>
             /\ cplSeen' = (cplSeen \/ cpl) /\ rspSeen' = (rspSeen \/ rsp)
    <3>1. RowWork' = RowWork
      BY <2>1, <2>4 DEF RowWork, WriteWork
    <3>2. HalvesDue' \in 0..(HalvesDue - 1)
      BY <1>p, <2>1, <2>4 DEF HalvesDue
    <3>3. Busy' /\ Left' = HalvesDue' + RowWork
      BY <2>1, <2>4, <3>1, LeftByNextState DEF Busy
    <3>4. Left' < Left
      <4>1. PICK due \in 1..2, row \in Nat : due = HalvesDue /\ row = RowWork
        BY <2>3
      <4>2. PICK rest \in 0..(due - 1) : rest = HalvesDue'
        BY <3>2, <4>1
      <4>3. Left = due + row /\ Left' = rest + row
        BY <2>3, <3>3, <4>1, <4>2
      <4>4. due \in Nat /\ rest \in Nat /\ rest < due
        BY <4>1, <4>2
      <4>5. rest + row < due + row
        BY <4>1, <4>4
      <4> QED BY <4>3, <4>5, Zenon
    <3> QED BY <2>1, <2>3, <3>3, <3>4, WithinGroupFalls
  <2>5. CASE state' = "DONE"
    BY <2>1, <2>3, <2>5, WithinGroupFalls
  <2>6. ASSUME NEW row, UseRow(row) PROVE Effort' < Effort
    <3>1. /\ lane' = IF kind = "LINEAR_STORE" THEN lane ELSE 0
          /\ \/ kind = "LINEAR_STORE" /\ state' = "LINEAR_STORE_DMEM_REQ" /\ kind' = kind
             \/ kind = "INDEX" /\ cmd.op = "STORE" /\ state' = "VRF_READ_REQ" /\ kind' = "SCATTER_DATA"
             \/ /\ kind # "LINEAR_STORE" /\ ~(kind = "INDEX" /\ cmd.op = "STORE")
                /\ state' = "INDEXED_DMEM_REQ" /\ kind' = kind
      BY <2>6 DEF UseRow
    <3>2. WriteWork' = WriteWork
      BY <2>1 DEF WriteWork
    <3>3. CASE kind = "LINEAR_STORE" /\ state' = "LINEAR_STORE_DMEM_REQ"
      <4>1. RowWork = 2 /\ Left' = 2 /\ Busy'
        BY <3>3, LeftByNextState DEF RowWork, Busy
      <4> QED BY <2>1, <2>3, <4>1, WithinGroupFalls
    <3>4. CASE kind = "INDEX" /\ cmd.op = "STORE" /\ state' = "VRF_READ_REQ" /\ kind' = "SCATTER_DATA"
      <4>1. RowWork = 2 * RowBytes + 3 /\ RowWork' = 2 * RowBytes
        BY <1>r, <2>1, <3>4 DEF RowWork, WriteWork
      <4>2. Left' = 3 + 2 * RowBytes /\ Busy'
        BY <3>4, <4>1, LeftByNextState DEF Busy
      <4>3. Left' < Left
        BY <1>r, <2>3, <4>1, <4>2
      <4> QED BY <2>1, <2>3, <4>2, <4>3, WithinGroupFalls
    <3>5. CASE /\ kind # "LINEAR_STORE" /\ ~(kind = "INDEX" /\ cmd.op = "STORE")
               /\ state' = "INDEXED_DMEM_REQ" /\ lane' = 0
      <4>1. RowWork = 2 * RowBytes + WriteWork
        BY <3>5 DEF RowWork
      <4>2. Left' = 2 * RowBytes + WriteWork /\ Busy'
        BY <1>r, <1>w, <3>2, <3>5, LeftByNextState DEF Busy
      <4>3. Left' < Left
        BY <1>r, <1>w, <2>3, <4>1, <4>2
      <4> QED BY <2>1, <2>3, <4>2, <4>3, WithinGroupFalls
    <3> QED BY <3>1, <3>3, <3>4, <3>5
  <2> QED BY <2>2, <2>3, <2>4, <2>5, <2>6
<1>7. CASE LinearStoreRequest
  <2>1. /\ state = "LINEAR_STORE_DMEM_REQ" /\ state' = "LINEAR_STORE_DMEM_RSP"
        /\ UNCHANGED <<remaining, group>>
    BY <1>7 DEF LinearStoreRequest, progressVars
  <2>2. Busy /\ Busy' /\ Left' < Left
    BY <2>1, LeftByState, LeftByNextState DEF Busy
  <2> QED BY <2>1, <2>2, WithinGroupFalls
<1>8. CASE LinearStoreResponse
  <2>1. Busy
    BY <1>8 DEF LinearStoreResponse, Busy
  <2>2. CASE dmemAnswer.cause # "NONE"
    <3>1. state' = "DONE" /\ UNCHANGED <<remaining, group>>
      BY <1>8, <2>2 DEF LinearStoreResponse, ReportFault, progressVars
    <3> QED BY <2>1, <3>1, WithinGroupFalls
  <2>3. CASE dmemAnswer.cause = "NONE"
    <3>1. FinishGroup(Cardinality(ByteMask), "VRF_READ_REQ")
      BY <1>8, <2>3 DEF LinearStoreResponse
    <3> QED BY <2>1, <3>1, NextGroupFalls
  <2> QED BY <2>2, <2>3
<1>9. CASE IndexedRequest
  <2>1. /\ state = "INDEXED_DMEM_REQ" /\ state' \in {"DONE", "INDEXED_DMEM_RSP"}
        /\ UNCHANGED <<remaining, group, lane, cmd>>
    BY <1>9 DEF IndexedRequest, Report, progressVars
  <2>2. WriteWork' = WriteWork
    BY <2>1 DEF WriteWork
  <2>3. Busy /\ (state' # "DONE" => Busy' /\ Left' < Left)
    BY <1>r, <1>w, <2>1, <2>2, LeftByState, LeftByNextState DEF Busy
  <2> QED BY <2>1, <2>3, WithinGroupFalls
<1>10. CASE IndexedResponse
  <2>1. /\ state = "INDEXED_DMEM_RSP" /\ Busy /\ UNCHANGED cmd
    BY <1>10 DEF IndexedResponse, Busy
  <2>2. WriteWork' = WriteWork /\ Left = 2 * (RowBytes - lane) - 1 + WriteWork
    BY <2>1, LeftByState DEF WriteWork
  <2>3. CASE dmemAnswer.cause # "NONE"
    <3>1. state' = "DONE" /\ UNCHANGED <<remaining, group>>
      BY <1>10, <2>3 DEF IndexedResponse, ReportFault, progressVars
    <3> QED BY <2>1, <3>1, WithinGroupFalls
  <2>4. CASE dmemAnswer.cause = "NONE" /\ ~LastLane
    <3>1. /\ lane' = (lane + 1) % RowBytes /\ state' = "INDEXED_DMEM_REQ"
          /\ UNCHANGED <<remaining, group>>
      BY <1>10, <2>4 DEF IndexedResponse
    <3>2. lane' = lane + 1
      <4>1. lane + 1 \in 0..(RowBytes - 1)
        BY <1>r, <2>4 DEF LastLane
      <4> QED BY <1>r, <3>1, <4>1
    <3>3. Busy' /\ Left' = 2 * (RowBytes - (lane + 1)) + WriteWork
      BY <2>2, <3>1, <3>2, LeftByNextState DEF Busy
    <3>4. Left' < Left
      BY <1>r, <1>w, <2>2, <3>3
    <3> QED BY <2>1, <3>1, <3>3, <3>4, WithinGroupFalls
  <2>5. CASE dmemAnswer.cause = "NONE" /\ LastLane /\ cmd.op = "LOAD"
    <3>1. state' = "VRF_WRITE_REQ" /\ UNCHANGED <<remaining, group>>
      BY <1>10, <2>5 DEF IndexedResponse, progressVars
    <3>2. Busy' /\ Left' = 2
      BY <3>1, LeftByNextState DEF Busy
    <3>3. Left' < Left
      BY <1>r, <1>w, <2>2, <2>5, <3>2
    <3> QED BY <2>1, <3>1, <3>2, <3>3, WithinGroupFalls
  <2>6. CASE dmemAnswer.cause = "NONE" /\ LastLane /\ cmd.op # "LOAD"
    <3>1. FinishGroup(1, "VRF_READ_REQ")
      BY <1>10, <2>6 DEF IndexedResponse
    <3> QED BY <2>1, <3>1, NextGroupFalls
  <2> QED BY <2>3, <2>4, <2>5, <2>6
<1> QED BY <1>1, <1>2, <1>3, <1>4, <1>5, <1>6, <1>7, <1>8, <1>9, <1>10 DEF VectorStep

\* A command is never more work than all groups are.
LEMMA WorkFits ==
  ASSUME VectorInv
  PROVE  WorkLeft
<1>1. GroupCount \in Nat /\ GroupWork \in Nat
  BY GeometryAssumption DEF GroupWork
<1>2. GroupCount * GroupWork \in Nat
  BY <1>1
<1>3. CASE ~Busy
  BY <1>2, <1>3 DEF WorkLeft, Effort
<1>4. CASE Busy
  <2>1. remaining \subseteq Groups /\ group \in remaining /\ After = remaining \ {group}
    BY <1>4 DEF VectorInv, VectorTypeOK, ProgressInv, After
  <2>2. Cardinality(After) \in Nat /\ Cardinality(After) + 1 =< GroupCount
    <3>1. IsFiniteSet(remaining) /\ Cardinality(remaining) \in 0..GroupCount
      BY <2>1, Finite
    <3>2. Cardinality(After) = Cardinality(remaining) - 1 /\ IsFiniteSet(After)
      BY <2>1, <3>1, FS_RemoveElement
    <3>3. Cardinality(After) \in Nat
      BY <3>2, FS_CardinalityType
    <3> QED BY <1>1, <3>1, <3>2, <3>3
  <2>3. PICK c \in Nat, d \in Nat : c = Cardinality(After) /\ GroupCount = c + 1 + d
    <3>1. GroupCount - (Cardinality(After) + 1) \in Nat
      BY <1>1, <2>2
    <3>2. GroupCount = Cardinality(After) + 1 + (GroupCount - (Cardinality(After) + 1))
      BY <1>1, <2>2
    <3> QED BY <2>2, <3>1, <3>2
  <2>4. /\ (c + 1 + d) * GroupWork = c * GroupWork + GroupWork + d * GroupWork
        /\ c * GroupWork \in Nat /\ d * GroupWork \in Nat
    BY <1>1, Products
  <2>5. Effort = c * GroupWork + Left /\ Left \in 1..GroupWork
    BY <1>4, <2>3, LeftFits DEF Effort
  <2>6. Effort \in Nat /\ Effort =< (c + 1 + d) * GroupWork
    BY <1>1, <2>4, <2>5
  <2> QED BY <1>2, <2>3, <2>6 DEF WorkLeft
<1> QED BY <1>3, <1>4

\* Bounded work: a command is at most GroupCount * (2 * RowBytes + 6)
\* handshakes from its report, and comes nearer with every one of them,
\* whatever the endpoints answer and however late.
THEOREM BoundedWork == VectorSpec => []WorkLeft /\ [][WorkFalls]_memoryVars
<1>1. VectorInv /\ VectorInv' /\ [VectorNext]_memoryVars => [WorkFalls]_memoryVars
  <2> SUFFICES ASSUME VectorInv, VectorInv', VectorNext, state # "IDLE"
               PROVE  Effort' =< Effort /\ (VectorStep => Effort' < Effort)
    BY DEF WorkFalls
  <2>1. Effort \in Nat /\ Effort' \in Nat
    <3>1. WorkLeft /\ WorkLeft'
      BY WorkFits, PTL
    <3> QED BY <3>1 DEF WorkLeft
  <2>2. CASE VectorStep
    BY <2>1, <2>2, HandshakeFalls
  <2>3. CASE DeliverCompletion
    <3>1. Effort' = 0 /\ state = "DONE"
      BY <2>3 DEF DeliverCompletion, Effort, Busy
    <3>2. ~VectorStep
      BY <3>1, HandshakeFalls DEF Busy
    <3> QED BY <2>1, <3>1, <3>2
  <2>4. CASE ClearFault /\ ~VectorStep
    <3>1. Effort' = Effort
      BY <2>4 DEF ClearFault, Effort, Busy, After, Left, HalvesDue, RowWork, WriteWork, GroupWork,
                  progressVars, readVars
    <3> QED BY <2>1, <2>4, <3>1
  <2>5. ASSUME NEW c \in Commands, AcceptCommand(c) PROVE FALSE
    BY <2>5 DEF AcceptCommand
  <2> QED BY <2>2, <2>3, <2>4, <2>5 DEF VectorNext
<1>2. VectorInv => WorkLeft
  BY WorkFits
<1> QED BY <1>1, <1>2, VectorInvInit, VectorInvStep, PTL DEF VectorSpec
============================================================================
