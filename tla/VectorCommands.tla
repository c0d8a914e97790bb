--------------------------- MODULE VectorCommands ---------------------------
(***************************************************************************)
(* The commands of the vector memory engine and the bytes they move.  A    *)
(* byte carries a name, so that moved bytes can be told apart, and the     *)
(* number it stands for when it is read as an index.                       *)
(***************************************************************************)
EXTENDS Integers, FiniteSets, FiniteSetsExt

CONSTANTS
  GroupCount,  \* groups of the cluster, one row of bytes each
  RowBytes,    \* VRF_ROW_BYTES, bytes of a row and of a memory beat
  Rows,        \* VRF_ROWS of each group
  AddrLimit,   \* 2^MEM_EADDR_W
  Commands,    \* the commands presented
  Faults       \* the fault causes the memory may answer

ASSUME GeometryAssumption ==
  /\ GroupCount \in Nat \ {0} /\ RowBytes \in Nat \ {0} /\ Rows \in Nat \ {0}
  /\ AddrLimit \in Nat /\ AddrLimit > GroupCount * RowBytes

Groups == 0..(GroupCount - 1)
Lanes  == 0..(RowBytes - 1)
Addrs  == 0..(AddrLimit - 1)

\* held is what the index row of the command holds in the register file
\* when the command is accepted.  The offset has at most one bit more than
\* an address; a span may be larger than the groups are.
Command ==
  [op : {"LOAD", "STORE"}, mode : {"UNIT_STRIDE", "INDEX_U8", "UNDEFINED"},
   base : Addrs, offset : (-AddrLimit)..(AddrLimit - 1),
   groups : SUBSET Groups, row : Nat, index : Nat, span : Nat,
   held : [Groups -> [Lanes -> Nat]]]

ASSUME CommandAssumption == Commands \subseteq Command

Indexed(c) == c.mode = "INDEX_U8"

\* The lowest group of a set, 0 for the empty one.
FirstGroup(set) == IF set = {} THEN 0 ELSE Min(set)

----------------------------------------------------------------------------
(* Bytes *)

NoByte == [name |-> <<>>, number |-> 0]
NoRow  == [l \in Lanes |-> NoByte]

FreshMemory == [a \in Addrs |-> [name |-> <<a>>, number |-> 0]]

Unread == [g \in Groups |-> [l \in Lanes |-> 0]]

FreshRows(index, held) ==
  [g \in Groups |-> [r \in 0..(Rows - 1) |-> [l \in Lanes |->
     [name |-> <<g, r, l>>,
      number |-> IF r = index THEN held[g][l] ELSE 0]]]]
============================================================================
