--------------------------- MODULE MCVectorMemory ---------------------------
(* Two groups of two bytes in front of eight addresses.  Linear commands of *)
(* full and partial spans, and ones the span, the alignment or either end   *)
(* of the memory forbids; indexed ones with distinct, colliding and         *)
(* unaddressable indices, whose data row may be their own index row.        *)
EXTENDS VectorMemory, TLC

MCCommand(op, mode, place, groups, row, index, span, held) ==
  [op |-> op, mode |-> mode, base |-> place[1], offset |-> place[2],
   groups |-> groups, row |-> row, index |-> index, span |-> span,
   held |-> held]

Shapes == {<<{}, 1>>, <<{0}, 1>>, <<{1}, 2>>, <<Groups, 0>>, <<Groups, 2>>,
           <<Groups, 3>>, <<Groups, 4>>, <<Groups, 5>>}

Linear ==
  {MCCommand(op, "UNIT_STRIDE", place, shape[1], 0, 0, shape[2], Unread) :
     op \in {"LOAD", "STORE"}, shape \in Shapes,
     place \in {<<0, -2>>, <<1, 0>>, <<6, -2>>, <<6, 0>>, <<7, 2>>}}

Table(a, b, c, d) ==
  (0 :> (0 :> a @@ 1 :> b)) @@ (1 :> (0 :> c @@ 1 :> d))

Tables == {Table(3, 0, 2, 1), Table(1, 1, 1, 0), Table(0, 2, 7, 3)}

IndexedCommands ==
  {MCCommand(op, "INDEX_U8", place, groups, row, 1, 0, held) :
     op \in {"LOAD", "STORE"}, place \in {<<1, 0>>, <<4, -2>>},
     groups \in {{1}, Groups}, row \in {0, 1}, held \in Tables}

Malformed ==
  {MCCommand("LOAD", "UNDEFINED", <<0, 0>>, Groups, 0, 0, 0, Unread),
   MCCommand("LOAD", "INDEX_U8", <<0, 0>>, Groups, 2, 0, 0, Unread),
   MCCommand("LOAD", "INDEX_U8", <<0, 0>>, Groups, 0, 2, 0, Unread),
   MCCommand("STORE", "INDEX_U8", <<0, 0>>, Groups, 0, 0, 1, Unread),
   MCCommand("STORE", "INDEX_U8", <<1, -2>>, Groups, 0, 0, 0, Unread)}

MCCommands == Linear \cup IndexedCommands \cup Malformed
============================================================================
