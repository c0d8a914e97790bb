---------------------------- MODULE MCMultiFramer ----------------------------
(* Streams of up to six words in bundles of up to two, two offered slots.   *)
(* The first headers take every length, the later ones are fixed so that    *)
(* records cross one and two bundle boundaries, END lies inside bodies and  *)
(* after records, and the last record is cut off.  Address 6 is misaligned. *)
EXTENDS FramerStream

Pcs == {0, 4, 6, 8, 12, 16, 20}

Header(need) == [need |-> need, kind |-> "OTHER"]
EndHeader == [need |-> 1, kind |-> "END"]

Heads == {Header(1), Header(2), Header(4), EndHeader}

MCImages ==
  {[a \in {0, 4, 8, 12, 16, 20} |->
      CASE a = 0 -> x [] a = 4 -> y [] a = 8 -> z
        [] a = 12 -> Header(1) [] a = 16 -> EndHeader [] a = 20 -> Header(3)] :
     x \in Heads, y \in {Header(2), Header(4), EndHeader}, z \in {Header(3), EndHeader}}
============================================================================
