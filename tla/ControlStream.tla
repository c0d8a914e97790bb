---------------------------- MODULE ControlStream ----------------------------
(***************************************************************************)
(* What the stages of the control stream share: addresses, the words of    *)
(* the control image and the bundle that travels from the program source   *)
(* to the framer.                                                          *)
(*                                                                         *)
(* A word is represented by the byte address it was read from, so that a   *)
(* word of another path, a lost word and a repeated word all show.  What   *)
(* the words mean is the business of the framer and of the decoders.       *)
(***************************************************************************)
EXTENDS Integers, Sequences, Registers

CONSTANTS
  BundleWords,  \* BUNDLE_WORDS: the most words one fetch returns
  PcInputs      \* byte addresses the launcher and the sequencer may present

ASSUME StreamAssumption ==
  /\ BundleWords \in Nat \ {0}
  /\ PcInputs \subseteq Nat

Aligned(a) == a % 4 = 0

\* data names the word the first lane was read from; base is the PC the
\* bundle claims for it.
Bundle   == [data : Nat, count : 0..BundleWords, base : Nat, last : BOOLEAN]
NoBundle == [data |-> 0, count |-> 0, base |-> 0, last |-> FALSE]

\* The lanes of a bundle that carry words, oldest first.
Lanes(b) == [i \in 1..b.count |-> b.data + 4 * (i - 1)]
============================================================================
