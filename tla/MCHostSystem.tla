---------------------------- MODULE MCHostSystem ----------------------------
(* HostSystem for TLC. *)
EXTENDS HostSystem

CONSTANTS early, late

\* The configurations are model values; only the job's varies.
MCRequests ==
  [kind : {"STAGE"}, port : {"START"}, config : Configs]
  \cup [kind : {"CLEAR_IRQ"}, bits : {IrqEvents}]
  \cup [kind : {"COMMAND"}, strobes : {TRUE},
        command : Ports \cup {"ACK_RESULT", "CLEAR_PROTOCOL"}]

\* A memory fault is an error of its action, and says something else than an
\* error of another kind.
MCCompletions ==
  [bad : BOOLEAN, fault : {FALSE}, info : {early}, valid : {TRUE}]
  \cup [bad : {TRUE}, fault : {TRUE}, info : {late}, valid : {TRUE}]

\* The merge is exercised by a test host, the job's history by host control.
MCTraffic == [HOST |-> SystemEvents \ (AskEvents \cup {"ORPHAN"}), DIRECT |-> SystemEvents]
=============================================================================
