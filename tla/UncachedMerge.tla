---------------------------- MODULE UncachedMerge ----------------------------
(***************************************************************************)
(* vsp_uncached_device_merge: two endpoint channels on one master with one *)
(* request outstanding.  A choice that is not accepted at once is locked,  *)
(* an accepted request owns the answer.  asks is the state of the          *)
(* endpoints above, slave the request the master below has accepted; both  *)
(* are external.                                                           *)
(*                                                                         *)
(* An operator marked (mutant) is a broken variant of the operator below   *)
(* it; no specification uses it.                                           *)
(***************************************************************************)
EXTENDS Registers

Endpoints == {"UNCACHED", "DEVICE"}

VARIABLES
  owner,       \* owner_q, "NONE" when owner_valid_q is low
  lock,        \* grant_owner_q, "NONE" when grant_locked_q is low
  mergeError,  \* protocol_error_o
  asks,        \* external: endpoint -> "IDLE", "ASKING" or "WAITING"
  slave        \* external: whose payload the accepted request carried

mergeVars == <<owner, lock, mergeError, asks, slave>>

MergeInit ==
  /\ owner = "NONE" /\ lock = "NONE" /\ mergeError = FALSE
  /\ asks = [e \in Endpoints |-> "IDLE"] /\ slave = "NONE"

\* (mutant) a stronger request displaces the one that is stalled
SelectedLive == IF asks["UNCACHED"] = "ASKING" \/ asks["DEVICE"] # "ASKING"
                THEN "UNCACHED" ELSE "DEVICE"

Selected ==
  IF lock # "NONE" THEN lock
  ELSE IF asks["UNCACHED"] # "ASKING" /\ asks["DEVICE"] = "ASKING"
       THEN "DEVICE" ELSE "UNCACHED"

SharedValid == owner = "NONE" /\ asks[Selected] = "ASKING"
Overlapping == owner = "NONE" /\ \A e \in Endpoints : asks[e] = "ASKING"
MergeIdle   == owner = "NONE" /\ lock = "NONE" /\ ~SharedValid

\* (mutant) the answer goes to whoever asks now
ReceiverLive == Selected

Receiver == owner

\* accepted: the master takes the shared request; answered: its answer is
\* consumed by the owner; orphan: it answers what was never asked.
MergeEdge(accepted, answered, orphan, clear) ==
  /\ accepted => SharedValid
  /\ answered => slave # "NONE"
  /\ orphan => owner = "NONE"
  /\ owner' = IF accepted THEN Selected ELSE IF answered THEN "NONE" ELSE owner
  /\ lock' = IF accepted THEN "NONE"
             ELSE IF SharedValid THEN Selected ELSE lock
  /\ mergeError' = Sticky(mergeError, Overlapping \/ orphan, clear)
  /\ slave' = IF accepted THEN Selected ELSE IF answered THEN "NONE" ELSE slave

\* The endpoints: those in asking raise a request, the one whose request is
\* taken waits, the one that is given the answer is done.
EndpointsEdge(asking, accepted, answered) ==
  /\ \A e \in asking : asks[e] = "IDLE"
  /\ asks' = [e \in Endpoints |->
                IF e \in asking THEN "ASKING"
                ELSE IF accepted /\ e = Selected THEN "WAITING"
                ELSE IF answered /\ e = Receiver THEN "IDLE"
                ELSE asks[e]]
=============================================================================
