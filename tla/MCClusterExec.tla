--------------------------- MODULE MCClusterExec ---------------------------
(***************************************************************************)
(* Two contexts, slots, groups and entries, queues of one command.  Either *)
(* context 0 owns both groups or each context owns one, so every command   *)
(* is sometimes well-formed or sometimes malformed.  MaxRequests commands  *)
(* and state writes come in, at most MaxWrites of them writes.             *)
(***************************************************************************)
EXTENDS ClusterExec

CONSTANTS MaxRequests, MaxWrites

VARIABLES sent, wrote  \* commands and state writes so far

mcVars == <<clusterVars, sent, wrote>>

To(context, tag, groups, op) ==
  [context |-> context, tag |-> tag, groups |-> groups, op |-> op]

\* A multicast with results, a refused command, a command for either owner.
MCCommands ==
  {To(0, 0, {0, 1}, "EXPORT"), To(0, 1, {0}, "REFUSED"), To(1, 0, {1}, "EXPORT")}

\* The write bears the key of the multicast.
MCWrites == {[group |-> 1, context |-> 0, tag |-> 0, illegal |-> FALSE]}

MCGrants == {Slots, {1}}

MCInit ==
  /\ ClusterInit
  /\ owner \in {[g \in Groups |-> 0], [g \in Groups |-> g]}
  /\ sent = 0 /\ wrote = 0

MCNext ==
  \E taken \in SUBSET Offered, granted \in Grants :
    \E written \in WriteTurns(taken), read \in ReadTurns :
      \E entering \in {<<>>} \cup {<<c>> : c \in MCCommands} :
        /\ sent' = sent + Len(entering)
        /\ wrote' = wrote + Cardinality(written)
        /\ sent' + wrote' =< MaxRequests /\ wrote' =< MaxWrites
        /\ StateTurns(written, read)
        /\ Cycle(taken, read \cup {w.group : w \in written}, written, granted,
                 entering, FALSE)

MCSpec == MCInit /\ [][MCNext]_mcVars
=============================================================================
