-------------------------- MODULE MCProgramWrapper --------------------------
(* Programs of six words fetched in pairs, and every launch range between   *)
(* the given addresses, bad and empty ones included.  A body word, read as  *)
(* a header, is an END.  The register counts modulo 4.                      *)
EXTENDS ProgramWrapper

Pcs == {0, 8, 20, 24}
LivePcs == {0, 20, 24}

Item(need, kind, op, arg) ==
  [need |-> need, kind |-> kind, legal |-> TRUE, op |-> op, arg |-> arg]

Plain(need, kind) == Item(need, kind, "NONE", 0)
Illegal(need, kind) == [Plain(need, kind) EXCEPT !.legal = FALSE]
End  == Plain(1, "END")
Body == End
Words == {0, 4, 8, 12, 16, 20}

\* SADDI r1, 1; SADD r1, r1, r1; BNE r1, r0 back to it; END
Loop == [a \in Words |->
           CASE a = 0  -> Item(2, "STATE", "SADDI", 1)
             [] a = 8  -> Item(1, "STATE", "SADD", 0)
             [] a = 12 -> Item(2, "BRANCH", "BNE", -4)
             [] a = 20 -> End
             [] OTHER  -> Body]

\* EXEC; a malformed branch; J over an END to the END that closes the
\* longest range, out of every other range
Skip == [a \in Words |->
           CASE a = 0  -> Plain(1, "EXEC")
             [] a = 4  -> Illegal(1, "BRANCH")
             [] a = 8  -> Item(2, "BRANCH", "J", 12)
             [] a = 16 -> End
             [] a = 20 -> End
             [] OTHER  -> Body]

\* SMOVI; MEMORY; an END that is early in the longest range; an illegal
\* record the range cuts
Odd == [a \in Words |->
          CASE a = 0  -> Item(2, "STATE", "SMOVI", 3)
            [] a = 8  -> Plain(2, "MEMORY")
            [] a = 16 -> End
            [] a = 20 -> Illegal(4, "MEMORY")
            [] OTHER  -> Plain(1, "UNDEFINED")]

MCImages == {Loop, Skip, Odd}
============================================================================
