---------------------------- MODULE MCJ1939Claim ----------------------------
(* Instances of J1939Claim: the machines.                                   *)
EXTENDS J1939Claim, TLC

Machine(smp, lookups, sends) == [smp |-> smp, lookups |-> lookups, sends |-> sends]

\* What one processor, or less traffic, allows is among what this machine does.
MCWhole == {Machine(TRUE, TRUE, TRUE)}
MCSmp == {Machine(TRUE, FALSE, FALSE)}
MCOneCpu == {Machine(FALSE, TRUE, FALSE)}

\* A socket of each NAME, and one of an address alone.
MCBinds == {[name |-> 1, sa |-> J1939_NO_ADDR], [name |-> 2, sa |-> 8],
            [name |-> NoName, sa |-> 8]}

SocketSymmetry == Permutations(Sockets)
=============================================================================
