------------------------------ MODULE MCIsotpTx ------------------------------
(* Instances of IsotpTx for TLC.  Sender threads that send the same PDUs are *)
(* interchangeable: the safety runs use that symmetry.                       *)
EXTENDS IsotpTx, TLC

Threads == Permutations(Senders)

MCUpTo2 == [s \in Senders |-> 1..2]
MCUpTo3 == [s \in Senders |-> 1..3]
\* One thread sends PDUs of three frames, the others of one.
MCLongAndShort ==
  LET t == CHOOSE s \in Senders : TRUE IN [s \in Senders |-> IF s = t THEN {3} ELSE {1}]

Flow(bs, gap) == [bs |-> bs, gap |-> gap]
MCBurst   == {Flow(0, FALSE), Flow(0, TRUE)}
MCFlows   == {Flow(bs, gap) : bs \in {0, 1}, gap \in BOOLEAN}
\* A gap after each frame, or another flow control.
MCPaced   == {Flow(0, TRUE), Flow(1, FALSE)}

Env(n, signals, unregister, faults, closing) ==
  [xfers |-> n, signals |-> signals, unregister |-> unregister, faults |-> faults,
   closing |-> closing]
MCOpen    == {Env(2, TRUE, FALSE, TRUE, FALSE)}
\* Two PDUs on an open socket, or one and all that may happen to a socket.
MCAll     == MCOpen \cup {Env(1, TRUE, TRUE, TRUE, TRUE)}
\* Two PDUs, or one and a release after a signal, a fault or a device that went.
MCEnding  == {Env(2, FALSE, FALSE, FALSE, FALSE), Env(1, TRUE, FALSE, TRUE, TRUE),
              Env(1, FALSE, TRUE, FALSE, TRUE)}
=============================================================================
