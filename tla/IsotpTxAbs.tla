------------------------------ MODULE IsotpTxAbs ------------------------------
(***************************************************************************)
(* What the transmit path of a CAN_ISOTP socket promises: one PDU at a     *)
(* time is in transmission, each gets exactly one verdict, and the next    *)
(* one begins only after it ("when a transfer (tx) is on the run the next  *)
(* write() blocks until it's done", net/can/isotp.c).                      *)
(***************************************************************************)
EXTENDS Integers

CONSTANTS Transfers   \* numbers of the transfers, in the order they begin

VARIABLES
  begun,    \* number of the last transfer that began
  verdict   \* per transfer: "none", "run", or what ended it

Verdicts == {"ok", "ECOMM", "EBADMSG", "EMSGSIZE", "drop"}

Running == begun > 0 /\ verdict[begun] = "run"

Init == begun = 0 /\ verdict = [x \in Transfers |-> "none"]

Begin ==
  /\ ~Running /\ begun + 1 \in Transfers
  /\ begun' = begun + 1
  /\ verdict' = [verdict EXCEPT ![begun + 1] = "run"]

End(v) ==
  /\ Running
  /\ verdict' = [verdict EXCEPT ![begun] = v]
  /\ UNCHANGED begun

Next == Begin \/ \E v \in Verdicts : End(v)

Spec == Init /\ [][Next]_<<begun, verdict>>
=============================================================================
