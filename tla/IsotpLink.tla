------------------------------ MODULE IsotpLink ------------------------------
(***************************************************************************)
(* A CAN_ISOTP sender and a CAN_ISOTP receiver with matching options, one  *)
(* CAN bus between them: the receive path of IsotpRx, step by step, and    *)
(* the byte level of the transmit path (net/can/isotp.c), of which IsotpTx *)
(* has the concurrency.  The bus keeps the order of the data frames; it    *)
(* may lose frames of either direction.                                    *)
(***************************************************************************)
EXTENDS IsotpRx, Sequences, SequencesExt

CONSTANTS
  Plans,      \* what is sent over which bus, by name: [opts : option records,
              \* sizes : PDU sizes a sender may ask for, pdus : PDUs sent (a
              \* bound), cap : data frames between the ends (a bound), loss :
              \* frames may be lost, echoFirst : the echo of a frame comes
              \* before the peer's answer to it]
  Timely      \* a timeout only comes when nothing is under way

ASSUME LinkAssumption ==
  /\ Timely \in BOOLEAN
  /\ \A n \in DOMAIN Plans : LET p == Plans[n] IN
       /\ \A e \in DOMAIN Envs : p.opts \subseteq Envs[e].opts
       /\ p.sizes \subseteq Nat \ {0}
       /\ p.pdus \in Nat /\ p.cap \in Nat \ {0} /\ {p.loss, p.echoFirst} \subseteq BOOLEAN

VARIABLES
  plan, \* the name of the plan at hand
  tx,    \* so->tx of the sender, with txfc.bs
  wire,  \* data frames sent and not yet received
  sent,  \* history: size of each PDU handed to sendmsg()
  got    \* history: PDUs taken from the receiver's socket

linkVars == <<plan, tx, wire, sent, got>>
allVars  == <<vars, linkVars>>

Plan == Plans[plan]

LinkInit ==
  /\ Init
  /\ plan \in DOMAIN Plans /\ opt \in Plan.opts
  /\ tx = [state |-> "IDLE", len |-> 0, idx |-> 0, sn |-> 0, bs |-> 0, fcbs |-> 0]
  /\ wire = <<>> /\ sent = <<>> /\ got = <<>>

-----------------------------------------------------------------------------
(* Sender. *)

Room == Len(wire) < Plan.cap

\* isotp_sendmsg(): a single frame, or a first frame and the wait for its FC.
Sendmsg ==
  /\ tx.state = "IDLE" /\ bound /\ Len(sent) < Plan.pdus /\ Room
  /\ \E size \in Plan.sizes :
       LET pdu == Len(sent) + 1
           f   == IF FitsSingle(opt, size) THEN SingleFrame(opt, pdu, size)
                                           ELSE isotp_create_fframe(opt, pdu, size)
       IN /\ sent' = Append(sent, size)
          /\ wire' = Append(wire, f)
          /\ tx' = [tx EXCEPT !.len = size, !.idx = f.num, !.sn = 1 % SnMod,
                              !.state = IF f.type = "SF" THEN "SENDING"
                                                         ELSE "WAIT_FIRST_FC"]
  /\ UNCHANGED <<vars, plan, got>>

NextSn(sn) == (sn + 1) % SnMod

\* isotp_send_cframe() of sender state t.
isotp_send_cframe(t) ==
  LET f == ConsecutiveFrame(opt, Len(sent), t.len, t.idx, t.sn)
  IN /\ Room
     /\ wire' = Append(wire, f)
     /\ tx' = [t EXCEPT !.idx = @ + f.num, !.sn = NextSn(@), !.bs = (@ + 1) % BsMod]

\* The flow control frame as isotp_send_fc() lays it out.
FcFrame == [len |-> IF opt.tx_padding THEN CAN_MAX_DLEN ELSE opt.ae + 3, pad |-> TRUE]

FcMalformed == PaddingBad(opt, FcFrame, opt.ae + 3)

\* isotp_rcv_fc(): a frame nobody waits for is dropped.
isotp_rcv_fc ==
  /\ fc # "none" /\ fc' = "none"
  /\ Plan.echoFirst => tx.state # "SENDING"
  /\ LET t == [tx EXCEPT !.fcbs = IF tx.state = "WAIT_FIRST_FC" THEN opt.bs ELSE @]
     IN \/ tx.state \notin {"WAIT_FIRST_FC", "WAIT_FC"} /\ UNCHANGED <<tx, wire>>
        \/ /\ tx.state \in {"WAIT_FIRST_FC", "WAIT_FC"}
           /\ IF FcMalformed \/ fc = "OVFLW"
              THEN tx' = [t EXCEPT !.state = "IDLE"] /\ UNCHANGED wire
              ELSE isotp_send_cframe([t EXCEPT !.state = "SENDING", !.bs = 0])
  /\ UNCHANGED <<sockVars, recvVars, stepVars, timerVars, sk_err, plan, sent, got>>

\* isotp_rcv_echo(): the frame sent last is out.
isotp_rcv_echo ==
  /\ tx.state = "SENDING"
  /\ \/ /\ tx.idx >= tx.len
        /\ tx' = [tx EXCEPT !.state = "IDLE"] /\ UNCHANGED wire
     \/ /\ tx.idx < tx.len /\ tx.fcbs > 0 /\ tx.bs >= tx.fcbs
        /\ tx' = [tx EXCEPT !.state = "WAIT_FC"] /\ UNCHANGED wire
     \/ /\ tx.idx < tx.len /\ (tx.fcbs = 0 \/ tx.bs < tx.fcbs)
        /\ isotp_send_cframe(tx)
  /\ UNCHANGED <<vars, plan, sent, got>>

InFlight == wire # <<>> \/ hpc # "idle" \/ fc # "none"

\* isotp_tx_timeout(), waiting for a flow control frame.
isotp_tx_timeout ==
  /\ tx.state \in {"WAIT_FIRST_FC", "WAIT_FC"}
  /\ Timely => ~InFlight
  /\ tx' = [tx EXCEPT !.state = "IDLE"]
  /\ UNCHANGED <<vars, plan, wire, sent, got>>

-----------------------------------------------------------------------------
(* The bus and the receiver. *)

\* The receiver's softirq takes the next frame, or drops it right away.
Receive ==
  /\ wire # <<>> /\ hpc = "idle" /\ queue = NoPdu
  /\ isotp_rcv(Head(wire)) \/ (Ignored(Head(wire)) /\ UNCHANGED vars)
  /\ wire' = Tail(wire)
  /\ UNCHANGED <<plan, tx, sent, got>>

LoseFrame ==
  /\ Plan.loss /\ wire # <<>>
  /\ \E i \in 1..Len(wire) : wire' = RemoveAt(wire, i)
  /\ UNCHANGED <<vars, plan, tx, sent, got>>

LoseFc == Plan.loss /\ FcTaken /\ UNCHANGED linkVars

\* recvmsg() of a PDU.
Recvmsg ==
  /\ isotp_recvmsg
  /\ got' = IF queue' # queue THEN Append(got, queue) ELSE got
  /\ UNCHANGED <<plan, tx, wire, sent>>

\* The receive watchdog (1 s) outlasts the gap between two frames.
RxStep ==
  /\ \/ SoftirqStep \/ TimerStep \/ BindCheck \/ BindRegister
     \/ Expire /\ (Timely => ~InFlight /\ tx.state # "SENDING")
  /\ UNCHANGED linkVars

LinkNext ==
  \/ Sendmsg \/ isotp_rcv_fc \/ isotp_rcv_echo \/ isotp_tx_timeout
  \/ Receive \/ LoseFrame \/ LoseFc \/ Recvmsg \/ RxStep

LinkSpec == LinkInit /\ [][LinkNext]_allVars

-----------------------------------------------------------------------------
(* Safety. *)

\* What the receiver gets is byte for byte a PDU that was sent, whatever the
\* bus loses: isotp_rcv_ff() and isotp_rcv_cf() never mix or cut PDUs.
IsSent(q) == q.exact /\ q.len = sent[q.pdu]
Intact ==
  /\ queue # NoPdu => IsSent(queue)
  /\ \A i \in 1..Len(got) : IsSent(got[i])

\* On a bus that loses nothing every PDU that fits the receiver's buffer is
\* delivered, for all matching options and sizes (the layout made by
\* isotp_fill_dataframe() and isotp_create_fframe() is the one isotp_rcv()
\* expects): when both ends are idle again, nothing is missing.
Quiet == tx.state = "IDLE" /\ ~InFlight /\ queue = NoPdu
Delivered(p) == \E i \in 1..Len(got) : got[i].pdu = p
AllDelivered ==
  ~Plan.loss /\ Quiet => \A p \in 1..Len(sent) : sent[p] <= max_pdu_size => Delivered(p)
=============================================================================
