------------------------- MODULE J1939MessageProofs -------------------------
(***************************************************************************)
(* What arrives is what was sent: theorems about J1939Transfer, for every  *)
(* value of its constants.                                                 *)
(*                                                                         *)
(*   MessageHolds   MessageInv, the inductive invariant, holds.            *)
(*   IntactHolds    What is handed up is whole, each message once.         *)
(*   RefsHold       References of timers are those of the timers queued.   *)
(*   TypesUnmixed   With one message of each type no frame is mistaken.    *)
(*                                                                         *)
(* Frames name a type and no session, so those of one message may be taken *)
(* for the next one's of the same type, and TLC finds runs in which what   *)
(* is handed up is not whole, or references stay.  That is the one way to  *)
(* it: all is well as long as no CTS, DPO, DAT or EOMA is taken by another *)
(* message's session (Unmixed), whatever is lost, closed, early or down.   *)
(*                                                                         *)
(* MessageInv says at which place of the transfer a message is: the        *)
(* responder is about to ask for packets, or its CTS is under way, or the  *)
(* packets are, or its EOMA is.  The queues of both nodes hold the frames  *)
(* of one place only, whatever was lost before, so a late DAT never meets  *)
(* the block that follows.                                                 *)
(***************************************************************************)
EXTENDS J1939TransferProofs
-----------------------------------------------------------------------------
(* Blocks: the frames of a message and the sessions at both ends. *)

\* No frame that goes on with a message is taken by the session of another one
\* of its type (j1939_session_get_by_addr()).
Unmixed ==
  \A n \in Nodes : in[n] # <<>> =>
    \A k \in SessionOf(n, Head(in[n])) :
      Head(in[n]).cmd \in {"CTS", "DPO", "DAT", "EOMA"} => Head(in[n]).data.msg = k

\* A socket that sends one message of each type at most.
DistinctTypes ==
  \A i, j \in DOMAIN mode.script : mode.script[i].type = mode.script[j].type => i = j

LEMMA ModeKept ==
  ASSUME [Next]_vars
  PROVE  mode' = mode
<1>1. CASE Users \/ LinkDown \/ j1939_netdev_notify \/ LinkUp \/ UNCHANGED vars
  BY <1>1 DEF Users, j1939_sk_sendmsg, j1939_sk_release, ListenerCloses, LinkDown, j1939_netdev_notify, LinkUp, vars
<1>2. ASSUME NEW n \in Nodes, NEW k \in Msgs, j1939_tp_txtimer(n, k) \/ j1939_tp_rxtimer(n, k)
      PROVE  mode' = mode
  BY <1>2 DEF j1939_tp_txtimer, j1939_tp_rxtimer
<1>3. ASSUME NEW n \in Nodes, Recv(n) \/ Transmit(n)
      PROVE  mode' = mode
  BY <1>3 DEF Recv, Transmit, j1939_tp_recv, NewSession, NoSession, Taken
<1> QED
  BY <1>1, <1>2, <1>3 DEF Next, Network, Timers

\* The frames of message k.
Mine(k) == {f \in FrameRec : f.type = Type(k) /\ f.data.msg = k}

\* Its data frames and those that announce a block; those that ask for one.
DS(k) == {f \in Mine(k) : f.cmd \in {"DAT", "DPO"}}
CS(k) == {f \in Mine(k) : f.cmd = "CTS"}

\* What these frames are if the responder has rx packets and asked for those up to
\* e, in a block that begins at O.
AskedC(f, rx, e) == f.pkt = rx + 1 /\ rx + f.len = e
AskedD(k, f, e, O) ==
  IF f.cmd = "DPO" THEN f.pkt = O
  ELSE f.data.msg = k /\ f.data.pkt = f.pkt - 1 + O /\ 0 <= f.data.pkt /\ f.data.pkt < e

BadC(k, rx, e) == {f \in CS(k) : ~AskedC(f, rx, e)}
BadD(k, e, O) == {f \in DS(k) : ~AskedD(k, f, e, O)}
BadDpo(k, O) == {f \in DS(k) : f.cmd = "DPO" /\ f.pkt # O}
LastD(k, e) == {f \in DS(k) : f.cmd = "DAT" /\ f.data.pkt = e - 1}

Moving == {"CTS", "DAT", "DPO"}
Sending(o) == o.txt # "off" /\ o.cmd \in Moving

\* Data are under way, or about to be sent.
Flows(k, o, oo, ir) == ~None(ir, DS(k)) \/ ~None(oo, DS(k)) \/ Sending(o)

\* The block that message k is at: of its sessions o at the originator and r at
\* the responder, the frames that each has received (io, ir) and those it is to
\* send (oo, orr).  Either the responder is about to ask for packets, or its CTS
\* is under way, or the packets are, up to e.
Block1(k, o, r, io, oo, ir, orr, e, O) ==
  /\ r.txt # "off" \/ ~None(orr, CS(k)) \/ ~None(io, CS(k)) =>
       ~Flows(k, o, oo, ir) /\ o.txcmd # "DPO"
  /\ r.txt # "off" => None(orr, CS(k)) /\ None(io, CS(k)) /\ None(ir, CS(k))
  /\ ~None(orr, CS(k)) => None(io, CS(k)) /\ None(ir, CS(k))
  /\ Behind(orr, CS(k), CS(k)) /\ Behind(io, CS(k), CS(k)) /\ Behind(ir, CS(k), CS(k))
  /\ Behind(ir, CS(k), DS(k)) /\ Behind(io, DS(k), CS(k))
  /\ None(orr, BadC(k, r.rx, e)) /\ None(io, BadC(k, r.rx, e)) /\ None(ir, BadC(k, r.rx, e))
  /\ ~None(orr, CS(k)) \/ ~None(io, CS(k)) \/ ~None(ir, CS(k)) \/ Flows(k, o, oo, ir) =>
       r.rx < e /\ e <= Total(k)
  /\ None(ir, CS(k)) /\ (Flows(k, o, oo, ir) \/ ~None(io, CS(k))) => r.last = e
  /\ ~None(io, CS(k)) /\ None(ir, CS(k)) => r.cmd = "CTS"
  /\ r.txt # "off" \/ ~None(orr, CS(k)) \/ ~None(ir, CS(k)) => r.cmd # "CTS"
  /\ r.cmd = "RTS" => r.rx = 0

Block2(k, o, r, io, oo, ir, orr, e, O) ==
  /\ Sending(o) => o.last = e /\ 0 <= o.acked /\ o.acked <= o.tx /\ o.tx < e
  /\ Sending(o) /\ Type(k) = "etp" =>
       /\ o.acked = O
       /\ \/ o.dpo = O
          \/ o.cmd = "CTS" /\ o.txcmd # "DPO" /\ None(oo, DS(k)) /\ None(io, DS(k))
  /\ Sending(o) => None(io, BadDpo(k, O))
  /\ None(oo, BadD(k, e, O)) /\ None(ir, BadD(k, e, O))
  /\ ~None(ir, LastD(k, e)) => ~Sending(o) /\ o.txcmd # "DPO" /\ None(oo, DS(k))
  /\ ~None(oo, LastD(k, e)) => ~Sending(o) /\ o.txcmd # "DPO"
  /\ Behind(ir, DS(k), LastD(k, e)) /\ Behind(oo, DS(k), LastD(k, e))
  /\ Type(k) = "etp" /\ Flows(k, o, oo, ir) /\ None(ir, CS(k)) /\ r.cmd \in {"DAT", "DPO"} => r.dpo = O
  /\ Type(k) # "etp" => O = 0
  /\ o.st # "freed" /\ o.cmd \notin Moving => None(io, DS(k)) /\ None(oo, DS(k))

Blocks(k, o, r, io, oo, ir, orr, e, O) ==
  e \in Int /\ O \in Int /\ Block1(k, o, r, io, oo, ir, orr, e, O) /\ Block2(k, o, r, io, oo, ir, orr, e, O)

\* Frames that open message k, that end it, and the only one of a short message.
OpS(k) == {f \in Mine(k) : f.cmd \in {"RTS", "BAM"}}
EoS(k) == {f \in Mine(k) : f.cmd = "EOMA"}
SiS(k) == {f \in Mine(k) : f.cmd = "SIMPLE"}

\* All but aborts.
Told(k) == DS(k) \cup CS(k) \cup OpS(k) \cup EoS(k) \cup SiS(k)

\* No CTS, DPO or DAT frame of message k is added to a queue, or none but aborts;
\* frames may be taken.
Calm(k, q, p) ==
  \A S, T : S \subseteq DS(k) \cup CS(k) =>
    (None(q, S) => None(p, S)) /\ (Behind(q, S, T) => Behind(p, S, T))

Silent(k, q, p) ==
  \A S, T : S \subseteq Told(k) => /\ None(q, S) => None(p, S)
                                   /\ Behind(q, S, T) => Behind(p, S, T)

LEMMA NoneOf ==
  ASSUME NEW q, NEW S, NEW T, S \subseteq T, None(q, T)
  PROVE  None(q, S)
  BY DEF None

LEMMA SetsOf ==
  ASSUME NEW k
  PROVE  /\ Mine(k) \subseteq FrameRec /\ DS(k) \subseteq Mine(k) /\ CS(k) \subseteq Mine(k)
         /\ \A rx, e : BadC(k, rx, e) \subseteq CS(k)
         /\ \A e, O : BadD(k, e, O) \subseteq DS(k)
         /\ \A O : BadDpo(k, O) \subseteq DS(k)
         /\ \A e : LastD(k, e) \subseteq DS(k)
  BY DEF Mine, DS, CS, BadC, BadD, BadDpo, LastD

LEMMA CalmIs ==
  ASSUME NEW k, NEW q, NEW p, Calm(k, q, p)
  PROVE  /\ None(q, DS(k)) => None(p, DS(k))
         /\ None(q, CS(k)) => None(p, CS(k))
         /\ \A rx, e : None(q, BadC(k, rx, e)) => None(p, BadC(k, rx, e))
         /\ \A e, O : None(q, BadD(k, e, O)) => None(p, BadD(k, e, O))
         /\ \A O : None(q, BadDpo(k, O)) => None(p, BadDpo(k, O))
         /\ \A e : None(q, LastD(k, e)) => None(p, LastD(k, e))
         /\ Behind(q, CS(k), CS(k)) => Behind(p, CS(k), CS(k))
         /\ Behind(q, CS(k), DS(k)) => Behind(p, CS(k), DS(k))
         /\ Behind(q, DS(k), CS(k)) => Behind(p, DS(k), CS(k))
         /\ \A e : Behind(q, DS(k), LastD(k, e)) => Behind(p, DS(k), LastD(k, e))
<1>1. \A S, T : S \subseteq DS(k) \cup CS(k) =>
    (None(q, S) => None(p, S)) /\ (Behind(q, S, T) => Behind(p, S, T))
  BY DEF Calm
<1>2. /\ DS(k) \subseteq DS(k) \cup CS(k) /\ CS(k) \subseteq DS(k) \cup CS(k)
      /\ \A rx, e : BadC(k, rx, e) \subseteq DS(k) \cup CS(k)
      /\ \A e, O : BadD(k, e, O) \subseteq DS(k) \cup CS(k)
      /\ \A O : BadDpo(k, O) \subseteq DS(k) \cup CS(k)
      /\ \A e : LastD(k, e) \subseteq DS(k) \cup CS(k)
  BY SetsOf
<1> QED
  BY <1>1, <1>2

\* What the sessions may do to a block besides.
OKeeps(o, p) ==
  /\ Sending(p) => Sending(o) /\ Same(o, p)
  /\ p.txcmd = "DPO" => o.txcmd = "DPO"
  /\ p.st # "freed" /\ p.cmd \notin Moving => o.st # "freed" /\ o.cmd \notin Moving

RKeeps(r, p) ==
  /\ p.cmd = r.cmd /\ p.rx = r.rx /\ p.last = r.last /\ p.dpo = r.dpo
  /\ p.txt # "off" => r.txt # "off"

LEMMA BlocksCalm ==
  ASSUME NEW k, NEW o, NEW r, NEW io, NEW oo, NEW ir, NEW orr, NEW e, NEW O,
         Blocks(k, o, r, io, oo, ir, orr, e, O),
         NEW o2, NEW r2, NEW io2, NEW oo2, NEW ir2, NEW orr2,
         Calm(k, io, io2), Calm(k, oo, oo2), Calm(k, ir, ir2), Calm(k, orr, orr2),
         None(ir2, CS(k)) => None(ir, CS(k)),
         OKeeps(o, o2), RKeeps(r, r2)
  PROVE  Blocks(k, o2, r2, io2, oo2, ir2, orr2, e, O)
<1>1. /\ None(io, DS(k)) => None(io2, DS(k))
      /\ None(oo, DS(k)) => None(oo2, DS(k))
      /\ None(ir, DS(k)) => None(ir2, DS(k))
      /\ None(io, CS(k)) => None(io2, CS(k))
      /\ None(ir, CS(k)) <=> None(ir2, CS(k))
      /\ None(orr, CS(k)) => None(orr2, CS(k))
      /\ None(io, BadC(k, r.rx, e)) => None(io2, BadC(k, r.rx, e))
      /\ None(ir, BadC(k, r.rx, e)) => None(ir2, BadC(k, r.rx, e))
      /\ None(orr, BadC(k, r.rx, e)) => None(orr2, BadC(k, r.rx, e))
      /\ None(oo, BadD(k, e, O)) => None(oo2, BadD(k, e, O))
      /\ None(ir, BadD(k, e, O)) => None(ir2, BadD(k, e, O))
      /\ None(io, BadDpo(k, O)) => None(io2, BadDpo(k, O))
      /\ None(oo, LastD(k, e)) => None(oo2, LastD(k, e))
      /\ None(ir, LastD(k, e)) => None(ir2, LastD(k, e))
  BY CalmIs
<1>2. /\ Behind(orr, CS(k), CS(k)) => Behind(orr2, CS(k), CS(k))
      /\ Behind(io, CS(k), CS(k)) => Behind(io2, CS(k), CS(k))
      /\ Behind(ir, CS(k), CS(k)) => Behind(ir2, CS(k), CS(k))
      /\ Behind(ir, CS(k), DS(k)) => Behind(ir2, CS(k), DS(k))
      /\ Behind(io, DS(k), CS(k)) => Behind(io2, DS(k), CS(k))
      /\ Behind(ir, DS(k), LastD(k, e)) => Behind(ir2, DS(k), LastD(k, e))
      /\ Behind(oo, DS(k), LastD(k, e)) => Behind(oo2, DS(k), LastD(k, e))
  BY CalmIs
<1>3. Flows(k, o2, oo2, ir2) => Flows(k, o, oo, ir)
  BY <1>1 DEF Flows, OKeeps
<1>4. Block1(k, o2, r2, io2, oo2, ir2, orr2, e, O)
  BY <1>1, <1>2, <1>3 DEF Blocks, Block1, OKeeps, RKeeps
<1>5. Block2(k, o2, r2, io2, oo2, ir2, orr2, e, O)
  BY <1>1, <1>2, <1>3 DEF Blocks, Block2, OKeeps, RKeeps, Same
<1> QED
  BY <1>4, <1>5 DEF Blocks

\* The bus takes a CTS.
LEMMA BlocksAsk ==
  ASSUME NEW k, NEW o, NEW r, NEW io \in Seq(FrameRec), NEW oo, NEW ir \in Seq(FrameRec),
         NEW orr \in Seq(FrameRec), NEW e, NEW O, Blocks(k, o, r, io, oo, ir, orr, e, O),
         orr # <<>>, NEW f, f = Head(orr), f \in CS(k), NEW io2 \in {io, Append(io, f)}
  PROVE  Blocks(k, o, r, io2, oo, Append(ir, f), Tail(orr), e, O)
<1>1. f \in FrameRec /\ f \notin DS(k) /\ f \notin BadC(k, r.rx, e)
  <2>1. f \in FrameRec /\ f \notin DS(k) /\ None(orr, BadC(k, r.rx, e))
    BY DEF CS, DS, Mine, Blocks, Block1
  <2> QED
    BY <2>1, Taking
<1>2. /\ ~None(orr, CS(k)) /\ None(Tail(orr), CS(k)) /\ None(Tail(orr), BadC(k, r.rx, e))
      /\ Behind(Tail(orr), CS(k), CS(k))
  <2>1. Behind(orr, CS(k), CS(k)) /\ None(orr, BadC(k, r.rx, e))
    BY DEF Blocks, Block1
  <2> QED
    BY <2>1, Taking
<1>3. /\ None(io, CS(k)) /\ None(ir, CS(k)) /\ r.txt = "off" /\ ~Flows(k, o, oo, ir) /\ o.txcmd # "DPO"
      /\ r.cmd # "CTS"
  BY <1>2 DEF Blocks, Block1
<1>4. None(ir, DS(k)) /\ ~Sending(o) /\ None(oo, DS(k))
  BY <1>3 DEF Flows
<1>5. ASSUME NEW q \in Seq(FrameRec), NEW S
      PROVE  None(Append(q, f), S) <=> None(q, S) /\ f \notin S
  BY <1>1, <1>5, Appended
<1>6. ASSUME NEW q \in Seq(FrameRec), NEW S, NEW T, Behind(q, S, T), f \notin S \/ None(q, T)
      PROVE  Behind(Append(q, f), S, T)
  BY <1>1, <1>6, Appended
<1>7. \A O2 : f \notin BadD(k, e, O2) /\ f \notin BadDpo(k, O2) /\ f \notin LastD(k, e)
  BY <1>1, SetsOf
<1>8. /\ None(io2, DS(k)) <=> None(io, DS(k))
      /\ None(io2, BadC(k, r.rx, e)) <=> None(io, BadC(k, r.rx, e))
      /\ None(io2, BadDpo(k, O)) <=> None(io, BadDpo(k, O))
  <2>1. CASE io2 = io
    BY <2>1
  <2>2. CASE io2 = Append(io, f)
    BY <1>1, <1>5, <1>7, <2>2
  <2> QED
    BY <2>1, <2>2
<1>9. Behind(io2, CS(k), CS(k)) /\ Behind(io2, DS(k), CS(k))
  <2>1. Behind(io, CS(k), CS(k)) /\ Behind(io, DS(k), CS(k))
    BY DEF Blocks, Block1
  <2> QED
    BY <1>1, <1>3, <1>6, <2>1
<1>10. /\ Behind(Append(ir, f), CS(k), CS(k)) /\ Behind(Append(ir, f), CS(k), DS(k))
       /\ Behind(Append(ir, f), DS(k), LastD(k, e))
  <2>1. Behind(ir, CS(k), CS(k)) /\ Behind(ir, CS(k), DS(k)) /\ Behind(ir, DS(k), LastD(k, e))
    BY DEF Blocks, Block1, Block2
  <2> QED
    BY <1>1, <1>3, <1>4, <1>6, <2>1
<1>11. /\ ~None(Append(ir, f), CS(k)) /\ None(Append(ir, f), DS(k))
       /\ None(Append(ir, f), BadC(k, r.rx, e)) <=> None(ir, BadC(k, r.rx, e))
       /\ None(Append(ir, f), BadD(k, e, O)) <=> None(ir, BadD(k, e, O))
       /\ None(Append(ir, f), LastD(k, e)) <=> None(ir, LastD(k, e))
  BY <1>1, <1>4, <1>5, <1>7
<1>12. ~Flows(k, o, oo, Append(ir, f))
  BY <1>4, <1>11 DEF Flows
<1>13. Block1(k, o, r, io2, oo, Append(ir, f), Tail(orr), e, O)
  BY <1>2, <1>3, <1>8, <1>9, <1>10, <1>11, <1>12 DEF Blocks, Block1
<1>14. Block2(k, o, r, io2, oo, Append(ir, f), Tail(orr), e, O)
  BY <1>4, <1>8, <1>10, <1>11, <1>12 DEF Blocks, Block2
<1> QED
  BY <1>13, <1>14 DEF Blocks

\* The bus takes a DPO or DAT frame.
LEMMA BlocksCarry ==
  ASSUME NEW k, NEW o, NEW r, NEW io \in Seq(FrameRec), NEW oo \in Seq(FrameRec), NEW ir \in Seq(FrameRec),
         NEW orr, NEW e, NEW O, Blocks(k, o, r, io, oo, ir, orr, e, O),
         oo # <<>>, NEW f, f = Head(oo), f \in DS(k), NEW ir2 \in {ir, Append(ir, f)}
  PROVE  Blocks(k, o, r, Append(io, f), Tail(oo), ir2, orr, e, O)
<1>1. /\ f \in FrameRec /\ f \notin CS(k) /\ f \notin BadD(k, e, O) /\ None(Tail(oo), BadD(k, e, O))
      /\ ~None(oo, DS(k)) /\ (None(oo, LastD(k, e)) => None(Tail(oo), LastD(k, e)) /\ f \notin LastD(k, e))
      /\ f \in LastD(k, e) => None(Tail(oo), DS(k))
      /\ Behind(Tail(oo), DS(k), LastD(k, e)) /\ (None(oo, DS(k)) => None(Tail(oo), DS(k)))
      /\ ~None(Tail(oo), LastD(k, e)) \/ f \in LastD(k, e) => ~None(oo, LastD(k, e))
  <2>1. f \in FrameRec /\ f \notin CS(k)
    BY DEF CS, DS, Mine
  <2>2. None(oo, BadD(k, e, O)) /\ Behind(oo, DS(k), LastD(k, e))
    BY DEF Blocks, Block2
  <2> QED
    BY <2>1, <2>2, Taking
<1>2. Flows(k, o, oo, ir)
  BY <1>1 DEF Flows
<1>3. None(orr, CS(k)) /\ None(io, CS(k)) /\ r.txt = "off"
  BY <1>2 DEF Blocks, Block1
<1>4. ASSUME NEW q \in Seq(FrameRec), NEW S
      PROVE  None(Append(q, f), S) <=> None(q, S) /\ f \notin S
  BY <1>1, <1>4, Appended
<1>5. ASSUME NEW q \in Seq(FrameRec), NEW S, NEW T, Behind(q, S, T), f \notin S \/ None(q, T)
      PROVE  Behind(Append(q, f), S, T)
  BY <1>1, <1>5, Appended
<1>6. f \notin BadDpo(k, O) /\ \A rx : f \notin BadC(k, rx, e)
  <2>1. \A rx : f \notin BadC(k, rx, e)
    BY <1>1, SetsOf
  <2>2. f \notin BadDpo(k, O)
    BY <1>1 DEF BadDpo, BadD, AskedD
  <2> QED
    BY <2>1, <2>2
<1>7. None(ir, LastD(k, e))
  BY <1>1 DEF Blocks, Block2
<1>8. /\ None(Append(io, f), CS(k)) /\ None(Append(io, f), BadC(k, r.rx, e)) <=> None(io, BadC(k, r.rx, e))
      /\ None(Append(io, f), BadDpo(k, O)) <=> None(io, BadDpo(k, O))
  BY <1>1, <1>3, <1>4, <1>6
<1>9. Behind(Append(io, f), CS(k), CS(k)) /\ Behind(Append(io, f), DS(k), CS(k))
  <2>1. Behind(io, CS(k), CS(k)) /\ Behind(io, DS(k), CS(k))
    BY DEF Blocks, Block1
  <2> QED
    BY <1>1, <1>3, <1>5, <2>1
<1>10. /\ Behind(ir2, CS(k), CS(k)) /\ Behind(ir2, CS(k), DS(k)) /\ Behind(ir2, DS(k), LastD(k, e))
  <2>1. Behind(ir, CS(k), CS(k)) /\ Behind(ir, CS(k), DS(k)) /\ Behind(ir, DS(k), LastD(k, e))
    BY DEF Blocks, Block1, Block2
  <2>2. Behind(Append(ir, f), CS(k), CS(k)) /\ Behind(Append(ir, f), CS(k), DS(k))
    BY <1>1, <1>5, <2>1
  <2>3. Behind(Append(ir, f), DS(k), LastD(k, e))
    BY <1>5, <1>7, <2>1
  <2> QED
    BY <2>1, <2>2, <2>3
<1>11. /\ None(ir2, CS(k)) <=> None(ir, CS(k))
       /\ None(ir2, BadC(k, r.rx, e)) <=> None(ir, BadC(k, r.rx, e))
       /\ None(ir2, BadD(k, e, O)) <=> None(ir, BadD(k, e, O))
       /\ ~None(ir2, LastD(k, e)) => f \in LastD(k, e)
  <2>1. CASE ir2 = ir
    BY <1>7, <2>1
  <2>2. CASE ir2 = Append(ir, f)
    BY <1>1, <1>4, <1>6, <1>7, <2>2
  <2> QED
    BY <2>1, <2>2
<1>12. Block1(k, o, r, Append(io, f), Tail(oo), ir2, orr, e, O)
  BY <1>2, <1>3, <1>8, <1>9, <1>10, <1>11 DEF Blocks, Block1
<1>13. Block2(k, o, r, Append(io, f), Tail(oo), ir2, orr, e, O)
  BY <1>1, <1>2, <1>8, <1>10, <1>11 DEF Blocks, Block2
<1> QED
  BY <1>12, <1>13 DEF Blocks

\* The originator takes a CTS: the next block begins where it says.
LEMMA BlocksGrant ==
  ASSUME NEW k, Total(k) \in Int, NEW o, NEW r, r.rx \in Nat, NEW io \in Seq(FrameRec), NEW oo, NEW ir, NEW orr,
         NEW e, NEW O, Blocks(k, o, r, io, oo, ir, orr, e, O),
         io # <<>>, NEW f, f = Head(io), f \in CS(k),
         NEW p, p.acked = f.pkt - 1, p.tx = f.pkt - 1, p.last = Smaller(f.pkt - 1 + f.len, Total(k)),
         p.cmd = "CTS", p.txcmd = o.txcmd
  PROVE  Blocks(k, p, r, Tail(io), oo, ir, orr, e, IF Type(k) = "etp" THEN r.rx ELSE 0)
<1> DEFINE B == IF Type(k) = "etp" THEN r.rx ELSE 0
<1>1. /\ ~None(io, CS(k)) /\ None(Tail(io), CS(k)) /\ None(Tail(io), DS(k)) /\ None(Tail(io), BadC(k, r.rx, e))
      /\ Behind(Tail(io), CS(k), CS(k)) /\ Behind(Tail(io), DS(k), CS(k)) /\ f \notin BadC(k, r.rx, e)
  <2>1. Behind(io, CS(k), CS(k)) /\ Behind(io, DS(k), CS(k)) /\ None(io, BadC(k, r.rx, e))
    BY DEF Blocks, Block1
  <2> QED
    BY <2>1, Taking
<1>2. /\ ~Flows(k, o, oo, ir) /\ o.txcmd # "DPO" /\ r.txt = "off" /\ None(orr, CS(k))
      /\ r.rx < e /\ e <= Total(k) /\ e \in Int
  BY <1>1 DEF Blocks, Block1
<1>3. None(ir, DS(k)) /\ None(oo, DS(k))
  BY <1>2 DEF Flows
<1>4. f.pkt = r.rx + 1 /\ r.rx + f.len = e
  BY <1>1 DEF BadC, AskedC
<1>5. p.acked = r.rx /\ p.tx = r.rx /\ p.last = e
  <2>1. f \in FrameRec
    BY DEF CS, Mine
  <2>2. f.len \in Int
    BY <2>1 DEF FrameRec
  <2>3. f.pkt - 1 = r.rx
    BY <1>4
  <2> QED
    BY <1>2, <1>4, <2>2, <2>3 DEF Smaller
<1>6. Block1(k, p, r, Tail(io), oo, ir, orr, e, B)
  BY <1>1, <1>2 DEF Blocks, Block1
<1>7. /\ None(Tail(io), BadDpo(k, B)) /\ None(oo, BadD(k, e, B)) /\ None(ir, BadD(k, e, B))
      /\ None(ir, LastD(k, e)) /\ None(oo, LastD(k, e))
  BY <1>1, <1>3, SetsOf, NoneOf
<1>8. Behind(ir, DS(k), LastD(k, e)) /\ Behind(oo, DS(k), LastD(k, e))
  BY DEF Blocks, Block2
<1>9. None(ir, CS(k)) => r.cmd = "CTS"
  BY <1>1 DEF Blocks, Block1
<1>10. Block2(k, p, r, Tail(io), oo, ir, orr, e, B)
  BY <1>1, <1>2, <1>3, <1>5, <1>7, <1>8, <1>9 DEF Block2, Moving, Sending
<1>11. B \in Int
  OBVIOUS
<1> QED
  BY <1>2, <1>6, <1>10, <1>11 DEF Blocks

\* The originator takes the echo of its own DPO or DAT frame.
LEMMA BlocksEcho ==
  ASSUME NEW k, NEW o, NEW r, NEW io \in Seq(FrameRec), NEW oo, NEW ir, NEW orr,
         NEW e, NEW O, Blocks(k, o, r, io, oo, ir, orr, e, O), o.st # "freed",
         io # <<>>, NEW f, f = Head(io), f \in DS(k),
         NEW p, p.cmd = f.cmd, p.dpo = (IF f.cmd = "DPO" THEN f.pkt ELSE o.dpo), p.txcmd = o.txcmd, p.tx = o.tx,
         p.last = o.last, p.acked = o.acked, p.txt \in {o.txt, "off"}
  PROVE  Blocks(k, p, r, Tail(io), oo, ir, orr, e, O)
<1>1. /\ ~None(io, DS(k)) /\ f.cmd \in {"DAT", "DPO"}
      /\ None(io, DS(k)) => None(Tail(io), DS(k))
      /\ None(io, CS(k)) => None(Tail(io), CS(k))
      /\ None(io, BadC(k, r.rx, e)) => None(Tail(io), BadC(k, r.rx, e))
      /\ None(io, BadDpo(k, O)) => None(Tail(io), BadDpo(k, O)) /\ f \notin BadDpo(k, O)
      /\ Behind(io, CS(k), CS(k)) => Behind(Tail(io), CS(k), CS(k))
      /\ Behind(io, DS(k), CS(k)) => Behind(Tail(io), DS(k), CS(k))
  BY Taking DEF DS
<1>2. Sending(p) => Sending(o) /\ (f.cmd = "DPO" => f.pkt = O)
  <2>1. o.cmd \in Moving
    BY <1>1 DEF Blocks, Block2
  <2>2. Sending(p) => Sending(o)
    BY <2>1 DEF Sending
  <2>3. Sending(p) => f \notin BadDpo(k, O)
    BY <1>1, <2>2 DEF Blocks, Block2
  <2> QED
    BY <2>2, <2>3 DEF BadDpo
<1>3. Flows(k, p, oo, ir) => Flows(k, o, oo, ir)
  BY <1>2 DEF Flows
<1>4. Block1(k, p, r, Tail(io), oo, ir, orr, e, O)
  BY <1>1, <1>3 DEF Blocks, Block1
<1>5. Block2(k, p, r, Tail(io), oo, ir, orr, e, O)
  BY <1>1, <1>2, <1>3 DEF Blocks, Block2, Moving
<1> QED
  BY <1>4, <1>5 DEF Blocks

\* The offset of a block is set, though the DPO cannot be sent.
LEMMA BlocksOffset ==
  ASSUME NEW k, NEW o, NEW r, NEW io, NEW oo, NEW ir, NEW orr,
         NEW e, NEW O, Blocks(k, o, r, io, oo, ir, orr, e, O), Sending(o),
         NEW p, p.cmd = o.cmd, p.dpo = o.acked, p.txcmd = o.txcmd, p.tx = o.tx,
         p.last = o.last, p.acked = o.acked
  PROVE  Blocks(k, p, r, io, oo, ir, orr, e, O)
<1>1. Flows(k, p, oo, ir) => Flows(k, o, oo, ir)
  BY DEF Flows
<1>2. Block1(k, p, r, io, oo, ir, orr, e, O)
  BY <1>1 DEF Blocks, Block1
<1>3. Block2(k, p, r, io, oo, ir, orr, e, O)
  BY <1>1 DEF Blocks, Block2, Sending
<1> QED
  BY <1>2, <1>3 DEF Blocks

\* A DPO is sent.
LEMMA BlocksAnnounce ==
  ASSUME NEW k, Type(k) = "etp", NEW o, NEW r, NEW io, NEW oo \in Seq(FrameRec), NEW ir, NEW orr,
         NEW e, NEW O, Blocks(k, o, r, io, oo, ir, orr, e, O), Sending(o), o.acked \in Int, o.tx \in Int,
         NEW f \in DS(k), f.cmd = "DPO", f.pkt = o.acked,
         NEW p, p.cmd = o.cmd, p.dpo = o.acked, p.txcmd = "DPO", p.tx = o.acked,
         p.last = o.last, p.acked = o.acked
  PROVE  Blocks(k, p, r, io, Append(oo, f), ir, orr, e, O)
<1>1. f \in FrameRec /\ f \notin BadD(k, e, O) /\ f \notin LastD(k, e)
  BY DEF DS, Mine, BadD, AskedD, LastD, Blocks, Block2
<1>2. Flows(k, o, oo, ir)
  BY DEF Flows
<1>3. ASSUME NEW S
      PROVE  None(Append(oo, f), S) <=> None(oo, S) /\ f \notin S
  BY <1>1, Appended
<1>4. None(oo, LastD(k, e)) /\ Behind(oo, DS(k), LastD(k, e))
  BY DEF Blocks, Block2
<1>5. Behind(Append(oo, f), DS(k), LastD(k, e))
  BY <1>1, <1>4, Appended
<1>6. /\ None(Append(oo, f), LastD(k, e)) /\ None(Append(oo, f), BadD(k, e, O)) <=> None(oo, BadD(k, e, O))
  BY <1>1, <1>3, <1>4
<1>7. Block1(k, p, r, io, Append(oo, f), ir, orr, e, O)
  BY <1>2 DEF Blocks, Block1
<1>8. 0 <= p.acked /\ p.acked <= p.tx /\ p.tx < e
  BY DEF Blocks, Block2
<1>9. Block2(k, p, r, io, Append(oo, f), ir, orr, e, O)
  BY <1>2, <1>5, <1>6, <1>8 DEF Blocks, Block2, Sending
<1> QED
  BY <1>7, <1>9 DEF Blocks

\* The DAT frames that a block may have next.
DatsOf(k, o, a) ==
  /\ a \in Seq(FrameRec)
  /\ \A i \in 1..Len(a) : /\ a[i] \in DS(k) /\ a[i].cmd = "DAT" /\ a[i].pkt = o.tx + i - o.dpo
                          /\ a[i].data.msg = k /\ a[i].data.pkt = o.tx + i - 1

\* DAT frames are sent.
LEMMA BlocksSend ==
  ASSUME NEW k, Total(k) \in Int, NEW o, NEW r, NEW io, NEW oo \in Seq(FrameRec), NEW ir, NEW orr,
         NEW e, NEW O, Blocks(k, o, r, io, oo, ir, orr, e, O), Sending(o),
         o.tx \in Int, o.dpo \in Int, o.dpo = O, NEW a, DatsOf(k, o, a), Len(a) <= e - o.tx,
         NEW p, p.cmd = o.cmd, p.dpo = o.dpo, p.txcmd = (IF Len(a) > 0 THEN "DAT" ELSE o.txcmd),
         p.tx = o.tx + Len(a), p.last = o.last, p.acked = o.acked, o.acked \in Int,
         p.txt # "off" => Len(a) < e - o.tx
  PROVE  Blocks(k, p, r, io, oo \o a, ir, orr, e, O)
<1>1. /\ a \in Seq(FrameRec) /\ Len(a) \in Nat /\ e \in Int /\ O \in Int
      /\ \A i \in 1..Len(a) : /\ a[i] \in DS(k) /\ a[i].cmd = "DAT" /\ a[i].pkt = o.tx + i - o.dpo
                              /\ a[i].data.msg = k /\ a[i].data.pkt = o.tx + i - 1
  BY DEF DatsOf, Blocks
<1>2. Flows(k, o, oo, ir)
  BY DEF Flows
<1>3. /\ None(oo, LastD(k, e)) /\ Behind(oo, DS(k), LastD(k, e)) /\ None(ir, LastD(k, e)) /\ None(oo, BadD(k, e, O))
      /\ o.last = e /\ 0 <= o.acked /\ o.acked <= o.tx /\ o.tx < e
  BY DEF Blocks, Block2
<1>4. ASSUME NEW i \in 1..Len(a)
      PROVE  /\ a[i] \notin BadD(k, e, O)
             /\ a[i] \in LastD(k, e) => i = Len(a) /\ Len(a) = e - o.tx
  <2>1. 0 <= o.tx + i - 1 /\ o.tx + i - 1 < e
    BY <1>1, <1>3
  <2>2. o.tx + i - 1 = (o.tx + i - o.dpo) - 1 + O
    BY <1>1
  <2>3. a[i] \notin BadD(k, e, O)
    BY <1>1, <2>1, <2>2 DEF BadD, AskedD
  <2>4. a[i] \in LastD(k, e) => o.tx + i - 1 = e - 1
    BY <1>1 DEF LastD
  <2>5. i \in Int /\ Len(a) \in Int /\ e \in Int /\ i <= Len(a)
    BY <1>1
  <2>6. a[i] \in LastD(k, e) => i = Len(a) /\ Len(a) = e - o.tx
    <3>1. a[i] \in LastD(k, e) => i = e - o.tx
      BY <2>4, <2>5
    <3>2. Len(a) <= e - o.tx /\ e - o.tx \in Int
      BY <2>5
    <3>3. i = e - o.tx => i = Len(a) /\ Len(a) = e - o.tx
      BY <2>5, <3>2
    <3> QED
      BY <3>1, <3>3
  <2> QED
    BY <2>3, <2>6
<1>5. None(a, BadD(k, e, O)) /\ (~None(a, LastD(k, e)) => Len(a) = e - o.tx) /\ Behind(a, DS(k), LastD(k, e))
  BY <1>1, <1>4 DEF None, Behind
<1>6. None(oo \o a, BadD(k, e, O)) /\ (~None(oo \o a, LastD(k, e)) => Len(a) = e - o.tx)
  BY <1>1, <1>3, <1>5, NoneConcat
<1>7. Behind(oo \o a, DS(k), LastD(k, e))
  BY <1>1, <1>3, <1>5, BehindConcat
<1>8. /\ None(oo \o a, DS(k)) <=> None(oo, DS(k)) /\ None(a, DS(k))
      /\ Len(a) > 0 => ~None(a, DS(k))
      /\ Len(a) = 0 => None(a, DS(k))
  <2>1. Len(a) > 0 => 1 \in 1..Len(a)
    BY <1>1
  <2>2. Len(a) > 0 => ~None(a, DS(k))
    BY <1>1, <2>1 DEF None
  <2>3. Len(a) = 0 => None(a, DS(k))
    BY DEF None
  <2> QED
    BY <1>1, <2>2, <2>3, NoneConcat
<1>9. Block1(k, p, r, io, oo \o a, ir, orr, e, O)
  BY <1>2 DEF Blocks, Block1
<1>10. Sending(p) => p.tx < e /\ p.acked <= p.tx
  BY <1>1, <1>3 DEF Sending
<1>11. ~None(oo \o a, LastD(k, e)) => ~Sending(p) /\ p.txcmd # "DPO"
  <2>1. ASSUME ~None(oo \o a, LastD(k, e))
        PROVE  Len(a) = e - o.tx /\ Len(a) > 0
    BY <1>1, <1>3, <1>6, <2>1
  <2> QED
    BY <2>1 DEF Sending
<1>12. Block2(k, p, r, io, oo \o a, ir, orr, e, O)
  BY <1>2, <1>3, <1>6, <1>7, <1>8, <1>10, <1>11 DEF Blocks, Block2, Sending
<1> QED
  BY <1>9, <1>12 DEF Blocks

\* The responder takes the echo of its CTS.
LEMMA BlocksOwn ==
  ASSUME NEW k, Total(k) \in Int, NEW o, NEW r, r.rx \in Nat, NEW io, NEW oo, NEW ir \in Seq(FrameRec),
         NEW orr, NEW e, NEW O, Blocks(k, o, r, io, oo, ir, orr, e, O),
         ir # <<>>, NEW f, f = Head(ir), f \in CS(k),
         NEW p, p.cmd = "CTS", p.rx = r.rx, p.dpo = r.dpo, p.txt = r.txt,
         p.last = Smaller(f.pkt - 1 + f.len, Total(k))
  PROVE  r.cmd # "CTS" /\ Blocks(k, o, p, io, oo, Tail(ir), orr, e, O)
<1>1. /\ ~None(ir, CS(k)) /\ None(Tail(ir), CS(k)) /\ (None(ir, DS(k)) <=> None(Tail(ir), DS(k)))
      /\ None(Tail(ir), BadC(k, r.rx, e)) /\ f \notin BadC(k, r.rx, e)
      /\ Behind(Tail(ir), CS(k), CS(k)) /\ Behind(Tail(ir), CS(k), DS(k))
      /\ Behind(Tail(ir), DS(k), LastD(k, e)) /\ None(Tail(ir), BadD(k, e, O))
      /\ (None(ir, LastD(k, e)) => None(Tail(ir), LastD(k, e)))
  <2>1. /\ Behind(ir, CS(k), CS(k)) /\ Behind(ir, CS(k), DS(k)) /\ None(ir, BadC(k, r.rx, e))
        /\ Behind(ir, DS(k), LastD(k, e)) /\ None(ir, BadD(k, e, O))
    BY DEF Blocks, Block1, Block2
  <2>2. f \notin DS(k)
    BY DEF CS, DS
  <2> QED
    BY <2>1, <2>2, Taking
<1>2. r.txt = "off" /\ r.cmd # "CTS" /\ None(orr, CS(k)) /\ r.rx < e /\ e <= Total(k) /\ e \in Int
  BY <1>1 DEF Blocks, Block1
<1>3. p.last = e
  <2>1. f \in FrameRec
    BY DEF CS, Mine
  <2>2. f.len \in Int
    BY <2>1 DEF FrameRec
  <2>3. f.pkt - 1 = r.rx /\ r.rx + f.len = e
    BY <1>1 DEF BadC, AskedC
  <2> QED
    BY <1>2, <2>2, <2>3 DEF Smaller
<1>4. Flows(k, o, oo, Tail(ir)) <=> Flows(k, o, oo, ir)
  BY <1>1 DEF Flows
<1>5. Block1(k, o, p, io, oo, Tail(ir), orr, e, O)
  BY <1>1, <1>2, <1>3, <1>4 DEF Blocks, Block1
<1>6. Block2(k, o, p, io, oo, Tail(ir), orr, e, O)
  BY <1>1, <1>4 DEF Blocks, Block2
<1> QED
  BY <1>2, <1>5, <1>6 DEF Blocks

\* What is so when data arrive.
Arrive(k, o, r, io, oo, ir, orr, e, O, f) ==
  /\ Flows(k, o, oo, ir) /\ None(io, CS(k)) /\ None(orr, CS(k)) /\ None(ir, CS(k)) /\ r.txt = "off"
  /\ None(Tail(ir), CS(k)) /\ r.last = e /\ r.rx < e /\ e <= Total(k)
  /\ AskedD(k, f, e, O)
  /\ Behind(Tail(ir), CS(k), CS(k)) /\ Behind(Tail(ir), CS(k), DS(k))
  /\ Behind(Tail(ir), DS(k), LastD(k, e)) /\ None(Tail(ir), BadD(k, e, O))
  /\ None(ir, BadC(k, r.rx, e)) /\ None(Tail(ir), BadC(k, r.rx, e))
  /\ ~None(Tail(ir), LastD(k, e)) => ~None(ir, LastD(k, e))
  /\ Flows(k, o, oo, Tail(ir)) => Flows(k, o, oo, ir)
  /\ f \in LastD(k, e) => ~Flows(k, o, oo, Tail(ir)) /\ o.txcmd # "DPO"

LEMMA BlocksArrive ==
  ASSUME NEW k, NEW o, NEW r, NEW io, NEW oo, NEW ir \in Seq(FrameRec),
         NEW orr, NEW e, NEW O, Blocks(k, o, r, io, oo, ir, orr, e, O),
         ir # <<>>, NEW f, f = Head(ir), f \in DS(k)
  PROVE  Arrive(k, o, r, io, oo, ir, orr, e, O, f)
<1>1. /\ ~None(ir, DS(k)) /\ None(Tail(ir), BadD(k, e, O)) /\ f \notin BadD(k, e, O)
      /\ Behind(Tail(ir), CS(k), CS(k)) /\ Behind(Tail(ir), CS(k), DS(k))
      /\ Behind(Tail(ir), DS(k), LastD(k, e)) /\ None(Tail(ir), CS(k))
      /\ None(ir, BadC(k, r.rx, e)) /\ None(Tail(ir), BadC(k, r.rx, e))
      /\ (None(ir, LastD(k, e)) => None(Tail(ir), LastD(k, e)) /\ f \notin LastD(k, e))
      /\ (f \in LastD(k, e) => None(Tail(ir), DS(k))) /\ (None(ir, CS(k)) <=> None(Tail(ir), CS(k)))
  <2>1. /\ Behind(ir, CS(k), CS(k)) /\ Behind(ir, CS(k), DS(k)) /\ None(ir, BadC(k, r.rx, e))
        /\ Behind(ir, DS(k), LastD(k, e)) /\ None(ir, BadD(k, e, O))
    BY DEF Blocks, Block1, Block2
  <2>2. f \notin CS(k)
    BY DEF CS, DS
  <2> QED
    BY <2>1, <2>2, Taking
<1>2. Flows(k, o, oo, ir) /\ None(ir, CS(k)) /\ (Flows(k, o, oo, Tail(ir)) => Flows(k, o, oo, ir))
  BY <1>1 DEF Flows
<1>3. None(io, CS(k)) /\ None(orr, CS(k)) /\ r.txt = "off" /\ r.last = e /\ r.rx < e /\ e <= Total(k)
  BY <1>2 DEF Blocks, Block1
<1>4. AskedD(k, f, e, O)
  BY <1>1 DEF BadD
<1>5. f \in LastD(k, e) => ~Flows(k, o, oo, Tail(ir)) /\ o.txcmd # "DPO"
  BY <1>1 DEF Flows, Blocks, Block2
<1> QED
  BY <1>1, <1>2, <1>3, <1>4, <1>5 DEF Arrive

\* The responder takes a DPO.
LEMMA BlocksBegin ==
  ASSUME NEW k, Type(k) = "etp", NEW o, NEW r, NEW io, NEW oo, NEW ir \in Seq(FrameRec),
         NEW orr, NEW e, NEW O, Blocks(k, o, r, io, oo, ir, orr, e, O),
         ir # <<>>, NEW f, f = Head(ir), f \in DS(k), f.cmd = "DPO",
         NEW p, p.cmd = "DPO", p.rx = r.rx, p.dpo = f.pkt, p.txt = r.txt, p.last = r.last
  PROVE  Blocks(k, o, p, io, oo, Tail(ir), orr, e, O)
<1>1. Arrive(k, o, r, io, oo, ir, orr, e, O, f)
  BY BlocksArrive
<1>2. p.dpo = O
  BY <1>1 DEF Arrive, AskedD
<1>3. Block1(k, o, p, io, oo, Tail(ir), orr, e, O)
  BY <1>1 DEF Blocks, Block1, Arrive
<1>4. Block2(k, o, p, io, oo, Tail(ir), orr, e, O)
  BY <1>1, <1>2 DEF Blocks, Block2, Arrive
<1> QED
  BY <1>3, <1>4 DEF Blocks

\* The responder takes a DAT frame.
LEMMA BlocksStore ==
  ASSUME NEW k, NEW o, NEW r, r.rx \in Nat, NEW io, NEW oo, NEW ir \in Seq(FrameRec),
         NEW orr, NEW e, NEW O, Blocks(k, o, r, io, oo, ir, orr, e, O),
         ir # <<>>, NEW f, f = Head(ir), f \in DS(k), f.cmd = "DAT", f.data.pkt \in Int,
         Type(k) = "etp" => r.cmd \in {"DAT", "DPO"},
         NEW p, p.cmd = "DAT", p.rx = (IF f.data.pkt = r.rx THEN r.rx + 1 ELSE r.rx), p.dpo = r.dpo,
         p.last = r.last, p.txt # "off" <=> p.rx >= r.last \/ r.txt # "off"
  PROVE  Blocks(k, o, p, io, oo, Tail(ir), orr, e, O)
<1>1. Arrive(k, o, r, io, oo, ir, orr, e, O, f)
  BY BlocksArrive
<1>2. e \in Int /\ (p.rx = r.rx \/ p.rx = r.rx + 1)
  BY DEF Blocks
<1>3. ASSUME p.rx >= e
      PROVE  ~Flows(k, o, oo, Tail(ir)) /\ o.txcmd # "DPO"
  <2>1. p.rx = r.rx + 1 /\ f.data.pkt = r.rx /\ r.rx + 1 = e
    BY <1>1, <1>2, <1>3 DEF Arrive
  <2>2. f \in LastD(k, e)
    BY <2>1 DEF LastD
  <2> QED
    BY <1>1, <2>2 DEF Arrive
<1>4. \A S : S \subseteq CS(k) => None(io, S) /\ None(orr, S) /\ None(Tail(ir), S)
  BY <1>1, NoneOf DEF Arrive
<1>5. None(io, BadC(k, p.rx, e)) /\ None(orr, BadC(k, p.rx, e)) /\ None(Tail(ir), BadC(k, p.rx, e))
  BY <1>4, SetsOf
<1>6. Flows(k, o, oo, Tail(ir)) => p.rx < e /\ e <= Total(k)
  BY <1>1, <1>2, <1>3 DEF Arrive
<1>7. Block1(k, o, p, io, oo, Tail(ir), orr, e, O)
  BY <1>1, <1>2, <1>3, <1>5, <1>6 DEF Blocks, Block1, Arrive
<1>8. Type(k) = "etp" => p.dpo = O
  BY <1>1 DEF Blocks, Block2, Arrive
<1>9. Block2(k, o, p, io, oo, Tail(ir), orr, e, O)
  BY <1>1, <1>8 DEF Blocks, Block2, Arrive
<1> QED
  BY <1>7, <1>9 DEF Blocks

\* The packet that a DAT frame is for.
LEMMA BlocksPlace ==
  ASSUME NEW k, NEW o, NEW r, r.dpo \in Int, NEW io, NEW oo, NEW ir \in Seq(FrameRec),
         NEW orr, NEW e, NEW O, Blocks(k, o, r, io, oo, ir, orr, e, O),
         ir # <<>>, NEW f, f = Head(ir), f \in DS(k), f.cmd = "DAT", Type(k) # "etp" => r.dpo = 0,
         Type(k) = "etp" => r.cmd \in {"DAT", "DPO"}
  PROVE  Pkt(f, r) = f.data.pkt /\ f.data.msg = k /\ 0 <= f.data.pkt
<1>1. Arrive(k, o, r, io, oo, ir, orr, e, O, f)
  BY BlocksArrive
<1>2. r.dpo = O
  BY <1>1 DEF Arrive, Blocks, Block2
<1> QED
  BY <1>1, <1>2 DEF Arrive, AskedD, Pkt

\* The responder sends a CTS.
LEMMA BlocksNext ==
  ASSUME NEW k, Total(k) \in Nat, NEW o, NEW r, r.rx \in Nat, NEW io, NEW oo, NEW ir,
         NEW orr \in Seq(FrameRec), NEW e, NEW O, Blocks(k, o, r, io, oo, ir, orr, e, O), r.txt # "off",
         Block \in Nat \ {0}, r.rx < Total(k),
         NEW f \in CS(k), f.pkt = r.rx + 1, f.len = Smaller(Total(k) - r.rx, Block),
         NEW p, p.cmd = r.cmd, p.rx = r.rx, p.last = r.last, p.dpo = r.dpo, p.txt = "off"
  PROVE  Blocks(k, o, p, io, oo, ir, Append(orr, f), r.rx + f.len, O)
<1> DEFINE c == r.rx + f.len
<1>1. f \in FrameRec /\ f.len \in Int /\ c \in Int /\ r.rx < c /\ c <= Total(k)
  <2>1. f \in FrameRec
    BY DEF CS, Mine
  <2>2. f.len \in Int /\ f.len > 0 /\ f.len <= Total(k) - r.rx
    BY DEF Smaller
  <2> QED
    BY <2>1, <2>2
<1>2. /\ ~Flows(k, o, oo, ir) /\ o.txcmd # "DPO" /\ None(orr, CS(k)) /\ None(io, CS(k)) /\ None(ir, CS(k))
      /\ r.cmd # "CTS"
  BY DEF Blocks, Block1
<1>3. None(ir, DS(k)) /\ None(oo, DS(k)) /\ ~Sending(o)
  BY <1>2 DEF Flows
<1>4. f \notin BadC(k, r.rx, c) /\ None(orr, BadC(k, r.rx, c)) /\ None(io, BadC(k, r.rx, c))
      /\ None(ir, BadC(k, r.rx, c))
  <2>1. f \notin BadC(k, r.rx, c)
    BY <1>1 DEF BadC, AskedC
  <2> QED
    BY <1>2, <2>1, NoneOf, SetsOf
<1>5. /\ None(Append(orr, f), BadC(k, r.rx, c)) /\ ~None(Append(orr, f), CS(k))
      /\ Behind(Append(orr, f), CS(k), CS(k))
  <2>1. Behind(orr, CS(k), CS(k))
    BY DEF Blocks, Block1
  <2> QED
    BY <1>1, <1>2, <1>4, <2>1, Appended
<1>6. /\ None(oo, BadD(k, c, O)) /\ None(ir, BadD(k, c, O)) /\ None(ir, LastD(k, c)) /\ None(oo, LastD(k, c))
  BY <1>3, NoneOf, SetsOf
<1>7. Behind(ir, DS(k), LastD(k, c)) /\ Behind(oo, DS(k), LastD(k, c))
  BY <1>3 DEF Behind, None
<1>8. Block1(k, o, p, io, oo, ir, Append(orr, f), c, O)
  BY <1>1, <1>2, <1>4, <1>5 DEF Blocks, Block1
<1>9. Block2(k, o, p, io, oo, ir, Append(orr, f), c, O)
  BY <1>2, <1>3, <1>6, <1>7 DEF Blocks, Block2
<1> QED
  BY <1>1, <1>8, <1>9 DEF Blocks

\* The responder takes up a message.
LEMMA BlocksNew ==
  ASSUME NEW k, NEW o, NEW r, NEW io, NEW oo, NEW ir, NEW orr, r.cmd = "RTS", r.rx = 0,
         ~Sending(o), o.txcmd # "DPO",
         None(io, DS(k)), None(oo, DS(k)), None(ir, DS(k)),
         None(io, CS(k)), None(orr, CS(k)), None(ir, CS(k))
  PROVE  Blocks(k, o, r, io, oo, ir, orr, 0, 0)
<1>1. ~Flows(k, o, oo, ir)
  BY DEF Flows
<1>2. /\ \A q : None(q, CS(k)) => None(q, BadC(k, r.rx, 0)) /\ Behind(q, CS(k), CS(k)) /\ Behind(q, CS(k), DS(k))
                                  /\ Behind(q, DS(k), CS(k))
      /\ \A q : None(q, DS(k)) => None(q, BadD(k, 0, 0)) /\ None(q, LastD(k, 0)) /\ Behind(q, DS(k), LastD(k, 0))
  <2>1. \A q, S, T : None(q, S) => Behind(q, S, T) /\ Behind(q, T, S)
    BY DEF None, Behind
  <2> QED
    BY <2>1, NoneOf, SetsOf
<1>3. Block1(k, o, r, io, oo, ir, orr, 0, 0)
  BY <1>1, <1>2 DEF Block1
<1>4. Block2(k, o, r, io, oo, ir, orr, 0, 0)
  BY <1>1, <1>2 DEF Block2
<1> QED
  BY <1>3, <1>4 DEF Blocks

-----------------------------------------------------------------------------
(* What else is so of a message. *)

Xtp(k) == Type(k) \in {"tp", "etp"}

\* The opening frame has not been sent.
Unbegun(k, o) == o.st # "freed" /\ o.cmd = "none" /\ o.txcmd # Opening(k)

\* The opening frame is sent once, and the responder takes up a message once.
Opened(k, o, r, oo, ir) ==
  /\ Behind(oo, OpS(k), OpS(k)) /\ Behind(ir, OpS(k), OpS(k))
  /\ ~None(oo, OpS(k)) => None(ir, OpS(k))
  /\ ~None(oo, OpS(k)) \/ ~None(ir, OpS(k)) => r.st = "none"
  /\ Unbegun(k, o) => None(oo, OpS(k)) /\ None(ir, OpS(k)) /\ r.st = "none"

\* Before that there is nothing but the opening frame.
Fresh(k, o, r, io, oo, ir, orr) ==
  Xtp(k) /\ r.st = "none" =>
    /\ o.cmd \in {"none", "RTS"} /\ o.txcmd \in {"none", "RTS"}
    /\ None(io, DS(k)) /\ None(oo, DS(k)) /\ None(ir, DS(k))
    /\ None(io, CS(k)) /\ None(orr, CS(k)) /\ None(ir, CS(k))
    /\ None(ir, EoS(k)) /\ None(orr, EoS(k))

\* The first rx packets are in the buffer.
StoredTo(k, rx, buf) ==
  /\ 0 <= rx /\ rx <= Total(k)
  /\ \A j \in 0..rx - 1 : buf[j] = [msg |-> k, pkt |-> j]

Stores(k, r, ir, orr) ==
  Live(r) => /\ StoredTo(k, r.rx, r.buf)
             /\ ~None(ir, EoS(k)) \/ ~None(orr, EoS(k)) => r.rx = Total(k)

Has(gt, k) == \E i \in 1..Len(gt) : gt[i].msg = k

\* A message is handed up once.
Handed(k, o, r, oo, ir, gt) ==
  /\ \A i, j \in 1..Len(gt) : gt[i].msg = k /\ gt[j].msg = k => i = j
  /\ Type(k) # "simple" /\ Has(gt, k) => r.st \in {"done", "freed"}
  /\ Type(k) = "simple" =>
       /\ o.st \in {"none", "new"} \/ o.txt # "off" => None(oo, SiS(k)) /\ None(ir, SiS(k)) /\ ~Has(gt, k)
       /\ Behind(oo, SiS(k), SiS(k)) /\ Behind(ir, SiS(k), SiS(k))
       /\ ~None(oo, SiS(k)) => None(ir, SiS(k)) /\ ~Has(gt, k)
       /\ ~None(ir, SiS(k)) => ~Has(gt, k)

InBlock(k, o, r, io, oo, ir, orr) ==
  Xtp(k) /\ Live(r) => \E e, O : Blocks(k, o, r, io, oo, ir, orr, e, O)

\* All of it.
Message(k, o, r, io, oo, ir, orr, gt) ==
  /\ Opened(k, o, r, oo, ir) /\ Fresh(k, o, r, io, oo, ir, orr) /\ Stores(k, r, ir, orr)
  /\ Handed(k, o, r, oo, ir, gt) /\ InBlock(k, o, r, io, oo, ir, orr) /\ Spare(r) = 0

\* Nothing of S is added.
Lacks(q, p, S) == (None(q, S) => None(p, S)) /\ (Behind(q, S, S) => Behind(p, S, S))

LEMMA MoreSets ==
  \A k : /\ OpS(k) \subseteq Mine(k) /\ EoS(k) \subseteq Mine(k) /\ SiS(k) \subseteq Mine(k)
         /\ DS(k) \subseteq Mine(k) /\ CS(k) \subseteq Mine(k)
         /\ OpS(k) \cap EoS(k) = {} /\ OpS(k) \cap SiS(k) = {} /\ EoS(k) \cap SiS(k) = {}
         /\ DS(k) \cap OpS(k) = {} /\ DS(k) \cap EoS(k) = {} /\ DS(k) \cap SiS(k) = {}
         /\ CS(k) \cap OpS(k) = {} /\ CS(k) \cap EoS(k) = {} /\ CS(k) \cap SiS(k) = {}
         /\ CS(k) \cap DS(k) = {}
  BY DEF OpS, EoS, SiS, DS, CS, Mine

LEMMA SilentLacks ==
  ASSUME NEW k, NEW q, NEW p, Silent(k, q, p)
  PROVE  Calm(k, q, p) /\ \A S : S \subseteq Told(k) => Lacks(q, p, S)
<1>1. DS(k) \cup CS(k) \subseteq Told(k)
  BY DEF Told
<1>2. Calm(k, q, p)
  BY <1>1 DEF Calm, Silent
<1> QED
  BY <1>2 DEF Silent, Lacks

\* What the sessions may do to the rest.
Begun(k, o, p) == Unbegun(k, p) => Unbegun(k, o)
Owes(o, p) == p.st \in {"none", "new"} \/ p.txt # "off" => o.st \in {"none", "new"} \/ o.txt # "off"
Still(k, o, p) == p.cmd \in {o.cmd, "none", Opening(k)} /\ p.txcmd \in {o.txcmd, "none", Opening(k)}
Ages(r, p) ==
  /\ (r.st = "none" <=> p.st = "none")
  /\ r.st \in {"done", "freed"} => p.st \in {"done", "freed"}
  /\ Live(p) => Live(r)

LEMMA OpenedKeeps ==
  ASSUME NEW k, NEW o, NEW r, NEW oo, NEW ir, Opened(k, o, r, oo, ir), NEW o2, NEW r2, NEW oo2, NEW ir2,
         Begun(k, o, o2), Ages(r, r2), Lacks(oo, oo2, OpS(k)), Lacks(ir, ir2, OpS(k))
  PROVE  Opened(k, o2, r2, oo2, ir2)
  BY DEF Opened, Begun, Ages, Lacks

LEMMA FreshKeeps ==
  ASSUME NEW k, NEW o, NEW r, NEW io, NEW oo, NEW ir, NEW orr, Fresh(k, o, r, io, oo, ir, orr),
         NEW o2, NEW r2, NEW io2, NEW oo2, NEW ir2, NEW orr2, Still(k, o, o2), Ages(r, r2),
         Lacks(io, io2, DS(k)), Lacks(oo, oo2, DS(k)), Lacks(ir, ir2, DS(k)),
         Lacks(io, io2, CS(k)), Lacks(orr, orr2, CS(k)), Lacks(ir, ir2, CS(k)),
         Lacks(ir, ir2, EoS(k)), Lacks(orr, orr2, EoS(k))
  PROVE  Fresh(k, o2, r2, io2, oo2, ir2, orr2)
  BY DEF Fresh, Still, Ages, Lacks, Opening, Xtp

LEMMA StoresKeeps ==
  ASSUME NEW k, NEW r, NEW ir, NEW orr, Stores(k, r, ir, orr), NEW r2, NEW ir2, NEW orr2,
         Ages(r, r2), Live(r2) => r2.rx = r.rx /\ r2.buf = r.buf,
         Lacks(ir, ir2, EoS(k)), Lacks(orr, orr2, EoS(k))
  PROVE  Stores(k, r2, ir2, orr2)
  BY DEF Stores, Ages, Lacks

LEMMA HandedKeeps ==
  ASSUME NEW k, NEW o, NEW r, NEW oo, NEW ir, NEW gt, Handed(k, o, r, oo, ir, gt),
         NEW o2, NEW r2, NEW oo2, NEW ir2, Ages(r, r2),
         Type(k) = "simple" => Owes(o, o2) /\ Lacks(oo, oo2, SiS(k)) /\ Lacks(ir, ir2, SiS(k))
  PROVE  Handed(k, o2, r2, oo2, ir2, gt)
  BY DEF Handed, Ages, Owes, Lacks

LEMMA BlockKeeps ==
  ASSUME NEW k, NEW o, NEW r, NEW io, NEW oo, NEW ir, NEW orr, InBlock(k, o, r, io, oo, ir, orr),
         NEW o2, NEW r2, NEW io2, NEW oo2, NEW ir2, NEW orr2,
         Calm(k, io, io2), Calm(k, oo, oo2), Calm(k, ir, ir2), Calm(k, orr, orr2),
         Live(r2) => (None(ir2, CS(k)) => None(ir, CS(k))),
         OKeeps(o, o2), Live(r2) => Live(r) /\ RKeeps(r, r2)
  PROVE  InBlock(k, o2, r2, io2, oo2, ir2, orr2)
<1> SUFFICES ASSUME Xtp(k), Live(r2)
             PROVE  \E e, O : Blocks(k, o2, r2, io2, oo2, ir2, orr2, e, O)
  BY DEF InBlock
<1>1. PICK e, O : Blocks(k, o, r, io, oo, ir, orr, e, O)
  BY DEF InBlock
<1>2. Blocks(k, o2, r2, io2, oo2, ir2, orr2, e, O)
  BY <1>1, BlocksCalm
<1> QED
  BY <1>2

\* No frame of the message is sent or received for a session.
LEMMA MessageKeeps ==
  ASSUME NEW k, NEW o, NEW r, NEW io, NEW oo, NEW ir, NEW orr, NEW gt, Message(k, o, r, io, oo, ir, orr, gt),
         NEW o2, NEW r2, NEW io2, NEW oo2, NEW ir2, NEW orr2,
         Silent(k, io, io2), Silent(k, oo, oo2), Silent(k, ir, ir2), Silent(k, orr, orr2),
         Live(r2) => (None(ir2, CS(k)) => None(ir, CS(k))),
         OKeeps(o, o2), Begun(k, o, o2), Still(k, o, o2), Type(k) = "simple" => Owes(o, o2),
         Ages(r, r2), Spare(r2) = 0, Live(r2) => RKeeps(r, r2) /\ r2.buf = r.buf
  PROVE  Message(k, o2, r2, io2, oo2, ir2, orr2, gt)
<1>1. \A S : S \subseteq Told(k) => Lacks(io, io2, S) /\ Lacks(oo, oo2, S) /\ Lacks(ir, ir2, S) /\ Lacks(orr, orr2, S)
  BY SilentLacks
<1>2. /\ Lacks(io, io2, DS(k)) /\ Lacks(oo, oo2, DS(k)) /\ Lacks(ir, ir2, DS(k))
      /\ Lacks(io, io2, CS(k)) /\ Lacks(orr, orr2, CS(k)) /\ Lacks(ir, ir2, CS(k))
      /\ Lacks(ir, ir2, EoS(k)) /\ Lacks(orr, orr2, EoS(k))
      /\ Lacks(oo, oo2, OpS(k)) /\ Lacks(ir, ir2, OpS(k))
      /\ Lacks(oo, oo2, SiS(k)) /\ Lacks(ir, ir2, SiS(k))
  BY <1>1 DEF Told
<1>3. Opened(k, o2, r2, oo2, ir2)
  BY <1>2, OpenedKeeps DEF Message
<1>4. Fresh(k, o2, r2, io2, oo2, ir2, orr2)
  BY <1>2, FreshKeeps DEF Message
<1>5. Stores(k, r2, ir2, orr2)
  BY <1>2, StoresKeeps DEF Message, RKeeps
<1>6. Handed(k, o2, r2, oo2, ir2, gt)
  BY <1>2, HandedKeeps DEF Message
<1>7. InBlock(k, o2, r2, io2, oo2, ir2, orr2)
  <2>1. Calm(k, io, io2) /\ Calm(k, oo, oo2) /\ Calm(k, ir, ir2) /\ Calm(k, orr, orr2)
    BY SilentLacks
  <2> QED
    BY <2>1, BlockKeeps DEF Message, Ages
<1> QED
  BY <1>3, <1>4, <1>5, <1>6, <1>7 DEF Message

\* Changes of queues.
LEMMA TailSilent ==
  ASSUME NEW k, NEW q \in Seq(FrameRec), NEW p, p = q \/ (q # <<>> /\ p = Tail(q)) \/ p = <<>>
  PROVE  Silent(k, q, p) /\ Calm(k, q, p) /\ \A S : Lacks(q, p, S)
<1>1. \A S, T : (None(q, S) => None(p, S)) /\ (Behind(q, S, T) => Behind(p, S, T))
  <2>1. CASE p = q
    BY <2>1
  <2>2. CASE q # <<>> /\ p = Tail(q)
    BY <2>2, Taking
  <2>3. CASE p = <<>>
    BY <2>3 DEF None, Behind
  <2> QED
    BY <2>1, <2>2, <2>3
<1> QED
  BY <1>1 DEF Silent, Calm, Lacks

LEMMA AddsSilent ==
  ASSUME NEW k, NEW q \in Seq(FrameRec), NEW F, F \subseteq FrameRec, F \cap Told(k) = {}, NEW p, Adds(q, p, F)
  PROVE  Silent(k, q, p) /\ (None(p, CS(k)) => None(q, CS(k)))
<1>1. \A S : S \cap F = {} => (None(q, S) <=> None(p, S))
  BY AddsHolds
<1>2. \A S, T : S \cap F = {} /\ Behind(q, S, T) => Behind(p, S, T)
  BY AddsHolds
<1>3. \A S : S \subseteq Told(k) => S \cap F = {}
  OBVIOUS
<1>4. CS(k) \cap F = {}
  BY <1>3 DEF Told
<1> QED
  BY <1>1, <1>2, <1>3, <1>4 DEF Silent

LEMMA AppendLacks ==
  ASSUME NEW q \in Seq(FrameRec), NEW f \in FrameRec, NEW S, f \notin S
  PROVE  Lacks(q, Append(q, f), S)
  BY Appended DEF Lacks

LEMMA AppendCalm ==
  ASSUME NEW k, NEW q \in Seq(FrameRec), NEW f \in FrameRec, f \notin DS(k), f \notin CS(k)
  PROVE  Calm(k, q, Append(q, f)) /\ (None(Append(q, f), CS(k)) => None(q, CS(k)))
<1>1. \A S, T : f \notin S => (None(q, S) => None(Append(q, f), S)) /\ (Behind(q, S, T) => Behind(Append(q, f), S, T))
  BY Appended
<1>2. None(Append(q, f), CS(k)) => None(q, CS(k))
  BY Appended
<1> QED
  BY <1>1, <1>2 DEF Calm

\* The originator's frames on the bus.
LEMMA OpenedCarry ==
  ASSUME NEW k, NEW o, NEW r, NEW oo \in Seq(FrameRec), NEW ir \in Seq(FrameRec), Opened(k, o, r, oo, ir),
         oo # <<>>, NEW f, f = Head(oo), f \in OpS(k), NEW ir2 \in {ir, Append(ir, f)}
  PROVE  Opened(k, o, r, Tail(oo), ir2)
<1>1. f \in FrameRec /\ ~None(oo, OpS(k)) /\ None(Tail(oo), OpS(k)) /\ Behind(Tail(oo), OpS(k), OpS(k))
  <2>1. Behind(oo, OpS(k), OpS(k)) /\ f \in FrameRec
    BY DEF Opened, OpS, Mine
  <2> QED
    BY <2>1, Taking
<1>2. None(ir, OpS(k)) /\ r.st = "none" /\ Behind(ir, OpS(k), OpS(k)) /\ ~Unbegun(k, o)
  BY <1>1 DEF Opened
<1>3. Behind(Append(ir, f), OpS(k), OpS(k))
  BY <1>1, <1>2, Appended
<1> QED
  BY <1>1, <1>2, <1>3 DEF Opened

LEMMA HandedCarry ==
  ASSUME NEW k, Type(k) = "simple", NEW o, NEW r, NEW oo \in Seq(FrameRec), NEW ir \in Seq(FrameRec), NEW gt,
         Handed(k, o, r, oo, ir, gt), oo # <<>>, NEW f, f = Head(oo), f \in SiS(k), NEW ir2 \in {ir, Append(ir, f)}
  PROVE  Handed(k, o, r, Tail(oo), ir2, gt)
<1>1. f \in FrameRec /\ ~None(oo, SiS(k)) /\ None(Tail(oo), SiS(k)) /\ Behind(Tail(oo), SiS(k), SiS(k))
  <2>1. Behind(oo, SiS(k), SiS(k)) /\ f \in FrameRec
    BY DEF Handed, SiS, Mine
  <2> QED
    BY <2>1, Taking
<1>2. None(ir, SiS(k)) /\ Behind(ir, SiS(k), SiS(k)) /\ ~Has(gt, k) /\ ~(o.st \in {"none", "new"} \/ o.txt # "off")
  BY <1>1 DEF Handed
<1>3. Behind(Append(ir, f), SiS(k), SiS(k))
  BY <1>1, <1>2, Appended
<1> QED
  BY <1>1, <1>2, <1>3 DEF Handed

LEMMA MessageCarry ==
  ASSUME NEW k, NEW o, NEW r, NEW io \in Seq(FrameRec), NEW oo \in Seq(FrameRec), NEW ir \in Seq(FrameRec), NEW orr, NEW gt,
         Message(k, o, r, io, oo, ir, orr, gt), orr \in Seq(FrameRec),
         oo # <<>>, NEW f, f = Head(oo), f \in FrameRec, f.cmd \notin {"CTS", "EOMA"}, NEW ir2 \in {ir, Append(ir, f)},
         f.cmd = "SIMPLE" => f.type = "simple"
  PROVE  Message(k, o, r, Append(io, f), Tail(oo), ir2, orr, gt)
<1>1. f \notin CS(k) /\ f \notin EoS(k)
  BY DEF CS, EoS
<1>2. \A S : Lacks(oo, Tail(oo), S) /\ Lacks(orr, orr, S)
  BY TailSilent
<1>3. \A S : f \notin S => Lacks(io, Append(io, f), S) /\ Lacks(ir, ir2, S)
  BY AppendLacks DEF Lacks
<1>4. Begun(k, o, o) /\ Still(k, o, o) /\ Ages(r, r) /\ Owes(o, o) /\ OKeeps(o, o) /\ RKeeps(r, r)
  BY DEF Begun, Still, Ages, Owes, OKeeps, RKeeps, Same
<1>5. Opened(k, o, r, Tail(oo), ir2)
  <2>1. CASE f \in OpS(k)
    BY <2>1, OpenedCarry DEF Message
  <2>2. CASE f \notin OpS(k)
    BY <1>2, <1>3, <1>4, <2>2, OpenedKeeps DEF Message
  <2> QED
    BY <2>1, <2>2
<1>6. Fresh(k, o, r, Append(io, f), Tail(oo), ir2, orr)
  <2>1. CASE f \in DS(k)
    <3>1. ~None(oo, DS(k))
      BY <2>1, Taking
    <3> QED
      BY <3>1 DEF Message, Fresh
  <2>2. CASE f \notin DS(k)
    BY <1>1, <1>2, <1>3, <1>4, <2>2, FreshKeeps DEF Message
  <2> QED
    BY <2>1, <2>2
<1>7. Stores(k, r, ir2, orr)
  BY <1>1, <1>2, <1>3, <1>4, StoresKeeps DEF Message
<1>8. Handed(k, o, r, Tail(oo), ir2, gt)
  <2>1. CASE f \in SiS(k)
    <3>1. Type(k) = "simple"
      BY <2>1 DEF SiS, Mine
    <3> QED
      BY <2>1, <3>1, HandedCarry DEF Message
  <2>2. CASE f \notin SiS(k)
    BY <1>2, <1>3, <1>4, <2>2, HandedKeeps DEF Message
  <2> QED
    BY <2>1, <2>2
<1>9. InBlock(k, o, r, Append(io, f), Tail(oo), ir2, orr)
  <2>1. CASE f \in DS(k)
    <3> SUFFICES ASSUME Xtp(k), Live(r)
                 PROVE  \E e, O : Blocks(k, o, r, Append(io, f), Tail(oo), ir2, orr, e, O)
      BY DEF InBlock
    <3>1. PICK e, O : Blocks(k, o, r, io, oo, ir, orr, e, O)
      BY DEF InBlock, Message
    <3>2. CASE ir2 = ir
      <4>1. Blocks(k, o, r, Append(io, f), Tail(oo), ir, orr, e, O)
        BY <2>1, <3>1, BlocksCarry
      <4> QED
        BY <3>2, <4>1
    <3>3. CASE ir2 = Append(ir, f)
      <4>1. Blocks(k, o, r, Append(io, f), Tail(oo), Append(ir, f), orr, e, O)
        BY <2>1, <3>1, BlocksCarry
      <4> QED
        BY <3>3, <4>1
    <3> QED
      BY <3>2, <3>3
  <2>2. CASE f \notin DS(k)
    <3>1. Calm(k, io, Append(io, f)) /\ Calm(k, oo, Tail(oo)) /\ Calm(k, orr, orr)
      BY <1>1, <2>2, AppendCalm, TailSilent
    <3>2. Calm(k, ir, ir2) /\ (None(ir2, CS(k)) => None(ir, CS(k)))
      <4>1. CASE ir2 = ir
        BY <4>1, TailSilent
      <4>2. CASE ir2 = Append(ir, f)
        BY <1>1, <2>2, <4>2, AppendCalm
      <4> QED
        BY <4>1, <4>2
    <3> QED
      BY <1>4, <3>1, <3>2, BlockKeeps DEF Message
  <2> QED
    BY <2>1, <2>2
<1> QED
  BY <1>5, <1>6, <1>7, <1>8, <1>9 DEF Message

\* What a handler that sends and receives nothing of message k may do to its
\* sessions.
OQuiet(k, o, p) == OKeeps(o, p) /\ Begun(k, o, p) /\ Still(k, o, p) /\ (Type(k) = "simple" => Owes(o, p))
RQuiet(r, p) == Ages(r, p) /\ Spare(p) = 0 /\ (Live(p) => RKeeps(r, p) /\ p.buf = r.buf)

\* Frames of a queue: those of the message are left alone, or some are taken.
Loses(k, r, q, p) == Silent(k, q, p) /\ (Live(r) => (None(p, CS(k)) => None(q, CS(k))))

LEMMA QuietSame ==
  ASSUME NEW k, NEW s
  PROVE  OQuiet(k, s, s) /\ (Spare(s) = 0 => RQuiet(s, s))
  BY DEF OQuiet, RQuiet, OKeeps, Begun, Still, Owes, Ages, RKeeps, Same

LEMMA MessageQuiet ==
  ASSUME NEW k, NEW o, NEW r, NEW io, NEW oo, NEW ir, NEW orr, NEW gt, Message(k, o, r, io, oo, ir, orr, gt),
         NEW o2, NEW r2, NEW io2, NEW oo2, NEW ir2, NEW orr2, OQuiet(k, o, o2), RQuiet(r, r2),
         Silent(k, io, io2), Silent(k, oo, oo2), Loses(k, r2, ir, ir2), Silent(k, orr, orr2)
  PROVE  Message(k, o2, r2, io2, oo2, ir2, orr2, gt)
  BY MessageKeeps DEF OQuiet, RQuiet, Loses

\* The session goes on, ends or is aborted.
LEMMA WindsQuiet ==
  ASSUME NEW n, NEW k, NEW h, NEW g, Winds(n, k, h, g), h.s.st \notin {"none", "new", "freed"}
  PROVE  OQuiet(k, h.s, g.s) /\ (Spare(h.s) = 0 => RQuiet(h.s, g.s))
<1>1. /\ Core(h.s, g.s) /\ g.s.txcmd = h.s.txcmd /\ Goes(h.s, g.s) /\ Spare(g.s) = Spare(h.s)
      /\ g.s.txt = "off" \/ (g.s.txt = h.s.txt /\ Same(h.s, g.s))
  BY DEF Winds
<1>2. OKeeps(h.s, g.s)
  BY <1>1 DEF OKeeps, Sending, Core
<1>3. Begun(k, h.s, g.s) /\ Still(k, h.s, g.s)
  BY <1>1 DEF Begun, Unbegun, Still, Core
<1>4. Owes(h.s, g.s)
  BY <1>1 DEF Owes, Goes
<1>5. Ages(h.s, g.s)
  BY <1>1 DEF Ages, Goes, Live
<1>6. RKeeps(h.s, g.s) /\ g.s.buf = h.s.buf
  BY <1>1 DEF RKeeps, Core
<1> QED
  BY <1>1, <1>2, <1>3, <1>4, <1>5, <1>6 DEF OQuiet, RQuiet

LEMMA FreedQuiet ==
  ASSUME NEW k, NEW s, NEW t, Freed(k, s, t)
  PROVE  OQuiet(k, s, t) /\ RQuiet(s, t)
<1>1. /\ t.st = "freed" /\ s.st = "done" /\ t.cmd = "none" /\ t.txcmd = "none" /\ t.txt = "off"
      /\ Spare(t) = 0
  BY IdleIs DEF Freed
<1> QED
  BY <1>1 DEF OQuiet, RQuiet, OKeeps, Sending, Begun, Unbegun, Still, Owes, Ages, Live

LEMMA StartedQuiet ==
  ASSUME NEW k, NEW s, NEW t, Idle(k, s), s.st \in {"none", "new"}, Same(s, t)
  PROVE  OQuiet(k, s, t)
<1>1. s.cmd = "none" /\ s.txcmd = "none" /\ t.cmd = "none" /\ t.txcmd = "none"
  BY IdleIs DEF Same
<1> QED
  BY <1>1 DEF OQuiet, OKeeps, Sending, Moving, Begun, Unbegun, Still, Owes

LEMMA DroppedQuiet ==
  ASSUME NEW k, NEW s, NEW t, Drops(k, s, t)
  PROVE  OQuiet(k, s, t)
<1>1. CASE Idle(k, t) /\ t.st = "freed"
  <2>1. t.cmd = "none" /\ t.txcmd = "none" /\ t.txt = "off"
    BY <1>1, IdleIs
  <2> QED
    BY <1>1, <2>1 DEF OQuiet, OKeeps, Sending, Begun, Unbegun, Still, Owes
<1>2. CASE Same(s, t) /\ t.st = s.st /\ t.txt = s.txt
  BY <1>2 DEF OQuiet, OKeeps, Sending, Begun, Unbegun, Still, Owes, Same
<1> QED
  BY <1>1, <1>2 DEF Drops

\* Aborts.
LEMMA AbortSilent ==
  ASSUME mode \in Modes, NEW n \in Nodes, NEW k \in Msgs, NEW q \in Seq(FrameRec), NEW p,
         \/ p = q
         \/ p = Append(q, Ctl(n, "ABORT", k, 0, 0))
  PROVE  \A j : Silent(j, q, p)
<1>1. PICK f : f = Ctl(n, "ABORT", k, 0, 0)
  OBVIOUS
<1>2. f \in FrameRec /\ f.cmd = "ABORT"
  <2>1. Type(k) \in Types /\ k \in Nat
    BY Scripts
  <2> QED
    BY <1>1, <2>1, AbortFrame
<1>3. \A j : {f} \cap Told(j) = {}
  BY <1>2 DEF Told, DS, CS, OpS, EoS, SiS
<1>4. Adds(q, p, {f})
  BY <1>1, AddsNothing, AddsOne
<1> QED
  BY <1>2, <1>3, <1>4, AddsSilent

\* The frame at the head of a queue of another message is taken.
LEMMA TailOfOther ==
  ASSUME NEW k, NEW q \in Seq(FrameRec), q # <<>>, Head(q) \notin CS(k)
  PROVE  Silent(k, q, Tail(q)) /\ (None(Tail(q), CS(k)) => None(q, CS(k)))
<1>1. Silent(k, q, Tail(q))
  BY TailSilent
<1>2. None(q, CS(k)) <=> Head(q) \notin CS(k) /\ None(Tail(q), CS(k))
  BY Taking
<1> QED
  BY <1>1, <1>2

\* Frames are sent or received for the session of a message of several packets.
LEMMA MessageMoves ==
  ASSUME NEW k, NEW o, NEW r, NEW io, NEW oo, NEW ir, NEW orr, NEW gt, Message(k, o, r, io, oo, ir, orr, gt),
         NEW o2, NEW r2, NEW io2, NEW oo2, NEW ir2, NEW orr2,
         Type(k) # "simple", Xtp(k) => r.st # "none", Begun(k, o, o2), Ages(r, r2), Spare(r2) = 0,
         Lacks(oo, oo2, OpS(k)), Lacks(ir, ir2, OpS(k)),
         Stores(k, r2, ir2, orr2), InBlock(k, o2, r2, io2, oo2, ir2, orr2)
  PROVE  Message(k, o2, r2, io2, oo2, ir2, orr2, gt)
<1>1. Opened(k, o2, r2, oo2, ir2)
  BY OpenedKeeps DEF Message
<1>2. Fresh(k, o2, r2, io2, oo2, ir2, orr2)
  BY DEF Fresh, Ages
<1>3. Handed(k, o2, r2, oo2, ir2, gt)
  BY HandedKeeps DEF Message
<1> QED
  BY <1>1, <1>2, <1>3 DEF Message

\* The responder's frames on the bus.
LEMMA MessageReply ==
  ASSUME NEW k, NEW o, NEW r, NEW io \in Seq(FrameRec), NEW oo \in Seq(FrameRec), NEW ir \in Seq(FrameRec), NEW orr, NEW gt,
         Message(k, o, r, io, oo, ir, orr, gt), orr \in Seq(FrameRec),
         orr # <<>>, NEW f, f = Head(orr), f \in FrameRec, f.cmd \in FromR, NEW io2 \in {io, Append(io, f)}
  PROVE  Message(k, o, r, io2, oo, Append(ir, f), Tail(orr), gt)
<1>1. f \notin DS(k) /\ f \notin OpS(k) /\ f \notin SiS(k)
  BY DEF FromR, DS, OpS, SiS
<1>2. \A S : Lacks(orr, Tail(orr), S) /\ Lacks(oo, oo, S)
  BY TailSilent
<1>3. \A S : f \notin S => Lacks(io, io2, S) /\ Lacks(ir, Append(ir, f), S)
  BY AppendLacks DEF Lacks
<1>4. Begun(k, o, o) /\ Still(k, o, o) /\ Ages(r, r) /\ Owes(o, o) /\ OKeeps(o, o) /\ RKeeps(r, r)
  BY DEF Begun, Still, Ages, Owes, OKeeps, RKeeps, Same
<1>5. Opened(k, o, r, oo, Append(ir, f))
  BY <1>1, <1>2, <1>3, <1>4, OpenedKeeps DEF Message
<1>6. Fresh(k, o, r, io2, oo, Append(ir, f), Tail(orr))
  <2>1. CASE f \in CS(k) \cup EoS(k)
    <3>1. ~None(orr, CS(k)) \/ ~None(orr, EoS(k))
      BY <2>1, Taking
    <3> QED
      BY <3>1 DEF Message, Fresh
  <2>2. CASE f \notin CS(k) \cup EoS(k)
    BY <1>1, <1>2, <1>3, <1>4, <2>2, FreshKeeps DEF Message
  <2> QED
    BY <2>1, <2>2
<1>7. Stores(k, r, Append(ir, f), Tail(orr))
  <2>1. CASE f \in EoS(k)
    <3>1. ~None(orr, EoS(k))
      BY <2>1, Taking
    <3> QED
      BY <3>1 DEF Message, Stores
  <2>2. CASE f \notin EoS(k)
    BY <1>2, <1>3, <1>4, <2>2, StoresKeeps DEF Message
  <2> QED
    BY <2>1, <2>2
<1>8. Handed(k, o, r, oo, Append(ir, f), gt)
  BY <1>1, <1>2, <1>3, <1>4, HandedKeeps DEF Message
<1>9. InBlock(k, o, r, io2, oo, Append(ir, f), Tail(orr))
  <2>1. CASE f \in CS(k)
    <3> SUFFICES ASSUME Xtp(k), Live(r)
                 PROVE  \E e, O : Blocks(k, o, r, io2, oo, Append(ir, f), Tail(orr), e, O)
      BY DEF InBlock
    <3>1. PICK e, O : Blocks(k, o, r, io, oo, ir, orr, e, O)
      BY DEF InBlock, Message
    <3>2. CASE io2 = io
      <4>1. Blocks(k, o, r, io, oo, Append(ir, f), Tail(orr), e, O)
        BY <2>1, <3>1, BlocksAsk
      <4> QED
        BY <3>2, <4>1
    <3>3. CASE io2 = Append(io, f)
      <4>1. Blocks(k, o, r, Append(io, f), oo, Append(ir, f), Tail(orr), e, O)
        BY <2>1, <3>1, BlocksAsk
      <4> QED
        BY <3>3, <4>1
    <3> QED
      BY <3>2, <3>3
  <2>2. CASE f \notin CS(k)
    <3>1. Calm(k, oo, oo) /\ Calm(k, orr, Tail(orr)) /\ Calm(k, ir, Append(ir, f))
          /\ (None(Append(ir, f), CS(k)) => None(ir, CS(k)))
      BY <1>1, <2>2, AppendCalm, TailSilent
    <3>2. Calm(k, io, io2)
      <4>1. CASE io2 = io
        BY <4>1, TailSilent
      <4>2. CASE io2 = Append(io, f)
        BY <1>1, <2>2, <4>2, AppendCalm
      <4> QED
        BY <4>1, <4>2
    <3> QED
      BY <1>4, <3>1, <3>2, BlockKeeps DEF Message
  <2> QED
    BY <2>1, <2>2
<1> QED
  BY <1>5, <1>6, <1>7, <1>8, <1>9 DEF Message

\* The originator sends the frame that opens the message.
LEMMA MessageOpens ==
  ASSUME NEW k, NEW o, NEW r, NEW io, NEW oo \in Seq(FrameRec), NEW ir, NEW orr, NEW gt,
         Message(k, o, r, io, oo, ir, orr, gt), Type(k) # "simple", Unbegun(k, o),
         NEW f \in OpS(k), NEW p, p.st # "freed", p.cmd = "none", p.txcmd = Opening(k)
  PROVE  Message(k, p, r, io, Append(oo, f), ir, orr, gt)
<1>1. f \in FrameRec /\ f \notin DS(k)
  BY DEF OpS, DS, Mine
<1>2. None(oo, OpS(k)) /\ None(ir, OpS(k)) /\ r.st = "none" /\ Behind(oo, OpS(k), OpS(k))
      /\ Behind(ir, OpS(k), OpS(k)) /\ Spare(r) = 0
  BY DEF Message, Opened
<1>3. Behind(Append(oo, f), OpS(k), OpS(k)) /\ (None(Append(oo, f), DS(k)) <=> None(oo, DS(k)))
  BY <1>1, <1>2, Appended
<1>4. Opened(k, p, r, Append(oo, f), ir)
  BY <1>2, <1>3 DEF Opened, Unbegun
<1>5. Fresh(k, p, r, io, Append(oo, f), ir, orr)
  BY <1>3 DEF Message, Fresh, Opening, Xtp
<1>6. Stores(k, r, ir, orr) /\ InBlock(k, p, r, io, Append(oo, f), ir, orr)
  BY <1>2 DEF Stores, InBlock, Live
<1>7. Handed(k, p, r, Append(oo, f), ir, gt)
  BY DEF Message, Handed
<1> QED
  BY <1>2, <1>4, <1>5, <1>6, <1>7 DEF Message

\* The originator sends its short message.
LEMMA MessageShort ==
  ASSUME NEW k, NEW o, NEW r, NEW io, NEW oo \in Seq(FrameRec), NEW ir, NEW orr, NEW gt,
         Message(k, o, r, io, oo, ir, orr, gt), Type(k) = "simple", o.txt # "off",
         NEW f \in SiS(k), NEW p, p.st \notin {"none", "new"}, p.txt = "off", Begun(k, o, p)
  PROVE  Message(k, p, r, io, Append(oo, f), ir, orr, gt)
<1>1. f \in FrameRec /\ f \notin OpS(k)
  BY DEF SiS, OpS, Mine
<1>2. None(oo, SiS(k)) /\ None(ir, SiS(k)) /\ ~Has(gt, k) /\ Behind(oo, SiS(k), SiS(k)) /\ Behind(ir, SiS(k), SiS(k))
  BY DEF Message, Handed
<1>3. Behind(Append(oo, f), SiS(k), SiS(k)) /\ Lacks(oo, Append(oo, f), OpS(k)) /\ Lacks(ir, ir, OpS(k))
  BY <1>1, <1>2, Appended, AppendLacks DEF Lacks
<1>4. Ages(r, r)
  BY DEF Ages
<1>5. Opened(k, p, r, Append(oo, f), ir)
  BY <1>3, <1>4, OpenedKeeps DEF Message
<1>6. Fresh(k, p, r, io, Append(oo, f), ir, orr) /\ InBlock(k, p, r, io, Append(oo, f), ir, orr)
  BY DEF Fresh, InBlock, Xtp
<1>7. Handed(k, p, r, Append(oo, f), ir, gt)
  BY <1>2, <1>3 DEF Message, Handed
<1> QED
  BY <1>5, <1>6, <1>7 DEF Message

LEMMA DatsAre ==
  ASSUME NEW k, NEW s \in SessRec, NEW o, o.tx = s.tx, o.dpo = s.dpo, NEW d \in Int, 0 <= d,
         NEW a, a = [i \in 1..d |-> DatFrame("o", k, s, i)], a \in Seq(FrameRec)
  PROVE  DatsOf(k, o, a) /\ Len(a) = d
<1>1. Len(a) = d
  <2>1. DOMAIN a = 1..Len(a) /\ Len(a) \in Nat
    OBVIOUS
  <2>2. DOMAIN a = 1..d
    OBVIOUS
  <2> QED
    BY <2>1, <2>2
<1>2. ASSUME NEW i \in 1..Len(a)
      PROVE  /\ a[i] \in DS(k) /\ a[i].cmd = "DAT" /\ a[i].pkt = o.tx + i - o.dpo
             /\ a[i].data.msg = k /\ a[i].data.pkt = o.tx + i - 1
  <2>1. a[i] = DatFrame("o", k, s, i) /\ a[i] \in FrameRec
    BY <1>1
  <2>2. /\ a[i].type = Type(k) /\ a[i].cmd = "DAT" /\ a[i].pkt = s.tx + i - s.dpo
        /\ a[i].data.msg = k /\ a[i].data.pkt = s.tx + i - 1
    BY <2>1 DEF DatFrame, Frame
  <2> QED
    BY <2>1, <2>2 DEF DS, Mine
<1> QED
  BY <1>1, <1>2 DEF DatsOf

\* The originator sends the rest of a block, or as much as its device takes.
LEMMA BlocksDats ==
  ASSUME mode \in Modes, NEW k \in Msgs, Xtp(k), NEW v \in ViewRec, NEW w, NEW d \in Int, DatsSent("o", k, v, w, d),
         NEW o, NEW r, NEW io, NEW ir, NEW orr, NEW e, NEW O, Blocks(k, o, r, io, v.out, ir, orr, e, O),
         Sending(o), Same(o, v.s), o.dpo = O,
         NEW p, Same(w.s, p), p.txt = w.s.txt \/ w.ret = "nobufs"
  PROVE  Blocks(k, p, r, io, w.out, ir, orr, e, O)
<1>1. /\ v.s \in SessRec /\ v.out \in Seq(FrameRec) /\ Total(k) \in Int /\ Type(k) # "bam"
      /\ v.s.tx \in Int /\ v.s.dpo \in Int /\ v.s.acked \in Int /\ v.s.last \in Int
  BY Scripts DEF ViewRec, SessRec, Xtp
<1>2. o.tx = v.s.tx /\ o.dpo = v.s.dpo /\ o.acked = v.s.acked /\ o.last = v.s.last /\ o.cmd = v.s.cmd /\ o.txcmd = v.s.txcmd
  BY DEF Same
<1>3. o.last = e /\ o.tx < e /\ e <= Total(k) /\ e \in Int
  BY DEF Blocks, Block1, Block2, Flows
<1>4. Wanted(k, v.s) = e - o.tx
  BY <1>1, <1>2, <1>3 DEF Wanted
<1>5. 0 <= d /\ d <= e - o.tx
  <2>1. Wanted(k, v.s) >= 0 => 0 <= d /\ d <= Wanted(k, v.s)
    BY DEF DatsSent
  <2>2. e - o.tx >= 0
    BY <1>1, <1>2, <1>3
  <2> QED
    BY <1>4, <2>1, <2>2
<1>6. PICK a : a = [i \in 1..d |-> DatFrame("o", k, v.s, i)]
  OBVIOUS
<1>7. a \in Seq(FrameRec) /\ w.out = v.out \o a
  BY <1>6 DEF DatsSent
<1>8. DatsOf(k, o, a) /\ Len(a) = d
  <2>1. v.s \in SessRec /\ o.tx = v.s.tx /\ o.dpo = v.s.dpo /\ a \in Seq(FrameRec)
    BY <1>1, <1>2, <1>7
  <2>2. 0 <= d
    BY <1>5
  <2> QED
    BY <1>6, <2>1, <2>2, DatsAre
<1>9. /\ p.cmd = o.cmd /\ p.dpo = o.dpo /\ p.txcmd = (IF d > 0 THEN "DAT" ELSE o.txcmd)
      /\ p.tx = o.tx + d /\ p.last = o.last /\ p.acked = o.acked
  BY <1>2 DEF Same, DatsSent, Kept
<1>10. p.txt # "off" => d < e - o.tx
  <2>1. w.s.txt # "off" => Type(k) = "bam"
    BY DEF DatsSent
  <2>2. w.ret = "nobufs" => v.s.tx >= Total(k) \/ d < Wanted(k, v.s)
    BY <1>1 DEF DatsSent
  <2>3. p.txt # "off" => w.ret = "nobufs"
    BY <1>1, <2>1
  <2> QED
    BY <1>1, <1>2, <1>3, <1>4, <2>2, <2>3
<1>11. Blocks(k, p, r, io, v.out \o a, ir, orr, e, O)
  BY <1>1, <1>2, <1>5, <1>8, <1>9, <1>10, BlocksSend
<1> QED
  BY <1>7, <1>11

\* What the tx timer of the originator sends of a block.
LEMMA BlocksTransmit ==
  ASSUME mode \in Modes, NEW k \in Msgs, Xtp(k), NEW v \in ViewRec, NEW w, Transmits("o", k, v, w),
         NEW o, NEW r, NEW io, NEW ir, NEW orr, NEW e, NEW O, Blocks(k, o, r, io, v.out, ir, orr, e, O),
         Sending(o), Same(o, v.s), Type(k) # "etp" => o.dpo = 0,
         NEW p, Same(w.s, p), p.txt = w.s.txt \/ w.ret = "nobufs"
  PROVE  Blocks(k, p, r, io, w.out, ir, orr, e, O)
<1>1. /\ v.s \in SessRec /\ v.out \in Seq(FrameRec) /\ Total(k) \in Int /\ Type(k) # "bam"
      /\ v.s.tx \in Int /\ v.s.dpo \in Int /\ v.s.acked \in Int /\ v.s.last \in Int
  BY Scripts DEF ViewRec, SessRec, Xtp
<1>2. o.tx = v.s.tx /\ o.dpo = v.s.dpo /\ o.acked = v.s.acked /\ o.last = v.s.last /\ o.cmd = v.s.cmd /\ o.txcmd = v.s.txcmd
  BY DEF Same
<1>3. o.cmd \in Moving /\ Moving \subseteq {"CTS", "DAT", "DPO", "BAM"} /\ "none" \notin Moving
  BY DEF Sending, Moving
<1>4. CASE Type(k) = "etp" /\ v.s.cmd = "CTS" /\ v.s.txcmd # "DPO" /\ DpoSent("o", k, v, w) /\ w.ret # "ok"
  <2>1. /\ p.cmd = o.cmd /\ p.dpo = o.acked /\ p.txcmd = o.txcmd /\ p.tx = o.tx
        /\ p.last = o.last /\ p.acked = o.acked /\ w.out = v.out
    BY <1>2, <1>4 DEF Same, DpoSent, Kept
  <2> QED
    BY <2>1, BlocksOffset
<1>5. CASE \E x \in ViewRec : /\ Type(k) = "etp" /\ v.s.cmd = "CTS" /\ v.s.txcmd # "DPO"
                             /\ DpoSent("o", k, v, x) /\ x.ret = "ok"
                             /\ \E d \in Int : DatsSent("o", k, x, w, d)
  <2>1. PICK x \in ViewRec : /\ Type(k) = "etp" /\ DpoSent("o", k, v, x) /\ x.ret = "ok"
                             /\ \E d \in Int : DatsSent("o", k, x, w, d)
    BY <1>5
  <2>2. PICK d \in Int : DatsSent("o", k, x, w, d)
    BY <2>1
  <2>3. PICK f : f = Ctl("o", "DPO", k, v.s.last - v.s.acked, v.s.acked)
    OBVIOUS
  <2>4. f \in DS(k) /\ f.cmd = "DPO" /\ f.pkt = o.acked
    <3>1. Type(k) \in Types /\ k \in Nat /\ v.s.last - v.s.acked \in Int /\ "DPO" \in Cmds
      BY <1>1, Scripts DEF Cmds, FromO
    <3>2. f \in FrameRec /\ f.cmd = "DPO" /\ f.type = Type(k) /\ f.data.msg = k /\ f.pkt = v.s.acked
      BY <1>1, <2>3, <3>1, CtlType DEF Nodes
    <3> QED
      BY <1>2, <3>2 DEF DS, Mine
  <2>5. x.out = Append(v.out, f) /\ x.s.dpo = v.s.acked /\ x.s.tx = v.s.acked /\ x.s.txcmd = "DPO" /\ Kept(v.s, x.s)
    BY <2>1, <2>3 DEF DpoSent
  <2>6. PICK q : q = [x.s EXCEPT !.txt = "now"]
    OBVIOUS
  <2>7. /\ q.cmd = x.s.cmd /\ q.txcmd = x.s.txcmd /\ q.tx = x.s.tx /\ q.last = x.s.last /\ q.acked = x.s.acked
        /\ q.dpo = x.s.dpo /\ q.txt = "now" /\ Same(q, x.s)
    <3>1. x.s \in SessRec
      BY DEF ViewRec
    <3> QED
      BY <2>6, <3>1 DEF SessRec, Same
  <2>8. /\ q.cmd = o.cmd /\ q.dpo = o.acked /\ q.txcmd = "DPO" /\ q.tx = o.acked
        /\ q.last = o.last /\ q.acked = o.acked
    BY <1>2, <2>5, <2>7 DEF Kept
  <2>9. Blocks(k, q, r, io, x.out, ir, orr, e, O)
    BY <1>1, <1>2, <2>1, <2>4, <2>5, <2>8, BlocksAnnounce
  <2>10. Sending(q) /\ q.dpo = O
    <3>1. o.acked = O
      BY <2>1 DEF Blocks, Block2
    <3> QED
      BY <1>3, <2>7, <2>8, <3>1 DEF Sending
  <2> QED
    BY <2>2, <2>7, <2>9, <2>10, BlocksDats
<1>6. CASE ~(Type(k) = "etp" /\ v.s.cmd = "CTS" /\ v.s.txcmd # "DPO") /\ \E d \in Int : DatsSent("o", k, v, w, d)
  <2>1. o.dpo = O
    BY <1>2, <1>6 DEF Blocks, Block2
  <2> QED
    BY <1>6, <2>1, BlocksDats
<1> QED
  BY <1>2, <1>3, <1>4, <1>5, <1>6 DEF Transmits

LEMMA SeqWithin ==
  ASSUME NEW R, NEW a \in Seq(R), NEW S, \A i \in 1..Len(a) : a[i] \in S
  PROVE  a \in Seq(S)
<1>1. Len(a) \in Nat /\ a = [i \in 1..Len(a) |-> a[i]]
  OBVIOUS
<1> QED
  BY <1>1

\* Once the opening frame is sent, those of a block follow.
LEMMA TransmitsAdds ==
  ASSUME mode \in Modes, NEW k \in Msgs, NEW v \in ViewRec, NEW w, Transmits("o", k, v, w), v.s.cmd # "none"
  PROVE  w \in ViewRec /\ Adds(v.out, w.out, DS(k)) /\ w.s.cmd = v.s.cmd /\ w.s.st = v.s.st
<1>1. DS(k) \subseteq FrameRec /\ v.out \in Seq(FrameRec) /\ v.s \in SessRec
  BY DEF DS, Mine, ViewRec
<1>2. ASSUME NEW x \in ViewRec, NEW y, NEW d \in Int, DatsSent("o", k, x, y, d)
      PROVE  y \in ViewRec /\ Adds(x.out, y.out, DS(k)) /\ y.s.cmd = x.s.cmd /\ y.s.st = x.s.st
  <2>1. PICK a : a = [i \in 1..d |-> DatFrame("o", k, x.s, i)]
    OBVIOUS
  <2>2. a \in Seq(FrameRec) /\ y.out = x.out \o a /\ y \in ViewRec /\ y.s.cmd = x.s.cmd /\ y.s.st = x.s.st
    BY <1>2, <2>1 DEF DatsSent, Kept
  <2>3. \A i \in 1..Len(a) : a[i] \in DS(k)
    <3> SUFFICES ASSUME NEW i \in 1..Len(a)
                 PROVE  a[i] \in DS(k)
      OBVIOUS
    <3>1. i \in 1..d /\ a[i] \in FrameRec
      <4>1. DOMAIN a = 1..d
        BY <2>1
      <4>2. a \in Seq(FrameRec)
        BY <2>2
      <4>3. DOMAIN a = 1..Len(a)
        BY <4>2
      <4> QED
        BY <4>1, <4>2, <4>3
    <3>2. a[i] = DatFrame("o", k, x.s, i)
      BY <2>1, <3>1
    <3> QED
      BY <3>1, <3>2 DEF DatFrame, Frame, DS, Mine
  <2>4. a \in Seq(DS(k))
    BY <2>2, <2>3, SeqWithin
  <2> QED
    BY <2>2, <2>4 DEF Adds
<1>3. ASSUME NEW x, Type(k) = "etp", DpoSent("o", k, v, x)
      PROVE  x \in ViewRec /\ Adds(v.out, x.out, DS(k)) /\ x.s.cmd = v.s.cmd /\ x.s.st = v.s.st
  <2>1. PICK f : f = Ctl("o", "DPO", k, v.s.last - v.s.acked, v.s.acked)
    OBVIOUS
  <2>2. f \in DS(k)
    <3>1. /\ Type(k) \in Types /\ k \in Nat /\ v.s.last - v.s.acked \in Int /\ v.s.acked \in Int /\ "DPO" \in Cmds
          /\ "o" \in Nodes
      BY <1>1, Scripts DEF Cmds, FromO, SessRec, Nodes
    <3>2. f \in FrameRec /\ f.cmd = "DPO" /\ f.type = Type(k) /\ f.data.msg = k
      BY <2>1, <3>1, CtlType
    <3> QED
      BY <3>2 DEF DS, Mine
  <2>3. x.out = v.out \/ x.out = Append(v.out, f)
    BY <1>3, <2>1 DEF DpoSent
  <2>4. Adds(v.out, x.out, DS(k))
    BY <1>1, <2>2, <2>3, AddsNothing, AddsOne
  <2> QED
    BY <1>3, <2>4 DEF DpoSent, Kept
<1>4. CASE Type(k) = "etp" /\ DpoSent("o", k, v, w)
  BY <1>3, <1>4
<1>5. CASE \E x \in ViewRec : /\ Type(k) = "etp" /\ DpoSent("o", k, v, x) /\ \E d \in Int : DatsSent("o", k, x, w, d)
  <2>1. PICK x \in ViewRec : Type(k) = "etp" /\ DpoSent("o", k, v, x) /\ \E d \in Int : DatsSent("o", k, x, w, d)
    BY <1>5
  <2>2. /\ Adds(v.out, x.out, DS(k)) /\ x.s.cmd = v.s.cmd /\ x.s.st = v.s.st
        /\ w \in ViewRec /\ Adds(x.out, w.out, DS(k)) /\ w.s.cmd = x.s.cmd /\ w.s.st = x.s.st
    BY <1>2, <1>3, <2>1
  <2>3. Adds(v.out, w.out, DS(k))
    BY <1>1, <2>2, AddsTrans
  <2> QED
    BY <2>2, <2>3
<1>6. CASE \E d \in Int : DatsSent("o", k, v, w, d)
  BY <1>2, <1>6
<1>7. CASE w = v
  BY <1>1, <1>7, AddsNothing
<1> QED
  BY <1>4, <1>5, <1>6, <1>7 DEF Transmits

LEMMA SameQuiet ==
  ASSUME NEW k, NEW o, NEW p, Same(o, p), p.st = o.st, o.txt # "off", o.st \notin {"none", "new", "freed"}
  PROVE  OQuiet(k, o, p)
  BY DEF OQuiet, OKeeps, Sending, Begun, Unbegun, Still, Owes, Same

\* The frames that the tx timer of the originator sends, p the session then.
LEMMA MessageTransmits ==
  ASSUME mode \in Modes, NEW k \in Msgs, NEW v \in ViewRec, NEW w \in ViewRec,
         Type(k) = "simple" => SimpleSent("o", k, v, w),
         Type(k) # "simple" => Transmits("o", k, v, w),
         NEW o, Working("o", k, o), o.txt # "off", Same(o, v.s), v.s.st = o.st,
         NEW r, NEW io, NEW ir, NEW orr, NEW gt, Message(k, o, r, io, v.out, ir, orr, gt),
         NEW p, Same(w.s, p), p.st = w.s.st, p.txt = w.s.txt \/ w.ret = "nobufs"
  PROVE  Message(k, p, r, io, w.out, ir, orr, gt)
<1>1. /\ o.st \notin {"none", "new", "freed"} /\ v.out \in Seq(FrameRec) /\ w.out \in Seq(FrameRec) /\ Spare(r) = 0
      /\ o.cmd = v.s.cmd /\ o.txcmd = v.s.txcmd
  BY DEF Working, ViewRec, Message, Same
<1>2. \A q : Silent(k, q, q) /\ Loses(k, r, q, q)
  BY DEF Silent, Loses
<1>3. ASSUME Same(v.s, w.s), w.s.st = v.s.st, w.out = v.out
      PROVE  Message(k, p, r, io, w.out, ir, orr, gt)
  <2>1. Same(o, p) /\ p.st = o.st
    BY <1>3 DEF Same
  <2>2. OQuiet(k, o, p)
    BY <1>1, <2>1, SameQuiet
  <2>3. RQuiet(r, r)
    BY <1>1, QuietSame
  <2> QED
    BY <1>2, <1>3, <2>2, <2>3, MessageQuiet
<1>4. CASE Type(k) = "simple"
  <2>1. SimpleSent("o", k, v, w)
    BY <1>4
  <2>2. Same(v.s, w.s) /\ w.s.st = v.s.st /\ w.s.txt = "off"
    BY <2>1 DEF SimpleSent
  <2>3. CASE w.ret # "ok"
    BY <1>3, <2>1, <2>2, <2>3 DEF SimpleSent
  <2>4. CASE w.ret = "ok"
    <3>1. PICK f : f = SimpleFrame("o", k)
      OBVIOUS
    <3>2. f \in FrameRec /\ w.out = Append(v.out, f)
      BY <2>1, <2>4, <3>1 DEF SimpleSent
    <3>3. f \in SiS(k)
      BY <1>4, <3>1, <3>2 DEF SimpleFrame, Frame, SiS, Mine
    <3>4. p.txt = "off" /\ p.st \notin {"none", "new"} /\ Begun(k, o, p)
      BY <1>1, <2>2, <2>4 DEF Begun, Unbegun, Same
    <3> QED
      BY <1>1, <1>4, <3>2, <3>3, <3>4, MessageShort
  <2> QED
    BY <2>3, <2>4
<1>5. CASE Type(k) # "simple" /\ v.s.cmd = "none"
  <2>1. RtsSent("o", k, v, w) \/ w = v
    BY <1>5 DEF Transmits
  <2>2. CASE w = v
    BY <1>3, <2>2 DEF Same
  <2>3. CASE RtsSent("o", k, v, w) /\ w.s.txcmd = v.s.txcmd /\ w.out = v.out
    BY <1>3, <2>3 DEF RtsSent, Kept, Same
  <2>4. CASE RtsSent("o", k, v, w) /\ ~(w.s.txcmd = v.s.txcmd /\ w.out = v.out)
    <3>1. PICK f : f = Ctl("o", Opening(k), k, Total(k), 0)
      OBVIOUS
    <3>2. /\ v.s.txcmd # Opening(k) /\ w.s.txcmd = Opening(k) /\ w.out = Append(v.out, f)
          /\ w.s.cmd = "none" /\ w.s.st = v.s.st
      BY <1>5, <2>4, <3>1 DEF RtsSent, Kept
    <3>3. f \in OpS(k)
      <4>1. /\ Type(k) \in Types /\ k \in Nat /\ Total(k) \in Int /\ 0 \in Int /\ Opening(k) \in Cmds /\ "o" \in Nodes
            /\ Opening(k) \in {"RTS", "BAM"}
        BY Scripts DEF Cmds, FromO, Opening, Nodes
      <4>2. f \in FrameRec /\ f.cmd = Opening(k) /\ f.type = Type(k) /\ f.data.msg = k
        BY <3>1, <4>1, CtlType
      <4> QED
        BY <4>1, <4>2 DEF OpS, Mine
    <3>4. Unbegun(k, o) /\ p.st # "freed" /\ p.cmd = "none" /\ p.txcmd = Opening(k)
      BY <1>1, <1>5, <3>2 DEF Unbegun, Same
    <3> QED
      BY <1>1, <1>5, <3>2, <3>3, <3>4, MessageOpens
  <2> QED
    BY <2>1, <2>2, <2>3, <2>4
<1>6. CASE Type(k) # "simple" /\ v.s.cmd # "none"
  <2>1. Adds(v.out, w.out, DS(k)) /\ p.cmd = o.cmd /\ o.cmd # "none"
    <3>1. Adds(v.out, w.out, DS(k)) /\ w.s.cmd = v.s.cmd
      BY <1>6, TransmitsAdds
    <3> QED
      BY <1>1, <1>6, <3>1 DEF Same
  <2>2. Lacks(v.out, w.out, OpS(k)) /\ Lacks(ir, ir, OpS(k))
    <3>1. DS(k) \subseteq FrameRec
      BY SetsOf
    <3>2. OpS(k) \cap DS(k) = {}
      BY MoreSets
    <3>3. v.out \in Seq(FrameRec) /\ Adds(v.out, w.out, DS(k))
      BY <1>1, <2>1
    <3>4. /\ \A S : S \cap DS(k) = {} => (None(w.out, S) <=> None(v.out, S))
          /\ \A S, T : S \cap DS(k) = {} /\ Behind(v.out, S, T) => Behind(w.out, S, T)
      BY <3>1, <3>3, AddsHolds, Zenon
    <3> QED
      BY <3>2, <3>4 DEF Lacks
  <2>3. CASE w = v
    BY <1>3, <2>3 DEF Same
  <2>4. CASE w # v
    <3>1. o.cmd \in {"CTS", "DAT", "DPO", "BAM"}
      BY <1>1, <1>6, <2>4 DEF Transmits
    <3>2. Xtp(k) => o.cmd \in Moving
      BY <3>1 DEF Working, Xtp, Moving
    <3>3. Xtp(k) => r.st # "none"
      BY <3>2 DEF Message, Fresh, Moving
    <3>4. InBlock(k, p, r, io, w.out, ir, orr)
      <4> SUFFICES ASSUME Xtp(k), Live(r)
                   PROVE  \E e, O : Blocks(k, p, r, io, w.out, ir, orr, e, O)
        BY DEF InBlock
      <4>1. PICK e, O : Blocks(k, o, r, io, v.out, ir, orr, e, O)
        BY DEF InBlock, Message
      <4>2. Sending(o) /\ (Type(k) # "etp" => o.dpo = 0)
        BY <3>2 DEF Sending, Working
      <4>3. Transmits("o", k, v, w)
        BY <1>6
      <4>4. Blocks(k, p, r, io, w.out, ir, orr, e, O)
        BY <4>1, <4>2, <4>3, BlocksTransmit
      <4> QED
        BY <4>4
    <3>5. Begun(k, o, p) /\ Ages(r, r)
      BY <2>1 DEF Begun, Unbegun, Ages
    <3>6. Stores(k, r, ir, orr)
      BY DEF Message
    <3> QED
      BY <1>1, <1>6, <2>2, <3>3, <3>4, <3>5, <3>6, MessageMoves
  <2> QED
    BY <2>3, <2>4
<1> QED
  BY <1>4, <1>5, <1>6

\* The whole callback of the tx timer, at the originator.
LEMMA MessageTimesO ==
  ASSUME mode \in Modes, NEW k \in Msgs, NEW h, Ready("o", k, h), h.s.txt # "off", NEW g, Txtimer("o", k, h, g),
         NEW r, NEW io, NEW ir, NEW orr, NEW gt, Message(k, h.s, r, io, h.out, ir, orr, gt)
  PROVE  Message(k, g.s, r, io, g.out, ir, orr, gt)
<1>1. PICK v \in ViewRec, w \in ViewRec :
        /\ TxView(h, v) /\ Settles("o", k, w, g)
        /\ Type(k) = "simple" => SimpleSent("o", k, v, w)
        /\ Type(k) # "simple" => Transmits("o", k, v, w)
  BY DEF Txtimer
<1>2. /\ Same(h.s, v.s) /\ v.s.st = h.s.st /\ v.out = h.out /\ Working("o", k, h.s)
      /\ w.out \in Seq(FrameRec) /\ w.s \in SessRec
  BY <1>1 DEF TxView, Beside, Ready, ViewRec
<1>3. /\ Same(w.s, g.s) /\ Goes(w.s, g.s) /\ (g.s.txt = w.s.txt \/ (g.s.txt = "later" /\ w.ret = "nobufs"))
      /\ g.out = w.out \/ g.out = Append(w.out, Ctl("o", "ABORT", k, 0, 0))
  BY <1>1 DEF Settles
<1>4. PICK p : p = [w.s EXCEPT !.txt = g.s.txt]
  OBVIOUS
<1>5. Same(w.s, p) /\ p.st = w.s.st /\ p.txt = g.s.txt /\ Same(p, g.s) /\ Goes(p, g.s)
  BY <1>2, <1>3, <1>4 DEF SessRec, Same, Goes, Live
<1>6. w.s.st = v.s.st
  <2>1. Type(k) # "simple" /\ v.s.cmd # "none" => w.s.st = v.s.st
    BY <1>1, TransmitsAdds
  <2>2. Type(k) # "simple" /\ v.s.cmd = "none" => w.s.st = v.s.st
    BY <1>1 DEF Transmits, RtsSent
  <2>3. Type(k) = "simple" => w.s.st = v.s.st
    BY <1>1 DEF SimpleSent
  <2> QED
    BY <2>1, <2>2, <2>3
<1>7. Message(k, p, r, io, w.out, ir, orr, gt)
  <2>1. p.txt = w.s.txt \/ w.ret = "nobufs"
    BY <1>3, <1>5
  <2>2. Message(k, h.s, r, io, v.out, ir, orr, gt)
    BY <1>2
  <2> QED
    BY <1>1, <1>2, <1>5, <2>1, <2>2, MessageTransmits
<1>8. OQuiet(k, p, g.s)
  <2>1. p.st \notin {"none", "new", "freed"} /\ p.cmd = g.s.cmd /\ p.txcmd = g.s.txcmd
    BY <1>2, <1>5, <1>6 DEF Working, Same
  <2> QED
    BY <1>5, <2>1 DEF OQuiet, OKeeps, Sending, Begun, Unbegun, Still, Owes, Goes
<1>9. Silent(k, w.out, g.out) /\ RQuiet(r, r) /\ \A q : Silent(k, q, q) /\ Loses(k, r, q, q)
  <2>1. Silent(k, w.out, g.out)
    BY <1>2, <1>3, AbortSilent DEF Nodes
  <2>2. RQuiet(r, r)
    BY QuietSame DEF Message
  <2> QED
    BY <2>1, <2>2 DEF Silent, Loses
<1> QED
  BY <1>7, <1>8, <1>9, MessageQuiet

\* The same at the responder, which asks for a block or ends the message.
LEMMA MessageTimesR ==
  ASSUME mode \in Modes, NEW k \in Msgs, NEW h, Ready("r", k, h), h.s.txt # "off", NEW g, Txtimer("r", k, h, g),
         NEW o, NEW io, NEW oo, NEW ir, NEW gt, Message(k, o, h.s, io, oo, ir, h.out, gt)
  PROVE  Message(k, o, g.s, io, oo, ir, g.out, gt)
<1>1. Type(k) # "simple" /\ Xtp(k) /\ h.s \in SessRec /\ h.out \in Seq(FrameRec) /\ Total(k) \in Nat \ {0} /\ k \in Nat
      /\ Type(k) \in Types /\ h.s.st \notin {"none", "new", "freed"} /\ Spare(h.s) = 0
  BY Scripts DEF Ready, Working, ViewRec, Types, Xtp, Message
<1>2. PICK v \in ViewRec, w \in ViewRec :
        /\ TxView(h, v) /\ Settles("r", k, w, g) /\ Spare(g.s) = Spare(w.s) - 1 /\ Receives("r", k, v, w)
  BY <1>1 DEF Txtimer
<1>3. /\ Core(h.s, w.s) /\ w.s.st = h.s.st /\ v.out = h.out /\ w.s.txt = "off" /\ Spare(w.s) = 1
      /\ v.s.cmd = h.s.cmd /\ v.s.rx = h.s.rx /\ w.out \in Seq(FrameRec)
  BY <1>1, <1>2 DEF TxView, Beside, Receives, Core, Same, ViewRec
<1>4. /\ Core(w.s, g.s) /\ Goes(w.s, g.s) /\ (g.s.txt = w.s.txt \/ (g.s.txt = "later" /\ w.ret = "nobufs"))
      /\ g.out = w.out \/ g.out = Append(w.out, Ctl("r", "ABORT", k, 0, 0))
  BY <1>2 DEF Settles, Same, Core
<1>5. Ages(h.s, g.s) /\ RKeeps(h.s, g.s) /\ g.s.buf = h.s.buf /\ Spare(g.s) = 0
  <2>1. Ages(h.s, g.s)
    BY <1>1, <1>3, <1>4 DEF Ages, Goes, Live
  <2>2. RKeeps(h.s, g.s) /\ g.s.buf = h.s.buf
    BY <1>3, <1>4 DEF RKeeps, Core
  <2> QED
    BY <1>2, <1>3, <2>1, <2>2
<1>6. (\A q : Silent(k, q, q) /\ Loses(k, g.s, q, q) /\ Calm(k, q, q)) /\ OQuiet(k, o, o) /\ RQuiet(g.s, g.s)
  BY <1>5, QuietSame DEF Silent, Loses, Calm
<1>7. Message(k, o, g.s, io, oo, ir, w.out, gt)
  <2>1. CASE w.out = v.out
    <3>1. RQuiet(h.s, g.s)
      BY <1>5 DEF RQuiet
    <3> QED
      BY <1>3, <1>6, <2>1, <3>1, MessageQuiet
  <2>2. Begun(k, o, o) /\ Lacks(oo, oo, OpS(k)) /\ Lacks(ir, ir, OpS(k))
    BY DEF Begun, Lacks
  <2>3. CASE /\ w.ret = "ok"
             /\ h.s.cmd = "RTS" \/ (h.s.cmd \in {"CTS", "DAT", "DPO"} /\ h.s.rx < Total(k))
             /\ w.out = Append(h.out, Ctl("r", "CTS", k, Smaller(Total(k) - h.s.rx, Block), h.s.rx + 1))
    <3>1. PICK f : f = Ctl("r", "CTS", k, Smaller(Total(k) - h.s.rx, Block), h.s.rx + 1)
      OBVIOUS
    <3>2. f \in CS(k) /\ f \notin EoS(k) /\ f.pkt = h.s.rx + 1 /\ f.len = Smaller(Total(k) - h.s.rx, Block) /\ f \in FrameRec
      <4>1. /\ Smaller(Total(k) - h.s.rx, Block) \in Int /\ h.s.rx + 1 \in Int /\ "CTS" \in Cmds /\ "r" \in Nodes
        BY <1>1, TransferAssumption DEF Smaller, SessRec, Cmds, FromR, Nodes
      <4>2. /\ f \in FrameRec /\ f.cmd = "CTS" /\ f.type = Type(k) /\ f.data.msg = k /\ f.pkt = h.s.rx + 1
            /\ f.len = Smaller(Total(k) - h.s.rx, Block)
        BY <1>1, <3>1, <4>1, CtlType
      <4> QED
        BY <4>2 DEF CS, EoS, Mine
    <3>3. w.out = Append(h.out, f) /\ g.s.txt = "off"
      BY <1>3, <1>4, <2>3, <3>1
    <3>4. Stores(k, g.s, ir, w.out)
      <4>1. Lacks(h.out, w.out, EoS(k)) /\ Lacks(ir, ir, EoS(k))
        BY <1>1, <3>2, <3>3, AppendLacks DEF Lacks
      <4> QED
        BY <1>5, <4>1, StoresKeeps DEF Message, RKeeps
    <3>5. InBlock(k, o, g.s, io, oo, ir, w.out)
      <4> SUFFICES ASSUME Live(g.s)
                   PROVE  \E e, O : Blocks(k, o, g.s, io, oo, ir, w.out, e, O)
        BY DEF InBlock
      <4>1. Live(h.s)
        BY <1>5 DEF Ages
      <4>2. PICK e, O : Blocks(k, o, h.s, io, oo, ir, h.out, e, O)
        BY <1>1, <4>1 DEF InBlock, Message
      <4>3. h.s.rx \in Nat /\ Total(k) \in Nat
        BY <1>1, <4>1 DEF Message, Stores, StoredTo, SessRec
      <4>4. h.s.rx < Total(k)
        <5>1. h.s.cmd = "RTS" => h.s.rx = 0
          BY <4>2 DEF Blocks, Block1
        <5> QED
          BY <1>1, <2>3, <5>1
      <4>5. /\ g.s.cmd = h.s.cmd /\ g.s.rx = h.s.rx /\ g.s.last = h.s.last /\ g.s.dpo = h.s.dpo
            /\ Block \in Nat \ {0}
        BY <1>5, TransferAssumption DEF RKeeps
      <4>6. Blocks(k, o, g.s, io, oo, ir, Append(h.out, f), h.s.rx + f.len, O)
        BY <1>1, <3>2, <3>3, <4>2, <4>3, <4>4, <4>5, BlocksNext
      <4> QED
        BY <3>3, <4>6
    <3> QED
      BY <1>1, <1>5, <2>2, <3>4, <3>5, MessageMoves
  <2>4. CASE /\ w.ret = "ok" /\ h.s.rx >= Total(k)
             /\ w.out = Append(h.out, Ctl("r", "EOMA", k, 0, 0))
    <3>1. PICK f : f = Ctl("r", "EOMA", k, 0, 0)
      OBVIOUS
    <3>2. f \notin CS(k) /\ f \notin DS(k) /\ f \in FrameRec
      <4>1. "EOMA" \in Cmds /\ "r" \in Nodes
        BY DEF Cmds, FromR, Nodes
      <4>2. f \in FrameRec /\ f.cmd = "EOMA"
        BY <1>1, <3>1, <4>1, CtlType
      <4> QED
        BY <4>2 DEF CS, DS
    <3>3. Stores(k, g.s, ir, w.out)
      <4> SUFFICES ASSUME Live(g.s)
                   PROVE  StoredTo(k, g.s.rx, g.s.buf) /\ g.s.rx = Total(k)
        BY DEF Stores
      <4>1. Live(h.s) /\ g.s.rx = h.s.rx /\ g.s.buf = h.s.buf
        BY <1>5 DEF Ages, RKeeps
      <4>2. StoredTo(k, h.s.rx, h.s.buf) /\ h.s.rx <= Total(k) /\ h.s.rx \in Int
        BY <1>1, <4>1 DEF Message, Stores, StoredTo, SessRec
      <4> QED
        BY <1>1, <2>4, <4>1, <4>2
    <3>4. InBlock(k, o, g.s, io, oo, ir, w.out)
      <4>1. Calm(k, h.out, w.out)
        BY <1>1, <2>4, <3>1, <3>2, AppendCalm
      <4>2. OKeeps(o, o) /\ (Live(g.s) => Live(h.s) /\ RKeeps(h.s, g.s))
        BY <1>5, <1>6 DEF OQuiet, Ages
      <4> QED
        BY <1>6, <4>1, <4>2, BlockKeeps DEF Message
    <3> QED
      BY <1>1, <1>5, <2>2, <3>3, <3>4, MessageMoves
  <2> QED
    BY <1>2, <1>3, <2>1, <2>3, <2>4 DEF Receives
<1>8. Silent(k, w.out, g.out)
  BY <1>3, <1>4, AbortSilent DEF Nodes
<1> QED
  BY <1>6, <1>7, <1>8, MessageQuiet

\* A session goes on, ends or is aborted when a frame is taken.
LEMMA MessageWindsO ==
  ASSUME mode \in Modes, NEW k \in Msgs, NEW h, Ready("o", k, h), NEW g, Winds("o", k, h, g),
         NEW r, NEW io \in Seq(FrameRec), NEW io2, io2 = io \/ (io # <<>> /\ io2 = Tail(io)), NEW ir, NEW orr, NEW gt,
         Message(k, h.s, r, io, h.out, ir, orr, gt)
  PROVE  Message(k, g.s, r, io2, g.out, ir, orr, gt)
<1>1. h.s.st \notin {"none", "new", "freed"} /\ h.out \in Seq(FrameRec)
  BY DEF Ready, Working, ViewRec
<1>2. OQuiet(k, h.s, g.s)
  BY <1>1, WindsQuiet
<1>3. Silent(k, h.out, g.out)
  BY <1>1, AbortSilent DEF Winds, Nodes
<1>4. Silent(k, io, io2) /\ RQuiet(r, r) /\ Loses(k, r, ir, ir) /\ Silent(k, orr, orr)
  BY TailSilent, QuietSame DEF Message, Loses, Silent
<1> QED
  BY <1>2, <1>3, <1>4, MessageQuiet

LEMMA MessageWindsR ==
  ASSUME mode \in Modes, NEW k \in Msgs, NEW h, Ready("r", k, h), NEW g, Winds("r", k, h, g),
         NEW o, NEW io, NEW oo, NEW ir \in Seq(FrameRec), NEW ir2,
         ir2 = ir \/ (ir # <<>> /\ ir2 = Tail(ir) /\ (Live(g.s) => Head(ir) \notin CS(k))),
         NEW gt, Message(k, o, h.s, io, oo, ir, h.out, gt)
  PROVE  Message(k, o, g.s, io, oo, ir2, g.out, gt)
<1>1. h.s.st \notin {"none", "new", "freed"} /\ h.out \in Seq(FrameRec) /\ Spare(h.s) = 0
  BY DEF Ready, Working, ViewRec, Message
<1>2. RQuiet(h.s, g.s)
  BY <1>1, WindsQuiet
<1>3. Silent(k, h.out, g.out)
  BY <1>1, AbortSilent DEF Winds, Nodes
<1>4. Loses(k, g.s, ir, ir2)
  <2>1. CASE ir2 = ir
    BY <2>1 DEF Loses, Silent
  <2>2. CASE ir # <<>> /\ ir2 = Tail(ir) /\ (Live(g.s) => Head(ir) \notin CS(k))
    <3>1. Silent(k, ir, ir2)
      BY <2>2, TailSilent
    <3>2. Live(g.s) => (None(ir2, CS(k)) => None(ir, CS(k)))
      BY <2>2, TailOfOther
    <3> QED
      BY <3>1, <3>2 DEF Loses
  <2> QED
    BY <2>1, <2>2
<1>5. OQuiet(k, o, o) /\ Silent(k, io, io) /\ Silent(k, oo, oo)
  BY QuietSame DEF Silent
<1> QED
  BY <1>2, <1>3, <1>4, <1>5, MessageQuiet

\* The originator takes a frame.
LEMMA MessageTakenO ==
  ASSUME mode \in Modes, NEW k \in Msgs, NEW h, h = View("o", k), Ready("o", k, h), Live(h.s),
         NEW r \in SessRec, NEW io \in Seq(FrameRec), io # <<>>, NEW ir, NEW orr, NEW gt,
         Message(k, h.s, r, io, h.out, ir, orr, gt),
         NEW f, f = Head(io), f \in Sent("o") \cup Sent("r"), f.type = Type(k),
         f.cmd \in {"CTS", "DPO", "DAT", "EOMA"} => f.data.msg = k, NEW g, g = Handled("o", k, f)
  PROVE  Message(k, g.s, r, Tail(io), g.out, ir, orr, gt)
<1>1. /\ f \in FrameRec /\ f.cmd \in Cmds /\ (f.cmd = "BAM" => f.type = "bam") /\ (f.cmd = "DPO" => f.type = "etp")
      /\ f.cmd \in {"RTS", "CTS", "EOMA"} => f.type \in {"tp", "etp"}
      /\ f.cmd = "DAT" => f.type # "simple"
  BY SentFrames DEF FrameRec
<1>2. h \in ViewRec /\ h.s.st \notin {"none", "new", "freed"} /\ "o" \in Nodes
  BY DEF Ready, Working, Nodes
<1>3. ASSUME Winds("o", k, h, g)
      PROVE  Message(k, g.s, r, Tail(io), g.out, ir, orr, gt)
  BY <1>3, MessageWindsO
<1>4. ASSUME Stops("o", k, h, g)
      PROVE  Message(k, g.s, r, Tail(io), g.out, ir, orr, gt)
  BY <1>3, <1>4, WindsWhen
<1>5. Spare(r) = 0 /\ Ages(r, r) /\ Lacks(h.out, h.out, OpS(k)) /\ Lacks(ir, ir, OpS(k)) /\ Stores(k, r, ir, orr)
      /\ RQuiet(r, r) /\ Loses(k, r, ir, ir) /\ Silent(k, orr, orr) /\ Silent(k, h.out, h.out) /\ Silent(k, io, Tail(io))
  BY QuietSame, TailSilent DEF Message, Ages, Lacks, Loses, Silent
<1>6. ASSUME f \in DS(k) \cup CS(k)
      PROVE  Xtp(k) => r.st # "none"
  <2>1. ~None(io, DS(k)) \/ ~None(io, CS(k))
    BY <1>6, Taking
  <2> QED
    BY <2>1 DEF Message, Fresh
<1>7. ASSUME f \in DS(k), g.out = h.out,
             g.s.cmd = f.cmd, g.s.dpo = (IF f.cmd = "DPO" THEN f.pkt ELSE h.s.dpo), g.s.txcmd = h.s.txcmd,
             g.s.tx = h.s.tx, g.s.last = h.s.last, g.s.acked = h.s.acked, g.s.txt \in {h.s.txt, "off"},
             Type(k) # "simple"
      PROVE  Message(k, g.s, r, Tail(io), g.out, ir, orr, gt)
  <2>1. InBlock(k, g.s, r, Tail(io), h.out, ir, orr)
    <3> SUFFICES ASSUME Xtp(k), Live(r)
                 PROVE  \E e, O : Blocks(k, g.s, r, Tail(io), h.out, ir, orr, e, O)
      BY DEF InBlock
    <3>1. PICK e, O : Blocks(k, h.s, r, io, h.out, ir, orr, e, O)
      BY DEF InBlock, Message
    <3>2. Blocks(k, g.s, r, Tail(io), h.out, ir, orr, e, O)
      BY <1>2, <1>7, <3>1, BlocksEcho
    <3> QED
      BY <3>2
  <2>2. Begun(k, h.s, g.s)
    BY <1>7 DEF Begun, Unbegun, DS
  <2> QED
    BY <1>5, <1>6, <1>7, <2>1, <2>2, MessageMoves
<1>8. CASE f.cmd \in {"RTS", "BAM"}
  <2>1. g = j1939_xtp_rx_rts(h, "o", k, f)
    BY <1>8 DEF Handled
  <2>2. CASE /\ h.s.cmd = "none" /\ Marks(h, g) /\ g.s.cmd = f.cmd /\ g.s.txt = h.s.txt
             /\ g.s.txcmd = h.s.txcmd /\ g.s.tx = h.s.tx /\ g.s.last = h.s.last
             /\ g.s.acked = h.s.acked /\ g.s.rx = h.s.rx /\ g.s.dpo = h.s.dpo /\ g.s.buf = h.s.buf
    <3>1. g.s.st = h.s.st /\ g.out = h.out
      BY <2>2 DEF Marks
    <3>2. OKeeps(h.s, g.s)
      BY <1>2, <1>8, <2>2, <3>1 DEF OKeeps, Sending, Moving
    <3>3. Still(k, h.s, g.s)
      BY <1>1, <1>8, <2>2 DEF Still, Opening
    <3>4. Begun(k, h.s, g.s) /\ Owes(h.s, g.s)
      BY <1>8, <2>2, <3>1 DEF Begun, Unbegun, Owes
    <3>5. OQuiet(k, h.s, g.s)
      BY <3>2, <3>3, <3>4 DEF OQuiet
    <3> QED
      BY <1>5, <3>1, <3>5, MessageQuiet
  <2> QED
    BY <1>1, <1>2, <1>4, <1>8, <2>1, <2>2, RtsTaken
<1>9. CASE f.cmd = "CTS"
  <2>1. g = j1939_xtp_rx_cts_one(h, "o", k, f)
    BY <1>9 DEF Handled
  <2>2. f \in CS(k) /\ Type(k) # "simple"
    BY <1>1, <1>9 DEF CS, Mine
  <2>3. CASE CtsTakes("o", k, f, h, g)
    <3>1. /\ g.out = h.out /\ g.s.acked = f.pkt - 1 /\ g.s.tx = f.pkt - 1
          /\ g.s.last = Smaller(f.pkt - 1 + f.len, Total(k)) /\ g.s.cmd = "CTS" /\ g.s.txcmd = h.s.txcmd
      BY <2>3 DEF CtsTakes, Marks
    <3>2. InBlock(k, g.s, r, Tail(io), h.out, ir, orr)
      <4> SUFFICES ASSUME Xtp(k), Live(r)
                   PROVE  \E e, O : Blocks(k, g.s, r, Tail(io), h.out, ir, orr, e, O)
        BY DEF InBlock
      <4>1. PICK e, O : Blocks(k, h.s, r, io, h.out, ir, orr, e, O)
        BY DEF InBlock, Message
      <4>2. r.rx \in Nat /\ Total(k) \in Int
        BY Scripts DEF Message, Stores, StoredTo, SessRec
      <4>3. PICK O2 : O2 = IF Type(k) = "etp" THEN r.rx ELSE 0
        OBVIOUS
      <4>4. Blocks(k, g.s, r, Tail(io), h.out, ir, orr, e, O2)
        BY <2>2, <3>1, <4>1, <4>2, <4>3, BlocksGrant
      <4> QED
        BY <4>4
    <3>3. Begun(k, h.s, g.s)
      BY <3>1 DEF Begun, Unbegun
    <3> QED
      BY <1>5, <1>6, <2>2, <3>1, <3>2, <3>3, MessageMoves
  <2> QED
    BY <1>1, <1>2, <1>4, <2>1, <2>3, CtsTaken
<1>10. CASE f.cmd = "DPO"
  <2>1. g = j1939_xtp_rx_dpo_one(h, f)
    BY <1>10 DEF Handled
  <2>2. DpoTakes(f, h, g)
    BY <1>1, <1>2, <2>1, DpoTaken
  <2>3. f \in DS(k) /\ Type(k) # "simple"
    BY <1>1, <1>10 DEF DS, Mine
  <2> QED
    BY <1>7, <1>10, <2>2, <2>3 DEF DpoTakes, Marks
<1>11. CASE f.cmd = "DAT"
  <2>1. g = j1939_xtp_rx_dat_one(h, "o", k, f)
    BY <1>11 DEF Handled
  <2>2. f \in DS(k) /\ Type(k) # "simple"
    BY <1>1, <1>11 DEF DS, Mine
  <2>3. CASE DatTakes("o", k, f, h, g)
    <3>1. /\ g.out = h.out /\ g.s.cmd = f.cmd /\ g.s.dpo = h.s.dpo /\ g.s.txcmd = h.s.txcmd
          /\ g.s.tx = h.s.tx /\ g.s.last = h.s.last /\ g.s.acked = h.s.acked
      BY <1>11, <2>3 DEF DatTakes
    <3>2. g.s.txt \in {h.s.txt, "off"}
      BY <2>3 DEF DatTakes
    <3> QED
      BY <1>7, <1>11, <2>2, <3>1, <3>2
  <2> QED
    BY <1>1, <1>2, <1>4, <2>1, <2>3, DatTaken
<1>12. CASE f.cmd = "EOMA"
  <2>1. g = j1939_xtp_rx_eoma_one(h, "o", k)
    BY <1>12 DEF Handled
  <2> QED
    BY <1>2, <1>3, <2>1, EomaWinds
<1>13. CASE f.cmd = "ABORT"
  <2>1. g = j1939_xtp_rx_abort_one(h)
    BY <1>13 DEF Handled
  <2> QED
    BY <1>2, <1>4, <2>1, AbortTaken
<1>14. CASE f.cmd = "SIMPLE"
  <2>1. g = j1939_simple_recv(h)
    BY <1>14 DEF Handled
  <2> QED
    BY <1>2, <1>4, <2>1, SimpleTaken
<1> QED
  BY <1>1, <1>8, <1>9, <1>10, <1>11, <1>12, <1>13, <1>14 DEF Cmds, FromO, FromR

\* A packet is stored.
LEMMA StoredStep ==
  ASSUME NEW k, Total(k) \in Nat, NEW rx \in Nat, NEW b, DOMAIN b = 0..Total(k) - 1, StoredTo(k, rx, b), rx < Total(k),
         NEW i \in Int, NEW d \in DataRec, d.msg = k, d.pkt = i, NEW c, c = [b EXCEPT ![i] = d],
         NEW rx2, rx2 = IF i = rx THEN rx + 1 ELSE rx
  PROVE  StoredTo(k, rx2, c)
<1>1. d = [msg |-> k, pkt |-> i]
  BY DEF DataRec
<1>2. 0 <= rx2 /\ rx2 <= Total(k)
  OBVIOUS
<1>3. ASSUME NEW j \in 0..rx2 - 1
      PROVE  c[j] = [msg |-> k, pkt |-> j]
  <2>1. j \in DOMAIN b /\ (j # i => j \in 0..rx - 1)
    OBVIOUS
  <2>2. CASE j = i
    BY <1>1, <2>1, <2>2
  <2>3. CASE j # i
    <3>1. c[j] = b[j]
      BY <2>1, <2>3
    <3> QED
      BY <2>1, <2>3, <3>1 DEF StoredTo
  <2> QED
    BY <2>2, <2>3
<1> QED
  BY <1>2, <1>3 DEF StoredTo

\* A message is handed up.
LEMMA HasMore ==
  ASSUME NEW R, NEW gt \in Seq(R), NEW x \in R, NEW k
  PROVE  /\ Append(gt, x) \in Seq(R)
         /\ x.msg # k => (Has(Append(gt, x), k) <=> Has(gt, k))
         /\ x.msg = k => Has(Append(gt, x), k)
         /\ /\ \A i, j \in 1..Len(gt) : gt[i].msg = k /\ gt[j].msg = k => i = j
            /\ x.msg # k \/ ~Has(gt, k)
            => \A i, j \in 1..Len(Append(gt, x)) : Append(gt, x)[i].msg = k /\ Append(gt, x)[j].msg = k => i = j
<1>1. PICK q : q = Append(gt, x)
  OBVIOUS
<1>2. /\ q \in Seq(R) /\ Len(gt) \in Nat /\ Len(q) = Len(gt) + 1 /\ q[Len(gt) + 1] = x
      /\ \A i \in 1..Len(gt) : q[i] = gt[i]
  BY <1>1, AppendProperties
<1>3. \A i \in 1..Len(q) : i = Len(gt) + 1 \/ (i \in 1..Len(gt) /\ q[i] = gt[i])
  BY <1>2
<1>4. \A i \in 1..Len(gt) : i \in 1..Len(q)
  BY <1>2
<1>5. Len(gt) + 1 \in 1..Len(q)
  BY <1>2
<1>6. x.msg # k => (Has(q, k) <=> Has(gt, k))
  BY <1>2, <1>3, <1>4 DEF Has
<1>7. x.msg = k => Has(q, k)
  BY <1>2, <1>5 DEF Has
<1>8. ASSUME \A i, j \in 1..Len(gt) : gt[i].msg = k /\ gt[j].msg = k => i = j,
             x.msg # k \/ ~Has(gt, k)
      PROVE  \A i, j \in 1..Len(q) : q[i].msg = k /\ q[j].msg = k => i = j
  <2> SUFFICES ASSUME NEW i \in 1..Len(q), NEW j \in 1..Len(q), q[i].msg = k, q[j].msg = k
               PROVE  i = j
    OBVIOUS
  <2>1. CASE x.msg # k
    <3>1. i \in 1..Len(gt) /\ j \in 1..Len(gt) /\ gt[i].msg = k /\ gt[j].msg = k
      BY <1>2, <1>3, <2>1
    <3> QED
      BY <1>8, <3>1
  <2>2. CASE ~Has(gt, k)
    BY <1>3, <2>2 DEF Has
  <2> QED
    BY <1>8, <2>1, <2>2
<1> QED
  BY <1>1, <1>2, <1>6, <1>7, <1>8

LEMMA MessageHanded ==
  ASSUME NEW k, Type(k) # "simple", NEW o, NEW r, r.st \in {"done", "freed"}, NEW io, NEW oo, NEW ir, NEW orr,
         NEW R, NEW gt \in Seq(R), NEW x \in R, Message(k, o, r, io, oo, ir, orr, gt), ~Has(gt, k)
  PROVE  Message(k, o, r, io, oo, ir, orr, Append(gt, x))
<1>1. \A i, j \in 1..Len(gt) : gt[i].msg = k /\ gt[j].msg = k => i = j
  BY DEF Message, Handed
<1>2. Handed(k, o, r, oo, ir, Append(gt, x))
  BY <1>1, HasMore DEF Handed
<1> QED
  BY <1>2 DEF Message

\* Another message is handed up.
LEMMA MessageOther ==
  ASSUME NEW k, NEW o, NEW r, NEW io, NEW oo, NEW ir, NEW orr,
         NEW R, NEW gt \in Seq(R), NEW x \in R, x.msg # k, Message(k, o, r, io, oo, ir, orr, gt)
  PROVE  Message(k, o, r, io, oo, ir, orr, Append(gt, x))
<1>1. /\ Has(Append(gt, x), k) <=> Has(gt, k)
      /\ \A i, j \in 1..Len(Append(gt, x)) : Append(gt, x)[i].msg = k /\ Append(gt, x)[j].msg = k => i = j
  <2>1. \A i, j \in 1..Len(gt) : gt[i].msg = k /\ gt[j].msg = k => i = j
    BY DEF Message, Handed
  <2> QED
    BY <2>1, HasMore
<1>2. Handed(k, o, r, oo, ir, Append(gt, x))
  BY <1>1 DEF Message, Handed
<1> QED
  BY <1>2 DEF Message

\* A short message is handed up when its frame arrives.
LEMMA MessageShortUp ==
  ASSUME NEW k, NEW o, NEW r, NEW io, NEW oo, NEW ir \in Seq(FrameRec), NEW orr, ir # <<>>, Head(ir) \in SiS(k),
         ~Live(r), Type(k) = "simple", NEW R, NEW gt \in Seq(R), NEW x \in R, Message(k, o, r, io, oo, ir, orr, gt)
  PROVE  Message(k, o, r, io, oo, Tail(ir), orr, Append(gt, x))
<1>1. ~None(ir, SiS(k)) /\ (Behind(ir, SiS(k), SiS(k)) => None(Tail(ir), SiS(k)))
  BY Taking
<1>2. /\ None(Tail(ir), SiS(k)) /\ ~Has(gt, k) /\ None(oo, SiS(k)) /\ Behind(Tail(ir), SiS(k), SiS(k))
      /\ o.st \notin {"none", "new"} /\ o.txt = "off"
  <2>1. Behind(ir, SiS(k), SiS(k))
    BY DEF Message, Handed
  <2>2. Behind(Tail(ir), SiS(k), SiS(k))
    BY <2>1, Taking
  <2> QED
    BY <1>1, <2>1, <2>2 DEF Message, Handed
<1>3. \A i, j \in 1..Len(Append(gt, x)) : Append(gt, x)[i].msg = k /\ Append(gt, x)[j].msg = k => i = j
  <2>1. \A i, j \in 1..Len(gt) : gt[i].msg = k /\ gt[j].msg = k => i = j
    BY DEF Message, Handed
  <2> QED
    BY <1>2, <2>1, HasMore
<1>4. Handed(k, o, r, oo, Tail(ir), Append(gt, x))
  BY <1>2, <1>3 DEF Message, Handed
<1>5. Opened(k, o, r, oo, Tail(ir))
  <2>1. Lacks(ir, Tail(ir), OpS(k)) /\ Lacks(oo, oo, OpS(k)) /\ Begun(k, o, o) /\ Ages(r, r)
    BY TailSilent DEF Lacks, Begun, Ages
  <2> QED
    BY <2>1, OpenedKeeps DEF Message
<1>6. Fresh(k, o, r, io, oo, Tail(ir), orr) /\ Stores(k, r, Tail(ir), orr) /\ InBlock(k, o, r, io, oo, Tail(ir), orr)
  BY DEF Fresh, Stores, InBlock, Xtp
<1> QED
  BY <1>4, <1>5, <1>6 DEF Message

\* The responder stores a packet.
LEMMA MessageStores ==
  ASSUME mode \in Modes, NEW k \in Msgs, NEW h, Ready("r", k, h), Live(h.s), ~h.recv,
         NEW o, NEW io, NEW oo, NEW ir \in Seq(FrameRec), ir # <<>>, NEW gt,
         Message(k, o, h.s, io, oo, ir, h.out, gt),
         NEW f, f = Head(ir), f \in Sent("o") \cup Sent("r"), f.type = Type(k), f.data.msg = k, f.cmd = "DAT",
         NEW g, DatTakes("r", k, f, h, g)
  PROVE  /\ Message(k, o, g.s, io, oo, Tail(ir), g.out, gt)
         /\ g.recv => StoredTo(k, Total(k), g.s.buf) /\ g.s.st = "done"
<1>1. /\ f \in FrameRec /\ Type(k) # "simple" /\ (Type(k) # "etp" => f.data.pkt = f.pkt - 1)
      /\ f.data \in DataRec /\ f.pkt \in Int /\ f.data.pkt \in Int
  BY SentFrames DEF FrameRec, DataRec
<1>2. f \in DS(k) /\ f \notin CS(k)
  BY <1>1 DEF DS, CS, Mine
<1>3. /\ h.s \in SessRec /\ h.s.rx \in Nat /\ h.s.dpo \in Int /\ h.s.last \in Int /\ Total(k) \in Nat
      /\ DOMAIN h.s.buf = 0..Total(k) - 1
      /\ (Type(k) # "etp" => h.s.dpo = 0) /\ (Type(k) = "bam" => h.s.txt = "off")
      /\ StoredTo(k, h.s.rx, h.s.buf) /\ Spare(h.s) = 0
  BY Scripts DEF Ready, Working, ViewRec, SessRec, Message, Stores, StoredTo
<1>4. /\ ~Unfit(k, f, h.s) /\ g.out = h.out /\ g.s.cmd = "DAT" /\ g.s.rx = Rx(f, h.s)
      /\ g.s.last = h.s.last /\ g.s.dpo = h.s.dpo /\ g.s.buf = [h.s.buf EXCEPT ![Pkt(f, h.s)] = f.data]
  BY DEF DatTakes
<1>5. h.s.rx + 1 <= Total(k) /\ (Type(k) = "etp" => h.s.cmd \in {"DAT", "DPO"})
  BY <1>3, <1>4 DEF Unfit
<1>6. Type(k) \in Types /\ (Xtp(k) <=> Type(k) # "bam")
  BY <1>1, Scripts DEF Types, Xtp
<1>7. Pkt(f, h.s) = f.data.pkt
  <2>1. CASE Xtp(k)
    <3>1. PICK e, O : Blocks(k, o, h.s, io, oo, ir, h.out, e, O)
      BY <2>1 DEF Message, InBlock
    <3> QED
      BY <1>2, <1>3, <1>5, <3>1, BlocksPlace
  <2>2. CASE ~Xtp(k)
    BY <1>1, <1>3, <1>6, <2>2 DEF Pkt
  <2> QED
    BY <2>1, <2>2
<1>8. StoredTo(k, g.s.rx, g.s.buf)
  <2>1. g.s.rx = IF f.data.pkt = h.s.rx THEN h.s.rx + 1 ELSE h.s.rx
    BY <1>4, <1>7 DEF Rx
  <2>2. g.s.buf = [h.s.buf EXCEPT ![f.data.pkt] = f.data]
    BY <1>4, <1>7
  <2>3. /\ Total(k) \in Nat /\ h.s.rx \in Nat /\ h.s.rx < Total(k) /\ StoredTo(k, h.s.rx, h.s.buf)
        /\ DOMAIN h.s.buf = 0..Total(k) - 1 /\ f.data.pkt \in Int /\ f.data \in DataRec
    BY <1>1, <1>3, <1>5
  <2> QED
    BY <2>1, <2>2, <2>3, StoredStep
<1>9. Stores(k, g.s, Tail(ir), g.out)
  <2>1. None(ir, EoS(k)) /\ None(h.out, EoS(k))
    BY <1>3, <1>5 DEF Message, Stores
  <2>2. None(Tail(ir), EoS(k))
    BY <2>1, Taking
  <2> QED
    BY <1>4, <1>8, <2>1, <2>2 DEF Stores
<1>10. /\ h.s.st \notin {"none", "new", "freed", "done"} /\ Lacks(oo, oo, OpS(k)) /\ Lacks(ir, Tail(ir), OpS(k))
       /\ Begun(k, o, o) /\ (Xtp(k) => h.s.st # "none")
  BY TailSilent DEF Live, Lacks, Begun
<1>11. CASE Type(k) = "bam" /\ Rx(f, h.s) >= Total(k)
  <2>1. g.s.st = "done" /\ Spare(g.s) = 0
    BY <1>3, <1>10, <1>11 DEF DatTakes, Goes, Live
  <2>2. Ages(h.s, g.s) /\ InBlock(k, o, g.s, io, oo, Tail(ir), g.out)
    BY <1>6, <1>10, <1>11, <2>1 DEF Ages, Live, InBlock
  <2>3. Message(k, o, g.s, io, oo, Tail(ir), g.out, gt)
    BY <1>1, <1>4, <1>9, <1>10, <2>1, <2>2, MessageMoves
  <2>4. StoredTo(k, Total(k), g.s.buf)
    <3>1. g.s.rx = Total(k)
      BY <1>3, <1>4, <1>5, <1>8, <1>11 DEF Rx, StoredTo
    <3> QED
      BY <1>8, <3>1
  <2> QED
    BY <2>1, <2>3, <2>4
<1>12. CASE ~(Type(k) = "bam" /\ Rx(f, h.s) >= Total(k))
  <2>1. /\ g.s.st = h.s.st /\ g.recv = h.recv
        /\ IF Type(k) # "bam" /\ Rx(f, h.s) >= h.s.last
           THEN g.s.txt = "now" /\ Spare(g.s) = Spare(h.s) + (IF h.s.txt = "off" THEN 0 ELSE 1)
           ELSE g.s.txt = h.s.txt /\ Spare(g.s) = Spare(h.s)
    BY <1>12 DEF DatTakes
  <2>2. Ages(h.s, g.s) /\ Live(g.s)
    BY <2>1 DEF Ages, Live
  <2>3. CASE Type(k) = "bam"
    <3>1. Spare(g.s) = 0 /\ InBlock(k, o, g.s, io, oo, Tail(ir), g.out)
      BY <1>3, <1>6, <2>1, <2>3 DEF InBlock
    <3> QED
      BY <1>1, <1>4, <1>9, <1>10, <2>1, <2>2, <3>1, MessageMoves
  <2>4. CASE Type(k) # "bam"
    <3>1. Xtp(k)
      BY <1>6, <2>4
    <3>2. PICK e, O : Blocks(k, o, h.s, io, oo, ir, h.out, e, O)
      BY <3>1 DEF Message, InBlock
    <3>3. h.s.txt = "off"
      <4>1. Arrive(k, o, h.s, io, oo, ir, h.out, e, O, f)
        BY <1>2, <3>2, BlocksArrive
      <4> QED
        BY <4>1 DEF Arrive
    <3>4. Spare(g.s) = 0 /\ (g.s.txt # "off" <=> g.s.rx >= h.s.last \/ h.s.txt # "off")
      BY <1>3, <1>4, <2>1, <2>4, <3>3
    <3>5. g.s.rx = IF f.data.pkt = h.s.rx THEN h.s.rx + 1 ELSE h.s.rx
      BY <1>4, <1>7 DEF Rx
    <3>6. /\ g.s.cmd = "DAT" /\ g.s.dpo = h.s.dpo /\ g.s.last = h.s.last /\ h.s.rx \in Nat /\ f.data.pkt \in Int
          /\ f \in DS(k) /\ (Type(k) = "etp" => h.s.cmd \in {"DAT", "DPO"})
      BY <1>1, <1>2, <1>3, <1>4, <1>5
    <3>7. Blocks(k, o, g.s, io, oo, Tail(ir), h.out, e, O)
      BY <3>2, <3>4, <3>5, <3>6, BlocksStore
    <3>8. InBlock(k, o, g.s, io, oo, Tail(ir), g.out)
      BY <1>4, <3>7 DEF InBlock
    <3> QED
      BY <1>1, <1>4, <1>9, <1>10, <2>1, <2>2, <3>4, <3>8, MessageMoves
  <2> QED
    BY <2>3, <2>4
<1> QED
  BY <1>11, <1>12

\* A message that is handed up is complete.
Complete(k, g) == g.recv => StoredTo(k, Total(k), g.s.buf) /\ g.s.st = "done"

\* The responder takes a frame.
LEMMA MessageTakenR ==
  ASSUME mode \in Modes, NEW k \in Msgs, NEW h, h = View("r", k), Ready("r", k, h), Live(h.s),
         NEW o, NEW io, NEW oo, NEW ir \in Seq(FrameRec), ir # <<>>, NEW gt,
         Message(k, o, h.s, io, oo, ir, h.out, gt),
         NEW f, f = Head(ir), f \in Sent("o") \cup Sent("r"), f.type = Type(k),
         f.cmd \in {"CTS", "DPO", "DAT", "EOMA"} => f.data.msg = k, NEW g, g = Handled("r", k, f)
  PROVE  Message(k, o, g.s, io, oo, Tail(ir), g.out, gt) /\ Complete(k, g)
<1> SUFFICES /\ Message(k, o, g.s, io, oo, Tail(ir), g.out, gt)
             /\ g.recv => StoredTo(k, Total(k), g.s.buf) /\ g.s.st = "done"
  BY DEF Complete
<1>1. /\ f \in FrameRec /\ f.cmd \in Cmds /\ (f.cmd = "BAM" => f.type = "bam") /\ (f.cmd = "DPO" => f.type = "etp")
      /\ f.cmd \in {"RTS", "CTS", "EOMA"} => f.type \in {"tp", "etp"}
      /\ f.cmd = "DAT" => f.type # "simple"
  BY SentFrames DEF FrameRec
<1>2. /\ h \in ViewRec /\ h.s.st \notin {"none", "new", "freed", "done"} /\ "r" \in Nodes /\ ~h.recv /\ Spare(h.s) = 0
      /\ h.s \in SessRec /\ h.s.rx \in Nat /\ Total(k) \in Int
  BY Scripts DEF Ready, Live, Nodes, View, Message, ViewRec, SessRec, Stores, StoredTo
<1>3. ASSUME Winds("r", k, h, g), f \notin CS(k)
      PROVE  Message(k, o, g.s, io, oo, Tail(ir), g.out, gt)
  BY <1>3, MessageWindsR
<1>4. ASSUME Stops("r", k, h, g), f \notin CS(k)
      PROVE  Message(k, o, g.s, io, oo, Tail(ir), g.out, gt) /\ ~g.recv
  <2>1. ~g.recv
    BY <1>2, <1>4 DEF Stops
  <2> QED
    BY <1>3, <1>4, <2>1, WindsWhen
<1>5. f.cmd # "CTS" => f \notin CS(k)
  BY DEF CS
<1>6. /\ Begun(k, o, o) /\ Lacks(oo, oo, OpS(k)) /\ Lacks(ir, Tail(ir), OpS(k)) /\ Lacks(ir, Tail(ir), EoS(k))
      /\ Lacks(h.out, h.out, EoS(k))
  BY TailSilent DEF Begun, Lacks
<1>7. ASSUME Marks(h, g), g.s.rx = h.s.rx, g.s.buf = h.s.buf, Type(k) # "simple",
             InBlock(k, o, g.s, io, oo, Tail(ir), h.out)
      PROVE  Message(k, o, g.s, io, oo, Tail(ir), g.out, gt) /\ ~g.recv
  <2>1. g.s.st = h.s.st /\ Spare(g.s) = 0 /\ g.out = h.out /\ ~g.recv
    BY <1>2, <1>7 DEF Marks
  <2>2. Ages(h.s, g.s)
    BY <2>1 DEF Ages, Live
  <2>3. Stores(k, g.s, Tail(ir), h.out)
    BY <1>6, <1>7, <2>2, StoresKeeps DEF Message
  <2> QED
    BY <1>2, <1>6, <1>7, <2>1, <2>2, <2>3, MessageMoves
<1>8. CASE f.cmd \in {"RTS", "BAM"}
  <2>1. g = j1939_xtp_rx_rts(h, "r", k, f)
    BY <1>8 DEF Handled
  <2>2. Stops("r", k, h, g)
    BY <1>1, <1>2, <1>8, <2>1, RtsTaken
  <2> QED
    BY <1>4, <1>5, <1>8, <2>2
<1>9. CASE f.cmd = "CTS"
  <2>1. g = j1939_xtp_rx_cts_one(h, "r", k, f)
    BY <1>9 DEF Handled
  <2>2. f \in CS(k) /\ Type(k) # "simple" /\ Xtp(k)
    BY <1>1, <1>9 DEF CS, Mine, Xtp
  <2>3. PICK e, O : Blocks(k, o, h.s, io, oo, ir, h.out, e, O)
    BY <2>2 DEF Message, InBlock
  <2>4. CtsTakes("r", k, f, h, g)
    <3>1. PICK p : p = [cmd |-> "CTS", rx |-> h.s.rx, dpo |-> h.s.dpo, txt |-> h.s.txt,
                        last |-> Smaller(f.pkt - 1 + f.len, Total(k))]
      OBVIOUS
    <3>2. /\ p.cmd = "CTS" /\ p.rx = h.s.rx /\ p.dpo = h.s.dpo /\ p.txt = h.s.txt
          /\ p.last = Smaller(f.pkt - 1 + f.len, Total(k))
      BY <3>1
    <3>3. h.s.cmd # "CTS" /\ Blocks(k, o, p, io, oo, Tail(ir), h.out, e, O)
      BY <1>2, <2>2, <2>3, <3>2, BlocksOwn
    <3> QED
      BY <1>1, <1>2, <2>1, <3>3, CtsTaken
  <2>5. /\ Marks(h, g) /\ g.s.rx = h.s.rx /\ g.s.buf = h.s.buf /\ g.s.cmd = "CTS" /\ g.s.dpo = h.s.dpo
        /\ g.s.last = Smaller(f.pkt - 1 + f.len, Total(k)) /\ g.s.txt = h.s.txt
    BY <2>4 DEF CtsTakes
  <2>6. Blocks(k, o, g.s, io, oo, Tail(ir), h.out, e, O)
    BY <1>2, <2>2, <2>3, <2>5, BlocksOwn
  <2>7. InBlock(k, o, g.s, io, oo, Tail(ir), h.out)
    BY <2>6 DEF InBlock
  <2> QED
    BY <1>7, <2>2, <2>5, <2>7
<1>10. CASE f.cmd = "DPO"
  <2>1. g = j1939_xtp_rx_dpo_one(h, f)
    BY <1>10 DEF Handled
  <2>2. DpoTakes(f, h, g)
    BY <1>1, <1>2, <2>1, DpoTaken
  <2>3. f \in DS(k) /\ Type(k) = "etp" /\ Xtp(k)
    BY <1>1, <1>10 DEF DS, Mine, Xtp
  <2>4. PICK e, O : Blocks(k, o, h.s, io, oo, ir, h.out, e, O)
    BY <2>3 DEF Message, InBlock
  <2>5. /\ Marks(h, g) /\ g.s.rx = h.s.rx /\ g.s.buf = h.s.buf /\ g.s.cmd = "DPO" /\ g.s.dpo = f.pkt
        /\ g.s.txt = h.s.txt /\ g.s.last = h.s.last
    BY <2>2 DEF DpoTakes
  <2>6. Blocks(k, o, g.s, io, oo, Tail(ir), h.out, e, O)
    BY <1>10, <2>3, <2>4, <2>5, BlocksBegin
  <2>7. InBlock(k, o, g.s, io, oo, Tail(ir), h.out)
    BY <2>6 DEF InBlock
  <2> QED
    BY <1>7, <2>3, <2>5, <2>7
<1>11. CASE f.cmd = "DAT"
  <2>1. g = j1939_xtp_rx_dat_one(h, "r", k, f)
    BY <1>11 DEF Handled
  <2>2. CASE Stops("r", k, h, g)
    BY <1>4, <1>5, <1>11, <2>2
  <2>3. CASE DatTakes("r", k, f, h, g)
    BY <1>2, <1>11, <2>3, MessageStores
  <2> QED
    BY <1>1, <1>2, <2>1, <2>2, <2>3, DatTaken
<1>12. CASE f.cmd = "EOMA"
  <2>1. g = j1939_xtp_rx_eoma_one(h, "r", k)
    BY <1>12 DEF Handled
  <2>2. Winds("r", k, h, g) /\ ~Live(g.s)
    BY <1>2, <2>1, EomaWinds
  <2>3. g.s.st = "done"
    BY <1>2, <2>2 DEF Winds, Goes, Live
  <2>4. StoredTo(k, Total(k), g.s.buf)
    <3>1. ~None(ir, EoS(k))
      <4>1. f \in EoS(k)
        BY <1>1, <1>12 DEF EoS, Mine
      <4> QED
        BY <4>1, Taking
    <3>2. StoredTo(k, h.s.rx, h.s.buf) /\ h.s.rx = Total(k)
      BY <3>1 DEF Message, Stores
    <3>3. g.s.buf = h.s.buf
      BY <2>2 DEF Winds, Core
    <3> QED
      BY <3>2, <3>3
  <2> QED
    BY <1>3, <1>5, <1>12, <2>2, <2>3, <2>4
<1>13. CASE f.cmd = "ABORT"
  <2>1. g = j1939_xtp_rx_abort_one(h)
    BY <1>13 DEF Handled
  <2> QED
    BY <1>2, <1>4, <1>5, <1>13, <2>1, AbortTaken
<1>14. CASE f.cmd = "SIMPLE"
  <2>1. g = j1939_simple_recv(h)
    BY <1>14 DEF Handled
  <2> QED
    BY <1>2, <1>4, <1>5, <1>14, <2>1, SimpleTaken
<1> QED
  BY <1>1, <1>8, <1>9, <1>10, <1>11, <1>12, <1>13, <1>14 DEF Cmds, FromO, FromR

\* The responder takes up the message.
LEMMA MessageNew ==
  ASSUME mode \in Modes, NEW k \in Msgs, NEW h \in ViewRec, Idle(k, h.s) \/ Working("r", k, h.s),
         NEW o, NEW io, NEW oo, NEW ir \in Seq(FrameRec), ir # <<>>, NEW gt,
         Message(k, o, h.s, io, oo, ir, h.out, gt), ~Xtp(k) => None(ir, EoS(k)) /\ None(h.out, EoS(k)),
         NEW f, f = Head(ir), f \in OpS(k), f.cmd = "BAM" => Type(k) = "bam", f.cmd = "RTS" => Xtp(k), Type(k) # "simple",
         NEW g, g = j1939_xtp_rx_rts_session_new(h, f)
  PROVE  Message(k, o, g.s, io, oo, Tail(ir), g.out, gt)
<1>1. ~None(ir, OpS(k)) /\ None(Tail(ir), OpS(k)) /\ f \in FrameRec /\ f.cmd \in {"RTS", "BAM"}
  <2>1. Behind(ir, OpS(k), OpS(k)) /\ f \in FrameRec /\ f.cmd \in {"RTS", "BAM"}
    BY DEF Message, Opened, OpS, Mine
  <2> QED
    BY <2>1, Taking
<1>2. h.s.st = "none" /\ None(oo, OpS(k)) /\ ~Unbegun(k, o) /\ Behind(oo, OpS(k), OpS(k)) /\ Behind(Tail(ir), OpS(k), OpS(k))
  <2>1. Behind(Tail(ir), OpS(k), OpS(k))
    BY <1>1 DEF Behind, None
  <2> QED
    BY <1>1, <2>1 DEF Message, Opened
<1>3. h.s.txt = "off" /\ h.s.rx = 0 /\ Spare(h.s) = 0
  <2>1. Idle(k, h.s)
    BY <1>2 DEF Working
  <2> QED
    BY <2>1, IdleIs
<1>4. /\ g \in ViewRec /\ g.s.st = "active" /\ g.s.cmd = f.cmd /\ g.s.rx = 0 /\ g.out = h.out /\ g.recv = h.recv
      /\ Spare(g.s) = 0
  BY <1>1, <1>3, NewIs
<1>5. Opened(k, o, g.s, oo, Tail(ir))
  BY <1>1, <1>2 DEF Opened
<1>6. Fresh(k, o, g.s, io, oo, Tail(ir), g.out)
  BY <1>4 DEF Fresh
<1>7. Stores(k, g.s, Tail(ir), g.out)
  <2>1. None(ir, EoS(k)) /\ None(h.out, EoS(k))
    BY <1>2 DEF Message, Fresh
  <2>2. None(Tail(ir), EoS(k))
    BY <2>1, Taking
  <2>3. StoredTo(k, g.s.rx, g.s.buf)
    <3>1. Total(k) \in Nat
      BY Scripts
    <3> QED
      BY <1>4, <3>1 DEF StoredTo
  <2> QED
    BY <1>4, <2>1, <2>2, <2>3 DEF Stores
<1>8. Handed(k, o, g.s, oo, Tail(ir), gt)
  BY <1>2 DEF Message, Handed
<1>9. InBlock(k, o, g.s, io, oo, Tail(ir), g.out)
  <2> SUFFICES ASSUME Xtp(k)
               PROVE  \E e, O : Blocks(k, o, g.s, io, oo, Tail(ir), h.out, e, O)
    BY <1>4 DEF InBlock
  <2>1. /\ o.cmd \in {"none", "RTS"} /\ o.txcmd \in {"none", "RTS"}
        /\ None(io, DS(k)) /\ None(oo, DS(k)) /\ None(ir, DS(k))
        /\ None(io, CS(k)) /\ None(h.out, CS(k)) /\ None(ir, CS(k))
    BY <1>2 DEF Message, Fresh
  <2>2. None(Tail(ir), DS(k)) /\ None(Tail(ir), CS(k))
    BY <2>1, Taking
  <2>3. ~Sending(o) /\ o.txcmd # "DPO" /\ g.s.cmd = "RTS"
    BY <1>1, <1>4, <2>1 DEF Sending, Moving, Xtp
  <2>4. Blocks(k, o, g.s, io, oo, Tail(ir), h.out, 0, 0)
    BY <1>4, <2>1, <2>2, <2>3, BlocksNew
  <2> QED
    BY <2>4
<1> QED
  BY <1>4, <1>5, <1>6, <1>7, <1>8, <1>9 DEF Message

-----------------------------------------------------------------------------
(* Every step keeps what is so of each message. *)

\* Message k, as it is.
Msg(k) == Message(k, se["o"][k], se["r"][k], in["o"], out["o"], in["r"], out["r"], got)

\* What has been handed up is whole.
Whole(x) == x.msg \in Msgs /\ \A j \in DOMAIN x.buf : x.buf[j] = [msg |-> x.msg, pkt |-> j]

GotRec == [msg : Nat, buf : Buffers]

MsgInv == (\A k \in Msgs : Msg(k)) /\ \A i \in 1..Len(got) : Whole(got[i])

MessageInv == BaseInv /\ MsgInv

\* Messages have their frames to themselves.
LEMMA FramesApart ==
  ASSUME NEW k, NEW j, k # j
  PROVE  /\ \A n : OwnFrames(n, k) \cap Told(j) = {}
         /\ \A f : f.data.msg = k \/ f.cmd \in {"RTS", "BAM", "ABORT", "SIMPLE"} => f \notin CS(j)
<1>1. \A f \in Told(j) : f.data.msg = j
  BY DEF Told, DS, CS, OpS, EoS, SiS, Mine
<1>2. \A n : \A f \in OwnFrames(n, k) : f.data.msg = k
  BY DEF OwnFrames
<1>3. \A f \in CS(j) : f.cmd = "CTS" /\ f.data.msg = j
  BY DEF CS, Mine
<1> QED
  BY <1>1, <1>2, <1>3

\* The session of a node, and the frames it is to send, once a handler has made s
\* of the session of message k, and its frames q.
After(n, k, s, m, j) == IF m = n /\ j = k THEN s ELSE se[m][j]
Given(n, q, m) == IF m = n THEN q ELSE out[m]

\* The sessions that a handler leaves, or frees or starts in the end.
LEMMA SessionsQuiet ==
  ASSUME BaseInv, NEW n \in Nodes, NEW k \in Msgs, NEW s, Sessions(n, k, s), NEW j \in Msgs
  PROVE  /\ OQuiet(j, After(n, k, s, "o", j), se'["o"][j])
         /\ Spare(After(n, k, s, "r", j)) = 0 => RQuiet(After(n, k, s, "r", j), se'["r"][j])
<1>1. "o" \in Nodes /\ "r" \in Nodes
  BY DEF Nodes
<1>2. \A m \in Nodes : \/ se'[m][j] = After(n, k, s, m, j)
                       \/ m = n /\ j = k /\ Freed(k, s, se'[m][j])
                       \/ m = "o" /\ Started(se["o"][j], se'["o"][j]) /\ After(n, k, s, "o", j) = se["o"][j]
  BY DEF Sessions, After
<1>3. OQuiet(j, After(n, k, s, "o", j), se'["o"][j])
  <2>1. CASE se'["o"][j] = After(n, k, s, "o", j)
    BY <2>1, QuietSame
  <2>2. CASE "o" = n /\ j = k /\ Freed(k, s, se'["o"][j])
    BY <2>2, FreedQuiet DEF After
  <2>3. CASE Started(se["o"][j], se'["o"][j]) /\ After(n, k, s, "o", j) = se["o"][j]
    <3>1. PICK a : a = se["o"][j]
      OBVIOUS
    <3>2. a \in SessRec /\ a.st = "new" /\ (Idle(j, a) \/ Working("o", j, a)) /\ mode \in Modes
      BY <1>1, <2>3, <3>1 DEF Started, BaseInv, TypeInv, SessInv
    <3>3. Idle(j, a)
      BY <3>2 DEF Working
    <3>4. PICK w \in {"now", "later"} : se'["o"][j] = Activated(a, w)
      BY <2>3, <3>1 DEF Started
    <3>5. PICK t : t = Activated(a, w)
      OBVIOUS
    <3>6. Same(a, t)
      BY <3>2, <3>3, <3>5, ActivatedIs
    <3>7. OQuiet(j, a, t)
      BY <3>2, <3>3, <3>6, StartedQuiet
    <3> QED
      BY <2>3, <3>1, <3>4, <3>5, <3>7
  <2> QED
    BY <1>1, <1>2, <2>1, <2>2, <2>3
<1>4. ASSUME Spare(After(n, k, s, "r", j)) = 0
      PROVE  RQuiet(After(n, k, s, "r", j), se'["r"][j])
  <2>1. CASE se'["r"][j] = After(n, k, s, "r", j)
    BY <1>4, <2>1, QuietSame
  <2>2. CASE "r" = n /\ j = k /\ Freed(k, s, se'["r"][j])
    BY <2>2, FreedQuiet DEF After
  <2> QED
    BY <1>1, <1>2, <2>1, <2>2
<1> QED
  BY <1>3, <1>4

LEMMA LosesNothing ==
  ASSUME NEW k, NEW r, NEW q \in Seq(FrameRec)
  PROVE  Silent(k, q, q) /\ Loses(k, r, q, q)
  BY TailSilent DEF Loses

\* From what a handler makes of a message to what is so of it after the step.
LEMMA MessageSettles ==
  ASSUME BaseInv, NEW n \in Nodes, NEW k \in Msgs, NEW s, Sessions(n, k, s), NEW j \in Msgs,
         NEW io \in Seq(FrameRec), NEW oo \in Seq(FrameRec), NEW ir \in Seq(FrameRec), NEW orr \in Seq(FrameRec), NEW gt,
         Message(j, After(n, k, s, "o", j), After(n, k, s, "r", j), io, oo, ir, orr, gt)
  PROVE  Message(j, se'["o"][j], se'["r"][j], io, oo, ir, orr, gt)
<1>1. PICK o, r : o = After(n, k, s, "o", j) /\ r = After(n, k, s, "r", j)
  OBVIOUS
<1>2. PICK o2, r2 : o2 = se'["o"][j] /\ r2 = se'["r"][j]
  OBVIOUS
<1>3. Message(j, o, r, io, oo, ir, orr, gt) /\ Spare(r) = 0
  BY <1>1 DEF Message
<1>4. OQuiet(j, o, o2) /\ RQuiet(r, r2)
  BY <1>1, <1>2, <1>3, SessionsQuiet
<1>5. /\ Silent(j, io, io) /\ Silent(j, oo, oo) /\ Silent(j, orr, orr) /\ Loses(j, r2, ir, ir)
  BY LosesNothing
<1>6. Message(j, o2, r2, io, oo, ir, orr, gt)
  BY <1>3, <1>4, <1>5, MessageQuiet
<1> QED
  BY <1>2, <1>6

\* The same, in the next state.
LEMMA MessagePrimed ==
  ASSUME mode' = mode, NEW k \in Msgs,
         Message(k, se'["o"][k], se'["r"][k], in'["o"], out'["o"], in'["r"], out'["r"], got')
  PROVE  Msg(k)'
<1>1. Type(k)' = Type(k) /\ Total(k)' = Total(k)
  BY SameMode
<1>2. /\ DS(k)' = DS(k) /\ CS(k)' = CS(k) /\ OpS(k)' = OpS(k) /\ EoS(k)' = EoS(k) /\ SiS(k)' = SiS(k)
      /\ \A rx, e : BadC(k, rx, e)' = BadC(k, rx, e)
      /\ \A e, O : BadD(k, e, O)' = BadD(k, e, O)
      /\ \A O : BadDpo(k, O)' = BadDpo(k, O)
      /\ \A e : LastD(k, e)' = LastD(k, e)
      /\ Opening(k)' = Opening(k) /\ (Xtp(k)' <=> Xtp(k))
  BY <1>1 DEF DS, CS, OpS, EoS, SiS, BadC, BadD, BadDpo, LastD, Mine, Opening, Xtp
<1>3. Opened(k, se["o"][k], se["r"][k], out["o"], in["r"])'
  BY <1>1, <1>2 DEF Message, Opened, Unbegun
<1>4. Fresh(k, se["o"][k], se["r"][k], in["o"], out["o"], in["r"], out["r"])'
  BY <1>1, <1>2 DEF Message, Fresh
<1>5. Stores(k, se["r"][k], in["r"], out["r"])'
  BY <1>1, <1>2 DEF Message, Stores, StoredTo
<1>6. Handed(k, se["o"][k], se["r"][k], out["o"], in["r"], got)'
  BY <1>1, <1>2 DEF Message, Handed
<1>7. InBlock(k, se["o"][k], se["r"][k], in["o"], out["o"], in["r"], out["r"])'
  BY <1>1, <1>2 DEF Message, InBlock, Blocks, Block1, Block2, Flows
<1>8. (Spare(se["r"][k]) = 0)'
  BY DEF Message
<1> QED
  BY <1>3, <1>4, <1>5, <1>6, <1>7, <1>8 DEF Msg, Message

\* A frame is taken that asks for nothing, or is one of message k, or none is.
Own(f, k) == f.data.msg = k \/ f.cmd \in {"RTS", "BAM", "ABORT", "SIMPLE"}
OwnTaken(k) ==
  \A m \in Nodes : in'[m] = in[m] \/ (in[m] # <<>> /\ in'[m] = Tail(in[m]) /\ Own(Head(in[m]), k))

\* A handler's effect on the queues and on what is handed up.
LEMMA FinishIs ==
  ASSUME BaseInv, NEW n \in Nodes, NEW k \in Msgs, NEW h \in ViewRec, Finish(n, k, h)
  PROVE  /\ out'[n] = h.out /\ \A m \in Nodes : m # n => out'[m] = out[m]
         /\ \A m \in Nodes : out'[m] \in Seq(FrameRec)
         /\ \/ got' = got
            \/ h.recv /\ [msg |-> k, buf |-> h.s.buf] \in GotRec
               /\ got' = Append(got, [msg |-> k, buf |-> h.s.buf])
         /\ got \in Seq(GotRec)
<1>1. /\ out' = [out EXCEPT ![n] = h.out]
      /\ got' = IF h.recv /\ listen THEN Append(got, [msg |-> k, buf |-> h.s.buf]) ELSE got
  BY DEF Finish
<1>2. out \in [Nodes -> Seq(FrameRec)] /\ h.out \in Seq(FrameRec) /\ got \in Seq(GotRec) /\ h.s \in SessRec
  BY DEF BaseInv, TypeInv, ViewRec, GotRec
<1>3. k \in Nat /\ h.s.buf \in Buffers
  BY <1>2, Scripts DEF BaseInv, TypeInv, SessRec
<1>4. [msg |-> k, buf |-> h.s.buf] \in GotRec
  BY <1>3 DEF GotRec
<1> QED
  BY <1>1, <1>2, <1>4

LEMMA MessageOthers ==
  ASSUME MessageInv, NEW n \in Nodes, NEW k \in Msgs, NEW h, Acts(n, k, View(n, k), h),
         Finish(n, k, h), Sessions(n, k, h.s), in' \in [Nodes -> Seq(FrameRec)], OwnTaken(k), NEW j \in Msgs, j # k
  PROVE  Message(j, se'["o"][j], se'["r"][j], in'["o"], out'["o"], in'["r"], out'["r"], got')
<1>1. BaseInv /\ Msg(j) /\ "o" \in Nodes /\ "r" \in Nodes
  BY DEF MessageInv, MsgInv, Nodes
<1>2. h \in ViewRec /\ Adds(out[n], h.out, OwnFrames(n, k))
  BY DEF Acts, View
<1>3. /\ out'[n] = h.out /\ \A m \in Nodes : m # n => out'[m] = out[m]
      /\ \A m \in Nodes : out'[m] \in Seq(FrameRec)
      /\ \/ got' = got
         \/ [msg |-> k, buf |-> h.s.buf] \in GotRec /\ got' = Append(got, [msg |-> k, buf |-> h.s.buf])
      /\ got \in Seq(GotRec)
  BY <1>1, <1>2, FinishIs
<1>4. out \in [Nodes -> Seq(FrameRec)] /\ in \in [Nodes -> Seq(FrameRec)]
  BY <1>1 DEF BaseInv, TypeInv
<1>5. ASSUME NEW m \in Nodes
      PROVE  Silent(j, out[m], out'[m])
  <2>1. OwnFrames(n, k) \cap Told(j) = {} /\ OwnFrames(n, k) \subseteq FrameRec
    BY FramesApart, OwnIsFrame
  <2>2. Silent(j, out[n], h.out)
    BY <1>2, <1>4, <2>1, AddsSilent
  <2>3. CASE m = n
    BY <1>3, <2>2, <2>3
  <2>4. CASE m # n
    BY <1>3, <1>4, <2>4, LosesNothing
  <2> QED
    BY <2>3, <2>4
<1>6. ASSUME NEW m \in Nodes
      PROVE  Silent(j, in[m], in'[m]) /\ (None(in'[m], CS(j)) => None(in[m], CS(j)))
  <2>1. CASE in'[m] = in[m]
    BY <1>4, <2>1, LosesNothing
  <2>2. CASE in[m] # <<>> /\ in'[m] = Tail(in[m]) /\ Own(Head(in[m]), k)
    <3>1. Head(in[m]) \notin CS(j)
      BY <2>2, FramesApart DEF Own
    <3> QED
      BY <1>4, <2>2, <3>1, TailOfOther
  <2> QED
    BY <2>1, <2>2 DEF OwnTaken
<1>7. PICK o, r, io, oo, ir, orr, io2, oo2, ir2, orr2 :
        /\ o = se["o"][j] /\ r = se["r"][j] /\ io = in["o"] /\ oo = out["o"] /\ ir = in["r"] /\ orr = out["r"]
        /\ io2 = in'["o"] /\ oo2 = out'["o"] /\ ir2 = in'["r"] /\ orr2 = out'["r"]
  OBVIOUS
<1>8. Message(j, o, r, io, oo, ir, orr, got) /\ Spare(r) = 0
  BY <1>1, <1>7 DEF Msg, Message
<1>9. OQuiet(j, o, o) /\ RQuiet(r, r)
  BY <1>8, QuietSame
<1>10. Silent(j, io, io2) /\ Silent(j, oo, oo2) /\ Silent(j, orr, orr2) /\ Loses(j, r, ir, ir2)
  BY <1>1, <1>5, <1>6, <1>7 DEF Loses
<1>11. Message(j, o, r, io2, oo2, ir2, orr2, got)
  BY <1>8, <1>9, <1>10, MessageQuiet
<1>12. o = After(n, k, h.s, "o", j) /\ r = After(n, k, h.s, "r", j)
  BY <1>7 DEF After
<1>13. io2 \in Seq(FrameRec) /\ oo2 \in Seq(FrameRec) /\ ir2 \in Seq(FrameRec) /\ orr2 \in Seq(FrameRec)
  BY <1>1, <1>3, <1>7
<1>14. PICK o3, r3 : o3 = se'["o"][j] /\ r3 = se'["r"][j]
  OBVIOUS
<1>15. Message(j, o3, r3, io2, oo2, ir2, orr2, got)
  BY <1>1, <1>11, <1>12, <1>13, <1>14, MessageSettles
<1>16. Message(j, o3, r3, io2, oo2, ir2, orr2, got')
  <2>1. CASE got' = got
    BY <1>15, <2>1
  <2>2. CASE [msg |-> k, buf |-> h.s.buf] \in GotRec /\ got' = Append(got, [msg |-> k, buf |-> h.s.buf])
    <3>1. PICK x : x = [msg |-> k, buf |-> h.s.buf]
      OBVIOUS
    <3>2. x \in GotRec /\ x.msg # j /\ got' = Append(got, x)
      BY <2>2, <3>1
    <3> QED
      BY <1>3, <1>15, <3>2, MessageOther
  <2> QED
    BY <1>3, <2>1, <2>2
<1> QED
  BY <1>7, <1>14, <1>16

\* The message itself, from what the handler makes of it.
LEMMA MessageOwn ==
  ASSUME BaseInv, NEW n \in Nodes, NEW k \in Msgs, NEW h, Acts(n, k, View(n, k), h), Finish(n, k, h), Sessions(n, k, h.s),
         in' \in [Nodes -> Seq(FrameRec)], h.recv => n = "r" /\ h.s.st = "done" /\ ~Has(got, k),
         Message(k, After(n, k, h.s, "o", k), After(n, k, h.s, "r", k),
                 in'["o"], Given(n, h.out, "o"), in'["r"], Given(n, h.out, "r"), got)
  PROVE  Message(k, se'["o"][k], se'["r"][k], in'["o"], out'["o"], in'["r"], out'["r"], got')
<1>1. "o" \in Nodes /\ "r" \in Nodes /\ h \in ViewRec /\ Working(n, k, h.s)
  BY DEF Nodes, Acts
<1>2. /\ out'[n] = h.out /\ \A m \in Nodes : m # n => out'[m] = out[m]
      /\ \A m \in Nodes : out'[m] \in Seq(FrameRec)
      /\ \/ got' = got
         \/ h.recv /\ [msg |-> k, buf |-> h.s.buf] \in GotRec
            /\ got' = Append(got, [msg |-> k, buf |-> h.s.buf])
      /\ got \in Seq(GotRec)
  BY <1>1, FinishIs
<1>3. PICK io, oo, ir, orr : io = in'["o"] /\ oo = out'["o"] /\ ir = in'["r"] /\ orr = out'["r"]
  OBVIOUS
<1>4. PICK o, r, o2, r2 : /\ o = After(n, k, h.s, "o", k) /\ r = After(n, k, h.s, "r", k)
                          /\ o2 = se'["o"][k] /\ r2 = se'["r"][k]
  OBVIOUS
<1>5. /\ io \in Seq(FrameRec) /\ oo \in Seq(FrameRec) /\ ir \in Seq(FrameRec) /\ orr \in Seq(FrameRec)
      /\ oo = Given(n, h.out, "o") /\ orr = Given(n, h.out, "r")
  BY <1>1, <1>2, <1>3 DEF Given
<1>6. Message(k, o, r, io, oo, ir, orr, got)
  BY <1>3, <1>4, <1>5
<1>7. Message(k, o2, r2, io, oo, ir, orr, got)
  BY <1>4, <1>5, <1>6, MessageSettles
<1>8. Message(k, o2, r2, io, oo, ir, orr, got')
  <2>1. CASE got' = got
    BY <1>7, <2>1
  <2>2. CASE h.recv /\ [msg |-> k, buf |-> h.s.buf] \in GotRec
             /\ got' = Append(got, [msg |-> k, buf |-> h.s.buf])
    <3>1. PICK x : x = [msg |-> k, buf |-> h.s.buf]
      OBVIOUS
    <3>2. x \in GotRec /\ got' = Append(got, x) /\ n = "r" /\ h.s.st = "done" /\ ~Has(got, k)
      BY <2>2, <3>1
    <3>3. r = h.s /\ Type(k) # "simple"
      BY <1>1, <1>4, <3>2 DEF After, Working
    <3>4. RQuiet(r, r2)
      BY <1>4, <1>6, SessionsQuiet DEF Message
    <3>5. r2.st \in {"done", "freed"}
      BY <3>2, <3>3, <3>4 DEF RQuiet, Ages
    <3> QED
      BY <1>2, <1>7, <3>2, <3>3, <3>5, MessageHanded
  <2> QED
    BY <1>2, <2>1, <2>2
<1> QED
  BY <1>3, <1>4, <1>8

LEMMA MsgInvPrimed ==
  ASSUME mode' = mode,
         \A k \in Msgs : Message(k, se'["o"][k], se'["r"][k], in'["o"], out'["o"], in'["r"], out'["r"], got'),
         \A i \in 1..Len(got') : Whole(got'[i])
  PROVE  MsgInv'
<1>1. Msgs' = Msgs
  BY SameMode
<1>2. ASSUME NEW k \in Msgs'
      PROVE  Msg(k)'
  BY <1>1, MessagePrimed
<1>3. (\A i \in 1..Len(got) : Whole(got[i]))'
  BY <1>1 DEF Whole
<1> QED
  BY <1>2, <1>3 DEF MsgInv

\* What is handed up is whole.
LEMMA WholeMore ==
  ASSUME NEW R, NEW gt \in Seq(R), \A i \in 1..Len(gt) : Whole(gt[i]), NEW x \in R, Whole(x),
         NEW i \in 1..Len(Append(gt, x))
  PROVE  Whole(Append(gt, x)[i])
<1>1. CASE i = Len(gt) + 1
  BY <1>1
<1>2. CASE i \in 1..Len(gt)
  BY <1>2
<1> QED
  BY <1>1, <1>2

\* The handler of a session, with what it makes of its message.
LEMMA HandlerKeeps ==
  ASSUME MessageInv, NEW n \in Nodes, NEW k \in Msgs, NEW h, Acts(n, k, View(n, k), h),
         n = "o" => se["o"][k].st \notin {"none", "new", "freed"},
         Finish(n, k, h), Quiet, in' \in [Nodes -> Seq(FrameRec)], OwnTaken(k),
         h.recv => /\ n = "r" /\ h.s.st = "done" /\ StoredTo(k, Total(k), h.s.buf)
                   /\ Live(se["r"][k]),
         Message(k, After(n, k, h.s, "o", k), After(n, k, h.s, "r", k),
                 in'["o"], Given(n, h.out, "o"), in'["r"], Given(n, h.out, "r"), got)
  PROVE  MessageInv'
<1>1. BaseInv /\ Msg(k) /\ mode' = mode /\ InTaken
  BY DEF MessageInv, MsgInv, Quiet, OwnTaken, InTaken
<1>2. BaseInv' /\ Sessions(n, k, h.s)
  BY <1>1, StepKeepsBase DEF Quiet
<1>3. h \in ViewRec /\ Working(n, k, h.s)
  BY DEF Acts
<1>4. h.recv => Type(k) # "simple" /\ ~Has(got, k)
  <2>1. ASSUME h.recv
        PROVE  Type(k) # "simple"
    BY <1>3, <2>1 DEF Working
  <2>2. ASSUME h.recv
        PROVE  ~Has(got, k)
    BY <1>1, <2>1, <2>2 DEF Msg, Message, Handed, Live
  <2> QED
    BY <2>1, <2>2
<1>5. ASSUME NEW j \in Msgs
      PROVE  Message(j, se'["o"][j], se'["r"][j], in'["o"], out'["o"], in'["r"], out'["r"], got')
  <2>1. CASE j = k
    BY <1>1, <1>2, <1>4, <2>1, MessageOwn
  <2>2. CASE j # k
    BY <1>2, <2>2, MessageOthers
  <2> QED
    BY <2>1, <2>2
<1>6. \A i \in 1..Len(got') : Whole(got'[i])
  <2>1. /\ \/ got' = got
           \/ h.recv /\ [msg |-> k, buf |-> h.s.buf] \in GotRec
              /\ got' = Append(got, [msg |-> k, buf |-> h.s.buf])
        /\ got \in Seq(GotRec)
    BY <1>1, <1>3, FinishIs
  <2>2. \A i \in 1..Len(got) : Whole(got[i])
    BY DEF MessageInv, MsgInv
  <2>3. CASE got' = got
    BY <2>2, <2>3
  <2>4. CASE h.recv /\ [msg |-> k, buf |-> h.s.buf] \in GotRec
             /\ got' = Append(got, [msg |-> k, buf |-> h.s.buf])
    <3>1. PICK b : b = h.s.buf
      OBVIOUS
    <3>2. PICK x : x = [msg |-> k, buf |-> b]
      OBVIOUS
    <3>3. x \in GotRec /\ got' = Append(got, x)
      BY <2>4, <3>1, <3>2
    <3>4. \A j \in DOMAIN b : b[j] = [msg |-> k, pkt |-> j]
      BY <1>3, <2>4, <3>1 DEF Working, StoredTo
    <3>5. Whole(x)
      BY <3>2, <3>4 DEF Whole
    <3> QED
      BY <2>1, <2>2, <3>3, <3>5, WholeMore
  <2> QED
    BY <2>1, <2>3, <2>4
<1>7. MsgInv'
  BY <1>1, <1>5, <1>6, MsgInvPrimed
<1> QED
  BY <1>2, <1>7 DEF MessageInv

\* The timers.
LEMMA TimesKeeps ==
  ASSUME MessageInv, NEW n \in Nodes, NEW k \in Msgs, j1939_tp_txtimer(n, k)
  PROVE  MessageInv'
<1>1. BaseInv /\ Msg(k)
  BY DEF MessageInv, MsgInv
<1>2. PICK g : /\ Txtimer(n, k, View(n, k), g) /\ Acts(n, k, View(n, k), g) /\ Finish(n, k, g)
               /\ Quiet /\ in' = in /\ se[n][k].st \notin {"none", "new", "freed"}
  BY <1>1, TxtimerStep
<1>3. PICK h : h = View(n, k)
  OBVIOUS
<1>4. se[n][k].txt # "off"
  BY DEF j1939_tp_txtimer
<1>5. /\ h.s = se[n][k] /\ h.out = out[n] /\ ~h.recv /\ Ready(n, k, h) /\ h.s.txt # "off"
  BY <1>1, <1>3, <1>4, ViewIs, ReadyWhen
<1>6. mode \in Modes /\ in' \in [Nodes -> Seq(FrameRec)] /\ OwnTaken(k)
  BY <1>1, <1>2 DEF BaseInv, TypeInv, OwnTaken
<1>7. ~g.recv
  BY <1>2, <1>3, <1>5 DEF Txtimer, TxView, Beside, Settles, SimpleSent, Transmits, RtsSent, DpoSent, DatsSent, Receives
<1>8. Message(k, After(n, k, g.s, "o", k), After(n, k, g.s, "r", k),
              in'["o"], Given(n, g.out, "o"), in'["r"], Given(n, g.out, "r"), got)
  <2>1. PICK o, r, io, oo, ir, orr : /\ o = se["o"][k] /\ r = se["r"][k] /\ io = in["o"] /\ oo = out["o"]
                                     /\ ir = in["r"] /\ orr = out["r"]
    OBVIOUS
  <2>2. Message(k, o, r, io, oo, ir, orr, got)
    BY <1>1, <2>1 DEF Msg
  <2>3. CASE n = "o"
    <3>1. Message(k, g.s, r, io, g.out, ir, orr, got)
      BY <1>2, <1>3, <1>5, <1>6, <2>1, <2>2, <2>3, MessageTimesO
    <3> QED
      BY <1>2, <2>1, <2>3, <3>1 DEF After, Given
  <2>4. CASE n = "r"
    <3>1. Message(k, o, g.s, io, oo, ir, g.out, got)
      BY <1>2, <1>3, <1>5, <1>6, <2>1, <2>2, <2>4, MessageTimesR
    <3> QED
      BY <1>2, <2>1, <2>4, <3>1 DEF After, Given
  <2> QED
    BY <2>3, <2>4 DEF Nodes
<1> QED
  BY <1>2, <1>6, <1>7, <1>8, HandlerKeeps

LEMMA ExpiresKeeps ==
  ASSUME MessageInv, NEW n \in Nodes, NEW k \in Msgs, j1939_tp_rxtimer(n, k)
  PROVE  MessageInv'
<1>1. BaseInv /\ Msg(k)
  BY DEF MessageInv, MsgInv
<1>2. PICK g : /\ Winds(n, k, View(n, k), g) /\ Acts(n, k, View(n, k), g) /\ Finish(n, k, g)
               /\ Quiet /\ in' = in /\ se[n][k].st \notin {"none", "new", "freed"} /\ g.recv = FALSE
  BY <1>1, RxtimerStep
<1>3. PICK h : h = View(n, k)
  OBVIOUS
<1>4. se[n][k].rxt
  BY DEF j1939_tp_rxtimer
<1>5. /\ h.s = se[n][k] /\ h.out = out[n] /\ Ready(n, k, h)
  BY <1>1, <1>3, <1>4, ViewIs, ReadyWhen
<1>6. mode \in Modes /\ in \in [Nodes -> Seq(FrameRec)] /\ in' \in [Nodes -> Seq(FrameRec)] /\ OwnTaken(k)
  BY <1>1, <1>2 DEF BaseInv, TypeInv, OwnTaken
<1>7. Message(k, After(n, k, g.s, "o", k), After(n, k, g.s, "r", k),
              in'["o"], Given(n, g.out, "o"), in'["r"], Given(n, g.out, "r"), got)
  <2>1. PICK o, r, io, oo, ir, orr : /\ o = se["o"][k] /\ r = se["r"][k] /\ io = in["o"] /\ oo = out["o"]
                                     /\ ir = in["r"] /\ orr = out["r"]
    OBVIOUS
  <2>2. Message(k, o, r, io, oo, ir, orr, got) /\ io \in Seq(FrameRec) /\ ir \in Seq(FrameRec)
    BY <1>1, <1>6, <2>1 DEF Msg, Nodes
  <2>3. CASE n = "o"
    <3>1. Message(k, g.s, r, io, g.out, ir, orr, got)
      BY <1>2, <1>3, <1>5, <1>6, <2>1, <2>2, <2>3, MessageWindsO
    <3> QED
      BY <1>2, <2>1, <2>3, <3>1 DEF After, Given
  <2>4. CASE n = "r"
    <3>1. Message(k, o, g.s, io, oo, ir, g.out, got)
      BY <1>2, <1>3, <1>5, <1>6, <2>1, <2>2, <2>4, MessageWindsR
    <3> QED
      BY <1>2, <2>1, <2>4, <3>1 DEF After, Given
  <2> QED
    BY <2>3, <2>4 DEF Nodes
<1> QED
  BY <1>2, <1>6, <1>7, HandlerKeeps

\* The originator hands up nothing.
LEMMA NothingUp ==
  ASSUME mode \in Modes, NEW k \in Msgs, NEW h, h = View("o", k), h \in ViewRec, ~h.recv,
         NEW f \in FrameRec, NEW g, g = Handled("o", k, f)
  PROVE  ~g.recv
<1>1. "o" \in Nodes /\ f.cmd \in Cmds /\ ("o" = "r") = FALSE
  BY DEF Nodes, FrameRec
<1>2. CASE f.cmd \in {"RTS", "BAM"}
  <2>1. g = j1939_xtp_rx_rts(h, "o", k, f)
    BY <1>2 DEF Handled
  <2> QED
    BY <1>1, <1>2, <2>1, RtsTaken DEF Stops, Marks
<1>3. CASE f.cmd = "CTS"
  <2>1. g = j1939_xtp_rx_cts_one(h, "o", k, f)
    BY <1>3 DEF Handled
  <2> QED
    BY <1>1, <2>1, CtsTaken DEF Stops, Marks, CtsTakes
<1>4. CASE f.cmd = "DPO"
  <2>1. g = j1939_xtp_rx_dpo_one(h, f)
    BY <1>4 DEF Handled
  <2> QED
    BY <2>1, DpoTaken DEF Marks, DpoTakes
<1>5. CASE f.cmd = "DAT"
  <2>1. g = j1939_xtp_rx_dat_one(h, "o", k, f)
    BY <1>5 DEF Handled
  <2>2. Stops("o", k, h, g) \/ DatTakes("o", k, f, h, g)
    BY <1>1, <2>1, DatTaken
  <2>3. ASSUME DatTakes("o", k, f, h, g)
        PROVE  g.recv = ("o" = "r") \/ g.recv = h.recv
    <3>1. PICK b : b = g.s.buf
      OBVIOUS
    <3> QED
      BY <2>3, Zenon DEF DatTakes
  <2> QED
    BY <1>1, <2>2, <2>3 DEF Stops
<1>6. CASE f.cmd = "EOMA"
  <2>1. g = j1939_xtp_rx_eoma_one(h, "o", k)
    BY <1>6 DEF Handled
  <2> QED
    BY <1>1, <2>1, EomaTaken
<1>7. CASE f.cmd = "ABORT"
  <2>1. g = j1939_xtp_rx_abort_one(h)
    BY <1>7 DEF Handled
  <2> QED
    BY <2>1, AbortTaken DEF Stops
<1>8. CASE f.cmd = "SIMPLE"
  <2>1. g = j1939_simple_recv(h)
    BY <1>8 DEF Handled
  <2> QED
    BY <2>1, SimpleTaken DEF Stops
<1> QED
  BY <1>1, <1>2, <1>3, <1>4, <1>5, <1>6, <1>7, <1>8 DEF Cmds, FromO, FromR

\* The reception of a frame for a session.
LEMMA RecvKeeps ==
  ASSUME Unmixed, MessageInv, NEW n \in Nodes, j1939_tp_recv(n)
  PROVE  MessageInv'
<1>1. BaseInv /\ Taken(n)
  BY RecvStep DEF MessageInv
<1>2. PICK f : f = Head(in[n])
  OBVIOUS
<1>3. PICK k \in Msgs : \E g :
        /\ k \in SessionOf(n, f) /\ g = Handled(n, k, f)
        /\ Ready(n, k, View(n, k)) /\ Acts(n, k, View(n, k), g) /\ Finish(n, k, g)
        /\ se[n][k].st \notin {"none", "new", "freed"}
  BY <1>1, <1>2, RecvStep
<1>4. PICK g : /\ k \in SessionOf(n, f) /\ g = Handled(n, k, f)
               /\ Ready(n, k, View(n, k)) /\ Acts(n, k, View(n, k), g) /\ Finish(n, k, g)
               /\ se[n][k].st \notin {"none", "new", "freed"}
  BY <1>3
<1>5. /\ Live(se[n][k]) /\ f.type = Type(k) /\ Msg(k)
      /\ f.cmd \in {"CTS", "DPO", "DAT", "EOMA"} => f.data.msg = k
  <2>1. in[n] # <<>>
    BY <1>1 DEF Taken
  <2> QED
    BY <1>2, <1>4, <2>1 DEF SessionOf, MessageInv, MsgInv, Unmixed
<1>6. /\ in[n] # <<>> /\ f \in Sent("o") \cup Sent("r") /\ Quiet
      /\ in' \in [Nodes -> Seq(FrameRec)] /\ in'[n] = Tail(in[n])
      /\ \A m \in Nodes : m # n => in'[m] = in[m]
  BY <1>1, <1>2, TakenIs
<1>7. PICK h : h = View(n, k)
  OBVIOUS
<1>8. /\ h.s = se[n][k] /\ h.out = out[n] /\ ~h.recv /\ Ready(n, k, h) /\ h \in ViewRec
  BY <1>1, <1>4, <1>7, ViewIs
<1>9. mode \in Modes /\ in \in [Nodes -> Seq(FrameRec)] /\ OwnTaken(k) /\ se \in [Nodes -> [Msgs -> SessRec]]
  <2>1. Own(f, k)
    BY <1>5, <1>6, SentFrames DEF Own, FrameRec, Cmds, FromO, FromR
  <2> QED
    BY <1>1, <1>2, <1>6, <2>1 DEF BaseInv, TypeInv, OwnTaken
<1>10. PICK o, r, io, oo, ir, orr : /\ o = se["o"][k] /\ r = se["r"][k] /\ io = in["o"] /\ oo = out["o"]
                                    /\ ir = in["r"] /\ orr = out["r"]
  OBVIOUS
<1>11. Message(k, o, r, io, oo, ir, orr, got) /\ io \in Seq(FrameRec) /\ ir \in Seq(FrameRec) /\ r \in SessRec
  BY <1>5, <1>9, <1>10 DEF Msg, Nodes
<1>12. CASE n = "o"
  <2>1. Message(k, g.s, r, Tail(io), g.out, ir, orr, got)
    <3>1. /\ h = View("o", k) /\ Ready("o", k, h) /\ Live(h.s) /\ io # <<>> /\ f = Head(io)
          /\ Message(k, h.s, r, io, h.out, ir, orr, got) /\ g = Handled("o", k, f)
      BY <1>2, <1>4, <1>5, <1>6, <1>7, <1>8, <1>10, <1>11, <1>12
    <3> QED
      BY <1>5, <1>6, <1>9, <1>11, <3>1, MessageTakenO
  <2>2. ~g.recv
    <3>1. f \in FrameRec
      BY <1>6, SentFrames
    <3> QED
      BY <1>4, <1>7, <1>8, <1>9, <1>12, <3>1, NothingUp
  <2>3. in'["o"] = Tail(io) /\ in'["r"] = ir
    BY <1>6, <1>10, <1>12 DEF Nodes
  <2>4. Message(k, After(n, k, g.s, "o", k), After(n, k, g.s, "r", k),
                in'["o"], Given(n, g.out, "o"), in'["r"], Given(n, g.out, "r"), got)
    BY <1>10, <1>12, <2>1, <2>3 DEF After, Given
  <2> QED
    BY <1>4, <1>6, <1>9, <2>2, <2>4, HandlerKeeps
<1>13. CASE n = "r"
  <2>2. Message(k, o, g.s, io, oo, Tail(ir), g.out, got) /\ Complete(k, g)
    <3>1. /\ h = View("r", k) /\ Ready("r", k, h) /\ Live(h.s) /\ ir # <<>> /\ f = Head(ir)
          /\ Message(k, o, h.s, io, oo, ir, h.out, got) /\ g = Handled("r", k, f)
      BY <1>2, <1>4, <1>5, <1>6, <1>7, <1>8, <1>10, <1>11, <1>13
    <3> QED
      BY <1>5, <1>6, <1>9, <1>11, <3>1, MessageTakenR
  <2>3. in'["o"] = io /\ in'["r"] = Tail(ir)
    BY <1>6, <1>10, <1>13 DEF Nodes
  <2>4. Message(k, After(n, k, g.s, "o", k), After(n, k, g.s, "r", k),
                in'["o"], Given(n, g.out, "o"), in'["r"], Given(n, g.out, "r"), got)
    BY <1>10, <1>13, <2>2, <2>3 DEF After, Given
  <2> QED
    BY <1>4, <1>5, <1>6, <1>9, <1>13, <2>2, <2>4, HandlerKeeps DEF Complete
<1> QED
  BY <1>12, <1>13 DEF Nodes

\* The peer takes up a message.
LEMMA NewKeeps ==
  ASSUME MessageInv, NewSession
  PROVE  MessageInv'
<1>1. BaseInv /\ Taken("r") /\ "r" \in Nodes
  BY NewStep DEF MessageInv, Nodes
<1>2. PICK f : f = Head(in["r"])
  OBVIOUS
<1>3. PICK k \in Msgs : \E g :
         /\ k = f.data.msg /\ f.cmd \in {"RTS", "BAM"}
         /\ g = j1939_xtp_rx_rts_session_new(View("r", k), f)
         /\ Acts("r", k, View("r", k), g) /\ Finish("r", k, g)
  BY <1>1, <1>2, NewStep
<1>4. PICK g : /\ k = f.data.msg /\ f.cmd \in {"RTS", "BAM"}
               /\ g = j1939_xtp_rx_rts_session_new(View("r", k), f)
               /\ Acts("r", k, View("r", k), g) /\ Finish("r", k, g)
  BY <1>3
<1>5. /\ in["r"] # <<>> /\ f \in Sent("o") \cup Sent("r") /\ Quiet
      /\ in' \in [Nodes -> Seq(FrameRec)] /\ in'["r"] = Tail(in["r"])
      /\ \A m \in Nodes : m # "r" => in'[m] = in[m]
  BY <1>1, <1>2, TakenIs
<1>6. f \in FrameRec /\ f.type = Type(k) /\ (f.cmd = "BAM" => Type(k) = "bam") /\ (f.cmd = "RTS" => Xtp(k))
  BY <1>4, <1>5, SentFrames DEF Xtp
<1>7. f \in OpS(k) /\ Type(k) # "simple"
  BY <1>4, <1>6 DEF OpS, Mine, Xtp
<1>8. PICK h : h = View("r", k)
  OBVIOUS
<1>9. h.s = se["r"][k] /\ h.out = out["r"] /\ ~h.recv /\ h \in ViewRec
  BY <1>1, <1>8, ViewIs
<1>10. /\ mode \in Modes /\ in["r"] \in Seq(FrameRec) /\ OwnTaken(k) /\ (Idle(k, h.s) \/ Working("r", k, h.s))
       /\ in["r"] \in Seq(Sent("o") \cup Sent("r")) /\ out["r"] \in Seq(Sent("r"))
  BY <1>1, <1>2, <1>4, <1>5, <1>6, <1>9 DEF BaseInv, TypeInv, SessInv, FrameInv, OwnTaken, Own
<1>11. PICK o, io, oo, ir : o = se["o"][k] /\ io = in["o"] /\ oo = out["o"] /\ ir = in["r"]
  OBVIOUS
<1>12. Message(k, o, h.s, io, oo, ir, h.out, got)
  BY <1>9, <1>11 DEF MessageInv, MsgInv, Msg
<1>13. ~Xtp(k) => None(ir, EoS(k)) /\ None(h.out, EoS(k))
  <2>1. ASSUME ~Xtp(k), NEW x \in Sent("o") \cup Sent("r")
        PROVE  x \notin EoS(k)
    BY <2>1, SentFrames DEF EoS, Mine, Xtp
  <2>2. \A i \in 1..Len(ir) : ir[i] \in Sent("o") \cup Sent("r")
    BY <1>10, <1>11
  <2>3. \A i \in 1..Len(h.out) : h.out[i] \in Sent("o") \cup Sent("r")
    BY <1>9, <1>10
  <2> QED
    BY <2>1, <2>2, <2>3 DEF None
<1>14. Message(k, o, g.s, io, oo, Tail(ir), g.out, got) /\ g.recv = h.recv
  <2>1. /\ ir \in Seq(FrameRec) /\ ir # <<>> /\ f = Head(ir) /\ g = j1939_xtp_rx_rts_session_new(h, f)
    BY <1>2, <1>4, <1>5, <1>8, <1>10, <1>11
  <2>2. Idle(k, h.s) \/ Working("r", k, h.s)
    BY <1>10
  <2>3. mode \in Modes
    BY <1>10
  <2>4. Message(k, o, g.s, io, oo, Tail(ir), g.out, got)
    BY <1>6, <1>7, <1>9, <1>12, <1>13, <2>1, <2>2, <2>3, MessageNew
  <2>5. g.recv = h.recv
    BY <1>4, <1>6, <1>9, <2>1, NewIs
  <2> QED
    BY <2>4, <2>5
<1>15. in'["o"] = io /\ in'["r"] = Tail(ir)
  BY <1>5, <1>11 DEF Nodes
<1>16. Message(k, After("r", k, g.s, "o", k), After("r", k, g.s, "r", k),
               in'["o"], Given("r", g.out, "o"), in'["r"], Given("r", g.out, "r"), got)
  BY <1>11, <1>14, <1>15 DEF After, Given
<1> QED
  BY <1>1, <1>4, <1>5, <1>9, <1>10, <1>14, <1>16, HandlerKeeps

\* A frame that no session takes.
LEMMA NoneKeeps ==
  ASSUME MessageInv, NEW n \in Nodes, NoSession(n)
  PROVE  MessageInv'
<1>1. BaseInv /\ BaseInv' /\ mode' = mode
  BY NoneKeepsBase, NoneStep, TakenIs DEF MessageInv, Quiet
<1>2. PICK f : f = Head(in[n])
  OBVIOUS
<1>3. PICK x : x = [msg |-> f.data.msg, buf |-> [i \in {0} |-> f.data]]
  OBVIOUS
<1>4. /\ SessionOf(n, f) = {} /\ UNCHANGED <<se, queue, out>>
      /\ got' = got \/ (f.cmd = "SIMPLE" /\ n = "r" /\ got' = Append(got, x))
  BY <1>1, <1>2, <1>3, NoneStep
<1>5. /\ in[n] # <<>> /\ f \in Sent("o") \cup Sent("r")
      /\ in' \in [Nodes -> Seq(FrameRec)] /\ in'[n] = Tail(in[n])
      /\ \A m \in Nodes : m # n => in'[m] = in[m]
  BY <1>1, <1>2, NoneStep, TakenIs
<1>6. /\ f \in FrameRec /\ f.data.msg \in Msgs /\ f.type = Type(f.data.msg)
      /\ f.cmd = "SIMPLE" => f.type = "simple" /\ f.data.pkt = 0
  BY <1>5, SentFrames
<1>7. x \in GotRec /\ x.msg = f.data.msg /\ x.buf = [i \in {0} |-> f.data]
  <2>1. f.data \in DataRec /\ f.data.msg \in Nat
    BY <1>6 DEF FrameRec, DataRec
  <2>2. [i \in {0} |-> f.data] \in [0..1 - 1 -> DataRec]
    <3>1. 0..1 - 1 = {0}
      OBVIOUS
    <3> QED
      BY <2>1, <3>1
  <2>3. [i \in {0} |-> f.data] \in Buffers
    <3>1. 1 \in Nat
      OBVIOUS
    <3> QED
      BY <2>2, <3>1 DEF Buffers
  <2> QED
    BY <1>3, <2>1, <2>3 DEF GotRec
<1>8. got \in Seq(GotRec) /\ in \in [Nodes -> Seq(FrameRec)] /\ out \in [Nodes -> Seq(FrameRec)]
  BY <1>1 DEF BaseInv, TypeInv, GotRec
<1>9. ASSUME NEW j \in Msgs
      PROVE  Message(j, se'["o"][j], se'["r"][j], in'["o"], out'["o"], in'["r"], out'["r"], got')
  <2>1. PICK o, r, io, oo, ir, orr, io2, ir2 :
          /\ o = se["o"][j] /\ r = se["r"][j] /\ io = in["o"] /\ oo = out["o"] /\ ir = in["r"] /\ orr = out["r"]
          /\ io2 = in'["o"] /\ ir2 = in'["r"]
    OBVIOUS
  <2>2. Message(j, o, r, io, oo, ir, orr, got) /\ Spare(r) = 0
    BY <2>1 DEF MessageInv, MsgInv, Msg, Message
  <2>3. /\ io \in Seq(FrameRec) /\ oo \in Seq(FrameRec) /\ ir \in Seq(FrameRec) /\ orr \in Seq(FrameRec)
        /\ io2 = io \/ (io # <<>> /\ io2 = Tail(io))
        /\ ir2 = ir \/ (ir # <<>> /\ ir2 = Tail(ir) /\ n = "r" /\ f = Head(ir))
    BY <1>2, <1>5, <1>8, <2>1 DEF Nodes
  <2>4. Loses(j, r, ir, ir2)
    <3>1. CASE ir2 = ir
      BY <2>3, <3>1, LosesNothing
    <3>2. CASE ir # <<>> /\ ir2 = Tail(ir) /\ n = "r" /\ f = Head(ir)
      <4>1. Live(r) => f \notin CS(j)
        BY <1>4, <2>1, <3>2 DEF SessionOf, CS, Mine
      <4>2. Silent(j, ir, ir2)
        BY <2>3, TailSilent
      <4> QED
        BY <2>3, <3>2, <4>1, <4>2, TailOfOther DEF Loses
    <3> QED
      BY <2>3, <3>1, <3>2
  <2>5. Silent(j, io, io2) /\ Silent(j, oo, oo) /\ Silent(j, orr, orr)
    BY <2>3, TailSilent
  <2>6. Message(j, o, r, io2, oo, ir2, orr, got)
    BY <2>2, <2>4, <2>5, QuietSame, MessageQuiet
  <2>7. Message(j, o, r, io2, oo, ir2, orr, got')
    <3>1. CASE got' = got
      BY <2>6, <3>1
    <3>2. CASE f.cmd = "SIMPLE" /\ n = "r" /\ got' = Append(got, x) /\ x.msg # j
      BY <1>7, <1>8, <2>6, <3>2, MessageOther
    <3>3. CASE f.cmd = "SIMPLE" /\ n = "r" /\ got' = Append(got, x) /\ x.msg = j
      <4>1. f \in SiS(j) /\ Type(j) = "simple"
        BY <1>6, <1>7, <3>3 DEF SiS, Mine
      <4>2. ~Live(r)
        <5>1. Idle(j, r) \/ Working("r", j, r)
          BY <1>1, <2>1 DEF BaseInv, SessInv, Nodes
        <5> QED
          BY <4>1, <5>1, IdleIs DEF Working
      <4>3. ir # <<>> /\ ir2 = Tail(ir) /\ Head(ir) \in SiS(j) /\ io2 = io
        BY <1>2, <1>5, <2>1, <3>3, <4>1 DEF Nodes
      <4>4. Message(j, o, r, io, oo, Tail(ir), orr, Append(got, x))
        BY <1>7, <1>8, <2>2, <2>3, <4>1, <4>2, <4>3, MessageShortUp
      <4> QED
        BY <3>3, <4>3, <4>4
    <3> QED
      BY <1>4, <3>1, <3>2, <3>3
  <2> QED
    BY <1>4, <2>1, <2>7
<1>10. \A i \in 1..Len(got') : Whole(got'[i])
  <2>1. \A i \in 1..Len(got) : Whole(got[i])
    BY DEF MessageInv, MsgInv
  <2>2. CASE got' = got
    BY <2>1, <2>2
  <2>3. CASE f.cmd = "SIMPLE" /\ got' = Append(got, x)
    <3>1. f.data = [msg |-> x.msg, pkt |-> 0]
      BY <1>6, <1>7, <2>3 DEF FrameRec, DataRec
    <3>2. Whole(x)
      BY <1>6, <1>7, <3>1 DEF Whole
    <3> QED
      BY <1>7, <1>8, <2>1, <2>3, <3>2, WholeMore
  <2> QED
    BY <1>4, <2>2, <2>3
<1>11. MsgInv'
  BY <1>1, <1>9, <1>10, MsgInvPrimed
<1> QED
  BY <1>1, <1>11 DEF MessageInv

\* The bus takes a frame.
LEMMA TransmitKeeps ==
  ASSUME MessageInv, NEW n \in Nodes, Transmit(n)
  PROVE  MessageInv'
<1>1. BaseInv /\ BaseInv'
  BY TransmitKeepsBase DEF MessageInv
<1>2. PICK f : f = Head(out[n])
  OBVIOUS
<1>3. /\ out[n] # <<>> /\ f \in Sent(n) /\ out'[n] = Tail(out[n])
      /\ \A m \in Nodes : m # n => out'[m] = out[m]
      /\ in'[n] = Append(in[n], f)
      /\ \A m \in Nodes : in'[m] \in {in[m], Append(in[m], f)}
      /\ mode' = mode /\ se' = se /\ got' = got
  BY <1>1, <1>2, TransmitIs
<1>4. f \in FrameRec /\ (f.cmd = "SIMPLE" => f.type = "simple") /\ f.cmd \in IF n = "o" THEN FromO ELSE FromR
  BY <1>3 DEF Sent, OwnFrames
<1>5. in \in [Nodes -> Seq(FrameRec)] /\ out \in [Nodes -> Seq(FrameRec)]
  BY <1>1 DEF BaseInv, TypeInv
<1>6. ASSUME NEW j \in Msgs
      PROVE  Message(j, se'["o"][j], se'["r"][j], in'["o"], out'["o"], in'["r"], out'["r"], got')
  <2>1. PICK o, r, io, oo, ir, orr :
          /\ o = se["o"][j] /\ r = se["r"][j] /\ io = in["o"] /\ oo = out["o"] /\ ir = in["r"] /\ orr = out["r"]
    OBVIOUS
  <2>2. Message(j, o, r, io, oo, ir, orr, got)
    BY <2>1 DEF MessageInv, MsgInv, Msg
  <2>3. /\ io \in Seq(FrameRec) /\ oo \in Seq(FrameRec) /\ ir \in Seq(FrameRec) /\ orr \in Seq(FrameRec)
    BY <1>5, <2>1 DEF Nodes
  <2>4. CASE n = "o"
    <3>1. PICK ir2 \in {ir, Append(ir, f)} : ir2 = in'["r"]
      BY <1>3, <2>1 DEF Nodes
    <3>2. oo # <<>> /\ f = Head(oo) /\ f.cmd \notin {"CTS", "EOMA"}
      BY <1>2, <1>3, <1>4, <2>1, <2>4 DEF FromO
    <3>3. Message(j, o, r, Append(io, f), Tail(oo), ir2, orr, got)
      BY <1>4, <2>2, <2>3, <3>2, MessageCarry
    <3> QED
      BY <1>3, <2>1, <2>4, <3>1, <3>3 DEF Nodes
  <2>5. CASE n = "r"
    <3>1. PICK io2 \in {io, Append(io, f)} : io2 = in'["o"]
      BY <1>3, <2>1 DEF Nodes
    <3>2. orr # <<>> /\ f = Head(orr) /\ f.cmd \in FromR
      BY <1>2, <1>3, <1>4, <2>1, <2>5
    <3>3. Message(j, o, r, io2, oo, Append(ir, f), Tail(orr), got)
      BY <1>4, <2>2, <2>3, <3>2, MessageReply
    <3> QED
      BY <1>3, <2>1, <2>5, <3>1, <3>3 DEF Nodes
  <2> QED
    BY <2>4, <2>5 DEF Nodes
<1>7. \A i \in 1..Len(got') : Whole(got'[i])
  BY <1>3 DEF MessageInv, MsgInv
<1>8. MsgInv'
  BY <1>3, <1>6, <1>7, MsgInvPrimed
<1> QED
  BY <1>1, <1>8 DEF MessageInv

\* Steps of the users and the device.
LEMMA QuietKeeps ==
  ASSUME MessageInv, BaseInv', mode' = mode, got' = got,
         \A j \in Msgs : OQuiet(j, se["o"][j], se'["o"][j]) /\ se'["r"][j] = se["r"][j],
         \A m \in Nodes : in'[m] = in[m] /\ (out'[m] = out[m] \/ out'[m] = <<>>)
  PROVE  MessageInv'
<1>1. in \in [Nodes -> Seq(FrameRec)] /\ out \in [Nodes -> Seq(FrameRec)]
  BY DEF MessageInv, BaseInv, TypeInv
<1>2. ASSUME NEW j \in Msgs
      PROVE  Message(j, se'["o"][j], se'["r"][j], in'["o"], out'["o"], in'["r"], out'["r"], got')
  <2>1. PICK o, r, io, oo, ir, orr, o2, oo2, orr2 :
          /\ o = se["o"][j] /\ r = se["r"][j] /\ io = in["o"] /\ oo = out["o"] /\ ir = in["r"] /\ orr = out["r"]
          /\ o2 = se'["o"][j] /\ oo2 = out'["o"] /\ orr2 = out'["r"]
    OBVIOUS
  <2>2. Message(j, o, r, io, oo, ir, orr, got) /\ Spare(r) = 0
    BY <2>1 DEF MessageInv, MsgInv, Msg, Message
  <2>3. /\ io \in Seq(FrameRec) /\ oo \in Seq(FrameRec) /\ ir \in Seq(FrameRec) /\ orr \in Seq(FrameRec)
        /\ oo2 = oo \/ oo2 = <<>>
        /\ orr2 = orr \/ orr2 = <<>>
        /\ OQuiet(j, o, o2)
    BY <1>1, <2>1 DEF Nodes
  <2>4. RQuiet(r, r)
    BY <2>2, QuietSame
  <2>5. Silent(j, io, io) /\ Silent(j, oo, oo2) /\ Silent(j, orr, orr2) /\ Loses(j, r, ir, ir)
    BY <2>3, TailSilent, LosesNothing
  <2>6. Message(j, o2, r, io, oo2, ir, orr2, got)
    BY <2>2, <2>3, <2>4, <2>5, MessageQuiet
  <2> QED
    BY <2>1, <2>6 DEF Nodes
<1>3. \A i \in 1..Len(got') : Whole(got'[i])
  BY DEF MessageInv, MsgInv
<1>4. MsgInv'
  BY <1>2, <1>3, MsgInvPrimed
<1> QED
  BY <1>4 DEF MessageInv

LEMMA SendmsgKeeps ==
  ASSUME MessageInv, j1939_sk_sendmsg
  PROVE  MessageInv'
<1>1. BaseInv /\ BaseInv'
  BY SendmsgKeepsBase DEF MessageInv
<1>2. PICK k \in Msgs, t \in SessRec :
        /\ se["o"][k].st = "none" /\ Same(se["o"][k], t) /\ se' = [se EXCEPT !["o"][k] = t]
        /\ UNCHANGED <<mode, userVars, out, in, lost, got>>
  BY <1>1, SendmsgIs
<1>3. se \in [Nodes -> [Msgs -> SessRec]]
  BY <1>1 DEF BaseInv, TypeInv
<1>4. /\ se'["o"][k] = t /\ \A j \in Msgs : se'["r"][j] = se["r"][j]
      /\ \A j \in Msgs : j # k => se'["o"][j] = se["o"][j]
  BY <1>2, <1>3, SetTwice DEF Nodes
<1>5. Idle(k, se["o"][k])
  BY <1>1, <1>2 DEF BaseInv, SessInv, Working, Nodes
<1>6. ASSUME NEW j \in Msgs
      PROVE  OQuiet(j, se["o"][j], se'["o"][j])
  <2>1. CASE j = k
    BY <1>2, <1>4, <1>5, <2>1, StartedQuiet
  <2>2. CASE j # k
    BY <1>4, <2>2, QuietSame
  <2> QED
    BY <2>1, <2>2
<1> QED
  BY <1>1, <1>2, <1>4, <1>6, QuietKeeps

LEMMA DroppingKeeps ==
  ASSUME MessageInv, j1939_sk_release \/ j1939_netdev_notify
  PROVE  MessageInv'
<1>1. BaseInv /\ BaseInv'
  BY DroppingKeepsBase DEF MessageInv
<1>2. /\ mode' = mode /\ out' = out /\ in' = in /\ got' = got
      /\ \A k \in Msgs : se'["r"][k] = se["r"][k] /\ Drops(k, se["o"][k], se'["o"][k])
  BY <1>1, DroppingIs
<1> QED
  BY <1>1, <1>2, DroppedQuiet, QuietKeeps

LEMMA OutsideKeeps ==
  ASSUME MessageInv, ListenerCloses \/ LinkDown \/ LinkUp \/ UNCHANGED vars, BaseInv'
  PROVE  MessageInv'
<1>1. /\ mode' = mode /\ se' = se /\ in' = in /\ got' = got
      /\ out' = out \/ out' = [out EXCEPT !["o"] = <<>>]
  BY DEF ListenerCloses, LinkDown, LinkUp, vars
<1>2. \A m \in Nodes : out'[m] = out[m] \/ out'[m] = <<>>
  BY <1>1 DEF MessageInv, BaseInv, TypeInv
<1>3. \A j \in Msgs : OQuiet(j, se["o"][j], se'["o"][j]) /\ se'["r"][j] = se["r"][j]
  BY <1>1, QuietSame
<1> QED
  BY <1>1, <1>2, <1>3, QuietKeeps

LEMMA InitHasMessage == Init => MessageInv
<1> SUFFICES ASSUME Init
             PROVE  MsgInv
  BY InitHasBase DEF MessageInv
<1>1. BaseInv /\ got = <<>> /\ \A n \in Nodes : out[n] = <<>> /\ in[n] = <<>> /\ \A k \in Msgs : se[n][k] = Blank(k)
  BY InitHasBase DEF Init
<1>2. ASSUME NEW k \in Msgs
      PROVE  Msg(k)
  <2>1. PICK b : b = Blank(k)
    OBVIOUS
  <2>2. b.st = "none" /\ Idle(k, b)
    BY <1>1, <2>1, BlankIs DEF BaseInv, TypeInv
  <2>3. b.cmd = "none" /\ b.txcmd = "none" /\ Spare(b) = 0 /\ ~Live(b)
    BY <2>2, IdleIs
  <2>4. \A S, T : None(<<>>, S) /\ Behind(<<>>, S, T)
    BY DEF None, Behind
  <2>5. Message(k, b, b, <<>>, <<>>, <<>>, <<>>, <<>>)
    <3>1. Opened(k, b, b, <<>>, <<>>)
      BY <2>2, <2>4 DEF Opened
    <3>2. Fresh(k, b, b, <<>>, <<>>, <<>>, <<>>)
      BY <2>3, <2>4 DEF Fresh
    <3>3. Stores(k, b, <<>>, <<>>) /\ InBlock(k, b, b, <<>>, <<>>, <<>>, <<>>)
      BY <2>3 DEF Stores, InBlock
    <3>4. Handed(k, b, b, <<>>, <<>>, <<>>)
      BY <2>4 DEF Handed, Has
    <3> QED
      BY <2>3, <3>1, <3>2, <3>3, <3>4 DEF Message
  <2> QED
    BY <1>1, <2>1, <2>5 DEF Msg, Nodes
<1>3. \A i \in 1..Len(got) : Whole(got[i])
  BY <1>1
<1> QED
  BY <1>2, <1>3 DEF MsgInv

LEMMA NextKeepsMessage ==
  ASSUME Unmixed, MessageInv, [Next]_vars
  PROVE  MessageInv'
<1>1. BaseInv'
  BY NextKeepsBase DEF MessageInv
<1>2. ASSUME NEW n \in Nodes, Recv(n) \/ Transmit(n)
      PROVE  MessageInv'
  BY <1>2, RecvKeeps, NewKeeps, NoneKeeps, TransmitKeeps DEF Recv
<1>3. ASSUME NEW n \in Nodes, NEW k \in Msgs, j1939_tp_txtimer(n, k) \/ j1939_tp_rxtimer(n, k)
      PROVE  MessageInv'
  BY <1>3, TimesKeeps, ExpiresKeeps
<1>4. CASE Users \/ LinkDown \/ j1939_netdev_notify \/ LinkUp \/ UNCHANGED vars
  BY <1>1, <1>4, SendmsgKeeps, DroppingKeeps, OutsideKeeps DEF Users
<1> QED
  BY <1>2, <1>3, <1>4 DEF Next, Network, Timers

\* As long as no frame is mistaken for another message's, whatever is lost, closed,
\* early or taken down: the packets under way are those of one block, which the
\* responder asked for and which begins where the last DPO says; it has stored as
\* many as it counts; an EOMA is under way only when it has all; and each message
\* opens, and is handed up, once (j1939_xtp_rx_cts_one(), j1939_xtp_rx_dpo_one(),
\* j1939_xtp_rx_dat_one() and the tx timers of both nodes).
THEOREM MessageHolds == Spec /\ []Unmixed => []MessageInv
<1>1. Init => MessageInv
  BY InitHasMessage
<1>2. MessageInv /\ Unmixed /\ [Next]_vars => MessageInv'
  BY NextKeepsMessage
<1> QED
  BY <1>1, <1>2, PTL DEF Spec

\* What the peer's socket receives is a message that was sent, whole, each packet
\* from that message and at its place, and each message once, as long as no frame
\* is mistaken for another message's.
THEOREM IntactHolds == Spec /\ []Unmixed => []Intact
<1>1. MessageInv => Intact
  <2> SUFFICES ASSUME MessageInv
               PROVE  Intact
    OBVIOUS
  <2>1. got \in Seq(GotRec)
    BY DEF MessageInv, BaseInv, TypeInv, GotRec
  <2>2. \A i \in DOMAIN got : Whole(got[i])
    BY <2>1 DEF MessageInv, MsgInv
  <2>3. ASSUME NEW i \in DOMAIN got, NEW j \in DOMAIN got, got[i].msg = got[j].msg
        PROVE  i = j
    <3>1. PICK k \in Msgs : k = got[i].msg
      BY <2>2 DEF Whole
    <3>2. \A a, b \in 1..Len(got) : got[a].msg = k /\ got[b].msg = k => a = b
      BY DEF MessageInv, MsgInv, Msg, Message, Handed
    <3> QED
      BY <2>1, <2>3, <3>1, <3>2
  <2> QED
    BY <2>2, <2>3 DEF Intact, Whole
<1>2. Spec /\ []Unmixed => []MessageInv
  BY MessageHolds
<1> QED
  BY <1>1, <1>2, PTL

\* While handlers run one after the other (softirqs of one processor) and no frame is
\* mistaken for another message's, the references that timers hold are those of the
\* timers queued, at both nodes.
THEOREM RefsHold == Spec /\ []Unmixed => []RefsExact
<1>1. MessageInv => RefsExact
  <2> SUFFICES ASSUME MessageInv, NEW n \in Nodes, NEW k \in Msgs, NEW s, s = se[n][k]
               PROVE  s.refs = (IF s.txt = "off" THEN 0 ELSE 1) + (IF s.rxt THEN 1 ELSE 0)
    BY DEF RefsExact
  <2>1. s \in SessRec
    BY DEF MessageInv, BaseInv, TypeInv
  <2>2. Spare(s) = 0
    BY DEF MessageInv, BaseInv, RefsSuffice, MsgInv, Msg, Message, Nodes
  <2> QED
    BY <2>1, <2>2 DEF Spare, SessRec
<1>2. Spec /\ []Unmixed => []MessageInv
  BY MessageHolds
<1> QED
  BY <1>1, <1>2, PTL

\* A socket that sends one message of each type never has a frame mistaken: what
\* the three theorems suppose, and then it is so whatever is lost, closed, early
\* or taken down.
THEOREM TypesUnmixed == Spec /\ DistinctTypes => []Unmixed
<1>1. ASSUME BaseInv, DistinctTypes
      PROVE  Unmixed
  <2> SUFFICES ASSUME NEW n \in Nodes, in[n] # <<>>, NEW k \in SessionOf(n, Head(in[n]))
               PROVE  Head(in[n]).data.msg = k
    BY DEF Unmixed
  <2>1. PICK f : f = Head(in[n])
    OBVIOUS
  <2>2. f \in Sent("o") \cup Sent("r")
    BY <1>1, <2>1 DEF BaseInv, FrameInv
  <2>3. f.data.msg \in Msgs /\ f.type = Type(f.data.msg)
    BY <2>2, SentFrames
  <2>4. k \in Msgs /\ Type(k) = f.type
    BY <2>1 DEF SessionOf
  <2> QED
    BY <1>1, <2>1, <2>3, <2>4 DEF DistinctTypes, Msgs, Type
<1>2. DistinctTypes /\ [Next]_vars => DistinctTypes'
  BY ModeKept DEF DistinctTypes
<1>3. Spec => []BaseInv
  BY BaseHolds
<1> QED
  BY <1>1, <1>2, <1>3, PTL DEF Spec
=============================================================================
