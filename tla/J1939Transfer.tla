---------------------------- MODULE J1939Transfer ----------------------------
(***************************************************************************)
(* Messages of one j1939 socket to one peer: the queue of its sessions     *)
(* (net/can/j1939/socket.c) and the transport protocol of both nodes       *)
(* (net/can/j1939/transport.c), with their timers, over a CAN bus that     *)
(* may lose frames.                                                        *)
(*                                                                         *)
(* A step is one handler: a timer, or the reception of one frame.  They    *)
(* run one after the other, as softirqs of one processor do.  On several   *)
(* processors a timer's handler runs beside a reception, with no lock that *)
(* covers e.g. j1939_tp_set_rxtimeout(): nothing is said of that here.     *)
(* Each node receives the frames of both in the order of the bus, its own  *)
(* as echoes.  The socket uses addresses, no NAMEs.  Packets of a message  *)
(* are numbered from 0, j1939 numbers them from 1 in CTS and DAT frames.   *)
(* The session of message k has index k at the originator "o" and at the   *)
(* responder "r"; the program finds a session by address and type, and so  *)
(* does SessionOf().                                                       *)
(***************************************************************************)
EXTENDS Integers, Sequences, FiniteSets

CONSTANTS
  Block,       \* j1939_tp_block: packets of a CTS
  QLen,        \* frames the device's queue holds
  RetryLimit,  \* J1939_XTP_TX_RETRY_LIMIT
  Modes        \* [script : the messages [type, total] a socket sends, timely :
               \* timers outlast what is under way, loss : frames the bus may
               \* lose, down : the device may go down, closes : users may go away]

Types == {"simple", "tp", "etp", "bam"}
Nodes == {"o", "r"}

ASSUME TransferAssumption ==
  /\ Block \in Nat \ {0} /\ QLen \in Nat \ {0} /\ RetryLimit \in Nat
  /\ \A m \in Modes :
       /\ m.timely \in BOOLEAN /\ m.loss \in Nat /\ m.down \in BOOLEAN /\ m.closes \in BOOLEAN
       /\ m.script \in Seq([type : Types, total : Nat \ {0}])
       /\ \A i \in DOMAIN m.script : m.script[i].type = "simple" => m.script[i].total = 1

VARIABLES
  mode,
  se,       \* [node -> [message -> session]]
  queue,    \* sk_session_queue of the sending socket
  sk, dev,  \* that socket, its device
  listen,   \* the peer has a socket that receives
  out, in,  \* [node -> frames to send, frames received]
  lost,     \* frames lost
  got       \* history: what the peer's socket received

userVars == <<sk, dev, listen>>
vars == <<mode, se, queue, userVars, out, in, lost, got>>

Indices == UNION {DOMAIN m.script : m \in Modes}
Msgs == DOMAIN mode.script
Total(k) == mode.script[k].total
Type(k) == mode.script[k].type

NoData == [msg |-> 0, pkt |-> 0]
Frame(from, cmd, type, len, pkt, data) ==
  [from |-> from, cmd |-> cmd, type |-> type, len |-> len, pkt |-> pkt, data |-> data]
Ctl(n, cmd, k, len, pkt) == Frame(n, cmd, Type(k), len, pkt, [NoData EXCEPT !.msg = k])

\* struct j1939_session: last_cmd, last_txcmd and the packet counters; txt and
\* rxt are its timers, refs the references they hold.
Blank(k) ==
  [st |-> "none", cmd |-> "none", txcmd |-> "none", tx |-> 0, last |-> 0, acked |-> 0,
   rx |-> 0, dpo |-> 0, txt |-> "off", rxt |-> FALSE, refs |-> 0, retry |-> 0,
   err |-> FALSE, buf |-> [i \in 0..Total(k) - 1 |-> NoData]]

Init ==
  /\ mode \in Modes
  /\ se = [n \in Nodes |-> [k \in Msgs |-> Blank(k)]]
  /\ queue = <<>> /\ sk = "open" /\ dev = "up" /\ listen = TRUE
  /\ out = [n \in Nodes |-> <<>>] /\ in = [n \in Nodes |-> <<>>]
  /\ lost = 0 /\ got = <<>>

Live(s) == s.st \in {"active", "waiting"}

-----------------------------------------------------------------------------
(* A handler's view: the session at hand, the node's device queue, what the *)
(* last send answered, and whether the queue of the socket goes on and the  *)
(* message is handed up.                                                    *)

View(n, k) ==
  [s |-> se[n][k], out |-> out[n], ret |-> "ok", next |-> FALSE, recv |-> FALSE]

\* A new reference for each start, even of a timer that is queued.
j1939_tp_schedule_txtimer(h, when) == [h EXCEPT !.s.txt = when, !.s.refs = @ + 1]

j1939_session_txtimer_cancel(h) ==
  IF h.s.txt = "off" THEN h ELSE [h EXCEPT !.s.txt = "off", !.s.refs = @ - 1]

j1939_session_rxtimer_cancel(h) ==
  IF h.s.rxt THEN [h EXCEPT !.s.rxt = FALSE, !.s.refs = @ - 1] ELSE h

j1939_session_timers_cancel(h) ==
  j1939_session_rxtimer_cancel(j1939_session_txtimer_cancel(h))

\* A timer that is queued is not cancelled first.
j1939_tp_set_rxtimeout_bug(h) == [h EXCEPT !.s.rxt = TRUE, !.s.refs = @ + 1]

j1939_tp_set_rxtimeout(h) ==
  [j1939_session_rxtimer_cancel(h) EXCEPT !.s.rxt = TRUE, !.s.refs = @ + 1]

\* What can_send() answers; that there is no memory is left out.
CanSend(n, h) ==
  IF n = "o" /\ dev # "up" THEN "netdown" ELSE IF Len(h.out) >= QLen THEN "nobufs" ELSE "ok"

\* j1939_send_one(); j1939_ac_fixup() accepts a frame without NAMEs.
Send(h, n, f) ==
  LET r == CanSend(n, h) IN
  [h EXCEPT !.ret = r, !.out = IF r = "ok" THEN Append(@, f) ELSE @]

j1939_session_deactivate(h) == IF Live(h.s) THEN [h EXCEPT !.s.st = "done"] ELSE h

j1939_session_deactivate_activate_next(h) ==
  IF Live(h.s) THEN [h EXCEPT !.s.st = "done", !.next = TRUE] ELSE h

\* __j1939_session_cancel(): no abort for a broadcast, and none if it cannot be sent.
AbortSent(h, n, k) ==
  LET g == [h EXCEPT !.s.err = TRUE, !.s.st = "waiting"] IN
  IF Type(k) = "bam" THEN g
  ELSE [Send(g, n, Ctl(n, "ABORT", k, 0, 0)) EXCEPT !.ret = h.ret]

j1939_session_cancel(h, n, k) ==
  IF h.s.st = "active" THEN AbortSent(j1939_tp_set_rxtimeout(h), n, k) ELSE h

\* The queue of the socket does not go on.
j1939_session_completed_bug(h, n) == [j1939_session_deactivate(h) EXCEPT !.recv = (n = "r")]

j1939_session_completed(h, n) ==
  [j1939_session_deactivate_activate_next(h) EXCEPT !.recv = (n = "r")]

-----------------------------------------------------------------------------
(* The tx timer. *)

j1939_session_tx_rts(h, n, k) ==
  LET cmd == IF Type(k) = "bam" THEN "BAM" ELSE "RTS"
      g == Send(h, n, Ctl(n, cmd, k, Total(k), 0))
      d == [g EXCEPT !.s.txcmd = cmd]
  IN CASE h.s.txcmd = cmd -> h
       [] h.s.txcmd # cmd /\ g.ret # "ok" -> g
       [] OTHER -> j1939_tp_set_rxtimeout(
                     IF cmd = "BAM" THEN j1939_tp_schedule_txtimer(d, "later") ELSE d)

j1939_session_tx_dpo(h, n, k) ==
  LET g == Send([h EXCEPT !.s.dpo = h.s.acked], n,
                Ctl(n, "DPO", k, h.s.last - h.s.acked, h.s.acked))
  IN IF g.ret # "ok" THEN g
     ELSE j1939_tp_set_rxtimeout([g EXCEPT !.s.txcmd = "DPO", !.s.tx = h.s.acked])

\* DAT frames as long as the device takes them; a broadcast pauses after each.
j1939_session_tx_dat(h, n, k) ==
  LET s    == h.s
      bam  == Type(k) = "bam"
      want == (IF bam THEN Total(k) ELSE s.last) - s.tx
      free == IF CanSend(n, h) = "ok" THEN QLen - Len(h.out) ELSE 0
      step == IF bam /\ want > 1 THEN 1 ELSE want
      done == IF step <= free THEN step ELSE free
      dat(i) == Frame(n, "DAT", Type(k), 0, s.tx + i - s.dpo, [msg |-> k, pkt |-> s.tx + i - 1])
      g == [h EXCEPT !.out = @ \o [i \in 1..done |-> dat(i)], !.s.tx = @ + done,
                     !.s.txcmd = IF done > 0 THEN "DAT" ELSE @]
      p == IF bam /\ done = 1 /\ want > 1 THEN j1939_tp_schedule_txtimer(g, "later") ELSE g
      r == IF done > 0 THEN j1939_tp_set_rxtimeout(p) ELSE p
  IN IF s.tx >= Total(k) THEN [h EXCEPT !.ret = "nobufs"]
     ELSE IF done < step THEN [r EXCEPT !.ret = CanSend(n, g)] ELSE [r EXCEPT !.ret = "ok"]

j1939_xtp_txnext_transmiter(h, n, k) ==
  LET resumes == Type(k) = "etp" /\ h.s.cmd = "CTS" /\ h.s.txcmd # "DPO"
      d == IF resumes THEN j1939_session_tx_dpo(h, n, k) ELSE h
  IN CASE h.s.cmd = "none" -> j1939_session_tx_rts(h, n, k)
       [] h.s.cmd \in {"CTS", "DAT", "DPO", "BAM"} ->
            IF d.ret # "ok" THEN d ELSE j1939_session_tx_dat(d, n, k)
       [] OTHER -> h

Smaller(a, b) == IF a <= b THEN a ELSE b

\* CTS and EOMA need a socket that receives.
Answer(h, n, k, cmd, len, pkt) ==
  LET g == Send(h, n, Ctl(n, cmd, k, len, pkt))
  IN CASE ~listen -> [h EXCEPT !.ret = "noent"]
       [] listen /\ h.s.txcmd = cmd -> h
       [] listen /\ h.s.txcmd # cmd /\ g.ret # "ok" -> g
       [] OTHER -> j1939_tp_set_rxtimeout([g EXCEPT !.s.txcmd = cmd])

j1939_session_tx_cts(h, n, k) ==
  Answer(h, n, k, "CTS", Smaller(Total(k) - h.s.rx, Block), h.s.rx + 1)

j1939_session_tx_eoma(h, n, k) == Answer(h, n, k, "EOMA", 0, 0)

\* The CTS of the next block is taken for one that was sent.
j1939_xtp_txnext_receiver_bug(h, n, k) ==
  CASE h.s.cmd = "RTS" -> j1939_session_tx_cts(h, n, k)
    [] h.s.cmd \in {"CTS", "DAT", "DPO"} /\ h.s.rx >= Total(k) ->
         j1939_session_tx_eoma(h, n, k)
    [] h.s.cmd \in {"CTS", "DAT", "DPO"} /\ h.s.rx < Total(k) /\ h.s.rx >= h.s.last ->
         j1939_session_tx_cts(h, n, k)
    [] OTHER -> h

j1939_xtp_txnext_receiver(h, n, k) ==
  CASE h.s.cmd = "RTS" -> j1939_session_tx_cts(h, n, k)
    [] h.s.cmd \in {"CTS", "DAT", "DPO"} /\ h.s.rx >= Total(k) ->
         j1939_session_tx_eoma(h, n, k)
    [] h.s.cmd \in {"CTS", "DAT", "DPO"} /\ h.s.rx < Total(k) /\ h.s.rx >= h.s.last ->
         j1939_session_tx_cts([h EXCEPT !.s.txcmd = "none"], n, k)
    [] OTHER -> h

\* The next message may start as soon as this one is in the device's queue.
j1939_simple_txnext(h, n, k) ==
  LET g == Send(j1939_tp_set_rxtimeout(h), n,
                Frame(n, "SIMPLE", "simple", 0, 0, [msg |-> k, pkt |-> 0]))
  IN IF g.ret = "ok" THEN [g EXCEPT !.next = TRUE] ELSE g

\* j1939_tp_txtimer(), after the frames.
TxDone(h, n, k) ==
  CASE h.ret = "ok" -> [h EXCEPT !.s.retry = 0]
    [] h.ret = "nobufs" /\ h.s.retry < RetryLimit ->
         j1939_tp_schedule_txtimer([h EXCEPT !.s.retry = @ + 1], "later")
    [] h.ret = "nobufs" /\ h.s.retry >= RetryLimit ->
         j1939_session_deactivate_activate_next(
           j1939_session_rxtimer_cancel([h EXCEPT !.s.err = TRUE]))
    [] h.ret = "netdown" -> h
    [] OTHER -> j1939_session_cancel(h, n, k)

-----------------------------------------------------------------------------
(* The step: references are dropped, sessions freed, the queue moves on. *)

InQueue(q, k) == \E i \in DOMAIN q : q[i] = k

\* A session that has ended, with its last reference gone.
Settled(k, s, q) ==
  IF s.st \in {"new", "done"} /\ s.refs = 0 /\ ~InQueue(q, k)
    THEN [Blank(k) EXCEPT !.st = "freed", !.err = s.err] ELSE s

Activated(s, when) == [s EXCEPT !.st = "active", !.txt = when, !.refs = @ + 1]

\* The queue goes on with the first session only, and gives the peer some time
\* after a failure.
j1939_sk_queue_activate_next(n, k, h) ==
  LET pops == h.next /\ n = "o" /\ queue # <<>> /\ Head(queue) = k
      q    == IF pops THEN Tail(queue) ELSE queue
      mine == [se EXCEPT ![n][k] = Settled(k, h.s, IF n = "o" THEN q ELSE <<>>)]
  IN /\ queue' = q
     /\ se' = IF pops /\ q # <<>>
                THEN [mine EXCEPT !["o"][Head(q)] =
                        Activated(@, IF h.s.err THEN "later" ELSE "now")]
                ELSE mine

Finish(n, k, view) ==
  \E h \in {view} :
    /\ j1939_sk_queue_activate_next(n, k, h)
    /\ out' = [out EXCEPT ![n] = h.out]
    /\ got' = IF h.recv /\ listen THEN Append(got, [msg |-> k, buf |-> h.s.buf]) ELSE got

Busy == \/ \E n \in Nodes : out[n] # <<>> \/ in[n] # <<>>
        \/ \E n \in Nodes : \E k \in Msgs : se[n][k].txt # "off"

j1939_tp_txtimer(n, k) ==
  LET h == [View(n, k) EXCEPT !.s.txt = "off"]
      g == CASE Type(k) = "simple" -> j1939_simple_txnext(h, n, k)
             [] Type(k) # "simple" /\ n = "o" -> j1939_xtp_txnext_transmiter(h, n, k)
             [] OTHER -> j1939_xtp_txnext_receiver(h, n, k)
  IN /\ se[n][k].txt # "off"
     /\ mode.timely /\ se[n][k].txt = "later" => out[n] = <<>> /\ in[n] = <<>>
     /\ Finish(n, k, [TxDone(g, n, k) EXCEPT !.s.refs = @ - 1])
     /\ UNCHANGED <<mode, userVars, in, lost>>

\* A session whose abort got no answer ends; one that waits is aborted.
j1939_tp_rxtimer(n, k) ==
  LET h == [View(n, k) EXCEPT !.s.rxt = FALSE]
      g == CASE h.s.st = "waiting" -> j1939_session_deactivate_activate_next(h)
             [] h.s.st # "waiting" /\ Type(k) = "simple" ->
                  j1939_session_deactivate([h EXCEPT !.s.err = TRUE])
             [] h.s.st = "active" /\ Type(k) # "simple" ->
                  AbortSent([h EXCEPT !.s.rxt = TRUE, !.s.refs = @ + 1], n, k)
             [] OTHER -> h
  IN /\ se[n][k].rxt
     /\ mode.timely => ~Busy
     /\ Finish(n, k, [g EXCEPT !.s.refs = @ - 1])
     /\ UNCHANGED <<mode, userVars, in, lost>>

-----------------------------------------------------------------------------
(* Reception: new values of a view. *)

j1939_xtp_rx_rts(h, n, k, f) ==
  LET g == [h EXCEPT !.s.cmd = f.cmd]
      c == j1939_session_cancel(j1939_session_timers_cancel(h), n, k)
  IN CASE n = "o" /\ h.s.cmd = "none" /\ f.cmd = "BAM" -> g
       [] n = "o" /\ h.s.cmd = "none" /\ f.cmd = "RTS" -> j1939_tp_set_rxtimeout(g)
       [] OTHER -> j1939_session_deactivate_activate_next(
                     IF n = "o" THEN c ELSE j1939_session_timers_cancel(c))

j1939_xtp_rx_rts_session_new(h, f) ==
  LET g == [h EXCEPT !.s.st = "active", !.s.cmd = f.cmd]
  IN j1939_tp_set_rxtimeout(IF f.cmd = "BAM" THEN g ELSE j1939_tp_schedule_txtimer(g, "now"))

j1939_xtp_rx_cts_one(h, n, k, f) ==
  LET g == [h EXCEPT !.s.acked = f.pkt - 1, !.s.tx = f.pkt - 1, !.s.cmd = "CTS",
                     !.s.last = Smaller(f.pkt - 1 + f.len, Total(k))]
      t == j1939_tp_set_rxtimeout(g)
  IN CASE h.s.cmd = "CTS" ->
            j1939_session_cancel(j1939_session_timers_cancel(h), n, k)
       [] h.s.cmd # "CTS" /\ n = "o" ->
            j1939_tp_schedule_txtimer(j1939_session_txtimer_cancel(t), "now")
       [] OTHER -> t

j1939_xtp_rx_dpo_one(h, f) ==
  j1939_tp_set_rxtimeout([h EXCEPT !.s.dpo = f.pkt, !.s.cmd = "DPO"])

\* Every block is stored at the start of the buffer.
Stored_bug(buf, s, f) == [buf EXCEPT ![f.pkt - 1] = f.data]

\* A DAT frame is stored where its number and the offset of the block say.
Stored(buf, s, f) == [buf EXCEPT ![f.pkt - 1 + s.dpo] = f.data]

\* The last packet of any message ends its session.
Final_bug(s, k) == s.rx >= Total(k)

\* "never final, an EOMA must follow", except for a broadcast.
Final(s, k) == Type(k) = "bam" /\ s.rx >= Total(k)

j1939_xtp_rx_dat_one(h, n, k, f) ==
  LET s   == h.s
      pkt == f.pkt - 1 + s.dpo
      bad == \/ s.cmd \notin IF Type(k) = "etp" THEN {"DAT", "DPO"} ELSE {"DAT", "CTS", "BAM"}
             \/ pkt >= Total(k) \/ s.rx + 1 > Total(k)
      g   == [h EXCEPT !.s.rx = IF pkt = @ THEN @ + 1 ELSE @, !.s.cmd = "DAT",
                       !.s.buf = IF n = "r" THEN Stored(@, s, f) ELSE @]
      t   == j1939_tp_set_rxtimeout(g)
  IN CASE bad -> j1939_session_cancel(j1939_session_timers_cancel(h), n, k)
       [] ~bad /\ Final(g.s, k) ->
            j1939_session_completed(j1939_session_timers_cancel(g), n)
       [] ~bad /\ ~Final(g.s, k) /\ Type(k) = "bam" -> IF n = "r" THEN t ELSE g
       [] ~bad /\ Type(k) # "bam" /\ g.s.rx >= g.s.last /\ n = "r" ->
            j1939_tp_schedule_txtimer(t, "now")
       [] OTHER -> t

j1939_xtp_rx_eoma_one(h, n, k) ==
  j1939_session_completed(
    j1939_session_timers_cancel([h EXCEPT !.s.acked = Total(k)]), n)

j1939_xtp_rx_abort_one(h) ==
  j1939_session_deactivate_activate_next(
    [j1939_session_timers_cancel(h) EXCEPT !.s.err = TRUE])

j1939_simple_recv(h) == j1939_session_deactivate(j1939_session_timers_cancel(h))

\* The receiving side is not looked up for an abort.
SessionOf_bug(n, f) ==
  {k \in Msgs : /\ Live(se[n][k]) /\ Type(k) = f.type
                /\ f.cmd = "SIMPLE" => k = f.data.msg
                /\ f.cmd = "ABORT" => n = "o" /\ f.from = n}

\* The session a frame is for.  An abort is matched to a session that transmits
\* where the abort was sent, to one that receives where it came in.
SessionOf(n, f) ==
  {k \in Msgs : /\ Live(se[n][k]) /\ Type(k) = f.type
                /\ f.cmd = "SIMPLE" => k = f.data.msg
                /\ f.cmd = "ABORT" => (n = "o") = (f.from = n)}

Handled(n, k, f) ==
  LET h == View(n, k)
  IN CASE f.cmd \in {"RTS", "BAM"} -> j1939_xtp_rx_rts(h, n, k, f)
       [] f.cmd = "CTS"    -> j1939_xtp_rx_cts_one(h, n, k, f)
       [] f.cmd = "DPO"    -> j1939_xtp_rx_dpo_one(h, f)
       [] f.cmd = "DAT"    -> j1939_xtp_rx_dat_one(h, n, k, f)
       [] f.cmd = "EOMA"   -> j1939_xtp_rx_eoma_one(h, n, k)
       [] f.cmd = "ABORT"  -> j1939_xtp_rx_abort_one(h)
       [] f.cmd = "SIMPLE" -> j1939_simple_recv(h)

Taken(n) ==
  /\ in[n] # <<>> /\ in' = [in EXCEPT ![n] = Tail(@)]
  /\ UNCHANGED <<mode, userVars, lost>>

j1939_tp_recv(n) ==
  /\ Taken(n)
  /\ \E k \in SessionOf(n, Head(in[n])) : Finish(n, k, Handled(n, k, Head(in[n])))

\* The peer answers a request to send, if a socket receives.
NewSession ==
  /\ Taken("r") /\ SessionOf("r", Head(in["r"])) = {}
  /\ Head(in["r"]).cmd \in {"RTS", "BAM"} /\ listen
  /\ LET f == Head(in["r"]) k == f.data.msg
     IN Finish("r", k, j1939_xtp_rx_rts_session_new(View("r", k), f))

\* A frame without a session, or a short message for the peer's socket.
NoSession(n) ==
  /\ Taken(n) /\ SessionOf(n, Head(in[n])) = {}
  /\ LET f == Head(in[n])
     IN /\ ~(n = "r" /\ f.cmd \in {"RTS", "BAM"} /\ listen)
        /\ got' = IF n = "r" /\ f.cmd = "SIMPLE" /\ listen
                    THEN Append(got, [msg |-> f.data.msg, buf |-> [i \in {0} |-> f.data]])
                    ELSE got
  /\ UNCHANGED <<se, queue, out>>

\* The bus takes the next frame of a node: the other one receives it, unless it
\* is lost, and it comes back as an echo.
Transmit(n) ==
  /\ out[n] # <<>> /\ (n = "o" => dev = "up")
  /\ LET f == Head(out[n]) m == IF n = "o" THEN "r" ELSE "o"
         hears == m = "r" \/ dev = "up"
     IN \/ /\ in' = [j \in Nodes |-> IF j = n \/ hears THEN Append(in[j], f) ELSE in[j]]
           /\ UNCHANGED lost
        \/ /\ lost < mode.loss /\ hears
           /\ in' = [in EXCEPT ![n] = Append(@, f)] /\ lost' = lost + 1
  /\ out' = [out EXCEPT ![n] = Tail(@)]
  /\ UNCHANGED <<mode, se, queue, userVars, got>>

-----------------------------------------------------------------------------
(* The user and the device. *)

Unsent == {k \in Msgs : se["o"][k].st = "none"}

Starts == queue = <<>>

\* sendmsg(): the first session of an empty queue is started.  With one socket
\* no session to the same address is active then.
j1939_sk_sendmsg ==
  /\ sk = "open" /\ Unsent # {}
  /\ LET k == CHOOSE i \in Unsent : \A j \in Unsent : i <= j
         s == [Blank(k) EXCEPT !.st = "new"]
     IN /\ queue' = Append(queue, k)
        /\ se' = [se EXCEPT !["o"][k] = IF Starts THEN Activated(s, "now") ELSE s]
  /\ UNCHANGED <<mode, userVars, out, in, lost, got>>

\* j1939_cancel_active_session() and j1939_sk_queue_drop_all().
AllDropped ==
  [k \in Msgs |->
     LET s == se["o"][k]
         c == j1939_session_timers_cancel(View("o", k)).s
         e == IF Live(s) THEN [c EXCEPT !.err = TRUE, !.st = "done"]
              ELSE IF InQueue(queue, k) THEN [s EXCEPT !.err = TRUE] ELSE s
     IN Settled(k, e, <<>>)]

\* close() waits until no session is left, or is interrupted at any time.
j1939_sk_release ==
  /\ sk = "open" /\ mode.closes
  /\ sk' = "closed" /\ queue' = <<>> /\ se' = [se EXCEPT !["o"] = AllDropped]
  /\ UNCHANGED <<mode, dev, listen, out, in, lost, got>>

ListenerCloses ==
  /\ listen /\ mode.closes /\ listen' = FALSE
  /\ UNCHANGED <<mode, se, queue, sk, dev, out, in, lost, got>>

LinkDown ==
  /\ mode.down /\ dev = "up" /\ dev' = "going"
  /\ out' = [out EXCEPT !["o"] = <<>>]
  /\ UNCHANGED <<mode, se, queue, sk, listen, in, lost, got>>

\* The device has come to rest when its notifier is called.
j1939_netdev_notify ==
  /\ dev = "going" /\ in["o"] = <<>> /\ dev' = "down"
  /\ queue' = <<>> /\ se' = [se EXCEPT !["o"] = AllDropped]
  /\ UNCHANGED <<mode, sk, listen, out, in, lost, got>>

LinkUp ==
  /\ dev = "down" /\ dev' = "up"
  /\ UNCHANGED <<mode, se, queue, sk, listen, out, in, lost, got>>

-----------------------------------------------------------------------------
Recv(n) == j1939_tp_recv(n) \/ (n = "r" /\ NewSession) \/ NoSession(n)

Network == \E n \in Nodes : Recv(n) \/ Transmit(n)

Timers == \E n \in Nodes : \E k \in Msgs : j1939_tp_txtimer(n, k) \/ j1939_tp_rxtimer(n, k)

Users == j1939_sk_sendmsg \/ j1939_sk_release \/ ListenerCloses

Next == Network \/ Timers \/ Users \/ LinkDown \/ j1939_netdev_notify \/ LinkUp

Spec == Init /\ [][Next]_vars

\* As long as there is a frame to send or to receive, a timer to expire or an
\* event to notify, one of them is; users and the device owe nothing.
FairSpec == Spec /\ WF_vars(Network \/ Timers \/ j1939_netdev_notify)

-----------------------------------------------------------------------------
(* Safety. *)

\* What the peer's socket receives is a message that was sent, whole, each
\* packet from that message and at its place, and each message once, whatever is
\* lost, closed, early or taken down (j1939_xtp_rx_dat_one() with the DPO, CTS
\* and EOMA around it, and the queue of the socket).
Intact ==
  /\ \A i \in DOMAIN got : \A j \in DOMAIN got[i].buf :
       got[i].buf[j] = [msg |-> got[i].msg, pkt |-> j]
  /\ \A i, j \in DOMAIN got : got[i].msg = got[j].msg => i = j

\* While timers are in time and the device stays up, messages are handed up in
\* the order of sendmsg(): the queue of the socket goes on when the message at
\* its head has ended.  And one is reported as sent (J1939_ERRQUEUE_TX_ACK) only
\* if the peer has it or is about to: the echo of its own EOMA makes the peer
\* hand it up.  That takes a peer that does not give up while it waits for that
\* echo, and no EOMA of an earlier session from before the device went down.
Ordered == \A i, j \in DOMAIN got : i < j => got[i].msg < got[j].msg
Acked(k) == se["o"][k].st = "freed" /\ ~se["o"][k].err
Arrived(k) ==
  \/ \E i \in DOMAIN got : got[i].msg = k
  \/ \E i \in DOMAIN in["r"] : in["r"][i].cmd = "EOMA" /\ in["r"][i].data.msg = k
AckSound ==
  mode.timely /\ ~mode.down =>
    /\ Ordered
    /\ listen => \A k \in Msgs : Acked(k) /\ Type(k) \in {"tp", "etp"} => Arrived(k)

\* While the bus loses nothing, timers are in time and nobody goes away, no
\* transfer fails: no handler takes a frame of the other node, or its own echo,
\* for an error, also when the device's queue is full in between.
NothingFails ==
  mode.timely /\ lost = 0 /\ ~mode.down /\ listen /\ sk = "open" =>
    \A n \in Nodes : \A k \in Msgs : ~se[n][k].err

\* While handlers run one after the other, the references that timers hold are those
\* of the timers queued, although a tx timer may be started while it is queued: a
\* session is not freed under a timer (j1939_session_put() in the callbacks and
\* cancels), nor kept by the reference of one that is gone.
RefsExact ==
  \A n \in Nodes : \A k \in Msgs :
    LET s == se[n][k] IN
    s.refs = (IF s.txt = "off" THEN 0 ELSE 1) + (IF s.rxt THEN 1 ELSE 0)

(* Liveness. *)

Queued(k) == k \in Msgs /\ se["o"][k].st \in {"new", "active", "waiting"}
Ended(k) == k \in Msgs /\ se["o"][k].st = "freed"

\* Every message that sendmsg() took is reported in the end, as sent or as
\* failed, and its session is freed, as long as the device stays up.
Reported == \A k \in Indices : (Queued(k) /\ ~mode.down) ~> Ended(k)

\* "all active sessions will be cleared by j1939_cancel_active_session()": so
\* is it when the device goes down.
ReportedDown == \A k \in Indices : Queued(k) ~> Ended(k)

\* A session of the peer ends, too, although a frame may cancel the timer of a
\* session that waits for the answer to its abort: the originator aborts it.
PeerEnds ==
  \A k \in Indices : (k \in Msgs /\ Live(se["r"][k]) /\ ~mode.down)
                       ~> (k \in Msgs /\ se["r"][k].st = "freed")
=============================================================================
