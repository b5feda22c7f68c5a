------------------------ MODULE J1939TransferProofs -------------------------
(***************************************************************************)
(* The messages of a j1939 socket: theorems about J1939Transfer, for any   *)
(* messages, blocks, queue of the device and number of lost frames, with   *)
(* timers in time or not.                                                  *)
(*                                                                         *)
(*   BaseHolds   BaseInv, the inductive invariant, holds: types, which     *)
(*               frames each node sends for a message, which sessions are  *)
(*               in use, and which timers hold references.                 *)
(*                                                                         *)
(* A handler is a function from a view of its session to a view.  Acts(n,  *)
(* k, x, g) says what it may do to one: what it queues, which timers it    *)
(* starts and which references they take.  There is a lemma for each part  *)
(* of a handler; the handlers compose them; the end of a handler (Finish)  *)
(* is proved once.                                                         *)
(***************************************************************************)
EXTENDS J1939Transfer, FiniteSetTheorems, SequenceTheorems, WellFoundedInduction, TLAPS
-----------------------------------------------------------------------------
(* Types. *)

FromO == {"RTS", "BAM", "DPO", "DAT", "ABORT", "SIMPLE"}
FromR == {"CTS", "EOMA", "ABORT"}
Cmds == FromO \cup FromR
DataRec == [msg : Nat, pkt : Int]
FrameRec ==
  [from : Nodes, cmd : Cmds, type : Types, len : Int, pkt : Int, data : DataRec]
Buffers == UNION {[0..t - 1 -> DataRec] : t \in Nat}
SessRec ==
  [st : {"none", "new", "active", "waiting", "done", "freed"}, cmd : Cmds \cup {"none"},
   txcmd : Cmds \cup {"none"}, tx : Int, last : Int, acked : Int, rx : Int, dpo : Int,
   txt : {"off", "now", "later"}, rxt : BOOLEAN, refs : Int, retry : Nat, err : BOOLEAN,
   buf : Buffers]
ViewRec ==
  [s : SessRec, out : Seq(FrameRec), ret : {"ok", "nobufs", "netdown", "noent"},
   next : BOOLEAN, recv : BOOLEAN]

\* References that no timer holds.
Spare(s) == s.refs - ((IF s.txt = "off" THEN 0 ELSE 1) + (IF s.rxt THEN 1 ELSE 0))

\* What the packets of a message depend on.
Same(s, t) ==
  /\ t.cmd = s.cmd /\ t.txcmd = s.txcmd /\ t.tx = s.tx /\ t.last = s.last /\ t.acked = s.acked
  /\ t.rx = s.rx /\ t.dpo = s.dpo /\ t.buf = s.buf
Goes(s, t) == t.st = s.st \/ (Live(s) /\ t.st \in {"waiting", "done"})

-----------------------------------------------------------------------------
(* The views of a handler. *)

LEMMA SpareInt == \A s \in SessRec : Spare(s) \in Int
  BY DEF SessRec, Spare

\* What a handler leaves alone besides the session.
Beside(h, g) == g.out = h.out /\ g.ret = h.ret /\ g.next = h.next /\ g.recv = h.recv

LEMMA WithSession ==
  ASSUME NEW h \in ViewRec, NEW s \in SessRec, NEW g, g = [h EXCEPT !.s = s]
  PROVE  /\ g \in ViewRec /\ g.s = s /\ g.out = h.out /\ g.ret = h.ret /\ g.next = h.next
         /\ g.recv = h.recv
         /\ Beside(h, g)
  BY DEF ViewRec, Beside

\* Timers change, with the references they hold.
Timed(h, g) ==
  g \in ViewRec /\ Same(h.s, g.s) /\ g.s.st = h.s.st /\ Beside(h, g) /\ Spare(g.s) = Spare(h.s)

LEMMA TxtimerStarts ==
  ASSUME NEW h \in ViewRec, NEW w \in {"now", "later"}, NEW g, g = j1939_tp_schedule_txtimer(h, w)
  PROVE  /\ g \in ViewRec /\ Same(h.s, g.s) /\ g.s.st = h.s.st /\ Beside(h, g) /\ g.s.txt = w
         /\ Spare(g.s) = Spare(h.s) + (IF h.s.txt = "off" THEN 0 ELSE 1)
<1>1. h.s \in SessRec /\ h.s.refs + 1 \in Int /\ h.s.txt \in {"off", "now", "later"}
  BY DEF ViewRec, SessRec
<1>2. PICK t : t = [h.s EXCEPT !.txt = w, !.refs = h.s.refs + 1]
  OBVIOUS
<1>3. g = [h EXCEPT !.s = t]
  BY <1>2 DEF j1939_tp_schedule_txtimer, ViewRec, SessRec
<1>4. t \in SessRec /\ t.txt = w /\ t.rxt = h.s.rxt /\ t.refs = h.s.refs + 1 /\ Same(h.s, t) /\ t.st = h.s.st
  BY <1>2, <1>1 DEF SessRec, Same
<1>5. g \in ViewRec /\ g.s = t /\ Beside(h, g)
  BY <1>3, <1>4, WithSession
<1>6. h.s.rxt \in BOOLEAN /\ h.s.refs \in Int
  BY <1>1 DEF SessRec
<1>7. Spare(t) = Spare(h.s) + (IF h.s.txt = "off" THEN 0 ELSE 1)
  BY <1>4, <1>6 DEF Spare
<1> QED
  BY <1>4, <1>5, <1>7

LEMMA TxtimerStops ==
  ASSUME NEW h \in ViewRec, NEW g, g = j1939_session_txtimer_cancel(h)
  PROVE  Timed(h, g) /\ g.s.txt = "off" /\ g.s.rxt = h.s.rxt
<1>1. h.s \in SessRec /\ h.s.refs - 1 \in Int /\ h.s.refs \in Int /\ h.s.rxt \in BOOLEAN
  BY DEF ViewRec, SessRec
<1>2. CASE h.s.txt = "off"
  BY <1>2 DEF j1939_session_txtimer_cancel, Timed, Same, Beside
<1>3. CASE h.s.txt # "off"
  <2>1. PICK t : t = [h.s EXCEPT !.txt = "off", !.refs = h.s.refs - 1]
    OBVIOUS
  <2>2. g = [h EXCEPT !.s = t]
    BY <1>3, <2>1 DEF j1939_session_txtimer_cancel, ViewRec, SessRec
  <2>3. t \in SessRec /\ t.txt = "off" /\ t.rxt = h.s.rxt /\ t.refs = h.s.refs - 1 /\ Same(h.s, t) /\ t.st = h.s.st
    BY <1>1, <2>1 DEF SessRec, Same
  <2>4. g \in ViewRec /\ g.s = t /\ Beside(h, g)
    BY <2>2, <2>3, WithSession
  <2>5. Spare(t) = Spare(h.s)
    BY <1>1, <1>3, <2>3 DEF Spare
  <2> QED
    BY <2>3, <2>4, <2>5 DEF Timed
<1> QED
  BY <1>2, <1>3

LEMMA RxtimerStops ==
  ASSUME NEW h \in ViewRec, NEW g, g = j1939_session_rxtimer_cancel(h)
  PROVE  Timed(h, g) /\ g.s.rxt = FALSE /\ g.s.txt = h.s.txt
<1>1. h.s \in SessRec /\ h.s.refs - 1 \in Int /\ h.s.refs \in Int /\ h.s.rxt \in BOOLEAN
  BY DEF ViewRec, SessRec
<1>2. CASE ~h.s.rxt
  BY <1>1, <1>2 DEF j1939_session_rxtimer_cancel, Timed, Same, Beside
<1>3. CASE h.s.rxt
  <2>1. PICK t : t = [h.s EXCEPT !.rxt = FALSE, !.refs = h.s.refs - 1]
    OBVIOUS
  <2>2. g = [h EXCEPT !.s = t]
    BY <1>3, <2>1 DEF j1939_session_rxtimer_cancel, ViewRec, SessRec
  <2>3. t \in SessRec /\ t.txt = h.s.txt /\ t.rxt = FALSE /\ t.refs = h.s.refs - 1 /\ Same(h.s, t) /\ t.st = h.s.st
    BY <1>1, <2>1 DEF SessRec, Same
  <2>4. g \in ViewRec /\ g.s = t /\ Beside(h, g)
    BY <2>2, <2>3, WithSession
  <2>5. Spare(t) = Spare(h.s)
    BY <1>1, <1>3, <2>3 DEF Spare
  <2> QED
    BY <2>3, <2>4, <2>5 DEF Timed
<1> QED
  BY <1>2, <1>3

LEMMA RxtimerStarts ==
  ASSUME NEW h \in ViewRec, NEW g, g = j1939_tp_set_rxtimeout(h)
  PROVE  Timed(h, g) /\ g.s.rxt = TRUE /\ g.s.txt = h.s.txt
<1> DEFINE c == j1939_session_rxtimer_cancel(h)
<1>1. Timed(h, c) /\ c.s.rxt = FALSE /\ c.s.txt = h.s.txt
  BY RxtimerStops
<1>2. g = [c EXCEPT !.s.rxt = TRUE, !.s.refs = c.s.refs + 1]
  BY DEF j1939_tp_set_rxtimeout
<1> HIDE DEF c
<1>3. c \in ViewRec /\ c.s \in SessRec /\ c.s.refs + 1 \in Int /\ c.s.refs \in Int
  BY <1>1 DEF Timed, ViewRec, SessRec
<1>4. PICK t : t = [c.s EXCEPT !.rxt = TRUE, !.refs = c.s.refs + 1]
  OBVIOUS
<1>5. g = [c EXCEPT !.s = t]
  BY <1>4, <1>2, <1>3 DEF ViewRec, SessRec
<1>6. t \in SessRec /\ t.txt = c.s.txt /\ t.rxt = TRUE /\ t.refs = c.s.refs + 1 /\ Same(c.s, t) /\ t.st = c.s.st
  BY <1>4, <1>3 DEF SessRec, Same
<1>7. g \in ViewRec /\ g.s = t /\ Beside(c, g)
  BY <1>3, <1>5, <1>6, WithSession
<1>8. Spare(t) = Spare(c.s)
  BY <1>1, <1>3, <1>6 DEF Spare
<1> QED
  BY <1>1, <1>6, <1>7, <1>8 DEF Timed, Same, Beside

LEMMA TimersStop ==
  ASSUME NEW h \in ViewRec, NEW g, g = j1939_session_timers_cancel(h)
  PROVE  Timed(h, g) /\ g.s.txt = "off" /\ g.s.rxt = FALSE
<1> DEFINE c == j1939_session_txtimer_cancel(h)
<1>1. Timed(h, c) /\ c.s.txt = "off"
  BY TxtimerStops
<1>2. c \in ViewRec
  BY <1>1 DEF Timed
<1> HIDE DEF c
<1>3. Timed(c, j1939_session_rxtimer_cancel(c)) /\ j1939_session_rxtimer_cancel(c).s.rxt = FALSE
      /\ j1939_session_rxtimer_cancel(c).s.txt = c.s.txt
  BY <1>2, RxtimerStops
<1>4. g = j1939_session_rxtimer_cancel(c)
  BY DEF j1939_session_timers_cancel, c
<1> QED
  BY <1>1, <1>3, <1>4 DEF Timed, Same, Beside

\* Frames that a node gives to its device's queue, of the session of message k.
OwnFrame(n, k, f) ==
  /\ f \in FrameRec /\ f.from = n /\ f.data.msg = k /\ f.type = Type(k)
  /\ f.cmd \in IF n = "o" THEN FromO ELSE FromR

\* g is h with fs sent.
Sends(h, g, fs) == fs \in Seq(FrameRec) /\ g.out = h.out \o fs

\* A session ends or is aborted; an abort may be sent.
Ends(n, k, h, g) ==
  /\ g \in ViewRec /\ Same(h.s, g.s) /\ Goes(h.s, g.s) /\ Spare(g.s) = Spare(h.s)
  /\ g.s.txt = h.s.txt /\ g.ret = h.ret /\ g.recv = h.recv
  /\ \/ g.out = h.out
     \/ g.out = Append(h.out, Ctl(n, "ABORT", k, 0, 0))

LEMMA CtlType ==
  ASSUME NEW n \in Nodes, NEW c \in Cmds, NEW k \in Msgs, Type(k) \in Types, k \in Nat,
         NEW l \in Int, NEW p \in Int, NEW f, f = Ctl(n, c, k, l, p)
  PROVE  /\ f \in FrameRec /\ f.from = n /\ f.cmd = c /\ f.type = Type(k) /\ f.len = l /\ f.pkt = p
         /\ f.data.msg = k
  BY DEF Ctl, Frame, FrameRec, NoData, DataRec

LEMMA AbortFrame ==
  ASSUME NEW n \in Nodes, NEW k \in Msgs, Type(k) \in Types, k \in Nat, NEW f, f = Ctl(n, "ABORT", k, 0, 0)
  PROVE  f \in FrameRec /\ f.cmd = "ABORT"
<1>1. "ABORT" \in Cmds /\ 0 \in Int
  BY DEF Cmds, FromO
<1>2. PICK c, z : c = "ABORT" /\ z = 0
  OBVIOUS
<1>3. c \in Cmds /\ z \in Int /\ f = Ctl(n, c, k, z, z)
  BY <1>1, <1>2
<1> QED
  BY <1>2, <1>3, CtlType

LEMMA SendIs ==
  ASSUME NEW h \in ViewRec, NEW n \in Nodes, NEW f \in FrameRec, NEW g, g = Send(h, n, f)
  PROVE  /\ g \in ViewRec /\ g.s = h.s /\ g.next = h.next /\ g.recv = h.recv
         /\ g.ret \in {"ok", "nobufs", "netdown"}
         /\ g.out = IF g.ret = "ok" THEN Append(h.out, f) ELSE h.out
<1>1. CanSend(n, h) \in {"ok", "nobufs", "netdown"}
  BY DEF CanSend
<1>2. h.out \in Seq(FrameRec) /\ Append(h.out, f) \in Seq(FrameRec)
  BY DEF ViewRec
<1> QED
  BY <1>1, <1>2 DEF Send, ViewRec

LEMMA Deactivates ==
  ASSUME NEW h \in ViewRec, NEW n, NEW k, NEW g,
         g \in {j1939_session_deactivate(h), j1939_session_deactivate_activate_next(h)}
  PROVE  /\ Ends(n, k, h, g) /\ ~Live(g.s) /\ g.s.st = (IF Live(h.s) THEN "done" ELSE h.s.st)
         /\ g.out = h.out /\ g.s.rxt = h.s.rxt
<1>1. CASE ~Live(h.s)
  BY <1>1 DEF j1939_session_deactivate, j1939_session_deactivate_activate_next, Ends, Same, Goes
<1>2. CASE Live(h.s)
  <2>1. h.s \in SessRec
    BY DEF ViewRec
  <2>2. PICK t : t = [h.s EXCEPT !.st = "done"]
    OBVIOUS
  <2>3. /\ t \in SessRec /\ Same(h.s, t) /\ t.st = "done" /\ t.txt = h.s.txt /\ t.rxt = h.s.rxt
        /\ t.refs = h.s.refs
    BY <2>1, <2>2 DEF SessRec, Same
  <2>4. g.s = t /\ g \in ViewRec /\ g.out = h.out /\ g.ret = h.ret /\ g.recv = h.recv
    <3>1. CASE g = j1939_session_deactivate(h)
      <4>1. g = [h EXCEPT !.s = t]
        BY <1>2, <2>1, <2>2, <3>1 DEF j1939_session_deactivate, ViewRec, SessRec
      <4> QED
        BY <2>3, <4>1, WithSession
    <3>2. CASE g = j1939_session_deactivate_activate_next(h)
      <4>1. g = [h EXCEPT !.s = t, !.next = TRUE]
        BY <1>2, <2>1, <2>2, <3>2 DEF j1939_session_deactivate_activate_next, ViewRec, SessRec
      <4> QED
        BY <2>3, <4>1 DEF ViewRec
    <3> QED
      BY <3>1, <3>2
  <2> QED
    BY <1>2, <2>3, <2>4 DEF Ends, Goes, Live, Spare
<1> QED
  BY <1>1, <1>2

LEMMA AbortIs ==
  ASSUME NEW h \in ViewRec, NEW n \in Nodes, NEW k \in Msgs, Type(k) \in Types, k \in Nat, Live(h.s),
         NEW g, g = AbortSent(h, n, k)
  PROVE  Ends(n, k, h, g) /\ g.s.st = "waiting" /\ g.s.rxt = h.s.rxt
<1>1. h.s \in SessRec
  BY DEF ViewRec
<1>2. PICK t : t = [h.s EXCEPT !.err = TRUE, !.st = "waiting"]
  OBVIOUS
<1>3. /\ t \in SessRec /\ Same(h.s, t) /\ t.st = "waiting" /\ t.txt = h.s.txt /\ t.rxt = h.s.rxt
      /\ t.refs = h.s.refs
  BY <1>1, <1>2 DEF SessRec, Same
<1>4. PICK v : v = [h EXCEPT !.s.err = TRUE, !.s.st = "waiting"]
  OBVIOUS
<1>5. v = [h EXCEPT !.s = t]
  BY <1>1, <1>2, <1>4 DEF ViewRec, SessRec
<1>6. /\ v \in ViewRec /\ v.s = t /\ v.out = h.out /\ v.ret = h.ret /\ v.recv = h.recv
  BY <1>3, <1>5, WithSession
<1>7. PICK f : f = Ctl(n, "ABORT", k, 0, 0)
  OBVIOUS
<1>8. f \in FrameRec
  BY <1>7, AbortFrame
<1>9. PICK w : w = Send(v, n, f)
  OBVIOUS
<1>10. /\ w \in ViewRec /\ w.s = t /\ w.recv = h.recv
       /\ w.out \in {h.out, Append(h.out, f)}
  <2>1. /\ w \in ViewRec /\ w.s = v.s /\ w.recv = v.recv
        /\ w.out = IF w.ret = "ok" THEN Append(v.out, f) ELSE v.out
    BY <1>6, <1>8, <1>9, SendIs
  <2> QED
    BY <1>6, <2>1
<1>11. g = v \/ g = [w EXCEPT !.ret = h.ret]
  BY <1>4, <1>7, <1>9 DEF AbortSent
<1>12. /\ g \in ViewRec /\ g.s = t /\ g.ret = h.ret /\ g.recv = h.recv
       /\ g.out \in {h.out, Append(h.out, f)}
  BY <1>6, <1>10, <1>11 DEF ViewRec
<1>13. Spare(t) = Spare(h.s)
  BY <1>3 DEF Spare
<1> QED
  BY <1>3, <1>7, <1>12, <1>13 DEF Ends, Goes

LEMMA CancelIs ==
  ASSUME NEW h \in ViewRec, NEW n \in Nodes, NEW k \in Msgs, Type(k) \in Types, k \in Nat,
         NEW g, g = j1939_session_cancel(h, n, k)
  PROVE  Ends(n, k, h, g)
<1>1. CASE h.s.st # "active"
  BY <1>1 DEF j1939_session_cancel, Ends, Same, Goes
<1>2. CASE h.s.st = "active"
  <2>1. PICK c : c = j1939_tp_set_rxtimeout(h)
    OBVIOUS
  <2>2. Timed(h, c) /\ c.s.txt = h.s.txt
    BY <2>1, RxtimerStarts
  <2>3. c \in ViewRec /\ Live(c.s) /\ Live(h.s)
    BY <1>2, <2>2 DEF Timed, Live
  <2>4. Ends(n, k, c, g)
    BY <1>2, <2>1, <2>3, AbortIs DEF j1939_session_cancel
  <2> QED
    BY <2>2, <2>3, <2>4 DEF Ends, Timed, Same, Goes, Beside
<1> QED
  BY <1>1, <1>2

LEMMA CompletedIs ==
  ASSUME NEW h \in ViewRec, NEW n, NEW k, NEW g, g = j1939_session_completed(h, n)
  PROVE  /\ g \in ViewRec /\ Same(h.s, g.s) /\ Goes(h.s, g.s) /\ Spare(g.s) = Spare(h.s) /\ ~Live(g.s)
         /\ g.s.txt = h.s.txt /\ g.ret = h.ret /\ g.out = h.out /\ g.recv = (n = "r")
<1>1. PICK c : c = j1939_session_deactivate_activate_next(h)
  OBVIOUS
<1>2. Ends(n, k, h, c) /\ ~Live(c.s) /\ c.out = h.out
  BY <1>1, Deactivates
<1>3. g = [c EXCEPT !.recv = (n = "r")]
  BY <1>1 DEF j1939_session_completed
<1>4. g \in ViewRec /\ g.s = c.s /\ g.ret = c.ret /\ g.out = c.out /\ g.recv = (n = "r")
  BY <1>2, <1>3 DEF ViewRec, Ends
<1> QED
  BY <1>2, <1>4 DEF Ends

-----------------------------------------------------------------------------
(* What the tx timer sends. *)

\* The messages are those of a script.
LEMMA Scripts ==
  ASSUME mode \in Modes
  PROVE  /\ Msgs = 1..Len(mode.script) /\ Len(mode.script) \in Nat
         /\ \A k \in Msgs : /\ k \in Nat /\ Type(k) \in Types /\ Total(k) \in Nat \ {0}
                            /\ Type(k) = "simple" => Total(k) = 1
<1>1. PICK c : c = mode.script
  OBVIOUS
<1>2. c \in Seq([type : Types, total : Nat \ {0}])
      /\ \A i \in DOMAIN c : c[i].type = "simple" => c[i].total = 1
  BY <1>1, TransferAssumption
<1>3. DOMAIN c = 1..Len(c) /\ Len(c) \in Nat
  BY <1>2
<1>4. \A k \in DOMAIN c : k \in Nat /\ c[k] \in [type : Types, total : Nat \ {0}]
  <2> SUFFICES ASSUME NEW k \in 1..Len(c)
               PROVE  k \in Nat /\ c[k] \in [type : Types, total : Nat \ {0}]
    BY <1>3
  <2>1. k \in Nat
    BY <1>3
  <2>2. c[k] \in [type : Types, total : Nat \ {0}]
    BY <1>2, ElementOfSeq
  <2> QED
    BY <2>1, <2>2
<1> QED
  BY <1>1, <1>2, <1>3, <1>4 DEF Msgs, Type, Total

\* What a step of the tx timer leaves of a session.
Kept(s, t) == t.cmd = s.cmd /\ t.last = s.last /\ t.acked = s.acked /\ t.rx = s.rx /\ t.buf = s.buf

\* The opening frame of a message, if it was not sent before.
Opening(k) == IF Type(k) = "bam" THEN "BAM" ELSE "RTS"

RtsSent(n, k, h, g) ==
  /\ g \in ViewRec /\ g.s.st = h.s.st /\ Spare(g.s) = Spare(h.s) /\ g.recv = h.recv
  /\ g.ret \in {h.ret, "ok", "nobufs", "netdown"}
  /\ Kept(h.s, g.s) /\ g.s.tx = h.s.tx /\ g.s.dpo = h.s.dpo
  /\ \/ g.s.txcmd = h.s.txcmd /\ g.out = h.out /\ g.s.txt = "off"
     \/ /\ h.s.txcmd # Opening(k) /\ g.s.txcmd = Opening(k)
        /\ g.out = Append(h.out, Ctl(n, Opening(k), k, Total(k), 0))
        /\ g.ret = "ok" /\ g.s.txt = IF Opening(k) = "BAM" THEN "later" ELSE "off"

LEMMA RtsIs ==
  ASSUME NEW h \in ViewRec, NEW n \in Nodes, NEW k \in Msgs, mode \in Modes, h.s.txt = "off",
         NEW g, g = j1939_session_tx_rts(h, n, k)
  PROVE  RtsSent(n, k, h, g)
<1> DEFINE c == Opening(k)
<1>1. c = (IF Type(k) = "bam" THEN "BAM" ELSE "RTS")
  BY DEF Opening
<1> HIDE DEF c
<1>2. k \in Nat /\ Type(k) \in Types /\ Total(k) \in Int
  BY Scripts
<1>3. PICK f : f = Ctl(n, c, k, Total(k), 0)
  OBVIOUS
<1>4. f \in FrameRec
  <2>1. c \in Cmds /\ 0 \in Int
    BY <1>1 DEF Cmds, FromO
  <2> QED
    BY <1>1, <1>2, <1>3, <2>1, CtlType
<1>5. PICK w : w = Send(h, n, f)
  OBVIOUS
<1>6. /\ w \in ViewRec /\ w.s = h.s /\ w.recv = h.recv /\ w.ret \in {"ok", "nobufs", "netdown"}
      /\ w.out = IF w.ret = "ok" THEN Append(h.out, f) ELSE h.out
  BY <1>4, <1>5, SendIs
<1>7. CASE h.s.txcmd = c
  <2>1. g = h
    BY <1>1, <1>7 DEF j1939_session_tx_rts
  <2> QED
    BY <2>1 DEF Kept, RtsSent
<1>8. CASE h.s.txcmd # c /\ w.ret # "ok"
  <2>1. g = w
    BY <1>1, <1>3, <1>5, <1>8 DEF j1939_session_tx_rts
  <2> QED
    BY <1>6, <1>8, <2>1 DEF Kept, RtsSent
<1>9. CASE h.s.txcmd # c /\ w.ret = "ok"
  <2>1. PICK t : t = [w.s EXCEPT !.txcmd = c]
    OBVIOUS
  <2>2. PICK d : d = [w EXCEPT !.s.txcmd = c]
    OBVIOUS
  <2>3. c \in Cmds \cup {"none"} /\ w.s \in SessRec
    BY <1>1, <1>6 DEF Cmds, FromO, ViewRec
  <2>4. t \in SessRec /\ t.txcmd = c /\ Kept(h.s, t) /\ t.tx = h.s.tx /\ t.dpo = h.s.dpo /\ t.st = h.s.st
        /\ t.txt = "off" /\ t.rxt = h.s.rxt /\ t.refs = h.s.refs
    BY <1>6, <2>1, <2>3 DEF SessRec, Kept
  <2>5. d = [w EXCEPT !.s = t]
    BY <2>1, <2>2, <1>6 DEF ViewRec, SessRec
  <2>6. d \in ViewRec /\ d.s = t /\ d.out = w.out /\ d.ret = w.ret /\ d.recv = w.recv
    BY <1>6, <2>4, <2>5, WithSession
  <2>7. PICK e : e = IF c = "BAM" THEN j1939_tp_schedule_txtimer(d, "later") ELSE d
    OBVIOUS
  <2>8. /\ e \in ViewRec /\ Same(t, e.s) /\ e.s.st = t.st /\ Beside(d, e) /\ Spare(e.s) = Spare(t)
        /\ e.s.txt = IF c = "BAM" THEN "later" ELSE "off"
    <3>1. CASE c = "BAM"
      <4>1. /\ e \in ViewRec /\ Same(d.s, e.s) /\ e.s.st = d.s.st /\ Beside(d, e) /\ e.s.txt = "later"
            /\ Spare(e.s) = Spare(d.s) + 0
        BY <2>4, <2>6, <2>7, <3>1, TxtimerStarts
      <4> QED
        BY <2>4, <2>6, <3>1, <4>1, SpareInt
    <3>2. CASE c # "BAM"
      BY <2>4, <2>6, <2>7, <3>2 DEF Same, Beside
    <3> QED
      BY <3>1, <3>2
  <2>9. g = j1939_tp_set_rxtimeout(e)
    BY <1>1, <1>3, <1>5, <1>9, <2>2, <2>7 DEF j1939_session_tx_rts
  <2>10. Timed(e, g) /\ g.s.txt = e.s.txt
    BY <2>8, <2>9, RxtimerStarts
  <2>11. Spare(t) = Spare(h.s)
    BY <2>4 DEF Spare
  <2>12. g.out = Append(h.out, f) /\ g.ret = "ok" /\ g.recv = h.recv
    BY <1>6, <1>9, <2>6, <2>8, <2>10 DEF Timed, Beside
  <2> QED
    BY <1>3, <1>9, <2>4, <2>8, <2>10, <2>11, <2>12 DEF Timed, Same, Kept, RtsSent, c
<1> QED
  BY <1>7, <1>8, <1>9

\* The DPO of a block.
DpoSent(n, k, h, g) ==
  /\ g \in ViewRec /\ g.s.st = h.s.st /\ Spare(g.s) = Spare(h.s) /\ g.recv = h.recv
  /\ g.ret \in {"ok", "nobufs", "netdown"}
  /\ Kept(h.s, g.s) /\ g.s.dpo = h.s.acked /\ g.s.txt = "off"
  /\ IF g.ret = "ok"
     THEN /\ g.out = Append(h.out, Ctl(n, "DPO", k, h.s.last - h.s.acked, h.s.acked))
          /\ g.s.txcmd = "DPO" /\ g.s.tx = h.s.acked
     ELSE g.out = h.out /\ g.s.txcmd = h.s.txcmd /\ g.s.tx = h.s.tx

LEMMA DpoIs ==
  ASSUME NEW h \in ViewRec, NEW n \in Nodes, NEW k \in Msgs, mode \in Modes, h.s.txt = "off",
         NEW g, g = j1939_session_tx_dpo(h, n, k)
  PROVE  DpoSent(n, k, h, g)
<1>1. k \in Nat /\ Type(k) \in Types
  BY Scripts
<1>2. h.s \in SessRec /\ h.s.acked \in Int /\ h.s.last - h.s.acked \in Int
  BY DEF ViewRec, SessRec
<1>3. PICK f : f = Ctl(n, "DPO", k, h.s.last - h.s.acked, h.s.acked)
  OBVIOUS
<1>4. f \in FrameRec
  <2>1. "DPO" \in Cmds
    BY DEF Cmds, FromO
  <2> QED
    BY <1>1, <1>2, <1>3, <2>1, CtlType
<1>5. PICK t : t = [h.s EXCEPT !.dpo = h.s.acked]
  OBVIOUS
<1>6. t \in SessRec /\ t.dpo = h.s.acked /\ t.txcmd = h.s.txcmd /\ Kept(h.s, t) /\ t.tx = h.s.tx
      /\ t.st = h.s.st /\ t.txt = "off" /\ t.rxt = h.s.rxt /\ t.refs = h.s.refs
  BY <1>2, <1>5 DEF SessRec, Kept
<1>7. PICK v : v = [h EXCEPT !.s.dpo = h.s.acked]
  OBVIOUS
<1>8. v = [h EXCEPT !.s = t]
  BY <1>2, <1>5, <1>7 DEF ViewRec, SessRec
<1>9. v \in ViewRec /\ v.s = t /\ v.out = h.out /\ v.recv = h.recv
  BY <1>6, <1>8, WithSession
<1>10. PICK w : w = Send(v, n, f)
  OBVIOUS
<1>11. /\ w \in ViewRec /\ w.s = v.s /\ w.recv = v.recv /\ w.ret \in {"ok", "nobufs", "netdown"}
       /\ w.out = IF w.ret = "ok" THEN Append(v.out, f) ELSE v.out
  BY <1>4, <1>9, <1>10, SendIs
<1>12. Spare(t) = Spare(h.s)
  BY <1>6 DEF Spare
<1>13. CASE w.ret # "ok"
  <2>1. g = w
    BY <1>3, <1>7, <1>10, <1>13 DEF j1939_session_tx_dpo
  <2> QED
    BY <1>6, <1>9, <1>11, <1>12, <1>13, <2>1 DEF DpoSent
<1>14. CASE w.ret = "ok"
  <2>1. PICK z : z = [t EXCEPT !.txcmd = "DPO", !.tx = h.s.acked]
    OBVIOUS
  <2>2. /\ z \in SessRec /\ z.dpo = h.s.acked /\ z.txcmd = "DPO" /\ Kept(h.s, z) /\ z.tx = h.s.acked
        /\ z.st = h.s.st /\ z.txt = "off" /\ z.rxt = h.s.rxt /\ z.refs = h.s.refs
    BY <1>2, <1>6, <2>1 DEF SessRec, Kept, Cmds, FromO
  <2>3. PICK d : d = [w EXCEPT !.s.txcmd = "DPO", !.s.tx = h.s.acked]
    OBVIOUS
  <2>4. d = [w EXCEPT !.s = z]
    BY <1>6, <1>9, <1>11, <2>1, <2>3 DEF ViewRec, SessRec
  <2>5. d \in ViewRec /\ d.s = z /\ d.out = w.out /\ d.ret = w.ret /\ d.recv = w.recv
    BY <1>11, <2>2, <2>4, WithSession
  <2>6. g = j1939_tp_set_rxtimeout(d)
    BY <1>3, <1>7, <1>10, <1>14, <2>3 DEF j1939_session_tx_dpo
  <2>7. Timed(d, g) /\ g.s.txt = d.s.txt
    BY <2>5, <2>6, RxtimerStarts
  <2>8. Spare(z) = Spare(h.s)
    BY <2>2 DEF Spare
  <2> QED
    BY <1>3, <1>9, <1>11, <1>14, <2>2, <2>5, <2>7, <2>8 DEF Timed, Same, Kept, Beside, DpoSent
<1> QED
  BY <1>13, <1>14

-----------------------------------------------------------------------------
(* What a queue of frames holds. *)

\* No frame of S.
None(q, S) == \A i \in 1..Len(q) : q[i] \notin S

\* Each frame of S is at or before each frame of T.
Behind(q, S, T) == \A i, j \in 1..Len(q) : q[i] \in S /\ q[j] \in T => i <= j

\* Frames of S are added.
Adds(p, q, S) == \E a \in Seq(S) : q = p \o a

LEMMA NoneConcat ==
  ASSUME NEW R, NEW p \in Seq(R), NEW a \in Seq(R), NEW S
  PROVE  None(p \o a, S) <=> None(p, S) /\ None(a, S)
<1>1. /\ Len(p \o a) = Len(p) + Len(a) /\ Len(p) \in Nat /\ Len(a) \in Nat
      /\ \A i \in 1..Len(p) : (p \o a)[i] = p[i]
      /\ \A i \in 1..Len(p) + Len(a) : i > Len(p) => (p \o a)[i] = a[i - Len(p)]
  OBVIOUS
<1>2. \A i \in 1..Len(a) : (p \o a)[i + Len(p)] = a[i]
  BY <1>1
<1>3. ASSUME None(p \o a, S)
      PROVE  None(p, S) /\ None(a, S)
  <2>1. \A i \in 1..Len(p) : i \in 1..Len(p) + Len(a)
    BY <1>1
  <2>2. \A i \in 1..Len(a) : i + Len(p) \in 1..Len(p) + Len(a)
    BY <1>1
  <2>3. None(p, S)
    BY <1>1, <1>3, <2>1 DEF None
  <2>4. None(a, S)
    BY <1>1, <1>2, <1>3, <2>2 DEF None
  <2> QED
    BY <2>3, <2>4
<1>4. ASSUME None(p, S), None(a, S)
      PROVE  None(p \o a, S)
  <2> SUFFICES ASSUME NEW i \in 1..Len(p) + Len(a)
               PROVE  (p \o a)[i] \notin S
    BY <1>1 DEF None
  <2>1. CASE i <= Len(p)
    BY <1>1, <1>4, <2>1 DEF None
  <2>2. CASE i > Len(p)
    <3>1. i - Len(p) \in 1..Len(a)
      BY <1>1, <2>2
    <3> QED
      BY <1>1, <1>4, <2>2, <3>1 DEF None
  <2> QED
    BY <1>1, <2>1, <2>2
<1> QED
  BY <1>3, <1>4

LEMMA BehindConcat ==
  ASSUME NEW R, NEW p \in Seq(R), NEW a \in Seq(R), NEW S, NEW T,
         Behind(p, S, T), Behind(a, S, T), None(a, S) \/ None(p, T)
  PROVE  Behind(p \o a, S, T)
<1>1. /\ Len(p \o a) = Len(p) + Len(a) /\ Len(p) \in Nat /\ Len(a) \in Nat
      /\ \A i \in 1..Len(p) : (p \o a)[i] = p[i]
      /\ \A i \in 1..Len(p) + Len(a) : i > Len(p) => (p \o a)[i] = a[i - Len(p)]
  OBVIOUS
<1> DEFINE c == p \o a
<1> SUFFICES ASSUME NEW i \in 1..Len(p) + Len(a), NEW j \in 1..Len(p) + Len(a), c[i] \in S, c[j] \in T, i > j
             PROVE  FALSE
  BY <1>1 DEF Behind
<1>2. CASE i <= Len(p)
  <2>1. c[i] = p[i] /\ c[j] = p[j] /\ i \in 1..Len(p) /\ j \in 1..Len(p)
    BY <1>1, <1>2
  <2> QED
    BY <2>1 DEF Behind
<1>3. CASE j > Len(p)
  <2>1. c[i] = a[i - Len(p)] /\ c[j] = a[j - Len(p)] /\ i - Len(p) \in 1..Len(a) /\ j - Len(p) \in 1..Len(a)
        /\ i - Len(p) > j - Len(p)
    BY <1>1, <1>3
  <2> QED
    BY <2>1 DEF Behind
<1>4. CASE i > Len(p) /\ j <= Len(p)
  <2>1. c[i] = a[i - Len(p)] /\ c[j] = p[j] /\ i - Len(p) \in 1..Len(a) /\ j \in 1..Len(p)
    BY <1>1, <1>4
  <2> QED
    BY <2>1 DEF None
<1> QED
  BY <1>1, <1>2, <1>3, <1>4

LEMMA Appended ==
  ASSUME NEW R, NEW p \in Seq(R), NEW f \in R, NEW S, NEW T
  PROVE  /\ Append(p, f) \in Seq(R)
         /\ None(Append(p, f), S) <=> None(p, S) /\ f \notin S
         /\ Behind(p, S, T) /\ (f \notin S \/ None(p, T)) => Behind(Append(p, f), S, T)
<1>1. /\ Len(Append(p, f)) = Len(p) + 1 /\ Len(p) \in Nat /\ Append(p, f)[Len(p) + 1] = f
      /\ \A i \in 1..Len(p) : Append(p, f)[i] = p[i]
  OBVIOUS
<1>2. None(Append(p, f), S) <=> None(p, S) /\ f \notin S
  <2>1. ASSUME None(Append(p, f), S)
        PROVE  None(p, S) /\ f \notin S
    <3>1. Len(p) + 1 \in 1..Len(p) + 1
      BY <1>1
    <3> QED
      BY <1>1, <2>1, <3>1 DEF None
  <2>2. ASSUME None(p, S), f \notin S
        PROVE  None(Append(p, f), S)
    BY <1>1, <2>2 DEF None
  <2> QED
    BY <2>1, <2>2
<1>3. ASSUME Behind(p, S, T), f \notin S \/ None(p, T)
      PROVE  Behind(Append(p, f), S, T)
  <2> SUFFICES ASSUME NEW i \in 1..Len(p) + 1, NEW j \in 1..Len(p) + 1, Append(p, f)[i] \in S,
                      Append(p, f)[j] \in T, i > j
               PROVE  FALSE
    BY <1>1 DEF Behind
  <2>1. j \in 1..Len(p) /\ Append(p, f)[j] = p[j]
    BY <1>1
  <2>2. CASE i = Len(p) + 1
    BY <1>1, <1>3, <2>1, <2>2 DEF None
  <2>3. CASE i \in 1..Len(p)
    BY <1>1, <1>3, <2>1, <2>3 DEF Behind
  <2> QED
    BY <1>1, <2>2, <2>3
<1> QED
  BY <1>1, <1>2, <1>3

LEMMA Taking ==
  ASSUME NEW R, NEW q \in Seq(R), q # <<>>, NEW S, NEW T
  PROVE  /\ Head(q) \in R /\ Tail(q) \in Seq(R)
         /\ None(q, S) <=> Head(q) \notin S /\ None(Tail(q), S)
         /\ Behind(q, S, T) => Behind(Tail(q), S, T)
         /\ Behind(q, S, T) /\ Head(q) \in T => None(Tail(q), S)
<1>1. /\ Head(q) = q[1] /\ Len(q) \in Nat /\ Len(q) >= 1 /\ Len(Tail(q)) = Len(q) - 1
      /\ \A i \in 1..Len(q) - 1 : Tail(q)[i] = q[i + 1]
      /\ Head(q) \in R /\ Tail(q) \in Seq(R)
  OBVIOUS
<1>2. \A i \in 1..Len(q) - 1 : i + 1 \in 1..Len(q) /\ i + 1 # 1
  BY <1>1
<1>3. 1 \in 1..Len(q)
  BY <1>1
<1>4. None(q, S) => Head(q) \notin S /\ None(Tail(q), S)
  BY <1>1, <1>2, <1>3 DEF None
<1>5. Head(q) \notin S /\ None(Tail(q), S) => None(q, S)
  <2> SUFFICES ASSUME Head(q) \notin S, None(Tail(q), S), NEW i \in 1..Len(q)
               PROVE  q[i] \notin S
    BY DEF None
  <2>1. CASE i = 1
    BY <1>1, <2>1
  <2>2. CASE i # 1
    <3>1. i - 1 \in 1..Len(Tail(q)) /\ Tail(q)[i - 1] = q[i]
      BY <1>1, <2>2
    <3> QED
      BY <3>1 DEF None
  <2> QED
    BY <2>1, <2>2
<1>6. Behind(q, S, T) => Behind(Tail(q), S, T)
  <2> SUFFICES ASSUME Behind(q, S, T), NEW i \in 1..Len(q) - 1, NEW j \in 1..Len(q) - 1, Tail(q)[i] \in S,
                      Tail(q)[j] \in T
               PROVE  i <= j
    BY <1>1 DEF Behind
  <2>1. i + 1 <= j + 1
    BY <1>1, <1>2 DEF Behind
  <2> QED
    BY <2>1
<1>7. Behind(q, S, T) /\ Head(q) \in T => None(Tail(q), S)
  <2> SUFFICES ASSUME Behind(q, S, T), Head(q) \in T, NEW i \in 1..Len(q) - 1, Tail(q)[i] \in S
               PROVE  FALSE
    BY <1>1 DEF None
  <2>1. i + 1 <= 1
    BY <1>1, <1>2, <1>3 DEF Behind
  <2> QED
    BY <2>1
<1> QED
  BY <1>1, <1>4, <1>5, <1>6, <1>7

LEMMA AddsHolds ==
  ASSUME NEW R, NEW p \in Seq(R), NEW F, F \subseteq R, NEW q, Adds(p, q, F)
  PROVE  /\ q \in Seq(R)
         /\ \A S : S \cap F = {} => (None(q, S) <=> None(p, S))
         /\ \A S, T : S \cap F = {} /\ Behind(p, S, T) => Behind(q, S, T)
<1>1. PICK a \in Seq(F) : q = p \o a
  BY DEF Adds
<1>2. \A i \in 1..Len(a) : a[i] \in F
  BY ElementOfSeq
<1>3. a \in Seq(R) /\ p \o a \in Seq(R)
  <2>1. Len(a) \in Nat /\ a = [i \in 1..Len(a) |-> a[i]]
    OBVIOUS
  <2>2. a \in Seq(R)
    BY <1>2, <2>1
  <2> QED
    BY <2>2
<1>4. ASSUME NEW S, S \cap F = {}
      PROVE  None(a, S)
  BY <1>2, <1>4 DEF None
<1>5. ASSUME NEW S, S \cap F = {}
      PROVE  None(q, S) <=> None(p, S)
  BY <1>1, <1>3, <1>4, <1>5, NoneConcat
<1>6. ASSUME NEW S, NEW T, S \cap F = {}, Behind(p, S, T)
      PROVE  Behind(q, S, T)
  <2>1. Behind(a, S, T)
    BY <1>4, <1>6 DEF Behind, None
  <2> QED
    BY <1>1, <1>3, <1>4, <1>6, <2>1, BehindConcat
<1> QED
  BY <1>1, <1>3, <1>5, <1>6

LEMMA AddsNothing ==
  ASSUME NEW R, NEW p \in Seq(R), NEW F
  PROVE  Adds(p, p, F)
<1>1. <<>> \in Seq(F) /\ p = p \o <<>>
  OBVIOUS
<1> QED
  BY <1>1 DEF Adds

LEMMA AddsOne ==
  ASSUME NEW R, NEW p \in Seq(R), NEW F, NEW f \in F
  PROVE  Adds(p, Append(p, f), F)
<1>1. <<f>> \in Seq(F) /\ Append(p, f) = p \o <<f>>
  OBVIOUS
<1> QED
  BY <1>1 DEF Adds

LEMMA AddsTrans ==
  ASSUME NEW R, NEW p \in Seq(R), NEW F, F \subseteq R, NEW q, NEW t, Adds(p, q, F), Adds(q, t, F)
  PROVE  Adds(p, t, F)
<1>1. PICK a \in Seq(F) : q = p \o a
  BY DEF Adds
<1>2. PICK b \in Seq(F) : t = q \o b
  BY DEF Adds
<1>3. a \in Seq(R) /\ b \in Seq(R)
  <2>1. \A c \in Seq(F) : c \in Seq(R)
    <3> SUFFICES ASSUME NEW c \in Seq(F)
                 PROVE  c \in Seq(R)
      OBVIOUS
    <3>1. \A i \in 1..Len(c) : c[i] \in R
      BY ElementOfSeq
    <3>2. Len(c) \in Nat /\ c = [i \in 1..Len(c) |-> c[i]]
      OBVIOUS
    <3> QED
      BY <3>1, <3>2
  <2> QED
    BY <2>1
<1>4. t = p \o (a \o b) /\ a \o b \in Seq(F)
  <2>1. (p \o a) \o b = p \o (a \o b)
    BY <1>3, ConcatAssociative
  <2>2. a \o b \in Seq(F)
    OBVIOUS
  <2> QED
    BY <1>1, <1>2, <2>1, <2>2
<1> QED
  BY <1>4 DEF Adds

-----------------------------------------------------------------------------
(* The DAT frames of a block. *)

DatFrame(n, k, s, i) ==
  Frame(n, "DAT", Type(k), 0, s.tx + i - s.dpo, [msg |-> k, pkt |-> s.tx + i - 1])

Wanted(k, s) == (IF Type(k) = "bam" THEN Total(k) ELSE s.last) - s.tx

\* d of the frames wanted are sent.
DatsSent(n, k, h, g, d) ==
  /\ g \in ViewRec /\ g.s.st = h.s.st /\ Spare(g.s) = Spare(h.s) /\ g.recv = h.recv
  /\ Kept(h.s, g.s) /\ g.s.dpo = h.s.dpo /\ g.s.tx = h.s.tx + d
  /\ g.s.txcmd = IF d > 0 THEN "DAT" ELSE h.s.txcmd
  /\ [i \in 1..d |-> DatFrame(n, k, h.s, i)] \in Seq(FrameRec)
  /\ g.out = h.out \o [i \in 1..d |-> DatFrame(n, k, h.s, i)]
  /\ g.ret \in {"ok", "nobufs", "netdown"}
  /\ g.s.txt # "off" => g.s.txt = "later" /\ Type(k) = "bam" /\ g.ret = "ok"
  /\ Wanted(k, h.s) >= 0 => 0 <= d /\ d <= Wanted(k, h.s)
  /\ g.ret = "nobufs" /\ Type(k) # "bam" => h.s.tx >= Total(k) \/ d < Wanted(k, h.s)

LEMMA DatIs ==
  ASSUME NEW h \in ViewRec, NEW n \in Nodes, NEW k \in Msgs, mode \in Modes, h.s.txt = "off",
         NEW g, g = j1939_session_tx_dat(h, n, k)
  PROVE  \E d \in Int : DatsSent(n, k, h, g, d)
<1>1. k \in Nat /\ Type(k) \in Types /\ Total(k) \in Int
  BY Scripts
<1>2. PICK s : s = h.s
  OBVIOUS
<1>3. s \in SessRec /\ s.tx \in Int /\ s.last \in Int /\ s.dpo \in Int /\ s.txt = "off" /\ h.out \in Seq(FrameRec)
  BY <1>2 DEF ViewRec, SessRec
<1>4. Wanted(k, s) \in Int
  BY <1>1, <1>3 DEF Wanted
<1>5. CASE s.tx >= Total(k)
  <2>1. g = [h EXCEPT !.ret = "nobufs"]
    BY <1>2, <1>5 DEF j1939_session_tx_dat
  <2>2. g \in ViewRec /\ g.s = s /\ g.out = h.out /\ g.ret = "nobufs" /\ g.recv = h.recv
    BY <1>2, <2>1 DEF ViewRec
  <2>3. [i \in 1..0 |-> DatFrame(n, k, s, i)] = <<>>
    OBVIOUS
  <2>4. h.out \o <<>> = h.out /\ <<>> \in Seq(FrameRec)
    BY <1>3
  <2>5. Kept(s, g.s) /\ g.s.tx = s.tx + 0 /\ g.s.txcmd = (IF 0 > 0 THEN "DAT" ELSE s.txcmd)
    BY <1>3, <2>2 DEF Kept
  <2>6. DatsSent(n, k, h, g, 0)
    BY <1>2, <1>3, <1>4, <1>5, <2>2, <2>3, <2>4, <2>5 DEF DatsSent
  <2> QED
    BY <2>6
<1>6. CASE ~(s.tx >= Total(k))
  <2> DEFINE bam == Type(k) = "bam"
             want == Wanted(k, s)
  <2>1. PICK free : free = IF CanSend(n, h) = "ok" THEN QLen - Len(h.out) ELSE 0
    OBVIOUS
  <2>2. PICK step : step = IF bam /\ want > 1 THEN 1 ELSE want
    OBVIOUS
  <2>3. PICK d : d = IF step <= free THEN step ELSE free
    OBVIOUS
  <2>4. free \in Int /\ free >= 0 /\ step \in Int /\ d \in Int
    <3>1. CanSend(n, h) = "ok" => Len(h.out) < QLen
      BY <1>3, TransferAssumption DEF CanSend
    <3>2. QLen \in Int /\ Len(h.out) \in Int
      BY <1>3, TransferAssumption
    <3> QED
      BY <1>4, <2>1, <2>2, <2>3, <3>1, <3>2
  <2>5. PICK a : a = [i \in 1..d |-> DatFrame(n, k, s, i)]
    OBVIOUS
  <2>6. a \in Seq(FrameRec)
    <3>1. ASSUME NEW i \in 1..d
          PROVE  DatFrame(n, k, s, i) \in FrameRec
      <4>1. i \in Int /\ "DAT" \in Cmds /\ s.tx + i - s.dpo \in Int /\ s.tx + i - 1 \in Int
        BY <1>3, <2>4 DEF Cmds, FromO
      <4> QED
        BY <1>1, <4>1 DEF DatFrame, Frame, FrameRec, DataRec
    <3>2. CASE d < 0
      <4>1. 1..d = {}
        BY <2>4, <3>2
      <4>2. a = <<>>
        BY <2>5, <4>1
      <4> QED
        BY <4>2
    <3>3. CASE d >= 0
      <4>1. d \in Nat
        BY <2>4, <3>3
      <4> QED
        BY <2>5, <3>1, <4>1
    <3> QED
      BY <2>4, <3>2, <3>3
  <2>7. PICK t : t = [s EXCEPT !.tx = s.tx + d, !.txcmd = IF d > 0 THEN "DAT" ELSE s.txcmd]
    OBVIOUS
  <2>8. /\ t \in SessRec /\ t.tx = s.tx + d /\ t.txcmd = (IF d > 0 THEN "DAT" ELSE s.txcmd)
        /\ Kept(s, t) /\ t.dpo = s.dpo /\ t.st = s.st /\ t.txt = "off" /\ t.rxt = s.rxt /\ t.refs = s.refs
    <3>1. PICK c : c = IF d > 0 THEN "DAT" ELSE s.txcmd
      OBVIOUS
    <3>2. c \in Cmds \cup {"none"}
      BY <1>3, <3>1 DEF SessRec, Cmds, FromO
    <3>3. PICK x : x = s.tx + d
      OBVIOUS
    <3>4. x \in Int
      BY <1>3, <2>4, <3>3
    <3>5. t = [s EXCEPT !.tx = x, !.txcmd = c]
      BY <2>7, <3>1, <3>3
    <3> QED
      BY <1>3, <3>1, <3>2, <3>3, <3>4, <3>5 DEF SessRec, Kept
  <2>9. PICK v : v = [h EXCEPT !.out = h.out \o a, !.s = t]
    OBVIOUS
  <2>10. v \in ViewRec /\ v.s = t /\ v.out = h.out \o a /\ v.recv = h.recv
    <3>1. PICK u : u = h.out \o a
      OBVIOUS
    <3>2. u \in Seq(FrameRec)
      BY <1>3, <2>6, <3>1
    <3>3. v = [h EXCEPT !.out = u, !.s = t]
      BY <2>9, <3>1
    <3>4. v \in ViewRec /\ v.s = t /\ v.out = u /\ v.recv = h.recv
      BY <2>8, <3>2, <3>3 DEF ViewRec
    <3> QED
      BY <3>1, <3>4
  <2>11. PICK p : p = IF bam /\ d = 1 /\ want > 1 THEN j1939_tp_schedule_txtimer(v, "later") ELSE v
    OBVIOUS
  <2>12. /\ p \in ViewRec /\ Same(t, p.s) /\ p.s.st = t.st /\ Beside(v, p) /\ Spare(p.s) = Spare(t)
         /\ p.s.txt = IF bam /\ d = 1 /\ want > 1 THEN "later" ELSE "off"
    <3>1. CASE bam /\ d = 1 /\ want > 1
      <4>1. /\ p \in ViewRec /\ Same(v.s, p.s) /\ p.s.st = v.s.st /\ Beside(v, p) /\ p.s.txt = "later"
            /\ Spare(p.s) = Spare(v.s) + 0
        BY <2>8, <2>10, <2>11, <3>1, TxtimerStarts
      <4> QED
        BY <2>8, <2>10, <3>1, <4>1, SpareInt
    <3>2. CASE ~(bam /\ d = 1 /\ want > 1)
      BY <2>8, <2>10, <2>11, <3>2 DEF Same, Beside
    <3> QED
      BY <3>1, <3>2
  <2>13. PICK r : r = IF d > 0 THEN j1939_tp_set_rxtimeout(p) ELSE p
    OBVIOUS
  <2>14. Timed(p, r) /\ r.s.txt = p.s.txt
    <3>1. CASE d > 0
      BY <2>12, <2>13, <3>1, RxtimerStarts
    <3>2. CASE ~(d > 0)
      BY <2>12, <2>13, <3>2 DEF Timed, Same, Beside
    <3> QED
      BY <3>1, <3>2
  <2>15. g = IF d < step THEN [r EXCEPT !.ret = CanSend(n, v)] ELSE [r EXCEPT !.ret = "ok"]
    <3>1. v = [h EXCEPT !.out = h.out \o a, !.s.tx = s.tx + d, !.s.txcmd = IF d > 0 THEN "DAT" ELSE s.txcmd]
      <4>1. PICK c : c = IF d > 0 THEN "DAT" ELSE s.txcmd
        OBVIOUS
      <4>2. PICK x : x = s.tx + d
        OBVIOUS
      <4>3. t = [h.s EXCEPT !.tx = x, !.txcmd = c]
        BY <1>2, <2>7, <4>1, <4>2
      <4>4. v = [h EXCEPT !.out = h.out \o a, !.s.tx = x, !.s.txcmd = c]
        BY <1>2, <1>3, <2>9, <4>3 DEF ViewRec, SessRec
      <4> QED
        BY <4>1, <4>2, <4>4
    <3>2. want = (IF bam THEN Total(k) ELSE s.last) - s.tx
      BY DEF Wanted
    <3> HIDE DEF want
    <3>3. a = [i \in 1..d |-> Frame(n, "DAT", Type(k), 0, s.tx + i - s.dpo, [msg |-> k, pkt |-> s.tx + i - 1])]
      BY <2>5 DEF DatFrame
    <3> DEFINE want1 == (IF Type(k) = "bam" THEN Total(k) ELSE h.s.last) - h.s.tx
               free1 == IF CanSend(n, h) = "ok" THEN QLen - Len(h.out) ELSE 0
               step1 == IF Type(k) = "bam" /\ want1 > 1 THEN 1 ELSE want1
               d1 == IF step1 <= free1 THEN step1 ELSE free1
               a1 == [i \in 1..d1 |-> Frame(n, "DAT", Type(k), 0, h.s.tx + i - h.s.dpo,
                                            [msg |-> k, pkt |-> h.s.tx + i - 1])]
               v1 == [h EXCEPT !.out = @ \o a1, !.s.tx = @ + d1, !.s.txcmd = IF d1 > 0 THEN "DAT" ELSE @]
               p1 == IF Type(k) = "bam" /\ d1 = 1 /\ want1 > 1 THEN j1939_tp_schedule_txtimer(v1, "later") ELSE v1
               r1 == IF d1 > 0 THEN j1939_tp_set_rxtimeout(p1) ELSE p1
    <3>4. g = IF h.s.tx >= Total(k) THEN [h EXCEPT !.ret = "nobufs"]
              ELSE IF d1 < step1 THEN [r1 EXCEPT !.ret = CanSend(n, v1)] ELSE [r1 EXCEPT !.ret = "ok"]
      BY DEF j1939_session_tx_dat
    <3>5. want1 = want
      BY <1>2, <3>2
    <3> HIDE DEF want1
    <3>6. free1 = free
      BY <2>1
    <3> HIDE DEF free1
    <3>7. step1 = step
      BY <2>2, <3>5
    <3> HIDE DEF step1
    <3>8. d1 = d
      BY <2>3, <3>6, <3>7
    <3> HIDE DEF d1
    <3>9. a1 = a
      BY <1>2, <3>3, <3>8
    <3> HIDE DEF a1
    <3>10. v1 = v
      BY <1>2, <3>1, <3>8, <3>9
    <3> HIDE DEF v1
    <3>11. p1 = p
      BY <2>11, <3>5, <3>8, <3>10
    <3> HIDE DEF p1
    <3>12. r1 = r
      BY <2>13, <3>8, <3>11
    <3> HIDE DEF r1
    <3> QED
      BY <1>2, <1>6, <3>4, <3>7, <3>8, <3>10, <3>12
  <2>16. g \in ViewRec /\ g.s = r.s /\ g.out = r.out /\ g.recv = r.recv /\ g.ret \in {"ok", "nobufs", "netdown"}
         /\ (g.ret # "ok" => d < step)
    <3>1. CanSend(n, v) \in {"ok", "nobufs", "netdown"}
      BY DEF CanSend
    <3> QED
      BY <2>14, <2>15, <3>1 DEF Timed, ViewRec
  <2>17. Spare(t) = Spare(s)
    BY <1>3, <2>8 DEF Spare
  <2>18. g.s.txt # "off" => g.s.txt = "later" /\ bam /\ g.ret = "ok"
    <3>1. ASSUME g.s.txt # "off"
          PROVE  bam /\ d = 1 /\ want > 1 /\ g.s.txt = "later"
      BY <2>12, <2>14, <2>16, <3>1
    <3>2. bam /\ d = 1 /\ want > 1 => ~(d < step)
      BY <2>2
    <3> QED
      BY <2>16, <3>1, <3>2
  <2>19. want >= 0 => 0 <= d /\ d <= want
    BY <1>4, <2>2, <2>3, <2>4
  <2>20. g.ret = "nobufs" /\ ~bam => d < want
    BY <2>2, <2>16
  <2>21. Kept(s, g.s) /\ g.s.dpo = s.dpo /\ g.s.tx = s.tx + d /\ g.s.txcmd = (IF d > 0 THEN "DAT" ELSE s.txcmd)
         /\ g.s.st = s.st /\ Spare(g.s) = Spare(s) /\ g.recv = h.recv /\ g.out = h.out \o a
    BY <2>8, <2>10, <2>12, <2>14, <2>16, <2>17 DEF Timed, Same, Kept, Beside
  <2>22. DatsSent(n, k, h, g, d)
    BY <1>2, <2>5, <2>6, <2>16, <2>18, <2>19, <2>20, <2>21 DEF DatsSent
  <2> QED
    BY <2>4, <2>22
<1> QED
  BY <1>5, <1>6

\* What the tx timer sends of a message that is no broadcast: the RTS, or the
\* block that was asked for.
Transmits(n, k, h, g) ==
  \/ h.s.cmd = "none" /\ RtsSent(n, k, h, g)
  \/ /\ h.s.cmd \in {"CTS", "DAT", "DPO", "BAM"} /\ Type(k) = "etp" /\ h.s.cmd = "CTS"
     /\ h.s.txcmd # "DPO" /\ DpoSent(n, k, h, g) /\ g.ret # "ok"
  \/ /\ h.s.cmd \in {"CTS", "DAT", "DPO", "BAM"}
     /\ \E v \in ViewRec : /\ IF Type(k) = "etp" /\ h.s.cmd = "CTS" /\ h.s.txcmd # "DPO"
                              THEN DpoSent(n, k, h, v) /\ v.ret = "ok" ELSE v = h
                           /\ \E d \in Int : DatsSent(n, k, v, g, d)
  \/ h.s.cmd \notin {"none", "CTS", "DAT", "DPO", "BAM"} /\ g = h

LEMMA TransmiterIs ==
  ASSUME NEW h \in ViewRec, NEW n \in Nodes, NEW k \in Msgs, mode \in Modes, h.s.txt = "off",
         h.ret = "ok", NEW g, g = j1939_xtp_txnext_transmiter(h, n, k)
  PROVE  Transmits(n, k, h, g)
<1>1. CASE h.s.cmd = "none"
  <2>1. g = j1939_session_tx_rts(h, n, k)
    BY <1>1 DEF j1939_xtp_txnext_transmiter
  <2> QED
    BY <1>1, <2>1, RtsIs DEF Transmits
<1>2. CASE h.s.cmd \in {"CTS", "DAT", "DPO", "BAM"}
  <2>1. PICK b : b = (Type(k) = "etp" /\ h.s.cmd = "CTS" /\ h.s.txcmd # "DPO")
    OBVIOUS
  <2>2. PICK v : v = IF b THEN j1939_session_tx_dpo(h, n, k) ELSE h
    OBVIOUS
  <2>3. g = IF v.ret # "ok" THEN v ELSE j1939_session_tx_dat(v, n, k)
    BY <1>2, <2>1, <2>2 DEF j1939_xtp_txnext_transmiter
  <2>4. CASE b
    <3>1. DpoSent(n, k, h, v)
      BY <2>2, <2>4, DpoIs
    <3>2. CASE v.ret # "ok"
      BY <1>2, <2>1, <2>3, <2>4, <3>1, <3>2 DEF Transmits
    <3>3. CASE v.ret = "ok"
      <4>1. v \in ViewRec /\ v.s.txt = "off"
        BY <3>1 DEF DpoSent
      <4>2. \E d \in Int : DatsSent(n, k, v, g, d)
        BY <2>3, <3>3, <4>1, DatIs
      <4> QED
        BY <1>2, <2>1, <2>4, <3>1, <3>3, <4>1, <4>2 DEF Transmits
    <3> QED
      BY <3>2, <3>3
  <2>5. CASE ~b
    <3>1. v = h
      BY <2>2, <2>5
    <3>2. \E d \in Int : DatsSent(n, k, v, g, d)
      BY <2>3, <3>1, DatIs
    <3> QED
      BY <1>2, <2>1, <2>5, <3>1, <3>2 DEF Transmits
  <2> QED
    BY <2>1, <2>4, <2>5
<1>3. CASE h.s.cmd \notin {"none", "CTS", "DAT", "DPO", "BAM"}
  <2>1. g = h
    BY <1>3 DEF j1939_xtp_txnext_transmiter
  <2> QED
    BY <1>3, <2>1 DEF Transmits
<1> QED
  BY <1>1, <1>2, <1>3

\* What a responder's step leaves of a session.
Core(s, t) ==
  t.cmd = s.cmd /\ t.last = s.last /\ t.rx = s.rx /\ t.dpo = s.dpo /\ t.buf = s.buf

\* A CTS or an EOMA is sent, or neither.
Answers(n, k, h, g, cmd, len, pkt) ==
  /\ g \in ViewRec /\ g.s.st = h.s.st /\ Spare(g.s) = Spare(h.s) /\ g.recv = h.recv
  /\ Core(h.s, g.s) /\ g.s.txt = "off"
  /\ \/ g.out = h.out
     \/ g.ret = "ok" /\ g.out = Append(h.out, Ctl(n, cmd, k, len, pkt))

LEMMA AnswerIs ==
  ASSUME NEW h \in ViewRec, NEW n \in Nodes, NEW k \in Msgs, mode \in Modes, h.s.txt = "off",
         NEW cmd \in {"CTS", "EOMA"}, NEW len \in Int, NEW pkt \in Int,
         NEW g, g = Answer(h, n, k, cmd, len, pkt)
  PROVE  Answers(n, k, h, g, cmd, len, pkt)
<1>1. k \in Nat /\ Type(k) \in Types /\ cmd \in Cmds
  BY Scripts DEF Cmds, FromR
<1>2. PICK f : f = Ctl(n, cmd, k, len, pkt)
  OBVIOUS
<1>3. f \in FrameRec
  BY <1>1, <1>2, CtlType
<1>4. PICK w : w = Send(h, n, f)
  OBVIOUS
<1>5. /\ w \in ViewRec /\ w.s = h.s /\ w.recv = h.recv
      /\ w.out = IF w.ret = "ok" THEN Append(h.out, f) ELSE h.out
  BY <1>3, <1>4, SendIs
<1>6. CASE ~listen
  <2>1. g = [h EXCEPT !.ret = "noent"]
    BY <1>6 DEF Answer
  <2>2. g \in ViewRec /\ g.s = h.s /\ g.out = h.out /\ g.recv = h.recv
    BY <2>1 DEF ViewRec
  <2> QED
    BY <2>2 DEF Answers, Core
<1>7. CASE listen /\ h.s.txcmd = cmd
  <2>1. g = h
    BY <1>7 DEF Answer
  <2> QED
    BY <2>1 DEF Answers, Core
<1>8. CASE listen /\ h.s.txcmd # cmd /\ w.ret # "ok"
  <2>1. g = w
    BY <1>2, <1>4, <1>8 DEF Answer
  <2> QED
    BY <1>5, <1>8, <2>1 DEF Answers, Core
<1>9. CASE listen /\ h.s.txcmd # cmd /\ w.ret = "ok"
  <2>1. PICK t : t = [h.s EXCEPT !.txcmd = cmd]
    OBVIOUS
  <2>2. h.s \in SessRec
    BY DEF ViewRec
  <2>3. t \in SessRec /\ Core(h.s, t) /\ t.st = h.s.st /\ t.txt = "off" /\ t.rxt = h.s.rxt /\ t.refs = h.s.refs
    BY <1>1, <2>1, <2>2 DEF SessRec, Core
  <2>4. PICK v : v = [w EXCEPT !.s.txcmd = cmd]
    OBVIOUS
  <2>5. v = [w EXCEPT !.s = t]
    BY <1>5, <2>1, <2>2, <2>4 DEF ViewRec, SessRec
  <2>6. v \in ViewRec /\ v.s = t /\ v.out = w.out /\ v.ret = w.ret /\ v.recv = w.recv
    BY <1>5, <2>3, <2>5, WithSession
  <2>7. g = j1939_tp_set_rxtimeout(v)
    BY <1>2, <1>4, <1>9, <2>4 DEF Answer
  <2>8. Timed(v, g) /\ g.s.txt = v.s.txt
    BY <2>6, <2>7, RxtimerStarts
  <2>9. Spare(t) = Spare(h.s)
    BY <2>3 DEF Spare
  <2> QED
    BY <1>2, <1>5, <1>9, <2>3, <2>6, <2>8, <2>9 DEF Timed, Same, Core, Beside, Answers
<1> QED
  BY <1>6, <1>7, <1>8, <1>9

\* What the tx timer of a responder sends: a CTS for the block it wants, or the
\* EOMA.
Receives(n, k, h, g) ==
  /\ g \in ViewRec /\ g.s.st = h.s.st /\ Spare(g.s) = Spare(h.s) /\ g.recv = h.recv
  /\ Core(h.s, g.s) /\ g.s.txt = "off"
  /\ \/ g.out = h.out
     \/ /\ g.ret = "ok"
        /\ h.s.cmd = "RTS" \/ (h.s.cmd \in {"CTS", "DAT", "DPO"} /\ h.s.rx < Total(k))
        /\ g.out = Append(h.out, Ctl(n, "CTS", k, Smaller(Total(k) - h.s.rx, Block), h.s.rx + 1))
     \/ /\ g.ret = "ok" /\ h.s.cmd \in {"CTS", "DAT", "DPO"} /\ h.s.rx >= Total(k)
        /\ g.out = Append(h.out, Ctl(n, "EOMA", k, 0, 0))

LEMMA ReceiverIs ==
  ASSUME NEW h \in ViewRec, NEW n \in Nodes, NEW k \in Msgs, mode \in Modes, h.s.txt = "off",
         NEW g, g = j1939_xtp_txnext_receiver(h, n, k)
  PROVE  Receives(n, k, h, g)
<1>1. h.s \in SessRec /\ h.s.rx \in Int /\ h.s.rx + 1 \in Int
  BY DEF ViewRec, SessRec
<1>2. Total(k) \in Int /\ Block \in Int
  BY Scripts, TransferAssumption
<1>3. Smaller(Total(k) - h.s.rx, Block) \in Int
  BY <1>1, <1>2 DEF Smaller
<1> DEFINE cts(v) == Answers(n, k, v, g, "CTS", Smaller(Total(k) - h.s.rx, Block), h.s.rx + 1)
<1>4. CASE h.s.cmd = "RTS"
  <2>1. g = Answer(h, n, k, "CTS", Smaller(Total(k) - h.s.rx, Block), h.s.rx + 1)
    BY <1>4 DEF j1939_xtp_txnext_receiver, j1939_session_tx_cts
  <2>2. cts(h)
    BY <1>1, <1>3, <2>1, AnswerIs
  <2> QED
    BY <1>4, <2>2 DEF Answers, Receives
<1>5. CASE h.s.cmd \in {"CTS", "DAT", "DPO"} /\ h.s.rx >= Total(k)
  <2>1. g = Answer(h, n, k, "EOMA", 0, 0)
    BY <1>1, <1>2, <1>5 DEF j1939_xtp_txnext_receiver, j1939_session_tx_eoma
  <2>2. Answers(n, k, h, g, "EOMA", 0, 0)
    BY <2>1, AnswerIs
  <2> QED
    BY <1>5, <2>2 DEF Answers, Receives
<1>6. CASE h.s.cmd \in {"CTS", "DAT", "DPO"} /\ h.s.rx < Total(k) /\ h.s.rx >= h.s.last
  <2>1. PICK t : t = [h.s EXCEPT !.txcmd = "none"]
    OBVIOUS
  <2>2. t \in SessRec /\ Core(h.s, t) /\ t.st = h.s.st /\ t.txt = "off" /\ t.rxt = h.s.rxt /\ t.refs = h.s.refs
    BY <1>1, <2>1 DEF SessRec, Core
  <2>3. PICK v : v = [h EXCEPT !.s.txcmd = "none"]
    OBVIOUS
  <2>4. v = [h EXCEPT !.s = t]
    BY <1>1, <2>1, <2>3 DEF ViewRec, SessRec
  <2>5. v \in ViewRec /\ v.s = t /\ v.out = h.out /\ v.recv = h.recv
    BY <2>2, <2>4, WithSession
  <2>6. g = Answer(v, n, k, "CTS", Smaller(Total(k) - v.s.rx, Block), v.s.rx + 1)
    BY <1>1, <1>2, <1>6, <2>3 DEF j1939_xtp_txnext_receiver, j1939_session_tx_cts
  <2>7. v.s.rx = h.s.rx
    BY <2>2, <2>5 DEF Core
  <2>8. cts(v)
    BY <1>1, <1>3, <2>2, <2>5, <2>6, <2>7, AnswerIs
  <2>9. Spare(t) = Spare(h.s)
    BY <2>2 DEF Spare
  <2> QED
    BY <1>6, <2>2, <2>5, <2>8, <2>9 DEF Answers, Receives, Core
<1>7. CASE \/ h.s.cmd \notin {"RTS", "CTS", "DAT", "DPO"}
           \/ h.s.cmd \in {"CTS", "DAT", "DPO"} /\ h.s.rx < Total(k) /\ ~(h.s.rx >= h.s.last)
  <2>1. g = h
    BY <1>1, <1>2, <1>7 DEF j1939_xtp_txnext_receiver
  <2> QED
    BY <2>1 DEF Receives, Core
<1> QED
  BY <1>1, <1>2, <1>4, <1>5, <1>6, <1>7

\* The one frame of a short message.
SimpleFrame(n, k) == Frame(n, "SIMPLE", "simple", 0, 0, [msg |-> k, pkt |-> 0])

SimpleSent(n, k, h, g) ==
  /\ g \in ViewRec /\ g.s.st = h.s.st /\ Spare(g.s) = Spare(h.s) /\ g.recv = h.recv
  /\ Same(h.s, g.s) /\ g.s.txt = "off" /\ g.ret \in {"ok", "nobufs", "netdown"}
  /\ SimpleFrame(n, k) \in FrameRec
  /\ g.out = IF g.ret = "ok" THEN Append(h.out, SimpleFrame(n, k)) ELSE h.out

LEMMA SimpleIs ==
  ASSUME NEW h \in ViewRec, NEW n \in Nodes, NEW k \in Msgs, mode \in Modes, h.s.txt = "off",
         NEW g, g = j1939_simple_txnext(h, n, k)
  PROVE  SimpleSent(n, k, h, g)
<1>1. k \in Nat
  BY Scripts
<1>2. PICK f : f = SimpleFrame(n, k)
  OBVIOUS
<1>3. f \in FrameRec
  <2>1. "SIMPLE" \in Cmds /\ "simple" \in Types
    BY DEF Cmds, FromO, Types
  <2> QED
    BY <1>1, <1>2, <2>1 DEF SimpleFrame, Frame, FrameRec, DataRec
<1>4. PICK c : c = j1939_tp_set_rxtimeout(h)
  OBVIOUS
<1>5. Timed(h, c) /\ c.s.txt = h.s.txt
  BY <1>4, RxtimerStarts
<1>6. PICK w : w = Send(c, n, f)
  OBVIOUS
<1>7. /\ w \in ViewRec /\ w.s = c.s /\ w.recv = c.recv /\ w.ret \in {"ok", "nobufs", "netdown"}
      /\ w.out = IF w.ret = "ok" THEN Append(c.out, f) ELSE c.out
  <2>1. c \in ViewRec
    BY <1>5 DEF Timed
  <2> QED
    BY <1>3, <1>6, <2>1, SendIs
<1>8. g = IF w.ret = "ok" THEN [w EXCEPT !.next = TRUE] ELSE w
  BY <1>2, <1>4, <1>6 DEF j1939_simple_txnext, SimpleFrame
<1>9. g \in ViewRec /\ g.s = w.s /\ g.recv = w.recv /\ g.ret = w.ret /\ g.out = w.out
  BY <1>7, <1>8 DEF ViewRec
<1> QED
  BY <1>2, <1>3, <1>5, <1>7, <1>9 DEF SimpleSent, Timed, Same, Beside

\* What the tx timer does after the frames, s the session before.
Settles(n, k, h, g) ==
  /\ g \in ViewRec /\ Same(h.s, g.s) /\ Goes(h.s, g.s) /\ g.recv = h.recv
  /\ \/ g.out = h.out
     \/ g.out = Append(h.out, Ctl(n, "ABORT", k, 0, 0))
  /\ g.s.txt = h.s.txt \/ (g.s.txt = "later" /\ h.ret = "nobufs")

LEMMA TxDoneIs ==
  ASSUME NEW h \in ViewRec, NEW n \in Nodes, NEW k \in Msgs, mode \in Modes,
         h.ret = "nobufs" => h.s.txt = "off", NEW g, g = TxDone(h, n, k)
  PROVE  Settles(n, k, h, g) /\ Spare(g.s) = Spare(h.s)
<1>1. h.s \in SessRec /\ h.ret \in {"ok", "nobufs", "netdown", "noent"} /\ h.s.retry \in Nat /\ RetryLimit \in Nat
  BY TransferAssumption DEF ViewRec, SessRec
<1>2. CASE h.ret = "ok"
  <2>1. PICK t : t = [h.s EXCEPT !.retry = 0]
    OBVIOUS
  <2>2. t \in SessRec /\ Same(h.s, t) /\ t.st = h.s.st /\ t.txt = h.s.txt /\ t.rxt = h.s.rxt /\ t.refs = h.s.refs
    BY <1>1, <2>1 DEF SessRec, Same
  <2>3. g = [h EXCEPT !.s = t]
    BY <1>1, <1>2, <2>1 DEF TxDone, ViewRec, SessRec
  <2>4. g \in ViewRec /\ g.s = t /\ g.out = h.out /\ g.recv = h.recv
    BY <2>2, <2>3, WithSession
  <2> QED
    BY <2>2, <2>4 DEF Settles, Goes, Spare
<1>3. CASE h.ret = "nobufs" /\ h.s.retry < RetryLimit
  <2>1. PICK t : t = [h.s EXCEPT !.retry = h.s.retry + 1]
    OBVIOUS
  <2>2. t \in SessRec /\ Same(h.s, t) /\ t.st = h.s.st /\ t.txt = h.s.txt /\ t.rxt = h.s.rxt /\ t.refs = h.s.refs
    BY <1>1, <2>1 DEF SessRec, Same
  <2>3. PICK v : v = [h EXCEPT !.s = t]
    OBVIOUS
  <2>4. v \in ViewRec /\ v.s = t /\ v.out = h.out /\ v.recv = h.recv
    BY <2>2, <2>3, WithSession
  <2>5. g = j1939_tp_schedule_txtimer(v, "later")
    <3>1. v = [h EXCEPT !.s.retry = @ + 1]
      BY <1>1, <2>1, <2>3 DEF ViewRec, SessRec
    <3> QED
      BY <1>1, <1>3, <3>1 DEF TxDone
  <2>6. /\ g \in ViewRec /\ Same(v.s, g.s) /\ g.s.st = v.s.st /\ Beside(v, g) /\ g.s.txt = "later"
        /\ Spare(g.s) = Spare(v.s) + 0
    BY <1>3, <2>2, <2>4, <2>5, TxtimerStarts
  <2>7. Spare(g.s) = Spare(v.s) /\ Spare(v.s) = Spare(h.s)
    BY <2>2, <2>4, <2>6, SpareInt DEF Spare
  <2> QED
    BY <1>3, <2>2, <2>4, <2>6, <2>7 DEF Settles, Goes, Same, Beside
<1>4. CASE h.ret = "nobufs" /\ h.s.retry >= RetryLimit
  <2>1. PICK t : t = [h.s EXCEPT !.err = TRUE]
    OBVIOUS
  <2>2. t \in SessRec /\ Same(h.s, t) /\ t.st = h.s.st /\ t.txt = h.s.txt /\ t.rxt = h.s.rxt /\ t.refs = h.s.refs
    BY <1>1, <2>1 DEF SessRec, Same
  <2>3. PICK v : v = [h EXCEPT !.s = t]
    OBVIOUS
  <2>4. v \in ViewRec /\ v.s = t /\ v.out = h.out /\ v.recv = h.recv
    BY <2>2, <2>3, WithSession
  <2>5. PICK c : c = j1939_session_rxtimer_cancel(v)
    OBVIOUS
  <2>6. Timed(v, c) /\ c.s.txt = v.s.txt
    BY <2>4, <2>5, RxtimerStops
  <2>7. g = j1939_session_deactivate_activate_next(c)
    <3>1. v = [h EXCEPT !.s.err = TRUE]
      BY <1>1, <2>1, <2>3 DEF ViewRec, SessRec
    <3> QED
      BY <1>1, <1>4, <2>5, <3>1 DEF TxDone
  <2>8. Ends(n, k, c, g) /\ g.out = c.out
    <3>1. c \in ViewRec
      BY <2>6 DEF Timed
    <3> QED
      BY <2>7, <3>1, Deactivates
  <2>9. Spare(t) = Spare(h.s)
    BY <2>2 DEF Spare
  <2> QED
    BY <2>2, <2>4, <2>6, <2>8, <2>9 DEF Settles, Timed, Ends, Same, Goes, Beside, Live
<1>5. CASE h.ret = "netdown"
  <2>1. g = h
    BY <1>5 DEF TxDone
  <2> QED
    BY <2>1 DEF Settles, Same, Goes
<1>6. CASE h.ret = "noent"
  <2>1. g = j1939_session_cancel(h, n, k)
    BY <1>6 DEF TxDone
  <2>2. k \in Nat /\ Type(k) \in Types
    BY Scripts
  <2>3. Ends(n, k, h, g)
    BY <2>1, <2>2, CancelIs
  <2> QED
    BY <2>3 DEF Ends, Settles
<1> QED
  BY <1>1, <1>2, <1>3, <1>4, <1>5, <1>6

\* A reference is dropped.
Put(h) == [h EXCEPT !.s.refs = @ - 1]

LEMMA PutIs ==
  ASSUME NEW h \in ViewRec, NEW g, g = Put(h)
  PROVE  /\ g \in ViewRec /\ Same(h.s, g.s) /\ g.s.st = h.s.st /\ g.s.txt = h.s.txt /\ Beside(h, g)
         /\ Spare(g.s) = Spare(h.s) - 1
<1>1. h.s \in SessRec /\ h.s.refs \in Int /\ h.s.refs - 1 \in Int
  BY DEF ViewRec, SessRec
<1>2. PICK t : t = [h.s EXCEPT !.refs = h.s.refs - 1]
  OBVIOUS
<1>3. t \in SessRec /\ Same(h.s, t) /\ t.st = h.s.st /\ t.txt = h.s.txt /\ t.rxt = h.s.rxt /\ t.refs = h.s.refs - 1
  BY <1>1, <1>2 DEF SessRec, Same
<1>4. g = [h EXCEPT !.s = t]
  BY <1>1, <1>2 DEF Put, ViewRec, SessRec
<1>5. g \in ViewRec /\ g.s = t /\ Beside(h, g)
  BY <1>3, <1>4, WithSession
<1>6. Spare(t) = Spare(h.s) - 1
  BY <1>1, <1>3 DEF Spare
<1> QED
  BY <1>3, <1>5, <1>6

\* The whole callback of the tx timer: the view it starts from, h with its timer
\* gone, v after the frames, and g.
TxOff(h) == [h EXCEPT !.s.txt = "off"]

TxFrames(n, k, h) ==
  CASE Type(k) = "simple" -> j1939_simple_txnext(h, n, k)
    [] Type(k) # "simple" /\ n = "o" -> j1939_xtp_txnext_transmiter(h, n, k)
    [] OTHER -> j1939_xtp_txnext_receiver(h, n, k)

TxView(h, v) ==
  /\ v \in ViewRec /\ Same(h.s, v.s) /\ v.s.st = h.s.st /\ Beside(h, v) /\ v.s.txt = "off"
  /\ Spare(v.s) = Spare(h.s) + 1

Txtimer(n, k, h, g) ==
  \E v \in ViewRec, w \in ViewRec :
    /\ TxView(h, v) /\ Settles(n, k, w, g) /\ Spare(g.s) = Spare(w.s) - 1
    /\ Type(k) = "simple" => SimpleSent(n, k, v, w)
    /\ Type(k) # "simple" /\ n = "o" => Transmits(n, k, v, w)
    /\ Type(k) # "simple" /\ n # "o" => Receives(n, k, v, w)

LEMMA TxtimerIs ==
  ASSUME NEW h \in ViewRec, NEW n \in Nodes, NEW k \in Msgs, mode \in Modes,
         h.s.txt # "off", h.ret = "ok",
         NEW v, v = TxOff(h), NEW w, w = TxFrames(n, k, v), NEW g, g = Put(TxDone(w, n, k))
  PROVE  Txtimer(n, k, h, g)
<1>1. h.s \in SessRec
  BY DEF ViewRec
<1>2. TxView(h, v)
  <2>1. PICK t : t = [h.s EXCEPT !.txt = "off"]
    OBVIOUS
  <2>2. t \in SessRec /\ Same(h.s, t) /\ t.st = h.s.st /\ t.txt = "off" /\ t.rxt = h.s.rxt /\ t.refs = h.s.refs
    BY <1>1, <2>1 DEF SessRec, Same
  <2>3. v = [h EXCEPT !.s = t]
    BY <1>1, <2>1 DEF TxOff, ViewRec, SessRec
  <2>4. v \in ViewRec /\ v.s = t /\ Beside(h, v)
    BY <2>2, <2>3, WithSession
  <2>5. h.s.refs \in Int /\ h.s.rxt \in BOOLEAN
    BY <1>1 DEF SessRec
  <2>6. Spare(t) = Spare(h.s) + 1
    BY <2>2, <2>5 DEF Spare
  <2> QED
    BY <2>2, <2>4, <2>6 DEF TxView
<1>3. v \in ViewRec /\ v.s.txt = "off" /\ v.ret = "ok"
  BY <1>2 DEF TxView, Beside
<1> DEFINE sent == /\ Type(k) = "simple" => SimpleSent(n, k, v, w)
                   /\ Type(k) # "simple" /\ n = "o" => Transmits(n, k, v, w)
                   /\ Type(k) # "simple" /\ n # "o" => Receives(n, k, v, w)
<1>4. sent
  <2>1. CASE Type(k) = "simple"
    <3>1. w = j1939_simple_txnext(v, n, k)
      BY <2>1 DEF TxFrames
    <3> QED
      BY <1>3, <2>1, <3>1, SimpleIs
  <2>2. CASE Type(k) # "simple" /\ n = "o"
    <3>1. w = j1939_xtp_txnext_transmiter(v, n, k)
      BY <2>2 DEF TxFrames
    <3> QED
      BY <1>3, <2>2, <3>1, TransmiterIs
  <2>3. CASE Type(k) # "simple" /\ n # "o"
    <3>1. w = j1939_xtp_txnext_receiver(v, n, k)
      BY <2>3 DEF TxFrames
    <3> QED
      BY <1>3, <2>3, <3>1, ReceiverIs
  <2> QED
    BY <2>1, <2>2, <2>3
<1>5. w \in ViewRec /\ (w.ret = "nobufs" => w.s.txt = "off")
  <2>1. CASE Type(k) = "simple"
    BY <1>4, <2>1 DEF SimpleSent
  <2>2. CASE Type(k) # "simple" /\ n # "o"
    BY <1>4, <2>2 DEF Receives
  <2>3. CASE Type(k) # "simple" /\ n = "o"
    <3>1. RtsSent(n, k, v, w) => w \in ViewRec /\ (w.ret = "nobufs" => w.s.txt = "off")
      BY DEF RtsSent
    <3>2. DpoSent(n, k, v, w) => w \in ViewRec /\ w.s.txt = "off"
      BY DEF DpoSent
    <3>3. \A x, d : DatsSent(n, k, x, w, d) => w \in ViewRec /\ (w.ret = "nobufs" => w.s.txt = "off")
      BY DEF DatsSent
    <3> QED
      BY <1>3, <1>4, <2>3, <3>1, <3>2, <3>3 DEF Transmits
  <2> QED
    BY <2>1, <2>2, <2>3
<1>6. PICK x : x = TxDone(w, n, k)
  OBVIOUS
<1>7. Settles(n, k, w, x) /\ Spare(x.s) = Spare(w.s)
  BY <1>5, <1>6, TxDoneIs
<1>8. x \in ViewRec /\ g = Put(x)
  BY <1>6, <1>7 DEF Settles
<1>9. /\ g \in ViewRec /\ Same(x.s, g.s) /\ g.s.st = x.s.st /\ g.s.txt = x.s.txt /\ Beside(x, g)
      /\ Spare(g.s) = Spare(x.s) - 1
  BY <1>8, PutIs
<1>10. Settles(n, k, w, g) /\ Spare(g.s) = Spare(w.s) - 1
  BY <1>7, <1>9 DEF Settles, Same, Goes, Beside
<1> QED
  BY <1>2, <1>3, <1>4, <1>5, <1>10 DEF Txtimer

\* Ends with a change of timers before and after.
LEMMA EndsBetween ==
  ASSUME NEW h \in ViewRec, NEW n, NEW k, NEW v, NEW w, NEW g \in ViewRec,
         Same(h.s, v.s), v.s.st = h.s.st, v.s.txt = h.s.txt, Beside(h, v), Ends(n, k, v, w),
         Same(w.s, g.s), g.s.st = w.s.st, g.s.txt = w.s.txt, Beside(w, g), Spare(g.s) = Spare(h.s)
  PROVE  Ends(n, k, h, g)
<1>1. Same(h.s, g.s)
  BY DEF Same, Ends
<1>2. Goes(h.s, g.s)
  BY DEF Goes, Ends, Live
<1>3. g.s.txt = h.s.txt /\ g.ret = h.ret /\ g.recv = h.recv
  BY DEF Ends, Beside
<1>4. g.out = h.out \/ g.out = Append(h.out, Ctl(n, "ABORT", k, 0, 0))
  BY DEF Ends, Beside
<1> QED
  BY <1>1, <1>2, <1>3, <1>4 DEF Ends

\* The callback of the rx timer.
RxOff(h) == [h EXCEPT !.s.rxt = FALSE]

Expires(n, k, h) ==
  CASE h.s.st = "waiting" -> j1939_session_deactivate_activate_next(h)
    [] h.s.st # "waiting" /\ Type(k) = "simple" ->
         j1939_session_deactivate([h EXCEPT !.s.err = TRUE])
    [] h.s.st = "active" /\ Type(k) # "simple" ->
         AbortSent([h EXCEPT !.s.rxt = TRUE, !.s.refs = @ + 1], n, k)
    [] OTHER -> h

LEMMA RxtimerIs ==
  ASSUME NEW h \in ViewRec, NEW n \in Nodes, NEW k \in Msgs, mode \in Modes, h.s.rxt,
         NEW v, v = RxOff(h), NEW w, w = Expires(n, k, v), NEW g, g = Put(w)
  PROVE  Ends(n, k, h, g)
<1>1. h.s \in SessRec /\ h.s.refs \in Int /\ h.s.rxt = TRUE
  BY DEF ViewRec, SessRec
<1>2. v \in ViewRec /\ Same(h.s, v.s) /\ v.s.st = h.s.st /\ v.s.txt = h.s.txt /\ Beside(h, v)
      /\ Spare(v.s) = Spare(h.s) + 1 /\ v.s.rxt = FALSE
  <2>1. PICK t : t = [h.s EXCEPT !.rxt = FALSE]
    OBVIOUS
  <2>2. t \in SessRec /\ Same(h.s, t) /\ t.st = h.s.st /\ t.txt = h.s.txt /\ t.rxt = FALSE /\ t.refs = h.s.refs
    BY <1>1, <2>1 DEF SessRec, Same
  <2>3. v = [h EXCEPT !.s = t]
    BY <1>1, <2>1 DEF RxOff, ViewRec, SessRec
  <2>4. v \in ViewRec /\ v.s = t /\ Beside(h, v)
    BY <2>2, <2>3, WithSession
  <2>5. Spare(t) = Spare(h.s) + 1
    BY <1>1, <2>2 DEF Spare
  <2> QED
    BY <2>2, <2>4, <2>5
<1>3. v.s \in SessRec /\ v.s.refs \in Int
  BY <1>2 DEF ViewRec, SessRec
<1>4. Ends(n, k, v, w)
  <2>1. CASE v.s.st = "waiting"
    <3>1. w = j1939_session_deactivate_activate_next(v)
      BY <2>1 DEF Expires
    <3> QED
      BY <1>2, <3>1, Deactivates
  <2>2. CASE v.s.st # "waiting" /\ Type(k) = "simple"
    <3>1. PICK t : t = [v.s EXCEPT !.err = TRUE]
      OBVIOUS
    <3>2. t \in SessRec /\ Same(v.s, t) /\ t.st = v.s.st /\ t.txt = v.s.txt /\ t.rxt = v.s.rxt /\ t.refs = v.s.refs
      BY <1>3, <3>1 DEF SessRec, Same
    <3>3. PICK x : x = [v EXCEPT !.s.err = TRUE]
      OBVIOUS
    <3>4. x = [v EXCEPT !.s = t]
      BY <1>2, <1>3, <3>1, <3>3 DEF ViewRec, SessRec
    <3>5. x \in ViewRec /\ x.s = t /\ Beside(v, x)
      BY <1>2, <3>2, <3>4, WithSession
    <3>6. w = j1939_session_deactivate(x)
      BY <2>2, <3>3 DEF Expires
    <3>7. Ends(n, k, x, w)
      BY <3>5, <3>6, Deactivates
    <3>8. Spare(t) = Spare(v.s)
      BY <3>2 DEF Spare
    <3>9. w \in ViewRec /\ Same(w.s, w.s) /\ Beside(w, w) /\ Spare(w.s) = Spare(v.s)
      BY <3>5, <3>7, <3>8 DEF Ends, Same, Beside
    <3> QED
      BY <1>2, <3>2, <3>5, <3>7, <3>8, <3>9, EndsBetween
  <2>3. CASE v.s.st = "active" /\ Type(k) # "simple"
    <3>1. PICK t : t = [v.s EXCEPT !.rxt = TRUE, !.refs = v.s.refs + 1]
      OBVIOUS
    <3>2. t \in SessRec /\ Same(v.s, t) /\ t.st = v.s.st /\ t.txt = v.s.txt /\ t.rxt = TRUE /\ t.refs = v.s.refs + 1
      <4>1. PICK r : r = v.s.refs + 1
        OBVIOUS
      <4>2. r \in Int
        BY <1>3, <4>1
      <4>3. t \in SessRec /\ Same(v.s, t) /\ t.st = v.s.st /\ t.txt = v.s.txt /\ t.rxt = TRUE /\ t.refs = r
        BY <1>3, <3>1, <4>1, <4>2 DEF SessRec, Same
      <4> QED
        BY <4>1, <4>3
    <3>3. PICK x : x = [v EXCEPT !.s.rxt = TRUE, !.s.refs = v.s.refs + 1]
      OBVIOUS
    <3>4. x = [v EXCEPT !.s = t]
      BY <1>2, <1>3, <3>1, <3>3 DEF ViewRec, SessRec
    <3>5. x \in ViewRec /\ x.s = t /\ Beside(v, x)
      BY <1>2, <3>2, <3>4, WithSession
    <3>6. w = AbortSent(x, n, k)
      BY <2>3, <3>3 DEF Expires
    <3>7. Live(x.s) /\ Type(k) \in Types /\ k \in Nat
      BY <2>3, <3>2, <3>5, Scripts DEF Live
    <3>8. Ends(n, k, x, w)
      BY <3>5, <3>6, <3>7, AbortIs
    <3>9. Spare(t) = Spare(v.s)
      <4>1. v.s.rxt = FALSE /\ v.s.refs \in Int
        BY <1>2, <1>3
      <4> QED
        BY <3>2, <4>1 DEF Spare
    <3>10. w \in ViewRec /\ Same(w.s, w.s) /\ Beside(w, w) /\ Spare(w.s) = Spare(v.s)
      BY <3>5, <3>8, <3>9 DEF Ends, Same, Beside
    <3> QED
      BY <1>2, <3>2, <3>5, <3>8, <3>10, EndsBetween
  <2>4. CASE v.s.st \notin {"waiting", "active"} /\ Type(k) # "simple"
    <3>1. w = v
      BY <2>4 DEF Expires
    <3> QED
      BY <1>2, <3>1 DEF Ends, Same, Goes
  <2> QED
    BY <2>1, <2>2, <2>3, <2>4
<1>5. w \in ViewRec
  BY <1>4 DEF Ends
<1>6. /\ g \in ViewRec /\ Same(w.s, g.s) /\ g.s.st = w.s.st /\ g.s.txt = w.s.txt /\ Beside(w, g)
      /\ Spare(g.s) = Spare(w.s) - 1
  BY <1>5, PutIs
<1>7. Spare(h.s) \in Int
  BY <1>1, SpareInt
<1> QED
  <2>1. Spare(g.s) = Spare(h.s)
    BY <1>2, <1>4, <1>6, <1>7 DEF Ends
  <2> QED
    BY <1>2, <1>4, <1>6, <2>1, EndsBetween

-----------------------------------------------------------------------------
(* What the reception of a frame does to a session. *)

\* The timers stop; the session may end, or be aborted.
Stops(n, k, h, g) ==
  /\ g \in ViewRec /\ Same(h.s, g.s) /\ Goes(h.s, g.s) /\ Spare(g.s) = Spare(h.s) /\ g.s.txt = "off"
  /\ g.recv = h.recv
  /\ \/ g.out = h.out
     \/ g.out = Append(h.out, Ctl(n, "ABORT", k, 0, 0))

\* Nothing but the session, and of that neither state nor references.
Marks(h, g) ==
  g \in ViewRec /\ g.s.st = h.s.st /\ Spare(g.s) = Spare(h.s) /\ g.out = h.out /\ g.recv = h.recv

LEMMA StopsBy ==
  ASSUME NEW h \in ViewRec, NEW n, NEW k, NEW v, Timed(h, v), v.s.txt = "off", NEW g, Ends(n, k, v, g)
  PROVE  Stops(n, k, h, g)
<1>1. Same(h.s, g.s) /\ Goes(h.s, g.s)
  BY DEF Timed, Ends, Same, Goes, Live
<1> QED
  BY <1>1 DEF Timed, Ends, Stops, Beside

LEMMA CancelStops ==
  ASSUME NEW h \in ViewRec, NEW n \in Nodes, NEW k \in Msgs, mode \in Modes,
         NEW g, g = j1939_session_cancel(j1939_session_timers_cancel(h), n, k)
  PROVE  Stops(n, k, h, g)
<1>1. PICK v : v = j1939_session_timers_cancel(h)
  OBVIOUS
<1>2. Timed(h, v) /\ v.s.txt = "off" /\ v \in ViewRec
  BY <1>1, TimersStop DEF Timed
<1>3. Type(k) \in Types /\ k \in Nat
  BY Scripts
<1>4. Ends(n, k, v, g)
  BY <1>1, <1>2, <1>3, CancelIs
<1> QED
  BY <1>2, <1>4, StopsBy

LEMMA RtsTaken ==
  ASSUME NEW h \in ViewRec, NEW n \in Nodes, NEW k \in Msgs, mode \in Modes, NEW f \in FrameRec,
         NEW g, g = j1939_xtp_rx_rts(h, n, k, f), f.cmd \in {"RTS", "BAM"}
  PROVE  \/ Stops(n, k, h, g)
         \/ /\ n = "o" /\ h.s.cmd = "none" /\ Marks(h, g) /\ g.s.cmd = f.cmd /\ g.s.txt = h.s.txt
            /\ g.s.txcmd = h.s.txcmd /\ g.s.tx = h.s.tx /\ g.s.last = h.s.last
            /\ g.s.acked = h.s.acked /\ g.s.rx = h.s.rx /\ g.s.dpo = h.s.dpo /\ g.s.buf = h.s.buf
<1>1. h.s \in SessRec
  BY DEF ViewRec
<1>2. CASE n = "o" /\ h.s.cmd = "none"
  <2>1. PICK t : t = [h.s EXCEPT !.cmd = f.cmd]
    OBVIOUS
  <2>2. f.cmd \in Cmds
    BY DEF FrameRec
  <2>3. /\ t \in SessRec /\ t.cmd = f.cmd /\ t.txt = h.s.txt /\ t.txcmd = h.s.txcmd /\ t.tx = h.s.tx
        /\ t.last = h.s.last /\ t.acked = h.s.acked /\ t.rx = h.s.rx /\ t.dpo = h.s.dpo /\ t.buf = h.s.buf
        /\ t.st = h.s.st /\ t.refs = h.s.refs /\ t.rxt = h.s.rxt
    BY <1>1, <2>1, <2>2 DEF SessRec
  <2>4. PICK v : v = [h EXCEPT !.s = t]
    OBVIOUS
  <2>5. v \in ViewRec /\ v.s = t /\ Beside(h, v)
    BY <2>3, <2>4, WithSession
  <2>6. g = v \/ g = j1939_tp_set_rxtimeout(v)
    <3>1. v = [h EXCEPT !.s.cmd = f.cmd]
      BY <1>1, <2>1, <2>4 DEF ViewRec, SessRec
    <3>2. CASE f.cmd = "BAM"
      BY <1>2, <3>1, <3>2 DEF j1939_xtp_rx_rts
    <3>3. CASE f.cmd = "RTS"
      BY <1>2, <3>1, <3>3 DEF j1939_xtp_rx_rts
    <3> QED
      BY <3>2, <3>3
  <2>7. Timed(v, g) /\ g.s.txt = v.s.txt
    <3>1. CASE g = v
      BY <2>5, <3>1 DEF Timed, Same, Beside
    <3>2. CASE g = j1939_tp_set_rxtimeout(v)
      BY <2>5, <3>2, RxtimerStarts
    <3> QED
      BY <2>6, <3>1, <3>2
  <2>8. Spare(t) = Spare(h.s)
    BY <2>3 DEF Spare
  <2> QED
    BY <1>2, <2>3, <2>5, <2>7, <2>8 DEF Timed, Same, Beside, Marks
<1>3. CASE ~(n = "o" /\ h.s.cmd = "none")
  <2>1. PICK c : c = j1939_session_cancel(j1939_session_timers_cancel(h), n, k)
    OBVIOUS
  <2>2. Stops(n, k, h, c)
    BY <2>1, CancelStops
  <2>3. c \in ViewRec
    BY <2>2 DEF Stops
  <2>4. PICK v : v = IF n = "o" THEN c ELSE j1939_session_timers_cancel(c)
    OBVIOUS
  <2>5. v \in ViewRec /\ Same(c.s, v.s) /\ v.s.st = c.s.st /\ Beside(c, v) /\ Spare(v.s) = Spare(c.s)
        /\ v.s.txt = "off"
    <3>1. CASE n = "o"
      BY <2>2, <2>3, <2>4, <3>1 DEF Stops, Same, Beside
    <3>2. CASE n # "o"
      BY <2>3, <2>4, <3>2, TimersStop DEF Timed
    <3> QED
      BY <3>1, <3>2
  <2>6. g = j1939_session_deactivate_activate_next(v)
    BY <1>3, <2>1, <2>4 DEF j1939_xtp_rx_rts
  <2>7. Ends(n, k, v, g) /\ g.out = v.out
    BY <2>5, <2>6, Deactivates
  <2>8. Same(h.s, g.s) /\ Goes(h.s, g.s)
    BY <2>2, <2>5, <2>7 DEF Stops, Ends, Same, Goes, Live
  <2> QED
    BY <2>2, <2>5, <2>7, <2>8 DEF Stops, Ends, Beside
<1> QED
  BY <1>2, <1>3

LEMMA NewIs ==
  ASSUME NEW h \in ViewRec, NEW f \in FrameRec, NEW g, g = j1939_xtp_rx_rts_session_new(h, f),
         f.cmd \in {"RTS", "BAM"}
  PROVE  /\ g \in ViewRec /\ g.s.st = "active" /\ g.s.cmd = f.cmd /\ g.s.txcmd = h.s.txcmd /\ g.s.tx = h.s.tx
         /\ g.s.last = h.s.last /\ g.s.acked = h.s.acked /\ g.s.rx = h.s.rx /\ g.s.dpo = h.s.dpo
         /\ g.s.buf = h.s.buf /\ g.out = h.out /\ g.recv = h.recv
         /\ IF f.cmd = "BAM"
            THEN g.s.txt = h.s.txt /\ Spare(g.s) = Spare(h.s)
            ELSE g.s.txt = "now" /\ Spare(g.s) = Spare(h.s) + (IF h.s.txt = "off" THEN 0 ELSE 1)
<1>1. h.s \in SessRec
  BY DEF ViewRec
<1>2. PICK t : t = [h.s EXCEPT !.st = "active", !.cmd = f.cmd]
  OBVIOUS
<1>3. f.cmd \in Cmds
  BY DEF FrameRec
<1>4. /\ t \in SessRec /\ t.cmd = f.cmd /\ t.txt = h.s.txt /\ t.txcmd = h.s.txcmd /\ t.tx = h.s.tx
      /\ t.last = h.s.last /\ t.acked = h.s.acked /\ t.rx = h.s.rx /\ t.dpo = h.s.dpo /\ t.buf = h.s.buf
      /\ t.st = "active" /\ t.refs = h.s.refs /\ t.rxt = h.s.rxt
  BY <1>1, <1>2, <1>3 DEF SessRec
<1>5. PICK v : v = [h EXCEPT !.s = t]
  OBVIOUS
<1>6. v \in ViewRec /\ v.s = t /\ Beside(h, v)
  BY <1>4, <1>5, WithSession
<1>7. PICK w : w = IF f.cmd = "BAM" THEN v ELSE j1939_tp_schedule_txtimer(v, "now")
  OBVIOUS
<1>8. w \in ViewRec /\ Same(v.s, w.s) /\ w.s.st = v.s.st /\ Beside(v, w)
      /\ IF f.cmd = "BAM" THEN w.s.txt = v.s.txt /\ Spare(w.s) = Spare(v.s)
         ELSE w.s.txt = "now" /\ Spare(w.s) = Spare(v.s) + (IF v.s.txt = "off" THEN 0 ELSE 1)
  <2>1. CASE f.cmd = "BAM"
    BY <1>6, <1>7, <2>1 DEF Same, Beside
  <2>2. CASE f.cmd # "BAM"
    BY <1>6, <1>7, <2>2, TxtimerStarts
  <2> QED
    BY <2>1, <2>2
<1>9. g = j1939_tp_set_rxtimeout(w)
  <2>1. v = [h EXCEPT !.s.st = "active", !.s.cmd = f.cmd]
    BY <1>1, <1>2, <1>5 DEF ViewRec, SessRec
  <2> QED
    BY <1>7, <2>1 DEF j1939_xtp_rx_rts_session_new
<1>10. Timed(w, g) /\ g.s.txt = w.s.txt
  BY <1>8, <1>9, RxtimerStarts
<1>11. Spare(t) = Spare(h.s)
  BY <1>4 DEF Spare
<1>12. /\ g.s.st = t.st /\ g.s.cmd = t.cmd /\ g.s.txcmd = t.txcmd /\ g.s.tx = t.tx /\ g.s.last = t.last
       /\ g.s.acked = t.acked /\ g.s.rx = t.rx /\ g.s.dpo = t.dpo /\ g.s.buf = t.buf
  BY <1>6, <1>8, <1>10 DEF Timed, Same
<1>13. g \in ViewRec /\ g.out = h.out /\ g.recv = h.recv
  BY <1>6, <1>8, <1>10 DEF Timed, Beside
<1>14. IF f.cmd = "BAM" THEN g.s.txt = h.s.txt /\ Spare(g.s) = Spare(h.s)
       ELSE g.s.txt = "now" /\ Spare(g.s) = Spare(h.s) + (IF h.s.txt = "off" THEN 0 ELSE 1)
  BY <1>4, <1>6, <1>8, <1>10, <1>11 DEF Timed
<1> QED
  BY <1>4, <1>12, <1>13, <1>14

CtsTakes(n, k, f, h, g) ==
  /\ Marks(h, g) /\ h.s.cmd # "CTS" /\ g.s.cmd = "CTS"
  /\ g.s.acked = f.pkt - 1 /\ g.s.tx = f.pkt - 1 /\ g.s.last = Smaller(f.pkt - 1 + f.len, Total(k))
  /\ g.s.txcmd = h.s.txcmd /\ g.s.rx = h.s.rx /\ g.s.dpo = h.s.dpo /\ g.s.buf = h.s.buf
  /\ g.s.txt = IF n = "o" THEN "now" ELSE h.s.txt

LEMMA CtsTaken ==
  ASSUME NEW h \in ViewRec, NEW n \in Nodes, NEW k \in Msgs, mode \in Modes, NEW f \in FrameRec,
         NEW g, g = j1939_xtp_rx_cts_one(h, n, k, f)
  PROVE  \/ h.s.cmd = "CTS" /\ Stops(n, k, h, g)
         \/ CtsTakes(n, k, f, h, g)
<1>1. h.s \in SessRec
  BY DEF ViewRec
<1>2. CASE h.s.cmd = "CTS"
  <2>1. g = j1939_session_cancel(j1939_session_timers_cancel(h), n, k)
    BY <1>2 DEF j1939_xtp_rx_cts_one
  <2> QED
    BY <1>2, <2>1, CancelStops
<1>3. CASE h.s.cmd # "CTS"
  <2>1. PICK a : a = f.pkt - 1
    OBVIOUS
  <2>2. PICK l : l = Smaller(f.pkt - 1 + f.len, Total(k))
    OBVIOUS
  <2>3. a \in Int /\ l \in Int
    <3>1. f.pkt \in Int /\ f.len \in Int /\ Total(k) \in Int
      BY Scripts DEF FrameRec
    <3> QED
      BY <2>1, <2>2, <3>1 DEF Smaller
  <2>4. PICK t : t = [h.s EXCEPT !.acked = a, !.tx = a, !.cmd = "CTS", !.last = l]
    OBVIOUS
  <2>5. /\ t \in SessRec /\ t.cmd = "CTS" /\ t.txt = h.s.txt /\ t.txcmd = h.s.txcmd /\ t.tx = a
        /\ t.last = l /\ t.acked = a /\ t.rx = h.s.rx /\ t.dpo = h.s.dpo /\ t.buf = h.s.buf
        /\ t.st = h.s.st /\ t.refs = h.s.refs /\ t.rxt = h.s.rxt
    BY <1>1, <2>3, <2>4 DEF SessRec, Cmds, FromR
  <2>6. PICK v : v = [h EXCEPT !.s = t]
    OBVIOUS
  <2>7. v \in ViewRec /\ v.s = t /\ Beside(h, v)
    BY <2>5, <2>6, WithSession
  <2>8. v = [h EXCEPT !.s.acked = f.pkt - 1, !.s.tx = f.pkt - 1, !.s.cmd = "CTS",
                      !.s.last = Smaller(f.pkt - 1 + f.len, Total(k))]
    <3>1. v = [h EXCEPT !.s.acked = a, !.s.tx = a, !.s.cmd = "CTS", !.s.last = l]
      BY <1>1, <2>4, <2>6 DEF ViewRec, SessRec
    <3> QED
      BY <2>1, <2>2, <3>1
  <2>9. PICK w : w = j1939_tp_set_rxtimeout(v)
    OBVIOUS
  <2>10. Timed(v, w) /\ w.s.txt = v.s.txt /\ w \in ViewRec
    BY <2>7, <2>9, RxtimerStarts DEF Timed
  <2>11. Timed(w, g) /\ g.s.txt = IF n = "o" THEN "now" ELSE w.s.txt
    <3>1. CASE n = "o"
      <4>1. PICK x : x = j1939_session_txtimer_cancel(w)
        OBVIOUS
      <4>2. Timed(w, x) /\ x.s.txt = "off" /\ x \in ViewRec
        BY <2>10, <4>1, TxtimerStops DEF Timed
      <4>3. g = j1939_tp_schedule_txtimer(x, "now")
        BY <1>3, <2>8, <2>9, <3>1, <4>1 DEF j1939_xtp_rx_cts_one
      <4>4. /\ g \in ViewRec /\ Same(x.s, g.s) /\ g.s.st = x.s.st /\ Beside(x, g) /\ g.s.txt = "now"
            /\ Spare(g.s) = Spare(x.s) + 0
        BY <4>2, <4>3, TxtimerStarts
      <4>5. x.s \in SessRec
        BY <4>2 DEF ViewRec
      <4>6. Spare(g.s) = Spare(x.s)
        BY <4>4, <4>5, SpareInt
      <4> QED
        BY <3>1, <4>2, <4>4, <4>6 DEF Timed, Same, Beside
    <3>2. CASE n # "o"
      <4>1. g = w
        BY <1>3, <2>8, <2>9, <3>2 DEF j1939_xtp_rx_cts_one
      <4> QED
        BY <2>10, <3>2, <4>1 DEF Timed, Same, Beside
    <3> QED
      BY <3>1, <3>2
  <2>12. Spare(t) = Spare(h.s)
    BY <2>5 DEF Spare
  <2>13. Marks(h, g)
    BY <2>5, <2>7, <2>10, <2>11, <2>12 DEF Timed, Beside, Marks
  <2>14. CtsTakes(n, k, f, h, g)
    BY <1>3, <2>1, <2>2, <2>5, <2>7, <2>10, <2>11, <2>13 DEF Timed, Same, CtsTakes
  <2> QED
    BY <2>14
<1> QED
  BY <1>2, <1>3

DpoTakes(f, h, g) ==
  /\ Marks(h, g) /\ g.s.cmd = "DPO" /\ g.s.dpo = f.pkt /\ g.s.txcmd = h.s.txcmd /\ g.s.tx = h.s.tx
  /\ g.s.last = h.s.last /\ g.s.acked = h.s.acked /\ g.s.rx = h.s.rx /\ g.s.buf = h.s.buf
  /\ g.s.txt = h.s.txt

LEMMA DpoTaken ==
  ASSUME NEW h \in ViewRec, NEW f \in FrameRec, NEW g, g = j1939_xtp_rx_dpo_one(h, f)
  PROVE  DpoTakes(f, h, g)
<1>1. h.s \in SessRec /\ f.pkt \in Int
  BY DEF ViewRec, FrameRec
<1>2. PICK t : t = [h.s EXCEPT !.dpo = f.pkt, !.cmd = "DPO"]
  OBVIOUS
<1>3. /\ t \in SessRec /\ t.cmd = "DPO" /\ t.txt = h.s.txt /\ t.txcmd = h.s.txcmd /\ t.tx = h.s.tx
      /\ t.last = h.s.last /\ t.acked = h.s.acked /\ t.rx = h.s.rx /\ t.dpo = f.pkt /\ t.buf = h.s.buf
      /\ t.st = h.s.st /\ t.refs = h.s.refs /\ t.rxt = h.s.rxt
  BY <1>1, <1>2 DEF SessRec, Cmds, FromO
<1>4. PICK v : v = [h EXCEPT !.s = t]
  OBVIOUS
<1>5. v \in ViewRec /\ v.s = t /\ Beside(h, v)
  BY <1>3, <1>4, WithSession
<1>6. g = j1939_tp_set_rxtimeout(v)
  <2>1. v = [h EXCEPT !.s.dpo = f.pkt, !.s.cmd = "DPO"]
    BY <1>1, <1>2, <1>4 DEF ViewRec, SessRec
  <2> QED
    BY <2>1 DEF j1939_xtp_rx_dpo_one
<1>7. Timed(v, g) /\ g.s.txt = v.s.txt
  BY <1>5, <1>6, RxtimerStarts
<1>8. Spare(t) = Spare(h.s)
  BY <1>3 DEF Spare
<1> QED
  BY <1>3, <1>5, <1>7, <1>8 DEF Timed, Same, Beside, Marks, DpoTakes

\* The packet a DAT frame is for, and how far the message has come with it.
Pkt(f, s) == f.pkt - 1 + s.dpo
Rx(f, s) == IF Pkt(f, s) = s.rx THEN s.rx + 1 ELSE s.rx

Unfit(k, f, s) ==
  \/ s.cmd \notin IF Type(k) = "etp" THEN {"DAT", "DPO"} ELSE {"DAT", "CTS", "BAM"}
  \/ Pkt(f, s) >= Total(k) \/ s.rx + 1 > Total(k)

DatTakes(n, k, f, h, g) ==
  /\ ~Unfit(k, f, h.s) /\ g \in ViewRec /\ g.out = h.out
  /\ g.s.cmd = "DAT" /\ g.s.rx = Rx(f, h.s) /\ g.s.txcmd = h.s.txcmd /\ g.s.tx = h.s.tx
  /\ g.s.last = h.s.last /\ g.s.acked = h.s.acked /\ g.s.dpo = h.s.dpo
  /\ g.s.buf = IF n = "r" THEN [h.s.buf EXCEPT ![Pkt(f, h.s)] = f.data] ELSE h.s.buf
  /\ \/ /\ Type(k) = "bam" /\ Rx(f, h.s) >= Total(k) /\ Goes(h.s, g.s) /\ ~Live(g.s)
        /\ Spare(g.s) = Spare(h.s) /\ g.s.txt = "off" /\ g.recv = (n = "r")
     \/ /\ ~(Type(k) = "bam" /\ Rx(f, h.s) >= Total(k)) /\ g.s.st = h.s.st /\ g.recv = h.recv
        /\ IF Type(k) # "bam" /\ n = "r" /\ Rx(f, h.s) >= h.s.last
           THEN g.s.txt = "now" /\ Spare(g.s) = Spare(h.s) + (IF h.s.txt = "off" THEN 0 ELSE 1)
           ELSE g.s.txt = h.s.txt /\ Spare(g.s) = Spare(h.s)

LEMMA StoredType ==
  ASSUME NEW b \in Buffers, NEW d \in DataRec, NEW i
  PROVE  [b EXCEPT ![i] = d] \in Buffers
<1>1. PICK t \in Nat : b \in [0..t - 1 -> DataRec]
  BY DEF Buffers
<1>2. [b EXCEPT ![i] = d] \in [0..t - 1 -> DataRec]
  BY <1>1
<1> QED
  BY <1>2 DEF Buffers

LEMMA DatTaken ==
  ASSUME NEW h \in ViewRec, NEW n \in Nodes, NEW k \in Msgs, mode \in Modes, NEW f \in FrameRec,
         NEW g, g = j1939_xtp_rx_dat_one(h, n, k, f)
  PROVE  Stops(n, k, h, g) \/ DatTakes(n, k, f, h, g)
<1>1. h.s \in SessRec
  BY DEF ViewRec
<1>2. /\ h.s.rx \in Int /\ h.s.last \in Int /\ h.s.dpo \in Int /\ h.s.buf \in Buffers
      /\ f.pkt \in Int /\ f.data \in DataRec /\ Total(k) \in Int
  BY <1>1, Scripts DEF SessRec, FrameRec
<1>3. PICK x : x = Rx(f, h.s)
  OBVIOUS
<1>4. PICK b : b = IF n = "r" THEN [h.s.buf EXCEPT ![Pkt(f, h.s)] = f.data] ELSE h.s.buf
  OBVIOUS
<1>5. x \in Int /\ b \in Buffers
  <2>1. x \in Int
    BY <1>2, <1>3 DEF Rx
  <2>2. [h.s.buf EXCEPT ![Pkt(f, h.s)] = f.data] \in Buffers
    BY <1>2, StoredType
  <2> QED
    BY <1>2, <1>4, <2>1, <2>2
<1>6. PICK t : t = [h.s EXCEPT !.rx = x, !.cmd = "DAT", !.buf = b]
  OBVIOUS
<1>7. /\ t \in SessRec /\ t.cmd = "DAT" /\ t.txt = h.s.txt /\ t.txcmd = h.s.txcmd /\ t.tx = h.s.tx
      /\ t.last = h.s.last /\ t.acked = h.s.acked /\ t.rx = x /\ t.dpo = h.s.dpo /\ t.buf = b
      /\ t.st = h.s.st /\ t.refs = h.s.refs /\ t.rxt = h.s.rxt
  BY <1>1, <1>5, <1>6 DEF SessRec, Cmds, FromO
<1>8. PICK v : v = [h EXCEPT !.s = t]
  OBVIOUS
<1>9. v \in ViewRec /\ v.s = t /\ Beside(h, v)
  BY <1>7, <1>8, WithSession
<1>10. Spare(t) = Spare(h.s)
  BY <1>7 DEF Spare
<1>11. PICK w : w = j1939_tp_set_rxtimeout(v)
  OBVIOUS
<1>12. Timed(v, w) /\ w.s.txt = v.s.txt /\ w \in ViewRec
  BY <1>9, <1>11, RxtimerStarts DEF Timed
<1> DEFINE final == Type(k) = "bam" /\ x >= Total(k)
<1>13. g = CASE Unfit(k, f, h.s) -> j1939_session_cancel(j1939_session_timers_cancel(h), n, k)
             [] ~Unfit(k, f, h.s) /\ final -> j1939_session_completed(j1939_session_timers_cancel(v), n)
             [] ~Unfit(k, f, h.s) /\ ~final /\ Type(k) = "bam" -> IF n = "r" THEN w ELSE v
             [] ~Unfit(k, f, h.s) /\ Type(k) # "bam" /\ x >= h.s.last /\ n = "r" ->
                  j1939_tp_schedule_txtimer(w, "now")
             [] OTHER -> w
  <2>1. v = [h EXCEPT !.s.rx = x, !.s.cmd = "DAT", !.s.buf = b]
    BY <1>1, <1>6, <1>8 DEF ViewRec, SessRec
  <2> DEFINE y == IF f.pkt - 1 + h.s.dpo = h.s.rx THEN h.s.rx + 1 ELSE h.s.rx
             c == IF n = "r" THEN [h.s.buf EXCEPT ![f.pkt - 1 + h.s.dpo] = f.data] ELSE h.s.buf
             u == [h EXCEPT !.s.rx = y, !.s.cmd = "DAT", !.s.buf = c]
             bad == \/ h.s.cmd \notin IF Type(k) = "etp" THEN {"DAT", "DPO"} ELSE {"DAT", "CTS", "BAM"}
                    \/ f.pkt - 1 + h.s.dpo >= Total(k) \/ h.s.rx + 1 > Total(k)
  <2>2. g = CASE bad -> j1939_session_cancel(j1939_session_timers_cancel(h), n, k)
              [] ~bad /\ Final(u.s, k) -> j1939_session_completed(j1939_session_timers_cancel(u), n)
              [] ~bad /\ ~Final(u.s, k) /\ Type(k) = "bam" -> IF n = "r" THEN j1939_tp_set_rxtimeout(u) ELSE u
              [] ~bad /\ Type(k) # "bam" /\ u.s.rx >= u.s.last /\ n = "r" ->
                   j1939_tp_schedule_txtimer(j1939_tp_set_rxtimeout(u), "now")
              [] OTHER -> j1939_tp_set_rxtimeout(u)
    BY DEF j1939_xtp_rx_dat_one, Stored
  <2>3. y = x
    BY <1>3 DEF Rx, Pkt
  <2>4. c = b
    BY <1>4 DEF Pkt
  <2> HIDE DEF y, c
  <2>5. u = v
    BY <2>1, <2>3, <2>4
  <2> HIDE DEF u
  <2>6. bad <=> Unfit(k, f, h.s)
    BY DEF Unfit, Pkt
  <2> HIDE DEF bad
  <2>7. Final(u.s, k) <=> final
    BY <1>7, <1>9, <2>5 DEF Final
  <2>8. u.s.rx = x /\ u.s.last = h.s.last
    BY <1>7, <1>9, <2>5
  <2> HIDE DEF final
  <2> QED
    BY <1>11, <2>2, <2>5, <2>6, <2>7, <2>8
<1>14. CASE Unfit(k, f, h.s)
  <2>1. g = j1939_session_cancel(j1939_session_timers_cancel(h), n, k)
    BY <1>13, <1>14
  <2> QED
    BY <2>1, CancelStops
<1> DEFINE marks(z) == /\ z.s.cmd = "DAT" /\ z.s.rx = x /\ z.s.txcmd = h.s.txcmd /\ z.s.tx = h.s.tx
                       /\ z.s.last = h.s.last /\ z.s.acked = h.s.acked /\ z.s.dpo = h.s.dpo /\ z.s.buf = b
<1>15. CASE ~Unfit(k, f, h.s) /\ final
  <2>1. PICK y : y = j1939_session_timers_cancel(v)
    OBVIOUS
  <2>2. Timed(v, y) /\ y.s.txt = "off" /\ y \in ViewRec
    BY <1>9, <2>1, TimersStop DEF Timed
  <2>3. g = j1939_session_completed(y, n)
    BY <1>13, <1>15, <2>1
  <2>4. /\ g \in ViewRec /\ Same(y.s, g.s) /\ Goes(y.s, g.s) /\ Spare(g.s) = Spare(y.s) /\ ~Live(g.s)
        /\ g.s.txt = y.s.txt /\ g.out = y.out /\ g.recv = (n = "r")
    BY <2>2, <2>3, CompletedIs
  <2>5. marks(g)
    BY <1>7, <1>9, <2>2, <2>4 DEF Timed, Same
  <2>6. Goes(h.s, g.s)
    BY <1>7, <1>9, <2>2, <2>4 DEF Timed, Goes, Live
  <2>7. g.out = h.out /\ Spare(g.s) = Spare(h.s)
    BY <1>9, <1>10, <2>2, <2>4 DEF Timed, Beside
  <2> QED
    BY <1>3, <1>4, <1>15, <2>2, <2>4, <2>5, <2>6, <2>7 DEF DatTakes
<1>16. CASE ~Unfit(k, f, h.s) /\ ~final /\ ~(Type(k) # "bam" /\ x >= h.s.last /\ n = "r")
  <2>1. g \in {v, w}
    <3>1. CASE Type(k) = "bam"
      BY <1>13, <1>16, <3>1
    <3>2. CASE Type(k) # "bam"
      BY <1>13, <1>16, <3>2
    <3> QED
      BY <3>1, <3>2
  <2>2. Timed(v, g) /\ g.s.txt = v.s.txt
    BY <1>9, <1>12, <2>1 DEF Timed, Same, Beside
  <2>3. marks(g)
    BY <1>7, <1>9, <2>2 DEF Timed, Same
  <2>4. g.out = h.out /\ Spare(g.s) = Spare(h.s) /\ g.s.st = h.s.st /\ g.recv = h.recv /\ g \in ViewRec
        /\ g.s.txt = h.s.txt
    BY <1>7, <1>9, <1>10, <2>2 DEF Timed, Beside
  <2> QED
    BY <1>3, <1>4, <1>16, <2>3, <2>4 DEF DatTakes
<1>17. CASE ~Unfit(k, f, h.s) /\ Type(k) # "bam" /\ x >= h.s.last /\ n = "r"
  <2>1. g = j1939_tp_schedule_txtimer(w, "now")
    BY <1>13, <1>17
  <2>2. /\ g \in ViewRec /\ Same(w.s, g.s) /\ g.s.st = w.s.st /\ Beside(w, g) /\ g.s.txt = "now"
        /\ Spare(g.s) = Spare(w.s) + (IF w.s.txt = "off" THEN 0 ELSE 1)
    BY <1>12, <2>1, TxtimerStarts
  <2>3. marks(g)
    BY <1>7, <1>9, <1>12, <2>2 DEF Timed, Same
  <2>4. g.out = h.out /\ g.s.st = h.s.st /\ g.recv = h.recv
    BY <1>7, <1>9, <1>12, <2>2 DEF Timed, Beside
  <2>5. Spare(g.s) = Spare(h.s) + (IF h.s.txt = "off" THEN 0 ELSE 1)
    BY <1>7, <1>9, <1>10, <1>12, <2>2 DEF Timed
  <2> QED
    BY <1>3, <1>4, <1>17, <2>2, <2>3, <2>4, <2>5 DEF DatTakes
<1> QED
  BY <1>14, <1>15, <1>16, <1>17

LEMMA EomaTaken ==
  ASSUME NEW h \in ViewRec, NEW n \in Nodes, NEW k \in Msgs, mode \in Modes,
         NEW g, g = j1939_xtp_rx_eoma_one(h, n, k)
  PROVE  /\ g \in ViewRec /\ Core(h.s, g.s) /\ g.s.tx = h.s.tx /\ g.s.txcmd = h.s.txcmd /\ Goes(h.s, g.s)
         /\ ~Live(g.s) /\ Spare(g.s) = Spare(h.s) /\ g.s.txt = "off" /\ g.out = h.out /\ g.recv = (n = "r")
<1>1. h.s \in SessRec /\ Total(k) \in Int
  BY Scripts DEF ViewRec
<1>2. PICK t : t = [h.s EXCEPT !.acked = Total(k)]
  OBVIOUS
<1>3. /\ t \in SessRec /\ Core(h.s, t) /\ t.txt = h.s.txt /\ t.txcmd = h.s.txcmd /\ t.tx = h.s.tx
      /\ t.st = h.s.st /\ t.refs = h.s.refs /\ t.rxt = h.s.rxt
  BY <1>1, <1>2 DEF SessRec, Core
<1>4. PICK v : v = [h EXCEPT !.s = t]
  OBVIOUS
<1>5. v \in ViewRec /\ v.s = t /\ Beside(h, v)
  BY <1>3, <1>4, WithSession
<1>6. PICK w : w = j1939_session_timers_cancel(v)
  OBVIOUS
<1>7. Timed(v, w) /\ w.s.txt = "off" /\ w \in ViewRec
  BY <1>5, <1>6, TimersStop DEF Timed
<1>8. g = j1939_session_completed(w, n)
  <2>1. v = [h EXCEPT !.s.acked = Total(k)]
    BY <1>1, <1>2, <1>4 DEF ViewRec, SessRec
  <2> QED
    BY <1>6, <2>1 DEF j1939_xtp_rx_eoma_one
<1>9. /\ g \in ViewRec /\ Same(w.s, g.s) /\ Goes(w.s, g.s) /\ Spare(g.s) = Spare(w.s) /\ ~Live(g.s)
      /\ g.s.txt = w.s.txt /\ g.out = w.out /\ g.recv = (n = "r")
  BY <1>7, <1>8, CompletedIs
<1>10. Spare(t) = Spare(h.s)
  BY <1>3 DEF Spare
<1>11. Core(h.s, g.s) /\ g.s.tx = h.s.tx /\ g.s.txcmd = h.s.txcmd
  BY <1>3, <1>5, <1>7, <1>9 DEF Timed, Same, Core
<1>12. Goes(h.s, g.s)
  BY <1>3, <1>5, <1>7, <1>9 DEF Timed, Goes, Live
<1> QED
  BY <1>5, <1>7, <1>9, <1>10, <1>11, <1>12 DEF Timed, Beside

LEMMA AbortTaken ==
  ASSUME NEW h \in ViewRec, NEW n, NEW k, NEW g, g = j1939_xtp_rx_abort_one(h)
  PROVE  Stops(n, k, h, g) /\ ~Live(g.s)
<1>1. PICK v : v = j1939_session_timers_cancel(h)
  OBVIOUS
<1>2. Timed(h, v) /\ v.s.txt = "off" /\ v \in ViewRec /\ v.s \in SessRec
  BY <1>1, TimersStop DEF Timed, ViewRec
<1>3. PICK t : t = [v.s EXCEPT !.err = TRUE]
  OBVIOUS
<1>4. t \in SessRec /\ Same(v.s, t) /\ t.st = v.s.st /\ t.txt = v.s.txt /\ t.rxt = v.s.rxt /\ t.refs = v.s.refs
  BY <1>2, <1>3 DEF SessRec, Same
<1>5. PICK w : w = [v EXCEPT !.s = t]
  OBVIOUS
<1>6. w \in ViewRec /\ w.s = t /\ Beside(v, w)
  BY <1>2, <1>4, <1>5, WithSession
<1>7. g = j1939_session_deactivate_activate_next(w)
  <2>1. w = [v EXCEPT !.s.err = TRUE]
    BY <1>2, <1>3, <1>5 DEF ViewRec, SessRec
  <2> QED
    BY <1>1, <2>1 DEF j1939_xtp_rx_abort_one
<1>8. Spare(t) = Spare(v.s)
  BY <1>4 DEF Spare
<1>9. Timed(h, w) /\ w.s.txt = "off"
  BY <1>2, <1>4, <1>6, <1>8 DEF Timed, Same, Beside
<1>10. Ends(n, k, w, g) /\ ~Live(g.s)
  BY <1>6, <1>7, Deactivates
<1> QED
  BY <1>9, <1>10, StopsBy

LEMMA SimpleTaken ==
  ASSUME NEW h \in ViewRec, NEW n, NEW k, NEW g, g = j1939_simple_recv(h)
  PROVE  Stops(n, k, h, g) /\ ~Live(g.s)
<1>1. PICK v : v = j1939_session_timers_cancel(h)
  OBVIOUS
<1>2. Timed(h, v) /\ v.s.txt = "off" /\ v \in ViewRec
  BY <1>1, TimersStop DEF Timed
<1>3. g = j1939_session_deactivate(v)
  BY <1>1 DEF j1939_simple_recv
<1>4. Ends(n, k, v, g) /\ ~Live(g.s)
  BY <1>2, <1>3, Deactivates
<1> QED
  BY <1>2, <1>4, StopsBy

-----------------------------------------------------------------------------
(* Type correctness and references, for any messages. *)

\* Frames that a node gives to its device's queue for the session of message k.
OwnFrames(n, k) ==
  {f \in FrameRec :
     /\ f.from = n /\ f.data.msg = k /\ f.type = Type(k)
     /\ f.cmd \in IF n = "o" THEN FromO ELSE FromR
     /\ f.cmd \in {"RTS", "CTS", "EOMA"} => f.type \in {"tp", "etp"}
     /\ f.cmd = "BAM" => f.type = "bam"
     /\ f.cmd = "DPO" => f.type = "etp"
     /\ f.cmd = "DAT" => f.type # "simple" /\ (f.type # "etp" => f.data.pkt = f.pkt - 1)
     /\ f.cmd = "SIMPLE" => f.type = "simple" /\ f.data.pkt = 0}

Sent(n) == UNION {OwnFrames(n, k) : k \in Msgs}

\* A session before its message begins and after it is freed; one that is at work.
Idle(k, s) ==
  s.st \in {"none", "new", "freed"} /\ s = [Blank(k) EXCEPT !.st = s.st, !.err = s.err]

Working(n, k, s) ==
  /\ s.st \in {"active", "waiting", "done"}
  /\ Type(k) # "etp" => s.dpo = 0
  /\ s.cmd = "BAM" => Type(k) = "bam"
  /\ n = "r" => Type(k) # "simple" /\ (Type(k) = "bam" => s.txt = "off")
  /\ DOMAIN s.buf = 0..Total(k) - 1

TypeInv ==
  /\ mode \in Modes
  /\ se \in [Nodes -> [Msgs -> SessRec]]
  /\ queue \in Seq(Msgs)
  /\ sk \in {"open", "closed"} /\ dev \in {"up", "going", "down"} /\ listen \in BOOLEAN /\ lost \in Nat
  /\ out \in [Nodes -> Seq(FrameRec)] /\ in \in [Nodes -> Seq(FrameRec)]
  /\ got \in Seq([msg : Nat, buf : Buffers])

FrameInv ==
  /\ \A n \in Nodes : out[n] \in Seq(Sent(n))
  /\ \A n \in Nodes : in[n] \in Seq(Sent("o") \cup Sent("r"))

SessInv ==
  \A n \in Nodes : \A k \in Msgs :
    /\ Idle(k, se[n][k]) \/ Working(n, k, se[n][k])
    /\ n = "r" => se[n][k].st # "new"

\* Only the first session of the queue has begun.
QueueInv ==
  /\ \A i, j \in 1..Len(queue) : queue[i] = queue[j] => i = j
  /\ \A i \in 1..Len(queue) : se["o"][queue[i]].st \notin {"none", "freed"}
  /\ \A i \in 2..Len(queue) : se["o"][queue[i]].st = "new"

\* Each timer that is queued holds a reference, at the originator no other does.
RefsSuffice ==
  \A k \in Msgs : Spare(se["o"][k]) = 0 /\ Spare(se["r"][k]) >= 0

BaseInv == TypeInv /\ FrameInv /\ SessInv /\ QueueInv /\ RefsSuffice

LEMMA SeqSubset ==
  ASSUME NEW S, NEW T, S \subseteq T, NEW q \in Seq(S)
  PROVE  q \in Seq(T)
<1>1. \A i \in 1..Len(q) : q[i] \in T
  BY ElementOfSeq
<1>2. Len(q) \in Nat /\ q = [i \in 1..Len(q) |-> q[i]]
  OBVIOUS
<1> QED
  BY <1>1, <1>2

LEMMA OwnCtl ==
  ASSUME mode \in Modes, NEW n \in Nodes, NEW k \in Msgs, NEW l \in Int, NEW p \in Int, NEW c,
         \/ c = "ABORT"
         \/ n = "o" /\ c = Opening(k) /\ Type(k) # "simple"
         \/ n = "o" /\ c = "DPO" /\ Type(k) = "etp"
         \/ n = "r" /\ c \in {"CTS", "EOMA"} /\ Type(k) \in {"tp", "etp"}
  PROVE  Ctl(n, c, k, l, p) \in OwnFrames(n, k)
<1>1. k \in Nat /\ Type(k) \in Types
  BY Scripts
<1>2. c \in Cmds /\ c \in (IF n = "o" THEN FromO ELSE FromR)
  BY DEF Cmds, FromO, FromR, Opening, Nodes
<1>3. PICK f : f = Ctl(n, c, k, l, p)
  OBVIOUS
<1>4. /\ f \in FrameRec /\ f.from = n /\ f.cmd = c /\ f.type = Type(k) /\ f.len = l /\ f.pkt = p
      /\ f.data.msg = k
  BY <1>1, <1>2, <1>3, CtlType
<1>5. /\ c \in {"RTS", "CTS", "EOMA"} => Type(k) \in {"tp", "etp"}
      /\ c = "BAM" => Type(k) = "bam"
      /\ c = "DPO" => Type(k) = "etp"
      /\ c # "DAT" /\ c # "SIMPLE"
  BY <1>1 DEF Opening, Types
<1> QED
  BY <1>2, <1>3, <1>4, <1>5 DEF OwnFrames

LEMMA OwnDats ==
  ASSUME mode \in Modes, NEW k \in Msgs, NEW s \in SessRec, NEW d \in Int, Type(k) # "simple",
         Type(k) # "etp" => s.dpo = 0
  PROVE  [i \in 1..d |-> DatFrame("o", k, s, i)] \in Seq(OwnFrames("o", k))
<1>1. ASSUME NEW i \in 1..d
      PROVE  DatFrame("o", k, s, i) \in OwnFrames("o", k)
  <2>1. PICK x : x = s.tx + i - s.dpo
    OBVIOUS
  <2>2. PICK y : y = s.tx + i - 1
    OBVIOUS
  <2>3. x \in Int /\ y \in Int /\ (s.dpo = 0 => y = x - 1)
    <3>1. i \in Int /\ s.tx \in Int /\ s.dpo \in Int
      BY DEF SessRec
    <3> QED
      BY <2>1, <2>2, <3>1
  <2>4. k \in Nat /\ Type(k) \in Types /\ "o" \in Nodes /\ "DAT" \in Cmds /\ "DAT" \in FromO
    BY Scripts DEF Nodes, Cmds, FromO
  <2>5. PICK f : f = [from |-> "o", cmd |-> "DAT", type |-> Type(k), len |-> 0, pkt |-> x,
                      data |-> [msg |-> k, pkt |-> y]]
    OBVIOUS
  <2>6. f = DatFrame("o", k, s, i)
    BY <2>1, <2>2, <2>5 DEF DatFrame, Frame
  <2>7. f \in FrameRec
    BY <2>3, <2>4, <2>5 DEF FrameRec, DataRec
  <2>8. /\ f.from = "o" /\ f.cmd = "DAT" /\ f.type = Type(k) /\ f.pkt = x /\ f.data.msg = k /\ f.data.pkt = y
    BY <2>5
  <2>9. f \in OwnFrames("o", k)
    BY <2>3, <2>4, <2>7, <2>8 DEF OwnFrames
  <2> QED
    BY <2>6, <2>9
<1>2. CASE d < 0
  <2>1. 1..d = {}
    BY <1>2
  <2>2. [i \in 1..d |-> DatFrame("o", k, s, i)] = <<>>
    BY <2>1
  <2> QED
    BY <2>2
<1>3. CASE d >= 0
  <2>1. d \in Nat
    BY <1>3
  <2> QED
    BY <1>1, <2>1
<1> QED
  BY <1>2, <1>3

LEMMA OwnSimple ==
  ASSUME mode \in Modes, NEW k \in Msgs, Type(k) = "simple"
  PROVE  SimpleFrame("o", k) \in OwnFrames("o", k)
<1>1. k \in Nat /\ "o" \in Nodes /\ "SIMPLE" \in Cmds /\ "SIMPLE" \in FromO /\ "simple" \in Types
  BY Scripts DEF Nodes, Cmds, FromO, Types
<1>2. PICK f : f = [from |-> "o", cmd |-> "SIMPLE", type |-> "simple", len |-> 0, pkt |-> 0,
                    data |-> [msg |-> k, pkt |-> 0]]
  OBVIOUS
<1>3. f \in FrameRec
  BY <1>1, <1>2 DEF FrameRec, DataRec
<1>4. /\ f.from = "o" /\ f.cmd = "SIMPLE" /\ f.type = "simple" /\ f.data.msg = k /\ f.data.pkt = 0
  BY <1>2
<1>5. f = SimpleFrame("o", k)
  BY <1>2 DEF SimpleFrame, Frame
<1> QED
  BY <1>1, <1>3, <1>4, <1>5 DEF OwnFrames

\* A handler does what its session may do.
RefsOk(n, s) == IF n = "o" THEN Spare(s) = 0 ELSE Spare(s) >= 0

Ready(n, k, h) == h \in ViewRec /\ Working(n, k, h.s) /\ RefsOk(n, h.s)

Acts(n, k, h, g) ==
  /\ g \in ViewRec /\ Working(n, k, g.s) /\ RefsOk(n, g.s)
  /\ Adds(h.out, g.out, OwnFrames(n, k))

\* A session goes on, ends or is aborted, and its tx timer stops or is left.
Winds(n, k, h, g) ==
  /\ g \in ViewRec /\ Core(h.s, g.s) /\ g.s.txcmd = h.s.txcmd /\ g.s.tx = h.s.tx
  /\ Goes(h.s, g.s) /\ Spare(g.s) = Spare(h.s)
  /\ g.s.txt = "off" \/ (g.s.txt = h.s.txt /\ Same(h.s, g.s))
  /\ \/ g.out = h.out
     \/ g.out = Append(h.out, Ctl(n, "ABORT", k, 0, 0))

LEMMA WindsWhen ==
  ASSUME NEW n, NEW k, NEW h, NEW g, Ends(n, k, h, g) \/ Stops(n, k, h, g)
  PROVE  Winds(n, k, h, g)
  BY DEF Ends, Stops, Winds, Same, Core

LEMMA OwnIsFrame ==
  \A n, k : OwnFrames(n, k) \subseteq FrameRec
  BY DEF OwnFrames

LEMMA AbortAdds ==
  ASSUME mode \in Modes, NEW n \in Nodes, NEW k \in Msgs, NEW p \in Seq(FrameRec), NEW q,
         \/ q = p
         \/ q = Append(p, Ctl(n, "ABORT", k, 0, 0))
  PROVE  Adds(p, q, OwnFrames(n, k))
<1>1. Ctl(n, "ABORT", k, 0, 0) \in OwnFrames(n, k)
  BY OwnCtl
<1> QED
  BY <1>1, AddsNothing, AddsOne

LEMMA WindsActs ==
  ASSUME mode \in Modes, NEW n \in Nodes, NEW k \in Msgs, NEW h, Ready(n, k, h),
         NEW g, Winds(n, k, h, g)
  PROVE  Acts(n, k, h, g)
<1>1. h.out \in Seq(FrameRec)
  BY DEF Ready, ViewRec
<1>2. Adds(h.out, g.out, OwnFrames(n, k))
  BY <1>1, AbortAdds DEF Winds
<1>3. Working(n, k, g.s)
  BY DEF Ready, Working, Winds, Goes, Core
<1> QED
  BY <1>2, <1>3 DEF Ready, Winds, Acts, RefsOk

\* The tx timer, without the references: v has one more than h, g one less than w.
LEMMA TxtimerActs ==
  ASSUME mode \in Modes, NEW n \in Nodes, NEW k \in Msgs, NEW h, Ready(n, k, h), h.s.txt # "off",
         NEW g, Txtimer(n, k, h, g)
  PROVE  Acts(n, k, h, g)
<1> DEFINE F == OwnFrames(n, k)
           Right(s) == /\ s.st \in {"active", "waiting", "done"} /\ DOMAIN s.buf = 0..Total(k) - 1
                       /\ Type(k) # "etp" => s.dpo = 0
                       /\ s.cmd = "BAM" => Type(k) = "bam"
                       /\ n = "r" => Type(k) \in {"tp", "etp"}
<1>1. PICK v \in ViewRec, w \in ViewRec :
        /\ TxView(h, v) /\ Settles(n, k, w, g) /\ Spare(g.s) = Spare(w.s) - 1
        /\ Type(k) = "simple" => SimpleSent(n, k, v, w)
        /\ Type(k) # "simple" /\ n = "o" => Transmits(n, k, v, w)
        /\ Type(k) # "simple" /\ n # "o" => Receives(n, k, v, w)
  BY DEF Txtimer
<1>2. Right(h.s) /\ h.s \in SessRec /\ h.out \in Seq(FrameRec) /\ Type(k) \in Types
  BY Scripts DEF Ready, Working, ViewRec, Types
<1>3. Right(v.s) /\ v.out = h.out /\ Spare(v.s) = Spare(h.s) + 1
  BY <1>1, <1>2 DEF TxView, Same, Beside
<1>4. \/ n = "o" /\ Type(k) = "simple" /\ SimpleSent(n, k, v, w)
      \/ n = "o" /\ Type(k) # "simple" /\ Transmits(n, k, v, w)
      \/ n = "r" /\ Type(k) \in {"tp", "etp"} /\ Receives(n, k, v, w)
  BY <1>1, <1>2 DEF Nodes
<1>5. Right(w.s) /\ Spare(w.s) = Spare(v.s) /\ Adds(h.out, w.out, F)
      /\ (n = "r" => w.s.txt = "off")
  <2>1. CASE n = "o" /\ Type(k) = "simple" /\ SimpleSent(n, k, v, w)
    <3>1. SimpleFrame(n, k) \in F
      BY <2>1, OwnSimple
    <3>2. Adds(h.out, w.out, F)
      BY <1>2, <1>3, <2>1, <3>1, AddsOne, AddsNothing DEF SimpleSent
    <3> QED
      BY <1>3, <2>1, <3>2 DEF SimpleSent, Same
  <2>2. CASE n = "o" /\ Type(k) # "simple" /\ Transmits(n, k, v, w)
    <3>1. CASE RtsSent(n, k, v, w)
      <4>1. Total(k) \in Int /\ Ctl(n, Opening(k), k, Total(k), 0) \in F
        <5>1. Total(k) \in Int
          BY Scripts
        <5> QED
          BY <2>2, <5>1, OwnCtl
      <4>2. Adds(h.out, w.out, F)
        BY <1>2, <1>3, <3>1, <4>1, AddsOne, AddsNothing DEF RtsSent
      <4> QED
        BY <1>3, <2>2, <3>1, <4>2 DEF RtsSent, Kept
    <3>2. ASSUME NEW x, DpoSent(n, k, v, x), Type(k) = "etp"
          PROVE  Right(x.s) /\ Spare(x.s) = Spare(v.s) /\ Adds(h.out, x.out, F)
      <4>1. v.s.last - v.s.acked \in Int /\ v.s.acked \in Int
        BY DEF ViewRec, SessRec
      <4>2. Ctl(n, "DPO", k, v.s.last - v.s.acked, v.s.acked) \in F
        BY <2>2, <3>2, <4>1, OwnCtl
      <4>3. Adds(h.out, x.out, F)
        BY <1>2, <1>3, <3>2, <4>2, AddsOne, AddsNothing DEF DpoSent
      <4> QED
        BY <1>3, <2>2, <3>2, <4>3 DEF DpoSent, Kept
    <3>3. ASSUME NEW x \in ViewRec, NEW d \in Int, Right(x.s), Spare(x.s) = Spare(v.s), Adds(h.out, x.out, F),
                 DatsSent(n, k, x, w, d)
          PROVE  Right(w.s) /\ Spare(w.s) = Spare(v.s) /\ Adds(h.out, w.out, F)
      <4>1. x.s \in SessRec
        BY DEF ViewRec
      <4>2. [i \in 1..d |-> DatFrame(n, k, x.s, i)] \in Seq(F)
        BY <2>2, <3>3, <4>1, OwnDats
      <4>3. Adds(x.out, w.out, F)
        BY <3>3, <4>2 DEF DatsSent, Adds
      <4>4. Adds(h.out, w.out, F)
        BY <1>2, <3>3, <4>3, AddsTrans, OwnIsFrame
      <4> QED
        BY <2>2, <3>3, <4>4 DEF DatsSent, Kept
    <3>4. CASE w = v
      BY <1>2, <1>3, <2>2, <3>4, AddsNothing
    <3>5. CASE \E x \in ViewRec : /\ IF Type(k) = "etp" /\ v.s.cmd = "CTS" /\ v.s.txcmd # "DPO"
                                     THEN DpoSent(n, k, v, x) /\ x.ret = "ok" ELSE x = v
                                  /\ \E d \in Int : DatsSent(n, k, x, w, d)
      <4>1. PICK x \in ViewRec, d \in Int :
              /\ IF Type(k) = "etp" /\ v.s.cmd = "CTS" /\ v.s.txcmd # "DPO"
                 THEN DpoSent(n, k, v, x) /\ x.ret = "ok" ELSE x = v
              /\ DatsSent(n, k, x, w, d)
        BY <3>5
      <4>2. Right(x.s) /\ Spare(x.s) = Spare(v.s) /\ Adds(h.out, x.out, F)
        <5>1. CASE x = v
          BY <1>2, <1>3, <2>2, <5>1, AddsNothing
        <5>2. CASE x # v
          BY <3>2, <4>1, <5>2
        <5> QED
          BY <5>1, <5>2
      <4> QED
        BY <2>2, <3>3, <4>1, <4>2 DEF Nodes
    <3>6. DpoSent(n, k, v, w) /\ Type(k) = "etp" => Right(w.s) /\ Spare(w.s) = Spare(v.s) /\ Adds(h.out, w.out, F)
      BY <3>2
    <3> HIDE DEF F, Right
    <3> QED
      BY <2>2, <3>1, <3>4, <3>5, <3>6 DEF Transmits
  <2>3. CASE n = "r" /\ Type(k) \in {"tp", "etp"} /\ Receives(n, k, v, w)
    <3>1. Total(k) \in Int /\ Block \in Int /\ v.s.rx \in Int
      BY Scripts, TransferAssumption DEF ViewRec, SessRec
    <3>2. PICK l : l = Smaller(Total(k) - v.s.rx, Block)
      OBVIOUS
    <3>3. l \in Int /\ v.s.rx + 1 \in Int
      BY <3>1, <3>2 DEF Smaller
    <3>4. Ctl(n, "CTS", k, l, v.s.rx + 1) \in F /\ Ctl(n, "EOMA", k, 0, 0) \in F
      BY <2>3, <3>3, OwnCtl
    <3>5. Adds(h.out, w.out, F)
      BY <1>2, <1>3, <2>3, <3>2, <3>4, AddsOne, AddsNothing DEF Receives
    <3> QED
      BY <1>3, <2>3, <3>5 DEF Receives, Core
  <2> QED
    BY <1>4, <2>1, <2>2, <2>3
<1>6. Adds(h.out, g.out, F)
  <2>1. w.out \in Seq(FrameRec)
    BY DEF ViewRec
  <2>2. Adds(w.out, g.out, F)
    BY <1>1, <2>1, AbortAdds DEF Settles
  <2> QED
    BY <1>2, <1>5, <2>2, AddsTrans, OwnIsFrame
<1>7. Right(g.s) /\ g \in ViewRec
  BY <1>1, <1>5 DEF Settles, Same, Goes
<1>8. Spare(g.s) = Spare(h.s)
  <2>1. Spare(h.s) \in Int
    BY <1>2, SpareInt
  <2> QED
    BY <1>1, <1>3, <1>5, <2>1
<1>9. Working(n, k, g.s)
  BY <1>7 DEF Working
<1> QED
  BY <1>6, <1>7, <1>8, <1>9 DEF Acts, Ready, RefsOk

LEMMA IdleIs ==
  ASSUME NEW k, NEW s, Idle(k, s)
  PROVE  /\ s.cmd = "none" /\ s.txcmd = "none" /\ s.txt = "off" /\ s.rxt = FALSE /\ s.refs = 0
         /\ s.tx = 0 /\ s.last = 0 /\ s.acked = 0 /\ s.rx = 0 /\ s.dpo = 0 /\ Spare(s) = 0
         /\ s.buf = [i \in 0..Total(k) - 1 |-> NoData] /\ ~Live(s)
<1>1. PICK b : b = [i \in 0..Total(k) - 1 |-> NoData]
  OBVIOUS
<1>2. Blank(k) = [st |-> "none", cmd |-> "none", txcmd |-> "none", tx |-> 0, last |-> 0, acked |-> 0,
                  rx |-> 0, dpo |-> 0, txt |-> "off", rxt |-> FALSE, refs |-> 0, retry |-> 0,
                  err |-> FALSE, buf |-> b]
  BY <1>1 DEF Blank
<1>3. s.st \in {"none", "new", "freed"} /\ s = [Blank(k) EXCEPT !.st = s.st, !.err = s.err]
  BY DEF Idle
<1>4. PICK t, e : t = s.st /\ e = s.err
  OBVIOUS
<1>5. /\ s.cmd = "none" /\ s.txcmd = "none" /\ s.txt = "off" /\ s.rxt = FALSE /\ s.refs = 0
      /\ s.tx = 0 /\ s.last = 0 /\ s.acked = 0 /\ s.rx = 0 /\ s.dpo = 0 /\ s.buf = b
  <2>1. s = [Blank(k) EXCEPT !.st = t, !.err = e]
    BY <1>3, <1>4
  <2> QED
    BY <1>2, <2>1
<1>6. Spare(s) = 0
  <2>1. s.txt = "off" /\ ~s.rxt /\ s.refs = 0
    BY <1>5
  <2>2. (IF s.txt = "off" THEN 0 ELSE 1) = 0 /\ (IF s.rxt THEN 1 ELSE 0) = 0
    BY <2>1
  <2>3. Spare(s) = 0 - (0 + 0)
    BY <2>1, <2>2 DEF Spare
  <2> QED
    BY <2>3
<1> QED
  BY <1>1, <1>3, <1>5, <1>6 DEF Live

LEMMA EomaWinds ==
  ASSUME NEW h \in ViewRec, NEW n \in Nodes, NEW k \in Msgs, mode \in Modes,
         NEW g, g = j1939_xtp_rx_eoma_one(h, n, k)
  PROVE  Winds(n, k, h, g) /\ ~Live(g.s) /\ g.recv = (n = "r")
  BY EomaTaken DEF Winds

\* What frames on the bus have in common.
LEMMA SentFrames ==
  ASSUME NEW f, f \in Sent("o") \cup Sent("r")
  PROVE  /\ f \in FrameRec /\ f.data.msg \in Msgs /\ f.type = Type(f.data.msg)
         /\ f.cmd = "BAM" => f.type = "bam"
         /\ f.cmd = "DPO" => f.type = "etp"
         /\ f.cmd \in {"RTS", "CTS", "EOMA"} => f.type \in {"tp", "etp"}
         /\ f.cmd = "SIMPLE" => f.type = "simple" /\ f.data.pkt = 0
         /\ f.cmd = "DAT" => f.type # "simple" /\ (f.type # "etp" => f.data.pkt = f.pkt - 1)
         /\ f.from = "o" => f.cmd \in FromO
         /\ f.from # "o" => f.cmd \in FromR
  BY DEF Sent, OwnFrames

\* The reception of a frame for a session.
LEMMA HandledActs ==
  ASSUME mode \in Modes, NEW n \in Nodes, NEW k \in Msgs, NEW h, h = View(n, k), Ready(n, k, h),
         NEW f, f \in Sent("o") \cup Sent("r"), f.type = Type(k),
         NEW g, g = Handled(n, k, f)
  PROVE  Acts(n, k, h, g)
<1>1. /\ f \in FrameRec /\ (f.cmd = "BAM" => f.type = "bam") /\ (f.cmd = "DPO" => f.type = "etp")
      /\ (f.cmd \in {"RTS", "CTS", "EOMA"} => f.type \in {"tp", "etp"}) /\ f.cmd \in Cmds
  BY SentFrames DEF FrameRec
<1>2. h \in ViewRec /\ h.out \in Seq(FrameRec) /\ h.s \in SessRec
  BY DEF Ready, ViewRec
<1>3. Adds(h.out, h.out, OwnFrames(n, k))
  BY <1>2, AddsNothing
<1>4. CASE f.cmd \in {"RTS", "BAM"}
  <2>1. g = j1939_xtp_rx_rts(h, n, k, f)
    BY <1>4 DEF Handled
  <2>2. CASE Stops(n, k, h, g)
    BY <2>2, WindsWhen, WindsActs
  <2>3. CASE /\ n = "o" /\ Marks(h, g) /\ g.s.cmd = f.cmd /\ g.s.dpo = h.s.dpo /\ g.s.buf = h.s.buf
    BY <1>1, <1>3, <2>3 DEF Acts, Ready, RefsOk, Working, Marks
  <2> QED
    BY <1>1, <1>2, <1>4, <2>1, <2>2, <2>3, RtsTaken
<1>5. CASE f.cmd = "CTS"
  <2>1. g = j1939_xtp_rx_cts_one(h, n, k, f)
    BY <1>5 DEF Handled
  <2>2. CASE Stops(n, k, h, g)
    BY <2>2, WindsWhen, WindsActs
  <2>3. CASE CtsTakes(n, k, f, h, g)
    BY <1>1, <1>3, <1>5, <2>3 DEF Acts, Ready, RefsOk, Working, Marks, CtsTakes
  <2> QED
    BY <1>1, <1>2, <2>1, <2>2, <2>3, CtsTaken
<1>6. CASE f.cmd = "DPO"
  <2>1. g = j1939_xtp_rx_dpo_one(h, f)
    BY <1>6 DEF Handled
  <2>2. DpoTakes(f, h, g)
    BY <1>1, <1>2, <2>1, DpoTaken
  <2> QED
    BY <1>1, <1>3, <1>6, <2>2 DEF Acts, Ready, RefsOk, Working, Marks, DpoTakes
<1>7. CASE f.cmd = "DAT"
  <2>1. g = j1939_xtp_rx_dat_one(h, n, k, f)
    BY <1>7 DEF Handled
  <2>2. CASE Stops(n, k, h, g)
    BY <2>2, WindsWhen, WindsActs
  <2>3. CASE DatTakes(n, k, f, h, g)
    <3>1. DOMAIN g.s.buf = DOMAIN h.s.buf
      BY <2>3 DEF DatTakes
    <3>2. g.s.st \in {"active", "waiting", "done"}
      BY <2>3 DEF DatTakes, Goes, Ready, Working
    <3>3. RefsOk(n, g.s)
      <4>1. Spare(h.s) \in Int
        BY <1>2, SpareInt
      <4> QED
        BY <2>3, <4>1 DEF DatTakes, Ready, RefsOk
    <3>4. Type(k) = "bam" => g.s.txt = "off" \/ g.s.txt = h.s.txt
      BY <2>3 DEF DatTakes
    <3>5. Working(n, k, g.s)
      BY <2>3, <3>1, <3>2, <3>4 DEF DatTakes, Ready, Working
    <3> QED
      BY <1>3, <2>3, <3>3, <3>5 DEF Acts, DatTakes
  <2> QED
    BY <1>1, <1>2, <2>1, <2>2, <2>3, DatTaken
<1>8. CASE f.cmd = "EOMA"
  <2>1. g = j1939_xtp_rx_eoma_one(h, n, k)
    BY <1>8 DEF Handled
  <2> QED
    BY <1>2, <2>1, EomaWinds, WindsActs
<1>9. CASE f.cmd = "ABORT"
  <2>1. g = j1939_xtp_rx_abort_one(h)
    BY <1>9 DEF Handled
  <2> QED
    BY <1>2, <2>1, AbortTaken, WindsWhen, WindsActs
<1>10. CASE f.cmd = "SIMPLE"
  <2>1. g = j1939_simple_recv(h)
    BY <1>10 DEF Handled
  <2> QED
    BY <1>2, <2>1, SimpleTaken, WindsWhen, WindsActs
<1> QED
  BY <1>1, <1>4, <1>5, <1>6, <1>7, <1>8, <1>9, <1>10 DEF Cmds, FromO, FromR

\* A session that is taken up at the responder.
LEMMA NewActs ==
  ASSUME mode \in Modes, NEW k \in Msgs, NEW h \in ViewRec,
         Idle(k, h.s) \/ Working("r", k, h.s), Spare(h.s) >= 0,
         NEW f, f \in Sent("o") \cup Sent("r"), f.type = Type(k), f.cmd \in {"RTS", "BAM"},
         NEW g, g = j1939_xtp_rx_rts_session_new(h, f)
  PROVE  Acts("r", k, h, g)
<1>1. /\ f \in FrameRec /\ (f.cmd = "BAM" => f.type = "bam") /\ (f.cmd = "RTS" => f.type \in {"tp", "etp"})
  BY SentFrames
<1>2. h.out \in Seq(FrameRec) /\ h.s \in SessRec
  BY DEF ViewRec
<1>3. Adds(h.out, h.out, OwnFrames("r", k))
  BY <1>2, AddsNothing
<1>4. /\ Type(k) # "etp" => h.s.dpo = 0
      /\ Type(k) = "bam" => h.s.txt = "off"
      /\ DOMAIN h.s.buf = 0..Total(k) - 1
  <2>1. Idle(k, h.s) => h.s.dpo = 0 /\ h.s.txt = "off" /\ DOMAIN h.s.buf = 0..Total(k) - 1
    <3>1. DOMAIN [i \in 0..Total(k) - 1 |-> NoData] = 0..Total(k) - 1
      OBVIOUS
    <3> QED
      BY <3>1, IdleIs
  <2> QED
    BY <2>1 DEF Working
<1>5. /\ g \in ViewRec /\ g.s.st = "active" /\ g.s.cmd = f.cmd /\ g.s.dpo = h.s.dpo
      /\ g.s.buf = h.s.buf /\ g.out = h.out
      /\ IF f.cmd = "BAM"
         THEN g.s.txt = h.s.txt /\ Spare(g.s) = Spare(h.s)
         ELSE g.s.txt = "now" /\ Spare(g.s) = Spare(h.s) + (IF h.s.txt = "off" THEN 0 ELSE 1)
  BY <1>1, NewIs
<1>6. RefsOk("r", g.s)
  <2>1. Spare(h.s) \in Int
    BY <1>2, SpareInt
  <2> QED
    BY <1>5, <2>1 DEF RefsOk
<1>7. Working("r", k, g.s)
  BY <1>1, <1>4, <1>5 DEF Working
<1> QED
  BY <1>3, <1>5, <1>6, <1>7 DEF Acts

-----------------------------------------------------------------------------
(* How a handler ends. *)

LEMMA SetTwice ==
  ASSUME NEW N, NEW M, NEW S, NEW f \in [N -> [M -> S]], NEW n \in N, NEW k \in M, NEW v \in S,
         NEW g, g = [f EXCEPT ![n][k] = v]
  PROVE  /\ g \in [N -> [M -> S]] /\ g[n][k] = v
         /\ \A m \in N : \A j \in M : <<m, j>> # <<n, k>> => g[m][j] = f[m][j]
<1>1. PICK a : a = [f[n] EXCEPT ![k] = v]
  OBVIOUS
<1>2. a \in [M -> S] /\ a[k] = v /\ \A j \in M : j # k => a[j] = f[n][j]
  BY <1>1
<1>3. g = [f EXCEPT ![n] = a]
  BY <1>1
<1> QED
  BY <1>2, <1>3

\* The session of another message: left alone, or started by the queue.
Started(s, t) ==
  s.st = "new" /\ \E w \in {"now", "later"} : t = Activated(s, w)

Freed(k, s, t) == Idle(k, t) /\ t.st = "freed" /\ s.st = "done" /\ s.refs = 0

\* A session before it begins.
LEMMA BlankIs ==
  ASSUME mode \in Modes, NEW k \in Msgs
  PROVE  Blank(k) \in SessRec /\ Blank(k).err = FALSE /\ Blank(k).st = "none" /\ Idle(k, Blank(k))
<1>1. PICK b : b = [i \in 0..Total(k) - 1 |-> NoData]
  OBVIOUS
<1>2. b \in Buffers
  <2>1. Total(k) \in Nat
    BY Scripts
  <2>2. NoData \in DataRec
    BY DEF NoData, DataRec
  <2>3. b \in [0..Total(k) - 1 -> DataRec]
    BY <1>1, <2>2
  <2> QED
    BY <2>1, <2>3 DEF Buffers
<1>3. PICK z : z = Blank(k)
  OBVIOUS
<1>4. z = [st |-> "none", cmd |-> "none", txcmd |-> "none", tx |-> 0, last |-> 0, acked |-> 0,
           rx |-> 0, dpo |-> 0, txt |-> "off", rxt |-> FALSE, refs |-> 0, retry |-> 0,
           err |-> FALSE, buf |-> b]
  BY <1>1, <1>3 DEF Blank
<1>5. z \in SessRec /\ z.err = FALSE /\ z.st = "none"
  BY <1>2, <1>4 DEF SessRec
<1>6. z = [z EXCEPT !.st = z.st, !.err = z.err]
  BY <1>5 DEF SessRec
<1> QED
  BY <1>3, <1>5, <1>6 DEF Idle

LEMMA FreedIs ==
  ASSUME mode \in Modes, NEW k \in Msgs, NEW s \in SessRec, NEW t, t = [Blank(k) EXCEPT !.st = "freed", !.err = s.err]
  PROVE  t \in SessRec /\ Idle(k, t) /\ t.st = "freed"
<1>1. PICK z, e : z = Blank(k) /\ e = s.err
  OBVIOUS
<1>2. z \in SessRec /\ e \in BOOLEAN
  BY <1>1, BlankIs DEF SessRec
<1>3. t = [z EXCEPT !.st = "freed", !.err = e]
  BY <1>1
<1>4. t \in SessRec /\ t.st = "freed" /\ t.err = e
  BY <1>2, <1>3 DEF SessRec
<1>5. t = [z EXCEPT !.st = t.st, !.err = t.err]
  BY <1>3, <1>4
<1> QED
  BY <1>1, <1>4, <1>5 DEF Idle

LEMMA SettledIs ==
  ASSUME mode \in Modes, NEW k \in Msgs, NEW s \in SessRec, s.st # "new", NEW q, NEW t, t = Settled(k, s, q)
  PROVE  t \in SessRec /\ (t = s \/ (Freed(k, s, t) /\ ~InQueue(q, k)))
<1>1. CASE s.st \in {"new", "done"} /\ s.refs = 0 /\ ~InQueue(q, k)
  <2>1. t = [Blank(k) EXCEPT !.st = "freed", !.err = s.err]
    BY <1>1 DEF Settled
  <2> QED
    BY <1>1, <2>1, FreedIs DEF Freed
<1>2. CASE ~(s.st \in {"new", "done"} /\ s.refs = 0 /\ ~InQueue(q, k))
  BY <1>2 DEF Settled
<1> QED
  BY <1>1, <1>2

LEMMA ActivatedIs ==
  ASSUME mode \in Modes, NEW k \in Msgs, NEW s \in SessRec, Idle(k, s), NEW w \in {"now", "later"},
         NEW t, t = Activated(s, w)
  PROVE  /\ t \in SessRec /\ t.st = "active" /\ Same(s, t) /\ t.txt = w /\ Spare(t) = 0
         /\ Working("o", k, t)
<1>1. /\ s.cmd = "none" /\ s.txt = "off" /\ s.rxt = FALSE /\ s.refs = 0 /\ s.dpo = 0
      /\ s.buf = [i \in 0..Total(k) - 1 |-> NoData]
  BY IdleIs
<1>2. t = [s EXCEPT !.st = "active", !.txt = w, !.refs = 1]
  BY <1>1 DEF Activated
<1>3. t \in SessRec /\ t.st = "active" /\ Same(s, t) /\ t.txt = w /\ t.refs = 1 /\ t.rxt = s.rxt
  <2>1. w \in {"off", "now", "later"} /\ 1 \in Int
    OBVIOUS
  <2>2. s = [st |-> s.st, cmd |-> s.cmd, txcmd |-> s.txcmd, tx |-> s.tx, last |-> s.last, acked |-> s.acked,
             rx |-> s.rx, dpo |-> s.dpo, txt |-> s.txt, rxt |-> s.rxt, refs |-> s.refs, retry |-> s.retry,
             err |-> s.err, buf |-> s.buf]
    BY DEF SessRec
  <2>3. t = [st |-> "active", cmd |-> s.cmd, txcmd |-> s.txcmd, tx |-> s.tx, last |-> s.last, acked |-> s.acked,
             rx |-> s.rx, dpo |-> s.dpo, txt |-> w, rxt |-> s.rxt, refs |-> 1, retry |-> s.retry,
             err |-> s.err, buf |-> s.buf]
    BY <1>2, <2>2
  <2> QED
    BY <2>1, <2>3 DEF SessRec, Same
<1>4. Spare(t) = 0
  <2>1. t.txt # "off" /\ ~t.rxt /\ t.refs = 1
    BY <1>1, <1>3
  <2>2. (IF t.txt = "off" THEN 0 ELSE 1) = 1 /\ (IF t.rxt THEN 1 ELSE 0) = 0
    BY <2>1
  <2> QED
    BY <2>1, <2>2 DEF Spare
<1>5. DOMAIN t.buf = 0..Total(k) - 1
  BY <1>1, <1>3 DEF Same
<1>6. Working("o", k, t)
  BY <1>1, <1>3, <1>5 DEF Working, Same
<1> QED
  BY <1>3, <1>4, <1>6

\* What happens to the sessions.
Sessions(n, k, s) ==
  /\ se' \in [Nodes -> [Msgs -> SessRec]]
  /\ se'[n][k] = s \/ Freed(k, s, se'[n][k])
  /\ \A m \in Nodes : \A j \in Msgs :
       <<m, j>> # <<n, k>> => se'[m][j] = se[m][j] \/ (m = "o" /\ Started(se["o"][j], se'["o"][j]))

LEMMA QueueGoesOn ==
  ASSUME BaseInv, NEW n \in Nodes, NEW k \in Msgs, NEW h \in ViewRec, Working(n, k, h.s),
         n = "o" => se["o"][k].st \notin {"none", "new", "freed"},
         j1939_sk_queue_activate_next(n, k, h)
  PROVE  Sessions(n, k, h.s) /\ queue' \in Seq(Msgs) /\ QueueInv'
<1>1. /\ mode \in Modes /\ se \in [Nodes -> [Msgs -> SessRec]] /\ queue \in Seq(Msgs)
      /\ h.s \in SessRec /\ h.s.st \in {"active", "waiting", "done"} /\ "o" \in Nodes
  BY DEF BaseInv, TypeInv, ViewRec, Working, Nodes
<1>2. PICK pops : pops = (h.next /\ n = "o" /\ queue # <<>> /\ Head(queue) = k)
  OBVIOUS
<1>3. PICK q : q = IF pops THEN Tail(queue) ELSE queue
  OBVIOUS
<1>4. PICK t : t = Settled(k, h.s, IF n = "o" THEN q ELSE <<>>)
  OBVIOUS
<1>5. PICK mine : mine = [se EXCEPT ![n][k] = t]
  OBVIOUS
<1>6. /\ queue' = q
      /\ se' = IF pops /\ q # <<>>
               THEN [mine EXCEPT !["o"][Head(q)] = Activated(mine["o"][Head(q)], IF h.s.err THEN "later" ELSE "now")]
               ELSE mine
  BY <1>2, <1>3, <1>4, <1>5 DEF j1939_sk_queue_activate_next
<1>7. t \in SessRec /\ (t = h.s \/ (Freed(k, h.s, t) /\ (n = "o" => ~InQueue(q, k))))
  <2>1. h.s.st # "new"
    BY <1>1
  <2> QED
    BY <1>1, <1>4, <2>1, SettledIs
<1>8. /\ mine \in [Nodes -> [Msgs -> SessRec]] /\ mine[n][k] = t
      /\ \A m \in Nodes : \A j \in Msgs : <<m, j>> # <<n, k>> => mine[m][j] = se[m][j]
  BY <1>1, <1>5, <1>7, SetTwice
<1>9. /\ \A i, j \in 1..Len(queue) : queue[i] = queue[j] => i = j
      /\ \A i \in 1..Len(queue) : se["o"][queue[i]].st \notin {"none", "freed"}
      /\ \A i \in 2..Len(queue) : se["o"][queue[i]].st = "new"
      /\ Len(queue) \in Nat /\ \A i \in 1..Len(queue) : queue[i] \in Msgs
  BY <1>1, ElementOfSeq DEF BaseInv, QueueInv
<1>10. t.st # "new"
  BY <1>1, <1>7 DEF Freed
<1>11. CASE ~(pops /\ q # <<>>)
  <2>1. se' = mine
    BY <1>6, <1>11
  <2>2. Sessions(n, k, h.s)
    BY <1>7, <1>8, <2>1 DEF Sessions
  <2>3. CASE ~pops
    <3>1. queue' = queue
      BY <1>3, <1>6, <2>3
    <3>2. ASSUME NEW i \in 1..Len(queue)
          PROVE  /\ se'["o"][queue[i]].st \notin {"none", "freed"}
                 /\ i \in 2..Len(queue) => se'["o"][queue[i]].st = "new"
      <4>1. queue[i] \in Msgs
        BY <1>9
      <4>2. CASE n = "o" /\ queue[i] = k
        <5>1. InQueue(q, k)
          <6>1. DOMAIN queue = 1..Len(queue)
            BY <1>1
          <6> QED
            BY <1>3, <2>3, <4>2, <6>1 DEF InQueue
        <5>2. se'["o"][queue[i]] = h.s
          BY <1>7, <1>8, <2>1, <4>2, <5>1
        <5> QED
          BY <1>1, <1>9, <4>2, <5>2
      <4>3. CASE ~(n = "o" /\ queue[i] = k)
        <5>1. se'["o"][queue[i]] = se["o"][queue[i]]
          BY <1>1, <1>8, <2>1, <4>1, <4>3
        <5> QED
          BY <1>9, <5>1
      <4> QED
        BY <4>2, <4>3
    <3>3. \A i \in 2..Len(queue) : i \in 1..Len(queue)
      BY <1>9
    <3> QED
      BY <1>1, <1>9, <2>2, <3>1, <3>2, <3>3 DEF QueueInv
  <2>4. CASE pops /\ q = <<>>
    <3>1. queue' = <<>>
      BY <1>6, <2>4
    <3> QED
      BY <2>2, <3>1 DEF QueueInv
  <2> QED
    BY <1>11, <2>3, <2>4
<1>12. CASE pops /\ q # <<>>
  <2>1. /\ q = Tail(queue) /\ n = "o" /\ queue # <<>> /\ queue[1] = k /\ Len(q) = Len(queue) - 1
        /\ Len(queue) >= 2 /\ \A i \in 1..Len(q) : q[i] = queue[i + 1] /\ i + 1 \in 2..Len(queue) /\ i + 1 \in 1..Len(queue)
    <3>1. q = Tail(queue) /\ n = "o" /\ queue # <<>> /\ Head(queue) = k /\ q # <<>>
      BY <1>2, <1>3, <1>12
    <3>2. Head(queue) = queue[1] /\ Len(q) = Len(queue) - 1 /\ q \in Seq(Msgs)
          /\ \A i \in 1..Len(q) : q[i] = queue[i + 1]
      BY <1>1, <3>1
    <3>3. Len(q) \in Nat /\ Len(q) # 0
      BY <3>1, <3>2
    <3>4. \A i \in 1..Len(q) : i + 1 \in 2..Len(queue) /\ i + 1 \in 1..Len(queue)
      BY <1>9, <3>2, <3>3
    <3> QED
      BY <1>9, <3>1, <3>2, <3>3, <3>4
  <2>2. q \in Seq(Msgs) /\ Head(q) = q[1] /\ 1 \in 1..Len(q)
    BY <1>1, <2>1
  <2>3. PICK j : j = Head(q)
    OBVIOUS
  <2>4. j \in Msgs /\ j = queue[2] /\ j # k /\ se["o"][j].st = "new"
    <3>1. 2 \in 1..Len(queue) /\ 1 \in 1..Len(queue) /\ 2 \in 2..Len(queue)
      BY <1>9, <2>1
    <3>2. j = queue[2]
      BY <2>1, <2>2, <2>3
    <3> QED
      BY <1>9, <2>1, <3>1, <3>2
  <2>5. PICK w : w = IF h.s.err THEN "later" ELSE "now"
    OBVIOUS
  <2>6. w \in {"now", "later"}
    BY <2>5
  <2>7. PICK a : a = Activated(se["o"][j], w)
    OBVIOUS
  <2>8. a \in SessRec /\ a.st = "active" /\ Started(se["o"][j], a)
    <3>1. Idle(j, se["o"][j]) /\ se["o"][j] \in SessRec
      BY <1>1, <2>4 DEF BaseInv, SessInv, Working
    <3> QED
      BY <1>1, <2>4, <2>6, <2>7, <3>1, ActivatedIs DEF Started
  <2>9. mine["o"][j] = se["o"][j]
    BY <1>1, <1>8, <2>4
  <2>10. se' = [mine EXCEPT !["o"][j] = a]
    BY <1>6, <1>12, <2>3, <2>5, <2>7, <2>9
  <2>11. /\ se' \in [Nodes -> [Msgs -> SessRec]] /\ se'["o"][j] = a
         /\ \A m \in Nodes : \A i \in Msgs : <<m, i>> # <<"o", j>> => se'[m][i] = mine[m][i]
    BY <1>1, <1>8, <2>4, <2>8, <2>10, SetTwice
  <2>12. se'[n][k] = t
    BY <1>1, <1>8, <2>1, <2>4, <2>11
  <2>13. ASSUME NEW m \in Nodes, NEW i \in Msgs, <<m, i>> # <<n, k>>
         PROVE  se'[m][i] = se[m][i] \/ (m = "o" /\ Started(se["o"][i], se'["o"][i]))
    <3>1. CASE <<m, i>> = <<"o", j>>
      BY <2>8, <2>11, <3>1
    <3>2. CASE <<m, i>> # <<"o", j>>
      BY <1>8, <2>11, <2>13, <3>2
    <3> QED
      BY <3>1, <3>2
  <2>14. Sessions(n, k, h.s)
    BY <1>7, <2>11, <2>12, <2>13 DEF Sessions
  <2>15. ASSUME NEW i \in 2..Len(q)
         PROVE  se'["o"][q[i]].st = "new"
    <3>1. i \in 1..Len(q) /\ i # 1
      BY <2>1
    <3>2. q[i] = queue[i + 1] /\ q[i] \in Msgs /\ se["o"][q[i]].st = "new"
      BY <1>9, <2>1, <3>1
    <3>3. q[i] # k /\ q[i] # j
      <4>1. 1 \in 1..Len(queue) /\ 2 \in 1..Len(queue) /\ i + 1 # 1 /\ i + 1 # 2
        BY <1>9, <2>1, <3>1
      <4> QED
        BY <1>9, <2>1, <2>4, <3>1, <3>2, <4>1
    <3>4. se'["o"][q[i]] = mine["o"][q[i]] /\ mine["o"][q[i]] = se["o"][q[i]]
      BY <1>1, <1>8, <2>11, <3>2, <3>3
    <3> QED
      BY <3>2, <3>4
  <2>16. ASSUME NEW i \in 1..Len(q)
         PROVE  se'["o"][q[i]].st \notin {"none", "freed"}
    <3>1. CASE i = 1
      BY <2>2, <2>3, <2>8, <2>11, <3>1
    <3>2. CASE i # 1
      <4>1. i \in 2..Len(q)
        BY <2>1, <3>2
      <4> QED
        BY <2>15, <4>1
    <3> QED
      BY <3>1, <3>2
  <2>17. ASSUME NEW x \in 1..Len(q), NEW y \in 1..Len(q), q[x] = q[y]
         PROVE  x = y
    <3>1. x + 1 = y + 1
      BY <1>9, <2>1, <2>17
    <3> QED
      BY <3>1
  <2> QED
    BY <1>6, <2>2, <2>14, <2>15, <2>16, <2>17 DEF QueueInv
<1> QED
  BY <1>11, <1>12

\* The messages do not change.
LEMMA SameMode ==
  ASSUME mode' = mode
  PROVE  /\ Msgs' = Msgs /\ \A n : Sent(n)' = Sent(n)
         /\ \A k : Type(k)' = Type(k) /\ Total(k)' = Total(k)
  BY DEF Msgs, Sent, OwnFrames, Type, Total

LEMMA SessionsHold ==
  ASSUME mode' = mode,
         \A n \in Nodes : \A k \in Msgs : /\ Idle(k, se'[n][k]) \/ Working(n, k, se'[n][k])
                                          /\ n = "r" => se'[n][k].st # "new"
  PROVE  SessInv'
<1>1. \A n, k, s : Working(n, k, s) <=> Working(n, k, s)'
  BY DEF Working, Type, Total
<1>2. \A k, s : Idle(k, s) <=> Idle(k, s)'
  BY DEF Idle, Blank, Total
<1>3. SUFFICES ASSUME NEW n \in Nodes, NEW k \in Msgs
               PROVE  (/\ Idle(k, se[n][k]) \/ Working(n, k, se[n][k])
                       /\ n = "r" => se[n][k].st # "new")'
  BY SameMode DEF SessInv
<1>4. PICK s : s = se'[n][k]
  OBVIOUS
<1>5. (Idle(k, s) \/ Working(n, k, s)) /\ (n = "r" => s.st # "new")
  BY <1>4
<1>6. (Idle(k, s) \/ Working(n, k, s))'
  BY <1>1, <1>2, <1>5
<1> QED
  BY <1>4, <1>5, <1>6 DEF Idle, Working, Blank, Type, Total

\* A queue of received frames: left alone, or its first frame taken.
InTaken == \A m \in Nodes : in'[m] = in[m] \/ (in[m] # <<>> /\ in'[m] = Tail(in[m]))

LEMMA StepKeepsBase ==
  ASSUME BaseInv, NEW n \in Nodes, NEW k \in Msgs, NEW h, Acts(n, k, View(n, k), h),
         n = "o" => se["o"][k].st \notin {"none", "new", "freed"},
         Finish(n, k, h), UNCHANGED <<mode, userVars, lost>>,
         in' \in [Nodes -> Seq(FrameRec)], InTaken
  PROVE  BaseInv' /\ Sessions(n, k, h.s)
<1>1. h \in ViewRec /\ Working(n, k, h.s) /\ RefsOk(n, h.s) /\ Adds(out[n], h.out, OwnFrames(n, k))
  BY DEF Acts, View
<1>2. /\ j1939_sk_queue_activate_next(n, k, h) /\ out' = [out EXCEPT ![n] = h.out]
      /\ got' = IF h.recv /\ listen THEN Append(got, [msg |-> k, buf |-> h.s.buf]) ELSE got
  BY DEF Finish
<1>3. Sessions(n, k, h.s) /\ queue' \in Seq(Msgs) /\ QueueInv'
  BY <1>1, <1>2, QueueGoesOn
<1>4. mode' = mode /\ sk' = sk /\ dev' = dev /\ listen' = listen /\ lost' = lost
  BY DEF userVars
<1>5. TypeInv /\ FrameInv /\ SessInv /\ RefsSuffice /\ h.s \in SessRec /\ h.out \in Seq(FrameRec)
  BY <1>1 DEF BaseInv, ViewRec
<1>6. TypeInv'
  <2>1. k \in Nat
    BY <1>5, Scripts DEF TypeInv
  <2>2. PICK b : b = h.s.buf
    OBVIOUS
  <2>3. b \in Buffers
    BY <1>5, <2>2 DEF SessRec
  <2>4. got' \in Seq([msg : Nat, buf : Buffers])
    <3>1. [msg |-> k, buf |-> b] \in [msg : Nat, buf : Buffers]
      BY <2>1, <2>3
    <3>2. got \in Seq([msg : Nat, buf : Buffers])
      BY <1>5 DEF TypeInv
    <3>3. Append(got, [msg |-> k, buf |-> b]) \in Seq([msg : Nat, buf : Buffers])
      BY <3>1, <3>2, Appended
    <3>4. CASE h.recv /\ listen
      BY <1>2, <2>2, <3>3, <3>4
    <3>5. CASE ~(h.recv /\ listen)
      BY <1>2, <3>2, <3>5
    <3> QED
      BY <3>4, <3>5
  <2>5. out' \in [Nodes -> Seq(FrameRec)]
    BY <1>2, <1>5 DEF TypeInv
  <2>6. Msgs' = Msgs /\ mode' \in Modes
    BY <1>4, <1>5, SameMode DEF TypeInv
  <2>7. se' \in [Nodes -> [Msgs -> SessRec]]
    BY <1>3 DEF Sessions
  <2> QED
    BY <1>3, <1>4, <1>5, <2>4, <2>5, <2>6, <2>7 DEF TypeInv
<1>7. FrameInv'
  <2>1. \A m : Sent(m)' = Sent(m)
    BY <1>4, SameMode
  <2>2. ASSUME NEW m \in Nodes
        PROVE  out'[m] \in Seq(Sent(m))
    <3>1. out[m] \in Seq(Sent(m)) /\ OwnFrames(n, k) \subseteq Sent(n)
      BY <1>5 DEF FrameInv, Sent
    <3>2. CASE m = n
      <4>1. h.out \in Seq(Sent(n))
        BY <1>1, <3>1, <3>2, AddsHolds
      <4> QED
        BY <1>2, <1>5, <3>2, <4>1 DEF TypeInv
    <3>3. CASE m # n
      BY <1>2, <1>5, <3>1, <3>3 DEF TypeInv
    <3> QED
      BY <3>2, <3>3
  <2>3. ASSUME NEW m \in Nodes
        PROVE  in'[m] \in Seq(Sent("o") \cup Sent("r"))
    <3>1. in[m] \in Seq(Sent("o") \cup Sent("r"))
      BY <1>5 DEF FrameInv
    <3>2. in[m] # <<>> => Tail(in[m]) \in Seq(Sent("o") \cup Sent("r"))
      BY <3>1, Taking
    <3>3. CASE in'[m] = in[m]
      BY <3>1, <3>3
    <3>4. CASE in[m] # <<>> /\ in'[m] = Tail(in[m])
      BY <3>2, <3>4
    <3> QED
      BY <3>3, <3>4 DEF InTaken
  <2> QED
    BY <2>1, <2>2, <2>3 DEF FrameInv
<1>8. ASSUME NEW m \in Nodes, NEW j \in Msgs
      PROVE  /\ Idle(j, se'[m][j]) \/ Working(m, j, se'[m][j])
             /\ m = "r" => se'[m][j].st # "new"
             /\ RefsOk(m, se'[m][j])
  <2>1. /\ Idle(j, se[m][j]) \/ Working(m, j, se[m][j])
        /\ m = "r" => se[m][j].st # "new"
        /\ RefsOk(m, se[m][j]) /\ se[m][j] \in SessRec
    BY <1>5 DEF SessInv, RefsSuffice, RefsOk, Nodes, TypeInv
  <2>2. CASE <<m, j>> = <<n, k>>
    <3>1. CASE se'[n][k] = h.s
      BY <1>1, <2>2, <3>1 DEF Working
    <3>2. CASE Freed(k, h.s, se'[n][k])
      <4>1. Idle(k, se'[n][k]) /\ se'[n][k].st = "freed"
        BY <3>2 DEF Freed
      <4>2. Spare(se'[n][k]) = 0
        BY <4>1, IdleIs
      <4> QED
        BY <2>2, <4>1, <4>2 DEF RefsOk
    <3> QED
      BY <1>3, <3>1, <3>2 DEF Sessions
  <2>3. CASE <<m, j>> # <<n, k>>
    <3>1. CASE se'[m][j] = se[m][j]
      BY <2>1, <3>1
    <3>2. CASE m = "o" /\ Started(se["o"][j], se'["o"][j])
      <4>1. PICK w \in {"now", "later"} : se'["o"][j] = Activated(se["o"][j], w)
        BY <3>2 DEF Started
      <4>2. Idle(j, se["o"][j])
        BY <2>1, <3>2 DEF Started, Working
      <4>3. Working("o", j, se'["o"][j]) /\ Spare(se'["o"][j]) = 0
        BY <1>5, <2>1, <3>2, <4>1, <4>2, ActivatedIs DEF TypeInv
      <4> QED
        BY <3>2, <4>3 DEF RefsOk
    <3> QED
      BY <1>3, <2>3, <3>1, <3>2 DEF Sessions
  <2> QED
    BY <2>2, <2>3
<1>9. SessInv'
  BY <1>4, <1>8, SessionsHold
<1>10. RefsSuffice'
  <2>1. \A j \in Msgs : Spare(se'["o"][j]) = 0 /\ Spare(se'["r"][j]) >= 0
    BY <1>8 DEF RefsOk, Nodes
  <2>2. Msgs' = Msgs
    BY <1>4, SameMode
  <2> QED
    BY <2>1, <2>2 DEF RefsSuffice
<1> QED
  BY <1>3, <1>6, <1>7, <1>9, <1>10 DEF BaseInv

LEMMA ViewIs ==
  ASSUME BaseInv, NEW n \in Nodes, NEW k \in Msgs
  PROVE  /\ View(n, k) \in ViewRec /\ View(n, k).s = se[n][k] /\ View(n, k).out = out[n]
         /\ View(n, k).ret = "ok" /\ ~View(n, k).recv
<1>1. View(n, k) \in ViewRec
  BY DEF BaseInv, TypeInv, View, ViewRec
<1> QED
  BY <1>1 DEF View

\* The session at hand is ready for a handler.
LEMMA ReadyWhen ==
  ASSUME BaseInv, NEW n \in Nodes, NEW k \in Msgs,
         Live(se[n][k]) \/ se[n][k].txt # "off" \/ se[n][k].rxt
  PROVE  /\ Ready(n, k, View(n, k)) /\ se[n][k].st \notin {"none", "new", "freed"}
<1>1. View(n, k) \in ViewRec
  BY DEF BaseInv, TypeInv, View, ViewRec
<1>2. Working(n, k, se[n][k])
  <2>1. Idle(k, se[n][k]) => ~Live(se[n][k]) /\ se[n][k].txt = "off" /\ ~se[n][k].rxt
    BY IdleIs
  <2> QED
    BY <2>1 DEF BaseInv, SessInv
<1>3. RefsOk(n, se[n][k])
  BY DEF BaseInv, RefsSuffice, RefsOk, Nodes
<1>4. View(n, k).s = se[n][k]
  BY DEF View
<1> QED
  BY <1>1, <1>2, <1>3, <1>4 DEF Ready, Working

-----------------------------------------------------------------------------
(* Every step keeps the types, the frames and the references. *)

\* What the handler of a session leaves alone.
Quiet == UNCHANGED <<mode, userVars, lost>>

LEMMA TxtimerStep ==
  ASSUME BaseInv, NEW n \in Nodes, NEW k \in Msgs, j1939_tp_txtimer(n, k)
  PROVE  \E h : /\ Txtimer(n, k, View(n, k), h) /\ Acts(n, k, View(n, k), h) /\ Finish(n, k, h)
                /\ Quiet /\ in' = in /\ se[n][k].st \notin {"none", "new", "freed"}
<1>1. PICK h : h = View(n, k)
  OBVIOUS
<1>2. PICK v : v = TxOff(h)
  OBVIOUS
<1>3. PICK w : w = TxFrames(n, k, v)
  OBVIOUS
<1>4. PICK g : g = Put(TxDone(w, n, k))
  OBVIOUS
<1>5. se[n][k].txt # "off" /\ Finish(n, k, g) /\ Quiet /\ in' = in
  BY <1>1, <1>2, <1>3, <1>4 DEF j1939_tp_txtimer, TxOff, TxFrames, Put, Quiet
<1>6. Ready(n, k, h) /\ se[n][k].st \notin {"none", "new", "freed"}
  BY <1>1, <1>5, ReadyWhen
<1>7. h \in ViewRec /\ h.s.txt # "off" /\ h.ret = "ok"
  BY <1>1, <1>5, <1>6 DEF Ready, View
<1>8. mode \in Modes
  BY DEF BaseInv, TypeInv
<1>9. Txtimer(n, k, h, g)
  BY <1>2, <1>3, <1>4, <1>7, <1>8, TxtimerIs
<1>10. Acts(n, k, h, g)
  BY <1>6, <1>7, <1>8, <1>9, TxtimerActs
<1> QED
  BY <1>1, <1>5, <1>6, <1>9, <1>10

LEMMA RxtimerStep ==
  ASSUME BaseInv, NEW n \in Nodes, NEW k \in Msgs, j1939_tp_rxtimer(n, k)
  PROVE  \E h : /\ Winds(n, k, View(n, k), h) /\ Acts(n, k, View(n, k), h) /\ Finish(n, k, h)
                /\ Quiet /\ in' = in /\ se[n][k].st \notin {"none", "new", "freed"} /\ h.recv = FALSE
<1>1. PICK h : h = View(n, k)
  OBVIOUS
<1>2. PICK v : v = RxOff(h)
  OBVIOUS
<1>3. PICK w : w = Expires(n, k, v)
  OBVIOUS
<1>4. PICK g : g = Put(w)
  OBVIOUS
<1>5. se[n][k].rxt /\ Finish(n, k, g) /\ Quiet /\ in' = in
  BY <1>1, <1>2, <1>3, <1>4 DEF j1939_tp_rxtimer, RxOff, Expires, Put, Quiet
<1>6. Ready(n, k, h) /\ se[n][k].st \notin {"none", "new", "freed"}
  BY <1>1, <1>5, ReadyWhen
<1>7. h \in ViewRec /\ h.s.rxt /\ h.recv = FALSE
  BY <1>1, <1>5, <1>6 DEF Ready, View
<1>8. mode \in Modes
  BY DEF BaseInv, TypeInv
<1>9. Ends(n, k, h, g)
  BY <1>2, <1>3, <1>4, <1>7, <1>8, RxtimerIs
<1>10. Winds(n, k, h, g) /\ g.recv = FALSE
  BY <1>7, <1>9, WindsWhen DEF Ends
<1>11. Acts(n, k, h, g)
  BY <1>6, <1>8, <1>10, WindsActs
<1> QED
  BY <1>1, <1>5, <1>6, <1>10, <1>11

\* A frame is taken from a node's queue.
LEMMA TakenIs ==
  ASSUME BaseInv, NEW n \in Nodes, Taken(n)
  PROVE  /\ in[n] # <<>> /\ Head(in[n]) \in Sent("o") \cup Sent("r") /\ Quiet
         /\ in' \in [Nodes -> Seq(FrameRec)] /\ InTaken /\ in'[n] = Tail(in[n])
         /\ \A m \in Nodes : m # n => in'[m] = in[m]
<1>1. in \in [Nodes -> Seq(FrameRec)] /\ in[n] \in Seq(Sent("o") \cup Sent("r")) /\ in[n] \in Seq(FrameRec)
  BY DEF BaseInv, TypeInv, FrameInv
<1>2. in[n] # <<>> /\ in' = [in EXCEPT ![n] = Tail(in[n])] /\ Quiet
  BY DEF Taken, Quiet
<1>3. Head(in[n]) \in Sent("o") \cup Sent("r") /\ Tail(in[n]) \in Seq(FrameRec)
  BY <1>1, <1>2, Taking
<1> QED
  BY <1>1, <1>2, <1>3 DEF InTaken

LEMMA RecvStep ==
  ASSUME BaseInv, NEW n \in Nodes, j1939_tp_recv(n)
  PROVE  /\ Taken(n)
         /\ \E k \in Msgs : \E h :
              /\ k \in SessionOf(n, Head(in[n])) /\ h = Handled(n, k, Head(in[n]))
              /\ Ready(n, k, View(n, k)) /\ Acts(n, k, View(n, k), h) /\ Finish(n, k, h)
              /\ se[n][k].st \notin {"none", "new", "freed"}
<1>1. Taken(n)
  BY DEF j1939_tp_recv
<1>2. PICK f : f = Head(in[n])
  OBVIOUS
<1>3. PICK k \in Msgs : k \in SessionOf(n, f) /\ Finish(n, k, Handled(n, k, f))
  BY <1>2 DEF j1939_tp_recv, SessionOf
<1>4. Live(se[n][k]) /\ f.type = Type(k)
  BY <1>3 DEF SessionOf
<1>5. f \in Sent("o") \cup Sent("r")
  BY <1>1, <1>2, TakenIs
<1>6. Ready(n, k, View(n, k)) /\ se[n][k].st \notin {"none", "new", "freed"}
  BY <1>4, ReadyWhen
<1>7. PICK h : h = Handled(n, k, f)
  OBVIOUS
<1>8. mode \in Modes
  BY DEF BaseInv, TypeInv
<1>9. PICK v : v = View(n, k)
  OBVIOUS
<1>10. Acts(n, k, v, h)
  BY <1>4, <1>5, <1>6, <1>7, <1>8, <1>9, HandledActs
<1> QED
  BY <1>1, <1>2, <1>3, <1>6, <1>7, <1>9, <1>10

LEMMA NewStep ==
  ASSUME BaseInv, NewSession
  PROVE  /\ Taken("r") /\ SessionOf("r", Head(in["r"])) = {}
         /\ \E k \in Msgs : \E h :
              /\ k = Head(in["r"]).data.msg /\ Head(in["r"]).cmd \in {"RTS", "BAM"}
              /\ h = j1939_xtp_rx_rts_session_new(View("r", k), Head(in["r"])) /\ View("r", k) \in ViewRec
              /\ Acts("r", k, View("r", k), h) /\ Finish("r", k, h)
<1>1. Taken("r") /\ SessionOf("r", Head(in["r"])) = {} /\ Head(in["r"]).cmd \in {"RTS", "BAM"}
  BY DEF NewSession
<1>2. PICK f : f = Head(in["r"])
  OBVIOUS
<1>3. PICK k : k = f.data.msg
  OBVIOUS
<1>4. PICK v : v = View("r", k)
  OBVIOUS
<1>5. PICK h : h = j1939_xtp_rx_rts_session_new(v, f)
  OBVIOUS
<1>6. Finish("r", k, h)
  BY <1>2, <1>3, <1>4, <1>5 DEF NewSession
<1>7. f \in Sent("o") \cup Sent("r") /\ mode \in Modes
  BY <1>1, <1>2, TakenIs DEF BaseInv, TypeInv, Nodes
<1>8. k \in Msgs /\ f.type = Type(k)
  BY <1>3, <1>7, SentFrames
<1>9. v \in ViewRec /\ v.s = se["r"][k]
  BY <1>4, <1>8 DEF BaseInv, TypeInv, View, ViewRec, Nodes
<1>10. (Idle(k, v.s) \/ Working("r", k, v.s)) /\ Spare(v.s) >= 0
  BY <1>8, <1>9 DEF BaseInv, SessInv, RefsSuffice, Nodes
<1>11. Acts("r", k, v, h)
  BY <1>1, <1>2, <1>5, <1>7, <1>8, <1>9, <1>10, NewActs
<1> QED
  BY <1>1, <1>2, <1>3, <1>4, <1>5, <1>6, <1>8, <1>9, <1>11

\* A frame that no session takes.
LEMMA NoneStep ==
  ASSUME BaseInv, NEW n \in Nodes, NoSession(n)
  PROVE  /\ Taken(n) /\ SessionOf(n, Head(in[n])) = {} /\ UNCHANGED <<se, queue, out>>
         /\ \/ got' = got
            \/ /\ Head(in[n]).cmd = "SIMPLE" /\ n = "r"
               /\ got' = Append(got, [msg |-> Head(in[n]).data.msg, buf |-> [i \in {0} |-> Head(in[n]).data]])
  BY DEF NoSession

\* Steps that change no session.
LEMMA FramesKeepBase ==
  ASSUME BaseInv, mode' = mode, se' = se, queue' = queue,
         sk' \in {"open", "closed"}, dev' \in {"up", "going", "down"}, listen' \in BOOLEAN, lost' \in Nat,
         out' \in [Nodes -> Seq(FrameRec)], in' \in [Nodes -> Seq(FrameRec)],
         got' \in Seq([msg : Nat, buf : Buffers]),
         \A m \in Nodes : out'[m] \in Seq(Sent(m)) /\ in'[m] \in Seq(Sent("o") \cup Sent("r"))
  PROVE  BaseInv'
<1>1. Msgs' = Msgs /\ \A n : Sent(n)' = Sent(n)
  BY SameMode
<1>2. TypeInv'
  BY <1>1 DEF BaseInv, TypeInv
<1>3. FrameInv'
  BY <1>1 DEF FrameInv
<1>4. SessInv'
  BY SessionsHold DEF BaseInv, SessInv
<1>5. QueueInv'
  BY DEF BaseInv, QueueInv
<1>6. RefsSuffice'
  BY <1>1 DEF BaseInv, RefsSuffice
<1> QED
  BY <1>2, <1>3, <1>4, <1>5, <1>6 DEF BaseInv

LEMMA NoneKeepsBase ==
  ASSUME BaseInv, NEW n \in Nodes, NoSession(n)
  PROVE  BaseInv'
<1>1. /\ Taken(n) /\ UNCHANGED <<se, queue, out>>
      /\ \/ got' = got
         \/ got' = Append(got, [msg |-> Head(in[n]).data.msg, buf |-> [i \in {0} |-> Head(in[n]).data]])
  BY NoneStep
<1>2. PICK f : f = Head(in[n])
  OBVIOUS
<1>3. /\ f \in Sent("o") \cup Sent("r") /\ Quiet /\ in' \in [Nodes -> Seq(FrameRec)] /\ InTaken
  BY <1>1, <1>2, TakenIs
<1>4. f.data.msg \in Nat /\ f.data \in DataRec
  BY <1>3, SentFrames DEF FrameRec, DataRec
<1>5. [i \in {0} |-> f.data] \in Buffers
  <2>1. {0} = 0..1 - 1 /\ 1 \in Nat
    OBVIOUS
  <2>2. [i \in {0} |-> f.data] \in [0..1 - 1 -> DataRec]
    BY <1>4, <2>1
  <2> QED
    BY <2>1, <2>2 DEF Buffers
<1>6. PICK b : b = [i \in {0} |-> f.data]
  OBVIOUS
<1>7. PICK x : x = [msg |-> f.data.msg, buf |-> b]
  OBVIOUS
<1>8. x \in [msg : Nat, buf : Buffers]
  BY <1>4, <1>5, <1>6, <1>7
<1>9. got \in Seq([msg : Nat, buf : Buffers])
  BY DEF BaseInv, TypeInv
<1>10. Append(got, x) \in Seq([msg : Nat, buf : Buffers])
  BY <1>8, <1>9, Appended
<1>11. got' = got \/ got' = Append(got, x)
  BY <1>1, <1>2, <1>6, <1>7
<1>12. got' \in Seq([msg : Nat, buf : Buffers])
  BY <1>9, <1>10, <1>11
<1>13. ASSUME NEW m \in Nodes
       PROVE  out'[m] \in Seq(Sent(m)) /\ in'[m] \in Seq(Sent("o") \cup Sent("r"))
  <2>1. out[m] \in Seq(Sent(m)) /\ in[m] \in Seq(Sent("o") \cup Sent("r"))
    BY DEF BaseInv, FrameInv
  <2>2. in[m] # <<>> => Tail(in[m]) \in Seq(Sent("o") \cup Sent("r"))
    BY <2>1, Taking
  <2>3. CASE in'[m] = in[m]
    BY <1>1, <2>1, <2>3
  <2>4. CASE in[m] # <<>> /\ in'[m] = Tail(in[m])
    BY <1>1, <2>1, <2>2, <2>4
  <2> QED
    BY <1>3, <2>3, <2>4 DEF InTaken
<1>14. /\ mode' = mode /\ sk' = sk /\ dev' = dev /\ listen' = listen /\ lost' = lost
       /\ se' = se /\ queue' = queue /\ out' = out
  BY <1>1, <1>3 DEF Quiet, userVars
<1>15. /\ sk' \in {"open", "closed"} /\ dev' \in {"up", "going", "down"} /\ listen' \in BOOLEAN /\ lost' \in Nat
       /\ out' \in [Nodes -> Seq(FrameRec)]
  BY <1>14 DEF BaseInv, TypeInv
<1> QED
  BY <1>3, <1>12, <1>13, <1>14, <1>15, FramesKeepBase

\* Each set of numbers has a least one.
LEMMA LeastOf ==
  ASSUME NEW T, T \subseteq Nat, T # {}
  PROVE  \E x \in T : \A y \in T : x <= y
<1> DEFINE R == {ss \in Nat \X Nat : ss[1] < ss[2]}
<1>1. IsWellFoundedOn(R, Nat)
  BY NatLessThanWellFounded DEF OpToRel
<1>2. PICK x \in T : \A y \in T : <<y, x>> \notin R
  <2> HIDE DEF R
  <2> QED
    BY <1>1, WFMin
<1>3. ASSUME NEW y \in T
      PROVE  x <= y
  <2>1. x \in Nat /\ y \in Nat /\ ~(x > y)
    BY <1>2
  <2> QED
    BY <2>1
<1> QED
  BY <1>3

\* The bus takes a frame.
LEMMA TransmitIs ==
  ASSUME BaseInv, NEW n \in Nodes, Transmit(n)
  PROVE  /\ out[n] # <<>> /\ Head(out[n]) \in Sent(n)
         /\ out' \in [Nodes -> Seq(FrameRec)] /\ out'[n] = Tail(out[n])
         /\ \A m \in Nodes : m # n => out'[m] = out[m]
         /\ in' \in [Nodes -> Seq(FrameRec)] /\ in'[n] = Append(in[n], Head(out[n]))
         /\ \A m \in Nodes : in'[m] = in[m] \/ in'[m] = Append(in[m], Head(out[n]))
         /\ UNCHANGED <<mode, se, queue, userVars, got>> /\ lost' \in Nat
<1>1. /\ out \in [Nodes -> Seq(FrameRec)] /\ in \in [Nodes -> Seq(FrameRec)] /\ lost \in Nat
      /\ out[n] \in Seq(Sent(n)) /\ out[n] \in Seq(FrameRec)
  BY DEF BaseInv, TypeInv, FrameInv
<1>2. out[n] # <<>> /\ out' = [out EXCEPT ![n] = Tail(out[n])] /\ UNCHANGED <<mode, se, queue, userVars, got>>
  BY DEF Transmit
<1>3. PICK f : f = Head(out[n])
  OBVIOUS
<1>4. f \in Sent(n) /\ f \in FrameRec /\ Tail(out[n]) \in Seq(FrameRec)
  BY <1>1, <1>2, <1>3, Taking
<1>5. \A m \in Nodes : Append(in[m], f) \in Seq(FrameRec)
  BY <1>1, <1>4, Appended
<1>6. /\ in' \in [Nodes -> Seq(FrameRec)] /\ in'[n] = Append(in[n], f) /\ lost' \in Nat
      /\ \A m \in Nodes : in'[m] = in[m] \/ in'[m] = Append(in[m], f)
  <2>1. CASE in' = [in EXCEPT ![n] = Append(in[n], f)] /\ lost' = lost + 1
    BY <1>1, <1>5, <2>1
  <2>2. CASE /\ in' = [j \in Nodes |-> IF j = n \/ (IF n = "o" THEN "r" ELSE "o") = "r" \/ dev = "up"
                                       THEN Append(in[j], f) ELSE in[j]]
             /\ lost' = lost
    <3>1. ASSUME NEW m \in Nodes
          PROVE  /\ in'[m] = in[m] \/ in'[m] = Append(in[m], f)
                 /\ m = n => in'[m] = Append(in[m], f)
      BY <2>2
    <3>2. ASSUME NEW m \in Nodes
          PROVE  in'[m] \in Seq(FrameRec)
      BY <1>1, <1>5, <3>1
    <3>3. in' \in [Nodes -> Seq(FrameRec)]
      <4>1. DOMAIN in' = Nodes /\ in' = [m \in Nodes |-> in'[m]]
        BY <2>2
      <4> QED
        BY <3>2, <4>1
    <3> QED
      BY <1>1, <2>2, <3>1, <3>3
  <2> QED
    BY <1>3, <2>1, <2>2 DEF Transmit
<1>7. out' \in [Nodes -> Seq(FrameRec)] /\ out'[n] = Tail(out[n]) /\ \A m \in Nodes : m # n => out'[m] = out[m]
  BY <1>1, <1>2, <1>4
<1> QED
  BY <1>2, <1>3, <1>4, <1>6, <1>7

LEMMA TransmitKeepsBase ==
  ASSUME BaseInv, NEW n \in Nodes, Transmit(n)
  PROVE  BaseInv'
<1>1. PICK f : f = Head(out[n])
  OBVIOUS
<1>2. /\ out[n] # <<>> /\ f \in Sent(n)
      /\ out' \in [Nodes -> Seq(FrameRec)] /\ out'[n] = Tail(out[n])
      /\ \A m \in Nodes : m # n => out'[m] = out[m]
      /\ in' \in [Nodes -> Seq(FrameRec)]
      /\ \A m \in Nodes : in'[m] = in[m] \/ in'[m] = Append(in[m], f)
      /\ UNCHANGED <<mode, se, queue, userVars, got>> /\ lost' \in Nat
  BY <1>1, TransmitIs
<1>3. ASSUME NEW m \in Nodes
      PROVE  out'[m] \in Seq(Sent(m)) /\ in'[m] \in Seq(Sent("o") \cup Sent("r"))
  <2>1. out[m] \in Seq(Sent(m)) /\ in[m] \in Seq(Sent("o") \cup Sent("r"))
    BY DEF BaseInv, FrameInv
  <2>2. f \in Sent("o") \cup Sent("r")
    BY <1>2 DEF Nodes
  <2>3. Append(in[m], f) \in Seq(Sent("o") \cup Sent("r"))
    BY <2>1, <2>2, Appended
  <2>4. out[m] # <<>> => Tail(out[m]) \in Seq(Sent(m))
    BY <2>1, Taking
  <2>5. in'[m] \in Seq(Sent("o") \cup Sent("r"))
    <3>1. CASE in'[m] = in[m]
      BY <2>1, <3>1
    <3>2. CASE in'[m] = Append(in[m], f)
      BY <2>3, <3>2
    <3> QED
      BY <1>2, <3>1, <3>2
  <2>6. out'[m] \in Seq(Sent(m))
    <3>1. CASE m = n
      BY <1>2, <2>4, <3>1
    <3>2. CASE m # n
      BY <1>2, <2>1, <3>2
    <3> QED
      BY <3>1, <3>2
  <2> QED
    BY <2>5, <2>6
<1>4. /\ mode' = mode /\ sk' = sk /\ dev' = dev /\ listen' = listen /\ se' = se /\ queue' = queue /\ got' = got
  BY <1>2 DEF userVars
<1>5. /\ sk' \in {"open", "closed"} /\ dev' \in {"up", "going", "down"} /\ listen' \in BOOLEAN
      /\ got' \in Seq([msg : Nat, buf : Buffers])
  BY <1>4 DEF BaseInv, TypeInv
<1> QED
  BY <1>2, <1>3, <1>4, <1>5, FramesKeepBase

\* A user or the device changes something, but neither session nor queue.
LEMMA OutsideKeepsBase ==
  ASSUME BaseInv, ListenerCloses \/ LinkDown \/ LinkUp
  PROVE  BaseInv'
<1>1. /\ mode' = mode /\ se' = se /\ queue' = queue /\ sk' = sk /\ in' = in /\ lost' = lost /\ got' = got
      /\ out' = out \/ out' = [out EXCEPT !["o"] = <<>>]
      /\ dev' \in {dev, "going", "up"} /\ listen' \in {listen, FALSE}
  BY DEF ListenerCloses, LinkDown, LinkUp
<1>2. /\ out \in [Nodes -> Seq(FrameRec)] /\ in \in [Nodes -> Seq(FrameRec)]
      /\ \A m \in Nodes : out[m] \in Seq(Sent(m)) /\ in[m] \in Seq(Sent("o") \cup Sent("r"))
  BY DEF BaseInv, TypeInv, FrameInv
<1>3. out' \in [Nodes -> Seq(FrameRec)] /\ \A m \in Nodes : out'[m] \in Seq(Sent(m))
  <2>1. <<>> \in Seq(FrameRec) /\ \A m : <<>> \in Seq(Sent(m))
    OBVIOUS
  <2>2. CASE out' = out
    BY <1>2, <2>2
  <2>3. CASE out' = [out EXCEPT !["o"] = <<>>]
    BY <1>2, <2>1, <2>3
  <2> QED
    BY <1>1, <2>2, <2>3
<1>4. /\ sk' \in {"open", "closed"} /\ dev' \in {"up", "going", "down"} /\ listen' \in BOOLEAN /\ lost' \in Nat
      /\ got' \in Seq([msg : Nat, buf : Buffers]) /\ in' \in [Nodes -> Seq(FrameRec)]
      /\ \A m \in Nodes : in'[m] \in Seq(Sent("o") \cup Sent("r"))
  BY <1>1, <1>2 DEF BaseInv, TypeInv
<1> QED
  BY <1>1, <1>3, <1>4, FramesKeepBase

\* sendmsg() takes the next message; it starts if the queue was empty.
LEMMA SendmsgIs ==
  ASSUME BaseInv, j1939_sk_sendmsg
  PROVE  \E k \in Msgs, t \in SessRec :
           /\ se["o"][k].st = "none" /\ \A j \in Unsent : k <= j
           /\ t.st \in {"new", "active"} /\ Same(se["o"][k], t) /\ Spare(t) = 0
           /\ Idle(k, t) \/ Working("o", k, t)
           /\ queue' = Append(queue, k) /\ (queue # <<>> => t.st = "new")
           /\ se' = [se EXCEPT !["o"][k] = t]
           /\ UNCHANGED <<mode, userVars, out, in, lost, got>>
<1>1. mode \in Modes /\ se \in [Nodes -> [Msgs -> SessRec]]
  BY DEF BaseInv, TypeInv
<1>2. PICK k : k = CHOOSE i \in Unsent : \A j \in Unsent : i <= j
  OBVIOUS
<1>3. k \in Unsent /\ \A j \in Unsent : k <= j
  <2>1. Unsent \subseteq Nat
    BY <1>1, Scripts DEF Unsent
  <2>2. Unsent # {}
    BY DEF j1939_sk_sendmsg
  <2> QED
    BY <1>2, <2>1, <2>2, LeastOf
<1>4. k \in Msgs /\ se["o"][k].st = "none" /\ se["o"][k] \in SessRec
  BY <1>1, <1>3 DEF Unsent, Nodes
<1>5. Idle(k, se["o"][k])
  BY <1>4 DEF BaseInv, SessInv, Working, Nodes
<1>6. PICK s : s = [Blank(k) EXCEPT !.st = "new"]
  OBVIOUS
<1>7. s \in SessRec /\ Idle(k, s) /\ s.st = "new" /\ Same(se["o"][k], s) /\ Spare(s) = 0
  <2>1. PICK z : z = Blank(k)
    OBVIOUS
  <2>2. z \in SessRec /\ z.err = FALSE /\ s = [z EXCEPT !.st = "new"]
    BY <1>1, <1>4, <1>6, <2>1, BlankIs
  <2>3. s \in SessRec /\ s.st = "new" /\ s.err = FALSE
    BY <2>2 DEF SessRec
  <2>4. s = [z EXCEPT !.st = s.st, !.err = s.err]
    BY <2>2, <2>3 DEF SessRec
  <2>5. Idle(k, s)
    BY <2>1, <2>3, <2>4 DEF Idle
  <2>6. Same(se["o"][k], s)
    <3>1. PICK x : x = se["o"][k]
      OBVIOUS
    <3>2. /\ x.cmd = "none" /\ x.txcmd = "none" /\ x.tx = 0 /\ x.last = 0 /\ x.acked = 0 /\ x.rx = 0
          /\ x.dpo = 0 /\ x.buf = [i \in 0..Total(k) - 1 |-> NoData]
      BY <1>5, <3>1, IdleIs
    <3>3. /\ s.cmd = "none" /\ s.txcmd = "none" /\ s.tx = 0 /\ s.last = 0 /\ s.acked = 0 /\ s.rx = 0
          /\ s.dpo = 0 /\ s.buf = [i \in 0..Total(k) - 1 |-> NoData]
      BY <2>5, IdleIs
    <3> QED
      BY <3>1, <3>2, <3>3 DEF Same
  <2> QED
    BY <2>3, <2>5, <2>6, IdleIs
<1>8. PICK a : a = Activated(s, "now")
  OBVIOUS
<1>9. a \in SessRec /\ a.st = "active" /\ Same(se["o"][k], a) /\ Spare(a) = 0 /\ Working("o", k, a)
  <2>1. a \in SessRec /\ a.st = "active" /\ Same(s, a) /\ Spare(a) = 0 /\ Working("o", k, a)
    BY <1>1, <1>4, <1>7, <1>8, ActivatedIs
  <2> QED
    BY <1>7, <2>1 DEF Same
<1>10. /\ queue' = Append(queue, k) /\ UNCHANGED <<mode, userVars, out, in, lost, got>>
       /\ se' = [se EXCEPT !["o"][k] = IF queue = <<>> THEN a ELSE s]
  BY <1>2, <1>6, <1>8 DEF j1939_sk_sendmsg, Starts
<1>11. CASE queue = <<>>
  BY <1>3, <1>4, <1>9, <1>10, <1>11
<1>12. CASE queue # <<>>
  BY <1>3, <1>4, <1>7, <1>10, <1>12
<1> QED
  BY <1>11, <1>12

\* One session of the originator changes.
LEMMA OneKeepsBase ==
  ASSUME BaseInv, mode' = mode, NEW k \in Msgs, NEW t \in SessRec, se' = [se EXCEPT !["o"][k] = t],
         Idle(k, t) \/ Working("o", k, t), Spare(t) = 0
  PROVE  SessInv' /\ RefsSuffice'
<1>1. se \in [Nodes -> [Msgs -> SessRec]] /\ SessInv /\ RefsSuffice
  BY DEF BaseInv, TypeInv
<1>2. /\ se'["o"][k] = t
      /\ \A m \in Nodes : \A j \in Msgs : <<m, j>> # <<"o", k>> => se'[m][j] = se[m][j]
  BY <1>1, SetTwice DEF Nodes
<1>3. ASSUME NEW m \in Nodes, NEW j \in Msgs
      PROVE  /\ Idle(j, se'[m][j]) \/ Working(m, j, se'[m][j])
             /\ m = "r" => se'[m][j].st # "new"
  <2>1. CASE m = "o" /\ j = k
    BY <1>2, <2>1
  <2>2. CASE ~(m = "o" /\ j = k)
    BY <1>1, <1>2, <2>2 DEF SessInv
  <2> QED
    BY <2>1, <2>2
<1>4. SessInv'
  BY <1>3, SessionsHold
<1>5. ASSUME NEW j \in Msgs
      PROVE  Spare(se'["o"][j]) = 0 /\ Spare(se'["r"][j]) >= 0
  BY <1>1, <1>2 DEF RefsSuffice, Nodes
<1>6. RefsSuffice'
  BY <1>5, SameMode DEF RefsSuffice
<1> QED
  BY <1>4, <1>6

LEMMA SendmsgKeepsBase ==
  ASSUME BaseInv, j1939_sk_sendmsg
  PROVE  BaseInv'
<1>1. PICK k \in Msgs, t \in SessRec :
        /\ se["o"][k].st = "none"
        /\ t.st \in {"new", "active"} /\ Spare(t) = 0 /\ (Idle(k, t) \/ Working("o", k, t))
        /\ queue' = Append(queue, k) /\ (queue # <<>> => t.st = "new")
        /\ se' = [se EXCEPT !["o"][k] = t]
        /\ UNCHANGED <<mode, userVars, out, in, lost, got>>
  BY SendmsgIs
<1>2. SessInv' /\ RefsSuffice'
  BY <1>1, OneKeepsBase
<1>3. Msgs' = Msgs /\ \A n : Sent(n)' = Sent(n)
  BY <1>1, SameMode
<1>4. /\ se' \in [Nodes -> [Msgs -> SessRec]] /\ se'["o"][k] = t
      /\ \A j \in Msgs : j # k => se'["o"][j] = se["o"][j]
  <2>1. /\ se' \in [Nodes -> [Msgs -> SessRec]] /\ se'["o"][k] = t
        /\ \A m \in Nodes : \A j \in Msgs : <<m, j>> # <<"o", k>> => se'[m][j] = se[m][j]
    BY <1>1, SetTwice DEF BaseInv, TypeInv, Nodes
  <2> QED
    BY <2>1 DEF Nodes
<1>5. queue \in Seq(Msgs) /\ queue' \in Seq(Msgs) /\ Len(queue') = Len(queue) + 1 /\ Len(queue) \in Nat
      /\ queue'[Len(queue) + 1] = k /\ \A i \in 1..Len(queue) : queue'[i] = queue[i] /\ queue[i] \in Msgs
  BY <1>1 DEF BaseInv, TypeInv
<1>6. TypeInv' /\ FrameInv'
  BY <1>1, <1>3, <1>4, <1>5 DEF BaseInv, TypeInv, FrameInv, userVars
<1>7. QueueInv'
  <2>1. \A i \in 1..Len(queue) : queue[i] # k
    BY <1>1 DEF BaseInv, QueueInv
  <2>2. ASSUME NEW i \in 1..Len(queue'), NEW j \in 1..Len(queue'), queue'[i] = queue'[j]
        PROVE  i = j
    <3>1. CASE i \in 1..Len(queue) /\ j \in 1..Len(queue)
      BY <1>5, <2>2, <3>1 DEF BaseInv, QueueInv
    <3>2. CASE i = Len(queue) + 1 /\ j \in 1..Len(queue)
      BY <1>5, <2>1, <2>2, <3>2
    <3>3. CASE j = Len(queue) + 1 /\ i \in 1..Len(queue)
      BY <1>5, <2>1, <2>2, <3>3
    <3>4. CASE j = Len(queue) + 1 /\ i = Len(queue) + 1
      BY <3>4
    <3> QED
      BY <1>5, <3>1, <3>2, <3>3, <3>4
  <2>3. ASSUME NEW i \in 1..Len(queue')
        PROVE  se'["o"][queue'[i]].st \notin {"none", "freed"}
    <3>1. CASE i = Len(queue) + 1
      BY <1>1, <1>4, <1>5, <3>1
    <3>2. CASE i \in 1..Len(queue)
      BY <1>4, <1>5, <2>1, <3>2 DEF BaseInv, QueueInv
    <3> QED
      BY <1>5, <3>1, <3>2
  <2>4. ASSUME NEW i \in 2..Len(queue')
        PROVE  se'["o"][queue'[i]].st = "new"
    <3>1. CASE i = Len(queue) + 1
      <4>1. queue # <<>>
        BY <1>5, <3>1
      <4> QED
        BY <1>1, <1>4, <1>5, <3>1, <4>1
    <3>2. CASE i \in 1..Len(queue)
      <4>1. i \in 2..Len(queue)
        BY <3>2
      <4> QED
        BY <1>4, <1>5, <2>1, <3>2, <4>1 DEF BaseInv, QueueInv
    <3> QED
      BY <1>5, <3>1, <3>2
  <2> QED
    BY <2>2, <2>3, <2>4 DEF QueueInv
<1> QED
  BY <1>2, <1>6, <1>7 DEF BaseInv

\* All sessions of the socket are dropped: those that are under way or wait
\* are freed.
Drops(k, s, t) ==
  \/ Idle(k, t) /\ t.st = "freed" /\ s.st \in {"new", "active", "waiting", "done"}
  \/ Same(s, t) /\ t.st = s.st /\ ~Live(s) /\ s.st # "new" /\ t.txt = s.txt /\ Spare(t) = Spare(s) /\ (Idle(k, s) => t = s)

LEMMA DropIs ==
  ASSUME BaseInv, NEW k \in Msgs
  PROVE  /\ AllDropped[k] \in SessRec /\ Drops(k, se["o"][k], AllDropped[k])
         /\ DOMAIN AllDropped = Msgs
<1>1. PICK s : s = se["o"][k]
  OBVIOUS
<1>2. /\ s \in SessRec /\ mode \in Modes /\ (Idle(k, s) \/ Working("o", k, s)) /\ Spare(s) = 0
      /\ (s.st = "none" \/ s.st = "freed" => ~InQueue(queue, k))
  <2>1. queue \in Seq(Msgs) /\ \A i \in 1..Len(queue) : se["o"][queue[i]].st \notin {"none", "freed"}
    BY DEF BaseInv, TypeInv, QueueInv
  <2>2. s.st = "none" \/ s.st = "freed" => ~InQueue(queue, k)
    BY <1>1, <2>1 DEF InQueue
  <2> QED
    BY <1>1, <2>2 DEF BaseInv, TypeInv, SessInv, RefsSuffice, Nodes
<1>3. PICK h : h = View("o", k)
  OBVIOUS
<1>4. PICK g : g = j1939_session_timers_cancel(h)
  OBVIOUS
<1>5. PICK c : c = g.s
  OBVIOUS
<1>6. PICK e : e = IF Live(s) THEN [c EXCEPT !.err = TRUE, !.st = "done"]
                   ELSE IF InQueue(queue, k) THEN [s EXCEPT !.err = TRUE] ELSE s
  OBVIOUS
<1>7. AllDropped[k] = Settled(k, e, <<>>) /\ DOMAIN AllDropped = Msgs
  BY <1>1, <1>3, <1>4, <1>5, <1>6 DEF AllDropped
<1>8. ~InQueue(<<>>, k)
  BY DEF InQueue
<1>9. PICK t : t = [Blank(k) EXCEPT !.st = "freed", !.err = e.err]
  OBVIOUS
<1>10. Settled(k, e, <<>>) = IF e.st \in {"new", "done"} /\ e.refs = 0 THEN t ELSE e
  BY <1>8, <1>9 DEF Settled
<1>11. e \in SessRec
  <2>1. h \in ViewRec /\ h.s = s
    BY <1>1, <1>3, ViewIs DEF Nodes
  <2>2. c \in SessRec
    BY <1>4, <1>5, <2>1, TimersStop DEF Timed, ViewRec
  <2>3. [c EXCEPT !.err = TRUE, !.st = "done"] \in SessRec
    BY <2>2 DEF SessRec
  <2>4. [s EXCEPT !.err = TRUE] \in SessRec
    BY <1>2 DEF SessRec
  <2>5. CASE Live(s)
    BY <1>6, <2>3, <2>5
  <2>6. CASE ~Live(s) /\ InQueue(queue, k)
    BY <1>6, <2>4, <2>6
  <2>7. CASE ~Live(s) /\ ~InQueue(queue, k)
    BY <1>2, <1>6, <2>7
  <2> QED
    BY <2>5, <2>6, <2>7
<1>12. t \in SessRec /\ Idle(k, t) /\ t.st = "freed"
  BY <1>2, <1>9, <1>11, FreedIs
<1>13. CASE Live(s)
  <2>1. h \in ViewRec /\ h.s = s
    BY <1>1, <1>3, ViewIs DEF Nodes
  <2>2. Timed(h, g) /\ g.s.txt = "off" /\ g.s.rxt = FALSE
    BY <1>4, <2>1, TimersStop
  <2>3. c \in SessRec /\ Spare(c) = 0 /\ c.txt = "off" /\ ~c.rxt
    BY <1>2, <1>5, <2>1, <2>2 DEF Timed, ViewRec
  <2>4. c.refs = 0
    BY <2>3 DEF Spare, SessRec
  <2>5. e.st = "done" /\ e.refs = 0
    BY <1>6, <1>13, <2>3, <2>4 DEF SessRec
  <2> QED
    BY <1>1, <1>7, <1>10, <1>12, <1>13, <2>5 DEF Drops, Live
<1>14. CASE ~Live(s)
  <2>1. e = s \/ (InQueue(queue, k) /\ e = [s EXCEPT !.err = TRUE])
    BY <1>6, <1>14
  <2>2. Same(s, e) /\ e.st = s.st /\ e.txt = s.txt /\ e.rxt = s.rxt /\ e.refs = s.refs
    BY <1>2, <2>1 DEF SessRec, Same
  <2>3. Spare(e) = Spare(s)
    BY <2>2 DEF Spare
  <2>4. CASE e.st \in {"new", "done"} /\ e.refs = 0
    BY <1>1, <1>7, <1>10, <1>12, <2>2, <2>4 DEF Drops
  <2>5. CASE ~(e.st \in {"new", "done"} /\ e.refs = 0)
    <3>1. s.st # "new"
      <4>1. s.st = "new" => Idle(k, s)
        BY <1>2 DEF Working
      <4> QED
        BY <2>2, <2>5, <4>1, IdleIs
    <3>2. Idle(k, s) => e = s
      BY <1>2, <2>1, <3>1 DEF Idle
    <3> QED
      BY <1>1, <1>7, <1>10, <1>11, <1>14, <2>2, <2>3, <2>5, <3>1, <3>2 DEF Drops
  <2> QED
    BY <2>4, <2>5
<1> QED
  BY <1>13, <1>14


LEMMA DroppingIs ==
  ASSUME BaseInv, j1939_sk_release \/ j1939_netdev_notify
  PROVE  /\ UNCHANGED <<mode, listen, out, in, lost, got>> /\ queue' = <<>>
         /\ sk' \in {"open", "closed"} /\ dev' \in {"up", "going", "down"}
         /\ se' \in [Nodes -> [Msgs -> SessRec]]
         /\ \A k \in Msgs : se'["r"][k] = se["r"][k] /\ Drops(k, se["o"][k], se'["o"][k])
<1>1. /\ UNCHANGED <<mode, listen, out, in, lost, got>> /\ queue' = <<>>
      /\ se' = [se EXCEPT !["o"] = AllDropped]
  BY DEF j1939_sk_release, j1939_netdev_notify
<1>2. sk' \in {"open", "closed"} /\ dev' \in {"up", "going", "down"}
  BY DEF j1939_sk_release, j1939_netdev_notify, BaseInv, TypeInv
<1>3. se \in [Nodes -> [Msgs -> SessRec]]
  BY DEF BaseInv, TypeInv
<1>4. PICK a : a = AllDropped
  OBVIOUS
<1>5. a \in [Msgs -> SessRec]
  <2>1. DOMAIN a = Msgs /\ a = [k \in Msgs |-> a[k]]
    BY <1>4 DEF AllDropped
  <2>2. \A k \in Msgs : a[k] \in SessRec
    BY <1>4, DropIs
  <2> QED
    BY <2>1, <2>2
<1>6. se' \in [Nodes -> [Msgs -> SessRec]] /\ se'["o"] = a /\ se'["r"] = se["r"]
  BY <1>1, <1>3, <1>4, <1>5 DEF Nodes
<1>7. \A k \in Msgs : Drops(k, se["o"][k], se'["o"][k])
  BY <1>4, <1>6, DropIs
<1> QED
  BY <1>1, <1>2, <1>6, <1>7

LEMMA DroppingKeepsBase ==
  ASSUME BaseInv, j1939_sk_release \/ j1939_netdev_notify
  PROVE  BaseInv'
<1>1. /\ UNCHANGED <<mode, listen, out, in, lost, got>> /\ queue' = <<>>
      /\ sk' \in {"open", "closed"} /\ dev' \in {"up", "going", "down"}
      /\ se' \in [Nodes -> [Msgs -> SessRec]]
      /\ \A k \in Msgs : se'["r"][k] = se["r"][k] /\ Drops(k, se["o"][k], se'["o"][k])
  BY DroppingIs
<1>2. Msgs' = Msgs /\ \A n : Sent(n)' = Sent(n)
  BY <1>1, SameMode
<1>3. TypeInv' /\ FrameInv' /\ QueueInv'
  BY <1>1, <1>2 DEF BaseInv, TypeInv, FrameInv, QueueInv
<1>4. ASSUME NEW k \in Msgs
      PROVE  (Idle(k, se'["o"][k]) \/ Working("o", k, se'["o"][k])) /\ Spare(se'["o"][k]) = 0
  <2>1. (Idle(k, se["o"][k]) \/ Working("o", k, se["o"][k])) /\ Spare(se["o"][k]) = 0
    BY DEF BaseInv, SessInv, RefsSuffice, Nodes
  <2>2. CASE Idle(k, se'["o"][k])
    BY <2>2, IdleIs
  <2>3. CASE ~Idle(k, se'["o"][k])
    <3>1. /\ Same(se["o"][k], se'["o"][k]) /\ se'["o"][k].st = se["o"][k].st
          /\ Spare(se'["o"][k]) = Spare(se["o"][k]) /\ ~Idle(k, se["o"][k])
      BY <1>1, <2>3 DEF Drops
    <3> QED
      BY <2>1, <3>1 DEF Working, Same
  <2> QED
    BY <2>2, <2>3
<1>5. SessInv'
  <2>1. ASSUME NEW n \in Nodes, NEW k \in Msgs
        PROVE  /\ Idle(k, se'[n][k]) \/ Working(n, k, se'[n][k])
               /\ n = "r" => se'[n][k].st # "new"
    <3>1. CASE n = "o"
      BY <1>4, <3>1
    <3>2. CASE n = "r"
      BY <1>1, <3>2 DEF BaseInv, SessInv
    <3> QED
      BY <3>1, <3>2 DEF Nodes
  <2> QED
    BY <1>1, <2>1, SessionsHold
<1>6. RefsSuffice'
  BY <1>1, <1>2, <1>4 DEF BaseInv, RefsSuffice
<1> QED
  BY <1>3, <1>5, <1>6 DEF BaseInv

LEMMA InitHasBase == Init => BaseInv
<1> SUFFICES ASSUME Init
             PROVE  BaseInv
  OBVIOUS
<1>1. /\ mode \in Modes /\ se = [n \in Nodes |-> [k \in Msgs |-> Blank(k)]]
      /\ queue = <<>> /\ sk = "open" /\ dev = "up" /\ listen = TRUE
      /\ out = [n \in Nodes |-> <<>>] /\ in = [n \in Nodes |-> <<>>] /\ lost = 0 /\ got = <<>>
  BY DEF Init
<1>2. \A k \in Msgs : Blank(k) \in SessRec /\ Idle(k, Blank(k)) /\ Blank(k).st = "none"
  BY <1>1, BlankIs
<1>3. \A n \in Nodes : \A k \in Msgs : se[n][k] = Blank(k)
  BY <1>1
<1>4. se \in [Nodes -> [Msgs -> SessRec]]
  <2>1. PICK b : b = [k \in Msgs |-> Blank(k)]
    OBVIOUS
  <2>2. b \in [Msgs -> SessRec]
    BY <1>2, <2>1
  <2>3. se = [n \in Nodes |-> b]
    BY <1>1, <2>1
  <2> QED
    BY <2>2, <2>3
<1>5. TypeInv /\ FrameInv
  BY <1>1, <1>4 DEF TypeInv, FrameInv
<1>6. SessInv
  BY <1>2, <1>3 DEF SessInv
<1>7. QueueInv
  BY <1>1 DEF QueueInv
<1>8. RefsSuffice
  <2>1. \A k \in Msgs : Spare(Blank(k)) = 0
    BY <1>2, IdleIs
  <2> QED
    BY <1>3, <2>1 DEF RefsSuffice, Nodes
<1> QED
  BY <1>5, <1>6, <1>7, <1>8 DEF BaseInv

LEMMA NextKeepsBase == BaseInv /\ [Next]_vars => BaseInv'
<1> SUFFICES ASSUME BaseInv, [Next]_vars
             PROVE  BaseInv'
  OBVIOUS
<1>1. CASE UNCHANGED vars
  <2>1. /\ mode' = mode /\ se' = se /\ queue' = queue /\ sk' = sk /\ dev' = dev /\ listen' = listen
        /\ out' = out /\ in' = in /\ lost' = lost /\ got' = got
    BY <1>1 DEF vars, userVars
  <2>2. \A m \in Nodes : out'[m] \in Seq(Sent(m)) /\ in'[m] \in Seq(Sent("o") \cup Sent("r"))
    BY <2>1 DEF BaseInv, FrameInv
  <2>3. /\ sk' \in {"open", "closed"} /\ dev' \in {"up", "going", "down"} /\ listen' \in BOOLEAN /\ lost' \in Nat
        /\ out' \in [Nodes -> Seq(FrameRec)] /\ in' \in [Nodes -> Seq(FrameRec)]
        /\ got' \in Seq([msg : Nat, buf : Buffers])
    BY <2>1 DEF BaseInv, TypeInv
  <2> QED
    BY <2>1, <2>2, <2>3, FramesKeepBase
<1>2. ASSUME NEW n \in Nodes, NEW k \in Msgs, NEW h, Acts(n, k, View(n, k), h), Finish(n, k, h),
             n = "o" => se["o"][k].st \notin {"none", "new", "freed"}, Quiet, in' = in \/ Taken(n)
      PROVE  BaseInv'
  <2>1. in' \in [Nodes -> Seq(FrameRec)] /\ InTaken
    <3>1. CASE in' = in
      BY <3>1 DEF BaseInv, TypeInv, InTaken
    <3>2. CASE Taken(n)
      BY <3>2, TakenIs
    <3> QED
      BY <1>2, <3>1, <3>2
  <2> QED
    BY <1>2, <2>1, StepKeepsBase DEF Quiet
<1>3. ASSUME NEW n \in Nodes, NEW k \in Msgs, j1939_tp_txtimer(n, k)
      PROVE  BaseInv'
  <2>1. PICK h : /\ Acts(n, k, View(n, k), h) /\ Finish(n, k, h) /\ Quiet /\ in' = in
                 /\ se[n][k].st \notin {"none", "new", "freed"}
    BY <1>3, TxtimerStep
  <2> QED
    BY <1>2, <2>1
<1>4. ASSUME NEW n \in Nodes, NEW k \in Msgs, j1939_tp_rxtimer(n, k)
      PROVE  BaseInv'
  <2>1. PICK h : /\ Acts(n, k, View(n, k), h) /\ Finish(n, k, h) /\ Quiet /\ in' = in
                 /\ se[n][k].st \notin {"none", "new", "freed"}
    BY <1>4, RxtimerStep
  <2> QED
    BY <1>2, <2>1
<1>5. ASSUME NEW n \in Nodes, j1939_tp_recv(n)
      PROVE  BaseInv'
  <2>1. PICK k \in Msgs : \E h : /\ Acts(n, k, View(n, k), h) /\ Finish(n, k, h)
                                 /\ se[n][k].st \notin {"none", "new", "freed"}
    BY <1>5, RecvStep
  <2>2. PICK h : /\ Acts(n, k, View(n, k), h) /\ Finish(n, k, h)
                 /\ se[n][k].st \notin {"none", "new", "freed"}
    BY <2>1
  <2>3. Taken(n) /\ Quiet
    BY <1>5, RecvStep, TakenIs
  <2> QED
    BY <1>2, <2>2, <2>3
<1>6. CASE NewSession
  <2>1. PICK k \in Msgs : \E h : Acts("r", k, View("r", k), h) /\ Finish("r", k, h)
    BY <1>6, NewStep
  <2>2. PICK h : Acts("r", k, View("r", k), h) /\ Finish("r", k, h)
    BY <2>1
  <2>3. Taken("r") /\ Quiet /\ "r" \in Nodes
    BY <1>6, NewStep, TakenIs DEF Nodes
  <2> QED
    BY <1>2, <2>2, <2>3
<1>7. ASSUME NEW n \in Nodes, Recv(n) \/ Transmit(n)
      PROVE  BaseInv'
  BY <1>5, <1>6, <1>7, NoneKeepsBase, TransmitKeepsBase DEF Recv
<1>8. CASE Users \/ LinkDown \/ j1939_netdev_notify \/ LinkUp
  BY <1>8, SendmsgKeepsBase, DroppingKeepsBase, OutsideKeepsBase DEF Users
<1> QED
  BY <1>1, <1>3, <1>4, <1>7, <1>8 DEF Next, Network, Timers

\* The types are respected, every frame on the bus is one that its sender may
\* send for its message, only the first session of the queue has begun, and the
\* timers that are queued hold references: at the originator exactly those
\* (j1939_session_get() and j1939_session_put() around hrtimers).
THEOREM BaseHolds == Spec => []BaseInv
<1>1. Init => BaseInv
  BY InitHasBase
<1>2. BaseInv /\ [Next]_vars => BaseInv'
  BY NextKeepsBase
<1> QED
  BY <1>1, <1>2, PTL DEF Spec
=============================================================================
