------------------------------- MODULE IsotpRx -------------------------------
(***************************************************************************)
(* The receive path of one CAN_ISOTP socket (net/can/isotp.c): the softirq *)
(* that handles single, first and consecutive frames under so->rx_lock,    *)
(* the callback of the rxtimer watchdog, which takes no lock, and bind(),  *)
(* release() and the NETDEV_UNREGISTER notifier.                           *)
(*                                                                         *)
(* Nothing else that holds so->rx_lock touches so->rx, so `hpc' is the     *)
(* lock.  A handler is cut where it waits for the callback (in             *)
(* hrtimer_cancel()) and where others can see rx.state between two of its  *)
(* accesses.  Flow control frames belong to the transmit path (IsotpTx).   *)
(* A frame that the HALF_DUPLEX or FORCE_RXSTMIN options drop changes      *)
(* nothing here, as one that was lost on the bus.                          *)
(***************************************************************************)
EXTENDS IsotpCodec

CONSTANTS
  Envs,         \* what surrounds the socket, by name: [opts : the option
                \* records setsockopt() may have set, frames : those a peer may
                \* send, regular : they keep to the frame lengths, unregister :
                \* the device may be unregistered (and bound again), faults :
                \* allocation, device lookup and can_send() may fail, closing :
                \* the socket may be released]
  SnMod,        \* sequence numbers are taken modulo this (16)
  BsMod,        \* values of the block counter, a byte (256)
  SbufLen,      \* DEFAULT_MAX_PDU_SIZE, the length of rx.sbuf
  max_pdu_size  \* the module parameter

\* A frame fits into rx.sbuf (64 and 8300 bytes).  A peer that keeps to the frame
\* lengths fills its first and consecutive frames up to one LL_DL.
ASSUME RxAssumption ==
  /\ SnMod \in Nat \ {0} /\ BsMod \in Nat \ {0} /\ SbufLen \in Nat /\ max_pdu_size \in Nat
  /\ \A e \in DOMAIN Envs : LET v == Envs[e] IN
       /\ {v.regular, v.unregister, v.faults, v.closing} \subseteq BOOLEAN
       /\ \A o \in v.opts : o.ae \in {0, 1} /\ o.bs \in 0..(BsMod - 1)
       /\ \A f \in v.frames :
            /\ f.type \in {"SF", "FF", "CF"} /\ f.len \in 0..SbufLen /\ f.dl \in Nat
            /\ \A g \in v.frames : v.regular /\ "SF" \notin {f.type, g.type} => f.len = g.len

VARIABLES
  env,        \* the surroundings at hand
  opt,        \* so->opt, so->rxfc.bs
  bound,      \* so->bound
  filter,     \* the rx filter: "on", "grace" (unregistered, readers left), "off"
  rx_state,   \* so->rx.state
  rx,         \* the rest of so->rx
  sk_err,     \* sk->sk_err
  hpc, cf,    \* the softirq in isotp_rcv(): program counter, frame at hand
  rxtimer,    \* the hrtimer is queued
  cb,         \* program counter of isotp_rx_timer_handler()
  fc,         \* the flow control frame sent last, until it is taken
  queue,      \* the PDU handed to the socket last, until recvmsg() takes it
  bpc, rpc    \* isotp_bind() and isotp_release()

sockVars  == <<env, opt, bound, filter, bpc, rpc>>
recvVars  == <<rx_state, rx, queue>>
stepVars  == <<hpc, cf>>
timerVars == <<rxtimer, cb>>
vars == <<sockVars, recvVars, stepVars, timerVars, sk_err, fc>>

Opts       == Envs[env].opts
Frames     == Envs[env].frames
Unregister == Envs[env].unregister
Faults     == Envs[env].faults
Closing    == Envs[env].closing

-----------------------------------------------------------------------------
Bodies  == {"sf", "ff", "ff_fill", "cf", "fc_cts", "fc_ovflw"}
NoPdu   == [pdu |-> 0, len |-> 0, exact |-> FALSE]
NoFrame == [type |-> "none"]

Init ==
  /\ env \in DOMAIN Envs /\ opt \in Opts
  /\ bound = FALSE /\ filter = "off"
  /\ rx_state = "IDLE"
  /\ rx = [len |-> 0, idx |-> 0, sn |-> 0, bs |-> 0, ll_dl |-> 8, buflen |-> SbufLen,
           pdu |-> 0, exact |-> FALSE]
  /\ sk_err = "none" /\ hpc = "idle" /\ cf = NoFrame
  /\ rxtimer = FALSE /\ cb = "off" /\ fc = "none" /\ queue = NoPdu
  /\ bpc = "idle" /\ rpc = "open"

-----------------------------------------------------------------------------
(* Helpers. *)

Leave == hpc' = "idle" /\ cf' = NoFrame

Goto(to) == hpc' = to /\ UNCHANGED cf

\* isotp_rcv_skb(): the last PDU stands for the receive queue.
isotp_rcv_skb(pdu, len, exact) == queue' = [pdu |-> pdu, len |-> len, exact |-> exact]

\* Padding check, allocation and delivery of a complete PDU.
Deliver(start, pdu, len, exact) ==
  \/ /\ PaddingBad(opt, cf, start)
     /\ sk_err' = "EBADMSG" /\ UNCHANGED queue
  \/ /\ ~PaddingBad(opt, cf, start)
     /\ \/ isotp_rcv_skb(pdu, len, exact)
        \/ Faults /\ UNCHANGED queue
     /\ UNCHANGED sk_err

-----------------------------------------------------------------------------
(* The softirq: isotp_rcv(). *)

\* A consecutive frame nobody waits for, or a long single frame without the
\* escape, changes nothing.
Ignored(f) ==
  \/ f.type = "CF" /\ rx_state # "WAIT_DATA"
  \/ f.type = "SF" /\ ~SfTaken(f)

isotp_rcv(f) ==
  /\ hpc = "idle" /\ filter # "off" /\ ~Ignored(f)
  /\ cf' = f
  /\ hpc' = CASE f.type = "SF" -> "sf_cancel"
              [] f.type = "FF" -> "ff_cancel"
              [] f.type = "CF" -> "cf_cancel"
  /\ UNCHANGED <<sockVars, recvVars, timerVars, sk_err, fc>>

\* Does not wait for a running callback.
hrtimer_cancel_bug == rxtimer' = FALSE

\* hrtimer_cancel(): returns once the callback does not run; the timer is off.
hrtimer_cancel == cb = "off" /\ rxtimer' = FALSE

\* The callback may have given up meanwhile: a consecutive frame rechecks.
Cancel ==
  /\ hrtimer_cancel
  /\ \/ hpc = "sf_cancel" /\ Goto("sf")
     \/ hpc = "ff_cancel" /\ Goto("ff")
     \/ hpc = "cf_cancel" /\ rx_state = "WAIT_DATA" /\ Goto("cf")
     \/ hpc = "cf_cancel" /\ rx_state # "WAIT_DATA" /\ Leave
  /\ UNCHANGED <<sockVars, recvVars, cb, sk_err, fc>>

\* isotp_rcv_sf()
RcvSf ==
  /\ hpc = "sf"
  /\ rx_state' = "IDLE"
  /\ LET len   == SfDl(cf)
         start == SfPcilen(opt, cf)
     IN IF len = 0 \/ len > cf.len - start
        THEN UNCHANGED <<sk_err, queue>>
        ELSE Deliver(start + len, cf.pdu, len, Continues(cf, start, len, cf.pdu, 0))
  /\ Leave
  /\ UNCHANGED <<sockVars, rx, timerVars, fc>>

\* The buffer length for a PDU: one attempt to replace the static buffer.
BufLens(dl) ==
  IF dl > rx.buflen /\ rx.buflen < max_pdu_size
  THEN {max_pdu_size} \cup (IF Faults THEN {rx.buflen} ELSE {})
  ELSE {rx.buflen}

TooLong_bug(dl, buflen) == dl > max_pdu_size

TooLong(dl, buflen) == dl > buflen

\* isotp_rcv_ff(): the frame is checked, the buffer may grow.
RcvFf ==
  /\ hpc = "ff"
  /\ rx_state' = "IDLE"
  /\ IF FfMalformed(opt, cf)
     THEN Leave /\ rx' = [rx EXCEPT !.ll_dl = padlen(cf.len), !.len = cf.dl]
     ELSE \E buflen \in BufLens(cf.dl) :
            /\ Goto(IF TooLong(cf.dl, buflen) THEN "fc_ovflw" ELSE "ff_fill")
            /\ rx' = [rx EXCEPT !.ll_dl = cf.len, !.len = cf.dl, !.buflen = buflen]
  /\ UNCHANGED <<sockVars, queue, timerVars, sk_err, fc>>

FfFill ==
  /\ hpc = "ff_fill"
  /\ LET start == FfPcilen(opt, cf)
         n     == rx.ll_dl - start
     IN rx' = [rx EXCEPT !.idx = n, !.sn = 1 % SnMod, !.pdu = cf.pdu,
                         !.exact = Continues(cf, start, Min({n, rx.len}), cf.pdu, 0)]
  /\ rx_state' = "WAIT_DATA"
  /\ IF opt.listen THEN Leave ELSE Goto("fc_cts")
  /\ UNCHANGED <<sockVars, queue, timerVars, sk_err, fc>>

\* isotp_send_fc(): the watchdog starts only once a frame could be made.
isotp_send_fc ==
  /\ hpc \in {"fc_cts", "fc_ovflw"}
  /\ \/ /\ Faults \/ ~bound
        /\ UNCHANGED <<fc, rx, rxtimer>>
     \/ /\ bound
        /\ \/ fc' = IF hpc = "fc_cts" THEN "CTS" ELSE "OVFLW"
           \/ Faults /\ UNCHANGED fc
        /\ rx' = [rx EXCEPT !.bs = 0]
        /\ rxtimer' = TRUE
  /\ Leave
  /\ UNCHANGED <<sockVars, rx_state, queue, cb, sk_err>>

\* Bytes of the consecutive frame that go to the buffer, from position ae + 1.
CfRoom == Max({0, cf.len - opt.ae - 1})

\* The copy does not stop at the end of the PDU.
CfCopied_bug == CfRoom

CfCopied == Min({CfRoom, Max({1, rx.len - rx.idx})})

\* rx.len - rx.idx is unsigned: negative is huge.
CfTooShort ==
  /\ cf.len < rx.ll_dl
  /\ \/ rx.idx > rx.len
     \/ rx.len - rx.idx > rx.ll_dl - opt.ae - 1

CfRejected == cf.len > rx.ll_dl \/ CfTooShort

\* Dropped: the watchdog was cancelled and stays off.
CfDrop ==
  /\ hpc = "cf" /\ CfRejected
  /\ Leave
  /\ UNCHANGED <<sockVars, recvVars, timerVars, sk_err, fc>>

CfWrongSn ==
  /\ hpc = "cf" /\ ~CfRejected /\ cf.sn # rx.sn
  /\ sk_err' = "EILSEQ" /\ rx_state' = "IDLE"
  /\ Leave
  /\ UNCHANGED <<sockVars, rx, queue, timerVars, fc>>

CfTaken == hpc = "cf" /\ ~CfRejected /\ cf.sn = rx.sn

RxAfterCf ==
  [rx EXCEPT !.sn = (@ + 1) % SnMod, !.idx = @ + CfCopied,
             !.exact = @ /\ Continues(cf, opt.ae + 1, CfCopied, rx.pdu, rx.idx)]

PadStart_bug == opt.ae + Max({1, CfCopied})

\* The padding starts behind the byte copied last.
PadStart == opt.ae + 1 + Max({1, CfCopied})

CfLast ==
  /\ CfTaken /\ RxAfterCf.idx >= rx.len
  /\ rx_state' = "IDLE" /\ rx' = RxAfterCf
  /\ Deliver(PadStart, rx.pdu, rx.len, RxAfterCf.exact)
  /\ Leave
  /\ UNCHANGED <<sockVars, timerVars, fc>>

BsAfterCf == IF opt.bs = 0 THEN rx.bs ELSE (rx.bs + 1) % BsMod

CfNext ==
  /\ CfTaken /\ RxAfterCf.idx < rx.len
  /\ rx' = [RxAfterCf EXCEPT !.bs = BsAfterCf]
  /\ IF opt.bs = 0 \/ BsAfterCf < opt.bs
     THEN rxtimer' = TRUE /\ Leave
     ELSE /\ UNCHANGED rxtimer
          /\ IF opt.listen THEN Leave ELSE Goto("fc_cts")
  /\ UNCHANGED <<sockVars, rx_state, queue, cb, sk_err, fc>>

-----------------------------------------------------------------------------
(* The watchdog. *)

Expire ==
  /\ rxtimer /\ cb = "off"
  /\ rxtimer' = FALSE /\ cb' = "check"
  /\ UNCHANGED <<sockVars, recvVars, stepVars, sk_err, fc>>

\* isotp_rx_timer_handler()
TimeoutCheck ==
  /\ cb = "check"
  /\ IF rx_state = "WAIT_DATA"
     THEN sk_err' = "ETIMEDOUT" /\ cb' = "reset"
     ELSE cb' = "off" /\ UNCHANGED sk_err
  /\ UNCHANGED <<sockVars, recvVars, stepVars, rxtimer, fc>>

\* The error is reported and the timer restarts, but the reception stays.
TimeoutReset_bug ==
  /\ cb = "reset"
  /\ cb' = "off" /\ rxtimer' = TRUE
  /\ UNCHANGED <<sockVars, recvVars, stepVars, sk_err, fc>>

TimeoutReset ==
  /\ cb = "reset"
  /\ rx_state' = "IDLE" /\ cb' = "off"
  /\ UNCHANGED <<sockVars, rx, queue, stepVars, rxtimer, sk_err, fc>>

-----------------------------------------------------------------------------
(* bind(), NETDEV_UNREGISTER, the RCU grace period, recvmsg(), release(). *)

BindCheck ==
  /\ bpc = "idle" /\ rpc = "open" /\ ~bound /\ rx_state = "IDLE"
  /\ bpc' = "register"
  /\ UNCHANGED <<env, opt, bound, filter, rpc, recvVars, stepVars, timerVars, sk_err, fc>>

\* A device that is down is reported at once (ENETDOWN counts as ENODEV).
BindRegister ==
  /\ bpc = "register"
  /\ bpc' = "idle" /\ bound' = TRUE /\ filter' = "on"
  /\ sk_err' \in {sk_err} \cup (IF Unregister THEN {"ENODEV"} ELSE {})
  /\ UNCHANGED <<env, opt, rpc, recvVars, stepVars, timerVars, fc>>

Unbind == /\ bound' = FALSE
          /\ filter' = IF bound THEN "grace" ELSE filter

\* isotp_notify()
Notified == Unregister /\ bound /\ bpc = "idle" /\ rpc \in {"open", "unreg"}

NetdevUnregister ==
  /\ Notified /\ Unbind /\ sk_err' = "ENODEV"
  /\ UNCHANGED <<env, opt, bpc, rpc, recvVars, stepVars, timerVars, fc>>

NetdevDown ==
  /\ Notified /\ sk_err' = "ENODEV"
  /\ UNCHANGED <<sockVars, recvVars, stepVars, timerVars, fc>>

GracePeriodEnds ==
  /\ filter = "grace" /\ hpc = "idle"
  /\ filter' = "off"
  /\ UNCHANGED <<env, opt, bound, bpc, rpc, recvVars, stepVars, timerVars, sk_err, fc>>

\* isotp_recvmsg(): a PDU, or the pending error, which getsockopt(SO_ERROR)
\* takes from an unbound socket too.
isotp_recvmsg ==
  /\ rpc = "open"
  /\ \/ sk_err # "none" /\ sk_err' = "none" /\ UNCHANGED queue
     \/ bound /\ sk_err = "none" /\ queue # NoPdu /\ queue' = NoPdu /\ UNCHANGED sk_err
  /\ UNCHANGED <<sockVars, rx_state, rx, stepVars, timerVars, fc>>

\* The peer takes the flow control frame.
FcTaken ==
  /\ fc # "none" /\ fc' = "none"
  /\ UNCHANGED <<sockVars, recvVars, stepVars, timerVars, sk_err>>

\* isotp_release(): rx.state is written without the lock.
Release ==
  /\ Closing /\ bpc = "idle" /\ rpc = "open"
  /\ rpc' = "unreg" /\ rx_state' = "IDLE"
  /\ UNCHANGED <<env, opt, bound, filter, bpc, rx, queue, stepVars, timerVars, sk_err, fc>>

ReleaseUnregister ==
  /\ rpc = "unreg" /\ rpc' = "sync" /\ Unbind
  /\ UNCHANGED <<env, opt, bpc, recvVars, stepVars, timerVars, sk_err, fc>>

\* No grace period for a binding that the notifier removed.
ReleaseSync_bug ==
  /\ rpc = "sync" /\ rpc' = "cancel"
  /\ UNCHANGED <<env, opt, bound, filter, bpc, recvVars, stepVars, timerVars, sk_err, fc>>

ReleaseSync ==
  /\ rpc = "sync" /\ filter = "off" /\ hpc = "idle"
  /\ rpc' = "cancel"
  /\ UNCHANGED <<env, opt, bound, filter, bpc, recvVars, stepVars, timerVars, sk_err, fc>>

ReleaseCancel ==
  /\ rpc = "cancel" /\ hrtimer_cancel
  /\ rpc' = "done"
  /\ UNCHANGED <<env, opt, bound, filter, bpc, recvVars, stepVars, cb, sk_err, fc>>

-----------------------------------------------------------------------------
SoftirqStep ==
  \/ Cancel \/ RcvSf \/ RcvFf \/ FfFill \/ isotp_send_fc
  \/ CfDrop \/ CfWrongSn \/ CfLast \/ CfNext

TimerStep == TimeoutCheck \/ TimeoutReset

ReleaseNext == ReleaseUnregister \/ ReleaseSync \/ ReleaseCancel

Next ==
  \/ (\E f \in Frames : isotp_rcv(f)) \/ SoftirqStep
  \/ Expire \/ TimerStep
  \/ BindCheck \/ BindRegister \/ NetdevUnregister \/ NetdevDown \/ GracePeriodEnds
  \/ isotp_recvmsg \/ FcTaken \/ Release \/ ReleaseNext

Spec == Init /\ [][Next]_vars

\* Softirqs and timers run; peers and users owe nothing.
Fairness ==
  /\ WF_vars(SoftirqStep) /\ WF_vars(Expire) /\ WF_vars(TimerStep)
  /\ WF_vars(GracePeriodEnds) /\ WF_vars(ReleaseNext)

FairSpec == Spec /\ Fairness

-----------------------------------------------------------------------------
(* Safety. *)

\* While a handler changes so->rx the watchdog's callback does not run: a
\* timeout never ends a reception that has just gone on (the hrtimer_cancel()
\* at the top of isotp_rcv_sf(), _ff() and _cf(), all that keeps them apart).
TimeoutExclusive == hpc \in Bodies => cb = "off"

\* Whatever lengths the frames claim, no byte is written behind the buffer.
NoOverrun == rx.idx <= rx.buflen

\* A reception that waits for data is never left without its watchdog.
RxWatched ==
  rpc = "open" /\ rx_state = "WAIT_DATA" => hpc # "idle" \/ rxtimer \/ cb # "off"

\* When isotp_release() returns no timer, callback or reception is left.
RxReleaseQuiescent == rpc = "done" => hpc = "idle" /\ ~rxtimer /\ cb = "off"

\* "This is only allowed for the last CF": a consecutive frame shorter than
\* LL_DL is only taken (the sequence number moves on) when it ends the PDU.
ShortCfIsLast ==
  [][hpc = "cf" /\ cf.len < rx.ll_dl /\ rx'.sn # rx.sn => rx_state' = "IDLE"]_vars

(* Liveness. *)

\* Whatever a peer that keeps to the frame lengths sends or does not send, in
\* whatever order, a reception ends (the watchdog isotp_send_fc() and
\* isotp_rcv_cf() start, unless no flow control frame could be made).
Watchable == Envs[env].regular /\ ~Unregister /\ ~Faults
ReceptionEnds == Watchable /\ rx_state = "WAIT_DATA" ~> rx_state = "IDLE"
=============================================================================
