------------------------------- MODULE IsotpTx -------------------------------
(***************************************************************************)
(* The transmit path of one CAN_ISOTP socket (net/can/isotp.c): sendmsg()  *)
(* callers, the receive softirq (flow control frames and local echoes),    *)
(* the callbacks of the three transmit hrtimers, which take no lock, and   *)
(* bind(), release() and the NETDEV_UNREGISTER notifier.                   *)
(*                                                                         *)
(* One step is what no other context can see the inside of: a critical     *)
(* section under so->rx_lock is cut wherever a lock-free callback or       *)
(* waiter reads or writes between two of its accesses.  Memory is          *)
(* sequentially consistent (the barriers of the code are taken to work).   *)
(*                                                                         *)
(* A PDU is the number of CAN frames it takes: 1 is a single frame (SF),   *)
(* n > 1 a first frame (FF) and n - 1 consecutive frames (CF).             *)
(***************************************************************************)
EXTENDS Integers, FiniteSets

CONSTANTS
  Senders,       \* threads that call sendmsg()
  MaxXfer,       \* bound: transfers claimed in a run
  Frames,        \* the PDUs each thread sends: numbers of CAN frames
  Flows,         \* what flow control frames may carry: [bs : the block size (0: no
                 \* limit), gap : a gap between the frames is asked for]
  Slots,         \* ISOTP_TX_RESULT_SLOTS
  GenMod,        \* ISOTP_TX_RESULT_GEN_MASK + 1
  WaitTxDone,    \* CAN_ISOTP_WAIT_TX_DONE is set
  CfBroadcast,   \* CAN_ISOTP_CF_BROADCAST is set
  DynFcParms,    \* CAN_ISOTP_DYN_FC_PARMS is set
  Envs           \* surroundings: [xfers : the transfers there are, signals : a
                 \* sleeping caller may be interrupted, unregister : the network
                 \* device may be unregistered (and bound again), faults :
                 \* allocation, device lookup and can_send() may fail, closing :
                 \* the socket may be released]

ASSUME TxAssumption ==
  /\ MaxXfer \in Nat /\ Frames \in [Senders -> SUBSET (Nat \ {0})]
  /\ Flows \subseteq [bs : Nat, gap : BOOLEAN]
  /\ Slots \in Nat \ {0} /\ GenMod \in Nat \ {0}
  /\ {WaitTxDone, CfBroadcast, DynFcParms} \subseteq BOOLEAN
  /\ Envs \subseteq [xfers : 0..MaxXfer, signals : BOOLEAN, unregister : BOOLEAN,
                     faults : BOOLEAN, closing : BOOLEAN]
  /\ Senders \cap {"free", "softirq"} = {}

\* ISOTP_TX_RESULT_SLOTS and the number of generations are powers of two.
ASSUME TxSizeAssumption == IsFiniteSet(Senders) /\ GenMod % Slots = 0

VARIABLES
  env,        \* the surroundings
  bound,      \* so->bound
  filter,     \* the rx filters: "on", "grace" (unregistered, readers left), "off"
  tx_state,   \* so->tx.state
  tx_gen,     \* so->tx_gen
  tx_result,  \* so->tx_result[]
  cfecho,     \* so->cfecho
  tx,         \* so->tx and what the flow control set: len, idx, bs, txfc.bs, tx_gap
  sk_err,     \* sk->sk_err
  lock,       \* so->rx_lock: "free" or its holder
  armed,      \* hrtimers queued
  cb,         \* program counter of each hrtimer's callback
  seen,       \* locals of isotp_tx_timeout(): gen and old_state
  pc, loc,    \* sendmsg() callers: program counter and locals
  hpc,        \* the receive softirq
  rpc,        \* isotp_release()
  bpc,        \* isotp_bind()
  echoes,     \* transmitted frames whose local echo has not been delivered
  started,    \* history: transfers claimed so far
  fate,       \* history: what ended each transfer
  todo,       \* history: frames of each transfer not yet handed to the device
  out         \* history: what each caller's last call returned

bindVars  == <<env, bound, filter, bpc>>
sockVars  == <<tx_state, tx_gen, tx_result, cfecho, tx, sk_err>>
lockVars  == <<lock, hpc>>
timerVars == <<armed, cb, seen>>
callVars  == <<pc, loc>>
histVars  == <<started, fate, todo, out>>
vars == <<bindVars, sockVars, lockVars, timerVars, callVars, rpc, echoes, histVars>>

-----------------------------------------------------------------------------
(* Values. *)

States      == {"IDLE", "WAIT_FIRST_FC", "WAIT_FC", "SENDING", "SHUTDOWN"}
\* A flow control frame is taken while frames are being sent.
WaitsForFc_bug == {"WAIT_FIRST_FC", "WAIT_FC", "SENDING"}
WaitsForFc  == {"WAIT_FIRST_FC", "WAIT_FC"}
Busy        == {"WAIT_FIRST_FC", "WAIT_FC", "SENDING"}
GaveUp      == {"IDLE", "SHUTDOWN"}
Timeouts    == {"txtimer", "echotimer"}
Timers      == Timeouts \cup {"txfrtimer"}
TxErrs      == {"ECOMM", "EBADMSG", "EMSGSIZE"}
Results     == TxErrs \cup {"ok"}
Returns     == Results \cup {"none", "EAGAIN", "EADDRNOTAVAIL", "EINTR", "EFAIL"}
Xfers       == 1..MaxXfer

\* Transfer number and frame number stand for the unique uid of an skb.
NoTag == <<0, 0>>

\* Program counters of a sendmsg() call.
PreClaim == {"claim", "wait", "asleep"}
Drains   == <<"drain1", "drain2", "drain3">>
EvDrains == <<"ev1", "ev2", "ev3">>
InDrain   == {"drain1", "drain2", "drain3"}
InEvDrain == {"ev1", "ev2", "ev3"}
Filling  == {"fill", "build"}
SenderPCs == {"out", "commit", "publish", "arm", "send", "senderr", "cancel",
              "drop", "dropl", "waitdone", "sleepdone", "woken", "result", "evdrop"}
             \cup PreClaim \cup InDrain \cup InEvDrain \cup Filling
\* Where a caller holds so->rx_lock.
Locked == InDrain \cup InEvDrain \cup {"commit", "publish", "cancel", "dropl"}

HandlerPCs == {"idle", "fc_cancel", "fc_body", "ec_cancel", "ec_body",
               "cframe", "emit", "finish"}
CallbackPCs == {"off", "gen", "state", "cas", "post", "rearm", "check",
                "cframe", "emit"}
ReleasePCs == {"open", "closing", "asleep", "shut", "unreg", "sync",
               "drain1", "drain2", "drain3", "done"}

TypeOK ==
  /\ env \in Envs /\ bound \in BOOLEAN /\ filter \in {"on", "grace", "off"}
  /\ tx_state \in States
  /\ tx_gen \in 0..(GenMod - 1)
  /\ tx_result \in [0..(Slots - 1) -> [gen : 0..(GenMod - 1), err : Results]]
  /\ cfecho \in Nat \X Nat
  /\ tx \in [xfer : Nat, len : Nat, idx : Nat, bs : Nat, fcbs : Nat, gap : BOOLEAN]
  /\ sk_err \in TxErrs \cup {"none", "ENODEV"}
  /\ lock \in Senders \cup {"free", "softirq"}
  /\ armed \in [Timers -> BOOLEAN]
  /\ cb \in [Timers -> CallbackPCs]
  /\ seen \in [Timeouts -> [gen : 0..(GenMod - 1), st : States]]
  /\ pc \in [Senders -> SenderPCs]
  /\ loc \in [Senders -> [xfer : Nat, gen : 0..(GenMod - 1), len : Nat, err : Returns]]
  /\ hpc \in HandlerPCs /\ rpc \in ReleasePCs /\ bpc \in {"idle", "register"}
  /\ echoes \subseteq (Nat \X Nat)
  /\ started \in Nat
  /\ fate \in [Xfers -> Results \cup {"none", "run", "drop"}]
  /\ todo \in [Xfers -> Int]
  /\ out \in [Senders -> [xfer : Nat, res : Returns]]

Init ==
  /\ env \in Envs /\ bound = FALSE /\ filter = "off"
  /\ tx_state = "IDLE" /\ tx_gen = 0 /\ cfecho = NoTag
  /\ tx_result = [i \in 0..(Slots - 1) |-> [gen |-> 0, err |-> "ok"]]
  /\ tx = [xfer |-> 0, len |-> 0, idx |-> 0, bs |-> 0, fcbs |-> 0, gap |-> FALSE]
  /\ sk_err = "none" /\ lock = "free"
  /\ armed = [t \in Timers |-> FALSE] /\ cb = [t \in Timers |-> "off"]
  /\ seen = [t \in Timeouts |-> [gen |-> 0, st |-> "IDLE"]]
  /\ pc = [s \in Senders |-> "out"]
  /\ loc = [s \in Senders |-> [xfer |-> 0, gen |-> 0, len |-> 0, err |-> "none"]]
  /\ hpc = "idle" /\ rpc = "open" /\ bpc = "idle"
  /\ echoes = {} /\ started = 0
  /\ fate = [x \in Xfers |-> "none"] /\ todo = [x \in Xfers |-> 0]
  /\ out = [s \in Senders |-> [xfer |-> 0, res |-> "none"]]

-----------------------------------------------------------------------------
(* Helpers. *)

\* Definitions whose name ends in "_bug" are mutants: plausible errors in the
\* definition that follows them, used to see the properties fail.

isotp_inc_tx_gen(g) == (g + 1) % GenMod

Slot(g) == g % Slots

isotp_set_tx_result(g, e) ==
  tx_result' = [tx_result EXCEPT ![Slot(g)] = [gen |-> g, err |-> e]]

\* The tag is not compared.
isotp_get_tx_result_bug(g) == tx_result[Slot(g)].err

isotp_get_tx_result(g) ==
  IF tx_result[Slot(g)].gen # g THEN "ECOMM" ELSE tx_result[Slot(g)].err

\* wake_up_interruptible(&so->wait): every sleeper looks at its condition again.
Woken(p) == [s \in Senders |-> CASE p[s] = "asleep"    -> "wait"
                                 [] p[s] = "sleepdone" -> "waitdone"
                                 [] OTHER              -> p[s]]
WokenRelease_bug == rpc

WokenRelease == IF rpc = "asleep" THEN "closing" ELSE rpc

WakeUp_bug == UNCHANGED <<pc, rpc>>

WakeUp == pc' = Woken(pc) /\ rpc' = WokenRelease

\* Does not wait for a running callback.
hrtimer_cancel_bug(t) == armed' = [armed EXCEPT ![t] = FALSE]

\* hrtimer_cancel(): returns once the callback does not run; the timer is off.
hrtimer_cancel(t) == cb[t] = "off" /\ armed' = [armed EXCEPT ![t] = FALSE]

hrtimer_start(t) == armed' = [armed EXCEPT ![t] = TRUE]

Goto(s, to) == pc' = [pc EXCEPT ![s] = to]

Return(s, r) ==
  /\ pc' = [pc EXCEPT ![s] = "out"]
  /\ out' = [out EXCEPT ![s] = [xfer |-> loc[s].xfer, res |-> r]]

ReturnAndWake(s, r) ==
  /\ pc' = [Woken(pc) EXCEPT ![s] = "out"] /\ rpc' = WokenRelease
  /\ out' = [out EXCEPT ![s] = [xfer |-> loc[s].xfer, res |-> r]]

Fail(s, e, to) ==
  /\ loc' = [loc EXCEPT ![s].err = e]
  /\ Goto(s, to)

\* The timer that watches the first frame of caller s (tx_hrt).
TxHrt(s) == IF loc[s].len = 1 \/ CfBroadcast THEN "echotimer" ELSE "txtimer"

-----------------------------------------------------------------------------
(* sendmsg(): claim the socket. *)

\* A call that finds the socket unbound or shut down returns at once and
\* leaves no trace; the file is open while a call starts.
Sendmsg(s) ==
  /\ pc[s] = "out" /\ rpc = "open"
  /\ bound /\ tx_state # "SHUTDOWN"
  /\ started + Cardinality({q \in Senders : pc[q] \in PreClaim \cup InDrain
                                                      \cup {"commit"}}) < env.xfers
  /\ \E n \in Frames[s] :
       loc' = [loc EXCEPT ![s] = [xfer |-> 0, gen |-> 0, len |-> n, err |-> "none"]]
  /\ Goto(s, "claim")
  /\ UNCHANGED <<bindVars, sockVars, lockVars, timerVars, rpc, echoes, histVars>>

Claim(s) ==
  /\ pc[s] = "claim" /\ lock = "free" /\ tx_state = "IDLE"
  /\ lock' = s
  /\ Goto(s, Drains[1])
  /\ UNCHANGED <<bindVars, sockVars, hpc, timerVars, loc, rpc, echoes, histVars>>

\* Busy: MSG_DONTWAIT returns, a shut down socket returns, else sleep.
ClaimBusy(s) ==
  /\ pc[s] = "claim" /\ lock = "free" /\ tx_state # "IDLE"
  /\ \/ Return(s, "EAGAIN")
     \/ tx_state = "SHUTDOWN" /\ Return(s, "EADDRNOTAVAIL")
     \/ tx_state # "SHUTDOWN" /\ Goto(s, "wait") /\ UNCHANGED out
  /\ UNCHANGED <<bindVars, sockVars, lockVars, timerVars, loc, rpc, echoes, started,
                 fate, todo>>

WaitIdle(s) ==
  /\ pc[s] = "wait"
  /\ Goto(s, IF tx_state \in GaveUp THEN "claim" ELSE "asleep")
  /\ UNCHANGED <<bindVars, sockVars, lockVars, timerVars, loc, rpc, echoes, histVars>>

\* A signal ends either wait_event_interruptible().
Interrupted(s) ==
  /\ env.signals
  /\ \/ pc[s] = "asleep" /\ Return(s, "EINTR") /\ UNCHANGED loc
     \/ pc[s] = "sleepdone" /\ Fail(s, "EINTR", "evdrop") /\ UNCHANGED out
  /\ UNCHANGED <<bindVars, sockVars, lockVars, timerVars, rpc, echoes, started, fate,
                 todo>>

DrainOrder_bug == <<"echotimer", "txtimer", "txfrtimer">>

\* txfrtimer first: its callback re-arms echotimer lock-free.
DrainOrder == <<"txfrtimer", "txtimer", "echotimer">>

\* The claim, and the abandoned wait of err_event_drop.
Drain(s) ==
  /\ \E i \in 1..3 :
       /\ \/ pc[s] = Drains[i] /\ Goto(s, IF i = 3 THEN "commit" ELSE Drains[i + 1])
          \/ pc[s] = EvDrains[i] /\ Goto(s, IF i = 3 THEN "dropl" ELSE EvDrains[i + 1])
       /\ hrtimer_cancel(DrainOrder[i])
  /\ UNCHANGED <<bindVars, sockVars, lockVars, cb, seen, loc, rpc, echoes, histVars>>

\* New generation: its result slot is reset before tx_gen shows it.
Commit(s) ==
  /\ pc[s] = "commit"
  /\ LET g == isotp_inc_tx_gen(tx_gen)
         x == started + 1
     IN /\ isotp_set_tx_result(g, "ECOMM")
        /\ tx_gen' = g
        /\ started' = x
        /\ fate' = [fate EXCEPT ![x] = "run"]
        /\ loc' = [loc EXCEPT ![s].xfer = x, ![s].gen = g]
  /\ Goto(s, "publish")
  /\ UNCHANGED <<bindVars, tx_state, cfecho, tx, sk_err, lockVars, timerVars, rpc,
                 echoes, todo, out>>

Publish(s) ==
  /\ pc[s] = "publish"
  /\ tx_state' = "SENDING" /\ cfecho' = NoTag /\ lock' = "free"
  /\ Goto(s, "fill")
  /\ UNCHANGED <<bindVars, tx_gen, tx_result, tx, sk_err, hpc, timerVars, loc, rpc,
                 echoes, histVars>>

-----------------------------------------------------------------------------
(* sendmsg(): build and send the first frame. *)

Recheck(s) ==
  /\ pc[s] = "fill"
  /\ \/ bound /\ Goto(s, "build") /\ UNCHANGED loc
     \/ ~bound /\ Fail(s, "EADDRNOTAVAIL", "drop")
  /\ UNCHANGED <<bindVars, sockVars, lockVars, timerVars, rpc, echoes, histVars>>

\* Bad size, no memory, no device; sock_alloc_send_skb() also returns, and
\* takes, an error the socket already had.
BuildFails(s) ==
  /\ pc[s] = "build"
  /\ \/ sk_err # "none" /\ sk_err' = "none"
     \/ (env.faults \/ ~bound) /\ UNCHANGED sk_err
  /\ Fail(s, "EFAIL", "drop")
  /\ UNCHANGED <<bindVars, tx_state, tx_gen, tx_result, cfecho, tx, lockVars,
                 timerVars, rpc, echoes, histVars>>

Build(s) ==
  /\ pc[s] = "build" /\ bound /\ sk_err = "none"
  /\ LET n == loc[s].len
         x == loc[s].xfer
         cfbc == CfBroadcast /\ n > 1
     IN /\ \E gap \in (IF cfbc THEN BOOLEAN ELSE {tx.gap}) :
             tx' = [tx EXCEPT !.xfer = x, !.len = n, !.idx = 1, !.gap = gap,
                              !.fcbs = IF cfbc THEN 0 ELSE @]
        /\ cfecho' = IF n = 1 \/ cfbc THEN <<x, 1>> ELSE NoTag
        /\ todo' = [todo EXCEPT ![x] = n]
  /\ Goto(s, "arm")
  /\ UNCHANGED <<bindVars, tx_state, tx_gen, tx_result, sk_err, lockVars, timerVars,
                 loc, rpc, echoes, started, fate, out>>

Arm(s) ==
  /\ pc[s] = "arm" /\ lock = "free"
  /\ \/ /\ tx_state = "SHUTDOWN"
        /\ ReturnAndWake(s, "EADDRNOTAVAIL")
        /\ UNCHANGED <<tx_state, armed>>
     \/ /\ tx_state # "SHUTDOWN"
        /\ tx_state' = IF TxHrt(s) = "txtimer" THEN "WAIT_FIRST_FC" ELSE "SENDING"
        /\ hrtimer_start(TxHrt(s))
        /\ Goto(s, "send")
        /\ UNCHANGED <<out, rpc>>
  /\ UNCHANGED <<bindVars, tx_gen, tx_result, cfecho, tx, sk_err, lockVars, cb, seen,
                 loc, echoes, started, fate, todo>>

Send(s) ==
  /\ pc[s] = "send"
  /\ \/ /\ echoes' = echoes \cup {<<loc[s].xfer, 1>>}
        /\ todo' = [todo EXCEPT ![loc[s].xfer] = @ - 1]
        /\ IF WaitTxDone THEN Goto(s, "waitdone") /\ UNCHANGED out
                         ELSE Return(s, "ok")
        /\ UNCHANGED loc
     \/ /\ env.faults
        /\ Fail(s, "EFAIL", "senderr")
        /\ UNCHANGED <<echoes, todo, out>>
  /\ UNCHANGED <<bindVars, sockVars, lockVars, timerVars, rpc, started, fate>>

-----------------------------------------------------------------------------
(* sendmsg(): error paths and the wait for the end of the transfer. *)

StillMine_bug(s) == TRUE

\* A caller that failed late must not touch a transfer claimed since.
StillMine(s) == tx_gen = loc[s].gen

ErrLock(s) ==
  /\ pc[s] \in {"senderr", "evdrop"} /\ lock = "free"
  /\ \/ /\ ~StillMine(s)
        /\ Return(s, loc[s].err) /\ UNCHANGED lock
     \/ /\ StillMine(s)
        /\ lock' = s
        /\ Goto(s, IF pc[s] = "senderr" THEN "cancel" ELSE EvDrains[1])
        /\ UNCHANGED out
  /\ UNCHANGED <<bindVars, sockVars, hpc, timerVars, loc, rpc, echoes, started, fate,
                 todo>>

\* No transmission, no timeout monitoring.
CancelOwn(s) ==
  /\ pc[s] = "cancel" /\ hrtimer_cancel(TxHrt(s))
  /\ Goto(s, "dropl")
  /\ UNCHANGED <<bindVars, sockVars, lockVars, cb, seen, loc, rpc, echoes, histVars>>

DropLock(s) ==
  /\ pc[s] = "drop" /\ lock = "free"
  /\ lock' = s /\ Goto(s, "dropl")
  /\ UNCHANGED <<bindVars, sockVars, hpc, timerVars, loc, rpc, echoes, histVars>>

DropState_bug == "IDLE"

\* Back to IDLE, unless isotp_release() has taken over.
DropState == IF tx_state = "SHUTDOWN" THEN tx_state ELSE "IDLE"

Drop(s) ==
  /\ pc[s] = "dropl"
  /\ cfecho' = NoTag
  /\ tx_state' = DropState
  /\ lock' = "free"
  /\ fate' = [fate EXCEPT ![loc[s].xfer] = IF @ = "run" THEN "drop" ELSE @]
  /\ ReturnAndWake(s, loc[s].err)
  /\ UNCHANGED <<bindVars, tx_gen, tx_result, tx, sk_err, hpc, timerVars, loc, echoes,
                 started, todo>>

WaitDone(s) ==
  /\ pc[s] = "waitdone"
  /\ Goto(s, IF ~StillMine(s) \/ tx_state \in GaveUp THEN "woken" ELSE "sleepdone")
  /\ UNCHANGED <<bindVars, sockVars, lockVars, timerVars, loc, rpc, echoes, histVars>>

WokenDone(s) ==
  /\ pc[s] = "woken"
  /\ IF StillMine(s) /\ tx_state = "SHUTDOWN"
     THEN Fail(s, "EADDRNOTAVAIL", "evdrop")
     ELSE Goto(s, "result") /\ UNCHANGED loc
  /\ UNCHANGED <<bindVars, sockVars, lockVars, timerVars, rpc, echoes, histVars>>

ReadResult(s) ==
  /\ pc[s] = "result"
  /\ Return(s, isotp_get_tx_result(loc[s].gen))
  /\ UNCHANGED <<bindVars, sockVars, lockVars, timerVars, loc, rpc, echoes, started,
                 fate, todo>>

-----------------------------------------------------------------------------
(* isotp_send_cframe(), run by the softirq under so->rx_lock and, lock-free, *)
(* by the txfrtimer callback: fill the frame, then tag it and send it.       *)

\* Out of memory or without a device nothing is sent: the echo timer tells.
CframeFill(failed) ==
  \/ failed /\ env.faults /\ UNCHANGED tx
  \/ ~failed /\ tx' = [tx EXCEPT !.idx = IF @ < tx.len THEN @ + 1 ELSE @,
                                 !.bs = (@ + 1) % 256]

CframeEmit ==
  /\ cfecho' = <<tx.xfer, tx.idx>>
  /\ \/ /\ echoes' = echoes \cup {<<tx.xfer, tx.idx>>}
        /\ todo' = [todo EXCEPT ![tx.xfer] = @ - 1]
     \/ env.faults /\ UNCHANGED <<echoes, todo>>

-----------------------------------------------------------------------------
(* The receive softirq: isotp_rcv_fc() and isotp_rcv_echo() under rx_lock. *)

Enter(to)  == lock = "free" /\ lock' = "softirq" /\ hpc' = to
Leave      == lock' = "free" /\ hpc' = "idle"
Dispatched == hpc = "idle" /\ filter # "off"

\* A flow control frame nobody waits for changes nothing.
FcArrives ==
  /\ Dispatched /\ tx_state \in WaitsForFc
  /\ Enter("fc_cancel")
  /\ UNCHANGED <<bindVars, sockVars, timerVars, callVars, rpc, echoes, histVars>>

\* A running timeout may have given up meanwhile: recheck.
FcCancel ==
  /\ hpc = "fc_cancel" /\ hrtimer_cancel("txtimer")
  /\ IF tx_state \in WaitsForFc THEN hpc' = "fc_body" /\ UNCHANGED lock ELSE Leave
  /\ UNCHANGED <<bindVars, sockVars, cb, seen, callVars, rpc, echoes, histVars>>

FcErr(e) ==
  /\ isotp_set_tx_result(tx_gen, e)
  /\ sk_err' = e
  /\ fate' = [fate EXCEPT ![started] = e]
  /\ hpc' = "finish"
  /\ UNCHANGED <<armed, lock>>

\* Block size and gap come from the first flow control frame, or from each.
FcTakesParms == tx_state = "WAIT_FIRST_FC" \/ DynFcParms

FcParms(f) == IF FcTakesParms THEN [tx EXCEPT !.fcbs = f.bs, !.gap = f.gap] ELSE tx

FcWaits == tx_state' = IF FcTakesParms THEN "WAIT_FC" ELSE tx_state

\* A frame that is too short or wrongly padded.
FcMalformed ==
  /\ hpc = "fc_body"
  /\ FcErr("EBADMSG")
  /\ UNCHANGED <<bindVars, tx_state, tx_gen, cfecho, tx, cb, seen, callVars, rpc,
                 echoes, started, todo, out>>

FcCts ==
  /\ tx_state' = "SENDING"
  /\ hrtimer_start("echotimer")
  /\ hpc' = "cframe"
  /\ UNCHANGED <<tx_result, sk_err, lock, fate>>

\* A peer may ask for more time as often as it likes.
FcWt ==
  /\ FcWaits
  /\ hrtimer_start("txtimer")
  /\ Leave
  /\ UNCHANGED <<tx_result, sk_err, fate>>

FcRefused == \E e \in {"EMSGSIZE", "EBADMSG"} : FcErr(e) /\ FcWaits

FcStatus ==
  /\ hpc = "fc_body"
  /\ \E f \in Flows :
       LET p == FcParms(f)
       IN \/ FcCts /\ tx' = [p EXCEPT !.bs = 0]
          \/ (FcWt \/ FcRefused) /\ tx' = p
  /\ UNCHANGED <<bindVars, tx_gen, cfecho, cb, seen, callVars, rpc, echoes, started,
                 todo, out>>

\* smp_store_release(IDLE) after the result, then the wake up.
Finish ==
  /\ hpc = "finish"
  /\ tx_state' = "IDLE" /\ Leave /\ WakeUp
  /\ UNCHANGED <<bindVars, tx_gen, tx_result, cfecho, tx, sk_err, timerVars, loc,
                 echoes, histVars>>

\* An echo that is not the awaited one is consumed and changes nothing else.
EchoArrives(e) ==
  /\ Dispatched /\ lock = "free" /\ e \in echoes
  /\ echoes' = echoes \ {e}
  /\ IF cfecho = e THEN Enter("ec_cancel") ELSE UNCHANGED <<lock, hpc>>
  /\ UNCHANGED <<bindVars, sockVars, timerVars, callVars, rpc, histVars>>

EchoCancel ==
  /\ hpc = "ec_cancel" /\ hrtimer_cancel("echotimer")
  /\ cfecho' = NoTag
  /\ IF tx_state = "SENDING" THEN hpc' = "ec_body" /\ UNCHANGED lock ELSE Leave
  /\ UNCHANGED <<bindVars, tx_state, tx_gen, tx_result, tx, sk_err, cb, seen, callVars,
                 rpc, echoes, histVars>>

EchoAllSent_bug == tx.idx > tx.len

EchoAllSent == tx.idx >= tx.len

EchoDone ==
  /\ EchoAllSent
  /\ isotp_set_tx_result(tx_gen, "ok")
  /\ fate' = [fate EXCEPT ![started] = "ok"]
  /\ hpc' = "finish"
  /\ UNCHANGED <<tx_state, armed, lock>>

EchoBlockEnd == tx.fcbs > 0 /\ tx.bs >= tx.fcbs

\* The txtimer is not started.
EchoWaitFc_bug ==
  /\ ~EchoAllSent /\ EchoBlockEnd
  /\ tx_state' = "WAIT_FC" /\ Leave
  /\ UNCHANGED <<tx_result, fate, armed>>

EchoWaitFc ==
  /\ ~EchoAllSent /\ EchoBlockEnd
  /\ tx_state' = "WAIT_FC" /\ hrtimer_start("txtimer") /\ Leave
  /\ UNCHANGED <<tx_result, fate>>

EchoBurst ==
  /\ ~EchoAllSent /\ ~EchoBlockEnd /\ ~tx.gap
  /\ hrtimer_start("echotimer") /\ hpc' = "cframe"
  /\ UNCHANGED <<tx_state, tx_result, lock, fate>>

EchoGap ==
  /\ ~EchoAllSent /\ ~EchoBlockEnd /\ tx.gap
  /\ hrtimer_start("txfrtimer") /\ Leave
  /\ UNCHANGED <<tx_state, tx_result, fate>>

EchoBody ==
  /\ hpc = "ec_body"
  /\ EchoDone \/ EchoWaitFc \/ EchoBurst \/ EchoGap
  /\ UNCHANGED <<bindVars, tx_gen, cfecho, tx, sk_err, cb, seen, callVars, rpc,
                 echoes, started, todo, out>>

SoftirqFill ==
  /\ hpc = "cframe"
  /\ \/ CframeFill(TRUE) /\ Leave
     \/ CframeFill(FALSE) /\ hpc' = "emit" /\ UNCHANGED lock
  /\ UNCHANGED <<bindVars, tx_state, tx_gen, tx_result, cfecho, sk_err, timerVars,
                 callVars, rpc, echoes, histVars>>

SoftirqEmit ==
  /\ hpc = "emit" /\ CframeEmit /\ Leave
  /\ UNCHANGED <<bindVars, tx_state, tx_gen, tx_result, tx, sk_err, timerVars,
                 callVars, rpc, started, fate, out>>

-----------------------------------------------------------------------------
(* The hrtimers: they expire, and their callbacks take no lock. *)

Expire(t) ==
  /\ armed[t] /\ cb[t] = "off"
  /\ armed' = [armed EXCEPT ![t] = FALSE]
  /\ cb' = [cb EXCEPT ![t] = IF t \in Timeouts THEN "gen" ELSE "rearm"]
  /\ UNCHANGED <<bindVars, sockVars, lockVars, seen, callVars, rpc, echoes, histVars>>

Step(t, from, to) == cb[t] = from /\ cb' = [cb EXCEPT ![t] = to]

\* isotp_tx_timeout(), the callback of txtimer and of echotimer.
TimeoutGen(t) ==
  /\ Step(t, "gen", "state")
  /\ seen' = [seen EXCEPT ![t].gen = tx_gen]
  /\ UNCHANGED <<bindVars, sockVars, lockVars, armed, callVars, rpc, echoes, histVars>>

TimeoutState(t) ==
  /\ Step(t, "state", IF tx_state \in GaveUp THEN "off" ELSE "cas")
  /\ seen' = [seen EXCEPT ![t].st = tx_state]
  /\ UNCHANGED <<bindVars, sockVars, lockVars, armed, callVars, rpc, echoes, histVars>>

\* cmpxchg(): only the transfer state that was read is given up.
TimeoutCas(t) ==
  /\ Step(t, "cas", IF tx_state = seen[t].st THEN "post" ELSE "off")
  /\ IF tx_state = seen[t].st
     THEN tx_state' = "IDLE" /\ fate' = [fate EXCEPT ![started] = "ECOMM"]
     ELSE UNCHANGED <<tx_state, fate>>
  /\ UNCHANGED <<bindVars, tx_gen, tx_result, cfecho, tx, sk_err, lockVars, armed,
                 seen, callVars, rpc, echoes, started, todo, out>>

TimeoutPost(t) ==
  /\ Step(t, "post", "off")
  /\ isotp_set_tx_result(seen[t].gen, "ECOMM")
  /\ sk_err' = "ECOMM"
  /\ WakeUp
  /\ UNCHANGED <<bindVars, tx_state, tx_gen, cfecho, tx, lockVars, armed, seen, loc,
                 echoes, histVars>>

\* The echo timer is not started.
TxfrRearm_bug ==
  /\ Step("txfrtimer", "rearm", "check")
  /\ UNCHANGED <<bindVars, sockVars, lockVars, armed, seen, callVars, rpc, echoes, histVars>>

\* isotp_txfr_timer_handler(): watch the echo first, then send the frame.
TxfrRearm ==
  /\ Step("txfrtimer", "rearm", "check")
  /\ hrtimer_start("echotimer")
  /\ UNCHANGED <<bindVars, sockVars, lockVars, seen, callVars, rpc, echoes, histVars>>

TxfrCheck ==
  /\ Step("txfrtimer", "check",
          IF tx_state = "SENDING" /\ cfecho = NoTag THEN "cframe" ELSE "off")
  /\ UNCHANGED <<bindVars, sockVars, lockVars, armed, seen, callVars, rpc, echoes,
                 histVars>>

TxfrFill ==
  /\ \/ CframeFill(TRUE) /\ Step("txfrtimer", "cframe", "off")
     \/ CframeFill(FALSE) /\ Step("txfrtimer", "cframe", "emit")
  /\ UNCHANGED <<bindVars, tx_state, tx_gen, tx_result, cfecho, sk_err, lockVars,
                 armed, seen, callVars, rpc, echoes, histVars>>

TxfrEmit ==
  /\ Step("txfrtimer", "emit", "off") /\ CframeEmit
  /\ UNCHANGED <<bindVars, tx_state, tx_gen, tx_result, tx, sk_err, lockVars, armed,
                 seen, callVars, rpc, started, fate, out>>

-----------------------------------------------------------------------------
(* bind(), NETDEV_UNREGISTER, the RCU grace period, and release(). *)

\* tx.state is not looked at.
BindCheck_bug ==
  /\ bpc = "idle" /\ rpc = "open" /\ ~bound
  /\ bpc' = "register"
  /\ UNCHANGED <<env, bound, filter, sockVars, lockVars, timerVars, callVars, rpc, echoes, histVars>>

\* Refused while a transfer outlives the previous binding.
BindCheck ==
  /\ bpc = "idle" /\ rpc = "open" /\ ~bound /\ tx_state = "IDLE"
  /\ bpc' = "register"
  /\ UNCHANGED <<env, bound, filter, sockVars, lockVars, timerVars, callVars, rpc, echoes,
                 histVars>>

\* A device that is down is reported at once (ENETDOWN counts as ENODEV).
BindRegister ==
  /\ bpc = "register"
  /\ bpc' = "idle" /\ bound' = TRUE /\ filter' = "on" /\ cfecho' = NoTag
  /\ sk_err' \in {sk_err} \cup (IF env.unregister THEN {"ENODEV"} ELSE {})
  /\ UNCHANGED <<env, tx_state, tx_gen, tx_result, tx, lockVars, timerVars, callVars,
                 rpc, echoes, histVars>>

Unbind == /\ bound' = FALSE
          /\ filter' = IF bound THEN "grace" ELSE filter

\* isotp_notify() finds the sockets of the device until isotp_release() has
\* taken them off the list; bind() holds the rtnl lock.
Notified ==
  /\ env.unregister /\ bound /\ bpc = "idle"
  /\ rpc \in {"open", "closing", "asleep", "shut"}

\* NETDEV_UNREGISTER: the filters go, receptions in flight are not waited for.
NetdevUnregister ==
  /\ Notified /\ Unbind /\ sk_err' = "ENODEV"
  /\ UNCHANGED <<env, bpc, tx_state, tx_gen, tx_result, cfecho, tx, lockVars, timerVars,
                 callVars, rpc, echoes, histVars>>

NetdevDown ==
  /\ Notified /\ sk_err' = "ENODEV"
  /\ UNCHANGED <<bindVars, tx_state, tx_gen, tx_result, cfecho, tx, lockVars, timerVars,
                 callVars, rpc, echoes, histVars>>

GracePeriodEnds ==
  /\ filter = "grace" /\ hpc = "idle"
  /\ filter' = "off"
  /\ UNCHANGED <<env, bound, bpc, sockVars, lockVars, timerVars, callVars, rpc, echoes,
                 histVars>>

\* recvmsg() and getsockopt(SO_ERROR) take the pending error.
SockError ==
  /\ rpc = "open" /\ sk_err # "none"
  /\ sk_err' = "none"
  /\ UNCHANGED <<bindVars, tx_state, tx_gen, tx_result, cfecho, tx, lockVars,
                 timerVars, callVars, rpc, echoes, histVars>>

ReleaseStep(from, to) == rpc = from /\ rpc' = to

Close ==
  /\ env.closing /\ bpc = "idle"
  /\ ReleaseStep("open", "closing")
  /\ UNCHANGED <<bindVars, sockVars, lockVars, timerVars, callVars, echoes, histVars>>

\* Wait for the running PDU, but give up after a signal.
ReleaseInterrupted ==
  /\ env.signals /\ ReleaseStep("asleep", "shut")
  /\ UNCHANGED <<bindVars, sockVars, lockVars, timerVars, callVars, echoes, histVars>>

ReleaseWait ==
  /\ ReleaseStep("closing", IF tx_state = "IDLE" THEN "shut" ELSE "asleep")
  /\ UNCHANGED <<bindVars, sockVars, lockVars, timerVars, callVars, echoes, histVars>>

ReleaseShutdown ==
  /\ lock = "free"
  /\ ReleaseStep("shut", "unreg")
  /\ tx_state' = "SHUTDOWN"
  /\ pc' = Woken(pc)
  /\ UNCHANGED <<bindVars, tx_gen, tx_result, cfecho, tx, sk_err, lockVars, timerVars,
                 loc, echoes, histVars>>

ReleaseUnregister ==
  /\ ReleaseStep("unreg", "sync") /\ Unbind
  /\ UNCHANGED <<env, bpc, sockVars, lockVars, timerVars, callVars, echoes, histVars>>

\* No grace period for a binding that the notifier removed.
ReleaseSync_bug ==
  /\ ReleaseStep("sync", Drains[1])
  /\ UNCHANGED <<bindVars, sockVars, lockVars, timerVars, callVars, echoes, histVars>>

\* synchronize_rcu(): also for a binding that the notifier removed.
ReleaseSync ==
  /\ ReleaseStep("sync", Drains[1])
  /\ filter = "off" /\ hpc = "idle"
  /\ UNCHANGED <<bindVars, sockVars, lockVars, timerVars, callVars, echoes, histVars>>

ReleaseDrain ==
  /\ \E i \in 1..3 : /\ ReleaseStep(Drains[i], IF i = 3 THEN "done" ELSE Drains[i + 1])
                      /\ hrtimer_cancel(DrainOrder[i])
  /\ UNCHANGED <<bindVars, sockVars, lockVars, cb, seen, callVars, echoes, histVars>>

-----------------------------------------------------------------------------
SendStep(s) ==
  \/ Claim(s) \/ ClaimBusy(s) \/ WaitIdle(s) \/ Drain(s) \/ Commit(s) \/ Publish(s)
  \/ Recheck(s) \/ BuildFails(s) \/ Build(s) \/ Arm(s) \/ Send(s)
  \/ ErrLock(s) \/ CancelOwn(s) \/ DropLock(s) \/ Drop(s)
  \/ WaitDone(s) \/ WokenDone(s) \/ ReadResult(s)

SoftirqStep ==
  \/ FcCancel \/ FcMalformed \/ FcStatus \/ Finish
  \/ EchoCancel \/ EchoBody \/ SoftirqFill \/ SoftirqEmit

TimeoutStep(t) == TimeoutGen(t) \/ TimeoutState(t) \/ TimeoutCas(t) \/ TimeoutPost(t)

TxfrStep == TxfrRearm \/ TxfrCheck \/ TxfrFill \/ TxfrEmit

ReleaseNext ==
  ReleaseWait \/ ReleaseShutdown \/ ReleaseUnregister \/ ReleaseSync \/ ReleaseDrain

Next ==
  \/ \E s \in Senders : Sendmsg(s) \/ SendStep(s) \/ Interrupted(s)
  \/ FcArrives \/ (\E e \in echoes : EchoArrives(e)) \/ SoftirqStep
  \/ (\E t \in Timers : Expire(t)) \/ (\E t \in Timeouts : TimeoutStep(t)) \/ TxfrStep
  \/ BindCheck \/ BindRegister \/ NetdevUnregister \/ NetdevDown \/ GracePeriodEnds
  \/ SockError \/ Close \/ ReleaseInterrupted \/ ReleaseNext

Spec == Init /\ [][Next]_vars

\* Threads, softirqs and timers run; peers, users, signals and the device
\* owe nothing.
Fairness ==
  /\ \A s \in Senders : WF_vars(SendStep(s))
  /\ WF_vars(SoftirqStep)
  /\ \A t \in Timers : WF_vars(Expire(t))
  /\ \A t \in Timeouts : WF_vars(TimeoutStep(t))
  /\ WF_vars(TxfrStep)
  /\ WF_vars(GracePeriodEnds) /\ WF_vars(ReleaseNext)

FairSpec == Spec /\ Fairness

-----------------------------------------------------------------------------
(* Safety. *)

\* Between the end of the drain and the start of the first timer a new
\* transfer has no timer armed and no callback running: an old one cannot
\* end it (the order of the three hrtimer_cancel() calls in isotp_sendmsg()).
Unsent == {"commit", "publish", "fill", "build", "arm"}
ClaimDrained ==
  (\E s \in Senders : pc[s] \in Unsent) =>
    \A t \in Timers : ~armed[t] /\ cb[t] = "off"

\* so->tx (buf, idx, sn, bs) has one user at a time: a sendmsg() call that
\* builds, the softirq or the txfrtimer callback in isotp_send_cframe(); only
\* tx.state and the draining of the timers keep them apart.
TxUsers == {s \in Senders : pc[s] \in {"publish", "fill", "build", "arm"}}
           \cup (IF hpc \in {"cframe", "emit"} THEN {"softirq"} ELSE {})
           \cup (IF cb["txfrtimer"] \in {"cframe", "emit"} THEN {"txfrtimer"} ELSE {})
TxBufferExclusive == \A u, v \in TxUsers : u = v

\* A transfer in progress is never left without a timer that will end it,
\* unless some context is at work on it.
AtWork ==
  \/ hpc # "idle"
  \/ \E s \in Senders : pc[s] \in Locked \cup Unsent \cup {"drop"}
Watched ==
  tx_state \in Busy => AtWork \/ \E t \in Timers : armed[t] \/ cb[t] # "off"

\* CAN_ISOTP_WAIT_TX_DONE: success is only returned for a PDU of which every
\* frame was sent, an error other than ECOMM only for the transfer it ended.
ResultSound ==
  WaitTxDone => \A s \in Senders :
    LET r == out[s] IN
    /\ r.res = "ok" => fate[r.xfer] = "ok" /\ todo[r.xfer] = 0
    /\ r.res \in {"EBADMSG", "EMSGSIZE"} => fate[r.xfer] = r.res

\* A transfer that succeeded is only reported as failed once its result slot
\* was taken by a transfer that came ISOTP_TX_RESULT_SLOTS later.
ResultComplete ==
  WaitTxDone => \A s \in Senders :
    out[s].res = "ECOMM" => \/ fate[out[s].xfer] = "ECOMM"
                            \/ started >= out[s].xfer + Slots

\* No frame of a PDU is sent twice.
NoFrameTwice == \A x \in Xfers : todo[x] >= 0

\* When isotp_release() returns nothing can touch the socket any more: no
\* timer is armed, no callback and no reception runs.
ReleaseQuiescent ==
  rpc = "done" => hpc = "idle" /\ \A t \in Timers : ~armed[t] /\ cb[t] = "off"

\* The inductive invariant under ReleaseQuiescent and ShutdownFinal: who holds
\* so->rx_lock, what its holder knows of tx.state, and what each stage of
\* isotp_release() has made impossible for good.
LockInv ==
  /\ \A s \in Senders : pc[s] \in Locked => lock = s
  /\ hpc # "idle" => lock = "softirq"

StateInv ==
  /\ \A s \in Senders : pc[s] \in InDrain \cup {"commit", "publish"} => tx_state = "IDLE"
  /\ hpc \in {"fc_body", "ec_body", "finish"} => tx_state # "SHUTDOWN"
  /\ \A t \in Timeouts : cb[t] = "cas" => seen[t].st # "SHUTDOWN"

Dead(t) == ~armed[t] /\ cb[t] = "off"

ReleaseInv ==
  /\ rpc # "open" => bpc = "idle"
  /\ rpc \notin {"open", "closing", "asleep", "shut"} => tx_state = "SHUTDOWN"
  /\ rpc \in {"sync", "drain1", "drain2", "drain3", "done"} => ~bound
  /\ rpc \in {"drain1", "drain2", "drain3", "done"} => filter = "off" /\ hpc = "idle"
  /\ rpc \in {"drain2", "drain3", "done"} => Dead("txfrtimer")
  /\ rpc \in {"drain3", "done"} => Dead("txtimer")
  /\ rpc = "done" => Dead("echotimer")

ShutdownInv == LockInv /\ StateInv /\ ReleaseInv

\* bind() clears cfecho without so->rx_lock: never the tag of a live transfer.
BindKeepsTag == bpc = "register" /\ tx_state = "SENDING" => cfecho = NoTag

\* One transfer at a time, each with one verdict: the promise of the path.
Abs == INSTANCE IsotpTxAbs WITH Transfers <- Xfers, begun <- started, verdict <- fate
ImplementsAbs == Abs!Spec

\* ISOTP_SHUTDOWN is final, although six places write tx.state.
ShutdownFinal == [][tx_state = "SHUTDOWN" => tx_state' = "SHUTDOWN"]_vars

(* Liveness. *)

\* Each "wait" frame starts txtimer anew, and isotp_rcv_fc() does not count them:
\* nothing ends while a peer goes on sending them.
FcWtStep == hpc = "fc_body" /\ hpc' = "idle"
PeerStopsWaiting == <>[][~FcWtStep]_vars

\* A transfer ends, whatever else the peer and the bus do: echoes and flow controls
\* that never come, come late or ask for what is not possible.
TransferEnds == PeerStopsWaiting => (tx_state \in Busy ~> tx_state \in GaveUp)

\* Every sendmsg() call returns, of a caller that waits for its PDU or for the one
\* of somebody else, and isotp_release() completes: no wake up is lost.
WaitersReturn ==
  PeerStopsWaiting =>
    /\ \A s \in Senders : pc[s] # "out" ~> pc[s] = "out"
    /\ rpc = "closing" ~> rpc = "done"
=============================================================================
