--------------------------------- MODULE Bcm ---------------------------------
(***************************************************************************)
(* The broadcast manager (net/can/bcm.c): a socket with one cyclic         *)
(* transmission (tx_op) and one content filter (rx_op, a receiver of       *)
(* CanRx).  Requests of the user hold the socket's lock; beside them run   *)
(* the handlers of the hrtimers (soft mode) and receptions.  All are cut   *)
(* where they can see each other's changes.                                *)
(*                                                                         *)
(* Intervals are zero or not, time passes by itself.  Left out are the     *)
(* content of transmitted frames, multiplex filters and RTR replies.       *)
(***************************************************************************)
EXTENDS CanRx

CONSTANTS
  BcmSock,  \* the socket
  TxOp,     \* Deferred: the memory of the operations,
  RxOp,     \* this one also an owner of receivers,
  Sync,     \* and synchronize_rcu()
  TxReqs,   \* what TX_SETUP may ask for: [flags, nframes, count, ival1, ival2]
  RxReqs,   \* what RX_SETUP may ask for: [flags, ival1, ival2]
  BcmFilter, BcmDev

\* The flags of a request that change what an operation does.
Flags == {"SETTIMER", "STARTTIMER", "TX_ANNOUNCE", "TX_RESET_MULTI_IDX",
          "RX_FILTER_ID", "RX_NO_AUTOTIMER", "RX_ANNOUNCE_RESUME"}

ASSUME BcmAssumption ==
  /\ BcmSock \in Socks /\ RxOp \in Owners \ Socks
  /\ {TxOp, RxOp, Sync} \subseteq Deferred /\ Cardinality({TxOp, RxOp, Sync}) = 3
  /\ BcmFilter \in CanFilters /\ BcmDev \in Devs
  /\ TxReqs \subseteq [flags : SUBSET Flags, nframes : Nat \ {0}, count : Nat,
                      ival1 : BOOLEAN, ival2 : BOOLEAN]
  /\ RxReqs \subseteq [flags : SUBSET Flags, ival1 : BOOLEAN, ival2 : BOOLEAN]

VARIABLES
  up_mode,            \* one processor: a softirq runs to its end
  tx_op, rx_op,       \* struct bcm_op
  lcf,                \* rx_op's last_frames[0]: its RX_RECV, RX_THR and content
  kt_lastmsg,         \* "zero", "recent" (less than ival2 ago) or "old"
  timer,              \* queued hrtimers: "tx", "rx" (op->timer), "thr" (thrtimer)
  cb,                 \* where their handlers are
  bh,                 \* where bcm_rx_handler() is, by processor
  req, bpc,           \* the request of the user, and where it is
  told                \* history: the content reported last

bcmVars == <<up_mode, tx_op, rx_op, lcf, kt_lastmsg, timer, cb, bh, req, bpc, told>>

Timers == {"tx", "rx", "thr"}
NoReq == [flags |-> {}]
NoContent == [recv |-> FALSE, thr |-> FALSE, data |-> NIL]

BcmInit ==
  /\ up_mode \in BOOLEAN
  /\ tx_op = [state |-> "none", flags |-> {}, nframes |-> 1, currframe |-> 0, count |-> 0,
              ival1 |-> FALSE, ival2 |-> FALSE]
  /\ rx_op = [state |-> "none", flags |-> {}, known |-> FALSE, ival1 |-> FALSE, ival2 |-> FALSE]
  /\ lcf = NoContent /\ kt_lastmsg = "zero" /\ timer = {} /\ cb = [t \in Timers |-> "off"]
  /\ bh = [c \in Cpus |-> "none"] /\ req = NoReq /\ bpc = "idle" /\ told = NIL

-----------------------------------------------------------------------------
(* Who may run, and hrtimers. *)

Softirq == Readers # {} \/ \E t \in Timers : cb[t] # "off"

\* On one processor softirqs do not interleave, and hold up the user.
MayStart == up_mode => ~Softirq

hrtimer_active(t) == t \in timer \/ cb[t] # "off"

\* Waits for the handler.
hrtimer_cancel(t) == cb[t] = "off" /\ timer' = timer \ {t}

User(from, to) ==
  /\ MayStart /\ bpc = from /\ bpc' = to
  /\ UNCHANGED <<up_mode, walk, backlog, up, cb, bh>>

Done == req' = NoReq
Goes == UNCHANGED req

Handler(t, from, to) ==
  /\ cb[t] = from /\ cb' = [cb EXCEPT ![t] = to]
  /\ UNCHANGED <<rxVars, up_mode, bh, req, bpc>>

Expire(t) ==
  /\ t \in timer /\ cb[t] = "off" /\ MayStart
  /\ timer' = timer \ {t} /\ cb' = [cb EXCEPT ![t] = "start"]
  /\ UNCHANGED <<rxVars, up_mode, tx_op, rx_op, lcf, kt_lastmsg, bh, req, bpc, told>>

-----------------------------------------------------------------------------
(* Transmission. *)

TxVarsRest == UNCHANGED <<rx_op, lcf, kt_lastmsg, told>>

\* "reached last frame?"
Wrapped(op) == IF op.currframe + 1 >= op.nframes THEN 0 ELSE op.currframe + 1

\* bcm_can_tx(), after can_send(), under bcm_tx_lock; without a device or an skb
\* nothing is counted.
bcm_can_tx ==
  \/ tx_op' = [tx_op EXCEPT !.currframe = Wrapped(tx_op), !.count = IF @ > 0 THEN @ - 1 ELSE 0]
  \/ UNCHANGED tx_op

\* Only the count keeps the timer going.
bcm_tx_set_expiry_bug == tx_op.ival1 /\ tx_op.count > 0

\* Which interval is next, if any: ival1 while there is a count, then ival2.
bcm_tx_set_expiry == (tx_op.ival1 /\ tx_op.count > 0) \/ tx_op.ival2

\* bcm_tx_timeout_handler(): which interval, is there a frame to send?
TxTimeout ==
  /\ Handler("tx", "start", IF bcm_tx_set_expiry THEN "send" ELSE "expiry")
  /\ UNCHANGED <<tx_op, timer>> /\ TxVarsRest

\* The frame is out; TX_EXPIRED if that ended the count.
TxTimeoutSent ==
  /\ Handler("tx", "send", "expiry")
  /\ bcm_can_tx /\ UNCHANGED timer /\ TxVarsRest

TxTimeoutExpiry ==
  /\ Handler("tx", "expiry", "off")
  /\ timer' = IF bcm_tx_set_expiry THEN timer \cup {"tx"} ELSE timer
  /\ UNCHANGED tx_op /\ TxVarsRest

\* Where bcm_tx_setup() goes on, having done the steps up to `at'.
TxNext(at) ==
  LET f == req.flags
  IN CASE at = "lock" /\ "SETTIMER" \in f -> "tx_ival1"
       [] at = "ival" /\ ~req.ival1 /\ ~req.ival2 -> "tx_zero"
       [] at \in {"lock", "ival", "zero"} /\ "STARTTIMER" \in f -> "tx_cancel"
       [] at \in {"lock", "ival", "zero"} /\ "TX_ANNOUNCE" \in f -> "tx_announce"
       [] at = "announce" /\ "STARTTIMER" \in f -> "tx_start"
       [] OTHER -> "idle"

TxGoto(from, to) ==
  /\ User(from, to) /\ IF to = "idle" THEN Done ELSE Goes
  /\ UNCHANGED <<rcv, waits, refs>> /\ TxVarsRest

\* TX_SETUP of a new operation.
TxCreate ==
  /\ tx_op.state = "none" /\ up[BcmDev]
  /\ \E r \in TxReqs :
       /\ req' = r
       /\ tx_op' = [tx_op EXCEPT !.state = "on", !.flags = r.flags, !.nframes = r.nframes,
                                 !.count = IF "SETTIMER" \in r.flags THEN r.count ELSE 0]
  /\ User("idle", "tx_new")
  /\ UNCHANGED <<rcv, waits, refs, timer>> /\ TxVarsRest

\* The operation is in the list.
TxCreated ==
  /\ TxGoto("tx_new", TxNext("lock")) /\ UNCHANGED <<tx_op, timer>>

\* TX_SETUP of the operation there is, with no more frames than it has.
TxUpdate ==
  /\ tx_op.state = "on" /\ up[BcmDev]
  /\ \E r \in TxReqs :
       /\ r.nframes <= tx_op.nframes /\ req' = r
       /\ tx_op' = [tx_op EXCEPT !.flags = r.flags]
  /\ User("idle", "tx_lock")
  /\ UNCHANGED <<rcv, waits, refs, timer>> /\ TxVarsRest

\* The number of frames changes, the index stays.
Resized_bug(op) == [op EXCEPT !.nframes = req.nframes]

\* "potentially update changed nframes, restart multiple frame transmission"
Resized(op) == [op EXCEPT !.nframes = req.nframes, !.currframe = 0]

TxUpdateLocked ==
  /\ TxGoto("tx_lock", TxNext("lock"))
  /\ LET op == IF tx_op.nframes # req.nframes \/ "TX_RESET_MULTI_IDX" \in req.flags
               THEN Resized(tx_op) ELSE tx_op
     IN tx_op' = [op EXCEPT !.count = IF "SETTIMER" \in req.flags THEN req.count ELSE @]
  /\ UNCHANGED timer

TxIval1 ==
  /\ TxGoto("tx_ival1", "tx_ival2")
  /\ tx_op' = [tx_op EXCEPT !.ival1 = req.ival1] /\ UNCHANGED timer

TxIval2 ==
  /\ TxGoto("tx_ival2", TxNext("ival"))
  /\ tx_op' = [tx_op EXCEPT !.ival2 = req.ival2] /\ UNCHANGED timer

\* "disable an active timer due to zero values?"
TxZero ==
  /\ TxGoto("tx_zero", TxNext("zero")) /\ hrtimer_cancel("tx") /\ UNCHANGED tx_op

TxCancel ==
  /\ TxGoto("tx_cancel", "tx_announce") /\ hrtimer_cancel("tx") /\ UNCHANGED tx_op

TxAnnounce ==
  /\ TxGoto("tx_announce", TxNext("announce")) /\ bcm_can_tx /\ UNCHANGED timer

\* bcm_tx_start_timer()
TxStart ==
  /\ TxGoto("tx_start", "idle")
  /\ timer' = IF bcm_tx_set_expiry THEN timer \cup {"tx"} ELSE timer
  /\ UNCHANGED tx_op

\* TX_DELETE: off the list, then bcm_remove_op().
TxDelete ==
  /\ tx_op.state = "on" /\ up[BcmDev] /\ TxGoto("idle", "tx_remove")
  /\ UNCHANGED <<tx_op, timer>>

TxRemove ==
  /\ TxGoto("tx_remove", "idle")
  /\ hrtimer_cancel("tx") /\ tx_op' = [tx_op EXCEPT !.state = "deleted"]

TxStep ==
  \/ TxTimeout \/ TxTimeoutSent \/ TxTimeoutExpiry
  \/ TxCreated \/ TxUpdateLocked \/ TxIval1 \/ TxIval2 \/ TxZero \/ TxCancel \/ TxAnnounce
  \/ TxStart \/ TxRemove

-----------------------------------------------------------------------------
(* Reception: bcm_rx_handler(), on processor c. *)

Receiving(c, from, to) ==
  /\ Callee(c) = RxOp /\ bh[c] = from /\ bh' = [bh EXCEPT ![c] = to]
  /\ IF to = "none" THEN Returned(c) ELSE UNCHANGED walk
  /\ UNCHANGED <<rcv, waits, refs, backlog, up, up_mode, tx_op, rx_op, cb, req, bpc>>

\* The frame type is checked, the timeout disabled.
BcmRcv(c) ==
  /\ Callee(c) = RxOp
  /\ \/ /\ walk[c].frame.kind = "CC"
        /\ Receiving(c, "none", "compare") /\ hrtimer_cancel("rx")
     \/ /\ walk[c].frame.kind # "CC"
        /\ Receiving(c, "none", "none") /\ UNCHANGED timer
  /\ UNCHANGED <<lcf, kt_lastmsg, told>>

\* bcm_rx_cmp_to_index(); the content is stored "and throttled by default".
BcmRcvCompare(c) ==
  LET changed == "RX_FILTER_ID" \in rx_op.flags \/ ~lcf.recv \/ lcf.data # walk[c].frame.data
  IN /\ Callee(c) = RxOp
     /\ Receiving(c, "compare", IF changed THEN "update" ELSE "start")
     /\ lcf' = IF changed THEN [recv |-> TRUE, thr |-> TRUE, data |-> walk[c].frame.data] ELSE lcf
     /\ UNCHANGED <<kt_lastmsg, timer, told>>

\* The flag stays set.
bcm_rx_changed_bug == told' = lcf.data /\ UNCHANGED lcf

\* bcm_rx_changed(): reported, so no longer throttled.
bcm_rx_changed == lcf' = [lcf EXCEPT !.thr = FALSE] /\ told' = lcf.data

\* The rest of bcm_rx_update_and_send(): with throttling, a second frame inside
\* the period only starts the timer.
BcmRcvUpdate(c) ==
  /\ Receiving(c, "update", "start")
  /\ \/ ~rx_op.ival2 /\ bcm_rx_changed /\ UNCHANGED <<kt_lastmsg, timer>>
     \/ rx_op.ival2 /\ hrtimer_active("thr") /\ UNCHANGED <<lcf, kt_lastmsg, timer, told>>
     \/ /\ rx_op.ival2 /\ ~hrtimer_active("thr") /\ kt_lastmsg = "recent"
        /\ timer' = timer \cup {"thr"}
        /\ UNCHANGED <<lcf, kt_lastmsg, told>>
     \/ /\ rx_op.ival2 /\ ~hrtimer_active("thr") /\ kt_lastmsg # "recent"
        /\ bcm_rx_changed /\ kt_lastmsg' = "recent" /\ UNCHANGED timer

\* bcm_rx_starttimer()
BcmRcvStart(c) ==
  /\ Receiving(c, "start", "none")
  /\ timer' = IF "RX_NO_AUTOTIMER" \notin rx_op.flags /\ rx_op.ival1
              THEN timer \cup {"rx"} ELSE timer
  /\ UNCHANGED <<lcf, kt_lastmsg, told>>

\* bcm_rx_timeout_handler(): "clear received CAN frames to indicate 'nothing
\* received'", unless the operation has none (nframes is 0).
RxTimeout ==
  /\ Handler("rx", "start", "off")
  /\ lcf' = IF "RX_ANNOUNCE_RESUME" \in rx_op.flags /\ "RX_FILTER_ID" \notin rx_op.flags
            THEN NoContent ELSE lcf
  /\ UNCHANGED <<tx_op, rx_op, kt_lastmsg, timer, told>>

\* bcm_rx_thr_flush()
bcm_rx_thr_flush == IF lcf.thr THEN bcm_rx_changed ELSE UNCHANGED <<lcf, told>>

\* bcm_rx_thr_handler(): a new period if something was flushed.
RxThrottle ==
  /\ Handler("thr", "start", IF lcf.thr THEN "again" ELSE "end")
  /\ bcm_rx_thr_flush /\ UNCHANGED <<tx_op, rx_op, kt_lastmsg, timer>>

RxThrottleAgain ==
  /\ Handler("thr", "again", "off")
  /\ timer' = timer \cup {"thr"} /\ UNCHANGED <<tx_op, rx_op, lcf, kt_lastmsg, told>>

RxThrottleEnd ==
  /\ Handler("thr", "end", "off")
  /\ kt_lastmsg' = "zero" /\ UNCHANGED <<tx_op, rx_op, lcf, timer, told>>

\* ival2 has passed since the last message.
BcmTime ==
  /\ kt_lastmsg = "recent" /\ MayStart /\ kt_lastmsg' = "old"
  /\ UNCHANGED <<rxVars, up_mode, tx_op, rx_op, lcf, timer, cb, bh, req, bpc, told>>

-----------------------------------------------------------------------------
(* RX_SETUP, RX_DELETE, the notifier and bcm_release(). *)

\* Where bcm_rx_setup() goes on, having done the steps up to `at'.
RxNext(at) ==
  CASE at = "set" /\ "SETTIMER" \in req.flags -> "rx_ival1"
    [] at = "ival" /\ ~req.ival1 -> "rx_zero"
    [] at \in {"ival", "zero"} -> "rx_last"
    [] at \in {"set", "flush"} /\ "STARTTIMER" \in req.flags -> "rx_start"
    [] at \in {"set", "flush", "start"} /\ ~rx_op.known -> "rx_register"
    [] OTHER -> "idle"

RxGoto(from, to) ==
  User(from, to) /\ (IF to = "idle" THEN Done ELSE Goes) /\ UNCHANGED <<waits, tx_op>>

\* A new operation.
RxCreate ==
  /\ rx_op.state = "none" /\ up[BcmDev]
  /\ \E r \in RxReqs : req' = r /\ rx_op' = [rx_op EXCEPT !.state = "on", !.flags = r.flags]
  /\ User("idle", "rx_set")
  /\ UNCHANGED <<rcv, waits, refs, tx_op, lcf, kt_lastmsg, timer, told>>

\* An update: what was received is forgotten, if there are frames to compare
\* with; an operation without frames cannot get them.
RxUpdate ==
  /\ rx_op.state = "on" /\ up[BcmDev]
  /\ \E r \in RxReqs :
       /\ "RX_FILTER_ID" \in rx_op.flags => "RX_FILTER_ID" \in r.flags
       /\ req' = r /\ lcf' = IF "RX_FILTER_ID" \in r.flags THEN lcf ELSE NoContent
  /\ User("idle", "rx_flags")
  /\ UNCHANGED <<rcv, waits, refs, tx_op, rx_op, kt_lastmsg, timer, told>>

RxSet ==
  /\ \/ RxGoto("rx_flags", RxNext("set")) /\ rx_op' = [rx_op EXCEPT !.flags = req.flags]
     \/ RxGoto("rx_set", RxNext("set")) /\ UNCHANGED rx_op
  /\ UNCHANGED <<rcv, refs, lcf, kt_lastmsg, timer, told>>

RxIval1 ==
  /\ RxGoto("rx_ival1", "rx_ival2") /\ rx_op' = [rx_op EXCEPT !.ival1 = req.ival1]
  /\ UNCHANGED <<rcv, refs, lcf, kt_lastmsg, timer, told>>

RxIval2 ==
  /\ RxGoto("rx_ival2", RxNext("ival")) /\ rx_op' = [rx_op EXCEPT !.ival2 = req.ival2]
  /\ UNCHANGED <<rcv, refs, lcf, kt_lastmsg, timer, told>>

\* "disable an active timer due to zero value?"
RxZero ==
  /\ RxGoto("rx_zero", RxNext("zero")) /\ hrtimer_cancel("rx")
  /\ UNCHANGED <<rcv, refs, rx_op, lcf, kt_lastmsg, told>>

\* "cancel the throttle timer, flush potentially blocked msgs and reset
\* throttle handling"
RxLast ==
  /\ RxGoto("rx_last", "rx_throttle") /\ kt_lastmsg' = "zero"
  /\ UNCHANGED <<rcv, refs, rx_op, lcf, timer, told>>

RxCancel ==
  /\ RxGoto("rx_throttle", "rx_flush") /\ hrtimer_cancel("thr")
  /\ UNCHANGED <<rcv, refs, rx_op, lcf, kt_lastmsg, told>>

RxFlush ==
  /\ RxGoto("rx_flush", RxNext("flush")) /\ bcm_rx_thr_flush
  /\ UNCHANGED <<rcv, refs, rx_op, kt_lastmsg, timer>>

RxStart ==
  /\ RxGoto("rx_start", RxNext("start"))
  /\ timer' = IF rx_op.ival1 THEN timer \cup {"rx"} ELSE timer
  /\ UNCHANGED <<rcv, refs, rx_op, lcf, kt_lastmsg, told>>

\* The registration may fail; "this bcm rx op is broken -> remove it".
RxRegister ==
  /\ rx_op' = [rx_op EXCEPT !.known = TRUE]
  /\ \/ RxGoto("rx_register", "idle") /\ can_rx_register(BcmDev, BcmFilter, RxOp)
     \/ RxGoto("rx_register", "rx_remove") /\ UNCHANGED rcv
  /\ UNCHANGED <<refs, lcf, kt_lastmsg, timer, told>>

\* RX_DELETE: "disable automatic timer on frame reception".
RxDelete ==
  /\ rx_op.state = "on" /\ up[BcmDev]
  /\ RxGoto("idle", "rx_unreg") /\ rx_op' = [rx_op EXCEPT !.flags = @ \cup {"RX_NO_AUTOTIMER"}]
  /\ UNCHANGED <<rcv, refs, lcf, kt_lastmsg, timer, told>>

\* bcm_rx_unreg(), unless the notifier has done it.
bcm_rx_unreg ==
  /\ IF up[BcmDev] THEN can_rx_unregister(BcmDev, BcmFilter, RxOp) ELSE UNCHANGED <<rcv, refs>>
  /\ UNCHANGED <<tx_op, rx_op, lcf, kt_lastmsg, timer, told>>

RxUnreg ==
  /\ User("rx_unreg", "rx_remove") /\ Goes /\ bcm_rx_unreg /\ UNCHANGED waits

\* bcm_remove_op(): the timers, then call_rcu().
RxRemove ==
  /\ \E s \in {<<"rx_remove", "rx_remove_thr">>, <<"rel_rx", "rel_rx_thr">>} :
       User(s[1], s[2]) /\ Goes
  /\ hrtimer_cancel("rx")
  /\ UNCHANGED <<rcv, waits, refs, tx_op, rx_op, lcf, kt_lastmsg, told>>

RxRemoveThr ==
  /\ \/ User("rx_remove_thr", "idle") /\ Done /\ rx_op' = [rx_op EXCEPT !.state = "deleted"]
     \/ User("rel_rx_thr", "rel_put") /\ Goes /\ rx_op' = [rx_op EXCEPT !.state = "released"]
  /\ hrtimer_cancel("thr")
  /\ waits' = [waits EXCEPT ![RxOp] = Readers]
  /\ UNCHANGED <<rcv, refs, tx_op, lcf, kt_lastmsg, told>>

\* bcm_notify(), NETDEV_UNREGISTER of the device the socket is bound to: it is
\* no longer bound then.  It needs the socket's lock.
bcm_notify ==
  /\ bpc = "idle" /\ MayStart /\ up[BcmDev]
  /\ up' = [up EXCEPT ![BcmDev] = FALSE]
  /\ can_rx_unregister(BcmDev, BcmFilter, RxOp)
  /\ UNCHANGED <<waits, walk, backlog, bcmVars>>

bcm_release ==
  /\ User("idle", IF tx_op.state = "on" THEN "rel_tx" ELSE "rel_unreg") /\ Goes
  /\ UNCHANGED <<rcv, waits, refs, tx_op, rx_op, lcf, kt_lastmsg, timer, told>>

ReleaseTx ==
  /\ User("rel_tx", "rel_unreg") /\ Goes
  /\ hrtimer_cancel("tx") /\ tx_op' = [tx_op EXCEPT !.state = "released"]
  /\ UNCHANGED <<rcv, waits, refs, rx_op, lcf, kt_lastmsg, told>>

ReleaseUnreg ==
  /\ User("rel_unreg", IF rx_op.state = "on" THEN "rel_sync" ELSE "rel_put") /\ Goes
  /\ bcm_rx_unreg /\ UNCHANGED waits

\* The handlers under way are not waited for.
SyncWaits_bug == {}

\* synchronize_rcu()
SyncWaits == Readers

ReleaseSync ==
  /\ User("rel_sync", "rel_wait") /\ Goes
  /\ waits' = [waits EXCEPT ![Sync] = SyncWaits]
  /\ UNCHANGED <<rcv, refs, tx_op, rx_op, lcf, kt_lastmsg, timer, told>>

ReleaseSynced ==
  /\ User("rel_wait", "rel_rx") /\ Goes /\ waits[Sync] = {}
  /\ UNCHANGED <<rcv, waits, refs, tx_op, rx_op, lcf, kt_lastmsg, timer, told>>

ReleasePut ==
  /\ User("rel_put", "closed") /\ Goes /\ refs' = sock_put(BcmSock)
  /\ UNCHANGED <<rcv, waits, tx_op, rx_op, lcf, kt_lastmsg, timer, told>>

RxStep ==
  \/ RxTimeout \/ RxThrottle \/ RxThrottleAgain \/ RxThrottleEnd
  \/ RxSet \/ RxIval1 \/ RxIval2 \/ RxZero \/ RxLast \/ RxCancel \/ RxFlush \/ RxStart
  \/ RxRegister \/ RxUnreg \/ RxRemove \/ RxRemoveThr
  \/ ReleaseTx \/ ReleaseUnreg \/ ReleaseSync \/ ReleaseSynced \/ ReleasePut
  \/ \E c \in Cpus : BcmRcv(c) \/ BcmRcvCompare(c) \/ BcmRcvUpdate(c) \/ BcmRcvStart(c)

BcmStep == TxStep \/ RxStep

\* bcm_sendmsg(), and what devices and time do.
BcmTxCall == TxCreate \/ TxUpdate \/ TxDelete
BcmRxCall == RxCreate \/ RxUpdate \/ RxDelete
BcmEvent == bcm_notify \/ bcm_release \/ BcmTime \/ \E t \in Timers : Expire(t)

-----------------------------------------------------------------------------
(* Safety. *)

\* The next frame of a cyclic transmission is one of its frames, while their
\* number changes between the handler's can_send() and its update of the index.
TxIndex == tx_op.currframe < tx_op.nframes

\* A transmission set up with STARTTIMER goes on until its count is used up and
\* there is no ival2: neither the handler that ends while the operation is
\* changed nor the change that cancels it loses the timer.
TxRunning ==
  (/\ tx_op.state = "on" /\ bpc = "idle" /\ "STARTTIMER" \in tx_op.flags
   /\ (tx_op.ival1 /\ tx_op.count > 0) \/ tx_op.ival2)
    => hrtimer_active("tx")

\* Nothing runs for an operation that is freed after a grace period: its timers
\* are idle and stay so.  When receptions run beside RX_DELETE, one of them may
\* still start the throttle timer: only release() waits for them.
OpQuiet ==
  /\ tx_op.state \in {"deleted", "released"} => ~hrtimer_active("tx")
  /\ rx_op.state = "released" \/ (rx_op.state = "deleted" /\ up_mode) =>
       ~hrtimer_active("rx") /\ ~hrtimer_active("thr")
  /\ \A c \in Cpus : Callee(c) = RxOp => rx_op.state = "on" \/ c \in waits[RxOp]

\* Unless receptions and handlers run in parallel, the content stored last was
\* reported, or it is throttled and the timer that will report it runs.
ThrottledWatched ==
  up_mode /\ bpc = "idle" /\ rx_op.state = "on" /\ lcf.recv /\ ~Softirq =>
    IF lcf.thr THEN hrtimer_active("thr") ELSE told = lcf.data
=============================================================================
