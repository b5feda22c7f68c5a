---------------------------- MODULE IsotpRxProofs ----------------------------
(***************************************************************************)
(* Theorems about the receive path (IsotpRx), for every set of frames a    *)
(* peer may send, in any order, every combination of options, and whatever *)
(* release(), bind() and the notifier do meanwhile.                        *)
(*                                                                         *)
(* A component of the invariant is proved at a time: StageInv ties the     *)
(* frame at hand to the place in isotp_rcv(), WatchdogInv keeps the timer  *)
(* apart from the handlers, LengthInv follows the index into the buffer,   *)
(* QuietInv the stages of isotp_release(), and WatchInv the watchdog of a  *)
(* peer that keeps to the frame lengths.                                   *)
(***************************************************************************)
EXTENDS IsotpRx, TLAPS

\* What PDUs are called; 0 before the first.
Pdus == {0} \cup UNION {{f.pdu : f \in Envs[e].frames} : e \in DOMAIN Envs}

\* so->rx.
RxRec == [len : Nat, idx : Nat, sn : Nat, bs : Nat, ll_dl : Nat, buflen : Nat,
          pdu : Pdus, exact : BOOLEAN]

Stages == {"idle", "sf_cancel", "ff_cancel", "cf_cancel"} \cup Bodies

RxTypeOK ==
  /\ env \in DOMAIN Envs /\ opt \in Opts
  /\ bound \in BOOLEAN /\ filter \in {"on", "grace", "off"}
  /\ rx_state \in {"IDLE", "WAIT_DATA"}
  /\ rx \in RxRec
  /\ hpc \in Stages /\ (hpc # "idle" => cf \in Frames)
  /\ rxtimer \in BOOLEAN /\ cb \in {"off", "check", "reset"}
  /\ bpc \in {"idle", "register"} /\ rpc \in {"open", "unreg", "sync", "cancel", "done"}

\* The handler at work fits the frame at hand.
StageInv ==
  /\ hpc \in {"sf_cancel", "sf"} => cf.type = "SF"
  /\ hpc \in {"ff_cancel", "ff", "ff_fill"} => cf.type = "FF"
  /\ hpc \in {"cf_cancel", "cf"} => cf.type = "CF"

\* Behind hrtimer_cancel() the watchdog is off until the handler leaves.
WatchdogInv == hpc \in Bodies => cb = "off" /\ ~rxtimer

\* A byte may be added wherever a consecutive frame may be taken, and the PDU
\* fits; a first frame that is copied left room, by the tests before.
LengthInv ==
  /\ rx.idx <= rx.buflen /\ SbufLen <= rx.buflen
  /\ hpc = "ff_fill" => rx.ll_dl = cf.len /\ 8 <= cf.len /\ rx.len <= rx.buflen
  /\ hpc = "cf" \/ rx_state = "WAIT_DATA" => rx.idx < rx.buflen /\ rx.len <= rx.buflen

\* What each stage of isotp_release() has excluded for good.
QuietInv ==
  /\ rpc # "open" => bpc = "idle"
  /\ bound <=> filter = "on"
  /\ hpc # "idle" => filter # "off"
  /\ rpc \in {"sync", "cancel", "done"} => ~bound
  /\ rpc \in {"cancel", "done"} => filter = "off"
  /\ rpc = "done" => ~rxtimer /\ cb = "off"

\* Of a peer that keeps to the frame lengths no consecutive frame is dropped, so
\* that each step of a reception leaves the watchdog or a handler behind.
Attended == Watchable /\ ~opt.listen

WatchInv ==
  /\ ~Unregister /\ rpc \in {"open", "unreg"} => filter # "grace"
  /\ Attended /\ rpc = "open" =>
       /\ hpc = "cf" \/ rx_state = "WAIT_DATA" =>
            \A f \in Frames : f.type = "CF" => f.len = rx.ll_dl
       /\ rx_state = "WAIT_DATA" => hpc # "idle" \/ rxtimer \/ cb # "off"

RxInv == RxTypeOK /\ StageInv /\ WatchdogInv /\ LengthInv /\ QuietInv /\ WatchInv

-----------------------------------------------------------------------------
(* Lengths. *)

\* Of two numbers Min and Max are what they should be.
LEMMA MinMax ==
  ASSUME NEW a \in Int, NEW b \in Int
  PROVE  /\ Min({a, b}) = IF a <= b THEN a ELSE b
         /\ Max({a, b}) = IF a >= b THEN a ELSE b
<1>1. \E x \in {a, b} : \A y \in {a, b} : x <= y
  <2>1. CASE a <= b
    BY <2>1
  <2>2. CASE b <= a
    BY <2>2
  <2> QED
    BY <2>1, <2>2
<1>2. \E x \in {a, b} : \A y \in {a, b} : x >= y
  <2>1. CASE a <= b
    BY <2>1
  <2>2. CASE b <= a
    BY <2>2
  <2> QED
    BY <2>1, <2>2
<1>3. Min({a, b}) \in {a, b} /\ \A y \in {a, b} : Min({a, b}) <= y
  BY <1>1 DEF Min
<1>4. Max({a, b}) \in {a, b} /\ \A y \in {a, b} : Max({a, b}) >= y
  BY <1>2 DEF Max
<1> QED
  BY <1>3, <1>4

\* padlen() returns the length of a CAN frame.
LEMMA PadlenIsDlc == ASSUME NEW n \in Nat PROVE padlen(n) \in Dlcs
<1> DEFINE S == {d \in Dlcs : d >= n} \cup {64}
<1>1. \E x \in S : \A y \in S : x <= y
  <2>1. CASE n <= 8
    <3>1. 8 \in S /\ \A y \in S : 8 <= y
      BY <2>1 DEF Dlcs
    <3> QED
      BY <3>1
  <2>2. CASE 8 < n /\ n <= 12
    <3>1. 12 \in S /\ \A y \in S : 12 <= y
      BY <2>2 DEF Dlcs
    <3> QED
      BY <3>1
  <2>3. CASE 12 < n /\ n <= 16
    <3>1. 16 \in S /\ \A y \in S : 16 <= y
      BY <2>3 DEF Dlcs
    <3> QED
      BY <3>1
  <2>4. CASE 16 < n /\ n <= 20
    <3>1. 20 \in S /\ \A y \in S : 20 <= y
      BY <2>4 DEF Dlcs
    <3> QED
      BY <3>1
  <2>5. CASE 20 < n /\ n <= 24
    <3>1. 24 \in S /\ \A y \in S : 24 <= y
      BY <2>5 DEF Dlcs
    <3> QED
      BY <3>1
  <2>6. CASE 24 < n /\ n <= 32
    <3>1. 32 \in S /\ \A y \in S : 32 <= y
      BY <2>6 DEF Dlcs
    <3> QED
      BY <3>1
  <2>7. CASE 32 < n /\ n <= 48
    <3>1. 48 \in S /\ \A y \in S : 48 <= y
      BY <2>7 DEF Dlcs
    <3> QED
      BY <3>1
  <2>8. CASE 48 < n
    <3>1. 64 \in S /\ \A y \in S : 64 <= y
      BY <2>8 DEF Dlcs
    <3> QED
      BY <3>1
  <2> QED
    BY <2>1, <2>2, <2>3, <2>4, <2>5, <2>6, <2>7, <2>8
<1>2. padlen(n) \in S
  BY <1>1 DEF padlen, Min
<1> QED
  BY <1>2 DEF Dlcs

\* What the assumption says of a frame and of the options at hand.
LEMMA FrameShape ==
  ASSUME RxTypeOK
  PROVE  /\ opt.ae \in {0, 1} /\ opt.bs \in 0..(BsMod - 1)
         /\ BsMod \in Nat \ {0} /\ SnMod \in Nat \ {0} /\ SbufLen \in Nat /\ max_pdu_size \in Nat
         /\ \A f \in Frames :
              /\ f.len \in 0..SbufLen /\ f.len \in Nat /\ f.dl \in Nat /\ f.pdu \in Pdus
              /\ f.type \in {"SF", "FF", "CF"}
  BY RxAssumption DEF RxTypeOK, Opts, Frames, Pdus

\* Frame bytes to copy and PDU bytes missing: the smaller number is copied.
LEMMA SmallerOfBoth ==
  ASSUME NEW r \in Int, NEW l \in Int
  PROVE  LET n == Min({Max({0, r}), Max({1, l})}) IN n \in Nat /\ (n <= 1 \/ n <= l)
<1> DEFINE room == Max({0, r})
           left == Max({1, l})
<1>1. room = IF 0 >= r THEN 0 ELSE r
  BY MinMax
<1>2. left = IF 1 >= l THEN 1 ELSE l
  BY MinMax
<1> HIDE DEF room, left
<1>3. room \in Nat /\ left \in Nat /\ left \in {1, l}
  BY <1>1, <1>2
<1>4. Min({room, left}) = IF room <= left THEN room ELSE left
  BY <1>3, MinMax
<1>5. Min({room, left}) \in Nat /\ (Min({room, left}) <= 1 \/ Min({room, left}) <= l)
  BY <1>3, <1>4
<1> QED
  BY <1>5 DEF room, left

\* isotp_rcv_cf() adds at most the rest of the PDU, or a single byte.
LEMMA CopiedBytes ==
  ASSUME RxTypeOK, hpc = "cf"
  PROVE  /\ CfCopied \in Nat
         /\ rx.idx + CfCopied <= rx.idx + 1 \/ rx.idx + CfCopied <= rx.len
<1>1. cf.len \in Nat /\ opt.ae \in {0, 1} /\ rx.len \in Nat /\ rx.idx \in Nat
  BY FrameShape DEF RxTypeOK, RxRec
<1>2. cf.len - opt.ae - 1 \in Int /\ rx.len - rx.idx \in Int
  BY <1>1
<1>3. CfCopied \in Nat /\ (CfCopied <= 1 \/ CfCopied <= rx.len - rx.idx)
  BY <1>2, SmallerOfBoth DEF CfCopied, CfRoom
<1> QED
  BY <1>1, <1>3
-----------------------------------------------------------------------------
(* Types. *)

LEMMA TypesInit == Init => RxTypeOK
<1>1. SbufLen \in Nat /\ 0 \in Pdus
  BY RxAssumption DEF Pdus
<1>2. Init => rx \in RxRec
  BY <1>1 DEF Init, RxRec
<1> QED
  BY <1>2 DEF Init, RxTypeOK, Stages

\* The environment stays as it was found.
LEMMA SameEnv ==
  ASSUME [Next]_vars
  PROVE  env' = env /\ opt' = opt /\ Opts' = Opts /\ Frames' = Frames
<1>1. env' = env /\ opt' = opt
  BY DEF Next, SoftirqStep, TimerStep, ReleaseNext, isotp_rcv, Cancel, RcvSf, RcvFf, FfFill,
     isotp_send_fc, CfDrop, CfWrongSn, CfLast, CfNext, Expire, TimeoutCheck, TimeoutReset,
     BindCheck, BindRegister, NetdevUnregister, NetdevDown, GracePeriodEnds, isotp_recvmsg,
     FcTaken, Release, ReleaseUnregister, ReleaseSync, ReleaseCancel, sockVars, vars
<1> QED
  BY <1>1 DEF Opts, Frames

\* isotp_rcv_ff() and isotp_rcv_cf() keep the types of so->rx.
LEMMA RxFields ==
  ASSUME RxTypeOK, RcvFf \/ FfFill \/ isotp_send_fc \/ CfLast \/ CfNext,
         hpc = "ff_fill" => rx.ll_dl = cf.len /\ 8 <= cf.len
  PROVE  rx' \in RxRec
<1>1. CASE RcvFf
  <2>1. cf \in Frames /\ cf.len \in Nat /\ cf.dl \in Nat
    BY <1>1, FrameShape DEF RcvFf, RxTypeOK
  <2>2. padlen(cf.len) \in Nat
    BY <2>1, PadlenIsDlc DEF Dlcs
  <2>3. BufLens(cf.dl) \subseteq Nat
    BY FrameShape DEF BufLens, RxTypeOK, RxRec
  <2> QED
    BY ZenonT(40), <1>1, <2>1, <2>2, <2>3 DEF RcvFf, RxTypeOK, RxRec
<1>2. CASE FfFill
  <2>1. cf \in Frames /\ cf.len \in Nat /\ cf.pdu \in Pdus /\ opt.ae \in {0, 1}
    BY <1>2, FrameShape DEF FfFill, RxTypeOK
  <2>2. rx.ll_dl - FfPcilen(opt, cf) \in Nat
    BY <1>2, <2>1 DEF FfFill, FfPcilen
  <2>3. 1 % SnMod \in Nat
    BY FrameShape
  <2> QED
    BY <1>2, <2>1, <2>2, <2>3 DEF FfFill, RxTypeOK, RxRec, Continues
<1>3. CASE isotp_send_fc
  BY <1>3 DEF isotp_send_fc, RxTypeOK, RxRec
<1>4. CASE CfLast \/ CfNext
  <2>1. rx.idx + CfCopied \in Nat
    BY <1>4, CopiedBytes DEF CfLast, CfNext, CfTaken, RxTypeOK, RxRec
  <2>2. (rx.sn + 1) % SnMod \in Nat /\ (rx.bs + 1) % BsMod \in Nat
    BY FrameShape DEF RxTypeOK, RxRec
  <2> QED
    BY <1>4, <2>1, <2>2 DEF CfLast, CfNext, RxAfterCf, BsAfterCf, RxTypeOK, RxRec, Continues
<1> QED
  BY <1>1, <1>2, <1>3, <1>4

\* Every step keeps the types.
LEMMA TypesStep == RxTypeOK /\ LengthInv /\ [Next]_vars => RxTypeOK'
<1> SUFFICES ASSUME RxTypeOK, LengthInv, [Next]_vars PROVE RxTypeOK'
  OBVIOUS
<1> USE SameEnv DEF RxTypeOK, Stages, Bodies, Goto, Leave, sockVars, recvVars, stepVars, timerVars
<1>1. CASE \E f \in Frames : isotp_rcv(f)
  BY <1>1, FrameShape DEF isotp_rcv
<1>2. CASE Cancel \/ RcvSf
  BY <1>2 DEF Cancel, RcvSf, hrtimer_cancel
<1>3. CASE RcvFf \/ FfFill \/ isotp_send_fc \/ CfLast \/ CfNext
  <2>1. rx' \in RxRec
    BY <1>3, RxFields DEF LengthInv
  <2> QED
    BY ZenonT(40), <1>3, <2>1 DEF RcvFf, FfFill, isotp_send_fc, CfTaken, CfLast, CfNext
<1>4. CASE CfDrop \/ CfWrongSn
  BY <1>4 DEF CfDrop, CfWrongSn
<1>5. CASE Expire \/ TimerStep
  BY <1>5 DEF Expire, TimerStep, TimeoutCheck, TimeoutReset
<1>6. CASE BindCheck \/ BindRegister \/ NetdevUnregister \/ NetdevDown \/ GracePeriodEnds
  BY <1>6 DEF BindCheck, BindRegister, NetdevUnregister, NetdevDown, GracePeriodEnds, Unbind
<1>7. CASE isotp_recvmsg \/ FcTaken
  BY <1>7 DEF isotp_recvmsg, FcTaken
<1>8. CASE Release \/ ReleaseNext
  BY <1>8 DEF Release, ReleaseNext, ReleaseUnregister, ReleaseSync, ReleaseCancel, Unbind,
     hrtimer_cancel
<1>9. CASE UNCHANGED vars
  BY <1>9 DEF vars
<1> QED
  BY <1>1, <1>2, <1>3, <1>4, <1>5, <1>6, <1>7, <1>8, <1>9 DEF Next, SoftirqStep
-----------------------------------------------------------------------------
(* The inductive invariant. *)

LEMMA StageStep == RxTypeOK /\ StageInv /\ [Next]_vars => StageInv'
<1> SUFFICES ASSUME RxTypeOK, StageInv, [Next]_vars PROVE StageInv'
  OBVIOUS
<1> USE DEF StageInv, Goto, Leave, sockVars, stepVars
<1>1. CASE \E f \in Frames : isotp_rcv(f)
  BY <1>1, FrameShape DEF isotp_rcv
<1>2. CASE SoftirqStep
  BY <1>2 DEF SoftirqStep, Cancel, RcvSf, RcvFf, FfFill, isotp_send_fc, CfDrop, CfWrongSn,
     CfLast, CfNext, CfTaken
<1>3. CASE UNCHANGED stepVars
  BY <1>3
<1> QED
  BY <1>1, <1>2, <1>3 DEF Next, Expire, TimerStep, TimeoutCheck, TimeoutReset, BindCheck,
     BindRegister, NetdevUnregister, NetdevDown, GracePeriodEnds, isotp_recvmsg, FcTaken,
     Release, ReleaseNext, ReleaseUnregister, ReleaseSync, ReleaseCancel, vars

\* A body is entered behind hrtimer_cancel(); whoever starts the watchdog in
\* one, isotp_send_fc() or isotp_rcv_cf(), leaves with that.
LEMMA WatchdogStep == RxTypeOK /\ WatchdogInv /\ [Next]_vars => WatchdogInv'
<1> SUFFICES ASSUME RxTypeOK, WatchdogInv, [Next]_vars PROVE WatchdogInv'
  OBVIOUS
<1> USE DEF WatchdogInv, Bodies, Goto, Leave, sockVars, stepVars, timerVars
<1>1. CASE \E f \in Frames : isotp_rcv(f)
  BY <1>1, FrameShape DEF isotp_rcv
<1>2. CASE SoftirqStep
  BY <1>2 DEF SoftirqStep, Cancel, RcvSf, RcvFf, FfFill, isotp_send_fc, CfDrop, CfWrongSn,
     CfLast, CfNext, CfTaken, hrtimer_cancel
<1>3. CASE Expire \/ TimerStep \/ ReleaseNext
  BY <1>3 DEF Expire, TimerStep, TimeoutCheck, TimeoutReset, ReleaseNext, ReleaseUnregister,
     ReleaseSync, ReleaseCancel, hrtimer_cancel
<1>4. CASE UNCHANGED <<hpc, cf, rxtimer, cb>>
  BY <1>4
<1> QED
  BY <1>1, <1>2, <1>3, <1>4 DEF Next, BindCheck, BindRegister, NetdevUnregister, NetdevDown,
     GracePeriodEnds, isotp_recvmsg, FcTaken, Release, vars

\* The index stays within the buffer: a first frame is shorter than rx.sbuf, a
\* consecutive one ends with the PDU or one byte behind the index.
LEMMA LengthStep == RxTypeOK /\ LengthInv /\ [Next]_vars => LengthInv'
<1> SUFFICES ASSUME RxTypeOK, LengthInv, [Next]_vars PROVE LengthInv'
  OBVIOUS
<1>0. /\ rx.idx \in Nat /\ rx.len \in Nat /\ rx.buflen \in Nat /\ rx.ll_dl \in Nat
      /\ SbufLen \in Nat
  BY FrameShape DEF RxTypeOK, RxRec
<1>1. CASE RcvFf
  <2>1. cf.len \in Nat /\ cf.dl \in Nat /\ max_pdu_size \in Nat
    BY <1>1, FrameShape DEF RcvFf, RxTypeOK
  <2>2. \A b \in BufLens(cf.dl) : b \in Nat /\ rx.buflen <= b
    BY <1>0, <2>1 DEF BufLens
  <2>3. ~FfMalformed(opt, cf) => 8 <= cf.len
    BY <2>1, PadlenIsDlc DEF FfMalformed, Dlcs
  <2>4. CASE FfMalformed(opt, cf)
    BY <1>0, <1>1, <2>4 DEF RcvFf, LengthInv, Leave, RxTypeOK, RxRec
  <2>5. CASE ~FfMalformed(opt, cf)
    <3>1. PICK b \in BufLens(cf.dl) :
            /\ hpc' = IF TooLong(cf.dl, b) THEN "fc_ovflw" ELSE "ff_fill"
            /\ rx' = [rx EXCEPT !.ll_dl = cf.len, !.len = cf.dl, !.buflen = b]
      BY <1>1, <2>5 DEF RcvFf, Goto
    <3>2. rx'.idx = rx.idx /\ rx'.ll_dl = cf.len /\ rx'.len = cf.dl /\ rx'.buflen = b
      BY <3>1 DEF RxTypeOK, RxRec
    <3>3. cf' = cf /\ rx_state' = "IDLE"
      BY <1>1, <2>5 DEF RcvFf, Goto
    <3> QED
      BY <1>0, <2>1, <2>2, <2>3, <2>5, <3>1, <3>2, <3>3 DEF LengthInv, TooLong
  <2> QED
    BY <2>4, <2>5
<1>2. CASE FfFill
  <2>1. cf.len \in Nat /\ cf.len <= SbufLen /\ opt.ae \in {0, 1}
    BY <1>2, FrameShape DEF FfFill, RxTypeOK
  <2>2. rx.ll_dl = cf.len /\ 2 <= FfPcilen(opt, cf) /\ FfPcilen(opt, cf) \in Nat
    BY <1>2, <2>1 DEF FfFill, LengthInv, FfPcilen
  <2>3. rx.ll_dl - FfPcilen(opt, cf) < rx.buflen
    BY <1>0, <2>1, <2>2 DEF LengthInv
  <2> QED
    BY <1>0, <1>2, <2>2, <2>3 DEF FfFill, LengthInv, Goto, Leave, RxTypeOK, RxRec
<1>3. CASE isotp_send_fc
  BY <1>0, <1>3 DEF isotp_send_fc, LengthInv, Leave, sockVars, RxTypeOK, RxRec
<1>4. CASE CfLast \/ CfNext
  <2>1. hpc = "cf"
    BY <1>4 DEF CfLast, CfNext, CfTaken
  <2>2. RxAfterCf.idx = rx.idx + CfCopied /\ RxAfterCf.len = rx.len /\ RxAfterCf.buflen = rx.buflen
    BY DEF RxAfterCf, RxTypeOK, RxRec
  <2>3. RxAfterCf.idx \in Nat /\ RxAfterCf.idx <= rx.buflen
    BY <1>0, <2>1, <2>2, CopiedBytes DEF LengthInv
  <2>4. rx'.idx = RxAfterCf.idx /\ rx'.len = rx.len /\ rx'.buflen = rx.buflen
    BY <1>4, <2>2 DEF CfLast, CfNext, RxAfterCf, RxTypeOK, RxRec
  <2>5. CASE CfLast
    BY <1>0, <2>1, <2>3, <2>4, <2>5 DEF CfLast, LengthInv, Leave
  <2>6. CASE CfNext
    <3>1. rx'.idx < rx.len
      BY <2>4, <2>6 DEF CfNext
    <3>2. hpc' \in {"idle", "fc_cts"}
      BY <2>6 DEF CfNext, Goto, Leave
    <3> QED
      BY <1>0, <2>1, <2>3, <2>4, <3>1, <3>2 DEF LengthInv
  <2> QED
    BY <1>4, <2>5, <2>6
<1>5. CASE \/ \E f \in Frames : isotp_rcv(f)
           \/ Cancel \/ RcvSf \/ CfDrop \/ CfWrongSn
  BY <1>0, <1>5, FrameShape DEF isotp_rcv, Cancel, RcvSf, CfDrop, CfWrongSn, LengthInv, Goto, Leave,
     recvVars
<1>6. CASE UNCHANGED stepVars /\ UNCHANGED rx /\ rx_state' \in {rx_state, "IDLE"}
  BY <1>6 DEF LengthInv, stepVars
<1> QED
  BY <1>1, <1>2, <1>3, <1>4, <1>5, <1>6 DEF Next, SoftirqStep, Expire, TimerStep, TimeoutCheck,
     TimeoutReset, BindCheck, BindRegister, NetdevUnregister, NetdevDown, GracePeriodEnds,
     isotp_recvmsg, FcTaken, Release, ReleaseNext, ReleaseUnregister, ReleaseSync, ReleaseCancel,
     recvVars, vars

\* bind() and release() exclude each other, and release() goes on only when the
\* filter, then the reception, then the timer is gone.
LEMMA QuietStep == RxTypeOK /\ QuietInv /\ [Next]_vars => QuietInv'
<1> SUFFICES ASSUME RxTypeOK, QuietInv, [Next]_vars PROVE QuietInv'
  OBVIOUS
<1> USE DEF RxTypeOK, QuietInv, Goto, Leave, sockVars, stepVars, timerVars
<1>1. CASE \E f \in Frames : isotp_rcv(f)
  BY <1>1, FrameShape DEF isotp_rcv
<1>2. CASE SoftirqStep
  <2>1. hpc # "idle" /\ UNCHANGED <<bound, filter, bpc, rpc>>
    BY <1>2 DEF SoftirqStep, Cancel, RcvSf, RcvFf, FfFill, isotp_send_fc, CfDrop, CfWrongSn,
       CfLast, CfNext, CfTaken
  <2> QED
    BY <2>1
<1>3. CASE Expire \/ TimerStep
  BY <1>3 DEF Expire, TimerStep, TimeoutCheck, TimeoutReset
<1>4. CASE BindCheck \/ BindRegister \/ NetdevUnregister \/ NetdevDown \/ GracePeriodEnds
  BY <1>4 DEF BindCheck, BindRegister, NetdevUnregister, NetdevDown, GracePeriodEnds, Notified,
     Unbind
<1>5. CASE isotp_recvmsg \/ FcTaken
  BY <1>5 DEF isotp_recvmsg, FcTaken
<1>6. CASE Release \/ ReleaseNext
  BY <1>6 DEF Release, ReleaseNext, ReleaseUnregister, ReleaseSync, ReleaseCancel, Unbind,
     hrtimer_cancel
<1>7. CASE UNCHANGED vars
  BY <1>7 DEF vars
<1> QED
  BY <1>1, <1>2, <1>3, <1>4, <1>5, <1>6, <1>7 DEF Next
\* A reception of an attended socket goes on only where isotp_send_fc() or
\* isotp_rcv_cf() starts the watchdog.
LEMMA WatchStep == RxInv /\ [Next]_vars => WatchInv'
<1> SUFFICES ASSUME RxInv, [Next]_vars PROVE WatchInv'
  OBVIOUS
<1> USE DEF RxInv
<1>1. (~Unregister /\ rpc \in {"open", "unreg"} => filter # "grace")'
  <2>1. Unregister' = Unregister
    BY SameEnv DEF Unregister
  <2>2. CASE SoftirqStep \/ TimerStep \/ Expire \/ NetdevDown \/ isotp_recvmsg \/ FcTaken
             \/ BindCheck \/ \E f \in Frames : isotp_rcv(f)
    BY <2>1, <2>2 DEF WatchInv, SoftirqStep, Cancel, RcvSf, RcvFf, FfFill, isotp_send_fc, CfDrop,
       CfWrongSn, CfLast, CfNext, TimerStep, TimeoutCheck, TimeoutReset, Expire, NetdevDown,
       isotp_recvmsg, FcTaken, BindCheck, isotp_rcv, sockVars
  <2>3. CASE BindRegister \/ NetdevUnregister \/ GracePeriodEnds \/ Release \/ ReleaseNext
    BY <2>1, <2>3 DEF WatchInv, BindRegister, NetdevUnregister, Notified, GracePeriodEnds, Release,
       ReleaseNext, ReleaseUnregister, ReleaseSync, ReleaseCancel
  <2>4. CASE UNCHANGED vars
    BY <2>1, <2>4 DEF WatchInv, vars, sockVars
  <2> QED
    BY <2>2, <2>3, <2>4 DEF Next
<1>2. SUFFICES ASSUME Attended', rpc' = "open"
      PROVE  /\ (hpc = "cf" \/ rx_state = "WAIT_DATA" =>
                   \A f \in Frames : f.type = "CF" => f.len = rx.ll_dl)'
             /\ (rx_state = "WAIT_DATA" => hpc # "idle" \/ rxtimer \/ cb # "off")'
  BY <1>1 DEF WatchInv
<1>3. Attended /\ Frames' = Frames /\ ~opt.listen /\ ~Faults /\ Envs[env].regular /\ ~Unregister
  BY <1>2, SameEnv DEF Attended, Watchable, Unregister, Faults
<1>4. rpc = "open"
  BY <1>2 DEF Next, SoftirqStep, TimerStep, isotp_rcv, Cancel, RcvSf, RcvFf, FfFill,
     isotp_send_fc, CfDrop, CfWrongSn, CfLast, CfNext, Expire, TimeoutCheck, TimeoutReset,
     BindCheck, BindRegister, NetdevUnregister, NetdevDown, GracePeriodEnds, isotp_recvmsg,
     FcTaken, Release, ReleaseNext, ReleaseUnregister, ReleaseSync, ReleaseCancel, sockVars, vars
<1> DEFINE Same   == hpc = "cf" \/ rx_state = "WAIT_DATA" =>
                       \A f \in Frames : f.type = "CF" => f.len = rx.ll_dl
           Guarded == rx_state = "WAIT_DATA" => hpc # "idle" \/ rxtimer \/ cb # "off"
<1>5. Same /\ Guarded
  BY <1>3, <1>4 DEF WatchInv
<1> SUFFICES Same' /\ Guarded'
  OBVIOUS
<1>6. CASE (\E f \in Frames : isotp_rcv(f)) \/ Cancel
  <2>1. UNCHANGED recvVars /\ hpc' \in Stages
    BY <1>6, FrameShape DEF isotp_rcv, Cancel, Goto, Leave, Stages, Bodies
  <2>2. Same'
    BY <1>3, <1>5, <1>6, <2>1, FrameShape DEF isotp_rcv, Cancel, Goto, Leave, recvVars
  <2>3. Guarded'
    BY <1>6, <2>1, FrameShape DEF isotp_rcv, Cancel, Goto, Leave, recvVars, RxTypeOK
  <2> QED
    BY <2>2, <2>3
<1>7. CASE RcvSf \/ RcvFf \/ CfWrongSn \/ CfLast
  BY <1>7 DEF RcvSf, RcvFf, CfWrongSn, CfLast, Goto, Leave
<1>8. CASE FfFill
  <2>1. cf \in Frames /\ cf.type = "FF" /\ rx.ll_dl = cf.len
    BY <1>8 DEF FfFill, RxTypeOK, StageInv, LengthInv
  <2>2. \A f \in Frames : f.type = "CF" => f.len = cf.len
    BY <1>3, <2>1, RxAssumption DEF Frames, RxTypeOK
  <2>3. rx'.ll_dl = rx.ll_dl /\ hpc' = "fc_cts"
    BY <1>3, <1>8 DEF FfFill, Goto, RxTypeOK, RxRec
  <2> QED
    BY <1>3, <2>1, <2>2, <2>3
<1>9. CASE isotp_send_fc
  <2>1. bound
    BY <1>3, <1>4, <1>9 DEF isotp_send_fc, QuietInv, WatchInv, RxTypeOK
  <2>2. rxtimer' /\ rx'.ll_dl = rx.ll_dl /\ rx_state' = rx_state /\ hpc' = "idle"
    BY <1>3, <1>9, <2>1 DEF isotp_send_fc, Leave, RxTypeOK, RxRec
  <2> QED
    BY <1>3, <1>5, <2>2
<1>10. ~CfDrop
  <2>1. SUFFICES ASSUME hpc = "cf" PROVE ~CfRejected
    BY DEF CfDrop
  <2>2. cf \in Frames /\ cf.type = "CF" /\ cf.len = rx.ll_dl /\ rx.ll_dl \in Nat
    BY <1>5, <2>1 DEF RxTypeOK, RxRec, StageInv
  <2> QED
    BY <2>2 DEF CfRejected, CfTooShort
<1>11. CASE CfNext
  <2>1. rx'.ll_dl = rx.ll_dl /\ rx_state' = rx_state /\ hpc = "cf"
    BY <1>11 DEF CfNext, CfTaken, RxAfterCf, RxTypeOK, RxRec
  <2>2. rxtimer' \/ hpc' = "fc_cts"
    BY <1>3, <1>11 DEF CfNext, Goto
  <2> QED
    BY <1>3, <1>5, <2>1, <2>2
<1>12. CASE Expire \/ TimerStep
  BY <1>3, <1>5, <1>12 DEF Expire, TimerStep, TimeoutCheck, TimeoutReset, recvVars, stepVars
<1>13. CASE UNCHANGED <<stepVars, timerVars, rx>> /\ rx_state' \in {rx_state, "IDLE"}
  BY <1>3, <1>5, <1>13 DEF stepVars, timerVars
<1>14. CASE ReleaseCancel
  BY <1>4, <1>14 DEF ReleaseCancel
<1> QED
  BY <1>6, <1>7, <1>8, <1>9, <1>10, <1>11, <1>12, <1>13, <1>14 DEF Next, SoftirqStep, BindCheck,
     BindRegister, NetdevUnregister, NetdevDown, GracePeriodEnds, isotp_recvmsg, FcTaken, Release,
     ReleaseNext, ReleaseUnregister, ReleaseSync, recvVars, vars

LEMMA RxInvInit == Init => RxInv
<1> SUFFICES ASSUME Init PROVE RxInv
  OBVIOUS
<1>1. RxTypeOK /\ SbufLen \in Nat
  BY TypesInit, RxAssumption
<1>2. LengthInv
  BY <1>1 DEF Init, LengthInv
<1> QED
  BY <1>1, <1>2 DEF Init, RxInv, StageInv, WatchdogInv, QuietInv, WatchInv, Bodies

LEMMA RxInvStep == RxInv /\ [Next]_vars => RxInv'
  BY TypesStep, StageStep, WatchdogStep, LengthStep, QuietStep, WatchStep DEF RxInv

-----------------------------------------------------------------------------
(* The properties. *)

\* Types, the handler at the frame, the watchdog, the lengths, the stages of
\* release(): what every step of the receive path of isotp.c keeps.
THEOREM RxInvariant == Spec => []RxInv
  BY RxInvInit, RxInvStep, PTL DEF Spec

\* isotp_rx_timer_handler() never runs beside a handler that changes so->rx: the
\* hrtimer_cancel() at the top of each of them is enough, without a lock.
THEOREM HandlersExcludeTimeout == Spec => []TimeoutExclusive
<1>1. RxInv => TimeoutExclusive
  BY DEF RxInv, WatchdogInv, TimeoutExclusive
<1> QED
  BY <1>1, RxInvariant, PTL

\* isotp_rcv_ff() and isotp_rcv_cf() write no byte behind rx.buf, whatever FF_DL
\* and frame lengths a peer sends and whichever allocation fails.
THEOREM WithinBuffer == Spec => []NoOverrun
<1>1. RxInv => NoOverrun
  BY DEF RxInv, LengthInv, NoOverrun
<1> QED
  BY <1>1, RxInvariant, PTL

\* isotp_release() leaves no timer, callback or reception behind, although the
\* notifier may have taken the filter away before.
THEOREM RxReleaseIsQuiescent == Spec => []RxReleaseQuiescent
<1>1. RxInv => RxReleaseQuiescent
  BY DEF RxInv, QuietInv, RxReleaseQuiescent
<1> QED
  BY <1>1, RxInvariant, PTL

\* With a peer that keeps to the frame lengths, nothing that fails and a socket
\* that sends flow controls, a reception that waits is always watched; what
\* isotp.c does for other peers is in the run that violates RxWatched.
THEOREM RegularIsWatched == Spec => [](Attended => RxWatched)
<1>1. RxInv => (Attended => RxWatched)
  BY DEF RxInv, WatchInv, RxWatched
<1> QED
  BY <1>1, RxInvariant, PTL
=============================================================================
