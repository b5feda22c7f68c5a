------------------------- MODULE IsotpTxFrameProofs -------------------------
(***************************************************************************)
(* The frames and the verdict of a transfer and what its caller is told:   *)
(* theorems about IsotpTx, for every value of its constants.               *)
(*                                                                         *)
(*   LapseFree             Within GenMod transfers NoLapse holds.          *)
(*   FlowInvariant         FlowInv, the inductive invariant, holds.        *)
(*   FramesOnce            No frame of a PDU is sent twice.                *)
(*   ImplementsOneAtATime  IsotpTx implements IsotpTxAbs: one transfer at  *)
(*                         a time, each with one final verdict.            *)
(*   ResultInvariant       ResultInv, the inductive invariant, holds.      *)
(*   SuccessIsSound        Success means every frame was sent.             *)
(*   SuccessIsReported     A success is lost only with its result slot.    *)
(*   WithinOneWrap         Up to GenMod transfers, all properties at once. *)
(*                                                                         *)
(* FlowInv relates tx.state to the verdict of the last transfer, and the   *)
(* frames not yet sent (todo) to the position in so->tx, to the frame that *)
(* is filled but not yet sent and to the first frame, which its caller     *)
(* sends after others may already have moved the transfer on.              *)
(* ResultInv says what a caller would read at every stage of its call.     *)
(***************************************************************************)
EXTENDS IsotpTxProofs, FiniteSetTheorems
-----------------------------------------------------------------------------
(* The invariants. *)

\* The bound of the model, kept by a guard of Sendmsg: calls on their way to a
\* transfer have one reserved.
Pending == {s \in Senders : pc[s] \in PreClaim \cup InDrain \cup {"commit"}}
Bounded == started + Cardinality(Pending) <= MaxXfer

\* A transfer runs from Commit until one context gives the verdict, and
\* tx.state tells whether one runs.
VerdictInv ==
  /\ \A s \in Senders : pc[s] \in {"publish"} \cup Builds => fate[started] = "run"
  /\ tx_state \in Busy =>
       /\ started >= 1
       /\ IF hpc = "finish" THEN fate[started] \in {"ok", "EBADMSG", "EMSGSIZE"}
                            ELSE fate[started] = "run"
  /\ tx_state = "IDLE" /\ started >= 1 /\ fate[started] = "run" =>
       \E s \in Senders : pc[s] = "publish"
  /\ \A x \in Xfers : x < started => fate[x] # "run"
  /\ \A t \in Timeouts : cb[t] = "cas" => seen[t].st \in Busy

\* What a call returns on its own account, and the size of its PDU.
LocalInv ==
  \A s \in Senders :
    /\ loc[s].err \in {"none", "EADDRNOTAVAIL", "EINTR", "EFAIL"}
    /\ pc[s] # "out" => loc[s].len >= 1
    /\ pc[s] \in {"publish"} \cup Runs => fate[loc[s].xfer] \in Results \cup {"run"}

\* so->tx and so->cfecho in a transfer: who fills the buffer still has a frame
\* to send, and the tag is that of the last frame filled.
BufferInv ==
  /\ tx_state \in Busy => tx.xfer = started \/ \E s \in Senders : pc[s] \in Builds \cup {"dropl"}
  /\ \A s \in Senders : pc[s] = "arm" => tx.len = loc[s].len /\ tx.idx = 1
  /\ tx.idx <= tx.len /\ (tx.xfer # 0 => tx.idx >= 1)
  /\ (tx_state \in WaitsForFc \/ hpc = "cframe" \/ armed["txfrtimer"]
      \/ cb["txfrtimer"] \in {"rearm", "check", "cframe"}) => tx.idx < tx.len
  /\ (hpc = "emit" \/ cb["txfrtimer"] = "emit") => tx.idx >= 2
  /\ cfecho # NoTag => cfecho = <<tx.xfer, tx.idx>> /\ tx.xfer # 0
  /\ hpc \in {"ec_body", "cframe", "emit"} => cfecho = NoTag

\* A frame that is filled but not yet handed to the device.
Filled == IF hpc = "emit" \/ cb["txfrtimer"] = "emit" THEN 1 ELSE 0

\* The frames after the first that so->tx still has to send.
Left == (tx.len - tx.idx) + Filled

\* The first frame of the buffered PDU that its caller still has to send.
First == IF \E s \in Senders : pc[s] \in {"arm", "send"} /\ loc[s].xfer = tx.xfer
         THEN 1 ELSE 0

\* No more frames are sent than the PDU has.
FrameInv ==
  /\ \A x \in Xfers : todo[x] >= 0
  /\ tx.xfer # 0 => todo[tx.xfer] >= Left + First
  /\ \A s \in Senders : pc[s] \in {"arm", "send"} => todo[loc[s].xfer] >= 1

\* The tags on the bus are those of frames already filled and sent.
EchoInv ==
  /\ \A e \in echoes : e[1] = tx.xfer => e[2] <= tx.idx - Filled
  /\ \A s \in Senders : pc[s] \in {"arm", "send"} => <<loc[s].xfer, 1>> \notin echoes

\* As long as the transfer makes progress, the frames its caller has not sent
\* are exactly those not yet filled.
Progress ==
  \/ hpc \in {"ec_cancel", "ec_body", "cframe", "emit"} \/ tx_state \in WaitsForFc
  \/ ~Dead("txfrtimer") \/ cfecho \in echoes \/ cfecho = <<tx.xfer, 1>>
Sent == {"waitdone", "sleepdone", "woken", "result"}
SentInv ==
  /\ \A s \in Senders : pc[s] = "arm" => todo[tx.xfer] = tx.len
  /\ Progress => \A s \in Senders : loc[s].xfer = tx.xfer =>
       /\ pc[s] \in {"arm", "send"} => todo[tx.xfer] = Left + 1
       /\ pc[s] \in Sent => todo[tx.xfer] = Left

FlowInv ==
  VerdictInv /\ LocalInv /\ BufferInv /\ FrameInv /\ EchoInv /\ SentInv

\* The types the invariants need.
Tables ==
  /\ fate \in [Xfers -> Results \cup {"none", "run", "drop"}]
  /\ todo \in [Xfers -> Int]
  /\ MaxXfer \in Nat /\ started \in 0..MaxXfer /\ tx_state \in States

\* TypeOK and the bound give those types.
LEMMA TablesHold == TypeOK /\ Bounded => Tables
<1> SUFFICES ASSUME TypeOK, Bounded PROVE Tables
  OBVIOUS
<1>1. IsFiniteSet(Pending)
  BY TxSizeAssumption, FS_Subset DEF Pending
<1>2. Cardinality(Pending) \in Nat /\ MaxXfer \in Nat /\ started \in Nat
  BY <1>1, FS_CardinalityType, TxAssumption DEF TypeOK
<1>3. started \in 0..MaxXfer
  BY <1>2 DEF Bounded
<1> QED
  BY <1>2, <1>3 DEF TypeOK, Tables

\* A call on its way to a transfer has room for one.
LEMMA PendingRoom ==
  ASSUME Bounded, Numbers, MaxXfer \in Nat, NEW s \in Senders, pc[s] = "commit"
  PROVE  started + 1 <= MaxXfer
<1>1. IsFiniteSet(Pending) /\ s \in Pending
  BY TxSizeAssumption, FS_Subset DEF Pending
<1>2. Cardinality(Pending) \in Nat /\ Cardinality(Pending) # 0
  BY <1>1, FS_CardinalityType, FS_EmptySet
<1> QED
  BY <1>2 DEF Bounded, Numbers

\* A failed call only notes its error.
LEMMA FailEffect ==
  ASSUME Numbers, NEW s \in Senders, NEW e, NEW to, Fail(s, e, to)
  PROVE  \A q \in Senders :
           /\ loc'[q].xfer = loc[q].xfer /\ loc'[q].len = loc[q].len
           /\ loc'[q].gen = loc[q].gen /\ loc'[q].err \in {loc[q].err, e}
<1>1. loc \in [Senders -> LocRec] /\ loc' = [loc EXCEPT ![s] = [loc[s] EXCEPT !.err = e]]
  BY DEF Numbers, Fail
<1>2. /\ [loc[s] EXCEPT !.err = e].xfer = loc[s].xfer
      /\ [loc[s] EXCEPT !.err = e].len = loc[s].len
      /\ [loc[s] EXCEPT !.err = e].gen = loc[s].gen
      /\ [loc[s] EXCEPT !.err = e].err = e
  BY <1>1 DEF LocRec
<1> QED
  BY <1>1, <1>2

\* The fill half of isotp_send_cframe() with frames left takes one of them.
LEMMA FillEffect ==
  ASSUME Numbers, tx.idx < tx.len, NEW failed \in BOOLEAN, CframeFill(failed)
  PROVE  /\ tx'.xfer = tx.xfer /\ tx'.len = tx.len
         /\ tx'.idx = IF failed THEN tx.idx ELSE tx.idx + 1
  BY ZenonT(40) DEF Numbers, TxRec, CframeFill

\* Flow control sets the pace, not the position.
LEMMA FcEffect ==
  ASSUME Numbers, FcStatus
  PROVE  tx'.xfer = tx.xfer /\ tx'.len = tx.len /\ tx'.idx = tx.idx
<1>1. PICK f \in Flows : tx' = [FcParms(f) EXCEPT !.bs = 0] \/ tx' = FcParms(f)
  BY DEF FcStatus
<1>2. FcParms(f).xfer = tx.xfer /\ FcParms(f).len = tx.len /\ FcParms(f).idx = tx.idx
  BY DEF FcParms, Numbers, TxRec
<1> QED
  BY <1>1, <1>2 DEF FcParms, Numbers, TxRec

\* Every step of a sendmsg() caller preserves FlowInv.
LEMMA SenderFlow ==
  ASSUME TypeOK, ShutdownInv, NoLapse, TransferInv, Bounded, FlowInv,
         NEW s \in Senders, Sendmsg(s) \/ SendStep(s) \/ Interrupted(s)
  PROVE  FlowInv'
<1> USE DEF bindVars, sockVars, lockVars, timerVars, callVars, histVars
<1>1. Shape /\ Numbers /\ Tables /\ NoLapse /\ Bounded /\ LockInv /\ StateInv /\ GenInv
      /\ XferInv /\ TagInv /\ OwnerInv /\ BuildInv /\ PhaseInv /\ WatchInv /\ VerdictInv
      /\ LocalInv /\ BufferInv /\ FrameInv /\ EchoInv /\ SentInv
  BY ShapeHolds, NumbersHold, TablesHold DEF ShutdownInv, TransferInv, FlowInv
<1>2. ASSUME Sendmsg(s) PROVE FlowInv'
  <2>1. VerdictInv'
    BY <1>1, <1>2 DEF Builds, Busy, CallbackPCs, Filling, Gens, Goto, InDrain,
       InEvDrain, Numbers, PreClaim, Results, SeenRec, SenderPCs, Sendmsg, Shape,
       States, Tables, Timeouts, Timers, TxErrs, VerdictInv, Xfers
  <2>2. LocalInv'
    <3>1. PICK n \in Frames[s] :
            loc' = [loc EXCEPT ![s] = [xfer |-> 0, gen |-> 0, len |-> n, err |-> "none"]]
      BY <1>2 DEF Sendmsg
    <3>2. n \in Nat /\ n >= 1
      BY TxAssumption
    <3>3. /\ loc'[s].err = "none" /\ loc'[s].len = n
          /\ \A q \in Senders : q # s => loc'[q] = loc[q] /\ pc'[q] = pc[q]
          /\ pc'[s] = "claim" /\ fate' = fate
      BY <1>1, <1>2, <3>1 DEF Sendmsg, Goto, Shape, Numbers
    <3>4. "claim" \notin {"publish"} \cup Runs
      BY DEF Runs
    <3> QED
      BY <1>1, <3>2, <3>3, <3>4 DEF LocalInv
  <2>3. BufferInv'
    BY <1>1, <1>2 DEF BufferInv, Builds, Busy, CallbackPCs, Filling, Gens, Goto,
       InDrain, InEvDrain, NoTag, Numbers, PreClaim, Results, SeenRec, SenderPCs,
       Sendmsg, Shape, States, Tables, Timeouts, Timers, TxErrs, WaitsForFc, Xfers
  <2>4. FrameInv'
    BY <1>1, <1>2 DEF CallbackPCs, Filled, Filling, First, FrameInv, Gens, Goto,
       InDrain, InEvDrain, Left, Numbers, PreClaim, Results, SeenRec, SenderPCs,
       Sendmsg, Shape, States, Tables, Timeouts, Timers, TxErrs, Xfers
  <2>5. EchoInv'
    <3>1. /\ \A q \in Senders : pc'[q] \in {"arm", "send"} => pc[q] = pc'[q] /\ loc'[q] = loc[q]
          /\ UNCHANGED <<tx, hpc, cb, echoes>>
      BY <1>1, <1>2 DEF Sendmsg, Goto, Shape, Numbers
    <3>2. Filled' = Filled
      BY <3>1 DEF Filled
    <3> QED
      BY <1>1, <3>1, <3>2 DEF EchoInv
  <2>6. SentInv'
    BY <1>1, <1>2 DEF CallbackPCs, Dead, Filled, Filling, Gens, Goto, InDrain,
       InEvDrain, Left, Numbers, PreClaim, Progress, Results, SeenRec, SenderPCs,
       Sendmsg, Sent, SentInv, Shape, States, Tables, Timeouts, Timers, TxErrs,
       WaitsForFc, Xfers
  <2> QED
    BY <2>1, <2>2, <2>3, <2>4, <2>5, <2>6 DEF FlowInv
<1>3. ASSUME Interrupted(s) PROVE FlowInv'
  <2>1. \A q \in Senders :
          /\ loc'[q].xfer = loc[q].xfer /\ loc'[q].len = loc[q].len
          /\ loc'[q].err \in {loc[q].err, "EINTR"}
    BY <1>1, <1>3, FailEffect DEF Interrupted
  <2>2. /\ pc[s] \in {"asleep", "sleepdone"} /\ pc'[s] \in {"out", "evdrop"}
        /\ \A q \in Senders : q # s => pc'[q] = pc[q]
        /\ UNCHANGED <<tx, tx_state, hpc, armed, cb, cfecho, echoes, todo, fate, started>>
        /\ pc'[s] = "evdrop" => pc[s] = "sleepdone"
    BY <1>1, <1>3 DEF Interrupted, Shape, Goto, Fail, Return
  <2>3. First' = First /\ Left' = Left /\ (Progress' => Progress)
    BY <2>1, <2>2 DEF First, Left, Filled, Progress, Dead
  <2>4. VerdictInv'
    BY <1>1, <1>3 DEF Builds, Busy, CallbackPCs, Fail, Filling, Gens, Goto, InDrain,
       InEvDrain, Interrupted, Numbers, PreClaim, Results, Return, SeenRec, SenderPCs,
       Shape, States, Tables, Timeouts, Timers, TxErrs, VerdictInv, Xfers
  <2>5. LocalInv'
    BY <1>1, <2>1, <2>2 DEF LocalInv, Begun, Builds, Ends, Runs, InEvDrain, Sent
  <2>6. BufferInv'
    BY <1>1, <2>1, <2>2 DEF BufferInv, Builds
  <2>7. FrameInv'
    BY <1>1, <2>1, <2>2, <2>3 DEF FrameInv
  <2>8. EchoInv'
    BY <1>1, <1>3 DEF CallbackPCs, EchoInv, Fail, Filled, Filling, Gens, Goto,
       InDrain, InEvDrain, Interrupted, Numbers, PreClaim, Results, Return, SeenRec,
       SenderPCs, Shape, States, Tables, Timeouts, Timers, TxErrs, Xfers
  <2>9. SentInv'
    BY <1>1, <2>1, <2>2, <2>3 DEF SentInv, Sent
  <2> QED
    BY <2>4, <2>5, <2>6, <2>7, <2>8, <2>9 DEF FlowInv
<1>4. ASSUME Claim(s) PROVE FlowInv'
  <2>1. VerdictInv'
    BY <1>1, <1>4 DEF Builds, Busy, CallbackPCs, Claim, Drains, Filling, Gens, Goto,
       InDrain, InEvDrain, Numbers, PreClaim, Results, SeenRec, SenderPCs, Shape,
       States, Tables, Timeouts, Timers, TxErrs, VerdictInv, Xfers
  <2>2. LocalInv'
    BY <1>1, <1>4 DEF CallbackPCs, Claim, Drains, Filling, Gens, Goto, InDrain,
       InEvDrain, LocalInv, Numbers, PreClaim, Results, Runs, SeenRec, SenderPCs,
       Shape, States, Tables, Timeouts, Timers, TxErrs, Xfers
  <2>3. BufferInv'
    BY <1>1, <1>4 DEF BufferInv, Builds, Busy, CallbackPCs, Claim, Drains, Filling,
       Gens, Goto, InDrain, InEvDrain, NoTag, Numbers, PreClaim, Results, SeenRec,
       SenderPCs, Shape, States, Tables, Timeouts, Timers, TxErrs, WaitsForFc, Xfers
  <2>4. FrameInv'
    BY <1>1, <1>4 DEF CallbackPCs, Claim, Drains, Filled, Filling, First, FrameInv,
       Gens, Goto, InDrain, InEvDrain, Left, Numbers, PreClaim, Results, SeenRec,
       SenderPCs, Shape, States, Tables, Timeouts, Timers, TxErrs, Xfers
  <2>5. EchoInv'
    BY <1>1, <1>4 DEF CallbackPCs, Claim, Drains, EchoInv, Filled, Filling, Gens,
       Goto, InDrain, InEvDrain, Numbers, PreClaim, Results, SeenRec, SenderPCs,
       Shape, States, Tables, Timeouts, Timers, TxErrs, Xfers
  <2>6. SentInv'
    BY <1>1, <1>4 DEF CallbackPCs, Claim, Dead, Drains, Filled, Filling, Gens, Goto,
       InDrain, InEvDrain, Left, Numbers, PreClaim, Progress, Results, SeenRec,
       SenderPCs, Sent, SentInv, Shape, States, Tables, Timeouts, Timers, TxErrs,
       WaitsForFc, Xfers
  <2> QED
    BY <2>1, <2>2, <2>3, <2>4, <2>5, <2>6 DEF FlowInv
<1>5. ASSUME ClaimBusy(s) PROVE FlowInv'
  <2>1. VerdictInv'
    BY <1>1, <1>5 DEF Builds, Busy, CallbackPCs, ClaimBusy, Filling, Gens, Goto,
       InDrain, InEvDrain, Numbers, PreClaim, Results, Return, SeenRec, SenderPCs,
       Shape, States, Tables, Timeouts, Timers, TxErrs, VerdictInv, Xfers
  <2>2. LocalInv'
    BY <1>1, <1>5 DEF CallbackPCs, ClaimBusy, Filling, Gens, Goto, InDrain, InEvDrain,
       LocalInv, Numbers, PreClaim, Results, Return, Runs, SeenRec, SenderPCs, Shape,
       States, Tables, Timeouts, Timers, TxErrs, Xfers
  <2>3. BufferInv'
    BY <1>1, <1>5 DEF BufferInv, Builds, Busy, CallbackPCs, ClaimBusy, Filling, Gens,
       Goto, InDrain, InEvDrain, NoTag, Numbers, PreClaim, Results, Return, SeenRec,
       SenderPCs, Shape, States, Tables, Timeouts, Timers, TxErrs, WaitsForFc, Xfers
  <2>4. FrameInv'
    BY <1>1, <1>5 DEF CallbackPCs, ClaimBusy, Filled, Filling, First, FrameInv, Gens,
       Goto, InDrain, InEvDrain, Left, Numbers, PreClaim, Results, Return, SeenRec,
       SenderPCs, Shape, States, Tables, Timeouts, Timers, TxErrs, Xfers
  <2>5. EchoInv'
    BY <1>1, <1>5 DEF CallbackPCs, ClaimBusy, EchoInv, Filled, Filling, Gens, Goto,
       InDrain, InEvDrain, Numbers, PreClaim, Results, Return, SeenRec, SenderPCs,
       Shape, States, Tables, Timeouts, Timers, TxErrs, Xfers
  <2>6. SentInv'
    BY <1>1, <1>5 DEF CallbackPCs, ClaimBusy, Dead, Filled, Filling, Gens, Goto,
       InDrain, InEvDrain, Left, Numbers, PreClaim, Progress, Results, Return,
       SeenRec, SenderPCs, Sent, SentInv, Shape, States, Tables, Timeouts, Timers,
       TxErrs, WaitsForFc, Xfers
  <2> QED
    BY <2>1, <2>2, <2>3, <2>4, <2>5, <2>6 DEF FlowInv
<1>6. ASSUME WaitIdle(s) PROVE FlowInv'
  <2>1. VerdictInv'
    BY <1>1, <1>6 DEF Builds, Busy, CallbackPCs, Filling, GaveUp, Gens, Goto, InDrain,
       InEvDrain, Numbers, PreClaim, Results, SeenRec, SenderPCs, Shape, States,
       Tables, Timeouts, Timers, TxErrs, VerdictInv, WaitIdle, Xfers
  <2>2. LocalInv'
    BY <1>1, <1>6 DEF CallbackPCs, Filling, GaveUp, Gens, Goto, InDrain, InEvDrain,
       LocalInv, Numbers, PreClaim, Results, Runs, SeenRec, SenderPCs, Shape, States,
       Tables, Timeouts, Timers, TxErrs, WaitIdle, Xfers
  <2>3. BufferInv'
    BY <1>1, <1>6 DEF BufferInv, Builds, Busy, CallbackPCs, Filling, GaveUp, Gens,
       Goto, InDrain, InEvDrain, NoTag, Numbers, PreClaim, Results, SeenRec,
       SenderPCs, Shape, States, Tables, Timeouts, Timers, TxErrs, WaitIdle,
       WaitsForFc, Xfers
  <2>4. FrameInv'
    BY <1>1, <1>6 DEF CallbackPCs, Filled, Filling, First, FrameInv, GaveUp, Gens,
       Goto, InDrain, InEvDrain, Left, Numbers, PreClaim, Results, SeenRec, SenderPCs,
       Shape, States, Tables, Timeouts, Timers, TxErrs, WaitIdle, Xfers
  <2>5. EchoInv'
    BY <1>1, <1>6 DEF CallbackPCs, EchoInv, Filled, Filling, GaveUp, Gens, Goto,
       InDrain, InEvDrain, Numbers, PreClaim, Results, SeenRec, SenderPCs, Shape,
       States, Tables, Timeouts, Timers, TxErrs, WaitIdle, Xfers
  <2>6. SentInv'
    BY <1>1, <1>6 DEF CallbackPCs, Dead, Filled, Filling, GaveUp, Gens, Goto, InDrain,
       InEvDrain, Left, Numbers, PreClaim, Progress, Results, SeenRec, SenderPCs,
       Sent, SentInv, Shape, States, Tables, Timeouts, Timers, TxErrs, WaitIdle,
       WaitsForFc, Xfers
  <2> QED
    BY <2>1, <2>2, <2>3, <2>4, <2>5, <2>6 DEF FlowInv
<1>7. ASSUME Drain(s) PROVE FlowInv'
  <2>1. VerdictInv'
    BY <1>1, <1>7 DEF Builds, Busy, CallbackPCs, Drain, DrainOrder, Drains, EvDrains,
       Filling, Gens, Goto, InDrain, InEvDrain, Numbers, PreClaim, Results, SeenRec,
       SenderPCs, Shape, States, Tables, Timeouts, Timers, TxErrs, VerdictInv, Xfers,
       hrtimer_cancel
  <2>2. LocalInv'
    BY <1>1, <1>7 DEF CallbackPCs, Drain, DrainOrder, Drains, EvDrains, Filling, Gens,
       Goto, InDrain, InEvDrain, LocalInv, Numbers, PreClaim, Results, Runs, SeenRec,
       SenderPCs, Shape, States, Tables, Timeouts, Timers, TxErrs, Xfers,
       hrtimer_cancel
  <2>3. BufferInv'
    BY <1>1, <1>7 DEF BufferInv, Builds, Busy, CallbackPCs, Drain, DrainOrder, Drains,
       EvDrains, Filling, Gens, Goto, InDrain, InEvDrain, NoTag, Numbers, PreClaim,
       Results, SeenRec, SenderPCs, Shape, States, Tables, Timeouts, Timers, TxErrs,
       WaitsForFc, Xfers, hrtimer_cancel
  <2>4. FrameInv'
    BY <1>1, <1>7 DEF CallbackPCs, Drain, DrainOrder, Drains, EvDrains, Filled,
       Filling, First, FrameInv, Gens, Goto, InDrain, InEvDrain, Left, Numbers,
       PreClaim, Results, SeenRec, SenderPCs, Shape, States, Tables, Timeouts, Timers,
       TxErrs, Xfers, hrtimer_cancel
  <2>5. EchoInv'
    BY <1>1, <1>7 DEF CallbackPCs, Drain, DrainOrder, Drains, EchoInv, EvDrains,
       Filled, Filling, Gens, Goto, InDrain, InEvDrain, Numbers, PreClaim, Results,
       SeenRec, SenderPCs, Shape, States, Tables, Timeouts, Timers, TxErrs, Xfers,
       hrtimer_cancel
  <2>6. SentInv'
    BY <1>1, <1>7 DEF CallbackPCs, Dead, Drain, DrainOrder, Drains, EvDrains, Filled,
       Filling, Gens, Goto, InDrain, InEvDrain, Left, Numbers, PreClaim, Progress,
       Results, SeenRec, SenderPCs, Sent, SentInv, Shape, States, Tables, Timeouts,
       Timers, TxErrs, WaitsForFc, Xfers, hrtimer_cancel
  <2> QED
    BY <2>1, <2>2, <2>3, <2>4, <2>5, <2>6 DEF FlowInv
<1>8. ASSUME Commit(s) PROVE FlowInv'
  <2>1. /\ pc[s] = "commit" /\ pc' = [pc EXCEPT ![s] = "publish"] /\ tx_state = "IDLE"
        /\ started' = started + 1 /\ fate' = [fate EXCEPT ![started + 1] = "run"]
        /\ UNCHANGED <<tx_state, hpc, tx, cb, seen>>
    BY <1>1, <1>8 DEF Commit, Goto, StateInv
  <2>2. started + 1 \in Xfers
    BY <1>1, <2>1, PendingRoom DEF Tables, Xfers
  <2>3. /\ pc'[s] = "publish" /\ loc'[s].xfer = started' /\ loc'[s].len = loc[s].len
        /\ loc'[s].err = loc[s].err
        /\ \A q \in Senders : q # s => pc'[q] = pc[q] /\ loc'[q] = loc[q]
    BY <1>1, <1>8, <2>1 DEF Commit, Shape, Numbers, LocRec
  <2>4. /\ \A q \in Senders : pc[q] \notin {"publish"} \cup Builds
        /\ \A q \in Senders : pc[q] \in Begun => loc[q].xfer # started'
    BY <1>1, <2>1 DEF OwnerInv, Claims, Builds, InDrain, GenInv, Numbers
  <2>5. fate'[started'] = "run" /\ \A x \in Xfers : x # started' => fate'[x] = fate[x]
    BY <1>1, <2>1, <2>2 DEF Tables
  <2>6. VerdictInv'
    <3>1. \A x \in Xfers : x < started' => fate'[x] # "run"
      <4>1. started >= 1 => fate[started] # "run"
        BY <1>1, <2>1, <2>4 DEF VerdictInv, Tables, Xfers
      <4> QED
        BY <1>1, <2>1, <2>5, <4>1 DEF VerdictInv, Tables, Xfers
    <3> QED
      BY <1>1, <2>1, <2>3, <2>4, <2>5, <3>1 DEF VerdictInv, Busy
  <2>7. LocalInv'
    <3>1. \A q \in Senders : pc[q] \in Runs => loc[q].xfer \in Xfers
      BY <1>1 DEF GenInv, Tables, Xfers, Begun
    <3> QED
      BY <1>1, <2>1, <2>3, <2>4, <2>5, <3>1 DEF LocalInv, Begun
  <2>8. BufferInv'
    BY <1>1, <1>8, <2>1, <2>3, <2>4 DEF BufferInv, Commit, Busy, Builds, WaitsForFc
  <2>9. FrameInv'
    BY <1>1, <1>8 DEF CallbackPCs, Commit, Filled, Filling, First, FrameInv, Gens,
       Goto, InDrain, InEvDrain, Left, Numbers, PreClaim, Results, SeenRec, SenderPCs,
       Shape, Slot, States, Tables, Timeouts, Timers, TxErrs, Xfers, isotp_inc_tx_gen,
       isotp_set_tx_result
  <2>10. EchoInv'
    BY <1>1, <1>8 DEF CallbackPCs, Commit, EchoInv, Filled, Filling, Gens, Goto,
       InDrain, InEvDrain, Numbers, PreClaim, Results, SeenRec, SenderPCs, Shape,
       Slot, States, Tables, Timeouts, Timers, TxErrs, Xfers, isotp_inc_tx_gen,
       isotp_set_tx_result
  <2>11. SentInv'
    BY <1>1, <1>8 DEF CallbackPCs, Commit, Dead, Filled, Filling, Gens, Goto, InDrain,
       InEvDrain, Left, Numbers, PreClaim, Progress, Results, SeenRec, SenderPCs,
       Sent, SentInv, Shape, Slot, States, Tables, Timeouts, Timers, TxErrs,
       WaitsForFc, Xfers, isotp_inc_tx_gen, isotp_set_tx_result
  <2> QED
    BY <2>6, <2>7, <2>8, <2>9, <2>10, <2>11 DEF FlowInv
<1>9. ASSUME Publish(s) PROVE FlowInv'
  <2>1. VerdictInv'
    BY <1>1, <1>9 DEF Begun, BuildInv, Builds, Busy, CallbackPCs, Claims, Dead, Ends,
       Filling, GenInv, Gens, Goto, InDrain, InEvDrain, LockInv, Locked, NoTag,
       Numbers, OwnerInv, PhaseInv, PreClaim, Publish, Results, Runs, SeenRec,
       SenderPCs, Shape, StateInv, States, Tables, Timeouts, Timers, TxErrs, TxHrt,
       VerdictInv, WaitsForFc, WatchInv, Xfers
  <2>2. LocalInv'
    BY <1>1, <1>9 DEF CallbackPCs, Filling, Gens, Goto, InDrain, InEvDrain, LocalInv,
       NoTag, Numbers, PreClaim, Publish, Results, Runs, SeenRec, SenderPCs, Shape,
       States, Tables, Timeouts, Timers, TxErrs, Xfers
  <2>3. BufferInv'
    BY <1>1, <1>9 DEF BufferInv, Builds, Busy, CallbackPCs, Filling, Gens, Goto,
       InDrain, InEvDrain, NoTag, Numbers, PreClaim, Publish, Results, SeenRec,
       SenderPCs, Shape, States, Tables, Timeouts, Timers, TxErrs, WaitsForFc, Xfers
  <2>4. FrameInv'
    BY <1>1, <1>9 DEF CallbackPCs, Filled, Filling, First, FrameInv, Gens, Goto,
       InDrain, InEvDrain, Left, NoTag, Numbers, PreClaim, Publish, Results, SeenRec,
       SenderPCs, Shape, States, Tables, Timeouts, Timers, TxErrs, Xfers
  <2>5. EchoInv'
    BY <1>1, <1>9 DEF CallbackPCs, EchoInv, Filled, Filling, Gens, Goto, InDrain,
       InEvDrain, NoTag, Numbers, PreClaim, Publish, Results, SeenRec, SenderPCs,
       Shape, States, Tables, Timeouts, Timers, TxErrs, Xfers
  <2>6. SentInv'
    BY <1>1, <1>9 DEF Begun, BufferInv, BuildInv, Builds, Busy, CallbackPCs, Dead,
       EchoInv, Ends, Filled, Filling, First, FrameInv, GenInv, Gens, Goto, InDrain,
       InEvDrain, Left, NoTag, Numbers, PhaseInv, PreClaim, Progress, Publish,
       Results, Runs, SeenRec, SenderPCs, Sent, SentInv, Shape, States, Tables,
       TagInv, Timeouts, Timers, TxErrs, TxHrt, WaitsForFc, XferInv, Xfers
  <2> QED
    BY <2>1, <2>2, <2>3, <2>4, <2>5, <2>6 DEF FlowInv
<1>10. ASSUME Recheck(s) PROVE FlowInv'
  <2>1. \A q \in Senders :
          /\ loc'[q].xfer = loc[q].xfer /\ loc'[q].len = loc[q].len
          /\ loc'[q].err \in {loc[q].err, "EADDRNOTAVAIL"}
    BY <1>1, <1>10, FailEffect DEF Recheck
  <2>2. /\ pc[s] \in {"fill"} /\ pc'[s] \in {"build", "drop"}
        /\ \A q \in Senders : q # s => pc'[q] = pc[q]
        /\ UNCHANGED <<tx, tx_state, hpc, armed, cb, cfecho, echoes, todo, fate, started>>
    BY <1>1, <1>10 DEF Recheck, Shape, Goto, Fail, Return
  <2>3. First' = First /\ Left' = Left /\ (Progress' => Progress)
    BY <2>1, <2>2 DEF First, Left, Filled, Progress, Dead
  <2>4. VerdictInv'
    BY <1>1, <1>10 DEF Builds, Busy, CallbackPCs, Fail, Filling, Gens, Goto, InDrain,
       InEvDrain, Numbers, PreClaim, Recheck, Results, SeenRec, SenderPCs, Shape,
       States, Tables, Timeouts, Timers, TxErrs, VerdictInv, Xfers
  <2>5. LocalInv'
    BY <1>1, <2>1, <2>2 DEF LocalInv, Begun, Builds, Ends, Runs, InEvDrain, Sent
  <2>6. BufferInv'
    BY <1>1, <2>1, <2>2 DEF BufferInv, Builds
  <2>7. FrameInv'
    BY <1>1, <2>1, <2>2, <2>3 DEF FrameInv
  <2>8. EchoInv'
    BY <1>1, <1>10 DEF CallbackPCs, EchoInv, Fail, Filled, Filling, Gens, Goto,
       InDrain, InEvDrain, Numbers, PreClaim, Recheck, Results, SeenRec, SenderPCs,
       Shape, States, Tables, Timeouts, Timers, TxErrs, Xfers
  <2>9. SentInv'
    BY <1>1, <2>1, <2>2, <2>3 DEF SentInv, Sent
  <2> QED
    BY <2>4, <2>5, <2>6, <2>7, <2>8, <2>9 DEF FlowInv
<1>11. ASSUME BuildFails(s) PROVE FlowInv'
  <2>1. VerdictInv'
    BY <1>1, <1>11 DEF BuildFails, Builds, Busy, CallbackPCs, Fail, Filling, Gens,
       Goto, InDrain, InEvDrain, Numbers, PreClaim, Results, SeenRec, SenderPCs,
       Shape, States, Tables, Timeouts, Timers, TxErrs, VerdictInv, Xfers
  <2>2. LocalInv'
    BY <1>1, <1>11 DEF BuildFails, CallbackPCs, Fail, Filling, Gens, Goto, InDrain,
       InEvDrain, LocalInv, Numbers, PreClaim, Results, Runs, SeenRec, SenderPCs,
       Shape, States, Tables, Timeouts, Timers, TxErrs, Xfers
  <2>3. BufferInv'
    BY <1>1, <1>11 DEF BufferInv, BuildFails, Builds, Busy, CallbackPCs, Fail,
       Filling, Gens, Goto, InDrain, InEvDrain, NoTag, Numbers, PreClaim, Results,
       SeenRec, SenderPCs, Shape, States, Tables, Timeouts, Timers, TxErrs,
       WaitsForFc, Xfers
  <2>4. FrameInv'
    BY <1>1, <1>11 DEF BuildFails, CallbackPCs, Fail, Filled, Filling, First,
       FrameInv, Gens, Goto, InDrain, InEvDrain, Left, Numbers, PreClaim, Results,
       SeenRec, SenderPCs, Shape, States, Tables, Timeouts, Timers, TxErrs, Xfers
  <2>5. EchoInv'
    BY <1>1, <1>11 DEF BuildFails, CallbackPCs, EchoInv, Fail, Filled, Filling, Gens,
       Goto, InDrain, InEvDrain, Numbers, PreClaim, Results, SeenRec, SenderPCs,
       Shape, States, Tables, Timeouts, Timers, TxErrs, Xfers
  <2>6. SentInv'
    BY <1>1, <1>11 DEF BuildFails, CallbackPCs, Dead, Fail, Filled, Filling, Gens,
       Goto, InDrain, InEvDrain, Left, Numbers, PreClaim, Progress, Results, SeenRec,
       SenderPCs, Sent, SentInv, Shape, States, Tables, Timeouts, Timers, TxErrs,
       WaitsForFc, Xfers
  <2> QED
    BY <2>1, <2>2, <2>3, <2>4, <2>5, <2>6 DEF FlowInv
<1>12. ASSUME Build(s) PROVE FlowInv'
  <2>1. /\ tx'.xfer = loc[s].xfer /\ tx'.len = loc[s].len /\ tx'.idx = 1
        /\ cfecho' \in {NoTag, <<loc[s].xfer, 1>>}
        /\ todo' = [todo EXCEPT ![loc[s].xfer] = loc[s].len]
        /\ pc[s] = "build" /\ pc' = [pc EXCEPT ![s] = "arm"]
        /\ UNCHANGED <<tx_state, hpc, armed, cb, echoes, fate, started, loc>>
    BY <1>1, <1>12 DEF Build, Goto, Numbers, TxRec
  <2>2. loc[s].xfer = started /\ started \in Xfers /\ started # 0
    BY <1>1, <2>1 DEF GenInv, Tables, Xfers, Begun, Builds
  <2>3. /\ tx_state \in {"SENDING", "SHUTDOWN"} /\ hpc = "idle" /\ \A t \in Timers : Dead(t)
        /\ loc[s].len \in Nat /\ loc[s].len >= 1
    BY <1>1, <2>1 DEF BuildInv, Builds, LocalInv, Numbers, LocRec
  <2>4. /\ pc'[s] = "arm" /\ \A q \in Senders : q # s => pc'[q] = pc[q]
        /\ \A q \in Senders : q # s /\ pc[q] \in Begun => loc[q].xfer # started
        /\ \A q \in Senders : q # s => pc[q] \notin Builds
    BY <1>1, <2>1, <2>2 DEF XferInv, OwnerInv, Begun, Builds, Shape
  <2>5. Left' = loc[s].len - 1 /\ First' = 1
    BY <2>1, <2>2, <2>3, <2>4 DEF Left, Filled, First, Dead, Timers
  <2>6. todo'[started] = loc[s].len /\ \A y \in Xfers : y # started => todo'[y] = todo[y]
    BY <1>1, <2>1, <2>2 DEF Tables
  <2>7. VerdictInv'
    BY <1>1, <1>12 DEF Build, Builds, Busy, CallbackPCs, Filling, Gens, Goto, InDrain,
       InEvDrain, NoTag, Numbers, PreClaim, Results, SeenRec, SenderPCs, Shape,
       States, Tables, Timeouts, Timers, TxErrs, VerdictInv, Xfers
  <2>8. LocalInv'
    BY <1>1, <1>12 DEF Build, CallbackPCs, Filling, Gens, Goto, InDrain, InEvDrain,
       LocalInv, NoTag, Numbers, PreClaim, Results, Runs, SeenRec, SenderPCs, Shape,
       States, Tables, Timeouts, Timers, TxErrs, Xfers
  <2>9. BufferInv'
    <3>1. \A q \in Senders : pc'[q] = "arm" => q = s
      BY <2>4 DEF Builds
    <3> QED
      BY <1>1, <2>1, <2>2, <2>3, <3>1 DEF BufferInv, WaitsForFc, Busy, Dead, Timers
  <2>10. FrameInv'
    <3>1. \A q \in Senders : pc'[q] \in {"arm", "send"} =>
            q = s \/ (loc[q].xfer \in Xfers /\ loc[q].xfer # started /\ pc[q] \in {"arm", "send"})
      BY <1>1, <2>4 DEF GenInv, Tables, Xfers, Begun, Builds, Runs
    <3> QED
      BY <1>1, <2>1, <2>2, <2>3, <2>5, <2>6, <3>1 DEF FrameInv
  <2>11. EchoInv'
    BY <1>1, <1>12 DEF Begun, BufferInv, Build, BuildInv, Builds, Busy, CallbackPCs,
       Dead, EchoInv, Ends, Filled, Filling, GenInv, Gens, Goto, InDrain, InEvDrain,
       NoTag, Numbers, PhaseInv, PreClaim, Results, Runs, SeenRec, SenderPCs, Shape,
       States, Tables, TagInv, Timeouts, Timers, TxErrs, TxHrt, WaitsForFc, XferInv,
       Xfers
  <2>12. SentInv'
    <3>1. \A q \in Senders : pc'[q] \in {"arm", "send"} \cup Sent /\ loc[q].xfer = started => q = s
      BY <2>4 DEF Begun, Builds, Runs, Sent
    <3>2. \A q \in Senders : pc'[q] = "arm" => q = s
      BY <2>4 DEF Builds
    <3> QED
      BY <2>1, <2>2, <2>3, <2>4, <2>5, <2>6, <3>1, <3>2 DEF SentInv, Sent
  <2> QED
    BY <2>7, <2>8, <2>9, <2>10, <2>11, <2>12 DEF FlowInv
<1>13. ASSUME Arm(s) PROVE FlowInv'
  <2>1. /\ pc[s] = "arm" /\ pc'[s] \in {"out", "send"}
        /\ UNCHANGED <<tx, cfecho, todo, echoes, hpc, cb, fate, loc, started>>
    BY <1>1, <1>13 DEF Arm, Goto, ReturnAndWake, Shape, Woken
  <2>2. \A q \in Senders : q # s =>
          \/ pc'[q] = pc[q]
          \/ pc[q] = "asleep" /\ pc'[q] = "wait"
          \/ pc[q] = "sleepdone" /\ pc'[q] = "waitdone"
    BY <1>1, <1>13, WokenStages DEF Arm, Goto, ReturnAndWake, Shape, Woken
  <2>3. /\ loc[s].xfer = started /\ tx.xfer = started /\ started \in Xfers /\ started # 0
        /\ tx.len = loc[s].len /\ tx.idx = 1 /\ loc[s].len \in Nat /\ loc[s].len >= 1
        /\ hpc = "idle" /\ \A t \in Timers : Dead(t)
    BY <1>1, <2>1 DEF GenInv, BuildInv, BufferInv, LocalInv, Tables, Xfers, Numbers, LocRec,
       Begun, Builds
  <2>4. /\ armed'["txfrtimer"] = FALSE
        /\ tx_state' \in WaitsForFc => tx.idx < tx.len
    BY <1>1, <1>13, <2>3 DEF Arm, TxHrt, hrtimer_start, Dead, Timers, Timeouts, Shape, WaitsForFc,
       BuildInv, Builds
  <2>5. /\ Left' = tx.len - 1 /\ Left = tx.len - 1 /\ First = 1 /\ First' \in {0, 1}
    BY <2>1, <2>3 DEF Left, Filled, First, Dead, Timers
  <2>6. \A q \in Senders : pc[q] \in Begun /\ loc[q].xfer = started => q = s
    BY <1>1, <2>1, <2>3 DEF XferInv, Begun, Builds
  <2>7. VerdictInv'
    BY <1>1, <1>13 DEF Arm, Begun, BuildInv, Builds, Busy, CallbackPCs, Claims, Dead,
       Ends, Filling, GenInv, Gens, Goto, InDrain, InEvDrain, LockInv, Locked, NoTag,
       Numbers, OwnerInv, PhaseInv, PreClaim, Results, ReturnAndWake, Runs, SeenRec,
       SenderPCs, Shape, StateInv, States, Tables, Timeouts, Timers, TxErrs, TxHrt,
       VerdictInv, WaitsForFc, WatchInv, Woken, WokenRelease, Xfers, hrtimer_start
  <2>8. LocalInv'
    <3>1. fate[loc[s].xfer] = "run"
      BY <1>1, <2>1, <2>3 DEF VerdictInv, Builds
    <3> QED
      BY <1>1, <2>1, <2>2, <3>1 DEF LocalInv, Runs
  <2>9. BufferInv'
    <3>1. \A q \in Senders : pc'[q] = "arm" => pc[q] = "arm"
      BY <2>1, <2>2
    <3> QED
      BY <1>1, <2>1, <2>3, <2>4, <3>1 DEF BufferInv, Dead, Timers
  <2>10. FrameInv'
    <3>1. \A q \in Senders : pc'[q] \in {"arm", "send"} => pc[q] \in {"arm", "send"}
      BY <2>1, <2>2
    <3> QED
      BY <1>1, <2>1, <2>3, <2>5, <3>1 DEF FrameInv, Tables
  <2>11. EchoInv'
    BY <1>1, <1>13 DEF Arm, CallbackPCs, EchoInv, Filled, Filling, Gens, Goto,
       InDrain, InEvDrain, Numbers, PreClaim, Results, ReturnAndWake, SeenRec,
       SenderPCs, Shape, States, Tables, Timeouts, Timers, TxErrs, TxHrt, Woken,
       WokenRelease, Xfers, hrtimer_start
  <2>12. SentInv'
    <3>1. \A q \in Senders : pc'[q] \in {"arm", "send"} \cup Sent /\ loc[q].xfer = started => q = s
      BY <2>1, <2>2, <2>6 DEF Begun, Builds, Runs, Sent
    <3>2. todo[tx.xfer] = tx.len
      BY <1>1, <2>1 DEF SentInv
    <3> QED
      BY <2>1, <2>3, <2>5, <3>1, <3>2 DEF SentInv, Sent
  <2> QED
    BY <2>7, <2>8, <2>9, <2>10, <2>11, <2>12 DEF FlowInv
<1>14. ASSUME Send(s) PROVE FlowInv'
  <2>1. \A q \in Senders :
          /\ loc'[q].xfer = loc[q].xfer /\ loc'[q].len = loc[q].len
          /\ loc'[q].err \in {loc[q].err, "EFAIL"}
    BY <1>1, <1>14, FailEffect DEF Send
  <2>2. /\ pc[s] \in {"send"} /\ pc'[s] \in {"waitdone", "out", "senderr"}
        /\ \A q \in Senders : q # s => pc'[q] = pc[q]
        /\ UNCHANGED <<tx, tx_state, hpc, armed, cb, cfecho, fate, started>>
    BY <1>1, <1>14 DEF Send, Shape, Goto, Fail, Return
  <2>3. \/ /\ todo' = [todo EXCEPT ![loc[s].xfer] = @ - 1] /\ pc'[s] # "senderr"
           /\ echoes' = echoes \cup {<<loc[s].xfer, 1>>}
        \/ UNCHANGED <<todo, echoes>> /\ pc'[s] = "senderr"
    BY <1>1, <1>14 DEF Send, Shape, Goto, Fail, Return
  <2>4. loc[s].xfer \in Xfers /\ loc[s].xfer # 0 /\ todo[loc[s].xfer] >= 1
    BY <1>1, <2>2 DEF GenInv, Tables, Xfers, FrameInv, Begun, Runs
  <2>5. \A q \in Senders : q # s /\ pc[q] \in Begun => loc[q].xfer # loc[s].xfer
    BY <1>1, <2>2 DEF XferInv, Begun, Runs
  <2>6. Left' = Left
    BY <2>2 DEF Left, Filled
  <2>7. /\ loc[s].xfer = tx.xfer => First = 1 /\ First' = 0
        /\ loc[s].xfer # tx.xfer => First' = First
    BY <2>1, <2>2, <2>5 DEF First, Begun, Builds, Runs
  <2>8. /\ todo'[loc[s].xfer] \in {todo[loc[s].xfer], todo[loc[s].xfer] - 1}
        /\ pc'[s] # "senderr" => todo'[loc[s].xfer] = todo[loc[s].xfer] - 1
        /\ \A y \in Xfers : y # loc[s].xfer => todo'[y] = todo[y]
    BY <1>1, <2>3, <2>4 DEF Tables
  <2>9. VerdictInv'
    BY <1>1, <1>14 DEF Builds, Busy, CallbackPCs, Fail, Filling, Gens, Goto, InDrain,
       InEvDrain, Numbers, PreClaim, Results, Return, SeenRec, Send, SenderPCs, Shape,
       States, Tables, Timeouts, Timers, TxErrs, VerdictInv, Xfers
  <2>10. LocalInv'
    BY <1>1, <2>1, <2>2 DEF LocalInv, Begun, Builds, Ends, Runs, InEvDrain, Sent
  <2>11. BufferInv'
    <3>1. \A q \in Senders : pc'[q] \in Builds \cup {"dropl"} <=> pc[q] \in Builds \cup {"dropl"}
      BY <1>1, <2>2 DEF Builds, Shape
    <3>2. \A q \in Senders : pc'[q] = "arm" => pc[q] = "arm"
      BY <1>1, <2>2 DEF Shape
    <3> QED
      BY <1>1, <2>1, <2>2, <3>1, <3>2 DEF BufferInv
  <2>12. FrameInv'
    <3>1. \A x \in Xfers : todo'[x] >= 0
      BY <1>1, <2>4, <2>8 DEF FrameInv, Tables
    <3>2. tx'.xfer # 0 => todo'[tx'.xfer] >= Left' + First'
      <4>1. tx.xfer # 0 => tx.xfer \in Xfers
        BY <1>1 DEF TagInv, Tables, Xfers, Numbers
      <4>2. Left \in Int /\ First \in {0, 1} /\ First' \in {0, 1}
        BY <1>1 DEF Left, Filled, First, Numbers, TxRec
      <4> QED
        BY <1>1, <2>2, <2>4, <2>6, <2>7, <2>8, <4>1, <4>2 DEF FrameInv, Tables
    <3>3. \A q \in Senders : pc'[q] \in {"arm", "send"} => todo'[loc'[q].xfer] >= 1
      <4>1. \A q \in Senders : pc[q] \in {"arm", "send"} => loc[q].xfer \in Xfers
        BY <1>1 DEF GenInv, Tables, Xfers, Begun, Builds, Runs
      <4> QED
        BY <1>1, <2>1, <2>2, <2>5, <2>8, <4>1 DEF FrameInv, Begun, Builds, Runs
    <3> QED
      BY <3>1, <3>2, <3>3 DEF FrameInv
  <2>13. EchoInv'
    <3>1. loc[s].xfer = tx.xfer => 1 <= tx.idx - Filled
      BY <1>1, <2>4 DEF BufferInv, Filled, Numbers, TxRec
    <3>2. Filled' = Filled
      BY <2>2 DEF Filled
    <3> QED
      BY <1>1, <2>1, <2>2, <2>3, <2>5, <3>1, <3>2 DEF EchoInv, Begun, Builds, Runs
  <2>14. SentInv'
    <3>1. \A q \in Senders : pc'[q] = "arm" => todo'[tx.xfer] = tx.len
      <4>1. \A q \in Senders : pc'[q] = "arm" => q # s /\ tx.xfer = loc[q].xfer /\ tx.xfer \in Xfers
        BY <1>1, <2>2 DEF BuildInv, GenInv, Tables, Xfers, Begun, Builds
      <4> QED
        BY <1>1, <2>2, <2>5, <2>8, <4>1 DEF SentInv, Begun, Builds
    <3>2. Progress' => Progress
      BY <1>1, <2>2, <2>3 DEF Progress, Dead, BufferInv, NoTag
    <3>3. ASSUME Progress', NEW q \in Senders, loc'[q].xfer = tx.xfer
          PROVE  /\ pc'[q] \in {"arm", "send"} => todo'[tx.xfer] = Left + 1
                 /\ pc'[q] \in Sent => todo'[tx.xfer] = Left
      <4>1. CASE q = s
        <5>1. loc[s].xfer = tx.xfer /\ todo[tx.xfer] = Left + 1
          BY <1>1, <2>1, <2>2, <3>2, <3>3, <4>1 DEF SentInv
        <5>2. todo[tx.xfer] \in Int /\ Left \in Int
          BY <1>1, <2>4, <5>1 DEF Tables, Left, Filled, Numbers, TxRec
        <5> QED
          BY <2>2, <2>8, <4>1, <5>1, <5>2 DEF Sent
      <4>2. CASE q # s
        <5>1. pc'[q] = pc[q] /\ loc[q].xfer = tx.xfer
          BY <2>1, <2>2, <3>3, <4>2
        <5>2. pc[q] \in {"arm", "send"} \cup Sent => tx.xfer # loc[s].xfer /\ tx.xfer \in Xfers
          BY <1>1, <2>5, <4>2, <5>1 DEF GenInv, Tables, Xfers, Begun, Builds, Runs, Sent
        <5> QED
          BY <1>1, <2>8, <3>2, <3>3, <5>1, <5>2 DEF SentInv
      <4> QED
        BY <4>1, <4>2
    <3> QED
      BY <2>2, <2>6, <3>1, <3>3 DEF SentInv
  <2> QED
    BY <2>9, <2>10, <2>11, <2>12, <2>13, <2>14 DEF FlowInv
<1>15. ASSUME ErrLock(s) PROVE FlowInv'
  <2>1. VerdictInv'
    BY <1>1, <1>15 DEF Builds, Busy, CallbackPCs, ErrLock, EvDrains, Filling, Gens,
       Goto, InDrain, InEvDrain, Numbers, PreClaim, Results, Return, SeenRec,
       SenderPCs, Shape, States, StillMine, Tables, Timeouts, Timers, TxErrs,
       VerdictInv, Xfers
  <2>2. LocalInv'
    BY <1>1, <1>15 DEF CallbackPCs, ErrLock, EvDrains, Filling, Gens, Goto, InDrain,
       InEvDrain, LocalInv, Numbers, PreClaim, Results, Return, Runs, SeenRec,
       SenderPCs, Shape, States, StillMine, Tables, Timeouts, Timers, TxErrs, Xfers
  <2>3. BufferInv'
    BY <1>1, <1>15 DEF BufferInv, Builds, Busy, CallbackPCs, ErrLock, EvDrains,
       Filling, Gens, Goto, InDrain, InEvDrain, NoTag, Numbers, PreClaim, Results,
       Return, SeenRec, SenderPCs, Shape, States, StillMine, Tables, Timeouts, Timers,
       TxErrs, WaitsForFc, Xfers
  <2>4. FrameInv'
    BY <1>1, <1>15 DEF CallbackPCs, ErrLock, EvDrains, Filled, Filling, First,
       FrameInv, Gens, Goto, InDrain, InEvDrain, Left, Numbers, PreClaim, Results,
       Return, SeenRec, SenderPCs, Shape, States, StillMine, Tables, Timeouts, Timers,
       TxErrs, Xfers
  <2>5. EchoInv'
    BY <1>1, <1>15 DEF CallbackPCs, EchoInv, ErrLock, EvDrains, Filled, Filling, Gens,
       Goto, InDrain, InEvDrain, Numbers, PreClaim, Results, Return, SeenRec,
       SenderPCs, Shape, States, StillMine, Tables, Timeouts, Timers, TxErrs, Xfers
  <2>6. SentInv'
    BY <1>1, <1>15 DEF CallbackPCs, Dead, ErrLock, EvDrains, Filled, Filling, Gens,
       Goto, InDrain, InEvDrain, Left, Numbers, PreClaim, Progress, Results, Return,
       SeenRec, SenderPCs, Sent, SentInv, Shape, States, StillMine, Tables, Timeouts,
       Timers, TxErrs, WaitsForFc, Xfers
  <2> QED
    BY <2>1, <2>2, <2>3, <2>4, <2>5, <2>6 DEF FlowInv
<1>16. ASSUME CancelOwn(s) PROVE FlowInv'
  <2>1. VerdictInv'
    BY <1>1, <1>16 DEF Builds, Busy, CallbackPCs, CancelOwn, Filling, Gens, Goto,
       InDrain, InEvDrain, Numbers, PreClaim, Results, SeenRec, SenderPCs, Shape,
       States, Tables, Timeouts, Timers, TxErrs, TxHrt, VerdictInv, Xfers,
       hrtimer_cancel
  <2>2. LocalInv'
    BY <1>1, <1>16 DEF CallbackPCs, CancelOwn, Filling, Gens, Goto, InDrain,
       InEvDrain, LocalInv, Numbers, PreClaim, Results, Runs, SeenRec, SenderPCs,
       Shape, States, Tables, Timeouts, Timers, TxErrs, TxHrt, Xfers, hrtimer_cancel
  <2>3. BufferInv'
    BY <1>1, <1>16 DEF BufferInv, Builds, Busy, CallbackPCs, CancelOwn, Filling, Gens,
       Goto, InDrain, InEvDrain, NoTag, Numbers, PreClaim, Results, SeenRec,
       SenderPCs, Shape, States, Tables, Timeouts, Timers, TxErrs, TxHrt, WaitsForFc,
       Xfers, hrtimer_cancel
  <2>4. FrameInv'
    BY <1>1, <1>16 DEF CallbackPCs, CancelOwn, Filled, Filling, First, FrameInv, Gens,
       Goto, InDrain, InEvDrain, Left, Numbers, PreClaim, Results, SeenRec, SenderPCs,
       Shape, States, Tables, Timeouts, Timers, TxErrs, TxHrt, Xfers, hrtimer_cancel
  <2>5. EchoInv'
    BY <1>1, <1>16 DEF CallbackPCs, CancelOwn, EchoInv, Filled, Filling, Gens, Goto,
       InDrain, InEvDrain, Numbers, PreClaim, Results, SeenRec, SenderPCs, Shape,
       States, Tables, Timeouts, Timers, TxErrs, TxHrt, Xfers, hrtimer_cancel
  <2>6. SentInv'
    BY <1>1, <1>16 DEF CallbackPCs, CancelOwn, Dead, Filled, Filling, Gens, Goto,
       InDrain, InEvDrain, Left, Numbers, PreClaim, Progress, Results, SeenRec,
       SenderPCs, Sent, SentInv, Shape, States, Tables, Timeouts, Timers, TxErrs,
       TxHrt, WaitsForFc, Xfers, hrtimer_cancel
  <2> QED
    BY <2>1, <2>2, <2>3, <2>4, <2>5, <2>6 DEF FlowInv
<1>17. ASSUME DropLock(s) PROVE FlowInv'
  <2>1. VerdictInv'
    BY <1>1, <1>17 DEF Builds, Busy, CallbackPCs, DropLock, Filling, Gens, Goto,
       InDrain, InEvDrain, Numbers, PreClaim, Results, SeenRec, SenderPCs, Shape,
       States, Tables, Timeouts, Timers, TxErrs, VerdictInv, Xfers
  <2>2. LocalInv'
    BY <1>1, <1>17 DEF CallbackPCs, DropLock, Filling, Gens, Goto, InDrain, InEvDrain,
       LocalInv, Numbers, PreClaim, Results, Runs, SeenRec, SenderPCs, Shape, States,
       Tables, Timeouts, Timers, TxErrs, Xfers
  <2>3. BufferInv'
    BY <1>1, <1>17 DEF BufferInv, Builds, Busy, CallbackPCs, DropLock, Filling, Gens,
       Goto, InDrain, InEvDrain, NoTag, Numbers, PreClaim, Results, SeenRec,
       SenderPCs, Shape, States, Tables, Timeouts, Timers, TxErrs, WaitsForFc, Xfers
  <2>4. FrameInv'
    BY <1>1, <1>17 DEF CallbackPCs, DropLock, Filled, Filling, First, FrameInv, Gens,
       Goto, InDrain, InEvDrain, Left, Numbers, PreClaim, Results, SeenRec, SenderPCs,
       Shape, States, Tables, Timeouts, Timers, TxErrs, Xfers
  <2>5. EchoInv'
    BY <1>1, <1>17 DEF CallbackPCs, DropLock, EchoInv, Filled, Filling, Gens, Goto,
       InDrain, InEvDrain, Numbers, PreClaim, Results, SeenRec, SenderPCs, Shape,
       States, Tables, Timeouts, Timers, TxErrs, Xfers
  <2>6. SentInv'
    BY <1>1, <1>17 DEF CallbackPCs, Dead, DropLock, Filled, Filling, Gens, Goto,
       InDrain, InEvDrain, Left, Numbers, PreClaim, Progress, Results, SeenRec,
       SenderPCs, Sent, SentInv, Shape, States, Tables, Timeouts, Timers, TxErrs,
       WaitsForFc, Xfers
  <2> QED
    BY <2>1, <2>2, <2>3, <2>4, <2>5, <2>6 DEF FlowInv
<1>18. ASSUME Drop(s) PROVE FlowInv'
  <2>1. /\ pc[s] = "dropl" /\ pc'[s] = "out" /\ cfecho' = NoTag /\ tx_state' \in GaveUp
        /\ UNCHANGED <<tx, loc, todo, echoes, hpc, armed, cb>>
    BY <1>1, <1>18 DEF Drop, DropState, GaveUp, ReturnAndWake, Shape, Woken
  <2>2. \A q \in Senders : q # s =>
          \/ pc'[q] = pc[q]
          \/ pc[q] = "asleep" /\ pc'[q] = "wait"
          \/ pc[q] = "sleepdone" /\ pc'[q] = "waitdone"
    BY <1>1, <1>18, WokenStages DEF Drop, ReturnAndWake, Shape, Woken
  <2>3. Left' = Left /\ (Progress' => Progress)
    BY <1>1, <2>1 DEF Left, Filled, Progress, Dead, GaveUp, WaitsForFc, NoTag, TagInv, Numbers
  <2>4. /\ loc[s].xfer = started /\ started \in Xfers /\ fate'[started] # "run"
        /\ \A x \in Xfers : x # started => fate'[x] = fate[x]
        /\ \A q \in Senders : pc'[q] \notin {"publish"} \cup Builds
        /\ UNCHANGED <<started, seen>>
    BY <1>1, <1>18, <2>1, <2>2 DEF Drop, GenInv, Tables, Xfers, Begun, Ends, BuildInv,
       Builds, LockInv, Locked
  <2>5. VerdictInv'
    BY <1>1, <2>1, <2>4 DEF VerdictInv, GaveUp, Busy, Xfers
  <2>6. LocalInv'
    BY <1>1, <1>18 DEF Begun, Builds, CallbackPCs, Drop, DropState, Ends, Filling,
       GenInv, Gens, InDrain, InEvDrain, LocalInv, NoTag, Numbers, PreClaim, Results,
       ReturnAndWake, Runs, SeenRec, SenderPCs, Shape, States, Tables, Timeouts,
       Timers, TxErrs, Woken, WokenRelease, XferInv, Xfers
  <2>7. BufferInv'
    BY <1>1, <1>18 DEF BufferInv, Builds, Busy, CallbackPCs, Drop, DropState, Filling,
       Gens, InDrain, InEvDrain, NoTag, Numbers, PreClaim, Results, ReturnAndWake,
       SeenRec, SenderPCs, Shape, States, Tables, Timeouts, Timers, TxErrs,
       WaitsForFc, Woken, WokenRelease, Xfers
  <2>8. FrameInv'
    BY <1>1, <1>18 DEF CallbackPCs, Drop, DropState, Filled, Filling, First, FrameInv,
       Gens, InDrain, InEvDrain, Left, NoTag, Numbers, PreClaim, Results,
       ReturnAndWake, SeenRec, SenderPCs, Shape, States, Tables, Timeouts, Timers,
       TxErrs, Woken, WokenRelease, Xfers
  <2>9. EchoInv'
    BY <1>1, <1>18 DEF CallbackPCs, Drop, DropState, EchoInv, Filled, Filling, Gens,
       InDrain, InEvDrain, NoTag, Numbers, PreClaim, Results, ReturnAndWake, SeenRec,
       SenderPCs, Shape, States, Tables, Timeouts, Timers, TxErrs, Woken,
       WokenRelease, Xfers
  <2>10. SentInv'
    BY <1>1, <2>1, <2>2, <2>3 DEF SentInv, Sent
  <2> QED
    BY <2>5, <2>6, <2>7, <2>8, <2>9, <2>10 DEF FlowInv
<1>19. ASSUME WaitDone(s) PROVE FlowInv'
  <2>1. VerdictInv'
    BY <1>1, <1>19 DEF Builds, Busy, CallbackPCs, Filling, GaveUp, Gens, Goto,
       InDrain, InEvDrain, Numbers, PreClaim, Results, SeenRec, SenderPCs, Shape,
       States, StillMine, Tables, Timeouts, Timers, TxErrs, VerdictInv, WaitDone,
       Xfers
  <2>2. LocalInv'
    BY <1>1, <1>19 DEF CallbackPCs, Filling, GaveUp, Gens, Goto, InDrain, InEvDrain,
       LocalInv, Numbers, PreClaim, Results, Runs, SeenRec, SenderPCs, Shape, States,
       StillMine, Tables, Timeouts, Timers, TxErrs, WaitDone, Xfers
  <2>3. BufferInv'
    BY <1>1, <1>19 DEF BufferInv, Builds, Busy, CallbackPCs, Filling, GaveUp, Gens,
       Goto, InDrain, InEvDrain, NoTag, Numbers, PreClaim, Results, SeenRec,
       SenderPCs, Shape, States, StillMine, Tables, Timeouts, Timers, TxErrs,
       WaitDone, WaitsForFc, Xfers
  <2>4. FrameInv'
    BY <1>1, <1>19 DEF CallbackPCs, Filled, Filling, First, FrameInv, GaveUp, Gens,
       Goto, InDrain, InEvDrain, Left, Numbers, PreClaim, Results, SeenRec, SenderPCs,
       Shape, States, StillMine, Tables, Timeouts, Timers, TxErrs, WaitDone, Xfers
  <2>5. EchoInv'
    BY <1>1, <1>19 DEF CallbackPCs, EchoInv, Filled, Filling, GaveUp, Gens, Goto,
       InDrain, InEvDrain, Numbers, PreClaim, Results, SeenRec, SenderPCs, Shape,
       States, StillMine, Tables, Timeouts, Timers, TxErrs, WaitDone, Xfers
  <2>6. SentInv'
    BY <1>1, <1>19 DEF CallbackPCs, Dead, Filled, Filling, GaveUp, Gens, Goto,
       InDrain, InEvDrain, Left, Numbers, PreClaim, Progress, Results, SeenRec,
       SenderPCs, Sent, SentInv, Shape, States, StillMine, Tables, Timeouts, Timers,
       TxErrs, WaitDone, WaitsForFc, Xfers
  <2> QED
    BY <2>1, <2>2, <2>3, <2>4, <2>5, <2>6 DEF FlowInv
<1>20. ASSUME WokenDone(s) PROVE FlowInv'
  <2>1. \A q \in Senders :
          /\ loc'[q].xfer = loc[q].xfer /\ loc'[q].len = loc[q].len
          /\ loc'[q].err \in {loc[q].err, "EADDRNOTAVAIL"}
    BY <1>1, <1>20, FailEffect DEF WokenDone
  <2>2. /\ pc[s] \in {"woken"} /\ pc'[s] \in {"result", "evdrop"}
        /\ \A q \in Senders : q # s => pc'[q] = pc[q]
        /\ UNCHANGED <<tx, tx_state, hpc, armed, cb, cfecho, echoes, todo, fate, started>>
    BY <1>1, <1>20 DEF WokenDone, Shape, Goto, Fail, Return
  <2>3. First' = First /\ Left' = Left /\ (Progress' => Progress)
    BY <2>1, <2>2 DEF First, Left, Filled, Progress, Dead
  <2>4. VerdictInv'
    BY <1>1, <1>20 DEF Builds, Busy, CallbackPCs, Fail, Filling, Gens, Goto, InDrain,
       InEvDrain, Numbers, PreClaim, Results, SeenRec, SenderPCs, Shape, States,
       StillMine, Tables, Timeouts, Timers, TxErrs, VerdictInv, WokenDone, Xfers
  <2>5. LocalInv'
    BY <1>1, <2>1, <2>2 DEF LocalInv, Begun, Builds, Ends, Runs, InEvDrain, Sent
  <2>6. BufferInv'
    BY <1>1, <2>1, <2>2 DEF BufferInv, Builds
  <2>7. FrameInv'
    BY <1>1, <2>1, <2>2, <2>3 DEF FrameInv
  <2>8. EchoInv'
    BY <1>1, <1>20 DEF CallbackPCs, EchoInv, Fail, Filled, Filling, Gens, Goto,
       InDrain, InEvDrain, Numbers, PreClaim, Results, SeenRec, SenderPCs, Shape,
       States, StillMine, Tables, Timeouts, Timers, TxErrs, WokenDone, Xfers
  <2>9. SentInv'
    BY <1>1, <2>1, <2>2, <2>3 DEF SentInv, Sent
  <2> QED
    BY <2>4, <2>5, <2>6, <2>7, <2>8, <2>9 DEF FlowInv
<1>21. ASSUME ReadResult(s) PROVE FlowInv'
  <2>1. VerdictInv'
    BY <1>1, <1>21 DEF Builds, Busy, CallbackPCs, Filling, Gens, InDrain, InEvDrain,
       Numbers, PreClaim, ReadResult, Results, Return, SeenRec, SenderPCs, Shape,
       Slot, States, Tables, Timeouts, Timers, TxErrs, VerdictInv, Xfers,
       isotp_get_tx_result
  <2>2. LocalInv'
    BY <1>1, <1>21 DEF CallbackPCs, Filling, Gens, InDrain, InEvDrain, LocalInv,
       Numbers, PreClaim, ReadResult, Results, Return, Runs, SeenRec, SenderPCs,
       Shape, Slot, States, Tables, Timeouts, Timers, TxErrs, Xfers,
       isotp_get_tx_result
  <2>3. BufferInv'
    BY <1>1, <1>21 DEF BufferInv, Builds, Busy, CallbackPCs, Filling, Gens, InDrain,
       InEvDrain, NoTag, Numbers, PreClaim, ReadResult, Results, Return, SeenRec,
       SenderPCs, Shape, Slot, States, Tables, Timeouts, Timers, TxErrs, WaitsForFc,
       Xfers, isotp_get_tx_result
  <2>4. FrameInv'
    BY <1>1, <1>21 DEF CallbackPCs, Filled, Filling, First, FrameInv, Gens, InDrain,
       InEvDrain, Left, Numbers, PreClaim, ReadResult, Results, Return, SeenRec,
       SenderPCs, Shape, Slot, States, Tables, Timeouts, Timers, TxErrs, Xfers,
       isotp_get_tx_result
  <2>5. EchoInv'
    BY <1>1, <1>21 DEF CallbackPCs, EchoInv, Filled, Filling, Gens, InDrain,
       InEvDrain, Numbers, PreClaim, ReadResult, Results, Return, SeenRec, SenderPCs,
       Shape, Slot, States, Tables, Timeouts, Timers, TxErrs, Xfers,
       isotp_get_tx_result
  <2>6. SentInv'
    BY <1>1, <1>21 DEF CallbackPCs, Dead, Filled, Filling, Gens, InDrain, InEvDrain,
       Left, Numbers, PreClaim, Progress, ReadResult, Results, Return, SeenRec,
       SenderPCs, Sent, SentInv, Shape, Slot, States, Tables, Timeouts, Timers,
       TxErrs, WaitsForFc, Xfers, isotp_get_tx_result
  <2> QED
    BY <2>1, <2>2, <2>3, <2>4, <2>5, <2>6 DEF FlowInv
<1> QED
  BY <1>2, <1>3, <1>4, <1>5, <1>6, <1>7, <1>8, <1>9, <1>10, <1>11, <1>12, <1>13,
     <1>14, <1>15, <1>16, <1>17, <1>18, <1>19, <1>20, <1>21 DEF SendStep

\* Every step of the receive softirq preserves FlowInv.
LEMMA SoftirqFlow ==
  ASSUME TypeOK, ShutdownInv, NoLapse, TransferInv, Bounded, FlowInv,
         FcArrives \/ (\E e \in echoes : EchoArrives(e)) \/ SoftirqStep
  PROVE  FlowInv'
<1> USE DEF bindVars, sockVars, lockVars, timerVars, callVars, histVars
<1>1. Shape /\ Numbers /\ Tables /\ NoLapse /\ Bounded /\ LockInv /\ StateInv /\ GenInv
      /\ XferInv /\ TagInv /\ OwnerInv /\ BuildInv /\ PhaseInv /\ WatchInv /\ VerdictInv
      /\ LocalInv /\ BufferInv /\ FrameInv /\ EchoInv /\ SentInv
  BY ShapeHolds, NumbersHold, TablesHold DEF ShutdownInv, TransferInv, FlowInv
<1>2. ASSUME FcArrives PROVE FlowInv'
  <2>1. LocalInv'
    BY <1>1, <1>2 DEF Dispatched, Enter, FcArrives, LocalInv, Results, Runs, TxErrs,
       WaitsForFc
  <2>2. VerdictInv'
    BY <1>1, <1>2 DEF Builds, Busy, CallbackPCs, Dispatched, Enter, FcArrives,
       Filling, Gens, InDrain, InEvDrain, Numbers, PreClaim, Results, SeenRec,
       SenderPCs, Shape, States, Tables, Timeouts, Timers, TxErrs, VerdictInv,
       WaitsForFc, Xfers
  <2>3. BufferInv'
    BY <1>1, <1>2 DEF BufferInv, Builds, Busy, CallbackPCs, Dispatched, Enter,
       FcArrives, Filling, Gens, InDrain, InEvDrain, NoTag, Numbers, PreClaim,
       Results, SeenRec, SenderPCs, Shape, States, Tables, Timeouts, Timers, TxErrs,
       WaitsForFc, Xfers
  <2>4. FrameInv'
    BY <1>1, <1>2 DEF CallbackPCs, Dispatched, Enter, FcArrives, Filled, Filling,
       First, FrameInv, Gens, InDrain, InEvDrain, Left, Numbers, PreClaim, Results,
       SeenRec, SenderPCs, Shape, States, Tables, Timeouts, Timers, TxErrs,
       WaitsForFc, Xfers
  <2>5. EchoInv'
    BY <1>1, <1>2 DEF CallbackPCs, Dispatched, EchoInv, Enter, FcArrives, Filled,
       Filling, Gens, InDrain, InEvDrain, Numbers, PreClaim, Results, SeenRec,
       SenderPCs, Shape, States, Tables, Timeouts, Timers, TxErrs, WaitsForFc, Xfers
  <2>6. SentInv'
    BY <1>1, <1>2 DEF CallbackPCs, Dead, Dispatched, Enter, FcArrives, Filled,
       Filling, Gens, InDrain, InEvDrain, Left, Numbers, PreClaim, Progress, Results,
       SeenRec, SenderPCs, Sent, SentInv, Shape, States, Tables, Timeouts, Timers,
       TxErrs, WaitsForFc, Xfers
  <2> QED
    BY <2>1, <2>2, <2>3, <2>4, <2>5, <2>6 DEF FlowInv
<1>3. ASSUME NEW e \in echoes, EchoArrives(e) PROVE FlowInv'
  <2>1. LocalInv'
    BY <1>1, <1>3 DEF Dispatched, EchoArrives, Enter, LocalInv, Results, Runs, TxErrs
  <2>2. VerdictInv'
    BY <1>1, <1>3 DEF Builds, Busy, CallbackPCs, Dispatched, EchoArrives, Enter,
       Filling, Gens, InDrain, InEvDrain, Numbers, PreClaim, Results, SeenRec,
       SenderPCs, Shape, States, Tables, Timeouts, Timers, TxErrs, VerdictInv, Xfers
  <2>3. BufferInv'
    BY <1>1, <1>3 DEF BufferInv, Builds, Busy, CallbackPCs, Dispatched, EchoArrives,
       Enter, Filling, Gens, InDrain, InEvDrain, NoTag, Numbers, PreClaim, Results,
       SeenRec, SenderPCs, Shape, States, Tables, Timeouts, Timers, TxErrs,
       WaitsForFc, Xfers
  <2>4. FrameInv'
    BY <1>1, <1>3 DEF CallbackPCs, Dispatched, EchoArrives, Enter, Filled, Filling,
       First, FrameInv, Gens, InDrain, InEvDrain, Left, Numbers, PreClaim, Results,
       SeenRec, SenderPCs, Shape, States, Tables, Timeouts, Timers, TxErrs, Xfers
  <2>5. EchoInv'
    BY <1>1, <1>3 DEF CallbackPCs, Dispatched, EchoArrives, EchoInv, Enter, Filled,
       Filling, Gens, InDrain, InEvDrain, Numbers, PreClaim, Results, SeenRec,
       SenderPCs, Shape, States, Tables, Timeouts, Timers, TxErrs, Xfers
  <2>6. SentInv'
    BY <1>1, <1>3 DEF CallbackPCs, Dead, Dispatched, EchoArrives, Enter, Filled,
       Filling, Gens, InDrain, InEvDrain, Left, Numbers, PreClaim, Progress, Results,
       SeenRec, SenderPCs, Sent, SentInv, Shape, States, Tables, Timeouts, Timers,
       TxErrs, WaitsForFc, Xfers
  <2> QED
    BY <2>1, <2>2, <2>3, <2>4, <2>5, <2>6 DEF FlowInv
<1>4. ASSUME FcCancel PROVE FlowInv'
  <2>1. LocalInv'
    BY <1>1, <1>4 DEF FcCancel, Leave, LocalInv, Results, Runs, TxErrs, WaitsForFc,
       hrtimer_cancel
  <2>2. VerdictInv'
    BY <1>1, <1>4 DEF Builds, Busy, CallbackPCs, FcCancel, Filling, Gens, InDrain,
       InEvDrain, Leave, Numbers, PreClaim, Results, SeenRec, SenderPCs, Shape,
       States, Tables, Timeouts, Timers, TxErrs, VerdictInv, WaitsForFc, Xfers,
       hrtimer_cancel
  <2>3. BufferInv'
    BY <1>1, <1>4 DEF BufferInv, Builds, Busy, CallbackPCs, FcCancel, Filling, Gens,
       InDrain, InEvDrain, Leave, NoTag, Numbers, PreClaim, Results, SeenRec,
       SenderPCs, Shape, States, Tables, Timeouts, Timers, TxErrs, WaitsForFc, Xfers,
       hrtimer_cancel
  <2>4. FrameInv'
    BY <1>1, <1>4 DEF CallbackPCs, FcCancel, Filled, Filling, First, FrameInv, Gens,
       InDrain, InEvDrain, Leave, Left, Numbers, PreClaim, Results, SeenRec,
       SenderPCs, Shape, States, Tables, Timeouts, Timers, TxErrs, WaitsForFc, Xfers,
       hrtimer_cancel
  <2>5. EchoInv'
    BY <1>1, <1>4 DEF CallbackPCs, EchoInv, FcCancel, Filled, Filling, Gens, InDrain,
       InEvDrain, Leave, Numbers, PreClaim, Results, SeenRec, SenderPCs, Shape,
       States, Tables, Timeouts, Timers, TxErrs, WaitsForFc, Xfers, hrtimer_cancel
  <2>6. SentInv'
    BY <1>1, <1>4 DEF CallbackPCs, Dead, FcCancel, Filled, Filling, Gens, InDrain,
       InEvDrain, Leave, Left, Numbers, PreClaim, Progress, Results, SeenRec,
       SenderPCs, Sent, SentInv, Shape, States, Tables, Timeouts, Timers, TxErrs,
       WaitsForFc, Xfers, hrtimer_cancel
  <2> QED
    BY <2>1, <2>2, <2>3, <2>4, <2>5, <2>6 DEF FlowInv
<1>5. ASSUME FcMalformed PROVE FlowInv'
  <2>1. VerdictInv'
    BY <1>1, <1>5 DEF Begun, BuildInv, Builds, Busy, CallbackPCs, Claims, Dead, Ends,
       FcErr, FcMalformed, Filling, GenInv, Gens, InDrain, InEvDrain, LockInv, Locked,
       NoTag, Numbers, OwnerInv, PhaseInv, PreClaim, Results, Runs, SeenRec,
       SenderPCs, Shape, Slot, StateInv, States, Tables, Timeouts, Timers, TxErrs,
       TxHrt, VerdictInv, WaitsForFc, WatchInv, Xfers, isotp_set_tx_result
  <2>2. LocalInv'
    BY <1>1, <1>5 DEF CallbackPCs, FcErr, FcMalformed, Filling, Gens, InDrain,
       InEvDrain, LocalInv, Numbers, PreClaim, Results, Runs, SeenRec, SenderPCs,
       Shape, Slot, States, Tables, Timeouts, Timers, TxErrs, Xfers,
       isotp_set_tx_result
  <2>3. BufferInv'
    BY <1>1, <1>5 DEF BufferInv, Builds, Busy, CallbackPCs, FcErr, FcMalformed,
       Filling, Gens, InDrain, InEvDrain, NoTag, Numbers, PreClaim, Results, SeenRec,
       SenderPCs, Shape, Slot, States, Tables, Timeouts, Timers, TxErrs, WaitsForFc,
       Xfers, isotp_set_tx_result
  <2>4. FrameInv'
    BY <1>1, <1>5 DEF CallbackPCs, FcErr, FcMalformed, Filled, Filling, First,
       FrameInv, Gens, InDrain, InEvDrain, Left, Numbers, PreClaim, Results, SeenRec,
       SenderPCs, Shape, Slot, States, Tables, Timeouts, Timers, TxErrs, Xfers,
       isotp_set_tx_result
  <2>5. EchoInv'
    BY <1>1, <1>5 DEF CallbackPCs, EchoInv, FcErr, FcMalformed, Filled, Filling, Gens,
       InDrain, InEvDrain, Numbers, PreClaim, Results, SeenRec, SenderPCs, Shape,
       Slot, States, Tables, Timeouts, Timers, TxErrs, Xfers, isotp_set_tx_result
  <2>6. SentInv'
    BY <1>1, <1>5 DEF CallbackPCs, Dead, FcErr, FcMalformed, Filled, Filling, Gens,
       InDrain, InEvDrain, Left, Numbers, PreClaim, Progress, Results, SeenRec,
       SenderPCs, Sent, SentInv, Shape, Slot, States, Tables, Timeouts, Timers,
       TxErrs, WaitsForFc, Xfers, isotp_set_tx_result
  <2> QED
    BY <2>1, <2>2, <2>3, <2>4, <2>5, <2>6 DEF FlowInv
<1>6. ASSUME FcStatus PROVE FlowInv'
  <2>1. hpc = "fc_body" /\ hpc' \in {"cframe", "idle", "finish"} /\ tx_state \in WaitsForFc
    BY <1>1, <1>6 DEF FcStatus, FcCts, FcWt, FcRefused, FcErr, Leave, PhaseInv
  <2>2. /\ tx'.xfer = tx.xfer /\ tx'.len = tx.len /\ tx'.idx = tx.idx
        /\ UNCHANGED <<pc, loc, todo, echoes, cfecho, cb, started>>
        /\ armed'["txfrtimer"] = armed["txfrtimer"]
    BY <1>1, <1>6, FcEffect DEF FcStatus, FcCts, FcWt, FcRefused, FcErr, hrtimer_start, Shape,
       Timers, Timeouts
  <2>3. Filled' = Filled /\ Left' = Left /\ First' = First /\ Progress
    BY <2>1, <2>2 DEF Filled, Left, First, Progress
  <2>4. VerdictInv'
    BY SMTT(30), <1>1, <1>6 DEF Begun, BuildInv, Builds, Busy, CallbackPCs, Claims, Dead, Ends,
       FcCts, FcErr, FcParms, FcRefused, FcStatus, FcTakesParms, FcWaits, FcWt,
       Filling, GenInv, Gens, InDrain, InEvDrain, Leave, LockInv, Locked, NoTag,
       Numbers, OwnerInv, PhaseInv, PreClaim, Results, Runs, SeenRec, SenderPCs,
       Shape, Slot, StateInv, States, Tables, Timeouts, Timers, TxErrs, TxHrt,
       VerdictInv, WaitsForFc, WatchInv, Xfers, hrtimer_start, isotp_set_tx_result
  <2>5. LocalInv'
    BY SMTT(30), <1>1, <1>6 DEF Begun, Builds, CallbackPCs, Ends, FcCts, FcErr, FcParms,
       FcRefused, FcStatus, FcTakesParms, FcWaits, FcWt, Filling, GenInv, Gens,
       InDrain, InEvDrain, Leave, LocalInv, Numbers, PreClaim, Results, Runs, SeenRec,
       SenderPCs, Shape, Slot, States, Tables, Timeouts, Timers, TxErrs, XferInv,
       Xfers, hrtimer_start, isotp_set_tx_result
  <2>6. BufferInv'
    <3>1. tx.idx < tx.len /\ cfecho = NoTag /\ Dead("txfrtimer")
      BY <1>1, <2>1 DEF BufferInv, PhaseInv
    <3>2. tx'.xfer = started' \/ \E q \in Senders : pc'[q] \in Builds \cup {"dropl"}
      BY <1>1, <2>1, <2>2 DEF BufferInv, WaitsForFc, Busy
    <3> QED
      BY <1>1, <2>1, <2>2, <3>1, <3>2 DEF BufferInv, Dead
  <2>7. FrameInv'
    BY <1>1, <2>2, <2>3 DEF FrameInv
  <2>8. EchoInv'
    BY <1>1, <2>2, <2>3 DEF EchoInv
  <2>9. SentInv'
    BY <1>1, <2>2, <2>3 DEF SentInv
  <2> QED
    BY <2>4, <2>5, <2>6, <2>7, <2>8, <2>9 DEF FlowInv
<1>7. ASSUME Finish PROVE FlowInv'
  <2>1. VerdictInv'
    BY <1>1, <1>7 DEF Builds, Busy, CallbackPCs, Dead, Filling, Finish, Gens, InDrain,
       InEvDrain, Leave, LockInv, Locked, NoTag, Numbers, PhaseInv, PreClaim, Results,
       SeenRec, SenderPCs, Shape, StateInv, States, Tables, Timeouts, Timers, TxErrs,
       VerdictInv, WaitsForFc, WakeUp, Woken, WokenRelease, Xfers
  <2>2. LocalInv'
    BY <1>1, <1>7 DEF CallbackPCs, Filling, Finish, Gens, InDrain, InEvDrain, Leave,
       LocalInv, Numbers, PreClaim, Results, Runs, SeenRec, SenderPCs, Shape, States,
       Tables, Timeouts, Timers, TxErrs, WakeUp, Woken, WokenRelease, Xfers
  <2>3. BufferInv'
    BY <1>1, <1>7 DEF BufferInv, Builds, Busy, CallbackPCs, Filling, Finish, Gens,
       InDrain, InEvDrain, Leave, NoTag, Numbers, PreClaim, Results, SeenRec,
       SenderPCs, Shape, States, Tables, Timeouts, Timers, TxErrs, WaitsForFc, WakeUp,
       Woken, WokenRelease, Xfers
  <2>4. FrameInv'
    BY <1>1, <1>7 DEF CallbackPCs, Filled, Filling, Finish, First, FrameInv, Gens,
       InDrain, InEvDrain, Leave, Left, Numbers, PreClaim, Results, SeenRec,
       SenderPCs, Shape, States, Tables, Timeouts, Timers, TxErrs, WakeUp, Woken,
       WokenRelease, Xfers
  <2>5. EchoInv'
    BY <1>1, <1>7 DEF CallbackPCs, EchoInv, Filled, Filling, Finish, Gens, InDrain,
       InEvDrain, Leave, Numbers, PreClaim, Results, SeenRec, SenderPCs, Shape,
       States, Tables, Timeouts, Timers, TxErrs, WakeUp, Woken, WokenRelease, Xfers
  <2>6. SentInv'
    BY <1>1, <1>7 DEF CallbackPCs, Dead, Filled, Filling, Finish, Gens, InDrain,
       InEvDrain, Leave, Left, Numbers, PreClaim, Progress, Results, SeenRec,
       SenderPCs, Sent, SentInv, Shape, States, Tables, Timeouts, Timers, TxErrs,
       WaitsForFc, WakeUp, Woken, WokenRelease, Xfers
  <2> QED
    BY <2>1, <2>2, <2>3, <2>4, <2>5, <2>6 DEF FlowInv
<1>8. ASSUME EchoCancel PROVE FlowInv'
  <2>1. LocalInv'
    BY <1>1, <1>8 DEF EchoCancel, Leave, LocalInv, NoTag, Results, Runs, TxErrs,
       hrtimer_cancel
  <2>2. VerdictInv'
    BY <1>1, <1>8 DEF Builds, Busy, CallbackPCs, EchoCancel, Filling, Gens, InDrain,
       InEvDrain, Leave, NoTag, Numbers, PreClaim, Results, SeenRec, SenderPCs, Shape,
       States, Tables, Timeouts, Timers, TxErrs, VerdictInv, Xfers, hrtimer_cancel
  <2>3. BufferInv'
    BY <1>1, <1>8 DEF BufferInv, Builds, Busy, CallbackPCs, EchoCancel, Filling, Gens,
       InDrain, InEvDrain, Leave, NoTag, Numbers, PreClaim, Results, SeenRec,
       SenderPCs, Shape, States, Tables, Timeouts, Timers, TxErrs, WaitsForFc, Xfers,
       hrtimer_cancel
  <2>4. FrameInv'
    BY <1>1, <1>8 DEF CallbackPCs, EchoCancel, Filled, Filling, First, FrameInv, Gens,
       InDrain, InEvDrain, Leave, Left, NoTag, Numbers, PreClaim, Results, SeenRec,
       SenderPCs, Shape, States, Tables, Timeouts, Timers, TxErrs, Xfers,
       hrtimer_cancel
  <2>5. EchoInv'
    BY <1>1, <1>8 DEF CallbackPCs, EchoCancel, EchoInv, Filled, Filling, Gens,
       InDrain, InEvDrain, Leave, NoTag, Numbers, PreClaim, Results, SeenRec,
       SenderPCs, Shape, States, Tables, Timeouts, Timers, TxErrs, Xfers,
       hrtimer_cancel
  <2>6. SentInv'
    BY <1>1, <1>8 DEF CallbackPCs, Dead, EchoCancel, Filled, Filling, Gens, InDrain,
       InEvDrain, Leave, Left, NoTag, Numbers, PreClaim, Progress, Results, SeenRec,
       SenderPCs, Sent, SentInv, Shape, States, Tables, Timeouts, Timers, TxErrs,
       WaitsForFc, Xfers, hrtimer_cancel
  <2> QED
    BY <2>1, <2>2, <2>3, <2>4, <2>5, <2>6 DEF FlowInv
<1>9. ASSUME EchoBody PROVE FlowInv'
  <2>1. /\ hpc = "ec_body" /\ tx_state = "SENDING" /\ tx_state' \in {"SENDING", "WAIT_FC"}
        /\ hpc' \in {"finish", "idle", "cframe"}
        /\ hpc' = "cframe" \/ tx_state' = "WAIT_FC" \/ armed'["txfrtimer"] => tx.idx < tx.len
        /\ cfecho = NoTag /\ cb["txfrtimer"] = "off"
        /\ UNCHANGED <<tx, pc, loc, started, cfecho, cb>>
    BY <1>1, <1>9 DEF EchoBody, EchoDone, EchoWaitFc, EchoBurst, EchoGap, EchoAllSent, Leave,
       hrtimer_start, PhaseInv, Dead, Timers, Timeouts, Shape, Numbers, TxRec
  <2>2. VerdictInv'
    BY SMTT(30), <1>1, <1>9 DEF Begun, BuildInv, Builds, Busy, CallbackPCs, Claims, Dead,
       EchoAllSent, EchoBlockEnd, EchoBody, EchoBurst, EchoDone, EchoGap, EchoWaitFc,
       Ends, Filling, GenInv, Gens, InDrain, InEvDrain, Leave, LockInv, Locked, NoTag,
       Numbers, OwnerInv, PhaseInv, PreClaim, Results, Runs, SeenRec, SenderPCs,
       Shape, Slot, StateInv, States, Tables, Timeouts, Timers, TxErrs, TxHrt,
       VerdictInv, WaitsForFc, WatchInv, Xfers, hrtimer_start, isotp_set_tx_result
  <2>3. LocalInv'
    BY SMTT(30), <1>1, <1>9 DEF Begun, Builds, CallbackPCs, EchoAllSent, EchoBlockEnd, EchoBody,
       EchoBurst, EchoDone, EchoGap, EchoWaitFc, Ends, Filling, GenInv, Gens, InDrain,
       InEvDrain, Leave, LocalInv, Numbers, PreClaim, Results, Runs, SeenRec,
       SenderPCs, Shape, Slot, States, Tables, Timeouts, Timers, TxErrs, XferInv,
       Xfers, hrtimer_start, isotp_set_tx_result
  <2>4. BufferInv'
    BY <1>1, <2>1 DEF BufferInv, Busy, WaitsForFc
  <2>5. FrameInv'
    BY <1>1, <1>9 DEF CallbackPCs, EchoAllSent, EchoBlockEnd, EchoBody, EchoBurst,
       EchoDone, EchoGap, EchoWaitFc, Filled, Filling, First, FrameInv, Gens, InDrain,
       InEvDrain, Leave, Left, Numbers, PreClaim, Results, SeenRec, SenderPCs, Shape,
       Slot, States, Tables, Timeouts, Timers, TxErrs, Xfers, hrtimer_start,
       isotp_set_tx_result
  <2>6. EchoInv'
    BY <1>1, <1>9 DEF CallbackPCs, EchoAllSent, EchoBlockEnd, EchoBody, EchoBurst,
       EchoDone, EchoGap, EchoInv, EchoWaitFc, Filled, Filling, Gens, InDrain,
       InEvDrain, Leave, Numbers, PreClaim, Results, SeenRec, SenderPCs, Shape, Slot,
       States, Tables, Timeouts, Timers, TxErrs, Xfers, hrtimer_start,
       isotp_set_tx_result
  <2>7. SentInv'
    BY <1>1, <1>9 DEF CallbackPCs, Dead, EchoAllSent, EchoBlockEnd, EchoBody,
       EchoBurst, EchoDone, EchoGap, EchoWaitFc, Filled, Filling, Gens, InDrain,
       InEvDrain, Leave, Left, Numbers, PreClaim, Progress, Results, SeenRec,
       SenderPCs, Sent, SentInv, Shape, Slot, States, Tables, Timeouts, Timers,
       TxErrs, WaitsForFc, Xfers, hrtimer_start, isotp_set_tx_result
  <2> QED
    BY <2>2, <2>3, <2>4, <2>5, <2>6, <2>7 DEF FlowInv
<1>10. ASSUME SoftirqFill PROVE FlowInv'
  <2>1. /\ hpc = "cframe" /\ tx.idx < tx.len /\ Dead("txfrtimer") /\ tx_state \notin WaitsForFc
    BY <1>1, <1>10 DEF SoftirqFill, BufferInv, PhaseInv, WaitsForFc
  <2>2. /\ tx'.xfer = tx.xfer /\ tx'.len = tx.len
        /\ \/ hpc' = "idle" /\ tx'.idx = tx.idx
           \/ hpc' = "emit" /\ tx'.idx = tx.idx + 1
        /\ UNCHANGED <<pc, loc, todo, echoes, cfecho, armed, tx_state, fate, started, cb>>
    BY <1>1, <1>10, <2>1, FillEffect DEF SoftirqFill, Leave
  <2>3. Left' = Left /\ First' = First /\ tx'.idx - Filled' = tx.idx - Filled
    BY <1>1, <2>1, <2>2 DEF Left, Filled, First, Dead, Numbers, TxRec
  <2>4. Progress /\ cfecho = NoTag /\ tx.xfer # 0 /\ tx.idx >= 1
    <3>1. Progress /\ cfecho = NoTag
      BY <1>1, <2>1 DEF Progress, Dead, PhaseInv, BufferInv
    <3>2. tx.xfer # 0 /\ tx.idx >= 1
      BY <1>1, <2>1 DEF TagInv, BufferInv, Dead, Timers
    <3> QED
      BY <3>1, <3>2
  <2>5. LocalInv'
    BY <1>1, <1>10 DEF CframeFill, Leave, LocalInv, Results, Runs, SoftirqFill, TxErrs
  <2>6. VerdictInv'
    BY <1>1, <1>10 DEF Builds, Busy, CallbackPCs, CframeFill, Filling, Gens, InDrain,
       InEvDrain, Leave, Numbers, PreClaim, Results, SeenRec, SenderPCs, Shape,
       SoftirqFill, States, Tables, Timeouts, Timers, TxErrs, VerdictInv, Xfers
  <2>7. BufferInv'
    <3>1. tx.idx \in Nat /\ tx.len \in Nat /\ tx.xfer \in Nat
      BY <1>1 DEF Numbers, TxRec
    <3>2. /\ tx'.idx <= tx'.len /\ tx'.idx >= 1
          /\ hpc' = "emit" \/ cb'["txfrtimer"] = "emit" => tx'.idx >= 2
      BY <1>1, <2>1, <2>2, <2>4, <3>1 DEF BufferInv, Dead
    <3>3. \A q \in Senders : pc'[q] # "arm"
      BY <1>1, <2>1, <2>2 DEF BuildInv, Builds, Dead, Timers
    <3>4. (\/ tx_state' \in WaitsForFc \/ hpc' = "cframe" \/ armed'["txfrtimer"]
           \/ cb'["txfrtimer"] \in {"rearm", "check", "cframe"}) => tx'.idx < tx'.len
      BY <2>1, <2>2 DEF Dead
    <3> QED
      BY <1>1, <2>2, <2>4, <3>2, <3>3, <3>4 DEF BufferInv
  <2>8. FrameInv'
    BY <1>1, <2>2, <2>3 DEF FrameInv
  <2>9. EchoInv'
    BY <1>1, <2>2, <2>3 DEF EchoInv
  <2>10. SentInv'
    BY <1>1, <2>2, <2>3, <2>4 DEF SentInv
  <2> QED
    BY <2>5, <2>6, <2>7, <2>8, <2>9, <2>10 DEF FlowInv
<1>11. ASSUME SoftirqEmit PROVE FlowInv'
  <2>1. /\ hpc = "emit" /\ Dead("txfrtimer") /\ tx_state \notin WaitsForFc
    BY <1>1, <1>11 DEF SoftirqEmit, PhaseInv, WaitsForFc
  <2>2. /\ cfecho' = <<tx.xfer, tx.idx>> /\ hpc' = "idle"
        /\ UNCHANGED <<tx, pc, loc, tx_state, armed, cb, fate, started>>
    BY <1>11 DEF SoftirqEmit, CframeEmit, Leave
  <2>3. /\ tx.xfer \in Xfers /\ tx.xfer # 0 /\ tx.idx >= 2 /\ Progress
        /\ \A q \in Senders : pc[q] \notin Builds
    BY <1>1, <2>1 DEF TagInv, BufferInv, BuildInv, Progress, Tables, Xfers, Dead, Timers, Numbers
  <2>4. Filled = 1 /\ Filled' = 0 /\ Left' = Left - 1 /\ First' = First /\ Left \in Nat /\ Left >= 1
    BY <1>1, <2>1, <2>2 DEF Left, Filled, First, Numbers, TxRec, BufferInv, Dead
  <2>5. <<tx.xfer, tx.idx>> \notin echoes
    BY <1>1, <2>4 DEF EchoInv, Numbers, TxRec
  <2>6. \A q \in Senders : pc[q] \in {"arm", "send"} =>
          loc[q].xfer \in Xfers /\ (loc[q].xfer = tx.xfer => First = 1)
    BY <1>1 DEF GenInv, Tables, Xfers, Begun, Builds, Runs, First
  <2>7. \/ /\ echoes' = echoes \cup {<<tx.xfer, tx.idx>>}
           /\ todo'[tx.xfer] = todo[tx.xfer] - 1
           /\ \A y \in Xfers : y # tx.xfer => todo'[y] = todo[y]
        \/ UNCHANGED <<echoes, todo>> /\ ~Progress'
    BY <1>1, <1>11, <2>1, <2>2, <2>3, <2>5 DEF SoftirqEmit, CframeEmit, Tables, Progress, Dead
  <2>8. LocalInv'
    BY <1>1, <1>11 DEF CframeEmit, Leave, LocalInv, Results, Runs, SoftirqEmit, TxErrs
  <2>9. VerdictInv'
    BY <1>1, <1>11 DEF Builds, Busy, CallbackPCs, CframeEmit, Filling, Gens, InDrain,
       InEvDrain, Leave, Numbers, PreClaim, Results, SeenRec, SenderPCs, Shape,
       SoftirqEmit, States, Tables, Timeouts, Timers, TxErrs, VerdictInv, Xfers
  <2>10. BufferInv'
    BY <1>1, <1>11 DEF BufferInv, Builds, Busy, CallbackPCs, CframeEmit, Dead,
       Filling, Gens, InDrain, InEvDrain, Leave, NoTag, Numbers, PhaseInv, PreClaim,
       Results, SeenRec, SenderPCs, Shape, SoftirqEmit, States, Tables, TagInv,
       Timeouts, Timers, TxErrs, WaitsForFc, Xfers
  <2>11. FrameInv'
    <3>1. todo[tx.xfer] >= Left + First /\ todo[tx.xfer] \in Int /\ First \in {0, 1}
      BY <1>1, <2>3 DEF FrameInv, Tables, First
    <3>2. \A x \in Xfers : todo'[x] >= 0
      BY <1>1, <2>3, <2>4, <2>7, <3>1 DEF FrameInv, Tables
    <3>3. todo'[tx.xfer] >= Left' + First'
      BY <2>4, <2>7, <3>1
    <3>4. \A q \in Senders : pc[q] \in {"arm", "send"} => todo'[loc[q].xfer] >= 1
      BY <1>1, <2>4, <2>6, <2>7, <3>1 DEF FrameInv, Tables
    <3> QED
      BY <2>2, <3>2, <3>3, <3>4 DEF FrameInv
  <2>12. EchoInv'
    BY <1>1, <2>2, <2>3, <2>4, <2>7 DEF EchoInv, Numbers, TxRec
  <2>13. SentInv'
    <3>1. todo[tx.xfer] \in Int
      BY <1>1, <2>3 DEF Tables
    <3> QED
      BY <1>1, <2>2, <2>3, <2>4, <2>7, <3>1 DEF SentInv, Builds
  <2> QED
    BY <2>8, <2>9, <2>10, <2>11, <2>12, <2>13 DEF FlowInv
<1> QED
  BY <1>2, <1>3, <1>4, <1>5, <1>6, <1>7, <1>8, <1>9, <1>10, <1>11 DEF SoftirqStep

\* Every step of an hrtimer preserves FlowInv.
LEMMA TimerFlow ==
  ASSUME TypeOK, ShutdownInv, NoLapse, TransferInv, Bounded, FlowInv,
         \/ \E t \in Timers : Expire(t)
         \/ \E t \in Timeouts : TimeoutStep(t)
         \/ TxfrStep
  PROVE  FlowInv'
<1> USE DEF bindVars, sockVars, lockVars, timerVars, callVars, histVars
<1>1. Shape /\ Numbers /\ Tables /\ NoLapse /\ Bounded /\ LockInv /\ StateInv /\ GenInv
      /\ XferInv /\ TagInv /\ OwnerInv /\ BuildInv /\ PhaseInv /\ WatchInv /\ VerdictInv
      /\ LocalInv /\ BufferInv /\ FrameInv /\ EchoInv /\ SentInv
  BY ShapeHolds, NumbersHold, TablesHold DEF ShutdownInv, TransferInv, FlowInv
<1>2. ASSUME NEW t \in Timers, Expire(t) PROVE FlowInv'
  <2>1. LocalInv'
    BY <1>1, <1>2 DEF Expire, LocalInv, Results, Runs, Timeouts, TxErrs
  <2>2. VerdictInv'
    BY <1>1, <1>2 DEF Builds, Busy, CallbackPCs, Expire, Filling, Gens, InDrain,
       InEvDrain, Numbers, PreClaim, Results, SeenRec, SenderPCs, Shape, States,
       Tables, Timeouts, Timers, TxErrs, VerdictInv, Xfers
  <2>3. BufferInv'
    BY <1>1, <1>2 DEF BufferInv, Builds, Busy, CallbackPCs, Expire, Filling, Gens,
       InDrain, InEvDrain, NoTag, Numbers, PreClaim, Results, SeenRec, SenderPCs,
       Shape, States, Tables, Timeouts, Timers, TxErrs, WaitsForFc, Xfers
  <2>4. FrameInv'
    BY <1>1, <1>2 DEF CallbackPCs, Expire, Filled, Filling, First, FrameInv, Gens,
       InDrain, InEvDrain, Left, Numbers, PreClaim, Results, SeenRec, SenderPCs,
       Shape, States, Tables, Timeouts, Timers, TxErrs, Xfers
  <2>5. EchoInv'
    BY <1>1, <1>2 DEF CallbackPCs, EchoInv, Expire, Filled, Filling, Gens, InDrain,
       InEvDrain, Numbers, PreClaim, Results, SeenRec, SenderPCs, Shape, States,
       Tables, Timeouts, Timers, TxErrs, Xfers
  <2>6. SentInv'
    BY <1>1, <1>2 DEF CallbackPCs, Dead, Expire, Filled, Filling, Gens, InDrain,
       InEvDrain, Left, Numbers, PreClaim, Progress, Results, SeenRec, SenderPCs,
       Sent, SentInv, Shape, States, Tables, Timeouts, Timers, TxErrs, WaitsForFc,
       Xfers
  <2> QED
    BY <2>1, <2>2, <2>3, <2>4, <2>5, <2>6 DEF FlowInv
<1>3. ASSUME NEW t \in Timeouts, TimeoutGen(t) PROVE FlowInv'
  <2>1. LocalInv'
    BY <1>1, <1>3 DEF LocalInv, Results, Runs, Step, TimeoutGen, TxErrs
  <2>2. VerdictInv'
    BY <1>1, <1>3 DEF Builds, Busy, CallbackPCs, Filling, Gens, InDrain, InEvDrain,
       Numbers, PreClaim, Results, SeenRec, SenderPCs, Shape, States, Step, Tables,
       TimeoutGen, Timeouts, Timers, TxErrs, VerdictInv, Xfers
  <2>3. BufferInv'
    BY <1>1, <1>3 DEF BufferInv, Builds, Busy, CallbackPCs, Filling, Gens, InDrain,
       InEvDrain, NoTag, Numbers, PreClaim, Results, SeenRec, SenderPCs, Shape,
       States, Step, Tables, TimeoutGen, Timeouts, Timers, TxErrs, WaitsForFc, Xfers
  <2>4. FrameInv'
    BY <1>1, <1>3 DEF CallbackPCs, Filled, Filling, First, FrameInv, Gens, InDrain,
       InEvDrain, Left, Numbers, PreClaim, Results, SeenRec, SenderPCs, Shape, States,
       Step, Tables, TimeoutGen, Timeouts, Timers, TxErrs, Xfers
  <2>5. EchoInv'
    BY <1>1, <1>3 DEF CallbackPCs, EchoInv, Filled, Filling, Gens, InDrain, InEvDrain,
       Numbers, PreClaim, Results, SeenRec, SenderPCs, Shape, States, Step, Tables,
       TimeoutGen, Timeouts, Timers, TxErrs, Xfers
  <2>6. SentInv'
    BY <1>1, <1>3 DEF CallbackPCs, Dead, Filled, Filling, Gens, InDrain, InEvDrain,
       Left, Numbers, PreClaim, Progress, Results, SeenRec, SenderPCs, Sent, SentInv,
       Shape, States, Step, Tables, TimeoutGen, Timeouts, Timers, TxErrs, WaitsForFc,
       Xfers
  <2> QED
    BY <2>1, <2>2, <2>3, <2>4, <2>5, <2>6 DEF FlowInv
<1>4. ASSUME NEW t \in Timeouts, TimeoutState(t) PROVE FlowInv'
  <2>1. \A u \in Timeouts : cb'[u] = "cas" =>
          seen'[u].st \in Busy \/ (cb[u] = "cas" /\ seen'[u].st = seen[u].st)
    BY <1>1, <1>4 DEF TimeoutState, Step, Shape, Tables, SeenRec, States, GaveUp, Busy, Timers
  <2>2. LocalInv'
    BY <1>1, <1>4 DEF GaveUp, LocalInv, Results, Runs, Step, TimeoutState, TxErrs
  <2>3. VerdictInv'
    BY <1>1, <1>4, <2>1 DEF VerdictInv, TimeoutState
  <2>4. BufferInv'
    BY <1>1, <1>4 DEF BufferInv, Builds, Busy, CallbackPCs, Filling, GaveUp, Gens,
       InDrain, InEvDrain, NoTag, Numbers, PreClaim, Results, SeenRec, SenderPCs,
       Shape, States, Step, Tables, TimeoutState, Timeouts, Timers, TxErrs,
       WaitsForFc, Xfers
  <2>5. FrameInv'
    BY <1>1, <1>4 DEF CallbackPCs, Filled, Filling, First, FrameInv, GaveUp, Gens,
       InDrain, InEvDrain, Left, Numbers, PreClaim, Results, SeenRec, SenderPCs,
       Shape, States, Step, Tables, TimeoutState, Timeouts, Timers, TxErrs, Xfers
  <2>6. EchoInv'
    BY <1>1, <1>4 DEF CallbackPCs, EchoInv, Filled, Filling, GaveUp, Gens, InDrain,
       InEvDrain, Numbers, PreClaim, Results, SeenRec, SenderPCs, Shape, States, Step,
       Tables, TimeoutState, Timeouts, Timers, TxErrs, Xfers
  <2>7. SentInv'
    BY <1>1, <1>4 DEF CallbackPCs, Dead, Filled, Filling, GaveUp, Gens, InDrain,
       InEvDrain, Left, Numbers, PreClaim, Progress, Results, SeenRec, SenderPCs,
       Sent, SentInv, Shape, States, Step, Tables, TimeoutState, Timeouts, Timers,
       TxErrs, WaitsForFc, Xfers
  <2> QED
    BY <2>2, <2>3, <2>4, <2>5, <2>6, <2>7 DEF FlowInv
<1>5. ASSUME NEW t \in Timeouts, TimeoutCas(t) PROVE FlowInv'
  <2>1. VerdictInv'
    BY <1>1, <1>5 DEF Begun, BuildInv, Builds, Busy, CallbackPCs, Claims, Dead, Ends,
       Filling, GenInv, Gens, InDrain, InEvDrain, LockInv, Locked, NoTag, Numbers,
       OwnerInv, PhaseInv, PreClaim, Results, Runs, SeenRec, SenderPCs, Shape,
       StateInv, States, Step, Tables, TimeoutCas, Timeouts, Timers, TxErrs, TxHrt,
       VerdictInv, WaitsForFc, WatchInv, Xfers
  <2>2. LocalInv'
    BY SMTT(30), <1>1, <1>5 DEF Begun, Builds, CallbackPCs, Ends, Filling, GenInv, Gens,
       InDrain, InEvDrain, LocalInv, Numbers, PreClaim, Results, Runs, SeenRec,
       SenderPCs, Shape, States, Step, Tables, TimeoutCas, Timeouts, Timers, TxErrs,
       XferInv, Xfers
  <2>3. BufferInv'
    BY <1>1, <1>5 DEF BufferInv, Builds, Busy, CallbackPCs, Filling, Gens, InDrain,
       InEvDrain, NoTag, Numbers, PreClaim, Results, SeenRec, SenderPCs, Shape,
       States, Step, Tables, TimeoutCas, Timeouts, Timers, TxErrs, WaitsForFc, Xfers
  <2>4. FrameInv'
    BY <1>1, <1>5 DEF CallbackPCs, Filled, Filling, First, FrameInv, Gens, InDrain,
       InEvDrain, Left, Numbers, PreClaim, Results, SeenRec, SenderPCs, Shape, States,
       Step, Tables, TimeoutCas, Timeouts, Timers, TxErrs, Xfers
  <2>5. EchoInv'
    BY <1>1, <1>5 DEF CallbackPCs, EchoInv, Filled, Filling, Gens, InDrain, InEvDrain,
       Numbers, PreClaim, Results, SeenRec, SenderPCs, Shape, States, Step, Tables,
       TimeoutCas, Timeouts, Timers, TxErrs, Xfers
  <2>6. SentInv'
    BY <1>1, <1>5 DEF CallbackPCs, Dead, Filled, Filling, Gens, InDrain, InEvDrain,
       Left, Numbers, PreClaim, Progress, Results, SeenRec, SenderPCs, Sent, SentInv,
       Shape, States, Step, Tables, TimeoutCas, Timeouts, Timers, TxErrs, WaitsForFc,
       Xfers
  <2> QED
    BY <2>1, <2>2, <2>3, <2>4, <2>5, <2>6 DEF FlowInv
<1>6. ASSUME NEW t \in Timeouts, TimeoutPost(t) PROVE FlowInv'
  <2>1. VerdictInv'
    BY <1>1, <1>6 DEF Builds, Busy, CallbackPCs, Filling, Gens, InDrain, InEvDrain,
       Numbers, PreClaim, Results, SeenRec, SenderPCs, Shape, Slot, States, Step,
       Tables, TimeoutPost, Timeouts, Timers, TxErrs, VerdictInv, WakeUp, Woken,
       WokenRelease, Xfers, isotp_set_tx_result
  <2>2. LocalInv'
    BY <1>1, <1>6 DEF CallbackPCs, Filling, Gens, InDrain, InEvDrain, LocalInv,
       Numbers, PreClaim, Results, Runs, SeenRec, SenderPCs, Shape, Slot, States,
       Step, Tables, TimeoutPost, Timeouts, Timers, TxErrs, WakeUp, Woken,
       WokenRelease, Xfers, isotp_set_tx_result
  <2>3. BufferInv'
    BY <1>1, <1>6 DEF BufferInv, Builds, Busy, CallbackPCs, Filling, Gens, InDrain,
       InEvDrain, NoTag, Numbers, PreClaim, Results, SeenRec, SenderPCs, Shape, Slot,
       States, Step, Tables, TimeoutPost, Timeouts, Timers, TxErrs, WaitsForFc,
       WakeUp, Woken, WokenRelease, Xfers, isotp_set_tx_result
  <2>4. FrameInv'
    BY <1>1, <1>6 DEF CallbackPCs, Filled, Filling, First, FrameInv, Gens, InDrain,
       InEvDrain, Left, Numbers, PreClaim, Results, SeenRec, SenderPCs, Shape, Slot,
       States, Step, Tables, TimeoutPost, Timeouts, Timers, TxErrs, WakeUp, Woken,
       WokenRelease, Xfers, isotp_set_tx_result
  <2>5. EchoInv'
    BY <1>1, <1>6 DEF CallbackPCs, EchoInv, Filled, Filling, Gens, InDrain, InEvDrain,
       Numbers, PreClaim, Results, SeenRec, SenderPCs, Shape, Slot, States, Step,
       Tables, TimeoutPost, Timeouts, Timers, TxErrs, WakeUp, Woken, WokenRelease,
       Xfers, isotp_set_tx_result
  <2>6. SentInv'
    BY <1>1, <1>6 DEF CallbackPCs, Dead, Filled, Filling, Gens, InDrain, InEvDrain,
       Left, Numbers, PreClaim, Progress, Results, SeenRec, SenderPCs, Sent, SentInv,
       Shape, Slot, States, Step, Tables, TimeoutPost, Timeouts, Timers, TxErrs,
       WaitsForFc, WakeUp, Woken, WokenRelease, Xfers, isotp_set_tx_result
  <2> QED
    BY <2>1, <2>2, <2>3, <2>4, <2>5, <2>6 DEF FlowInv
<1>7. ASSUME TxfrRearm PROVE FlowInv'
  <2>1. LocalInv'
    BY <1>1, <1>7 DEF LocalInv, Results, Runs, Step, TxErrs, TxfrRearm, hrtimer_start
  <2>2. VerdictInv'
    BY <1>1, <1>7 DEF Builds, Busy, CallbackPCs, Filling, Gens, InDrain, InEvDrain,
       Numbers, PreClaim, Results, SeenRec, SenderPCs, Shape, States, Step, Tables,
       Timeouts, Timers, TxErrs, TxfrRearm, VerdictInv, Xfers, hrtimer_start
  <2>3. BufferInv'
    BY <1>1, <1>7 DEF BufferInv, Builds, Busy, CallbackPCs, Filling, Gens, InDrain,
       InEvDrain, NoTag, Numbers, PreClaim, Results, SeenRec, SenderPCs, Shape,
       States, Step, Tables, Timeouts, Timers, TxErrs, TxfrRearm, WaitsForFc, Xfers,
       hrtimer_start
  <2>4. FrameInv'
    BY <1>1, <1>7 DEF CallbackPCs, Filled, Filling, First, FrameInv, Gens, InDrain,
       InEvDrain, Left, Numbers, PreClaim, Results, SeenRec, SenderPCs, Shape, States,
       Step, Tables, Timeouts, Timers, TxErrs, TxfrRearm, Xfers, hrtimer_start
  <2>5. EchoInv'
    BY <1>1, <1>7 DEF CallbackPCs, EchoInv, Filled, Filling, Gens, InDrain, InEvDrain,
       Numbers, PreClaim, Results, SeenRec, SenderPCs, Shape, States, Step, Tables,
       Timeouts, Timers, TxErrs, TxfrRearm, Xfers, hrtimer_start
  <2>6. SentInv'
    BY <1>1, <1>7 DEF CallbackPCs, Dead, Filled, Filling, Gens, InDrain, InEvDrain,
       Left, Numbers, PreClaim, Progress, Results, SeenRec, SenderPCs, Sent, SentInv,
       Shape, States, Step, Tables, Timeouts, Timers, TxErrs, TxfrRearm, WaitsForFc,
       Xfers, hrtimer_start
  <2> QED
    BY <2>1, <2>2, <2>3, <2>4, <2>5, <2>6 DEF FlowInv
<1>8. ASSUME TxfrCheck PROVE FlowInv'
  <2>1. LocalInv'
    BY <1>1, <1>8 DEF LocalInv, NoTag, Results, Runs, Step, TxErrs, TxfrCheck
  <2>2. VerdictInv'
    BY <1>1, <1>8 DEF Builds, Busy, CallbackPCs, Filling, Gens, InDrain, InEvDrain,
       NoTag, Numbers, PreClaim, Results, SeenRec, SenderPCs, Shape, States, Step,
       Tables, Timeouts, Timers, TxErrs, TxfrCheck, VerdictInv, Xfers
  <2>3. BufferInv'
    BY <1>1, <1>8 DEF BufferInv, Builds, Busy, CallbackPCs, Filling, Gens, InDrain,
       InEvDrain, NoTag, Numbers, PreClaim, Results, SeenRec, SenderPCs, Shape,
       States, Step, Tables, Timeouts, Timers, TxErrs, TxfrCheck, WaitsForFc, Xfers
  <2>4. FrameInv'
    BY <1>1, <1>8 DEF CallbackPCs, Filled, Filling, First, FrameInv, Gens, InDrain,
       InEvDrain, Left, NoTag, Numbers, PreClaim, Results, SeenRec, SenderPCs, Shape,
       States, Step, Tables, Timeouts, Timers, TxErrs, TxfrCheck, Xfers
  <2>5. EchoInv'
    BY <1>1, <1>8 DEF CallbackPCs, EchoInv, Filled, Filling, Gens, InDrain, InEvDrain,
       NoTag, Numbers, PreClaim, Results, SeenRec, SenderPCs, Shape, States, Step,
       Tables, Timeouts, Timers, TxErrs, TxfrCheck, Xfers
  <2>6. SentInv'
    BY <1>1, <1>8 DEF CallbackPCs, Dead, Filled, Filling, Gens, InDrain, InEvDrain,
       Left, NoTag, Numbers, PreClaim, Progress, Results, SeenRec, SenderPCs, Sent,
       SentInv, Shape, States, Step, Tables, Timeouts, Timers, TxErrs, TxfrCheck,
       WaitsForFc, Xfers
  <2> QED
    BY <2>1, <2>2, <2>3, <2>4, <2>5, <2>6 DEF FlowInv
<1>9. ASSUME TxfrFill PROVE FlowInv'
  <2>1. /\ cb["txfrtimer"] = "cframe" /\ ~armed["txfrtimer"] /\ tx.idx < tx.len
        /\ hpc = "idle" /\ tx_state \notin WaitsForFc
    BY <1>1, <1>9 DEF TxfrFill, Step, BufferInv, PhaseInv, WaitsForFc, Dead
  <2>2. /\ tx'.xfer = tx.xfer /\ tx'.len = tx.len
        /\ \/ cb'["txfrtimer"] = "off" /\ tx'.idx = tx.idx
           \/ cb'["txfrtimer"] = "emit" /\ tx'.idx = tx.idx + 1
        /\ UNCHANGED <<pc, loc, todo, echoes, cfecho, armed, tx_state, fate, started, hpc>>
    BY <1>1, <1>9, <2>1, FillEffect DEF TxfrFill, Step, Shape, Timers
  <2>3. Left' = Left /\ First' = First /\ tx'.idx - Filled' = tx.idx - Filled
    BY <1>1, <2>1, <2>2 DEF Left, Filled, First, Dead, Numbers, TxRec
  <2>4. Progress /\ cfecho = NoTag /\ tx.xfer # 0 /\ tx.idx >= 1
    <3>1. Progress /\ cfecho = NoTag
      BY <1>1, <2>1 DEF Progress, Dead, PhaseInv, BufferInv
    <3>2. tx.xfer # 0 /\ tx.idx >= 1
      BY <1>1, <2>1 DEF TagInv, BufferInv, Dead, Timers
    <3> QED
      BY <3>1, <3>2
  <2>5. LocalInv'
    BY <1>1, <1>9 DEF CframeFill, LocalInv, Results, Runs, Step, TxErrs, TxfrFill
  <2>6. VerdictInv'
    BY <1>1, <1>9 DEF Builds, Busy, CallbackPCs, CframeFill, Filling, Gens, InDrain,
       InEvDrain, Numbers, PreClaim, Results, SeenRec, SenderPCs, Shape, States, Step,
       Tables, Timeouts, Timers, TxErrs, TxfrFill, VerdictInv, Xfers
  <2>7. BufferInv'
    <3>1. tx.idx \in Nat /\ tx.len \in Nat /\ tx.xfer \in Nat
      BY <1>1 DEF Numbers, TxRec
    <3>2. /\ tx'.idx <= tx'.len /\ tx'.idx >= 1
          /\ hpc' = "emit" \/ cb'["txfrtimer"] = "emit" => tx'.idx >= 2
      BY <1>1, <2>1, <2>2, <2>4, <3>1 DEF BufferInv, Dead
    <3>3. \A q \in Senders : pc'[q] # "arm"
      BY <1>1, <2>1, <2>2 DEF BuildInv, Builds, Dead, Timers
    <3>4. (\/ tx_state' \in WaitsForFc \/ hpc' = "cframe" \/ armed'["txfrtimer"]
           \/ cb'["txfrtimer"] \in {"rearm", "check", "cframe"}) => tx'.idx < tx'.len
      BY <2>1, <2>2 DEF Dead
    <3> QED
      BY <1>1, <2>2, <2>4, <3>2, <3>3, <3>4 DEF BufferInv
  <2>8. FrameInv'
    BY <1>1, <2>2, <2>3 DEF FrameInv
  <2>9. EchoInv'
    BY <1>1, <2>2, <2>3 DEF EchoInv
  <2>10. SentInv'
    BY <1>1, <2>2, <2>3, <2>4 DEF SentInv
  <2> QED
    BY <2>5, <2>6, <2>7, <2>8, <2>9, <2>10 DEF FlowInv
<1>10. ASSUME TxfrEmit PROVE FlowInv'
  <2>1. /\ cb["txfrtimer"] = "emit" /\ ~armed["txfrtimer"] /\ hpc = "idle"
        /\ tx_state \notin WaitsForFc
    BY <1>1, <1>10 DEF TxfrEmit, Step, PhaseInv, WaitsForFc, Dead
  <2>2. /\ cfecho' = <<tx.xfer, tx.idx>> /\ cb'["txfrtimer"] = "off"
        /\ UNCHANGED <<tx, pc, loc, tx_state, armed, hpc, fate, started>>
    BY <1>1, <1>10 DEF TxfrEmit, CframeEmit, Step, Shape, Timers
  <2>3. /\ tx.xfer \in Xfers /\ tx.xfer # 0 /\ tx.idx >= 2 /\ Progress
        /\ \A q \in Senders : pc[q] \notin Builds
    BY <1>1, <2>1 DEF TagInv, BufferInv, BuildInv, Progress, Tables, Xfers, Dead, Timers, Numbers
  <2>4. Filled = 1 /\ Filled' = 0 /\ Left' = Left - 1 /\ First' = First /\ Left \in Nat /\ Left >= 1
    BY <1>1, <2>1, <2>2 DEF Left, Filled, First, Numbers, TxRec, BufferInv, Dead
  <2>5. <<tx.xfer, tx.idx>> \notin echoes
    BY <1>1, <2>4 DEF EchoInv, Numbers, TxRec
  <2>6. \A q \in Senders : pc[q] \in {"arm", "send"} =>
          loc[q].xfer \in Xfers /\ (loc[q].xfer = tx.xfer => First = 1)
    BY <1>1 DEF GenInv, Tables, Xfers, Begun, Builds, Runs, First
  <2>7. \/ /\ echoes' = echoes \cup {<<tx.xfer, tx.idx>>}
           /\ todo'[tx.xfer] = todo[tx.xfer] - 1
           /\ \A y \in Xfers : y # tx.xfer => todo'[y] = todo[y]
        \/ UNCHANGED <<echoes, todo>> /\ ~Progress'
    BY <1>1, <1>10, <2>1, <2>2, <2>3, <2>5 DEF TxfrEmit, CframeEmit, Tables, Progress, Dead
  <2>8. LocalInv'
    BY <1>1, <1>10 DEF CframeEmit, LocalInv, Results, Runs, Step, TxErrs, TxfrEmit
  <2>9. VerdictInv'
    BY <1>1, <1>10 DEF Builds, Busy, CallbackPCs, CframeEmit, Filling, Gens, InDrain,
       InEvDrain, Numbers, PreClaim, Results, SeenRec, SenderPCs, Shape, States, Step,
       Tables, Timeouts, Timers, TxErrs, TxfrEmit, VerdictInv, Xfers
  <2>10. BufferInv'
    BY <1>1, <1>10 DEF BufferInv, Builds, Busy, CallbackPCs, CframeEmit, Dead,
       Filling, Gens, InDrain, InEvDrain, NoTag, Numbers, PhaseInv, PreClaim, Results,
       SeenRec, SenderPCs, Shape, States, Step, Tables, TagInv, Timeouts, Timers,
       TxErrs, TxfrEmit, WaitsForFc, Xfers
  <2>11. FrameInv'
    <3>1. todo[tx.xfer] >= Left + First /\ todo[tx.xfer] \in Int /\ First \in {0, 1}
      BY <1>1, <2>3 DEF FrameInv, Tables, First
    <3>2. \A x \in Xfers : todo'[x] >= 0
      BY <1>1, <2>3, <2>4, <2>7, <3>1 DEF FrameInv, Tables
    <3>3. todo'[tx.xfer] >= Left' + First'
      BY <2>4, <2>7, <3>1
    <3>4. \A q \in Senders : pc[q] \in {"arm", "send"} => todo'[loc[q].xfer] >= 1
      BY <1>1, <2>4, <2>6, <2>7, <3>1 DEF FrameInv, Tables
    <3> QED
      BY <2>2, <3>2, <3>3, <3>4 DEF FrameInv
  <2>12. EchoInv'
    BY <1>1, <2>2, <2>3, <2>4, <2>7 DEF EchoInv, Numbers, TxRec
  <2>13. SentInv'
    <3>1. todo[tx.xfer] \in Int
      BY <1>1, <2>3 DEF Tables
    <3> QED
      BY <1>1, <2>2, <2>3, <2>4, <2>7, <3>1 DEF SentInv, Builds
  <2> QED
    BY <2>8, <2>9, <2>10, <2>11, <2>12, <2>13 DEF FlowInv
<1> QED
  BY <1>2, <1>3, <1>4, <1>5, <1>6, <1>7, <1>8, <1>9, <1>10 DEF TimeoutStep, TxfrStep

\* Every step of bind(), release() and the notifier preserves FlowInv.
LEMMA LifecycleFlow ==
  ASSUME TypeOK, ShutdownInv, NoLapse, TransferInv, Bounded, FlowInv,
         \/ BindCheck \/ BindRegister \/ NetdevUnregister \/ NetdevDown \/ GracePeriodEnds
         \/ SockError \/ Close \/ ReleaseInterrupted \/ ReleaseNext
  PROVE  FlowInv'
<1> USE DEF bindVars, sockVars, lockVars, timerVars, callVars, histVars
<1>1. Shape /\ Numbers /\ Tables /\ NoLapse /\ Bounded /\ LockInv /\ StateInv /\ GenInv
      /\ XferInv /\ TagInv /\ OwnerInv /\ BuildInv /\ PhaseInv /\ WatchInv /\ VerdictInv
      /\ LocalInv /\ BufferInv /\ FrameInv /\ EchoInv /\ SentInv
  BY ShapeHolds, NumbersHold, TablesHold DEF ShutdownInv, TransferInv, FlowInv
<1>2. ASSUME BindCheck PROVE FlowInv'
    BY <1>1, <1>2 DEF BindCheck, BufferInv, Builds, Busy, Dead, EchoInv, Filled,
       First, FlowInv, FrameInv, Left, LocalInv, NoTag, Progress, Results, Runs, Sent,
       SentInv, Timeouts, TxErrs, VerdictInv, WaitsForFc, Xfers
<1>3. ASSUME BindRegister PROVE FlowInv'
  <2>1. VerdictInv' /\ LocalInv' /\ FrameInv' /\ EchoInv'
    BY <1>1, <1>3 DEF BindRegister, Builds, Busy, EchoInv, Filled, First, FrameInv,
       Left, LocalInv, NoTag, Results, Runs, Timeouts, TxErrs, VerdictInv, Xfers
  <2>2. BufferInv'
    BY <1>1, <1>3 DEF BindRegister, BufferInv, Builds, Busy, CallbackPCs, Filling,
       Gens, InDrain, InEvDrain, NoTag, Numbers, PreClaim, Results, SeenRec,
       SenderPCs, Shape, States, Tables, Timeouts, Timers, TxErrs, WaitsForFc, Xfers
  <2>3. SentInv'
    BY <1>1, <1>3 DEF Begun, BindRegister, BufferInv, BuildInv, Builds, Busy,
       CallbackPCs, Dead, EchoInv, Ends, Filled, Filling, First, FrameInv, GenInv,
       Gens, InDrain, InEvDrain, Left, NoTag, Numbers, PhaseInv, PreClaim, Progress,
       Results, Runs, SeenRec, SenderPCs, Sent, SentInv, Shape, States, Tables,
       TagInv, Timeouts, Timers, TxErrs, TxHrt, WaitsForFc, XferInv, Xfers
  <2> QED
    BY <2>1, <2>2, <2>3 DEF FlowInv
<1>4. ASSUME NetdevUnregister PROVE FlowInv'
    BY <1>1, <1>4 DEF BufferInv, Builds, Busy, Dead, EchoInv, Filled, First, FlowInv,
       FrameInv, Left, LocalInv, NetdevUnregister, NoTag, Notified, Progress, Results,
       Runs, Sent, SentInv, Timeouts, TxErrs, Unbind, VerdictInv, WaitsForFc, Xfers
<1>5. ASSUME NetdevDown PROVE FlowInv'
    BY <1>1, <1>5 DEF BufferInv, Builds, Busy, Dead, EchoInv, Filled, First, FlowInv,
       FrameInv, Left, LocalInv, NetdevDown, NoTag, Notified, Progress, Results, Runs,
       Sent, SentInv, Timeouts, TxErrs, VerdictInv, WaitsForFc, Xfers
<1>6. ASSUME GracePeriodEnds PROVE FlowInv'
    BY <1>1, <1>6 DEF BufferInv, Builds, Busy, Dead, EchoInv, Filled, First, FlowInv,
       FrameInv, GracePeriodEnds, Left, LocalInv, NoTag, Progress, Results, Runs,
       Sent, SentInv, Timeouts, TxErrs, VerdictInv, WaitsForFc, Xfers
<1>7. ASSUME SockError PROVE FlowInv'
    BY <1>1, <1>7 DEF BufferInv, Builds, Busy, Dead, EchoInv, Filled, First, FlowInv,
       FrameInv, Left, LocalInv, NoTag, Progress, Results, Runs, Sent, SentInv,
       SockError, Timeouts, TxErrs, VerdictInv, WaitsForFc, Xfers
<1>8. ASSUME Close PROVE FlowInv'
    BY <1>1, <1>8 DEF BufferInv, Builds, Busy, Close, Dead, EchoInv, Filled, First,
       FlowInv, FrameInv, Left, LocalInv, NoTag, Progress, ReleaseStep, Results, Runs,
       Sent, SentInv, Timeouts, TxErrs, VerdictInv, WaitsForFc, Xfers
<1>9. ASSUME ReleaseInterrupted PROVE FlowInv'
    BY <1>1, <1>9 DEF BufferInv, Builds, Busy, Dead, EchoInv, Filled, First, FlowInv,
       FrameInv, Left, LocalInv, NoTag, Progress, ReleaseInterrupted, ReleaseStep,
       Results, Runs, Sent, SentInv, Timeouts, TxErrs, VerdictInv, WaitsForFc, Xfers
<1>10. ASSUME ReleaseWait PROVE FlowInv'
    BY <1>1, <1>10 DEF BufferInv, Builds, Busy, Dead, EchoInv, Filled, First, FlowInv,
       FrameInv, Left, LocalInv, NoTag, Progress, ReleaseStep, ReleaseWait, Results,
       Runs, Sent, SentInv, Timeouts, TxErrs, VerdictInv, WaitsForFc, Xfers
<1>11. ASSUME ReleaseShutdown PROVE FlowInv'
  <2>1. VerdictInv'
    BY <1>1, <1>11 DEF Builds, Busy, CallbackPCs, Filling, Gens, InDrain, InEvDrain,
       Numbers, PreClaim, ReleaseShutdown, ReleaseStep, Results, SeenRec, SenderPCs,
       Shape, States, Tables, Timeouts, Timers, TxErrs, VerdictInv, Woken, Xfers
  <2>2. LocalInv'
    BY <1>1, <1>11 DEF CallbackPCs, Filling, Gens, InDrain, InEvDrain, LocalInv,
       Numbers, PreClaim, ReleaseShutdown, ReleaseStep, Results, Runs, SeenRec,
       SenderPCs, Shape, States, Tables, Timeouts, Timers, TxErrs, Woken, Xfers
  <2>3. BufferInv'
    BY <1>1, <1>11 DEF BufferInv, Builds, Busy, CallbackPCs, Filling, Gens, InDrain,
       InEvDrain, NoTag, Numbers, PreClaim, ReleaseShutdown, ReleaseStep, Results,
       SeenRec, SenderPCs, Shape, States, Tables, Timeouts, Timers, TxErrs,
       WaitsForFc, Woken, Xfers
  <2>4. FrameInv'
    BY <1>1, <1>11 DEF CallbackPCs, Filled, Filling, First, FrameInv, Gens, InDrain,
       InEvDrain, Left, Numbers, PreClaim, ReleaseShutdown, ReleaseStep, Results,
       SeenRec, SenderPCs, Shape, States, Tables, Timeouts, Timers, TxErrs, Woken,
       Xfers
  <2>5. EchoInv'
    BY <1>1, <1>11 DEF CallbackPCs, EchoInv, Filled, Filling, Gens, InDrain,
       InEvDrain, Numbers, PreClaim, ReleaseShutdown, ReleaseStep, Results, SeenRec,
       SenderPCs, Shape, States, Tables, Timeouts, Timers, TxErrs, Woken, Xfers
  <2>6. SentInv'
    BY <1>1, <1>11 DEF CallbackPCs, Dead, Filled, Filling, Gens, InDrain, InEvDrain,
       Left, Numbers, PreClaim, Progress, ReleaseShutdown, ReleaseStep, Results,
       SeenRec, SenderPCs, Sent, SentInv, Shape, States, Tables, Timeouts, Timers,
       TxErrs, WaitsForFc, Woken, Xfers
  <2> QED
    BY <2>1, <2>2, <2>3, <2>4, <2>5, <2>6 DEF FlowInv
<1>12. ASSUME ReleaseUnregister PROVE FlowInv'
    BY <1>1, <1>12 DEF BufferInv, Builds, Busy, Dead, EchoInv, Filled, First, FlowInv,
       FrameInv, Left, LocalInv, NoTag, Progress, ReleaseStep, ReleaseUnregister,
       Results, Runs, Sent, SentInv, Timeouts, TxErrs, Unbind, VerdictInv, WaitsForFc,
       Xfers
<1>13. ASSUME ReleaseSync PROVE FlowInv'
    BY <1>1, <1>13 DEF BufferInv, Builds, Busy, Dead, Drains, EchoInv, Filled, First,
       FlowInv, FrameInv, Left, LocalInv, NoTag, Progress, ReleaseStep, ReleaseSync,
       Results, Runs, Sent, SentInv, Timeouts, TxErrs, VerdictInv, WaitsForFc, Xfers
<1>14. ASSUME ReleaseDrain PROVE FlowInv'
  <2>1. VerdictInv' /\ LocalInv' /\ FrameInv' /\ EchoInv'
    BY <1>1, <1>14 DEF Builds, Busy, DrainOrder, Drains, EchoInv, Filled, First,
       FrameInv, Left, LocalInv, ReleaseDrain, ReleaseStep, Results, Runs, Timeouts,
       TxErrs, VerdictInv, Xfers, hrtimer_cancel
  <2>2. BufferInv'
    BY <1>1, <1>14 DEF BufferInv, Builds, Busy, CallbackPCs, DrainOrder, Drains,
       Filling, Gens, InDrain, InEvDrain, NoTag, Numbers, PreClaim, ReleaseDrain,
       ReleaseStep, Results, SeenRec, SenderPCs, Shape, States, Tables, Timeouts,
       Timers, TxErrs, WaitsForFc, Xfers, hrtimer_cancel
  <2>3. SentInv'
    BY <1>1, <1>14 DEF CallbackPCs, Dead, DrainOrder, Drains, Filled, Filling, Gens,
       InDrain, InEvDrain, Left, Numbers, PreClaim, Progress, ReleaseDrain,
       ReleaseStep, Results, SeenRec, SenderPCs, Sent, SentInv, Shape, States, Tables,
       Timeouts, Timers, TxErrs, WaitsForFc, Xfers, hrtimer_cancel
  <2> QED
    BY <2>1, <2>2, <2>3 DEF FlowInv
<1> QED
  BY <1>2, <1>3, <1>4, <1>5, <1>6, <1>7, <1>8, <1>9, <1>10, <1>11, <1>12, <1>13, <1>14
     DEF ReleaseNext

\* A new socket satisfies FlowInv.
LEMMA FlowInit == Init => FlowInv
<1> SUFFICES ASSUME Init PROVE FlowInv
  OBVIOUS
<1> USE TxAssumption DEF Init, NoTag
<1>1. VerdictInv /\ LocalInv
  BY DEF VerdictInv, LocalInv, Builds, Runs, Busy, Xfers, Timeouts, Timers
<1>2. BufferInv /\ EchoInv
  BY DEF BufferInv, EchoInv, Busy, WaitsForFc, Timers
<1>3. FrameInv /\ SentInv
  BY DEF FrameInv, SentInv, Sent, Xfers
<1> QED
  BY <1>1, <1>2, <1>3 DEF FlowInv

\* FlowInv is inductive relative to the invariants before it.
LEMMA FlowStep ==
  TypeOK /\ ShutdownInv /\ NoLapse /\ TransferInv /\ Bounded /\ FlowInv /\ [Next]_vars
    => FlowInv'
<1> SUFFICES ASSUME TypeOK, ShutdownInv, NoLapse, TransferInv, Bounded, FlowInv, [Next]_vars
             PROVE  FlowInv'
  OBVIOUS
<1>1. CASE Next
  BY <1>1, SenderFlow, SoftirqFlow, TimerFlow, LifecycleFlow DEF Next
<1>2. CASE UNCHANGED vars
  <2> USE <1>2 DEF vars, bindVars, sockVars, lockVars, timerVars, callVars, histVars
  <2>1. VerdictInv' /\ LocalInv' /\ BufferInv'
    BY DEF FlowInv, VerdictInv, LocalInv, BufferInv
  <2>2. Left' = Left /\ First' = First /\ Filled' = Filled /\ Progress' = Progress
    BY DEF Left, First, Filled, Progress, Dead
  <2>3. FrameInv' /\ EchoInv' /\ SentInv'
    BY <2>2 DEF FlowInv, FrameInv, EchoInv, SentInv
  <2> QED
    BY <2>1, <2>3 DEF FlowInv
<1> QED
  BY <1>1, <1>2

-----------------------------------------------------------------------------
(* The bound of the model is kept, and with it no generation is used twice. *)

\* Except for Sendmsg and Commit, no step of a caller adds to Pending.
LEMMA SenderPending ==
  ASSUME TypeOK, NEW s \in Senders, SendStep(s) \/ Interrupted(s), ~Commit(s)
  PROVE  started' = started /\ Pending' \subseteq Pending
<1> USE DEF histVars, Pending, Shape, Goto, Fail, Return, PreClaim, InDrain, InEvDrain
<1>1. Shape
  BY ShapeHolds
<1>2. \A q \in Senders :
        Woken(pc)[q] \in PreClaim \cup InDrain \cup {"commit"} =>
          pc[q] \in PreClaim \cup InDrain \cup {"commit"}
  BY <1>1, WokenStages
<1>3. CASE Claim(s) \/ ClaimBusy(s) \/ WaitIdle(s)
  BY <1>1, <1>3 DEF Claim, ClaimBusy, WaitIdle, Drains
<1>4. CASE Drain(s)
  <2>1. pc' = [pc EXCEPT ![s] = pc'[s]] /\ started' = started
    BY <1>1, <1>4 DEF Drain
  <2>2. pc'[s] \in InDrain \cup {"commit"} => pc[s] \in InDrain
    BY <1>1, <1>4 DEF Drain, Drains, EvDrains
  <2>3. pc'[s] \notin PreClaim
    BY <1>1, <1>4 DEF Drain, Drains, EvDrains
  <2> QED
    BY <1>1, <2>1, <2>2, <2>3
<1>5. CASE Publish(s) \/ Recheck(s) \/ BuildFails(s) \/ Build(s)
  BY <1>1, <1>5 DEF Publish, Recheck, BuildFails, Build
<1>6. CASE Arm(s)
  BY <1>1, <1>2, <1>6 DEF Arm, ReturnAndWake, Woken
<1>7. CASE Send(s) \/ ErrLock(s) \/ CancelOwn(s) \/ DropLock(s)
  BY <1>1, <1>7 DEF Send, ErrLock, CancelOwn, DropLock, EvDrains
<1>8. CASE Drop(s)
  BY <1>1, <1>2, <1>8 DEF Drop, ReturnAndWake, Woken
<1>9. CASE WaitDone(s) \/ WokenDone(s) \/ ReadResult(s) \/ Interrupted(s)
  BY <1>1, <1>9 DEF WaitDone, WokenDone, ReadResult, Interrupted
<1> QED
  BY <1>3, <1>4, <1>5, <1>6, <1>7, <1>8, <1>9 DEF SendStep

\* A step that is not a caller's at most wakes the sleepers.
LEMMA OtherCalls ==
  ASSUME Next, ~\E s \in Senders : Sendmsg(s) \/ SendStep(s) \/ Interrupted(s)
  PROVE  UNCHANGED <<started, loc, out>> /\ (pc' = pc \/ pc' = Woken(pc))
<1> USE DEF histVars, callVars
<1>1. CASE FcArrives \/ (\E e \in echoes : EchoArrives(e)) \/ SoftirqStep
  BY <1>1 DEF FcArrives, EchoArrives, SoftirqStep, FcCancel, FcMalformed, FcStatus, Finish,
     WakeUp, EchoCancel, EchoBody, SoftirqFill, SoftirqEmit
<1>2. CASE (\E t \in Timers : Expire(t)) \/ (\E t \in Timeouts : TimeoutStep(t)) \/ TxfrStep
  BY <1>2 DEF Expire, TimeoutStep, TimeoutGen, TimeoutState, TimeoutCas, TimeoutPost, WakeUp,
     TxfrStep, TxfrRearm, TxfrCheck, TxfrFill, TxfrEmit
<1>3. CASE \/ BindCheck \/ BindRegister \/ NetdevUnregister \/ NetdevDown \/ GracePeriodEnds
           \/ SockError \/ Close \/ ReleaseInterrupted \/ ReleaseNext
  BY <1>3 DEF BindCheck, BindRegister, NetdevUnregister, NetdevDown, GracePeriodEnds,
     SockError, Close, ReleaseInterrupted, ReleaseNext, ReleaseWait, ReleaseShutdown,
     ReleaseUnregister, ReleaseSync, ReleaseDrain
<1> QED
  BY <1>1, <1>2, <1>3 DEF Next

\* Nor does a step of the softirq, a timer, bind(), release() or a notifier.
LEMMA OtherPending ==
  ASSUME TypeOK, Next,
         ~\E s \in Senders : Sendmsg(s) \/ SendStep(s) \/ Interrupted(s)
  PROVE  started' = started /\ Pending' \subseteq Pending
<1>1. \A q \in Senders :
        Woken(pc)[q] \in PreClaim \cup InDrain \cup {"commit"} =>
          pc[q] \in PreClaim \cup InDrain \cup {"commit"}
  BY ShapeHolds, WokenStages DEF PreClaim, InDrain
<1> QED
  BY <1>1, OtherCalls DEF Pending

\* Sendmsg reserves the transfer that Commit uses.
LEMMA BoundedStep == TypeOK /\ Bounded /\ [Next]_vars => Bounded'
<1> SUFFICES ASSUME TypeOK, Bounded, [Next]_vars PROVE Bounded'
  OBVIOUS
<1>1. Shape /\ started \in Nat /\ MaxXfer \in Nat
  BY ShapeHolds, TxAssumption DEF TypeOK
<1>2. IsFiniteSet(Pending) /\ Cardinality(Pending) \in Nat
  BY TxSizeAssumption, FS_Subset, FS_CardinalityType DEF Pending
<1>3. ASSUME started' = started, Pending' \subseteq Pending PROVE Bounded'
  <2>1. Cardinality(Pending') <= Cardinality(Pending) /\ Cardinality(Pending') \in Nat
    BY <1>2, <1>3, FS_Subset, FS_CardinalityType
  <2> QED
    BY <1>1, <1>2, <1>3, <2>1 DEF Bounded
<1>4. ASSUME NEW s \in Senders, Sendmsg(s) PROVE Bounded'
  <2>0. env.xfers \in 0..MaxXfer
    BY TxAssumption DEF TypeOK
  <2>1. started + Cardinality(Pending) < MaxXfer /\ started' = started
    BY <1>1, <1>2, <1>4, <2>0 DEF Sendmsg, Pending, histVars
  <2>2. s \notin Pending /\ Pending' = Pending \cup {s}
    BY <1>1, <1>4 DEF Sendmsg, Pending, Goto, Shape, PreClaim, InDrain
  <2>3. Cardinality(Pending') = Cardinality(Pending) + 1
    BY <1>2, <2>2, FS_AddElement
  <2> QED
    BY <1>1, <1>2, <2>1, <2>3 DEF Bounded
<1>5. ASSUME NEW s \in Senders, Commit(s) PROVE Bounded'
  <2>1. s \in Pending /\ Pending' = Pending \ {s} /\ started' = started + 1
    BY <1>1, <1>5 DEF Commit, Pending, Goto, Shape, PreClaim, InDrain
  <2>2. Cardinality(Pending') = Cardinality(Pending) - 1
    BY <1>2, <2>1, FS_RemoveElement
  <2> QED
    BY <1>1, <1>2, <2>1, <2>2 DEF Bounded
<1>6. CASE UNCHANGED vars
  BY <1>3, <1>6 DEF vars, callVars, histVars, Pending
<1>7. ASSUME NEW s \in Senders, SendStep(s) \/ Interrupted(s) PROVE Bounded'
  BY <1>3, <1>5, <1>7, SenderPending
<1>8. CASE Next /\ ~\E s \in Senders : Sendmsg(s) \/ SendStep(s) \/ Interrupted(s)
  BY <1>3, <1>8, OtherPending
<1> QED
  BY <1>4, <1>6, <1>7, <1>8

\* No call is under way on a new socket.
LEMMA BoundedInit == Init => Bounded
<1> SUFFICES ASSUME Init PROVE Bounded
  OBVIOUS
<1>1. Pending = {}
  BY DEF Init, Pending, PreClaim, InDrain
<1> QED
  BY <1>1, FS_EmptySet, TxAssumption DEF Init, Bounded

\* The history functions are defined for every transfer that begins.
LEMMA BoundKept == Spec => []Bounded
  BY TypeCorrect, BoundedInit, BoundedStep, PTL DEF Spec

\* Within GenMod transfers (ISOTP_TX_RESULT_GEN_MASK + 1) no caller can sleep
\* through GenMod of them: there the theorems hold without the hypothesis.
THEOREM LapseFree == ASSUME MaxXfer <= GenMod PROVE Spec => []NoLapse
<1>1. TypeOK /\ Bounded /\ TransferInv => NoLapse
  <2> SUFFICES ASSUME TypeOK, Bounded, TransferInv, NEW s \in Senders, pc[s] \in Begun
               PROVE  started - loc[s].xfer < GenMod
    BY DEF NoLapse
  <2>1. started <= MaxXfer /\ MaxXfer \in Nat /\ GenMod \in Nat
    BY TablesHold, TxAssumption DEF Tables
  <2>2. loc[s].xfer \in 1..started /\ started \in Nat
    BY DEF TransferInv, GenInv, TypeOK
  <2> QED
    BY <2>1, <2>2
<1>2. TypeOK /\ ShutdownInv /\ Bounded /\ TransferInv /\ [Next]_vars => TransferInv'
  BY <1>1, TransferStep
<1> QED
  BY <1>1, <1>2, TransferInit, TypeCorrect, ShutdownInvariant, BoundKept, PTL DEF Spec

-----------------------------------------------------------------------------
(* The properties. *)

\* tx.state, the verdict, so->tx, so->cfecho and the frames still to be sent
\* agree in every state of the transmit path.
THEOREM FlowInvariant == Spec /\ []NoLapse => []FlowInv
  BY FlowInit, FlowStep, TypeCorrect, ShutdownInvariant, TransferInvariant, BoundKept, PTL
     DEF Spec

\* isotp_sendmsg() and isotp_send_cframe() hand each frame of a PDU to the device
\* at most once, whoever sends it and whatever fails.
THEOREM FramesOnce == Spec /\ []NoLapse => []NoFrameTwice
<1>1. FlowInv => NoFrameTwice
  BY DEF FlowInv, FrameInv, NoFrameTwice
<1> QED
  BY <1>1, FlowInvariant, PTL

\* Every step begins a transfer, ends the one that runs, or does neither.
LEMMA VerdictStep ==
  ASSUME TypeOK, ShutdownInv, TransferInv, Bounded, FlowInv, [Next]_vars
  PROVE  [Abs!Next]_<<started, fate>>
<1> USE DEF histVars
<1>1. Shape /\ Numbers /\ Tables /\ LockInv /\ StateInv /\ GenInv /\ OwnerInv /\ PhaseInv
      /\ WatchInv /\ VerdictInv
  BY ShapeHolds, NumbersHold, TablesHold DEF ShutdownInv, TransferInv, FlowInv
<1>2. ASSUME tx_state \in Busy, hpc # "finish",
             NEW v \in Abs!Verdicts, started' = started, fate' = [fate EXCEPT ![started] = v]
      PROVE  Abs!End(v)
  BY <1>1, <1>2 DEF VerdictInv, Numbers, Abs!End, Abs!Running
<1>3. ASSUME NEW s \in Senders, Commit(s) PROVE Abs!Begin
  <2>1. /\ pc[s] = "commit" /\ tx_state = "IDLE" /\ started' = started + 1
        /\ fate' = [fate EXCEPT ![started + 1] = "run"]
    BY <1>1, <1>3 DEF Commit, StateInv
  <2>2. ~(started > 0 /\ fate[started] = "run")
    BY <1>1, <2>1 DEF VerdictInv, OwnerInv, Claims, Numbers
  <2>3. started + 1 \in Xfers
    BY <1>1, <2>1, PendingRoom DEF Tables, Xfers
  <2> QED
    BY <2>1, <2>2, <2>3 DEF Abs!Begin, Abs!Running
<1>4. ASSUME NEW s \in Senders, Drop(s) PROVE Abs!End("drop") \/ UNCHANGED <<started, fate>>
  <2>1. loc[s].xfer = started /\ started \in Nat /\ started >= 1
    BY <1>1, <1>4 DEF Drop, GenInv, Begun, Ends, Numbers
  <2>2. CASE fate[started] = "run"
    BY <1>4, <2>1, <2>2 DEF Drop, Abs!End, Abs!Running
  <2>3. CASE fate[started] # "run"
    BY <1>1, <1>4, <2>1, <2>3 DEF Drop, Tables
  <2> QED
    BY <2>2, <2>3
<1>5. ASSUME NEW s \in Senders, Sendmsg(s) \/ SendStep(s) \/ Interrupted(s),
             ~Commit(s), ~Drop(s)
      PROVE  UNCHANGED <<started, fate>>
  BY <1>5 DEF Sendmsg, SendStep, Interrupted, Claim, ClaimBusy, WaitIdle, Drain, Publish,
     Recheck, BuildFails, Build, Arm, Send, ErrLock, CancelOwn, DropLock, WaitDone, WokenDone,
     ReadResult
<1>6. CASE FcMalformed \/ FcStatus
  <2>1. /\ hpc = "fc_body" /\ started' = started
        /\ \/ fate' = fate
           \/ \E e \in {"EMSGSIZE", "EBADMSG"} : fate' = [fate EXCEPT ![started] = e]
    BY <1>6 DEF FcMalformed, FcStatus, FcErr, FcCts, FcWt, FcRefused
  <2>2. tx_state \in Busy
    BY <1>1, <2>1 DEF PhaseInv, WaitsForFc, Busy
  <2> QED
    BY <1>2, <2>1, <2>2 DEF Abs!Next, Abs!Verdicts
<1>7. CASE EchoBody
  <2>1. /\ hpc = "ec_body" /\ started' = started
        /\ fate' = fate \/ fate' = [fate EXCEPT ![started] = "ok"]
    BY <1>7 DEF EchoBody, EchoDone, EchoWaitFc, EchoBurst, EchoGap
  <2>2. tx_state \in Busy
    BY <1>1, <2>1 DEF PhaseInv, Busy
  <2> QED
    BY <1>2, <2>1, <2>2 DEF Abs!Next, Abs!Verdicts
<1>8. ASSUME NEW t \in Timeouts, TimeoutCas(t) PROVE [Abs!Next]_<<started, fate>>
  <2>1. /\ cb[t] = "cas" /\ started' = started
        /\ \/ fate' = fate
           \/ tx_state = seen[t].st /\ fate' = [fate EXCEPT ![started] = "ECOMM"]
    BY <1>8 DEF TimeoutCas, Step
  <2>2. tx_state = seen[t].st => tx_state \in Busy /\ hpc # "finish"
    BY <1>1, <2>1 DEF VerdictInv, PhaseInv, Dead, Timers
  <2> QED
    BY <1>2, <2>1, <2>2 DEF Abs!Next, Abs!Verdicts
<1>9. CASE (\E e \in echoes : EchoArrives(e)) \/ FcArrives \/ FcCancel \/ Finish \/ EchoCancel
           \/ SoftirqFill \/ SoftirqEmit
  BY <1>9 DEF EchoArrives, FcArrives, FcCancel, Finish, EchoCancel, SoftirqFill, SoftirqEmit
<1>10. CASE \/ \E t \in Timers : Expire(t)
            \/ \E t \in Timeouts : TimeoutGen(t) \/ TimeoutState(t) \/ TimeoutPost(t)
            \/ TxfrStep
  BY <1>10 DEF Expire, TimeoutGen, TimeoutState, TimeoutPost, TxfrStep, TxfrRearm, TxfrCheck,
     TxfrFill, TxfrEmit
<1>11. CASE \/ BindCheck \/ BindRegister \/ NetdevUnregister \/ NetdevDown \/ GracePeriodEnds
            \/ SockError \/ Close \/ ReleaseInterrupted \/ ReleaseNext
  BY <1>11 DEF BindCheck, BindRegister, NetdevUnregister, NetdevDown, GracePeriodEnds,
     SockError, Close, ReleaseInterrupted, ReleaseNext, ReleaseWait, ReleaseShutdown,
     ReleaseUnregister, ReleaseSync, ReleaseDrain
<1>12. CASE UNCHANGED vars
  BY <1>12 DEF vars
<1> QED
  BY <1>3, <1>4, <1>5, <1>6, <1>7, <1>8, <1>9, <1>10, <1>11, <1>12
     DEF Next, SoftirqStep, TimeoutStep, Abs!Next, Abs!Verdicts

\* The transmit path implements IsotpTxAbs: isotp_sendmsg() begins a transfer
\* only when none runs, and the softirq, a timeout or a failed call ends it once.
THEOREM ImplementsOneAtATime == Spec /\ []NoLapse => ImplementsAbs
<1>1. Init => Abs!Init
  BY DEF Init, Abs!Init
<1>2. TypeOK /\ ShutdownInv /\ TransferInv /\ Bounded /\ FlowInv /\ [Next]_vars
        => [Abs!Next]_<<started, fate>>
  BY VerdictStep
<1> QED
  BY <1>1, <1>2, TypeCorrect, ShutdownInvariant, TransferInvariant, BoundKept, FlowInvariant,
     PTL DEF Spec, ImplementsAbs, Abs!Spec

-----------------------------------------------------------------------------
(* What sendmsg() reports under CAN_ISOTP_WAIT_TX_DONE.  The results are in *)
(* a ring of ISOTP_TX_RESULT_SLOTS entries, tagged with a generation that   *)
(* wraps; a timeout writes there without so->rx_lock.                       *)


\* What a caller would read in its slot is what became of its transfer; and it
\* is there unless ISOTP_TX_RESULT_SLOTS transfers have begun since.
SlotOf(s) ==
  LET x == loc[s].xfer
      r == tx_result[Slot(loc[s].gen)]
  IN /\ r.gen = loc[s].gen /\ r.err # "ECOMM" => fate[x] = r.err
     /\ started < x + Slots =>
          /\ r.gen = loc[s].gen
          /\ fate[x] \in {"ok", "EBADMSG", "EMSGSIZE"} => r.err = fate[x]
SlotInv == \A s \in Senders : pc[s] \in Begun => SlotOf(s)

\* Of a transfer that succeeded every frame is sent; only the call that sends
\* the first one may not have noticed yet.
AllSentInv ==
  \A s \in Senders : pc[s] \in Begun /\ fate[loc[s].xfer] = "ok" =>
    /\ pc[s] = "send" => todo[loc[s].xfer] = 1
    /\ pc[s] \in Sent => todo[loc[s].xfer] = 0

\* A timeout writes to the slot of the transfer it ended.
TimeoutInv ==
  \A t \in Timeouts :
    /\ cb[t] \in {"state", "cas", "post"} => seen[t].gen = tx_gen
    /\ cb[t] = "post" => started >= 1 /\ fate[started] = "ECOMM"

\* A caller that reads the result has seen its transfer end.
DoneInv ==
  \A s \in Senders :
    /\ pc[s] = "woken" => \/ fate[loc[s].xfer] # "run"
                          \/ loc[s].xfer = started /\ tx_state = "SHUTDOWN"
    /\ pc[s] = "result" => fate[loc[s].xfer] # "run"

\* What a call has returned stays true of its transfer.
OutOf(s) ==
  LET x == out[s].xfer
  IN /\ out[s].res \in Results => x \in 1..started
     /\ out[s].res = "ok" => fate[x] = "ok" /\ todo[x] = 0
     /\ out[s].res \in {"EBADMSG", "EMSGSIZE"} => fate[x] = out[s].res
     /\ out[s].res = "ECOMM" => fate[x] = "ECOMM" \/ started >= x + Slots
OutInv == WaitTxDone => \A s \in Senders : OutOf(s)

ResultInv == SlotInv /\ AllSentInv /\ TimeoutInv /\ DoneInv /\ OutInv

\* The invariants that are proved already.
Known ==
  /\ TypeOK /\ ShutdownInv /\ NoLapse /\ TransferInv /\ Bounded /\ FlowInv

-----------------------------------------------------------------------------
(* Generations and slots. *)

\* Fewer than ISOTP_TX_RESULT_SLOTS generations apart, two transfers have
\* different slots, also where the generation has wrapped in between.
LEMMA SlotDistance ==
  ASSUME NEW g \in Gens, NEW h \in Gens, NEW d \in 1..(Slots - 1),
         h = g + d \/ h = g + d - GenMod
  PROVE  Slot(g) # Slot(h)
<1> DEFINE G == g \div Slots
           H == h \div Slots
           M == GenMod \div Slots
<1>1. /\ Slots \in Nat \ {0} /\ GenMod \in Nat \ {0} /\ GenMod % Slots = 0
      /\ g \in Nat /\ h \in Nat /\ d \in Nat /\ 0 < d /\ d < Slots
  BY TxAssumption, TxSizeAssumption DEF Gens
<1>2. G \in Int /\ H \in Int /\ M \in Int
  BY <1>1
<1>3. g = Slots * G + (g % Slots) /\ h = Slots * H + (h % Slots) /\ GenMod = Slots * M
  BY <1>1
<1> HIDE DEF G, H, M
<1>4. SUFFICES ASSUME g % Slots = h % Slots PROVE FALSE
  BY DEF Slot
<1>5. \E m \in Int : d = Slots * m
  <2>1. CASE h = g + d
    <3>1. d = Slots * (H - G)
      BY <1>1, <1>2, <1>3, <1>4, <2>1
    <3> QED
      BY <1>2, <3>1
  <2>2. CASE h = g + d - GenMod
    <3>1. d = Slots * (H - G + M)
      BY <1>1, <1>2, <1>3, <1>4, <2>2
    <3> QED
      BY <1>2, <3>1
  <2> QED
    BY <2>1, <2>2
<1>6. PICK m \in Int : d = Slots * m
  BY <1>5
<1>7. CASE m <= 0
  BY <1>1, <1>6, <1>7
<1>8. CASE m >= 1
  BY <1>1, <1>6, <1>8
<1> QED
  BY <1>6, <1>7, <1>8

-----------------------------------------------------------------------------
(* What a step does to the calls. *)

\* A caller's step at most wakes the others.
LEMMA SenderCalls ==
  ASSUME Shape, Numbers, NEW s \in Senders, Sendmsg(s) \/ SendStep(s) \/ Interrupted(s)
  PROVE  /\ \A q \in Senders : q # s => loc'[q] = loc[q] /\ pc'[q] \in {pc[q], Woken(pc)[q]}
         /\ ~Commit(s) => started' = started
<1> USE DEF histVars, Shape, Numbers, Goto, Fail, Return, ReturnAndWake
<1>1. CASE Sendmsg(s) \/ Interrupted(s)
  BY <1>1 DEF Sendmsg, Interrupted
<1>2. CASE Claim(s) \/ ClaimBusy(s) \/ WaitIdle(s)
  BY <1>2 DEF Claim, ClaimBusy, WaitIdle
<1>3. CASE Drain(s)
  BY <1>3 DEF Drain
<1>4. CASE Commit(s)
  <2>1. \A q \in Senders : q # s => loc'[q] = loc[q]
    BY <1>4 DEF Commit
  <2> QED
    BY <1>4, <2>1 DEF Commit
<1>5. CASE Publish(s) \/ Recheck(s) \/ BuildFails(s)
  BY <1>5 DEF Publish, Recheck, BuildFails
<1>6. CASE Build(s)
  BY <1>6 DEF Build
<1>7. CASE Arm(s)
  BY <1>7 DEF Arm, Woken
<1>8. CASE Send(s) \/ ErrLock(s)
  BY <1>8 DEF Send, ErrLock
<1>9. CASE CancelOwn(s) \/ DropLock(s)
  BY <1>9 DEF CancelOwn, DropLock
<1>10. CASE Drop(s)
  BY <1>10 DEF Drop, Woken
<1>11. CASE WaitDone(s) \/ WokenDone(s) \/ ReadResult(s)
  BY <1>11 DEF WaitDone, WokenDone, ReadResult
<1> QED
  BY <1>1, <1>2, <1>3, <1>4, <1>5, <1>6, <1>7, <1>8, <1>9, <1>10, <1>11 DEF SendStep

\* The stages a call can come from.
LEMMA SenderStages ==
  ASSUME Shape, Numbers, NEW s \in Senders, Sendmsg(s) \/ SendStep(s) \/ Interrupted(s),
         ~Commit(s), pc'[s] \in Begun
  PROVE  /\ pc[s] \in Begun
         /\ loc'[s].xfer = loc[s].xfer /\ loc'[s].gen = loc[s].gen
         /\ pc'[s] = "send" => Arm(s)
         /\ pc'[s] \in Sent => pc[s] \in Sent \/ (Send(s) /\ pc[s] = "send")
         /\ pc'[s] = "woken" => WaitDone(s)
         /\ pc'[s] = "result" => WokenDone(s)
<1> USE DEF Shape, Goto, Return, ReturnAndWake, Begun, Builds, Ends, Runs, Sent, InEvDrain,
            InDrain
<1>1. \A e, to : Fail(s, e, to) =>
        loc'[s].xfer = loc[s].xfer /\ loc'[s].gen = loc[s].gen /\ pc'[s] = to
  BY FailEffect DEF Fail
<1>2. CASE Sendmsg(s) \/ Interrupted(s)
  BY <1>1, <1>2 DEF Sendmsg, Interrupted
<1>3. CASE Claim(s) \/ ClaimBusy(s) \/ WaitIdle(s)
  BY <1>3 DEF Claim, ClaimBusy, WaitIdle, Drains
<1>4. CASE Drain(s)
  BY <1>4 DEF Drain, Drains, EvDrains
<1>5. CASE Publish(s) \/ Recheck(s) \/ BuildFails(s)
  BY <1>1, <1>5 DEF Publish, Recheck, BuildFails
<1>6. CASE Build(s)
  BY <1>6 DEF Build
<1>7. CASE Arm(s)
  BY <1>7 DEF Arm, Woken
<1>8. CASE Send(s)
  BY <1>1, <1>8 DEF Send
<1>9. CASE ErrLock(s) \/ CancelOwn(s) \/ DropLock(s)
  BY <1>9 DEF ErrLock, CancelOwn, DropLock, EvDrains
<1>10. CASE Drop(s)
  BY <1>10 DEF Drop, Woken
<1>11. CASE WaitDone(s) \/ WokenDone(s) \/ ReadResult(s)
  BY <1>1, <1>11 DEF WaitDone, WokenDone, ReadResult
<1> QED
  BY <1>2, <1>3, <1>4, <1>5, <1>6, <1>7, <1>8, <1>9, <1>10, <1>11 DEF SendStep

\* A call keeps its transfer, and each stage has one way in.
CallKept(s) ==
  /\ pc[s] \in Begun
  /\ loc'[s].xfer = loc[s].xfer /\ loc'[s].gen = loc[s].gen
  /\ pc'[s] = "send" => pc[s] = "send" \/ Arm(s)
  /\ pc'[s] \in Sent => pc[s] \in Sent \/ (Send(s) /\ pc[s] = "send")
  /\ pc'[s] = "woken" => pc[s] = "woken" \/ WaitDone(s)
  /\ pc'[s] = "result" => pc[s] = "result" \/ WokenDone(s)

\* Every step keeps to it.
LEMMA CallStages ==
  ASSUME TypeOK, [Next]_vars, NEW s \in Senders, ~Commit(s), pc'[s] \in Begun
  PROVE  CallKept(s)
<1>1. Shape /\ Numbers
  BY ShapeHolds, NumbersHold
<1>2. ASSUME loc'[s] = loc[s], pc'[s] \in {pc[s], Woken(pc)[s]} PROVE CallKept(s)
  BY <1>1, <1>2, WokenStages DEF CallKept, Begun, Builds, Ends, Runs, Sent, InEvDrain
<1>3. ASSUME NEW q \in Senders, Sendmsg(q) \/ SendStep(q) \/ Interrupted(q)
      PROVE  CallKept(s)
  BY <1>1, <1>2, <1>3, SenderCalls, SenderStages DEF CallKept
<1> QED
  BY <1>2, <1>3, OtherCalls DEF vars, callVars

-----------------------------------------------------------------------------
(* What a step does to verdicts, results and frames. *)

\* What the invariants before this module give.
Facts ==
  /\ Shape /\ Numbers /\ Tables /\ NoLapse /\ Bounded /\ LockInv /\ StateInv
  /\ GenInv /\ XferInv /\ TagInv /\ OwnerInv /\ BuildInv /\ PhaseInv /\ WatchInv
  /\ VerdictInv /\ LocalInv /\ BufferInv /\ FrameInv /\ SentInv

\* They follow from the earlier invariants.
LEMMA FactsHold == Known => Facts
  BY ShapeHolds, NumbersHold, TablesHold
     DEF Known, Facts, ShutdownInv, TransferInv, FlowInv

\* A verdict is final, and only Commit begins a transfer.
LEMMA VerdictFinal ==
  ASSUME Known, [Next]_vars
  PROVE  /\ started' = started \/ (started' = started + 1 /\ started + 1 \in Xfers)
         /\ \A x \in 1..started : fate[x] # "run" => fate'[x] = fate[x]
         /\ \A x \in 1..started : fate'[x] = "run" => fate[x] = "run"
         /\ started' # started => \E s \in Senders : Commit(s)
<1>1. Facts /\ [Abs!Next]_<<started, fate>>
  BY FactsHold, VerdictStep DEF Known
<1>2. (\A s \in Senders : ~Commit(s)) => started' = started
  BY <1>1, SenderCalls, OtherCalls DEF Facts, vars, histVars
<1>3. \A x \in 1..started : x \in Xfers /\ started \in Nat
  BY <1>1 DEF Facts, Tables, Xfers
<1> QED
  BY <1>1, <1>2, <1>3 DEF Facts, Tables, Abs!Next, Abs!Begin, Abs!End, Abs!Running,
     Abs!Verdicts

\* The softirq writes its verdict to the slot of the running transfer.
Notes(e) ==
  /\ isotp_set_tx_result(tx_gen, e)
  /\ fate' = [fate EXCEPT ![started] = e]
  /\ started >= 1 /\ fate[started] = "run"
  /\ UNCHANGED <<started, pc, loc, todo, tx_gen>>
  /\ e = "ok" => hpc = "ec_body" /\ tx.idx >= tx.len

\* Who writes to so->tx_result[].
LEMMA ResultWrites ==
  ASSUME Known, [Next]_vars
  PROVE  \/ \E s \in Senders : Commit(s)
         \/ \E e \in {"ok", "EBADMSG", "EMSGSIZE"} : Notes(e)
         \/ \E t \in Timeouts : TimeoutPost(t)
         \/ /\ UNCHANGED <<tx_result, started>>
            /\ \A x \in Xfers : fate'[x] \in {fate[x], "ECOMM", "drop"}
<1> USE DEF histVars, sockVars, callVars
<1>1. Facts
  BY FactsHold
<1>2. hpc \in {"fc_body", "ec_body"} =>
        started >= 1 /\ started \in Xfers /\ fate[started] = "run"
  BY <1>1 DEF Facts, PhaseInv, VerdictInv, WaitsForFc, Busy, Tables, Xfers
<1>3. CASE FcMalformed \/ FcStatus
  BY <1>2, <1>3 DEF FcMalformed, FcStatus, FcErr, FcCts, FcWt, FcRefused, Notes
<1>4. CASE EchoBody
  BY <1>2, <1>4 DEF EchoBody, EchoDone, EchoWaitFc, EchoBurst, EchoGap, EchoAllSent, Notes
<1>5. CASE (\E e \in echoes : EchoArrives(e)) \/ FcArrives \/ FcCancel \/ Finish \/ EchoCancel
           \/ SoftirqFill \/ SoftirqEmit
  BY <1>5 DEF EchoArrives, FcArrives, FcCancel, Finish, EchoCancel, SoftirqFill, SoftirqEmit
<1>6. ASSUME NEW t \in Timeouts, TimeoutCas(t)
      PROVE  UNCHANGED <<tx_result, started>> /\ \A x \in Xfers : fate'[x] \in {fate[x], "ECOMM"}
  BY <1>1, <1>6 DEF TimeoutCas, Facts, Tables
<1>7. CASE \/ \E t \in Timers : Expire(t)
           \/ \E t \in Timeouts : TimeoutGen(t) \/ TimeoutState(t)
           \/ TxfrStep
  BY <1>7 DEF Expire, TimeoutGen, TimeoutState, TxfrStep, TxfrRearm, TxfrCheck,
     TxfrFill, TxfrEmit
<1>8. CASE \/ BindCheck \/ BindRegister \/ NetdevUnregister \/ NetdevDown \/ GracePeriodEnds
           \/ SockError \/ Close \/ ReleaseInterrupted \/ ReleaseNext
  BY <1>8 DEF BindCheck, BindRegister, NetdevUnregister, NetdevDown, GracePeriodEnds,
     SockError, Close, ReleaseInterrupted, ReleaseNext, ReleaseWait, ReleaseShutdown,
     ReleaseUnregister, ReleaseSync, ReleaseDrain
<1>9. ASSUME NEW s \in Senders, Drop(s)
      PROVE  UNCHANGED <<tx_result, started>> /\ \A x \in Xfers : fate'[x] \in {fate[x], "drop"}
  BY <1>1, <1>9 DEF Drop, Facts, Tables
<1>10. ASSUME NEW s \in Senders, Sendmsg(s) \/ SendStep(s) \/ Interrupted(s),
              ~Commit(s), ~Drop(s)
       PROVE  UNCHANGED <<tx_result, started, fate>>
  BY <1>10 DEF Sendmsg, SendStep, Interrupted, Claim, ClaimBusy, WaitIdle, Drain, Publish,
     Recheck, BuildFails, Build, Arm, Send, ErrLock, CancelOwn, DropLock, WaitDone, WokenDone,
     ReadResult
<1>11. CASE UNCHANGED vars
  BY <1>11 DEF vars
<1> QED
  BY <1>3, <1>4, <1>5, <1>6, <1>7, <1>8, <1>9, <1>10, <1>11 DEF Next, SoftirqStep, TimeoutStep

\* Who counts frames: building the PDU, sending the first, sending a filled one.
LEMMA FrameWrites ==
  ASSUME Known, [Next]_vars
  PROVE  \/ todo' = todo
         \/ \E s \in Senders : pc[s] = "build" /\ \E n \in Nat :
              todo' = [todo EXCEPT ![loc[s].xfer] = n]
         \/ \E s \in Senders : Send(s) /\ todo' = [todo EXCEPT ![loc[s].xfer] = @ - 1]
         \/ /\ tx.xfer # 0 /\ Left >= 1 /\ Left \in Int
            /\ todo' = [todo EXCEPT ![tx.xfer] = @ - 1]
<1> USE DEF histVars
<1>1. Facts
  BY FactsHold
<1>2. ASSUME CframeEmit, hpc = "emit" \/ cb["txfrtimer"] = "emit"
      PROVE  \/ todo' = todo
             \/ /\ tx.xfer # 0 /\ Left >= 1 /\ Left \in Int
                /\ todo' = [todo EXCEPT ![tx.xfer] = @ - 1]
  <2>1. tx.xfer # 0
    BY <1>1, <1>2 DEF Facts, TagInv, Dead, Timers
  <2>2. Left >= 1 /\ Left \in Int
    BY <1>1, <1>2 DEF Facts, Left, Filled, BufferInv, Numbers, TxRec
  <2> QED
    BY <1>2, <2>1, <2>2 DEF CframeEmit
<1>3. CASE SoftirqEmit \/ TxfrEmit
  BY <1>2, <1>3 DEF SoftirqEmit, TxfrEmit, Step
<1>4. CASE FcArrives \/ (\E e \in echoes : EchoArrives(e)) \/ (SoftirqStep /\ ~SoftirqEmit)
  BY <1>4 DEF FcArrives, EchoArrives, SoftirqStep, FcCancel, FcMalformed, FcStatus, Finish,
     EchoCancel, EchoBody, SoftirqFill
<1>5. CASE \/ \E t \in Timers : Expire(t)
           \/ \E t \in Timeouts : TimeoutStep(t)
           \/ (TxfrStep /\ ~TxfrEmit)
  BY <1>5 DEF Expire, TimeoutStep, TimeoutGen, TimeoutState, TimeoutCas, TimeoutPost, TxfrStep,
     TxfrRearm, TxfrCheck, TxfrFill
<1>6. CASE \/ BindCheck \/ BindRegister \/ NetdevUnregister \/ NetdevDown \/ GracePeriodEnds
           \/ SockError \/ Close \/ ReleaseInterrupted \/ ReleaseNext
  BY <1>6 DEF BindCheck, BindRegister, NetdevUnregister, NetdevDown, GracePeriodEnds,
     SockError, Close, ReleaseInterrupted, ReleaseNext, ReleaseWait, ReleaseShutdown,
     ReleaseUnregister, ReleaseSync, ReleaseDrain
<1>7. ASSUME NEW s \in Senders, Build(s)
      PROVE  pc[s] = "build" /\ \E n \in Nat : todo' = [todo EXCEPT ![loc[s].xfer] = n]
  <2>1. loc[s].len \in Nat
    BY <1>1 DEF Facts, Numbers, LocRec
  <2> QED
    BY <1>7, <2>1 DEF Build
<1>8. ASSUME NEW s \in Senders, Send(s)
      PROVE  todo' = todo \/ todo' = [todo EXCEPT ![loc[s].xfer] = @ - 1]
  BY <1>8 DEF Send
<1>9. ASSUME NEW s \in Senders, Sendmsg(s) \/ SendStep(s) \/ Interrupted(s),
             ~Build(s), ~Send(s)
      PROVE  todo' = todo
  BY <1>9 DEF Sendmsg, SendStep, Interrupted, Claim, ClaimBusy, WaitIdle, Drain, Commit, Publish,
     Recheck, BuildFails, Arm, ErrLock, CancelOwn, DropLock, Drop, WaitDone, WokenDone,
     ReadResult
<1>10. CASE UNCHANGED vars
  BY <1>10 DEF vars
<1> QED
  BY <1>3, <1>4, <1>5, <1>6, <1>7, <1>8, <1>9, <1>10 DEF Next

\* The frames of a transfer with a verdict: none are added, and of one whose
\* caller still has to send the first, the others are not sent.
LEMMA FramesStay ==
  ASSUME Known, [Next]_vars, NEW x \in 1..started, fate[x] # "run"
  PROVE  /\ todo[x] = 0 => todo'[x] = 0
         /\ \A s \in Senders :
              pc[s] = "send" /\ loc[s].xfer = x /\ todo[x] = 1 /\ ~Send(s) => todo'[x] = 1
<1>1. Facts /\ x \in Xfers /\ x # 0
  BY FactsHold DEF Facts, Tables, Xfers
<1>2. todo \in [Xfers -> Int]
  BY <1>1 DEF Facts, Tables
<1>3. ASSUME NEW s \in Senders, pc[s] = "build" PROVE loc[s].xfer # x
  BY <1>1, <1>3 DEF Facts, GenInv, VerdictInv, Begun, Builds
<1>4. ASSUME NEW s \in Senders, Send(s), loc[s].xfer = x
      PROVE  /\ todo[x] >= 1
             /\ \A q \in Senders : pc[q] = "send" /\ loc[q].xfer = x => q = s
  BY <1>1, <1>4 DEF Facts, FrameInv, XferInv, Send, Begun, Runs
<1>5. ASSUME tx.xfer = x, Left >= 1, Left \in Int
      PROVE  /\ todo[x] >= 1
             /\ \A q \in Senders : pc[q] = "send" /\ loc[q].xfer = x => todo[x] >= 2
  BY <1>1, <1>2, <1>5 DEF Facts, FrameInv, First
<1> QED
  BY <1>1, <1>2, <1>3, <1>4, <1>5, FrameWrites

\* Send() takes the first frame of a transfer, if it goes well.
LEMMA SendLeaves ==
  ASSUME Facts, NEW s \in Senders, Send(s)
  PROVE  /\ pc[s] = "send" /\ pc'[s] # "send"
         /\ pc'[s] \in Sent => todo' = [todo EXCEPT ![loc[s].xfer] = @ - 1]
  BY DEF Facts, Shape, Send, Goto, Return, Fail, Sent

\* Commit begins a transfer when none runs.
LEMMA CommitStarts ==
  ASSUME Facts, NEW s \in Senders, Commit(s)
  PROVE  /\ fate'[loc'[s].xfer] = "run"
         /\ \A x \in 1..started : fate[x] # "run"
<1>1. pc[s] = "commit" /\ started + 1 \in Xfers /\ tx_state = "IDLE"
  BY PendingRoom DEF Commit, Facts, Tables, Xfers, StateInv
<1>2. loc'[s].xfer = started + 1 /\ fate' = [fate EXCEPT ![started + 1] = "run"]
  BY DEF Commit, Facts, Numbers, LocRec
<1>3. fate'[started + 1] = "run"
  BY <1>1, <1>2 DEF Facts, Tables
<1>4. \A x \in 1..started : fate[x] # "run"
  BY <1>1 DEF Facts, VerdictInv, OwnerInv, Claims, Tables, Xfers
<1> QED
  BY <1>2, <1>3, <1>4

\* Only isotp_sendmsg() writes so->tx_gen.
LEMMA GenWrites ==
  ASSUME [Next]_vars, \A s \in Senders : ~Commit(s)
  PROVE  tx_gen' = tx_gen
<1> USE DEF sockVars
<1>1. CASE FcArrives \/ (\E e \in echoes : EchoArrives(e)) \/ SoftirqStep
  BY <1>1 DEF FcArrives, EchoArrives, SoftirqStep, FcCancel, FcMalformed, FcStatus, Finish,
     EchoCancel, EchoBody, SoftirqFill, SoftirqEmit
<1>2. CASE (\E t \in Timers : Expire(t)) \/ (\E t \in Timeouts : TimeoutStep(t)) \/ TxfrStep
  BY <1>2 DEF Expire, TimeoutStep, TimeoutGen, TimeoutState, TimeoutCas, TimeoutPost,
     TxfrStep, TxfrRearm, TxfrCheck, TxfrFill, TxfrEmit
<1>3. CASE \/ BindCheck \/ BindRegister \/ NetdevUnregister \/ NetdevDown \/ GracePeriodEnds
           \/ SockError \/ Close \/ ReleaseInterrupted \/ ReleaseNext
  BY <1>3 DEF BindCheck, BindRegister, NetdevUnregister, NetdevDown, GracePeriodEnds,
     SockError, Close, ReleaseInterrupted, ReleaseNext, ReleaseWait, ReleaseShutdown,
     ReleaseUnregister, ReleaseSync, ReleaseDrain
<1>4. CASE \E s \in Senders : Sendmsg(s) \/ SendStep(s) \/ Interrupted(s)
  BY ZenonT(40), <1>4 DEF Sendmsg, SendStep, Interrupted, Claim, ClaimBusy, WaitIdle, Drain, Publish,
     Recheck, BuildFails, Build, Arm, Send, ErrLock, CancelOwn, DropLock, Drop, WaitDone,
     WokenDone, ReadResult
<1>5. CASE UNCHANGED vars
  BY <1>5 DEF vars
<1> QED
  BY <1>1, <1>2, <1>3, <1>4, <1>5 DEF Next

\* Nobody but the callback of a timeout moves it on or changes what it noted.
OwnTimeout(t) ==
  \/ /\ cb'[t] = cb[t] \/ cb'[t] \notin {"state", "cas", "post"}
     /\ seen'[t].gen = seen[t].gen
  \/ TimeoutGen(t) \/ TimeoutState(t) \/ TimeoutCas(t)

\* Every step keeps to it.
LEMMA TimeoutStages ==
  ASSUME Shape, [Next]_vars, NEW t \in Timeouts
  PROVE  OwnTimeout(t)
<1> USE DEF timerVars, Shape, OwnTimeout
<1>1. CASE FcArrives \/ (\E e \in echoes : EchoArrives(e)) \/ SoftirqStep
  BY <1>1 DEF FcArrives, EchoArrives, SoftirqStep, FcCancel, FcMalformed, FcStatus, Finish,
     EchoCancel, EchoBody, SoftirqFill, SoftirqEmit
<1>2. ASSUME NEW u \in Timers, Expire(u) PROVE OwnTimeout(t)
  BY <1>2 DEF Expire, Timers, Timeouts
<1>3. ASSUME NEW u \in Timeouts, TimeoutStep(u) PROVE OwnTimeout(t)
  BY <1>3 DEF TimeoutStep, TimeoutGen, TimeoutState, TimeoutCas, TimeoutPost, Step, SeenRec,
     Timers, Timeouts
<1>4. CASE TxfrStep
  BY <1>4 DEF TxfrStep, TxfrRearm, TxfrCheck, TxfrFill, TxfrEmit, Step, Timers, Timeouts
<1>5. CASE \/ BindCheck \/ BindRegister \/ NetdevUnregister \/ NetdevDown \/ GracePeriodEnds
           \/ SockError \/ Close \/ ReleaseInterrupted \/ ReleaseNext
  BY <1>5 DEF BindCheck, BindRegister, NetdevUnregister, NetdevDown, GracePeriodEnds,
     SockError, Close, ReleaseInterrupted, ReleaseNext, ReleaseWait, ReleaseShutdown,
     ReleaseUnregister, ReleaseSync, ReleaseDrain
<1>6. ASSUME NEW s \in Senders, Sendmsg(s) \/ SendStep(s) \/ Interrupted(s)
      PROVE  cb' = cb /\ seen' = seen
  BY <1>6 DEF Sendmsg, SendStep, Interrupted, Claim, ClaimBusy, WaitIdle, Drain, Commit,
     Publish, Recheck, BuildFails, Build, Arm, Send, ErrLock, CancelOwn, DropLock, Drop,
     WaitDone, WokenDone, ReadResult
<1>7. CASE UNCHANGED vars
  BY <1>7 DEF vars
<1> QED
  BY <1>1, <1>2, <1>3, <1>4, <1>5, <1>6, <1>7 DEF Next

\* With CAN_ISOTP_WAIT_TX_DONE a call takes a verdict only from its slot.
LEMMA OutWrites ==
  ASSUME Facts, TypeOK, WaitTxDone, [Next]_vars, NEW s \in Senders
  PROVE  out'[s] = out[s] \/ ReadResult(s) \/ out'[s].res \notin Results
<1> USE DEF histVars
<1>1. out \in [Senders -> OutRec]
  BY DEF TypeOK, OutRec
<1>2. ASSUME NEW q \in Senders, NEW e,
             e \notin Results \/ ReadResult(q), Return(q, e) \/ ReturnAndWake(q, e)
      PROVE  out'[s] = out[s] \/ ReadResult(s) \/ out'[s].res \notin Results
  BY <1>1, <1>2 DEF Return, ReturnAndWake
<1>3. \A q \in Senders : loc[q].err \notin Results
  BY DEF Facts, LocalInv, Results, TxErrs
<1>4. {"EAGAIN", "EADDRNOTAVAIL", "EINTR"} \cap Results = {}
  BY DEF Results, TxErrs
<1>5. ASSUME NEW q \in Senders, Sendmsg(q) \/ SendStep(q) \/ Interrupted(q)
      PROVE  out'[s] = out[s] \/ ReadResult(s) \/ out'[s].res \notin Results
  <2>1. CASE Sendmsg(q) \/ Claim(q) \/ WaitIdle(q) \/ Drain(q) \/ Publish(q) \/ Recheck(q)
             \/ BuildFails(q) \/ Build(q) \/ CancelOwn(q) \/ DropLock(q) \/ WaitDone(q)
             \/ WokenDone(q)
    BY <2>1 DEF Sendmsg, Claim, WaitIdle, Drain, Publish, Recheck, BuildFails, Build, CancelOwn,
       DropLock, WaitDone, WokenDone
  <2>2. CASE Commit(q)
    BY <2>2 DEF Commit
  <2>3. CASE ClaimBusy(q) \/ Interrupted(q) \/ Arm(q)
    BY <1>2, <1>4, <2>3 DEF ClaimBusy, Interrupted, Arm
  <2>4. CASE Send(q)
    BY <2>4 DEF Send
  <2>5. CASE ErrLock(q) \/ Drop(q)
    BY <1>2, <1>3, <2>5 DEF ErrLock, Drop
  <2>6. CASE ReadResult(q)
    BY <1>2, <2>6 DEF ReadResult
  <2> QED
    BY <1>5, <2>1, <2>2, <2>3, <2>4, <2>5, <2>6 DEF SendStep
<1> QED
  BY <1>5, OtherCalls DEF vars

-----------------------------------------------------------------------------
(* Every step preserves ResultInv. *)

\* How far the generation of a call is behind so->tx_gen.
LEMMA GenOf ==
  ASSUME Facts, NEW s \in Senders, pc[s] \in Begun
  PROVE  \E d \in 0..(GenMod - 1) :
           /\ loc[s].xfer + d = started
           /\ tx_gen = loc[s].gen + d \/ tx_gen = loc[s].gen + d - GenMod
           /\ d = 0 <=> tx_gen = loc[s].gen
<1>1. loc[s].gen \in 0..(GenMod - 1) /\ loc[s].xfer \in 1..started /\ started \in Nat
  BY DEF Facts, Numbers, GenInv, LocRec, Gens
<1>2. started - loc[s].xfer \in 0..(GenMod - 1) /\ GenMod \in Nat /\ tx_gen \in 0..(GenMod - 1)
  BY <1>1 DEF Facts, Numbers, NoLapse, Gens
<1> DEFINE d == started - loc[s].xfer
<1>3. /\ loc[s].xfer + d = started
      /\ tx_gen = loc[s].gen + d \/ tx_gen = loc[s].gen + d - GenMod
      /\ d = 0 <=> tx_gen = loc[s].gen
  BY <1>1, <1>2 DEF Facts, GenInv
<1> QED
  BY <1>2, <1>3

\* A write to the slot of the running transfer leaves an earlier transfer's
\* result alone, or is recognised by its generation.
LEMMA OtherSlot ==
  ASSUME Facts, NEW s \in Senders, pc[s] \in Begun, loc[s].xfer # started,
         Slot(loc[s].gen) = Slot(tx_gen)
  PROVE  tx_gen # loc[s].gen /\ started >= loc[s].xfer + Slots
<1>1. PICK d \in 0..(GenMod - 1) :
        /\ loc[s].xfer + d = started
        /\ tx_gen = loc[s].gen + d \/ tx_gen = loc[s].gen + d - GenMod
        /\ d = 0 <=> tx_gen = loc[s].gen
  BY GenOf
<1>2. /\ loc[s].gen \in Gens /\ tx_gen \in Gens /\ loc[s].xfer \in Nat /\ d \in Nat
      /\ Slots \in Nat /\ GenMod \in Nat /\ started \in Nat
  BY TxAssumption DEF Facts, Numbers, LocRec
<1>3. d # 0
  BY <1>1, <1>2
<1>4. d \notin 1..(Slots - 1)
  BY <1>1, <1>2, SlotDistance
<1> QED
  BY <1>1, <1>2, <1>3, <1>4

\* The same of the slot that Commit resets for the next generation.
LEMMA NextSlot ==
  ASSUME Facts, NEW s \in Senders, pc[s] \in Begun,
         Slot(loc[s].gen) = Slot(isotp_inc_tx_gen(tx_gen))
  PROVE  started + 1 >= loc[s].xfer + Slots
<1>1. PICK d \in 0..(GenMod - 1) :
        /\ loc[s].xfer + d = started
        /\ tx_gen = loc[s].gen + d \/ tx_gen = loc[s].gen + d - GenMod
        /\ d = 0 <=> tx_gen = loc[s].gen
  BY GenOf
<1>2. /\ loc[s].gen \in Gens /\ tx_gen \in Gens /\ loc[s].xfer \in Nat /\ d \in Nat
      /\ Slots \in Nat \ {0} /\ GenMod \in Nat \ {0} /\ started \in Nat
  BY TxAssumption DEF Facts, Numbers, LocRec
<1> DEFINE g == isotp_inc_tx_gen(tx_gen)
<1>3. g = tx_gen + 1 \/ (g = 0 /\ tx_gen = GenMod - 1)
  BY IncGen DEF Facts
<1> HIDE DEF g
<1>4. g = loc[s].gen + (d + 1) \/ g = loc[s].gen + (d + 1) - GenMod
  BY <1>1, <1>2, <1>3 DEF Gens
<1>5. g \in Gens
  BY <1>2, ModRange DEF g, isotp_inc_tx_gen, Gens
<1>6. d + 1 \notin 1..(Slots - 1)
  BY <1>2, <1>4, <1>5, SlotDistance DEF g
<1> QED
  BY <1>1, <1>2, <1>6

\* Every write to so->tx_result[] leaves each caller its own result, or is
\* ISOTP_TX_RESULT_SLOTS transfers later.
LEMMA SlotStep ==
  ASSUME Known, ResultInv, [Next]_vars
  PROVE  SlotInv'
<1>1. Facts /\ SlotInv
  BY FactsHold DEF ResultInv
<1>2. SUFFICES ASSUME NEW s \in Senders, pc'[s] \in Begun PROVE SlotOf(s)'
  BY DEF SlotInv
<1>3. /\ Slots \in Nat \ {0} /\ tx_gen \in Gens /\ \A q \in Senders : loc[q].gen \in Gens
      /\ tx_result \in [0..(Slots - 1) -> ResRec] /\ started \in Nat
  BY <1>1, TxAssumption DEF Facts, Numbers, LocRec, Known, TypeOK, ResRec, Gens
<1>4. ASSUME NEW g \in Gens, NEW e \in Results, isotp_set_tx_result(g, e)
      PROVE  /\ tx_result'[Slot(g)] = [gen |-> g, err |-> e]
             /\ \A h \in Gens : Slot(h) # Slot(g) => tx_result'[Slot(h)] = tx_result[Slot(h)]
  BY <1>3, <1>4, SlotType DEF isotp_set_tx_result
<1> DEFINE g == isotp_inc_tx_gen(tx_gen)
<1>5. g \in Gens /\ "ECOMM" \in Results
  BY IncGenType DEF Known, Results, TxErrs
<1>6. ASSUME Commit(s) PROVE SlotOf(s)'
  <2>1. /\ isotp_set_tx_result(g, "ECOMM")
        /\ loc'[s].gen = g /\ loc'[s].xfer = started + 1
        /\ fate' = [fate EXCEPT ![started + 1] = "run"] /\ started + 1 \in Xfers
    <3>1. pc[s] = "commit" /\ loc \in [Senders -> LocRec]
      BY <1>1, <1>6 DEF Commit, Facts, Numbers
    <3>2. started + 1 \in Xfers
      BY <1>1, <3>1, PendingRoom DEF Facts, Tables, Xfers
    <3> QED
      BY <1>6, <3>1, <3>2 DEF Commit, LocRec
  <2>2. fate'[started + 1] = "run"
    BY <1>1, <2>1 DEF Facts, Tables
  <2> HIDE DEF g
  <2>3. tx_result'[Slot(g)] = [gen |-> g, err |-> "ECOMM"]
    BY <1>4, <1>5, <2>1
  <2> QED
    BY <2>1, <2>2, <2>3 DEF SlotOf
<1>7. ASSUME ~Commit(s) PROVE SlotOf(s)'
  <2>1. /\ pc[s] \in Begun /\ loc'[s].xfer = loc[s].xfer /\ loc'[s].gen = loc[s].gen
    BY <1>2, <1>7, CallStages DEF Known, CallKept
  <2> DEFINE x == loc[s].xfer
             h == loc[s].gen
  <2>2. x \in 1..started /\ x \in Xfers /\ h \in Gens /\ (x = started => h = tx_gen)
    <3>1. x = started => h = tx_gen
      <4>1. ASSUME NEW d \in 0..(GenMod - 1), x + d = started, x = started PROVE d = 0
        BY <4>1, <1>1, <2>1 DEF Facts, GenInv
      <4> QED
        BY <1>1, <2>1, <4>1, GenOf
    <3> QED
      BY <1>1, <1>3, <2>1, <3>1 DEF Facts, GenInv, Tables, Xfers
  <2>3. /\ tx_result[Slot(h)].gen = h /\ tx_result[Slot(h)].err # "ECOMM"
             => fate[x] = tx_result[Slot(h)].err
        /\ started < x + Slots =>
             /\ tx_result[Slot(h)].gen = h
             /\ fate[x] \in {"ok", "EBADMSG", "EMSGSIZE"} => tx_result[Slot(h)].err = fate[x]
    BY <1>1, <2>1 DEF SlotInv, SlotOf
  <2> HIDE DEF x, h
  <2>4. CASE \E q \in Senders : Commit(q)
    <3>1. /\ isotp_set_tx_result(g, "ECOMM") /\ started' = started + 1
          /\ fate'[x] = fate[x]
      BY <1>1, <1>3, <2>2, <2>4 DEF Commit, Facts, Tables
    <3> HIDE DEF g
    <3>2. CASE Slot(h) = Slot(g)
      <4>1. ~(started' < x + Slots)
        BY <1>1, <1>3, <2>1, <2>2, <3>1, <3>2, NextSlot DEF g, x, h
      <4>2. tx_result'[Slot(g)] = [gen |-> g, err |-> "ECOMM"]
        BY <1>4, <1>5, <3>1
      <4> QED
        BY <2>1, <3>2, <4>1, <4>2 DEF SlotOf, x, h
    <3>3. CASE Slot(h) # Slot(g)
      <4>1. tx_result'[Slot(h)] = tx_result[Slot(h)]
        BY <1>4, <1>5, <2>2, <3>1, <3>3
      <4>2. started' < x + Slots => started < x + Slots
        BY <1>3, <2>2, <3>1
      <4> QED
        BY <2>1, <2>3, <3>1, <4>1, <4>2 DEF SlotOf, x, h
    <3> QED
      BY <3>2, <3>3
  <2>5. ASSUME NEW e \in {"ok", "EBADMSG", "EMSGSIZE", "ECOMM"}, started' = started,
               isotp_set_tx_result(tx_gen, e), started \in Xfers,
               fate'[started] = e, \A y \in Xfers : y # started => fate'[y] = fate[y]
        PROVE  SlotOf(s)'
    <3>1. CASE x = started
      <4>1. tx_result'[Slot(h)] = [gen |-> h, err |-> e]
        BY <1>3, <1>4, <2>2, <2>5, <3>1 DEF Results, TxErrs
      <4> QED
        BY <2>1, <2>5, <3>1, <4>1 DEF SlotOf, x, h
    <3>2. CASE x # started /\ Slot(h) = Slot(tx_gen)
      <4>1. tx_gen # h /\ ~(started < x + Slots)
        BY <1>1, <1>3, <2>1, <2>2, <3>2, OtherSlot DEF x, h
      <4>2. tx_result'[Slot(h)] = [gen |-> tx_gen, err |-> e]
        BY <1>3, <1>4, <2>5, <3>2 DEF Results, TxErrs
      <4> QED
        BY <2>1, <2>5, <4>1, <4>2 DEF SlotOf, x, h
    <3>3. CASE x # started /\ Slot(h) # Slot(tx_gen)
      <4>1. tx_result'[Slot(h)] = tx_result[Slot(h)] /\ fate'[x] = fate[x]
        BY <1>3, <1>4, <2>2, <2>5, <3>3 DEF Results, TxErrs
      <4> QED
        BY <2>1, <2>3, <2>5, <4>1 DEF SlotOf, x, h
    <3> QED
      BY <3>1, <3>2, <3>3
  <2>6. CASE \E e \in {"ok", "EBADMSG", "EMSGSIZE"} : Notes(e)
    BY <1>1, <2>2, <2>5, <2>6 DEF Notes, Facts, Tables, Xfers
  <2>7. CASE \E t \in Timeouts : TimeoutPost(t)
    <3>1. PICK t \in Timeouts : TimeoutPost(t)
      BY <2>7
    <3>2. seen[t].gen = tx_gen /\ started >= 1 /\ fate[started] = "ECOMM"
      BY <3>1 DEF ResultInv, TimeoutInv, TimeoutPost, Step
    <3> QED
      BY <1>1, <2>2, <2>5, <3>1, <3>2 DEF TimeoutPost, histVars, Facts, Tables, Xfers
  <2>8. CASE /\ UNCHANGED <<tx_result, started>>
             /\ \A y \in Xfers : fate'[y] \in {fate[y], "ECOMM", "drop"}
    <3>1. fate'[x] = fate[x] \/ fate[x] = "run"
      BY <2>2, VerdictFinal DEF Known
    <3>2. tx_result[Slot(h)].err \in Results
      BY <1>3, <2>2, SlotType DEF ResRec
    <3> QED
      BY <2>1, <2>2, <2>3, <2>8, <3>1, <3>2 DEF SlotOf, x, h, Results, TxErrs
  <2> QED
    BY <2>4, <2>6, <2>7, <2>8, ResultWrites
<1> QED
  BY <1>6, <1>7

\* A success is noted when the echo of the last frame arrives, and the first
\* frame is then the only one that can be missing.
LEMMA AllSentStep ==
  ASSUME Known, ResultInv, [Next]_vars
  PROVE  AllSentInv'
<1>1. Facts /\ AllSentInv
  BY FactsHold DEF ResultInv
<1>2. SUFFICES ASSUME NEW s \in Senders, pc'[s] \in Begun, fate'[loc'[s].xfer] = "ok"
               PROVE  /\ pc'[s] = "send" => todo'[loc'[s].xfer] = 1
                      /\ pc'[s] \in Sent => todo'[loc'[s].xfer] = 0
  BY DEF AllSentInv
<1>3. ~Commit(s)
  BY <1>1, <1>2, CommitStarts
<1>4. CallKept(s) /\ pc[s] \in Begun /\ loc'[s].xfer = loc[s].xfer
  BY <1>2, <1>3, CallStages DEF Known, CallKept
<1> DEFINE x == loc[s].xfer
<1>5. x \in 1..started /\ x \in Xfers
  BY <1>1, <1>4 DEF Facts, GenInv, Tables, Xfers
<1> HIDE DEF x
<1>6. CASE fate[x] = "ok"
  <2>1. ~Arm(s)
    BY <1>1, <1>4, <1>6 DEF Arm, Facts, GenInv, VerdictInv, Builds, Begun, x
  <2>2. pc'[s] = "send" => todo'[x] = 1
    BY <1>1, <1>4, <1>5, <1>6, <2>1, FramesStay, SendLeaves DEF AllSentInv, CallKept, x
  <2>3. ASSUME pc[s] \in Sent PROVE todo'[x] = 0
    BY <1>1, <1>4, <1>5, <1>6, <2>3, FramesStay DEF AllSentInv, x
  <2>4. ASSUME Send(s), pc[s] = "send", pc'[s] \in Sent PROVE todo'[x] = 0
    BY <1>1, <1>4, <1>5, <1>6, <2>4, SendLeaves DEF AllSentInv, x, Facts, Tables
  <2> QED
    BY <1>4, <2>2, <2>3, <2>4 DEF CallKept, x
<1>7. CASE fate[x] # "ok"
  <2>1. fate[x] = "run"
    BY <1>2, <1>4, <1>5, <1>7, VerdictFinal DEF x
  <2>2. \A q \in Senders : ~Commit(q)
    BY <1>1, <1>5, <2>1, CommitStarts
  <2>3. Notes("ok") /\ x = started
    <3>1. ASSUME NEW t \in Timeouts, TimeoutPost(t) PROVE fate' = fate
      BY <3>1 DEF TimeoutPost, histVars
    <3>2. \E e \in {"ok", "EBADMSG", "EMSGSIZE"} : Notes(e)
      BY <1>2, <1>4, <1>5, <1>7, <2>2, <3>1, ResultWrites DEF x
    <3> QED
      BY <1>1, <1>2, <1>4, <1>5, <1>7, <3>2 DEF x, Notes, Facts, Tables
  <2>4. /\ tx.xfer = started /\ Left = 0 /\ Progress
        /\ pc' = pc /\ todo' = todo
    <3>1. hpc = "ec_body" /\ tx.idx >= tx.len /\ pc' = pc /\ todo' = todo
      BY <2>3 DEF Notes
    <3>2. tx_state = "SENDING" /\ cb["txfrtimer"] = "off"
      BY <1>1, <3>1 DEF Facts, PhaseInv, Dead, Timers
    <3>3. tx.xfer = started
      BY <1>1, <3>1, <3>2 DEF Facts, BufferInv, BuildInv, LockInv, Locked, Busy, Shape
    <3> QED
      BY <1>1, <3>1, <3>2, <3>3 DEF Left, Filled, Progress, Facts, BufferInv, Numbers, TxRec
  <2> QED
    BY <1>1, <1>2, <1>4, <2>3, <2>4 DEF Facts, SentInv, x
<1> QED
  BY <1>6, <1>7

\* No transfer begins under a running timeout callback.
LEMMA TimeoutKept ==
  ASSUME Known, ResultInv, [Next]_vars
  PROVE  TimeoutInv'
<1>1. Facts /\ TimeoutInv
  BY FactsHold DEF ResultInv
<1>2. SUFFICES ASSUME NEW t \in Timeouts
               PROVE  /\ cb'[t] \in {"state", "cas", "post"} => seen'[t].gen = tx_gen'
                      /\ cb'[t] = "post" => started' >= 1 /\ fate'[started'] = "ECOMM"
  BY DEF TimeoutInv
<1>3. CASE \E s \in Senders : Commit(s)
  BY <1>1, <1>3 DEF Commit, Facts, OwnerInv, Claims, InDrain, Dead, Timers, Timeouts, timerVars
<1>4. CASE \A s \in Senders : ~Commit(s)
  <2>1. started' = started /\ started \in Nat
    BY <1>1, <1>4, VerdictFinal DEF Facts, Numbers
  <2>2. OwnTimeout(t)
    BY <1>1, <1>2, TimeoutStages DEF Facts
  <2>3. tx_gen' = tx_gen
    BY <1>4, GenWrites
  <2>4. cb'[t] \in {"state", "cas", "post"} => seen'[t].gen = tx_gen'
    BY <1>1, <1>2, <2>2, <2>3 DEF OwnTimeout, TimeoutInv, TimeoutGen, TimeoutState, TimeoutCas,
       Step, Facts,
       Shape, SeenRec, Timers
  <2>5. CASE cb[t] = "post"
    BY <1>1, <1>2, <2>1, <2>4, <2>5, VerdictFinal DEF TimeoutInv
  <2>6. CASE cb[t] # "post"
    <3>1. cb'[t] = "post" => TimeoutCas(t)
      BY <1>1, <1>2, <2>2, <2>6 DEF OwnTimeout, TimeoutGen, TimeoutState, Step, Facts, Shape, Timers
    <3>2. TimeoutCas(t) /\ cb'[t] = "post" =>
            started >= 1 /\ fate' = [fate EXCEPT ![started] = "ECOMM"]
      BY <1>1, <1>2 DEF TimeoutCas, Step, Facts, VerdictInv, Shape, Timers
    <3> QED
      BY <1>1, <2>1, <2>4, <3>1, <3>2 DEF Facts, Tables, Xfers
  <2> QED
    BY <2>5, <2>6
<1> QED
  BY <1>3, <1>4

\* A caller that stops waiting has seen the end of its transfer, or a shutdown.
LEMMA DoneStep ==
  ASSUME Known, ResultInv, [Next]_vars
  PROVE  DoneInv'
<1>1. Facts /\ DoneInv
  BY FactsHold DEF ResultInv
<1>2. SUFFICES ASSUME NEW s \in Senders, pc'[s] \in {"woken", "result"}
               PROVE  /\ pc'[s] = "woken" =>
                           \/ fate'[loc'[s].xfer] # "run"
                           \/ loc'[s].xfer = started' /\ tx_state' = "SHUTDOWN"
                      /\ pc'[s] = "result" => fate'[loc'[s].xfer] # "run"
  BY DEF DoneInv
<1>3. ~Commit(s) /\ pc'[s] \in Begun
  BY <1>1, <1>2 DEF Commit, Goto, Facts, Shape, Begun, Runs
<1>4. CallKept(s) /\ pc[s] \in Begun /\ loc'[s].xfer = loc[s].xfer
  BY <1>3, CallStages DEF Known, CallKept
<1> DEFINE x == loc[s].xfer
<1>5. x \in 1..started /\ x \in Xfers /\ started \in Nat
  BY <1>1, <1>4 DEF Facts, GenInv, Tables, Xfers
<1>6. x = started <=> StillMine(s)
  <2>1. PICK d \in 0..(GenMod - 1) :
          /\ loc[s].xfer + d = started
          /\ d = 0 <=> tx_gen = loc[s].gen
    BY <1>1, <1>4, GenOf
  <2> QED
    BY <1>5, <2>1 DEF StillMine
<1> HIDE DEF x
<1>7. fate[x] # "run" => fate'[x] # "run"
  BY <1>5, VerdictFinal
<1>8. CASE pc'[s] = "woken" /\ pc[s] = "woken"
  <2>1. CASE x = started /\ tx_state = "SHUTDOWN"
    <3>1. tx_state' = "SHUTDOWN"
      BY <2>1, ShutdownKept DEF Known
    <3>2. started' = started
      BY <1>1, <2>1, VerdictFinal DEF Commit, Facts, StateInv
    <3> QED
      BY <1>4, <1>8, <2>1, <3>1, <3>2 DEF x
  <2> QED
    BY <1>1, <1>4, <1>7, <1>8, <2>1 DEF DoneInv, x
<1>9. CASE WaitDone(s)
  <2>1. x # started \/ tx_state \in GaveUp
    BY <1>1, <1>2, <1>6, <1>9 DEF WaitDone, Goto, Facts, Shape
  <2>2. UNCHANGED <<fate, started, tx_state>>
    BY <1>9 DEF WaitDone, histVars, sockVars
  <2>3. x # started => fate[x] # "run"
    BY <1>1, <1>5 DEF Facts, VerdictInv
  <2>4. tx_state = "IDLE" /\ x = started => fate[x] # "run"
    BY <1>1, <1>4, <1>5, <1>9 DEF Facts, VerdictInv, GenInv, XferInv, WaitDone, Begun, Runs, x
  <2> QED
    BY <1>4, <1>9, <2>1, <2>2, <2>3, <2>4 DEF WaitDone, GaveUp, x, Facts, Shape, Goto
<1>10. CASE pc'[s] = "result" /\ pc[s] = "result"
  BY <1>1, <1>4, <1>7, <1>10 DEF DoneInv, x
<1>11. CASE WokenDone(s)
  <2>1. fate' = fate /\ (pc'[s] = "woken" => pc[s] = "woken")
    BY <1>11 DEF WokenDone, histVars
  <2>2. pc'[s] = "result" => ~(x = started /\ tx_state = "SHUTDOWN")
    BY <1>1, <1>6, <1>11 DEF WokenDone, Goto, Fail, Facts, Shape
  <2> QED
    BY <1>1, <1>4, <1>8, <1>11, <2>1, <2>2 DEF DoneInv, WokenDone, x
<1> QED
  BY <1>2, <1>4, <1>8, <1>9, <1>10, <1>11 DEF CallKept

\* What a call returns is true of its transfer, and stays true.
LEMMA OutStep ==
  ASSUME Known, ResultInv, [Next]_vars
  PROVE  OutInv'
<1>1. Facts /\ OutInv /\ SlotInv /\ AllSentInv /\ DoneInv
  BY FactsHold DEF ResultInv
<1>2. SUFFICES ASSUME WaitTxDone, NEW s \in Senders PROVE OutOf(s)'
  BY DEF OutInv
<1>3. started' \in {started, started + 1} /\ started \in Nat /\ Slots \in Nat
  BY <1>1, VerdictFinal, TxAssumption DEF Facts, Numbers
<1>4. CASE out'[s] = out[s]
  <2>1. OutOf(s)
    BY <1>1, <1>2 DEF OutInv
  <2>2. ASSUME out[s].res \in Results
        PROVE  /\ out[s].xfer \in 1..started
               /\ fate[out[s].xfer] # "run" => fate'[out[s].xfer] = fate[out[s].xfer]
               /\ fate[out[s].xfer] # "run" /\ todo[out[s].xfer] = 0 => todo'[out[s].xfer] = 0
    BY <2>1, <2>2, VerdictFinal, FramesStay DEF OutOf
  <2> QED
    BY <1>3, <1>4, <2>1, <2>2 DEF OutOf, Results, TxErrs
<1>5. CASE out'[s].res \notin Results
  BY <1>5 DEF OutOf, Results, TxErrs
<1>6. CASE ReadResult(s)
  <2> DEFINE x == loc[s].xfer
             r == tx_result[Slot(loc[s].gen)]
  <2>1. /\ pc[s] = "result" /\ UNCHANGED <<started, fate, todo>>
        /\ out'[s].xfer = x /\ out'[s].res = isotp_get_tx_result(loc[s].gen)
    BY <1>6 DEF ReadResult, Return, Known, TypeOK
  <2>2. /\ x \in 1..started /\ fate[x] \in Results
    BY <1>1, <2>1 DEF Facts, GenInv, DoneInv, LocalInv, Begun, Runs
  <2>3. /\ r.gen = loc[s].gen /\ r.err # "ECOMM" => fate[x] = r.err
        /\ started < x + Slots =>
             /\ r.gen = loc[s].gen
             /\ fate[x] \in {"ok", "EBADMSG", "EMSGSIZE"} => r.err = fate[x]
    BY <1>1, <2>1 DEF SlotInv, SlotOf, Begun, Runs
  <2>4. fate[x] = "ok" => todo[x] = 0
    BY <1>1, <2>1 DEF AllSentInv, Begun, Runs, Sent
  <2>5. out'[s].res = IF r.gen # loc[s].gen THEN "ECOMM" ELSE r.err
    BY <2>1 DEF isotp_get_tx_result
  <2> HIDE DEF x, r
  <2> QED
    BY <1>3, <2>1, <2>2, <2>3, <2>4, <2>5 DEF OutOf, Results, TxErrs
<1> QED
  BY <1>1, <1>2, <1>4, <1>5, <1>6, OutWrites DEF Known

-----------------------------------------------------------------------------
(* The properties. *)

\* A new socket satisfies ResultInv.
LEMMA ResultInit == Init => ResultInv
<1> SUFFICES ASSUME Init PROVE ResultInv
  OBVIOUS
<1>1. SlotInv /\ AllSentInv /\ DoneInv
  BY DEF Init, SlotInv, AllSentInv, DoneInv, Begun, Builds, Runs, Ends, InEvDrain
<1>2. TimeoutInv /\ OutInv
  BY DEF Init, TimeoutInv, OutInv, OutOf, Results, TxErrs, Timers, Timeouts
<1> QED
  BY <1>1, <1>2 DEF ResultInv

\* ResultInv is inductive relative to the invariants before it.
LEMMA ResultStep == Known /\ ResultInv /\ [Next]_vars => ResultInv'
  BY SlotStep, AllSentStep, TimeoutKept, DoneStep, OutStep DEF ResultInv

\* The slots of so->tx_result[] and what each sendmsg() has read or returned
\* agree with what became of its transfer.
THEOREM ResultInvariant == Spec /\ []NoLapse => []ResultInv
<1>1. TypeOK /\ ShutdownInv /\ NoLapse /\ TransferInv /\ Bounded /\ FlowInv => Known
  BY DEF Known
<1> QED
  BY <1>1, ResultInit, ResultStep, TypeCorrect, ShutdownInvariant, TransferInvariant, BoundKept,
     FlowInvariant, PTL DEF Spec

\* isotp_sendmsg() returns success only for a PDU of which every frame was sent,
\* and an error of the receiver only for the transfer it ended.
THEOREM SuccessIsSound == Spec /\ []NoLapse => []ResultSound
<1>1. ResultInv => ResultSound
  BY DEF ResultInv, OutInv, OutOf, ResultSound
<1> QED
  BY <1>1, ResultInvariant, PTL

\* isotp_sendmsg() reports a transfer that succeeded as failed only when
\* ISOTP_TX_RESULT_SLOTS later transfers have reused its slot.
THEOREM SuccessIsReported == Spec /\ []NoLapse => []ResultComplete
<1>1. ResultInv => ResultComplete
  BY DEF ResultInv, OutInv, OutOf, ResultComplete
<1> QED
  BY <1>1, ResultInvariant, PTL

\* Up to GenMod transfers the properties of the transmit path hold of every run
\* of the socket, without a hypothesis about its callers.
THEOREM WithinOneWrap ==
  ASSUME MaxXfer <= GenMod
  PROVE  /\ Spec => [](ClaimDrained /\ TxBufferExclusive /\ Watched /\ BindKeepsTag)
         /\ Spec => [](NoFrameTwice /\ ResultSound /\ ResultComplete)
         /\ Spec => ImplementsAbs
<1>1. Spec => []NoLapse
  BY LapseFree
<1>2. Spec => [](ClaimDrained /\ TxBufferExclusive /\ Watched /\ BindKeepsTag)
  BY <1>1, ClaimIsDrained, OneTxUser, AlwaysWatched, BindIsSafe, PTL
<1>3. Spec => [](NoFrameTwice /\ ResultSound /\ ResultComplete)
  BY <1>1, FramesOnce, SuccessIsSound, SuccessIsReported, PTL
<1>4. Spec => ImplementsAbs
  BY <1>1, ImplementsOneAtATime, PTL
<1> QED
  BY <1>2, <1>3, <1>4

=============================================================================
