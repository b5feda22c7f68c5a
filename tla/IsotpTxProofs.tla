--------------------------- MODULE IsotpTxProofs ----------------------------
(***************************************************************************)
(* Proofs about the transmit path of IsotpTx, for every number of callers, *)
(* frames, wait frames, result slots and generations, and every option.    *)
(*                                                                         *)
(*   TypeCorrect         TypeOK is an invariant.                           *)
(*   ShutdownInvariant   ShutdownInv is: who holds so->rx_lock, what its   *)
(*                       holder knows of tx.state, and what each stage of  *)
(*                       isotp_release() has ended for good.               *)
(*   ShutdownIsFinal     ISOTP_SHUTDOWN is never overwritten.              *)
(*   ReleaseIsQuiescent  After isotp_release() no timer is armed, and no   *)
(*                       callback and no reception runs.                   *)
(*   TransferInvariant   TransferInv, the second inductive invariant.      *)
(*   ClaimIsDrained      A new transfer starts with every timer dead.      *)
(*   OneTxUser           so->tx has one user at a time.                    *)
(*   AlwaysWatched       What runs is watched by a timer or worked on.     *)
(*   BindIsSafe          bind() never clears the tag of a live transfer.   *)
(*                                                                         *)
(* None of the last four holds by the lock alone: the builder of a PDU and *)
(* the hrtimer callbacks run without so->rx_lock.  TransferInv says, for   *)
(* each state of tx.state, which of the callers, the softirq and the three *)
(* timers can still be at work; each of its parts needs the others.        *)
(* Like these four it is about runs in which no caller sleeps through      *)
(* GenMod transfers (NoLapse): so->tx_gen cannot tell such a caller that   *)
(* its transfer is long over.  IsotpTxFrameProofs shows that               *)
(* MaxXfer <= GenMod suffices.                                             *)
(*                                                                         *)
(* Each invariant is shown to hold initially (..Init) and to survive every *)
(* action; the actions are taken in four groups: sendmsg() callers, the    *)
(* receive softirq, the hrtimers, and the life cycle of the socket.        *)
(***************************************************************************)
EXTENDS IsotpTx, TLAPS

-----------------------------------------------------------------------------
(* Types. *)

\* The types of TypeOK by name.
Gens   == 0..(GenMod - 1)
TxRec  == [xfer : Nat, len : Nat, idx : Nat, bs : Nat, fcbs : Nat, gap : BOOLEAN]
LocRec == [xfer : Nat, gen : Gens, len : Nat, err : Returns]
OutRec == [xfer : Nat, res : Returns]
SeenRec == [gen : Gens, st : States]
ResRec == [gen : Gens, err : Results]

\* The remainder of a natural number.
LEMMA ModRange == ASSUME NEW a \in Nat, NEW b \in Nat \ {0} PROVE a % b \in 0..(b - 1)
  OBVIOUS

\* isotp_inc_tx_gen() stays within the generation mask.
LEMMA IncGenType ==
  ASSUME TypeOK
  PROVE  isotp_inc_tx_gen(tx_gen) \in Gens
<1>1. tx_gen + 1 \in Nat /\ GenMod \in Nat \ {0}
  BY TxAssumption DEF TypeOK
<1> QED
  BY <1>1, ModRange DEF isotp_inc_tx_gen, Gens

\* The slot of a generation is an index of tx_result[].
LEMMA SlotType ==
  ASSUME NEW g \in Gens
  PROVE  Slot(g) \in 0..(Slots - 1)
<1>1. g \in Nat /\ Slots \in Nat \ {0}
  BY TxAssumption DEF Gens
<1> QED
  BY <1>1, ModRange DEF Slot

\* isotp_set_tx_result() keeps the type of tx_result[].
LEMMA SetResultType ==
  ASSUME TypeOK, NEW g \in Gens, NEW e \in Results, isotp_set_tx_result(g, e)
  PROVE  tx_result' \in [0..(Slots - 1) -> ResRec]
<1>1. Slot(g) \in 0..(Slots - 1)
  BY SlotType
<1> QED
  BY <1>1 DEF TypeOK, isotp_set_tx_result, ResRec, Gens

\* An error path of isotp_sendmsg() keeps the type of the locals.
LEMMA FailType ==
  ASSUME TypeOK, NEW s \in Senders, NEW e \in Returns, NEW to, Fail(s, e, to)
  PROVE  loc' \in [Senders -> LocRec]
<1>1. loc \in [Senders -> LocRec]
  BY DEF TypeOK, LocRec, Gens
<1>2. [loc[s] EXCEPT !.err = e] \in LocRec
  BY <1>1 DEF LocRec
<1> QED
  BY <1>1, <1>2 DEF Fail

\* A return of isotp_sendmsg() keeps the type of the results.
LEMMA ReturnType ==
  ASSUME TypeOK, NEW s \in Senders, NEW r \in Returns, Return(s, r) \/ ReturnAndWake(s, r)
  PROVE  out' \in [Senders -> OutRec]
<1>1. [xfer |-> loc[s].xfer, res |-> r] \in OutRec
  BY DEF TypeOK, OutRec
<1> QED
  BY <1>1 DEF TypeOK, Return, ReturnAndWake, OutRec

\* The drains are numbered stages, each followed by the next.
LEMMA DrainStep ==
  ASSUME NEW i \in 1..3
  PROVE  /\ Drains[i] \in InDrain /\ EvDrains[i] \in InEvDrain
         /\ i # 3 => Drains[i + 1] \in InDrain /\ EvDrains[i + 1] \in InEvDrain
<1>1. i = 1 \/ i = 2 \/ i = 3
  OBVIOUS
<1> QED
  BY <1>1 DEF Drains, EvDrains, InDrain, InEvDrain

\* A callback reads a generation or a state into its locals.
LEMMA SeenType ==
  ASSUME TypeOK, NEW t \in Timeouts, NEW g \in Gens, NEW st \in States
  PROVE  /\ [seen EXCEPT ![t].gen = g] \in [Timeouts -> SeenRec]
         /\ [seen EXCEPT ![t].st = st] \in [Timeouts -> SeenRec]
<1>1. seen \in [Timeouts -> SeenRec]
  BY DEF TypeOK, SeenRec, Gens
<1>2. /\ [seen[t] EXCEPT !.gen = g] \in SeenRec
      /\ [seen[t] EXCEPT !.st = st] \in SeenRec
  BY <1>1 DEF SeenRec
<1> QED
  BY <1>1, <1>2

\* The fill half of isotp_send_cframe() keeps the type of so->tx.
LEMMA CframeFillType ==
  ASSUME TypeOK, NEW failed \in BOOLEAN, CframeFill(failed)
  PROVE  tx' \in TxRec
<1>1. tx \in TxRec
  BY DEF TypeOK, TxRec
<1>2. (tx.bs + 1) % 256 \in Nat
  BY <1>1, ModRange DEF TxRec
<1>3. CASE tx' = tx
  BY <1>1, <1>3
<1>4. CASE tx' = [tx EXCEPT !.idx = IF @ < tx.len THEN @ + 1 ELSE @, !.bs = (@ + 1) % 256]
  <2>1. (IF tx.idx < tx.len THEN tx.idx + 1 ELSE tx.idx) \in Nat
    BY <1>1 DEF TxRec
  <2>2. \A i, b \in Nat : [tx EXCEPT !.idx = i, !.bs = b] \in TxRec
    BY <1>1 DEF TxRec
  <2> QED
    BY <1>2, <1>4, <2>1, <2>2
<1> QED
  BY <1>3, <1>4 DEF CframeFill

\* The send half of isotp_send_cframe() keeps the types of tag and bus.
LEMMA CframeEmitType ==
  ASSUME TypeOK, CframeEmit
  PROVE  /\ cfecho' \in Nat \X Nat
         /\ echoes' \subseteq Nat \X Nat
         /\ todo' \in [Xfers -> Int]
<1>1. <<tx.xfer, tx.idx>> \in Nat \X Nat
  BY DEF TypeOK
<1> QED
  BY SMTT(30), <1>1 DEF TypeOK, CframeEmit

\* Every step of a sendmsg() caller preserves TypeOK.
LEMMA SenderTypes ==
  ASSUME TypeOK, NEW s \in Senders, Sendmsg(s) \/ SendStep(s) \/ Interrupted(s)
  PROVE  TypeOK'
<1> USE TxAssumption DEF bindVars, sockVars, lockVars, timerVars, callVars, histVars
<1>1. ASSUME Sendmsg(s) PROVE TypeOK'
  <2>1. pc' \in [Senders -> SenderPCs]
    BY <1>1 DEF TypeOK, Sendmsg, Filling, Goto, InDrain, InEvDrain, PreClaim, SenderPCs
  <2>2. loc' \in [Senders -> LocRec]
    <3>1. PICK n \in Frames[s] :
            loc' = [loc EXCEPT ![s] = [xfer |-> 0, gen |-> 0, len |-> n, err |-> "none"]]
      BY <1>1 DEF Sendmsg
    <3>2. [xfer |-> 0, gen |-> 0, len |-> n, err |-> "none"] \in LocRec
      BY <3>1 DEF Gens, LocRec, Returns
    <3> QED
      BY <3>1, <3>2 DEF TypeOK, Gens, LocRec
  <2> QED
    BY <2>1, <2>2, <1>1 DEF TypeOK, Sendmsg, Goto, Gens, LocRec
<1>2. ASSUME Interrupted(s) PROVE TypeOK'
  <2>1. pc' \in [Senders -> SenderPCs]
    BY <1>2 DEF TypeOK, Interrupted, Fail, Filling, Goto, InDrain, InEvDrain, PreClaim,
       Return, SenderPCs
  <2>2. loc' \in [Senders -> LocRec]
    BY FailType, <1>2 DEF Interrupted, Returns, TypeOK, LocRec, Gens
  <2>3. out' \in [Senders -> OutRec]
    BY ReturnType, <1>2 DEF Interrupted, Returns, TypeOK, OutRec
  <2> QED
    BY <2>1, <2>2, <2>3, <1>2 DEF TypeOK, Interrupted, Fail, Goto, Return, Gens, LocRec,
       OutRec
<1>3. ASSUME Claim(s) PROVE TypeOK'
  BY <1>3 DEF TypeOK, Claim, Drains, Filling, Goto, InDrain, InEvDrain, PreClaim,
     SenderPCs
<1>4. ASSUME ClaimBusy(s) PROVE TypeOK'
  <2>1. pc' \in [Senders -> SenderPCs]
    BY <1>4 DEF TypeOK, ClaimBusy, Filling, Goto, InDrain, InEvDrain, PreClaim, Return,
       SenderPCs
  <2>2. out' \in [Senders -> OutRec]
    BY ReturnType, <1>4 DEF ClaimBusy, Returns, TypeOK, OutRec
  <2> QED
    BY <2>1, <2>2, <1>4 DEF TypeOK, ClaimBusy, Goto, Return, OutRec
<1>5. ASSUME WaitIdle(s) PROVE TypeOK'
  BY <1>5 DEF TypeOK, WaitIdle, Filling, GaveUp, Goto, InDrain, InEvDrain, PreClaim,
     SenderPCs
<1>6. ASSUME Drain(s) PROVE TypeOK'
  <2>1. armed' \in [Timers -> BOOLEAN]
    BY <1>6 DEF TypeOK, Drain, DrainOrder, Goto, Timeouts, Timers, hrtimer_cancel
  <2>2. pc' \in [Senders -> SenderPCs]
    BY DrainStep, <1>6 DEF Drain, Goto, TypeOK, SenderPCs
  <2> QED
    BY <2>1, <2>2, <1>6 DEF TypeOK, Drain, DrainOrder, Goto, hrtimer_cancel
<1>7. ASSUME Commit(s) PROVE TypeOK'
  <2>1. tx_gen' \in Gens
    BY IncGenType, <1>7 DEF Commit
  <2>2. tx_result' \in [0..(Slots - 1) -> ResRec]
    <3>1. isotp_inc_tx_gen(tx_gen) \in Gens
      BY IncGenType
    <3>2. isotp_set_tx_result(isotp_inc_tx_gen(tx_gen), "ECOMM")
      BY <1>7 DEF Commit
    <3> QED
      BY SetResultType, <3>1, <3>2 DEF Results, TxErrs
  <2>3. pc' \in [Senders -> SenderPCs]
    BY <1>7 DEF TypeOK, Commit, Filling, Goto, InDrain, InEvDrain, PreClaim, SenderPCs,
       Slot, isotp_inc_tx_gen, isotp_set_tx_result
  <2>4. loc' \in [Senders -> LocRec]
    <3>1. isotp_inc_tx_gen(tx_gen) \in Gens
      BY IncGenType
    <3>2. loc \in [Senders -> LocRec] /\ started + 1 \in Nat
      BY DEF TypeOK, LocRec, Gens
    <3>3. [loc[s] EXCEPT !.xfer = started + 1, !.gen = isotp_inc_tx_gen(tx_gen)] \in LocRec
      BY <3>1, <3>2 DEF LocRec
    <3> QED
      BY <1>7, <3>2, <3>3 DEF Commit
  <2>5. started' \in Nat
    <3>1. started' = started + 1
      BY <1>7 DEF Commit
    <3> QED
      BY <3>1 DEF TypeOK
  <2>6. fate' \in [Xfers -> Results \cup {"none", "run", "drop"}]
    BY <1>7 DEF TypeOK, Commit, Goto, Results, Slot, TxErrs, Xfers, isotp_inc_tx_gen,
       isotp_set_tx_result
  <2> QED
    BY <2>1, <2>2, <2>3, <2>4, <2>5, <2>6, <1>7 DEF TypeOK, Commit, Goto, Slot,
       isotp_inc_tx_gen, isotp_set_tx_result, Gens, LocRec, ResRec
<1>8. ASSUME Publish(s) PROVE TypeOK'
  BY <1>8 DEF TypeOK, Publish, Filling, Goto, InDrain, InEvDrain, NoTag, PreClaim,
     SenderPCs, States
<1>9. ASSUME Recheck(s) PROVE TypeOK'
  <2>1. pc' \in [Senders -> SenderPCs]
    BY <1>9 DEF TypeOK, Recheck, Fail, Filling, Goto, InDrain, InEvDrain, PreClaim,
       SenderPCs
  <2>2. loc' \in [Senders -> LocRec]
    BY FailType, <1>9 DEF Recheck, Returns, TypeOK, LocRec, Gens
  <2> QED
    BY <2>1, <2>2, <1>9 DEF TypeOK, Recheck, Fail, Goto, Gens, LocRec
<1>10. ASSUME BuildFails(s) PROVE TypeOK'
  <2>1. sk_err' \in TxErrs \cup {"none", "ENODEV"}
    BY <1>10 DEF TypeOK, BuildFails, Fail, Goto, TxErrs
  <2>2. pc' \in [Senders -> SenderPCs]
    BY <1>10 DEF TypeOK, BuildFails, Fail, Filling, Goto, InDrain, InEvDrain, PreClaim,
       SenderPCs
  <2>3. loc' \in [Senders -> LocRec]
    BY FailType, <1>10 DEF BuildFails, Returns
  <2> QED
    BY <2>1, <2>2, <2>3, <1>10 DEF TypeOK, BuildFails, Fail, Goto, Gens, LocRec
<1>11. ASSUME Build(s) PROVE TypeOK'
  <2>1. cfecho' \in Nat \X Nat
    BY <1>11 DEF TypeOK, Build, Goto, NoTag
  <2>2. tx' \in TxRec
    <3>1. tx \in TxRec /\ loc[s].xfer \in Nat /\ loc[s].len \in Nat
      BY DEF TypeOK, TxRec
    <3>2. \A x, n, f \in Nat, gap \in BOOLEAN :
            [tx EXCEPT !.xfer = x, !.len = n, !.idx = 1, !.gap = gap, !.fcbs = f] \in TxRec
      BY <3>1 DEF TxRec
    <3>3. tx.fcbs \in Nat /\ tx.gap \in BOOLEAN
      BY <3>1 DEF TxRec
    <3>4. PICK cfbc \in BOOLEAN : \E gap \in (IF cfbc THEN BOOLEAN ELSE {tx.gap}) :
            tx' = [tx EXCEPT !.xfer = loc[s].xfer, !.len = loc[s].len, !.idx = 1,
                             !.gap = gap, !.fcbs = IF cfbc THEN 0 ELSE @]
      BY <1>11 DEF Build
    <3>5. PICK gap \in (IF cfbc THEN BOOLEAN ELSE {tx.gap}) :
            tx' = [tx EXCEPT !.xfer = loc[s].xfer, !.len = loc[s].len, !.idx = 1,
                             !.gap = gap, !.fcbs = IF cfbc THEN 0 ELSE @]
      BY <3>4
    <3>6. gap \in BOOLEAN
      BY <3>3
    <3>7. CASE cfbc = TRUE
      <4>1. tx' = [tx EXCEPT !.xfer = loc[s].xfer, !.len = loc[s].len, !.idx = 1,
                             !.gap = gap, !.fcbs = 0]
        BY <3>5, <3>7
      <4> QED
        BY <3>1, <3>2, <3>6, <4>1
    <3>8. CASE cfbc = FALSE
      <4>1. tx' = [tx EXCEPT !.xfer = loc[s].xfer, !.len = loc[s].len, !.idx = 1,
                             !.gap = gap, !.fcbs = tx.fcbs]
        BY <3>5, <3>8
      <4> QED
        BY <3>1, <3>2, <3>3, <3>6, <4>1
    <3> QED
      BY <3>4, <3>7, <3>8
  <2>3. pc' \in [Senders -> SenderPCs]
    BY <1>11 DEF TypeOK, Build, Filling, Goto, InDrain, InEvDrain, NoTag, PreClaim,
       SenderPCs
  <2>4. todo' \in [Xfers -> Int]
    <3>1. todo' = [todo EXCEPT ![loc[s].xfer] = loc[s].len]
      BY <1>11 DEF Build
    <3>2. todo \in [Xfers -> Int] /\ loc[s].len \in Nat
      BY DEF TypeOK
    <3>3. loc[s].len \in Int
      BY <3>2
    <3> QED
      BY <3>1, <3>2, <3>3
  <2> QED
    BY <2>1, <2>2, <2>3, <2>4, <1>11 DEF TypeOK, Build, Goto, NoTag, TxRec
<1>12. ASSUME Arm(s) PROVE TypeOK'
  <2>1. tx_state' \in States
    BY <1>12 DEF TypeOK, Arm, Goto, ReturnAndWake, States, TxHrt, Woken, WokenRelease,
       hrtimer_start
  <2>2. armed' \in [Timers -> BOOLEAN]
    BY <1>12 DEF TypeOK, Arm, Goto, ReturnAndWake, Timeouts, Timers, TxHrt, Woken,
       WokenRelease, hrtimer_start
  <2>3. pc' \in [Senders -> SenderPCs]
    BY ZenonT(40), <1>12 DEF TypeOK, Arm, Filling, Goto, InDrain, InEvDrain, PreClaim,
       ReturnAndWake, SenderPCs, TxHrt, Woken, WokenRelease, hrtimer_start
  <2>4. rpc' \in ReleasePCs
    BY <1>12 DEF TypeOK, Arm, Goto, InDrain, ReleasePCs, ReturnAndWake, TxHrt, Woken,
       WokenRelease, hrtimer_start
  <2>5. out' \in [Senders -> OutRec]
    BY ReturnType, <1>12 DEF Arm, Returns, TypeOK, OutRec
  <2> QED
    BY <2>1, <2>2, <2>3, <2>4, <2>5, <1>12 DEF TypeOK, Arm, Goto, ReturnAndWake, TxHrt,
       Woken, WokenRelease, hrtimer_start, OutRec
<1>13. ASSUME Send(s) PROVE TypeOK'
  <2>1. pc' \in [Senders -> SenderPCs]
    BY ZenonT(40), <1>13 DEF TypeOK, Send, Fail, Filling, Goto, InDrain, InEvDrain, PreClaim,
       Return, SenderPCs
  <2>2. loc' \in [Senders -> LocRec]
    BY FailType, <1>13 DEF Send, Returns, TypeOK, LocRec, Gens
  <2>3. echoes' \in SUBSET (Nat \X Nat)
    <3>1. <<loc[s].xfer, 1>> \in Nat \X Nat
      BY DEF TypeOK
    <3> QED
      BY <1>13, <3>1 DEF Send, TypeOK
  <2>4. todo' \in [Xfers -> Int]
    <3>1. todo \in [Xfers -> Int]
      BY DEF TypeOK
    <3>2. \A x \in Xfers : todo[x] - 1 \in Int
      BY <3>1
    <3>3. [todo EXCEPT ![loc[s].xfer] = @ - 1] \in [Xfers -> Int]
      BY <3>1, <3>2
    <3> QED
      BY <1>13, <3>1, <3>3 DEF Send
  <2>5. out' \in [Senders -> OutRec]
    BY ReturnType, <1>13 DEF Send, Returns, Results, TypeOK, OutRec
  <2> QED
    BY <2>1, <2>2, <2>3, <2>4, <2>5, <1>13 DEF TypeOK, Send, Fail, Goto, Return, Gens,
       LocRec, OutRec
<1>14. ASSUME ErrLock(s) PROVE TypeOK'
  <2>1. lock' \in Senders \cup {"free", "softirq"}
    BY <1>14 DEF TypeOK, ErrLock, Goto, Return, StillMine
  <2>2. pc' \in [Senders -> SenderPCs]
    BY <1>14 DEF TypeOK, ErrLock, Goto, Return, EvDrains, SenderPCs, InEvDrain
  <2>3. out' \in [Senders -> OutRec]
    BY ReturnType, <1>14 DEF ErrLock, TypeOK, OutRec
  <2> QED
    BY <2>1, <2>2, <2>3, <1>14 DEF TypeOK, ErrLock, Goto, Return, StillMine, OutRec
<1>15. ASSUME CancelOwn(s) PROVE TypeOK'
  BY ZenonT(40), <1>15 DEF TypeOK, CancelOwn, Filling, Goto, InDrain, InEvDrain, PreClaim,
     SenderPCs, Timeouts, Timers, TxHrt, hrtimer_cancel
<1>16. ASSUME DropLock(s) PROVE TypeOK'
  BY <1>16 DEF TypeOK, DropLock, Filling, Goto, InDrain, InEvDrain, PreClaim, SenderPCs
<1>17. ASSUME Drop(s) PROVE TypeOK'
  BY ZenonT(40), <1>17 DEF TypeOK, Drop, DropState, Filling, InDrain, InEvDrain, NoTag, PreClaim,
     ReleasePCs, Results, ReturnAndWake, Returns, SenderPCs, States, TxErrs, Woken,
     WokenRelease, Xfers
<1>18. ASSUME WaitDone(s) PROVE TypeOK'
  BY ZenonT(40), <1>18 DEF TypeOK, WaitDone, Filling, GaveUp, Goto, InDrain, InEvDrain, PreClaim,
     SenderPCs, StillMine
<1>19. ASSUME WokenDone(s) PROVE TypeOK'
  <2>1. pc' \in [Senders -> SenderPCs]
    BY ZenonT(40), <1>19 DEF TypeOK, WokenDone, Fail, Filling, Goto, InDrain, InEvDrain, PreClaim,
       SenderPCs, StillMine
  <2>2. loc' \in [Senders -> LocRec]
    BY FailType, <1>19 DEF WokenDone, Returns, TypeOK, LocRec, Gens
  <2> QED
    BY <2>1, <2>2, <1>19 DEF TypeOK, WokenDone, Fail, Goto, StillMine, Gens, LocRec
<1>20. ASSUME ReadResult(s) PROVE TypeOK'
  <2>1. pc' \in [Senders -> SenderPCs]
    BY <1>20 DEF TypeOK, ReadResult, Filling, InDrain, InEvDrain, PreClaim, Return,
       SenderPCs, Slot, isotp_get_tx_result
  <2>2. out' \in [Senders -> OutRec]
    <3>1. isotp_get_tx_result(loc[s].gen) \in Returns
      <4>1. loc[s].gen \in Gens
        BY DEF TypeOK, Gens
      <4>2. Slot(loc[s].gen) \in 0..(Slots - 1)
        BY <4>1, SlotType
      <4> QED
        BY <4>2 DEF isotp_get_tx_result, TypeOK, Returns, Results, TxErrs
    <3> QED
      BY ReturnType, <1>20, <3>1 DEF ReadResult
  <2> QED
    BY <2>1, <2>2, <1>20 DEF TypeOK, ReadResult, Return, Slot, isotp_get_tx_result,
       OutRec
<1> QED
  BY <1>1, <1>2, <1>3, <1>4, <1>5, <1>6, <1>7, <1>8, <1>9, <1>10, <1>11, <1>12, <1>13,
     <1>14, <1>15, <1>16, <1>17, <1>18, <1>19, <1>20 DEF SendStep

\* Every step of the receive softirq preserves TypeOK.
LEMMA SoftirqTypes ==
  ASSUME TypeOK, FcArrives \/ (\E e \in echoes : EchoArrives(e)) \/ SoftirqStep
  PROVE  TypeOK'
<1> USE TxAssumption DEF bindVars, sockVars, lockVars, timerVars, callVars, histVars
<1>1. ASSUME NEW e \in echoes, EchoArrives(e) PROVE TypeOK'
  BY <1>1 DEF TypeOK, EchoArrives, Dispatched, Enter, HandlerPCs
<1>2. ASSUME FcArrives PROVE TypeOK'
  BY <1>2 DEF TypeOK, FcArrives, Dispatched, Enter, HandlerPCs, WaitsForFc
<1>3. ASSUME FcCancel PROVE TypeOK'
  BY <1>3 DEF TypeOK, FcCancel, HandlerPCs, Leave, Timeouts, Timers, WaitsForFc,
     hrtimer_cancel
<1>4. ASSUME FcMalformed PROVE TypeOK'
  <2>1. tx_result' \in [0..(Slots - 1) -> ResRec]
    BY SetResultType, <1>4 DEF FcMalformed, FcErr, Results, TxErrs, TypeOK, Gens
  <2>2. sk_err' \in TxErrs \cup {"none", "ENODEV"}
    BY <1>4 DEF TypeOK, FcMalformed, FcErr, Slot, TxErrs, isotp_set_tx_result
  <2>3. hpc' \in HandlerPCs
    BY <1>4 DEF TypeOK, FcMalformed, FcErr, HandlerPCs, Slot, isotp_set_tx_result
  <2>4. fate' \in [Xfers -> Results \cup {"none", "run", "drop"}]
    BY <1>4 DEF TypeOK, FcMalformed, FcErr, Results, Slot, TxErrs, Xfers,
       isotp_set_tx_result
  <2> QED
    BY <2>1, <2>2, <2>3, <2>4, <1>4 DEF TypeOK, FcMalformed, FcErr, Slot,
       isotp_set_tx_result, Gens, ResRec
<1>5. ASSUME FcStatus PROVE TypeOK'
  <2>1. tx_state' \in States
    BY <1>5 DEF TypeOK, FcStatus, FcCts, FcErr, FcParms, FcRefused, FcTakesParms,
       FcWaits, FcWt, Leave, Slot, States, hrtimer_start, isotp_set_tx_result
  <2>2. tx_result' \in [0..(Slots - 1) -> ResRec]
    BY SetResultType, <1>5 DEF FcStatus, FcCts, FcWt, FcRefused, FcErr, Results, TxErrs,
       TypeOK, Gens, ResRec
  <2>3. tx' \in TxRec
    <3>1. PICK f \in Flows : tx' = [FcParms(f) EXCEPT !.bs = 0] \/ tx' = FcParms(f)
      BY <1>5 DEF FcStatus
    <3>2. f.bs \in Nat /\ f.gap \in BOOLEAN
      OBVIOUS
    <3>3. FcParms(f) \in TxRec
      BY <3>2 DEF FcParms, TypeOK, TxRec
    <3> QED
      BY <3>1, <3>3 DEF TxRec
  <2>4. sk_err' \in TxErrs \cup {"none", "ENODEV"}
    BY <1>5 DEF TypeOK, FcStatus, FcCts, FcErr, FcParms, FcRefused, FcTakesParms,
       FcWaits, FcWt, Leave, Slot, TxErrs, hrtimer_start, isotp_set_tx_result
  <2>5. lock' \in Senders \cup {"free", "softirq"}
    BY <1>5 DEF TypeOK, FcStatus, FcCts, FcErr, FcParms, FcRefused, FcTakesParms,
       FcWaits, FcWt, Leave, Slot, hrtimer_start, isotp_set_tx_result
  <2>6. armed' \in [Timers -> BOOLEAN]
    BY <1>5 DEF TypeOK, FcStatus, FcCts, FcErr, FcParms, FcRefused, FcTakesParms,
       FcWaits, FcWt, Leave, Slot, Timeouts, Timers, hrtimer_start, isotp_set_tx_result
  <2>7. hpc' \in HandlerPCs
    BY <1>5 DEF TypeOK, FcStatus, FcCts, FcErr, FcParms, FcRefused, FcTakesParms,
       FcWaits, FcWt, HandlerPCs, Leave, Slot, hrtimer_start, isotp_set_tx_result
  <2>8. fate' \in [Xfers -> Results \cup {"none", "run", "drop"}]
    BY <1>5 DEF TypeOK, FcStatus, FcCts, FcErr, FcParms, FcRefused, FcTakesParms,
       FcWaits, FcWt, Leave, Results, Slot, TxErrs, Xfers, hrtimer_start,
       isotp_set_tx_result
  <2> QED
    BY <2>1, <2>2, <2>3, <2>4, <2>5, <2>6, <2>7, <2>8, <1>5 DEF TypeOK, FcStatus,
       FcCts, FcErr, FcParms, FcRefused, FcTakesParms, FcWaits, FcWt, Leave, Slot,
       hrtimer_start, isotp_set_tx_result, Gens, ResRec, TxRec
<1>6. ASSUME Finish PROVE TypeOK'
  BY <1>6 DEF TypeOK, Finish, Filling, HandlerPCs, InDrain, InEvDrain, Leave, PreClaim,
     ReleasePCs, SenderPCs, States, WakeUp, Woken, WokenRelease
<1>7. ASSUME EchoCancel PROVE TypeOK'
  BY <1>7 DEF TypeOK, EchoCancel, HandlerPCs, Leave, NoTag, Timeouts, Timers,
     hrtimer_cancel
<1>8. ASSUME EchoBody PROVE TypeOK'
  <2>1. tx_state' \in States
    BY <1>8 DEF TypeOK, EchoBody, EchoAllSent, EchoBlockEnd, EchoBurst, EchoDone,
       EchoGap, EchoWaitFc, Leave, Slot, States, hrtimer_start, isotp_set_tx_result
  <2>2. tx_result' \in [0..(Slots - 1) -> ResRec]
    BY SetResultType, <1>8 DEF EchoBody, EchoDone, EchoWaitFc, EchoBurst, EchoGap,
       Results, TypeOK, Gens, ResRec
  <2>3. lock' \in Senders \cup {"free", "softirq"}
    BY <1>8 DEF TypeOK, EchoBody, EchoAllSent, EchoBlockEnd, EchoBurst, EchoDone,
       EchoGap, EchoWaitFc, Leave, Slot, hrtimer_start, isotp_set_tx_result
  <2>4. armed' \in [Timers -> BOOLEAN]
    BY <1>8 DEF TypeOK, EchoBody, EchoAllSent, EchoBlockEnd, EchoBurst, EchoDone,
       EchoGap, EchoWaitFc, Leave, Slot, Timeouts, Timers, hrtimer_start,
       isotp_set_tx_result
  <2>5. hpc' \in HandlerPCs
    BY <1>8 DEF TypeOK, EchoBody, EchoAllSent, EchoBlockEnd, EchoBurst, EchoDone,
       EchoGap, EchoWaitFc, HandlerPCs, Leave, Slot, hrtimer_start, isotp_set_tx_result
  <2>6. fate' \in [Xfers -> Results \cup {"none", "run", "drop"}]
    BY <1>8 DEF TypeOK, EchoBody, EchoAllSent, EchoBlockEnd, EchoBurst, EchoDone,
       EchoGap, EchoWaitFc, Leave, Results, Slot, TxErrs, Xfers, hrtimer_start,
       isotp_set_tx_result
  <2> QED
    BY <2>1, <2>2, <2>3, <2>4, <2>5, <2>6, <1>8 DEF TypeOK, EchoBody, EchoAllSent,
       EchoBlockEnd, EchoBurst, EchoDone, EchoGap, EchoWaitFc, Leave, Slot,
       hrtimer_start, isotp_set_tx_result, Gens, ResRec
<1>9. ASSUME SoftirqFill PROVE TypeOK'
  <2>1. tx' \in TxRec
    BY CframeFillType, <1>9 DEF SoftirqFill
  <2>2. lock' \in Senders \cup {"free", "softirq"}
    BY <1>9 DEF TypeOK, SoftirqFill, CframeFill, Leave
  <2>3. hpc' \in HandlerPCs
    BY <1>9 DEF TypeOK, SoftirqFill, CframeFill, HandlerPCs, Leave
  <2> QED
    BY <2>1, <2>2, <2>3, <1>9 DEF TypeOK, SoftirqFill, CframeFill, Leave, TxRec
<1>10. ASSUME SoftirqEmit PROVE TypeOK'
  <2>1. cfecho' \in Nat \X Nat
    BY CframeEmitType, <1>10 DEF SoftirqEmit
  <2>2. lock' \in Senders \cup {"free", "softirq"}
    BY <1>10 DEF TypeOK, SoftirqEmit, CframeEmit, Leave
  <2>3. hpc' \in HandlerPCs
    BY <1>10 DEF TypeOK, SoftirqEmit, CframeEmit, HandlerPCs, Leave
  <2>4. echoes' \in SUBSET (Nat \X Nat)
    BY CframeEmitType, <1>10 DEF SoftirqEmit
  <2>5. todo' \in [Xfers -> Int]
    BY CframeEmitType, <1>10 DEF SoftirqEmit
  <2> QED
    BY <2>1, <2>2, <2>3, <2>4, <2>5, <1>10 DEF TypeOK, SoftirqEmit, CframeEmit, Leave
<1> QED
  BY <1>1, <1>2, <1>3, <1>4, <1>5, <1>6, <1>7, <1>8, <1>9, <1>10 DEF SoftirqStep

\* Every expiry and every step of a callback preserves TypeOK.
LEMMA TimerTypes ==
  ASSUME TypeOK, (\E t \in Timers : Expire(t)) \/ (\E t \in Timeouts : TimeoutStep(t)) \/ TxfrStep
  PROVE  TypeOK'
<1> USE TxAssumption DEF bindVars, sockVars, lockVars, timerVars, callVars, histVars
<1>1. ASSUME NEW t \in Timers, Expire(t) PROVE TypeOK'
  BY ZenonT(40), <1>1 DEF TypeOK, Expire, CallbackPCs, Timeouts, Timers
<1>2. ASSUME NEW t \in Timeouts, TimeoutGen(t) PROVE TypeOK'
  <2>1. cb' \in [Timers -> CallbackPCs]
    BY <1>2 DEF TypeOK, TimeoutGen, CallbackPCs, Step, Timeouts, Timers
  <2>2. seen' \in [Timeouts -> SeenRec]
    BY SeenType, <1>2 DEF TimeoutGen, TypeOK, SeenRec, Gens
  <2> QED
    BY <2>1, <2>2, <1>2 DEF TypeOK, TimeoutGen, Step, Gens, SeenRec
<1>3. ASSUME NEW t \in Timeouts, TimeoutState(t) PROVE TypeOK'
  <2>1. cb' \in [Timers -> CallbackPCs]
    BY <1>3 DEF TypeOK, TimeoutState, CallbackPCs, GaveUp, Step, Timeouts, Timers
  <2>2. seen' \in [Timeouts -> SeenRec]
    BY SeenType, <1>3 DEF TimeoutState, TypeOK, SeenRec, Gens
  <2> QED
    BY <2>1, <2>2, <1>3 DEF TypeOK, TimeoutState, GaveUp, Step, Gens, SeenRec
<1>4. ASSUME NEW t \in Timeouts, TimeoutCas(t) PROVE TypeOK'
  <2>1. tx_state' \in States
    BY <1>4 DEF TypeOK, TimeoutCas, States, Step
  <2>2. cb' \in [Timers -> CallbackPCs]
    BY <1>4 DEF TypeOK, TimeoutCas, CallbackPCs, Step, Timeouts, Timers
  <2>3. fate' \in [Xfers -> Results \cup {"none", "run", "drop"}]
    BY <1>4 DEF TypeOK, TimeoutCas, Results, Step, TxErrs, Xfers
  <2> QED
    BY <2>1, <2>2, <2>3, <1>4 DEF TypeOK, TimeoutCas, Step
<1>5. ASSUME NEW t \in Timeouts, TimeoutPost(t) PROVE TypeOK'
  <2>1. tx_result' \in [0..(Slots - 1) -> ResRec]
    BY SetResultType, <1>5 DEF TimeoutPost, Results, TxErrs, TypeOK, Gens
  <2>2. sk_err' \in TxErrs \cup {"none", "ENODEV"}
    BY <1>5 DEF TypeOK, TimeoutPost, Slot, Step, TxErrs, WakeUp, Woken, WokenRelease,
       isotp_set_tx_result
  <2>3. cb' \in [Timers -> CallbackPCs]
    BY <1>5 DEF TypeOK, TimeoutPost, CallbackPCs, Slot, Step, Timeouts, Timers, WakeUp,
       Woken, WokenRelease, isotp_set_tx_result
  <2>4. pc' \in [Senders -> SenderPCs]
    BY <1>5 DEF TypeOK, TimeoutPost, Filling, InDrain, InEvDrain, PreClaim, SenderPCs,
       Slot, Step, WakeUp, Woken, WokenRelease, isotp_set_tx_result
  <2>5. rpc' \in ReleasePCs
    BY <1>5 DEF TypeOK, TimeoutPost, InDrain, ReleasePCs, Slot, Step, WakeUp, Woken,
       WokenRelease, isotp_set_tx_result
  <2> QED
    BY <2>1, <2>2, <2>3, <2>4, <2>5, <1>5 DEF TypeOK, TimeoutPost, Slot, Step, WakeUp,
       Woken, WokenRelease, isotp_set_tx_result, Gens, ResRec
<1>6. ASSUME TxfrRearm PROVE TypeOK'
  BY <1>6 DEF TypeOK, TxfrRearm, CallbackPCs, Step, Timeouts, Timers, hrtimer_start
<1>7. ASSUME TxfrCheck PROVE TypeOK'
  BY <1>7 DEF TypeOK, TxfrCheck, CallbackPCs, NoTag, Step, Timeouts, Timers
<1>8. ASSUME TxfrFill PROVE TypeOK'
  <2>1. tx' \in TxRec
    BY CframeFillType, <1>8 DEF TxfrFill
  <2>2. cb' \in [Timers -> CallbackPCs]
    BY <1>8 DEF TypeOK, TxfrFill, CallbackPCs, CframeFill, Step, Timeouts, Timers
  <2> QED
    BY <2>1, <2>2, <1>8 DEF TypeOK, TxfrFill, CframeFill, Step, TxRec
<1>9. ASSUME TxfrEmit PROVE TypeOK'
  <2>1. cfecho' \in Nat \X Nat
    BY CframeEmitType, <1>9 DEF TxfrEmit
  <2>2. cb' \in [Timers -> CallbackPCs]
    BY <1>9 DEF TypeOK, TxfrEmit, CallbackPCs, CframeEmit, Step, Timeouts, Timers
  <2>3. echoes' \in SUBSET (Nat \X Nat)
    BY CframeEmitType, <1>9 DEF TxfrEmit
  <2>4. todo' \in [Xfers -> Int]
    BY CframeEmitType, <1>9 DEF TxfrEmit
  <2> QED
    BY <2>1, <2>2, <2>3, <2>4, <1>9 DEF TypeOK, TxfrEmit, CframeEmit, Step
<1> QED
  BY <1>1, <1>2, <1>3, <1>4, <1>5, <1>6, <1>7, <1>8, <1>9 DEF TimeoutStep, TxfrStep

\* bind(), the notifier, the grace period and release() preserve TypeOK.
LEMMA LifecycleTypes ==
  ASSUME TypeOK,
         \/ BindCheck \/ BindRegister \/ NetdevUnregister \/ NetdevDown
         \/ GracePeriodEnds \/ SockError \/ Close \/ ReleaseInterrupted \/ ReleaseNext
  PROVE  TypeOK'
<1> USE TxAssumption DEF bindVars, sockVars, lockVars, timerVars, callVars, histVars
<1>1. ASSUME BindCheck PROVE TypeOK'
  BY <1>1 DEF TypeOK, BindCheck
<1>2. ASSUME BindRegister PROVE TypeOK'
  BY <1>2 DEF TypeOK, BindRegister, NoTag, TxErrs
<1>3. ASSUME NetdevUnregister PROVE TypeOK'
  BY <1>3 DEF TypeOK, NetdevUnregister, TxErrs, Unbind
<1>4. ASSUME GracePeriodEnds PROVE TypeOK'
  BY <1>4 DEF TypeOK, GracePeriodEnds
<1>5. ASSUME SockError PROVE TypeOK'
  BY <1>5 DEF TypeOK, SockError, TxErrs
<1>6. ASSUME Close PROVE TypeOK'
  BY <1>6 DEF TypeOK, Close, InDrain, ReleasePCs, ReleaseStep
<1>7. ASSUME ReleaseInterrupted PROVE TypeOK'
  BY <1>7 DEF TypeOK, ReleaseInterrupted, InDrain, ReleasePCs, ReleaseStep
<1>8. ASSUME ReleaseWait PROVE TypeOK'
  BY <1>8 DEF TypeOK, ReleaseWait, InDrain, ReleasePCs, ReleaseStep
<1>9. ASSUME ReleaseShutdown PROVE TypeOK'
  BY <1>9 DEF TypeOK, ReleaseShutdown, Filling, InDrain, InEvDrain, PreClaim,
     ReleasePCs, ReleaseStep, SenderPCs, States, Woken
<1>10. ASSUME ReleaseUnregister PROVE TypeOK'
  BY <1>10 DEF TypeOK, ReleaseUnregister, InDrain, ReleasePCs, ReleaseStep, Unbind
<1>11. ASSUME ReleaseSync PROVE TypeOK'
  BY <1>11 DEF TypeOK, ReleaseSync, Drains, InDrain, ReleasePCs, ReleaseStep
<1>12. ASSUME ReleaseDrain PROVE TypeOK'
  <2>1. armed' \in [Timers -> BOOLEAN]
    BY <1>12 DEF TypeOK, ReleaseDrain, DrainOrder, ReleaseStep, Timeouts, Timers,
       hrtimer_cancel
  <2>2. rpc' \in ReleasePCs
    BY DrainStep, <1>12 DEF ReleaseDrain, ReleaseStep, ReleasePCs, InDrain
  <2> QED
    BY <2>1, <2>2, <1>12 DEF TypeOK, ReleaseDrain, DrainOrder, ReleaseStep,
       hrtimer_cancel
<1>13. ASSUME NetdevDown PROVE TypeOK'
  BY <1>13 DEF TypeOK, NetdevDown, TxErrs
<1> QED
  BY <1>1, <1>2, <1>3, <1>4, <1>5, <1>6, <1>7, <1>8, <1>9, <1>10, <1>11, <1>12,
     <1>13 DEF ReleaseNext

\* A new socket satisfies TypeOK (isotp_init()).
LEMMA TypeInit == Init => TypeOK
<1> SUFFICES ASSUME Init PROVE TypeOK
  OBVIOUS
<1> USE TxAssumption DEF Init, NoTag
<1>1. /\ 0 \in 0..(GenMod - 1)
      /\ "ok" \in Results /\ "none" \in Returns
  BY DEF Results, Returns
<1>2. tx_result \in [0..(Slots - 1) -> [gen : 0..(GenMod - 1), err : Results]]
  BY <1>1
<1>3. /\ tx \in [xfer : Nat, len : Nat, idx : Nat, bs : Nat, fcbs : Nat, gap : BOOLEAN]
      /\ seen \in [Timeouts -> [gen : 0..(GenMod - 1), st : States]]
  BY <1>1 DEF States
<1>4. /\ loc \in [Senders -> [xfer : Nat, gen : 0..(GenMod - 1), len : Nat, err : Returns]]
      /\ out \in [Senders -> [xfer : Nat, res : Returns]]
  BY <1>1
<1>5. /\ pc \in [Senders -> SenderPCs]
      /\ hpc \in HandlerPCs /\ rpc \in ReleasePCs
      /\ armed \in [Timers -> BOOLEAN] /\ cb \in [Timers -> CallbackPCs]
  BY DEF SenderPCs, HandlerPCs, ReleasePCs, CallbackPCs
<1>6. /\ fate \in [Xfers -> Results \cup {"none", "run", "drop"}]
      /\ todo \in [Xfers -> Int]
  BY DEF Results
<1> QED
  BY <1>1, <1>2, <1>3, <1>4, <1>5, <1>6 DEF TypeOK, States

\* TypeOK is inductive.
LEMMA TypeStep == TypeOK /\ [Next]_vars => TypeOK'
<1> SUFFICES ASSUME TypeOK, [Next]_vars PROVE TypeOK'
  OBVIOUS
<1>1. CASE Next
  BY <1>1, SenderTypes, SoftirqTypes, TimerTypes, LifecycleTypes DEF Next
<1>2. CASE UNCHANGED vars
  BY <1>2 DEF TypeOK, vars, bindVars, sockVars, lockVars, timerVars, callVars,
     histVars
<1> QED
  BY <1>1, <1>2

\* Every variable of a socket keeps its type, whatever runs.
THEOREM TypeCorrect == Spec => []TypeOK
  BY TypeInit, TypeStep, PTL DEF Spec

-----------------------------------------------------------------------------
(* Shutdown and release. *)

\* The functions among the variables, and that no caller is named like the
\* other holders of the lock.
Shape ==
  /\ pc \in [Senders -> SenderPCs]
  /\ armed \in [Timers -> BOOLEAN]
  /\ cb \in [Timers -> CallbackPCs]
  /\ seen \in [Timeouts -> SeenRec]
  /\ "softirq" \notin Senders /\ "free" \notin Senders

\* The part of TypeOK that the invariant below needs.
LEMMA ShapeHolds == TypeOK => Shape
  BY TxAssumption DEF TypeOK, Shape, SeenRec, Gens

\* Every step of a sendmsg() caller preserves ShutdownInv.
LEMMA SenderSafe ==
  ASSUME TypeOK, ShutdownInv, NEW s \in Senders, Sendmsg(s) \/ SendStep(s) \/ Interrupted(s)
  PROVE  ShutdownInv'
<1> USE DEF bindVars, sockVars, lockVars, timerVars, callVars, histVars
<1>1. Shape /\ LockInv /\ StateInv /\ ReleaseInv
  BY ShapeHolds DEF ShutdownInv
<1>2. ASSUME Sendmsg(s) PROVE ShutdownInv'
  <2>1. LockInv'
    BY <1>1, <1>2 DEF Shape, Goto, InDrain, InEvDrain, LockInv, Locked, PreClaim,
       Sendmsg
  <2>2. StateInv'
    BY <1>1, <1>2 DEF Shape, Goto, InDrain, InEvDrain, PreClaim, Sendmsg, StateInv
  <2>3. ReleaseInv'
    BY <1>1, <1>2 DEF Shape, Dead, Goto, InDrain, PreClaim, ReleaseInv, Sendmsg
  <2> QED
    BY <2>1, <2>2, <2>3 DEF ShutdownInv
<1>3. ASSUME Interrupted(s) PROVE ShutdownInv'
  <2>1. LockInv'
    BY <1>1, <1>3 DEF Shape, Fail, Goto, InDrain, InEvDrain, Interrupted, LockInv,
       Locked, Return
  <2>2. StateInv'
    BY <1>1, <1>3 DEF Shape, Fail, Goto, InDrain, InEvDrain, Interrupted, Return,
       StateInv
  <2>3. ReleaseInv'
    BY <1>1, <1>3 DEF Shape, Dead, Fail, Goto, Interrupted, ReleaseInv, Return
  <2> QED
    BY <2>1, <2>2, <2>3 DEF ShutdownInv
<1>4. ASSUME Claim(s) PROVE ShutdownInv'
  <2>1. LockInv'
    BY <1>1, <1>4 DEF Shape, Claim, Drains, Goto, InDrain, InEvDrain, LockInv, Locked
  <2>2. StateInv'
    BY <1>1, <1>4 DEF Shape, Claim, Drains, Goto, InDrain, InEvDrain, StateInv
  <2>3. ReleaseInv'
    BY <1>1, <1>4 DEF Shape, Claim, Dead, Drains, Goto, ReleaseInv
  <2> QED
    BY <2>1, <2>2, <2>3 DEF ShutdownInv
<1>5. ASSUME ClaimBusy(s) PROVE ShutdownInv'
  <2>1. LockInv'
    BY <1>1, <1>5 DEF Shape, ClaimBusy, Goto, InDrain, InEvDrain, LockInv, Locked,
       Return
  <2>2. StateInv'
    BY <1>1, <1>5 DEF Shape, ClaimBusy, Goto, InDrain, InEvDrain, Return, StateInv
  <2>3. ReleaseInv'
    BY <1>1, <1>5 DEF Shape, ClaimBusy, Dead, Goto, ReleaseInv, Return
  <2> QED
    BY <2>1, <2>2, <2>3 DEF ShutdownInv
<1>6. ASSUME WaitIdle(s) PROVE ShutdownInv'
  <2>1. LockInv'
    BY <1>1, <1>6 DEF Shape, GaveUp, Goto, InDrain, InEvDrain, LockInv, Locked, WaitIdle
  <2>2. StateInv'
    BY <1>1, <1>6 DEF Shape, GaveUp, Goto, InDrain, InEvDrain, StateInv, WaitIdle
  <2>3. ReleaseInv'
    BY <1>1, <1>6 DEF Shape, Dead, GaveUp, Goto, ReleaseInv, WaitIdle
  <2> QED
    BY <2>1, <2>2, <2>3 DEF ShutdownInv
<1>7. ASSUME Drain(s) PROVE ShutdownInv'
  <2>1. LockInv'
    BY <1>1, <1>7 DEF Shape, Drain, DrainOrder, Drains, EvDrains, Goto, InDrain,
       InEvDrain, LockInv, Locked, Timeouts, Timers, hrtimer_cancel
  <2>2. StateInv'
    BY <1>1, <1>7 DEF Shape, Drain, DrainOrder, Drains, EvDrains, Goto, InDrain,
       InEvDrain, StateInv, Timeouts, Timers, hrtimer_cancel
  <2>3. ReleaseInv'
    BY <1>1, <1>7 DEF Shape, Dead, Drain, DrainOrder, Drains, EvDrains, Goto,
       ReleaseInv, Timeouts, Timers, hrtimer_cancel
  <2> QED
    BY <2>1, <2>2, <2>3 DEF ShutdownInv
<1>8. ASSUME Commit(s) PROVE ShutdownInv'
  <2>1. LockInv'
    BY <1>1, <1>8 DEF Shape, Commit, Goto, InDrain, InEvDrain, LockInv, Locked
  <2>2. StateInv'
    BY <1>1, <1>8 DEF Shape, Commit, Goto, InDrain, InEvDrain, StateInv
  <2>3. ReleaseInv'
    BY <1>1, <1>8 DEF Shape, Commit, Dead, Goto, ReleaseInv
  <2> QED
    BY <2>1, <2>2, <2>3 DEF ShutdownInv
<1>9. ASSUME Publish(s) PROVE ShutdownInv'
  <2>1. LockInv'
    BY <1>1, <1>9 DEF Shape, Goto, InDrain, InEvDrain, LockInv, Locked, Publish
  <2>2. StateInv'
    BY <1>1, <1>9 DEF Shape, Goto, InDrain, InEvDrain, LockInv, Locked, Publish,
       StateInv
  <2>3. ReleaseInv'
    BY <1>1, <1>9 DEF Shape, Dead, Goto, Publish, ReleaseInv, StateInv
  <2> QED
    BY <2>1, <2>2, <2>3 DEF ShutdownInv
<1>10. ASSUME Recheck(s) PROVE ShutdownInv'
  <2>1. LockInv'
    BY <1>1, <1>10 DEF Shape, Fail, Goto, InDrain, InEvDrain, LockInv, Locked, Recheck
  <2>2. StateInv'
    BY <1>1, <1>10 DEF Shape, Fail, Goto, InDrain, InEvDrain, Recheck, StateInv
  <2>3. ReleaseInv'
    BY <1>1, <1>10 DEF Shape, Dead, Fail, Goto, Recheck, ReleaseInv
  <2> QED
    BY <2>1, <2>2, <2>3 DEF ShutdownInv
<1>11. ASSUME BuildFails(s) PROVE ShutdownInv'
  <2>1. LockInv'
    BY <1>1, <1>11 DEF Shape, BuildFails, Fail, Goto, InDrain, InEvDrain, LockInv,
       Locked
  <2>2. StateInv'
    BY <1>1, <1>11 DEF Shape, BuildFails, Fail, Goto, InDrain, InEvDrain, StateInv
  <2>3. ReleaseInv'
    BY <1>1, <1>11 DEF Shape, BuildFails, Dead, Fail, Goto, ReleaseInv
  <2> QED
    BY <2>1, <2>2, <2>3 DEF ShutdownInv
<1>12. ASSUME Build(s) PROVE ShutdownInv'
  <2>1. LockInv'
    BY <1>1, <1>12 DEF Shape, Build, Goto, InDrain, InEvDrain, LockInv, Locked
  <2>2. StateInv'
    BY <1>1, <1>12 DEF Shape, Build, Goto, InDrain, InEvDrain, StateInv
  <2>3. ReleaseInv'
    BY <1>1, <1>12 DEF Shape, Build, Dead, Goto, ReleaseInv
  <2> QED
    BY <2>1, <2>2, <2>3 DEF ShutdownInv
<1>13. ASSUME Arm(s) PROVE ShutdownInv'
  <2>1. LockInv'
    BY <1>1, <1>13 DEF Shape, Arm, Goto, InDrain, InEvDrain, LockInv, Locked,
       ReturnAndWake, Timeouts, Timers, TxHrt, Woken, WokenRelease, hrtimer_start
  <2>2. StateInv'
    BY <1>1, <1>13 DEF Shape, Arm, Goto, InDrain, InEvDrain, LockInv, Locked,
       ReturnAndWake, StateInv, Timeouts, Timers, TxHrt, Woken, WokenRelease,
       hrtimer_start
  <2>3. ReleaseInv'
    BY <1>1, <1>13 DEF Shape, Arm, Dead, Goto, ReleaseInv, ReturnAndWake, Timeouts,
       Timers, TxHrt, Woken, WokenRelease, hrtimer_start
  <2> QED
    BY <2>1, <2>2, <2>3 DEF ShutdownInv
<1>14. ASSUME Send(s) PROVE ShutdownInv'
  <2>1. LockInv'
    BY <1>1, <1>14 DEF Shape, Fail, Goto, InDrain, InEvDrain, LockInv, Locked, Return,
       Send
  <2>2. StateInv'
    BY <1>1, <1>14 DEF Shape, Fail, Goto, InDrain, InEvDrain, Return, Send, StateInv
  <2>3. ReleaseInv'
    BY <1>1, <1>14 DEF Shape, Dead, Fail, Goto, ReleaseInv, Return, Send
  <2> QED
    BY <2>1, <2>2, <2>3 DEF ShutdownInv
<1>15. ASSUME ErrLock(s) PROVE ShutdownInv'
  <2>1. LockInv'
    BY <1>1, <1>15 DEF Shape, ErrLock, EvDrains, Goto, InDrain, InEvDrain, LockInv,
       Locked, Return, StillMine
  <2>2. StateInv'
    BY <1>1, <1>15 DEF Shape, ErrLock, EvDrains, Goto, InDrain, InEvDrain, Return,
       StateInv, StillMine
  <2>3. ReleaseInv'
    BY <1>1, <1>15 DEF Shape, Dead, ErrLock, EvDrains, Goto, ReleaseInv, Return,
       StillMine
  <2> QED
    BY <2>1, <2>2, <2>3 DEF ShutdownInv
<1>16. ASSUME CancelOwn(s) PROVE ShutdownInv'
  <2>1. LockInv'
    BY <1>1, <1>16 DEF Shape, CancelOwn, Goto, InDrain, InEvDrain, LockInv, Locked,
       Timeouts, Timers, TxHrt, hrtimer_cancel
  <2>2. StateInv'
    BY <1>1, <1>16 DEF Shape, CancelOwn, Goto, InDrain, InEvDrain, StateInv, Timeouts,
       Timers, TxHrt, hrtimer_cancel
  <2>3. ReleaseInv'
    BY <1>1, <1>16 DEF Shape, CancelOwn, Dead, Goto, ReleaseInv, Timeouts, Timers,
       TxHrt, hrtimer_cancel
  <2> QED
    BY <2>1, <2>2, <2>3 DEF ShutdownInv
<1>17. ASSUME DropLock(s) PROVE ShutdownInv'
  <2>1. LockInv'
    BY <1>1, <1>17 DEF Shape, DropLock, Goto, InDrain, InEvDrain, LockInv, Locked
  <2>2. StateInv'
    BY <1>1, <1>17 DEF Shape, DropLock, Goto, InDrain, InEvDrain, StateInv
  <2>3. ReleaseInv'
    BY <1>1, <1>17 DEF Shape, Dead, DropLock, Goto, ReleaseInv
  <2> QED
    BY <2>1, <2>2, <2>3 DEF ShutdownInv
<1>18. ASSUME Drop(s) PROVE ShutdownInv'
  <2>1. LockInv'
    BY <1>1, <1>18 DEF Shape, Drop, DropState, InDrain, InEvDrain, LockInv, Locked,
       ReturnAndWake, Woken, WokenRelease
  <2>2. StateInv'
    BY <1>1, <1>18 DEF Shape, Drop, DropState, InDrain, InEvDrain, ReturnAndWake,
       StateInv, Woken, WokenRelease
  <2>3. ReleaseInv'
    BY <1>1, <1>18 DEF Shape, Dead, Drop, DropState, ReleaseInv, ReturnAndWake, Woken,
       WokenRelease
  <2> QED
    BY <2>1, <2>2, <2>3 DEF ShutdownInv
<1>19. ASSUME WaitDone(s) PROVE ShutdownInv'
  <2>1. LockInv'
    BY <1>1, <1>19 DEF Shape, GaveUp, Goto, InDrain, InEvDrain, LockInv, Locked,
       StillMine, WaitDone
  <2>2. StateInv'
    BY <1>1, <1>19 DEF Shape, GaveUp, Goto, InDrain, InEvDrain, StateInv, StillMine,
       WaitDone
  <2>3. ReleaseInv'
    BY <1>1, <1>19 DEF Shape, Dead, GaveUp, Goto, ReleaseInv, StillMine, WaitDone
  <2> QED
    BY <2>1, <2>2, <2>3 DEF ShutdownInv
<1>20. ASSUME WokenDone(s) PROVE ShutdownInv'
  <2>1. LockInv'
    BY <1>1, <1>20 DEF Shape, Fail, Goto, InDrain, InEvDrain, LockInv, Locked,
       StillMine, WokenDone
  <2>2. StateInv'
    BY <1>1, <1>20 DEF Shape, Fail, Goto, InDrain, InEvDrain, StateInv, StillMine,
       WokenDone
  <2>3. ReleaseInv'
    BY <1>1, <1>20 DEF Shape, Dead, Fail, Goto, ReleaseInv, StillMine, WokenDone
  <2> QED
    BY <2>1, <2>2, <2>3 DEF ShutdownInv
<1>21. ASSUME ReadResult(s) PROVE ShutdownInv'
  <2>1. LockInv'
    BY <1>1, <1>21 DEF Shape, InDrain, InEvDrain, LockInv, Locked, ReadResult, Return
  <2>2. StateInv'
    BY <1>1, <1>21 DEF Shape, InDrain, InEvDrain, ReadResult, Return, StateInv
  <2>3. ReleaseInv'
    BY <1>1, <1>21 DEF Shape, Dead, ReadResult, ReleaseInv, Return
  <2> QED
    BY <2>1, <2>2, <2>3 DEF ShutdownInv
<1> QED
  BY <1>2, <1>3, <1>4, <1>5, <1>6, <1>7, <1>8, <1>9, <1>10, <1>11, <1>12, <1>13, <1>14,
     <1>15, <1>16, <1>17, <1>18, <1>19, <1>20, <1>21 DEF SendStep

\* Every step of the receive softirq preserves ShutdownInv.
LEMMA SoftirqSafe ==
  ASSUME TypeOK, ShutdownInv, FcArrives \/ (\E e \in echoes : EchoArrives(e)) \/ SoftirqStep
  PROVE  ShutdownInv'
<1> USE DEF bindVars, sockVars, lockVars, timerVars, callVars, histVars
<1>1. Shape /\ LockInv /\ StateInv /\ ReleaseInv
  BY ShapeHolds DEF ShutdownInv
<1>2. ASSUME NEW e \in echoes, EchoArrives(e) PROVE ShutdownInv'
  <2>1. LockInv'
    BY <1>1, <1>2 DEF Shape, Dispatched, EchoArrives, Enter, InDrain, InEvDrain,
       LockInv, Locked
  <2>2. StateInv'
    BY <1>1, <1>2 DEF Shape, Dispatched, EchoArrives, Enter, InDrain, InEvDrain,
       StateInv
  <2>3. ReleaseInv'
    BY <1>1, <1>2 DEF Shape, Dead, Dispatched, EchoArrives, Enter, ReleaseInv
  <2> QED
    BY <2>1, <2>2, <2>3 DEF ShutdownInv
<1>3. ASSUME FcArrives PROVE ShutdownInv'
  <2>1. LockInv'
    BY <1>1, <1>3 DEF Shape, Dispatched, Enter, FcArrives, InDrain, InEvDrain, LockInv,
       Locked, WaitsForFc
  <2>2. StateInv'
    BY <1>1, <1>3 DEF Shape, Dispatched, Enter, FcArrives, InDrain, InEvDrain, StateInv,
       WaitsForFc
  <2>3. ReleaseInv'
    BY <1>1, <1>3 DEF Shape, Dead, Dispatched, Enter, FcArrives, ReleaseInv, WaitsForFc
  <2> QED
    BY <2>1, <2>2, <2>3 DEF ShutdownInv
<1>4. ASSUME FcCancel PROVE ShutdownInv'
  <2>1. LockInv'
    BY <1>1, <1>4 DEF Shape, FcCancel, InDrain, InEvDrain, Leave, LockInv, Locked,
       Timeouts, Timers, WaitsForFc, hrtimer_cancel
  <2>2. StateInv'
    BY <1>1, <1>4 DEF Shape, FcCancel, InDrain, InEvDrain, Leave, StateInv, Timeouts,
       Timers, WaitsForFc, hrtimer_cancel
  <2>3. ReleaseInv'
    BY <1>1, <1>4 DEF Shape, Dead, FcCancel, Leave, ReleaseInv, Timeouts, Timers,
       WaitsForFc, hrtimer_cancel
  <2> QED
    BY <2>1, <2>2, <2>3 DEF ShutdownInv
<1>5. ASSUME FcMalformed PROVE ShutdownInv'
  <2>1. LockInv'
    BY <1>1, <1>5 DEF Shape, FcErr, FcMalformed, InDrain, InEvDrain, LockInv, Locked
  <2>2. StateInv'
    BY <1>1, <1>5 DEF Shape, FcErr, FcMalformed, InDrain, InEvDrain, StateInv
  <2>3. ReleaseInv'
    BY <1>1, <1>5 DEF Shape, Dead, FcErr, FcMalformed, ReleaseInv
  <2> QED
    BY <2>1, <2>2, <2>3 DEF ShutdownInv
<1>6. ASSUME FcStatus PROVE ShutdownInv'
  <2>1. LockInv'
    BY <1>1, <1>6 DEF Shape, FcCts, FcErr, FcRefused, FcStatus, FcTakesParms, FcWaits,
       FcWt, InDrain, InEvDrain, Leave, LockInv, Locked, Timeouts, Timers, hrtimer_start
  <2>2. StateInv'
    BY <1>1, <1>6 DEF Shape, FcCts, FcErr, FcRefused, FcStatus, FcTakesParms, FcWaits,
       FcWt, InDrain, InEvDrain, Leave, LockInv, Locked, StateInv, Timeouts, Timers,
       hrtimer_start
  <2>3. ReleaseInv'
    BY <1>1, <1>6 DEF Shape, Dead, FcCts, FcErr, FcRefused, FcStatus, FcTakesParms,
       FcWaits, FcWt, Leave, ReleaseInv, StateInv, Timeouts, Timers, hrtimer_start
  <2> QED
    BY <2>1, <2>2, <2>3 DEF ShutdownInv
<1>7. ASSUME Finish PROVE ShutdownInv'
  <2>1. LockInv'
    BY <1>1, <1>7 DEF Shape, Finish, InDrain, InEvDrain, Leave, LockInv, Locked, WakeUp,
       Woken, WokenRelease
  <2>2. StateInv'
    BY <1>1, <1>7 DEF Shape, Finish, InDrain, InEvDrain, Leave, LockInv, Locked,
       StateInv, WakeUp, Woken, WokenRelease
  <2>3. ReleaseInv'
    BY <1>1, <1>7 DEF Shape, Dead, Finish, Leave, ReleaseInv, StateInv, WakeUp, Woken,
       WokenRelease
  <2> QED
    BY <2>1, <2>2, <2>3 DEF ShutdownInv
<1>8. ASSUME EchoCancel PROVE ShutdownInv'
  <2>1. LockInv'
    BY <1>1, <1>8 DEF Shape, EchoCancel, InDrain, InEvDrain, Leave, LockInv, Locked,
       Timeouts, Timers, hrtimer_cancel
  <2>2. StateInv'
    BY <1>1, <1>8 DEF Shape, EchoCancel, InDrain, InEvDrain, Leave, StateInv, Timeouts,
       Timers, hrtimer_cancel
  <2>3. ReleaseInv'
    BY <1>1, <1>8 DEF Shape, Dead, EchoCancel, Leave, ReleaseInv, Timeouts, Timers,
       hrtimer_cancel
  <2> QED
    BY <2>1, <2>2, <2>3 DEF ShutdownInv
<1>9. ASSUME EchoBody PROVE ShutdownInv'
  <2>1. LockInv'
    BY <1>1, <1>9 DEF Shape, EchoBody, EchoBurst, EchoDone, EchoGap, EchoWaitFc,
       InDrain, InEvDrain, Leave, LockInv, Locked, Timeouts, Timers, hrtimer_start
  <2>2. StateInv'
    BY <1>1, <1>9 DEF Shape, EchoBody, EchoBurst, EchoDone, EchoGap, EchoWaitFc,
       InDrain, InEvDrain, Leave, LockInv, Locked, StateInv, Timeouts, Timers,
       hrtimer_start
  <2>3. ReleaseInv'
    BY <1>1, <1>9 DEF Shape, Dead, EchoBody, EchoBurst, EchoDone, EchoGap, EchoWaitFc,
       Leave, ReleaseInv, StateInv, Timeouts, Timers, hrtimer_start
  <2> QED
    BY <2>1, <2>2, <2>3 DEF ShutdownInv
<1>10. ASSUME SoftirqFill PROVE ShutdownInv'
  <2>1. LockInv'
    BY <1>1, <1>10 DEF Shape, CframeFill, InDrain, InEvDrain, Leave, LockInv, Locked,
       SoftirqFill
  <2>2. StateInv'
    BY <1>1, <1>10 DEF Shape, CframeFill, InDrain, InEvDrain, Leave, SoftirqFill,
       StateInv
  <2>3. ReleaseInv'
    BY <1>1, <1>10 DEF Shape, CframeFill, Dead, Leave, ReleaseInv, SoftirqFill
  <2> QED
    BY <2>1, <2>2, <2>3 DEF ShutdownInv
<1>11. ASSUME SoftirqEmit PROVE ShutdownInv'
  <2>1. LockInv'
    BY <1>1, <1>11 DEF Shape, CframeEmit, InDrain, InEvDrain, Leave, LockInv, Locked,
       SoftirqEmit
  <2>2. StateInv'
    BY <1>1, <1>11 DEF Shape, CframeEmit, InDrain, InEvDrain, Leave, SoftirqEmit,
       StateInv
  <2>3. ReleaseInv'
    BY <1>1, <1>11 DEF Shape, CframeEmit, Dead, Leave, ReleaseInv, SoftirqEmit
  <2> QED
    BY <2>1, <2>2, <2>3 DEF ShutdownInv
<1> QED
  BY <1>2, <1>3, <1>4, <1>5, <1>6, <1>7, <1>8, <1>9, <1>10, <1>11 DEF SoftirqStep

\* Every expiry and every step of a callback preserves ShutdownInv.
LEMMA TimerSafe ==
  ASSUME TypeOK, ShutdownInv,
         (\E t \in Timers : Expire(t)) \/ (\E t \in Timeouts : TimeoutStep(t)) \/ TxfrStep
  PROVE  ShutdownInv'
<1> USE DEF bindVars, sockVars, lockVars, timerVars, callVars, histVars
<1>1. Shape /\ LockInv /\ StateInv /\ ReleaseInv
  BY ShapeHolds DEF ShutdownInv
<1>2. ASSUME NEW t \in Timers, Expire(t) PROVE ShutdownInv'
  <2>1. LockInv'
    BY <1>1, <1>2 DEF Shape, Expire, InDrain, InEvDrain, LockInv, Locked, Timeouts,
       Timers
  <2>2. StateInv'
    BY <1>1, <1>2 DEF Shape, Expire, InDrain, InEvDrain, StateInv, Timeouts, Timers
  <2>3. ReleaseInv'
    BY <1>1, <1>2 DEF Shape, Dead, Expire, ReleaseInv, Timeouts, Timers
  <2> QED
    BY <2>1, <2>2, <2>3 DEF ShutdownInv
<1>3. ASSUME NEW t \in Timeouts, TimeoutGen(t) PROVE ShutdownInv'
  <2>1. LockInv'
    BY <1>1, <1>3 DEF Shape, InDrain, InEvDrain, LockInv, Locked, Step, TimeoutGen,
       Timeouts, Timers
  <2>2. StateInv'
    BY <1>1, <1>3 DEF Shape, InDrain, InEvDrain, StateInv, Step, TimeoutGen, Timeouts,
       Timers
  <2>3. ReleaseInv'
    BY <1>1, <1>3 DEF Shape, Dead, ReleaseInv, Step, TimeoutGen, Timeouts, Timers
  <2> QED
    BY <2>1, <2>2, <2>3 DEF ShutdownInv
<1>4. ASSUME NEW t \in Timeouts, TimeoutState(t) PROVE ShutdownInv'
  <2>1. LockInv'
    BY <1>1, <1>4 DEF Shape, GaveUp, InDrain, InEvDrain, LockInv, Locked, Step,
       TimeoutState, Timeouts, Timers
  <2>2. StateInv'
    BY <1>1, <1>4 DEF Shape, GaveUp, InDrain, InEvDrain, StateInv, Step, TimeoutState,
       Timeouts, Timers
  <2>3. ReleaseInv'
    BY <1>1, <1>4 DEF Shape, Dead, GaveUp, ReleaseInv, Step, TimeoutState, Timeouts,
       Timers
  <2> QED
    BY <2>1, <2>2, <2>3 DEF ShutdownInv
<1>5. ASSUME NEW t \in Timeouts, TimeoutCas(t) PROVE ShutdownInv'
  <2>1. LockInv'
    BY <1>1, <1>5 DEF Shape, InDrain, InEvDrain, LockInv, Locked, Step, TimeoutCas,
       Timeouts, Timers
  <2>2. StateInv'
    BY <1>1, <1>5 DEF Shape, InDrain, InEvDrain, StateInv, Step, TimeoutCas, Timeouts,
       Timers
  <2>3. ReleaseInv'
    BY <1>1, <1>5 DEF Shape, Dead, ReleaseInv, StateInv, Step, TimeoutCas, Timeouts,
       Timers
  <2> QED
    BY <2>1, <2>2, <2>3 DEF ShutdownInv
<1>6. ASSUME NEW t \in Timeouts, TimeoutPost(t) PROVE ShutdownInv'
  <2>1. LockInv'
    BY <1>1, <1>6 DEF Shape, InDrain, InEvDrain, LockInv, Locked, Step, TimeoutPost,
       Timeouts, Timers, WakeUp, Woken, WokenRelease
  <2>2. StateInv'
    BY <1>1, <1>6 DEF Shape, InDrain, InEvDrain, StateInv, Step, TimeoutPost, Timeouts,
       Timers, WakeUp, Woken, WokenRelease
  <2>3. ReleaseInv'
    BY <1>1, <1>6 DEF Shape, Dead, ReleaseInv, Step, TimeoutPost, Timeouts, Timers,
       WakeUp, Woken, WokenRelease
  <2> QED
    BY <2>1, <2>2, <2>3 DEF ShutdownInv
<1>7. ASSUME TxfrRearm PROVE ShutdownInv'
  <2>1. LockInv'
    BY <1>1, <1>7 DEF Shape, InDrain, InEvDrain, LockInv, Locked, Step, Timeouts,
       Timers, TxfrRearm, hrtimer_start
  <2>2. StateInv'
    BY <1>1, <1>7 DEF Shape, InDrain, InEvDrain, StateInv, Step, Timeouts, Timers,
       TxfrRearm, hrtimer_start
  <2>3. ReleaseInv'
    BY <1>1, <1>7 DEF Shape, Dead, ReleaseInv, Step, Timeouts, Timers, TxfrRearm,
       hrtimer_start
  <2> QED
    BY <2>1, <2>2, <2>3 DEF ShutdownInv
<1>8. ASSUME TxfrCheck PROVE ShutdownInv'
  <2>1. LockInv'
    BY <1>1, <1>8 DEF Shape, InDrain, InEvDrain, LockInv, Locked, Step, Timeouts,
       Timers, TxfrCheck
  <2>2. StateInv'
    BY <1>1, <1>8 DEF Shape, InDrain, InEvDrain, StateInv, Step, Timeouts, Timers,
       TxfrCheck
  <2>3. ReleaseInv'
    BY <1>1, <1>8 DEF Shape, Dead, ReleaseInv, Step, Timeouts, Timers, TxfrCheck
  <2> QED
    BY <2>1, <2>2, <2>3 DEF ShutdownInv
<1>9. ASSUME TxfrFill PROVE ShutdownInv'
  <2>1. LockInv'
    BY <1>1, <1>9 DEF Shape, CframeFill, InDrain, InEvDrain, LockInv, Locked, Step,
       Timeouts, Timers, TxfrFill
  <2>2. StateInv'
    BY <1>1, <1>9 DEF Shape, CframeFill, InDrain, InEvDrain, StateInv, Step, Timeouts,
       Timers, TxfrFill
  <2>3. ReleaseInv'
    BY <1>1, <1>9 DEF Shape, CframeFill, Dead, ReleaseInv, Step, Timeouts, Timers,
       TxfrFill
  <2> QED
    BY <2>1, <2>2, <2>3 DEF ShutdownInv
<1>10. ASSUME TxfrEmit PROVE ShutdownInv'
  <2>1. LockInv'
    BY <1>1, <1>10 DEF Shape, CframeEmit, InDrain, InEvDrain, LockInv, Locked, Step,
       Timeouts, Timers, TxfrEmit
  <2>2. StateInv'
    BY <1>1, <1>10 DEF Shape, CframeEmit, InDrain, InEvDrain, StateInv, Step, Timeouts,
       Timers, TxfrEmit
  <2>3. ReleaseInv'
    BY <1>1, <1>10 DEF Shape, CframeEmit, Dead, ReleaseInv, Step, Timeouts, Timers,
       TxfrEmit
  <2> QED
    BY <2>1, <2>2, <2>3 DEF ShutdownInv
<1> QED
  BY <1>2, <1>3, <1>4, <1>5, <1>6, <1>7, <1>8, <1>9, <1>10 DEF TimeoutStep, TxfrStep

\* bind(), the notifier, the grace period and release() preserve ShutdownInv.
LEMMA LifecycleSafe ==
  ASSUME TypeOK, ShutdownInv,
         \/ BindCheck \/ BindRegister \/ NetdevUnregister \/ NetdevDown
         \/ GracePeriodEnds \/ SockError \/ Close \/ ReleaseInterrupted \/ ReleaseNext
  PROVE  ShutdownInv'
<1> USE DEF bindVars, sockVars, lockVars, timerVars, callVars, histVars
<1>1. Shape /\ LockInv /\ StateInv /\ ReleaseInv
  BY ShapeHolds DEF ShutdownInv
<1>2. ASSUME BindCheck PROVE ShutdownInv'
  <2>1. LockInv'
    BY <1>1, <1>2 DEF Shape, BindCheck, InDrain, InEvDrain, LockInv, Locked
  <2>2. StateInv'
    BY <1>1, <1>2 DEF Shape, BindCheck, InDrain, InEvDrain, StateInv
  <2>3. ReleaseInv'
    BY <1>1, <1>2 DEF Shape, BindCheck, Dead, ReleaseInv
  <2> QED
    BY <2>1, <2>2, <2>3 DEF ShutdownInv
<1>3. ASSUME BindRegister PROVE ShutdownInv'
  <2>1. LockInv'
    BY <1>1, <1>3 DEF Shape, BindRegister, InDrain, InEvDrain, LockInv, Locked
  <2>2. StateInv'
    BY <1>1, <1>3 DEF Shape, BindRegister, InDrain, InEvDrain, StateInv
  <2>3. ReleaseInv'
    BY <1>1, <1>3 DEF Shape, BindRegister, Dead, ReleaseInv
  <2> QED
    BY <2>1, <2>2, <2>3 DEF ShutdownInv
<1>4. ASSUME NetdevUnregister PROVE ShutdownInv'
  <2>1. LockInv'
    BY <1>1, <1>4 DEF Shape, InDrain, InEvDrain, LockInv, Locked, NetdevUnregister,
       Unbind
  <2>2. StateInv'
    BY <1>1, <1>4 DEF Shape, InDrain, InEvDrain, NetdevUnregister, StateInv, Unbind
  <2>3. ReleaseInv'
    BY <1>1, <1>4 DEF Shape, Dead, NetdevUnregister, Notified, ReleaseInv, Unbind
  <2> QED
    BY <2>1, <2>2, <2>3 DEF ShutdownInv
<1>5. ASSUME GracePeriodEnds PROVE ShutdownInv'
  <2>1. LockInv'
    BY <1>1, <1>5 DEF Shape, GracePeriodEnds, InDrain, InEvDrain, LockInv, Locked
  <2>2. StateInv'
    BY <1>1, <1>5 DEF Shape, GracePeriodEnds, InDrain, InEvDrain, StateInv
  <2>3. ReleaseInv'
    BY <1>1, <1>5 DEF Shape, Dead, GracePeriodEnds, ReleaseInv
  <2> QED
    BY <2>1, <2>2, <2>3 DEF ShutdownInv
<1>6. ASSUME SockError PROVE ShutdownInv'
  BY <1>1, <1>6 DEF Dead, LockInv, ReleaseInv, ShutdownInv, SockError, StateInv
<1>7. ASSUME Close PROVE ShutdownInv'
  <2>1. LockInv'
    BY <1>1, <1>7 DEF Shape, Close, InDrain, InEvDrain, LockInv, Locked, ReleaseStep
  <2>2. StateInv'
    BY <1>1, <1>7 DEF Shape, Close, InDrain, InEvDrain, ReleaseStep, StateInv
  <2>3. ReleaseInv'
    BY <1>1, <1>7 DEF Shape, Close, Dead, ReleaseInv, ReleaseStep
  <2> QED
    BY <2>1, <2>2, <2>3 DEF ShutdownInv
<1>8. ASSUME ReleaseInterrupted PROVE ShutdownInv'
  <2>1. LockInv'
    BY <1>1, <1>8 DEF Shape, InDrain, InEvDrain, LockInv, Locked, ReleaseInterrupted,
       ReleaseStep
  <2>2. StateInv'
    BY <1>1, <1>8 DEF Shape, InDrain, InEvDrain, ReleaseInterrupted, ReleaseStep,
       StateInv
  <2>3. ReleaseInv'
    BY <1>1, <1>8 DEF Shape, Dead, ReleaseInterrupted, ReleaseInv, ReleaseStep
  <2> QED
    BY <2>1, <2>2, <2>3 DEF ShutdownInv
<1>9. ASSUME ReleaseWait PROVE ShutdownInv'
  <2>1. LockInv'
    BY <1>1, <1>9 DEF Shape, InDrain, InEvDrain, LockInv, Locked, ReleaseStep,
       ReleaseWait
  <2>2. StateInv'
    BY <1>1, <1>9 DEF Shape, InDrain, InEvDrain, ReleaseStep, ReleaseWait, StateInv
  <2>3. ReleaseInv'
    BY <1>1, <1>9 DEF Shape, Dead, ReleaseInv, ReleaseStep, ReleaseWait
  <2> QED
    BY <2>1, <2>2, <2>3 DEF ShutdownInv
<1>10. ASSUME ReleaseShutdown PROVE ShutdownInv'
  <2>1. LockInv'
    BY <1>1, <1>10 DEF Shape, InDrain, InEvDrain, LockInv, Locked, ReleaseShutdown,
       ReleaseStep, Woken
  <2>2. StateInv'
    BY <1>1, <1>10 DEF Shape, InDrain, InEvDrain, LockInv, Locked, ReleaseShutdown,
       ReleaseStep, StateInv, Woken
  <2>3. ReleaseInv'
    BY <1>1, <1>10 DEF Shape, Dead, ReleaseInv, ReleaseShutdown, ReleaseStep, Woken
  <2> QED
    BY <2>1, <2>2, <2>3 DEF ShutdownInv
<1>11. ASSUME ReleaseUnregister PROVE ShutdownInv'
  <2>1. LockInv'
    BY <1>1, <1>11 DEF Shape, InDrain, InEvDrain, LockInv, Locked, ReleaseStep,
       ReleaseUnregister, Unbind
  <2>2. StateInv'
    BY <1>1, <1>11 DEF Shape, InDrain, InEvDrain, ReleaseStep, ReleaseUnregister,
       StateInv, Unbind
  <2>3. ReleaseInv'
    BY <1>1, <1>11 DEF Shape, Dead, ReleaseInv, ReleaseStep, ReleaseUnregister, Unbind
  <2> QED
    BY <2>1, <2>2, <2>3 DEF ShutdownInv
<1>12. ASSUME ReleaseSync PROVE ShutdownInv'
  <2>1. LockInv'
    BY <1>1, <1>12 DEF Shape, Drains, InDrain, InEvDrain, LockInv, Locked, ReleaseStep,
       ReleaseSync
  <2>2. StateInv'
    BY <1>1, <1>12 DEF Shape, Drains, InDrain, InEvDrain, ReleaseStep, ReleaseSync,
       StateInv
  <2>3. ReleaseInv'
    BY <1>1, <1>12 DEF Shape, Dead, Drains, ReleaseInv, ReleaseStep, ReleaseSync
  <2> QED
    BY <2>1, <2>2, <2>3 DEF ShutdownInv
<1>13. ASSUME ReleaseDrain PROVE ShutdownInv'
  <2>1. LockInv'
    BY <1>1, <1>13 DEF Shape, DrainOrder, Drains, InDrain, InEvDrain, LockInv, Locked,
       ReleaseDrain, ReleaseStep, Timeouts, Timers, hrtimer_cancel
  <2>2. StateInv'
    BY <1>1, <1>13 DEF Shape, DrainOrder, Drains, InDrain, InEvDrain, ReleaseDrain,
       ReleaseStep, StateInv, Timeouts, Timers, hrtimer_cancel
  <2>3. ReleaseInv'
    BY <1>1, <1>13 DEF Shape, Dead, DrainOrder, Drains, ReleaseDrain, ReleaseInv,
       ReleaseStep, Timeouts, Timers, hrtimer_cancel
  <2> QED
    BY <2>1, <2>2, <2>3 DEF ShutdownInv
<1>14. ASSUME NetdevDown PROVE ShutdownInv'
  BY <1>1, <1>14 DEF Dead, LockInv, NetdevDown, ReleaseInv, ShutdownInv, StateInv
<1> QED
  BY <1>2, <1>3, <1>4, <1>5, <1>6, <1>7, <1>8, <1>9, <1>10, <1>11, <1>12, <1>13,
     <1>14 DEF ReleaseNext

\* A new socket satisfies ShutdownInv.
LEMMA ShutdownInit == Init => ShutdownInv
<1> SUFFICES ASSUME Init PROVE ShutdownInv
  OBVIOUS
<1>1. LockInv
  BY DEF Init, LockInv, Locked, InDrain, InEvDrain
<1>2. StateInv
  BY DEF Init, StateInv, InDrain, Timeouts, Timers
<1>3. ReleaseInv
  BY DEF Init, ReleaseInv
<1> QED
  BY <1>1, <1>2, <1>3 DEF ShutdownInv

\* ShutdownInv is inductive relative to TypeOK.
LEMMA ShutdownStep == TypeOK /\ ShutdownInv /\ [Next]_vars => ShutdownInv'
<1> SUFFICES ASSUME TypeOK, ShutdownInv, [Next]_vars PROVE ShutdownInv'
  OBVIOUS
<1>1. CASE Next
  BY <1>1, SenderSafe, SoftirqSafe, TimerSafe, LifecycleSafe DEF Next
<1>2. CASE UNCHANGED vars
  BY <1>2 DEF ShutdownInv, LockInv, StateInv, ReleaseInv, Dead, vars, bindVars, sockVars,
     lockVars, timerVars, callVars
<1> QED
  BY <1>1, <1>2

\* The steps that write tx.state: all others keep it or shut the socket down.
LEMMA StateWriters ==
  ASSUME [Next]_vars
  PROVE  \/ tx_state' \in {tx_state, "SHUTDOWN"}
         \/ \E s \in Senders : Publish(s) \/ Arm(s) \/ Drop(s)
         \/ FcStatus \/ Finish \/ EchoBody
         \/ \E t \in Timeouts : TimeoutCas(t)
<1> USE DEF bindVars, sockVars
<1>1. ASSUME NEW s \in Senders,
             \/ Sendmsg(s) \/ Interrupted(s) \/ Claim(s) \/ ClaimBusy(s) \/ WaitIdle(s)
             \/ Drain(s) \/ Commit(s) \/ Recheck(s) \/ BuildFails(s) \/ Build(s)
             \/ Send(s) \/ ErrLock(s) \/ CancelOwn(s) \/ DropLock(s) \/ WaitDone(s)
             \/ WokenDone(s) \/ ReadResult(s)
      PROVE  tx_state' = tx_state
  BY <1>1 DEF Sendmsg, Interrupted, Claim, ClaimBusy, WaitIdle, Drain, Commit, Recheck,
     BuildFails, Build, Send, ErrLock, CancelOwn, DropLock, WaitDone, WokenDone, ReadResult
<1>2. ASSUME \/ FcArrives \/ (\E e \in echoes : EchoArrives(e))
             \/ FcCancel \/ FcMalformed \/ EchoCancel \/ SoftirqFill \/ SoftirqEmit
      PROVE  tx_state' = tx_state
  BY <1>2 DEF FcArrives, EchoArrives, FcCancel, FcMalformed, EchoCancel, SoftirqFill,
     SoftirqEmit
<1>3. ASSUME \/ \E t \in Timers : Expire(t)
             \/ \E t \in Timeouts : TimeoutGen(t) \/ TimeoutState(t) \/ TimeoutPost(t)
             \/ TxfrStep
      PROVE  tx_state' = tx_state
  BY <1>3 DEF Expire, TimeoutGen, TimeoutState, TimeoutPost, TxfrStep, TxfrRearm,
     TxfrCheck, TxfrFill, TxfrEmit
<1>4. ASSUME \/ BindCheck \/ BindRegister \/ NetdevUnregister \/ NetdevDown \/ GracePeriodEnds
             \/ SockError \/ Close \/ ReleaseInterrupted \/ ReleaseNext
      PROVE  tx_state' \in {tx_state, "SHUTDOWN"}
  BY <1>4 DEF BindCheck, BindRegister, NetdevUnregister, NetdevDown, GracePeriodEnds, SockError, Close,
     ReleaseInterrupted, ReleaseNext, ReleaseWait, ReleaseShutdown, ReleaseUnregister,
     ReleaseSync, ReleaseDrain
<1>5. CASE UNCHANGED vars
  BY <1>5 DEF vars
<1> QED
  BY <1>1, <1>2, <1>3, <1>4, <1>5 DEF Next, SendStep, SoftirqStep, TimeoutStep

\* No writer of tx.state overwrites ISOTP_SHUTDOWN: publish and the softirq
\* only write a state they know not to be SHUTDOWN, arm and drop test it under
\* so->rx_lock, and the cmpxchg() of isotp_tx_timeout() fails.
LEMMA ShutdownKept ==
  ASSUME TypeOK, ShutdownInv, [Next]_vars, tx_state = "SHUTDOWN"
  PROVE  tx_state' = "SHUTDOWN"
<1>1. Shape /\ LockInv /\ StateInv
  BY ShapeHolds DEF ShutdownInv
<1>2. ASSUME NEW s \in Senders, Publish(s) PROVE FALSE
  BY <1>1, <1>2 DEF Publish, StateInv
<1>3. ASSUME NEW s \in Senders, Arm(s) \/ Drop(s) PROVE tx_state' = "SHUTDOWN"
  BY <1>3 DEF Arm, Drop, DropState
<1>4. ASSUME FcStatus \/ Finish \/ EchoBody PROVE FALSE
  BY <1>1, <1>4 DEF FcStatus, Finish, EchoBody, StateInv
<1>5. ASSUME NEW t \in Timeouts, TimeoutCas(t) PROVE tx_state' = "SHUTDOWN"
  BY <1>1, <1>5 DEF TimeoutCas, Step, StateInv
<1> QED
  BY StateWriters, <1>2, <1>3, <1>4, <1>5

\* The lock discipline, what its holder knows, and the stages of release().
THEOREM ShutdownInvariant == Spec => []ShutdownInv
  BY TypeCorrect, ShutdownInit, ShutdownStep, PTL DEF Spec

\* Once isotp_release() has set ISOTP_SHUTDOWN no sendmsg() caller, softirq or
\* timer callback puts the socket back into use.
THEOREM ShutdownIsFinal == Spec => ShutdownFinal
<1>1. TypeOK /\ ShutdownInv /\ [Next]_vars
        => [tx_state = "SHUTDOWN" => tx_state' = "SHUTDOWN"]_vars
  BY ShutdownKept
<1> QED
  BY <1>1, TypeCorrect, ShutdownInvariant, PTL DEF Spec, ShutdownFinal

\* When isotp_release() frees the buffers nothing can run on the socket: the
\* filters are gone, the grace period is over, and the three hrtimer_cancel()
\* calls come in an order in which no callback re-arms a cancelled timer.
THEOREM ReleaseIsQuiescent == Spec => []ReleaseQuiescent
<1>1. ShutdownInv => ReleaseQuiescent
  BY DEF ShutdownInv, ReleaseInv, ReleaseQuiescent, Dead, Timers, Timeouts
<1> QED
  BY <1>1, ShutdownInvariant, PTL

-----------------------------------------------------------------------------
(* Stages of a call that has claimed the socket. *)

\* From the claim to ISOTP_SENDING, under so->rx_lock.
Claims == InDrain \cup {"commit", "publish"}

\* The first frame is built, or given up, by the caller alone.
Builds == {"fill", "build", "arm", "drop"}

\* A failed call that found the transfer still its own, under so->rx_lock.
Ends == InEvDrain \cup {"cancel", "dropl"}

\* The transfer runs; it may end, and others begin, under the caller.
Runs == {"send", "senderr", "waitdone", "sleepdone", "woken", "result", "evdrop"}

\* The caller knows the number and the generation of a transfer of its own.
Begun == {"publish"} \cup Builds \cup Runs \cup Ends

\* so->tx_gen is GenMod wide: a caller that sleeps through GenMod transfers
\* takes the last of them for its own.  The theorems are about runs without.
NoLapse == \A s \in Senders : pc[s] \in Begun => started - loc[s].xfer < GenMod

-----------------------------------------------------------------------------
(* The inductive invariant. *)

\* The generation a caller keeps is so->tx_gen less the transfers begun since.
GenInv ==
  \A s \in Senders : pc[s] \in Begun =>
    /\ loc[s].xfer \in 1..started
    /\ \/ tx_gen = loc[s].gen + (started - loc[s].xfer)
       \/ tx_gen = loc[s].gen + (started - loc[s].xfer) - GenMod
    /\ pc[s] \in {"publish"} \cup Builds \cup Ends => loc[s].xfer = started

\* No two callers have the same transfer.
XferInv ==
  \A s, q \in Senders :
    pc[s] \in Begun /\ pc[q] \in Begun /\ loc[s].xfer = loc[q].xfer => s = q

\* Frames on the bus are of transfers that began, and of an earlier one until
\* the caller has sent its own; before the first one nothing has ever run.
TagInv ==
  /\ tx.xfer \in 0..started
  /\ tx.xfer = 0 =>
       /\ hpc = "idle" /\ echoes = {} /\ tx_state \notin WaitsForFc
       /\ \A t \in Timers : Dead(t)
       /\ \A s \in Senders : pc[s] \notin {"arm", "send"}
  /\ \A e \in echoes : e[1] \in 1..started
  /\ \A s \in Senders : pc[s] \in {"publish"} \cup Builds => \A e \in echoes : e[1] # started

\* One caller claims or builds at a time; each hrtimer_cancel() of the claim
\* ends a timer for good, and none runs until the caller arms the first.
OwnerInv ==
  /\ \A s, q \in Senders :
       pc[s] \in Claims \cup Builds /\ pc[q] \in Claims \cup Builds => s = q
  /\ \A s \in Senders :
       /\ pc[s] \in Claims \ {"drain1"} => Dead("txfrtimer")
       /\ pc[s] \in Claims \ {"drain1", "drain2"} => Dead("txtimer")
       /\ pc[s] \in Claims \ InDrain => Dead("echotimer")

\* While a caller builds, nobody else is at work on the transfer: the softirq
\* finds no echo it awaits, and no failed call takes the transfer for its own.
BuildInv ==
  \A s \in Senders :
    /\ pc[s] \in Builds =>
         /\ tx_state \in {"SENDING", "SHUTDOWN"} /\ hpc = "idle"
         /\ \A t \in Timers : Dead(t)
         /\ cfecho # NoTag => pc[s] = "arm" /\ cfecho = <<started, 1>>
         /\ \A q \in Senders : pc[q] \notin Ends
    /\ pc[s] = "arm" => tx.xfer = started /\ (TxHrt(s) = "txtimer" => cfecho = NoTag)

\* Which timers may be alive, and what the softirq may be doing, in each state.
PhaseInv ==
  /\ tx_state \in WaitsForFc =>
       /\ Dead("echotimer") /\ Dead("txfrtimer") /\ cfecho = NoTag
       /\ hpc \in {"idle", "fc_cancel", "fc_body", "finish"}
  /\ tx_state = "SENDING" =>
       Dead("txtimer") /\ hpc \notin {"fc_cancel", "fc_body"}
  /\ ~Dead("txfrtimer") => hpc = "idle" /\ cfecho = NoTag
  /\ armed["txfrtimer"] => cb["txfrtimer"] = "off"
  /\ hpc = "fc_cancel" => tx_state # "SHUTDOWN"
  /\ hpc = "fc_body" => tx_state \in WaitsForFc /\ Dead("txtimer")
  /\ hpc = "ec_body" => tx_state = "SENDING" /\ cfecho = NoTag /\ \A t \in Timers : Dead(t)
  /\ hpc = "finish" => tx_state \in Busy /\ \A t \in Timers : Dead(t)
  /\ hpc \in {"cframe", "emit"} =>
       tx_state \in {"SENDING", "IDLE"} /\ Dead("txfrtimer") /\ Dead("txtimer")

\* What will end the transfer in each state, and that a timeout which has read
\* the state of a running transfer still finds it.
WatchInv ==
  /\ tx_state \in WaitsForFc =>
       \/ ~Dead("txtimer") \/ hpc \in {"fc_body", "finish"}
       \/ \E s \in Senders : pc[s] \in InEvDrain \cup {"dropl"}
  /\ tx_state = "SENDING" =>
       \/ ~Dead("echotimer") \/ ~Dead("txfrtimer") \/ hpc \in {"ec_body", "finish"}
       \/ \E s \in Senders : pc[s] \in Builds \cup InEvDrain \cup {"dropl"}
  /\ tx_state = "SENDING" /\ (cb["txfrtimer"] \in {"check", "cframe", "emit"}
                              \/ hpc \in {"cframe", "emit"}) =>
       ~Dead("echotimer") \/ \E s \in Senders : pc[s] \in InEvDrain \cup {"dropl"}
  /\ \A t \in Timeouts : tx_state \in Busy =>
       cb[t] # "post" /\ (cb[t] = "cas" => seen[t].st = tx_state)

\* bind() found IDLE: a transfer claimed since finds the socket unbound and is
\* given up before it arms a timer.
BindInv ==
  bpc = "register" =>
    /\ ~bound /\ rpc = "open" /\ tx_state \in {"IDLE", "SENDING"}
    /\ tx_state = "SENDING" => hpc = "idle" /\ cfecho = NoTag /\ \A t \in Timers : Dead(t)
    /\ \A s \in Senders : pc[s] \notin {"build", "arm"}

TransferInv ==
  /\ GenInv /\ XferInv /\ TagInv /\ OwnerInv /\ BuildInv /\ PhaseInv /\ WatchInv /\ BindInv

\* The types the invariant needs.
Numbers ==
  /\ loc \in [Senders -> LocRec] /\ tx \in TxRec /\ started \in Nat
  /\ tx_gen \in Gens /\ GenMod \in Nat \ {0} /\ echoes \subseteq Nat \X Nat

\* isotp_inc_tx_gen() steps to the next generation, or wraps to 0.
LEMMA IncGen ==
  ASSUME Numbers
  PROVE  \/ isotp_inc_tx_gen(tx_gen) = tx_gen + 1
         \/ isotp_inc_tx_gen(tx_gen) = 0 /\ tx_gen = GenMod - 1
<1>1. tx_gen \in Nat /\ GenMod \in Nat \ {0} /\ tx_gen < GenMod
  BY DEF Numbers, Gens
<1>2. CASE tx_gen + 1 < GenMod
  BY <1>1, <1>2 DEF isotp_inc_tx_gen
<1>3. CASE tx_gen + 1 = GenMod
  BY <1>1, <1>3 DEF isotp_inc_tx_gen
<1> QED
  BY <1>1, <1>2, <1>3

\* What a wake up does to each caller.
LEMMA WokenStages ==
  ASSUME Shape, NEW q \in Senders
  PROVE  \/ Woken(pc)[q] = pc[q]
         \/ pc[q] = "asleep" /\ Woken(pc)[q] = "wait"
         \/ pc[q] = "sleepdone" /\ Woken(pc)[q] = "waitdone"
  BY DEF Woken, Shape

\* A caller that finds its generation unchanged owns the last transfer.
LEMMA OwnTransfer ==
  ASSUME Numbers, NoLapse, GenInv, NEW s \in Senders, pc[s] \in Begun, StillMine(s)
  PROVE  loc[s].xfer = started
<1>1. loc[s].gen \in 0..(GenMod - 1) /\ loc[s].xfer \in 1..started /\ started \in Nat
  BY DEF Numbers, GenInv, LocRec, Gens
<1> QED
  BY <1>1 DEF Numbers, NoLapse, GenInv, StillMine

\* TypeOK gives those types.
LEMMA NumbersHold == TypeOK => Numbers
  BY TxAssumption DEF TypeOK, Numbers, LocRec, TxRec, Gens

\* Every step of a sendmsg() caller preserves TransferInv.
LEMMA SenderTransfers ==
  ASSUME TypeOK, ShutdownInv, NoLapse, TransferInv,
         NEW s \in Senders, Sendmsg(s) \/ SendStep(s) \/ Interrupted(s)
  PROVE  TransferInv'
<1> USE DEF bindVars, sockVars, lockVars, timerVars, callVars, histVars
<1>1. Shape /\ Numbers /\ NoLapse /\ LockInv /\ StateInv /\ ReleaseInv /\ GenInv
      /\ XferInv /\ TagInv /\ OwnerInv /\ BuildInv /\ PhaseInv /\ WatchInv /\ BindInv
  BY ShapeHolds, NumbersHold DEF ShutdownInv, TransferInv
<1>2. ASSUME Sendmsg(s) PROVE TransferInv'
  <2>1. PhaseInv'
    BY <1>1, <1>2 DEF Busy, Dead, Goto, InDrain, NoTag, PhaseInv, PreClaim, Sendmsg,
       Timeouts, Timers, WaitsForFc
  <2>2. GenInv'
    BY <1>1, <1>2 DEF Begun, Builds, CallbackPCs, Ends, Filling, GenInv, Gens, Goto,
       InDrain, InEvDrain, LocRec, Numbers, PreClaim, Results, Returns, Runs, SeenRec,
       SenderPCs, Sendmsg, Shape, States, Timeouts, Timers, TxErrs, TxRec
  <2>3. XferInv'
    BY <1>1, <1>2 DEF Begun, Builds, CallbackPCs, Ends, Filling, Gens, Goto, InDrain,
       InEvDrain, LocRec, Numbers, PreClaim, Results, Returns, Runs, SeenRec,
       SenderPCs, Sendmsg, Shape, States, Timeouts, Timers, TxErrs, TxRec, XferInv
  <2>4. TagInv'
    BY <1>1, <1>2 DEF Builds, CallbackPCs, Dead, Filling, Gens, Goto, InDrain,
       InEvDrain, LocRec, Numbers, PreClaim, Results, Returns, SeenRec, SenderPCs,
       Sendmsg, Shape, States, TagInv, Timeouts, Timers, TxErrs, TxRec, WaitsForFc
  <2>5. OwnerInv'
    BY <1>1, <1>2 DEF Builds, CallbackPCs, Claims, Dead, Filling, Gens, Goto, InDrain,
       InEvDrain, OwnerInv, PreClaim, SeenRec, SenderPCs, Sendmsg, Shape, States,
       Timeouts, Timers
  <2>6. BuildInv'
    BY <1>1, <1>2 DEF BuildInv, Builds, CallbackPCs, Dead, Ends, Filling, Gens, Goto,
       InDrain, InEvDrain, NoTag, PreClaim, SeenRec, SenderPCs, Sendmsg, Shape,
       States, Timeouts, Timers, TxHrt
  <2>7. WatchInv'
    BY <1>1, <1>2 DEF Builds, Busy, CallbackPCs, Dead, Filling, Gens, Goto, InDrain,
       InEvDrain, PreClaim, SeenRec, SenderPCs, Sendmsg, Shape, States, Timeouts,
       Timers, WaitsForFc, WatchInv
  <2>8. BindInv'
    BY <1>1, <1>2 DEF BindInv, CallbackPCs, Dead, Filling, Gens, Goto, InDrain,
       InEvDrain, NoTag, PreClaim, SeenRec, SenderPCs, Sendmsg, Shape, States,
       Timeouts, Timers
  <2> QED
    BY <2>1, <2>2, <2>3, <2>4, <2>5, <2>6, <2>7, <2>8 DEF TransferInv
<1>3. ASSUME Interrupted(s) PROVE TransferInv'
  <2>1. PhaseInv'
    BY <1>1, <1>3 DEF Busy, Dead, Fail, Goto, Interrupted, NoTag, PhaseInv, Return,
       Timeouts, Timers, WaitsForFc
  <2>2. GenInv'
    BY <1>1, <1>3 DEF Begun, Builds, CallbackPCs, Ends, Fail, Filling, GenInv, Gens,
       Goto, InDrain, InEvDrain, Interrupted, LocRec, Numbers, PreClaim, Results,
       Return, Returns, Runs, SeenRec, SenderPCs, Shape, States, Timeouts, Timers,
       TxErrs, TxRec
  <2>3. XferInv'
    BY <1>1, <1>3 DEF Begun, Builds, CallbackPCs, Ends, Fail, Filling, Gens, Goto,
       InDrain, InEvDrain, Interrupted, LocRec, Numbers, PreClaim, Results, Return,
       Returns, Runs, SeenRec, SenderPCs, Shape, States, Timeouts, Timers, TxErrs,
       TxRec, XferInv
  <2>4. TagInv'
    BY <1>1, <1>3 DEF Builds, CallbackPCs, Dead, Fail, Filling, Gens, Goto, InDrain,
       InEvDrain, Interrupted, LocRec, Numbers, PreClaim, Results, Return, Returns,
       SeenRec, SenderPCs, Shape, States, TagInv, Timeouts, Timers, TxErrs, TxRec,
       WaitsForFc
  <2>5. OwnerInv'
    BY <1>1, <1>3 DEF Builds, CallbackPCs, Claims, Dead, Fail, Filling, Gens, Goto,
       InDrain, InEvDrain, Interrupted, OwnerInv, PreClaim, Return, SeenRec,
       SenderPCs, Shape, States, Timeouts, Timers
  <2>6. BuildInv'
    BY SMTT(60), <1>1, <1>3 DEF Begun, BuildInv, Builds, Busy, CallbackPCs, Claims,
       Dead, Ends, Fail, Filling, GenInv, Gens, Goto, InDrain, InEvDrain, Interrupted,
       LocRec, LockInv, Locked, NoTag, Numbers, OwnerInv, PhaseInv, PreClaim, Results,
       Return, Returns, Runs, SeenRec, SenderPCs, Shape, StateInv, States, Timeouts,
       Timers, TxErrs, TxHrt, TxRec, WaitsForFc, XferInv
  <2>7. WatchInv'
    BY <1>1, <1>3 DEF Builds, Busy, CallbackPCs, Dead, Fail, Filling, Gens, Goto,
       InDrain, InEvDrain, Interrupted, PreClaim, Return, SeenRec, SenderPCs, Shape,
       States, Timeouts, Timers, WaitsForFc, WatchInv
  <2>8. BindInv'
    BY <1>1, <1>3 DEF BindInv, CallbackPCs, Dead, Fail, Filling, Gens, Goto, InDrain,
       InEvDrain, Interrupted, NoTag, PreClaim, Return, SeenRec, SenderPCs, Shape,
       States, Timeouts, Timers
  <2> QED
    BY <2>1, <2>2, <2>3, <2>4, <2>5, <2>6, <2>7, <2>8 DEF TransferInv
<1>4. ASSUME Claim(s) PROVE TransferInv'
  <2>1. PhaseInv'
    BY <1>1, <1>4 DEF Busy, Claim, Dead, Drains, Goto, NoTag, PhaseInv, Timeouts,
       Timers, WaitsForFc
  <2>2. GenInv'
    BY <1>1, <1>4 DEF Begun, Builds, CallbackPCs, Claim, Drains, Ends, Filling,
       GenInv, Gens, Goto, InDrain, InEvDrain, LocRec, Numbers, PreClaim, Results,
       Returns, Runs, SeenRec, SenderPCs, Shape, States, Timeouts, Timers, TxErrs,
       TxRec
  <2>3. XferInv'
    BY <1>1, <1>4 DEF Begun, Builds, CallbackPCs, Claim, Drains, Ends, Filling, Gens,
       Goto, InDrain, InEvDrain, LocRec, Numbers, PreClaim, Results, Returns, Runs,
       SeenRec, SenderPCs, Shape, States, Timeouts, Timers, TxErrs, TxRec, XferInv
  <2>4. TagInv'
    BY <1>1, <1>4 DEF Builds, CallbackPCs, Claim, Dead, Drains, Filling, Gens, Goto,
       InDrain, InEvDrain, LocRec, Numbers, PreClaim, Results, Returns, SeenRec,
       SenderPCs, Shape, States, TagInv, Timeouts, Timers, TxErrs, TxRec, WaitsForFc
  <2>5. OwnerInv'
    BY <1>1, <1>4 DEF BuildInv, Builds, CallbackPCs, Claim, Claims, Dead, Drains,
       Ends, Filling, Gens, Goto, InDrain, InEvDrain, LockInv, Locked, NoTag,
       OwnerInv, PreClaim, SeenRec, SenderPCs, Shape, StateInv, States, Timeouts,
       Timers, TxHrt
  <2>6. BuildInv'
    BY <1>1, <1>4 DEF BuildInv, Builds, CallbackPCs, Claim, Dead, Drains, Ends,
       Filling, Gens, Goto, InDrain, InEvDrain, NoTag, PreClaim, SeenRec, SenderPCs,
       Shape, States, Timeouts, Timers, TxHrt
  <2>7. WatchInv'
    BY <1>1, <1>4 DEF Builds, Busy, CallbackPCs, Claim, Dead, Drains, Filling, Gens,
       Goto, InDrain, InEvDrain, PreClaim, SeenRec, SenderPCs, Shape, States,
       Timeouts, Timers, WaitsForFc, WatchInv
  <2>8. BindInv'
    BY <1>1, <1>4 DEF BindInv, CallbackPCs, Claim, Dead, Drains, Filling, Gens, Goto,
       InDrain, InEvDrain, NoTag, PreClaim, SeenRec, SenderPCs, Shape, States,
       Timeouts, Timers
  <2> QED
    BY <2>1, <2>2, <2>3, <2>4, <2>5, <2>6, <2>7, <2>8 DEF TransferInv
<1>5. ASSUME ClaimBusy(s) PROVE TransferInv'
  <2>1. PhaseInv'
    BY <1>1, <1>5 DEF Busy, ClaimBusy, Dead, Goto, NoTag, PhaseInv, Return, Timeouts,
       Timers, WaitsForFc
  <2>2. GenInv'
    BY <1>1, <1>5 DEF Begun, Builds, CallbackPCs, ClaimBusy, Ends, Filling, GenInv,
       Gens, Goto, InDrain, InEvDrain, LocRec, Numbers, PreClaim, Results, Return,
       Returns, Runs, SeenRec, SenderPCs, Shape, States, Timeouts, Timers, TxErrs,
       TxRec
  <2>3. XferInv'
    BY <1>1, <1>5 DEF Begun, Builds, CallbackPCs, ClaimBusy, Ends, Filling, Gens,
       Goto, InDrain, InEvDrain, LocRec, Numbers, PreClaim, Results, Return, Returns,
       Runs, SeenRec, SenderPCs, Shape, States, Timeouts, Timers, TxErrs, TxRec,
       XferInv
  <2>4. TagInv'
    BY <1>1, <1>5 DEF Builds, CallbackPCs, ClaimBusy, Dead, Filling, Gens, Goto,
       InDrain, InEvDrain, LocRec, Numbers, PreClaim, Results, Return, Returns,
       SeenRec, SenderPCs, Shape, States, TagInv, Timeouts, Timers, TxErrs, TxRec,
       WaitsForFc
  <2>5. OwnerInv'
    BY <1>1, <1>5 DEF Builds, CallbackPCs, ClaimBusy, Claims, Dead, Filling, Gens,
       Goto, InDrain, InEvDrain, OwnerInv, PreClaim, Return, SeenRec, SenderPCs,
       Shape, States, Timeouts, Timers
  <2>6. BuildInv'
    BY <1>1, <1>5 DEF BuildInv, Builds, CallbackPCs, ClaimBusy, Dead, Ends, Filling,
       Gens, Goto, InDrain, InEvDrain, NoTag, PreClaim, Return, SeenRec, SenderPCs,
       Shape, States, Timeouts, Timers, TxHrt
  <2>7. WatchInv'
    BY <1>1, <1>5 DEF Builds, Busy, CallbackPCs, ClaimBusy, Dead, Filling, Gens, Goto,
       InDrain, InEvDrain, PreClaim, Return, SeenRec, SenderPCs, Shape, States,
       Timeouts, Timers, WaitsForFc, WatchInv
  <2>8. BindInv'
    BY <1>1, <1>5 DEF BindInv, CallbackPCs, ClaimBusy, Dead, Filling, Gens, Goto,
       InDrain, InEvDrain, NoTag, PreClaim, Return, SeenRec, SenderPCs, Shape, States,
       Timeouts, Timers
  <2> QED
    BY <2>1, <2>2, <2>3, <2>4, <2>5, <2>6, <2>7, <2>8 DEF TransferInv
<1>6. ASSUME WaitIdle(s) PROVE TransferInv'
  <2>1. PhaseInv'
    BY <1>1, <1>6 DEF Busy, Dead, GaveUp, Goto, NoTag, PhaseInv, Timeouts, Timers,
       WaitIdle, WaitsForFc
  <2>2. GenInv'
    BY <1>1, <1>6 DEF Begun, Builds, CallbackPCs, Ends, Filling, GaveUp, GenInv, Gens,
       Goto, InDrain, InEvDrain, LocRec, Numbers, PreClaim, Results, Returns, Runs,
       SeenRec, SenderPCs, Shape, States, Timeouts, Timers, TxErrs, TxRec, WaitIdle
  <2>3. XferInv'
    BY <1>1, <1>6 DEF Begun, Builds, CallbackPCs, Ends, Filling, GaveUp, Gens, Goto,
       InDrain, InEvDrain, LocRec, Numbers, PreClaim, Results, Returns, Runs, SeenRec,
       SenderPCs, Shape, States, Timeouts, Timers, TxErrs, TxRec, WaitIdle, XferInv
  <2>4. TagInv'
    BY <1>1, <1>6 DEF Builds, CallbackPCs, Dead, Filling, GaveUp, Gens, Goto, InDrain,
       InEvDrain, LocRec, Numbers, PreClaim, Results, Returns, SeenRec, SenderPCs,
       Shape, States, TagInv, Timeouts, Timers, TxErrs, TxRec, WaitIdle, WaitsForFc
  <2>5. OwnerInv'
    BY <1>1, <1>6 DEF Builds, CallbackPCs, Claims, Dead, Filling, GaveUp, Gens, Goto,
       InDrain, InEvDrain, OwnerInv, PreClaim, SeenRec, SenderPCs, Shape, States,
       Timeouts, Timers, WaitIdle
  <2>6. BuildInv'
    BY <1>1, <1>6 DEF BuildInv, Builds, CallbackPCs, Dead, Ends, Filling, GaveUp,
       Gens, Goto, InDrain, InEvDrain, NoTag, PreClaim, SeenRec, SenderPCs, Shape,
       States, Timeouts, Timers, TxHrt, WaitIdle
  <2>7. WatchInv'
    BY <1>1, <1>6 DEF Builds, Busy, CallbackPCs, Dead, Filling, GaveUp, Gens, Goto,
       InDrain, InEvDrain, PreClaim, SeenRec, SenderPCs, Shape, States, Timeouts,
       Timers, WaitIdle, WaitsForFc, WatchInv
  <2>8. BindInv'
    BY <1>1, <1>6 DEF BindInv, CallbackPCs, Dead, Filling, GaveUp, Gens, Goto,
       InDrain, InEvDrain, NoTag, PreClaim, SeenRec, SenderPCs, Shape, States,
       Timeouts, Timers, WaitIdle
  <2> QED
    BY <2>1, <2>2, <2>3, <2>4, <2>5, <2>6, <2>7, <2>8 DEF TransferInv
<1>7. ASSUME Drain(s) PROVE TransferInv'
  <2>1. GenInv'
    BY <1>1, <1>7 DEF Begun, Builds, CallbackPCs, Drain, DrainOrder, Drains, Ends,
       EvDrains, Filling, GenInv, Gens, Goto, InDrain, InEvDrain, LocRec, Numbers,
       PreClaim, Results, Returns, Runs, SeenRec, SenderPCs, Shape, States, Timeouts,
       Timers, TxErrs, TxRec, hrtimer_cancel
  <2>2. XferInv'
    BY <1>1, <1>7 DEF Begun, Builds, CallbackPCs, Drain, DrainOrder, Drains, Ends,
       EvDrains, Filling, Gens, Goto, InDrain, InEvDrain, LocRec, Numbers, PreClaim,
       Results, Returns, Runs, SeenRec, SenderPCs, Shape, States, Timeouts, Timers,
       TxErrs, TxRec, XferInv, hrtimer_cancel
  <2>3. TagInv'
    BY <1>1, <1>7 DEF Builds, CallbackPCs, Dead, Drain, DrainOrder, Drains, EvDrains,
       Filling, Gens, Goto, InDrain, InEvDrain, LocRec, Numbers, PreClaim, Results,
       Returns, SeenRec, SenderPCs, Shape, States, TagInv, Timeouts, Timers, TxErrs,
       TxRec, WaitsForFc, hrtimer_cancel
  <2>4. OwnerInv'
    BY <1>1, <1>7 DEF Builds, CallbackPCs, Claims, Dead, Drain, DrainOrder, Drains,
       EvDrains, Filling, Gens, Goto, InDrain, InEvDrain, OwnerInv, PreClaim, SeenRec,
       SenderPCs, Shape, States, Timeouts, Timers, hrtimer_cancel
  <2>5. BuildInv'
    BY <1>1, <1>7 DEF BuildInv, Builds, CallbackPCs, Dead, Drain, DrainOrder, Drains,
       Ends, EvDrains, Filling, Gens, Goto, InDrain, InEvDrain, NoTag, PreClaim,
       SeenRec, SenderPCs, Shape, States, Timeouts, Timers, TxHrt, hrtimer_cancel
  <2>6. PhaseInv'
    BY <1>1, <1>7 DEF Busy, CallbackPCs, Dead, Drain, DrainOrder, Drains, EvDrains,
       Filling, Gens, Goto, InDrain, InEvDrain, NoTag, PhaseInv, PreClaim, SeenRec,
       SenderPCs, Shape, States, Timeouts, Timers, WaitsForFc, hrtimer_cancel
  <2>7. WatchInv'
    BY SMTT(60), <1>1, <1>7 DEF Begun, BuildInv, Builds, Busy, CallbackPCs, Claims,
       Dead, Drain, DrainOrder, Drains, Ends, EvDrains, Filling, GenInv, Gens, Goto,
       InDrain, InEvDrain, LocRec, LockInv, Locked, NoTag, Numbers, OwnerInv,
       PhaseInv, PreClaim, Results, Returns, Runs, SeenRec, SenderPCs, Shape,
       StateInv, States, Timeouts, Timers, TxErrs, TxHrt, TxRec, WaitsForFc, WatchInv,
       XferInv, hrtimer_cancel
  <2>8. BindInv'
    BY <1>1, <1>7 DEF BindInv, CallbackPCs, Dead, Drain, DrainOrder, Drains, EvDrains,
       Filling, Gens, Goto, InDrain, InEvDrain, NoTag, PreClaim, SeenRec, SenderPCs,
       Shape, States, Timeouts, Timers, hrtimer_cancel
  <2> QED
    BY <2>1, <2>2, <2>3, <2>4, <2>5, <2>6, <2>7, <2>8 DEF TransferInv
<1>8. ASSUME Commit(s) PROVE TransferInv'
  <2>1. /\ pc[s] = "commit" /\ pc' = [pc EXCEPT ![s] = "publish"]
        /\ tx_gen' = isotp_inc_tx_gen(tx_gen) /\ started' = started + 1
        /\ loc' = [loc EXCEPT ![s].xfer = started + 1, ![s].gen = tx_gen']
    BY <1>8 DEF Commit, Goto
  <2>2. /\ pc'[s] = "publish" /\ loc'[s].xfer = started' /\ loc'[s].gen = tx_gen'
        /\ \A q \in Senders : q # s => pc'[q] = pc[q] /\ loc'[q] = loc[q]
    BY <1>1, <2>1 DEF Shape, Numbers, LocRec
  <2>3. tx_gen' = tx_gen + 1 \/ (tx_gen' = 0 /\ tx_gen = GenMod - 1)
    BY <1>1, <2>1, IncGen
  <2>4. PhaseInv'
    BY <1>1, <1>8 DEF Busy, Commit, Dead, Goto, NoTag, PhaseInv, Slot, Timeouts,
       Timers, WaitsForFc, isotp_inc_tx_gen, isotp_set_tx_result
  <2>5. GenInv'
    <3>1. ASSUME NEW q \in Senders, q # s, pc'[q] \in Begun
          PROVE  /\ loc'[q].xfer \in 1..started'
                 /\ \/ tx_gen' = loc'[q].gen + (started' - loc'[q].xfer)
                    \/ tx_gen' = loc'[q].gen + (started' - loc'[q].xfer) - GenMod
                 /\ pc'[q] \notin {"publish"} \cup Builds \cup Ends
      <4>1. pc'[q] \notin {"publish"} \cup Builds \cup Ends
        BY <1>1, <2>1, <2>2, <3>1 DEF OwnerInv, LockInv, Locked, Claims, Ends, Builds, InDrain
      <4>2. /\ loc[q].gen \in 0..(GenMod - 1) /\ loc[q].xfer \in 1..started
            /\ started \in Nat /\ tx_gen \in 0..(GenMod - 1) /\ GenMod \in Nat
            /\ started - loc[q].xfer < GenMod
            /\ \/ tx_gen = loc[q].gen + (started - loc[q].xfer)
               \/ tx_gen = loc[q].gen + (started - loc[q].xfer) - GenMod
        BY <1>1, <2>2, <3>1 DEF Numbers, LocRec, Gens, GenInv, NoLapse
      <4>3. loc'[q] = loc[q]
        BY <2>2, <3>1
      <4> QED
        BY <2>1, <2>3, <4>1, <4>2, <4>3
    <3>2. started' \in 1..started' /\ tx_gen' \in Int /\ started' \in Int
      BY <1>1, <2>1, <2>3 DEF Numbers, Gens
    <3> QED
      BY <2>2, <3>1, <3>2 DEF GenInv
  <2>6. XferInv'
    BY SMTT(60), <1>1, <1>8 DEF Begun, BuildInv, Builds, Busy, CallbackPCs, Claims,
       Commit, Dead, Ends, Filling, GenInv, Gens, Goto, InDrain, InEvDrain, LocRec,
       LockInv, Locked, NoTag, Numbers, OwnerInv, PhaseInv, PreClaim, Results,
       Returns, Runs, SeenRec, SenderPCs, Shape, Slot, StateInv, States, Timeouts,
       Timers, TxErrs, TxHrt, TxRec, WaitsForFc, XferInv, isotp_inc_tx_gen,
       isotp_set_tx_result
  <2>7. TagInv'
    BY <1>1, <1>8 DEF Builds, CallbackPCs, Commit, Dead, Filling, Gens, Goto, InDrain,
       InEvDrain, LocRec, Numbers, PreClaim, Results, Returns, SeenRec, SenderPCs,
       Shape, Slot, States, TagInv, Timeouts, Timers, TxErrs, TxRec, WaitsForFc,
       isotp_inc_tx_gen, isotp_set_tx_result
  <2>8. OwnerInv'
    BY <1>1, <1>8 DEF Builds, CallbackPCs, Claims, Commit, Dead, Filling, Gens, Goto,
       InDrain, InEvDrain, OwnerInv, PreClaim, SeenRec, SenderPCs, Shape, Slot,
       States, Timeouts, Timers, isotp_inc_tx_gen, isotp_set_tx_result
  <2>9. BuildInv'
    BY <1>1, <1>8 DEF BuildInv, Builds, CallbackPCs, Claims, Commit, Dead, Ends,
       Filling, Gens, Goto, InDrain, InEvDrain, LockInv, Locked, NoTag, OwnerInv,
       PreClaim, SeenRec, SenderPCs, Shape, Slot, StateInv, States, Timeouts, Timers,
       TxHrt, isotp_inc_tx_gen, isotp_set_tx_result
  <2>10. WatchInv'
    BY <1>1, <1>8 DEF Builds, Busy, CallbackPCs, Commit, Dead, Filling, Gens, Goto,
       InDrain, InEvDrain, PreClaim, SeenRec, SenderPCs, Shape, Slot, States,
       Timeouts, Timers, WaitsForFc, WatchInv, isotp_inc_tx_gen, isotp_set_tx_result
  <2>11. BindInv'
    BY <1>1, <1>8 DEF BindInv, CallbackPCs, Commit, Dead, Filling, Gens, Goto,
       InDrain, InEvDrain, NoTag, PreClaim, SeenRec, SenderPCs, Shape, Slot, States,
       Timeouts, Timers, isotp_inc_tx_gen, isotp_set_tx_result
  <2> QED
    BY <2>4, <2>5, <2>6, <2>7, <2>8, <2>9, <2>10, <2>11 DEF TransferInv
<1>9. ASSUME Publish(s) PROVE TransferInv'
  <2>1. GenInv'
    BY <1>1, <1>9 DEF Begun, Builds, CallbackPCs, Ends, Filling, GenInv, Gens, Goto,
       InDrain, InEvDrain, LocRec, NoTag, Numbers, PreClaim, Publish, Results,
       Returns, Runs, SeenRec, SenderPCs, Shape, States, Timeouts, Timers, TxErrs,
       TxRec
  <2>2. XferInv'
    BY <1>1, <1>9 DEF Begun, Builds, CallbackPCs, Ends, Filling, Gens, Goto, InDrain,
       InEvDrain, LocRec, NoTag, Numbers, PreClaim, Publish, Results, Returns, Runs,
       SeenRec, SenderPCs, Shape, States, Timeouts, Timers, TxErrs, TxRec, XferInv
  <2>3. TagInv'
    BY <1>1, <1>9 DEF Builds, CallbackPCs, Dead, Filling, Gens, Goto, InDrain,
       InEvDrain, LocRec, NoTag, Numbers, PreClaim, Publish, Results, Returns,
       SeenRec, SenderPCs, Shape, States, TagInv, Timeouts, Timers, TxErrs, TxRec,
       WaitsForFc
  <2>4. OwnerInv'
    BY <1>1, <1>9 DEF Builds, CallbackPCs, Claims, Dead, Filling, Gens, Goto, InDrain,
       InEvDrain, NoTag, OwnerInv, PreClaim, Publish, SeenRec, SenderPCs, Shape,
       States, Timeouts, Timers
  <2>5. BuildInv'
    BY <1>1, <1>9 DEF BuildInv, Builds, CallbackPCs, Claims, Dead, Ends, Filling,
       Gens, Goto, InDrain, InEvDrain, LockInv, Locked, NoTag, OwnerInv, PreClaim,
       Publish, SeenRec, SenderPCs, Shape, StateInv, States, Timeouts, Timers, TxHrt
  <2>6. PhaseInv'
    BY <1>1, <1>9 DEF BuildInv, Builds, Busy, CallbackPCs, Claims, Dead, Ends,
       Filling, Gens, Goto, InDrain, InEvDrain, LockInv, Locked, NoTag, OwnerInv,
       PhaseInv, PreClaim, Publish, SeenRec, SenderPCs, Shape, StateInv, States,
       Timeouts, Timers, TxHrt, WaitsForFc
  <2>7. WatchInv'
    BY <1>1, <1>9 DEF BuildInv, Builds, Busy, CallbackPCs, Claims, Dead, Ends,
       Filling, Gens, Goto, InDrain, InEvDrain, LockInv, Locked, NoTag, OwnerInv,
       PhaseInv, PreClaim, Publish, SeenRec, SenderPCs, Shape, StateInv, States,
       Timeouts, Timers, TxHrt, WaitsForFc, WatchInv
  <2>8. BindInv'
    BY <1>1, <1>9 DEF BindInv, BuildInv, Builds, Busy, CallbackPCs, Claims, Dead,
       Ends, Filling, Gens, Goto, InDrain, InEvDrain, LockInv, Locked, NoTag,
       OwnerInv, PhaseInv, PreClaim, Publish, SeenRec, SenderPCs, Shape, StateInv,
       States, Timeouts, Timers, TxHrt, WaitsForFc
  <2> QED
    BY <2>1, <2>2, <2>3, <2>4, <2>5, <2>6, <2>7, <2>8 DEF TransferInv
<1>10. ASSUME Recheck(s) PROVE TransferInv'
  <2>1. PhaseInv'
    BY <1>1, <1>10 DEF Busy, Dead, Fail, Goto, NoTag, PhaseInv, Recheck, Timeouts,
       Timers, WaitsForFc
  <2>2. GenInv'
    BY <1>1, <1>10 DEF Begun, Builds, CallbackPCs, Ends, Fail, Filling, GenInv, Gens,
       Goto, InDrain, InEvDrain, LocRec, Numbers, PreClaim, Recheck, Results, Returns,
       Runs, SeenRec, SenderPCs, Shape, States, Timeouts, Timers, TxErrs, TxRec
  <2>3. XferInv'
    BY <1>1, <1>10 DEF Begun, Builds, CallbackPCs, Ends, Fail, Filling, Gens, Goto,
       InDrain, InEvDrain, LocRec, Numbers, PreClaim, Recheck, Results, Returns, Runs,
       SeenRec, SenderPCs, Shape, States, Timeouts, Timers, TxErrs, TxRec, XferInv
  <2>4. TagInv'
    BY <1>1, <1>10 DEF Builds, CallbackPCs, Dead, Fail, Filling, Gens, Goto, InDrain,
       InEvDrain, LocRec, Numbers, PreClaim, Recheck, Results, Returns, SeenRec,
       SenderPCs, Shape, States, TagInv, Timeouts, Timers, TxErrs, TxRec, WaitsForFc
  <2>5. OwnerInv'
    BY <1>1, <1>10 DEF Builds, CallbackPCs, Claims, Dead, Fail, Filling, Gens, Goto,
       InDrain, InEvDrain, OwnerInv, PreClaim, Recheck, SeenRec, SenderPCs, Shape,
       States, Timeouts, Timers
  <2>6. BuildInv'
    BY <1>1, <1>10 DEF BuildInv, Builds, CallbackPCs, Dead, Ends, Fail, Filling, Gens,
       Goto, InDrain, InEvDrain, NoTag, PreClaim, Recheck, SeenRec, SenderPCs, Shape,
       States, Timeouts, Timers, TxHrt
  <2>7. WatchInv'
    BY <1>1, <1>10 DEF Builds, Busy, CallbackPCs, Dead, Fail, Filling, Gens, Goto,
       InDrain, InEvDrain, PreClaim, Recheck, SeenRec, SenderPCs, Shape, States,
       Timeouts, Timers, WaitsForFc, WatchInv
  <2>8. BindInv'
    BY <1>1, <1>10 DEF BindInv, CallbackPCs, Dead, Fail, Filling, Gens, Goto, InDrain,
       InEvDrain, NoTag, PreClaim, Recheck, SeenRec, SenderPCs, Shape, States,
       Timeouts, Timers
  <2> QED
    BY <2>1, <2>2, <2>3, <2>4, <2>5, <2>6, <2>7, <2>8 DEF TransferInv
<1>11. ASSUME BuildFails(s) PROVE TransferInv'
  <2>1. PhaseInv'
    BY <1>1, <1>11 DEF BuildFails, Busy, Dead, Fail, Goto, NoTag, PhaseInv, Timeouts,
       Timers, WaitsForFc
  <2>2. GenInv'
    BY <1>1, <1>11 DEF Begun, BuildFails, Builds, CallbackPCs, Ends, Fail, Filling,
       GenInv, Gens, Goto, InDrain, InEvDrain, LocRec, Numbers, PreClaim, Results,
       Returns, Runs, SeenRec, SenderPCs, Shape, States, Timeouts, Timers, TxErrs,
       TxRec
  <2>3. XferInv'
    BY <1>1, <1>11 DEF Begun, BuildFails, Builds, CallbackPCs, Ends, Fail, Filling,
       Gens, Goto, InDrain, InEvDrain, LocRec, Numbers, PreClaim, Results, Returns,
       Runs, SeenRec, SenderPCs, Shape, States, Timeouts, Timers, TxErrs, TxRec,
       XferInv
  <2>4. TagInv'
    BY <1>1, <1>11 DEF BuildFails, Builds, CallbackPCs, Dead, Fail, Filling, Gens,
       Goto, InDrain, InEvDrain, LocRec, Numbers, PreClaim, Results, Returns, SeenRec,
       SenderPCs, Shape, States, TagInv, Timeouts, Timers, TxErrs, TxRec, WaitsForFc
  <2>5. OwnerInv'
    BY <1>1, <1>11 DEF BuildFails, Builds, CallbackPCs, Claims, Dead, Fail, Filling,
       Gens, Goto, InDrain, InEvDrain, OwnerInv, PreClaim, SeenRec, SenderPCs, Shape,
       States, Timeouts, Timers
  <2>6. BuildInv'
    BY <1>1, <1>11 DEF BuildFails, BuildInv, Builds, CallbackPCs, Dead, Ends, Fail,
       Filling, Gens, Goto, InDrain, InEvDrain, NoTag, PreClaim, SeenRec, SenderPCs,
       Shape, States, Timeouts, Timers, TxHrt
  <2>7. WatchInv'
    BY <1>1, <1>11 DEF BuildFails, Builds, Busy, CallbackPCs, Dead, Fail, Filling,
       Gens, Goto, InDrain, InEvDrain, PreClaim, SeenRec, SenderPCs, Shape, States,
       Timeouts, Timers, WaitsForFc, WatchInv
  <2>8. BindInv'
    BY <1>1, <1>11 DEF BindInv, BuildFails, CallbackPCs, Dead, Fail, Filling, Gens,
       Goto, InDrain, InEvDrain, NoTag, PreClaim, SeenRec, SenderPCs, Shape, States,
       Timeouts, Timers
  <2> QED
    BY <2>1, <2>2, <2>3, <2>4, <2>5, <2>6, <2>7, <2>8 DEF TransferInv
<1>12. ASSUME Build(s) PROVE TransferInv'
  <2>1. GenInv'
    BY <1>1, <1>12 DEF Begun, Build, Builds, CallbackPCs, Ends, Filling, GenInv, Gens,
       Goto, InDrain, InEvDrain, LocRec, NoTag, Numbers, PreClaim, Results, Returns,
       Runs, SeenRec, SenderPCs, Shape, States, Timeouts, Timers, TxErrs, TxRec
  <2>2. XferInv'
    BY <1>1, <1>12 DEF Begun, Build, Builds, CallbackPCs, Ends, Filling, Gens, Goto,
       InDrain, InEvDrain, LocRec, NoTag, Numbers, PreClaim, Results, Returns, Runs,
       SeenRec, SenderPCs, Shape, States, Timeouts, Timers, TxErrs, TxRec, XferInv
  <2>3. TagInv'
    BY SMTT(60), <1>1, <1>12 DEF Begun, Build, BuildInv, Builds, Busy, CallbackPCs,
       Claims, Dead, Ends, Filling, GenInv, Gens, Goto, InDrain, InEvDrain, LocRec,
       LockInv, Locked, NoTag, Numbers, OwnerInv, PhaseInv, PreClaim, Results,
       Returns, Runs, SeenRec, SenderPCs, Shape, StateInv, States, TagInv, Timeouts,
       Timers, TxErrs, TxHrt, TxRec, WaitsForFc, XferInv
  <2>4. OwnerInv'
    BY <1>1, <1>12 DEF Build, Builds, CallbackPCs, Claims, Dead, Filling, Gens, Goto,
       InDrain, InEvDrain, NoTag, OwnerInv, PreClaim, SeenRec, SenderPCs, Shape,
       States, Timeouts, Timers
  <2>5. BuildInv'
    BY SMTT(60), <1>1, <1>12 DEF Begun, Build, BuildInv, Builds, Busy, CallbackPCs,
       Claims, Dead, Ends, Filling, GenInv, Gens, Goto, InDrain, InEvDrain, LocRec,
       LockInv, Locked, NoTag, Numbers, OwnerInv, PhaseInv, PreClaim, Results,
       Returns, Runs, SeenRec, SenderPCs, Shape, StateInv, States, Timeouts, Timers,
       TxErrs, TxHrt, TxRec, WaitsForFc, XferInv
  <2>6. PhaseInv'
    BY <1>1, <1>12 DEF Build, BuildInv, Builds, Busy, CallbackPCs, Dead, Ends,
       Filling, Gens, Goto, InDrain, InEvDrain, LockInv, Locked, NoTag, PhaseInv,
       PreClaim, SeenRec, SenderPCs, Shape, StateInv, States, Timeouts, Timers, TxHrt,
       WaitsForFc
  <2>7. WatchInv'
    BY <1>1, <1>12 DEF Build, Builds, Busy, CallbackPCs, Dead, Filling, Gens, Goto,
       InDrain, InEvDrain, NoTag, PreClaim, SeenRec, SenderPCs, Shape, States,
       Timeouts, Timers, WaitsForFc, WatchInv
  <2>8. BindInv'
    BY <1>1, <1>12 DEF BindInv, Build, CallbackPCs, Dead, Filling, Gens, Goto,
       InDrain, InEvDrain, NoTag, PreClaim, SeenRec, SenderPCs, Shape, States,
       Timeouts, Timers
  <2> QED
    BY <2>1, <2>2, <2>3, <2>4, <2>5, <2>6, <2>7, <2>8 DEF TransferInv
<1>13. ASSUME Arm(s) PROVE TransferInv'
  <2>1. pc'[s] \in {"out", "send"}
    BY <1>1, <1>13 DEF Arm, Goto, ReturnAndWake, Shape, Woken
  <2>2. \A q \in Senders : q # s =>
          \/ pc'[q] = pc[q]
          \/ pc[q] = "asleep" /\ pc'[q] = "wait"
          \/ pc[q] = "sleepdone" /\ pc'[q] = "waitdone"
    BY <1>1, <1>13, WokenStages DEF Arm, Goto, ReturnAndWake, Shape, Woken
  <2>3. pc[s] = "arm" /\ UNCHANGED <<loc, tx_gen, started>>
    BY <1>13 DEF Arm
  <2>4. \A q \in Senders : pc'[q] \notin Claims \cup Builds
    BY <1>1, <2>1, <2>2, <2>3 DEF OwnerInv, Builds, Claims, InDrain
  <2>5. GenInv'
    BY <1>1, <2>1, <2>2, <2>3 DEF GenInv, Begun, Builds, Claims, Ends, InDrain, InEvDrain, Runs
  <2>6. XferInv'
    BY <1>1, <2>1, <2>2, <2>3 DEF XferInv, Begun, Builds, Claims, Ends, InDrain, InEvDrain, Runs
  <2>7. TagInv'
    BY <1>1, <1>13 DEF Arm, Builds, CallbackPCs, Dead, Filling, Gens, Goto, InDrain,
       InEvDrain, LocRec, Numbers, PreClaim, Results, ReturnAndWake, Returns, SeenRec,
       SenderPCs, Shape, States, TagInv, Timeouts, Timers, TxErrs, TxHrt, TxRec,
       WaitsForFc, Woken, WokenRelease, hrtimer_start
  <2>8. OwnerInv'
    BY <2>4 DEF OwnerInv
  <2>9. BuildInv'
    BY <2>4 DEF BuildInv, Builds
  <2>10. PhaseInv'
    BY <1>1, <1>13 DEF Arm, BuildInv, Builds, Busy, CallbackPCs, Dead, Ends, Filling,
       Gens, Goto, InDrain, InEvDrain, LockInv, Locked, NoTag, PhaseInv, PreClaim,
       ReturnAndWake, SeenRec, SenderPCs, Shape, StateInv, States, Timeouts, Timers,
       TxHrt, WaitsForFc, Woken, WokenRelease, hrtimer_start
  <2>11. WatchInv'
    BY <1>1, <1>13 DEF Arm, BuildInv, Builds, Busy, CallbackPCs, Dead, Ends, Filling,
       Gens, Goto, InDrain, InEvDrain, LockInv, Locked, NoTag, PreClaim,
       ReturnAndWake, SeenRec, SenderPCs, Shape, StateInv, States, Timeouts, Timers,
       TxHrt, WaitsForFc, WatchInv, Woken, WokenRelease, hrtimer_start
  <2>12. BindInv'
    BY <1>1, <1>13 DEF Arm, BindInv, CallbackPCs, Dead, Filling, Gens, Goto, InDrain,
       InEvDrain, NoTag, PreClaim, ReturnAndWake, SeenRec, SenderPCs, Shape, States,
       Timeouts, Timers, TxHrt, Woken, WokenRelease, hrtimer_start
  <2> QED
    BY <2>5, <2>6, <2>7, <2>8, <2>9, <2>10, <2>11, <2>12 DEF TransferInv
<1>14. ASSUME Send(s) PROVE TransferInv'
  <2>1. PhaseInv'
    BY <1>1, <1>14 DEF Busy, Dead, Fail, Goto, NoTag, PhaseInv, Return, Send,
       Timeouts, Timers, WaitsForFc
  <2>2. GenInv'
    BY <1>1, <1>14 DEF Begun, Builds, CallbackPCs, Ends, Fail, Filling, GenInv, Gens,
       Goto, InDrain, InEvDrain, LocRec, Numbers, PreClaim, Results, Return, Returns,
       Runs, SeenRec, Send, SenderPCs, Shape, States, Timeouts, Timers, TxErrs, TxRec
  <2>3. XferInv'
    BY <1>1, <1>14 DEF Begun, Builds, CallbackPCs, Ends, Fail, Filling, Gens, Goto,
       InDrain, InEvDrain, LocRec, Numbers, PreClaim, Results, Return, Returns, Runs,
       SeenRec, Send, SenderPCs, Shape, States, Timeouts, Timers, TxErrs, TxRec,
       XferInv
  <2>4. TagInv'
    BY SMTT(60), <1>1, <1>14 DEF Begun, BuildInv, Builds, Busy, CallbackPCs, Claims,
       Dead, Ends, Fail, Filling, GenInv, Gens, Goto, InDrain, InEvDrain, LocRec,
       LockInv, Locked, NoTag, Numbers, OwnerInv, PhaseInv, PreClaim, Results, Return,
       Returns, Runs, SeenRec, Send, SenderPCs, Shape, StateInv, States, TagInv,
       Timeouts, Timers, TxErrs, TxHrt, TxRec, WaitsForFc, XferInv
  <2>5. OwnerInv'
    BY <1>1, <1>14 DEF Builds, CallbackPCs, Claims, Dead, Fail, Filling, Gens, Goto,
       InDrain, InEvDrain, OwnerInv, PreClaim, Return, SeenRec, Send, SenderPCs,
       Shape, States, Timeouts, Timers
  <2>6. BuildInv'
    BY SMTT(60), <1>1, <1>14 DEF Begun, BuildInv, Builds, Busy, CallbackPCs, Claims,
       Dead, Ends, Fail, Filling, GenInv, Gens, Goto, InDrain, InEvDrain, LocRec,
       LockInv, Locked, NoTag, Numbers, OwnerInv, PhaseInv, PreClaim, Results, Return,
       Returns, Runs, SeenRec, Send, SenderPCs, Shape, StateInv, States, Timeouts,
       Timers, TxErrs, TxHrt, TxRec, WaitsForFc, XferInv
  <2>7. WatchInv'
    BY <1>1, <1>14 DEF Builds, Busy, CallbackPCs, Dead, Fail, Filling, Gens, Goto,
       InDrain, InEvDrain, PreClaim, Return, SeenRec, Send, SenderPCs, Shape, States,
       Timeouts, Timers, WaitsForFc, WatchInv
  <2>8. BindInv'
    BY <1>1, <1>14 DEF BindInv, CallbackPCs, Dead, Fail, Filling, Gens, Goto, InDrain,
       InEvDrain, NoTag, PreClaim, Return, SeenRec, Send, SenderPCs, Shape, States,
       Timeouts, Timers
  <2> QED
    BY <2>1, <2>2, <2>3, <2>4, <2>5, <2>6, <2>7, <2>8 DEF TransferInv
<1>15. ASSUME ErrLock(s) PROVE TransferInv'
  <2>1. StillMine(s) => loc[s].xfer = started
    BY <1>1, <1>15, OwnTransfer DEF ErrLock, Begun, Runs
  <2>2. /\ pc[s] \in {"senderr", "evdrop"} /\ UNCHANGED <<loc, tx_gen, started>>
        /\ \A q \in Senders : q # s => pc'[q] = pc[q]
        /\ pc'[s] \in {"out", "cancel", "ev1"} /\ (pc'[s] # "out" => StillMine(s))
    BY <1>1, <1>15 DEF ErrLock, Goto, Return, Shape, EvDrains
  <2>3. \A q \in Senders : q # s /\ pc[q] \in Builds => pc'[s] = "out"
    BY <1>1, <2>1, <2>2 DEF GenInv, XferInv, Begun, Runs
  <2>4. PhaseInv'
    BY <1>1, <1>15 DEF Busy, Dead, ErrLock, EvDrains, Goto, NoTag, PhaseInv, Return,
       StillMine, Timeouts, Timers, WaitsForFc
  <2>5. GenInv'
    BY <1>1, <2>1, <2>2 DEF GenInv, Begun, Builds, Claims, Ends, InDrain, InEvDrain, Runs
  <2>6. XferInv'
    BY <1>1, <1>15 DEF Begun, Builds, CallbackPCs, Ends, ErrLock, EvDrains, Filling,
       Gens, Goto, InDrain, InEvDrain, LocRec, Numbers, PreClaim, Results, Return,
       Returns, Runs, SeenRec, SenderPCs, Shape, States, StillMine, Timeouts, Timers,
       TxErrs, TxRec, XferInv
  <2>7. TagInv'
    BY <1>1, <1>15 DEF Builds, CallbackPCs, Dead, ErrLock, EvDrains, Filling, Gens,
       Goto, InDrain, InEvDrain, LocRec, Numbers, PreClaim, Results, Return, Returns,
       SeenRec, SenderPCs, Shape, States, StillMine, TagInv, Timeouts, Timers, TxErrs,
       TxRec, WaitsForFc
  <2>8. OwnerInv'
    BY <1>1, <1>15 DEF Builds, CallbackPCs, Claims, Dead, ErrLock, EvDrains, Filling,
       Gens, Goto, InDrain, InEvDrain, OwnerInv, PreClaim, Return, SeenRec, SenderPCs,
       Shape, States, StillMine, Timeouts, Timers
  <2>9. BuildInv'
    BY <1>1, <1>15, <2>2, <2>3 DEF BuildInv, ErrLock, Builds, Ends, InEvDrain, TxHrt, Dead
  <2>10. WatchInv'
    BY <1>1, <1>15 DEF Builds, Busy, CallbackPCs, Dead, ErrLock, EvDrains, Filling,
       Gens, Goto, InDrain, InEvDrain, PreClaim, Return, SeenRec, SenderPCs, Shape,
       States, StillMine, Timeouts, Timers, WaitsForFc, WatchInv
  <2>11. BindInv'
    BY <1>1, <1>15 DEF BindInv, CallbackPCs, Dead, ErrLock, EvDrains, Filling, Gens,
       Goto, InDrain, InEvDrain, NoTag, PreClaim, Return, SeenRec, SenderPCs, Shape,
       States, StillMine, Timeouts, Timers
  <2> QED
    BY <2>4, <2>5, <2>6, <2>7, <2>8, <2>9, <2>10, <2>11 DEF TransferInv
<1>16. ASSUME CancelOwn(s) PROVE TransferInv'
  <2>1. GenInv'
    BY <1>1, <1>16 DEF Begun, Builds, CallbackPCs, CancelOwn, Ends, Filling, GenInv,
       Gens, Goto, InDrain, InEvDrain, LocRec, Numbers, PreClaim, Results, Returns,
       Runs, SeenRec, SenderPCs, Shape, States, Timeouts, Timers, TxErrs, TxHrt,
       TxRec, hrtimer_cancel
  <2>2. XferInv'
    BY <1>1, <1>16 DEF Begun, Builds, CallbackPCs, CancelOwn, Ends, Filling, Gens,
       Goto, InDrain, InEvDrain, LocRec, Numbers, PreClaim, Results, Returns, Runs,
       SeenRec, SenderPCs, Shape, States, Timeouts, Timers, TxErrs, TxHrt, TxRec,
       XferInv, hrtimer_cancel
  <2>3. TagInv'
    BY <1>1, <1>16 DEF Builds, CallbackPCs, CancelOwn, Dead, Filling, Gens, Goto,
       InDrain, InEvDrain, LocRec, Numbers, PreClaim, Results, Returns, SeenRec,
       SenderPCs, Shape, States, TagInv, Timeouts, Timers, TxErrs, TxHrt, TxRec,
       WaitsForFc, hrtimer_cancel
  <2>4. OwnerInv'
    BY <1>1, <1>16 DEF Builds, CallbackPCs, CancelOwn, Claims, Dead, Filling, Gens,
       Goto, InDrain, InEvDrain, OwnerInv, PreClaim, SeenRec, SenderPCs, Shape,
       States, Timeouts, Timers, TxHrt, hrtimer_cancel
  <2>5. BuildInv'
    BY <1>1, <1>16 DEF BuildInv, Builds, CallbackPCs, CancelOwn, Dead, Ends, Filling,
       Gens, Goto, InDrain, InEvDrain, NoTag, PreClaim, SeenRec, SenderPCs, Shape,
       States, Timeouts, Timers, TxHrt, hrtimer_cancel
  <2>6. PhaseInv'
    BY <1>1, <1>16 DEF Busy, CallbackPCs, CancelOwn, Dead, Filling, Gens, Goto,
       InDrain, InEvDrain, NoTag, PhaseInv, PreClaim, SeenRec, SenderPCs, Shape,
       States, Timeouts, Timers, TxHrt, WaitsForFc, hrtimer_cancel
  <2>7. WatchInv'
    BY SMTT(60), <1>1, <1>16 DEF Begun, BuildInv, Builds, Busy, CallbackPCs,
       CancelOwn, Claims, Dead, Ends, Filling, GenInv, Gens, Goto, InDrain, InEvDrain,
       LocRec, LockInv, Locked, NoTag, Numbers, OwnerInv, PhaseInv, PreClaim, Results,
       Returns, Runs, SeenRec, SenderPCs, Shape, StateInv, States, Timeouts, Timers,
       TxErrs, TxHrt, TxRec, WaitsForFc, WatchInv, XferInv, hrtimer_cancel
  <2>8. BindInv'
    BY <1>1, <1>16 DEF BindInv, CallbackPCs, CancelOwn, Dead, Filling, Gens, Goto,
       InDrain, InEvDrain, NoTag, PreClaim, SeenRec, SenderPCs, Shape, States,
       Timeouts, Timers, TxHrt, hrtimer_cancel
  <2> QED
    BY <2>1, <2>2, <2>3, <2>4, <2>5, <2>6, <2>7, <2>8 DEF TransferInv
<1>17. ASSUME DropLock(s) PROVE TransferInv'
  <2>1. PhaseInv'
    BY <1>1, <1>17 DEF Busy, Dead, DropLock, Goto, NoTag, PhaseInv, Timeouts, Timers,
       WaitsForFc
  <2>2. GenInv'
    BY <1>1, <1>17 DEF Begun, Builds, CallbackPCs, DropLock, Ends, Filling, GenInv,
       Gens, Goto, InDrain, InEvDrain, LocRec, Numbers, PreClaim, Results, Returns,
       Runs, SeenRec, SenderPCs, Shape, States, Timeouts, Timers, TxErrs, TxRec
  <2>3. XferInv'
    BY <1>1, <1>17 DEF Begun, Builds, CallbackPCs, DropLock, Ends, Filling, Gens,
       Goto, InDrain, InEvDrain, LocRec, Numbers, PreClaim, Results, Returns, Runs,
       SeenRec, SenderPCs, Shape, States, Timeouts, Timers, TxErrs, TxRec, XferInv
  <2>4. TagInv'
    BY <1>1, <1>17 DEF Builds, CallbackPCs, Dead, DropLock, Filling, Gens, Goto,
       InDrain, InEvDrain, LocRec, Numbers, PreClaim, Results, Returns, SeenRec,
       SenderPCs, Shape, States, TagInv, Timeouts, Timers, TxErrs, TxRec, WaitsForFc
  <2>5. OwnerInv'
    BY <1>1, <1>17 DEF Builds, CallbackPCs, Claims, Dead, DropLock, Filling, Gens,
       Goto, InDrain, InEvDrain, OwnerInv, PreClaim, SeenRec, SenderPCs, Shape,
       States, Timeouts, Timers
  <2>6. BuildInv'
    BY <1>1, <1>17 DEF BuildInv, Builds, CallbackPCs, Claims, Dead, DropLock, Ends,
       Filling, Gens, Goto, InDrain, InEvDrain, LockInv, Locked, NoTag, OwnerInv,
       PreClaim, SeenRec, SenderPCs, Shape, StateInv, States, Timeouts, Timers, TxHrt
  <2>7. WatchInv'
    BY <1>1, <1>17 DEF Builds, Busy, CallbackPCs, Dead, DropLock, Filling, Gens, Goto,
       InDrain, InEvDrain, PreClaim, SeenRec, SenderPCs, Shape, States, Timeouts,
       Timers, WaitsForFc, WatchInv
  <2>8. BindInv'
    BY <1>1, <1>17 DEF BindInv, CallbackPCs, Dead, DropLock, Filling, Gens, Goto,
       InDrain, InEvDrain, NoTag, PreClaim, SeenRec, SenderPCs, Shape, States,
       Timeouts, Timers
  <2> QED
    BY <2>1, <2>2, <2>3, <2>4, <2>5, <2>6, <2>7, <2>8 DEF TransferInv
<1>18. ASSUME Drop(s) PROVE TransferInv'
  <2>1. GenInv'
    BY <1>1, <1>18 DEF Begun, Builds, CallbackPCs, Drop, DropState, Ends, Filling,
       GenInv, Gens, InDrain, InEvDrain, LocRec, NoTag, Numbers, PreClaim, Results,
       ReturnAndWake, Returns, Runs, SeenRec, SenderPCs, Shape, States, Timeouts,
       Timers, TxErrs, TxRec, Woken, WokenRelease
  <2>2. XferInv'
    BY <1>1, <1>18 DEF Begun, Builds, CallbackPCs, Drop, DropState, Ends, Filling,
       Gens, InDrain, InEvDrain, LocRec, NoTag, Numbers, PreClaim, Results,
       ReturnAndWake, Returns, Runs, SeenRec, SenderPCs, Shape, States, Timeouts,
       Timers, TxErrs, TxRec, Woken, WokenRelease, XferInv
  <2>3. TagInv'
    BY <1>1, <1>18 DEF Builds, CallbackPCs, Dead, Drop, DropState, Filling, Gens,
       InDrain, InEvDrain, LocRec, NoTag, Numbers, PreClaim, Results, ReturnAndWake,
       Returns, SeenRec, SenderPCs, Shape, States, TagInv, Timeouts, Timers, TxErrs,
       TxRec, WaitsForFc, Woken, WokenRelease
  <2>4. OwnerInv'
    BY <1>1, <1>18 DEF Builds, CallbackPCs, Claims, Dead, Drop, DropState, Filling,
       Gens, InDrain, InEvDrain, NoTag, OwnerInv, PreClaim, ReturnAndWake, SeenRec,
       SenderPCs, Shape, States, Timeouts, Timers, Woken, WokenRelease
  <2>5. BuildInv'
    BY <1>1, <1>18 DEF BuildInv, Builds, CallbackPCs, Dead, Drop, DropState, Ends,
       Filling, Gens, InDrain, InEvDrain, NoTag, PreClaim, ReturnAndWake, SeenRec,
       SenderPCs, Shape, States, Timeouts, Timers, TxHrt, Woken, WokenRelease
  <2>6. PhaseInv'
    BY <1>1, <1>18 DEF BuildInv, Builds, Busy, CallbackPCs, Dead, Drop, DropState,
       Ends, Filling, Gens, InDrain, InEvDrain, LockInv, Locked, NoTag, PhaseInv,
       PreClaim, ReturnAndWake, SeenRec, SenderPCs, Shape, StateInv, States, Timeouts,
       Timers, TxHrt, WaitsForFc, Woken, WokenRelease
  <2>7. WatchInv'
    BY <1>1, <1>18 DEF Builds, Busy, CallbackPCs, Dead, Drop, DropState, Filling,
       Gens, InDrain, InEvDrain, NoTag, PreClaim, ReturnAndWake, SeenRec, SenderPCs,
       Shape, States, Timeouts, Timers, WaitsForFc, WatchInv, Woken, WokenRelease
  <2>8. BindInv'
    BY <1>1, <1>18 DEF BindInv, CallbackPCs, Dead, Drop, DropState, Filling, Gens,
       InDrain, InEvDrain, NoTag, PreClaim, ReturnAndWake, SeenRec, SenderPCs, Shape,
       States, Timeouts, Timers, Woken, WokenRelease
  <2> QED
    BY <2>1, <2>2, <2>3, <2>4, <2>5, <2>6, <2>7, <2>8 DEF TransferInv
<1>19. ASSUME WaitDone(s) PROVE TransferInv'
  <2>1. PhaseInv'
    BY <1>1, <1>19 DEF Busy, Dead, GaveUp, Goto, NoTag, PhaseInv, StillMine, Timeouts,
       Timers, WaitDone, WaitsForFc
  <2>2. GenInv'
    BY <1>1, <1>19 DEF Begun, Builds, CallbackPCs, Ends, Filling, GaveUp, GenInv,
       Gens, Goto, InDrain, InEvDrain, LocRec, Numbers, PreClaim, Results, Returns,
       Runs, SeenRec, SenderPCs, Shape, States, StillMine, Timeouts, Timers, TxErrs,
       TxRec, WaitDone
  <2>3. XferInv'
    BY <1>1, <1>19 DEF Begun, Builds, CallbackPCs, Ends, Filling, GaveUp, Gens, Goto,
       InDrain, InEvDrain, LocRec, Numbers, PreClaim, Results, Returns, Runs, SeenRec,
       SenderPCs, Shape, States, StillMine, Timeouts, Timers, TxErrs, TxRec, WaitDone,
       XferInv
  <2>4. TagInv'
    BY <1>1, <1>19 DEF Builds, CallbackPCs, Dead, Filling, GaveUp, Gens, Goto,
       InDrain, InEvDrain, LocRec, Numbers, PreClaim, Results, Returns, SeenRec,
       SenderPCs, Shape, States, StillMine, TagInv, Timeouts, Timers, TxErrs, TxRec,
       WaitDone, WaitsForFc
  <2>5. OwnerInv'
    BY <1>1, <1>19 DEF Builds, CallbackPCs, Claims, Dead, Filling, GaveUp, Gens, Goto,
       InDrain, InEvDrain, OwnerInv, PreClaim, SeenRec, SenderPCs, Shape, States,
       StillMine, Timeouts, Timers, WaitDone
  <2>6. BuildInv'
    BY <1>1, <1>19 DEF BuildInv, Builds, CallbackPCs, Dead, Ends, Filling, GaveUp,
       Gens, Goto, InDrain, InEvDrain, NoTag, PreClaim, SeenRec, SenderPCs, Shape,
       States, StillMine, Timeouts, Timers, TxHrt, WaitDone
  <2>7. WatchInv'
    BY <1>1, <1>19 DEF Builds, Busy, CallbackPCs, Dead, Filling, GaveUp, Gens, Goto,
       InDrain, InEvDrain, PreClaim, SeenRec, SenderPCs, Shape, States, StillMine,
       Timeouts, Timers, WaitDone, WaitsForFc, WatchInv
  <2>8. BindInv'
    BY <1>1, <1>19 DEF BindInv, CallbackPCs, Dead, Filling, GaveUp, Gens, Goto,
       InDrain, InEvDrain, NoTag, PreClaim, SeenRec, SenderPCs, Shape, States,
       StillMine, Timeouts, Timers, WaitDone
  <2> QED
    BY <2>1, <2>2, <2>3, <2>4, <2>5, <2>6, <2>7, <2>8 DEF TransferInv
<1>20. ASSUME WokenDone(s) PROVE TransferInv'
  <2>1. PhaseInv'
    BY <1>1, <1>20 DEF Busy, Dead, Fail, Goto, NoTag, PhaseInv, StillMine, Timeouts,
       Timers, WaitsForFc, WokenDone
  <2>2. GenInv'
    BY <1>1, <1>20 DEF Begun, Builds, CallbackPCs, Ends, Fail, Filling, GenInv, Gens,
       Goto, InDrain, InEvDrain, LocRec, Numbers, PreClaim, Results, Returns, Runs,
       SeenRec, SenderPCs, Shape, States, StillMine, Timeouts, Timers, TxErrs, TxRec,
       WokenDone
  <2>3. XferInv'
    BY <1>1, <1>20 DEF Begun, Builds, CallbackPCs, Ends, Fail, Filling, Gens, Goto,
       InDrain, InEvDrain, LocRec, Numbers, PreClaim, Results, Returns, Runs, SeenRec,
       SenderPCs, Shape, States, StillMine, Timeouts, Timers, TxErrs, TxRec,
       WokenDone, XferInv
  <2>4. TagInv'
    BY <1>1, <1>20 DEF Builds, CallbackPCs, Dead, Fail, Filling, Gens, Goto, InDrain,
       InEvDrain, LocRec, Numbers, PreClaim, Results, Returns, SeenRec, SenderPCs,
       Shape, States, StillMine, TagInv, Timeouts, Timers, TxErrs, TxRec, WaitsForFc,
       WokenDone
  <2>5. OwnerInv'
    BY <1>1, <1>20 DEF Builds, CallbackPCs, Claims, Dead, Fail, Filling, Gens, Goto,
       InDrain, InEvDrain, OwnerInv, PreClaim, SeenRec, SenderPCs, Shape, States,
       StillMine, Timeouts, Timers, WokenDone
  <2>6. BuildInv'
    BY SMTT(60), <1>1, <1>20 DEF Begun, BuildInv, Builds, Busy, CallbackPCs, Claims,
       Dead, Ends, Fail, Filling, GenInv, Gens, Goto, InDrain, InEvDrain, LocRec,
       LockInv, Locked, NoTag, Numbers, OwnerInv, PhaseInv, PreClaim, Results,
       Returns, Runs, SeenRec, SenderPCs, Shape, StateInv, States, StillMine,
       Timeouts, Timers, TxErrs, TxHrt, TxRec, WaitsForFc, WokenDone, XferInv
  <2>7. WatchInv'
    BY <1>1, <1>20 DEF Builds, Busy, CallbackPCs, Dead, Fail, Filling, Gens, Goto,
       InDrain, InEvDrain, PreClaim, SeenRec, SenderPCs, Shape, States, StillMine,
       Timeouts, Timers, WaitsForFc, WatchInv, WokenDone
  <2>8. BindInv'
    BY <1>1, <1>20 DEF BindInv, CallbackPCs, Dead, Fail, Filling, Gens, Goto, InDrain,
       InEvDrain, NoTag, PreClaim, SeenRec, SenderPCs, Shape, States, StillMine,
       Timeouts, Timers, WokenDone
  <2> QED
    BY <2>1, <2>2, <2>3, <2>4, <2>5, <2>6, <2>7, <2>8 DEF TransferInv
<1>21. ASSUME ReadResult(s) PROVE TransferInv'
  <2>1. PhaseInv'
    BY <1>1, <1>21 DEF Busy, Dead, NoTag, PhaseInv, ReadResult, Return, Slot,
       Timeouts, Timers, WaitsForFc, isotp_get_tx_result
  <2>2. GenInv'
    BY <1>1, <1>21 DEF Begun, Builds, CallbackPCs, Ends, Filling, GenInv, Gens,
       InDrain, InEvDrain, LocRec, Numbers, PreClaim, ReadResult, Results, Return,
       Returns, Runs, SeenRec, SenderPCs, Shape, Slot, States, Timeouts, Timers,
       TxErrs, TxRec, isotp_get_tx_result
  <2>3. XferInv'
    BY <1>1, <1>21 DEF Begun, Builds, CallbackPCs, Ends, Filling, Gens, InDrain,
       InEvDrain, LocRec, Numbers, PreClaim, ReadResult, Results, Return, Returns,
       Runs, SeenRec, SenderPCs, Shape, Slot, States, Timeouts, Timers, TxErrs, TxRec,
       XferInv, isotp_get_tx_result
  <2>4. TagInv'
    BY <1>1, <1>21 DEF Builds, CallbackPCs, Dead, Filling, Gens, InDrain, InEvDrain,
       LocRec, Numbers, PreClaim, ReadResult, Results, Return, Returns, SeenRec,
       SenderPCs, Shape, Slot, States, TagInv, Timeouts, Timers, TxErrs, TxRec,
       WaitsForFc, isotp_get_tx_result
  <2>5. OwnerInv'
    BY <1>1, <1>21 DEF Builds, CallbackPCs, Claims, Dead, Filling, Gens, InDrain,
       InEvDrain, OwnerInv, PreClaim, ReadResult, Return, SeenRec, SenderPCs, Shape,
       Slot, States, Timeouts, Timers, isotp_get_tx_result
  <2>6. BuildInv'
    BY <1>1, <1>21 DEF BuildInv, Builds, CallbackPCs, Dead, Ends, Filling, Gens,
       InDrain, InEvDrain, NoTag, PreClaim, ReadResult, Return, SeenRec, SenderPCs,
       Shape, Slot, States, Timeouts, Timers, TxHrt, isotp_get_tx_result
  <2>7. WatchInv'
    BY <1>1, <1>21 DEF Builds, Busy, CallbackPCs, Dead, Filling, Gens, InDrain,
       InEvDrain, PreClaim, ReadResult, Return, SeenRec, SenderPCs, Shape, Slot,
       States, Timeouts, Timers, WaitsForFc, WatchInv, isotp_get_tx_result
  <2>8. BindInv'
    BY <1>1, <1>21 DEF BindInv, CallbackPCs, Dead, Filling, Gens, InDrain, InEvDrain,
       NoTag, PreClaim, ReadResult, Return, SeenRec, SenderPCs, Shape, Slot, States,
       Timeouts, Timers, isotp_get_tx_result
  <2> QED
    BY <2>1, <2>2, <2>3, <2>4, <2>5, <2>6, <2>7, <2>8 DEF TransferInv
<1> QED
  BY <1>2, <1>3, <1>4, <1>5, <1>6, <1>7, <1>8, <1>9, <1>10, <1>11, <1>12, <1>13,
     <1>14, <1>15, <1>16, <1>17, <1>18, <1>19, <1>20, <1>21 DEF SendStep

\* Every step of the receive softirq preserves TransferInv.
LEMMA SoftirqTransfers ==
  ASSUME TypeOK, ShutdownInv, NoLapse, TransferInv,
         FcArrives \/ (\E e \in echoes : EchoArrives(e)) \/ SoftirqStep
  PROVE  TransferInv'
<1> USE DEF bindVars, sockVars, lockVars, timerVars, callVars, histVars
<1>1. Shape /\ Numbers /\ NoLapse /\ LockInv /\ StateInv /\ ReleaseInv /\ GenInv
      /\ XferInv /\ TagInv /\ OwnerInv /\ BuildInv /\ PhaseInv /\ WatchInv /\ BindInv
  BY ShapeHolds, NumbersHold DEF ShutdownInv, TransferInv
<1>2. ASSUME FcArrives PROVE TransferInv'
  <2>1. GenInv' /\ XferInv' /\ OwnerInv'
    BY <1>1, <1>2 DEF Begun, Builds, Claims, Dead, Dispatched, Ends, Enter, FcArrives,
       GenInv, InDrain, InEvDrain, OwnerInv, Runs, WaitsForFc, XferInv
  <2>2. TagInv'
    BY <1>1, <1>2 DEF Builds, CallbackPCs, Dead, Dispatched, Enter, FcArrives,
       Filling, Gens, InDrain, InEvDrain, LocRec, Numbers, PreClaim, Results, Returns,
       SeenRec, SenderPCs, Shape, States, TagInv, Timeouts, Timers, TxErrs, TxRec,
       WaitsForFc
  <2>3. BuildInv'
    BY <1>1, <1>2 DEF BuildInv, Builds, CallbackPCs, Dead, Dispatched, Ends, Enter,
       FcArrives, Filling, Gens, InDrain, InEvDrain, NoTag, PreClaim, SeenRec,
       SenderPCs, Shape, States, Timeouts, Timers, TxHrt, WaitsForFc
  <2>4. PhaseInv'
    BY <1>1, <1>2 DEF Busy, CallbackPCs, Dead, Dispatched, Enter, FcArrives, Filling,
       Gens, InDrain, InEvDrain, NoTag, PhaseInv, PreClaim, SeenRec, SenderPCs, Shape,
       States, Timeouts, Timers, WaitsForFc
  <2>5. WatchInv'
    BY <1>1, <1>2 DEF Builds, Busy, CallbackPCs, Dead, Dispatched, Enter, FcArrives,
       Filling, Gens, InDrain, InEvDrain, PreClaim, SeenRec, SenderPCs, Shape, States,
       Timeouts, Timers, WaitsForFc, WatchInv
  <2>6. BindInv'
    BY <1>1, <1>2 DEF BindInv, CallbackPCs, Dead, Dispatched, Enter, FcArrives,
       Filling, Gens, InDrain, InEvDrain, NoTag, PreClaim, SeenRec, SenderPCs, Shape,
       States, Timeouts, Timers, WaitsForFc
  <2> QED
    BY <2>1, <2>2, <2>3, <2>4, <2>5, <2>6 DEF TransferInv
<1>3. ASSUME NEW e \in echoes, EchoArrives(e) PROVE TransferInv'
  <2>1. cfecho = e => cfecho # NoTag /\ cfecho[1] # 0
    BY <1>1 DEF TagInv, NoTag, Numbers
  <2>2. hpc' = hpc \/ (hpc' = "ec_cancel" /\ cfecho = e)
    BY <1>3 DEF EchoArrives, Enter
  <2>3. \A q \in Senders : pc[q] \in Builds => cfecho # e
    BY <1>1, <2>1 DEF TagInv, BuildInv
  <2>4. GenInv' /\ XferInv' /\ OwnerInv'
    BY <1>1, <1>3 DEF Begun, Builds, Claims, Dead, Dispatched, EchoArrives, Ends,
       Enter, GenInv, InDrain, InEvDrain, OwnerInv, Runs, XferInv
  <2>5. TagInv'
    BY <1>1, <1>3 DEF Builds, CallbackPCs, Dead, Dispatched, EchoArrives, Enter,
       Filling, Gens, InDrain, InEvDrain, LocRec, Numbers, PreClaim, Results, Returns,
       SeenRec, SenderPCs, Shape, States, TagInv, Timeouts, Timers, TxErrs, TxRec,
       WaitsForFc
  <2>6. BuildInv'
    BY <1>1, <1>3, <2>2, <2>3 DEF BuildInv, EchoArrives, Dead, TxHrt, Builds, Ends
  <2>7. PhaseInv'
    BY <1>1, <1>3, <2>1, <2>2 DEF PhaseInv, EchoArrives, Dead, Dispatched, WaitsForFc
  <2>8. WatchInv'
    BY <1>1, <1>3 DEF Builds, Busy, CallbackPCs, Dead, Dispatched, EchoArrives, Enter,
       Filling, Gens, InDrain, InEvDrain, PreClaim, SeenRec, SenderPCs, Shape, States,
       Timeouts, Timers, WaitsForFc, WatchInv
  <2>9. BindInv'
    BY <1>1, <1>3, <2>1, <2>2 DEF BindInv, EchoArrives, Dead
  <2> QED
    BY <2>4, <2>5, <2>6, <2>7, <2>8, <2>9 DEF TransferInv
<1>4. ASSUME FcCancel PROVE TransferInv'
  <2>1. GenInv' /\ XferInv'
    BY <1>1, <1>4 DEF Begun, Builds, Ends, FcCancel, GenInv, InEvDrain, Leave, Runs,
       WaitsForFc, XferInv, hrtimer_cancel
  <2>2. TagInv'
    BY <1>1, <1>4 DEF Builds, CallbackPCs, Dead, FcCancel, Filling, Gens, InDrain,
       InEvDrain, Leave, LocRec, Numbers, PreClaim, Results, Returns, SeenRec,
       SenderPCs, Shape, States, TagInv, Timeouts, Timers, TxErrs, TxRec, WaitsForFc,
       hrtimer_cancel
  <2>3. OwnerInv'
    BY <1>1, <1>4 DEF Builds, CallbackPCs, Claims, Dead, FcCancel, Filling, Gens,
       InDrain, InEvDrain, Leave, OwnerInv, PreClaim, SeenRec, SenderPCs, Shape,
       States, Timeouts, Timers, WaitsForFc, hrtimer_cancel
  <2>4. BuildInv'
    BY <1>1, <1>4 DEF BuildInv, Builds, CallbackPCs, Dead, Ends, FcCancel, Filling,
       Gens, InDrain, InEvDrain, Leave, NoTag, PreClaim, SeenRec, SenderPCs, Shape,
       States, Timeouts, Timers, TxHrt, WaitsForFc, hrtimer_cancel
  <2>5. PhaseInv'
    BY <1>1, <1>4 DEF Busy, CallbackPCs, Dead, FcCancel, Filling, Gens, InDrain,
       InEvDrain, Leave, NoTag, PhaseInv, PreClaim, SeenRec, SenderPCs, Shape, States,
       Timeouts, Timers, WaitsForFc, hrtimer_cancel
  <2>6. WatchInv'
    BY <1>1, <1>4 DEF Builds, Busy, CallbackPCs, Dead, FcCancel, Filling, Gens,
       InDrain, InEvDrain, Leave, PreClaim, SeenRec, SenderPCs, Shape, States,
       Timeouts, Timers, WaitsForFc, WatchInv, hrtimer_cancel
  <2>7. BindInv'
    BY <1>1, <1>4 DEF BindInv, CallbackPCs, Dead, FcCancel, Filling, Gens, InDrain,
       InEvDrain, Leave, NoTag, PreClaim, SeenRec, SenderPCs, Shape, States, Timeouts,
       Timers, WaitsForFc, hrtimer_cancel
  <2> QED
    BY <2>1, <2>2, <2>3, <2>4, <2>5, <2>6, <2>7 DEF TransferInv
<1>5. ASSUME FcMalformed PROVE TransferInv'
  <2>1. GenInv' /\ XferInv'
    BY <1>1, <1>5 DEF Begun, Builds, Ends, FcErr, FcMalformed, GenInv, InEvDrain,
       Runs, Slot, XferInv, isotp_set_tx_result
  <2>2. TagInv'
    BY <1>1, <1>5 DEF Builds, CallbackPCs, Dead, FcErr, FcMalformed, Filling, Gens,
       InDrain, InEvDrain, LocRec, Numbers, PreClaim, Results, Returns, SeenRec,
       SenderPCs, Shape, Slot, States, TagInv, Timeouts, Timers, TxErrs, TxRec,
       WaitsForFc, isotp_set_tx_result
  <2>3. OwnerInv'
    BY <1>1, <1>5 DEF Builds, CallbackPCs, Claims, Dead, FcErr, FcMalformed, Filling,
       Gens, InDrain, InEvDrain, OwnerInv, PreClaim, SeenRec, SenderPCs, Shape, Slot,
       States, Timeouts, Timers, isotp_set_tx_result
  <2>4. BuildInv'
    BY <1>1, <1>5 DEF BuildInv, Builds, CallbackPCs, Dead, Ends, FcErr, FcMalformed,
       Filling, Gens, InDrain, InEvDrain, NoTag, PreClaim, SeenRec, SenderPCs, Shape,
       Slot, States, Timeouts, Timers, TxHrt, isotp_set_tx_result
  <2>5. PhaseInv'
    BY <1>1, <1>5 DEF Busy, CallbackPCs, Dead, FcErr, FcMalformed, Filling, Gens,
       InDrain, InEvDrain, NoTag, PhaseInv, PreClaim, SeenRec, SenderPCs, Shape, Slot,
       States, Timeouts, Timers, WaitsForFc, isotp_set_tx_result
  <2>6. WatchInv'
    BY <1>1, <1>5 DEF Builds, Busy, CallbackPCs, Dead, FcErr, FcMalformed, Filling,
       Gens, InDrain, InEvDrain, PreClaim, SeenRec, SenderPCs, Shape, Slot, States,
       Timeouts, Timers, WaitsForFc, WatchInv, isotp_set_tx_result
  <2>7. BindInv'
    BY <1>1, <1>5 DEF BindInv, CallbackPCs, Dead, FcErr, FcMalformed, Filling, Gens,
       InDrain, InEvDrain, NoTag, PreClaim, SeenRec, SenderPCs, Shape, Slot, States,
       Timeouts, Timers, isotp_set_tx_result
  <2> QED
    BY <2>1, <2>2, <2>3, <2>4, <2>5, <2>6, <2>7 DEF TransferInv
<1>6. ASSUME FcStatus PROVE TransferInv'
  <2>1. GenInv' /\ XferInv'
    BY <1>1, <1>6 DEF Begun, Builds, Ends, FcCts, FcErr, FcParms, FcRefused, FcStatus,
       FcTakesParms, FcWaits, FcWt, GenInv, InEvDrain, Leave, Runs, Slot, XferInv,
       hrtimer_start, isotp_set_tx_result
  <2>2. TagInv'
    BY ZenonT(40), <1>1, <1>6 DEF Builds, CallbackPCs, Dead, FcCts, FcErr, FcParms, FcRefused,
       FcStatus, FcTakesParms, FcWaits, FcWt, Filling, Gens, InDrain, InEvDrain,
       Leave, LocRec, Numbers, PreClaim, Results, Returns, SeenRec, SenderPCs, Shape,
       Slot, States, TagInv, Timeouts, Timers, TxErrs, TxRec, WaitsForFc,
       hrtimer_start, isotp_set_tx_result
  <2>3. OwnerInv'
    BY <1>1, <1>6 DEF BuildInv, Builds, CallbackPCs, Claims, Dead, Ends, FcCts, FcErr,
       FcParms, FcRefused, FcStatus, FcTakesParms, FcWaits, FcWt, Filling, Gens,
       InDrain, InEvDrain, Leave, LockInv, Locked, NoTag, OwnerInv, PreClaim, SeenRec,
       SenderPCs, Shape, Slot, StateInv, States, Timeouts, Timers, TxHrt,
       hrtimer_start, isotp_set_tx_result
  <2>4. BuildInv'
    BY <1>1, <1>6 DEF BuildInv, Builds, CallbackPCs, Dead, Ends, FcCts, FcErr,
       FcParms, FcRefused, FcStatus, FcTakesParms, FcWaits, FcWt, Filling, Gens,
       InDrain, InEvDrain, Leave, NoTag, PreClaim, SeenRec, SenderPCs, Shape, Slot,
       States, Timeouts, Timers, TxHrt, hrtimer_start, isotp_set_tx_result
  <2>5. PhaseInv'
    BY <1>1, <1>6 DEF Busy, CallbackPCs, Dead, FcCts, FcErr, FcParms, FcRefused,
       FcStatus, FcTakesParms, FcWaits, FcWt, Filling, Gens, InDrain, InEvDrain,
       Leave, NoTag, PhaseInv, PreClaim, SeenRec, SenderPCs, Shape, Slot, States,
       Timeouts, Timers, WaitsForFc, hrtimer_start, isotp_set_tx_result
  <2>6. WatchInv'
    BY <1>1, <1>6 DEF BuildInv, Builds, Busy, CallbackPCs, Claims, Dead, Ends, FcCts,
       FcErr, FcParms, FcRefused, FcStatus, FcTakesParms, FcWaits, FcWt, Filling,
       Gens, InDrain, InEvDrain, Leave, LockInv, Locked, NoTag, OwnerInv, PhaseInv,
       PreClaim, SeenRec, SenderPCs, Shape, Slot, StateInv, States, Timeouts, Timers,
       TxHrt, WaitsForFc, WatchInv, hrtimer_start, isotp_set_tx_result
  <2>7. BindInv'
    BY <1>1, <1>6 DEF BindInv, BuildInv, Builds, Busy, CallbackPCs, Claims, Dead,
       Ends, FcCts, FcErr, FcParms, FcRefused, FcStatus, FcTakesParms, FcWaits, FcWt,
       Filling, Gens, InDrain, InEvDrain, Leave, LockInv, Locked, NoTag, OwnerInv,
       PhaseInv, PreClaim, SeenRec, SenderPCs, Shape, Slot, StateInv, States,
       Timeouts, Timers, TxHrt, WaitsForFc, hrtimer_start, isotp_set_tx_result
  <2> QED
    BY <2>1, <2>2, <2>3, <2>4, <2>5, <2>6, <2>7 DEF TransferInv
<1>7. ASSUME Finish PROVE TransferInv'
  <2>1. GenInv'
    BY <1>1, <1>7 DEF Begun, Builds, CallbackPCs, Ends, Filling, Finish, GenInv, Gens,
       InDrain, InEvDrain, Leave, LocRec, Numbers, PreClaim, Results, Returns, Runs,
       SeenRec, SenderPCs, Shape, States, Timeouts, Timers, TxErrs, TxRec, WakeUp,
       Woken, WokenRelease
  <2>2. XferInv'
    BY <1>1, <1>7 DEF Begun, Builds, CallbackPCs, Ends, Filling, Finish, Gens,
       InDrain, InEvDrain, Leave, LocRec, Numbers, PreClaim, Results, Returns, Runs,
       SeenRec, SenderPCs, Shape, States, Timeouts, Timers, TxErrs, TxRec, WakeUp,
       Woken, WokenRelease, XferInv
  <2>3. TagInv'
    BY <1>1, <1>7 DEF Builds, CallbackPCs, Dead, Filling, Finish, Gens, InDrain,
       InEvDrain, Leave, LocRec, Numbers, PreClaim, Results, Returns, SeenRec,
       SenderPCs, Shape, States, TagInv, Timeouts, Timers, TxErrs, TxRec, WaitsForFc,
       WakeUp, Woken, WokenRelease
  <2>4. OwnerInv'
    BY <1>1, <1>7 DEF Builds, CallbackPCs, Claims, Dead, Filling, Finish, Gens,
       InDrain, InEvDrain, Leave, OwnerInv, PreClaim, SeenRec, SenderPCs, Shape,
       States, Timeouts, Timers, WakeUp, Woken, WokenRelease
  <2>5. BuildInv'
    BY <1>1, <1>7 DEF BuildInv, Builds, CallbackPCs, Dead, Ends, Filling, Finish,
       Gens, InDrain, InEvDrain, Leave, NoTag, PreClaim, SeenRec, SenderPCs, Shape,
       States, Timeouts, Timers, TxHrt, WakeUp, Woken, WokenRelease
  <2>6. PhaseInv'
    BY <1>1, <1>7 DEF Busy, CallbackPCs, Dead, Filling, Finish, Gens, InDrain,
       InEvDrain, Leave, NoTag, PhaseInv, PreClaim, SeenRec, SenderPCs, Shape, States,
       Timeouts, Timers, WaitsForFc, WakeUp, Woken, WokenRelease
  <2>7. WatchInv'
    BY <1>1, <1>7 DEF Builds, Busy, CallbackPCs, Dead, Filling, Finish, Gens, InDrain,
       InEvDrain, Leave, PreClaim, SeenRec, SenderPCs, Shape, States, Timeouts,
       Timers, WaitsForFc, WakeUp, WatchInv, Woken, WokenRelease
  <2>8. BindInv'
    BY <1>1, <1>7 DEF BindInv, CallbackPCs, Dead, Filling, Finish, Gens, InDrain,
       InEvDrain, Leave, NoTag, PreClaim, SeenRec, SenderPCs, Shape, States, Timeouts,
       Timers, WakeUp, Woken, WokenRelease
  <2> QED
    BY <2>1, <2>2, <2>3, <2>4, <2>5, <2>6, <2>7, <2>8 DEF TransferInv
<1>8. ASSUME EchoCancel PROVE TransferInv'
  <2>1. GenInv' /\ XferInv'
    BY <1>1, <1>8 DEF Begun, Builds, EchoCancel, Ends, GenInv, InEvDrain, Leave,
       NoTag, Runs, XferInv, hrtimer_cancel
  <2>2. TagInv'
    BY <1>1, <1>8 DEF Builds, CallbackPCs, Dead, EchoCancel, Filling, Gens, InDrain,
       InEvDrain, Leave, LocRec, NoTag, Numbers, PreClaim, Results, Returns, SeenRec,
       SenderPCs, Shape, States, TagInv, Timeouts, Timers, TxErrs, TxRec, WaitsForFc,
       hrtimer_cancel
  <2>3. OwnerInv'
    BY <1>1, <1>8 DEF Builds, CallbackPCs, Claims, Dead, EchoCancel, Filling, Gens,
       InDrain, InEvDrain, Leave, NoTag, OwnerInv, PreClaim, SeenRec, SenderPCs,
       Shape, States, Timeouts, Timers, hrtimer_cancel
  <2>4. BuildInv'
    BY <1>1, <1>8 DEF BuildInv, Builds, CallbackPCs, Dead, EchoCancel, Ends, Filling,
       Gens, InDrain, InEvDrain, Leave, NoTag, PreClaim, SeenRec, SenderPCs, Shape,
       States, Timeouts, Timers, TxHrt, hrtimer_cancel
  <2>5. PhaseInv'
    BY <1>1, <1>8 DEF Busy, CallbackPCs, Dead, EchoCancel, Filling, Gens, InDrain,
       InEvDrain, Leave, NoTag, PhaseInv, PreClaim, SeenRec, SenderPCs, Shape, States,
       Timeouts, Timers, WaitsForFc, hrtimer_cancel
  <2>6. WatchInv'
    BY <1>1, <1>8 DEF BuildInv, Builds, Busy, CallbackPCs, Claims, Dead, EchoCancel,
       Ends, Filling, Gens, InDrain, InEvDrain, Leave, LockInv, Locked, NoTag,
       OwnerInv, PhaseInv, PreClaim, SeenRec, SenderPCs, Shape, StateInv, States,
       Timeouts, Timers, TxHrt, WaitsForFc, WatchInv, hrtimer_cancel
  <2>7. BindInv'
    BY <1>1, <1>8 DEF BindInv, CallbackPCs, Dead, EchoCancel, Filling, Gens, InDrain,
       InEvDrain, Leave, NoTag, PreClaim, SeenRec, SenderPCs, Shape, States, Timeouts,
       Timers, hrtimer_cancel
  <2> QED
    BY <2>1, <2>2, <2>3, <2>4, <2>5, <2>6, <2>7 DEF TransferInv
<1>9. ASSUME EchoBody PROVE TransferInv'
  <2>1. GenInv' /\ XferInv'
    BY <1>1, <1>9 DEF Begun, Builds, EchoAllSent, EchoBlockEnd, EchoBody, EchoBurst,
       EchoDone, EchoGap, EchoWaitFc, Ends, GenInv, InEvDrain, Leave, Runs, Slot,
       XferInv, hrtimer_start, isotp_set_tx_result
  <2>2. TagInv'
    BY <1>1, <1>9 DEF Builds, CallbackPCs, Dead, EchoAllSent, EchoBlockEnd, EchoBody,
       EchoBurst, EchoDone, EchoGap, EchoWaitFc, Filling, Gens, InDrain, InEvDrain,
       Leave, LocRec, Numbers, PreClaim, Results, Returns, SeenRec, SenderPCs, Shape,
       Slot, States, TagInv, Timeouts, Timers, TxErrs, TxRec, WaitsForFc,
       hrtimer_start, isotp_set_tx_result
  <2>3. OwnerInv'
    BY <1>1, <1>9 DEF BuildInv, Builds, CallbackPCs, Claims, Dead, EchoAllSent,
       EchoBlockEnd, EchoBody, EchoBurst, EchoDone, EchoGap, EchoWaitFc, Ends,
       Filling, Gens, InDrain, InEvDrain, Leave, LockInv, Locked, NoTag, OwnerInv,
       PreClaim, SeenRec, SenderPCs, Shape, Slot, StateInv, States, Timeouts, Timers,
       TxHrt, hrtimer_start, isotp_set_tx_result
  <2>4. BuildInv'
    BY <1>1, <1>9 DEF BuildInv, Builds, CallbackPCs, Dead, EchoAllSent, EchoBlockEnd,
       EchoBody, EchoBurst, EchoDone, EchoGap, EchoWaitFc, Ends, Filling, Gens,
       InDrain, InEvDrain, Leave, NoTag, PreClaim, SeenRec, SenderPCs, Shape, Slot,
       States, Timeouts, Timers, TxHrt, hrtimer_start, isotp_set_tx_result
  <2>5. PhaseInv'
    BY <1>1, <1>9 DEF Busy, CallbackPCs, Dead, EchoAllSent, EchoBlockEnd, EchoBody,
       EchoBurst, EchoDone, EchoGap, EchoWaitFc, Filling, Gens, InDrain, InEvDrain,
       Leave, NoTag, PhaseInv, PreClaim, SeenRec, SenderPCs, Shape, Slot, States,
       Timeouts, Timers, WaitsForFc, hrtimer_start, isotp_set_tx_result
  <2>6. WatchInv'
    BY <1>1, <1>9 DEF BuildInv, Builds, Busy, CallbackPCs, Claims, Dead, EchoAllSent,
       EchoBlockEnd, EchoBody, EchoBurst, EchoDone, EchoGap, EchoWaitFc, Ends,
       Filling, Gens, InDrain, InEvDrain, Leave, LockInv, Locked, NoTag, OwnerInv,
       PhaseInv, PreClaim, SeenRec, SenderPCs, Shape, Slot, StateInv, States,
       Timeouts, Timers, TxHrt, WaitsForFc, WatchInv, hrtimer_start,
       isotp_set_tx_result
  <2>7. BindInv'
    BY <1>1, <1>9 DEF BindInv, BuildInv, Builds, Busy, CallbackPCs, Claims, Dead,
       EchoAllSent, EchoBlockEnd, EchoBody, EchoBurst, EchoDone, EchoGap, EchoWaitFc,
       Ends, Filling, Gens, InDrain, InEvDrain, Leave, LockInv, Locked, NoTag,
       OwnerInv, PhaseInv, PreClaim, SeenRec, SenderPCs, Shape, Slot, StateInv,
       States, Timeouts, Timers, TxHrt, WaitsForFc, hrtimer_start, isotp_set_tx_result
  <2> QED
    BY <2>1, <2>2, <2>3, <2>4, <2>5, <2>6, <2>7 DEF TransferInv
<1>10. ASSUME SoftirqFill PROVE TransferInv'
  <2>1. GenInv' /\ XferInv' /\ OwnerInv'
    BY <1>1, <1>10 DEF Begun, Builds, CframeFill, Claims, Dead, Ends, GenInv, InDrain,
       InEvDrain, Leave, OwnerInv, Runs, SoftirqFill, XferInv
  <2>2. TagInv'
    BY <1>1, <1>10 DEF Builds, CallbackPCs, CframeFill, Dead, Filling, Gens, InDrain,
       InEvDrain, Leave, LocRec, Numbers, PreClaim, Results, Returns, SeenRec,
       SenderPCs, Shape, SoftirqFill, States, TagInv, Timeouts, Timers, TxErrs, TxRec,
       WaitsForFc
  <2>3. BuildInv'
    BY <1>1, <1>10 DEF BuildInv, Builds, CallbackPCs, CframeFill, Dead, Ends, Filling,
       Gens, InDrain, InEvDrain, Leave, NoTag, PreClaim, SeenRec, SenderPCs, Shape,
       SoftirqFill, States, Timeouts, Timers, TxHrt
  <2>4. PhaseInv'
    BY <1>1, <1>10 DEF Busy, CallbackPCs, CframeFill, Dead, Filling, Gens, InDrain,
       InEvDrain, Leave, NoTag, PhaseInv, PreClaim, SeenRec, SenderPCs, Shape,
       SoftirqFill, States, Timeouts, Timers, WaitsForFc
  <2>5. WatchInv'
    BY <1>1, <1>10 DEF Builds, Busy, CallbackPCs, CframeFill, Dead, Filling, Gens,
       InDrain, InEvDrain, Leave, PreClaim, SeenRec, SenderPCs, Shape, SoftirqFill,
       States, Timeouts, Timers, WaitsForFc, WatchInv
  <2>6. BindInv'
    BY <1>1, <1>10 DEF BindInv, CallbackPCs, CframeFill, Dead, Filling, Gens, InDrain,
       InEvDrain, Leave, NoTag, PreClaim, SeenRec, SenderPCs, Shape, SoftirqFill,
       States, Timeouts, Timers
  <2> QED
    BY <2>1, <2>2, <2>3, <2>4, <2>5, <2>6 DEF TransferInv
<1>11. ASSUME SoftirqEmit PROVE TransferInv'
  <2>1. GenInv' /\ XferInv' /\ OwnerInv'
    BY <1>1, <1>11 DEF Begun, Builds, CframeEmit, Claims, Dead, Ends, GenInv, InDrain,
       InEvDrain, Leave, OwnerInv, Runs, SoftirqEmit, XferInv
  <2>2. TagInv'
    BY <1>1, <1>11 DEF BuildInv, Builds, CallbackPCs, CframeEmit, Dead, Ends, Filling,
       Gens, InDrain, InEvDrain, Leave, LocRec, LockInv, Locked, NoTag, Numbers,
       PreClaim, Results, Returns, SeenRec, SenderPCs, Shape, SoftirqEmit, StateInv,
       States, TagInv, Timeouts, Timers, TxErrs, TxHrt, TxRec, WaitsForFc
  <2>3. BuildInv'
    BY <1>1, <1>11 DEF BuildInv, Builds, CallbackPCs, CframeEmit, Dead, Ends, Filling,
       Gens, InDrain, InEvDrain, Leave, NoTag, PreClaim, SeenRec, SenderPCs, Shape,
       SoftirqEmit, States, Timeouts, Timers, TxHrt
  <2>4. PhaseInv'
    BY <1>1, <1>11 DEF Busy, CallbackPCs, CframeEmit, Dead, Filling, Gens, InDrain,
       InEvDrain, Leave, NoTag, PhaseInv, PreClaim, SeenRec, SenderPCs, Shape,
       SoftirqEmit, States, Timeouts, Timers, WaitsForFc
  <2>5. WatchInv'
    BY <1>1, <1>11 DEF Builds, Busy, CallbackPCs, CframeEmit, Dead, Filling, Gens,
       InDrain, InEvDrain, Leave, PreClaim, SeenRec, SenderPCs, Shape, SoftirqEmit,
       States, Timeouts, Timers, WaitsForFc, WatchInv
  <2>6. BindInv'
    BY <1>1, <1>11 DEF BindInv, CallbackPCs, CframeEmit, Dead, Filling, Gens, InDrain,
       InEvDrain, Leave, NoTag, PreClaim, SeenRec, SenderPCs, Shape, SoftirqEmit,
       States, Timeouts, Timers
  <2> QED
    BY <2>1, <2>2, <2>3, <2>4, <2>5, <2>6 DEF TransferInv
<1> QED
  BY <1>2, <1>3, <1>4, <1>5, <1>6, <1>7, <1>8, <1>9, <1>10, <1>11 DEF SoftirqStep

\* Every step of an hrtimer preserves TransferInv.
LEMMA TimerTransfers ==
  ASSUME TypeOK, ShutdownInv, NoLapse, TransferInv,
         \/ \E t \in Timers : Expire(t)
         \/ \E t \in Timeouts : TimeoutStep(t)
         \/ TxfrStep
  PROVE  TransferInv'
<1> USE DEF bindVars, sockVars, lockVars, timerVars, callVars, histVars
<1>1. Shape /\ Numbers /\ NoLapse /\ LockInv /\ StateInv /\ ReleaseInv /\ GenInv
      /\ XferInv /\ TagInv /\ OwnerInv /\ BuildInv /\ PhaseInv /\ WatchInv /\ BindInv
  BY ShapeHolds, NumbersHold DEF ShutdownInv, TransferInv
<1>2. ASSUME NEW t \in Timers, Expire(t) PROVE TransferInv'
  <2>1. GenInv' /\ XferInv'
    BY <1>1, <1>2 DEF Begun, Builds, Ends, Expire, GenInv, InEvDrain, Runs, Timeouts,
       XferInv
  <2>2. TagInv'
    BY <1>1, <1>2 DEF Builds, CallbackPCs, Dead, Expire, Filling, Gens, InDrain,
       InEvDrain, LocRec, Numbers, PreClaim, Results, Returns, SeenRec, SenderPCs,
       Shape, States, TagInv, Timeouts, Timers, TxErrs, TxRec, WaitsForFc
  <2>3. OwnerInv'
    BY <1>1, <1>2 DEF Builds, CallbackPCs, Claims, Dead, Expire, Filling, Gens,
       InDrain, InEvDrain, OwnerInv, PreClaim, SeenRec, SenderPCs, Shape, States,
       Timeouts, Timers
  <2>4. BuildInv'
    BY <1>1, <1>2 DEF BuildInv, Builds, CallbackPCs, Dead, Ends, Expire, Filling,
       Gens, InDrain, InEvDrain, NoTag, PreClaim, SeenRec, SenderPCs, Shape, States,
       Timeouts, Timers, TxHrt
  <2>5. PhaseInv'
    BY <1>1, <1>2 DEF Busy, CallbackPCs, Dead, Expire, Filling, Gens, InDrain,
       InEvDrain, NoTag, PhaseInv, PreClaim, SeenRec, SenderPCs, Shape, States,
       Timeouts, Timers, WaitsForFc
  <2>6. WatchInv'
    BY <1>1, <1>2 DEF Builds, Busy, CallbackPCs, Dead, Expire, Filling, Gens, InDrain,
       InEvDrain, PreClaim, SeenRec, SenderPCs, Shape, States, Timeouts, Timers,
       WaitsForFc, WatchInv
  <2>7. BindInv'
    BY <1>1, <1>2 DEF BindInv, CallbackPCs, Dead, Expire, Filling, Gens, InDrain,
       InEvDrain, NoTag, PreClaim, SeenRec, SenderPCs, Shape, States, Timeouts, Timers
  <2> QED
    BY <2>1, <2>2, <2>3, <2>4, <2>5, <2>6, <2>7 DEF TransferInv
<1>3. ASSUME NEW t \in Timeouts, TimeoutGen(t) PROVE TransferInv'
  <2>1. GenInv' /\ XferInv'
    BY <1>1, <1>3 DEF Begun, Builds, Ends, GenInv, InEvDrain, Runs, Step, TimeoutGen,
       XferInv
  <2>2. TagInv'
    BY <1>1, <1>3 DEF Builds, CallbackPCs, Dead, Filling, Gens, InDrain, InEvDrain,
       LocRec, Numbers, PreClaim, Results, Returns, SeenRec, SenderPCs, Shape, States,
       Step, TagInv, TimeoutGen, Timeouts, Timers, TxErrs, TxRec, WaitsForFc
  <2>3. OwnerInv'
    BY <1>1, <1>3 DEF Builds, CallbackPCs, Claims, Dead, Filling, Gens, InDrain,
       InEvDrain, OwnerInv, PreClaim, SeenRec, SenderPCs, Shape, States, Step,
       TimeoutGen, Timeouts, Timers
  <2>4. BuildInv'
    BY <1>1, <1>3 DEF BuildInv, Builds, CallbackPCs, Dead, Ends, Filling, Gens,
       InDrain, InEvDrain, NoTag, PreClaim, SeenRec, SenderPCs, Shape, States, Step,
       TimeoutGen, Timeouts, Timers, TxHrt
  <2>5. PhaseInv'
    BY <1>1, <1>3 DEF Busy, CallbackPCs, Dead, Filling, Gens, InDrain, InEvDrain,
       NoTag, PhaseInv, PreClaim, SeenRec, SenderPCs, Shape, States, Step, TimeoutGen,
       Timeouts, Timers, WaitsForFc
  <2>6. WatchInv'
    BY <1>1, <1>3 DEF Builds, Busy, CallbackPCs, Dead, Filling, Gens, InDrain,
       InEvDrain, PreClaim, SeenRec, SenderPCs, Shape, States, Step, TimeoutGen,
       Timeouts, Timers, WaitsForFc, WatchInv
  <2>7. BindInv'
    BY <1>1, <1>3 DEF BindInv, CallbackPCs, Dead, Filling, Gens, InDrain, InEvDrain,
       NoTag, PreClaim, SeenRec, SenderPCs, Shape, States, Step, TimeoutGen, Timeouts,
       Timers
  <2> QED
    BY <2>1, <2>2, <2>3, <2>4, <2>5, <2>6, <2>7 DEF TransferInv
<1>4. ASSUME NEW t \in Timeouts, TimeoutState(t) PROVE TransferInv'
  <2>1. GenInv' /\ XferInv'
    BY <1>1, <1>4 DEF Begun, Builds, Ends, GaveUp, GenInv, InEvDrain, Runs, Step,
       TimeoutState, XferInv
  <2>2. TagInv'
    BY <1>1, <1>4 DEF Builds, CallbackPCs, Dead, Filling, GaveUp, Gens, InDrain,
       InEvDrain, LocRec, Numbers, PreClaim, Results, Returns, SeenRec, SenderPCs,
       Shape, States, Step, TagInv, TimeoutState, Timeouts, Timers, TxErrs, TxRec,
       WaitsForFc
  <2>3. OwnerInv'
    BY <1>1, <1>4 DEF Builds, CallbackPCs, Claims, Dead, Filling, GaveUp, Gens,
       InDrain, InEvDrain, OwnerInv, PreClaim, SeenRec, SenderPCs, Shape, States,
       Step, TimeoutState, Timeouts, Timers
  <2>4. BuildInv'
    BY <1>1, <1>4 DEF BuildInv, Builds, CallbackPCs, Dead, Ends, Filling, GaveUp,
       Gens, InDrain, InEvDrain, NoTag, PreClaim, SeenRec, SenderPCs, Shape, States,
       Step, TimeoutState, Timeouts, Timers, TxHrt
  <2>5. PhaseInv'
    BY <1>1, <1>4 DEF Busy, CallbackPCs, Dead, Filling, GaveUp, Gens, InDrain,
       InEvDrain, NoTag, PhaseInv, PreClaim, SeenRec, SenderPCs, Shape, States, Step,
       TimeoutState, Timeouts, Timers, WaitsForFc
  <2>6. WatchInv'
    BY <1>1, <1>4 DEF Builds, Busy, CallbackPCs, Dead, Filling, GaveUp, Gens, InDrain,
       InEvDrain, PreClaim, SeenRec, SenderPCs, Shape, States, Step, TimeoutState,
       Timeouts, Timers, WaitsForFc, WatchInv
  <2>7. BindInv'
    BY <1>1, <1>4 DEF BindInv, CallbackPCs, Dead, Filling, GaveUp, Gens, InDrain,
       InEvDrain, NoTag, PreClaim, SeenRec, SenderPCs, Shape, States, Step,
       TimeoutState, Timeouts, Timers
  <2> QED
    BY <2>1, <2>2, <2>3, <2>4, <2>5, <2>6, <2>7 DEF TransferInv
<1>5. ASSUME NEW t \in Timeouts, TimeoutCas(t) PROVE TransferInv'
  <2>1. GenInv' /\ XferInv'
    BY <1>1, <1>5 DEF Begun, Builds, Ends, GenInv, InEvDrain, Runs, Step, TimeoutCas,
       XferInv
  <2>2. TagInv'
    BY <1>1, <1>5 DEF Builds, CallbackPCs, Dead, Filling, Gens, InDrain, InEvDrain,
       LocRec, Numbers, PreClaim, Results, Returns, SeenRec, SenderPCs, Shape, States,
       Step, TagInv, TimeoutCas, Timeouts, Timers, TxErrs, TxRec, WaitsForFc
  <2>3. OwnerInv'
    BY <1>1, <1>5 DEF Builds, CallbackPCs, Claims, Dead, Filling, Gens, InDrain,
       InEvDrain, OwnerInv, PreClaim, SeenRec, SenderPCs, Shape, States, Step,
       TimeoutCas, Timeouts, Timers
  <2>4. BuildInv'
    BY <1>1, <1>5 DEF BuildInv, Builds, CallbackPCs, Dead, Ends, Filling, Gens,
       InDrain, InEvDrain, NoTag, PreClaim, SeenRec, SenderPCs, Shape, States, Step,
       TimeoutCas, Timeouts, Timers, TxHrt
  <2>5. PhaseInv'
    BY <1>1, <1>5 DEF Busy, CallbackPCs, Dead, Filling, Gens, InDrain, InEvDrain,
       NoTag, PhaseInv, PreClaim, SeenRec, SenderPCs, Shape, States, Step, TimeoutCas,
       Timeouts, Timers, WaitsForFc
  <2>6. WatchInv'
    BY <1>1, <1>5 DEF Builds, Busy, CallbackPCs, Dead, Filling, Gens, InDrain,
       InEvDrain, PreClaim, SeenRec, SenderPCs, Shape, States, Step, TimeoutCas,
       Timeouts, Timers, WaitsForFc, WatchInv
  <2>7. BindInv'
    BY <1>1, <1>5 DEF BindInv, CallbackPCs, Dead, Filling, Gens, InDrain, InEvDrain,
       NoTag, PreClaim, SeenRec, SenderPCs, Shape, States, Step, TimeoutCas, Timeouts,
       Timers
  <2> QED
    BY <2>1, <2>2, <2>3, <2>4, <2>5, <2>6, <2>7 DEF TransferInv
<1>6. ASSUME NEW t \in Timeouts, TimeoutPost(t) PROVE TransferInv'
  <2>1. GenInv'
    BY <1>1, <1>6 DEF Begun, Builds, CallbackPCs, Ends, Filling, GenInv, Gens,
       InDrain, InEvDrain, LocRec, Numbers, PreClaim, Results, Returns, Runs, SeenRec,
       SenderPCs, Shape, Slot, States, Step, TimeoutPost, Timeouts, Timers, TxErrs,
       TxRec, WakeUp, Woken, WokenRelease, isotp_set_tx_result
  <2>2. XferInv'
    BY <1>1, <1>6 DEF Begun, Builds, CallbackPCs, Ends, Filling, Gens, InDrain,
       InEvDrain, LocRec, Numbers, PreClaim, Results, Returns, Runs, SeenRec,
       SenderPCs, Shape, Slot, States, Step, TimeoutPost, Timeouts, Timers, TxErrs,
       TxRec, WakeUp, Woken, WokenRelease, XferInv, isotp_set_tx_result
  <2>3. TagInv'
    BY <1>1, <1>6 DEF Builds, CallbackPCs, Dead, Filling, Gens, InDrain, InEvDrain,
       LocRec, Numbers, PreClaim, Results, Returns, SeenRec, SenderPCs, Shape, Slot,
       States, Step, TagInv, TimeoutPost, Timeouts, Timers, TxErrs, TxRec, WaitsForFc,
       WakeUp, Woken, WokenRelease, isotp_set_tx_result
  <2>4. OwnerInv'
    BY <1>1, <1>6 DEF Builds, CallbackPCs, Claims, Dead, Filling, Gens, InDrain,
       InEvDrain, OwnerInv, PreClaim, SeenRec, SenderPCs, Shape, Slot, States, Step,
       TimeoutPost, Timeouts, Timers, WakeUp, Woken, WokenRelease, isotp_set_tx_result
  <2>5. BuildInv'
    BY <1>1, <1>6 DEF BuildInv, Builds, CallbackPCs, Dead, Ends, Filling, Gens,
       InDrain, InEvDrain, NoTag, PreClaim, SeenRec, SenderPCs, Shape, Slot, States,
       Step, TimeoutPost, Timeouts, Timers, TxHrt, WakeUp, Woken, WokenRelease,
       isotp_set_tx_result
  <2>6. PhaseInv'
    BY <1>1, <1>6 DEF Busy, CallbackPCs, Dead, Filling, Gens, InDrain, InEvDrain,
       NoTag, PhaseInv, PreClaim, SeenRec, SenderPCs, Shape, Slot, States, Step,
       TimeoutPost, Timeouts, Timers, WaitsForFc, WakeUp, Woken, WokenRelease,
       isotp_set_tx_result
  <2>7. WatchInv'
    BY SMTT(60), <1>1, <1>6 DEF Begun, BuildInv, Builds, Busy, CallbackPCs, Claims,
       Dead, Ends, Filling, GenInv, Gens, InDrain, InEvDrain, LocRec, LockInv, Locked,
       NoTag, Numbers, OwnerInv, PhaseInv, PreClaim, Results, Returns, Runs, SeenRec,
       SenderPCs, Shape, Slot, StateInv, States, Step, TimeoutPost, Timeouts, Timers,
       TxErrs, TxHrt, TxRec, WaitsForFc, WakeUp, WatchInv, Woken, WokenRelease,
       XferInv, isotp_set_tx_result
  <2>8. BindInv'
    BY <1>1, <1>6 DEF BindInv, CallbackPCs, Dead, Filling, Gens, InDrain, InEvDrain,
       NoTag, PreClaim, SeenRec, SenderPCs, Shape, Slot, States, Step, TimeoutPost,
       Timeouts, Timers, WakeUp, Woken, WokenRelease, isotp_set_tx_result
  <2> QED
    BY <2>1, <2>2, <2>3, <2>4, <2>5, <2>6, <2>7, <2>8 DEF TransferInv
<1>7. ASSUME TxfrRearm PROVE TransferInv'
  <2>1. GenInv' /\ XferInv'
    BY <1>1, <1>7 DEF Begun, Builds, Ends, GenInv, InEvDrain, Runs, Step, TxfrRearm,
       XferInv, hrtimer_start
  <2>2. TagInv'
    BY <1>1, <1>7 DEF Builds, CallbackPCs, Dead, Filling, Gens, InDrain, InEvDrain,
       LocRec, Numbers, PreClaim, Results, Returns, SeenRec, SenderPCs, Shape, States,
       Step, TagInv, Timeouts, Timers, TxErrs, TxRec, TxfrRearm, WaitsForFc,
       hrtimer_start
  <2>3. OwnerInv'
    BY <1>1, <1>7 DEF Builds, CallbackPCs, Claims, Dead, Filling, Gens, InDrain,
       InEvDrain, OwnerInv, PreClaim, SeenRec, SenderPCs, Shape, States, Step,
       Timeouts, Timers, TxfrRearm, hrtimer_start
  <2>4. BuildInv'
    BY <1>1, <1>7 DEF BuildInv, Builds, CallbackPCs, Dead, Ends, Filling, Gens,
       InDrain, InEvDrain, NoTag, PreClaim, SeenRec, SenderPCs, Shape, States, Step,
       Timeouts, Timers, TxHrt, TxfrRearm, hrtimer_start
  <2>5. PhaseInv'
    BY <1>1, <1>7 DEF Busy, CallbackPCs, Dead, Filling, Gens, InDrain, InEvDrain,
       NoTag, PhaseInv, PreClaim, SeenRec, SenderPCs, Shape, States, Step, Timeouts,
       Timers, TxfrRearm, WaitsForFc, hrtimer_start
  <2>6. WatchInv'
    BY <1>1, <1>7 DEF Builds, Busy, CallbackPCs, Dead, Filling, Gens, InDrain,
       InEvDrain, PreClaim, SeenRec, SenderPCs, Shape, States, Step, Timeouts, Timers,
       TxfrRearm, WaitsForFc, WatchInv, hrtimer_start
  <2>7. BindInv'
    BY <1>1, <1>7 DEF BindInv, CallbackPCs, Dead, Filling, Gens, InDrain, InEvDrain,
       NoTag, PreClaim, SeenRec, SenderPCs, Shape, States, Step, Timeouts, Timers,
       TxfrRearm, hrtimer_start
  <2> QED
    BY <2>1, <2>2, <2>3, <2>4, <2>5, <2>6, <2>7 DEF TransferInv
<1>8. ASSUME TxfrCheck PROVE TransferInv'
  <2>1. GenInv' /\ XferInv'
    BY <1>1, <1>8 DEF Begun, Builds, Ends, GenInv, InEvDrain, NoTag, Runs, Step,
       TxfrCheck, XferInv
  <2>2. TagInv'
    BY <1>1, <1>8 DEF Builds, CallbackPCs, Dead, Filling, Gens, InDrain, InEvDrain,
       LocRec, NoTag, Numbers, PreClaim, Results, Returns, SeenRec, SenderPCs, Shape,
       States, Step, TagInv, Timeouts, Timers, TxErrs, TxRec, TxfrCheck, WaitsForFc
  <2>3. OwnerInv'
    BY <1>1, <1>8 DEF Builds, CallbackPCs, Claims, Dead, Filling, Gens, InDrain,
       InEvDrain, NoTag, OwnerInv, PreClaim, SeenRec, SenderPCs, Shape, States, Step,
       Timeouts, Timers, TxfrCheck
  <2>4. BuildInv'
    BY <1>1, <1>8 DEF BuildInv, Builds, CallbackPCs, Dead, Ends, Filling, Gens,
       InDrain, InEvDrain, NoTag, PreClaim, SeenRec, SenderPCs, Shape, States, Step,
       Timeouts, Timers, TxHrt, TxfrCheck
  <2>5. PhaseInv'
    BY <1>1, <1>8 DEF Busy, CallbackPCs, Dead, Filling, Gens, InDrain, InEvDrain,
       NoTag, PhaseInv, PreClaim, SeenRec, SenderPCs, Shape, States, Step, Timeouts,
       Timers, TxfrCheck, WaitsForFc
  <2>6. WatchInv'
    BY <1>1, <1>8 DEF Builds, Busy, CallbackPCs, Dead, Filling, Gens, InDrain,
       InEvDrain, NoTag, PreClaim, SeenRec, SenderPCs, Shape, States, Step, Timeouts,
       Timers, TxfrCheck, WaitsForFc, WatchInv
  <2>7. BindInv'
    BY <1>1, <1>8 DEF BindInv, CallbackPCs, Dead, Filling, Gens, InDrain, InEvDrain,
       NoTag, PreClaim, SeenRec, SenderPCs, Shape, States, Step, Timeouts, Timers,
       TxfrCheck
  <2> QED
    BY <2>1, <2>2, <2>3, <2>4, <2>5, <2>6, <2>7 DEF TransferInv
<1>9. ASSUME TxfrFill PROVE TransferInv'
  <2>1. GenInv' /\ XferInv'
    BY <1>1, <1>9 DEF Begun, Builds, CframeFill, Ends, GenInv, InEvDrain, Runs, Step,
       TxfrFill, XferInv
  <2>2. TagInv'
    BY <1>1, <1>9 DEF Builds, CallbackPCs, CframeFill, Dead, Filling, Gens, InDrain,
       InEvDrain, LocRec, Numbers, PreClaim, Results, Returns, SeenRec, SenderPCs,
       Shape, States, Step, TagInv, Timeouts, Timers, TxErrs, TxRec, TxfrFill,
       WaitsForFc
  <2>3. OwnerInv'
    BY <1>1, <1>9 DEF Builds, CallbackPCs, CframeFill, Claims, Dead, Filling, Gens,
       InDrain, InEvDrain, OwnerInv, PreClaim, SeenRec, SenderPCs, Shape, States,
       Step, Timeouts, Timers, TxfrFill
  <2>4. BuildInv'
    BY <1>1, <1>9 DEF BuildInv, Builds, CallbackPCs, CframeFill, Dead, Ends, Filling,
       Gens, InDrain, InEvDrain, NoTag, PreClaim, SeenRec, SenderPCs, Shape, States,
       Step, Timeouts, Timers, TxHrt, TxfrFill
  <2>5. PhaseInv'
    BY <1>1, <1>9 DEF Busy, CallbackPCs, CframeFill, Dead, Filling, Gens, InDrain,
       InEvDrain, NoTag, PhaseInv, PreClaim, SeenRec, SenderPCs, Shape, States, Step,
       Timeouts, Timers, TxfrFill, WaitsForFc
  <2>6. WatchInv'
    BY <1>1, <1>9 DEF Builds, Busy, CallbackPCs, CframeFill, Dead, Filling, Gens,
       InDrain, InEvDrain, PreClaim, SeenRec, SenderPCs, Shape, States, Step,
       Timeouts, Timers, TxfrFill, WaitsForFc, WatchInv
  <2>7. BindInv'
    BY <1>1, <1>9 DEF BindInv, CallbackPCs, CframeFill, Dead, Filling, Gens, InDrain,
       InEvDrain, NoTag, PreClaim, SeenRec, SenderPCs, Shape, States, Step, Timeouts,
       Timers, TxfrFill
  <2> QED
    BY <2>1, <2>2, <2>3, <2>4, <2>5, <2>6, <2>7 DEF TransferInv
<1>10. ASSUME TxfrEmit PROVE TransferInv'
  <2>1. GenInv' /\ XferInv'
    BY <1>1, <1>10 DEF Begun, Builds, CframeEmit, Ends, GenInv, InEvDrain, Runs, Step,
       TxfrEmit, XferInv
  <2>2. TagInv'
    BY <1>1, <1>10 DEF BuildInv, Builds, Busy, CallbackPCs, CframeEmit, Claims, Dead,
       Ends, Filling, Gens, InDrain, InEvDrain, LocRec, LockInv, Locked, NoTag,
       Numbers, OwnerInv, PhaseInv, PreClaim, Results, Returns, SeenRec, SenderPCs,
       Shape, StateInv, States, Step, TagInv, Timeouts, Timers, TxErrs, TxHrt, TxRec,
       TxfrEmit, WaitsForFc
  <2>3. OwnerInv'
    BY <1>1, <1>10 DEF Builds, CallbackPCs, CframeEmit, Claims, Dead, Filling, Gens,
       InDrain, InEvDrain, OwnerInv, PreClaim, SeenRec, SenderPCs, Shape, States,
       Step, Timeouts, Timers, TxfrEmit
  <2>4. BuildInv'
    BY <1>1, <1>10 DEF BuildInv, Builds, CallbackPCs, CframeEmit, Dead, Ends, Filling,
       Gens, InDrain, InEvDrain, NoTag, PreClaim, SeenRec, SenderPCs, Shape, States,
       Step, Timeouts, Timers, TxHrt, TxfrEmit
  <2>5. PhaseInv'
    BY <1>1, <1>10 DEF Busy, CallbackPCs, CframeEmit, Dead, Filling, Gens, InDrain,
       InEvDrain, NoTag, PhaseInv, PreClaim, SeenRec, SenderPCs, Shape, States, Step,
       Timeouts, Timers, TxfrEmit, WaitsForFc
  <2>6. WatchInv'
    BY <1>1, <1>10 DEF Builds, Busy, CallbackPCs, CframeEmit, Dead, Filling, Gens,
       InDrain, InEvDrain, PreClaim, SeenRec, SenderPCs, Shape, States, Step,
       Timeouts, Timers, TxfrEmit, WaitsForFc, WatchInv
  <2>7. BindInv'
    BY <1>1, <1>10 DEF BindInv, CallbackPCs, CframeEmit, Dead, Filling, Gens, InDrain,
       InEvDrain, NoTag, PreClaim, SeenRec, SenderPCs, Shape, States, Step, Timeouts,
       Timers, TxfrEmit
  <2> QED
    BY <2>1, <2>2, <2>3, <2>4, <2>5, <2>6, <2>7 DEF TransferInv
<1> QED
  BY <1>2, <1>3, <1>4, <1>5, <1>6, <1>7, <1>8, <1>9, <1>10 DEF TimeoutStep, TxfrStep

\* Every step of bind(), release() and the notifier preserves TransferInv.
LEMMA LifecycleTransfers ==
  ASSUME TypeOK, ShutdownInv, NoLapse, TransferInv,
         \/ BindCheck \/ BindRegister \/ NetdevUnregister \/ NetdevDown \/ GracePeriodEnds
         \/ SockError \/ Close \/ ReleaseInterrupted \/ ReleaseNext
  PROVE  TransferInv'
<1> USE DEF bindVars, sockVars, lockVars, timerVars, callVars, histVars
<1>1. Shape /\ Numbers /\ NoLapse /\ LockInv /\ StateInv /\ ReleaseInv /\ GenInv
      /\ XferInv /\ TagInv /\ OwnerInv /\ BuildInv /\ PhaseInv /\ WatchInv /\ BindInv
  BY ShapeHolds, NumbersHold DEF ShutdownInv, TransferInv
<1>2. ASSUME BindCheck PROVE TransferInv'
  <2>1. GenInv' /\ XferInv' /\ TagInv' /\ OwnerInv' /\ BuildInv' /\ PhaseInv' /\ WatchInv'
    BY <1>1, <1>2 DEF Begun, BindCheck, BuildInv, Builds, Busy, Claims, Dead, Ends,
       GenInv, InDrain, InEvDrain, NoTag, OwnerInv, PhaseInv, Runs, TagInv, Timeouts,
       Timers, TxHrt, WaitsForFc, WatchInv, XferInv
  <2>2. BindInv'
    BY <1>1, <1>2 DEF BindCheck, BindInv, BuildInv, Builds, CallbackPCs, Dead, Ends,
       Filling, Gens, InDrain, InEvDrain, LockInv, Locked, NoTag, PreClaim, SeenRec,
       SenderPCs, Shape, StateInv, States, Timeouts, Timers, TxHrt
  <2> QED
    BY <2>1, <2>2 DEF TransferInv
<1>3. ASSUME BindRegister PROVE TransferInv'
  <2>1. GenInv' /\ XferInv' /\ TagInv' /\ OwnerInv' /\ WatchInv'
    BY <1>1, <1>3 DEF Begun, BindRegister, Builds, Busy, Claims, Dead, Ends, GenInv,
       InDrain, InEvDrain, NoTag, OwnerInv, Runs, TagInv, Timeouts, Timers,
       WaitsForFc, WatchInv, XferInv
  <2>2. BuildInv'
    BY <1>1, <1>3 DEF BindRegister, BuildInv, Builds, CallbackPCs, Dead, Ends,
       Filling, Gens, InDrain, InEvDrain, NoTag, PreClaim, SeenRec, SenderPCs, Shape,
       States, Timeouts, Timers, TxHrt
  <2>3. PhaseInv'
    BY <1>1, <1>3 DEF BindRegister, Busy, CallbackPCs, Dead, Filling, Gens, InDrain,
       InEvDrain, NoTag, PhaseInv, PreClaim, SeenRec, SenderPCs, Shape, States,
       Timeouts, Timers, WaitsForFc
  <2>4. BindInv'
    BY <1>1, <1>3 DEF BindInv, BindRegister, CallbackPCs, Dead, Filling, Gens,
       InDrain, InEvDrain, NoTag, PreClaim, SeenRec, SenderPCs, Shape, States,
       Timeouts, Timers
  <2> QED
    BY <2>1, <2>2, <2>3, <2>4 DEF TransferInv
<1>4. ASSUME NetdevUnregister PROVE TransferInv'
  <2>1. GenInv' /\ XferInv' /\ TagInv' /\ OwnerInv' /\ BuildInv' /\ PhaseInv' /\ WatchInv'
    BY <1>1, <1>4 DEF Begun, BuildInv, Builds, Busy, Claims, Dead, Ends, GenInv,
       InDrain, InEvDrain, NetdevUnregister, NoTag, Notified, OwnerInv, PhaseInv,
       Runs, TagInv, Timeouts, Timers, TxHrt, Unbind, WaitsForFc, WatchInv, XferInv
  <2>2. BindInv'
    BY <1>1, <1>4 DEF BindInv, CallbackPCs, Dead, Filling, Gens, InDrain, InEvDrain,
       NetdevUnregister, NoTag, Notified, PreClaim, SeenRec, SenderPCs, Shape, States,
       Timeouts, Timers, Unbind
  <2> QED
    BY <2>1, <2>2 DEF TransferInv
<1>5. ASSUME NetdevDown PROVE TransferInv'
    BY <1>1, <1>5 DEF Begun, BindInv, BuildInv, Builds, Busy, Claims, Dead, Ends,
       GenInv, InDrain, InEvDrain, NetdevDown, NoTag, Notified, OwnerInv, PhaseInv,
       Runs, TagInv, Timeouts, Timers, TransferInv, TxHrt, WaitsForFc, WatchInv,
       XferInv
<1>6. ASSUME GracePeriodEnds PROVE TransferInv'
    BY <1>1, <1>6 DEF Begun, BindInv, BuildInv, Builds, Busy, Claims, Dead, Ends,
       GenInv, GracePeriodEnds, InDrain, InEvDrain, NoTag, OwnerInv, PhaseInv, Runs,
       TagInv, Timeouts, Timers, TransferInv, TxHrt, WaitsForFc, WatchInv, XferInv
<1>7. ASSUME SockError PROVE TransferInv'
    BY <1>1, <1>7 DEF Begun, BindInv, BuildInv, Builds, Busy, Claims, Dead, Ends,
       GenInv, InDrain, InEvDrain, NoTag, OwnerInv, PhaseInv, Runs, SockError, TagInv,
       Timeouts, Timers, TransferInv, TxHrt, WaitsForFc, WatchInv, XferInv
<1>8. ASSUME Close PROVE TransferInv'
  <2>1. GenInv' /\ XferInv' /\ TagInv' /\ OwnerInv' /\ BuildInv' /\ PhaseInv' /\ WatchInv'
    BY <1>1, <1>8 DEF Begun, BuildInv, Builds, Busy, Claims, Close, Dead, Ends,
       GenInv, InDrain, InEvDrain, NoTag, OwnerInv, PhaseInv, ReleaseStep, Runs,
       TagInv, Timeouts, Timers, TxHrt, WaitsForFc, WatchInv, XferInv
  <2>2. BindInv'
    BY <1>1, <1>8 DEF BindInv, CallbackPCs, Close, Dead, Filling, Gens, InDrain,
       InEvDrain, NoTag, PreClaim, ReleaseStep, SeenRec, SenderPCs, Shape, States,
       Timeouts, Timers
  <2> QED
    BY <2>1, <2>2 DEF TransferInv
<1>9. ASSUME ReleaseInterrupted PROVE TransferInv'
  <2>1. GenInv' /\ XferInv' /\ TagInv' /\ OwnerInv' /\ BuildInv' /\ PhaseInv' /\ WatchInv'
    BY <1>1, <1>9 DEF Begun, BuildInv, Builds, Busy, Claims, Dead, Ends, GenInv,
       InDrain, InEvDrain, NoTag, OwnerInv, PhaseInv, ReleaseInterrupted, ReleaseStep,
       Runs, TagInv, Timeouts, Timers, TxHrt, WaitsForFc, WatchInv, XferInv
  <2>2. BindInv'
    BY <1>1, <1>9 DEF BindInv, CallbackPCs, Dead, Filling, Gens, InDrain, InEvDrain,
       NoTag, PreClaim, ReleaseInterrupted, ReleaseStep, SeenRec, SenderPCs, Shape,
       States, Timeouts, Timers
  <2> QED
    BY <2>1, <2>2 DEF TransferInv
<1>10. ASSUME ReleaseWait PROVE TransferInv'
  <2>1. GenInv' /\ XferInv' /\ TagInv' /\ OwnerInv' /\ BuildInv' /\ PhaseInv' /\ WatchInv'
    BY <1>1, <1>10 DEF Begun, BuildInv, Builds, Busy, Claims, Dead, Ends, GenInv,
       InDrain, InEvDrain, NoTag, OwnerInv, PhaseInv, ReleaseStep, ReleaseWait, Runs,
       TagInv, Timeouts, Timers, TxHrt, WaitsForFc, WatchInv, XferInv
  <2>2. BindInv'
    BY <1>1, <1>10 DEF BindInv, CallbackPCs, Dead, Filling, Gens, InDrain, InEvDrain,
       NoTag, PreClaim, ReleaseStep, ReleaseWait, SeenRec, SenderPCs, Shape, States,
       Timeouts, Timers
  <2> QED
    BY <2>1, <2>2 DEF TransferInv
<1>11. ASSUME ReleaseShutdown PROVE TransferInv'
  <2>1. GenInv'
    BY <1>1, <1>11 DEF Begun, Builds, CallbackPCs, Ends, Filling, GenInv, Gens,
       InDrain, InEvDrain, LocRec, Numbers, PreClaim, ReleaseShutdown, ReleaseStep,
       Results, Returns, Runs, SeenRec, SenderPCs, Shape, States, Timeouts, Timers,
       TxErrs, TxRec, Woken
  <2>2. XferInv'
    BY <1>1, <1>11 DEF Begun, Builds, CallbackPCs, Ends, Filling, Gens, InDrain,
       InEvDrain, LocRec, Numbers, PreClaim, ReleaseShutdown, ReleaseStep, Results,
       Returns, Runs, SeenRec, SenderPCs, Shape, States, Timeouts, Timers, TxErrs,
       TxRec, Woken, XferInv
  <2>3. TagInv'
    BY <1>1, <1>11 DEF Builds, CallbackPCs, Dead, Filling, Gens, InDrain, InEvDrain,
       LocRec, Numbers, PreClaim, ReleaseShutdown, ReleaseStep, Results, Returns,
       SeenRec, SenderPCs, Shape, States, TagInv, Timeouts, Timers, TxErrs, TxRec,
       WaitsForFc, Woken
  <2>4. OwnerInv'
    BY <1>1, <1>11 DEF Builds, CallbackPCs, Claims, Dead, Filling, Gens, InDrain,
       InEvDrain, OwnerInv, PreClaim, ReleaseShutdown, ReleaseStep, SeenRec,
       SenderPCs, Shape, States, Timeouts, Timers, Woken
  <2>5. BuildInv'
    BY <1>1, <1>11 DEF BuildInv, Builds, CallbackPCs, Dead, Ends, Filling, Gens,
       InDrain, InEvDrain, NoTag, PreClaim, ReleaseShutdown, ReleaseStep, SeenRec,
       SenderPCs, Shape, States, Timeouts, Timers, TxHrt, Woken
  <2>6. PhaseInv'
    BY <1>1, <1>11 DEF BuildInv, Builds, Busy, CallbackPCs, Dead, Ends, Filling, Gens,
       InDrain, InEvDrain, LockInv, Locked, NoTag, PhaseInv, PreClaim,
       ReleaseShutdown, ReleaseStep, SeenRec, SenderPCs, Shape, StateInv, States,
       Timeouts, Timers, TxHrt, WaitsForFc, Woken
  <2>7. WatchInv'
    BY <1>1, <1>11 DEF Builds, Busy, CallbackPCs, Dead, Filling, Gens, InDrain,
       InEvDrain, PreClaim, ReleaseShutdown, ReleaseStep, SeenRec, SenderPCs, Shape,
       States, Timeouts, Timers, WaitsForFc, WatchInv, Woken
  <2>8. BindInv'
    BY <1>1, <1>11 DEF BindInv, CallbackPCs, Dead, Filling, Gens, InDrain, InEvDrain,
       NoTag, PreClaim, ReleaseShutdown, ReleaseStep, SeenRec, SenderPCs, Shape,
       States, Timeouts, Timers, Woken
  <2> QED
    BY <2>1, <2>2, <2>3, <2>4, <2>5, <2>6, <2>7, <2>8 DEF TransferInv
<1>12. ASSUME ReleaseUnregister PROVE TransferInv'
  <2>1. GenInv' /\ XferInv' /\ TagInv' /\ OwnerInv' /\ BuildInv' /\ PhaseInv' /\ WatchInv'
    BY <1>1, <1>12 DEF Begun, BuildInv, Builds, Busy, Claims, Dead, Ends, GenInv,
       InDrain, InEvDrain, NoTag, OwnerInv, PhaseInv, ReleaseStep, ReleaseUnregister,
       Runs, TagInv, Timeouts, Timers, TxHrt, Unbind, WaitsForFc, WatchInv, XferInv
  <2>2. BindInv'
    BY <1>1, <1>12 DEF BindInv, CallbackPCs, Dead, Filling, Gens, InDrain, InEvDrain,
       NoTag, PreClaim, ReleaseStep, ReleaseUnregister, SeenRec, SenderPCs, Shape,
       States, Timeouts, Timers, Unbind
  <2> QED
    BY <2>1, <2>2 DEF TransferInv
<1>13. ASSUME ReleaseSync PROVE TransferInv'
  <2>1. GenInv' /\ XferInv' /\ TagInv' /\ OwnerInv' /\ BuildInv' /\ PhaseInv' /\ WatchInv'
    BY <1>1, <1>13 DEF Begun, BuildInv, Builds, Busy, Claims, Dead, Drains, Ends,
       GenInv, InDrain, InEvDrain, NoTag, OwnerInv, PhaseInv, ReleaseStep,
       ReleaseSync, Runs, TagInv, Timeouts, Timers, TxHrt, WaitsForFc, WatchInv,
       XferInv
  <2>2. BindInv'
    BY <1>1, <1>13 DEF BindInv, CallbackPCs, Dead, Drains, Filling, Gens, InDrain,
       InEvDrain, NoTag, PreClaim, ReleaseStep, ReleaseSync, SeenRec, SenderPCs,
       Shape, States, Timeouts, Timers
  <2> QED
    BY <2>1, <2>2 DEF TransferInv
<1>14. ASSUME ReleaseDrain PROVE TransferInv'
  <2>1. tx_state' = "SHUTDOWN"
    BY <1>1, <1>14 DEF ReleaseInv, ReleaseDrain, ReleaseStep, Drains
  <2>2. GenInv' /\ XferInv'
    BY <1>1, <1>14 DEF Begun, Builds, DrainOrder, Drains, Ends, GenInv, InEvDrain,
       ReleaseDrain, ReleaseStep, Runs, XferInv, hrtimer_cancel
  <2>3. TagInv'
    BY <1>1, <1>14 DEF Builds, CallbackPCs, Dead, DrainOrder, Drains, Filling, Gens,
       InDrain, InEvDrain, LocRec, Numbers, PreClaim, ReleaseDrain, ReleaseStep,
       Results, Returns, SeenRec, SenderPCs, Shape, States, TagInv, Timeouts, Timers,
       TxErrs, TxRec, WaitsForFc, hrtimer_cancel
  <2>4. OwnerInv'
    BY <1>1, <1>14 DEF Builds, CallbackPCs, Claims, Dead, DrainOrder, Drains, Filling,
       Gens, InDrain, InEvDrain, OwnerInv, PreClaim, ReleaseDrain, ReleaseStep,
       SeenRec, SenderPCs, Shape, States, Timeouts, Timers, hrtimer_cancel
  <2>5. BuildInv'
    BY <1>1, <1>14 DEF BuildInv, Builds, CallbackPCs, Dead, DrainOrder, Drains, Ends,
       Filling, Gens, InDrain, InEvDrain, NoTag, PreClaim, ReleaseDrain, ReleaseStep,
       SeenRec, SenderPCs, Shape, States, Timeouts, Timers, TxHrt, hrtimer_cancel
  <2>6. PhaseInv'
    BY <1>1, <1>14 DEF Busy, CallbackPCs, Dead, DrainOrder, Drains, Filling, Gens,
       InDrain, InEvDrain, NoTag, PhaseInv, PreClaim, ReleaseDrain, ReleaseStep,
       SeenRec, SenderPCs, Shape, States, Timeouts, Timers, WaitsForFc, hrtimer_cancel
  <2>7. WatchInv'
    BY <2>1 DEF WatchInv, WaitsForFc, Busy
  <2>8. BindInv'
    BY <1>1, <1>14 DEF BindInv, CallbackPCs, Dead, DrainOrder, Drains, Filling, Gens,
       InDrain, InEvDrain, NoTag, PreClaim, ReleaseDrain, ReleaseStep, SeenRec,
       SenderPCs, Shape, States, Timeouts, Timers, hrtimer_cancel
  <2> QED
    BY <2>2, <2>3, <2>4, <2>5, <2>6, <2>7, <2>8 DEF TransferInv
<1> QED
  BY <1>2, <1>3, <1>4, <1>5, <1>6, <1>7, <1>8, <1>9, <1>10, <1>11, <1>12, <1>13, <1>14
     DEF ReleaseNext

\* A new socket satisfies TransferInv.
LEMMA TransferInit == Init => TransferInv
<1> SUFFICES ASSUME Init PROVE TransferInv
  OBVIOUS
<1>1. GenInv /\ XferInv /\ OwnerInv /\ BuildInv
  BY DEF Init, GenInv, XferInv, OwnerInv, BuildInv, Begun, Builds, Claims, Ends, Runs,
     InDrain, InEvDrain
<1>2. TagInv /\ PhaseInv /\ WatchInv /\ BindInv
  BY DEF Init, TagInv, PhaseInv, WatchInv, BindInv, Dead, Timers, Timeouts, Busy,
     WaitsForFc
<1> QED
  BY <1>1, <1>2 DEF TransferInv

\* TransferInv is inductive relative to TypeOK, ShutdownInv and NoLapse.
LEMMA TransferStep ==
  TypeOK /\ ShutdownInv /\ NoLapse /\ TransferInv /\ [Next]_vars => TransferInv'
<1> SUFFICES ASSUME TypeOK, ShutdownInv, NoLapse, TransferInv, [Next]_vars
             PROVE  TransferInv'
  OBVIOUS
<1>1. CASE Next
  BY <1>1, SenderTransfers, SoftirqTransfers, TimerTransfers, LifecycleTransfers DEF Next
<1>2. CASE UNCHANGED vars
  <2> USE <1>2 DEF vars, bindVars, sockVars, lockVars, timerVars, callVars, histVars
  <2>1. GenInv' /\ XferInv' /\ TagInv' /\ OwnerInv'
    BY DEF TransferInv, GenInv, XferInv, TagInv, OwnerInv, Dead
  <2>2. BuildInv' /\ PhaseInv' /\ WatchInv' /\ BindInv'
    BY DEF TransferInv, BuildInv, PhaseInv, WatchInv, BindInv, Dead, TxHrt
  <2> QED
    BY <2>1, <2>2 DEF TransferInv
<1> QED
  BY <1>1, <1>2

-----------------------------------------------------------------------------
(* The properties. *)

\* Who is at work on the transfer in each state, and which timer will end it:
\* the callers, the softirq, the timers and release() of isotp.c keep to it.
THEOREM TransferInvariant == Spec /\ []NoLapse => []TransferInv
<1>1. Init => TransferInv
  BY TransferInit
<1>2. TypeOK /\ ShutdownInv /\ NoLapse /\ TransferInv /\ [Next]_vars => TransferInv'
  BY TransferStep
<1> QED
  BY <1>1, <1>2, TypeCorrect, ShutdownInvariant, PTL DEF Spec

\* The three hrtimer_cancel() calls of isotp_sendmsg() leave no timer or
\* callback of an earlier transfer that could end the new one.
THEOREM ClaimIsDrained == Spec /\ []NoLapse => []ClaimDrained
<1>1. TransferInv => ClaimDrained
  BY DEF TransferInv, OwnerInv, BuildInv, ClaimDrained, Unsent, Builds, Claims, InDrain,
     Dead, Timers, Timeouts
<1> QED
  BY <1>1, TransferInvariant, PTL

\* isotp_sendmsg(), isotp_rcv_echo() and isotp_txfr_timer_handler() never fill
\* so->tx at the same time, although only tx.state and the drain part them.
THEOREM OneTxUser == Spec /\ []NoLapse => []TxBufferExclusive
<1>1. TypeOK /\ ShutdownInv /\ TransferInv => TxBufferExclusive
  <2> SUFFICES ASSUME TypeOK, ShutdownInv, TransferInv PROVE TxBufferExclusive
    OBVIOUS
  <2>1. OwnerInv /\ BuildInv /\ PhaseInv /\ LockInv /\ StateInv
    BY DEF TransferInv, ShutdownInv
  <2> QED
    BY <2>1 DEF TxBufferExclusive, TxUsers, OwnerInv, BuildInv, PhaseInv, LockInv, StateInv, Claims,
       Builds, InDrain, Dead, Locked, Timers
<1> QED
  BY <1>1, TypeCorrect, ShutdownInvariant, TransferInvariant, PTL

\* Between any two steps of the transmit path a transfer in progress has a timer
\* that will end it, or a context at work on it.
THEOREM AlwaysWatched == Spec /\ []NoLapse => []Watched
<1>1. TransferInv => Watched
  BY DEF TransferInv, WatchInv, Watched, AtWork, Busy, WaitsForFc, Builds, Locked,
     Unsent, InEvDrain, Dead, Timers, Timeouts
<1> QED
  BY <1>1, TransferInvariant, PTL

\* isotp_bind() clears so->cfecho without so->rx_lock, never while a transfer
\* in progress waits for that echo.
THEOREM BindIsSafe == Spec /\ []NoLapse => []BindKeepsTag
<1>1. TransferInv => BindKeepsTag
  BY DEF TransferInv, BindInv, BindKeepsTag
<1> QED
  BY <1>1, TransferInvariant, PTL

=============================================================================
