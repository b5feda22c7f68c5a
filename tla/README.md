# Verification of the CAN protocols of Linux (net/can)

TLA+ models of the CAN protocol code in `src/net/can`, the TLC runs that check
them, and theorems about them checked by TLAPS. Each definition that stands for
code has an entry in `PROJECT.json` ("map") with the lines it stands for.

## 1. The system

`net/can` is the socket layer of CAN: frames of 8 (CAN), 64 (CAN FD) or 2048
(CAN XL) bytes, broadcast to all nodes of a bus, sent and received by sockets of
several protocols.

| Component | Code | State it keeps | Operations |
|---|---|---|---|
| CAN core | `af_can.c` | per device receiver lists (`can_dev_rcv_lists`), statistics | `can_rx_register/unregister`, `can_send` (with local echo), `can_receive` |
| ISO-TP | `isotp.c` | per socket: `tx`, `rx` (state, buffer, index), `cfecho`, `tx_gen` and result slots, three hrtimers, `bound`, `ifindex` | `bind`, `sendmsg`, `recvmsg`, `release`, reception of SF/FF/CF/FC, echoes, timers, notifier |
| J1939 addresses | `j1939/bus.c`, `j1939/address-claim.c` | per device: ECUs with references, `ents[]` (address to ECU, users), claim timers | claims in and out, lookups, `j1939_local_ecu_get/put`, unmapping |
| J1939 device | `j1939/main.c` | `priv`, `kref`, `rx_kref` | `j1939_netdev_start/stop`, `j1939_can_recv`, `j1939_send_one`, notifier |
| J1939 transport | `j1939/transport.c` | sessions: state, packet counters, `last_cmd`, two hrtimers, a list per device | (E)TP messages in both directions, timers, aborts |
| J1939 sockets | `j1939/socket.c` | per socket: queue of sessions, pending buffers, filters, error queue | `bind`, `connect`, `sendmsg`, `recvmsg`, `release` |
| BCM | `bcm.c` | per socket: lists of cyclic tx and filter rx operations with two hrtimers each | TX_SETUP/DELETE/READ/SEND, RX_SETUP/DELETE/READ, timers, reception |
| Raw | `raw.c` | per socket: filters, options, a per CPU record of the last frame | `bind`, `setsockopt`, `sendmsg`, reception, notifier |
| Gateway | `gw.c` | list of routing jobs | add, remove, `can_can_gw_rcv`, checksums |
| Statistics | `proc.c` | counters | a timer, /proc output |

Components meet in these ways. A socket registers a callback with the CAN core
(`can_rx_register`); frames reach the callback in the receive softirq, under
`rcu_read_lock`, until a grace period after `can_rx_unregister`. A socket sends
with `can_send`; with `loop` set the driver echoes the frame back, and ISO-TP
and the J1939 transport act on the echo of their own frames. Timers (hrtimer,
softirq mode) run beside receptions and system calls on other processors.
Device events come from the notifier chain. Within ISO-TP the same socket state
is shared by senders, receptions, three timers, `bind`, `release` and the
notifier; only part of it is under `so->rx_lock`.

**What is hard.** ISO-TP: senders claim `tx.state` by `cmpxchg` with no lock
held while callbacks of the previous PDU may still run; a caller that waits reads
its result after other transfers have started; `release` must stop six kinds
of activity in the right order; a timer that is cancelled must be started again
on each path. J1939 addresses: references are held by the table, timers,
handlers, sockets and callers; a timer is cancelled under a lock that its
handler takes. J1939 transport: two timers and the reception share counters
with locks on some paths only. CAN core: receivers are unlinked while receptions
stand on them, and freed after a grace period; raw sockets replace filters one
by one while frames are delivered, and each registration may fail. BCM: an
operation is changed while its timers run, and deleted while a reception starts
them. Gateway: jobs and their modifications are replaced under their callbacks,
and jobs may form loops. The list with lines is `PROJECT.json` "hazards".

**What makes each component correct.** ISO-TP sender: transfers do not overlap,
each ends with one verdict, which its own caller gets; no frame is sent twice;
the socket is quiet after `release`. ISO-TP receiver: no byte outside the
buffer; what is delivered is what was sent; a reception in progress is watched.
J1939 addresses: one ECU per address, at the address it claimed last, of the
lowest NAME that claims it; exact reference and user counts; `priv` goes away
with its users. J1939 transport: a session ends, its socket's queue goes on.
CAN core: a receiver gets each frame its filter matches once, and nothing of it
is used after it is freed. Raw: a socket gets a frame once; its registrations are
those of its options, also after a call that failed. BCM: a cyclic operation goes
on until its count is used up and counts its frames within their number, a change
of content is reported now or by the throttle timer, nothing runs for an operation
that is freed. Gateway: a frame is not routed more often than its first job
allows, and what is removed is not used.

## 2. Modules

| Module | Models |
|---|---|
| `IsotpTx` | the transmit path of one ISO-TP socket, all contexts interleaved at the accesses that race |
| `IsotpTxAbs` | what it promises: transfers one at a time, each ended once, with a verdict |
| `IsotpTxProofs` | proofs: types, what holds once `release()` has begun, who works in which state of a transfer |
| `IsotpTxFrameProofs` | proofs, on `IsotpTxProofs`: frames and flow control, `IsotpTx` implements `IsotpTxAbs`, the verdict each caller reads |
| `IsotpRx` | the receive path of one ISO-TP socket |
| `IsotpRxProofs` | proofs about `IsotpRx` |
| `IsotpCodec` | frame formats: PCI, lengths, padding, as functions |
| `IsotpLink` | a sender, a receiver and a bus, frame by frame, on `IsotpCodec` |
| `J1939Claim` | ECUs, address table, claims and sockets of one J1939 device |
| `J1939ClaimProofs` | proofs about `J1939Claim` |
| `J1939Transfer` | messages of one J1939 socket: its queue, and the sessions of both nodes over a bus that may lose frames |
| `J1939TransferProofs` | proofs about `J1939Transfer`, for any messages: types, frames, references |
| `J1939MessageProofs` | proofs, on `J1939TransferProofs`: what arrives is what was sent |
| `CanRx` | receiver lists: filters, registration, receptions that walk them, grace periods, `can_send()` |
| `Raw` | CAN_RAW sockets on `CanRx`, with the notifier's walk over all sockets |
| `Gw` | routing jobs of the gateway on `CanRx` |
| `Bcm` | one cyclic transmission and one content filter of a broadcast manager socket on `CanRx` |
| `CanStack` | the four together: their users, the bus, and the softirqs that receive |
| `CanStackProofs` | proofs about `CanStack`: lists, raw sockets, gateway |
| `CanSocketProofs` | proofs, on `CanStackProofs`: which receiver and which raw socket gets a frame; the broadcast manager |
| `MC...` | values of constants for TLC |

### IsotpTx

A step is a stretch of code with at most one access that races with another
context. `pc`, `loc` per caller of `sendmsg()`, `hpc` for the receive softirq,
`cb` per timer handler, `rpc` for `release()`, `bpc` for `bind()`; a device event is
one step; names of program counters follow the code's blocks. `tx` is `so->tx` but
for its state (index, block counters, gap); `tx_state`, the result slots, `tx_gen`,
`cfecho` and the timers that are queued (`armed`) are variables of their own. A PDU is its
number of frames, not its bytes; `Frames` says which PDUs each caller sends. An echo
may come as soon as `can_send()` has taken the frame (`echoes`), a flow
control of the peer at any time, with what `Flows` lets it ask for; how many come
has no bound. `env` names the surroundings of a behaviour (`Envs`): the number of
transfers, at most `MaxXfer`, signals, faults, device events, `release()`.
`histVars` (who sent what, which transfer ended how) are read by properties only.
Memory is sequentially consistent: `READ_ONCE`, `smp_*` and `cmpxchg` order the
racing accesses in the code. `-ENODEV` stands for `-ENETDOWN` too.

### IsotpRx

One step is one critical section of `isotp_rcv()` under `so->rx_lock`, split
around the parts that run unlocked: the timer handler, flow control frames and
their skb allocation, `recvmsg()`. A frame is a record of its type and of the
relations of its lengths the code tests; `MCIsotpRx` enumerates them. `env` names
the surroundings of a behaviour (`Envs`): which options, frames, device events and
failures there are, and whether the peer keeps to the format.

### IsotpCodec, IsotpLink

`IsotpCodec` writes a frame as runs of bytes of a PDU (`from`, `num`), the size
of its PCI and its padding; the parser is the code's, with its tests in their
order. `IsotpLink` sends PDUs of each size up to 130 over each combination of
options, PDUs of 4 kB over those without padding at `LL_DL` 8 and 64, and PDUs
with losses. An answer of the receiver comes in time (before
the sender's timer for the next PDU) and after the local echo of the frame it
answers; frames lost in the driver, dropped in half duplex or by
`CAN_ISOTP_FORCE_RXSTMIN`, are lost frames.

### J1939Claim

`priv.ecu[n]` is the ECU of NAME `n` (at most one is in `priv->ecus`), `priv.ents`
the address table. One step is one critical section of `priv->lock`;
`j1939_ac_process()` is cut where `hrtimer_cancel()` waits, with the lock held
(`lock`). The two puts outside the lock, of a lookup in `j1939_ac_recv()` and of a
claim that is sent in `j1939_ac_fixup()`, are cut after the count reaches zero: the
ECU is `dead` and still in the list until it is taken off, unlocked. `j1939_ac_fixup()`
is cut further where it compares `ecu->addr` without the lock (`fix`). Who uses
`priv->ecus` while an ECU is `dead` races with that unlocked `list_del()` and
`kfree()`, which has no defined outcome: `raced` becomes true and the behaviour ends.
`filter` is the life of `priv` as receptions see it. `mode`
says which machine it is: one processor, where a softirq runs to its end, or
several (`smp`); whether frames other than claims come in (`lookups`) and whether the
sockets send claims (`sends`). One softirq receives; a socket that binds again after
it gave the device back counts as another socket.

### J1939Transfer

Two nodes, the originator `o` with one sending socket and the responder `r`. A
session is a record per node and message (`se`): `st` is `session->state` (with
`none` and `freed` before and after its life), `cmd` and `txcmd` are `last_cmd`
and `last_txcmd` (`DAT` for 0xff), `tx`, `last`, `acked`, `rx`, `dpo` the packet
counters, `txt` and `rxt` its timers, `refs` the references the timers hold,
`err` and `buf`. `queue` is `sk_session_queue`. A step is one handler, from its
first to its last statement: the tx timer with all the frames it sends, the rx
timer, one frame received. Handlers are functions from a view of their session
to a new one, called as the code calls them, and `Finish` writes the view back,
lets the socket's queue go on and frees a session with no reference left. Every
node receives all frames in the order of the bus, its own as echoes. A packet is
its message and its number. `mode` says what is sent and what may go wrong:
frames lost, users that go away, a device that goes down, and whether timeouts
outlast what is under way (`timely`), as the protocol's 250 to 1250 ms do, or
may come at any time. A device comes to rest before `NETDEV_DOWN` is notified.
Handlers run one after the other, as softirqs of one processor do; on several, the
tx timer's handler may run beside a reception, and nothing is said of that here.
Addresses are used, no NAMEs. The bus and the device are external.

### CanRx

An identifier, or a mask, is the set of its bits. `rcv` holds the receivers by
slot, those in a list linked by `nxt`; `walk[c]` is the reception on processor `c`:
the lists still to come (`todo`), the receiver it stands on (`at`), whether its
callback runs (`call`). A walk takes one step per receiver, and goes on from an
unlinked one; what is unlinked remembers the walks of that moment (`gp`, `waits`)
and is freed when the last of them has ended, the earliest moment RCU allows.
`refs` are the references to sockets. Registration and unregistration are one step
each (`rcvlists_lock`). `hits` and `start` are history. A frame sent with `loop` set
joins `backlog` and comes in later, on any processor.

### Raw

All that changes filters holds the rtnl: `rtnl` is that call, with the
registrations it has still to do (`todo`) and those it would have to undo (`done`),
one a step, receptions in between. `ro` is `struct raw_sock`; `uniq` the per
processor record of the frame seen last, cleared when a reception ends, since its
identifiers are unique (`can_set_skb_uid()`). The notifier's cursor, and
`raw_release()` that waits for it, take several steps. A device that was
unregistered may come back as a new one of its name. Frames while filters change
are bounded by `RawCalls`: calls begun during one reception.

### Gw

`job` and `cf_mod` are memory: "on", waiting for a grace period, or free. A
callback takes two steps, before and after it has read `gwj->cf_mod` (`using`). A
request is one step, since the rtnl excludes the others and callbacks do not read
the list of jobs; `cgw_remove_all_jobs()` and the notifier take one step per job.
A job takes Classic frames or FD frames (`fd`). `times` and `limit` of a frame are
history: how often it was routed, and what its first job allows.

### Bcm

Requests of the user (`req`, `bpc`), the handlers of the three timers (`cb`) and
`bcm_rx_handler()` (`bh`) are cut at every field the others read: intervals, flags,
count and index, `kt_lastmsg`, the timers. `hrtimer_cancel()` waits for the handler,
`hrtimer_active()` counts it. An interval is zero or not; `kt_lastmsg` is zero,
inside the throttle period or older. `up_mode` says which machine it is, as `mode`
in `J1939Claim`: on one processor softirqs do not interleave with each other or
with the user. The device goes away once, in one step with the notifier.

### CanStack

A behaviour takes place in one scene, a record that says which part is in use, what
comes in from the bus, which processors receive it and what its users may do; the
other parts stay as initialised. So one module and one run hold the filters, the lists under two
receptions, raw sockets, jobs and operations, each with bounds of its own.

## 3. Runs

| Run | Question | Bounds |
|---|---|---|
| `tx_callers` | own verdict, implements `IsotpTxAbs` | 2 callers, 2 PDUs of 1 or 2 frames, 1 result slot, signals, failing sends |
| `tx_transfers` | timers drained, `so->tx` exclusive, watchdog, no frame twice; `release`, `bind` and device events | 1 caller, 2 PDUs of up to 3 frames, or one with all events; block sizes 0 and 1, gaps, wait frames, overridden flow controls |
| `tx_live` | all transfers, calls and `release` end, under fairness | 2 callers, a PDU of 3 frames and one of 1, gaps, block size 1, wait frames; or one PDU and `release` |
| `rx` | any frame, any order, against `release`, `bind` and device events; and, as another environment, a peer that keeps to the format, whose receptions end | few frame shapes, block sizes 0 and 1 |
| `rx_watch_length` | **violated**: a CF of a wrong length leaves no watchdog | |
| `link` | what arrives is what was sent, nothing is missing, also with losses nothing is mixed | all options with sizes to 130, plain options with sizes around 4095 and `max_pdu_size`; three PDUs with losses |
| `claim` | counts, references, address table | 2 NAMEs, 2 addresses, 2 sockets, several processors, lookups, claims sent |
| `claim_timer` | **violated**: deadlock of a cancel with its handler | 1 socket |
| `claim_leak` | **violated**: a late timer keeps `priv` | 1 socket |
| `tp` | what arrives is whole and comes once, order and acknowledgements are true, references, every message is reported | two messages of any types, blocks of 2, device queue of 2, one disturbance each |
| `tp_down` | **violated**: a message sent while the device is down is never reported | the same pairs |
| `can` | delivery, lifetimes, raw filters, hop limits, jobs, BCM timers | scenes, below |

The scenes of `can`: for each of 10 masks, every filter of 20 identifiers against
every frame of 12 identifiers, on a device's list and on the one for all devices; a list of up
to three alike receivers that changes under two receptions, and lists of receivers of
two kinds, three under one reception and two under two; a raw socket that replaces its
two filters under its own and other frames, with and without
`CAN_RAW_JOIN_FILTERS`; one whose error mask comes and goes while allocations fail;
two sockets that bind, unbind and close under the notifier; two jobs in a loop, the
first with a limit, `max_hops` 3, and frames of a kind the jobs do not take; a cyclic
transmission of two frames and four requests that change it; a content filter with four requests, two contents and a
frame of a wrong type.

Why the bounds are enough (`can`): a mask matters only by the parts it leaves open
(the eleven bits of a standard identifier, the rest, the two flags), and the
identifiers have a bit in each; removing the first, middle and last of three
receivers are the ways to unlink one under a walk (of alike receivers
`can_rx_unregister()` takes the first, of two kinds any can be the one); a socket with two filters is the
smallest that a frame may reach twice; two jobs are the smallest loop, which
`max_hops` 3 lets turn more than once; count 2 and two frames let index and count
run out at different times.

Why the bounds are enough (the others): two callers make each race between a sender and
another one, and a third adds no kind of step; three frames make a first frame,
a block and a last frame that differ, with block size 1 two flow controls;
`GenMod` is above the number of transfers, as 2^24 is above what a caller sleeps
through; result slots are fewer than transfers, so that slots are reused.
Wait frames are not counted by the code and have no bound in the runs; `tx_live` has
the case of a caller asleep behind another's PDU (`isotp.c:1130`). One machine, the
one with several processors, lookups and claims sent, does whatever the others do. Two
NAMEs and two addresses give each order of claims, moves and kicks; the third
party of an arbitration behaves as one of the two. Sizes in `link`
are those at which the code's tests change (SF with and without extended
addressing, `CAN_DL` 8 and more, 4095, the buffer, `max_pdu_size`). Three packets
and blocks of two make a first and a last block that differ; a device queue of
two fills in the middle of DPO and DATs; two messages are a queue that goes on,
in some scripts of the same type so that frames of one could reach the other.

**Fairness** (`FairSpec`). A thread that can step does; softirqs and timer
handlers that started go on (they are not preempted for ever); an armed timer
fires; the driver echoes or drops a frame. Strong fairness is used where a step
waits for a lock others take again and again. `J1939Transfer` assumes less: as
long as a frame, a timer or an event is pending, one of them is handled. Of the peer of
`IsotpTx` one thing is assumed: that it stops sending wait frames (`PeerStopsWaiting`),
since `isotp_rcv_fc()` starts `txtimer` anew for each (`isotp.c:499-503`) and counts
none, so that a transfer, its caller, those asleep behind it and `release()` can
be held up for ever; without it TLC finds that loop in `tx_live`. Nothing is
assumed of user space or of signals.

**Findings.** Four runs show the code breaking what its comments say:
`rx_watch_length` (`isotp.c:650`), `claim_timer` (`address-claim.c:215`),
`claim_leak` (`main.c:217`) and `tp_down` (`transport.c:1195`).

**Limits found** in the J1939 transport, each with its condition in a property.
`Intact` and `RefsExact` can fail as soon as two messages of a type follow each
other, since TP frames name no session: with timeouts that do not outlast what is
under way, frames of the first are taken for the second's, and a late one makes
`j1939_xtp_rx_dat_one()` start a timer that is queued, with a second reference;
`Intact` also in time, after one frame was lost and the device has gone down.
Section 4 proves that this is the only way: both hold as long as no frame is taken
by another message's session (`Unmixed`). For two messages of one type (packets 3
and 2, blocks and device queue of 2) TLC finds `Unmixed` to hold when timers are in time and
one frame is lost, users go away or both; and broken when the device goes down, for broadcasts
when two frames are lost, and for three messages over a device queue of one.
`AckSound` has the order of
messages: a device that goes down, or an early timer, ends a session whose packets
are still received, and what follows may overtake it. It also needs a responder that
does not give up with its EOMA on the bus. A responder that has lost one DPO is left
without a timer by the second DAT that follows (`transport.c:1966`) and lives on the
originator's abort (`PeerEnds`). An originator does not notice the responder's abort
(`transport.c:2115`) and runs into its timeout (`Reported`).

In the J1939 addresses `UsersCounted`, `RefsExact` and `EcuAlive` are about behaviours
in which nobody has used `priv->ecus` while an ECU left it without `priv->lock`, and
ask nothing afterwards (`~raced`). The code has that race. On several processors: a
lookup holds the last reference after the device went down, its put reaches zero, and a
socket that binds the NAME takes the ECU from the list before `list_del()`
(`address-claim.c:260`). Where claims are sent also on one: `sendmsg()` puts the last
reference (`address-claim.c:100`), and a softirq receives a claim before the ECU has
left the list. `RaceFree` (section 4) says where it does not occur. `~raced` as an
invariant of `claim` shows a trace.

**Stated and not run**, since the code breaks them in known ways and a hazard
records each: `ShortCfIsLast` (`IsotpRx`), `IgnoredInForce` and `LowestMapped`
(`J1939Claim`). Add one to a configuration as an invariant to see a trace. Also not
run is `NeverRaced` (`J1939Claim`), which asks nothing of the machine of `claim`: it is
proved (`RaceFree`).

## 4. Proofs

All theorems are about every value of the constants: any number of callers,
NAMEs, addresses, sockets, frames and transfers. Each of the parts below has one
inductive invariant, a conjunction of named parts; the properties the runs check
follow from it in a few lines. TLC checked the invariants on small instances.

**Transmit path** (`IsotpTxProofs`, `IsotpTxFrameProofs`).
Four invariants, each relative to those before:

1. `ShutdownInv`: who holds `so->rx_lock`, what its holder knows of `tx.state`,
   which writers can still be on their way once `release()` has set
   `ISOTP_SHUTDOWN`, and what each stage of `release()` has excluded. Six writers
   set `tx.state`, so `ShutdownFinal` is not inductive; `ReleaseQuiescent` is the
   last stage.
2. `TransferInv`: for each value of `tx.state`, which of the callers, the softirq
   and the timers may be at work. The claim by `cmpxchg` excludes other callers
   only; that it excludes the callbacks of the previous PDU follows from the three
   `hrtimer_cancel()` of the claim, and that these are enough from who may start a
   timer in which state. `ClaimDrained`, `TxBufferExclusive`, `Watched` and
   `BindKeepsTag` follow; none of them is inductive without the others.
3. `FlowInv`: the frames not yet sent, the position in `so->tx`, the frame that is
   filled but not sent, the echo tag and the verdict fit together. A first frame
   may be echoed, answered and followed by others before its sender has
   returned from `can_send()`, so the frame in its hands is counted apart
   (`First`). `NoFrameTwice` follows, and `ImplementsAbs`: each step is a step of
   `IsotpTxAbs` or a stutter.
4. `ResultInv`: what a caller would read in its result slot at each stage of its
   call. `ResultSound` and `ResultComplete` follow.

2 to 4 have the hypothesis `NoLapse`: no caller sleeps through `GenMod` transfers.
It is needed: `tx_gen` has 24 bits, and a caller that slept through 2^24 transfers
would take the last one for its own. `LapseFree` shows that up to `GenMod`
transfers it holds of every behaviour, and `WithinOneWrap` states the properties
without it there. The assumptions are on kinds of numbers (`TxAssumption`) and
that the number of generations is a multiple of the number of slots
(`TxSizeAssumption`; both are powers of two, `isotp.c:134`); without it two
transfers in a row could share a slot where the generation wraps.

**Receive path** (`IsotpRxProofs`). `RxInv` ties the frame at hand to the place in
`isotp_rcv()`, keeps the watchdog off behind each `hrtimer_cancel()`, follows the
index into the buffer and records what each stage of `release()` has excluded.
`TimeoutExclusive`, `NoOverrun` and `RxReleaseQuiescent` follow, for any frames in
any order with any allocation failing. `NoOverrun` needs that a first frame left
room, by the length tests before it is copied. `RxAssumption` says that a frame is
not longer than the buffer inside the socket (8300 and 64 bytes). `RegularIsWatched`
is what is left of `RxWatched`, which `rx_watch_length` violates: with a peer that
keeps to the frame lengths and a socket that sends flow controls (in listen mode no
watchdog is started with a first frame), a reception that waits is watched.

**J1939 addresses** (`J1939ClaimProofs`). `Consistent(p, H, U, V)` says what `priv`
must be when ECU `n` has `H[n]` holders besides the table and `U[n]` users, and
`V[a]` sockets are bound to address `a`. One lemma per operator of `bus.c` says how
it changes these numbers (`PutKeeps`, `MapKeeps`, ...), a critical section is a
composition of them, and `ClaimInv` ties the numbers to the sockets, timers, claims
and lookups there are, on any machine. `UsersCounted`, `RefsExact` and `EcuAlive` follow.
All of it is about behaviours up to the first use of `priv->ecus` while an ECU leaves
it without the lock (`raced`): a `dead` ECU has no holder but the one who takes it
off, so as long as nobody else finds it in the list the numbers stay right, and
there is no rule for what happens when somebody does. `RaceFree` says where nobody does: without claims sent and, on several
processors, without lookups; there the three hold of every state. `LowerNameStays` is
an action property and holds on any machine.

**J1939 transport** (`J1939TransferProofs`, `J1939MessageProofs`). Two invariants, for
any script of messages of any length, any block size, queue of the device, number of
lost frames and number of retries, with timers in time or not.

- `BaseInv`, without a hypothesis: types; each frame under way is one its sender
  may send for that message (a DAT holds one of its packets); at the originator only
  the first session of the queue has begun; the references of a session are those of
  its queued timers, at the responder that many at least (`RefsSuffice`).
- `MessageInv`: where a message is (`Message`). Either the session is not yet or no
  longer in use, or the responder is about to ask for packets, or its CTS is under
  way, or the packets are (`Block1`), or its EOMA is. `None(q, F)` and
  `Behind(q, F, G)` say of a queue which frames are in it and in which order. The
  packets under way are all of the block that the last CTS asked for, and begin
  where the last DPO says, so what `j1939_xtp_rx_dat_one()` stores at
  `pkt.dpo` and a sequence number is the packet that belongs there; the responder
  has stored as many as it counts (`pkt.rx`), so an EOMA means all of them.

`IntactHolds` follows, and `RefsHold`: a tx timer is started by a DAT only when
the last one of the block comes, and then none is queued. `RefsHold` is about
handlers one after the other, as the module has them: on several processors
`j1939_tp_set_rxtimeout()` may run in two of them at once (section 5). Frames are not delivered
twice by the bus, which the proof uses: each `CTS` is handled once.

The three have the hypothesis `Unmixed`: no CTS, DPO, DAT or EOMA is taken by the
session of another message. It is a condition on behaviours, and needed: a session
is found by addresses and type (`j1939_session_get_by_addr()`), so a late frame of
one message can reach the session of the next of its type, and TLC finds behaviours
that then violate each (section 3, limits, which also says for which pairs of one
type it holds). `TypesUnmixed` shows that a socket with one message of each type
meets it, whatever is lost, closed or early; there is no other hypothesis. What
`Intact` and `RefsExact` say of two messages of a type, timers in time and one
disturbance, is model-checked (`tp`).

**The CAN stack** (`CanStackProofs`). `StackInv` is proved for the four users of
the lists together, since each is called by the core and changes its lists:

- `CoreInv`: `ListInv` says that the receivers in a list form chains without a loop
  (`Acyclic`: every nonempty set of receivers has one that no other of the set links to), and that an unlinked one leads
  back into a list or to one that is kept at least as long; `WalkInv` that each walk
  stands on a receiver that is registered or waits for it. `ListsSound` and
  `WalksOnMemory` follow: `can_rx_unregister()` leaves the link of what it takes out,
  and `call_rcu()` keeps what the link leads to. Neither alone is inductive.
- `RawCtl`: which call holds the rtnl, for which socket and in which stage of
  `raw_release()`; the notifier's cursor is in its list. `NotifierIsSafe` follows,
  because `raw_release()` waits while the cursor is on its socket.
- `GwInv`: the list of jobs, the filter of each, who still needs a removed job or
  modification. `JobsAlive` and `JobsAreListed` follow: a callback has the old or
  the new modification, and both outlive it.
- `HopsInv`: hops are counted from `max_hops - limit` on. `HopsAreLimited` follows,
  for chains and loops of any jobs.
- `scene \in Scenes`: what a part's users hand in has its type
  (`StackAssumption`).

Each user's step is one of four kinds for the core (`ActsFor`: nothing, a
registration, an unregistration, the end of a callback) and leaves the receivers of
other owners alone (`OthersStay`); with these two lemmas each part is proved apart.

`CountInv` counts. `Num(k, y)` is the number of receivers of raw socket `k` with
device, list, identifier and mask `y`. While a call holds the rtnl, these and the
registrations still to do equal what its new fields ask for and the unregistrations
still to do; as long as it registers, they also equal what the old fields ask for
and what it would have to undo. So whatever step of `bind()` or `setsockopt()`
fails, the numbers come out right (`FiltersRegistered`), and each unregistration
finds its receiver. A socket has a reference of its own until `raw_release()` ends
and one for each receiver that waits to be freed; a released one has no receiver
left in a list. `CallbacksAlive` follows. `FiltersRegistered` speaks of keys of
receivers, since two filters may come to one entry of a list (the standard format
masks the upper bits), and then either receiver is taken for the other.

**Delivery** (`CanSocketProofs`, on `StackInv` and `CountInv`). `DeliveryInv` adds
what the lists are in which order and how far each walk has come:

- `OrderInv`: a receiver is in the list that `can_rcv_list_find()` chose for its
  filter, links stay in one list, each list has one head, and also with the unlinked
  receivers there is no loop (`Straight`). What is behind a receiver (`Ahead`) is
  what every set closed under the links holds that has its successor, since
  reachability by recursion is out of reach.
- `PathInv`: what a walk has called (`hits`) matches its frame, is called once and
  lies behind it; what matches, has been registered since the start and is not called
  yet is still to come (`ToCome`): in front of the receiver the walk stands on, also
  when that one is unlinked, or in a list the walk has not begun.

`DeliveryIsExact` follows with the lemmas on identifiers (`SortedAlike` and those
before it): for each kind of filter, the list and the reduced filter that
`can_rcv_list_find()` gives, met by the list walked for an identifier and the test
done there, say what the filter said as it was handed in.

`TallyInv` ties what `raw_rcv()` keeps per processor to the number of callbacks of
this walk that have ended (`Got`): without `CAN_RAW_JOIN_FILTERS` the socket has the
frame once as soon as there is one, with it once for each callback from the
`count`-th on (`Late`). When the walk has ended and the socket was left alone, `Got`
is the number of its receivers for the keys of the frame, by `CountInv` the number of
its filters that match; so it is all of them exactly when each matches, and
`RawIsDelivered` follows. `RawIsRegistered` is `CountInv` put in terms of filters.

`DeliveryIsExact` and `RawIsDelivered` have the hypothesis `WellFormed`: a frame or a
filter without `CAN_EFF_FLAG` has an identifier of eleven bits. It is needed:
`can_rcv_list_find()` drops bits 11 to 28 of a filter for standard frames, so one
that asks for a bit there would match frames it does not describe. TLC evaluates
it for the filters of the run.

**Broadcast manager** (`CanSocketProofs`, on `StackInv`). `BcmInv` has the types, the
cyclic transmission (`TxInv`: between requests an operation with STARTTIMER and
something to send has its timer, or a handler that starts it; the index is below the
number of frames), the stages of a request (`RxCtlInv`), the one receiver of the
content filter and what must outlive it (`RxFilterInv`), the timers that were
cancelled for good (`RxTimerInv`), what one processor excludes (`UpInv`) and who will
report a throttled content (`ThrottleInv`). `TxIndexInRange`, `TxRuns`,
`OperationsQuiet` and `ThrottlingWatched` follow. `BcmAssumption` has the operation
bound to a device, and requests with at least one frame, as `bcm_tx_setup()` demands
(`bcm.c:941`).

**Assumptions.** Each is an `ASSUME` of the module that declares the constants, and
TLC evaluates it in the runs: constants are sets and numbers of the right kind,
kinds of owners and of memory are apart, memory for receivers is finite, the
broadcast manager's socket is not a raw one. None bounds the size of an instance.

**Only model-checked**: liveness (`TransferEnds`, `WaitersReturn`, `ReceptionEnds`,
`Reported` and the others of a `FairSpec`), which the provers cannot do; `IsotpLink`
(`Intact`, `AllDelivered`) and the frame formats, whose content is what a codec
computes for each length, an induction over data; of `J1939Transfer`, `AckSound` (that
messages come in order and what is acknowledged arrives, which needs how long each
timer waits) and `NothingFails`, both about timers in time, and what is said of two
messages of one type. Of `can` and of the transmit path every invariant is proved.

## 5. Not modelled

Socket options and `poll` of ISO-TP (no protocol state; options are constants);
what happens between the statements of a handler of `J1939Transfer`, where on several
processors the tx timer's handler runs beside a reception: the locks they take, and
`j1939_tp_set_rxtimeout()`, whose cancel, get and start (`transport.c:712`) may both
take a reference for one timer; two J1939 sockets that send to
one address, malformed (E)TP frames; the cursor of the notifier lists of ISO-TP
and BCM (`Raw` has the same code); module load and unload; and the components that `PROJECT.json` lists as not modelled.
Of the raw sockets: `sk_err`, `recvmsg`, options that no lock protects changing
while frames are delivered, the filter of CAN XL identifiers. Of BCM: multiplex
filters, RTR replies, TX_SEND and the READ requests, the content of the frames a
cyclic operation sends (copied without a lock while the timer may send them),
several operations of a socket. Of the gateway: what modifications and checksums do
to a frame, netlink messages, dumps. `proc.c` reads counters without locks.

What the properties leave out, because the code does: while a raw socket's filters
are replaced a frame may pass it by, and with `CAN_RAW_JOIN_FILTERS` it may be
handed over more than once, as old and new filters are counted together; error
frames and joined filters have no common rule in the code (`RawDelivery`). RX_DELETE
of BCM does not wait for receptions as `bcm_release()` does, so on several
processors one of them may start the throttle timer of the deleted operation
(`OpQuiet`); and there a content can stay unreported when the throttle timer's
handler, which found nothing, still counts as active (`ThrottledWatched` asks for
one processor).

`CAN_ISOTP_CF_BROADCAST` is modelled in `IsotpTx` (`CfBroadcast`) and off in
the runs; the theorems hold for both values.

## 6. Plan

Done: all modules of section 2. Then, in this order:

1. Proofs: `AckSound` of `J1939Transfer`, on `MessageInv`, with what `timely` says of
   a timer that is queued while frames are under way.
2. `J1939QueueAbs`: a queue whose messages are each reported once, in order,
   with `J1939Transfer` shown to implement it.
3. `J1939Session`: one session's timers and reception interleaved at their
   locks, on several processors: references taken twice for one timer
   (`transport.c:712`), a timer cancelled under its handler's lock.
4. Frame modifications and checksums of the gateway, multiplex filters of BCM, as
   functions with a reference definition.
