------------------------------- MODULE CanStack -------------------------------
(***************************************************************************)
(* The CAN core with what registers receivers with it: CAN_RAW sockets     *)
(* (Raw), routing jobs of the gateway (Gw), the broadcast manager (Bcm)    *)
(* and other owners of filters.  Frames that come in, or that these send,  *)
(* walk the lists while all of them change their filters.                  *)
(*                                                                         *)
(* A behaviour belongs to one scene: the part of the system whose users    *)
(* act in it and the frames that come in; the rest stays as initialised.   *)
(***************************************************************************)
EXTENDS Raw, Gw, Bcm

CONSTANT Scenes  \* each a part and its bounds: [part,
                 \*   cpus, slots : the processors that receive, receivers of plain owners
                 \*   frames : those that come in
                 \*   socks, opts : raw sockets in use, how they are opened
                 \*   lists, masks, sends : what they may set and send
                 \*   faults : allocation may fail for them
                 \*   devs, filters : what sockets and plain owners register for

\* The sk_buff of a frame, and of one that no job has routed and no socket has sent yet.
FrameRec == [id : Ids, dev : Devs, sk : Socks \cup {NIL}, kind : {"CC", "FD", "XL"},
             iif : Devs, hops : Nat, times : Nat, limit : Nat, data : Nat]
NewFrames == [id : Ids, dev : Devs, sk : {NIL}, kind : {"CC", "FD", "XL"}, iif : Devs,
              hops : {0}, times : {0}, limit : {max_hops}, data : Nat]

\* Owners of distinct kinds are distinct, and a part gets frames and options of their types.
ASSUME StackAssumption ==
  /\ NIL \notin FrameRec
  /\ BcmSock \notin RawSocks
  /\ RxOp \notin Jobs /\ Jobs \cap Mods = {} /\ {TxOp, RxOp, Sync} \cap (Jobs \cup Mods) = {}
  /\ \A r \in Scenes :
       /\ r.frames \cup r.sends \subseteq NewFrames
       /\ r.devs \subseteq Devs \cup {AllDevs} /\ r.filters \subseteq CanFilters
       /\ r.socks \subseteq RawSocks /\ r.lists \subseteq Seq(CanFilters) /\ r.masks \subseteq SUBSET EFF_MASK
       /\ r.opts \subseteq [filter : Seq(CanFilters), join : BOOLEAN, own : BOOLEAN,
                           kinds : SUBSET {"CC", "FD", "XL"}]

VARIABLE scene

vars == <<rxVars, rawVars, gwVars, bcmVars, scene>>

\* Those whose callback only takes the frame.
Plain == Owners \ (Socks \cup Jobs \cup {RxOp})

\* The part is initialised, the others are absent.
Init ==
  /\ scene \in Scenes
  /\ RxInit /\ RawInit(scene.opts) /\ GwInit /\ BcmInit
  /\ scene.part \notin {"bcm_rx", "bcm_tx"} => ~up_mode

-----------------------------------------------------------------------------
(* The core. *)

MayReceive(c) == c \in scene.cpus /\ MayStart

\* A frame comes in from the bus.
Receive(c) ==
  /\ MayReceive(c)
  /\ \E f \in scene.frames : up[f.dev] /\ Len(backlog) < InFlight /\ can_receive(c, f)
  /\ NewFrame(c)
  /\ UNCHANGED <<rcv, waits, refs, backlog, up, gwVars, bcmVars, scene>>

\* One that was sent here comes in.
Loopback(c) ==
  /\ MayReceive(c) /\ netif_receive(c) /\ NewFrame(c)
  /\ UNCHANGED <<gwVars, bcmVars, scene>>

Filter(c) == can_rcv_filter(c) /\ UNCHANGED <<rawVars, gwVars, bcmVars, scene>>

Unlock(c) == rcu_read_unlock(c) /\ GwFreed(c) /\ OldFrame(c) /\ UNCHANGED <<bcmVars, scene>>

\* Plain owners.
Register ==
  /\ scene.part = "plain" /\ Cardinality({s \in Slots : rcv[s] # Free}) < scene.slots
  /\ \E f \in scene.filters, d \in scene.devs, o \in Plain : can_rx_register(d, f, o)
  /\ UNCHANGED <<waits, refs, walk, backlog, up, rawVars, gwVars, bcmVars, scene>>

Unregister ==
  /\ scene.part = "plain"
  /\ \E s \in On :
       rcv[s].owner \in Plain /\ can_rx_unregister(rcv[s].dev, rcv[s].asked, rcv[s].owner)
  /\ UNCHANGED <<waits, walk, backlog, up, rawVars, gwVars, bcmVars, scene>>

Taken(c) ==
  /\ Callee(c) \in Plain /\ Returned(c)
  /\ UNCHANGED <<rcv, waits, refs, backlog, up, rawVars, gwVars, bcmVars, scene>>

-----------------------------------------------------------------------------
(* The parts. *)

RawUses == scene.part = "raw" /\ RawStep(scene.faults) /\ UNCHANGED <<gwVars, bcmVars, scene>>
RawUsed ==
  /\ scene.part = "raw"
  /\ (\E k \in scene.socks : RawCall(k, scene.devs, scene.lists, scene.masks)) \/ RawEvent
  /\ UNCHANGED <<gwVars, bcmVars, scene>>

RawSends ==
  /\ scene.part = "raw"
  /\ \E k \in scene.socks, f \in scene.sends : raw_sendmsg(k, f)
  /\ UNCHANGED <<gwVars, bcmVars, scene>>

GwUses == scene.part = "gw" /\ GwStep /\ UNCHANGED <<rawVars, bcmVars, scene>>
GwUsed == scene.part = "gw" /\ GwCall /\ UNCHANGED <<rawVars, bcmVars, scene>>

BcmUses == scene.part \in {"bcm_rx", "bcm_tx"} /\ BcmStep /\ UNCHANGED <<rawVars, gwVars, scene>>
BcmUsed ==
  /\ \/ scene.part = "bcm_tx" /\ BcmTxCall
     \/ scene.part = "bcm_rx" /\ BcmRxCall
     \/ scene.part \in {"bcm_tx", "bcm_rx"} /\ BcmEvent
  /\ UNCHANGED <<rawVars, gwVars, scene>>

\* Nobody is left who could do anything.
Over ==
  /\ Readers = {}
  /\ \/ scene.part = "raw" /\ rtnl = NoCall /\ \A k \in scene.socks : rpc[k] = "gone"
     \/ scene.part = "gw" /\ gone = Devs /\ flush = {}
     \/ scene.part \in {"bcm_rx", "bcm_tx"} /\ bpc = "closed"
  /\ UNCHANGED vars

Next ==
  \/ \E c \in Cpus : Receive(c) \/ Loopback(c) \/ Filter(c) \/ Unlock(c) \/ Taken(c)
  \/ Register \/ Unregister
  \/ RawUses \/ RawUsed \/ RawSends \/ GwUses \/ GwUsed \/ BcmUses \/ BcmUsed \/ Over

Spec == Init /\ [][Next]_vars
=============================================================================
