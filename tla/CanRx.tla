-------------------------------- MODULE CanRx --------------------------------
(***************************************************************************)
(* The receiver lists of the CAN core (net/can/af_can.c): the filters that *)
(* sockets, operations and routing jobs register for a device (or for all  *)
(* of them), the softirqs that walk the lists under rcu_read_lock() with   *)
(* no other lock and call back the owner of each filter that matches, and  *)
(* the grace period after which an unregistered receiver is freed.         *)
(*                                                                         *)
(* Registration is atomic (net->can.rcvlists_lock).  A walk takes one step *)
(* per receiver; it goes on from a receiver that was unlinked under it.    *)
(* An identifier or a mask is the set of the positions of its bits.        *)
(***************************************************************************)
EXTENDS Naturals, Sequences, SequencesExt, FiniteSets

CONSTANTS
  Cpus,      \* the processors a softirq may run on
  Devs,      \* the CAN devices
  AllDevs,   \* dev == NULL: the list for all devices
  Slots,     \* memory for receivers (a bound); allocation fails without it
  Owners,    \* data: whom a callback is for
  Socks,     \* those owners that are sockets
  Deferred,  \* what else is freed, or waited for, after a grace period
  Ids,       \* the identifiers of frames
  Filters,   \* the filters owners register, those of an error mask aside
  NIL

\* An identifier or a mask; struct can_filter.
Bits == 0..31
EFF == 31  RTR == 30  ERR == 29  INV == 29
SFF_MASK == 0..10
EFF_MASK == 0..28
FilterRec == [id : SUBSET Bits, mask : SUBSET Bits]

ASSUME CanRxAssumption ==
  /\ Socks \subseteq Owners /\ AllDevs \notin Devs
  /\ IsFiniteSet(Slots) /\ Ids \subseteq SUBSET Bits /\ Filters \subseteq FilterRec
  /\ NIL \notin Slots \cup Owners \cup Devs \cup {AllDevs}

\* Those of error masks are filters of no bits but ERR and those of the mask.
CanFilters ==
  {f \in FilterRec :
     f \in Filters \/ (f.id = {} /\ ERR \in f.mask /\ f.mask \subseteq EFF_MASK \cup {ERR})}

VARIABLES
  rcv,     \* struct receiver, by slot
  waits,   \* the walks an object of Deferred must outlive
  refs,    \* references to a socket
  walk,    \* the softirq in can_receive(), by processor
  backlog, \* frames that will be received
  up       \* IFF_UP, by device

rxVars == <<rcv, waits, refs, walk, backlog, up>>

-----------------------------------------------------------------------------
(* The choice of a list. *)

\* Bits 10..19 and 20..28 are folded onto the ten bits of the hash.
effhash(id) ==
  {b \in 0..9 : Cardinality({b, b + 10, b + 20} \cap id \cap EFF_MASK) % 2 = 1}

\* can_rcv_list_find() of a filter: the list, and the reduced id and mask.
Reduced(f) ==
  IF EFF \in f.mask /\ EFF \notin f.id THEN f.mask \cap (SFF_MASK \cup {EFF, RTR}) ELSE f.mask

\* The list of a single identifier takes any mask with both flags.
Single_bug(id, mask, bits) == {EFF, RTR} \subseteq mask /\ RTR \notin id

\* A mask that leaves open no bit of `bits' nor the frame type.
Single(id, mask, bits) == mask = bits \cup {EFF, RTR} /\ RTR \notin id

can_rcv_list_find(f) ==
  LET mask == Reduced(f)
      id   == f.id \cap mask
      list == CASE INV \in f.id -> <<"inv">>
                [] INV \notin f.id /\ mask = {} -> <<"all">>
                [] INV \notin f.id /\ EFF \in id /\ Single(id, mask, EFF_MASK) ->
                     <<"eff", effhash(id)>>
                [] INV \notin f.id /\ EFF \notin id /\ Single(id, mask, SFF_MASK) ->
                     <<"sff", id>>
                [] OTHER -> <<"fil">>
  IN IF ERR \in f.mask
     THEN [list |-> <<"err">>, id |-> f.id, mask |-> f.mask \cap EFF_MASK]
     ELSE [list |-> list, id |-> id, mask |-> mask]

-----------------------------------------------------------------------------
(* Lists: the receivers in state "on", linked by nxt. *)

Free == [state |-> "free", dev |-> NIL, list |-> NIL, id |-> {}, mask |-> {},
         owner |-> NIL, nxt |-> NIL, asked |-> NIL, gp |-> {}]

Idle == [frame |-> NIL, todo |-> <<>>, at |-> NIL, call |-> FALSE, start |-> {}, hits |-> <<>>]

On == {s \in Slots : rcv[s].state = "on"}
OnList(dev, list) == {s \in On : rcv[s].dev = dev /\ rcv[s].list = list}
ListHead(dev, list) ==
  LET l == OnList(dev, list)
  IN IF l = {} THEN NIL ELSE CHOOSE s \in l : \A t \in l : rcv[t].nxt # s

Readers == {c \in Cpus : walk[c].frame # NIL}

RxInit ==
  /\ rcv = [s \in Slots |-> Free] /\ waits = [d \in Deferred |-> {}]
  /\ refs = [k \in Socks |-> 1] /\ walk = [c \in Cpus |-> Idle]
  /\ backlog = <<>> /\ up = [d \in Devs |-> TRUE]

\* Which free memory is handed out does not matter.
FirstFree(pool, mem, free) == CHOOSE x \in pool : mem[x] = free

\* can_rx_register(): the receiver becomes the first of its list.
can_rx_register(dev, f, owner) ==
  LET l == can_rcv_list_find(f)
      s == FirstFree(Slots, rcv, Free)
  IN /\ \E x \in Slots : rcv[x] = Free
     /\ rcv' = [rcv EXCEPT ![s] =
          [state |-> "on", dev |-> dev, list |-> l.list, id |-> l.id, mask |-> l.mask,
           owner |-> owner, nxt |-> ListHead(dev, l.list), asked |-> f, gp |-> {}]]

\* The receivers can_rx_unregister() takes for the one it looks for, and the
\* first of them in the list: before holds those in front of it, none of them found.
Found(dev, f, owner) ==
  LET l == can_rcv_list_find(f)
  IN {s \in OnList(dev, l.list) :
        rcv[s].id = l.id /\ rcv[s].mask = l.mask /\ rcv[s].owner = owner}

InFront(s, before) == \A x \in On : rcv[x].nxt \in before \cup {s} => x \in before
First(found) == CHOOSE s \in found : \E before \in SUBSET (On \ found) : InFront(s, before)

\* hlist_del() would poison the link a walk still needs.
Link_bug(s) == NIL

\* hlist_del_rcu(): the receiver keeps its link.
Link(s) == rcv[s].nxt

\* The receiver is freed at once.
GracePeriod_bug == {}

\* The walks that may hold what is unlinked now.
GracePeriod == Readers

Unlinked(s) ==
  [x \in Slots |->
     CASE x = s -> [rcv[x] EXCEPT !.state = "off", !.nxt = Link(s), !.gp = GracePeriod]
       [] x \in On \ {s} /\ rcv[x].nxt = s -> [rcv[x] EXCEPT !.nxt = rcv[s].nxt]
       [] OTHER -> rcv[x]]

\* can_rx_delete_receiver(), the RCU callback, for all whose grace period is
\* over: at once then, the earliest and worst moment for a walk.
Expired(r) == {s \in Slots : r[s].state = "off" /\ r[s].gp = {}}
can_rx_delete_receiver(r) == [s \in Slots |-> IF s \in Expired(r) THEN Free ELSE r[s]]

\* The socket is not held until the receiver is freed.
Held_bug(owner) == 0

Held(owner) == IF owner \in Socks THEN 1 ELSE 0

\* can_rx_unregister(): with no such receiver there is only a warning.  The
\* socket is held until the receiver is freed.
can_rx_unregister(dev, f, owner) ==
  LET found == Found(dev, f, owner)
      r     == Unlinked(First(found))
  IN IF found = {} THEN UNCHANGED <<rcv, refs>>
     ELSE /\ rcv' = can_rx_delete_receiver(r)
          /\ refs' = IF Expired(r) = {} /\ owner \in Socks
                     THEN [refs EXCEPT ![owner] = @ + Held(owner)] ELSE refs

sock_put(owner) == [refs EXCEPT ![owner] = @ - 1]

-----------------------------------------------------------------------------
(* Reception. *)

\* The lists can_rcv_filter() walks for an identifier, in their order.
Lists(id) ==
  IF ERR \in id THEN << <<"err">> >>
  ELSE << <<"all">>, <<"fil">>, <<"inv">> >>
       \o (CASE RTR \in id -> <<>>
            [] RTR \notin id /\ EFF \in id -> << <<"eff", effhash(id)>> >>
            [] OTHER -> << <<"sff", id \cap SFF_MASK>> >>)

\* The test on a receiver of the list that is walked.
Matches(r, id) ==
  CASE r.list[1] = "err" -> id \cap r.mask # {}
    [] r.list[1] = "fil" -> id \cap r.mask = r.id
    [] r.list[1] = "inv" -> id \cap r.mask # r.id
    [] r.list[1] = "eff" -> id = r.id
    [] OTHER -> TRUE

\* can_receive(): the lists for all devices, then those of the device.
can_receive(c, frame) ==
  /\ walk[c] = Idle
  /\ LET lists == Lists(frame.id)
         Of(dev) == [i \in 1..Len(lists) |-> <<dev, lists[i]>>]
     IN walk' = [walk EXCEPT ![c] =
          [frame |-> frame, todo |-> Of(AllDevs) \o Of(frame.dev), at |-> NIL,
           call |-> FALSE, start |-> On, hits |-> <<>>]]

\* The receiver a walk comes to, and the lists it has left.  Empty lists are
\* passed in the same step.
NextAt(w) ==
  LET i == SelectInSeq(w.todo, LAMBDA l : ListHead(l[1], l[2]) # NIL)
  IN IF w.at # NIL /\ rcv[w.at].nxt # NIL
     THEN [at |-> rcv[w.at].nxt, todo |-> w.todo]
     ELSE IF i = 0 THEN [at |-> NIL, todo |-> <<>>]
          ELSE [at |-> ListHead(w.todo[i][1], w.todo[i][2]), todo |-> SubSeq(w.todo, i + 1, Len(w.todo))]

Walking(c) == walk[c].frame # NIL /\ ~walk[c].call /\ (walk[c].at # NIL \/ walk[c].todo # <<>>)

\* can_rcv_filter(): on to the next receiver; deliver() if it matches.
Advanced(w) ==
  LET n   == NextAt(w)
      hit == n.at # NIL /\ Matches(rcv[n.at], w.frame.id)
  IN [w EXCEPT !.at = n.at, !.todo = n.todo, !.call = hit,
               !.hits = IF hit THEN Append(@, n.at) ELSE @]

can_rcv_filter(c) ==
  /\ Walking(c)
  /\ walk' = [walk EXCEPT ![c] = Advanced(@)]
  /\ UNCHANGED <<rcv, waits, refs, backlog, up>>

\* The callback on c has returned.
Returned(c) == walk' = [walk EXCEPT ![c].call = FALSE]

\* Whose callback runs on c.
Callee(c) == IF walk[c].call THEN rcv[walk[c].at].owner ELSE NIL

Ended(c) == walk[c].frame # NIL /\ ~walk[c].call /\ walk[c].at = NIL /\ walk[c].todo = <<>>

\* rcu_read_unlock(): the end of some grace periods.
rcu_read_unlock(c) ==
  LET r == [s \in Slots |-> [rcv[s] EXCEPT !.gp = @ \ {c}]]
  IN /\ Ended(c)
     /\ walk' = [walk EXCEPT ![c] = Idle]
     /\ rcv' = can_rx_delete_receiver(r)
     /\ refs' = [k \in Socks |-> refs[k] - Cardinality({s \in Expired(r) : rcv[s].owner = k})]
     /\ waits' = [d \in Deferred |-> waits[d] \ {c}]
     /\ UNCHANGED <<backlog, up>>

-----------------------------------------------------------------------------
(* Sending. *)

\* can_send(): 0, and with `loop' set the frame will be received by the local
\* sockets too (by the driver's echo or by the copy made here), or an error
\* (the device is down, the queue is full, no memory).
can_send(frame, loop, ok) ==
  IF ok THEN up[frame.dev] /\ backlog' = IF loop THEN Append(backlog, frame) ELSE backlog
  ELSE UNCHANGED backlog

\* A frame sent with `loop' set comes in, on any processor.
netif_receive(c) ==
  /\ backlog # <<>>
  /\ can_receive(c, Head(backlog)) /\ backlog' = Tail(backlog)
  /\ UNCHANGED <<rcv, waits, refs, up>>

-----------------------------------------------------------------------------
(* Safety. *)

\* What "A filter matches, when <received_can_id> & mask == can_id & mask",
\* "The filter can be inverted" and "it can filter for error messages" say of
\* a filter as it was handed in; only error filters get error frames.
FilterMatches(f, id) ==
  IF ERR \in f.mask THEN ERR \in id /\ id \cap f.mask \cap EFF_MASK # {}
  ELSE ERR \notin id /\ ((id \cap f.mask = (f.id \ {INV}) \cap f.mask) # (INV \in f.id))

\* What filters and frames are meant to be: without EFF the identifier has eleven
\* bits.  Of a filter for such frames can_rcv_list_find() drops the other bits.
WellFormed ==
  /\ \A i \in Ids : {EFF, ERR} \cap i = {} => i \cap EFF_MASK \subseteq SFF_MASK
  /\ \A f \in Filters :
       EFF \in f.mask \ f.id /\ ERR \notin f.mask => f.id \cap f.mask \cap EFF_MASK \subseteq SFF_MASK

Concerns(r, frame) == r.dev \in {AllDevs, frame.dev} /\ FilterMatches(r.asked, frame.id)

\* A frame is delivered once to each receiver it matches that was registered
\* all the time, however the lists change under the walk, and to none that it
\* does not match: sorting a filter into a list (can_rcv_list_find()) changes
\* nothing of what it means, and an unlinked receiver still leads on.
DeliveryExact ==
  \A c \in Cpus : Ended(c) =>
    LET hits == ToSet(walk[c].hits)
    IN /\ {s \in walk[c].start \cap On : Concerns(rcv[s], walk[c].frame)} \subseteq hits
       /\ \A s \in hits : Concerns(rcv[s], walk[c].frame)
       /\ Cardinality(hits) = Len(walk[c].hits)

\* A walk never stands on freed memory, and no callback runs for a socket that
\* is gone: the grace period, and the reference can_rx_unregister() takes.
CallbackAlive ==
  \A c \in Cpus : walk[c].at # NIL =>
    /\ rcv[walk[c].at].state # "free"
    /\ walk[c].call /\ Callee(c) \in Socks => refs[Callee(c)] > 0
=============================================================================
