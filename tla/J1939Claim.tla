----------------------------- MODULE J1939Claim -----------------------------
(***************************************************************************)
(* NAME and address management of one j1939 device: the ECU objects and    *)
(* the address table of net/can/j1939/bus.c, and the processing of address *)
(* claims in net/can/j1939/address-claim.c, with the sockets that bind to  *)
(* a NAME or an address, and the events of the network device.             *)
(*                                                                         *)
(* One step is one critical section under priv->lock, except that          *)
(* j1939_ac_process() is cut where it waits for a timer handler while it   *)
(* holds the lock, and that a reference is dropped outside the lock in two *)
(* steps: the count reaches zero, the object leaves the list.  Who uses    *)
(* priv->ecus between the two has undefined behaviour: `raced', where a    *)
(* behaviour of the model ends.  One processor receives; timers may expire *)
(* on others, where sockets run too.                                       *)
(*                                                                         *)
(* At most one ECU per NAME is in priv->ecus, so a NAME stands for its     *)
(* ECU.  A NAME is a number, a lower one has the higher priority.          *)
(***************************************************************************)
EXTENDS Integers, FiniteSets

CONSTANTS
  Names,     \* NAMEs on the bus
  Addrs,     \* unicast addresses in use
  Sockets,   \* j1939 sockets bound to this device
  Binds,     \* [name, sa] pairs the sockets bind to
  Modes,     \* machines: [smp : softirqs run beside each other and beside the
             \* sockets, lookups : frames other than claims arrive, sends : the
             \* sockets send claims]
  Downs,     \* the device may go down
  Faults     \* allocations may fail

J1939_MAX_UNICAST_ADDR == 253
J1939_IDLE_ADDR == 254
J1939_NO_ADDR == 255
NoName == 0

ASSUME ClaimAssumption ==
  /\ Names \subseteq Nat \ {0} /\ Addrs \subseteq 0..J1939_MAX_UNICAST_ADDR
  /\ IsFiniteSet(Sockets)
  /\ Binds \subseteq [name : Names \cup {NoName}, sa : Addrs \cup {J1939_NO_ADDR}]
  /\ Modes \subseteq [smp : BOOLEAN, lookups : BOOLEAN, sends : BOOLEAN]
  /\ {Downs, Faults} \subseteq BOOLEAN

VARIABLES
  mode,      \* the machine
  priv,      \* [ecu : the ECU of each NAME, ents : the address table]
  armed,     \* [NAME -> the ac_timer is queued]
  cb,        \* [NAME -> its handler has started]
  lock,      \* priv->lock is held across steps (by the receive softirq)
  rpc, msg,  \* receive softirq: program counter, claim or lookup at hand
  sock,      \* [socket -> what it is bound to and where it stands]
  fix,       \* [socket -> the claim it sends and where it is in j1939_ac_fixup()]
  filter,    \* the rx filter: "none" (no socket yet), "on", "grace" (unregistered,
             \* readers left), "off"
  raced      \* history: priv->ecus was used while an ECU was taken off it unlocked

timerVars == <<armed, cb>>
rxVars    == <<lock, rpc, msg>>
sockVars  == <<sock, fix>>
vars      == <<mode, priv, timerVars, rxVars, sockVars, filter, raced>>

NoEcu == [st |-> "none", addr |-> J1939_IDLE_ADDR, refs |-> 0, nusers |-> 0]
NoMsg == [name |-> NoName, sa |-> J1939_NO_ADDR]
NoFix == [at |-> "off", name |-> NoName, sa |-> J1939_NO_ADDR]
Unbound == [st |-> "unbound", name |-> NoName, sa |-> J1939_NO_ADDR]

Init ==
  /\ priv = [ecu |-> [n \in Names |-> NoEcu],
             ents |-> [a \in Addrs |-> [ecu |-> NoName, nusers |-> 0]]]
  /\ armed = [n \in Names |-> FALSE] /\ cb = [n \in Names |-> "off"]
  /\ lock = FALSE /\ rpc = "idle" /\ msg = NoMsg
  /\ sock = [s \in Sockets |-> Unbound] /\ fix = [s \in Sockets |-> NoFix]
  /\ mode \in Modes /\ filter = "none" /\ raced = FALSE

\* On one processor a softirq, once started, runs to its end.
Running == rpc # "idle" \/ \E n \in Names : cb[n] = "run"
CpuFree == ~mode.smp => ~Running
Locked  == ~lock /\ CpuFree

\* ECUs whose last reference was put without priv->lock and that are still in
\* the list.  A step may use the list while some are (S), or leave it alone.
Dying   == {n \in Names : priv.ecu[n].st = "dead"}
Uses(S) == ~raced /\ raced' = (S # {})
Apart   == ~raced /\ UNCHANGED raced
\* Under the lock: the list is used when an ECU leaves it.
Unlists == Uses({m \in Dying : \E n \in Names : priv.ecu[n].st # priv'.ecu[n].st})

-----------------------------------------------------------------------------
(* bus.c: a new value of priv from an old one, under the write lock. *)

Known(p, n) == p.ecu[n].st # "none"

j1939_ecu_get(p, n) == [p EXCEPT !.ecu[n].refs = @ + 1]

j1939_ecu_put(p, n) ==
  IF p.ecu[n].refs = 1 THEN [p EXCEPT !.ecu[n] = NoEcu]
                       ELSE [p EXCEPT !.ecu[n].refs = @ - 1]

\* kref_put() without the lock, and __j1939_ecu_release() after it.
Unlocked(p, n) ==
  IF p.ecu[n].refs = 1 THEN [p EXCEPT !.ecu[n] = [@ EXCEPT !.st = "dead", !.refs = 0]]
                       ELSE j1939_ecu_put(p, n)

__j1939_ecu_release(p, n) == [p EXCEPT !.ecu[n] = NoEcu]

j1939_ecu_create(p, n) == [p EXCEPT !.ecu[n] = [NoEcu EXCEPT !.st = "live", !.refs = 1]]

j1939_ecu_is_mapped(p, n) ==
  p.ecu[n].addr \in Addrs /\ p.ents[p.ecu[n].addr].ecu = n

\* The users of the ECU stay counted at the address.
j1939_ecu_map_bug(p, n) ==
  LET a == p.ecu[n].addr IN
  IF a \in Addrs /\ p.ents[a].ecu = NoName
    THEN j1939_ecu_get([p EXCEPT !.ents[a].ecu = n], n) ELSE p

j1939_ecu_map(p, n) ==
  LET a == p.ecu[n].addr IN
  IF a \in Addrs /\ p.ents[a].ecu = NoName
    THEN j1939_ecu_get([p EXCEPT !.ents[a] =
           [ecu |-> n, nusers |-> @.nusers + p.ecu[n].nusers]], n)
    ELSE p

j1939_ecu_unmap(p, n) ==
  IF j1939_ecu_is_mapped(p, n)
    THEN j1939_ecu_put([p EXCEPT !.ents[p.ecu[n].addr] =
           [ecu |-> NoName, nusers |-> @.nusers - p.ecu[n].nusers]], n)
    ELSE p

j1939_ecu_unmap_all(p) ==
  [ecu  |-> [n \in Names |-> j1939_ecu_unmap(p, n).ecu[n]],
   ents |-> [a \in Addrs |-> IF p.ents[a].ecu = NoName THEN p.ents[a]
                             ELSE j1939_ecu_unmap(p, p.ents[a].ecu).ents[a]]]

CountUser(p, sa, d) == IF sa \in Addrs THEN [p EXCEPT !.ents[sa].nusers = @ + d] ELSE p

CountEcuUser(p, n, d) ==
  CountUser([p EXCEPT !.ecu[n].nusers = @ + d],
            IF j1939_ecu_is_mapped(p, n) THEN p.ecu[n].addr ELSE J1939_NO_ADDR, d)

j1939_local_ecu_get(p, n, sa) ==
  LET q == CountUser(p, sa, 1) IN
  IF n = NoName THEN q
  ELSE CountEcuUser(IF Known(q, n) THEN j1939_ecu_get(q, n) ELSE j1939_ecu_create(q, n), n, 1)

\* The reference of the socket is not dropped.
j1939_local_ecu_put_bug(p, n, sa) ==
  LET q == CountUser(p, sa, -1) IN IF n = NoName THEN q ELSE CountEcuUser(q, n, -1)

j1939_local_ecu_put(p, n, sa) ==
  LET q == CountUser(p, sa, -1) IN
  IF n = NoName THEN q ELSE j1939_ecu_put(CountEcuUser(q, n, -1), n)

-----------------------------------------------------------------------------
(* The address claim timer. *)

Expire(n) ==
  /\ armed[n] /\ CpuFree
  /\ armed' = [armed EXCEPT ![n] = FALSE] /\ cb' = [cb EXCEPT ![n] = "run"]
  /\ Apart
  /\ UNCHANGED <<mode, priv, rxVars, sockVars, filter>>

j1939_ecu_timer_handler(n) ==
  /\ cb[n] = "run" /\ ~lock
  /\ priv' = j1939_ecu_put(j1939_ecu_map(priv, n), n)
  /\ cb' = [cb EXCEPT ![n] = "off"] /\ Unlists
  /\ UNCHANGED <<mode, armed, rxVars, sockVars, filter>>

(* Received frames: claims of ECUs on the bus and echoes of our own. *)

RxIdle == rpc = "idle" /\ filter \in {"on", "grace"} /\ Locked

\* A claim whose NAME and address both match changes nothing, nor does one of
\* an unknown ECU that cannot claim an address.
SameAddress(n, sa) == Known(priv, n) /\ priv.ecu[n].addr = sa

ClaimArrives(n, sa) ==
  /\ RxIdle /\ ~SameAddress(n, sa)
  /\ Known(priv, n) \/ sa \in Addrs
  /\ priv' = IF Known(priv, n) THEN j1939_ecu_get(priv, n) ELSE j1939_ecu_create(priv, n)
  /\ lock' = TRUE /\ rpc' = "cancel" /\ msg' = [name |-> n, sa |-> sa] /\ Uses(Dying)
  /\ UNCHANGED <<mode, timerVars, sockVars, filter>>

\* The address is taken without looking at the NAMEs.
Wins_bug(p, n, sa) == TRUE

\* The ECU that has the address gives way to a lower NAME.
Wins(p, n, sa) == p.ents[sa].ecu = NoName \/ n <= p.ents[sa].ecu

Moved(p, n, sa) == [j1939_ecu_unmap(p, n) EXCEPT !.ecu[n].addr = sa]

Kicked(p, sa) == IF p.ents[sa].ecu = NoName THEN p ELSE j1939_ecu_unmap(p, p.ents[sa].ecu)

\* The timer's reference is put although the timer was not queued.
j1939_ecu_timer_cancel_bug(p, n) == j1939_ecu_put(p, n)

j1939_ecu_timer_cancel(p, n) == IF armed[n] THEN j1939_ecu_put(p, n) ELSE p

\* hrtimer_cancel() waits for the handler, with priv->lock held.
ClaimProcessed ==
  LET n == msg.name
      p == j1939_ecu_timer_cancel(priv, n)
      starts == msg.sa \in Addrs /\ Wins(p, n, msg.sa)
  IN /\ rpc = "cancel" /\ cb[n] = "off"
     /\ armed' = [armed EXCEPT ![n] = starts]
     /\ priv' = CASE msg.sa = J1939_IDLE_ADDR -> j1939_ecu_put(j1939_ecu_unmap(p, n), n)
                  [] starts -> Kicked(Moved(p, n, msg.sa), msg.sa)
                  [] OTHER -> j1939_ecu_put(Moved(p, n, msg.sa), n)
     /\ lock' = FALSE /\ rpc' = "idle" /\ msg' = NoMsg /\ Unlists
     /\ UNCHANGED <<mode, cb, sockVars, filter>>

\* j1939_ac_recv() finds the NAME of an address ...
Lookup(a) ==
  /\ RxIdle /\ mode.lookups /\ priv.ents[a].ecu # NoName
  /\ priv' = j1939_ecu_get(priv, priv.ents[a].ecu)
  /\ rpc' = "lookup" /\ msg' = [NoMsg EXCEPT !.name = priv.ents[a].ecu]
  /\ Apart /\ UNCHANGED <<mode, timerVars, lock, sockVars, filter>>

\* ... and puts the ECU without priv->lock.
LookupPut ==
  LET n == msg.name
      last == priv.ecu[n].refs = 1
  IN /\ rpc = "lookup"
     /\ priv' = Unlocked(priv, n)
     /\ rpc' = IF last THEN "free" ELSE "idle"
     /\ msg' = IF last THEN msg ELSE NoMsg
     /\ Apart /\ UNCHANGED <<mode, timerVars, lock, sockVars, filter>>

LookupFree ==
  /\ rpc = "free" /\ rpc' = "idle" /\ msg' = NoMsg
  /\ priv' = __j1939_ecu_release(priv, msg.name) /\ Uses(Dying \ {msg.name})
  /\ UNCHANGED <<mode, timerVars, lock, sockVars, filter>>

-----------------------------------------------------------------------------
(* Sockets. *)

SockStep(s, from, to) ==
  sock[s].st = from /\ sock' = [sock EXCEPT ![s].st = to]

\* bind(): only while the device is up; the first socket makes priv.  A socket
\* that has given the device back and binds again counts as another socket.
j1939_netdev_start(s) ==
  /\ filter \in {"none", "on"} /\ SockStep(s, "unbound", "binding")
  /\ filter' = "on" /\ Apart
  /\ UNCHANGED <<mode, priv, timerVars, rxVars, fix>>

\* Who looks for a NAME walks the list.
InList(n) == IF n = NoName THEN {} ELSE Dying

\* A second bind() first drops the references of the first one.
Rebind(s) ==
  /\ Locked /\ SockStep(s, "bound", "binding")
  /\ priv' = j1939_local_ecu_put(priv, sock[s].name, sock[s].sa)
  /\ Uses(InList(sock[s].name))
  /\ UNCHANGED <<mode, timerVars, rxVars, fix, filter>>

Bind(s, b) ==
  /\ sock[s].st = "binding" /\ Locked
  /\ priv' = j1939_local_ecu_get(priv, b.name, b.sa)
  /\ sock' = [sock EXCEPT ![s] = [st |-> "bound", name |-> b.name, sa |-> b.sa]]
  /\ Uses(InList(b.name))
  /\ UNCHANGED <<mode, timerVars, rxVars, fix, filter>>

\* No memory for a new ECU: the socket gives the device back.
BindFails(s) ==
  /\ Faults /\ Locked /\ SockStep(s, "binding", "closing")
  /\ (\E b \in Binds : b.name # NoName /\ ~Known(priv, b.name)) /\ Uses(Dying)
  /\ UNCHANGED <<mode, priv, timerVars, rxVars, fix, filter>>

\* close(), or NETDEV_UNREGISTER.
Release(s) ==
  /\ Locked /\ SockStep(s, "bound", "closing")
  /\ priv' = j1939_local_ecu_put(priv, sock[s].name, sock[s].sa)
  /\ Uses(InList(sock[s].name))
  /\ UNCHANGED <<mode, timerVars, rxVars, fix, filter>>

\* The users of priv->rx_kref.
Users == {s \in Sockets : sock[s].st \in {"binding", "bound", "closing"}}

\* The last user takes the filter away and empties the address table.
j1939_netdev_stop(s) ==
  /\ Locked /\ SockStep(s, "closing", "closed")
  /\ filter' = IF Users = {s} THEN "grace" ELSE filter
  /\ priv' = IF Users = {s} THEN j1939_ecu_unmap_all(priv) ELSE priv
  /\ Unlists
  /\ UNCHANGED <<mode, timerVars, rxVars, fix>>

GracePeriodEnds ==
  /\ filter = "grace" /\ rpc = "idle" /\ CpuFree
  /\ filter' = "off" /\ Apart
  /\ UNCHANGED <<mode, priv, timerVars, rxVars, sockVars>>

\* A claim is sent, by sendmsg() or by a session that outlives it.  Nothing holds
\* off softirqs, or other threads, between the ECU is looked up ...
j1939_ac_fixup(s, sa) ==
  /\ mode.sends /\ sock[s].st \in {"bound", "binding", "closing"} /\ fix[s] = NoFix
  /\ sock[s].name # NoName /\ Known(priv, sock[s].name) /\ Locked
  /\ priv' = j1939_ecu_get(priv, sock[s].name)
  /\ fix' = [fix EXCEPT ![s] = [at |-> "check", name |-> sock[s].name, sa |-> sa]]
  /\ Uses(Dying) /\ UNCHANGED <<mode, timerVars, rxVars, sock, filter>>

FixStep(s, from, to) ==
  /\ fix[s].at = from /\ CpuFree
  /\ fix' = [fix EXCEPT ![s] = IF to = "off" THEN NoFix
                              ELSE [at |-> to, name |-> @.name, sa |-> J1939_NO_ADDR]]
  /\ UNCHANGED <<mode, timerVars, rxVars, sock, filter>>

\* ... its address is compared, without the lock ...
FixupCheck(s) ==
  /\ FixStep(s, "check", IF priv.ecu[fix[s].name].addr = fix[s].sa THEN "put" ELSE "unmap")
  /\ Apart /\ UNCHANGED priv

\* ... it is unmapped, if it changes its address ...
FixupUnmap(s) ==
  /\ FixStep(s, "unmap", "put") /\ ~lock
  /\ priv' = j1939_ecu_unmap(priv, fix[s].name) /\ Unlists

\* ... and put, without the lock.
FixupPut(s) ==
  /\ FixStep(s, "put", IF priv.ecu[fix[s].name].refs = 1 THEN "free" ELSE "off")
  /\ priv' = Unlocked(priv, fix[s].name) /\ Apart

FixupFree(s) ==
  /\ FixStep(s, "free", "off")
  /\ priv' = __j1939_ecu_release(priv, fix[s].name) /\ Uses(Dying \ {fix[s].name})

FixupNext(s) == FixupCheck(s) \/ FixupUnmap(s) \/ FixupPut(s) \/ FixupFree(s)

NetdevDown ==
  /\ Downs /\ Locked /\ Users # {}
  /\ priv' = j1939_ecu_unmap_all(priv) /\ Unlists
  /\ UNCHANGED <<mode, timerVars, rxVars, sockVars, filter>>

-----------------------------------------------------------------------------
RxStep == ClaimProcessed \/ LookupPut \/ LookupFree

SockNext(s) ==
  \/ j1939_netdev_start(s)
  \/ (\E b \in Binds : Bind(s, b)) \/ BindFails(s) \/ Rebind(s)
  \/ Release(s) \/ j1939_netdev_stop(s)
  \/ (\E sa \in Addrs : j1939_ac_fixup(s, sa)) \/ FixupNext(s)

Next ==
  \/ \E n \in Names : Expire(n) \/ j1939_ecu_timer_handler(n)
  \/ \E n \in Names, sa \in Addrs \cup {J1939_IDLE_ADDR} : ClaimArrives(n, sa)
  \/ (\E a \in Addrs : Lookup(a)) \/ RxStep
  \/ (\E s \in Sockets : SockNext(s)) \/ GracePeriodEnds \/ NetdevDown

Spec == Init /\ [][Next]_vars

\* Softirqs run; timers expire.  Peers and users owe nothing.
Fairness ==
  /\ \A n \in Names : WF_vars(Expire(n)) /\ SF_vars(j1939_ecu_timer_handler(n))
  /\ WF_vars(RxStep) /\ WF_vars(GracePeriodEnds)
  /\ \A s \in Sockets : WF_vars(FixupNext(s))

FairSpec == Spec /\ Fairness

-----------------------------------------------------------------------------
(* Safety. *)

\* What the transport protocol reads to tell a local address: the sockets
\* bound to it and those of the ECU that has claimed it, whatever the order
\* of binds, claims and timers.
Bound == {s \in Sockets : sock[s].st = "bound"}
UsersOf(n) == {s \in Bound : sock[s].name = n}
UsersCounted ==
  ~raced => \A a \in Addrs :
    LET e == priv.ents[a] IN
    e.nusers = Cardinality({s \in Bound : sock[s].sa = a})
               + (IF e.ecu = NoName THEN 0 ELSE Cardinality(UsersOf(e.ecu)))

\* An ECU has one reference per holder, and goes when the last one is put:
\* neither freed under one nor kept without any.
Holders(n) ==
  Cardinality(UsersOf(n)) + Cardinality({a \in Addrs : priv.ents[a].ecu = n})
  + (IF armed[n] THEN 1 ELSE 0) + (IF cb[n] = "run" THEN 1 ELSE 0)
  + (IF msg.name = n /\ rpc # "free" THEN 1 ELSE 0)
  + Cardinality({s \in Sockets : fix[s].name = n /\ fix[s].at # "free"})
Leaving(n) == (rpc = "free" /\ msg.name = n)
              \/ \E s \in Sockets : fix[s].at = "free" /\ fix[s].name = n
RefsExact ==
  ~raced => \A n \in Names : /\ priv.ecu[n].refs = Holders(n)
                             /\ Known(priv, n) <=> Holders(n) > 0 \/ Leaving(n)

\* No socket is bound to an ECU that was freed (WARN_ON_ONCE() of
\* j1939_local_ecu_put(), and worse).
EcuAlive ==
  ~raced => \A s \in Bound : sock[s].name # NoName => priv.ecu[sock[s].name].st = "live"

\* The list is never used while an ECU leaves it unlocked, where no claims are
\* sent and, on several processors, nothing but claims is received.
NeverRaced == ~mode.sends /\ ~(mode.smp /\ mode.lookups) => ~raced

\* A claim of a higher NAME takes an address from nobody, and an address never
\* passes from one ECU to another without the 250 ms of a timer.
LowerNameStays ==
  [][\A a \in Addrs :
       LET n == priv.ents[a].ecu m == priv'.ents[a].ecu IN
       n # NoName /\ m # n =>
         m = NoName /\ (rpc = "cancel" /\ msg.sa = a => msg.name <= n)]_vars

\* A claim is ignored "if the address has already been claimed (timer has
\* expired) or [...] (timer is still running)".
IgnoredInForce ==
  \A n \in Names, sa \in Addrs :
    RxIdle /\ filter = "on" /\ SameAddress(n, sa) =>
      j1939_ecu_is_mapped(priv, n) \/ armed[n] \/ cb[n] = "run"

\* Nobody takes an address for which a lower NAME has a claim pending: "the CF
\* [...] shall not receive a contending claim from another CF for at least 250
\* ms".
LowestMapped ==
  \A a \in Addrs, n \in Names :
    priv.ents[a].ecu # NoName /\ (armed[n] \/ cb[n] = "run") /\ priv.ecu[n].addr = a
      => n >= priv.ents[a].ecu

(* Liveness. *)

\* The timer's reference is released by the handler or by a cancel.
TimerReleased == \A n \in Names : cb[n] = "run" ~> cb[n] = "off"

\* With the last socket the device's state goes away: no ECU keeps priv.
PrivDropped == filter = "off" ~> \A n \in Names : ~Known(priv, n)
=============================================================================
