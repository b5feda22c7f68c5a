--------------------------------- MODULE Raw ---------------------------------
(***************************************************************************)
(* CAN_RAW sockets (net/can/raw.c): each has a list of filters and an      *)
(* error mask, registered one by one with the receiver lists of CanRx      *)
(* while the socket is bound; bind(), setsockopt(), release() and the      *)
(* notifier change them, the notifier walking the list of all sockets.     *)
(*                                                                         *)
(* All that changes filters holds the rtnl and the socket's lock, so there *)
(* is one such call at a time (`rtnl'); receptions run meanwhile.  Options *)
(* that no lock protects are chosen at the start.  Errors reported to a    *)
(* socket (sk_err) are left out.                                           *)
(***************************************************************************)
EXTENDS CanRx

CONSTANTS
  RawSocks,   \* the sockets
  RawCalls    \* calls begun while a frame is delivered (a bound)

ASSUME RawAssumption == RawSocks \subseteq Socks /\ IsFiniteSet(RawSocks)

VARIABLES
  ro,                \* struct raw_sock
  uniq,              \* ro->uniq, by processor, for the frame at hand there
  rtnl,              \* the call that changes filters now
  raw_notifier_list, \* the sockets the notifier visits, in order
  raw_busy_notifier, \* the one it is at
  rpc,               \* raw_release()
  calls              \* the calls begun since the last frame came in

rawVars == <<ro, uniq, calls, rtnl, raw_notifier_list, raw_busy_notifier, rpc>>

NoCall == [kind |-> "none", sk |-> NIL, dev |-> NIL, todo |-> <<>>, done |-> <<>>, new |-> NIL]

\* Nothing of the frame at hand seen yet; no call changes the filters.
Unseen == [seen |-> FALSE, joined |-> 0, queued |-> 0, calm |-> TRUE]

\* raw_init(), and what setsockopt() set before the first bind(), alike for all
\* sockets: filters, options, the frame types (CC, FD, XL) taken.
RawInit(opts) ==
  /\ \E r \in opts : ro = [k \in RawSocks |->
       [filter |-> r.filter, join |-> r.join, own |-> r.own, kinds |-> r.kinds,
        bound |-> FALSE, dev |-> NIL, err_mask |-> {}]]
  /\ calls = 0
  /\ uniq = [k \in RawSocks |-> [c \in Cpus |-> Unseen]]
  /\ rtnl = NoCall
  /\ raw_notifier_list = SetToSeq(RawSocks) /\ raw_busy_notifier = NIL
  /\ rpc = [k \in RawSocks |-> "open"]

-----------------------------------------------------------------------------
(* Reception: raw_rcv(), in the softirq on processor c. *)

\* The frame that comes in is new to all sockets (can_set_skb_uid()).
NewFrame(c) ==
  /\ uniq' = [k \in RawSocks |-> [uniq[k] EXCEPT ![c] = [Unseen EXCEPT !.calm = rtnl.sk # k]]]
  /\ UNCHANGED <<ro, calls, rtnl, raw_notifier_list, raw_busy_notifier, rpc>>

\* So what was noted of the last one does not matter.
OldFrame(c) ==
  /\ uniq' = [k \in RawSocks |-> [uniq[k] EXCEPT ![c] = Unseen]] /\ calls' = 0
  /\ UNCHANGED <<ro, rtnl, raw_notifier_list, raw_busy_notifier, rpc>>

\* The filters of k change under the receptions there are.
Disturbed(k) == [uniq EXCEPT ![k] = [c \in Cpus |-> [@[c] EXCEPT !.calm = c \notin Readers]]]

RawTakes(k, frame) == (ro[k].own \/ frame.sk # k) /\ frame.kind \in ro[k].kinds

\* With CAN_RAW_JOIN_FILTERS the frame waits for all filters.
Passes_bug(k, u) == ~u.seen \/ (ro[k].join /\ u.joined + 1 >= Len(ro[k].filter))

\* Of several matches one passes: the first, or with CAN_RAW_JOIN_FILTERS the
\* one that completes the filters.
Passes(k, u) ==
  IF ro[k].join THEN u.joined + 1 >= Len(ro[k].filter) ELSE ~u.seen

\* What is noted of a match.
Noted(k, u) ==
  [u EXCEPT !.seen = TRUE, !.joined = IF ro[k].join THEN @ + 1 ELSE 1,
            !.queued = IF Passes(k, u) THEN @ + 1 ELSE @]

raw_rcv(c) ==
  LET k == Callee(c)
      u == uniq[k][c]
  IN /\ k \in RawSocks
     /\ IF RawTakes(k, walk[c].frame)
        THEN uniq' = [uniq EXCEPT ![k][c] = Noted(k, u)]
        ELSE UNCHANGED uniq
     /\ Returned(c)
     /\ UNCHANGED <<rcv, waits, refs, backlog, up>>
     /\ UNCHANGED <<ro, calls, rtnl, raw_notifier_list, raw_busy_notifier, rpc>>

-----------------------------------------------------------------------------
(* Calls that change filters: a list of registrations and unregistrations. *)

Task(what, dev, filters) == [i \in 1..Len(filters) |-> [what |-> what, dev |-> dev, f |-> filters[i]]]

ErrFilters(mask) == IF mask = {} THEN <<>> ELSE <<[id |-> {}, mask |-> mask \cup {ERR}]>>
AllFilters(r) == r.filter \o ErrFilters(r.err_mask)

\* raw_disable_allfilters() of a bound socket.
DisableAll(r) == IF r.bound THEN Task("unreg", r.dev, AllFilters(r)) ELSE <<>>

Begin(kind, k, todo, new) ==
  /\ rtnl = NoCall
  /\ Readers # {} => calls < RawCalls
  /\ calls' = IF Readers # {} THEN calls + 1 ELSE 0
  /\ rtnl' = [NoCall EXCEPT !.kind = kind, !.sk = k, !.todo = todo, !.new = new]
  /\ uniq' = Disturbed(k)

raw_bind(k, dev) ==
  /\ rpc[k] = "open" /\ ~(ro[k].bound /\ ro[k].dev = dev)
  /\ Begin("bind", k, Task("reg", dev, AllFilters(ro[k])) \o DisableAll(ro[k]),
           [ro[k] EXCEPT !.bound = TRUE, !.dev = dev])
  /\ UNCHANGED <<rxVars, ro, raw_notifier_list, raw_busy_notifier, rpc>>

\* CAN_RAW_FILTER and CAN_RAW_ERR_FILTER: the new ones first, then the old.
Replace(k, old, new, r) ==
  /\ rpc[k] = "open"
  /\ Begin("option", k,
           IF ro[k].bound THEN Task("reg", ro[k].dev, new) \o Task("unreg", ro[k].dev, old)
                          ELSE <<>>, r)
  /\ UNCHANGED <<rxVars, ro, raw_notifier_list, raw_busy_notifier, rpc>>

raw_setsockopt(k, lists, masks) ==
  \/ \E fs \in lists : Replace(k, ro[k].filter, fs, [ro[k] EXCEPT !.filter = fs])
  \/ \E m \in masks :
       Replace(k, ErrFilters(ro[k].err_mask), ErrFilters(m), [ro[k] EXCEPT !.err_mask = m])

\* The filters registered before the last one stay.
Undo_bug(done) == Reverse(SubSeq(done, 1, Len(done) - 1))

\* "clean up successfully registered filters"
Undo(done) == Reverse(done)

\* With `faults' allocation may fail.
Registers(faults) ==
  LET t == Head(rtnl.todo)
  IN /\ t.what = "reg"
     /\ \/ /\ can_rx_register(t.dev, t.f, rtnl.sk)
           /\ rtnl' = [rtnl EXCEPT !.todo = Tail(@), !.done = Append(@, [t EXCEPT !.what = "unreg"])]
        \/ /\ faults
           /\ rtnl' = [rtnl EXCEPT !.todo = Undo(rtnl.done), !.done = <<>>, !.new = ro[rtnl.sk]]
           /\ UNCHANGED rcv
     /\ UNCHANGED refs

Unregisters ==
  LET t == Head(rtnl.todo)
  IN /\ t.what = "unreg"
     /\ can_rx_unregister(t.dev, t.f, rtnl.sk)
     /\ rtnl' = [rtnl EXCEPT !.todo = Tail(@)]

RawTask(faults) ==
  /\ rtnl.todo # <<>>
  /\ Registers(faults) \/ Unregisters
  /\ UNCHANGED <<waits, walk, backlog, up>>
  /\ UNCHANGED <<ro, uniq, calls, raw_notifier_list, raw_busy_notifier, rpc>>

\* The socket's fields are set and the call returns.
RawCommit ==
  /\ rtnl.kind \in {"bind", "option"} /\ rtnl.todo = <<>>
  /\ ro' = [ro EXCEPT ![rtnl.sk] = rtnl.new] /\ rtnl' = NoCall
  /\ UNCHANGED <<rxVars, uniq, calls, raw_notifier_list, raw_busy_notifier, rpc>>

-----------------------------------------------------------------------------
(* The notifier and raw_release(). *)

Off(r) == [r EXCEPT !.bound = FALSE, !.dev = NIL, !.filter = <<>>]

\* raw_notifier(), NETDEV_UNREGISTER of dev: it visits the sockets in turn.
raw_notifier(dev) ==
  /\ rtnl = NoCall /\ raw_busy_notifier = NIL /\ raw_notifier_list # <<>>
  /\ raw_busy_notifier' = Head(raw_notifier_list)
  /\ rtnl' = [NoCall EXCEPT !.kind = "notify", !.dev = dev]
  /\ UNCHANGED <<rxVars, ro, uniq, calls, raw_notifier_list, rpc>>

\* raw_notify() of a socket bound to the device.
raw_notify ==
  LET k == raw_busy_notifier
  IN /\ rtnl.kind = "notify" /\ rtnl.sk = NIL /\ k # NIL
     /\ ro[k].dev = rtnl.dev
     /\ rtnl' = [rtnl EXCEPT !.sk = k, !.todo = DisableAll(ro[k]), !.new = Off(ro[k])]
     /\ uniq' = Disturbed(k)
     /\ UNCHANGED <<rxVars, ro, calls, raw_notifier_list, raw_busy_notifier, rpc>>

\* On to the socket behind this one in the list, or the end.
raw_notify_next ==
  LET k == raw_busy_notifier
      i == SelectInSeq(raw_notifier_list, LAMBDA x : x = k)
  IN /\ rtnl.kind = "notify" /\ rtnl.todo = <<>>
     /\ rtnl.sk = NIL => ro[k].dev # rtnl.dev
     /\ ro' = IF rtnl.sk = NIL THEN ro ELSE [ro EXCEPT ![k] = rtnl.new]
     /\ IF i < Len(raw_notifier_list)
        THEN /\ raw_busy_notifier' = raw_notifier_list[i + 1]
             /\ rtnl' = [rtnl EXCEPT !.sk = NIL, !.new = NIL]
        ELSE raw_busy_notifier' = NIL /\ rtnl' = NoCall
     /\ UNCHANGED <<rxVars, uniq, calls, raw_notifier_list, rpc>>

raw_release(k) ==
  /\ rpc[k] = "open" /\ (rtnl.sk = k => rtnl.kind = "notify")
  /\ rpc' = [rpc EXCEPT ![k] = "list"]
  /\ UNCHANGED <<rxVars, ro, uniq, calls, rtnl, raw_notifier_list, raw_busy_notifier>>

\* The socket is taken out while the notifier is at it.
NotBusy_bug(k) == TRUE

\* while (raw_busy_notifier == ro)
NotBusy(k) == raw_busy_notifier # k

raw_release_list(k) ==
  /\ rpc[k] = "list" /\ NotBusy(k)
  /\ raw_notifier_list' = RemoveFirst(raw_notifier_list, k)
  /\ rpc' = [rpc EXCEPT ![k] = "rtnl"]
  /\ UNCHANGED <<rxVars, ro, uniq, calls, rtnl, raw_busy_notifier>>

raw_release_rtnl(k) ==
  /\ rpc[k] = "rtnl"
  /\ Begin("release", k, DisableAll(ro[k]), Off(ro[k]))
  /\ UNCHANGED <<rxVars, ro, raw_notifier_list, raw_busy_notifier, rpc>>

raw_release_done ==
  /\ rtnl.kind = "release" /\ rtnl.todo = <<>>
  /\ ro' = [ro EXCEPT ![rtnl.sk] = rtnl.new]
  /\ rpc' = [rpc EXCEPT ![rtnl.sk] = "gone"]
  /\ refs' = sock_put(rtnl.sk)
  /\ rtnl' = NoCall
  /\ UNCHANGED <<rcv, waits, walk, backlog, up, uniq, calls, raw_notifier_list, raw_busy_notifier>>

-----------------------------------------------------------------------------
\* raw_sendmsg(), on a bound socket; one frame is under way (a bound).
raw_sendmsg(k, frame) ==
  /\ rpc[k] = "open" /\ ro[k].bound /\ backlog = <<>>
  /\ can_send([frame EXCEPT !.sk = k], TRUE, TRUE)
  /\ UNCHANGED <<rcv, waits, refs, walk, up, rawVars>>

RawStep(faults) ==
  \/ (\E c \in Cpus : raw_rcv(c))
  \/ RawTask(faults) \/ RawCommit \/ raw_notify \/ raw_notify_next \/ raw_release_done
  \/ \E k \in RawSocks : raw_release_list(k) \/ raw_release_rtnl(k)

RawCall(k, devs, lists, masks) ==
  raw_setsockopt(k, lists, masks) \/ raw_release(k) \/ \E d \in devs : raw_bind(k, d)

RawEvent == \E d \in Devs : raw_notifier(d)

-----------------------------------------------------------------------------
(* Safety. *)

\* A frame is never handed to a socket twice (without CAN_RAW_JOIN_FILTERS),
\* whatever happens to its filters meanwhile; and while they are left alone it
\* is handed over exactly when a filter matches it or, for data frames with
\* CAN_RAW_JOIN_FILTERS, when all of them do.
Wanted(k, frame) ==
  LET Match(f) == FilterMatches(f, frame.id)
      Some(fs) == \E i \in 1..Len(fs) : Match(fs[i])
  IN /\ RawTakes(k, frame) /\ ro[k].bound /\ ro[k].dev \in {AllDevs, frame.dev}
     /\ IF ro[k].join THEN Some(ro[k].filter) /\ \A i \in 1..Len(ro[k].filter) : Match(ro[k].filter[i])
                      ELSE Some(AllFilters(ro[k]))

RawDelivery ==
  \A k \in RawSocks, c \in Cpus :
    /\ ~ro[k].join => uniq[k][c].queued <= 1
    /\ Ended(c) /\ uniq[k][c].calm /\ ~(ro[k].join /\ ERR \in walk[c].frame.id) =>
         uniq[k][c].queued = IF Wanted(k, walk[c].frame) THEN 1 ELSE 0

\* Between the calls the registrations of a socket are those of its fields,
\* each once, also after calls that failed half way: none is left behind and
\* none is lost.  Filters that are sorted in alike stand for each other.
RawRegistered ==
  rtnl = NoCall => \A k \in RawSocks :
    LET mine  == {s \in On : rcv[s].owner = k}
        fs    == AllFilters(ro[k])
        want  == IF ro[k].bound THEN [i \in 1..Len(fs) |-> can_rcv_list_find(fs[i])] ELSE <<>>
        of(s) == [list |-> rcv[s].list, id |-> rcv[s].id, mask |-> rcv[s].mask]
    IN /\ \A e \in ToSet(want) \cup {of(s) : s \in mine} :
            Cardinality({s \in mine : of(s) = e}) = Cardinality({i \in 1..Len(want) : want[i] = e})
       /\ \A s \in mine : rcv[s].dev = ro[k].dev

\* The notifier never stands on a socket that release() has taken out of the
\* list, nor works on one that is released; and who waits for the notifier waits
\* for one that is under way.
NotifierSafe ==
  /\ raw_busy_notifier # NIL =>
       raw_busy_notifier \in ToSet(raw_notifier_list) /\ rtnl.kind = "notify"
  /\ rtnl.sk # NIL => rpc[rtnl.sk] # "gone"
=============================================================================
