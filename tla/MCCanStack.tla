------------------------------ MODULE MCCanStack ------------------------------
(* Small instances of CanStack in one run: a scene for each mask, and nine more. *)
EXTENDS CanStack

CONSTANTS c1, c2, s1, s2, s3, s4, o1, k1, k2, k3, d1, d2, any, j1, j2, m1, m2, m3, txop, rxop, sync

Frame(id, dev) ==
  [id |-> id, dev |-> dev, sk |-> NIL, kind |-> "CC", iif |-> dev, hops |-> 0, times |-> 0,
   limit |-> max_hops, data |-> 1]

RawOpt(filter, join, own) == [filter |-> filter, join |-> join, own |-> own, kinds |-> {"CC"}]

\* All extended frames, some of them, one identifier.
Ext == [id |-> {EFF}, mask |-> {EFF}]
Ext0 == [id |-> {EFF, 0}, mask |-> {EFF, 0}]
One == [id |-> {EFF}, mask |-> {EFF, RTR} \cup EFF_MASK]

Scene(part, cpus, frames) ==
  [part |-> part, cpus |-> cpus, frames |-> frames, slots |-> 0, socks |-> {},
   opts |-> {RawOpt(<<Ext>>, FALSE, TRUE)}, lists |-> {}, masks |-> {}, sends |-> {},
   faults |-> part = "raw", devs |-> {}, filters |-> {}]

\* Every filter against every frame: standard and extended identifiers with a
\* bit in each part that a mask may leave out, RTR and error frames.
MCIds == {{}, {0}, {10}, {0, 10}, {0, RTR}, {EFF}, {EFF, 0}, {EFF, 10}, {EFF, 20}, {EFF, 0, RTR},
          {ERR, 0}, {ERR, 3}}
MCMasks == {{}, {0}, SFF_MASK, SFF_MASK \cup {EFF}, SFF_MASK \cup {EFF, RTR},
            EFF_MASK \cup {EFF, RTR}, EFF_MASK \cup {EFF}, {EFF}, {ERR, 0}, {ERR, 0, 3}}
MCFilters(m) ==
  {[id |-> i, mask |-> m] : i \in {x \cup y : x \in {i \in MCIds : ERR \notin i}, y \in {{}, {INV}}}}

MCFilterSet == UNION {MCFilters(m) : m \in MCMasks} \cup {Ext, Ext0, One}

ASSUME WellFormed

FilterScene(m) ==
  [Scene("plain", {c1}, {Frame(i, d1) : i \in MCIds}) EXCEPT
     !.slots = 1, !.devs = Devs \cup {any}, !.filters = MCFilters(m)]

\* A list of three changes under two walks: its receivers look alike, so that it
\* is the first that is unlinked.
ListScene ==
  [Scene("plain", Cpus, {Frame({EFF}, d1)}) EXCEPT !.slots = 3, !.devs = {d1}, !.filters = {Ext}]

\* A list of receivers of two kinds, of which any may be unlinked.
MixedScene(cpus, n) ==
  [Scene("plain", cpus, {Frame({EFF, 0}, d1)}) EXCEPT
     !.slots = n, !.devs = {d1}, !.filters = {Ext, Ext0}]

\* A socket replaces its filters under frames, its own or others.
RawScene ==
  [Scene("raw", {c1}, {Frame({EFF, 0}, d1)}) EXCEPT
     !.socks = {k1}, !.opts = {RawOpt(<<Ext, Ext0>>, j, j) : j \in BOOLEAN},
     !.lists = {<<Ext0>>}, !.sends = {Frame({EFF}, d1)}, !.faults = FALSE, !.devs = {d1}]

\* The error mask comes and goes; allocation fails.
ErrorScene ==
  [Scene("raw", {c1}, {Frame({EFF}, d1), Frame({ERR, 0}, d1)}) EXCEPT
     !.socks = {k1}, !.devs = {d1}, !.masks = {{}, {0}}]

\* Two sockets bind, unbind and close under the notifier.
NotifierScene ==
  [Scene("raw", {}, {}) EXCEPT !.socks = {k1, k2}, !.devs = {d1, any}, !.masks = {{0}}]

\* A loop of two jobs, one of them with a limit.
GwScene == Scene("gw", {c1}, {Frame({EFF}, d1), [Frame({EFF}, d1) EXCEPT !.kind = "FD"]})
MCJobSpecs ==
  {[src |-> d1, dst |-> d2, filter |-> Ext, fd |-> FALSE, iif_ok |-> TRUE, echo |-> TRUE,
    limit |-> 2, uid |-> 1, content |-> 1],
   [src |-> d2, dst |-> d1, filter |-> Ext, fd |-> FALSE, iif_ok |-> TRUE, echo |-> TRUE,
    limit |-> 0, uid |-> 0, content |-> 1]}

\* Cyclic transmission.
TxScene == Scene("bcm_tx", {}, {})
MCTxReqs ==
  {[flags |-> {"SETTIMER", "STARTTIMER"}, nframes |-> 2, count |-> 2, ival1 |-> TRUE, ival2 |-> TRUE],
   [flags |-> {"SETTIMER", "STARTTIMER"}, nframes |-> 1, count |-> 1, ival1 |-> TRUE, ival2 |-> FALSE],
   [flags |-> {"SETTIMER"}, nframes |-> 2, count |-> 1, ival1 |-> FALSE, ival2 |-> FALSE],
   [flags |-> {"TX_ANNOUNCE", "TX_RESET_MULTI_IDX"}, nframes |-> 2, count |-> 0,
    ival1 |-> FALSE, ival2 |-> FALSE]}

\* A content filter.
RxScene ==
  Scene("bcm_rx", {c1}, {Frame({EFF}, d1), [Frame({EFF}, d1) EXCEPT !.data = 2],
                      [Frame({EFF}, d1) EXCEPT !.kind = "FD"]})
MCRxReqs ==
  {[flags |-> {"SETTIMER", "STARTTIMER"}, ival1 |-> TRUE, ival2 |-> TRUE],
   [flags |-> {"SETTIMER", "RX_ANNOUNCE_RESUME"}, ival1 |-> TRUE, ival2 |-> TRUE],
   [flags |-> {"SETTIMER"}, ival1 |-> FALSE, ival2 |-> FALSE],
   [flags |-> {"RX_FILTER_ID"}, ival1 |-> FALSE, ival2 |-> TRUE]}

MCScenes ==
  {FilterScene(m) : m \in MCMasks}
    \cup {ListScene, MixedScene({c1}, 3), MixedScene(Cpus, 2)}
    \cup {RawScene, ErrorScene, NotifierScene, GwScene, TxScene, RxScene}
====
