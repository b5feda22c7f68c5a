---------------------------------- MODULE Gw ----------------------------------
(***************************************************************************)
(* The CAN gateway (net/can/gw.c): routing jobs, each a receiver of CanRx  *)
(* on its source device whose callback sends a copy of the frame, changed  *)
(* as the job's cf_mod says, on its destination device.  Netlink requests  *)
(* and the notifier hold the rtnl; callbacks run under rcu_read_lock()     *)
(* only.  What a modification does to a frame is left out, but not its     *)
(* lifetime: an update replaces the cf_mod under running callbacks.        *)
(***************************************************************************)
EXTENDS CanRx

CONSTANTS
  Jobs,      \* memory for jobs (a bound)
  Mods,      \* memory for their modifications (a bound)
  JobSpecs,  \* the jobs user space asks for: [src, dst, filter, fd, iif_ok,
             \* echo : flags CGW_FLAGS_CAN_FD, CAN_IIF_TX_OK and CAN_ECHO,
             \* limit : limit_hops, 0 without, uid : 0 without, content]
  max_hops,  \* module parameter
  InFlight   \* frames under way at a time (a bound)

ASSUME GwAssumption ==
  /\ Jobs \subseteq Owners \ Socks /\ Jobs \cup Mods \subseteq Deferred
  /\ max_hops \in Nat \ {0}
  /\ NIL \notin Jobs \cup Mods
  /\ \A j \in JobSpecs :
       /\ {j.src, j.dst} \subseteq Devs /\ j.filter \in CanFilters
       /\ j.limit \in 0..max_hops /\ {j.fd, j.iif_ok, j.echo} \subseteq BOOLEAN

VARIABLES
  job,      \* struct cgw_job
  cf_mod,   \* struct cf_mod
  cgw_list, \* the jobs in net->can.cgw_list
  flush,    \* the jobs cgw_remove_all_jobs() or the notifier still removes
  using,    \* the cf_mod a callback has read, by processor
  gone      \* unregistered devices

gwVars == <<job, cf_mod, cgw_list, flush, using, gone>>

NoJob == [state |-> "free", spec |-> NIL, mod |-> NIL]
NoMod == [state |-> "free", uid |-> 0, content |-> NIL]

GwInit ==
  /\ job = [j \in Jobs |-> NoJob] /\ cf_mod = [m \in Mods |-> NoMod]
  /\ cgw_list = <<>> /\ flush = {} /\ using = [c \in Cpus |-> NIL] /\ gone = {}

-----------------------------------------------------------------------------
(* can_can_gw_rcv(). *)

\* A frame that is not routed: of another kind than the job's ("strictly Classic
\* CAN or CAN FD frames"), with too many hops, or back to where it came from.
Stays(spec, frame) ==
  \/ frame.kind # IF spec.fd THEN "FD" ELSE "CC"
  \/ frame.hops >= max_hops
  \/ ~up[spec.dst]
  \/ ~spec.iif_ok /\ frame.iif = spec.dst

\* rcu_dereference(gwj->cf_mod), and the copy (which may fail).
GwRead(c) ==
  LET j == Callee(c)
  IN /\ j \in Jobs /\ using[c] = NIL
     /\ IF Stays(job[j].spec, walk[c].frame)
        THEN Returned(c) /\ UNCHANGED using
        ELSE using' = [using EXCEPT ![c] = job[j].mod] /\ UNCHANGED walk
     /\ UNCHANGED <<rcv, waits, refs, backlog, up, job, cf_mod, cgw_list, flush, gone>>

\* The limit counts from the wrong end.
Hops_bug(spec, hops) ==
  IF spec.limit > 0 /\ hops + 1 = 1 THEN max_hops - spec.limit ELSE hops + 1

\* "first processing of this CAN frame -> adjust to private hop limit"
Hops(spec, hops) ==
  IF spec.limit > 0 /\ hops + 1 = 1 THEN max_hops - spec.limit + 1 ELSE hops + 1

\* History: how often the frame was routed, and the limit of its first job.
Routed(spec, frame) ==
  [frame EXCEPT !.dev = spec.dst, !.hops = Hops(spec, @), !.times = @ + 1,
                !.limit = IF frame.times > 0 THEN @
                          ELSE IF spec.limit > 0 THEN spec.limit ELSE max_hops]

GwSend(c) ==
  LET spec == job[Callee(c)].spec
  IN /\ Callee(c) \in Jobs /\ using[c] # NIL
     /\ \E ok \in BOOLEAN :
          can_send(Routed(spec, walk[c].frame), spec.echo /\ Len(backlog) < InFlight, ok)
     /\ using' = [using EXCEPT ![c] = NIL]
     /\ Returned(c)
     /\ UNCHANGED <<rcv, waits, refs, up, job, cf_mod, cgw_list, flush, gone>>

-----------------------------------------------------------------------------
(* Netlink requests. *)

Same(a, b) == a.src = b.src /\ a.dst = b.dst /\ a.filter = b.filter

Uid(j) == cf_mod[job[j].mod].uid

NewMod(s) == [state |-> "used", uid |-> s.uid, content |-> s.content]

\* The old one is freed at once.
ModReaders_bug == {}

\* kfree_rcu_mightsleep() waits for the walks under way.
ModReaders == Readers

FreeMod(m) == IF ModReaders = {} THEN NoMod ELSE [cf_mod[m] EXCEPT !.state = "old"]

\* cgw_create_job() with the uid of an existing job: only cf_mod changes, when
\* interfaces and filter are the same; the flags and limit are not looked at.
GwUpdate(s) ==
  \E i \in 1..Len(cgw_list) :
    LET j == cgw_list[i]
        m == FirstFree(Mods, cf_mod, NoMod)
    IN /\ s.uid # 0 /\ Uid(j) = s.uid /\ \A k \in 1..(i - 1) : Uid(cgw_list[k]) # s.uid
       /\ Same(job[j].spec, s) /\ \E x \in Mods : cf_mod[x] = NoMod
       /\ job' = [job EXCEPT ![j].mod = m]
       /\ cf_mod' = [cf_mod EXCEPT ![m] = NewMod(s), ![job[j].mod] = FreeMod(job[j].mod)]
       /\ waits' = [waits EXCEPT ![job[j].mod] = ModReaders]
       /\ UNCHANGED <<rcv, refs, walk, backlog, up, cgw_list, flush, using, gone>>

GwCreate(s) ==
  /\ s.uid = 0 \/ \A i \in 1..Len(cgw_list) : Uid(cgw_list[i]) # s.uid
  /\ {s.src, s.dst} \cap gone = {} /\ (s.src = s.dst => s.iif_ok)
  /\ \E j \in Jobs : job[j] = NoJob
  /\ \E m \in Mods : cf_mod[m] = NoMod
  /\ LET j == FirstFree(Jobs, job, NoJob)
         m == FirstFree(Mods, cf_mod, NoMod)
     IN
       /\ can_rx_register(s.src, s.filter, j)
       /\ job' = [job EXCEPT ![j] = [state |-> "on", spec |-> s, mod |-> m]]
       /\ cf_mod' = [cf_mod EXCEPT ![m] = NewMod(s)]
       /\ cgw_list' = <<j>> \o cgw_list
  /\ UNCHANGED <<waits, refs, walk, backlog, up, flush, using, gone>>

cgw_create_job(s) == flush = {} /\ (GwUpdate(s) \/ GwCreate(s))

\* Out of the list, filter unregistered, freed with its cf_mod after a grace
\* period (cgw_job_free_rcu()).
cgw_remove(j) ==
  /\ cgw_list' = RemoveFirst(cgw_list, j)
  /\ can_rx_unregister(job[j].spec.src, job[j].spec.filter, j)
  /\ IF Readers = {}
     THEN job' = [job EXCEPT ![j] = NoJob] /\ cf_mod' = [cf_mod EXCEPT ![job[j].mod] = NoMod]
     ELSE job' = [job EXCEPT ![j].state = "off"] /\ UNCHANGED cf_mod
  /\ waits' = [waits EXCEPT ![j] = Readers]

\* A job a request to remove s takes for the one meant.
Meant(j, s) ==
  LET t == job[j].spec
  IN /\ t.fd = s.fd /\ t.iif_ok = s.iif_ok /\ t.echo = s.echo /\ t.limit = s.limit
     /\ IF Uid(j) # 0 \/ s.uid # 0 THEN Uid(j) = s.uid
                                   ELSE cf_mod[job[j].mod].content = s.content
     /\ Same(t, s)

cgw_remove_job(s) ==
  /\ flush = {}
  /\ \E i \in 1..Len(cgw_list) :
       /\ Meant(cgw_list[i], s) /\ \A k \in 1..(i - 1) : ~Meant(cgw_list[k], s)
       /\ cgw_remove(cgw_list[i])
  /\ UNCHANGED <<walk, backlog, up, flush, using, gone>>

cgw_remove_all_jobs ==
  /\ flush = {} /\ cgw_list # <<>> /\ flush' = ToSet(cgw_list)
  /\ UNCHANGED <<rxVars, job, cf_mod, cgw_list, using, gone>>

\* Jobs that only send to the device are left.
OnDevice_bug(j, dev) == job[j].spec.src = dev

OnDevice(j, dev) == dev \in {job[j].spec.src, job[j].spec.dst}

\* cgw_notifier(), NETDEV_UNREGISTER.
cgw_notifier(dev) ==
  /\ flush = {} /\ dev \notin gone
  /\ gone' = gone \cup {dev} /\ up' = [up EXCEPT ![dev] = FALSE]
  /\ flush' = {j \in ToSet(cgw_list) : OnDevice(j, dev)}
  /\ UNCHANGED <<rcv, waits, refs, walk, backlog, job, cf_mod, cgw_list, using>>

GwFlush ==
  /\ \E j \in flush : cgw_remove(j) /\ flush' = flush \ {j}
  /\ UNCHANGED <<walk, backlog, up, using, gone>>

\* The grace periods that end with a walk on c.
GwFreed(c) ==
  LET js == {j \in Jobs : job[j].state = "off" /\ waits[j] \subseteq {c}}
      ms == {m \in Mods : cf_mod[m].state = "old" /\ waits[m] \subseteq {c}}
  IN /\ job' = [j \in Jobs |-> IF j \in js THEN NoJob ELSE job[j]]
     /\ cf_mod' = [m \in Mods |-> IF m \in ms \cup {job[j].mod : j \in js} THEN NoMod ELSE cf_mod[m]]
     /\ UNCHANGED <<cgw_list, flush, using, gone>>

GwStep == GwFlush \/ \E c \in Cpus : GwRead(c) \/ GwSend(c)

GwCall ==
  \/ \E s \in JobSpecs : cgw_create_job(s) \/ cgw_remove_job(s)
  \/ cgw_remove_all_jobs \/ \E d \in Devs : cgw_notifier(d)

-----------------------------------------------------------------------------
(* Safety. *)

\* A frame whose first job limits its hops is not routed more often than that,
\* and none more often than max_hops, over whatever jobs, loops included: what
\* gw.h says of CGW_LIM_HOPS, from a counter that starts near its end.
Frames == ToSet(backlog) \cup {walk[c].frame : c \in Readers}
HopsLimited == \A f \in Frames : f.times <= f.limit

\* A callback works on a job and a modification that are not freed, while jobs
\* are removed and modifications replaced under it.
JobAlive ==
  \A c \in Cpus :
    /\ Callee(c) \in Jobs => job[Callee(c)].state # "free"
    /\ using[c] # NIL => cf_mod[using[c]].state # "free"

\* Between requests each listed job has its one filter, nothing else has, no
\* job names a device that is gone, and no modification is shared or lost.
JobsListed ==
  flush = {} =>
    LET listed == ToSet(cgw_list)
        mine   == {s \in On : rcv[s].owner \in Jobs}
    IN /\ Cardinality(mine) = Len(cgw_list) /\ {rcv[s].owner : s \in mine} = listed
       /\ \A j \in listed :
            /\ job[j].state = "on" /\ {job[j].spec.src, job[j].spec.dst} \cap gone = {}
            /\ \A k \in Jobs \ {j} : job[k].mod # job[j].mod
=============================================================================
