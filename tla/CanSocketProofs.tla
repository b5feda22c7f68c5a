-------------------------- MODULE CanSocketProofs ---------------------------
(***************************************************************************)
(* What the users of the lists get: theorems about CanStack, for every     *)
(* value of its constants, on the invariants of CanStackProofs.            *)
(*                                                                         *)
(*   DeliveryIsExact    A walk calls each receiver that is concerned and   *)
(*                      registered all the time once, and no other.        *)
(*   RawIsRegistered    The registrations of a raw socket are those of its *)
(*                      fields.                                            *)
(*   RawIsDelivered     A raw socket is handed a frame once at most, and   *)
(*                      while its filters stay exactly when they say so.   *)
(*   TxIndexInRange     A cyclic transmission sends one of its frames.     *)
(*   TxRuns             It goes on until its count is used up.             *)
(*   OperationsQuiet    Nothing runs for an operation that is freed.       *)
(*   ThrottlingWatched  A content that is throttled will be reported.      *)
(***************************************************************************)
EXTENDS CanStackProofs
-----------------------------------------------------------------------------
(* Sorting a filter into a list changes nothing of what it means. *)

\* What is sorted in as e is found by a walk for id, and passes the test there.
Meets(e, id) == InSeq(Lists(id), e.list) /\ Matches(e, id)

LEMMA ListsAre ==
  ASSUME NEW id
  PROVE  /\ NoTwice(Lists(id))
         /\ \A l : InSeq(Lists(id), l) <=>
              IF ERR \in id THEN l = <<"err">>
              ELSE \/ l \in {<<"all">>, <<"fil">>, <<"inv">>}
                   \/ RTR \notin id /\ EFF \in id /\ l = <<"eff", effhash(id)>>
                   \/ RTR \notin id /\ EFF \notin id /\ l = <<"sff", id \cap SFF_MASK>>
<1> DEFINE s == << <<"all">>, <<"fil">>, <<"inv">> >>
           t == CASE RTR \in id -> <<>>
                  [] RTR \notin id /\ EFF \in id -> << <<"eff", effhash(id)>> >>
                  [] OTHER -> << <<"sff", id \cap SFF_MASK>> >>
           S == {<<"all">>, <<"fil">>, <<"inv">>, <<"eff", effhash(id)>>, <<"sff", id \cap SFF_MASK>>}
<1>1. CASE ERR \in id
  <2>1. Lists(id) = << <<"err">> >>
    BY <1>1 DEF Lists
  <2> QED
    BY <1>1, <2>1 DEF NoTwice, InSeq
<1>2. CASE ERR \notin id
  <2>1. Lists(id) = s \o t
    BY <1>2 DEF Lists
  <2>2. /\ s \in Seq(S) /\ Len(s) = 3 /\ s[1] = <<"all">> /\ s[2] = <<"fil">> /\ s[3] = <<"inv">>
    OBVIOUS
  <2>3. /\ t \in Seq(S)
        /\ RTR \in id => Len(t) = 0
        /\ RTR \notin id /\ EFF \in id => Len(t) = 1 /\ t[1] = <<"eff", effhash(id)>>
        /\ RTR \notin id /\ EFF \notin id => Len(t) = 1 /\ t[1] = <<"sff", id \cap SFF_MASK>>
    <3>1. CASE RTR \in id
      <4>1. t = <<>>
        BY <3>1
      <4> QED
        BY <3>1, <4>1
    <3>2. CASE RTR \notin id /\ EFF \in id
      <4>1. t = << <<"eff", effhash(id)>> >>
        BY <3>2
      <4> QED
        BY <3>2, <4>1
    <3>3. CASE RTR \notin id /\ EFF \notin id
      <4>1. t = << <<"sff", id \cap SFF_MASK>> >>
        BY <3>3
      <4> QED
        BY <3>3, <4>1
    <3> QED
      BY <3>1, <3>2, <3>3
  <2>4. /\ <<"all">> # <<"fil">> /\ <<"all">> # <<"inv">> /\ <<"fil">> # <<"inv">>
        /\ \A x \in {"eff", "sff"} : \A y : \A z \in {"all", "fil", "inv"} : <<x, y>> # <<z>>
    <3>1. \A x \in {"eff", "sff"} : \A y : \A z \in {"all", "fil", "inv"} : <<x, y>>[1] # <<z>>[1]
      OBVIOUS
    <3> QED
      BY <3>1
  <2> HIDE DEF s, t, S
  <2>5. /\ Len(s \o t) = 3 + Len(t)
        /\ \A i \in 1..3 + Len(t) : (s \o t)[i] = IF i <= 3 THEN s[i] ELSE t[i - 3]
    <3>1. s \in Seq(S) /\ t \in Seq(S)
      BY <2>2, <2>3
    <3>2. /\ Len(s \o t) = Len(s) + Len(t)
          /\ \A i \in 1 .. Len(s) + Len(t) : (s \o t)[i] = IF i <= Len(s) THEN s[i] ELSE t[i - Len(s)]
      BY <3>1, ConcatProperties
    <3> QED
      BY <2>2, <3>2
  <2> DEFINE u == s \o t
  <2>6. /\ u[1] = <<"all">> /\ u[2] = <<"fil">> /\ u[3] = <<"inv">>
        /\ RTR \in id => Len(u) = 3
        /\ RTR \notin id => Len(u) = 4
        /\ RTR \notin id /\ EFF \in id => u[4] = <<"eff", effhash(id)>>
        /\ RTR \notin id /\ EFF \notin id => u[4] = <<"sff", id \cap SFF_MASK>>
    BY <2>2, <2>3, <2>5
  <2>7. Lists(id) = u
    BY <2>1
  <2> HIDE DEF u
  <2>8. NoTwice(u)
    BY <2>4, <2>6 DEF NoTwice
  <2>9. ASSUME NEW l
        PROVE  InSeq(u, l) <=> \/ l \in {<<"all">>, <<"fil">>, <<"inv">>}
                               \/ RTR \notin id /\ EFF \in id /\ l = <<"eff", effhash(id)>>
                               \/ RTR \notin id /\ EFF \notin id /\ l = <<"sff", id \cap SFF_MASK>>
    <3>1. CASE RTR \in id
      <4>1. InSeq(u, l) <=> \E i \in 1..3 : u[i] = l
        BY <2>6, <3>1 DEF InSeq
      <4> QED
        BY <2>6, <3>1, <4>1
    <3>2. CASE RTR \notin id
      <4>1. InSeq(u, l) <=> \E i \in 1..4 : u[i] = l
        BY <2>6, <3>2 DEF InSeq
      <4>2. InSeq(u, l) <=> l \in {<<"all">>, <<"fil">>, <<"inv">>} \/ l = u[4]
        BY <2>6, <4>1
      <4> QED
        BY <2>6, <3>2, <4>2
    <3> QED
      BY <3>1, <3>2
  <2> QED
    BY <1>2, <2>7, <2>8, <2>9
<1> QED
  BY <1>1, <1>2

\* The bits Reduced() drops are in no frame and in no filter that are well formed.
LEMMA ReducedIs ==
  ASSUME WellFormed, NEW g \in CanFilters, ERR \notin g.mask, NEW id \in Ids, ERR \notin id
  PROVE  /\ Reduced(g) \in SUBSET Bits /\ ERR \notin Reduced(g) /\ id \in SUBSET Bits
         /\ (id \cap Reduced(g) = g.id \cap Reduced(g))
              <=> (id \cap g.mask = (g.id \ {INV}) \cap g.mask)
<1>1. /\ g.id \in SUBSET Bits /\ g.mask \in SUBSET Bits /\ g \in Filters
      /\ id \in SUBSET Bits
  BY CanRxAssumption DEF CanFilters, FilterRec
<1>2. /\ EFF \notin id => id \cap EFF_MASK \subseteq SFF_MASK
      /\ EFF \in g.mask \ g.id => g.id \cap g.mask \cap EFF_MASK \subseteq SFF_MASK
  BY <1>1 DEF WellFormed
<1>3. CASE ~(EFF \in g.mask /\ EFF \notin g.id)
  <2>1. Reduced(g) = g.mask
    BY <1>3 DEF Reduced
  <2> QED
    BY <1>1, <2>1 DEF ERR, INV
<1>4. CASE EFF \in g.mask /\ EFF \notin g.id
  <2>1. Reduced(g) = g.mask \cap (SFF_MASK \cup {EFF, RTR})
    BY <1>4 DEF Reduced
  <2>2. \A b \in g.mask \ Reduced(g) : b \in EFF_MASK \ SFF_MASK
    <3> SUFFICES ASSUME NEW b \in g.mask, b \notin SFF_MASK, b # EFF, b # RTR, b # ERR
                 PROVE  b \in EFF_MASK
      BY <2>1
    <3> QED
      BY <1>1 DEF Bits, EFF, RTR, ERR, EFF_MASK
  <2>3. CASE EFF \in id
    <3>1. EFF \in Reduced(g) /\ EFF # INV
      BY <1>4, <2>1 DEF EFF, INV
    <3> QED
      BY <1>1, <1>4, <2>1, <2>3, <3>1
  <2>4. CASE EFF \notin id
    <3>1. \A b \in g.mask \ Reduced(g) : b \notin id /\ b \notin g.id
      BY <1>2, <1>4, <2>2, <2>4
    <3>2. INV \notin g.mask /\ Reduced(g) \subseteq g.mask
      BY <2>1 DEF ERR, INV
    <3> QED
      BY <1>1, <3>1, <3>2
  <2> QED
    BY <2>3, <2>4
<1> QED
  BY <1>3, <1>4

LEMMA SortedAlike ==
  ASSUME WellFormed, NEW g \in CanFilters, NEW id \in Ids
  PROVE  Meets(can_rcv_list_find(g), id) <=> FilterMatches(g, id)
<1> DEFINE e == can_rcv_list_find(g)
<1>1. CASE ERR \in g.mask
  <2>1. e = [list |-> <<"err">>, id |-> g.id, mask |-> g.mask \cap EFF_MASK]
    BY <1>1 DEF can_rcv_list_find
  <2>2. e.list = <<"err">> /\ e.mask = g.mask \cap EFF_MASK
    BY <2>1
  <2> HIDE DEF e
  <2>3. InSeq(Lists(id), e.list) <=> ERR \in id
    <3>1. \A z \in {"all", "fil", "inv"} : <<"err">>[1] # <<z>>[1]
      OBVIOUS
    <3>2. \A x \in {"eff", "sff"} : \A y : <<"err">>[1] # <<x, y>>[1]
      OBVIOUS
    <3> QED
      BY <2>2, <3>1, <3>2, ListsAre
  <2>4. Matches(e, id) <=> id \cap g.mask \cap EFF_MASK # {}
    BY <2>2 DEF Matches
  <2> QED
    BY <1>1, <2>3, <2>4 DEF Meets, FilterMatches, e
<1>2. CASE ERR \notin g.mask
  <2> DEFINE m == Reduced(g)
             i == g.id \cap m
             list == CASE INV \in g.id -> <<"inv">>
                       [] INV \notin g.id /\ m = {} -> <<"all">>
                       [] INV \notin g.id /\ EFF \in i /\ Single(i, m, EFF_MASK) -> <<"eff", effhash(i)>>
                       [] INV \notin g.id /\ EFF \notin i /\ Single(i, m, SFF_MASK) -> <<"sff", i>>
                       [] OTHER -> <<"fil">>
             same == id \cap g.mask = (g.id \ {INV}) \cap g.mask
  <2>1. e = [list |-> list, id |-> i, mask |-> m]
    BY <1>2 DEF can_rcv_list_find
  <2>2. e.list = list /\ e.id = i /\ e.mask = m
    <3> HIDE DEF list, i, m, e
    <3> QED
      BY <2>1
  <2>3. FilterMatches(g, id) <=> ERR \notin id /\ (same # (INV \in g.id))
    BY <1>2 DEF FilterMatches
  <2>4. i \subseteq m
    OBVIOUS
  <2>5. \/ INV \in g.id /\ list = <<"inv">>
        \/ INV \notin g.id /\ m = {} /\ list = <<"all">>
        \/ INV \notin g.id /\ EFF \in i /\ Single(i, m, EFF_MASK) /\ list = <<"eff", effhash(i)>>
        \/ INV \notin g.id /\ EFF \notin i /\ Single(i, m, SFF_MASK) /\ list = <<"sff", i>>
        \/ INV \notin g.id /\ list = <<"fil">>
    <3> HIDE DEF i, m
    <3> QED
      OBVIOUS
  <2> HIDE DEF e, list
  <2>6. CASE ERR \in id
    <3>1. \A z \in {"all", "fil", "inv"} : <<"err">>[1] # <<z>>[1]
      OBVIOUS
    <3>2. \A x \in {"eff", "sff"} : \A y : <<"err">>[1] # <<x, y>>[1]
      OBVIOUS
    <3>3. list # <<"err">>
      BY <2>5, <3>1, <3>2
    <3>4. ~InSeq(Lists(id), e.list)
      BY <2>2, <2>6, <3>3, ListsAre
    <3> QED
      BY <2>3, <2>6, <3>4 DEF Meets, e
  <2>7. CASE ERR \notin id
    <3>1. /\ m \in SUBSET Bits /\ ERR \notin m /\ id \in SUBSET Bits
          /\ (id \cap m = i) <=> same
      BY <1>2, <2>7, ReducedIs
    <3>2. \A l : InSeq(Lists(id), l) <=>
            \/ l \in {<<"all">>, <<"fil">>, <<"inv">>}
            \/ RTR \notin id /\ EFF \in id /\ l = <<"eff", effhash(id)>>
            \/ RTR \notin id /\ EFF \notin id /\ l = <<"sff", id \cap SFF_MASK>>
      BY <2>7, ListsAre
    <3> DEFINE meets == id \cap m = i
    <3>3. (meets <=> same) /\ (FilterMatches(g, id) <=> IF INV \in g.id THEN ~same ELSE same)
      BY <2>3, <2>7, <3>1
    <3> HIDE DEF m, i, same
    <3>4. ASSUME INV \in g.id, Meets(e, id) <=> ~meets PROVE Meets(e, id) <=> FilterMatches(g, id)
      BY <3>3, <3>4
    <3>5. ASSUME INV \notin g.id, Meets(e, id) <=> meets PROVE Meets(e, id) <=> FilterMatches(g, id)
      BY <3>3, <3>5
    <3>6. CASE INV \in g.id /\ list = <<"inv">>
      <4>1. InSeq(Lists(id), e.list) /\ e.list[1] = "inv"
        BY <2>2, <3>2, <3>6
      <4>2. Matches(e, id) <=> id \cap m # i
        BY <2>2, <4>1 DEF Matches
      <4> QED
        BY <3>6, <3>4, <4>1, <4>2 DEF Meets, e
    <3>7. CASE INV \notin g.id /\ m = {} /\ list = <<"all">>
      <4>1. InSeq(Lists(id), e.list) /\ e.list[1] = "all"
        BY <2>2, <3>2, <3>7
      <4>2. Matches(e, id) /\ id \cap m = i
        BY <2>2, <2>4, <3>7, <4>1 DEF Matches
      <4> QED
        BY <3>7, <3>5, <4>1, <4>2 DEF Meets, e
    <3>8. CASE INV \notin g.id /\ EFF \in i /\ Single(i, m, EFF_MASK) /\ list = <<"eff", effhash(i)>>
      <4>1. m = EFF_MASK \cup {EFF, RTR} /\ RTR \notin i
        BY <3>8 DEF Single
      <4>2. id \subseteq m
        BY <2>7, <3>1, <4>1 DEF Bits, EFF_MASK, EFF, RTR, ERR
      <4>3. id \cap m = i <=> id = i
        BY <4>2
      <4>4. e.list[1] = "eff" /\ e.list[2] = effhash(i)
        BY <2>2, <3>8
      <4>5. Matches(e, id) <=> id = i
        BY <2>2, <4>4 DEF Matches
      <4>6. id = i => InSeq(Lists(id), e.list)
        BY <2>2, <3>2, <3>8, <4>1
      <4>7. Meets(e, id) <=> meets
        BY <4>3, <4>5, <4>6 DEF Meets
      <4> QED
        BY <3>8, <3>5, <4>7 DEF e
    <3>9. CASE INV \notin g.id /\ EFF \notin i /\ Single(i, m, SFF_MASK) /\ list = <<"sff", i>>
      <4>1. m = SFF_MASK \cup {EFF, RTR} /\ RTR \notin i
        BY <3>9 DEF Single
      <4>2. e.list[1] = "sff" /\ e.list[2] = i /\ e.list = <<"sff", i>>
        BY <2>2, <3>9
      <4>3. Matches(e, id)
        BY <4>2 DEF Matches
      <4>4. \A z \in {"all", "fil", "inv"} : <<"sff", i>>[1] # <<z>>[1]
        OBVIOUS
      <4>5. \A y : <<"sff", i>>[1] # <<"eff", y>>[1]
        OBVIOUS
      <4>6. \A y : <<"sff", i>> = <<"sff", y>> <=> y = i
        OBVIOUS
      <4>7. InSeq(Lists(id), e.list) <=> RTR \notin id /\ EFF \notin id /\ id \cap SFF_MASK = i
        BY <3>2, <4>2, <4>4, <4>5, <4>6
      <4>8. id \cap m = i <=> RTR \notin id /\ EFF \notin id /\ id \cap SFF_MASK = i
        BY <2>4, <3>9, <4>1
      <4>9. Meets(e, id) <=> meets
        BY <4>3, <4>7, <4>8 DEF Meets
      <4> QED
        BY <3>9, <3>5, <4>9 DEF e
    <3>10. CASE INV \notin g.id /\ list = <<"fil">>
      <4>1. InSeq(Lists(id), e.list) /\ e.list[1] = "fil"
        BY <2>2, <3>2, <3>10
      <4>2. Matches(e, id) <=> id \cap m = i
        BY <2>2, <4>1 DEF Matches
      <4>3. Meets(e, id) <=> meets
        BY <4>1, <4>2 DEF Meets
      <4> QED
        BY <3>10, <3>5, <4>3 DEF e
    <3> QED
      BY <2>5, <3>6, <3>7, <3>8, <3>9, <3>10
  <2> QED
    BY <2>6, <2>7
<1> QED
  BY <1>1, <1>2

-----------------------------------------------------------------------------
(* What a walk may still come to. *)

\* What the walk on c may stand on, the list a receiver is in, and the sets a
\* walk does not leave.
Live(c) == {x \in Slots : rcv[x].state = "on" \/ (rcv[x].state = "off" /\ c \in rcv[x].gp)}
Place(s) == <<rcv[s].dev, rcv[s].list>>
Closed(T) == \A u \in T : rcv[u].nxt \in T \cup {NIL}

\* The receivers behind x.
Ahead(x) ==
  {s \in Slots : \A T \in SUBSET Slots : Closed(T) /\ rcv[x].nxt \in T \cup {NIL} => s \in T}

\* No set of receivers, unlinked ones too, links to all of its members; a receiver
\* is what can_rcv_list_find() makes of its filter; links do not leave a list, and
\* the list has one beginning.
Straight == \A T \in SUBSET Slots : T # {} => \E t \in T : \A u \in T : rcv[u].nxt # t
Entry(s) == [list |-> rcv[s].list, id |-> rcv[s].id, mask |-> rcv[s].mask]
SortedIn ==
  \A s \in Slots : rcv[s].state # "free" =>
    rcv[s].asked \in CanFilters /\ Entry(s) = can_rcv_list_find(rcv[s].asked)
SameList == \A s \in Slots : rcv[s].nxt # NIL => Place(rcv[s].nxt) = Place(s)
OneHead ==
  \A s, t \in On : Place(s) = Place(t) /\ (\A u \in On : rcv[u].nxt \notin {s, t}) => s = t

OrderInv == Straight /\ SortedIn /\ SameList /\ OneHead

LEMMA CoreFacts ==
  ASSUME CoreInv
  PROVE  /\ rcv \in [Slots -> RcvRec] /\ walk \in [Cpus -> WalkRec] /\ NIL \notin Slots
         /\ On \subseteq Slots /\ ListInv /\ Acyclic /\ WalkInv
         /\ \A x \in Slots : /\ rcv[x] \in RcvRec /\ SlotOK(x)
                             /\ rcv[x].nxt \in Slots \cup {NIL}
                             /\ rcv[x].state \in {"free", "on", "off"}
                             /\ x \in On <=> rcv[x].state = "on"
         /\ \A c \in Cpus : walk[c] \in WalkRec /\ WalkOK(c)
<1>1. rcv \in [Slots -> RcvRec] /\ walk \in [Cpus -> WalkRec] /\ ListInv /\ WalkInv
  BY DEF CoreInv, CoreTypeOK
<1>2. NIL \notin Slots
  BY CanRxAssumption
<1>3. \A x \in Slots : rcv[x] \in RcvRec
  BY <1>1
<1>4. \A r \in RcvRec : r.nxt \in Slots \cup {NIL} /\ r.state \in {"free", "on", "off"}
  BY DEF RcvRec
<1> QED
  BY <1>1, <1>2, <1>3, <1>4 DEF ListInv, WalkInv, On

\* No link leads to free memory, and a walk that may stand on a receiver may
\* stand on the next.
LEMMA LinksLive ==
  ASSUME CoreInv, NEW x \in Slots, rcv[x].nxt # NIL
  PROVE  /\ rcv[x].nxt \in Slots /\ rcv[rcv[x].nxt].state # "free" /\ rcv[x].state # "free"
         /\ x \in On => rcv[x].nxt \in On
         /\ \A c : x \in Live(c) => rcv[x].nxt \in Live(c)
<1> DEFINE n == rcv[x].nxt
<1>1. SlotOK(x) /\ n \in Slots /\ rcv[x].state \in {"free", "on", "off"} /\ (x \in On <=> rcv[x].state = "on")
  BY CoreFacts
<1>2. rcv[x].state # "free"
  BY <1>1, FreeType DEF SlotOK
<1>3. rcv[x].state = "on" => n \in On /\ rcv[n].state = "on"
  BY <1>1 DEF SlotOK, On
<1>4. rcv[x].state = "off" => rcv[n].state = "on" \/ (rcv[n].state = "off" /\ rcv[x].gp \subseteq rcv[n].gp)
  BY <1>1 DEF SlotOK
<1> HIDE DEF n
<1>5. ASSUME NEW c, x \in Live(c) PROVE n \in Live(c)
  BY <1>1, <1>3, <1>4, <1>5 DEF Live
<1> QED
  BY <1>1, <1>2, <1>3, <1>4, <1>5 DEF n

LEMMA AheadIs ==
  ASSUME CoreInv, Straight, NEW x \in Slots
  PROVE  /\ rcv[x].nxt = NIL => Ahead(x) = {}
         /\ rcv[x].nxt # NIL =>
              LET y == rcv[x].nxt IN Ahead(x) = {y} \cup Ahead(y) /\ y \notin Ahead(y)
<1>1. CASE rcv[x].nxt = NIL
  <2>1. Closed({}) /\ {} \in SUBSET Slots
    BY DEF Closed
  <2> QED
    BY <1>1, <2>1 DEF Ahead
<1>2. CASE rcv[x].nxt # NIL
  <2> DEFINE y == rcv[x].nxt
             W == Ahead(y)
  <2>1. y \in Slots /\ y # NIL
    BY <1>2, CoreFacts
  <2> HIDE DEF y
  <2>2. W \in SUBSET Slots /\ Closed(W) /\ rcv[y].nxt \in W \cup {NIL}
    <3>1. ASSUME NEW u \in W, rcv[u].nxt # NIL, NEW T \in SUBSET Slots, Closed(T), rcv[y].nxt \in T \cup {NIL}
          PROVE  rcv[u].nxt \in T
      BY <3>1 DEF Ahead, Closed
    <3>2. ASSUME NEW u \in W, rcv[u].nxt # NIL PROVE rcv[u].nxt \in W
      <4>1. rcv[u].nxt \in Slots
        BY <3>2, CoreFacts DEF Ahead
      <4> QED
        BY <3>1, <3>2, <4>1 DEF Ahead
    <3>3. rcv[y].nxt # NIL => rcv[y].nxt \in W
      <4>1. rcv[y].nxt # NIL => rcv[y].nxt \in Slots
        BY <2>1, CoreFacts
      <4> QED
        BY <4>1 DEF Ahead
    <3> QED
      BY <3>2, <3>3 DEF Ahead, Closed
  <2>3. Ahead(x) \subseteq {y} \cup W
    <3> SUFFICES ASSUME NEW s \in Ahead(x), s # y, NEW T \in SUBSET Slots, Closed(T), rcv[y].nxt \in T \cup {NIL}
                 PROVE  s \in T
      BY DEF Ahead
    <3>1. T \cup {y} \in SUBSET Slots /\ Closed(T \cup {y})
      BY <2>1 DEF Closed
    <3> QED
      BY <3>1 DEF Ahead, y
  <2>4. y \in Ahead(x)
    BY <2>1 DEF Ahead, y
  <2>5. W \subseteq Ahead(x)
    <3> SUFFICES ASSUME NEW s \in W, NEW T \in SUBSET Slots, Closed(T), y \in T PROVE s \in T
      BY <2>1 DEF Ahead, y
    <3>1. rcv[y].nxt \in T \cup {NIL}
      BY DEF Closed
    <3> QED
      BY <3>1 DEF Ahead
  <2>6. y \notin W
    <3> SUFFICES ASSUME y \in W PROVE FALSE
      OBVIOUS
    <3>1. PICK t \in W : \A u \in W : rcv[u].nxt # t
      BY <2>2 DEF Straight
    <3>2. Closed(W \ {t}) /\ W \ {t} \in SUBSET Slots /\ rcv[y].nxt \in (W \ {t}) \cup {NIL}
      BY <2>2, <3>1 DEF Closed
    <3>3. t \in W \ {t}
      BY <3>1, <3>2 DEF Ahead
    <3> QED
      BY <3>3
  <2> QED
    BY <1>2, <2>3, <2>4, <2>5, <2>6 DEF y
<1> QED
  BY <1>1, <1>2

\* What is behind a receiver is in its list.
LEMMA AheadPlace ==
  ASSUME CoreInv, SameList, NEW x \in Slots, NEW s \in Ahead(x)
  PROVE  s \in Slots /\ Place(s) = Place(x)
<1> DEFINE T == {u \in Slots : Place(u) = Place(x)}
<1>1. \A u \in Slots : rcv[u].nxt \in Slots \cup {NIL}
  BY CoreFacts
<1>2. Closed(T)
  <2>1. ASSUME NEW u \in T, rcv[u].nxt # NIL PROVE rcv[u].nxt \in T
    BY <1>1, <2>1 DEF SameList
  <2> QED
    BY <2>1 DEF Closed
<1>3. rcv[x].nxt \in T \cup {NIL}
  BY <1>1 DEF SameList
<1>4. s \in T
  BY <1>2, <1>3 DEF Ahead
<1> QED
  BY <1>4

\* The head of a list leads to all of it.
LEMMA HeadLeads ==
  ASSUME CoreInv, OrderInv, NEW d, NEW l
  PROVE  LET h == ListHead(d, l)
         IN /\ h = NIL => OnList(d, l) = {}
            /\ h # NIL => h \in OnList(d, l) /\ \A s \in OnList(d, l) : s = h \/ s \in Ahead(h)
<1> DEFINE L == OnList(d, l)
           h == ListHead(d, l)
<1>1. L \subseteq On /\ On \subseteq Slots /\ NIL \notin Slots /\ Acyclic
  BY CoreFacts DEF OnList
<1>2. L # {} => h \in L /\ \A t \in L : rcv[t].nxt # h
  <2>1. L # {} => \E s \in L : \A t \in L : rcv[t].nxt # s
    BY <1>1 DEF Acyclic
  <2> QED
    BY <2>1 DEF ListHead
<1>3. L = {} => h = NIL
  BY DEF ListHead
<1>4. ASSUME L # {}, NEW s \in L, s # h, s \notin Ahead(h) PROVE FALSE
  <2> DEFINE T == {x \in L : x # h /\ x \notin Ahead(h)}
  <2>1. T \in SUBSET Slots /\ T # {}
    BY <1>1, <1>4
  <2>2. PICK t \in T : \A u \in T : rcv[u].nxt # t
    BY <2>1 DEF OrderInv, Straight
  <2>3. t \in L /\ t # h /\ t \notin Ahead(h) /\ t \in Slots
    BY <1>1
  <2>4. \A u \in On : rcv[u].nxt \in L => u \in L
    <3> SUFFICES ASSUME NEW u \in On, rcv[u].nxt \in L PROVE u \in L
      OBVIOUS
    <3>1. Place(rcv[u].nxt) = Place(u)
      BY <1>1 DEF OrderInv, SameList
    <3> QED
      BY <3>1 DEF Place, OnList
  <2>5. \A u \in On : rcv[u].nxt # h
    BY <1>2, <1>4, <2>4
  <2>6. \A u \in On : rcv[u].nxt # t
    <3> SUFFICES ASSUME NEW u \in On, rcv[u].nxt = t PROVE FALSE
      OBVIOUS
    <3>1. u \in L /\ u \in Slots /\ u \notin T
      BY <1>1, <2>2, <2>3, <2>4
    <3>2. u = h \/ u \in Ahead(h)
      BY <3>1
    <3>3. h \in Slots /\ t # NIL
      BY <1>1, <1>2, <1>4, <2>3
    <3>4. CASE u = h
      <4>1. t \in Ahead(u)
        BY <2>3, <3>1, <3>3 DEF Ahead
      <4> QED
        BY <2>3, <3>4, <4>1
    <3>5. CASE u \in Ahead(h)
      <4>1. \A Z \in SUBSET Slots : Closed(Z) /\ rcv[h].nxt \in Z \cup {NIL} => t \in Z
        BY <3>3, <3>5 DEF Ahead, Closed
      <4> QED
        BY <2>3, <4>1 DEF Ahead
    <3> QED
      BY <3>2, <3>4, <3>5
  <2>7. h \in On /\ t \in On /\ Place(h) = Place(t)
    BY <1>1, <1>2, <1>4, <2>3 DEF OnList, Place
  <2>8. h = t
    BY <2>5, <2>6, <2>7 DEF OrderInv, OneHead
  <2> QED
    BY <2>3, <2>8
<1> QED
  BY <1>1, <1>2, <1>3, <1>4

-----------------------------------------------------------------------------
(* The lists stay in order. *)

\* What registration, unregistration and the end of a walk do to each receiver.
LinkIs(s, dev, f, o) ==
  /\ s \in Slots \ On /\ On' = On \cup {s} /\ rcv[s] = Free /\ rcv'[s] = New(dev, f, o)
  /\ \A x \in Slots \ {s} : rcv'[x] = rcv[x]
  /\ \A x \in Slots : rcv[x].nxt # s /\ rcv'[x].nxt # s

UnlinkIs(s) ==
  /\ s \in On /\ On' = On \ {s}
  /\ \A x \in Slots \ {s} :
       /\ Place(x)' = Place(x) /\ Entry(x)' = Entry(x) /\ rcv'[x].asked = rcv[x].asked
       /\ rcv'[x].state = rcv[x].state /\ rcv'[x].gp = rcv[x].gp /\ rcv'[x].owner = rcv[x].owner
       /\ rcv'[x].nxt = IF x \in On /\ rcv[x].nxt = s THEN rcv[s].nxt ELSE rcv[x].nxt
  /\ \/ Readers = {} /\ rcv'[s] = Free
     \/ /\ Readers # {} /\ Place(s)' = Place(s) /\ Entry(s)' = Entry(s) /\ rcv'[s].asked = rcv[s].asked
        /\ rcv'[s].state = "off" /\ rcv'[s].gp = Readers /\ rcv'[s].owner = rcv[s].owner
        /\ rcv'[s].nxt = rcv[s].nxt

UnlockIs(c) ==
  /\ On' = On
  /\ \A x \in Slots :
       \/ rcv[x].state = "off" /\ rcv[x].gp \subseteq {c} /\ rcv'[x] = Free
       \/ /\ ~(rcv[x].state = "off" /\ rcv[x].gp \subseteq {c})
          /\ Place(x)' = Place(x) /\ Entry(x)' = Entry(x) /\ rcv'[x].asked = rcv[x].asked
          /\ rcv'[x].state = rcv[x].state /\ rcv'[x].gp = rcv[x].gp \ {c}
          /\ rcv'[x].owner = rcv[x].owner /\ rcv'[x].nxt = rcv[x].nxt

LEMMA LinkFacts ==
  ASSUME CoreInv, NEW dev \in AnyDev, NEW f \in CanFilters, NEW o \in Owners,
         NEW s \in Slots, Links(s, dev, f, o)
  PROVE  LinkIs(s, dev, f, o)
<1>1. rcv \in [Slots -> RcvRec] /\ rcv[s] = Free /\ rcv' = [rcv EXCEPT ![s] = New(dev, f, o)]
  BY CoreFacts DEF Links
<1>2. rcv'[s] = New(dev, f, o) /\ \A x \in Slots \ {s} : rcv'[x] = rcv[x]
  BY <1>1
<1>3. New(dev, f, o).state = "on" /\ s \notin On /\ On \subseteq Slots
  BY <1>1, FreeType DEF New, On
<1>4. On' = On \cup {s}
  BY <1>2, <1>3 DEF On
<1>5. \A x \in Slots : rcv[x].nxt # s
  BY <1>1, LinksLive, FreeType, CoreFacts
<1>6. rcv'[s].nxt # s
  <2>1. New(dev, f, o).nxt \in On \cup {NIL}
    BY CoreFacts, ListHeadIn DEF New, OnList
  <2> QED
    BY <1>2, <1>3, <2>1, CoreFacts
<1> QED
  BY <1>1, <1>2, <1>3, <1>4, <1>5, <1>6 DEF LinkIs

LEMMA UnlinkFacts ==
  ASSUME CoreInv, NEW s \in Slots, Unlinks(s)
  PROVE  UnlinkIs(s)
<1>1. /\ s \in On /\ rcv[s] \in RcvRec
      /\ rcv'[s] = IF Readers = {} THEN Free ELSE [rcv[s] EXCEPT !.state = "off", !.gp = Readers]
  BY CoreFacts DEF Unlinks
<1>2. ASSUME NEW x \in Slots \ {s}
      PROVE  /\ Place(x)' = Place(x) /\ Entry(x)' = Entry(x) /\ rcv'[x].asked = rcv[x].asked
             /\ rcv'[x].state = rcv[x].state /\ rcv'[x].gp = rcv[x].gp /\ rcv'[x].owner = rcv[x].owner
             /\ rcv'[x].nxt = IF x \in On /\ rcv[x].nxt = s THEN rcv[s].nxt ELSE rcv[x].nxt
  <2>1. /\ rcv[x] \in RcvRec
        /\ rcv'[x] = IF x \in On /\ rcv[x].nxt = s THEN [rcv[x] EXCEPT !.nxt = rcv[s].nxt] ELSE rcv[x]
    BY CoreFacts DEF Unlinks
  <2> QED
    BY <2>1 DEF RcvRec, Place, Entry
<1>3. \/ Readers = {} /\ rcv'[s] = Free
      \/ /\ Readers # {} /\ Place(s)' = Place(s) /\ Entry(s)' = Entry(s) /\ rcv'[s].asked = rcv[s].asked
         /\ rcv'[s].state = "off" /\ rcv'[s].gp = Readers /\ rcv'[s].owner = rcv[s].owner
         /\ rcv'[s].nxt = rcv[s].nxt
  BY <1>1 DEF RcvRec, Place, Entry
<1>4. On' = On \ {s}
  BY <1>1, <1>2, <1>3, FreeType DEF On
<1> QED
  BY <1>1, <1>2, <1>3, <1>4 DEF UnlinkIs

LEMMA UnlockFacts ==
  ASSUME CoreInv, NEW c \in Cpus, rcu_read_unlock(c)
  PROVE  UnlockIs(c)
<1>1. ASSUME NEW x \in Slots
      PROVE  \/ rcv[x].state = "off" /\ rcv[x].gp \subseteq {c} /\ rcv'[x] = Free
             \/ /\ ~(rcv[x].state = "off" /\ rcv[x].gp \subseteq {c})
                /\ Place(x)' = Place(x) /\ Entry(x)' = Entry(x) /\ rcv'[x].asked = rcv[x].asked
                /\ rcv'[x].state = rcv[x].state /\ rcv'[x].gp = rcv[x].gp \ {c}
                /\ rcv'[x].owner = rcv[x].owner /\ rcv'[x].nxt = rcv[x].nxt
  <2>1. /\ rcv[x] \in RcvRec
        /\ rcv'[x] = IF rcv[x].state = "off" /\ rcv[x].gp \subseteq {c} THEN Free
                     ELSE [rcv[x] EXCEPT !.gp = @ \ {c}]
    BY CoreFacts, UnlockKeeps
  <2> QED
    BY <2>1 DEF RcvRec, Place, Entry
<1>2. On' = On
  BY <1>1, FreeType DEF On
<1> QED
  BY <1>1, <1>2 DEF UnlockIs

LEMMA LinkOrders ==
  ASSUME CoreInv, OrderInv, NEW dev \in AnyDev, NEW f \in CanFilters, NEW o \in Owners,
         NEW s \in Slots, LinkIs(s, dev, f, o)
  PROVE  OrderInv'
<1> DEFINE e == can_rcv_list_find(f)
           h == ListHead(dev, e.list)
<1>1. /\ rcv'[s].state = "on" /\ rcv'[s].dev = dev /\ rcv'[s].list = e.list /\ rcv'[s].nxt = h
      /\ rcv'[s].asked = f /\ rcv'[s].id = e.id /\ rcv'[s].mask = e.mask
  BY DEF LinkIs, New
<1>2. e \in [list : ListIds, id : SUBSET Bits, mask : SUBSET Bits]
  BY FindType
<1> HIDE DEF e
<1>3. Entry(s)' = e /\ Place(s)' = <<dev, e.list>>
  BY <1>1, <1>2 DEF Entry, Place
<1>4. /\ h = NIL => OnList(dev, e.list) = {}
      /\ h # NIL => h \in OnList(dev, e.list) /\ \A x \in On : rcv[x].nxt = h => x \notin OnList(dev, e.list)
  <2>1. Acyclic /\ NIL \notin Slots /\ OnList(dev, e.list) \subseteq On /\ On \subseteq Slots
    BY CoreFacts DEF OnList
  <2>2. OnList(dev, e.list) # {} => \E y \in OnList(dev, e.list) : \A t \in OnList(dev, e.list) : rcv[t].nxt # y
    BY <2>1 DEF Acyclic
  <2>3. OnList(dev, e.list) # {} =>
          h \in OnList(dev, e.list) /\ \A t \in OnList(dev, e.list) : rcv[t].nxt # h
    BY <2>2 DEF ListHead
  <2>4. OnList(dev, e.list) = {} => h = NIL
    BY DEF ListHead
  <2> HIDE DEF h
  <2> QED
    BY <2>1, <2>3, <2>4
<1> HIDE DEF h
<1>5. /\ s \notin On /\ On' = On \cup {s} /\ On \subseteq Slots
      /\ \A x \in Slots \ {s} : rcv'[x] = rcv[x] /\ Place(x)' = Place(x) /\ Entry(x)' = Entry(x)
      /\ \A x \in Slots : rcv[x].nxt # s /\ rcv'[x].nxt # s
  BY CoreFacts DEF LinkIs, Place, Entry
<1>6. Straight'
  <2> SUFFICES ASSUME NEW T \in SUBSET Slots, T # {} PROVE \E t \in T : \A u \in T : rcv'[u].nxt # t
    BY DEF Straight
  <2>1. CASE s \in T
    BY <1>5, <2>1
  <2>2. CASE s \notin T
    BY <1>5, <2>2 DEF OrderInv, Straight
  <2> QED
    BY <2>1, <2>2
<1>7. SortedIn'
  <2> SUFFICES ASSUME NEW x \in Slots, rcv'[x].state # "free"
               PROVE  rcv'[x].asked \in CanFilters /\ Entry(x)' = can_rcv_list_find(rcv'[x].asked)
    BY DEF SortedIn
  <2>1. CASE x = s
    BY <1>1, <1>3, <2>1 DEF e
  <2>2. CASE x # s
    BY <1>5, <2>2 DEF OrderInv, SortedIn
  <2> QED
    BY <2>1, <2>2
<1>8. SameList'
  <2> SUFFICES ASSUME NEW x \in Slots, NEW n, n = rcv'[x].nxt, n # NIL PROVE Place(n)' = Place(x)'
    BY DEF SameList, Place
  <2>1. CASE x = s
    <3>1. h \in Slots \ {s} /\ rcv[h].dev = dev /\ rcv[h].list = e.list
      BY <1>1, <1>4, <1>5, <2>1 DEF OnList
    <3> QED
      <4>1. n \in Slots \ {s} /\ Place(n) = <<dev, e.list>>
        BY <1>1, <2>1, <3>1 DEF Place
      <4> QED
        BY <1>3, <1>5, <2>1, <4>1
  <2>2. CASE x # s
    <3>1. n = rcv[x].nxt /\ n \in Slots \ {s}
      BY <1>5, <2>2, CoreFacts
    <3> QED
      BY <1>5, <2>2, <3>1 DEF OrderInv, SameList
  <2> QED
    BY <2>1, <2>2
<1>9. OneHead'
  <2>1. ASSUME NEW y \in On, Place(y) = <<dev, e.list>>, \A u \in On' : rcv'[u].nxt # y PROVE FALSE
    <3>1. y \in OnList(dev, e.list)
      BY <2>1 DEF Place, OnList
    <3>2. h # NIL /\ h \in On /\ Place(h) = Place(y) /\ \A x \in On : rcv[x].nxt = h => x \notin OnList(dev, e.list)
      BY <1>4, <2>1, <3>1 DEF OnList, Place
    <3>3. \A x \in On : rcv[x].nxt # h
      <4> SUFFICES ASSUME NEW x \in On, rcv[x].nxt = h PROVE FALSE
        OBVIOUS
      <4>1. Place(x) = <<dev, e.list>>
        BY <1>5, <2>1, <3>2 DEF OrderInv, SameList
      <4> QED
        BY <3>2, <4>1 DEF Place, OnList
    <3>4. \A x \in On : rcv[x].nxt # y
      BY <1>5, <2>1
    <3>5. h = y
      BY <3>2, <3>3, <3>4 DEF OrderInv, OneHead
    <3> QED
      BY <1>1, <1>5, <2>1, <3>5
  <2> SUFFICES ASSUME NEW x \in On', NEW y \in On', Place(x)' = Place(y)',
                      \A u \in On' : rcv'[u].nxt \notin {x, y}
               PROVE  x = y
    BY DEF OneHead
  <2>2. CASE x = s \/ y = s
    BY <1>3, <1>5, <2>1, <2>2
  <2>3. CASE x # s /\ y # s
    <3>1. x \in On /\ y \in On /\ Place(x) = Place(y) /\ \A u \in On : rcv[u].nxt \notin {x, y}
      BY <1>5, <2>3
    <3> QED
      BY <3>1 DEF OrderInv, OneHead
  <2> QED
    BY <2>2, <2>3
<1> QED
  BY <1>6, <1>7, <1>8, <1>9 DEF OrderInv

LEMMA UnlinkOrders ==
  ASSUME CoreInv, OrderInv, NEW s \in Slots, UnlinkIs(s)
  PROVE  OrderInv'
<1>1. /\ s \in On /\ On' = On \ {s} /\ On \subseteq Slots /\ NIL \notin Slots
      /\ \A x \in Slots : rcv[x].nxt \in Slots \cup {NIL}
  BY CoreFacts DEF UnlinkIs
<1>2. \A x \in Slots \ {s} :
        /\ Place(x)' = Place(x) /\ Entry(x)' = Entry(x) /\ rcv'[x].asked = rcv[x].asked
        /\ rcv'[x].state = rcv[x].state
        /\ rcv'[x].nxt = IF x \in On /\ rcv[x].nxt = s THEN rcv[s].nxt ELSE rcv[x].nxt
  BY DEF UnlinkIs
<1>3. \/ rcv'[s].state = "free" /\ rcv'[s].nxt = NIL /\ Readers = {}
      \/ /\ Place(s)' = Place(s) /\ Entry(s)' = Entry(s) /\ rcv'[s].asked = rcv[s].asked
         /\ rcv'[s].nxt = rcv[s].nxt /\ Readers # {}
  BY FreeType DEF UnlinkIs
<1>4. Straight'
  <2> SUFFICES ASSUME NEW T \in SUBSET Slots, T # {} PROVE \E t \in T : \A u \in T : rcv'[u].nxt # t
    BY DEF Straight
  <2>1. \A u \in T : rcv'[u].nxt = rcv[u].nxt \/ rcv'[u].nxt = NIL
                      \/ (u # s /\ rcv[u].nxt = s /\ rcv'[u].nxt = rcv[s].nxt)
    BY <1>2, <1>3
  <2>2. CASE \E u \in T : u # s /\ rcv[u].nxt = s
    <3>1. PICK t \in T \cup {s} : \A u \in T \cup {s} : rcv[u].nxt # t
      <4>1. T \cup {s} \in SUBSET Slots /\ T \cup {s} # {}
        OBVIOUS
      <4> QED
        BY <4>1 DEF OrderInv, Straight
    <3>2. t \in T /\ t # NIL
      BY <1>1, <2>2, <3>1
    <3> QED
      BY <2>1, <3>1, <3>2
  <2>3. CASE ~\E u \in T : u # s /\ rcv[u].nxt = s
    <3>1. PICK t \in T : \A u \in T : rcv[u].nxt # t
      BY DEF OrderInv, Straight
    <3>2. t # NIL
      BY <1>1
    <3> QED
      BY <2>1, <2>3, <3>1, <3>2
  <2> QED
    BY <2>2, <2>3
<1>5. SortedIn'
  <2> SUFFICES ASSUME NEW x \in Slots, rcv'[x].state # "free"
               PROVE  rcv'[x].asked \in CanFilters /\ Entry(x)' = can_rcv_list_find(rcv'[x].asked)
    BY DEF SortedIn
  <2>1. Entry(x)' = Entry(x) /\ rcv'[x].asked = rcv[x].asked /\ rcv[x].state # "free"
    BY <1>1, <1>2, <1>3 DEF On
  <2> QED
    BY <2>1 DEF OrderInv, SortedIn
<1>6. SameList'
  <2> SUFFICES ASSUME NEW x \in Slots, NEW n, n = rcv'[x].nxt, n # NIL PROVE Place(n)' = Place(x)'
    BY DEF SameList, Place
  <2>1. Place(x)' = Place(x)
    BY <1>2, <1>3
  <2>2. n = rcv[x].nxt \/ (x # s /\ rcv[x].nxt = s /\ n = rcv[s].nxt)
    BY <1>2, <1>3
  <2>3. n \in Slots /\ Place(n) = Place(x)
    <3>1. \A u \in Slots : rcv[u].nxt # NIL => Place(rcv[u].nxt) = Place(u)
      BY DEF OrderInv, SameList
    <3> QED
      BY <1>1, <2>2, <3>1
  <2>4. ASSUME n = s, rcv'[s].nxt = NIL, Readers = {} PROVE FALSE
    <3>1. rcv[s].nxt # s
      <4>1. {s} \in SUBSET Slots /\ {s} # {}
        OBVIOUS
      <4>2. \E t \in {s} : \A u \in {s} : rcv[u].nxt # t
        BY <4>1 DEF OrderInv, Straight
      <4> QED
        BY <4>2
    <3>2. x # s /\ rcv[x].nxt = s
      BY <2>2, <2>4, <3>1
    <3>3. x \notin On
      BY <1>1, <1>2, <2>4, <3>1, <3>2
    <3>4. rcv[x].state # "free" /\ rcv[x].state \in {"free", "on", "off"} /\ rcv[x].state # "on" /\ SlotOK(x)
      BY <1>1, <3>2, <3>3, LinksLive, CoreFacts
    <3> QED
      BY <2>4, <3>4 DEF SlotOK
  <2>5. n = s => Place(s)' = Place(s)
    BY <1>3, <2>4
  <2> QED
    BY <1>2, <2>1, <2>3, <2>5
<1>7. OneHead'
  <2> SUFFICES ASSUME NEW x \in On', NEW y \in On', Place(x)' = Place(y)', x # y,
                      \A u \in On' : rcv'[u].nxt \notin {x, y}
               PROVE  FALSE
    BY DEF OneHead
  <2>1. x \in On /\ y \in On /\ x # s /\ y # s /\ Place(x) = Place(y) /\ x \in Slots /\ y \in Slots
    BY <1>1, <1>2
  <2>2. \A u \in On \ {s} : rcv[u].nxt \notin {x, y} /\ (rcv[u].nxt = s => rcv[s].nxt \notin {x, y})
    BY <1>1, <1>2, <2>1
  <2>3. CASE rcv[s].nxt \notin {x, y}
    BY <1>1, <2>1, <2>2, <2>3 DEF OrderInv, OneHead
  <2>4. ASSUME NEW a \in {x, y}, NEW b \in {x, y}, a # b, rcv[s].nxt = a PROVE FALSE
    <3>1. Place(s) = Place(a) /\ Place(s) = Place(b)
      <4>1. a # NIL
        BY <1>1, <2>1
      <4> QED
        BY <2>1, <2>4, <4>1 DEF OrderInv, SameList
    <3>2. \A u \in On : rcv[u].nxt \notin {s, b}
      <4>1. \A u \in On \ {s} : rcv[u].nxt # s /\ rcv[u].nxt # b
        BY <2>2, <2>4
      <4>2. rcv[s].nxt # s /\ rcv[s].nxt # b
        BY <2>1, <2>4
      <4> QED
        BY <4>1, <4>2
    <3> QED
      BY <1>1, <2>1, <3>1, <3>2 DEF OrderInv, OneHead
  <2> QED
    BY <2>3, <2>4
<1> QED
  BY <1>4, <1>5, <1>6, <1>7 DEF OrderInv

LEMMA UnlockOrders ==
  ASSUME CoreInv, OrderInv, NEW c \in Cpus, UnlockIs(c)
  PROVE  OrderInv'
<1>1. /\ On' = On /\ On \subseteq Slots /\ NIL \notin Slots
      /\ \A x \in Slots : rcv[x].nxt \in Slots \cup {NIL} /\ SlotOK(x) /\ (x \in On <=> rcv[x].state = "on")
  BY CoreFacts DEF UnlockIs
<1>2. \A x \in Slots :
        \/ rcv[x].state = "off" /\ rcv[x].gp \subseteq {c} /\ rcv'[x].state = "free" /\ rcv'[x].nxt = NIL
        \/ /\ ~(rcv[x].state = "off" /\ rcv[x].gp \subseteq {c})
           /\ Place(x)' = Place(x) /\ Entry(x)' = Entry(x) /\ rcv'[x].asked = rcv[x].asked
           /\ rcv'[x].state = rcv[x].state /\ rcv'[x].nxt = rcv[x].nxt
           /\ rcv'[x].gp = rcv[x].gp \ {c}
  BY FreeType DEF UnlockIs
<1>3. Straight'
  <2> SUFFICES ASSUME NEW T \in SUBSET Slots, T # {} PROVE \E t \in T : \A u \in T : rcv'[u].nxt # t
    BY DEF Straight
  <2>1. PICK t \in T : \A u \in T : rcv[u].nxt # t
    BY DEF OrderInv, Straight
  <2> QED
    BY <1>1, <1>2, <2>1
<1>4. SortedIn'
  BY <1>2 DEF OrderInv, SortedIn
<1>5. SameList'
  <2> SUFFICES ASSUME NEW x \in Slots, NEW n, n = rcv'[x].nxt, n # NIL PROVE Place(n)' = Place(x)'
    BY DEF SameList, Place
  <2>1. /\ n = rcv[x].nxt /\ Place(x)' = Place(x) /\ n \in Slots
        /\ ~(rcv[x].state = "off" /\ rcv[x].gp \subseteq {c})
    BY <1>1, <1>2
  <2>2. Place(n)' = Place(n)
    <3> SUFFICES ASSUME rcv[n].state = "off", rcv[n].gp \subseteq {c} PROVE FALSE
      BY <1>2, <2>1
    <3>1. rcv[x].state # "free" /\ (x \in On => n \in On) /\ rcv[x].state \in {"free", "on", "off"}
      BY <2>1, LinksLive, CoreFacts
    <3>2. rcv[x].state = "off"
      BY <1>1, <2>1, <3>1
    <3> QED
      BY <1>1, <2>1, <3>2 DEF SlotOK
  <2> QED
    BY <2>1, <2>2 DEF OrderInv, SameList
<1>6. OneHead'
  <2>1. \A x \in On : Place(x)' = Place(x) /\ rcv'[x].nxt = rcv[x].nxt
    BY <1>1, <1>2
  <2> QED
    BY <1>1, <2>1 DEF OrderInv, OneHead
<1> QED
  BY <1>3, <1>4, <1>5, <1>6 DEF OrderInv

-----------------------------------------------------------------------------
(* What the users do to the lists under a walk. *)

\* Which lists a frame's walk goes through, and which receivers it calls there.
OnWalk(dev, list, f) == dev \in {AllDevs, f.dev} /\ InSeq(Lists(f.id), list)
Hit(s, f) == OnWalk(rcv[s].dev, rcv[s].list, f) /\ Matches(rcv[s], f.id)

\* The walk w may still come to s.
ToCome(w, s) == InSeq(w.todo, Place(s)) \/ (w.at # NIL /\ s \in Ahead(w.at))

\* What the walk may stand on stays what it is and where it is, but for s, which
\* leaves its list and leads on as before.
Carries(c, s) ==
  /\ Live(c) \subseteq Live(c)' /\ On' \cap Live(c) \subseteq On \ {s}
  /\ \A x \in Live(c) :
       /\ Place(x)' = Place(x) /\ Entry(x)' = Entry(x) /\ rcv'[x].owner = rcv[x].owner
       /\ \/ rcv'[x].nxt = rcv[x].nxt
          \/ x # s /\ s \in Slots /\ rcv[x].nxt = s /\ rcv'[x].nxt = rcv[s].nxt

LEMMA LinkCarries ==
  ASSUME CoreInv, NEW dev, NEW f, NEW o, NEW s \in Slots, LinkIs(s, dev, f, o), NEW c \in Cpus
  PROVE  Carries(c, NIL)
<1>1. s \notin Live(c) /\ NIL \notin On
  BY FreeType, CoreFacts DEF LinkIs, Live
<1>2. \A x \in Live(c) : x \in Slots \ {s} /\ rcv'[x] = rcv[x]
  BY <1>1 DEF LinkIs, Live
<1>3. Live(c) \subseteq Live(c)' /\ On' \cap Live(c) \subseteq On \ {NIL}
  BY <1>1, <1>2 DEF LinkIs, Live
<1> QED
  BY <1>2, <1>3 DEF Carries, Place, Entry

LEMMA UnlinkCarries ==
  ASSUME CoreInv, NEW s \in Slots, UnlinkIs(s), NEW c \in Readers
  PROVE  Carries(c, s)
<1>1. /\ s \in On /\ On' = On \ {s}
      /\ Place(s)' = Place(s) /\ Entry(s)' = Entry(s) /\ rcv'[s].state = "off"
      /\ rcv'[s].gp = Readers /\ rcv'[s].owner = rcv[s].owner /\ rcv'[s].nxt = rcv[s].nxt
  BY DEF UnlinkIs
<1>2. ASSUME NEW x \in Slots \ {s}
      PROVE  /\ Place(x)' = Place(x) /\ Entry(x)' = Entry(x) /\ rcv'[x].state = rcv[x].state
             /\ rcv'[x].gp = rcv[x].gp /\ rcv'[x].owner = rcv[x].owner
             /\ rcv'[x].nxt = rcv[x].nxt \/ (rcv[x].nxt = s /\ rcv'[x].nxt = rcv[s].nxt)
  BY DEF UnlinkIs
<1>3. Live(c) \subseteq Live(c)'
  BY <1>1, <1>2 DEF Live
<1> QED
  BY <1>1, <1>2, <1>3 DEF Carries, Live

LEMMA UnlockCarries ==
  ASSUME CoreInv, NEW d \in Cpus, UnlockIs(d), NEW c \in Cpus \ {d}
  PROVE  Carries(c, NIL)
<1>1. ASSUME NEW x \in Live(c)
      PROVE  /\ Place(x)' = Place(x) /\ Entry(x)' = Entry(x) /\ rcv'[x].state = rcv[x].state
             /\ rcv'[x].gp = rcv[x].gp \ {d} /\ rcv'[x].owner = rcv[x].owner /\ rcv'[x].nxt = rcv[x].nxt
  BY DEF UnlockIs, Live
<1>2. Live(c) \subseteq Live(c)'
  BY <1>1 DEF Live
<1> QED
  BY <1>1, <1>2, CoreFacts DEF Carries, UnlockIs

LEMMA StillCarries ==
  ASSUME CoreInv, UNCHANGED rcv, NEW c \in Cpus
  PROVE  Carries(c, NIL)
<1>1. NIL \notin On
  BY CoreFacts
<1> QED
  BY <1>1 DEF Carries, Live, On, Place, Entry

LEMMA AheadCarried ==
  ASSUME CoreInv, NEW c \in Cpus, NEW s, Carries(c, s), NEW x \in Live(c)
  PROVE  Ahead(x)' \subseteq Ahead(x) /\ Ahead(x) \ {s} \subseteq Ahead(x)'
<1> DEFINE L == Live(c)
<1>1. L \subseteq Slots /\ NIL \notin Slots /\ \A u \in L : rcv[u].nxt \in L \cup {NIL}
  BY LinksLive, CoreFacts DEF Live
<1>2. \A u \in L : \/ rcv'[u].nxt = rcv[u].nxt
                   \/ u # s /\ s \in Slots /\ rcv[u].nxt = s /\ rcv'[u].nxt = rcv[s].nxt
  BY DEF Carries
<1> HIDE DEF L
<1>3. ASSUME NEW t \in Slots, t \in Ahead(x)', NEW T \in SUBSET Slots, Closed(T), rcv[x].nxt \in T \cup {NIL}
      PROVE  t \in T
  <2>1. PICK V \in SUBSET Slots : V = T \cap L
    BY <1>1
  <2>2. \A u \in V \cup {x} : rcv[u].nxt \in T \cup {NIL} /\ u \in L
    BY <1>3, <2>1 DEF Closed, L
  <2>3. ASSUME NEW u \in V \cup {x} PROVE rcv'[u].nxt \in V \cup {NIL}
    <3>1. CASE rcv'[u].nxt = rcv[u].nxt
      BY <1>1, <2>1, <2>2, <3>1
    <3>2. CASE s \in Slots /\ rcv[u].nxt = s /\ rcv'[u].nxt = rcv[s].nxt
      <4>1. s \in T /\ s \in L
        BY <1>1, <2>1, <2>2, <3>2
      <4>2. rcv[s].nxt \in T \cup {NIL}
        BY <1>3, <4>1 DEF Closed
      <4> QED
        BY <1>1, <2>1, <3>2, <4>1, <4>2
    <3> QED
      BY <1>2, <2>2, <3>1, <3>2
  <2>4. V \in SUBSET Slots /\ Closed(V)' /\ rcv'[x].nxt \in V \cup {NIL}
    BY <2>3 DEF Closed
  <2>5. t \in V
    BY <1>3, <2>4 DEF Ahead
  <2> QED
    BY <2>1, <2>5
<1>4. ASSUME NEW t \in Ahead(x), t # s, NEW T \in SUBSET Slots, Closed(T)', rcv'[x].nxt \in T \cup {NIL}
      PROVE  t \in T
  <2> DEFINE V == T \cap L
             Z == {u \in {s} \ {NIL} : \E v \in V \cup {x} : rcv[v].nxt = u}
             W == V \cup Z
  <2>1. \A u \in V \cup {x} : rcv'[u].nxt \in T \cup {NIL} /\ u \in L
    BY <1>4 DEF Closed, L
  <2>2. ASSUME NEW u \in V \cup {x} PROVE rcv[u].nxt \in W \cup {NIL}
    <3>1. CASE rcv'[u].nxt = rcv[u].nxt
      BY <1>1, <2>1, <3>1
    <3>2. CASE rcv[u].nxt = s
      BY <3>2
    <3> QED
      BY <1>2, <2>1, <3>1, <3>2
  <2>3. ASSUME NEW u \in Z PROVE u \in L /\ rcv[u].nxt \in W \cup {NIL}
    <3>1. PICK v \in V \cup {x} : rcv[v].nxt = u
      OBVIOUS
    <3>2. u = s /\ v \in L
      BY <2>1
    <3>3. u \in L
      BY <1>1, <3>1, <3>2
    <3>4. rcv'[s].nxt = rcv[s].nxt /\ rcv[s].nxt \in L \cup {NIL}
      BY <1>1, <1>2, <3>2, <3>3
    <3>5. rcv'[v].nxt = s \/ rcv'[v].nxt = rcv[s].nxt
      BY <1>2, <3>1, <3>2
    <3>6. CASE rcv'[v].nxt = s
      <4>1. s \in T
        BY <1>1, <2>1, <3>2, <3>3, <3>6
      <4>2. rcv'[s].nxt \in T \cup {NIL}
        BY <1>4, <4>1 DEF Closed
      <4> QED
        BY <3>2, <3>3, <3>4, <4>2
    <3>7. CASE rcv'[v].nxt = rcv[s].nxt
      BY <2>1, <3>2, <3>3, <3>4, <3>7
    <3> QED
      BY <3>3, <3>4, <3>5, <3>6, <3>7
  <2>4. W \in SUBSET Slots /\ Closed(W) /\ rcv[x].nxt \in W \cup {NIL}
    BY <1>1, <2>2, <2>3 DEF Closed
  <2>5. t \in W
    BY <2>4 DEF Ahead
  <2> QED
    BY <1>4, <2>5
<1>5. Ahead(x)' \subseteq Slots /\ Ahead(x) \subseteq Slots
  BY DEF Ahead
<1>6. Ahead(x)' \subseteq Ahead(x)
  BY <1>3, <1>5 DEF Ahead
<1>7. Ahead(x) \ {s} \subseteq Ahead(x)'
  BY <1>4, <1>5 DEF Ahead
<1> QED
  BY <1>6, <1>7

-----------------------------------------------------------------------------
(* A walk comes once to each receiver it calls for. *)

\* The walk w on c has called and will call those that it should, each once.
PathOK(c, w) ==
  /\ w.start \subseteq Live(c) /\ NoTwice(w.hits) /\ NoTwice(w.todo)
  /\ \A i \in 1..Len(w.todo) : OnWalk(w.todo[i][1], w.todo[i][2], w.frame)
  /\ \A i \in 1..Len(w.hits) :
       w.hits[i] \in Live(c) /\ Hit(w.hits[i], w.frame) /\ ~ToCome(w, w.hits[i])
  /\ w.at # NIL => OnWalk(rcv[w.at].dev, rcv[w.at].list, w.frame) /\ ~InSeq(w.todo, Place(w.at))
  /\ w.call => w.at # NIL /\ w.hits # <<>> /\ w.hits[Len(w.hits)] = w.at
  /\ \A s \in w.start \cap On : Hit(s, w.frame) => InSeq(w.hits, s) \/ ToCome(w, s)

PathInv == \A c \in Cpus : \A w \in {walk[c]} : w.frame # NIL => PathOK(c, w)

LEMMA AtLive ==
  ASSUME CoreInv, NEW c \in Cpus, walk[c].frame # NIL
  PROVE  /\ walk[c] \in WalkRec /\ walk[c].todo \in Seq(AnyDev \X ListIds) /\ walk[c].hits \in Seq(Slots)
         /\ walk[c].frame \in FrameRec /\ c \in Readers
         /\ walk[c].at # NIL => walk[c].at \in Live(c)
<1>1. walk[c] \in WalkRec /\ WalkOK(c)
  BY CoreFacts
<1>2. walk[c].at # NIL => walk[c].at \in Slots
  BY <1>1 DEF WalkRec
<1> QED
  BY <1>1, <1>2 DEF WalkRec, WalkOK, Live, Readers

LEMMA MatchesAlike ==
  ASSUME NEW r, NEW q, r.list = q.list, r.id = q.id, r.mask = q.mask, NEW id
  PROVE  Matches(r, id) <=> Matches(q, id)
BY DEF Matches

\* Neither the users nor a callback that returns disturb a walk.
LEMMA PathCarries ==
  ASSUME CoreInv, NEW c \in Cpus, walk[c].frame # NIL, PathOK(c, walk[c]), NEW s, Carries(c, s),
         NEW w, w = walk[c] \/ w = [walk[c] EXCEPT !.call = FALSE]
  PROVE  PathOK(c, w)'
<1> DEFINE v == walk[c]
<1>1. /\ w.frame = v.frame /\ w.todo = v.todo /\ w.at = v.at /\ w.start = v.start /\ w.hits = v.hits
      /\ w.call => v.call
  BY AtLive DEF WalkRec
<1>2. /\ w.start \subseteq Live(c) /\ NoTwice(w.hits) /\ NoTwice(w.todo)
      /\ \A i \in 1..Len(w.todo) : OnWalk(w.todo[i][1], w.todo[i][2], w.frame)
      /\ \A i \in 1..Len(w.hits) :
           w.hits[i] \in Live(c) /\ Hit(w.hits[i], w.frame) /\ ~ToCome(v, w.hits[i])
      /\ w.at # NIL => OnWalk(rcv[w.at].dev, rcv[w.at].list, w.frame) /\ ~InSeq(w.todo, Place(w.at))
      /\ w.call => w.at # NIL /\ w.hits # <<>> /\ w.hits[Len(w.hits)] = w.at
      /\ \A x \in w.start \cap On : Hit(x, w.frame) => InSeq(w.hits, x) \/ ToCome(v, x)
  BY <1>1 DEF PathOK
<1>3. w.at # NIL => w.at \in Live(c)
  BY <1>1, AtLive
<1>4. ASSUME NEW x \in Live(c)
      PROVE  /\ rcv'[x].dev = rcv[x].dev /\ rcv'[x].list = rcv[x].list /\ Place(x)' = Place(x)
             /\ Hit(x, w.frame)' <=> Hit(x, w.frame)
  <2>1. Place(x)' = Place(x) /\ Entry(x)' = Entry(x)
    BY DEF Carries
  <2>2. /\ rcv'[x].dev = rcv[x].dev /\ rcv'[x].list = rcv[x].list
        /\ rcv'[x].id = rcv[x].id /\ rcv'[x].mask = rcv[x].mask
    BY <2>1 DEF Place, Entry
  <2>3. Matches(rcv'[x], w.frame.id) <=> Matches(rcv[x], w.frame.id)
    BY <2>2, MatchesAlike
  <2>4. OnWalk(rcv'[x].dev, rcv'[x].list, w.frame) <=> OnWalk(rcv[x].dev, rcv[x].list, w.frame)
    BY <2>2
  <2> QED
    BY <2>1, <2>2, <2>3, <2>4 DEF Hit
<1>5. Live(c) \subseteq Live(c)' /\ On' \cap Live(c) \subseteq On \ {s}
  BY DEF Carries
<1>6. ASSUME NEW x \in Live(c)
      PROVE  /\ ToCome(w, x)' => ToCome(v, x)
             /\ x # s /\ ToCome(v, x) => ToCome(w, x)'
  <2>1. InSeq(w.todo, Place(x)') <=> InSeq(v.todo, Place(x))
    BY <1>1, <1>4
  <2>2. w.at # NIL => Ahead(w.at)' \subseteq Ahead(w.at) /\ Ahead(w.at) \ {s} \subseteq Ahead(w.at)'
    BY <1>3, AheadCarried
  <2>3. ToCome(w, x)' <=> InSeq(w.todo, Place(x)') \/ (w.at # NIL /\ x \in Ahead(w.at)')
    BY DEF ToCome
  <2> QED
    BY <1>1, <2>1, <2>2, <2>3 DEF ToCome
<1>7. \A i \in 1..Len(w.hits) :
        w.hits[i] \in Live(c)' /\ Hit(w.hits[i], w.frame)' /\ ~ToCome(w, w.hits[i])'
  <2> SUFFICES ASSUME NEW i \in 1..Len(w.hits), NEW x, x = w.hits[i]
               PROVE  x \in Live(c)' /\ Hit(x, w.frame)' /\ ~ToCome(w, x)'
    OBVIOUS
  <2> QED
    BY <1>2, <1>4, <1>5, <1>6
<1>8. \A i \in 1..Len(w.todo) : OnWalk(w.todo[i][1], w.todo[i][2], w.frame)'
  BY <1>2 DEF OnWalk
<1>9. w.at # NIL => OnWalk(rcv'[w.at].dev, rcv'[w.at].list, w.frame) /\ ~InSeq(w.todo, Place(w.at)')
  BY <1>2, <1>3, <1>4
<1>10. ASSUME NEW x \in w.start \cap On', Hit(x, w.frame)' PROVE InSeq(w.hits, x) \/ ToCome(w, x)'
  BY <1>2, <1>4, <1>5, <1>6, <1>10
<1> QED
  BY <1>2, <1>5, <1>7, <1>8, <1>9, <1>10 DEF PathOK


\* What a step to the next receiver leaves to come.
LEMMA NextToCome ==
  ASSUME CoreInv, OrderInv, NEW c \in Cpus, walk[c].frame # NIL, PathOK(c, walk[c]),
         NEW w \in WalkRec, LET n == NextAt(walk[c]) IN w.at = n.at /\ w.todo = n.todo
  PROVE  /\ w.at # NIL => /\ w.at \in Live(c) /\ ToCome(walk[c], w.at) /\ ~ToCome(w, w.at)
                          /\ OnWalk(rcv[w.at].dev, rcv[w.at].list, walk[c].frame)
         /\ NoTwice(w.todo) /\ \A i \in 1..Len(w.todo) : OnWalk(w.todo[i][1], w.todo[i][2], walk[c].frame)
         /\ \A s \in Slots : ToCome(w, s) => ToCome(walk[c], s)
         /\ \A s \in On : ToCome(walk[c], s) => (w.at # NIL /\ s = w.at) \/ ToCome(w, s)
<1> DEFINE v == walk[c]
           n == NextAt(v)
           y == w.at
<1>1. /\ v \in WalkRec /\ v.todo \in Seq(AnyDev \X ListIds) /\ (v.at # NIL => v.at \in Live(c) /\ v.at \in Slots)
      /\ w.at \in Slots \cup {NIL}
  BY AtLive DEF Live, WalkRec
<1>2. Len(v.todo) \in Nat /\ Len(w.todo) \in Nat
  BY <1>1, LenProperties DEF WalkRec
<1>3. /\ NoTwice(v.todo)
      /\ \A i \in 1..Len(v.todo) : OnWalk(v.todo[i][1], v.todo[i][2], v.frame)
      /\ v.at # NIL => OnWalk(rcv[v.at].dev, rcv[v.at].list, v.frame) /\ ~InSeq(v.todo, Place(v.at))
  BY DEF PathOK
<1>4. Straight /\ SameList
  BY DEF OrderInv
<1>5. n.at = w.at /\ n.todo = w.todo
  OBVIOUS
<1>6. CASE v.at # NIL /\ rcv[v.at].nxt # NIL /\ n.at = rcv[v.at].nxt /\ n.todo = v.todo
  <2>1. /\ y = rcv[v.at].nxt /\ y # NIL /\ w.todo = v.todo /\ v.at \in Live(c) /\ v.at \in Slots
    BY <1>1, <1>5, <1>6
  <2> HIDE DEF y, n
  <2>2. /\ y \in Slots /\ y \in Live(c) /\ Place(y) = Place(v.at)
        /\ Ahead(v.at) = {y} \cup Ahead(y) /\ y \notin Ahead(y)
    BY <1>4, <2>1, LinksLive, AheadIs DEF SameList
  <2>3. rcv[y].dev = rcv[v.at].dev /\ rcv[y].list = rcv[v.at].list /\ ~InSeq(v.todo, Place(y))
    BY <1>3, <1>6, <2>2 DEF Place
  <2>4. OnWalk(rcv[y].dev, rcv[y].list, v.frame)
    BY <1>3, <1>6, <2>3
  <2>5. \A s : /\ ToCome(v, s) <=> InSeq(v.todo, Place(s)) \/ s \in Ahead(v.at)
               /\ ToCome(w, s) <=> InSeq(v.todo, Place(s)) \/ s \in Ahead(y)
    BY <1>6, <2>1 DEF ToCome, y
  <2>6. ToCome(v, y) /\ ~ToCome(w, y)
    BY <2>2, <2>3, <2>5
  <2>7. \A s : /\ ToCome(w, s) => ToCome(v, s)
               /\ ToCome(v, s) => s = y \/ ToCome(w, s)
    BY <2>2, <2>5
  <2> QED
    BY <1>3, <2>1, <2>2, <2>6, <2>7, <2>4 DEF y
<1>7. ASSUME ~(v.at # NIL /\ rcv[v.at].nxt # NIL), NEW s PROVE ToCome(v, s) <=> InSeq(v.todo, Place(s))
  <2>1. v.at # NIL => Ahead(v.at) = {}
    BY <1>1, <1>4, <1>7, AheadIs
  <2> QED
    BY <2>1 DEF ToCome
<1>8. CASE /\ ~(v.at # NIL /\ rcv[v.at].nxt # NIL)
           /\ n.at = NIL /\ n.todo = <<>>
           /\ \A m \in 1..Len(v.todo) : ListHead(v.todo[m][1], v.todo[m][2]) = NIL
  <2>1. w.at = NIL /\ w.todo = <<>>
    BY <1>5, <1>8
  <2>2. \A s : ~ToCome(w, s)
    BY <2>1 DEF ToCome, InSeq
  <2>3. ASSUME NEW s \in On PROVE ~ToCome(v, s)
    <3> SUFFICES ASSUME NEW m \in 1..Len(v.todo), v.todo[m] = Place(s) PROVE FALSE
      BY <1>7, <1>8 DEF InSeq
    <3>1. ListHead(rcv[s].dev, rcv[s].list) = NIL
      BY <1>8 DEF Place
    <3>2. s \in OnList(rcv[s].dev, rcv[s].list)
      BY DEF OnList
    <3> QED
      BY <3>1, <3>2, HeadLeads
  <2>4. NoTwice(w.todo) /\ \A i \in 1..Len(w.todo) : OnWalk(w.todo[i][1], w.todo[i][2], v.frame)
    BY <2>1 DEF NoTwice
  <2> QED
    BY <2>1, <2>2, <2>3, <2>4
<1>9. ASSUME ~(v.at # NIL /\ rcv[v.at].nxt # NIL), NEW i \in 1..Len(v.todo),
             n.at = ListHead(v.todo[i][1], v.todo[i][2]), n.at # NIL,
             \A m \in 1..(i - 1) : ListHead(v.todo[m][1], v.todo[m][2]) = NIL,
             Len(n.todo) = Len(v.todo) - i,
             \A m \in 1..(Len(v.todo) - i) : n.todo[m] = v.todo[i + m]
      PROVE  /\ y \in Live(c) /\ ToCome(v, y) /\ ~ToCome(w, y)
             /\ OnWalk(rcv[y].dev, rcv[y].list, v.frame)
             /\ NoTwice(w.todo) /\ \A m \in 1..Len(w.todo) : OnWalk(w.todo[m][1], w.todo[m][2], v.frame)
             /\ \A s \in Slots : ToCome(w, s) => ToCome(v, s)
             /\ \A s \in On : ToCome(v, s) => s = y \/ ToCome(w, s)
  <2> DEFINE d == v.todo[i][1]
             l == v.todo[i][2]
  <2>1. y = ListHead(d, l) /\ y # NIL /\ v.todo[i] = <<d, l>>
    <3>1. v.todo[i] \in AnyDev \X ListIds
      BY <1>1, ElementOfSeq
    <3> QED
      BY <1>5, <1>9, <3>1
  <2>2. y \in OnList(d, l) /\ \A s \in OnList(d, l) : s = y \/ s \in Ahead(y)
    BY <2>1, HeadLeads
  <2>3. y \in On /\ y \in Slots /\ y \in Live(c) /\ Place(y) = <<d, l>> /\ rcv[y].dev = d /\ rcv[y].list = l
    BY <2>2, CoreFacts DEF OnList, Live, Place
  <2>4. Len(w.todo) = Len(v.todo) - i /\ \A m \in 1..Len(w.todo) : i + m \in 1..Len(v.todo) /\ w.todo[m] = v.todo[i + m]
    <3>1. Len(w.todo) = Len(v.todo) - i /\ \A m \in 1..(Len(v.todo) - i) : w.todo[m] = v.todo[i + m]
      BY <1>5, <1>9
    <3>2. \A m \in 1..(Len(v.todo) - i) : i + m \in 1..Len(v.todo)
      BY <1>2
    <3> QED
      BY <3>1, <3>2
  <2>5. NoTwice(w.todo) /\ \A m \in 1..Len(w.todo) : OnWalk(w.todo[m][1], w.todo[m][2], v.frame)
    <3>1. ASSUME NEW j \in 1..Len(w.todo), NEW k \in 1..Len(w.todo), w.todo[j] = w.todo[k] PROVE j = k
      <4>1. i + j = i + k
        BY <1>3, <2>4, <3>1 DEF NoTwice
      <4> QED
        BY <1>2, <4>1
    <3> QED
      BY <1>3, <2>4, <3>1 DEF NoTwice
  <2>6. ~InSeq(w.todo, <<d, l>>)
    <3> SUFFICES ASSUME NEW m \in 1..Len(w.todo), w.todo[m] = <<d, l>> PROVE FALSE
      BY DEF InSeq
    <3>1. i + m = i
      BY <1>3, <2>1, <2>4 DEF NoTwice
    <3> QED
      BY <1>2, <3>1
  <2>7. \A p : InSeq(w.todo, p) => InSeq(v.todo, p)
    BY <2>4 DEF InSeq
  <2>8. InSeq(v.todo, <<d, l>>)
    BY <2>1 DEF InSeq
  <2> HIDE DEF d, l, y
  <2>9. \A s : /\ ToCome(v, s) <=> InSeq(v.todo, Place(s))
               /\ ToCome(w, s) <=> InSeq(w.todo, Place(s)) \/ s \in Ahead(y)
    BY <1>7, <1>9, <2>1 DEF ToCome, y
  <2>10. y \notin Ahead(y)
    <3>1. CASE rcv[y].nxt = NIL
      BY <1>4, <2>3, <3>1, AheadIs
    <3>2. CASE rcv[y].nxt # NIL
      <4> SUFFICES ASSUME y \in Ahead(y) PROVE FALSE
        OBVIOUS
      <4>1. CASE \E u \in Slots : rcv[u].nxt = y
        BY <1>4, <2>1, <4>1, AheadIs
      <4>2. CASE \A u \in Slots : rcv[u].nxt # y
        <5>1. Closed(Slots \ {y}) /\ Slots \ {y} \in SUBSET Slots /\ rcv[y].nxt \in (Slots \ {y}) \cup {NIL}
          BY <2>3, <4>2, CoreFacts DEF Closed
        <5>2. y \in Slots \ {y}
          BY <5>1 DEF Ahead
        <5> QED
          BY <5>2
      <4> QED
        BY <4>1, <4>2
    <3> QED
      BY <3>1, <3>2
  <2>11. ASSUME NEW s \in Slots, ToCome(w, s) PROVE ToCome(v, s)
    <3>1. CASE s \in Ahead(y)
      <4>1. Place(s) = <<d, l>>
        BY <1>4, <2>3, <3>1, AheadPlace
      <4> QED
        BY <2>8, <2>9, <4>1
    <3> QED
      BY <2>7, <2>9, <2>11, <3>1
  <2>12. ASSUME NEW s \in On, ToCome(v, s) PROVE s = y \/ ToCome(w, s)
    <3>1. PICK m \in 1..Len(v.todo) : v.todo[m] = Place(s)
      BY <2>9, <2>12 DEF InSeq
    <3>2. s \in OnList(v.todo[m][1], v.todo[m][2])
      BY <3>1 DEF Place, OnList
    <3>3. CASE m < i
      <4>1. ListHead(v.todo[m][1], v.todo[m][2]) = NIL
        BY <1>9, <1>2, <3>3
      <4> QED
        BY <3>2, <4>1, HeadLeads
    <3>4. CASE m = i
      BY <2>2, <2>9, <3>2, <3>4 DEF d, l
    <3>5. CASE m > i
      <4>1. m - i \in 1..Len(w.todo) /\ i + (m - i) = m
        BY <1>2, <2>4, <3>5
      <4>2. w.todo[m - i] = Place(s)
        BY <2>4, <3>1, <4>1
      <4> QED
        BY <2>9, <4>1, <4>2 DEF InSeq
    <3> QED
      BY <1>2, <3>3, <3>4, <3>5
  <2> QED
    BY <1>3, <2>1, <2>3, <2>5, <2>6, <2>8, <2>9, <2>10, <2>11, <2>12 DEF d, l
<1>10. CASE \E i \in 1..Len(v.todo) :
             /\ ~(v.at # NIL /\ rcv[v.at].nxt # NIL)
             /\ n.at = ListHead(v.todo[i][1], v.todo[i][2]) /\ n.at # NIL
             /\ \A m \in 1..(i - 1) : ListHead(v.todo[m][1], v.todo[m][2]) = NIL
             /\ Len(n.todo) = Len(v.todo) - i
             /\ \A m \in 1..(Len(v.todo) - i) : n.todo[m] = v.todo[i + m]
  BY <1>5, <1>9, <1>10
<1>11. \/ v.at # NIL /\ rcv[v.at].nxt # NIL /\ n.at = rcv[v.at].nxt /\ n.todo = v.todo
       \/ /\ ~(v.at # NIL /\ rcv[v.at].nxt # NIL)
          /\ n.at = NIL /\ n.todo = <<>>
          /\ \A m \in 1..Len(v.todo) : ListHead(v.todo[m][1], v.todo[m][2]) = NIL
       \/ \E i \in 1..Len(v.todo) :
            /\ ~(v.at # NIL /\ rcv[v.at].nxt # NIL)
            /\ n.at = ListHead(v.todo[i][1], v.todo[i][2]) /\ n.at # NIL
            /\ \A m \in 1..(i - 1) : ListHead(v.todo[m][1], v.todo[m][2]) = NIL
            /\ Len(n.todo) = Len(v.todo) - i
            /\ \A m \in 1..(Len(v.todo) - i) : n.todo[m] = v.todo[i + m]
  BY <1>1, NextIs
<1> HIDE DEF n
<1> QED
  BY <1>6, <1>8, <1>10, <1>11


LEMMA AdvanceIs ==
  ASSUME CoreInv, NEW c \in Cpus, can_rcv_filter(c)
  PROVE  /\ walk[c].frame # NIL /\ ~walk[c].call /\ UNCHANGED <<rcv, refs, waits, backlog, up>>
         /\ \E w \in WalkRec :
              /\ walk' = [walk EXCEPT ![c] = w]
              /\ LET n == NextAt(walk[c]) IN w.at = n.at /\ w.todo = n.todo
              /\ w.frame = walk[c].frame /\ w.start = walk[c].start
              /\ w.call <=> w.at # NIL /\ Matches(rcv[w.at], w.frame.id)
              /\ w.call => w.at \in Slots
              /\ w.hits = IF w.call THEN Append(walk[c].hits, w.at) ELSE walk[c].hits
<1> DEFINE v == walk[c]
           n == NextAt(v)
           hit == n.at # NIL /\ Matches(rcv[n.at], v.frame.id)
           w == Advanced(v)
<1>1. /\ v.frame # NIL /\ ~v.call /\ walk' = [walk EXCEPT ![c] = w]
      /\ UNCHANGED <<rcv, waits, refs, backlog, up>>
  BY Zenon DEF can_rcv_filter, Walking
<1>2. v \in WalkRec /\ n.at \in Slots \cup {NIL}
  BY <1>1, NextAtType, CoreFacts
<1>3. w = [v EXCEPT !.at = n.at, !.todo = n.todo, !.call = hit,
                    !.hits = IF hit THEN Append(v.hits, n.at) ELSE v.hits]
  BY Zenon DEF Advanced
<1> HIDE DEF n, hit, w
<1>4. /\ w.at = n.at /\ w.todo = n.todo /\ w.frame = v.frame /\ w.start = v.start
      /\ w.call = hit /\ w.hits = IF hit THEN Append(v.hits, n.at) ELSE v.hits
  BY <1>2, <1>3 DEF WalkRec
<1>5. hit <=> n.at # NIL /\ Matches(rcv[n.at], v.frame.id)
  BY DEF hit
<1>6. walk' \in [Cpus -> WalkRec] /\ w \in WalkRec
  <2>1. CoreInv'
    BY AdvanceKeeps
  <2>2. walk'[c] = w /\ walk' \in [Cpus -> WalkRec]
    BY <1>1, <2>1, CoreFacts DEF CoreInv, CoreTypeOK
  <2> QED
    BY <2>2
<1> QED
  BY <1>1, <1>2, <1>4, <1>5, <1>6 DEF n

LEMMA PathAdvances ==
  ASSUME CoreInv, OrderInv, NEW c \in Cpus, can_rcv_filter(c), PathOK(c, walk[c]),
         NEW w, w = walk'[c]
  PROVE  PathOK(c, w)'
<1> DEFINE v == walk[c]
<1>1. v.frame # NIL /\ UNCHANGED rcv
  BY AdvanceIs
<1>2. /\ w \in WalkRec
      /\ LET n == NextAt(v) IN w.at = n.at /\ w.todo = n.todo
      /\ w.frame = v.frame /\ w.start = v.start
      /\ w.call <=> w.at # NIL /\ Matches(rcv[w.at], w.frame.id)
      /\ w.call => w.at \in Slots
      /\ w.hits = IF w.call THEN Append(v.hits, w.at) ELSE v.hits
  <2>1. walk \in [Cpus -> WalkRec]
    BY CoreFacts
  <2> QED
    BY <2>1, AdvanceIs
<1>3. /\ w.at # NIL => /\ w.at \in Live(c) /\ ToCome(v, w.at) /\ ~ToCome(w, w.at)
                       /\ OnWalk(rcv[w.at].dev, rcv[w.at].list, v.frame)
      /\ NoTwice(w.todo) /\ \A i \in 1..Len(w.todo) : OnWalk(w.todo[i][1], w.todo[i][2], v.frame)
      /\ \A s \in Slots : ToCome(w, s) => ToCome(v, s)
      /\ \A s \in On : ToCome(v, s) => (w.at # NIL /\ s = w.at) \/ ToCome(w, s)
  BY <1>1, <1>2, NextToCome
<1>4. /\ v.start \subseteq Live(c) /\ NoTwice(v.hits)
      /\ \A i \in 1..Len(v.hits) : v.hits[i] \in Live(c) /\ Hit(v.hits[i], v.frame) /\ ~ToCome(v, v.hits[i])
      /\ \A s \in v.start \cap On : Hit(s, v.frame) => InSeq(v.hits, s) \/ ToCome(v, s)
  BY DEF PathOK
<1>5. v.hits \in Seq(Slots) /\ Len(v.hits) \in Nat /\ Live(c) \subseteq Slots
  BY <1>1, AtLive, LenProperties DEF Live
<1>6. /\ ~w.call => w.hits = v.hits
      /\ w.call => /\ Len(w.hits) = Len(v.hits) + 1 /\ w.hits # <<>>
                   /\ w.hits[Len(w.hits)] = w.at /\ \A i \in 1..Len(v.hits) : w.hits[i] = v.hits[i]
  <2>1. CASE w.call
    <3> DEFINE a == w.at
    <3>1. w.hits = Append(v.hits, a) /\ a \in Slots
      BY <1>2, <2>1
    <3> HIDE DEF a
    <3>2. /\ Len(w.hits) = Len(v.hits) + 1 /\ w.hits[Len(v.hits) + 1] = a
          /\ \A i \in 1..Len(v.hits) : w.hits[i] = v.hits[i]
      BY <1>5, <3>1, AppendProperties
    <3>3. w.hits # <<>>
      BY <1>5, <3>2
    <3> QED
      BY <2>1, <3>2, <3>3 DEF a
  <2> QED
    BY <1>2, <2>1
<1>7. w.call => w.at # NIL /\ Hit(w.at, w.frame) /\ w.at \in Live(c) /\ ~ToCome(w, w.at)
  BY <1>2, <1>3 DEF Hit
<1>8. ASSUME NEW i \in 1..Len(w.hits)
      PROVE  \/ i \in 1..Len(v.hits) /\ w.hits[i] = v.hits[i]
             \/ w.call /\ i = Len(w.hits) /\ w.hits[i] = w.at
  BY <1>5, <1>6
<1>9. \A i \in 1..Len(w.hits) : w.hits[i] \in Live(c) /\ Hit(w.hits[i], w.frame) /\ ~ToCome(w, w.hits[i])
  BY <1>2, <1>3, <1>4, <1>5, <1>7, <1>8
<1>10. NoTwice(w.hits)
  <2>1. w.call => \A i \in 1..Len(v.hits) : v.hits[i] # w.at
    BY <1>3, <1>4, <1>7
  <2> SUFFICES ASSUME NEW i \in 1..Len(w.hits), NEW k \in 1..Len(w.hits), w.hits[i] = w.hits[k] PROVE i = k
    BY DEF NoTwice
  <2>2. CASE i \in 1..Len(v.hits) /\ k \in 1..Len(v.hits)
    BY <1>4, <1>6, <2>2 DEF NoTwice
  <2> QED
    BY <1>8, <2>1, <2>2
<1>11. ASSUME NEW s \in w.start \cap On, Hit(s, w.frame) PROVE InSeq(w.hits, s) \/ ToCome(w, s)
  <2>1. CASE InSeq(v.hits, s)
    <3>1. PICK i \in 1..Len(v.hits) : v.hits[i] = s
      BY <2>1 DEF InSeq
    <3>2. i \in 1..Len(w.hits) /\ w.hits[i] = s
      BY <1>5, <1>6, <3>1
    <3> QED
      BY <3>2 DEF InSeq
  <2>2. CASE w.at # NIL /\ s = w.at
    <3>1. w.call
      BY <1>2, <1>11, <2>2 DEF Hit
    <3>2. Len(w.hits) \in 1..Len(w.hits)
      BY <1>5, <1>6, <3>1
    <3> QED
      BY <1>6, <2>2, <3>1, <3>2 DEF InSeq
  <2> QED
    BY <1>2, <1>3, <1>4, <1>11, <2>1, <2>2
<1>12. w.at # NIL => ~InSeq(w.todo, Place(w.at))
  BY <1>3 DEF ToCome
<1>13. PathOK(c, w)
  BY <1>2, <1>3, <1>4, <1>6, <1>7, <1>9, <1>10, <1>11, <1>12 DEF PathOK
<1> QED
  BY <1>1, <1>13 DEF PathOK, Live, On, Hit, OnWalk, ToCome, Place, Ahead, Closed

LEMMA StartIs ==
  ASSUME CoreInv, NEW c \in Cpus, NEW f, Starts(c, f)
  PROVE  \E w \in WalkRec :
           /\ walk' = [walk EXCEPT ![c] = w] /\ walk[c].frame = NIL
           /\ w.frame = f /\ w.at = NIL /\ ~w.call /\ w.start = On /\ w.hits = <<>>
           /\ NoTwice(w.todo)
           /\ \A d, l : InSeq(w.todo, <<d, l>>) <=> OnWalk(d, l, f)
           /\ \A i \in 1..Len(w.todo) : OnWalk(w.todo[i][1], w.todo[i][2], f)
<1> DEFINE L == Lists(f.id)
           D == f.dev
           Of(d) == [i \in 1..Len(L) |-> <<d, L[i]>>]
           t == Of(AllDevs) \o Of(D)
           w == [frame |-> f, todo |-> t, at |-> NIL, call |-> FALSE, start |-> On, hits |-> <<>>]
<1>1. walk' = [walk EXCEPT ![c] = w] /\ walk[c] = Idle /\ f \in FrameRec /\ rcv' = rcv /\ f # NIL
  BY DEF Starts, can_receive
<1>2. L \in Seq(ListIds) /\ NoTwice(L) /\ D \in AnyDev /\ AllDevs \in AnyDev /\ D # AllDevs
  BY <1>1, ListsType, ListsAre, CanRxAssumption DEF FrameRec, AnyDev
<1>3. Len(L) \in Nat /\ \A i \in 1..Len(L) : L[i] \in ListIds
  BY <1>2, LenProperties, ElementOfSeq
<1> HIDE DEF L, D
<1>4. ASSUME NEW d \in AnyDev
      PROVE  Of(d) \in Seq(AnyDev \X ListIds) /\ Len(Of(d)) = Len(L) /\ \A i \in 1..Len(L) : Of(d)[i] = <<d, L[i]>>
  <2>1. Of(d) \in [1..Len(L) -> AnyDev \X ListIds] /\ DOMAIN Of(d) = 1..Len(L)
    BY <1>3
  <2>2. \A i \in 1..Len(L) : Of(d)[i] = <<d, L[i]>>
    OBVIOUS
  <2> HIDE DEF Of
  <2>3. Of(d) \in Seq(AnyDev \X ListIds)
    BY <1>3, <2>1
  <2> QED
    BY <1>3, <2>1, <2>2, <2>3, LenProperties
<1> HIDE DEF Of
<1>5. Of(AllDevs) \in Seq(AnyDev \X ListIds) /\ Of(D) \in Seq(AnyDev \X ListIds)
       /\ Len(Of(AllDevs)) = Len(L) /\ Len(Of(D)) = Len(L)
  BY <1>2, <1>4
<1>6. /\ Len(t) = Len(L) + Len(L) /\ t \in Seq(AnyDev \X ListIds)
      /\ \A i \in 1..(Len(L) + Len(L)) : t[i] = IF i <= Len(L) THEN Of(AllDevs)[i] ELSE Of(D)[i - Len(L)]
  <2> DEFINE a == Of(AllDevs)
             b == Of(D)
  <2>1. a \in Seq(AnyDev \X ListIds) /\ b \in Seq(AnyDev \X ListIds) /\ Len(a) = Len(L) /\ Len(b) = Len(L)
    BY <1>5
  <2> HIDE DEF a, b
  <2>2. /\ a \o b \in Seq(AnyDev \X ListIds) /\ Len(a \o b) = Len(a) + Len(b)
        /\ \A i \in 1..(Len(a) + Len(b)) : (a \o b)[i] = IF i <= Len(a) THEN a[i] ELSE b[i - Len(a)]
    BY <2>1, ConcatProperties
  <2> QED
    BY <2>1, <2>2 DEF a, b
<1>7. w.frame = f /\ w.todo = t /\ w.at = NIL /\ ~w.call /\ w.start = On /\ w.hits = <<>>
  OBVIOUS
<1> HIDE DEF t, w
<1>8. ASSUME NEW i \in 1..Len(t)
      PROVE  \/ i \in 1..Len(L) /\ t[i] = <<AllDevs, L[i]>>
             \/ i - Len(L) \in 1..Len(L) /\ t[i] = <<D, L[i - Len(L)]>>
  <2>1. CASE i <= Len(L)
    <3>1. i \in 1..Len(L) /\ t[i] = Of(AllDevs)[i]
      BY <1>3, <1>6, <2>1
    <3> QED
      BY <1>2, <1>4, <3>1
  <2>2. CASE ~(i <= Len(L))
    <3>1. i - Len(L) \in 1..Len(L) /\ t[i] = Of(D)[i - Len(L)]
      BY <1>3, <1>6, <2>2
    <3> QED
      BY <1>2, <1>4, <3>1
  <2> QED
    BY <2>1, <2>2
<1>9. ASSUME NEW k \in 1..Len(L)
      PROVE  /\ k \in 1..Len(t) /\ t[k] = <<AllDevs, L[k]>>
             /\ Len(L) + k \in 1..Len(t) /\ t[Len(L) + k] = <<D, L[k]>>
  <2>1. k \in 1..Len(t) /\ Len(L) + k \in 1..Len(t) /\ k <= Len(L) /\ ~(Len(L) + k <= Len(L)) /\ (Len(L) + k) - Len(L) = k
    BY <1>3, <1>6
  <2>2. t[k] = Of(AllDevs)[k] /\ t[Len(L) + k] = Of(D)[k]
    BY <1>6, <2>1
  <2> QED
    BY <1>2, <1>4, <2>1, <2>2
<1>10. NoTwice(t)
  <2> SUFFICES ASSUME NEW i \in 1..Len(t), NEW k \in 1..Len(t), t[i] = t[k] PROVE i = k
    BY DEF NoTwice
  <2>1. CASE i \in 1..Len(L) /\ t[i] = <<AllDevs, L[i]>>
    <3>1. t[k][1] = AllDevs /\ t[k][2] = L[i]
      BY <2>1
    <3>2. k \in 1..Len(L) /\ t[k] = <<AllDevs, L[k]>>
      BY <1>2, <1>8, <3>1
    <3>3. L[k] = L[i]
      BY <3>1, <3>2
    <3> QED
      BY <1>2, <2>1, <3>2, <3>3 DEF NoTwice
  <2>2. CASE i - Len(L) \in 1..Len(L) /\ t[i] = <<D, L[i - Len(L)]>>
    <3>1. t[k][1] = D /\ t[k][2] = L[i - Len(L)]
      BY <2>2
    <3>2. k - Len(L) \in 1..Len(L) /\ t[k] = <<D, L[k - Len(L)]>>
      BY <1>2, <1>8, <3>1
    <3>3. L[k - Len(L)] = L[i - Len(L)]
      BY <3>1, <3>2
    <3>4. k - Len(L) = i - Len(L)
      BY <1>2, <2>2, <3>2, <3>3 DEF NoTwice
    <3> QED
      BY <1>3, <3>4
  <2> QED
    BY <1>8, <2>1, <2>2
<1>11. ASSUME NEW d, NEW l PROVE InSeq(t, <<d, l>>) <=> OnWalk(d, l, f)
  <2>1. ASSUME InSeq(t, <<d, l>>) PROVE OnWalk(d, l, f)
    <3>1. PICK i \in 1..Len(t) : t[i] = <<d, l>>
      BY <2>1 DEF InSeq
    <3>2. \E k \in 1..Len(L) : <<d, l>> = <<AllDevs, L[k]>> \/ <<d, l>> = <<D, L[k]>>
      BY <1>8, <3>1
    <3>3. d \in {AllDevs, D} /\ \E k \in 1..Len(L) : L[k] = l
      BY <3>2
    <3> QED
      BY <3>3 DEF OnWalk, InSeq, L, D
  <2>2. ASSUME OnWalk(d, l, f) PROVE InSeq(t, <<d, l>>)
    <3>1. d \in {AllDevs, D} /\ \E k \in 1..Len(L) : L[k] = l
      BY <2>2 DEF OnWalk, InSeq, L, D
    <3> QED
      BY <1>9, <3>1 DEF InSeq
  <2> QED
    BY <2>1, <2>2
<1>12. ASSUME NEW i \in 1..Len(t) PROVE OnWalk(t[i][1], t[i][2], f)
  <2>1. t[i] = <<t[i][1], t[i][2]>>
    BY <1>8
  <2>2. InSeq(t, t[i])
    BY DEF InSeq
  <2> QED
    BY <1>11, <2>1, <2>2
<1>13. w \in WalkRec
  <2>1. walk' \in [Cpus -> WalkRec] /\ walk'[c] = w
    BY <1>1, ReceiveKeeps, CoreFacts DEF Starts
  <2> QED
    BY <2>1
<1>14. walk[c].frame = NIL
  BY <1>1 DEF Idle
<1>15. NoTwice(w.todo) /\ (\A d, l : InSeq(w.todo, <<d, l>>) <=> OnWalk(d, l, f))
       /\ \A i \in 1..Len(w.todo) : OnWalk(w.todo[i][1], w.todo[i][2], f)
  BY <1>7, <1>10, <1>11, <1>12
<1> QED
  BY <1>1, <1>7, <1>13, <1>14, <1>15

LEMMA PathStarts ==
  ASSUME CoreInv, NEW c \in Cpus, NEW f, Starts(c, f), NEW w, w = walk'[c]
  PROVE  PathOK(c, w)'
<1>1. /\ w.frame = f /\ w.at = NIL /\ ~w.call /\ w.start = On /\ w.hits = <<>> /\ NoTwice(w.todo)
      /\ \A d, l : InSeq(w.todo, <<d, l>>) <=> OnWalk(d, l, f)
      /\ \A i \in 1..Len(w.todo) : OnWalk(w.todo[i][1], w.todo[i][2], f)
  BY StartIs, CoreFacts
<1>2. rcv' = rcv
  BY DEF Starts
<1>3. On \subseteq Live(c)
  BY DEF On, Live
<1>4. Len(w.hits) = 0 /\ NoTwice(w.hits)
  BY <1>1 DEF NoTwice
<1>5. \A s : Hit(s, f) => ToCome(w, s)
  BY <1>1 DEF Hit, ToCome, Place
<1>6. PathOK(c, w)
  BY <1>1, <1>3, <1>4, <1>5 DEF PathOK
<1> QED
  BY <1>2, <1>6 DEF PathOK, Live, On, Hit, OnWalk, ToCome, Place, Ahead, Closed

-----------------------------------------------------------------------------
(* Delivery, step by step. *)

DeliveryInv == OrderInv /\ PathInv

\* What a step is to lists and walks.
LEMMA StepIs ==
  ASSUME CoreInv, RawCtl, GwInv, scene \in Scenes, Next
  PROVE  \/ \E c \in Cpus : \E f : Starts(c, f)
         \/ \E c \in Cpus : can_rcv_filter(c) \/ rcu_read_unlock(c)
         \/ \E O \in SUBSET Owners : ActsFor(O)
<1>1. /\ Plain \in SUBSET Owners /\ RawSocks \in SUBSET Owners /\ Jobs \in SUBSET Owners
      /\ {RxOp} \in SUBSET Owners
  BY CanRxAssumption, RawAssumption, GwAssumption, BcmAssumption DEF Plain
<1>2. ASSUME NEW c \in Cpus, Receive(c) \/ Loopback(c) PROVE \E f : Starts(c, f)
  BY <1>2, ReceiveStarts, LoopbackStarts
<1>3. ASSUME NEW c \in Cpus, Filter(c) \/ Unlock(c) PROVE can_rcv_filter(c) \/ rcu_read_unlock(c)
  BY <1>3 DEF Filter, Unlock
<1>4. CASE Register \/ Unregister \/ \E c \in Cpus : Taken(c)
  BY <1>1, <1>4, PlainActs
<1>5. CASE RawUses \/ RawUsed \/ RawSends
  BY <1>1, <1>5, RawActs
<1>6. CASE GwUses \/ GwUsed
  BY <1>1, <1>6, GwActs
<1>7. CASE BcmUses \/ BcmUsed
  BY <1>1, <1>7, BcmActs
<1>8. CASE Over
  <2>1. ActsFor({RxOp})
    BY <1>8 DEF Over, vars, rxVars, Quiet, ActsFor
  <2> QED
    BY <1>1, <2>1
<1> QED
  BY <1>2, <1>3, <1>4, <1>5, <1>6, <1>7, <1>8 DEF Next

\* Who acts links or unlinks one receiver, or ends a callback.
LEMMA ActsIs ==
  ASSUME CoreInv, OrderInv, NEW O \in SUBSET Owners, ActsFor(O)
  PROVE  /\ OrderInv'
         /\ \E s : \A c \in Readers : Carries(c, s)
         /\ \A c \in Cpus : walk'[c] = walk[c] \/ walk'[c] = [walk[c] EXCEPT !.call = FALSE]
<1>1. ASSUME UNCHANGED rcv PROVE OrderInv' /\ \A c \in Readers : Carries(c, NIL)
  <2>1. OrderInv'
    BY <1>1 DEF OrderInv, Straight, SortedIn, Entry, SameList, Place, OneHead, On
  <2> QED
    BY <1>1, <2>1, StillCarries DEF Readers
<1>2. CASE Quiet
  BY <1>1, <1>2 DEF Quiet
<1>3. CASE LinksFor(O)
  <2>1. PICK dev \in AnyDev, f \in CanFilters, o \in O : can_rx_register(dev, f, o)
    BY <1>3 DEF LinksFor
  <2>2. PICK s \in Slots : Links(s, dev, f, o)
    BY <2>1, RegisterLinks
  <2>3. LinkIs(s, dev, f, o) /\ o \in Owners
    BY <2>2, LinkFacts
  <2> QED
    BY <1>3, <2>3, LinkOrders, LinkCarries DEF LinksFor, Readers
<1>4. CASE UnlinksFor(O)
  <2>1. PICK dev \in AnyDev \cup {NIL}, f \in CanFilters \cup {NIL}, o \in O : can_rx_unregister(dev, f, o)
    BY <1>4 DEF UnlinksFor
  <2>2. CASE Found(dev, f, o) = {}
    <3>1. UNCHANGED rcv
      BY <2>1, <2>2 DEF can_rx_unregister
    <3> QED
      BY <1>1, <1>4, <3>1 DEF UnlinksFor
  <2>3. CASE Found(dev, f, o) # {}
    <3>1. PICK s \in Found(dev, f, o) : Unlinks(s)
      BY <2>1, <2>3, UnregisterUnlinks
    <3>2. s \in Slots /\ UnlinkIs(s)
      BY <3>1, UnlinkFacts, CoreFacts DEF Unlinks
    <3> QED
      BY <1>4, <3>2, UnlinkOrders, UnlinkCarries DEF UnlinksFor
  <2> QED
    BY <2>2, <2>3
<1>5. CASE ReturnsFor(O)
  <2>1. PICK c \in Cpus : Returned(c)
    BY <1>5 DEF ReturnsFor
  <2>2. \A d \in Cpus : walk'[d] = walk[d] \/ walk'[d] = [walk[d] EXCEPT !.call = FALSE]
    BY <2>1, CoreFacts DEF Returned
  <2> QED
    BY <1>1, <1>5, <2>2 DEF ReturnsFor
<1> QED
  BY <1>2, <1>3, <1>4, <1>5 DEF ActsFor

\* The walks a step leaves alone.
LEMMA PathStays ==
  ASSUME CoreInv, PathInv, NEW c \in Cpus, NEW s, c \in Readers => Carries(c, s),
         walk'[c] = walk[c] \/ walk'[c] = [walk[c] EXCEPT !.call = FALSE],
         NEW w, w = walk'[c], w.frame # NIL
  PROVE  PathOK(c, w)'
<1>1. walk[c] \in WalkRec
  BY CoreFacts
<1>2. walk[c].frame # NIL
  BY <1>1 DEF WalkRec
<1>3. PathOK(c, walk[c]) /\ Carries(c, s)
  BY <1>2 DEF PathInv, Readers
<1> QED
  BY <1>2, <1>3, PathCarries

LEMMA DeliveryStep ==
  ASSUME StackInv, DeliveryInv, Next
  PROVE  DeliveryInv'
<1>1. CoreInv /\ OrderInv /\ PathInv /\ walk \in [Cpus -> WalkRec]
  BY CoreFacts DEF StackInv, DeliveryInv
<1>2. ASSUME UNCHANGED rcv PROVE OrderInv' /\ \A c \in Cpus : Carries(c, NIL)
  <2>1. OrderInv'
    BY <1>1, <1>2 DEF OrderInv, Straight, SortedIn, Entry, SameList, Place, OneHead, On
  <2> QED
    BY <1>1, <1>2, <2>1, StillCarries
<1>3. ASSUME NEW c \in Cpus, NEW f, Starts(c, f) PROVE DeliveryInv'
  <2>1. UNCHANGED rcv
    BY <1>3 DEF Starts
  <2>2. ASSUME NEW d \in Cpus, NEW w, w = walk'[d], w.frame # NIL PROVE PathOK(d, w)'
    <3>1. CASE d = c
      BY <1>1, <1>3, <2>2, <3>1, PathStarts
    <3>2. CASE d # c
      <4>1. walk'[d] = walk[d]
        BY <1>1, <1>3, <3>2, StartIs
      <4> QED
        BY <1>1, <1>2, <2>1, <2>2, <4>1, PathStays
    <3> QED
      BY <3>1, <3>2
  <2> QED
    BY <1>2, <2>1, <2>2 DEF DeliveryInv, PathInv
<1>4. ASSUME NEW c \in Cpus, can_rcv_filter(c) PROVE DeliveryInv'
  <2>1. UNCHANGED rcv /\ walk[c].frame # NIL
    BY <1>1, <1>4, AdvanceIs
  <2>2. ASSUME NEW d \in Cpus, NEW w, w = walk'[d], w.frame # NIL PROVE PathOK(d, w)'
    <3>1. CASE d = c
      <4>1. PathOK(c, walk[c])
        BY <1>1, <2>1 DEF PathInv
      <4> QED
        BY <1>1, <1>4, <2>2, <3>1, <4>1, PathAdvances
    <3>2. CASE d # c
      <4>1. walk'[d] = walk[d]
        BY <1>1, <1>4, <3>2, AdvanceIs
      <4> QED
        BY <1>1, <1>2, <2>1, <2>2, <4>1, PathStays
    <3> QED
      BY <3>1, <3>2
  <2> QED
    BY <1>2, <2>1, <2>2 DEF DeliveryInv, PathInv
<1>5. ASSUME NEW c \in Cpus, rcu_read_unlock(c) PROVE DeliveryInv'
  <2>1. UnlockIs(c) /\ walk' = [walk EXCEPT ![c] = Idle]
    BY <1>1, <1>5, UnlockFacts DEF rcu_read_unlock
  <2>2. OrderInv'
    BY <1>1, <2>1, UnlockOrders
  <2>3. ASSUME NEW d \in Cpus, NEW w, w = walk'[d], w.frame # NIL PROVE PathOK(d, w)'
    <3>1. d # c /\ walk'[d] = walk[d]
      BY <1>1, <2>1, <2>3 DEF Idle
    <3>2. Carries(d, NIL)
      BY <1>1, <2>1, <3>1, UnlockCarries
    <3> QED
      BY <1>1, <2>3, <3>1, <3>2, PathStays
  <2> QED
    BY <2>2, <2>3 DEF DeliveryInv, PathInv
<1>6. ASSUME NEW O \in SUBSET Owners, ActsFor(O) PROVE DeliveryInv'
  <2>1. PICK s : \A c \in Readers : Carries(c, s)
    BY <1>1, <1>6, ActsIs
  <2>2. ASSUME NEW d \in Cpus, NEW w, w = walk'[d], w.frame # NIL PROVE PathOK(d, w)'
    <3>1. walk'[d] = walk[d] \/ walk'[d] = [walk[d] EXCEPT !.call = FALSE]
      BY <1>1, <1>6, ActsIs
    <3> QED
      BY <1>1, <2>1, <2>2, <3>1, PathStays
  <2>3. OrderInv'
    BY <1>1, <1>6, ActsIs
  <2> QED
    BY <2>2, <2>3 DEF DeliveryInv, PathInv
<1> QED
  BY <1>3, <1>4, <1>5, <1>6, StepIs DEF StackInv

LEMMA DeliveryInit == Init => DeliveryInv
<1> SUFFICES ASSUME Init PROVE DeliveryInv
  OBVIOUS
<1>1. rcv = [s \in Slots |-> Free] /\ walk = [c \in Cpus |-> Idle]
  BY DEF Init, RxInit
<1>2. \A s \in Slots : rcv[s].state = "free" /\ rcv[s].nxt = NIL
  BY <1>1, FreeType
<1>3. On = {} /\ NIL \notin Slots
  BY <1>2, CanRxAssumption DEF On
<1>4. \A T \in SUBSET Slots : \A t, u \in T : rcv[u].nxt # t
  BY <1>2, <1>3
<1>5. Straight
  BY <1>4 DEF Straight
<1>6. OrderInv
  BY <1>2, <1>3, <1>5 DEF OrderInv, SortedIn, SameList, OneHead
<1>7. PathInv
  BY <1>1 DEF PathInv, Idle
<1> QED
  BY <1>6, <1>7 DEF DeliveryInv

LEMMA DeliveryInductive == Spec => [](StackInv /\ DeliveryInv)
<1>1. DeliveryInv /\ UNCHANGED vars => DeliveryInv'
  BY DEF vars, rxVars, DeliveryInv, OrderInv, Straight, SortedIn, Entry, SameList, OneHead, On, Place,
         PathInv, PathOK, Live, ToCome, Ahead, Closed, Hit, OnWalk
<1>2. StackInv /\ DeliveryInv /\ [Next]_vars => DeliveryInv'
  BY <1>1, DeliveryStep
<1>3. StackInv /\ [Next]_vars => StackInv'
  BY StackStep
<1> QED
  BY <1>2, <1>3, StackInit, DeliveryInit, PTL DEF Spec

-----------------------------------------------------------------------------
(* DeliveryExact. *)

LEMMA HitsCount ==
  ASSUME NEW S, NEW s \in Seq(S), NoTwice(s)
  PROVE  /\ IsFiniteSet(ToSet(s)) /\ Cardinality(ToSet(s)) = Len(s)
         /\ \A x : x \in ToSet(s) <=> InSeq(s, x)
<1> DEFINE f == [i \in 1..Len(s) |-> s[i]]
<1>1. Len(s) \in Nat /\ ToSet(s) = {s[i] : i \in 1..Len(s)}
  BY DEF ToSet
<1>2. f \in [1..Len(s) -> ToSet(s)]
  BY <1>1
<1>3. \A i, k \in 1..Len(s) : f[i] = f[k] => i = k
  BY DEF NoTwice
<1>4. \A x \in ToSet(s) : \E i \in 1..Len(s) : f[i] = x
  BY <1>1
<1> HIDE DEF f
<1>5. f \in Bijection(1..Len(s), ToSet(s))
  BY <1>2, <1>3, <1>4 DEF Bijection, Injection, Surjection, IsInjective
<1>6. ExistsBijection(1..Len(s), ToSet(s))
  BY <1>5 DEF ExistsBijection
<1> QED
  BY <1>1, <1>6, FS_CountingElements, FS_NatBijection DEF InSeq

\* A receiver is concerned by a frame just when a walk for the frame takes it.
LEMMA ConcernedIsHit ==
  ASSUME WellFormed, SortedIn, NEW s \in Slots, rcv[s].state # "free", NEW f \in FrameRec
  PROVE  Concerns(rcv[s], f) <=> Hit(s, f)
<1>1. rcv[s].asked \in CanFilters /\ Entry(s) = can_rcv_list_find(rcv[s].asked) /\ f.id \in Ids
  BY DEF SortedIn, FrameRec
<1>2. Meets(Entry(s), f.id) <=> FilterMatches(rcv[s].asked, f.id)
  BY <1>1, SortedAlike
<1>3. Entry(s).list = rcv[s].list /\ Entry(s).id = rcv[s].id /\ Entry(s).mask = rcv[s].mask
  BY DEF Entry
<1>4. Matches(Entry(s), f.id) <=> Matches(rcv[s], f.id)
  BY <1>3, MatchesAlike
<1> QED
  BY <1>2, <1>3, <1>4 DEF Meets, Concerns, Hit, OnWalk

\* What a walk has done at its end.
LEMMA EndedIs ==
  ASSUME CoreInv, PathInv, NEW c \in Cpus, Ended(c)
  PROVE  /\ walk[c].hits \in Seq(Slots) /\ NoTwice(walk[c].hits) /\ walk[c].frame \in FrameRec
         /\ \A i \in 1..Len(walk[c].hits) :
              walk[c].hits[i] \in Live(c) /\ Hit(walk[c].hits[i], walk[c].frame)
         /\ \A s \in walk[c].start \cap On : Hit(s, walk[c].frame) => InSeq(walk[c].hits, s)
<1> DEFINE w == walk[c]
<1>1. w.frame # NIL /\ w.at = NIL /\ w.todo = <<>>
  BY DEF Ended
<1>2. PathOK(c, w)
  BY <1>1 DEF PathInv
<1>3. \A s : ~ToCome(w, s)
  <2>1. Len(w.todo) = 0
    BY <1>1
  <2> QED
    BY <1>1, <2>1 DEF ToCome, InSeq
<1> QED
  BY <1>1, <1>2, <1>3, AtLive DEF PathOK

\* can_rcv_filter() delivers a frame once to each receiver that it concerns and
\* that is registered all the time, and to no other: for any number of walks and
\* of calls that register and unregister meanwhile.  WellFormed is needed, as
\* can_rcv_list_find() drops bits of a filter for frames without EFF.
THEOREM DeliveryIsExact == ASSUME WellFormed PROVE Spec => []DeliveryExact
<1>1. ASSUME WellFormed, StackInv, DeliveryInv PROVE DeliveryExact
  <2>1. CoreInv /\ OrderInv /\ PathInv /\ SortedIn
    BY <1>1 DEF StackInv, DeliveryInv, OrderInv
  <2> SUFFICES ASSUME NEW c \in Cpus, Ended(c)
               PROVE  LET hits == ToSet(walk[c].hits)
                      IN /\ {s \in walk[c].start \cap On : Concerns(rcv[s], walk[c].frame)} \subseteq hits
                         /\ \A s \in hits : Concerns(rcv[s], walk[c].frame)
                         /\ Cardinality(hits) = Len(walk[c].hits)
    BY DEF DeliveryExact
  <2> DEFINE h == walk[c].hits
             f == walk[c].frame
  <2>2. /\ h \in Seq(Slots) /\ NoTwice(h) /\ f \in FrameRec
        /\ \A i \in 1..Len(h) : h[i] \in Live(c) /\ Hit(h[i], f)
        /\ \A s \in walk[c].start \cap On : Hit(s, f) => InSeq(h, s)
    BY <2>1, EndedIs
  <2>3. /\ Cardinality(ToSet(h)) = Len(h)
        /\ \A x : x \in ToSet(h) <=> InSeq(h, x)
    BY <2>2, HitsCount
  <2>4. \A s \in Live(c) : Concerns(rcv[s], f) <=> Hit(s, f)
    BY <1>1, <2>1, <2>2, ConcernedIsHit DEF Live
  <2>5. On \subseteq Live(c)
    BY DEF On, Live
  <2>6. \A s \in ToSet(h) : s \in Live(c) /\ Hit(s, f)
    BY <2>2, <2>3 DEF InSeq
  <2> QED
    BY <2>2, <2>3, <2>4, <2>5, <2>6
<1> QED
  BY <1>1, DeliveryInductive, PTL

-----------------------------------------------------------------------------
(* RawRegistered. *)

\* Between the calls the registrations of a raw socket are those of its fields,
\* each once, also after calls that failed half way: none is left behind and none
\* is lost.
THEOREM RawIsRegistered == Spec => []RawRegistered
<1>1. ASSUME StackInv, CountInv PROVE RawRegistered
  <2>1. CoreInv /\ RawCtl /\ RegisteredInv
    BY <1>1 DEF StackInv, CountInv
  <2> DEFINE of(s) == [list |-> rcv[s].list, id |-> rcv[s].id, mask |-> rcv[s].mask]
  <2> SUFFICES ASSUME rtnl = NoCall, NEW k \in RawSocks
               PROVE  LET mine == {s \in On : rcv[s].owner = k}
                          fs   == AllFilters(ro[k])
                          want == IF ro[k].bound THEN [i \in 1..Len(fs) |-> can_rcv_list_find(fs[i])] ELSE <<>>
                      IN /\ \A e \in ToSet(want) \cup {of(s) : s \in mine} :
                              Cardinality({s \in mine : of(s) = e}) = Cardinality({i \in 1..Len(want) : want[i] = e})
                         /\ \A s \in mine : rcv[s].dev = ro[k].dev
    BY DEF RawRegistered
  <2> DEFINE mine == {s \in On : rcv[s].owner = k}
             fs   == AllFilters(ro[k])
             want == IF ro[k].bound THEN [i \in 1..Len(fs) |-> can_rcv_list_find(fs[i])] ELSE <<>>
  <2>2. \A Y : Num(k, Y) = Want(ro[k], Y)
    BY <2>1, NilFacts DEF RegisteredInv, Counted, NoCall
  <2>3. ro[k] \in RoRec /\ (ro[k].bound <=> ro[k].dev # NIL)
    BY <2>1 DEF RawCtl, RawTypeOK, CallInv
  <2>4. fs \in Seq(CanFilters)
    BY <2>3, FiltersType
  <2>5. ASSUME NEW s \in mine PROVE ro[k].bound /\ rcv[s].dev = ro[k].dev
    <3> DEFINE Y == {KeyAt(s)}
    <3>1. s \in Regs(k, Y) /\ IsFiniteSet(Regs(k, Y))
      BY RegsFinite DEF Regs
    <3>2. Num(k, Y) # 0
      BY <3>1, FS_EmptySet DEF Num
    <3>3. Want(ro[k], Y) # 0
      BY <2>2, <3>2
    <3>4. ro[k].bound /\ Times(fs, FiltersOf(ro[k].dev, Y)) # 0
      BY <3>3 DEF Want
    <3>5. At(fs, FiltersOf(ro[k].dev, Y)) # {}
      BY <3>4, FS_EmptySet DEF Times
    <3>6. PICK i \in 1..Len(fs) : Key(ro[k].dev, fs[i]) = KeyAt(s)
      BY <3>5 DEF At, FiltersOf
    <3> QED
      BY <3>4, <3>6 DEF Key, KeyAt
  <2>6. ASSUME NEW e PROVE Cardinality({s \in mine : of(s) = e}) = Cardinality({i \in 1..Len(want) : want[i] = e})
    <3> DEFINE Y == {<<ro[k].dev, e>>}
    <3>1. {s \in mine : of(s) = e} = Regs(k, Y)
      <4>1. Regs(k, Y) = {s \in On : rcv[s].owner = k /\ <<rcv[s].dev, of(s)>> = <<ro[k].dev, e>>}
        BY DEF Regs, KeyAt
      <4> QED
        BY <2>5, <4>1
    <3>2. CASE ro[k].bound
      <4>1. want = [i \in 1..Len(fs) |-> can_rcv_list_find(fs[i])] /\ Len(want) = Len(fs)
        BY <2>4, <3>2
      <4>2. {i \in 1..Len(want) : want[i] = e} = {i \in 1..Len(fs) : can_rcv_list_find(fs[i]) = e}
        BY <4>1
      <4>3. {i \in 1..Len(fs) : can_rcv_list_find(fs[i]) = e} = At(fs, FiltersOf(ro[k].dev, Y))
        <5>1. \A i \in 1..Len(fs) : fs[i] \in CanFilters
          BY <2>4
        <5> HIDE DEF fs
        <5> QED
          BY <5>1 DEF At, FiltersOf, Key
      <4>4. Want(ro[k], Y) = Cardinality(At(fs, FiltersOf(ro[k].dev, Y)))
        BY <3>2 DEF Want, Times
      <4> QED
        BY <2>2, <3>1, <4>2, <4>3, <4>4 DEF Num
    <3>3. CASE ~ro[k].bound
      <4>1. Len(want) = 0
        BY <3>3
      <4>2. {i \in 1..Len(want) : want[i] = e} = {}
        BY <4>1
      <4>3. Want(ro[k], Y) = 0
        BY <3>3 DEF Want
      <4> QED
        BY <2>2, <3>1, <4>2, <4>3, FS_EmptySet DEF Num
    <3> QED
      BY <3>2, <3>3
  <2> QED
    BY <2>5, <2>6
<1> QED
  BY <1>1, CountInductive, PTL

-----------------------------------------------------------------------------
(* RawDelivery: what a socket notes of a frame counts the filters that match. *)

UniqRec == [seen : BOOLEAN, joined : Nat, queued : Nat, calm : BOOLEAN]
SameKind(q, r) == q.join = r.join /\ q.own = r.own /\ q.kinds = r.kinds

\* The callbacks to the socket k that have ended in the walk w.
Served(k, w) == {i \in 1..Len(w.hits) : rcv[w.hits[i]].owner = k /\ ~(w.call /\ i = Len(w.hits))}
Got(k, w) == Cardinality(Served(k, w))

\* How often a socket that joins `len' filters has passed on a frame after n callbacks.
Late(n, len) == IF n = 0 \/ n < len THEN 0 ELSE IF len = 0 THEN n ELSE n - len + 1

TallyOK(k, c, w) ==
  /\ uniq[k][c].calm =>
       rtnl.sk # k /\ \A s \in Live(c) : rcv[s].owner = k => s \in w.start \cap On
  /\ IF RawTakes(k, w.frame)
     THEN /\ uniq[k][c].seen <=> Got(k, w) > 0
          /\ ro[k].join =>
               /\ uniq[k][c].joined = Got(k, w)
               /\ uniq[k][c].calm => uniq[k][c].queued = Late(Got(k, w), Len(ro[k].filter))
     ELSE ~uniq[k][c].seen /\ uniq[k][c].queued = 0

TallyInv ==
  /\ uniq \in [RawSocks -> [Cpus -> UniqRec]]
  /\ rtnl.sk # NIL => SameKind(rtnl.new, ro[rtnl.sk])
  /\ \A k \in RawSocks, c \in Cpus :
       /\ ~ro[k].join => uniq[k][c].queued = IF uniq[k][c].seen THEN 1 ELSE 0
       /\ \A w \in {walk[c]} : w.frame # NIL => TallyOK(k, c, w)

LEMMA GotType ==
  ASSUME NEW w, w.hits \in Seq(Slots), NEW k
  PROVE  IsFiniteSet(Served(k, w)) /\ Got(k, w) \in Nat
<1>1. Served(k, w) \in SUBSET (1..Len(w.hits)) /\ IsFiniteSet(1..Len(w.hits))
  <2>1. Len(w.hits) \in Nat
    OBVIOUS
  <2> QED
    BY <2>1, FS_Interval DEF Served
<1>2. IsFiniteSet(Served(k, w))
  BY <1>1, FS_Subset
<1> QED
  BY <1>2, FS_CardinalityType DEF Got

\* The end of a callback counts for its socket.
LEMMA GotReturned ==
  ASSUME NEW w \in WalkRec, w.call, w.hits # <<>>, w.hits[Len(w.hits)] = w.at, NEW k,
         NEW v, v = [w EXCEPT !.call = FALSE]
  PROVE  Got(k, v) = Got(k, w) + IF rcv[w.at].owner = k THEN 1 ELSE 0
<1> DEFINE n == Len(w.hits)
<1>1. v.hits = w.hits /\ ~v.call /\ w.hits \in Seq(Slots)
  BY DEF WalkRec
<1>2. n \in Nat /\ n # 0
  BY <1>1, EmptySeq
<1>3. /\ Served(k, v) = {i \in 1..n : rcv[w.hits[i]].owner = k}
      /\ Served(k, w) = {i \in 1..n : rcv[w.hits[i]].owner = k /\ i # n}
  BY <1>1 DEF Served
<1>4. IsFiniteSet(Served(k, w)) /\ Got(k, w) \in Nat
  BY <1>1, GotType
<1>5. CASE rcv[w.at].owner = k
  <2>1. rcv[w.hits[n]].owner = k /\ n \in 1..n
    BY <1>2, <1>5
  <2> HIDE DEF n
  <2>2. Served(k, v) = Served(k, w) \cup {n} /\ n \notin Served(k, w)
    BY <1>3, <2>1
  <2>3. Cardinality(Served(k, w) \cup {n}) = Cardinality(Served(k, w)) + 1
    BY <1>4, <2>2, FS_AddElement
  <2> QED
    BY <1>5, <2>2, <2>3 DEF Got
<1>6. CASE rcv[w.at].owner # k
  <2>1. Served(k, v) = Served(k, w)
    BY <1>2, <1>3, <1>6
  <2> QED
    BY <1>4, <1>6, <2>1 DEF Got
<1> QED
  BY <1>5, <1>6

\* A callback that begins does not count yet.
LEMMA GotAdvanced ==
  ASSUME NEW v \in WalkRec, ~v.call, NEW w, w.call \in BOOLEAN, w.call => w.at \in Slots,
         w.hits = IF w.call THEN Append(v.hits, w.at) ELSE v.hits, NEW k
  PROVE  Got(k, w) = Got(k, v)
<1> DEFINE n == Len(v.hits)
<1>1. v.hits \in Seq(Slots) /\ n \in Nat
  BY DEF WalkRec
<1>2. CASE ~w.call
  BY <1>2 DEF Got, Served
<1>3. CASE w.call
  <2>1. /\ Len(w.hits) = n + 1 /\ \A i \in 1..n : w.hits[i] = v.hits[i]
    BY <1>1, <1>3, AppendProperties
  <2>2. Served(k, w) = Served(k, v)
    BY <1>1, <1>3, <2>1 DEF Served
  <2> QED
    BY <2>2 DEF Got
<1> QED
  BY <1>2, <1>3

\* The receivers a walk has met keep their owners.
LEMMA GotCarried ==
  ASSUME CoreInv, PathInv, NEW c \in Cpus, walk[c].frame # NIL, NEW s, Carries(c, s), NEW k,
         NEW w, w.hits = walk[c].hits
  PROVE  Got(k, w)' = Got(k, w)
<1>1. \A i \in 1..Len(w.hits) : w.hits[i] \in Live(c)
  BY DEF PathInv, PathOK
<1>2. \A i \in 1..Len(w.hits) : rcv'[w.hits[i]].owner = rcv[w.hits[i]].owner
  BY <1>1 DEF Carries
<1>3. Served(k, w)' = Served(k, w)
  BY <1>2 DEF Served
<1> QED
  BY <1>3 DEF Got

\* What is noted stays true if the count stays, and while the filters do.
LEMMA TallyCarries ==
  ASSUME NEW k, NEW c, NEW w, TallyOK(k, c, w),
         NEW v, v.frame = w.frame, v.start = w.start, Got(k, v)' = Got(k, w),
         SameKind(ro'[k], ro[k]),
         /\ uniq'[k][c].seen = uniq[k][c].seen /\ uniq'[k][c].joined = uniq[k][c].joined
         /\ uniq'[k][c].queued = uniq[k][c].queued,
         uniq'[k][c].calm => /\ uniq[k][c].calm /\ rtnl'.sk # k /\ ro'[k].filter = ro[k].filter
                             /\ \A s \in Live(c)' : rcv'[s].owner = k =>
                                  s \in Live(c) /\ rcv[s].owner = k /\ (s \in On => s \in On')
  PROVE  TallyOK(k, c, v)'
<1>1. RawTakes(k, v.frame)' <=> RawTakes(k, w.frame)
  BY DEF RawTakes, SameKind
<1>2. uniq'[k][c].calm => rtnl'.sk # k /\ \A s \in Live(c)' : rcv'[s].owner = k => s \in v.start \cap On'
  BY DEF TallyOK
<1>3. CASE RawTakes(k, w.frame)
  <2>1. /\ uniq[k][c].seen <=> Got(k, w) > 0
        /\ ro[k].join =>
             /\ uniq[k][c].joined = Got(k, w)
             /\ uniq[k][c].calm => uniq[k][c].queued = Late(Got(k, w), Len(ro[k].filter))
    BY <1>3 DEF TallyOK
  <2>2. ro'[k].join = ro[k].join
    BY DEF SameKind
  <2>3. uniq'[k][c].calm => Late(Got(k, v)', Len(ro'[k].filter)) = Late(Got(k, w), Len(ro[k].filter))
    OBVIOUS
  <2>4. /\ uniq'[k][c].seen <=> Got(k, v)' > 0
        /\ ro'[k].join =>
             /\ uniq'[k][c].joined = Got(k, v)'
             /\ uniq'[k][c].calm => uniq'[k][c].queued = Late(Got(k, v)', Len(ro'[k].filter))
    BY <2>1, <2>2, <2>3
  <2> QED
    BY <1>1, <1>2, <1>3, <2>4 DEF TallyOK, Late
<1>4. CASE ~RawTakes(k, w.frame)
  BY <1>1, <1>2, <1>4 DEF TallyOK
<1> QED
  BY <1>3, <1>4

\* Who ends a callback ends it for an owner he acts for.
LEMMA ActsReturn ==
  ASSUME CoreInv, NEW O \in SUBSET Owners, ActsFor(O), NEW c \in Cpus
  PROVE  \/ walk'[c] = walk[c]
         \/ /\ walk'[c] = [walk[c] EXCEPT !.call = FALSE] /\ Callee(c) \in O
<1>1. ASSUME ReturnsFor(O)
      PROVE  walk'[c] = walk[c] \/ (walk'[c] = [walk[c] EXCEPT !.call = FALSE] /\ Callee(c) \in O)
  <2>1. PICK d \in Cpus : Callee(d) \in O /\ Returned(d)
    BY <1>1 DEF ReturnsFor
  <2> QED
    BY <2>1, CoreFacts DEF Returned
<1> QED
  BY <1>1 DEF ActsFor, Quiet, LinksFor, UnlinksFor

LEMMA TallyActs ==
  ASSUME CoreInv, DeliveryInv, TallyInv, NEW O \in SUBSET Owners, ActsFor(O), OthersStay(O),
         UNCHANGED <<ro, uniq>>, rtnl'.sk = rtnl.sk,
         rtnl.sk # NIL => SameKind(rtnl'.new, ro[rtnl.sk]),
         O \cap RawSocks \subseteq {rtnl.sk}, UNCHANGED walk \/ O \cap RawSocks = {}
  PROVE  TallyInv'
<1>1. PICK s : \A c \in Readers : Carries(c, s)
  BY ActsIs DEF DeliveryInv
<1>2. ASSUME NEW k \in RawSocks, NEW c \in Cpus, NEW v, v = walk'[c], v.frame # NIL, NEW w, w = walk[c]
      PROVE  TallyOK(k, c, v)'
  <2>1. v = w \/ (v = [w EXCEPT !.call = FALSE] /\ Callee(c) \in O /\ ~UNCHANGED walk)
    BY <1>2, ActsReturn
  <2>2. w \in WalkRec
    BY <1>2, CoreFacts
  <2>3. v.frame = w.frame /\ v.start = w.start /\ v.hits = w.hits
    BY <2>1, <2>2 DEF WalkRec
  <2>4. walk[c].frame # NIL /\ c \in Readers /\ PathInv
    BY <1>2, <2>3 DEF Readers, DeliveryInv
  <2>5. TallyOK(k, c, w) /\ PathOK(c, w)
    BY <1>2, <2>4 DEF TallyInv, PathInv
  <2>6. Got(k, v)' = Got(k, v)
    BY <1>1, <1>2, <2>3, <2>4, GotCarried
  <2>7. Got(k, v) = Got(k, w)
    <3>1. ASSUME v # w PROVE Got(k, v) = Got(k, w)
      <4>1. v = [w EXCEPT !.call = FALSE] /\ Callee(c) \in O /\ Callee(c) # k /\ Callee(c) # NIL
        BY <2>1, <3>1, NilFacts
      <4>2. w.call /\ rcv[w.at].owner # k
        BY <1>2, <4>1, CalleeFacts
      <4>3. w.hits # <<>> /\ w.hits[Len(w.hits)] = w.at
        BY <2>5, <4>2 DEF PathOK
      <4>4. w.hits \in Seq(Slots)
        BY <2>2 DEF WalkRec
      <4>5. Got(k, w) \in Nat
        BY <4>4, GotType
      <4>6. Got(k, v) = Got(k, w) + IF rcv[w.at].owner = k THEN 1 ELSE 0
        BY <2>2, <4>1, <4>2, <4>3, GotReturned
      <4> QED
        BY <4>2, <4>5, <4>6
    <3> QED
      BY <3>1
  <2>8. uniq'[k][c].calm => /\ uniq[k][c].calm /\ rtnl'.sk # k /\ ro'[k].filter = ro[k].filter
                            /\ \A x \in Live(c)' : rcv'[x].owner = k =>
                                 x \in Live(c) /\ rcv[x].owner = k /\ (x \in On => x \in On')
    <3> SUFFICES ASSUME uniq[k][c].calm
                 PROVE  /\ rtnl.sk # k
                        /\ \A x \in Live(c)' : rcv'[x].owner = k =>
                             x \in Live(c) /\ rcv[x].owner = k /\ (x \in On => x \in On')
      OBVIOUS
    <3>1. rtnl.sk # k
      BY <2>5 DEF TallyOK
    <3>2. k \in Owners \ O
      BY <3>1, NilFacts
    <3>3. ASSUME NEW x \in Live(c)', rcv'[x].owner = k
          PROVE  x \in Live(c) /\ rcv[x].owner = k /\ (x \in On => x \in On')
      <4>1. x \in Slots /\ (rcv'[x].state = "on" \/ (rcv'[x].state = "off" /\ c \in rcv'[x].gp))
        BY <3>3 DEF Live
      <4>2. rcv'[x].owner = rcv[x].owner /\ rcv'[x].state = rcv[x].state /\ rcv'[x].gp = rcv[x].gp
        BY <3>2, <3>3, <4>1 DEF OthersStay
      <4> QED
        BY <3>3, <4>1, <4>2 DEF Live, On
    <3> QED
      BY <3>1, <3>3
  <2>9. SameKind(ro'[k], ro[k]) /\ uniq'[k][c] = uniq[k][c]
    BY DEF SameKind
  <2> QED
    BY <2>3, <2>5, <2>6, <2>7, <2>8, <2>9, TallyCarries
<1>3. \A k \in RawSocks, c \in Cpus : \A v \in {walk'[c]} : v.frame # NIL => TallyOK(k, c, v)'
  BY <1>2
<1> QED
  BY <1>3 DEF TallyInv

\* raw_task: its receivers are those of the call.
LEMMA TallyTask ==
  ASSUME CoreInv, RawCtl, DeliveryInv, TallyInv, NEW faults, RawTask(faults)
  PROVE  TallyInv'
<1> DEFINE t == Head(rtnl.todo)
           O == {rtnl.sk}
<1>1. rtnl.todo \in Seq(TaskRec) /\ rtnl.todo # <<>> /\ rtnl \in CallRec
  BY DEF RawCtl, RawTypeOK, CallRec, RawTask
<1>2. t \in TaskRec /\ Len(rtnl.todo) > 0
  BY <1>1, HeadTailProperties, EmptySeq
<1>3. rtnl.sk \in RawSocks
  BY <1>2 DEF RawCtl, CallInv, RawTypeOK, CallRec
<1>4. t.dev \in AnyDev /\ t.f \in CanFilters
  BY <1>2 DEF TaskRec
<1>5. UNCHANGED <<walk, ro, uniq>> /\ CoreRest
  BY RestStays DEF RawTask
<1>6. \/ can_rx_register(t.dev, t.f, rtnl.sk) \/ can_rx_unregister(t.dev, t.f, rtnl.sk)
      \/ UNCHANGED rcv
  BY DEF RawTask, Registers, Unregisters
<1>7. rtnl'.sk = rtnl.sk /\ (rtnl'.new = rtnl.new \/ rtnl'.new = ro[rtnl.sk])
  BY <1>1 DEF RawTask, Registers, Unregisters, CallRec
<1> HIDE DEF t
<1>8. ActsFor(O) /\ O \in SUBSET Owners
  BY <1>3, <1>4, <1>5, <1>6, NilFacts DEF ActsFor, LinksFor, UnlinksFor, Quiet
<1>9. SameKind(rtnl'.new, ro[rtnl.sk])
  BY <1>3, <1>7, NilFacts DEF TallyInv, SameKind
<1> QED
  BY <1>5, <1>7, <1>8, <1>9, ActsKeep, TallyActs

\* raw_rcv(): one more match is noted, and the frame is passed on when it is due.
LEMMA TallyRcv ==
  ASSUME CoreInv, RawCtl, DeliveryInv, TallyInv, NEW c \in Cpus, raw_rcv(c)
  PROVE  TallyInv'
<1> SUFFICES ASSUME NEW k \in RawSocks, k = Callee(c), NEW w, w = walk[c], NEW v, v = walk'[c]
             PROVE  TallyInv'
  BY DEF raw_rcv
<1>1. /\ w.call /\ w.frame # NIL /\ rcv[w.at].owner = k /\ w \in WalkRec
      /\ v = [w EXCEPT !.call = FALSE] /\ \A d \in Cpus \ {c} : walk'[d] = walk[d]
      /\ UNCHANGED <<rcv, ro, rtnl>>
  <2>1. k # NIL
    BY NilFacts
  <2>2. walk[c].call /\ walk[c].frame \in FrameRec /\ rcv[walk[c].at].owner = k
    BY <2>1, CalleeFacts
  <2>3. walk[c].frame # NIL
    BY <2>2, StackAssumption
  <2> QED
    BY <2>2, <2>3, CoreFacts DEF raw_rcv, Returned
<1>2. v.frame = w.frame /\ v.start = w.start /\ v.hits = w.hits
  BY <1>1 DEF WalkRec
<1>3. TallyOK(k, c, w) /\ PathOK(c, w) /\ w.hits \in Seq(Slots)
  BY <1>1 DEF TallyInv, DeliveryInv, PathInv, WalkRec
<1>4. Got(k, w) \in Nat
  BY <1>3, GotType
<1>5. \A x : Got(x, v) = Got(x, w) + IF x = k THEN 1 ELSE 0
  BY <1>1, <1>3, GotReturned DEF PathOK
<1>6. \A x, y : Got(x, y)' = Got(x, y)
  BY <1>1 DEF Got, Served
<1>7. ASSUME NEW u, u = uniq[k][c], NEW n, n = uniq'[k][c]
      PROVE  /\ IF RawTakes(k, w.frame)
                THEN /\ n.seen = TRUE /\ n.joined = (IF ro[k].join THEN u.joined + 1 ELSE 1)
                     /\ n.queued = (IF Passes(k, u) THEN u.queued + 1 ELSE u.queued)
                     /\ n.calm = u.calm /\ n \in UniqRec
                ELSE n = u
             /\ \A x \in RawSocks, d \in Cpus : (x # k \/ d # c) => uniq'[x][d] = uniq[x][d]
             /\ uniq' \in [RawSocks -> [Cpus -> UniqRec]] /\ u \in UniqRec
  <2>1. uniq \in [RawSocks -> [Cpus -> UniqRec]] /\ u \in UniqRec
    BY <1>7 DEF TallyInv
  <2>2. CASE ~RawTakes(k, w.frame)
    <3>1. UNCHANGED uniq
      BY <2>2 DEF raw_rcv
    <3> QED
      BY <1>7, <2>1, <2>2, <3>1
  <2>3. CASE RawTakes(k, w.frame)
    <3> DEFINE nu == Noted(k, u)
    <3>1. uniq' = [uniq EXCEPT ![k][c] = nu]
      <4>1. RawTakes(Callee(c), walk[c].frame)
        BY <2>3
      <4>2. uniq' = [uniq EXCEPT ![Callee(c)][c] = Noted(Callee(c), uniq[Callee(c)][c])]
        BY <4>1 DEF raw_rcv
      <4> QED
        BY <1>7, <4>2
    <3>2. /\ nu.seen = TRUE /\ nu.joined = (IF ro[k].join THEN u.joined + 1 ELSE 1)
          /\ nu.queued = (IF Passes(k, u) THEN u.queued + 1 ELSE u.queued)
          /\ nu.calm = u.calm /\ nu \in UniqRec
      <4> SUFFICES ASSUME NEW a, a = (IF ro[k].join THEN u.joined + 1 ELSE 1),
                          NEW b, b = (IF Passes(k, u) THEN u.queued + 1 ELSE u.queued)
                   PROVE  /\ nu.seen = TRUE /\ nu.joined = a /\ nu.queued = b
                          /\ nu.calm = u.calm /\ nu \in UniqRec
        OBVIOUS
      <4>1. a \in Nat /\ b \in Nat
        BY <2>1 DEF UniqRec
      <4>2. nu = [u EXCEPT !.seen = TRUE, !.joined = a, !.queued = b]
        BY DEF Noted
      <4> HIDE DEF nu
      <4> QED
        BY <2>1, <4>1, <4>2 DEF UniqRec
    <3> HIDE DEF nu
    <3>3. /\ uniq'[k][c] = nu /\ uniq' \in [RawSocks -> [Cpus -> UniqRec]]
          /\ \A x \in RawSocks, d \in Cpus : (x # k \/ d # c) => uniq'[x][d] = uniq[x][d]
      BY <2>1, <3>1, <3>2
    <3> QED
      BY <1>7, <2>1, <2>3, <3>2, <3>3
  <2> QED
    BY <2>2, <2>3
<1>8. ASSUME NEW x \in RawSocks, NEW d \in Cpus, NEW p, p = walk'[d], p.frame # NIL, x # k \/ d # c
      PROVE  TallyOK(x, d, p)'
  <2>1. uniq'[x][d] = uniq[x][d]
    BY <1>7, <1>8
  <2> SUFFICES ASSUME NEW q, q = walk[d] PROVE TallyOK(x, d, p)'
    OBVIOUS
  <2>2. p.frame = q.frame /\ p.start = q.start
    BY <1>1, <1>2, <1>8
  <2>3. Got(x, p)' = Got(x, q)
    <3>1. CASE d = c
      <4>1. Got(x, w) \in Nat
        BY <1>3, GotType
      <4>2. p = v /\ q = w /\ x # k
        BY <1>8, <3>1
      <4> QED
        BY <1>5, <1>6, <4>1, <4>2
    <3>2. CASE d # c
      BY <1>1, <1>6, <1>8, <3>2
    <3> QED
      BY <3>1, <3>2
  <2>4. TallyOK(x, d, q)
    BY <1>8, <2>2 DEF TallyInv
  <2>5. uniq'[x][d].calm => rtnl.sk # x
    BY <2>1, <2>4 DEF TallyOK
  <2>6. SameKind(ro'[x], ro[x]) /\ Live(d)' = Live(d) /\ On' = On
    BY <1>1 DEF SameKind, Live, On
  <2> QED
    BY <1>1, <2>1, <2>2, <2>3, <2>4, <2>5, <2>6, TallyCarries
<1>9. TallyOK(k, c, v)'
  <2>1. CASE ~RawTakes(k, w.frame)
    <3>1. uniq'[k][c] = uniq[k][c]
      BY <1>7, <2>1
    <3> QED
      BY <1>1, <1>2, <1>3, <2>1, <3>1 DEF TallyOK, RawTakes, Live, On
  <2>2. CASE RawTakes(k, w.frame)
    <3> SUFFICES ASSUME NEW u, u = uniq[k][c], NEW n, n = uniq'[k][c], NEW g, g = Got(k, w),
                        NEW len, len = Len(ro[k].filter)
                 PROVE  TallyOK(k, c, v)'
      OBVIOUS
    <3>1. /\ n.seen = TRUE /\ n.joined = (IF ro[k].join THEN u.joined + 1 ELSE 1)
          /\ n.queued = (IF Passes(k, u) THEN u.queued + 1 ELSE u.queued)
          /\ n.calm = u.calm
      BY <1>7, <2>2
    <3>2. /\ u.calm => rtnl.sk # k /\ \A s \in Live(c) : rcv[s].owner = k => s \in w.start \cap On
          /\ ro[k].join => u.joined = g /\ (u.calm => u.queued = Late(g, len))
      BY <1>3, <2>2 DEF TallyOK
    <3>3. Got(k, v)' = g + 1 /\ g \in Nat
      BY <1>4, <1>5, <1>6
    <3>4. ro[k].join => (Passes(k, u) <=> g + 1 >= len)
      BY <3>2 DEF Passes
    <3>5. ASSUME ro[k].join, u.calm PROVE n.queued = Late(g + 1, len)
      <4>1. len \in Nat
        BY <3>5 DEF RawCtl, RawTypeOK, RoRec
      <4>2. n.queued = IF g + 1 >= len THEN Late(g, len) + 1 ELSE Late(g, len)
        BY <3>1, <3>2, <3>4, <3>5
      <4> QED
        BY <3>3, <4>1, <4>2 DEF Late
    <3>6. RawTakes(k, v.frame)'
      BY <1>1, <1>2, <2>2 DEF RawTakes
    <3>7. n.calm => rtnl'.sk # k /\ \A s \in Live(c)' : rcv'[s].owner = k => s \in v.start \cap On'
      BY <1>1, <1>2, <3>1, <3>2 DEF Live, On
    <3>8. /\ n.seen <=> Got(k, v)' > 0
          /\ ro[k].join => n.joined = Got(k, v)' /\ (n.calm => n.queued = Late(Got(k, v)', len))
      BY <3>1, <3>2, <3>3, <3>5
    <3> QED
      BY <1>1, <3>6, <3>7, <3>8 DEF TallyOK, Late
  <2> QED
    BY <2>1, <2>2
<1>10. ASSUME NEW x \in RawSocks, NEW d \in Cpus, ~ro[x].join
       PROVE  uniq'[x][d].queued = IF uniq'[x][d].seen THEN 1 ELSE 0
  <2>1. uniq[x][d].queued = IF uniq[x][d].seen THEN 1 ELSE 0
    BY <1>10 DEF TallyInv
  <2>2. CASE uniq'[x][d] = uniq[x][d]
    BY <2>1, <2>2
  <2>3. CASE x = k /\ d = c /\ RawTakes(k, w.frame)
    <3> SUFFICES ASSUME NEW u, u = uniq[k][c], NEW n, n = uniq'[k][c]
                 PROVE  n.queued = IF n.seen THEN 1 ELSE 0
      BY <2>3
    <3>1. Passes(k, u) <=> ~u.seen
      BY <1>10, <2>3 DEF Passes
    <3>2. n.seen = TRUE /\ n.queued = (IF Passes(k, u) THEN u.queued + 1 ELSE u.queued)
      BY <1>7, <2>3
    <3>3. u.queued = IF u.seen THEN 1 ELSE 0
      BY <2>1, <2>3
    <3>4. n.queued = 1
      BY <3>1, <3>2, <3>3
    <3> QED
      BY <3>2, <3>4
  <2> QED
    BY <1>7, <2>2, <2>3
<1>11. \A x \in RawSocks, d \in Cpus : \A p \in {walk'[d]} : p.frame # NIL => TallyOK(x, d, p)'
  BY <1>8, <1>9
<1> QED
  BY <1>1, <1>7, <1>10, <1>11 DEF TallyInv, SameKind

\* A new frame: nothing is noted of it yet.
LEMMA TallyStarts ==
  ASSUME CoreInv, TallyInv, NEW c \in Cpus, NEW f, Starts(c, f), NewFrame(c)
  PROVE  TallyInv'
<1>1. PICK v \in WalkRec : /\ walk' = [walk EXCEPT ![c] = v] /\ walk[c].frame = NIL
                           /\ v.frame = f /\ ~v.call /\ v.start = On /\ v.hits = <<>>
  BY StartIs
<1>2. walk'[c] = v /\ \A d \in Cpus \ {c} : walk'[d] = walk[d]
  BY <1>1, CoreFacts
<1>3. UNCHANGED <<rcv, ro, rtnl>>
  BY DEF Starts, NewFrame
<1>4. ASSUME NEW k \in RawSocks
      PROVE  /\ uniq'[k] \in [Cpus -> UniqRec] /\ \A d \in Cpus \ {c} : uniq'[k][d] = uniq[k][d]
             /\ \A n \in {uniq'[k][c]} : /\ ~n.seen /\ n.joined = 0 /\ n.queued = 0
                                         /\ n.calm => rtnl.sk # k
  <2> SUFFICES ASSUME NEW b \in BOOLEAN, b <=> rtnl.sk # k,
                      uniq'[k] = [uniq[k] EXCEPT ![c] = [Unseen EXCEPT !.calm = b]]
               PROVE  /\ uniq'[k] \in [Cpus -> UniqRec] /\ \A d \in Cpus \ {c} : uniq'[k][d] = uniq[k][d]
                      /\ \A n \in {uniq'[k][c]} : /\ ~n.seen /\ n.joined = 0 /\ n.queued = 0
                                                  /\ n.calm => rtnl.sk # k
    <3>1. uniq'[k] = [uniq[k] EXCEPT ![c] = [Unseen EXCEPT !.calm = rtnl.sk # k]]
      BY DEF NewFrame
    <3>2. (rtnl.sk # k) \in BOOLEAN /\ ((rtnl.sk # k) <=> rtnl.sk # k)
      OBVIOUS
    <3> QED
      BY <3>1, <3>2
  <2>1. uniq[k] \in [Cpus -> UniqRec]
    BY DEF TallyInv
  <2> DEFINE n == [Unseen EXCEPT !.calm = b]
  <2>2. ~n.seen /\ n.joined = 0 /\ n.queued = 0 /\ n.calm = b /\ n \in UniqRec
    BY DEF Unseen, UniqRec
  <2>3. uniq'[k] = [uniq[k] EXCEPT ![c] = n]
    OBVIOUS
  <2> HIDE DEF n
  <2>4. ASSUME NEW F \in [Cpus -> UniqRec], NEW G, G = [F EXCEPT ![c] = n]
        PROVE  G \in [Cpus -> UniqRec] /\ G[c] = n /\ \A d \in Cpus \ {c} : G[d] = F[d]
    BY <2>2, <2>4
  <2>5. /\ uniq'[k] \in [Cpus -> UniqRec] /\ uniq'[k][c] = n
        /\ \A d \in Cpus \ {c} : uniq'[k][d] = uniq[k][d]
    BY <2>1, <2>3, <2>4
  <2> QED
    BY <2>2, <2>5
<1>5. ASSUME NEW k \in RawSocks, v.frame # NIL PROVE TallyOK(k, c, v)'
  <2> SUFFICES ASSUME NEW n, n = uniq'[k][c] PROVE TallyOK(k, c, v)'
    OBVIOUS
  <2>1. ~n.seen /\ n.joined = 0 /\ n.queued = 0 /\ (n.calm => rtnl'.sk # k)
    BY <1>3, <1>4
  <2>2. Served(k, v)' = {}
    BY <1>1 DEF Served
  <2>3. Got(k, v)' = 0
    BY <2>2, FS_EmptySet DEF Got
  <2>4. \A s \in Live(c)' : s \in v.start \cap On'
    <3>1. c \notin Readers /\ On' = On
      BY <1>1, <1>3 DEF Readers, On
    <3>2. \A s \in Slots : rcv[s].gp \subseteq Readers
      BY CoreFacts DEF SlotOK
    <3> QED
      BY <1>1, <1>3, <3>1, <3>2 DEF Live, On
  <2> QED
    BY <2>1, <2>3, <2>4 DEF TallyOK, Late
<1>6. ASSUME NEW k \in RawSocks, NEW d \in Cpus \ {c}, NEW w, w = walk'[d], w.frame # NIL
      PROVE  TallyOK(k, d, w)'
  <2>1. w = walk[d] /\ TallyOK(k, d, w) /\ uniq'[k][d] = uniq[k][d]
    BY <1>2, <1>4, <1>6 DEF TallyInv
  <2> QED
    BY <1>3, <2>1 DEF TallyOK, RawTakes, Got, Served, Live, On
<1>7. uniq' \in [RawSocks -> [Cpus -> UniqRec]]
  <2>1. \E F : uniq' = [k \in RawSocks |-> F[k]]
    <3> DEFINE F == [k \in RawSocks |-> [uniq[k] EXCEPT ![c] = [Unseen EXCEPT !.calm = rtnl.sk # k]]]
    <3>1. uniq' = F
      BY DEF NewFrame
    <3>2. F = [k \in RawSocks |-> F[k]]
      OBVIOUS
    <3> HIDE DEF F
    <3> QED
      BY <3>1, <3>2
  <2> QED
    BY <1>4, <2>1
<1>8. ASSUME NEW k \in RawSocks, NEW d \in Cpus, ~ro'[k].join
      PROVE  uniq'[k][d].queued = IF uniq'[k][d].seen THEN 1 ELSE 0
  BY <1>3, <1>4, <1>8 DEF TallyInv
<1>9. \A k \in RawSocks, d \in Cpus : \A w \in {walk'[d]} : w.frame # NIL => TallyOK(k, d, w)'
  BY <1>2, <1>5, <1>6
<1> QED
  BY <1>3, <1>7, <1>8, <1>9 DEF TallyInv, SameKind

\* The walk goes on.
LEMMA TallyAdvances ==
  ASSUME CoreInv, TallyInv, NEW c \in Cpus, can_rcv_filter(c), UNCHANGED <<ro, uniq, rtnl>>
  PROVE  TallyInv'
<1>1. /\ walk[c].frame # NIL /\ ~walk[c].call /\ UNCHANGED rcv
      /\ \E w \in WalkRec :
           /\ walk' = [walk EXCEPT ![c] = w]
           /\ w.frame = walk[c].frame /\ w.start = walk[c].start /\ (w.call => w.at \in Slots)
           /\ w.hits = IF w.call THEN Append(walk[c].hits, w.at) ELSE walk[c].hits
  BY AdvanceIs
<1>2. ASSUME NEW k \in RawSocks, NEW d \in Cpus, NEW v, v = walk'[d], v.frame # NIL
      PROVE  TallyOK(k, d, v)'
  <2> SUFFICES ASSUME NEW w, w = walk[d] PROVE TallyOK(k, d, v)'
    OBVIOUS
  <2>1. v.frame = w.frame /\ v.start = w.start /\ Got(k, v) = Got(k, w)
    <3>1. CASE d = c
      <4>1. PICK x \in WalkRec : /\ walk' = [walk EXCEPT ![c] = x]
                                 /\ x.frame = walk[c].frame /\ x.start = walk[c].start
                                 /\ x.call => x.at \in Slots
                                 /\ x.hits = IF x.call THEN Append(walk[c].hits, x.at) ELSE walk[c].hits
        BY <1>1
      <4>2. v = x /\ w \in WalkRec /\ x.call \in BOOLEAN
        BY <1>2, <3>1, <4>1, CoreFacts DEF WalkRec
      <4>3. Got(k, x) = Got(k, w)
        BY <1>1, <3>1, <4>1, <4>2, GotAdvanced
      <4> QED
        BY <3>1, <4>1, <4>2, <4>3
    <3>2. CASE d # c
      <4>1. v = w
        BY <1>1, <1>2, <3>2, CoreFacts
      <4> QED
        BY <4>1
    <3> QED
      BY <3>1, <3>2
  <2>2. TallyOK(k, d, w)
    BY <1>2, <2>1 DEF TallyInv
  <2>3. Got(k, v)' = Got(k, v)
    BY <1>1 DEF Got, Served
  <2>4. uniq[k][d].calm => rtnl.sk # k
    BY <2>2 DEF TallyOK
  <2>5. SameKind(ro'[k], ro[k]) /\ Live(d)' = Live(d) /\ On' = On
    BY <1>1 DEF SameKind, Live, On
  <2> QED
    BY <1>1, <2>1, <2>2, <2>3, <2>4, <2>5, TallyCarries
<1>3. \A k \in RawSocks, d \in Cpus : \A v \in {walk'[d]} : v.frame # NIL => TallyOK(k, d, v)'
  BY <1>2
<1> QED
  BY <1>3 DEF TallyInv, SameKind

\* The walk ends, and some grace periods.
LEMMA TallyUnlocks ==
  ASSUME CoreInv, PathInv, TallyInv, NEW c \in Cpus, rcu_read_unlock(c), OldFrame(c)
  PROVE  TallyInv'
<1>1. UnlockIs(c) /\ walk' = [walk EXCEPT ![c] = Idle] /\ UNCHANGED <<ro, rtnl>>
  BY UnlockFacts DEF rcu_read_unlock, OldFrame
<1>2. ASSUME NEW k \in RawSocks
      PROVE  /\ uniq'[k] \in [Cpus -> UniqRec] /\ \A d \in Cpus \ {c} : uniq'[k][d] = uniq[k][d]
             /\ uniq'[k][c] = Unseen
  <2>1. uniq[k] \in [Cpus -> UniqRec] /\ Unseen \in UniqRec
    BY DEF TallyInv, Unseen, UniqRec
  <2>2. uniq'[k] = [uniq[k] EXCEPT ![c] = Unseen]
    BY DEF OldFrame
  <2> QED
    BY <2>1, <2>2
<1>3. uniq' \in [RawSocks -> [Cpus -> UniqRec]]
  <2>1. uniq' = [k \in RawSocks |-> [uniq[k] EXCEPT ![c] = Unseen]]
    BY DEF OldFrame
  <2> QED
    BY <1>2, <2>1
<1>4. ASSUME NEW k \in RawSocks, NEW d \in Cpus, ~ro'[k].join
      PROVE  uniq'[k][d].queued = IF uniq'[k][d].seen THEN 1 ELSE 0
  <2>1. CASE d = c
    BY <1>2, <2>1 DEF Unseen
  <2>2. CASE d # c
    BY <1>1, <1>2, <1>4, <2>2 DEF TallyInv
  <2> QED
    BY <2>1, <2>2
<1>5. ASSUME NEW k \in RawSocks, NEW d \in Cpus, NEW w, w = walk'[d], w.frame # NIL
      PROVE  TallyOK(k, d, w)'
  <2>1. d # c /\ w = walk[d]
    BY <1>1, <1>5, CoreFacts DEF Idle
  <2>2. TallyOK(k, d, w) /\ uniq'[k][d] = uniq[k][d]
    BY <1>2, <1>5, <2>1 DEF TallyInv
  <2>3. Carries(d, NIL)
    BY <1>1, <2>1, UnlockCarries
  <2>4. Got(k, w)' = Got(k, w)
    BY <1>5, <2>1, <2>3, GotCarried
  <2>5. \A s \in Live(d)' : rcv'[s].owner = k => s \in Live(d) /\ rcv[s].owner = k /\ (s \in On => s \in On')
    <3> SUFFICES ASSUME NEW s \in Live(d)', rcv'[s].owner = k PROVE s \in Live(d) /\ rcv[s].owner = k
      BY <1>1 DEF UnlockIs
    <3>1. s \in Slots /\ rcv'[s] # Free
      BY FreeType, NilFacts DEF Live
    <3> QED
      BY <1>1, <3>1 DEF UnlockIs, Live
  <2>6. uniq[k][d].calm => rtnl.sk # k
    BY <2>2 DEF TallyOK
  <2>7. SameKind(ro'[k], ro[k])
    BY <1>1 DEF SameKind
  <2> QED
    BY <1>1, <2>2, <2>4, <2>5, <2>6, <2>7, TallyCarries
<1>6. \A k \in RawSocks, d \in Cpus : \A w \in {walk'[d]} : w.frame # NIL => TallyOK(k, d, w)'
  BY <1>5
<1> QED
  BY <1>1, <1>3, <1>4, <1>6 DEF TallyInv, SameKind

\* A call that will change the filters of k disturbs the receptions there are.
LEMMA TallyDisturbs ==
  ASSUME RawCtl, TallyInv, UNCHANGED <<rcv, walk, ro>>, NEW k \in RawSocks, uniq' = Disturbed(k),
         rtnl'.sk = k, SameKind(rtnl'.new, ro[k])
  PROVE  TallyInv'
<1>1. uniq \in [RawSocks -> [Cpus -> UniqRec]]
  BY DEF TallyInv
<1>2. ASSUME NEW F \in [Cpus -> UniqRec], NEW G, G = [c \in Cpus |-> [F[c] EXCEPT !.calm = c \notin Readers]],
             NEW c \in Cpus
      PROVE  /\ G[c] \in UniqRec
             /\ G[c].seen = F[c].seen /\ G[c].joined = F[c].joined /\ G[c].queued = F[c].queued
             /\ G[c].calm => c \notin Readers
  <2> SUFFICES ASSUME NEW b \in BOOLEAN, b <=> c \notin Readers, G[c] = [F[c] EXCEPT !.calm = b]
               PROVE  /\ G[c] \in UniqRec
                      /\ G[c].seen = F[c].seen /\ G[c].joined = F[c].joined /\ G[c].queued = F[c].queued
                      /\ G[c].calm => c \notin Readers
    <3>1. G[c] = [F[c] EXCEPT !.calm = c \notin Readers]
      BY <1>2
    <3>2. (c \notin Readers) \in BOOLEAN /\ ((c \notin Readers) <=> c \notin Readers)
      OBVIOUS
    <3> QED
      BY <3>1, <3>2
  <2>1. F[c] \in UniqRec
    BY <1>2
  <2> QED
    BY <2>1 DEF UniqRec
<1>3. /\ uniq' \in [RawSocks -> [Cpus -> UniqRec]]
      /\ \A x \in RawSocks \ {k} : uniq'[x] = uniq[x]
      /\ \A c \in Cpus : /\ uniq'[k][c].seen = uniq[k][c].seen /\ uniq'[k][c].joined = uniq[k][c].joined
                         /\ uniq'[k][c].queued = uniq[k][c].queued
                         /\ uniq'[k][c].calm => c \notin Readers
  <2> DEFINE G == [c \in Cpus |-> [uniq[k][c] EXCEPT !.calm = c \notin Readers]]
  <2>1. uniq' = [uniq EXCEPT ![k] = G]
    BY DEF Disturbed
  <2>2. uniq[k] \in [Cpus -> UniqRec]
    BY <1>1
  <2>3. \A c \in Cpus : /\ G[c] \in UniqRec /\ G[c].seen = uniq[k][c].seen
                        /\ G[c].joined = uniq[k][c].joined /\ G[c].queued = uniq[k][c].queued
                        /\ G[c].calm => c \notin Readers
    <3>1. G = [c \in Cpus |-> [uniq[k][c] EXCEPT !.calm = c \notin Readers]]
      OBVIOUS
    <3> HIDE DEF G
    <3> QED
      BY <1>2, <2>2, <3>1
  <2>4. G = [c \in Cpus |-> G[c]]
    OBVIOUS
  <2> HIDE DEF G
  <2>5. G \in [Cpus -> UniqRec]
    BY <2>3, <2>4
  <2>6. uniq'[k] = G /\ uniq' \in [RawSocks -> [Cpus -> UniqRec]] /\ \A x \in RawSocks \ {k} : uniq'[x] = uniq[x]
    BY <1>1, <2>1, <2>5
  <2> QED
    BY <2>3, <2>6
<1>4. ASSUME NEW x \in RawSocks, NEW c \in Cpus, NEW w, w = walk[c], w.frame # NIL
      PROVE  TallyOK(x, c, w)'
  <2>1. TallyOK(x, c, w) /\ c \in Readers
    BY <1>4 DEF TallyInv, Readers
  <2>2. Got(x, w)' = Got(x, w) /\ Live(c)' = Live(c) /\ On' = On /\ SameKind(ro'[x], ro[x])
    BY DEF Got, Served, Live, On, SameKind
  <2>3. /\ uniq'[x][c].seen = uniq[x][c].seen /\ uniq'[x][c].joined = uniq[x][c].joined
        /\ uniq'[x][c].queued = uniq[x][c].queued
        /\ uniq'[x][c].calm => x # k /\ uniq[x][c].calm
    BY <1>3, <2>1
  <2> QED
    BY <2>1, <2>2, <2>3, TallyCarries
<1>5. ASSUME NEW x \in RawSocks, NEW c \in Cpus, ~ro[x].join
      PROVE  uniq'[x][c].queued = IF uniq'[x][c].seen THEN 1 ELSE 0
  BY <1>3, <1>5 DEF TallyInv
<1>6. \A x \in RawSocks, c \in Cpus : \A w \in {walk'[c]} : w.frame # NIL => TallyOK(x, c, w)'
  BY <1>4
<1> QED
  BY <1>3, <1>5, <1>6 DEF TallyInv

\* The fields are set while nothing of the frames at hand is sure.
LEMMA TallyCommits ==
  ASSUME RawCtl, TallyInv, UNCHANGED <<rcv, walk, uniq>>, rtnl'.sk = NIL,
         UNCHANGED ro \/ (rtnl.sk # NIL /\ ro' = [ro EXCEPT ![rtnl.sk] = rtnl.new])
  PROVE  TallyInv'
<1>1. ASSUME NEW x \in RawSocks PROVE SameKind(ro'[x], ro[x]) /\ (rtnl.sk # x => ro'[x] = ro[x])
  BY NilFacts DEF RawCtl, RawTypeOK, TallyInv, SameKind
<1>2. ASSUME NEW x \in RawSocks, NEW c \in Cpus, NEW w, w = walk[c], w.frame # NIL
      PROVE  TallyOK(x, c, w)'
  <2>1. TallyOK(x, c, w)
    BY <1>2 DEF TallyInv
  <2>2. Got(x, w)' = Got(x, w) /\ Live(c)' = Live(c) /\ On' = On
    BY DEF Got, Served, Live, On
  <2>3. uniq[x][c].calm => rtnl.sk # x /\ rtnl'.sk # x
    BY <2>1, NilFacts DEF TallyOK
  <2> QED
    BY <1>1, <2>1, <2>2, <2>3, TallyCarries
<1>3. \A x \in RawSocks, c \in Cpus : \A w \in {walk'[c]} : w.frame # NIL => TallyOK(x, c, w)'
  BY <1>2
<1> QED
  BY <1>1, <1>3 DEF TallyInv, SameKind

LEMMA TallyStays ==
  ASSUME TallyInv, UNCHANGED <<rcv, walk, ro, uniq, rtnl>>
  PROVE  TallyInv'
<1>1. \A k, c, w : Got(k, w)' = Got(k, w) /\ Live(c)' = Live(c) /\ On' = On
  BY DEF Got, Served, Live, On
<1>2. ASSUME NEW k, NEW c, NEW w, TallyOK(k, c, w) PROVE TallyOK(k, c, w)'
  BY <1>1, <1>2 DEF TallyOK, RawTakes, Late
<1> QED
  BY <1>2 DEF TallyInv, SameKind

LEMMA TallyBegins ==
  ASSUME RawCtl, TallyInv, NEW k \in RawSocks, NEW kind, NEW todo, NEW new, Begin(kind, k, todo, new),
         UNCHANGED <<rcv, walk, ro>>, SameKind(new, ro[k])
  PROVE  TallyInv'
<1>1. uniq' = Disturbed(k) /\ rtnl'.sk = k /\ rtnl'.new = new
  BY DEF Begin, NoCall
<1> QED
  BY <1>1, TallyDisturbs

LEMMA TallyRaw ==
  ASSUME CoreInv, RawCtl, DeliveryInv, TallyInv, scene \in Scenes, RawUses \/ RawUsed \/ RawSends
  PROVE  TallyInv'
<1>1. \A k \in RawSocks : ro[k] \in RoRec
  BY DEF RawCtl, RawTypeOK
<1>2. ASSUME NEW k \in RawSocks, NEW r \in RoRec
      PROVE  /\ SameKind(Off(r), r) /\ SameKind(r, r)
             /\ \A d, fs, m : /\ SameKind([r EXCEPT !.bound = TRUE, !.dev = d], r)
                              /\ SameKind([r EXCEPT !.filter = fs], r)
                              /\ SameKind([r EXCEPT !.err_mask = m], r)
  BY DEF Off, SameKind, RoRec
<1>3. CASE RawUses
  <2>1. CASE RawCommit
    <3>1. /\ UNCHANGED <<rcv, walk, uniq>> /\ rtnl'.sk = NIL /\ rtnl.sk # NIL
          /\ ro' = [ro EXCEPT ![rtnl.sk] = rtnl.new]
      BY <2>1 DEF RawCommit, rxVars, NoCall, RawCtl, CallInv
    <3> QED
      BY <3>1, TallyCommits
  <2>2. CASE raw_notify
    <3> SUFFICES ASSUME NEW k \in RawSocks, k = raw_busy_notifier PROVE TallyInv'
      BY <2>2 DEF raw_notify, RawCtl, RawTypeOK
    <3>1. rtnl \in CallRec
      BY DEF RawCtl, RawTypeOK
    <3>2. /\ UNCHANGED <<rcv, walk, ro>> /\ uniq' = Disturbed(k) /\ rtnl'.sk = k
          /\ rtnl'.new = Off(ro[k])
      BY <2>2, <3>1 DEF raw_notify, rxVars, CallRec
    <3> QED
      BY <1>1, <1>2, <3>2, TallyDisturbs
  <2>3. CASE raw_notify_next
    <3>1. rtnl \in CallRec /\ (rtnl.sk # NIL => rtnl.sk = raw_busy_notifier)
      BY <2>3 DEF RawCtl, RawTypeOK, NotifyInv, raw_notify_next
    <3>2. UNCHANGED <<rcv, walk, uniq>> /\ rtnl'.sk = NIL
      <4>1. /\ UNCHANGED <<rcv, walk, uniq>>
            /\ rtnl' = NoCall \/ rtnl' = [rtnl EXCEPT !.sk = NIL, !.new = NIL]
        BY <2>3 DEF raw_notify_next, rxVars
      <4>2. NoCall.sk = NIL
        BY DEF NoCall
      <4>3. ASSUME NEW r \in CallRec PROVE [r EXCEPT !.sk = NIL, !.new = NIL].sk = NIL
        BY DEF CallRec
      <4> QED
        BY <3>1, <4>1, <4>2, <4>3
    <3>3. UNCHANGED ro \/ (rtnl.sk # NIL /\ ro' = [ro EXCEPT ![rtnl.sk] = rtnl.new])
      BY <2>3, <3>1 DEF raw_notify_next
    <3> QED
      BY <3>2, <3>3, TallyCommits
  <2>4. CASE raw_release_done
    <3>1. /\ UNCHANGED <<rcv, walk, uniq>> /\ rtnl'.sk = NIL /\ rtnl.sk # NIL
          /\ ro' = [ro EXCEPT ![rtnl.sk] = rtnl.new]
      BY <2>4 DEF raw_release_done, NoCall, RawCtl, CallInv
    <3> QED
      BY <3>1, TallyCommits
  <2>5. ASSUME NEW k \in RawSocks, raw_release_list(k) PROVE TallyInv'
    BY <2>5, TallyStays DEF raw_release_list, rxVars
  <2>6. ASSUME NEW k \in RawSocks, raw_release_rtnl(k) PROVE TallyInv'
    BY <1>1, <1>2, <2>6, TallyBegins DEF raw_release_rtnl, rxVars
  <2> QED
    BY <1>3, <2>1, <2>2, <2>3, <2>4, <2>5, <2>6, TallyRcv, TallyTask DEF RawUses, RawStep
<1>4. CASE RawUsed
  <2>1. ASSUME NEW k \in RawSocks, NEW d, raw_bind(k, d) PROVE TallyInv'
    BY <1>1, <1>2, <2>1, TallyBegins DEF raw_bind, rxVars
  <2>2. ASSUME NEW k \in RawSocks, NEW lists, NEW masks, raw_setsockopt(k, lists, masks) PROVE TallyInv'
    <3>1. ASSUME NEW old, NEW new, NEW r, Replace(k, old, new, r), SameKind(r, ro[k]) PROVE TallyInv'
      BY <3>1, TallyBegins DEF Replace, rxVars
    <3>2. ASSUME NEW fs, Replace(k, ro[k].filter, fs, [ro[k] EXCEPT !.filter = fs]) PROVE TallyInv'
      BY <1>1, <1>2, <3>1, <3>2
    <3>3. ASSUME NEW m, Replace(k, ErrFilters(ro[k].err_mask), ErrFilters(m), [ro[k] EXCEPT !.err_mask = m])
          PROVE  TallyInv'
      BY <1>1, <1>2, <3>1, <3>3
    <3> QED
      BY <2>2, <3>2, <3>3 DEF raw_setsockopt
  <2>3. ASSUME NEW k \in RawSocks, raw_release(k) PROVE TallyInv'
    BY <2>3, TallyStays DEF raw_release, rxVars
  <2>4. ASSUME NEW d \in Devs, raw_notifier(d) PROVE TallyInv'
    <3>1. UNCHANGED <<rcv, walk, uniq, ro>> /\ rtnl'.sk = NIL
      BY <2>4 DEF raw_notifier, rxVars, NoCall
    <3> QED
      BY <3>1, TallyCommits
  <2>5. scene.socks \subseteq RawSocks
    BY StackAssumption
  <2> QED
    BY <1>4, <2>1, <2>2, <2>3, <2>4, <2>5 DEF RawUsed, RawCall, RawEvent
<1>5. CASE RawSends
  BY <1>5, TallyStays DEF RawSends, raw_sendmsg, rawVars
<1> QED
  BY <1>3, <1>4, <1>5

LEMMA TallyStep ==
  ASSUME StackInv, DeliveryInv, TallyInv, Next
  PROVE  TallyInv'
<1>1. CoreInv /\ RawCtl /\ GwInv /\ scene \in Scenes /\ PathInv
  BY DEF StackInv, DeliveryInv
<1>2. /\ Plain \in SUBSET Owners /\ Jobs \in SUBSET Owners /\ {RxOp} \in SUBSET Owners
      /\ Plain \cap RawSocks = {} /\ Jobs \cap RawSocks = {} /\ {RxOp} \cap RawSocks = {}
  BY CanRxAssumption, RawAssumption, GwAssumption, BcmAssumption DEF Plain
<1>3. ASSUME NEW O \in SUBSET Owners, O \cap RawSocks = {}, ActsFor(O), CoreRest, UNCHANGED rawVars
      PROVE  TallyInv'
  <2>1. OthersStay(O)
    BY <1>1, <1>3, ActsKeep
  <2>2. UNCHANGED <<ro, uniq, rtnl>>
    BY <1>3 DEF rawVars
  <2>3. rtnl.sk # NIL => SameKind(rtnl.new, ro[rtnl.sk])
    BY DEF TallyInv
  <2> QED
    BY <1>1, <1>3, <2>1, <2>2, <2>3, TallyActs
<1>4. ASSUME NEW c \in Cpus, Receive(c) \/ Loopback(c) PROVE TallyInv'
  <2>1. PICK f : Starts(c, f)
    BY <1>1, <1>4, ReceiveStarts, LoopbackStarts
  <2> QED
    BY <1>1, <1>4, <2>1, TallyStarts DEF Receive, Loopback
<1>5. ASSUME NEW c \in Cpus, Filter(c) PROVE TallyInv'
  BY <1>1, <1>5, TallyAdvances DEF Filter, rawVars
<1>6. ASSUME NEW c \in Cpus, Unlock(c) PROVE TallyInv'
  BY <1>1, <1>6, TallyUnlocks DEF Unlock
<1>7. CASE Register \/ Unregister \/ \E c \in Cpus : Taken(c)
  BY <1>1, <1>2, <1>3, <1>7, PlainActs, PlainRest
<1>8. CASE GwUses \/ GwUsed
  BY <1>1, <1>2, <1>3, <1>8, GwActs DEF GwUses, GwUsed
<1>9. CASE BcmUses \/ BcmUsed
  BY <1>1, <1>2, <1>3, <1>9, BcmActs DEF BcmUses, BcmUsed
<1>10. CASE Over
  BY <1>10, TallyStays DEF Over, vars, rxVars, rawVars
<1> QED
  BY <1>1, <1>4, <1>5, <1>6, <1>7, <1>8, <1>9, <1>10, TallyRaw DEF Next

LEMMA TallyInit == Init => TallyInv
<1> SUFFICES ASSUME Init PROVE TallyInv
  OBVIOUS
<1>1. /\ uniq = [k \in RawSocks |-> [c \in Cpus |-> Unseen]] /\ rtnl = NoCall
      /\ walk = [c \in Cpus |-> Idle]
  BY DEF Init, RxInit, RawInit
<1>2. Unseen \in UniqRec /\ Unseen.queued = 0 /\ Unseen.seen = FALSE
  BY DEF Unseen, UniqRec
<1>3. \A k \in RawSocks, c \in Cpus : uniq[k][c] = Unseen /\ walk[c].frame = NIL
  BY <1>1 DEF Idle
<1>4. uniq \in [RawSocks -> [Cpus -> UniqRec]]
  BY <1>1, <1>2
<1> QED
  BY <1>1, <1>2, <1>3, <1>4 DEF TallyInv, NoCall

LEMMA TallyInductive == Spec => [](StackInv /\ CountInv /\ DeliveryInv /\ TallyInv)
<1>1. TallyInv /\ UNCHANGED vars => TallyInv'
  BY TallyStays DEF vars, rxVars, rawVars
<1>2. StackInv /\ DeliveryInv /\ TallyInv /\ [Next]_vars => TallyInv'
  BY <1>1, TallyStep
<1> QED
  BY <1>2, TallyInit, DeliveryInductive, CountInductive, PTL DEF Spec

\* The kinds of receivers that match a frame.
WantedKeys(f) ==
  {Key(d, g) : d \in {AllDevs, f.dev}, g \in {h \in CanFilters : FilterMatches(h, f.id)}}

LEMMA KeysWanted ==
  ASSUME WellFormed, NEW f \in FrameRec
  PROVE  /\ \A d : FiltersOf(d, WantedKeys(f)) =
              IF d \in {AllDevs, f.dev} THEN {g \in CanFilters : FilterMatches(g, f.id)} ELSE {}
         /\ SortedIn => \A s \in Slots : rcv[s].state # "free" =>
              (KeyAt(s) \in WantedKeys(f) <=> Hit(s, f))
<1>1. ASSUME NEW d, NEW g \in CanFilters
      PROVE  <<d, can_rcv_list_find(g)>> \in WantedKeys(f) <=> d \in {AllDevs, f.dev} /\ FilterMatches(g, f.id)
  <2>1. ASSUME <<d, can_rcv_list_find(g)>> \in WantedKeys(f)
        PROVE  d \in {AllDevs, f.dev} /\ FilterMatches(g, f.id)
    <3>1. PICK e \in {AllDevs, f.dev}, h \in CanFilters :
            FilterMatches(h, f.id) /\ <<d, can_rcv_list_find(g)>> = <<e, can_rcv_list_find(h)>>
      BY <2>1 DEF WantedKeys, Key
    <3>2. d = e /\ can_rcv_list_find(g) = can_rcv_list_find(h)
      BY <3>1
    <3>3. f.id \in Ids
      BY DEF FrameRec
    <3> QED
      BY <3>1, <3>2, <3>3, SortedAlike
  <2>2. ASSUME d \in {AllDevs, f.dev}, FilterMatches(g, f.id)
        PROVE  <<d, can_rcv_list_find(g)>> \in WantedKeys(f)
    BY <2>2 DEF WantedKeys, Key
  <2> QED
    BY <2>1, <2>2
<1>2. ASSUME NEW d
      PROVE  FiltersOf(d, WantedKeys(f)) =
               IF d \in {AllDevs, f.dev} THEN {g \in CanFilters : FilterMatches(g, f.id)} ELSE {}
  BY <1>1 DEF FiltersOf, Key
<1>3. ASSUME SortedIn, NEW s \in Slots, rcv[s].state # "free"
      PROVE  KeyAt(s) \in WantedKeys(f) <=> Hit(s, f)
  <2> SUFFICES ASSUME NEW g, g = rcv[s].asked, NEW d, d = rcv[s].dev
               PROVE  KeyAt(s) \in WantedKeys(f) <=> Hit(s, f)
    OBVIOUS
  <2>1. g \in CanFilters /\ Entry(s) = can_rcv_list_find(g)
    BY <1>3 DEF SortedIn
  <2>2. KeyAt(s) = <<d, can_rcv_list_find(g)>>
    BY <2>1 DEF KeyAt, Entry
  <2>3. Concerns(rcv[s], f) <=> d \in {AllDevs, f.dev} /\ FilterMatches(g, f.id)
    BY DEF Concerns
  <2>4. Concerns(rcv[s], f) <=> Hit(s, f)
    BY <1>3, ConcernedIsHit
  <2> QED
    BY <1>1, <2>1, <2>2, <2>3, <2>4
<1> QED
  BY <1>2, <1>3

\* At the end of a walk that its filters did not change under a socket has been
\* called once for each of those that match.
LEMMA EndedGot ==
  ASSUME WellFormed, CoreInv, SortedIn, PathInv, NEW c \in Cpus, Ended(c), NEW k,
         \A s \in Live(c) : rcv[s].owner = k => s \in walk[c].start \cap On
  PROVE  Got(k, walk[c]) = Num(k, WantedKeys(walk[c].frame))
<1> DEFINE h == walk[c].hits
           f == walk[c].frame
           Y == WantedKeys(f)
           g == [i \in Served(k, walk[c]) |-> h[i]]
<1>1. /\ h \in Seq(Slots) /\ NoTwice(h) /\ f \in FrameRec
      /\ \A i \in 1..Len(h) : h[i] \in Live(c) /\ Hit(h[i], f)
      /\ \A s \in walk[c].start \cap On : Hit(s, f) => InSeq(h, s)
  BY EndedIs
<1>2. Served(k, walk[c]) = {i \in 1..Len(h) : rcv[h[i]].owner = k}
  BY DEF Served, Ended
<1>3. \A s \in Live(c) : KeyAt(s) \in Y <=> Hit(s, f)
  BY <1>1, KeysWanted DEF Live
<1>4. On \subseteq Live(c)
  BY DEF On, Live
<1>5. g \in [Served(k, walk[c]) -> Regs(k, Y)]
  <2> SUFFICES ASSUME NEW i \in Served(k, walk[c]) PROVE h[i] \in Regs(k, Y)
    OBVIOUS
  <2>1. h[i] \in Live(c) /\ rcv[h[i]].owner = k /\ Hit(h[i], f)
    BY <1>1, <1>2
  <2> QED
    BY <1>3, <2>1 DEF Regs
<1>6. \A i, j \in Served(k, walk[c]) : g[i] = g[j] => i = j
  BY <1>1, <1>2 DEF NoTwice
<1>7. \A s \in Regs(k, Y) : \E i \in Served(k, walk[c]) : g[i] = s
  <2> SUFFICES ASSUME NEW s \in Regs(k, Y) PROVE \E i \in Served(k, walk[c]) : h[i] = s
    OBVIOUS
  <2>1. s \in On /\ rcv[s].owner = k /\ Hit(s, f)
    BY <1>3, <1>4 DEF Regs
  <2>2. InSeq(h, s)
    BY <1>1, <1>4, <2>1
  <2> QED
    BY <1>2, <2>1, <2>2 DEF InSeq
<1>8. IsFiniteSet(Served(k, walk[c]))
  BY <1>1, GotType
<1> HIDE DEF g, Y
<1>9. Cardinality(Served(k, walk[c])) = Cardinality(Regs(k, Y))
  BY <1>5, <1>6, <1>7, <1>8, SameCount
<1> QED
  BY <1>9 DEF Got, Num, Y

\* How many of some filters are of a kind: some, all.
LEMMA TimesBounds ==
  ASSUME NEW S, NEW s \in Seq(S), NEW T
  PROVE  /\ Times(s, T) \in 0..Len(s)
         /\ Times(s, T) > 0 <=> \E i \in 1..Len(s) : s[i] \in T
         /\ Times(s, T) = Len(s) <=> \A i \in 1..Len(s) : s[i] \in T
<1>1. Len(s) \in Nat
  OBVIOUS
<1>2. IsFiniteSet(1..Len(s)) /\ Cardinality(1..Len(s)) = Len(s)
  BY <1>1, FS_Interval
<1>3. At(s, T) \subseteq 1..Len(s)
  BY DEF At
<1>4. /\ IsFiniteSet(At(s, T)) /\ Cardinality(At(s, T)) <= Len(s) /\ Cardinality(At(s, T)) \in Nat
      /\ Cardinality(At(s, T)) = Len(s) => At(s, T) = 1..Len(s)
  BY <1>2, <1>3, FS_Subset, FS_CardinalityType
<1>5. Cardinality(At(s, T)) = 0 <=> At(s, T) = {}
  BY <1>4, FS_EmptySet
<1>6. At(s, T) = 1..Len(s) <=> \A i \in 1..Len(s) : s[i] \in T
  BY DEF At
<1>7. At(s, T) = {} <=> ~\E i \in 1..Len(s) : s[i] \in T
  BY DEF At
<1> QED
  BY <1>1, <1>2, <1>4, <1>5, <1>6, <1>7 DEF Times

\* What a socket notes is what its filters ask for.
LEMMA WantedIs ==
  ASSUME NEW k, ro[k] \in RoRec, NEW frame \in FrameRec, RawTakes(k, frame),
         ~(ro[k].join /\ ERR \in frame.id),
         NEW T, T = {g \in CanFilters : FilterMatches(g, frame.id)},
         NEW n, n = (IF ro[k].bound /\ ro[k].dev \in {AllDevs, frame.dev} THEN Times(AllFilters(ro[k]), T) ELSE 0)
  PROVE  /\ ~ro[k].join => (Wanted(k, frame) <=> n > 0)
         /\ ro[k].join => /\ n \in 0..Len(ro[k].filter)
                          /\ Wanted(k, frame) <=> n > 0 /\ n = Len(ro[k].filter)
<1> DEFINE fs == ro[k].filter
           es == ErrFilters(ro[k].err_mask)
           all == AllFilters(ro[k])
<1>1. fs \in Seq(CanFilters) /\ es \in Seq(CanFilters) /\ all \in Seq(CanFilters) /\ Len(fs) \in Nat
  BY FiltersType DEF RoRec
<1>2. \A s \in Seq(CanFilters) : \A i \in 1..Len(s) : s[i] \in T <=> FilterMatches(s[i], frame.id)
  OBVIOUS
<1>3. CASE ~(ro[k].bound /\ ro[k].dev \in {AllDevs, frame.dev})
  <2>1. n = 0 /\ ~Wanted(k, frame)
    BY <1>3 DEF Wanted
  <2> QED
    BY <1>1, <2>1
<1>4. CASE ro[k].bound /\ ro[k].dev \in {AllDevs, frame.dev} /\ ~ro[k].join
  <2>1. n = Times(all, T)
    BY <1>4
  <2>2. Wanted(k, frame) <=> \E i \in 1..Len(all) : FilterMatches(all[i], frame.id)
    BY <1>4 DEF Wanted
  <2>3. Times(all, T) > 0 <=> \E i \in 1..Len(all) : all[i] \in T
    BY <1>1, TimesBounds
  <2> QED
    BY <1>1, <1>2, <1>4, <2>1, <2>2, <2>3
<1>5. CASE ro[k].bound /\ ro[k].dev \in {AllDevs, frame.dev} /\ ro[k].join
  <2>1. \A i \in 1..Len(es) : es[i] \notin T
    <3>1. \A i \in 1..Len(es) : ERR \in es[i].mask
      BY DEF ErrFilters
    <3> QED
      BY <1>5, <3>1 DEF FilterMatches
  <2>2. Times(es, T) = 0
    BY <2>1, TimesNone
  <2>3. Times(fs, T) \in Nat
    BY <1>1, AtFinite
  <2>4. n = Times(fs, T)
    <3>1. all = fs \o es
      BY DEF AllFilters
    <3>2. Times(fs \o es, T) = Times(fs, T) + Times(es, T)
      BY <1>1, TimesConcat
    <3> QED
      BY <1>5, <2>2, <2>3, <3>1, <3>2
  <2>5. /\ n \in 0..Len(fs)
        /\ n > 0 <=> \E i \in 1..Len(fs) : fs[i] \in T
        /\ n = Len(fs) <=> \A i \in 1..Len(fs) : fs[i] \in T
    <3> HIDE DEF fs
    <3>1. /\ Times(fs, T) \in 0..Len(fs)
          /\ Times(fs, T) > 0 <=> \E i \in 1..Len(fs) : fs[i] \in T
          /\ Times(fs, T) = Len(fs) <=> \A i \in 1..Len(fs) : fs[i] \in T
      BY <1>1, TimesBounds
    <3> QED
      BY <2>4, <3>1
  <2>6. Wanted(k, frame) <=> /\ \E i \in 1..Len(fs) : FilterMatches(fs[i], frame.id)
                             /\ \A i \in 1..Len(fs) : FilterMatches(fs[i], frame.id)
    BY <1>5 DEF Wanted
  <2>7. Wanted(k, frame) <=> n > 0 /\ n = Len(fs)
    BY <1>1, <1>2, <2>5, <2>6
  <2> QED
    BY <1>5, <2>5, <2>7
<1> QED
  BY <1>3, <1>4, <1>5

\* raw_rcv() hands a frame to a socket once at most without CAN_RAW_JOIN_FILTERS,
\* and exactly when the filters say so while they are left alone: however many
\* of them match, in whichever of the lists can_rcv_list_find() sorts them.
THEOREM RawIsDelivered == ASSUME WellFormed PROVE Spec => []RawDelivery
<1>1. ASSUME WellFormed, StackInv, CountInv, DeliveryInv, TallyInv PROVE RawDelivery
  <2>1. CoreInv /\ RawCtl /\ PathInv /\ SortedIn /\ RegisteredInv
    BY <1>1 DEF StackInv, CountInv, DeliveryInv, OrderInv
  <2>2. ASSUME NEW k \in RawSocks, NEW c \in Cpus, ~ro[k].join PROVE uniq[k][c].queued <= 1
    <3>1. uniq[k][c].queued = IF uniq[k][c].seen THEN 1 ELSE 0
      BY <1>1, <2>2 DEF TallyInv
    <3> QED
      BY <3>1
  <2>3. ASSUME NEW k \in RawSocks, NEW c \in Cpus, Ended(c), uniq[k][c].calm,
               NEW f, f = walk[c].frame, ~(ro[k].join /\ ERR \in f.id)
        PROVE  uniq[k][c].queued = IF Wanted(k, f) THEN 1 ELSE 0
    <3> DEFINE w == walk[c]
               u == uniq[k][c]
    <3> SUFFICES ASSUME NEW T, T = {g \in CanFilters : FilterMatches(g, f.id)},
                        NEW n, n = IF ro[k].bound /\ ro[k].dev \in {AllDevs, f.dev}
                                   THEN Times(AllFilters(ro[k]), T) ELSE 0
                 PROVE  u.queued = IF Wanted(k, f) THEN 1 ELSE 0
      OBVIOUS
    <3>1. f \in FrameRec /\ f # NIL
      BY <2>1, <2>3, EndedIs DEF Ended
    <3>2. TallyOK(k, c, w)
      BY <1>1, <2>3, <3>1 DEF TallyInv
    <3>3. rtnl.sk # k /\ \A s \in Live(c) : rcv[s].owner = k => s \in w.start \cap On
      BY <2>3, <3>2 DEF TallyOK
    <3>4. Got(k, w) = Num(k, WantedKeys(f))
      BY <1>1, <2>1, <2>3, <3>3, EndedGot
    <3>5. Num(k, WantedKeys(f)) = Want(ro[k], WantedKeys(f))
      BY <2>1, <3>3 DEF RegisteredInv, Counted
    <3>6. Want(ro[k], WantedKeys(f)) = n
      <4>1. FiltersOf(ro[k].dev, WantedKeys(f)) = IF ro[k].dev \in {AllDevs, f.dev} THEN T ELSE {}
        BY <1>1, <3>1, KeysWanted
      <4>2. Times(AllFilters(ro[k]), {}) = 0
        BY TimesNone
      <4> QED
        BY <4>1, <4>2 DEF Want
    <3>7. Got(k, w) = n
      BY <3>4, <3>5, <3>6
    <3>8. ro[k] \in RoRec
      BY <2>1 DEF RawCtl, RawTypeOK
    <3>9. ASSUME RawTakes(k, f)
          PROVE  /\ ~ro[k].join => (Wanted(k, f) <=> n > 0)
                 /\ ro[k].join => /\ n \in 0..Len(ro[k].filter)
                                  /\ Wanted(k, f) <=> n > 0 /\ n = Len(ro[k].filter)
      <4>1. ~(ro[k].join /\ ERR \in f.id) /\ f \in FrameRec /\ ro[k] \in RoRec
        BY <2>3, <3>1, <3>8
      <4> QED
        BY <3>9, <4>1, WantedIs
    <3>10. CASE ~RawTakes(k, f)
      BY <2>3, <3>2, <3>10 DEF TallyOK, Wanted
    <3>11. CASE RawTakes(k, f) /\ ~ro[k].join
      <4>1. u.queued = IF u.seen THEN 1 ELSE 0
        BY <1>1, <3>11 DEF TallyInv
      <4>2. u.seen <=> Got(k, w) > 0
        BY <2>3, <3>2, <3>11 DEF TallyOK
      <4>3. Wanted(k, f) <=> n > 0
        BY <3>11, <3>9
      <4> QED
        BY <3>7, <4>1, <4>2, <4>3
    <3>12. CASE RawTakes(k, f) /\ ro[k].join
      <4>1. u.queued = Late(Got(k, w), Len(ro[k].filter))
        BY <2>3, <3>2, <3>12 DEF TallyOK
      <4>2. Len(ro[k].filter) \in Nat
        BY <3>8 DEF RoRec
      <4>3. n \in 0..Len(ro[k].filter) /\ (Wanted(k, f) <=> n > 0 /\ n = Len(ro[k].filter))
        BY <3>9, <3>12
      <4> QED
        BY <3>7, <4>1, <4>2, <4>3 DEF Late
    <3> QED
      BY <3>10, <3>11, <3>12
  <2> QED
    BY <2>2, <2>3 DEF RawDelivery
<1> QED
  BY <1>1, TallyInductive, PTL

-----------------------------------------------------------------------------
(* The broadcast manager. *)

TxOpRec == [state : {"none", "on", "deleted", "released"}, flags : SUBSET Flags,
            nframes : Nat \ {0}, currframe : Nat, count : Nat, ival1 : BOOLEAN, ival2 : BOOLEAN]
RxOpRec == [state : {"none", "on", "deleted", "released"}, flags : SUBSET Flags,
            known : BOOLEAN, ival1 : BOOLEAN, ival2 : BOOLEAN]

\* Where a request is while it sets an operation up, and while it removes one.
TxSetup == {"tx_new", "tx_lock", "tx_ival1", "tx_ival2", "tx_zero", "tx_cancel", "tx_announce", "tx_start"}
RxSetup == {"rx_flags", "rx_set", "rx_ival1", "rx_ival2", "rx_zero", "rx_last", "rx_throttle",
            "rx_flush", "rx_start", "rx_register"}
RxRemoval == {"rx_remove", "rx_remove_thr", "rel_sync", "rel_wait", "rel_rx", "rel_rx_thr"}
BcmPCs == {"idle", "tx_remove", "rel_tx", "rx_unreg", "rel_unreg", "rel_put", "closed"}
            \cup TxSetup \cup RxSetup \cup RxRemoval

CbStates == {"off", "start", "send", "expiry", "again", "end"}
BhStates == {"none", "compare", "update", "start"}
Content == [recv : BOOLEAN, thr : BOOLEAN, data : Nat \cup {NIL}]

BcmTypeOK ==
  /\ up_mode \in BOOLEAN /\ tx_op \in TxOpRec /\ rx_op \in RxOpRec
  /\ lcf \in Content /\ kt_lastmsg \in {"zero", "recent", "old"} /\ timer \subseteq Timers
  /\ cb \in [Timers -> CbStates] /\ bh \in [Cpus -> BhStates] /\ bpc \in BcmPCs

TxInv ==
  /\ bpc \in TxSetup => tx_op.state = "on" /\ req \in TxReqs /\ tx_op.flags = req.flags
  /\ bpc \in {"tx_remove", "rel_tx"} => tx_op.state = "on"
  /\ tx_op.currframe < tx_op.nframes
  /\ tx_op.state = "none" => tx_op.currframe = 0
  /\ tx_op.state = "on" =>
       bpc \in TxSetup \/ ("STARTTIMER" \in tx_op.flags /\ bcm_tx_set_expiry => hrtimer_active("tx"))
  /\ tx_op.state # "on" => ~hrtimer_active("tx")

OfRxOp(s) ==
  LET l == can_rcv_list_find(BcmFilter)
  IN /\ rcv[s].owner = RxOp /\ rcv[s].state = "on" /\ rcv[s].dev = BcmDev
     /\ rcv[s].list = l.list /\ rcv[s].id = l.id /\ rcv[s].mask = l.mask

\* The requests that set up and remove rx_op.
RxCtlInv ==
  /\ bpc \in RxSetup => rx_op.state = "on" /\ req \in RxReqs /\ up[BcmDev]
  /\ bpc = "rx_register" => ~rx_op.known
  /\ bpc \in RxRemoval \cup {"rx_unreg"} => rx_op.state = "on"
  /\ bpc \in {"rel_put", "closed"} => rx_op.state # "on"
  /\ rx_op.state = "none" => ~rx_op.known /\ ~lcf.recv
  /\ scene.part # "bcm_rx" => rx_op.state = "none"

\* The receiver of rx_op: one, while the operation is known and the device there.
\* Unlinked, it is gone before what the operation waits for.
RxFilterInv ==
  \A s \in Slots : rcv[s].owner = RxOp =>
    /\ rx_op.known
    /\ rcv[s].state = "on" =>
         /\ OfRxOp(s) /\ rx_op.state = "on" /\ up[BcmDev] /\ bpc \notin RxRemoval
         /\ \A t \in Slots : OfRxOp(t) => s = t
    /\ rcv[s].state = "off" =>
         /\ ~up_mode
         /\ rx_op.state = "deleted" => rcv[s].gp \subseteq waits[RxOp]
         /\ bpc = "rel_wait" => rcv[s].gp \subseteq waits[Sync]
         /\ bpc \notin {"rel_rx", "rel_rx_thr"} /\ rx_op.state # "released"

\* Its timers, once they were cancelled for good.
RxTimerInv ==
  /\ \A c \in Cpus : bh[c] # "none" => Callee(c) = RxOp
  /\ (up_mode /\ bpc = "rx_remove_thr") \/ bpc = "rel_rx_thr" => ~hrtimer_active("rx")
  /\ rx_op.state = "released" \/ (rx_op.state = "deleted" /\ up_mode) =>
       ~hrtimer_active("rx") /\ ~hrtimer_active("thr")

\* On one processor there is one softirq at a time.
UpInv ==
  up_mode =>
    /\ \A c, d \in Readers : c = d
    /\ Readers # {} => \A t \in Timers : cb[t] = "off"
    /\ \A t, u \in Timers : cb[t] # "off" /\ cb[u] # "off" => t = u

\* What was stored last: reported, or throttled and going to be flushed.
Told == lcf.recv => IF lcf.thr THEN hrtimer_active("thr") \/ bpc = "rx_flush" ELSE told = lcf.data

ThrottleInv ==
  up_mode =>
    /\ cb["thr"] \in {"again", "end"} => ~lcf.thr
    /\ \A c \in Cpus : bh[c] = "update" => lcf.thr
    /\ rx_op.state = "on" => (\E c \in Cpus : bh[c] = "update") \/ Told

BcmInv == BcmTypeOK /\ TxInv /\ RxCtlInv /\ RxFilterInv /\ RxTimerInv /\ UpInv /\ ThrottleInv

LEMMA BcmCallee ==
  ASSUME CoreInv, NEW c \in Cpus, Callee(c) = RxOp
  PROVE  walk[c].frame.data \in Nat /\ c \in Readers
<1>1. RxOp # NIL
  BY CanRxAssumption, BcmAssumption
<1> QED
  BY <1>1, CalleeFacts DEF FrameRec

LEMMA ReqType ==
  /\ \A r \in TxReqs : r \in [flags : SUBSET Flags, nframes : Nat \ {0}, count : Nat,
                             ival1 : BOOLEAN, ival2 : BOOLEAN]
  /\ \A r \in RxReqs : r \in [flags : SUBSET Flags, ival1 : BOOLEAN, ival2 : BOOLEAN]
BY BcmAssumption

\* Where a request of the user may go.
LEMMA NextTypes ==
  /\ \A at : TxNext(at) \in {"tx_ival1", "tx_zero", "tx_cancel", "tx_announce", "tx_start", "idle"}
  /\ \A at : RxNext(at) \in {"rx_ival1", "rx_zero", "rx_last", "rx_start", "rx_register", "idle"}
BY DEF TxNext, RxNext

LEMMA HandlerTypes ==
  ASSUME BcmTypeOK, NEW t \in Timers, NEW from, NEW to \in CbStates, Handler(t, from, to)
  PROVE  /\ up_mode' \in BOOLEAN /\ cb' \in [Timers -> CbStates] /\ bh' \in [Cpus -> BhStates] /\ bpc' \in BcmPCs
         /\ cb[t] = from /\ cb'[t] = to /\ \A u \in Timers \ {t} : cb'[u] = cb[u]
         /\ UNCHANGED <<up_mode, bh, req, bpc, walk, rcv, waits, up>>
BY DEF BcmTypeOK, Handler, rxVars

LEMMA UserTypes ==
  ASSUME BcmTypeOK, NEW from, NEW to \in BcmPCs, User(from, to)
  PROVE  /\ up_mode' \in BOOLEAN /\ cb' \in [Timers -> CbStates] /\ bh' \in [Cpus -> BhStates] /\ bpc' \in BcmPCs
         /\ bpc = from /\ bpc' = to /\ UNCHANGED <<up_mode, cb, bh, walk, up>>
BY DEF BcmTypeOK, User

LEMMA ReceivingTypes ==
  ASSUME BcmTypeOK, NEW c \in Cpus, NEW from, NEW to \in BhStates, Receiving(c, from, to)
  PROVE  /\ up_mode' \in BOOLEAN /\ cb' \in [Timers -> CbStates] /\ bh' \in [Cpus -> BhStates] /\ bpc' \in BcmPCs
         /\ tx_op' \in TxOpRec /\ rx_op' \in RxOpRec
         /\ Callee(c) = RxOp /\ bh[c] = from /\ bh'[c] = to /\ \A d \in Cpus \ {c} : bh'[d] = bh[d]
         /\ UNCHANGED <<up_mode, cb, req, bpc, tx_op, rx_op, rcv, waits, up>>
BY DEF BcmTypeOK, Receiving

\* bcm_can_tx() moves the index among the frames.
LEMMA TxOpTypes ==
  ASSUME BcmTypeOK
  PROVE  /\ tx_op.currframe \in Nat /\ tx_op.count \in Nat /\ tx_op.nframes \in Nat \ {0}
         /\ bcm_can_tx =>
              /\ tx_op' \in TxOpRec /\ tx_op'.nframes = tx_op.nframes
              /\ tx_op'.currframe = tx_op.currframe \/ tx_op'.currframe < tx_op.nframes
              /\ tx_op'.state = tx_op.state /\ tx_op'.flags = tx_op.flags
<1>1. tx_op \in TxOpRec
  BY DEF BcmTypeOK
<1>2. tx_op.currframe \in Nat /\ tx_op.count \in Nat /\ tx_op.nframes \in Nat \ {0}
  BY <1>1 DEF TxOpRec
<1>3. ASSUME bcm_can_tx
      PROVE  /\ tx_op' \in TxOpRec /\ tx_op'.nframes = tx_op.nframes
             /\ tx_op'.currframe = tx_op.currframe \/ tx_op'.currframe < tx_op.nframes
             /\ tx_op'.state = tx_op.state /\ tx_op'.flags = tx_op.flags
  <2> DEFINE n == IF tx_op.count > 0 THEN tx_op.count - 1 ELSE 0
             w == Wrapped(tx_op)
  <2>1. n \in Nat
    BY <1>2
  <2>2. w \in Nat /\ w < tx_op.nframes
    BY <1>2 DEF Wrapped
  <2>3. tx_op' = [tx_op EXCEPT !.currframe = w, !.count = n] \/ tx_op' = tx_op
    BY <1>3 DEF bcm_can_tx
  <2> HIDE DEF n, w
  <2> QED
    BY <1>1, <2>1, <2>2, <2>3 DEF TxOpRec
<1> QED
  BY <1>2, <1>3

-----------------------------------------------------------------------------
(* Types. *)

\* What a step leaves alone, of the receiving operation and of the transmission.
RxStill == UNCHANGED <<rx_op, lcf, kt_lastmsg, told>>

LEMMA TxTypes ==
  ASSUME BcmTypeOK, TxInv, TxStep \/ BcmTxCall \/ ReleaseTx
  PROVE  BcmTypeOK'
<1> DEFINE Rest == /\ up_mode' \in BOOLEAN /\ cb' \in [Timers -> CbStates] /\ bh' \in [Cpus -> BhStates]
                   /\ bpc' \in BcmPCs
<1>0. {"idle", "tx_remove", "rel_unreg"} \cup TxSetup \subseteq BcmPCs /\ timer \subseteq Timers /\ tx_op \in TxOpRec
      /\ "tx" \in Timers /\ \A at : TxNext(at) \in BcmPCs
  BY NextTypes DEF BcmPCs, TxSetup, BcmTypeOK, Timers
<1>1. ASSUME Rest, tx_op' \in TxOpRec, timer' \subseteq Timers, RxStill PROVE BcmTypeOK'
  BY <1>1 DEF RxStill, BcmTypeOK
<1>2. ASSUME NEW from, NEW to \in BcmPCs, TxGoto(from, to) PROVE Rest /\ RxStill
  BY <1>2, UserTypes DEF TxGoto, TxVarsRest, RxStill
<1>3. ASSUME NEW from, NEW to \in CbStates, Handler("tx", from, to) PROVE Rest
  BY <1>0, <1>3, HandlerTypes
<1> HIDE DEF Rest
<1>4. CASE TxTimeout \/ TxTimeoutSent \/ TxTimeoutExpiry
  <2>1. Rest
    BY <1>3, <1>4 DEF TxTimeout, TxTimeoutSent, TxTimeoutExpiry, CbStates
  <2>2. tx_op' \in TxOpRec /\ timer' \subseteq Timers /\ RxStill
    BY <1>0, <1>4, TxOpTypes DEF TxTimeout, TxTimeoutSent, TxTimeoutExpiry, TxVarsRest, RxStill
  <2> QED
    BY <1>1, <2>1, <2>2
<1>5. CASE TxCreated \/ TxZero \/ TxCancel \/ TxStart \/ TxAnnounce \/ TxDelete
  <2>1. Rest /\ RxStill
    BY <1>0, <1>2, <1>5 DEF TxCreated, TxZero, TxCancel, TxStart, TxAnnounce, TxDelete, TxSetup
  <2>2. tx_op' \in TxOpRec /\ timer' \subseteq Timers
    BY <1>0, <1>5, TxOpTypes DEF TxCreated, TxZero, TxCancel, TxStart, TxAnnounce, TxDelete, hrtimer_cancel
  <2> QED
    BY <1>1, <2>1, <2>2
<1>6. CASE TxUpdateLocked \/ TxIval1 \/ TxIval2
  <2>1. Rest /\ RxStill
    BY <1>0, <1>2, <1>6 DEF TxUpdateLocked, TxIval1, TxIval2, TxSetup
  <2>2. req \in TxReqs
    BY <1>6 DEF TxUpdateLocked, TxIval1, TxIval2, TxGoto, User, TxInv, TxSetup
  <2>3. req.nframes \in Nat \ {0} /\ req.count \in Nat /\ req.ival1 \in BOOLEAN /\ req.ival2 \in BOOLEAN
    BY <2>2, ReqType
  <2>4. tx_op' \in TxOpRec
    <3>1. CASE TxIval1 \/ TxIval2
      BY <1>0, <2>3, <3>1 DEF TxIval1, TxIval2, TxOpRec
    <3>2. CASE TxUpdateLocked
      <4>1. PICK op : /\ op \in {tx_op, Resized(tx_op)}
                      /\ tx_op' = [op EXCEPT !.count = IF "SETTIMER" \in req.flags THEN req.count ELSE @]
        BY <3>2 DEF TxUpdateLocked
      <4>2. op \in TxOpRec
        <5>1. [tx_op EXCEPT !.nframes = req.nframes, !.currframe = 0] \in TxOpRec
          BY <1>0, <2>3 DEF TxOpRec
        <5> QED
          BY <1>0, <4>1, <5>1 DEF Resized
      <4> QED
        BY <2>3, <4>1, <4>2 DEF TxOpRec
    <3> QED
      BY <1>6, <3>1, <3>2
  <2>5. timer' \subseteq Timers
    BY <1>0, <1>6 DEF TxUpdateLocked, TxIval1, TxIval2
  <2> QED
    BY <1>1, <2>1, <2>4, <2>5
<1>7. CASE TxCreate \/ TxUpdate
  <2>1. Rest /\ RxStill /\ timer' \subseteq Timers
    BY <1>0, <1>7, UserTypes DEF TxCreate, TxUpdate, TxVarsRest, RxStill, Rest, TxSetup
  <2>2. tx_op' \in TxOpRec
    <3>1. CASE TxCreate
      <4>1. PICK r \in TxReqs :
              tx_op' = [tx_op EXCEPT !.state = "on", !.flags = r.flags, !.nframes = r.nframes,
                                     !.count = IF "SETTIMER" \in r.flags THEN r.count ELSE 0]
        BY <3>1 DEF TxCreate
      <4>2. r.flags \in SUBSET Flags /\ r.nframes \in Nat \ {0} /\ r.count \in Nat
        BY ReqType
      <4> QED
        BY <1>0, <4>1, <4>2 DEF TxOpRec
    <3>2. CASE TxUpdate
      <4>1. PICK r \in TxReqs : tx_op' = [tx_op EXCEPT !.flags = r.flags]
        BY <3>2 DEF TxUpdate
      <4>2. r.flags \in SUBSET Flags
        BY ReqType
      <4> QED
        BY <1>0, <4>1, <4>2 DEF TxOpRec
    <3> QED
      BY <1>7, <3>1, <3>2
  <2> QED
    BY <1>1, <2>1, <2>2
<1>8. CASE TxRemove \/ ReleaseTx
  <2>1. Rest /\ RxStill /\ timer' \subseteq Timers
    BY <1>0, <1>2, <1>8, UserTypes DEF TxRemove, ReleaseTx, RxStill, Rest, hrtimer_cancel
  <2>2. tx_op' \in TxOpRec
    BY <1>0, <1>8 DEF TxRemove, ReleaseTx, TxOpRec
  <2> QED
    BY <1>1, <2>1, <2>2
<1> QED
  BY <1>4, <1>5, <1>6, <1>7, <1>8 DEF TxStep, BcmTxCall

LEMMA RxTypes ==
  ASSUME CoreInv, BcmTypeOK, RxCtlInv, RxStep \/ BcmRxCall \/ BcmEvent, ~ReleaseTx
  PROVE  BcmTypeOK'
<1> DEFINE Rest == /\ up_mode' \in BOOLEAN /\ cb' \in [Timers -> CbStates] /\ bh' \in [Cpus -> BhStates]
                   /\ bpc' \in BcmPCs
           RxRest == rx_op' \in RxOpRec /\ lcf' \in Content /\ kt_lastmsg' \in {"zero", "recent", "old"}
                     /\ timer' \subseteq Timers
<1>0. /\ {"rx", "thr"} \subseteq Timers /\ timer \subseteq Timers /\ tx_op \in TxOpRec /\ rx_op \in RxOpRec
      /\ lcf \in Content /\ kt_lastmsg \in {"zero", "recent", "old"}
      /\ {"idle", "rel_tx"} \subseteq BcmPCs
      /\ \A at : RxNext(at) \in BcmPCs
  BY NextTypes DEF BcmPCs, BcmTypeOK, Timers, RxSetup
<1>1. ASSUME Rest, RxRest, tx_op' \in TxOpRec PROVE BcmTypeOK'
  BY <1>1 DEF BcmTypeOK
<1>2. ASSUME NEW from, NEW to \in BcmPCs, RxGoto(from, to) PROVE Rest /\ tx_op' = tx_op
  BY <1>2, UserTypes DEF RxGoto
<1>3. ASSUME NEW t \in Timers, NEW from, NEW to \in CbStates, Handler(t, from, to) PROVE Rest
  BY <1>3, HandlerTypes
<1>4. ASSUME NEW from, NEW to \in BcmPCs, User(from, to) PROVE Rest
  BY <1>4, UserTypes
<1>5. /\ NoContent \in Content /\ [lcf EXCEPT !.thr = FALSE] \in Content
      /\ \A t \in Timers : timer \cup {t} \subseteq Timers /\ timer \ {t} \subseteq Timers
  BY <1>0 DEF NoContent, Content
<1> HIDE DEF Rest
<1>6. CASE RxTimeout \/ RxThrottle \/ RxThrottleAgain \/ RxThrottleEnd
  <2>1. Rest
    BY <1>0, <1>3, <1>6 DEF RxTimeout, RxThrottle, RxThrottleAgain, RxThrottleEnd, CbStates
  <2>2. RxRest /\ tx_op' = tx_op
    BY <1>0, <1>5, <1>6 DEF RxTimeout, RxThrottle, RxThrottleAgain, RxThrottleEnd, bcm_rx_thr_flush, bcm_rx_changed
  <2> QED
    BY <1>0, <1>1, <2>1, <2>2
<1>7. CASE RxSet \/ RxIval1 \/ RxIval2
  <2>1. Rest /\ tx_op' = tx_op
    BY <1>0, <1>2, <1>7 DEF RxSet, RxIval1, RxIval2, BcmPCs, RxSetup
  <2>2. req \in RxReqs
    BY <1>7 DEF RxSet, RxIval1, RxIval2, RxGoto, User, RxCtlInv, RxSetup
  <2>3. req.flags \in SUBSET Flags /\ req.ival1 \in BOOLEAN /\ req.ival2 \in BOOLEAN
    BY <2>2, ReqType
  <2>4. rx_op' \in RxOpRec
    BY <1>0, <1>7, <2>3 DEF RxSet, RxIval1, RxIval2, RxOpRec
  <2>5. RxRest
    BY <1>0, <1>7, <2>4 DEF RxSet, RxIval1, RxIval2
  <2> QED
    BY <1>0, <1>1, <2>1, <2>5
<1>8. CASE RxZero \/ RxLast \/ RxCancel \/ RxFlush \/ RxStart
  <2>1. Rest /\ tx_op' = tx_op
    BY <1>0, <1>2, <1>8 DEF RxZero, RxLast, RxCancel, RxFlush, RxStart, BcmPCs, RxSetup
  <2>2. RxRest
    BY <1>0, <1>5, <1>8
    DEF RxZero, RxLast, RxCancel, RxFlush, RxStart, hrtimer_cancel, bcm_rx_thr_flush, bcm_rx_changed
  <2> QED
    BY <1>0, <1>1, <2>1, <2>2
<1>9. CASE RxRegister \/ RxDelete
  <2>1. Rest /\ tx_op' = tx_op
    BY <1>0, <1>2, <1>9, Zenon DEF RxRegister, RxDelete, BcmPCs, RxRemoval
  <2>2. /\ UNCHANGED <<lcf, kt_lastmsg, timer>>
        /\ \/ rx_op' = [rx_op EXCEPT !.known = TRUE]
           \/ rx_op' = [rx_op EXCEPT !.flags = @ \cup {"RX_NO_AUTOTIMER"}]
    BY <1>9, Zenon DEF RxRegister, RxDelete
  <2>3. rx_op' \in RxOpRec
    <3>1. rx_op.flags \cup {"RX_NO_AUTOTIMER"} \in SUBSET Flags
      <4>1. rx_op.flags \subseteq Flags
        BY <1>0 DEF RxOpRec
      <4>2. "RX_NO_AUTOTIMER" \in Flags
        BY DEF Flags
      <4> QED
        BY <4>1, <4>2
    <3> DEFINE flags == rx_op.flags \cup {"RX_NO_AUTOTIMER"}
    <3> HIDE DEF flags
    <3>2. flags \in SUBSET Flags /\ rx_op' \in {[rx_op EXCEPT !.known = TRUE], [rx_op EXCEPT !.flags = flags]}
      BY <2>2, <3>1 DEF flags
    <3> QED
      BY <1>0, <3>2 DEF RxOpRec
  <2> QED
    BY <1>0, <1>1, <2>1, <2>2, <2>3
<1>10. CASE RxUnreg \/ ReleaseUnreg
  <2>1. Rest
    BY <1>4, <1>10 DEF RxUnreg, ReleaseUnreg, BcmPCs, RxRemoval
  <2>2. UNCHANGED <<tx_op, rx_op, lcf, kt_lastmsg, timer>>
    BY <1>10 DEF RxUnreg, ReleaseUnreg, bcm_rx_unreg
  <2> QED
    BY <1>0, <1>1, <2>1, <2>2
<1>11. CASE RxRemove \/ RxRemoveThr
  <2>1. Rest
    BY <1>4, <1>11 DEF RxRemove, RxRemoveThr, BcmPCs, RxRemoval
  <2>2. rx_op' \in RxOpRec
    BY <1>0, <1>11 DEF RxRemove, RxRemoveThr, RxOpRec
  <2>3. UNCHANGED <<tx_op, lcf, kt_lastmsg>> /\ timer' \subseteq Timers
    BY <1>0, <1>5, <1>11 DEF RxRemove, RxRemoveThr, hrtimer_cancel
  <2> QED
    BY <1>0, <1>1, <2>1, <2>2, <2>3
<1>12. CASE ReleaseSync \/ ReleaseSynced \/ ReleasePut \/ bcm_release
  <2>1. Rest
    BY <1>4, <1>12 DEF ReleaseSync, ReleaseSynced, ReleasePut, bcm_release, BcmPCs, RxRemoval
  <2>2. UNCHANGED <<tx_op, rx_op, lcf, kt_lastmsg, timer>>
    BY <1>12 DEF ReleaseSync, ReleaseSynced, ReleasePut, bcm_release
  <2> QED
    BY <1>0, <1>1, <2>1, <2>2
<1>13. ASSUME NEW c \in Cpus, BcmRcv(c) \/ BcmRcvUpdate(c) \/ BcmRcvStart(c)
       PROVE  BcmTypeOK'
  <2>1. Rest /\ rx_op' \in RxOpRec /\ tx_op' \in TxOpRec
    BY <1>13, ReceivingTypes DEF BcmRcv, BcmRcvUpdate, BcmRcvStart, Rest, BhStates
  <2>2. lcf' \in Content /\ kt_lastmsg' \in {"zero", "recent", "old"} /\ timer' \subseteq Timers
    BY <1>0, <1>5, <1>13 DEF BcmRcv, BcmRcvUpdate, BcmRcvStart, hrtimer_cancel, bcm_rx_changed
  <2> QED
    BY <1>1, <2>1, <2>2
<1>14. ASSUME NEW c \in Cpus, BcmRcvCompare(c) PROVE BcmTypeOK'
  <2>1. Rest /\ rx_op' \in RxOpRec /\ tx_op' \in TxOpRec
    BY <1>14, ReceivingTypes DEF BcmRcvCompare, Rest, BhStates
  <2>2. Callee(c) = RxOp /\ UNCHANGED <<kt_lastmsg, timer>>
    BY <1>14 DEF BcmRcvCompare
  <2>3. walk[c].frame.data \in Nat
    BY <2>2, BcmCallee
  <2>4. [recv |-> TRUE, thr |-> TRUE, data |-> walk[c].frame.data] \in Content
    BY <2>3 DEF Content
  <2>5. lcf' \in Content
    BY <1>0, <1>14, <2>4 DEF BcmRcvCompare
  <2> QED
    BY <1>0, <1>1, <2>1, <2>2, <2>5
<1>15. CASE RxCreate \/ RxUpdate
  <2>1. Rest /\ tx_op' = tx_op
    BY <1>4, <1>15 DEF RxCreate, RxUpdate, BcmPCs, RxSetup
  <2>2. UNCHANGED <<kt_lastmsg, timer>> /\ lcf' \in Content
    BY <1>0, <1>5, <1>15 DEF RxCreate, RxUpdate
  <2>3. \/ UNCHANGED rx_op
        \/ \E r \in RxReqs : rx_op' = [rx_op EXCEPT !.state = "on", !.flags = r.flags]
    BY <1>15 DEF RxCreate, RxUpdate
  <2>4. rx_op' \in RxOpRec
    <3>1. \A r \in RxReqs : r.flags \in SUBSET Flags
      BY ReqType
    <3> QED
      BY <1>0, <2>3, <3>1 DEF RxOpRec
  <2> QED
    BY <1>0, <1>1, <2>1, <2>2, <2>4
<1>16. CASE bcm_notify
  BY <1>16 DEF bcm_notify, bcmVars, BcmTypeOK
<1>17. CASE BcmTime
  BY <1>17 DEF BcmTime, BcmTypeOK
<1>18. ASSUME NEW t \in Timers, Expire(t) PROVE BcmTypeOK'
  BY <1>18 DEF Expire, BcmTypeOK, CbStates
<1> QED
  BY <1>6, <1>7, <1>8, <1>9, <1>10, <1>11, <1>12, <1>13, <1>14, <1>15, <1>16, <1>17, <1>18
  DEF RxStep, BcmRxCall, BcmEvent

-----------------------------------------------------------------------------
(* The transmission. *)

TxBusy == TxSetup \cup {"tx_remove", "rel_tx"}

\* What does not concern the transmission.
TxAside ==
  /\ UNCHANGED tx_op /\ (hrtimer_active("tx") => hrtimer_active("tx")') 
  /\ (hrtimer_active("tx")' => hrtimer_active("tx"))
  /\ (UNCHANGED <<bpc, req>> \/ (bpc \notin TxBusy /\ bpc' \notin TxBusy))

LEMMA TxAsideKeeps ==
  ASSUME TxInv, TxAside
  PROVE  TxInv'
BY DEF TxInv, TxAside, TxBusy, TxSetup, bcm_tx_set_expiry

LEMMA TxHandlersKeep ==
  ASSUME BcmTypeOK, TxInv, TxTimeout \/ TxTimeoutSent \/ TxTimeoutExpiry
  PROVE  TxInv'
<1>1. UNCHANGED <<bpc, req>> /\ cb["tx"] # "off"
  BY HandlerTypes DEF TxTimeout, TxTimeoutSent, TxTimeoutExpiry, Timers, CbStates
<1>2. tx_op.state = "on" /\ tx_op.currframe < tx_op.nframes
  BY <1>1 DEF TxInv, hrtimer_active, BcmTypeOK, TxOpRec
<1>3. /\ tx_op'.state = "on" /\ tx_op'.flags = tx_op.flags /\ tx_op'.currframe < tx_op'.nframes
  BY <1>2, TxOpTypes DEF TxTimeout, TxTimeoutSent, TxTimeoutExpiry
<1>4. bcm_tx_set_expiry' => hrtimer_active("tx")'
  <2>1. CASE TxTimeout \/ TxTimeoutSent
    BY <2>1, HandlerTypes DEF TxTimeout, TxTimeoutSent, Timers, CbStates, hrtimer_active
  <2>2. CASE TxTimeoutExpiry
    BY <2>2 DEF TxTimeoutExpiry, bcm_tx_set_expiry, hrtimer_active
  <2> QED
    BY <2>1, <2>2
<1> QED
  BY <1>1, <1>2, <1>3, <1>4 DEF TxInv

LEMMA TxSetupKeeps ==
  ASSUME BcmTypeOK, TxInv,
         \/ TxCreated \/ TxUpdateLocked \/ TxIval1 \/ TxIval2 \/ TxZero \/ TxCancel \/ TxAnnounce \/ TxStart
  PROVE  TxInv'
<1>1. /\ bpc \in TxSetup /\ tx_op.state = "on" /\ req \in TxReqs /\ tx_op.flags = req.flags
      /\ tx_op.currframe < tx_op.nframes
  BY DEF TxInv, TxSetup, TxGoto, User, TxCreated, TxUpdateLocked, TxIval1, TxIval2, TxZero, TxCancel,
         TxAnnounce, TxStart
<1>2. req.nframes \in Nat \ {0} /\ tx_op \in TxOpRec
  BY <1>1, ReqType DEF BcmTypeOK
<1>3. tx_op'.state = "on" /\ tx_op'.flags = req.flags /\ tx_op'.currframe < tx_op'.nframes
  <2>1. CASE TxUpdateLocked
    <3>1. PICK op : /\ op \in {tx_op, Resized(tx_op)}
                    /\ tx_op' = [op EXCEPT !.count = IF "SETTIMER" \in req.flags THEN req.count ELSE @]
      BY <2>1 DEF TxUpdateLocked
    <3>2. op \in TxOpRec /\ op.state = "on" /\ op.flags = req.flags /\ op.currframe < op.nframes
      <4>1. /\ [tx_op EXCEPT !.nframes = req.nframes, !.currframe = 0] \in TxOpRec
            /\ [tx_op EXCEPT !.nframes = req.nframes, !.currframe = 0].state = "on"
            /\ [tx_op EXCEPT !.nframes = req.nframes, !.currframe = 0].flags = req.flags
            /\ [tx_op EXCEPT !.nframes = req.nframes, !.currframe = 0].currframe = 0
            /\ [tx_op EXCEPT !.nframes = req.nframes, !.currframe = 0].nframes = req.nframes
        BY <1>1, <1>2 DEF TxOpRec
      <4>2. 0 < req.nframes
        BY <1>2
      <4> QED
        BY <1>1, <1>2, <3>1, <4>1, <4>2 DEF Resized
    <3> QED
      BY <3>1, <3>2 DEF TxOpRec
  <2>2. CASE TxIval1 \/ TxIval2
    BY <1>1, <1>2, <2>2 DEF TxIval1, TxIval2, TxOpRec
  <2>3. CASE TxCreated \/ TxZero \/ TxCancel \/ TxAnnounce \/ TxStart
    BY <1>1, <2>3, TxOpTypes DEF TxCreated, TxZero, TxCancel, TxAnnounce, TxStart
  <2> QED
    BY <2>1, <2>2, <2>3
<1>4. \/ bpc' \in TxSetup /\ req' = req
      \/ bpc' = "idle" /\ ("STARTTIMER" \in req.flags /\ bcm_tx_set_expiry' => hrtimer_active("tx")')
  <2>1. CASE TxStart
    BY <2>1 DEF TxStart, TxGoto, User, bcm_tx_set_expiry, hrtimer_active
  <2>2. CASE TxCreated \/ TxUpdateLocked
    <3>1. bpc' = TxNext("lock") /\ (bpc' # "idle" => req' = req)
      BY <2>2 DEF TxCreated, TxUpdateLocked, TxGoto, User, Goes
    <3> QED
      BY <3>1 DEF TxNext, TxSetup
  <2>3. CASE TxIval2
    <3>1. bpc' = TxNext("ival") /\ (bpc' # "idle" => req' = req)
      BY <2>3 DEF TxIval2, TxGoto, User, Goes
    <3> QED
      BY <3>1 DEF TxNext, TxSetup
  <2>4. CASE TxZero
    <3>1. bpc' = TxNext("zero") /\ (bpc' # "idle" => req' = req)
      BY <2>4 DEF TxZero, TxGoto, User, Goes
    <3> QED
      BY <3>1 DEF TxNext, TxSetup
  <2>5. CASE TxAnnounce
    <3>1. bpc' = TxNext("announce") /\ (bpc' # "idle" => req' = req)
      BY <2>5 DEF TxAnnounce, TxGoto, User, Goes
    <3> QED
      BY <3>1 DEF TxNext, TxSetup
  <2>6. CASE TxIval1 \/ TxCancel
    BY <2>6 DEF TxIval1, TxCancel, TxGoto, User, Goes, TxSetup
  <2> QED
    BY <2>1, <2>2, <2>3, <2>4, <2>5, <2>6
<1> QED
  BY <1>1, <1>3, <1>4 DEF TxInv, TxSetup

LEMMA TxCallsKeep ==
  ASSUME BcmTypeOK, TxInv, BcmTxCall
  PROVE  TxInv'
<1>1. tx_op \in TxOpRec /\ bpc = "idle"
  BY DEF BcmTypeOK, BcmTxCall, TxCreate, TxUpdate, TxDelete, TxGoto, User
<1>2. CASE TxCreate
  <2>1. PICK r \in TxReqs :
          /\ req' = r
          /\ tx_op' = [tx_op EXCEPT !.state = "on", !.flags = r.flags, !.nframes = r.nframes,
                                    !.count = IF "SETTIMER" \in r.flags THEN r.count ELSE 0]
    BY <1>2 DEF TxCreate
  <2>2. r.nframes \in Nat \ {0}
    BY ReqType
  <2>3. tx_op.currframe = 0 /\ bpc' = "tx_new"
    BY <1>2 DEF TxCreate, TxInv, User
  <2>4. tx_op'.state = "on" /\ tx_op'.flags = r.flags /\ tx_op'.nframes = r.nframes /\ tx_op'.currframe = 0
    BY <1>1, <2>1, <2>3 DEF TxOpRec
  <2> QED
    BY <2>1, <2>2, <2>3, <2>4 DEF TxInv, TxSetup
<1>3. CASE TxUpdate
  <2>1. PICK r \in TxReqs : req' = r /\ tx_op' = [tx_op EXCEPT !.flags = r.flags]
    BY <1>3 DEF TxUpdate
  <2>2. tx_op.state = "on" /\ bpc' = "tx_lock" /\ tx_op.currframe < tx_op.nframes
    BY <1>3 DEF TxUpdate, TxInv, User
  <2>3. /\ tx_op'.state = "on" /\ tx_op'.flags = r.flags
        /\ tx_op'.nframes = tx_op.nframes /\ tx_op'.currframe = tx_op.currframe
    BY <1>1, <2>1, <2>2 DEF TxOpRec
  <2> QED
    BY <2>1, <2>2, <2>3 DEF TxInv, TxSetup
<1>4. CASE TxDelete
  <2>1. /\ tx_op.state = "on" /\ bpc' = "tx_remove" /\ UNCHANGED <<tx_op, timer, cb>>
    BY <1>4 DEF TxDelete, TxGoto, User
  <2> QED
    BY <1>1, <2>1 DEF TxInv, TxSetup, bcm_tx_set_expiry, hrtimer_active
<1> QED
  BY <1>2, <1>3, <1>4 DEF BcmTxCall

LEMMA TxRemovalKeeps ==
  ASSUME BcmTypeOK, TxInv, TxRemove \/ ReleaseTx \/ bcm_release
  PROVE  TxInv'
<1>1. CASE TxRemove \/ ReleaseTx
  <2>1. /\ tx_op.state = "on" /\ bpc' \in {"idle", "rel_unreg"} /\ tx_op.currframe < tx_op.nframes
        /\ ~hrtimer_active("tx")'
    BY <1>1 DEF TxRemove, ReleaseTx, TxGoto, User, TxInv, hrtimer_cancel, hrtimer_active
  <2>2. /\ tx_op'.state \in {"deleted", "released"}
        /\ tx_op'.nframes = tx_op.nframes /\ tx_op'.currframe = tx_op.currframe
    BY <1>1 DEF TxRemove, ReleaseTx, BcmTypeOK, TxOpRec
  <2> QED
    BY <2>1, <2>2 DEF TxInv, TxSetup
<1>2. CASE bcm_release
  <2>1. /\ UNCHANGED <<tx_op, timer, cb>> /\ bpc = "idle" /\ bpc' \in {"rel_tx", "rel_unreg"}
        /\ bpc' = "rel_tx" => tx_op.state = "on"
    BY <1>2 DEF bcm_release, User
  <2> QED
    BY <2>1 DEF TxInv, TxSetup, bcm_tx_set_expiry, hrtimer_active
<1> QED
  BY <1>1, <1>2

\* The steps for the receiving operation do not concern the transmission.
LEMMA RxStepsAside ==
  ASSUME BcmTypeOK, RxStep \/ BcmRxCall \/ bcm_notify \/ BcmTime \/ Expire("rx") \/ Expire("thr"), ~ReleaseTx
  PROVE  TxAside
<1> DEFINE Idle2 == bpc \notin TxBusy /\ bpc' \notin TxBusy
           Tx == UNCHANGED tx_op /\ (hrtimer_active("tx")' <=> hrtimer_active("tx"))
<1>0. /\ "idle" \notin TxBusy /\ {"rx_unreg", "rel_unreg", "rel_put", "closed"} \cap TxBusy = {}
      /\ \A x \in RxSetup \cup RxRemoval : x \notin TxBusy
      /\ \A at : RxNext(at) \notin TxBusy
  BY NextTypes DEF TxBusy, TxSetup, RxSetup, RxRemoval
<1>1. ASSUME NEW from, NEW to, User(from, to), from \notin TxBusy, to \notin TxBusy PROVE Idle2 /\ UNCHANGED cb
  BY <1>1 DEF User
<1>2. ASSUME NEW from, NEW to, RxGoto(from, to), from \notin TxBusy, to \notin TxBusy
      PROVE  Idle2 /\ UNCHANGED <<cb, tx_op>>
  BY <1>1, <1>2 DEF RxGoto
<1>3. ASSUME UNCHANGED <<tx_op, cb>>, timer' \in {timer} \cup {timer \cup {t} : t \in {"rx", "thr"}}
                                                      \cup {timer \ {t} : t \in {"rx", "thr"}}
      PROVE  Tx
  BY <1>3 DEF hrtimer_active
<1>4. ASSUME NEW t \in {"rx", "thr"}, NEW from, NEW to, Handler(t, from, to)
      PROVE  cb'["tx"] = cb["tx"] /\ UNCHANGED <<bpc, req>>
  BY <1>4 DEF Handler, BcmTypeOK, Timers
<1>5. ASSUME NEW c \in Cpus, NEW from, NEW to, Receiving(c, from, to)
      PROVE  UNCHANGED <<bpc, req, cb, tx_op>>
  BY <1>5 DEF Receiving
<1> HIDE DEF Idle2, Tx
<1>6. CASE RxTimeout \/ RxThrottle \/ RxThrottleAgain \/ RxThrottleEnd
  <2>1. UNCHANGED <<bpc, req>> /\ cb'["tx"] = cb["tx"]
    BY <1>4, <1>6 DEF RxTimeout, RxThrottle, RxThrottleAgain, RxThrottleEnd
  <2>2. UNCHANGED tx_op /\ ("tx" \in timer' <=> "tx" \in timer)
    BY <1>6 DEF RxTimeout, RxThrottle, RxThrottleAgain, RxThrottleEnd
  <2> QED
    BY <2>1, <2>2 DEF TxAside, hrtimer_active
<1>7. CASE RxSet \/ RxIval1 \/ RxIval2 \/ RxZero
  <2>1. Idle2 /\ UNCHANGED <<cb, tx_op>>
    BY <1>0, <1>2, <1>7 DEF RxSet, RxIval1, RxIval2, RxZero, RxSetup
  <2>2. timer' \in {timer, timer \ {"rx"}}
    BY <1>7 DEF RxSet, RxIval1, RxIval2, RxZero, hrtimer_cancel
  <2>3. Tx
    BY <1>3, <2>1, <2>2
  <2> QED
    BY <2>1, <2>3 DEF TxAside, Tx, Idle2
<1>8. CASE RxLast \/ RxCancel \/ RxFlush \/ RxStart
  <2>1. Idle2 /\ UNCHANGED <<cb, tx_op>>
    BY <1>0, <1>2, <1>8 DEF RxLast, RxCancel, RxFlush, RxStart, RxSetup
  <2>2. timer' \in {timer, timer \ {"thr"}, timer \cup {"rx"}}
    BY <1>8 DEF RxLast, RxCancel, RxFlush, RxStart, hrtimer_cancel
  <2>3. Tx
    BY <1>3, <2>1, <2>2
  <2> QED
    BY <2>1, <2>3 DEF TxAside, Tx, Idle2
<1>9. CASE RxRegister \/ RxDelete
  <2>1. Idle2 /\ UNCHANGED <<cb, tx_op>>
    BY <1>0, <1>2, <1>9, Zenon DEF RxRegister, RxDelete, RxSetup, RxRemoval
  <2>2. timer' = timer
    BY <1>9, Zenon DEF RxRegister, RxDelete
  <2>3. Tx
    BY <1>3, <2>1, <2>2
  <2> QED
    BY <2>1, <2>3 DEF TxAside, Tx, Idle2
<1>10. CASE RxUnreg \/ ReleaseUnreg
  <2>1. Idle2 /\ UNCHANGED cb
    BY <1>0, <1>1, <1>10 DEF RxUnreg, ReleaseUnreg, RxRemoval
  <2>2. UNCHANGED <<tx_op, timer>>
    BY <1>10 DEF RxUnreg, ReleaseUnreg, bcm_rx_unreg
  <2>3. Tx
    BY <1>3, <2>1, <2>2
  <2> QED
    BY <2>1, <2>3 DEF TxAside, Tx, Idle2
<1>11. CASE RxRemove \/ RxRemoveThr
  <2>1. Idle2 /\ UNCHANGED cb
    BY <1>0, <1>1, <1>11 DEF RxRemove, RxRemoveThr, RxRemoval
  <2>2. UNCHANGED tx_op /\ timer' \in {timer \ {"rx"}, timer \ {"thr"}}
    BY <1>11 DEF RxRemove, RxRemoveThr, hrtimer_cancel
  <2>3. Tx
    BY <1>3, <2>1, <2>2
  <2> QED
    BY <2>1, <2>3 DEF TxAside, Tx, Idle2
<1>12. CASE ReleaseSync \/ ReleaseSynced \/ ReleasePut
  <2>1. Idle2 /\ UNCHANGED cb
    BY <1>0, <1>1, <1>12 DEF ReleaseSync, ReleaseSynced, ReleasePut, RxRemoval
  <2>2. UNCHANGED <<tx_op, timer>>
    BY <1>12 DEF ReleaseSync, ReleaseSynced, ReleasePut
  <2>3. Tx
    BY <1>3, <2>1, <2>2
  <2> QED
    BY <2>1, <2>3 DEF TxAside, Tx, Idle2
<1>13. ASSUME NEW c \in Cpus, BcmRcv(c) \/ BcmRcvCompare(c) \/ BcmRcvUpdate(c) \/ BcmRcvStart(c)
       PROVE  TxAside
  <2>1. UNCHANGED <<bpc, req, cb, tx_op>>
    BY <1>5, <1>13 DEF BcmRcv, BcmRcvCompare, BcmRcvUpdate, BcmRcvStart
  <2>2. timer' \in {timer, timer \ {"rx"}, timer \cup {"rx"}, timer \cup {"thr"}}
    BY <1>13 DEF BcmRcv, BcmRcvCompare, BcmRcvUpdate, BcmRcvStart, hrtimer_cancel
  <2>3. Tx
    BY <1>3, <2>1, <2>2
  <2> QED
    BY <2>1, <2>3 DEF TxAside, Tx
<1>14. CASE RxCreate \/ RxUpdate
  <2>1. Idle2 /\ UNCHANGED <<cb, tx_op, timer>>
    BY <1>0, <1>1, <1>14 DEF RxCreate, RxUpdate, RxSetup
  <2> QED
    BY <1>3, <2>1 DEF TxAside, Tx, Idle2
<1>15. CASE bcm_notify \/ BcmTime
  BY <1>15 DEF bcm_notify, BcmTime, bcmVars, TxAside, hrtimer_active
<1>16. CASE Expire("rx") \/ Expire("thr")
  <2>1. UNCHANGED <<bpc, req, tx_op>> /\ cb'["tx"] = cb["tx"] /\ ("tx" \in timer' <=> "tx" \in timer)
    BY <1>16 DEF Expire, BcmTypeOK, Timers
  <2> QED
    BY <2>1 DEF TxAside, hrtimer_active
<1> QED
  BY <1>6, <1>7, <1>8, <1>9, <1>10, <1>11, <1>12, <1>13, <1>14, <1>15, <1>16 DEF RxStep, BcmRxCall

LEMMA TxInvStep ==
  ASSUME CoreInv, BcmTypeOK, TxInv, BcmUses \/ BcmUsed
  PROVE  TxInv'
<1>1. CASE Expire("tx")
  <2>1. /\ UNCHANGED <<bpc, req, tx_op>> /\ "tx" \in timer /\ cb'["tx"] = "start"
    BY <1>1 DEF Expire, BcmTypeOK, Timers
  <2> QED
    BY <2>1, TxAsideKeeps DEF TxAside, hrtimer_active
<1>2. CASE TxStep \/ BcmTxCall \/ bcm_release \/ ReleaseTx
  BY <1>2, TxHandlersKeep, TxSetupKeeps, TxCallsKeep, TxRemovalKeeps DEF TxStep
<1> QED
  BY <1>1, <1>2, RxStepsAside, TxAsideKeeps DEF BcmUses, BcmUsed, BcmStep, BcmEvent, Timers

-----------------------------------------------------------------------------
(* The receiving operation. *)

\* What does not concern it: steps for the transmission.
RxAside ==
  /\ UNCHANGED <<rcv, waits, up, up_mode, rx_op, lcf, told, bh, scene>>
  /\ \A c \in Cpus : Callee(c)' = Callee(c)
  /\ cb'["thr"] = cb["thr"]
  /\ \A t \in {"rx", "thr"} : hrtimer_active(t)' <=> hrtimer_active(t)
  /\ \/ UNCHANGED <<bpc, req>>
     \/ {bpc, bpc'} \subseteq TxBusy \cup {"idle", "rel_unreg"}

RxInv == RxCtlInv /\ RxFilterInv /\ RxTimerInv /\ ThrottleInv

LEMMA RxAsideKeeps ==
  ASSUME RxInv, RxAside
  PROVE  RxInv'
<1>1. /\ UNCHANGED <<rcv, waits, up, up_mode, rx_op, lcf, told, bh, scene>>
      /\ \A c \in Cpus : Callee(c)' = Callee(c)
      /\ cb'["thr"] = cb["thr"]
      /\ \A t \in {"rx", "thr"} : hrtimer_active(t)' <=> hrtimer_active(t)
  BY DEF RxAside
<1>2. \/ UNCHANGED <<bpc, req>>
      \/ /\ {bpc, bpc'} \cap (RxSetup \cup RxRemoval \cup {"rx_unreg", "rel_put", "closed"}) = {}
  BY DEF RxAside, TxBusy, TxSetup, RxSetup, RxRemoval
<1>3. /\ bpc' \in RxRemoval <=> bpc \in RxRemoval
      /\ bpc' \in {"rel_wait", "rel_rx", "rel_rx_thr", "rx_remove_thr", "rx_flush"} => bpc' = bpc
      /\ bpc \in {"rel_wait", "rel_rx", "rel_rx_thr", "rx_remove_thr", "rx_flush"} => bpc' = bpc
  BY <1>2 DEF RxSetup, RxRemoval
<1>4. RxCtlInv'
  BY <1>1, <1>2 DEF RxInv, RxCtlInv, RxSetup
<1>5. RxFilterInv'
  <2>1. \A s \in Slots : OfRxOp(s)' <=> OfRxOp(s)
    BY <1>1 DEF OfRxOp
  <2> QED
    BY <1>1, <1>3, <2>1 DEF RxInv, RxFilterInv
<1>6. RxTimerInv'
  BY <1>1, <1>3 DEF RxInv, RxTimerInv
<1>7. ThrottleInv'
  <2>1. Told' <=> Told
    BY <1>1, <1>3 DEF Told
  <2> QED
    BY <1>1, <2>1 DEF RxInv, ThrottleInv
<1> QED
  BY <1>4, <1>5, <1>6, <1>7 DEF RxInv

LEMMA TxStepsAside ==
  ASSUME BcmTypeOK, TxStep \/ BcmTxCall \/ ReleaseTx \/ bcm_release \/ Expire("tx"), UNCHANGED scene
  PROVE  RxAside
<1> DEFINE A == UNCHANGED <<rcv, waits, up, walk, up_mode, rx_op, lcf, told, bh>>
           T == /\ cb'["thr"] = cb["thr"] /\ cb'["rx"] = cb["rx"]
                /\ timer' \in {timer, timer \ {"tx"}, timer \cup {"tx"}}
           B == \/ UNCHANGED <<bpc, req>>
                \/ {bpc, bpc'} \subseteq TxBusy \cup {"idle", "rel_unreg"}
<1>0. /\ {"idle", "tx_remove", "rel_tx", "rel_unreg"} \cup TxSetup \subseteq TxBusy \cup {"idle", "rel_unreg"}
      /\ \A at : TxNext(at) \in TxBusy \cup {"idle", "rel_unreg"}
  BY NextTypes DEF TxBusy, TxSetup
<1>1. A /\ T /\ B => RxAside
  BY DEF RxAside, Callee, hrtimer_active
<1>2. ASSUME NEW from \in TxBusy \cup {"idle", "rel_unreg"}, NEW to \in TxBusy \cup {"idle", "rel_unreg"},
             User(from, to)
      PROVE  B /\ UNCHANGED <<walk, up, up_mode, cb, bh>>
  BY <1>2 DEF User
<1>3. ASSUME NEW from \in TxBusy \cup {"idle", "rel_unreg"}, NEW to \in TxBusy \cup {"idle", "rel_unreg"},
             TxGoto(from, to)
      PROVE  A /\ B /\ UNCHANGED cb
  BY <1>2, <1>3 DEF TxGoto, TxVarsRest
<1>4. ASSUME NEW from, NEW to, Handler("tx", from, to), TxVarsRest
      PROVE  A /\ B /\ cb'["thr"] = cb["thr"] /\ cb'["rx"] = cb["rx"]
  BY <1>4 DEF Handler, TxVarsRest, rxVars, BcmTypeOK, Timers
<1> HIDE DEF A, B
<1>5. CASE TxTimeout \/ TxTimeoutSent \/ TxTimeoutExpiry
  <2>1. timer' \in {timer, timer \cup {"tx"}}
    BY <1>5 DEF TxTimeout, TxTimeoutSent, TxTimeoutExpiry
  <2> QED
    BY <1>1, <1>4, <1>5, <2>1 DEF TxTimeout, TxTimeoutSent, TxTimeoutExpiry
<1>6. CASE TxCreated \/ TxUpdateLocked \/ TxIval1 \/ TxIval2 \/ TxAnnounce \/ TxDelete
  <2>1. A /\ B /\ UNCHANGED cb
    BY <1>0, <1>3, <1>6 DEF TxCreated, TxUpdateLocked, TxIval1, TxIval2, TxAnnounce, TxDelete, TxSetup
  <2>2. UNCHANGED timer
    BY <1>6 DEF TxCreated, TxUpdateLocked, TxIval1, TxIval2, TxAnnounce, TxDelete
  <2> QED
    BY <1>1, <2>1, <2>2
<1>7. CASE TxZero \/ TxCancel \/ TxStart \/ TxRemove
  <2>1. A /\ B /\ UNCHANGED cb
    BY <1>0, <1>3, <1>7 DEF TxZero, TxCancel, TxStart, TxRemove, TxSetup
  <2>2. timer' \in {timer, timer \ {"tx"}, timer \cup {"tx"}}
    BY <1>7 DEF TxZero, TxCancel, TxStart, TxRemove, hrtimer_cancel
  <2> QED
    BY <1>1, <2>1, <2>2
<1>8. CASE TxCreate \/ TxUpdate
  <2>1. B /\ UNCHANGED <<walk, up, up_mode, cb, bh>>
    BY <1>0, <1>2, <1>8 DEF TxCreate, TxUpdate, TxSetup
  <2>2. UNCHANGED <<rcv, waits, timer, rx_op, lcf, told>>
    BY <1>8 DEF TxCreate, TxUpdate, TxVarsRest
  <2> QED
    BY <1>1, <2>1, <2>2 DEF A
<1>9. CASE ReleaseTx \/ bcm_release
  <2>1. B /\ UNCHANGED <<walk, up, up_mode, cb, bh>>
    BY <1>0, <1>2, <1>9 DEF ReleaseTx, bcm_release
  <2>2. UNCHANGED <<rcv, waits, rx_op, lcf, told>> /\ timer' \in {timer, timer \ {"tx"}}
    BY <1>9 DEF ReleaseTx, bcm_release, hrtimer_cancel
  <2> QED
    BY <1>1, <2>1, <2>2 DEF A
<1>10. CASE Expire("tx")
  BY <1>1, <1>10 DEF Expire, A, B, rxVars, BcmTypeOK, Timers
<1> QED
  BY <1>5, <1>6, <1>7, <1>8, <1>9, <1>10 DEF TxStep, BcmTxCall

-----------------------------------------------------------------------------
(* One softirq at a time. *)

LEMMA UpInvIs ==
  ASSUME BcmTypeOK, UpInv, UNCHANGED up_mode, Readers' \subseteq Readers,
         cb' \in [Timers -> CbStates], \A t \in Timers : cb'[t] # "off" => cb[t] # "off"
  PROVE  UpInv'
BY DEF UpInv

LEMMA UpInvStep ==
  ASSUME CoreInv, BcmTypeOK, UpInv, BcmUses \/ BcmUsed
  PROVE  UpInv'
<1>1. Readers' = Readers
  <2>1. {RxOp} \in SUBSET Owners
    BY BcmAssumption
  <2> QED
    BY <2>1, BcmActs, ActsWalk
<1>2. ASSUME NEW t \in Timers, Expire(t) PROVE UpInv'
  <2>1. UNCHANGED up_mode /\ (up_mode => Readers = {} /\ \A u \in Timers : cb[u] = "off")
    BY <1>2 DEF Expire, MayStart, Softirq
  <2>2. \A u \in Timers \ {t} : cb'[u] = cb[u]
    BY <1>2 DEF Expire, BcmTypeOK
  <2> QED
    BY <1>1, <2>1, <2>2 DEF UpInv
<1>3. ASSUME UNCHANGED <<up_mode, cb>> PROVE UpInv'
  BY <1>1, <1>3 DEF UpInv
<1>4. ASSUME NEW t \in Timers, NEW from \in CbStates \ {"off"}, NEW to, Handler(t, from, to) PROVE UpInv'
  <2>1. cb[t] # "off" /\ UNCHANGED up_mode /\ \A u \in Timers \ {t} : cb'[u] = cb[u]
    BY <1>4 DEF Handler, BcmTypeOK
  <2> QED
    BY <1>1, <2>1 DEF UpInv
<1>5. CASE TxTimeout \/ TxTimeoutSent \/ TxTimeoutExpiry \/ RxTimeout \/ RxThrottle \/ RxThrottleAgain \/ RxThrottleEnd
  BY <1>4, <1>5 DEF TxTimeout, TxTimeoutSent, TxTimeoutExpiry, RxTimeout, RxThrottle, RxThrottleAgain,
                    RxThrottleEnd, Timers, CbStates
<1>6. ASSUME NEW from, NEW to, User(from, to) PROVE UpInv'
  BY <1>3, <1>6 DEF User
<1>7. ASSUME NEW from, NEW to, TxGoto(from, to) \/ RxGoto(from, to) PROVE UpInv'
  BY <1>6, <1>7 DEF TxGoto, RxGoto
<1>8. CASE TxCreated \/ TxUpdateLocked \/ TxIval1 \/ TxIval2 \/ TxZero \/ TxCancel \/ TxAnnounce \/ TxStart \/ TxRemove
  BY <1>7, <1>8 DEF TxCreated, TxUpdateLocked, TxIval1, TxIval2, TxZero, TxCancel, TxAnnounce, TxStart, TxRemove
<1>9. CASE RxSet \/ RxIval1 \/ RxIval2 \/ RxZero \/ RxLast \/ RxCancel \/ RxFlush \/ RxStart
  BY <1>7, <1>9 DEF RxSet, RxIval1, RxIval2, RxZero, RxLast, RxCancel, RxFlush, RxStart
<1>10. CASE RxRegister \/ RxUnreg \/ RxRemove \/ RxRemoveThr
  BY <1>6, <1>7, <1>10, Zenon DEF RxRegister, RxUnreg, RxRemove, RxRemoveThr
<1>11. CASE ReleaseTx \/ ReleaseUnreg \/ ReleaseSync \/ ReleaseSynced \/ ReleasePut \/ bcm_release
  BY <1>6, <1>11, Zenon DEF ReleaseTx, ReleaseUnreg, ReleaseSync, ReleaseSynced, ReleasePut, bcm_release
<1>12. CASE BcmTxCall \/ BcmRxCall
  BY <1>6, <1>7, <1>12, Zenon DEF BcmTxCall, BcmRxCall, TxCreate, TxUpdate, TxDelete, RxCreate, RxUpdate, RxDelete
<1>13. ASSUME NEW c \in Cpus, NEW from, NEW to, Receiving(c, from, to) PROVE UpInv'
  BY <1>3, <1>13 DEF Receiving
<1>14. ASSUME NEW c \in Cpus, BcmRcv(c) \/ BcmRcvCompare(c) \/ BcmRcvUpdate(c) \/ BcmRcvStart(c) PROVE UpInv'
  BY <1>13, <1>14 DEF BcmRcv, BcmRcvCompare, BcmRcvUpdate, BcmRcvStart
<1>15. CASE bcm_notify \/ BcmTime
  BY <1>3, <1>15 DEF bcm_notify, BcmTime, bcmVars
<1> QED
  BY <1>2, <1>5, <1>8, <1>9, <1>10, <1>11, <1>12, <1>14, <1>15 DEF BcmUses, BcmUsed, BcmStep, TxStep, RxStep, BcmEvent

-----------------------------------------------------------------------------
(* Requests for the receiving operation. *)

\* While bcm_rx_handler() runs for it, the operation is not freed yet.
LEMMA CalleeOp ==
  ASSUME CoreInv, BcmTypeOK, RxCtlInv, RxFilterInv, NEW c \in Cpus, Callee(c) = RxOp
  PROVE  /\ rx_op.known /\ rx_op.state \notin {"none", "released"} /\ bpc \notin {"rel_rx", "rel_rx_thr"}
         /\ up_mode => rx_op.state = "on" /\ bpc \notin RxRemoval
         /\ rx_op.state = "deleted" => c \in waits[RxOp]
<1>1. RxOp # NIL
  BY CanRxAssumption, BcmAssumption
<1> DEFINE s == walk[c].at
<1>2. /\ s \in Slots /\ rcv[s].owner = RxOp
      /\ rcv[s].state = "on" \/ (rcv[s].state = "off" /\ c \in rcv[s].gp)
  BY <1>1, CalleeFacts
<1> HIDE DEF s
<1>3. rx_op.known /\ rx_op.state # "none"
  BY <1>2 DEF RxFilterInv, RxCtlInv
<1> QED
  BY <1>2, <1>3 DEF RxFilterInv, RxRemoval

LEMMA RxCtlStep ==
  ASSUME CoreInv, BcmTypeOK, RxCtlInv, RxFilterInv, UNCHANGED scene, ~ReleaseTx,
         RxStep \/ BcmTime \/ bcm_notify \/ Expire("rx") \/ Expire("thr")
         \/ (scene.part = "bcm_rx" /\ BcmRxCall)
  PROVE  RxCtlInv'
<1>0. /\ rx_op \in RxOpRec /\ lcf \in Content
      /\ \A at : RxNext(at) \in RxSetup \cup {"idle"}
      /\ \A at : RxNext(at) = "rx_register" => ~rx_op.known
      /\ "idle" \notin RxSetup \cup RxRemoval
  BY NextTypes DEF BcmTypeOK, RxNext, RxSetup, RxRemoval
<1>1. ASSUME UNCHANGED <<rx_op, bpc, req, up>>, lcf'.recv => lcf.recv PROVE RxCtlInv'
  BY <1>1 DEF RxCtlInv
<1>2. [lcf EXCEPT !.thr = FALSE].recv = lcf.recv /\ ~NoContent.recv
  BY <1>0 DEF Content, NoContent
<1>3. CASE RxTimeout \/ RxThrottle \/ RxThrottleAgain \/ RxThrottleEnd
  <2>1. UNCHANGED <<rx_op, bpc, req, up>>
    BY <1>3 DEF RxTimeout, RxThrottle, RxThrottleAgain, RxThrottleEnd, Handler, rxVars
  <2>2. lcf' \in {lcf, NoContent, [lcf EXCEPT !.thr = FALSE]}
    BY <1>3 DEF RxTimeout, RxThrottle, RxThrottleAgain, RxThrottleEnd, bcm_rx_thr_flush, bcm_rx_changed
  <2> QED
    BY <1>1, <1>2, <2>1, <2>2
<1>4. ASSUME NEW c \in Cpus, BcmRcv(c) \/ BcmRcvUpdate(c) \/ BcmRcvStart(c) PROVE RxCtlInv'
  <2>1. UNCHANGED <<rx_op, bpc, req, up>>
    BY <1>4 DEF BcmRcv, BcmRcvUpdate, BcmRcvStart, Receiving
  <2>2. lcf' \in {lcf, [lcf EXCEPT !.thr = FALSE]}
    BY <1>4 DEF BcmRcv, BcmRcvUpdate, BcmRcvStart, bcm_rx_changed
  <2> QED
    BY <1>1, <1>2, <2>1, <2>2
<1>5. ASSUME NEW c \in Cpus, BcmRcvCompare(c) PROVE RxCtlInv'
  <2>1. UNCHANGED <<rx_op, bpc, req, up>> /\ Callee(c) = RxOp
    BY <1>5 DEF BcmRcvCompare, Receiving
  <2>2. rx_op.state # "none"
    BY <2>1, CalleeOp
  <2> QED
    BY <2>1, <2>2 DEF RxCtlInv
<1>6. CASE RxSet \/ RxIval1 \/ RxIval2
  <2>1. /\ UNCHANGED <<up, lcf>> /\ bpc \in RxSetup
        /\ \E at : bpc' \in {"rx_ival2", RxNext(at)} /\ (bpc' # "idle" => req' = req)
    BY <1>6 DEF RxSet, RxIval1, RxIval2, RxGoto, User, Goes, RxSetup
  <2>2. rx_op.state = "on" /\ req \in RxReqs /\ up[BcmDev]
    BY <2>1 DEF RxCtlInv
  <2>3. rx_op'.state = rx_op.state /\ rx_op'.known = rx_op.known
    BY <1>0, <1>6 DEF RxSet, RxIval1, RxIval2, RxOpRec
  <2>4. bpc' \in RxSetup \cup {"idle"} /\ (bpc' = "rx_register" => ~rx_op.known) /\ (bpc' # "idle" => req' = req)
    BY <1>0, <2>1 DEF RxSetup
  <2> QED
    BY <1>0, <2>1, <2>2, <2>3, <2>4 DEF RxCtlInv, RxSetup, RxRemoval
<1>7. CASE RxZero \/ RxLast \/ RxCancel \/ RxFlush \/ RxStart
  <2>1. /\ UNCHANGED <<up, rx_op>> /\ bpc \in RxSetup
        /\ \E at : bpc' \in {"rx_throttle", "rx_flush", RxNext(at)} /\ (bpc' # "idle" => req' = req)
    BY <1>7 DEF RxZero, RxLast, RxCancel, RxFlush, RxStart, RxGoto, User, Goes, RxSetup
  <2>2. rx_op.state = "on" /\ req \in RxReqs /\ up[BcmDev]
    BY <2>1 DEF RxCtlInv
  <2>4. bpc' \in RxSetup \cup {"idle"} /\ (bpc' = "rx_register" => ~rx_op.known) /\ (bpc' # "idle" => req' = req)
    BY <1>0, <2>1 DEF RxSetup
  <2> QED
    BY <1>0, <2>1, <2>2, <2>4 DEF RxCtlInv, RxSetup, RxRemoval
<1>8. CASE RxRegister
  <2>1. bpc = "rx_register" /\ bpc' \in {"idle", "rx_remove"} /\ rx_op' = [rx_op EXCEPT !.known = TRUE] /\ UNCHANGED <<lcf, up>>
    BY <1>8, Zenon DEF RxRegister, RxGoto, User
  <2>2. rx_op.state = "on" /\ rx_op'.state = "on"
    BY <1>0, <2>1 DEF RxCtlInv, RxSetup, RxOpRec
  <2> QED
    BY <2>1, <2>2 DEF RxCtlInv, RxSetup, RxRemoval
<1>9. CASE RxUnreg \/ RxRemove
  <2>1. /\ UNCHANGED <<up, rx_op, lcf>> /\ bpc \in RxRemoval \cup {"rx_unreg"}
        /\ bpc' \in {"rx_remove", "rx_remove_thr", "rel_rx_thr"}
    BY <1>9 DEF RxUnreg, RxRemove, bcm_rx_unreg, User, RxRemoval
  <2> QED
    BY <2>1 DEF RxCtlInv, RxSetup, RxRemoval
<1>10. CASE RxRemoveThr
  <2>1. /\ UNCHANGED <<up, lcf>> /\ bpc \in RxRemoval /\ bpc' \in {"idle", "rel_put"}
        /\ rx_op' \in {[rx_op EXCEPT !.state = "deleted"], [rx_op EXCEPT !.state = "released"]}
    BY <1>10 DEF RxRemoveThr, User, RxRemoval
  <2>2. rx_op'.state \in {"deleted", "released"}
    BY <1>0, <2>1 DEF RxOpRec
  <2>3. rx_op.state = "on"
    BY <2>1 DEF RxCtlInv
  <2> QED
    BY <2>1, <2>2, <2>3 DEF RxCtlInv, RxSetup, RxRemoval
<1>11. CASE ReleaseUnreg \/ ReleaseSync \/ ReleaseSynced \/ ReleasePut
  <2>1. /\ UNCHANGED <<up, rx_op, lcf>>
        /\ \/ bpc \in RxRemoval /\ bpc' \in {"rel_wait", "rel_rx"}
           \/ bpc = "rel_put" /\ bpc' = "closed"
           \/ bpc' = IF rx_op.state = "on" THEN "rel_sync" ELSE "rel_put"
    BY <1>11 DEF ReleaseUnreg, ReleaseSync, ReleaseSynced, ReleasePut, bcm_rx_unreg, User, RxRemoval
  <2> QED
    BY <2>1 DEF RxCtlInv, RxSetup, RxRemoval
<1>12. CASE scene.part = "bcm_rx" /\ BcmRxCall
  <2>1. CASE RxCreate
    <3>1. up[BcmDev] /\ UNCHANGED up /\ bpc' = "rx_set" /\ UNCHANGED lcf
      BY <2>1 DEF RxCreate, User
    <3>2. PICK r \in RxReqs : req' = r /\ rx_op' = [rx_op EXCEPT !.state = "on", !.flags = r.flags]
      BY <2>1 DEF RxCreate
    <3>3. rx_op'.state = "on"
      BY <1>0, <3>2 DEF RxOpRec
    <3> QED
      BY <1>12, <3>1, <3>2, <3>3 DEF RxCtlInv, RxRemoval
  <2>2. CASE RxUpdate
    <3>1. rx_op.state = "on" /\ up[BcmDev] /\ UNCHANGED <<up, rx_op>> /\ bpc' = "rx_flags" /\ req' \in RxReqs
      BY <2>2 DEF RxUpdate, User
    <3> QED
      BY <1>12, <3>1 DEF RxCtlInv, RxRemoval
  <2>3. CASE RxDelete
    <3>1. rx_op.state = "on" /\ UNCHANGED up /\ bpc' = "rx_unreg" /\ rx_op'.state = rx_op.state
      BY <1>0, <2>3 DEF RxDelete, RxGoto, User, RxOpRec
    <3> QED
      BY <1>12, <3>1 DEF RxCtlInv, RxSetup, RxRemoval
  <2> QED
    BY <1>12, <2>1, <2>2, <2>3 DEF BcmRxCall
<1>13. CASE bcm_notify
  <2>1. UNCHANGED <<rx_op, req, bpc, lcf>> /\ bpc = "idle"
    BY <1>13 DEF bcm_notify, bcmVars
  <2> QED
    BY <1>0, <2>1 DEF RxCtlInv
<1>14. CASE BcmTime \/ Expire("rx") \/ Expire("thr")
  BY <1>1, <1>14 DEF BcmTime, Expire, rxVars
<1> QED
  BY <1>3, <1>4, <1>5, <1>6, <1>7, <1>8, <1>9, <1>10, <1>11, <1>12, <1>13, <1>14 DEF RxStep

-----------------------------------------------------------------------------
(* Its receiver. *)

LEMMA FilterFrame ==
  ASSUME RxFilterInv, UNCHANGED <<rcv, waits, up, up_mode>>,
         rx_op'.state = rx_op.state, rx_op'.known = rx_op.known,
         bpc' \in RxRemoval => bpc \in RxRemoval,
         bpc' = "rel_wait" => bpc = "rel_wait",
         bpc' \in {"rel_rx", "rel_rx_thr"} => bpc \in {"rel_rx", "rel_rx_thr"}
  PROVE  RxFilterInv'
<1>1. \A s \in Slots : OfRxOp(s)' <=> OfRxOp(s)
  BY DEF OfRxOp
<1> QED
  BY <1>1 DEF RxFilterInv

\* A receiver of rx_op is linked or unlinked.
LEMMA RxSlots ==
  ASSUME CoreInv, NEW s \in Slots, rcv[s].owner = RxOp
  PROVE  /\ rcv[s].state \in {"on", "off"} /\ rcv[s].gp \subseteq Readers
         /\ rcv[s].state = "off" => rcv[s].gp # {}
<1>1. RxOp # NIL
  BY CanRxAssumption, BcmAssumption
<1>2. rcv[s].state \in {"free", "on", "off"}
  BY DEF CoreInv, CoreTypeOK, RcvRec
<1>3. SlotOK(s)
  BY DEF CoreInv, ListInv
<1> QED
  BY <1>1, <1>2, <1>3 DEF SlotOK, Free

\* can_rx_register(), for an operation that was not known.
LEMMA Registered ==
  ASSUME CoreInv, RxFilterInv, ~rx_op.known, can_rx_register(BcmDev, BcmFilter, RxOp)
  PROVE  \A s \in Slots : rcv'[s].owner = RxOp =>
           rcv'[s].state = "on" /\ OfRxOp(s)' /\ \A t \in Slots : OfRxOp(t)' => s = t
<1>1. BcmDev \in AnyDev /\ BcmFilter \in CanFilters /\ RxOp \in Owners
  BY BcmAssumption DEF AnyDev
<1>2. PICK s \in Slots : Links(s, BcmDev, BcmFilter, RxOp)
  BY <1>1, RegisterLinks
<1>3. rcv \in [Slots -> RcvRec] /\ rcv' = [rcv EXCEPT ![s] = New(BcmDev, BcmFilter, RxOp)]
  BY <1>2 DEF Links, CoreInv, CoreTypeOK
<1>4. \A t \in Slots \ {s} : rcv'[t] = rcv[t] /\ rcv[t].owner # RxOp
  BY <1>3 DEF RxFilterInv
<1>5. OfRxOp(s)'
  BY <1>3 DEF OfRxOp, New
<1> QED
  BY <1>4, <1>5 DEF OfRxOp

\* bcm_rx_unreg(), or the same of bcm_notify(): no receiver stays linked.
LEMMA Unregistered ==
  ASSUME CoreInv, RxCtlInv, RxFilterInv,
         IF up[BcmDev] THEN can_rx_unregister(BcmDev, BcmFilter, RxOp) ELSE UNCHANGED rcv
  PROVE  \A s \in Slots : rcv'[s].owner = RxOp =>
           /\ rcv'[s].state = "off" /\ rcv[s].owner = RxOp
           /\ \/ rcv[s].state = "off" /\ rcv'[s].gp = rcv[s].gp
              \/ rcv[s].state = "on" /\ rcv'[s].gp = Readers /\ Readers # {}
<1> DEFINE found == Found(BcmDev, BcmFilter, RxOp)
<1>1. /\ BcmDev \in AnyDev /\ BcmFilter \in CanFilters /\ RxOp \in Owners /\ RxOp # NIL
  BY CanRxAssumption, BcmAssumption DEF AnyDev
<1>2. \A s \in Slots : s \in found <=> OfRxOp(s)
  BY DEF Found, OnList, On, OfRxOp
<1>3. \A s \in Slots : rcv[s].owner = RxOp /\ rcv[s].state = "on" => OfRxOp(s) /\ up[BcmDev]
  BY DEF RxFilterInv
<1>4. \A s, t \in Slots : OfRxOp(s) /\ OfRxOp(t) => s = t
  BY DEF RxFilterInv, OfRxOp
<1>5. CASE ~up[BcmDev]
  BY <1>3, <1>5, RxSlots
<1>6. CASE up[BcmDev] /\ found = {}
  <2>1. UNCHANGED rcv
    BY <1>6 DEF can_rx_unregister
  <2> QED
    BY <1>2, <1>3, <1>6, <2>1, RxSlots
<1>7. CASE up[BcmDev] /\ found # {}
  <2>1. can_rx_unregister(BcmDev, BcmFilter, RxOp)
    BY <1>7
  <2>2. PICK s \in found : Unlinks(s)
    BY <1>7, <2>1, UnregisterUnlinks
  <2>3. s \in Slots /\ OfRxOp(s)
    BY <1>2 DEF Found, OnList, On
  <2>4. rcv \in [Slots -> RcvRec] /\ rcv[s] \in RcvRec
    BY <2>3 DEF CoreInv, CoreTypeOK
  <2>5. IF Readers = {} THEN rcv'[s].owner = NIL ELSE rcv'[s].state = "off" /\ rcv'[s].gp = Readers
    BY <2>2, <2>3, <2>4, FreeType DEF Unlinks, RcvRec
  <2>6. ASSUME NEW x \in Slots \ {s}
        PROVE  rcv'[x].owner = rcv[x].owner /\ rcv'[x].state = rcv[x].state /\ rcv'[x].gp = rcv[x].gp
    <3>1. rcv[x] \in RcvRec
      BY <2>4
    <3> QED
      BY <2>2, <3>1 DEF Unlinks, RcvRec
  <2>7. \A x \in Slots \ {s} : rcv[x].owner = RxOp => rcv[x].state = "off"
    BY <1>3, <1>4, <2>3, RxSlots
  <2>8. rcv[s].owner = RxOp /\ rcv[s].state = "on"
    BY <2>3 DEF OfRxOp
  <2> QED
    BY <1>1, <2>3, <2>5, <2>6, <2>7, <2>8
<1> QED
  BY <1>5, <1>6, <1>7

LEMMA RxFilterStep ==
  ASSUME CoreInv, BcmTypeOK, RxCtlInv, RxFilterInv, ~ReleaseTx,
         RxStep \/ BcmRxCall \/ BcmTime \/ bcm_notify \/ Expire("rx") \/ Expire("thr")
  PROVE  RxFilterInv'
<1>0. /\ rx_op \in RxOpRec /\ \A at : RxNext(at) \in RxSetup \cup {"idle"}
      /\ \A x \in RxSetup \cup {"idle", "rx_unreg"} :
           x \notin RxRemoval /\ x \notin {"rel_wait", "rel_rx", "rel_rx_thr"}
  BY NextTypes DEF BcmTypeOK, RxSetup, RxRemoval
<1>1. ASSUME BcmStill, UNCHANGED <<up_mode, bpc, rx_op>> PROVE RxFilterInv'
  BY <1>1, FilterFrame DEF BcmStill
<1>2. ASSUME BcmStill, UNCHANGED up_mode, rx_op'.state = rx_op.state, rx_op'.known = rx_op.known,
             bpc' \in RxSetup \cup {"idle", "rx_unreg"}
      PROVE  RxFilterInv'
  BY <1>0, <1>2, FilterFrame DEF BcmStill
<1>3. CASE RxTimeout \/ RxThrottle \/ RxThrottleAgain \/ RxThrottleEnd
  <2>1. BcmStill
    BY <1>3, BcmQuiet
  <2>2. UNCHANGED <<up_mode, bpc, rx_op>>
    BY <1>3 DEF RxTimeout, RxThrottle, RxThrottleAgain, RxThrottleEnd, Handler
  <2> QED
    BY <1>1, <2>1, <2>2
<1>4. ASSUME NEW c \in Cpus, BcmRcv(c) \/ BcmRcvCompare(c) \/ BcmRcvUpdate(c) \/ BcmRcvStart(c)
      PROVE  RxFilterInv'
  <2>1. UNCHANGED <<rcv, waits, up, up_mode, bpc, rx_op>>
    BY <1>4 DEF BcmRcv, BcmRcvCompare, BcmRcvUpdate, BcmRcvStart, Receiving
  <2> QED
    BY <2>1, FilterFrame
<1>5. CASE RxSet \/ RxIval1 \/ RxIval2
  <2>1. BcmStill
    BY <1>5, BcmQuiet
  <2>2. UNCHANGED up_mode /\ \E at : bpc' \in {"rx_ival2", RxNext(at)}
    BY <1>5 DEF RxSet, RxIval1, RxIval2, RxGoto, User
  <2>3. rx_op'.state = rx_op.state /\ rx_op'.known = rx_op.known
    BY <1>0, <1>5 DEF RxSet, RxIval1, RxIval2, RxOpRec
  <2>4. bpc' \in RxSetup \cup {"idle", "rx_unreg"}
    BY <1>0, <2>2 DEF RxSetup
  <2> QED
    BY <1>2, <2>1, <2>2, <2>3, <2>4
<1>6. CASE RxZero \/ RxLast \/ RxCancel \/ RxFlush \/ RxStart
  <2>1. BcmStill
    BY <1>6, BcmQuiet
  <2>2. UNCHANGED <<up_mode, rx_op>> /\ \E at : bpc' \in {"rx_throttle", "rx_flush", RxNext(at)}
    BY <1>6 DEF RxZero, RxLast, RxCancel, RxFlush, RxStart, RxGoto, User
  <2>3. bpc' \in RxSetup \cup {"idle", "rx_unreg"}
    BY <1>0, <2>2 DEF RxSetup
  <2> QED
    BY <1>2, <2>1, <2>2, <2>3
<1>7. CASE RxRegister
  <2>1. /\ bpc = "rx_register" /\ rx_op' = [rx_op EXCEPT !.known = TRUE]
        /\ UNCHANGED <<waits, up, up_mode>>
        /\ \/ can_rx_register(BcmDev, BcmFilter, RxOp) /\ bpc' = "idle"
           \/ UNCHANGED rcv
    BY <1>7, Zenon DEF RxRegister, RxGoto, User
  <2>2. rx_op.state = "on" /\ up[BcmDev] /\ ~rx_op.known
    BY <2>1 DEF RxCtlInv, RxSetup
  <2>3. rx_op'.state = "on" /\ rx_op'.known
    BY <1>0, <2>1, <2>2 DEF RxOpRec
  <2>4. CASE can_rx_register(BcmDev, BcmFilter, RxOp) /\ bpc' = "idle"
    <3>1. \A s \in Slots : rcv'[s].owner = RxOp =>
            rcv'[s].state = "on" /\ OfRxOp(s)' /\ \A t \in Slots : OfRxOp(t)' => s = t
      BY <2>2, <2>4, Registered
    <3> QED
      BY <1>0, <2>1, <2>2, <2>3, <2>4, <3>1 DEF RxFilterInv
  <2>5. CASE UNCHANGED rcv
    BY <2>2, <2>5 DEF RxFilterInv
  <2> QED
    BY <2>1, <2>4, <2>5
<1>8. CASE RxUnreg \/ ReleaseUnreg \/ bcm_notify
  <2>1. /\ UNCHANGED <<waits, up_mode, rx_op>> /\ MayStart
        /\ bpc' \in {"idle", "rx_remove", "rel_sync", "rel_put"}
        /\ IF up[BcmDev] THEN can_rx_unregister(BcmDev, BcmFilter, RxOp) ELSE UNCHANGED rcv
    BY <1>8, Zenon DEF RxUnreg, ReleaseUnreg, bcm_notify, bcm_rx_unreg, bcmVars, User
  <2>2. /\ bpc' = "rel_put" => rx_op.state # "on"
        /\ bpc = "rel_wait" \/ bpc \in {"rel_rx", "rel_rx_thr"} => FALSE
    BY <1>8 DEF RxUnreg, ReleaseUnreg, bcm_notify, bcmVars, User
  <2>3. \A s \in Slots : rcv'[s].owner = RxOp =>
           /\ rcv'[s].state = "off" /\ rcv[s].owner = RxOp
           /\ \/ rcv[s].state = "off" /\ rcv'[s].gp = rcv[s].gp
              \/ rcv[s].state = "on" /\ rcv'[s].gp = Readers /\ Readers # {}
    BY <2>1, Unregistered
  <2>4. up_mode => Readers = {}
    BY <2>1 DEF MayStart, Softirq
  <2>5. ASSUME NEW s \in Slots, rcv'[s].owner = RxOp
        PROVE  /\ rx_op.known /\ rcv'[s].state = "off" /\ ~up_mode /\ rx_op.state # "released"
               /\ rx_op.state = "deleted" => rcv'[s].gp \subseteq waits[RxOp]
    <3>1. /\ rcv'[s].state = "off" /\ rcv[s].owner = RxOp
          /\ \/ rcv[s].state = "off" /\ rcv'[s].gp = rcv[s].gp
             \/ rcv[s].state = "on" /\ rcv'[s].gp = Readers /\ Readers # {}
      BY <2>3, <2>5
    <3> QED
      BY <2>4, <3>1 DEF RxFilterInv
  <2>6. bpc' # "rel_wait" /\ bpc' \notin {"rel_rx", "rel_rx_thr"}
    BY <2>1
  <2> QED
    BY <2>1, <2>5, <2>6 DEF RxFilterInv
<1>9. CASE RxRemove
  <2>1. BcmStill
    BY <1>9, BcmQuiet
  <2>2. /\ UNCHANGED <<up_mode, rx_op>>
        /\ \/ bpc = "rx_remove" /\ bpc' = "rx_remove_thr"
           \/ bpc = "rel_rx" /\ bpc' = "rel_rx_thr"
    BY <1>9 DEF RxRemove, User
  <2> QED
    BY <2>1, <2>2, FilterFrame DEF BcmStill, RxRemoval
<1>10. CASE RxRemoveThr
  <2>1. /\ UNCHANGED <<rcv, up, up_mode>> /\ waits' = [waits EXCEPT ![RxOp] = Readers]
        /\ \/ bpc = "rx_remove_thr" /\ bpc' = "idle" /\ rx_op' = [rx_op EXCEPT !.state = "deleted"]
           \/ bpc = "rel_rx_thr" /\ bpc' = "rel_put" /\ rx_op' = [rx_op EXCEPT !.state = "released"]
    BY <1>10 DEF RxRemoveThr, User
  <2>2. waits'[RxOp] = Readers
    BY <2>1, BcmAssumption DEF CoreInv, CoreTypeOK
  <2>3. /\ rx_op'.known = rx_op.known /\ (bpc = "rx_remove_thr" => rx_op'.state = "deleted")
    BY <1>0, <2>1 DEF RxOpRec
  <2>4. ASSUME NEW s \in Slots, rcv[s].owner = RxOp
        PROVE  /\ rx_op.known /\ rcv[s].state = "off" /\ ~up_mode /\ bpc # "rel_rx_thr"
               /\ rcv[s].gp \subseteq Readers
    <3>1. bpc \in RxRemoval
      BY <2>1 DEF RxRemoval
    <3> QED
      BY <2>4, <3>1, RxSlots DEF RxFilterInv
  <2> QED
    BY <2>1, <2>2, <2>3, <2>4 DEF RxFilterInv
<1>11. CASE ReleaseSync
  <2>1. /\ UNCHANGED <<rcv, up, up_mode, rx_op>> /\ waits' = [waits EXCEPT ![Sync] = Readers]
        /\ bpc = "rel_sync" /\ bpc' = "rel_wait"
    BY <1>11 DEF ReleaseSync, User, SyncWaits
  <2>2. waits'[Sync] = Readers
    BY <2>1, BcmAssumption DEF CoreInv, CoreTypeOK
  <2>3. rx_op.state = "on"
    BY <2>1 DEF RxCtlInv, RxRemoval
  <2>4. ASSUME NEW s \in Slots, rcv[s].owner = RxOp
        PROVE  rx_op.known /\ rcv[s].state = "off" /\ ~up_mode /\ rcv[s].gp \subseteq Readers
    <3>1. bpc \in RxRemoval
      BY <2>1 DEF RxRemoval
    <3> QED
      BY <2>4, <3>1, RxSlots DEF RxFilterInv
  <2> QED
    BY <2>1, <2>2, <2>3, <2>4 DEF RxFilterInv
<1>12. CASE ReleaseSynced
  <2>1. UNCHANGED <<rcv, rx_op>> /\ waits[Sync] = {} /\ bpc = "rel_wait"
    BY <1>12 DEF ReleaseSynced, User
  <2>2. ASSUME NEW s \in Slots, rcv[s].owner = RxOp PROVE FALSE
    <3>1. bpc \in RxRemoval
      BY <2>1 DEF RxRemoval
    <3>2. rcv[s].state = "off" /\ rcv[s].gp \subseteq {} /\ rcv[s].gp # {}
      BY <2>1, <2>2, <3>1, RxSlots DEF RxFilterInv
    <3> QED
      BY <3>2
  <2> QED
    BY <2>1, <2>2 DEF RxFilterInv
<1>13. CASE ReleasePut
  <2>1. BcmStill
    BY <1>13, BcmQuiet
  <2>2. UNCHANGED <<up_mode, rx_op>> /\ bpc' = "closed"
    BY <1>13 DEF ReleasePut, User
  <2> QED
    BY <2>1, <2>2, FilterFrame DEF BcmStill, RxRemoval
<1>14. CASE BcmRxCall
  <2>1. BcmStill
    BY <1>14, BcmQuiet
  <2>2. UNCHANGED up_mode /\ bpc' \in RxSetup \cup {"idle", "rx_unreg"}
    BY <1>14 DEF BcmRxCall, RxCreate, RxUpdate, RxDelete, RxGoto, User, RxSetup
  <2>3. CASE RxCreate
    <3>1. rx_op.state = "none" /\ ~rx_op.known
      BY <2>3 DEF RxCreate, RxCtlInv
    <3> QED
      BY <2>1, <3>1 DEF BcmStill, RxFilterInv
  <2>4. CASE RxUpdate \/ RxDelete
    <3>1. rx_op'.state = rx_op.state /\ rx_op'.known = rx_op.known
      BY <1>0, <2>4 DEF RxUpdate, RxDelete, RxOpRec
    <3> QED
      BY <1>2, <2>1, <2>2, <3>1
  <2> QED
    BY <1>14, <2>3, <2>4 DEF BcmRxCall
<1>15. CASE BcmTime \/ Expire("rx") \/ Expire("thr")
  <2>1. BcmStill
    BY <1>15, BcmQuiet DEF Timers
  <2>2. UNCHANGED <<up_mode, bpc, rx_op>>
    BY <1>15 DEF BcmTime, Expire
  <2> QED
    BY <1>1, <2>1, <2>2
<1> QED
  BY <1>3, <1>4, <1>5, <1>6, <1>7, <1>8, <1>9, <1>10, <1>11, <1>12, <1>13, <1>14, <1>15 DEF RxStep

-----------------------------------------------------------------------------
(* Its timers. *)

LEMMA CalleesStay ==
  ASSUME CoreInv, UNCHANGED walk,
         \/ can_rx_register(BcmDev, BcmFilter, RxOp) \/ can_rx_unregister(BcmDev, BcmFilter, RxOp)
         \/ UNCHANGED rcv
  PROVE  \A c \in Cpus : Callee(c)' = Callee(c)
<1>1. BcmDev \in AnyDev /\ BcmFilter \in CanFilters /\ RxOp \in {RxOp} /\ {RxOp} \in SUBSET Owners
  BY BcmAssumption DEF AnyDev
<1>2. CASE can_rx_register(BcmDev, BcmFilter, RxOp)
  <2>1. LinksFor({RxOp})
    BY <1>1, <1>2, Zenon DEF LinksFor
  <2> QED
    BY <1>1, <2>1, LinksOthers
<1>3. CASE can_rx_unregister(BcmDev, BcmFilter, RxOp)
  <2>1. UnlinksFor({RxOp})
    BY <1>1, <1>3, Zenon DEF UnlinksFor
  <2> QED
    BY <1>1, <2>1, UnlinksOthers
<1>4. CASE UNCHANGED rcv
  BY <1>4 DEF Callee
<1> QED
  BY <1>2, <1>3, <1>4

LEMMA TimerFrame ==
  ASSUME RxTimerInv, UNCHANGED <<up_mode, bh>>, \A c \in Cpus : Callee(c)' = Callee(c),
         rx_op'.state = rx_op.state,
         bpc' \in {"rx_remove_thr", "rel_rx_thr"} => bpc' = bpc,
         hrtimer_active("rx")' => hrtimer_active("rx"),
         hrtimer_active("thr")' => hrtimer_active("thr")
  PROVE  RxTimerInv'
BY DEF RxTimerInv

LEMMA RxTimerStep ==
  ASSUME CoreInv, BcmTypeOK, RxCtlInv, RxFilterInv, RxTimerInv, ~ReleaseTx,
         RxStep \/ BcmRxCall \/ BcmTime \/ bcm_notify \/ Expire("rx") \/ Expire("thr")
  PROVE  RxTimerInv'
<1> DEFINE Pc == bpc' \in {"rx_remove_thr", "rel_rx_thr"} => bpc' = bpc
           Less == /\ hrtimer_active("rx")' => hrtimer_active("rx")
                   /\ hrtimer_active("thr")' => hrtimer_active("thr")
           Calm == UNCHANGED <<up_mode, bh>> /\ \A c \in Cpus : Callee(c)' = Callee(c)
<1>0. /\ rx_op \in RxOpRec /\ \A at : RxNext(at) \in RxSetup \cup {"idle"}
      /\ \A x \in RxSetup \cup {"idle", "rx_unreg"} : x \notin {"rx_remove_thr", "rel_rx_thr"}
      /\ \A t \in {"rx", "thr"} : t \in Timers
  BY NextTypes DEF BcmTypeOK, RxSetup, Timers
<1>1. ASSUME Calm, Pc, Less, rx_op'.state = rx_op.state PROVE RxTimerInv'
  BY <1>1, TimerFrame
<1>2. ASSUME UNCHANGED <<up_mode, bh, walk, rcv>> PROVE Calm
  BY <1>2, CalleesStay
<1>3. ASSUME UNCHANGED cb, timer' \subseteq timer PROVE Less
  BY <1>3 DEF hrtimer_active
<1>4. ASSUME NEW from, NEW to, RxGoto(from, to) PROVE UNCHANGED <<up_mode, bh, walk, cb>> /\ bpc' = to
  BY <1>4 DEF RxGoto, User
<1> HIDE DEF Pc, Less, Calm
<1>5. CASE RxTimeout \/ RxThrottle \/ RxThrottleAgain \/ RxThrottleEnd
  <2>1. UNCHANGED <<up_mode, bh, walk, rcv, bpc, rx_op>>
    BY <1>5 DEF RxTimeout, RxThrottle, RxThrottleAgain, RxThrottleEnd, Handler, rxVars
  <2>2. CASE RxTimeout
    <3>1. timer' = timer /\ cb["rx"] # "off" /\ cb'["thr"] = cb["thr"]
      BY <1>0, <2>2 DEF RxTimeout, Handler, BcmTypeOK
    <3>2. Less
      BY <3>1 DEF Less, hrtimer_active
    <3> QED
      BY <1>1, <1>2, <2>1, <3>2 DEF Pc
  <2>3. CASE RxThrottle \/ RxThrottleAgain \/ RxThrottleEnd
    <3>1. timer' \subseteq timer \cup {"thr"} /\ cb["thr"] # "off" /\ cb'["rx"] = cb["rx"]
      BY <1>0, <2>3 DEF RxThrottle, RxThrottleAgain, RxThrottleEnd, Handler, BcmTypeOK
    <3>2. Less
      BY <3>1 DEF Less, hrtimer_active
    <3> QED
      BY <1>1, <1>2, <2>1, <3>2 DEF Pc
  <2> QED
    BY <1>5, <2>2, <2>3
<1>6. ASSUME NEW c \in Cpus, BcmRcv(c) \/ BcmRcvCompare(c) \/ BcmRcvUpdate(c) \/ BcmRcvStart(c)
      PROVE  RxTimerInv'
  <2>1. PICK from, to \in BhStates : Receiving(c, from, to)
    BY <1>6 DEF BcmRcv, BcmRcvCompare, BcmRcvUpdate, BcmRcvStart, BhStates
  <2>2. /\ UNCHANGED <<up_mode, rx_op, bpc, cb, rcv>>
        /\ Callee(c) = RxOp /\ bh'[c] = to /\ \A d \in Cpus \ {c} : bh'[d] = bh[d]
    BY <2>1, ReceivingTypes
  <2>3. ASSUME NEW d \in Cpus, bh'[d] # "none" PROVE Callee(d)' = RxOp
    <3>1. CASE d = c
      <4>1. to # "none"
        BY <2>2, <2>3, <3>1
      <4>2. UNCHANGED walk
        BY <2>1, <4>1 DEF Receiving
      <4> QED
        BY <2>2, <3>1, <4>2 DEF Callee
    <3>2. CASE d # c
      <4>1. walk'[d] = walk[d]
        BY <2>1, <3>2 DEF Receiving, Returned, CoreInv, CoreTypeOK
      <4> QED
        BY <2>2, <2>3, <3>2, <4>1 DEF Callee, RxTimerInv
    <3> QED
      BY <3>1, <3>2
  <2>4. /\ rx_op.state \notin {"none", "released"} /\ bpc \notin {"rel_rx", "rel_rx_thr"}
        /\ up_mode => rx_op.state = "on" /\ bpc \notin RxRemoval
    BY <2>2, CalleeOp
  <2> QED
    BY <2>2, <2>3, <2>4 DEF RxTimerInv, RxRemoval
<1>7. CASE RxSet \/ RxIval1 \/ RxIval2
  <2>1. UNCHANGED <<up_mode, bh, walk, cb>> /\ \E at : bpc' \in {"rx_ival2", RxNext(at)}
    BY <1>4, <1>7 DEF RxSet, RxIval1, RxIval2
  <2>2. UNCHANGED <<rcv, timer>>
    BY <1>7 DEF RxSet, RxIval1, RxIval2
  <2>3. rx_op'.state = rx_op.state
    BY <1>0, <1>7 DEF RxSet, RxIval1, RxIval2, RxOpRec
  <2>4. Pc
    BY <1>0, <2>1 DEF Pc
  <2> QED
    BY <1>1, <1>2, <1>3, <2>1, <2>2, <2>3, <2>4
<1>8. CASE RxZero \/ RxLast \/ RxCancel \/ RxFlush
  <2>1. UNCHANGED <<up_mode, bh, walk, cb>> /\ \E at : bpc' \in {"rx_throttle", "rx_flush", RxNext(at)}
    BY <1>4, <1>8 DEF RxZero, RxLast, RxCancel, RxFlush
  <2>2. UNCHANGED <<rcv, rx_op>> /\ timer' \subseteq timer
    BY <1>8 DEF RxZero, RxLast, RxCancel, RxFlush, hrtimer_cancel
  <2>4. Pc
    BY <1>0, <2>1 DEF Pc
  <2> QED
    BY <1>1, <1>2, <1>3, <2>1, <2>2, <2>4
<1>9. CASE RxStart
  <2>1. UNCHANGED <<up_mode, bh, walk, rcv, cb, rx_op>> /\ bpc = "rx_start" /\ \E at : bpc' = RxNext(at)
    BY <1>9 DEF RxStart, RxGoto, User
  <2>2. rx_op.state = "on"
    BY <2>1 DEF RxCtlInv, RxSetup
  <2>3. bpc' \notin {"rx_remove_thr", "rel_rx_thr"}
    BY <1>0, <2>1
  <2>4. Calm
    BY <1>2, <2>1
  <2> QED
    BY <2>1, <2>2, <2>3, <2>4 DEF RxTimerInv, Calm
<1>10. CASE RxRegister
  <2>1. /\ UNCHANGED <<up_mode, bh, walk, cb, timer>> /\ bpc' \in {"idle", "rx_remove"}
        /\ rx_op' = [rx_op EXCEPT !.known = TRUE]
        /\ can_rx_register(BcmDev, BcmFilter, RxOp) \/ UNCHANGED rcv
    BY <1>10, Zenon DEF RxRegister, RxGoto, User
  <2>2. rx_op'.state = rx_op.state
    BY <1>0, <2>1 DEF RxOpRec
  <2>3. Calm
    BY <2>1, CalleesStay DEF Calm
  <2> QED
    BY <1>1, <1>3, <2>1, <2>2, <2>3 DEF Pc
<1>11. CASE RxUnreg \/ ReleaseUnreg \/ bcm_notify
  <2>1. /\ UNCHANGED <<up_mode, bh, walk, cb, timer, rx_op>>
        /\ bpc' \in {"rx_remove", "rel_sync", "rel_put"} \/ bpc' = bpc
        /\ can_rx_unregister(BcmDev, BcmFilter, RxOp) \/ UNCHANGED rcv
    BY <1>11, Zenon DEF RxUnreg, ReleaseUnreg, bcm_notify, bcm_rx_unreg, bcmVars, User
  <2>2. Calm
    BY <2>1, CalleesStay DEF Calm
  <2> QED
    BY <1>1, <1>3, <2>1, <2>2 DEF Pc
<1>12. CASE RxRemove
  <2>1. /\ UNCHANGED <<up_mode, bh, walk, rcv, cb, rx_op>> /\ bpc \in RxRemoval
        /\ cb["rx"] = "off" /\ timer' = timer \ {"rx"}
    BY <1>12 DEF RxRemove, User, hrtimer_cancel, RxRemoval
  <2>2. rx_op.state = "on"
    BY <2>1 DEF RxCtlInv
  <2>3. Calm /\ ~hrtimer_active("rx")'
    BY <1>2, <2>1 DEF hrtimer_active
  <2> QED
    BY <2>1, <2>2, <2>3 DEF RxTimerInv, Calm
<1>13. CASE RxRemoveThr
  <2>1. /\ UNCHANGED <<up_mode, bh, walk, rcv, cb>> /\ cb["thr"] = "off" /\ timer' = timer \ {"thr"}
        /\ \/ bpc = "rx_remove_thr" /\ bpc' = "idle" /\ rx_op' = [rx_op EXCEPT !.state = "deleted"]
           \/ bpc = "rel_rx_thr" /\ bpc' = "rel_put" /\ rx_op' = [rx_op EXCEPT !.state = "released"]
    BY <1>13 DEF RxRemoveThr, User, hrtimer_cancel
  <2>2. Calm /\ ~hrtimer_active("thr")' /\ (hrtimer_active("rx")' => hrtimer_active("rx"))
    BY <1>2, <2>1 DEF hrtimer_active
  <2>3. bpc = "rx_remove_thr" => rx_op'.state = "deleted"
    BY <1>0, <2>1 DEF RxOpRec
  <2> QED
    BY <2>1, <2>2, <2>3 DEF RxTimerInv, Calm
<1>14. CASE ReleaseSync \/ ReleaseSynced \/ ReleasePut
  <2>1. /\ UNCHANGED <<up_mode, bh, walk, rcv, cb, timer, rx_op>> /\ bpc' \in {"rel_wait", "rel_rx", "closed"}
    BY <1>14 DEF ReleaseSync, ReleaseSynced, ReleasePut, User
  <2> QED
    BY <1>1, <1>2, <1>3, <2>1 DEF Pc
<1>15. CASE BcmRxCall
  <2>1. /\ UNCHANGED <<up_mode, bh, walk, rcv, cb, timer>> /\ bpc' \in {"rx_set", "rx_flags", "rx_unreg"}
    BY <1>15 DEF BcmRxCall, RxCreate, RxUpdate, RxDelete, RxGoto, User
  <2>2. rx_op'.state \in {rx_op.state, "on"}
    BY <1>0, <1>15 DEF BcmRxCall, RxCreate, RxUpdate, RxDelete, RxOpRec
  <2>3. Calm /\ Less
    BY <1>2, <1>3, <2>1
  <2> QED
    BY <2>1, <2>2, <2>3 DEF RxTimerInv, Calm, Less
<1>16. CASE BcmTime \/ Expire("rx") \/ Expire("thr")
  <2>1. UNCHANGED <<up_mode, bh, walk, rcv, bpc, rx_op>>
    BY <1>16 DEF BcmTime, Expire, rxVars
  <2>2. Less
    BY <1>16 DEF BcmTime, Expire, Less, hrtimer_active, BcmTypeOK, Timers
  <2> QED
    BY <1>1, <1>2, <2>1, <2>2 DEF Pc
<1> QED
  BY <1>5, <1>6, <1>7, <1>8, <1>9, <1>10, <1>11, <1>12, <1>13, <1>14, <1>15, <1>16 DEF RxStep

-----------------------------------------------------------------------------
(* Throttling, on one processor. *)

LEMMA NoUpdate ==
  ASSUME CoreInv, RxTimerInv, Readers = {}
  PROVE  \A c \in Cpus : bh[c] # "update"
BY BcmCallee DEF RxTimerInv

\* A user runs while no softirq does.
LEMMA ThrottleUser ==
  ASSUME CoreInv, BcmTypeOK, RxTimerInv, ThrottleInv, MayStart, UNCHANGED <<up_mode, cb, bh>>,
         up_mode /\ rx_op.state = "on" /\ Told /\ rx_op'.state = "on" => Told',
         up_mode /\ rx_op.state # "on" /\ rx_op'.state = "on" => Told'
  PROVE  ThrottleInv'
<1>1. up_mode => Readers = {} /\ cb["thr"] = "off"
  BY DEF MayStart, Softirq, Timers
<1>2. up_mode => \A c \in Cpus : bh[c] # "update"
  BY <1>1, NoUpdate
<1> QED
  BY <1>1, <1>2 DEF ThrottleInv

LEMMA ThrottleUsers ==
  ASSUME CoreInv, BcmTypeOK, RxCtlInv, RxTimerInv, ThrottleInv,
         \/ RxSet \/ RxIval1 \/ RxIval2 \/ RxZero \/ RxLast \/ RxCancel \/ RxFlush \/ RxStart
         \/ RxRegister \/ RxUnreg \/ RxRemove \/ RxRemoveThr
         \/ ReleaseUnreg \/ ReleaseSync \/ ReleaseSynced \/ ReleasePut \/ BcmRxCall \/ bcm_notify
  PROVE  ThrottleInv'
<1>0. rx_op \in RxOpRec /\ lcf \in Content
  BY DEF BcmTypeOK
<1>1. ASSUME NEW from, NEW to, User(from, to) PROVE MayStart /\ UNCHANGED <<up_mode, cb, bh>> /\ bpc = from /\ bpc' = to
  BY <1>1 DEF User
<1>2. ASSUME MayStart, UNCHANGED <<up_mode, cb, bh, lcf, told>>, rx_op'.state = rx_op.state, bpc # "rx_flush",
             "thr" \in timer => "thr" \in timer'
      PROVE  ThrottleInv'
  BY <1>2, ThrottleUser DEF Told, hrtimer_active
<1>3. CASE RxSet \/ RxIval1 \/ RxIval2
  <2>1. MayStart /\ UNCHANGED <<up_mode, cb, bh, lcf, told, timer>> /\ bpc # "rx_flush"
    BY <1>3 DEF RxSet, RxIval1, RxIval2, RxGoto, User
  <2>2. rx_op'.state = rx_op.state
    BY <1>0, <1>3 DEF RxSet, RxIval1, RxIval2, RxOpRec
  <2> QED
    BY <1>2, <2>1, <2>2
<1>4. CASE RxZero \/ RxLast \/ RxStart
  <2>1. /\ MayStart /\ UNCHANGED <<up_mode, cb, bh, lcf, told, rx_op>> /\ bpc # "rx_flush"
        /\ timer' \in {timer, timer \ {"rx"}, timer \cup {"rx"}}
    BY <1>4 DEF RxZero, RxLast, RxStart, RxGoto, User, hrtimer_cancel
  <2> QED
    BY <1>2, <2>1
<1>5. CASE RxCancel
  <2>1. MayStart /\ UNCHANGED <<up_mode, cb, bh, lcf, told, rx_op>> /\ bpc = "rx_throttle" /\ bpc' = "rx_flush"
    BY <1>5 DEF RxCancel, RxGoto, User
  <2> QED
    BY <2>1, ThrottleUser DEF Told
<1>6. CASE RxFlush
  <2>1. /\ MayStart /\ UNCHANGED <<up_mode, cb, bh, rx_op, timer>>
        /\ IF lcf.thr THEN lcf' = [lcf EXCEPT !.thr = FALSE] /\ told' = lcf.data ELSE UNCHANGED <<lcf, told>>
    BY <1>6 DEF RxFlush, RxGoto, User, bcm_rx_thr_flush, bcm_rx_changed
  <2>2. Told => Told'
    BY <1>0, <2>1 DEF Told, Content
  <2> QED
    BY <2>1, <2>2, ThrottleUser
<1>7. CASE RxRegister \/ RxDelete
  <2>1. /\ MayStart /\ UNCHANGED <<up_mode, cb, bh, lcf, told, timer>> /\ bpc # "rx_flush"
        /\ \/ rx_op' = [rx_op EXCEPT !.known = TRUE]
           \/ rx_op' = [rx_op EXCEPT !.flags = @ \cup {"RX_NO_AUTOTIMER"}]
    BY <1>7, Zenon DEF RxRegister, RxDelete, RxGoto, User
  <2>2. rx_op'.state = rx_op.state
    BY <1>0, <2>1 DEF RxOpRec
  <2> QED
    BY <1>2, <2>1, <2>2
<1>8. CASE RxUnreg \/ ReleaseUnreg \/ ReleaseSync \/ ReleaseSynced \/ ReleasePut
  <2>1. MayStart /\ UNCHANGED <<up_mode, cb, bh, lcf, told, timer, rx_op>> /\ bpc # "rx_flush"
    BY <1>8 DEF RxUnreg, ReleaseUnreg, ReleaseSync, ReleaseSynced, ReleasePut, bcm_rx_unreg, User
  <2> QED
    BY <1>2, <2>1
<1>9. CASE bcm_notify
  BY <1>2, <1>9 DEF bcm_notify, bcmVars
<1>10. CASE RxRemove
  <2>1. /\ MayStart /\ UNCHANGED <<up_mode, cb, bh, lcf, told, rx_op>> /\ bpc # "rx_flush"
        /\ timer' = timer \ {"rx"}
    BY <1>10 DEF RxRemove, User, hrtimer_cancel
  <2> QED
    BY <1>2, <2>1
<1>11. CASE RxRemoveThr
  <2>1. /\ MayStart /\ UNCHANGED <<up_mode, cb, bh>>
        /\ rx_op' \in {[rx_op EXCEPT !.state = "deleted"], [rx_op EXCEPT !.state = "released"]}
    BY <1>11 DEF RxRemoveThr, User
  <2>2. rx_op'.state # "on"
    BY <1>0, <2>1 DEF RxOpRec
  <2> QED
    BY <2>1, <2>2, ThrottleUser
<1>12. CASE RxCreate
  <2>1. MayStart /\ UNCHANGED <<up_mode, cb, bh, lcf>> /\ rx_op.state = "none"
    BY <1>12 DEF RxCreate, User
  <2>2. ~lcf.recv
    BY <2>1 DEF RxCtlInv
  <2> QED
    BY <2>1, <2>2, ThrottleUser DEF Told
<1>13. CASE RxUpdate
  <2>1. MayStart /\ UNCHANGED <<up_mode, cb, bh, told, rx_op, timer>> /\ lcf' \in {lcf, NoContent} /\ bpc # "rx_flush"
    BY <1>13 DEF RxUpdate, User
  <2>2. Told => Told'
    BY <2>1 DEF Told, NoContent, hrtimer_active
  <2> QED
    BY <2>1, <2>2, ThrottleUser
<1> QED
  BY <1>3, <1>4, <1>5, <1>6, <1>7, <1>8, <1>9, <1>10, <1>11, <1>12, <1>13 DEF BcmRxCall

LEMMA ThrottleHandlers ==
  ASSUME CoreInv, BcmTypeOK, RxTimerInv, UpInv, ThrottleInv,
         RxTimeout \/ RxThrottle \/ RxThrottleAgain \/ RxThrottleEnd \/ BcmTime \/ Expire("rx") \/ Expire("thr")
  PROVE  ThrottleInv'
<1>0. lcf \in Content /\ {"rx", "thr"} \subseteq Timers
  BY DEF BcmTypeOK, Timers
<1>1. CASE BcmTime
  BY <1>1 DEF BcmTime, ThrottleInv, Told, hrtimer_active
<1>2. CASE Expire("rx") \/ Expire("thr")
  <2>1. /\ UNCHANGED <<up_mode, rx_op, lcf, bh, bpc, told>> /\ cb'["thr"] \in {cb["thr"], "start"}
        /\ hrtimer_active("thr")' <=> hrtimer_active("thr")
    BY <1>2 DEF Expire, hrtimer_active, BcmTypeOK, Timers
  <2>2. Told' <=> Told
    BY <2>1 DEF Told
  <2> QED
    BY <2>1, <2>2 DEF ThrottleInv
<1>3. ASSUME NEW t \in {"rx", "thr"}, cb[t] # "off", up_mode
      PROVE  /\ \A c \in Cpus : bh[c] # "update"
             /\ t = "rx" => cb["thr"] = "off"
  <2>1. Readers = {}
    BY <1>0, <1>3 DEF UpInv
  <2> QED
    BY <1>0, <1>3, <2>1, NoUpdate DEF UpInv
<1>4. CASE RxTimeout
  <2>1. /\ UNCHANGED <<up_mode, rx_op, bh, bpc, told, timer>> /\ lcf' \in {lcf, NoContent}
        /\ cb["rx"] # "off" /\ cb'["thr"] = cb["thr"]
    BY <1>0, <1>4 DEF RxTimeout, Handler, BcmTypeOK
  <2>2. up_mode => cb["thr"] = "off" /\ \A c \in Cpus : bh[c] # "update"
    BY <1>3, <2>1
  <2>3. Told => Told'
    BY <2>1 DEF Told, NoContent, hrtimer_active
  <2> QED
    BY <2>1, <2>2, <2>3 DEF ThrottleInv
<1>5. CASE RxThrottle
  <2>1. /\ UNCHANGED <<up_mode, rx_op, bh, bpc, timer>> /\ cb["thr"] # "off"
        /\ IF lcf.thr THEN lcf' = [lcf EXCEPT !.thr = FALSE] /\ told' = lcf.data ELSE UNCHANGED <<lcf, told>>
    BY <1>0, <1>5 DEF RxThrottle, Handler, BcmTypeOK, bcm_rx_thr_flush, bcm_rx_changed
  <2>2. up_mode => \A c \in Cpus : bh[c] # "update"
    BY <1>3, <2>1
  <2>3. ~lcf'.thr /\ (Told => Told')
    BY <1>0, <2>1 DEF Told, Content
  <2> QED
    BY <2>1, <2>2, <2>3 DEF ThrottleInv
<1>6. CASE RxThrottleAgain \/ RxThrottleEnd
  <2>1. /\ UNCHANGED <<up_mode, rx_op, bh, bpc, lcf, told>> /\ cb["thr"] \in {"again", "end"} /\ cb'["thr"] = "off"
    BY <1>0, <1>6 DEF RxThrottleAgain, RxThrottleEnd, Handler, BcmTypeOK
  <2>2. up_mode => ~lcf.thr
    BY <2>1 DEF ThrottleInv
  <2>3. up_mode /\ Told => Told'
    BY <2>1, <2>2 DEF Told
  <2> QED
    BY <2>1, <2>2, <2>3 DEF ThrottleInv
<1> QED
  BY <1>1, <1>2, <1>4, <1>5, <1>6

LEMMA ThrottleReceptions ==
  ASSUME CoreInv, BcmTypeOK, RxTimerInv, UpInv, ThrottleInv, NEW c \in Cpus,
         BcmRcv(c) \/ BcmRcvCompare(c) \/ BcmRcvUpdate(c) \/ BcmRcvStart(c)
  PROVE  ThrottleInv'
<1> DEFINE Goal == ThrottleInv'
<1> SUFFICES Goal
  OBVIOUS
<1>0. lcf \in Content /\ "thr" \in Timers
  BY DEF BcmTypeOK, Timers
<1>1. PICK from, to \in BhStates : Receiving(c, from, to)
  BY DEF BcmRcv, BcmRcvCompare, BcmRcvUpdate, BcmRcvStart, BhStates
<1>2. /\ UNCHANGED <<up_mode, rx_op, bpc, cb>> /\ Callee(c) = RxOp
      /\ \A d \in Cpus \ {c} : bh'[d] = bh[d]
  BY <1>1, ReceivingTypes
<1>3. c \in Readers
  BY <1>2, BcmCallee
<1>4. ASSUME up_mode PROVE cb["thr"] = "off" /\ \A d \in Cpus \ {c} : bh[d] # "update" /\ bh'[d] # "update"
  <2>1. cb["thr"] = "off" /\ \A d \in Readers : d = c
    BY <1>0, <1>3, <1>4 DEF UpInv
  <2>2. ASSUME NEW d \in Cpus \ {c} PROVE bh[d] # "update"
    BY <2>1, BcmCallee DEF RxTimerInv
  <2> QED
    BY <1>2, <2>1, <2>2
<1>5. ASSUME up_mode, bh'[c] = "update" => lcf'.thr,
             rx_op.state = "on" => bh'[c] = "update" \/ Told'
      PROVE  Goal
  BY <1>2, <1>4, <1>5 DEF ThrottleInv
<1>6. CASE ~up_mode
  BY <1>2, <1>6 DEF ThrottleInv
<1> HIDE DEF Goal
<1>7. CASE up_mode /\ (BcmRcv(c) \/ BcmRcvStart(c))
  <2>1. /\ bh[c] # "update" /\ bh'[c] # "update" /\ UNCHANGED <<lcf, told>>
        /\ timer' \in {timer, timer \ {"rx"}, timer \cup {"rx"}}
    BY <1>7 DEF BcmRcv, BcmRcvStart, Receiving, hrtimer_cancel, BcmTypeOK
  <2>2. Told => Told'
    BY <1>2, <2>1 DEF Told, hrtimer_active
  <2> QED
    BY <1>4, <1>5, <1>7, <2>1, <2>2 DEF ThrottleInv
<1>8. CASE up_mode /\ BcmRcvCompare(c)
  <2>1. /\ bh[c] = "compare" /\ UNCHANGED <<told, timer>>
        /\ \/ bh'[c] = "update" /\ lcf' = [recv |-> TRUE, thr |-> TRUE, data |-> walk[c].frame.data]
           \/ bh'[c] = "start" /\ UNCHANGED lcf
    BY <1>8 DEF BcmRcvCompare, Receiving, BcmTypeOK
  <2>2. CASE bh'[c] = "update" /\ lcf' = [recv |-> TRUE, thr |-> TRUE, data |-> walk[c].frame.data]
    BY <1>5, <1>8, <2>2
  <2>3. CASE bh'[c] = "start" /\ UNCHANGED lcf
    <3>1. Told => Told'
      BY <1>2, <2>1, <2>3 DEF Told, hrtimer_active
    <3> QED
      BY <1>4, <1>5, <1>8, <2>1, <2>3, <3>1 DEF ThrottleInv
  <2> QED
    BY <2>1, <2>2, <2>3
<1>9. CASE up_mode /\ BcmRcvUpdate(c)
  <2>1. bh[c] = "update" /\ bh'[c] = "start"
    BY <1>9 DEF BcmRcvUpdate, Receiving, BcmTypeOK
  <2>2. lcf.thr
    BY <1>9, <2>1 DEF ThrottleInv
  <2>3. \/ lcf' = [lcf EXCEPT !.thr = FALSE] /\ told' = lcf.data
        \/ UNCHANGED lcf /\ hrtimer_active("thr")'
    <3>1. \/ bcm_rx_changed
          \/ hrtimer_active("thr") /\ UNCHANGED <<lcf, timer>>
          \/ timer' = timer \cup {"thr"} /\ UNCHANGED lcf
      BY <1>9, Zenon DEF BcmRcvUpdate
    <3> QED
      BY <1>2, <3>1 DEF bcm_rx_changed, hrtimer_active
  <2>4. Told'
    BY <1>0, <2>2, <2>3 DEF Told, Content
  <2> QED
    BY <1>5, <1>9, <2>1, <2>4
<1> QED
  BY <1>6, <1>7, <1>8, <1>9

LEMMA ThrottleStep ==
  ASSUME CoreInv, BcmTypeOK, RxCtlInv, RxTimerInv, UpInv, ThrottleInv, ~ReleaseTx,
         RxStep \/ BcmRxCall \/ BcmTime \/ bcm_notify \/ Expire("rx") \/ Expire("thr")
  PROVE  ThrottleInv'
BY ThrottleUsers, ThrottleHandlers, ThrottleReceptions DEF RxStep

-----------------------------------------------------------------------------
(* The rest of the system. *)

\* What the broadcast manager does not see: its receiver, its callbacks and what it
\* waits for stay.
BcmAside ==
  /\ UNCHANGED <<bcmVars, scene>>
  /\ \A s \in Slots : rcv[s].owner = RxOp \/ rcv'[s].owner = RxOp =>
       /\ rcv'[s].owner = rcv[s].owner /\ rcv'[s].state = rcv[s].state /\ rcv'[s].dev = rcv[s].dev
       /\ rcv'[s].list = rcv[s].list /\ rcv'[s].id = rcv[s].id /\ rcv'[s].mask = rcv[s].mask
       /\ rcv'[s].gp = rcv[s].gp
  /\ \A x \in {RxOp, Sync} : waits'[x] = waits[x]
  /\ up'[BcmDev] = up[BcmDev] \/ scene.part # "bcm_rx"
  /\ \A c \in Cpus : Callee(c) = RxOp => Callee(c)' = RxOp

LEMMA BcmAsideKeeps ==
  ASSUME BcmTypeOK, TxInv, RxCtlInv, RxFilterInv, RxTimerInv, ThrottleInv, BcmAside
  PROVE  BcmTypeOK' /\ TxInv' /\ RxCtlInv' /\ RxFilterInv' /\ RxTimerInv' /\ ThrottleInv'
<1>1. UNCHANGED <<up_mode, tx_op, rx_op, lcf, kt_lastmsg, timer, cb, bh, req, bpc, told, scene>>
  BY DEF BcmAside, bcmVars
<1>2. BcmTypeOK' /\ TxInv'
  BY <1>1 DEF BcmTypeOK, TxInv, hrtimer_active, bcm_tx_set_expiry
<1>3. ThrottleInv'
  BY <1>1 DEF ThrottleInv, Told, hrtimer_active
<1>4. RxTimerInv'
  BY <1>1 DEF BcmAside, RxTimerInv, hrtimer_active
<1>5. up'[BcmDev] = up[BcmDev] \/ rx_op.state = "none"
  BY DEF BcmAside, RxCtlInv
<1>6. RxCtlInv'
  BY <1>1, <1>5 DEF RxCtlInv
<1>7. RxFilterInv'
  <2>1. \A s \in Slots : OfRxOp(s)' <=> OfRxOp(s)
    BY DEF BcmAside, OfRxOp
  <2>2. \A s \in Slots : rcv'[s].owner = RxOp =>
          rcv[s].owner = RxOp /\ rcv'[s].state = rcv[s].state /\ rcv'[s].gp = rcv[s].gp
    BY DEF BcmAside
  <2>3. waits'[RxOp] = waits[RxOp] /\ waits'[Sync] = waits[Sync]
    BY DEF BcmAside
  <2>4. \A s \in Slots : rcv[s].owner = RxOp => rx_op.known /\ up'[BcmDev] = up[BcmDev]
    BY <1>5 DEF RxFilterInv, RxCtlInv
  <2> QED
    BY <1>1, <2>1, <2>2, <2>3, <2>4 DEF RxFilterInv
<1> QED
  BY <1>2, <1>3, <1>4, <1>6, <1>7

LEMMA ActsBcmAside ==
  ASSUME CoreInv, NEW O \in SUBSET (Owners \ {RxOp}), ActsFor(O), CoreRest, UNCHANGED <<bcmVars, scene>>,
         \A x \in {RxOp, Sync} : waits'[x] = waits[x], up'[BcmDev] = up[BcmDev] \/ scene.part # "bcm_rx"
  PROVE  BcmAside /\ Readers' = Readers
<1>1. OthersStay(O)
  BY ActsKeep
<1>2. RxOp \in Owners \ O
  BY BcmAssumption
<1>3. Readers' = Readers /\ \A c \in Cpus : Callee(c) \in Owners \ O => Callee(c)' = Callee(c)
  BY ActsWalk
<1> QED
  BY <1>1, <1>2, <1>3 DEF BcmAside, OthersStay

\* The gateway takes devices away, in scenes of its own.
LEMMA GwUp ==
  ASSUME GwUses \/ GwUsed
  PROVE  UNCHANGED up \/ scene.part # "bcm_rx"
<1>1. CASE GwUsed
  BY <1>1 DEF GwUsed
<1>2. CASE GwUses
  BY <1>2 DEF GwUses, GwStep, GwFlush, GwRead, GwSend
<1> QED
  BY <1>1, <1>2

LEMMA GwWaits ==
  ASSUME CoreInv, GwInv, scene \in Scenes, GwUses \/ GwUsed
  PROVE  \A x \in {RxOp, Sync} : waits'[x] = waits[x]
<1>1. /\ {RxOp, Sync} \cap (Jobs \cup Mods) = {} /\ waits \in [Deferred -> SUBSET Cpus]
      /\ {RxOp, Sync} \subseteq Deferred
  BY BcmAssumption, StackAssumption DEF CoreInv, CoreTypeOK
<1> DEFINE Goal == \A x \in {RxOp, Sync} : waits'[x] = waits[x]
<1> SUFFICES Goal
  OBVIOUS
<1>2. ASSUME NEW j \in Jobs \cup Mods, NEW W, waits' = [waits EXCEPT ![j] = W] PROVE Goal
  BY <1>1, <1>2
<1>3. UNCHANGED waits => Goal
  OBVIOUS
<1> HIDE DEF Goal
<1>4. ASSUME NEW j \in Listed, cgw_remove(j) PROVE Goal
  <2>1. waits' = [waits EXCEPT ![j] = Readers] /\ j \in Jobs
    BY <1>4 DEF cgw_remove, Listed
  <2> QED
    BY <1>2, <2>1
<1>5. ASSUME NEW i \in 1..Len(cgw_list) PROVE cgw_list[i] \in Listed
  <2>1. cgw_list[i] \in Jobs /\ InSeq(cgw_list, cgw_list[i])
    BY ElementOfSeq DEF GwInv, GwTypeOK, InSeq
  <2> QED
    BY <2>1 DEF GwInv, CgwListInv
<1>6. ASSUME NEW s, GwUpdate(s) PROVE Goal
  <2>1. PICK i \in 1..Len(cgw_list) : waits' = [waits EXCEPT ![job[cgw_list[i]].mod] = ModReaders]
    BY <1>6 DEF GwUpdate
  <2>2. job[cgw_list[i]].mod \in Mods
    BY <1>5 DEF GwInv, JobMemInv, Listed
  <2> QED
    BY <1>2, <2>1, <2>2
<1>7. ASSUME NEW s, cgw_create_job(s) PROVE Goal
  BY <1>3, <1>6, <1>7 DEF cgw_create_job, GwCreate
<1>8. ASSUME NEW s, cgw_remove_job(s) PROVE Goal
  <2>1. PICK i \in 1..Len(cgw_list) : cgw_remove(cgw_list[i])
    BY <1>8 DEF cgw_remove_job
  <2> QED
    BY <1>4, <1>5, <2>1
<1>9. cgw_remove_all_jobs \/ (\E d \in Devs : cgw_notifier(d)) => Goal
  BY <1>3 DEF cgw_remove_all_jobs, cgw_notifier, rxVars
<1>10. GwFlush => Goal
  <2>1. flush \subseteq Listed
    BY DEF GwInv, CgwListInv
  <2> QED
    BY <1>4, <2>1 DEF GwFlush
<1>11. ASSUME NEW c \in Cpus, GwRead(c) \/ GwSend(c) PROVE Goal
  BY <1>3, <1>11 DEF GwRead, GwSend
<1> QED
  BY <1>7, <1>8, <1>9, <1>10, <1>11 DEF GwUses, GwUsed, GwStep, GwCall

LEMMA StartsUp ==
  ASSUME CoreInv, BcmTypeOK, UpInv, MayStart, UNCHANGED bcmVars, NEW c \in Cpus, Readers' = Readers \cup {c}
  PROVE  UpInv'
<1>1. up_mode => Readers = {} /\ \A t \in Timers : cb[t] = "off"
  BY DEF MayStart, Softirq
<1>2. UNCHANGED <<up_mode, cb>>
  BY DEF bcmVars
<1> QED
  BY <1>1, <1>2 DEF UpInv

\* All others leave the broadcast manager alone.
LEMMA OtherBcm ==
  ASSUME CoreInv, RawCtl, GwInv, scene \in Scenes, BcmTypeOK, UpInv, Next,
         ~(BcmUses \/ BcmUsed), ~(\E c \in Cpus : Unlock(c))
  PROVE  BcmAside /\ UpInv'
<1>1. /\ Plain \in SUBSET (Owners \ {RxOp}) /\ RawSocks \in SUBSET (Owners \ {RxOp})
      /\ Jobs \in SUBSET (Owners \ {RxOp}) /\ RxOp # NIL
  BY CanRxAssumption, RawAssumption, GwAssumption, BcmAssumption, StackAssumption DEF Plain
<1>2. ASSUME BcmAside, Readers' = Readers PROVE BcmAside /\ UpInv'
  <2>1. UNCHANGED <<up_mode, cb>>
    BY <1>2 DEF BcmAside, bcmVars
  <2> QED
    BY <1>2, <2>1 DEF UpInv
<1>3. ASSUME NEW c \in Cpus, NEW f, Starts(c, f), MayStart, UNCHANGED <<bcmVars, scene>> PROVE BcmAside /\ UpInv'
  <2>1. /\ Callee(c) = NIL /\ Readers' = Readers \cup {c}
        /\ \A d \in Cpus \ {c} : walk'[d] = walk[d] /\ Callee(d)' = Callee(d)
    BY <1>3, StartsWalk
  <2>2. UNCHANGED <<rcv, waits, up>>
    BY <1>3 DEF Starts
  <2> QED
    BY <1>1, <1>3, <2>1, <2>2, StartsUp DEF BcmAside
<1>4. ASSUME NEW c \in Cpus, Receive(c) PROVE BcmAside /\ UpInv'
  <2>1. PICK f \in scene.frames : Starts(c, f)
    BY <1>4, ReceiveStarts
  <2> QED
    BY <1>3, <1>4, <2>1 DEF Receive, MayReceive
<1>5. ASSUME NEW c \in Cpus, Loopback(c) PROVE BcmAside /\ UpInv'
  <2>1. Starts(c, Head(backlog))
    BY <1>5, LoopbackStarts
  <2> QED
    BY <1>3, <1>5, <2>1 DEF Loopback, MayReceive
<1>6. ASSUME NEW c \in Cpus, Filter(c) PROVE BcmAside /\ UpInv'
  <2>1. /\ Callee(c) = NIL /\ Readers' = Readers
        /\ \A d \in Cpus \ {c} : walk'[d] = walk[d] /\ Callee(d)' = Callee(d)
        /\ UNCHANGED <<rcv, waits, backlog, up>>
    BY <1>6, FilterWalk DEF Filter
  <2>2. UNCHANGED <<bcmVars, scene>>
    BY <1>6 DEF Filter
  <2> QED
    BY <1>1, <1>2, <2>1, <2>2 DEF BcmAside
<1>7. CASE Register \/ Unregister \/ \E c \in Cpus : Taken(c)
  BY <1>1, <1>2, <1>7, PlainActs, PlainRest, ActsBcmAside
<1>8. CASE RawUses \/ RawUsed \/ RawSends
  BY <1>1, <1>2, <1>8, RawActs, RawRest, ActsBcmAside
<1>9. CASE GwUses \/ GwUsed
  <2>1. UNCHANGED <<bcmVars, scene>>
    BY <1>9 DEF GwUses, GwUsed
  <2>2. ActsFor(Jobs) /\ CoreRest
    BY <1>9, GwActs
  <2>3. \A x \in {RxOp, Sync} : waits'[x] = waits[x]
    BY <1>9, GwWaits
  <2>4. up'[BcmDev] = up[BcmDev] \/ scene.part # "bcm_rx"
    BY <1>9, GwUp
  <2> QED
    BY <1>1, <1>2, <2>1, <2>2, <2>3, <2>4, ActsBcmAside
<1>10. CASE Over
  <2>1. UNCHANGED <<rcv, walk, waits, up>> /\ UNCHANGED <<bcmVars, scene>>
    BY <1>10 DEF Over, vars, rxVars
  <2> QED
    BY <1>2, <2>1 DEF BcmAside, Readers, Callee
<1> QED
  BY <1>4, <1>5, <1>6, <1>7, <1>8, <1>9, <1>10 DEF Next

\* The end of a reception shortens grace periods, those of receivers and the waits
\* for them alike.
LEMMA UnlockBcm ==
  ASSUME CoreInv, BcmTypeOK, TxInv, RxCtlInv, RxFilterInv, RxTimerInv, UpInv, ThrottleInv,
         NEW c \in Cpus, Unlock(c)
  PROVE  /\ BcmTypeOK' /\ TxInv' /\ RxCtlInv' /\ RxFilterInv' /\ RxTimerInv' /\ UpInv' /\ ThrottleInv'
<1>0. UNCHANGED <<bcmVars, scene>> /\ UNCHANGED up /\ rcu_read_unlock(c)
  BY DEF Unlock, rcu_read_unlock
<1>1. UNCHANGED <<up_mode, tx_op, rx_op, lcf, kt_lastmsg, timer, cb, bh, req, bpc, told, scene>>
  BY <1>0 DEF bcmVars
<1>2. /\ walk \in [Cpus -> WalkRec] /\ waits \in [Deferred -> SUBSET Cpus]
      /\ rcv \in [Slots -> RcvRec] /\ {RxOp, Sync} \subseteq Deferred /\ RxOp # NIL
  BY CanRxAssumption, BcmAssumption DEF CoreInv, CoreTypeOK
<1>3. /\ walk' = [walk EXCEPT ![c] = Idle] /\ ~walk[c].call
      /\ waits' = [d \in Deferred |-> waits[d] \ {c}]
  BY <1>0 DEF rcu_read_unlock, Ended
<1>4. Readers' = Readers \ {c} /\ Callee(c) = NIL
  BY <1>2, <1>3 DEF Readers, Callee, Idle
<1>5. \A x \in Slots : rcv'[x] = IF rcv[x].state = "off" /\ rcv[x].gp \subseteq {c} THEN Free
                                 ELSE [rcv[x] EXCEPT !.gp = @ \ {c}]
  BY <1>0, UnlockKeeps
<1>6. ASSUME NEW x \in Slots
      PROVE  \/ rcv[x].state = "off" /\ rcv[x].gp \subseteq {c} /\ rcv'[x].owner = NIL
             \/ /\ rcv'[x].owner = rcv[x].owner /\ rcv'[x].state = rcv[x].state /\ rcv'[x].dev = rcv[x].dev
                /\ rcv'[x].list = rcv[x].list /\ rcv'[x].id = rcv[x].id /\ rcv'[x].mask = rcv[x].mask
                /\ rcv'[x].gp = rcv[x].gp \ {c}
  <2>1. rcv[x] \in RcvRec
    BY <1>2
  <2> QED
    BY <1>5, <2>1, FreeType DEF RcvRec
<1>7. ASSUME NEW d \in Cpus, Callee(d) = RxOp PROVE Callee(d)' = RxOp
  <2>1. /\ d # c /\ walk'[d] = walk[d]
    BY <1>2, <1>3, <1>4, <1>7
  <2>2. /\ walk[d].call /\ walk[d].at \in Slots /\ rcv[walk[d].at].owner = RxOp
        /\ \/ rcv[walk[d].at].state = "on"
           \/ rcv[walk[d].at].state = "off" /\ d \in rcv[walk[d].at].gp
    BY <1>2, <1>7, CalleeFacts
  <2>3. rcv'[walk[d].at].owner = RxOp
    BY <1>6, <2>1, <2>2
  <2> QED
    BY <2>1, <2>2, <2>3 DEF Callee
<1>8. BcmTypeOK' /\ TxInv'
  BY <1>1 DEF BcmTypeOK, TxInv, hrtimer_active, bcm_tx_set_expiry
<1>9. RxCtlInv' /\ ThrottleInv'
  BY <1>0, <1>1 DEF RxCtlInv, ThrottleInv, Told, hrtimer_active
<1>10. RxTimerInv'
  BY <1>1, <1>7 DEF RxTimerInv, hrtimer_active
<1>11. UpInv'
  BY <1>1, <1>4, UpInvIs DEF BcmTypeOK
<1>12. RxFilterInv'
  <2>1. waits'[RxOp] = waits[RxOp] \ {c} /\ waits'[Sync] = waits[Sync] \ {c}
    BY <1>2, <1>3
  <2>2. \A s \in Slots : rcv'[s].owner = RxOp => /\ rcv[s].owner = RxOp /\ rcv'[s].state = rcv[s].state
                                                 /\ rcv'[s].gp = rcv[s].gp \ {c} /\ (OfRxOp(s) => OfRxOp(s)')
    BY <1>2, <1>6 DEF OfRxOp
  <2>3. \A s \in Slots : OfRxOp(s)' => OfRxOp(s)
    BY <1>2, <1>6 DEF OfRxOp
  <2> QED
    BY <1>0, <1>1, <2>1, <2>2, <2>3 DEF RxFilterInv
<1> QED
  BY <1>8, <1>9, <1>10, <1>11, <1>12

-----------------------------------------------------------------------------
(* Theorems. *)

LEMMA BcmUsesKeep ==
  ASSUME CoreInv, BcmInv, UNCHANGED scene, BcmUses \/ BcmUsed
  PROVE  BcmInv'
<1>1. BcmTypeOK /\ TxInv /\ RxCtlInv /\ RxFilterInv /\ RxTimerInv /\ UpInv /\ ThrottleInv
  BY DEF BcmInv
<1>2. TxInv' /\ UpInv'
  BY <1>1, TxInvStep, UpInvStep
<1>3. CASE TxStep \/ BcmTxCall \/ ReleaseTx \/ bcm_release \/ Expire("tx")
  <2>1. RxInv'
    BY <1>1, <1>3, TxStepsAside, RxAsideKeeps DEF RxInv
  <2>2. BcmTypeOK'
    <3>1. CASE TxStep \/ BcmTxCall \/ ReleaseTx
      BY <1>1, <3>1, TxTypes
    <3>2. CASE bcm_release \/ Expire("tx")
      <4>1. ~ReleaseTx
        BY <3>2 DEF bcm_release, Expire, ReleaseTx, User
      <4> QED
        BY <1>1, <3>2, <4>1, RxTypes DEF BcmEvent, Timers
    <3> QED
      BY <1>3, <3>1, <3>2
  <2> QED
    BY <1>2, <2>1, <2>2 DEF BcmInv, RxInv
<1>4. CASE ~ReleaseTx /\ \/ RxStep \/ BcmTime \/ bcm_notify \/ Expire("rx") \/ Expire("thr")
                         \/ (scene.part = "bcm_rx" /\ BcmRxCall)
  <2>1. BcmTypeOK'
    BY <1>1, <1>4, RxTypes DEF BcmEvent, Timers
  <2>2. RxCtlInv' /\ RxFilterInv' /\ RxTimerInv' /\ ThrottleInv'
    BY <1>1, <1>4, RxCtlStep, RxFilterStep, RxTimerStep, ThrottleStep
  <2> QED
    BY <1>2, <2>1, <2>2 DEF BcmInv
<1> QED
  BY <1>3, <1>4 DEF BcmUses, BcmUsed, BcmStep, BcmEvent, Timers

LEMMA BcmInvStep == StackInv /\ BcmInv /\ [Next]_vars => BcmInv'
<1> SUFFICES ASSUME StackInv, BcmInv, [Next]_vars PROVE BcmInv'
  OBVIOUS
<1>1. /\ BcmTypeOK /\ TxInv /\ RxCtlInv /\ RxFilterInv /\ RxTimerInv /\ UpInv /\ ThrottleInv
      /\ CoreInv /\ RawCtl /\ GwInv /\ scene \in Scenes /\ UNCHANGED scene
  BY SceneStays DEF BcmInv, StackInv
<1>2. CASE BcmUses \/ BcmUsed
  BY <1>1, <1>2, BcmUsesKeep
<1>3. ASSUME NEW c \in Cpus, Unlock(c) PROVE BcmInv'
  BY <1>1, <1>3, UnlockBcm DEF BcmInv
<1>4. CASE Next /\ ~(BcmUses \/ BcmUsed) /\ ~(\E c \in Cpus : Unlock(c))
  BY <1>1, <1>4, OtherBcm, BcmAsideKeeps DEF BcmInv
<1>5. CASE UNCHANGED vars
  <2>1. BcmAside /\ UNCHANGED <<walk, up_mode, cb>>
    BY <1>5 DEF vars, rxVars, bcmVars, BcmAside, Callee
  <2>2. UpInv'
    BY <1>1, <2>1 DEF UpInv, Readers
  <2> QED
    BY <1>1, <2>1, <2>2, BcmAsideKeeps DEF BcmInv
<1> QED
  BY <1>2, <1>3, <1>4, <1>5

LEMMA BcmInvInit == Init => BcmInv
<1> SUFFICES ASSUME Init PROVE BcmInv
  OBVIOUS
<1>1. BcmInit /\ RxInit
  BY DEF Init
<1>2. \A s \in Slots : rcv[s].owner # RxOp
  BY <1>1, CanRxAssumption, BcmAssumption DEF RxInit, Free
<1>3. BcmTypeOK
  BY <1>1 DEF BcmInit, BcmTypeOK, TxOpRec, RxOpRec, NoContent, Content, Timers, CbStates, BhStates, BcmPCs
<1>4. TxInv /\ RxCtlInv /\ RxFilterInv
  BY <1>1, <1>2 DEF BcmInit, TxInv, RxCtlInv, RxFilterInv, TxSetup, RxSetup, RxRemoval, NoContent,
                    hrtimer_active, Timers
<1>5. RxTimerInv /\ UpInv /\ ThrottleInv
  BY <1>1 DEF BcmInit, RxInit, Idle, RxTimerInv, UpInv, ThrottleInv, Readers, hrtimer_active, Timers
<1> QED
  BY <1>3, <1>4, <1>5 DEF BcmInv

LEMMA BcmInductive == Spec => [](StackInv /\ BcmInv)
<1>1. Init => StackInv /\ BcmInv
  BY StackInit, BcmInvInit
<1>2. StackInv /\ BcmInv /\ [Next]_vars => (StackInv /\ BcmInv)'
  BY StackStep, BcmInvStep
<1> QED
  BY <1>1, <1>2, PTL DEF Spec

\* The next frame of a cyclic transmission is one of its frames, while TX_SETUP
\* changes their number between the handler's can_send() and its update of the
\* index: the index starts again with a new number (bcm_tx_setup()).
THEOREM TxIndexInRange == Spec => []TxIndex
<1>1. BcmInv => TxIndex
  BY DEF BcmInv, TxInv, TxIndex
<1> QED
  BY <1>1, BcmInductive, PTL

\* A transmission set up with STARTTIMER keeps its timer as long as there is a count
\* with ival1, or ival2, although TX_SETUP cancels the timer and the handler ends in
\* between (bcm_tx_setup(), bcm_tx_timeout_handler()).
THEOREM TxRuns == Spec => []TxRunning
<1>1. BcmInv => TxRunning
  BY DEF BcmInv, TxInv, TxSetup, TxRunning, bcm_tx_set_expiry
<1> QED
  BY <1>1, BcmInductive, PTL

\* An operation that is freed after a grace period (bcm_remove_op(), bcm_release())
\* has no timer left that could start, and a reception that still runs for it is one
\* the grace period waits for.
THEOREM OperationsQuiet == Spec => []OpQuiet
<1>1. ASSUME CoreInv, BcmInv PROVE OpQuiet
  <2>1. BcmTypeOK /\ TxInv /\ RxCtlInv /\ RxFilterInv /\ RxTimerInv
    BY <1>1 DEF BcmInv
  <2>2. \A c \in Cpus : Callee(c) = RxOp => rx_op.state = "on" \/ c \in waits[RxOp]
    BY <1>1, <2>1, CalleeOp DEF BcmTypeOK, RxOpRec
  <2> QED
    BY <2>1, <2>2 DEF OpQuiet, TxInv, RxTimerInv
<1> QED
  BY <1>1, BcmInductive, PTL DEF StackInv

\* On one processor, what a content filter stored last was reported, or it is
\* throttled and the timer runs that will report it (bcm_rx_update_and_send(),
\* bcm_rx_thr_flush()).
THEOREM ThrottlingWatched == Spec => []ThrottledWatched
<1>1. ASSUME CoreInv, BcmInv PROVE ThrottledWatched
  <2>1. BcmTypeOK /\ RxTimerInv /\ ThrottleInv
    BY <1>1 DEF BcmInv
  <2> QED
    BY <1>1, <2>1, NoUpdate DEF ThrottledWatched, Softirq, ThrottleInv, Told
<1> QED
  BY <1>1, BcmInductive, PTL DEF StackInv
=============================================================================
