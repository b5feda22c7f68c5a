---------------------------- MODULE CanStackProofs ----------------------------
(***************************************************************************)
(* Theorems about CanStack.                                                *)
(***************************************************************************)
EXTENDS CanStack, FiniteSetTheorems, SequenceTheorems, WellFoundedInduction, TLAPS

-----------------------------------------------------------------------------
(* Sequences. *)

\* A set of numbers has a least one.
LEMMA LeastIn ==
  ASSUME NEW S \in SUBSET Nat, S # {}
  PROVE  Min(S) \in S /\ \A n \in S : Min(S) <= n
<1> DEFINE R == {p \in Nat \X Nat : p[1] < p[2]}
<1>1. IsWellFoundedOn(R, Nat)
  BY NatLessThanWellFounded DEF OpToRel
<1>2. \E m \in S : \A n \in S : ~(<<n, m>> \in R)
  <2> HIDE DEF R
  <2> QED
    BY <1>1, WFMin
<1>3. \A n, m \in S : ~(<<n, m>> \in R) => m <= n
  OBVIOUS
<1>4. \E m \in S : \A n \in S : m <= n
  <2> HIDE DEF R
  <2> QED
    BY <1>2, <1>3
<1> QED
  BY <1>4 DEF Min

\* SelectInSeq() finds an element if there is one.
LEMMA SelectIs ==
  ASSUME NEW S, NEW s \in Seq(S), NEW e
  PROVE  LET i == SelectInSeq(s, LAMBDA x : x = e)
         IN /\ i \in 0..Len(s) /\ (i # 0 => s[i] = e)
            /\ (\E k \in 1..Len(s) : s[k] = e) => i # 0
<1> DEFINE i == SelectInSeq(s, LAMBDA x : x = e)
           I == {m \in 1..Len(s) : s[m] = e}
<1>1. i = IF I # {} THEN Min(I) ELSE 0
  BY DEF SelectInSeq
<1>2. Len(s) \in Nat
  BY LenProperties
<1>3. I \in SUBSET Nat
  BY <1>2
<1>4. I # {} => Min(I) \in I
  <2> HIDE DEF I
  <2> QED
    BY <1>3, LeastIn
<1> HIDE DEF i
<1>5. /\ i \in 0..Len(s) /\ (i # 0 => s[i] = e)
      /\ (\E k \in 1..Len(s) : s[k] = e) => i # 0
  BY <1>1, <1>2, <1>4
<1> QED
  BY <1>5 DEF i

NoTwice(s) == \A i, k \in 1..Len(s) : s[i] = s[k] => i = k
InSeq(s, x) == \E i \in 1..Len(s) : s[i] = x

\* RemoveFirst() of a sequence without repetitions.
LEMMA RemoveFirstIs ==
  ASSUME NEW S, NEW s \in Seq(S), NEW e, NoTwice(s)
  PROVE  LET t == RemoveFirst(s, e)
         IN /\ t \in Seq(S) /\ NoTwice(t)
            /\ \A x : InSeq(t, x) <=> x # e /\ InSeq(s, x)
            /\ Len(t) = IF InSeq(s, e) THEN Len(s) - 1 ELSE Len(s)
<1> USE DEF NoTwice, InSeq
<1> DEFINE t == RemoveFirst(s, e)
           n == SelectInSeq(s, LAMBDA x : x = e)
<1>1. Len(s) \in Nat /\ \A i \in 1..Len(s) : s[i] \in S
  BY LenProperties, ElementOfSeq
<1>2. CASE ~\E i \in 1..Len(s) : s[i] = e
  <2>1. t = s
    BY <1>2 DEF RemoveFirst
  <2> HIDE DEF t
  <2>2. /\ t \in Seq(S)
        /\ \A i, k \in 1..Len(t) : t[i] = t[k] => i = k
        /\ \A x : (\E i \in 1..Len(t) : t[i] = x) <=> x # e /\ \E i \in 1..Len(s) : s[i] = x
        /\ Len(t) = IF \E i \in 1..Len(s) : s[i] = e THEN Len(s) - 1 ELSE Len(s)
    BY <1>2, <2>1
  <2> QED
    BY <2>2 DEF t
<1>3. CASE \E i \in 1..Len(s) : s[i] = e
  <2> DEFINE a == SubSeq(s, 1, n - 1)
             b == SubSeq(s, n + 1, Len(s))
  <2>1. n \in 1..Len(s) /\ s[n] = e
    <3>1. n \in 0..Len(s) /\ (n # 0 => s[n] = e) /\ n # 0
      BY <1>3, SelectIs
    <3> HIDE DEF n
    <3> QED
      BY <1>1, <3>1
  <2>2. t = a \o b
    BY <1>3 DEF RemoveFirst, RemoveAt
  <2> HIDE DEF n, t
  <2>3. /\ a \in Seq(S) /\ Len(a) = n - 1 /\ \A i \in 1..(n - 1) : a[i] = s[i]
    <3>1. 1 \in Int /\ n - 1 \in Int /\ \A i \in 1..(n - 1) : s[i] \in S
      BY <1>1, <2>1
    <3>2. /\ SubSeq(s, 1, n - 1) \in Seq(S)
          /\ Len(SubSeq(s, 1, n - 1)) = IF 1 <= n - 1 THEN (n - 1) - 1 + 1 ELSE 0
          /\ \A i \in 1 .. (n - 1) - 1 + 1 : SubSeq(s, 1, n - 1)[i] = s[1 + i - 1]
      BY <3>1, SubSeqProperties
    <3> HIDE DEF a
    <3>3. a \in Seq(S) /\ Len(a) = (IF 1 <= n - 1 THEN (n - 1) - 1 + 1 ELSE 0)
          /\ \A i \in 1 .. (n - 1) - 1 + 1 : a[i] = s[1 + i - 1]
      BY <3>2 DEF a
    <3>4. \A i \in 1..(n - 1) : i \in 1 .. (n - 1) - 1 + 1 /\ 1 + i - 1 = i
      BY <2>1
    <3> QED
      BY <2>1, <3>3, <3>4
  <2>4. /\ b \in Seq(S) /\ Len(b) = Len(s) - n /\ \A i \in 1..(Len(s) - n) : b[i] = s[n + i]
    <3>1. n + 1 \in Int /\ Len(s) \in Int /\ \A i \in (n + 1)..Len(s) : s[i] \in S
      BY <1>1, <2>1
    <3>2. /\ SubSeq(s, n + 1, Len(s)) \in Seq(S)
          /\ Len(SubSeq(s, n + 1, Len(s))) = IF n + 1 <= Len(s) THEN Len(s) - (n + 1) + 1 ELSE 0
          /\ \A i \in 1 .. Len(s) - (n + 1) + 1 : SubSeq(s, n + 1, Len(s))[i] = s[(n + 1) + i - 1]
      BY <3>1, SubSeqProperties
    <3> HIDE DEF b
    <3>3. /\ b \in Seq(S) /\ Len(b) = (IF n + 1 <= Len(s) THEN Len(s) - (n + 1) + 1 ELSE 0)
          /\ \A i \in 1 .. Len(s) - (n + 1) + 1 : b[i] = s[(n + 1) + i - 1]
      BY <3>2 DEF b
    <3>4. \A i \in 1..(Len(s) - n) : i \in 1 .. Len(s) - (n + 1) + 1 /\ (n + 1) + i - 1 = n + i
      BY <1>1, <2>1
    <3> QED
      BY <1>1, <2>1, <3>3, <3>4
  <2> HIDE DEF a, b
  <2>5. /\ t \in Seq(S) /\ Len(t) = Len(s) - 1
        /\ \A i \in 1..(Len(s) - 1) : t[i] = IF i < n THEN s[i] ELSE s[i + 1]
    <3>1. /\ t \in Seq(S) /\ Len(t) = Len(a) + Len(b)
          /\ \A i \in 1 .. Len(a) + Len(b) : t[i] = IF i <= Len(a) THEN a[i] ELSE b[i - Len(a)]
      BY <2>2, <2>3, <2>4, ConcatProperties
    <3>2. Len(a) + Len(b) = Len(s) - 1
      BY <1>1, <2>1, <2>3, <2>4
    <3>3. ASSUME NEW i \in 1..(Len(s) - 1) PROVE t[i] = IF i < n THEN s[i] ELSE s[i + 1]
      <4>1. CASE i < n
        <5>1. i \in 1..(n - 1) /\ i <= Len(a)
          BY <1>1, <2>1, <2>3, <4>1
        <5> QED
          BY <2>3, <3>1, <3>2, <4>1, <5>1
      <4>2. CASE ~(i < n)
        <5>1. i - Len(a) \in 1..(Len(s) - n) /\ ~(i <= Len(a)) /\ n + (i - Len(a)) = i + 1
          BY <1>1, <2>1, <2>3, <4>2
        <5> QED
          BY <2>4, <3>1, <3>2, <4>2, <5>1
      <4> QED
        BY <4>1, <4>2
    <3> QED
      BY <3>1, <3>2, <3>3
  <2>6. \A i, k \in 1..Len(t) : t[i] = t[k] => i = k
    BY <1>1, <2>1, <2>5
  <2>7. ASSUME NEW x
        PROVE  (\E i \in 1..Len(t) : t[i] = x) <=> x # e /\ \E i \in 1..Len(s) : s[i] = x
    <3>1. ASSUME NEW i \in 1..Len(t), t[i] = x
          PROVE  x # e /\ \E k \in 1..Len(s) : s[k] = x
      BY <1>1, <2>1, <2>5, <3>1
    <3>2. ASSUME NEW k \in 1..Len(s), s[k] = x, x # e
          PROVE  \E i \in 1..Len(t) : t[i] = x
      <4>1. CASE k < n
        BY <1>1, <2>1, <2>5, <3>2, <4>1
      <4>2. CASE k > n
        <5>1. k - 1 \in 1..Len(t) /\ t[k - 1] = s[k]
          BY <1>1, <2>1, <2>5, <4>2
        <5> QED
          BY <3>2, <5>1
      <4>3. k # n
        BY <2>1, <3>2
      <4> QED
        BY <1>1, <2>1, <4>1, <4>2, <4>3
    <3> QED
      BY <3>1, <3>2
  <2>8. /\ t \in Seq(S)
        /\ \A i, k \in 1..Len(t) : t[i] = t[k] => i = k
        /\ \A x : (\E i \in 1..Len(t) : t[i] = x) <=> x # e /\ \E i \in 1..Len(s) : s[i] = x
        /\ Len(t) = IF \E i \in 1..Len(s) : s[i] = e THEN Len(s) - 1 ELSE Len(s)
    BY <1>3, <2>5, <2>6, <2>7
  <2> QED
    BY <2>8 DEF t
<1> QED
  BY <1>2, <1>3
-----------------------------------------------------------------------------
(* The receiver lists. *)

AnyDev == Devs \cup {AllDevs}
ListIds == {<<"err">>, <<"inv">>, <<"all">>, <<"fil">>} \cup ({"eff", "sff"} \X SUBSET Bits)
RcvRec == [state : {"free", "on", "off"}, dev : AnyDev \cup {NIL}, list : ListIds \cup {NIL},
           id : SUBSET Bits, mask : SUBSET Bits, owner : Owners \cup {NIL},
           nxt : Slots \cup {NIL}, asked : CanFilters \cup {NIL}, gp : SUBSET Cpus]
WalkRec == [frame : FrameRec \cup {NIL}, todo : Seq(AnyDev \X ListIds), at : Slots \cup {NIL},
            call : BOOLEAN, start : SUBSET Slots, hits : Seq(Slots)]

CoreTypeOK ==
  /\ rcv \in [Slots -> RcvRec] /\ walk \in [Cpus -> WalkRec]
  /\ waits \in [Deferred -> SUBSET Cpus]
  /\ backlog \in Seq(FrameRec) /\ up \in [Devs -> BOOLEAN]

\* An unlinked receiver leads to one that is in the list or outlives it, and so
\* does every walk that stands on one.
SlotOK(s) ==
  /\ rcv[s].state = "free" => rcv[s] = Free
  /\ rcv[s].gp \subseteq Readers
  /\ rcv[s].state = "on" => rcv[s].nxt \in On \cup {NIL} /\ rcv[s].owner # NIL
  /\ rcv[s].state = "off" =>
       /\ rcv[s].gp # {} /\ rcv[s].owner # NIL
       /\ LET n == rcv[s].nxt
          IN n # NIL => rcv[n].state = "on" \/ (rcv[n].state = "off" /\ rcv[s].gp \subseteq rcv[n].gp)

\* The links have no loop: every set of receivers has a first one.
Acyclic ==
  \A T \in SUBSET On : T # {} => \E t \in T : \A u \in T : rcv[u].nxt # t

ListInv == (\A s \in Slots : SlotOK(s)) /\ Acyclic

WalkOK(c) ==
  LET w == walk[c] s == walk[c].at
  IN /\ w.frame = NIL => w = Idle
     /\ s = NIL => ~w.call
     /\ s # NIL => rcv[s].state = "on" \/ (rcv[s].state = "off" /\ c \in rcv[s].gp)

WalkInv == \A c \in Cpus : WalkOK(c)


-----------------------------------------------------------------------------
(* What lists and walks are. *)

LEMMA ListHeadIn ==
  ASSUME Acyclic, NEW d, NEW l
  PROVE  ListHead(d, l) \in OnList(d, l) \cup {NIL}
<1> DEFINE T == OnList(d, l)
<1>1. T \in SUBSET On
  BY DEF OnList
<1>2. T # {} => \E s \in T : \A t \in T : rcv[t].nxt # s
  BY <1>1 DEF Acyclic
<1> QED
  BY <1>2 DEF ListHead

\* Of what can_rx_unregister() finds one is the first: hlist_for_each_entry_rcu()
\* of a list without a loop comes to it.
LEMMA FirstIn ==
  ASSUME Acyclic, NEW found \in SUBSET On, found # {}
  PROVE  First(found) \in found
<1> DEFINE Clean(B) == B \in SUBSET (On \ found) /\ \A x \in On : rcv[x].nxt \in B => x \in B
           All == UNION {B \in SUBSET (On \ found) : Clean(B)}
           T == On \ All
<1>1. All \subseteq On \ found
  OBVIOUS
<1>2. Clean(All)
  <2>1. \A x \in On : rcv[x].nxt \in All => x \in All
    OBVIOUS
  <2> QED
    BY <1>1, <2>1
<1>3. T \in SUBSET On /\ T # {}
  BY <1>1
<1>4. PICK t \in T : \A u \in T : rcv[u].nxt # t
  BY <1>3 DEF Acyclic
<1>5. InFront(t, All)
  BY <1>2, <1>4 DEF InFront
<1>6. t \in found
  <2> SUFFICES ASSUME t \notin found PROVE FALSE
    OBVIOUS
  <2> DEFINE B == All \cup {t}
  <2>1. B \in SUBSET (On \ found)
    BY <1>1
  <2>2. \A x \in On : rcv[x].nxt \in B => x \in B
    BY <1>5 DEF InFront
  <2>3. t \in All
    BY <2>1, <2>2
  <2> QED
    BY <2>3
<1>7. \E s \in found : \E before \in SUBSET (On \ found) : InFront(s, before)
  BY <1>1, <1>5, <1>6
<1> QED
  BY <1>7 DEF First

LEMMA FindType ==
  ASSUME NEW f \in CanFilters
  PROVE  can_rcv_list_find(f) \in [list : ListIds, id : SUBSET Bits, mask : SUBSET Bits]
<1>1. \A i : effhash(i) \in SUBSET Bits
  BY DEF effhash, Bits
<1>2. Reduced(f) \in SUBSET Bits
  BY DEF Reduced, CanFilters, FilterRec
<1>3. f.id \in SUBSET Bits /\ f.mask \in SUBSET Bits
  BY DEF CanFilters, FilterRec
<1> QED
  BY <1>1, <1>2, <1>3 DEF can_rcv_list_find, ListIds

LEMMA ListsType ==
  ASSUME NEW id \in SUBSET Bits
  PROVE  Lists(id) \in Seq(ListIds)
<1>1. \A i : effhash(i) \in SUBSET Bits
  BY DEF effhash, Bits
<1>2. << <<"err">> >> \in Seq(ListIds) /\ << <<"all">>, <<"fil">>, <<"inv">> >> \in Seq(ListIds)
  BY DEF ListIds
<1>3. <<"eff", effhash(id)>> \in ListIds /\ <<"sff", id \cap SFF_MASK>> \in ListIds
  BY <1>1 DEF ListIds
<1> DEFINE tail == CASE RTR \in id -> <<>>
                     [] RTR \notin id /\ EFF \in id -> << <<"eff", effhash(id)>> >>
                     [] OTHER -> << <<"sff", id \cap SFF_MASK>> >>
<1>4. tail \in Seq(ListIds)
  <2> HIDE DEF ListIds
  <2>1. <<>> \in Seq(ListIds) /\ \A x \in ListIds : <<x>> \in Seq(ListIds)
    OBVIOUS
  <2> QED
    BY <1>3, <2>1
<1> HIDE DEF tail
<1>5. << <<"all">>, <<"fil">>, <<"inv">> >> \o tail \in Seq(ListIds)
  BY <1>2, <1>4, ConcatProperties
<1> QED
  BY <1>2, <1>5 DEF Lists, tail

-----------------------------------------------------------------------------
(* What registration does to the lists. *)

CoreInv == CoreTypeOK /\ ListInv /\ WalkInv

New(dev, f, o) ==
  LET l == can_rcv_list_find(f)
  IN [state |-> "on", dev |-> dev, list |-> l.list, id |-> l.id, mask |-> l.mask, owner |-> o,
      nxt |-> ListHead(dev, l.list), asked |-> f, gp |-> {}]

Links(s, dev, f, o) == s \in Slots /\ rcv[s] = Free /\ rcv' = [rcv EXCEPT ![s] = New(dev, f, o)]

\* s leaves its list, and is freed at once when nobody walks.
Unlinks(s) ==
  /\ s \in On /\ rcv' \in [Slots -> RcvRec]
  /\ rcv'[s] = IF Readers = {} THEN Free
               ELSE [rcv[s] EXCEPT !.state = "off", !.gp = Readers]
  /\ \A x \in Slots \ {s} :
       rcv'[x] = IF x \in On /\ rcv[x].nxt = s THEN [rcv[x] EXCEPT !.nxt = rcv[s].nxt] ELSE rcv[x]

LEMMA RegisterLinks ==
  ASSUME NEW dev, NEW f, NEW o, can_rx_register(dev, f, o)
  PROVE  \E s \in Slots : Links(s, dev, f, o)
<1> DEFINE s == FirstFree(Slots, rcv, Free)
<1>1. s \in Slots /\ rcv[s] = Free
  BY DEF can_rx_register, FirstFree
<1>2. rcv' = [rcv EXCEPT ![s] = New(dev, f, o)]
  BY DEF can_rx_register, New
<1> QED
  BY <1>1, <1>2 DEF Links

LEMMA FreeType == Free \in RcvRec /\ Free.gp = {} /\ Free.state = "free" /\ Free.owner = NIL /\ Free.nxt = NIL
  BY DEF Free, RcvRec

LEMMA NewType ==
  ASSUME CoreInv, NEW dev \in AnyDev, NEW f \in CanFilters, NEW o \in Owners
  PROVE  New(dev, f, o) \in RcvRec
<1>1. ListHead(dev, can_rcv_list_find(f).list) \in Slots \cup {NIL}
  BY ListHeadIn DEF CoreInv, ListInv, OnList, On
<1> QED
  BY <1>1, FindType DEF New, RcvRec

LEMMA UnregisterUnlinks ==
  ASSUME CoreInv, NEW dev, NEW f, NEW o, can_rx_unregister(dev, f, o), Found(dev, f, o) # {}
  PROVE  \E s \in Found(dev, f, o) :
           /\ Unlinks(s)
           /\ refs' = IF Readers # {} /\ o \in Socks THEN [refs EXCEPT ![o] = @ + 1] ELSE refs
<1> DEFINE s == First(Found(dev, f, o))
           r == Unlinked(s)
<1>1. Found(dev, f, o) \in SUBSET On
  BY DEF Found, OnList
<1>2. s \in Found(dev, f, o) /\ s \in On /\ s \in Slots
  BY <1>1, FirstIn DEF CoreInv, ListInv, On
<1>3. rcv \in [Slots -> RcvRec] /\ Readers \subseteq Cpus /\ \A x \in Slots : SlotOK(x)
  BY DEF CoreInv, CoreTypeOK, ListInv, Readers
<1> HIDE DEF s
<1>4. /\ DOMAIN r = Slots
      /\ r[s] = [rcv[s] EXCEPT !.state = "off", !.gp = Readers]
      /\ \A x \in Slots \ {s} :
           r[x] = IF x \in On /\ rcv[x].nxt = s THEN [rcv[x] EXCEPT !.nxt = rcv[s].nxt] ELSE rcv[x]
  <2>1. r[s] = [rcv[s] EXCEPT !.state = "off", !.nxt = rcv[s].nxt, !.gp = Readers]
    BY <1>2 DEF Unlinked, Link, GracePeriod
  <2>2. rcv[s] \in RcvRec
    BY <1>2, <1>3
  <2>3. r[s] = [rcv[s] EXCEPT !.state = "off", !.gp = Readers]
    BY <2>1, <2>2 DEF RcvRec
  <2>4. \A x \in Slots \ {s} :
          r[x] = IF x \in On /\ rcv[x].nxt = s THEN [rcv[x] EXCEPT !.nxt = rcv[s].nxt] ELSE rcv[x]
    BY <1>2 DEF Unlinked
  <2> QED
    BY <2>3, <2>4 DEF Unlinked
<1>5. r \in [Slots -> RcvRec]
  <2>1. \A x \in Slots : r[x] \in RcvRec
    <3> SUFFICES ASSUME NEW x \in Slots PROVE r[x] \in RcvRec
      OBVIOUS
    <3>1. rcv[x] \in RcvRec /\ rcv[s] \in RcvRec
      BY <1>2, <1>3
    <3> HIDE DEF r
    <3>2. CASE x = s
      BY <1>3, <1>4, <3>1, <3>2 DEF RcvRec
    <3>3. CASE x # s
      BY <1>3, <1>4, <3>1, <3>3 DEF RcvRec
    <3> QED
      BY <3>2, <3>3
  <2>2. r = [x \in Slots |-> r[x]]
    BY DEF Unlinked
  <2> QED
    BY <2>1, <2>2
<1>6. Expired(r) = IF Readers = {} THEN {s} ELSE {}
  <2> SUFFICES ASSUME NEW x \in Slots
               PROVE  r[x].state = "off" /\ r[x].gp = {} <=> x = s /\ Readers = {}
    BY <1>2 DEF Expired
  <2>1. rcv[x] \in RcvRec /\ SlotOK(x)
    BY <1>3
  <2> HIDE DEF r
  <2>2. CASE x = s
    BY <1>4, <2>1, <2>2 DEF RcvRec
  <2>3. CASE x # s
    BY <1>4, <2>1, <2>3 DEF RcvRec, SlotOK, On
  <2> QED
    BY <2>2, <2>3
<1>7. rcv' = can_rx_delete_receiver(r) /\ refs' = IF Expired(r) = {} /\ o \in Socks
                                               THEN [refs EXCEPT ![o] = @ + Held(o)] ELSE refs
  BY DEF can_rx_unregister, s
<1> HIDE DEF r
<1>8. Unlinks(s)
  BY <1>2, <1>4, <1>5, <1>6, <1>7, FreeType DEF Unlinks, can_rx_delete_receiver
<1>9. refs' = IF Readers # {} /\ o \in Socks THEN [refs EXCEPT ![o] = @ + 1] ELSE refs
  BY <1>6, <1>7 DEF Held
<1> QED
  BY <1>2, <1>8, <1>9

\* A receiver that joins its list disturbs neither the others nor a walk.
LEMMA LinkKeeps ==
  ASSUME CoreInv, NEW dev \in AnyDev, NEW f \in CanFilters, NEW o \in Owners,
         NEW s \in Slots, Links(s, dev, f, o), UNCHANGED walk
  PROVE  rcv' \in [Slots -> RcvRec] /\ ListInv' /\ WalkInv'
<1>1. /\ rcv \in [Slots -> RcvRec] /\ (\A x \in Slots : SlotOK(x)) /\ Acyclic /\ NIL \notin Slots
      /\ o # NIL
  BY CanRxAssumption DEF CoreInv, CoreTypeOK, ListInv
<1>2. /\ s \in Slots /\ rcv[s] = Free /\ rcv' = [rcv EXCEPT ![s] = New(dev, f, o)]
  BY DEF Links
<1> DEFINE h == ListHead(dev, can_rcv_list_find(f).list)
<1>3. /\ New(dev, f, o) \in RcvRec /\ New(dev, f, o).state = "on" /\ New(dev, f, o).nxt = h
      /\ New(dev, f, o).owner = o /\ New(dev, f, o).gp = {}
  BY NewType DEF New
<1>4. h \in On \cup {NIL} /\ s \notin On /\ On \subseteq Slots
  BY ListHeadIn, <1>1, <1>2, FreeType DEF OnList, On
<1>5. rcv' \in [Slots -> RcvRec] /\ rcv'[s] = New(dev, f, o) /\ \A x \in Slots \ {s} : rcv'[x] = rcv[x]
  BY <1>1, <1>2, <1>3
<1>6. On' = On \cup {s} /\ Readers' = Readers
  BY <1>3, <1>4, <1>5 DEF On, Readers
<1> HIDE DEF h
<1>7. ASSUME NEW x \in Slots PROVE SlotOK(x)'
  <2>1. CASE x = s
    BY <1>1, <1>3, <1>4, <1>5, <1>6, <2>1 DEF SlotOK
  <2>2. CASE x # s
    <3>1. SlotOK(x) /\ rcv'[x] = rcv[x] /\ rcv[x] \in RcvRec
      BY <1>1, <1>5, <2>2
    <3>2. rcv[x].state = "off" /\ rcv[x].nxt # NIL =>
            /\ rcv[x].nxt \in Slots \ {s} /\ rcv'[rcv[x].nxt] = rcv[rcv[x].nxt]
      <4> SUFFICES ASSUME rcv[x].state = "off", rcv[x].nxt # NIL
                   PROVE  rcv[x].nxt \in Slots \ {s}
        BY <1>5
      <4> QED
        BY <1>1, <1>2, <3>1, FreeType DEF SlotOK, RcvRec
    <3> QED
      BY <1>6, <3>1, <3>2 DEF SlotOK
  <2> QED
    BY <2>1, <2>2
<1>8. Acyclic'
  <2> SUFFICES ASSUME NEW T \in SUBSET (On \cup {s}), T # {}
               PROVE  \E t \in T : \A u \in T : rcv'[u].nxt # t
    BY <1>6 DEF Acyclic
  <2>1. \A u \in On : u \in Slots \ {s} /\ rcv[u].nxt \in On \cup {NIL} /\ rcv'[u].nxt = rcv[u].nxt
    BY <1>1, <1>4, <1>5 DEF SlotOK, On
  <2>2. CASE s \in T
    <3>1. \A u \in T : rcv'[u].nxt # s
      BY <1>1, <1>3, <1>4, <1>5, <2>1
    <3> QED
      BY <2>2, <3>1
  <2>3. CASE s \notin T
    <3>1. T \in SUBSET On
      BY <2>3
    <3>2. PICK t \in T : \A u \in T : rcv[u].nxt # t
      BY <1>1, <3>1 DEF Acyclic
    <3> QED
      BY <2>1, <3>1, <3>2
  <2> QED
    BY <2>2, <2>3
<1>9. ASSUME NEW c \in Cpus PROVE WalkOK(c)'
  <2>1. WalkOK(c) /\ walk' = walk /\ walk[c].at \in Slots \cup {NIL}
    BY DEF CoreInv, WalkInv, CoreTypeOK, WalkRec
  <2>2. walk[c].at # NIL => walk[c].at # s
    BY <1>2, <2>1, FreeType DEF WalkOK
  <2> QED
    BY <1>5, <2>1, <2>2 DEF WalkOK
<1> QED
  BY <1>5, <1>7, <1>8, <1>9 DEF ListInv, WalkInv

\* One that leaves it keeps its link, and lasts as long as the walks of that moment.
LEMMA UnlinkKeeps ==
  ASSUME CoreInv, NEW s \in Slots, Unlinks(s), UNCHANGED walk
  PROVE  rcv' \in [Slots -> RcvRec] /\ ListInv' /\ WalkInv'
<1>1. /\ rcv \in [Slots -> RcvRec] /\ (\A x \in Slots : SlotOK(x)) /\ Acyclic /\ NIL \notin Slots
      /\ \A c \in Cpus : WalkOK(c) /\ walk[c].at \in Slots \cup {NIL}
  BY CanRxAssumption DEF CoreInv, CoreTypeOK, ListInv, WalkInv, WalkRec
<1>2. /\ s \in On /\ rcv' \in [Slots -> RcvRec] /\ rcv[s] \in RcvRec /\ rcv[s].state = "on"
      /\ On \subseteq Slots /\ Readers' = Readers /\ Readers \subseteq Cpus
  BY <1>1 DEF Unlinks, On, Readers
<1>3. /\ Readers = {} => rcv'[s] = Free
      /\ Readers # {} => /\ rcv'[s].state = "off" /\ rcv'[s].gp = Readers
                         /\ rcv'[s].nxt = rcv[s].nxt /\ rcv'[s].owner = rcv[s].owner
  BY <1>2 DEF Unlinks, RcvRec
<1>4. ASSUME NEW x \in Slots \ {s}
      PROVE  /\ rcv'[x].state = rcv[x].state /\ rcv'[x].gp = rcv[x].gp /\ rcv'[x].owner = rcv[x].owner
             /\ rcv'[x].nxt = IF x \in On /\ rcv[x].nxt = s THEN rcv[s].nxt ELSE rcv[x].nxt
             /\ x \notin On => rcv'[x] = rcv[x]
  <2>1. rcv[x] \in RcvRec
    BY <1>1
  <2> QED
    BY <1>2, <2>1 DEF Unlinks, RcvRec
<1>5. On' = On \ {s}
  BY <1>2, <1>3, <1>4, FreeType DEF On
<1>6. rcv[s].nxt \in (On \ {s}) \cup {NIL}
  <2>1. rcv[s].nxt \in On \cup {NIL}
    BY <1>1, <1>2 DEF SlotOK
  <2>2. rcv[s].nxt # s
    <3>1. {s} \in SUBSET On /\ {s} # {}
      BY <1>2
    <3>2. \E t \in {s} : \A u \in {s} : rcv[u].nxt # t
      BY <1>1, <3>1 DEF Acyclic
    <3> QED
      BY <3>2
  <2> QED
    BY <2>1, <2>2
<1>7. ASSUME NEW x \in Slots PROVE SlotOK(x)'
  <2>1. SlotOK(x) /\ rcv[x] \in RcvRec /\ rcv'[x] \in RcvRec
    BY <1>1, <1>2
  <2>2. CASE x = s
    <3>1. CASE Readers = {}
      BY <1>3, <2>2, <3>1, FreeType DEF SlotOK
    <3>2. CASE Readers # {}
      BY <1>1, <1>2, <1>3, <1>4, <1>5, <1>6, <2>2, <3>2 DEF SlotOK, On
    <3> QED
      BY <3>1, <3>2
  <2>3. CASE x # s /\ rcv[x].state = "on"
    <3>1. rcv[x].nxt \in On \cup {NIL} /\ x \in On
      BY <2>1, <2>3 DEF SlotOK, On
    <3> QED
      BY <1>2, <1>4, <1>5, <1>6, <2>1, <2>3, <3>1 DEF SlotOK
  <2>4. CASE x # s /\ rcv[x].state = "off"
    <3>1. x \notin On /\ rcv'[x] = rcv[x]
      BY <1>4, <2>4 DEF On
    <3> DEFINE n == rcv[x].nxt
    <3>2. n # NIL => n \in Slots /\ (rcv[n].state = "on" \/ (rcv[n].state = "off" /\ rcv[x].gp \subseteq rcv[n].gp))
      BY <2>1, <2>4 DEF SlotOK, RcvRec
    <3>3. rcv[x].gp \subseteq Readers /\ rcv[x].gp # {}
      BY <2>1, <2>4 DEF SlotOK
    <3>4. n # NIL => rcv'[n].state = "on" \/ (rcv'[n].state = "off" /\ rcv[x].gp \subseteq rcv'[n].gp)
      <4>1. CASE n = s
        BY <1>3, <3>3, <4>1
      <4>2. CASE n # s
        BY <1>4, <3>2, <4>2
      <4> QED
        BY <4>1, <4>2
    <3> HIDE DEF n
    <3> QED
      BY <1>2, <2>1, <2>4, <3>1, <3>4 DEF SlotOK, n
  <2>5. CASE x # s /\ rcv[x].state = "free"
    BY <1>2, <1>4, <2>1, <2>5 DEF SlotOK, On
  <2> QED
    BY <2>1, <2>2, <2>3, <2>4, <2>5 DEF RcvRec
<1>8. Acyclic'
  <2> SUFFICES ASSUME NEW T \in SUBSET (On \ {s}), T # {}
               PROVE  \E t \in T : \A u \in T : rcv'[u].nxt # t
    BY <1>5 DEF Acyclic
  <2>1. \A u \in T : rcv'[u].nxt = IF rcv[u].nxt = s THEN rcv[s].nxt ELSE rcv[u].nxt
    BY <1>2, <1>4
  <2>2. CASE \E u \in T : rcv[u].nxt = s
    <3>1. T \cup {s} \in SUBSET On
      BY <1>2
    <3>2. PICK t \in T \cup {s} : \A u \in T \cup {s} : rcv[u].nxt # t
      BY <1>1, <3>1 DEF Acyclic
    <3>3. t \in T
      BY <2>2, <3>2
    <3> QED
      BY <2>1, <3>2, <3>3
  <2>3. CASE ~\E u \in T : rcv[u].nxt = s
    <3>1. PICK t \in T : \A u \in T : rcv[u].nxt # t
      BY <1>1 DEF Acyclic
    <3> QED
      BY <2>1, <2>3, <3>1
  <2> QED
    BY <2>2, <2>3
<1>9. ASSUME NEW c \in Cpus PROVE WalkOK(c)'
  <2>1. WalkOK(c) /\ walk' = walk /\ walk[c].at \in Slots \cup {NIL}
    BY <1>1
  <2>2. walk[c].at # NIL => c \in Readers
    BY <2>1 DEF WalkOK, Readers, Idle
  <2>3. CASE walk[c].at = s
    BY <1>1, <1>3, <2>1, <2>2, <2>3 DEF WalkOK
  <2>4. CASE walk[c].at # s
    BY <1>4, <2>1, <2>4 DEF WalkOK
  <2> QED
    BY <2>3, <2>4
<1> QED
  BY <1>2, <1>7, <1>8, <1>9 DEF ListInv, WalkInv

-----------------------------------------------------------------------------
(* What a reception does. *)

\* One walk changes, the lists stay.
LEMMA WalkKeeps ==
  ASSUME CoreInv, NEW c \in Cpus, NEW w \in WalkRec, UNCHANGED rcv, walk' = [walk EXCEPT ![c] = w],
         w.frame # NIL, w.at = NIL => ~w.call,
         w.at # NIL => rcv[w.at].state = "on" \/ (rcv[w.at].state = "off" /\ c \in rcv[w.at].gp)
  PROVE  rcv' \in [Slots -> RcvRec] /\ walk' \in [Cpus -> WalkRec] /\ ListInv' /\ WalkInv'
<1>1. /\ rcv \in [Slots -> RcvRec] /\ walk \in [Cpus -> WalkRec]
      /\ (\A x \in Slots : SlotOK(x)) /\ Acyclic /\ \A d \in Cpus : WalkOK(d)
  BY DEF CoreInv, CoreTypeOK, ListInv, WalkInv
<1>2. /\ walk' \in [Cpus -> WalkRec] /\ walk'[c] = w /\ \A d \in Cpus \ {c} : walk'[d] = walk[d]
      /\ rcv' = rcv
  BY <1>1
<1>3. Readers \subseteq Readers' /\ On' = On
  BY <1>2 DEF Readers, On
<1>4. \A x \in Slots : SlotOK(x)'
  BY <1>1, <1>2, <1>3 DEF SlotOK
<1>5. Acyclic'
  BY <1>1, <1>2, <1>3 DEF Acyclic
<1>6. ASSUME NEW d \in Cpus PROVE WalkOK(d)'
  BY <1>1, <1>2 DEF WalkOK
<1> QED
  BY <1>1, <1>2, <1>4, <1>5, <1>6 DEF ListInv, WalkInv

\* The next receiver is the one behind, or the first of the first list left that has any.
LEMMA NextIs ==
  ASSUME NEW w \in WalkRec, NEW n, n = NextAt(w)
  PROVE  \/ w.at # NIL /\ rcv[w.at].nxt # NIL /\ n.at = rcv[w.at].nxt /\ n.todo = w.todo
         \/ /\ ~(w.at # NIL /\ rcv[w.at].nxt # NIL)
            /\ n.at = NIL /\ n.todo = <<>>
            /\ \A m \in 1..Len(w.todo) : ListHead(w.todo[m][1], w.todo[m][2]) = NIL
         \/ /\ ~(w.at # NIL /\ rcv[w.at].nxt # NIL)
            /\ \E i \in 1..Len(w.todo) :
                 /\ n.at = ListHead(w.todo[i][1], w.todo[i][2]) /\ n.at # NIL
                 /\ \A m \in 1..(i - 1) : ListHead(w.todo[m][1], w.todo[m][2]) = NIL
                 /\ n.todo \in Seq(AnyDev \X ListIds) /\ Len(n.todo) = Len(w.todo) - i
                 /\ \A m \in 1..(Len(w.todo) - i) : n.todo[m] = w.todo[i + m]
<1> DEFINE t == w.todo
           H(m) == ListHead(t[m][1], t[m][2])
           I == {m \in 1..Len(t) : H(m) # NIL}
           i == SelectInSeq(t, LAMBDA l : ListHead(l[1], l[2]) # NIL)
<1>1. t \in Seq(AnyDev \X ListIds) /\ Len(t) \in Nat
  BY LenProperties DEF WalkRec
<1>2. i = IF I # {} THEN Min(I) ELSE 0
  BY DEF SelectInSeq
<1>3. n = IF w.at # NIL /\ rcv[w.at].nxt # NIL
          THEN [at |-> rcv[w.at].nxt, todo |-> t]
          ELSE IF i = 0 THEN [at |-> NIL, todo |-> <<>>]
               ELSE [at |-> H(i), todo |-> SubSeq(t, i + 1, Len(t))]
  BY DEF NextAt
<1>4. I \in SUBSET Nat
  BY <1>1
<1>5. I # {} => Min(I) \in I /\ \A m \in I : Min(I) <= m
  <2> HIDE DEF I
  <2> QED
    BY <1>4, LeastIn
<1>6. I # {} => i \in 1..Len(t) /\ H(i) # NIL /\ \A m \in 1..(i - 1) : H(m) = NIL
  <2> SUFFICES ASSUME I # {} PROVE i \in 1..Len(t) /\ H(i) # NIL /\ \A m \in 1..(i - 1) : H(m) = NIL
    OBVIOUS
  <2>1. i \in I /\ \A m \in I : i <= m
    <3> HIDE DEF i, I
    <3> QED
      BY <1>2, <1>5
  <2> HIDE DEF i, H
  <2> QED
    BY <1>1, <2>1
<1>7. I = {} => i = 0 /\ \A m \in 1..Len(t) : H(m) = NIL
  BY <1>2
<1>8. 0 \notin 1..Len(t)
  BY <1>1
<1> HIDE DEF i, I, H
<1>9. CASE w.at # NIL /\ rcv[w.at].nxt # NIL
  BY <1>3, <1>9
<1>10. CASE ~(w.at # NIL /\ rcv[w.at].nxt # NIL) /\ I = {}
  <2>1. n.at = NIL /\ n.todo = <<>>
    BY <1>3, <1>7, <1>10
  <2> QED
    BY <1>7, <1>10, <2>1 DEF H
<1>11. CASE ~(w.at # NIL /\ rcv[w.at].nxt # NIL) /\ I # {}
  <2> DEFINE r == SubSeq(t, i + 1, Len(t))
  <2>1. n = [at |-> H(i), todo |-> r]
    BY <1>3, <1>6, <1>8, <1>11
  <2>2. n.at = H(i) /\ n.todo = r
    <3> HIDE DEF r
    <3> QED
      BY <2>1
  <2>3. r \in Seq(AnyDev \X ListIds) /\ Len(r) = Len(t) - i /\ \A m \in 1..(Len(t) - i) : r[m] = t[i + m]
    <3> HIDE DEF AnyDev, ListIds, t
    <3>1. \A m \in (i + 1)..Len(t) : t[m] \in AnyDev \X ListIds
      BY <1>1, <1>6, <1>11, ElementOfSeq
    <3>2. i + 1 \in Int /\ Len(t) \in Int
      BY <1>1, <1>6, <1>11
    <3>3. /\ r \in Seq(AnyDev \X ListIds)
          /\ Len(r) = IF i + 1 <= Len(t) THEN Len(t) - (i + 1) + 1 ELSE 0
          /\ \A m \in 1 .. Len(t) - (i + 1) + 1 : r[m] = t[(i + 1) + m - 1]
      BY <3>1, <3>2, SubSeqProperties
    <3> HIDE DEF r
    <3>4. \A m \in 1..(Len(t) - i) : m \in 1 .. Len(t) - (i + 1) + 1 /\ (i + 1) + m - 1 = i + m
      BY <1>1, <1>6, <1>11
    <3>5. i \in 1..Len(t) /\ Len(t) \in Nat
      BY <1>1, <1>6, <1>11
    <3>6. Len(r) = Len(t) - i
      BY <3>3, <3>5
    <3>7. \A m \in 1..(Len(t) - i) : r[m] = t[i + m]
      BY <3>3, <3>4
    <3> QED
      BY <3>3, <3>6, <3>7
  <2> HIDE DEF r
  <2> QED
    BY <1>6, <1>11, <2>2, <2>3 DEF H
<1> QED
  BY <1>9, <1>10, <1>11

\* The next receiver is in a list, or the one before leads to it in time.
LEMMA NextAtType ==
  ASSUME CoreInv, NEW c \in Cpus, walk[c].frame # NIL, NEW n, n = NextAt(walk[c])
  PROVE  /\ n.at \in Slots \cup {NIL} /\ n.todo \in Seq(AnyDev \X ListIds)
         /\ n.at # NIL => rcv[n.at].state = "on" \/ (rcv[n.at].state = "off" /\ c \in rcv[n.at].gp)
<1> DEFINE w == walk[c]
<1>1. /\ w \in WalkRec /\ WalkOK(c) /\ Acyclic /\ (\A x \in Slots : SlotOK(x) /\ rcv[x] \in RcvRec)
      /\ w.todo \in Seq(AnyDev \X ListIds)
  BY DEF CoreInv, CoreTypeOK, ListInv, WalkInv, WalkRec
<1>2. CASE w.at # NIL /\ rcv[w.at].nxt # NIL /\ n.at = rcv[w.at].nxt /\ n.todo = w.todo
  <2>1. w.at \in Slots /\ rcv[w.at].nxt \in Slots
    BY <1>1, <1>2 DEF WalkRec, RcvRec
  <2>2. rcv[w.at].state = "on" \/ (rcv[w.at].state = "off" /\ c \in rcv[w.at].gp)
    BY <1>1, <1>2 DEF WalkOK
  <2> QED
    BY <1>1, <1>2, <2>1, <2>2 DEF SlotOK, On
<1>3. CASE n.at = NIL /\ n.todo = <<>>
  BY <1>3
<1>4. CASE \E i \in 1..Len(w.todo) : /\ n.at = ListHead(w.todo[i][1], w.todo[i][2]) /\ n.at # NIL
                                     /\ n.todo \in Seq(AnyDev \X ListIds)
  <2>1. n.at \in On /\ n.todo \in Seq(AnyDev \X ListIds)
    BY <1>1, <1>4, ListHeadIn DEF OnList
  <2> QED
    BY <2>1 DEF On
<1> QED
  BY <1>1, <1>2, <1>3, <1>4, NextIs

LEMMA AdvanceKeeps ==
  ASSUME CoreInv, NEW c \in Cpus, can_rcv_filter(c)
  PROVE  CoreInv'
<1> DEFINE n == NextAt(walk[c])
           hit == n.at # NIL /\ Matches(rcv[n.at], walk[c].frame.id)
           w == Advanced(walk[c])
<1>1. walk[c].frame # NIL /\ walk[c] \in WalkRec
  BY DEF can_rcv_filter, Walking, CoreInv, CoreTypeOK
<1>2. /\ n.at \in Slots \cup {NIL} /\ n.todo \in Seq(AnyDev \X ListIds)
      /\ n.at # NIL => rcv[n.at].state = "on" \/ (rcv[n.at].state = "off" /\ c \in rcv[n.at].gp)
  BY <1>1, NextAtType
<1>3. walk' = [walk EXCEPT ![c] = w] /\ UNCHANGED <<rcv, waits, refs, backlog, up>>
  BY Zenon DEF can_rcv_filter
<1> HIDE DEF n
<1>4. hit \in BOOLEAN
  BY DEF Matches
<1> HIDE DEF hit
<1>5. (IF hit THEN Append(walk[c].hits, n.at) ELSE walk[c].hits) \in Seq(Slots)
  <2>1. walk[c].hits \in Seq(Slots)
    BY <1>1 DEF WalkRec
  <2>2. hit => n.at \in Slots
    BY <1>2 DEF hit
  <2> QED
    BY <2>1, <2>2, AppendProperties
<1>6. w \in WalkRec /\ w.frame = walk[c].frame /\ w.at = n.at /\ w.call = hit
  <2>1. w = [walk[c] EXCEPT !.at = n.at, !.todo = n.todo, !.call = hit,
                            !.hits = IF hit THEN Append(walk[c].hits, n.at) ELSE walk[c].hits]
    BY Zenon DEF Advanced, n, hit
  <2> QED
    BY <1>1, <1>2, <1>4, <1>5, <2>1 DEF WalkRec
<1>7. w.at = NIL => ~w.call
  BY <1>6 DEF hit
<1> HIDE DEF w
<1>8. rcv' \in [Slots -> RcvRec] /\ walk' \in [Cpus -> WalkRec] /\ ListInv' /\ WalkInv'
  BY <1>1, <1>2, <1>3, <1>6, <1>7, WalkKeeps
<1> QED
  BY <1>3, <1>8 DEF CoreInv, CoreTypeOK

LEMMA ReturnedKeeps ==
  ASSUME CoreInv, NEW c \in Cpus, walk[c].frame # NIL, Returned(c), UNCHANGED rcv
  PROVE  rcv' \in [Slots -> RcvRec] /\ walk' \in [Cpus -> WalkRec] /\ ListInv' /\ WalkInv'
<1> DEFINE w == [walk[c] EXCEPT !.call = FALSE]
<1>1. walk \in [Cpus -> WalkRec] /\ walk[c] \in WalkRec /\ WalkOK(c)
  BY DEF CoreInv, CoreTypeOK, WalkInv
<1>2. walk' = [walk EXCEPT ![c] = w]
  BY <1>1 DEF Returned
<1>3. w \in WalkRec /\ w.frame = walk[c].frame /\ w.at = walk[c].at /\ ~w.call
  BY <1>1 DEF WalkRec
<1> HIDE DEF w
<1> QED
  BY <1>1, <1>2, <1>3, WalkKeeps DEF WalkOK

LEMMA ReceiveKeeps ==
  ASSUME CoreInv, NEW c \in Cpus, NEW f \in FrameRec, f # NIL, can_receive(c, f), UNCHANGED rcv
  PROVE  rcv' \in [Slots -> RcvRec] /\ walk' \in [Cpus -> WalkRec] /\ ListInv' /\ WalkInv'
<1> DEFINE L == Lists(f.id)
           Of(d) == [i \in 1..Len(L) |-> <<d, L[i]>>]
           w == [frame |-> f, todo |-> Of(AllDevs) \o Of(f.dev), at |-> NIL, call |-> FALSE,
                 start |-> On, hits |-> <<>>]
<1>1. walk' = [walk EXCEPT ![c] = w]
  BY DEF can_receive
<1>2. L \in Seq(ListIds) /\ f.dev \in AnyDev /\ AllDevs \in AnyDev
  BY ListsType, CanRxAssumption DEF FrameRec, AnyDev
<1>3. ASSUME NEW d \in AnyDev PROVE Of(d) \in Seq(AnyDev \X ListIds)
  <2> HIDE DEF AnyDev, ListIds, L
  <2>1. Len(L) \in Nat /\ \A i \in 1..Len(L) : L[i] \in ListIds
    BY <1>2, LenProperties, ElementOfSeq
  <2>2. Of(d) \in [1..Len(L) -> AnyDev \X ListIds]
    BY <2>1
  <2> QED
    BY <2>1, <2>2
<1>4. Of(AllDevs) \o Of(f.dev) \in Seq(AnyDev \X ListIds)
  <2> HIDE DEF Of, AnyDev, ListIds
  <2> QED
    BY <1>2, <1>3, ConcatProperties
<1>5. w \in WalkRec /\ w.frame = f /\ w.at = NIL /\ ~w.call
  <2>1. On \subseteq Slots /\ <<>> \in Seq(Slots)
    BY DEF On
  <2> HIDE DEF Of, AnyDev, ListIds
  <2> QED
    BY <1>4, <2>1 DEF WalkRec
<1> HIDE DEF w
<1> QED
  BY <1>1, <1>5, WalkKeeps

\* The end of a walk: what waited for it alone is freed.
LEMMA UnlockKeeps ==
  ASSUME CoreInv, NEW c \in Cpus, rcu_read_unlock(c)
  PROVE  /\ rcv' \in [Slots -> RcvRec] /\ walk' \in [Cpus -> WalkRec] /\ ListInv' /\ WalkInv'
         /\ \A x \in Slots : rcv'[x] = IF rcv[x].state = "off" /\ rcv[x].gp \subseteq {c} THEN Free
                                       ELSE [rcv[x] EXCEPT !.gp = @ \ {c}]
<1>1. /\ rcv \in [Slots -> RcvRec] /\ walk \in [Cpus -> WalkRec] /\ NIL \notin Slots
      /\ (\A x \in Slots : SlotOK(x) /\ rcv[x] \in RcvRec) /\ Acyclic /\ \A d \in Cpus : WalkOK(d)
  BY CanRxAssumption DEF CoreInv, CoreTypeOK, ListInv, WalkInv
<1> DEFINE r == [s \in Slots |-> [rcv[s] EXCEPT !.gp = @ \ {c}]]
<1>2. /\ walk' = [walk EXCEPT ![c] = Idle] /\ rcv' = can_rx_delete_receiver(r)
  BY DEF rcu_read_unlock
<1>3. \A x \in Slots : rcv'[x] = IF rcv[x].state = "off" /\ rcv[x].gp \subseteq {c} THEN Free
                                 ELSE [rcv[x] EXCEPT !.gp = @ \ {c}]
  <2> SUFFICES ASSUME NEW x \in Slots
               PROVE  x \in Expired(r) <=> rcv[x].state = "off" /\ rcv[x].gp \subseteq {c}
    BY <1>2 DEF can_rx_delete_receiver
  <2>1. r[x].state = rcv[x].state /\ r[x].gp = rcv[x].gp \ {c}
    BY <1>1 DEF RcvRec
  <2> HIDE DEF r
  <2> QED
    BY <2>1 DEF Expired
<1>4. DOMAIN rcv' = Slots /\ rcv' = [x \in Slots |-> rcv'[x]]
  BY <1>2 DEF can_rx_delete_receiver
<1> HIDE DEF r
<1>5. ASSUME NEW x \in Slots, ~(rcv[x].state = "off" /\ rcv[x].gp \subseteq {c})
      PROVE  /\ rcv'[x] \in RcvRec /\ rcv'[x].state = rcv[x].state /\ rcv'[x].gp = rcv[x].gp \ {c}
             /\ rcv'[x].nxt = rcv[x].nxt /\ rcv'[x].owner = rcv[x].owner
             /\ rcv[x] = Free => rcv'[x] = Free
  <2>1. rcv'[x] = [rcv[x] EXCEPT !.gp = @ \ {c}] /\ rcv[x] \in RcvRec
    BY <1>1, <1>3, <1>5
  <2>2. /\ rcv'[x] \in RcvRec /\ rcv'[x].state = rcv[x].state /\ rcv'[x].gp = rcv[x].gp \ {c}
        /\ rcv'[x].nxt = rcv[x].nxt /\ rcv'[x].owner = rcv[x].owner
    BY <2>1 DEF RcvRec
  <2>3. rcv[x] = Free => rcv'[x] = Free
    BY <2>1 DEF Free
  <2> QED
    BY <2>2, <2>3
<1>6. rcv' \in [Slots -> RcvRec]
  <2>1. \A x \in Slots : rcv'[x] \in RcvRec
    BY <1>3, <1>5, FreeType
  <2> QED
    BY <1>4, <2>1
<1>7. /\ walk' \in [Cpus -> WalkRec] /\ walk'[c] = Idle /\ \A d \in Cpus \ {c} : walk'[d] = walk[d]
  <2>1. Idle \in WalkRec
    BY DEF Idle, WalkRec
  <2> QED
    BY <1>1, <1>2, <2>1
<1>8. Readers' = Readers \ {c} /\ On' = On
  <2>1. Readers' = Readers \ {c}
    BY <1>7 DEF Readers, Idle
  <2>2. \A x \in Slots : rcv'[x].state = "on" <=> rcv[x].state = "on"
    BY <1>3, <1>5, FreeType
  <2> QED
    BY <2>1, <2>2 DEF On
<1>9. \A x \in On : rcv'[x].nxt = rcv[x].nxt
  BY <1>5 DEF On
<1>10. ASSUME NEW x \in Slots PROVE SlotOK(x)'
  <2>1. SlotOK(x) /\ rcv[x] \in RcvRec /\ Readers \subseteq Cpus
    BY <1>1 DEF Readers
  <2>2. CASE rcv[x].state = "off" /\ rcv[x].gp \subseteq {c}
    <3>1. rcv'[x] = Free
      BY <1>3, <2>2
    <3> QED
      BY <3>1, FreeType DEF SlotOK
  <2>3. CASE ~(rcv[x].state = "off" /\ rcv[x].gp \subseteq {c})
    <3>1. /\ rcv'[x].state = rcv[x].state /\ rcv'[x].gp = rcv[x].gp \ {c}
          /\ rcv'[x].nxt = rcv[x].nxt /\ rcv'[x].owner = rcv[x].owner
          /\ rcv[x] = Free => rcv'[x] = Free
      BY <1>5, <2>3
    <3>2. ASSUME rcv[x].state = "off", rcv[x].nxt # NIL
          PROVE  LET n == rcv[x].nxt
                 IN rcv'[n].state = "on" \/ (rcv'[n].state = "off" /\ rcv'[x].gp \subseteq rcv'[n].gp)
      <4> DEFINE n == rcv[x].nxt
      <4>1. n \in Slots /\ (rcv[n].state = "on" \/ (rcv[n].state = "off" /\ rcv[x].gp \subseteq rcv[n].gp))
        BY <2>1, <3>2 DEF SlotOK, RcvRec
      <4>2. ~(rcv[n].state = "off" /\ rcv[n].gp \subseteq {c})
        BY <2>3, <3>2, <4>1
      <4>3. rcv'[n].state = rcv[n].state /\ rcv'[n].gp = rcv[n].gp \ {c}
        BY <1>5, <4>1, <4>2
      <4> HIDE DEF n
      <4>4. rcv'[n].state = "on" \/ (rcv'[n].state = "off" /\ rcv'[x].gp \subseteq rcv'[n].gp)
        BY <3>1, <4>1, <4>3
      <4> QED
        BY <4>4 DEF n
    <3>3. rcv'[x].state = "off" => rcv'[x].gp # {} /\ rcv'[x].owner # NIL
      BY <2>1, <2>3, <3>1 DEF SlotOK
    <3>4. rcv'[x].state = "on" => rcv'[x].nxt \in On' \cup {NIL} /\ rcv'[x].owner # NIL
      BY <1>8, <2>1, <3>1 DEF SlotOK
    <3>5. (rcv'[x].state = "free" => rcv'[x] = Free) /\ rcv'[x].gp \subseteq Readers'
      BY <1>8, <2>1, <3>1 DEF SlotOK
    <3> QED
      BY <3>1, <3>2, <3>3, <3>4, <3>5 DEF SlotOK
  <2> QED
    BY <2>2, <2>3
<1>11. Acyclic'
  BY <1>1, <1>8, <1>9 DEF Acyclic
<1>12. ASSUME NEW d \in Cpus PROVE WalkOK(d)'
  <2>1. CASE d = c
    BY <1>7, <2>1 DEF WalkOK, Idle
  <2>2. CASE d # c
    <3>1. WalkOK(d) /\ walk'[d] = walk[d] /\ walk[d] \in WalkRec
      BY <1>1, <1>7, <2>2
    <3> DEFINE s == walk[d].at
    <3>2. ASSUME s # NIL PROVE rcv'[s].state = "on" \/ (rcv'[s].state = "off" /\ d \in rcv'[s].gp)
      <4>1. s \in Slots /\ (rcv[s].state = "on" \/ (rcv[s].state = "off" /\ d \in rcv[s].gp))
        BY <3>1, <3>2 DEF WalkOK, WalkRec
      <4>2. ~(rcv[s].state = "off" /\ rcv[s].gp \subseteq {c})
        BY <2>2, <4>1
      <4>3. rcv'[s].state = rcv[s].state /\ rcv'[s].gp = rcv[s].gp \ {c}
        BY <1>5, <4>1, <4>2
      <4> QED
        BY <2>2, <4>1, <4>3
    <3> QED
      BY <3>1, <3>2 DEF WalkOK
  <2> QED
    BY <2>1, <2>2
<1> QED
  BY <1>3, <1>6, <1>7, <1>10, <1>11, <1>12 DEF ListInv, WalkInv

-----------------------------------------------------------------------------
(* Raw sockets. *)

TaskRec == [what : {"reg", "unreg"}, dev : AnyDev, f : CanFilters]
RoRec == [filter : Seq(CanFilters), join : BOOLEAN, own : BOOLEAN, kinds : SUBSET {"CC", "FD", "XL"},
          bound : BOOLEAN, dev : AnyDev \cup {NIL}, err_mask : SUBSET EFF_MASK]
CallRec == [kind : {"none", "bind", "option", "notify", "release"}, sk : RawSocks \cup {NIL},
            dev : Devs \cup {NIL}, todo : Seq(TaskRec), done : Seq(TaskRec), new : RoRec \cup {NIL}]

RawTypeOK ==
  /\ ro \in [RawSocks -> RoRec] /\ rtnl \in CallRec
  /\ rpc \in [RawSocks -> {"open", "list", "rtnl", "gone"}]
  /\ raw_notifier_list \in Seq(RawSocks) /\ raw_busy_notifier \in RawSocks \cup {NIL}

CallInv ==
  /\ rtnl.kind = "none" => rtnl = NoCall
  /\ rtnl.kind \in {"bind", "option", "release"} => rtnl.sk # NIL
  /\ rtnl.sk # NIL => rtnl.new \in RoRec
  /\ Len(rtnl.todo) > 0 => rtnl.sk # NIL
  /\ \A k \in RawSocks : ro[k].bound <=> ro[k].dev # NIL
  /\ rtnl.sk # NIL => (rtnl.new.bound <=> rtnl.new.dev # NIL)

NotifyInv ==
  /\ NoTwice(raw_notifier_list)
  /\ \A k \in RawSocks : InSeq(raw_notifier_list, k) <=> rpc[k] \in {"open", "list"}
  /\ raw_busy_notifier # NIL <=> rtnl.kind = "notify"
  /\ raw_busy_notifier # NIL => rpc[raw_busy_notifier] \in {"open", "list"}
  /\ rtnl.kind = "notify" => rtnl.sk \in {NIL, raw_busy_notifier}
  /\ rtnl.kind \in {"bind", "option"} => rpc[rtnl.sk] = "open"
  /\ rtnl.kind = "release" => rpc[rtnl.sk] = "rtnl"
  /\ rtnl.kind \in {"notify", "release"} /\ rtnl.sk # NIL =>
       ~rtnl.new.bound /\ \A i \in 1..Len(rtnl.todo) : rtnl.todo[i].what = "unreg"

RawCtl == RawTypeOK /\ CallInv /\ NotifyInv

LEMMA TaskType ==
  ASSUME NEW what \in {"reg", "unreg"}, NEW dev \in AnyDev, NEW fs \in Seq(CanFilters)
  PROVE  /\ Task(what, dev, fs) \in Seq(TaskRec) /\ Len(Task(what, dev, fs)) = Len(fs)
         /\ \A i \in 1..Len(fs) :
              LET t == Task(what, dev, fs)[i] IN t.what = what /\ t.dev = dev /\ t.f = fs[i]
<1>1. Len(fs) \in Nat /\ \A i \in 1..Len(fs) : fs[i] \in CanFilters
  BY LenProperties, ElementOfSeq
<1>2. Task(what, dev, fs) \in [1..Len(fs) -> TaskRec]
  BY <1>1 DEF Task, TaskRec
<1>3. Task(what, dev, fs) \in Seq(TaskRec) /\ Len(Task(what, dev, fs)) = Len(fs)
  <2> HIDE DEF TaskRec
  <2>1. Task(what, dev, fs) \in Seq(TaskRec)
    BY <1>1, <1>2
  <2>2. DOMAIN Task(what, dev, fs) = 1..Len(fs)
    BY DEF Task
  <2> HIDE DEF Task
  <2> QED
    BY <1>1, <2>1, <2>2, LenProperties
<1>4. ASSUME NEW i \in 1..Len(fs)
      PROVE  LET t == Task(what, dev, fs)[i] IN t.what = what /\ t.dev = dev /\ t.f = fs[i]
  <2>1. Task(what, dev, fs)[i] = [what |-> what, dev |-> dev, f |-> fs[i]]
    BY DEF Task
  <2> QED
    BY <2>1
<1> QED
  BY <1>3, <1>4

LEMMA FiltersType ==
  /\ \A m \in SUBSET EFF_MASK : ErrFilters(m) \in Seq(CanFilters)
  /\ \A r \in RoRec : AllFilters(r) \in Seq(CanFilters)
<1>1. ASSUME NEW m \in SUBSET EFF_MASK PROVE ErrFilters(m) \in Seq(CanFilters)
  <2>1. [id |-> {}, mask |-> m \cup {ERR}] \in CanFilters
    <3>1. m \cup {ERR} \in SUBSET Bits
      BY DEF Bits, ERR, EFF_MASK
    <3>2. [id |-> {}, mask |-> m \cup {ERR}] \in FilterRec
      BY <3>1 DEF FilterRec
    <3> QED
      BY <3>2 DEF CanFilters
  <2> QED
    BY <2>1 DEF ErrFilters
<1>2. ASSUME NEW r \in RoRec PROVE AllFilters(r) \in Seq(CanFilters)
  <2>1. r.filter \in Seq(CanFilters) /\ r.err_mask \in SUBSET EFF_MASK
    BY DEF RoRec
  <2> QED
    BY <1>1, <2>1, ConcatProperties DEF AllFilters
<1> QED
  BY <1>1, <1>2

LEMMA DisableType ==
  ASSUME NEW r \in RoRec, r.bound <=> r.dev # NIL
  PROVE  DisableAll(r) \in Seq(TaskRec) /\ \A i \in 1..Len(DisableAll(r)) : DisableAll(r)[i].what = "unreg"
<1>1. CASE r.bound
  <2>1. r.dev \in AnyDev
    BY <1>1 DEF RoRec
  <2> DEFINE t == Task("unreg", r.dev, AllFilters(r))
  <2>2. AllFilters(r) \in Seq(CanFilters)
    BY FiltersType
  <2>3. /\ t \in Seq(TaskRec) /\ Len(t) = Len(AllFilters(r))
        /\ \A i \in 1..Len(AllFilters(r)) :
             t[i].what = "unreg"
    BY <2>1, <2>2, TaskType
  <2>4. DisableAll(r) = t
    BY <1>1 DEF DisableAll
  <2> HIDE DEF t
  <2>5. \A i \in 1..Len(t) : t[i].what = "unreg"
    BY <2>3
  <2> QED
    BY <2>3, <2>4, <2>5
<1>2. CASE ~r.bound
  BY <1>2, EmptySeq DEF DisableAll
<1> QED
  BY <1>1, <1>2

LEMMA NilFacts ==
  /\ NIL \notin Slots /\ NIL \notin Owners /\ NIL \notin AnyDev /\ NIL \notin RawSocks
  /\ RawSocks \subseteq Socks /\ Socks \subseteq Owners
BY CanRxAssumption, RawAssumption DEF AnyDev

\* A call that changes filters begins.
LEMMA BeginKeeps ==
  ASSUME RawCtl, NEW k \in RawSocks, NEW kind \in {"bind", "option", "release"},
         NEW todo \in Seq(TaskRec), NEW new \in RoRec, new.bound <=> new.dev # NIL,
         Begin(kind, k, todo, new), UNCHANGED <<ro, raw_notifier_list, raw_busy_notifier, rpc>>,
         kind \in {"bind", "option"} => rpc[k] = "open",
         kind = "release" => /\ rpc[k] = "rtnl" /\ ~new.bound
                             /\ \A i \in 1..Len(todo) : todo[i].what = "unreg"
  PROVE  RawCtl'
<1>1. rtnl = NoCall
  BY DEF Begin
<1>2. rtnl' = [kind |-> kind, sk |-> k, dev |-> NIL, todo |-> todo, done |-> <<>>, new |-> new]
  BY DEF Begin, NoCall
<1>3. rtnl' \in CallRec
  <2>1. <<>> \in Seq(TaskRec)
    BY EmptySeq
  <2>2. NIL \in RawSocks \cup {NIL} /\ NIL \in Devs \cup {NIL} /\ new \in RoRec \cup {NIL}
    OBVIOUS
  <2>3. kind \in {"none", "bind", "option", "notify", "release"} /\ k \in RawSocks \cup {NIL}
    OBVIOUS
  <2> QED
    BY <1>2, <2>1, <2>2, <2>3, Zenon DEF CallRec
<1>4. /\ rtnl'.kind = kind /\ rtnl'.sk = k /\ rtnl'.todo = todo /\ rtnl'.new = new
      /\ rtnl.kind = "none"
  BY <1>1, <1>2 DEF NoCall
<1>5. RawTypeOK'
  BY <1>3 DEF RawCtl, RawTypeOK
<1>6. CallInv'
  BY <1>4, NilFacts DEF RawCtl, CallInv
<1>7. NotifyInv'
  BY <1>4, NilFacts DEF RawCtl, NotifyInv
<1> QED
  BY <1>5, <1>6, <1>7 DEF RawCtl

LEMMA BindKeeps ==
  ASSUME RawCtl, NEW k \in RawSocks, NEW dev \in AnyDev, raw_bind(k, dev)
  PROVE  RawCtl'
<1> DEFINE todo == Task("reg", dev, AllFilters(ro[k])) \o DisableAll(ro[k])
           new == [ro[k] EXCEPT !.bound = TRUE, !.dev = dev]
<1>1. ro[k] \in RoRec /\ (ro[k].bound <=> ro[k].dev # NIL)
  BY DEF RawCtl, RawTypeOK, CallInv
<1>2. todo \in Seq(TaskRec)
  <2>1. AllFilters(ro[k]) \in Seq(CanFilters)
    BY <1>1, FiltersType
  <2>2. Task("reg", dev, AllFilters(ro[k])) \in Seq(TaskRec)
    BY <2>1, TaskType
  <2>3. DisableAll(ro[k]) \in Seq(TaskRec)
    BY <1>1, DisableType
  <2> QED
    BY <2>2, <2>3, ConcatProperties
<1>3. new \in RoRec /\ (new.bound <=> new.dev # NIL)
  <2>1. new.bound /\ new.dev = dev
    BY <1>1 DEF RoRec
  <2>2. new \in RoRec
    BY <1>1 DEF RoRec
  <2> QED
    BY <2>1, <2>2, NilFacts
<1>4. /\ rpc[k] = "open" /\ Begin("bind", k, todo, new)
      /\ UNCHANGED <<ro, raw_notifier_list, raw_busy_notifier, rpc>>
  BY DEF raw_bind
<1> HIDE DEF todo, new
<1> QED
  BY <1>2, <1>3, <1>4, BeginKeeps

LEMMA ReplaceKeeps ==
  ASSUME RawCtl, NEW k \in RawSocks, NEW old \in Seq(CanFilters), NEW fs \in Seq(CanFilters),
         NEW new \in RoRec, new.bound <=> new.dev # NIL, Replace(k, old, fs, new)
  PROVE  RawCtl'
<1> DEFINE todo == IF ro[k].bound THEN Task("reg", ro[k].dev, fs) \o Task("unreg", ro[k].dev, old)
                                  ELSE <<>>
<1>1. ro[k] \in RoRec /\ (ro[k].bound <=> ro[k].dev # NIL)
  BY DEF RawCtl, RawTypeOK, CallInv
<1>2. todo \in Seq(TaskRec)
  <2>1. CASE ro[k].bound
    <3>1. ro[k].dev \in AnyDev
      BY <1>1, <2>1 DEF RoRec
    <3>2. Task("reg", ro[k].dev, fs) \in Seq(TaskRec) /\ Task("unreg", ro[k].dev, old) \in Seq(TaskRec)
      BY <3>1, TaskType
    <3> QED
      BY <2>1, <3>2, ConcatProperties
  <2>2. CASE ~ro[k].bound
    BY <2>2, EmptySeq
  <2> QED
    BY <2>1, <2>2
<1>3. /\ rpc[k] = "open" /\ Begin("option", k, todo, new)
      /\ UNCHANGED <<ro, raw_notifier_list, raw_busy_notifier, rpc>>
  BY DEF Replace
<1> HIDE DEF todo
<1> QED
  BY <1>2, <1>3, BeginKeeps

LEMMA OptionKeeps ==
  ASSUME RawCtl, scene \in Scenes, NEW k \in RawSocks, raw_setsockopt(k, scene.lists, scene.masks)
  PROVE  RawCtl'
<1>1. ro[k] \in RoRec /\ (ro[k].bound <=> ro[k].dev # NIL)
  BY DEF RawCtl, RawTypeOK, CallInv
<1>2. scene.lists \subseteq Seq(CanFilters) /\ scene.masks \subseteq SUBSET EFF_MASK
  BY StackAssumption
<1>3. CASE \E fs \in scene.lists : Replace(k, ro[k].filter, fs, [ro[k] EXCEPT !.filter = fs])
  <2>1. PICK fs \in scene.lists : Replace(k, ro[k].filter, fs, [ro[k] EXCEPT !.filter = fs])
    BY <1>3
  <2> DEFINE new == [ro[k] EXCEPT !.filter = fs]
  <2>2. fs \in Seq(CanFilters) /\ ro[k].filter \in Seq(CanFilters)
    BY <1>1, <1>2 DEF RoRec
  <2>3. new \in RoRec /\ new.bound = ro[k].bound /\ new.dev = ro[k].dev
    BY <1>1, <2>2 DEF RoRec
  <2> HIDE DEF new
  <2>4. Replace(k, ro[k].filter, fs, new)
    BY <2>1 DEF new
  <2> QED
    BY <1>1, <2>2, <2>3, <2>4, ReplaceKeeps
<1>4. CASE \E m \in scene.masks :
             Replace(k, ErrFilters(ro[k].err_mask), ErrFilters(m), [ro[k] EXCEPT !.err_mask = m])
  <2>1. PICK m \in scene.masks :
           Replace(k, ErrFilters(ro[k].err_mask), ErrFilters(m), [ro[k] EXCEPT !.err_mask = m])
    BY <1>4
  <2> DEFINE new == [ro[k] EXCEPT !.err_mask = m]
  <2>2. ErrFilters(ro[k].err_mask) \in Seq(CanFilters) /\ ErrFilters(m) \in Seq(CanFilters)
    BY <1>1, <1>2, FiltersType DEF RoRec
  <2>3. new \in RoRec /\ new.bound = ro[k].bound /\ new.dev = ro[k].dev
    BY <1>1, <1>2 DEF RoRec
  <2> HIDE DEF new
  <2>4. Replace(k, ErrFilters(ro[k].err_mask), ErrFilters(m), new)
    BY <2>1 DEF new
  <2> QED
    BY <1>1, <2>2, <2>3, <2>4, ReplaceKeeps
<1> QED
  BY <1>3, <1>4 DEF raw_setsockopt

\* A step of a call: what is still to do, and what is undone when it fails.
LEMMA TaskKeeps ==
  ASSUME RawCtl, NEW faults, RawTask(faults)
  PROVE  RawCtl'
<1> DEFINE t == Head(rtnl.todo)
<1>1. /\ rtnl \in CallRec /\ rtnl.todo \in Seq(TaskRec) /\ rtnl.done \in Seq(TaskRec)
      /\ rtnl.todo # <<>> /\ rtnl.sk \in RawSocks \cup {NIL}
      /\ UNCHANGED <<ro, raw_notifier_list, raw_busy_notifier, rpc>>
  BY DEF RawCtl, RawTypeOK, RawTask, CallRec
<1>2. /\ t \in TaskRec /\ Tail(rtnl.todo) \in Seq(TaskRec) /\ Len(rtnl.todo) \in Nat \ {0}
      /\ Len(Tail(rtnl.todo)) = Len(rtnl.todo) - 1
      /\ \A i \in 1..Len(Tail(rtnl.todo)) : Tail(rtnl.todo)[i] = rtnl.todo[i + 1]
      /\ t = rtnl.todo[1]
  BY <1>1, HeadTailProperties, LenProperties, EmptySeq
<1> HIDE DEF t
<1>3. rtnl.sk \in RawSocks /\ rtnl.new \in RoRec
  BY <1>1, <1>2 DEF RawCtl, CallInv
<1>4. ro[rtnl.sk] \in RoRec /\ (ro[rtnl.sk].bound <=> ro[rtnl.sk].dev # NIL)
  BY <1>3 DEF RawCtl, RawTypeOK, CallInv
<1>5. rtnl.kind \in {"bind", "option", "notify", "release"}
  <2>1. rtnl.kind # "none"
    BY <1>3, NilFacts DEF RawCtl, CallInv, NoCall
  <2> QED
    BY <1>1, <2>1 DEF CallRec
<1>6. ASSUME rtnl' \in CallRec, rtnl'.kind = rtnl.kind, rtnl'.sk = rtnl.sk,
             rtnl'.new = rtnl.new \/ (rtnl'.new = ro[rtnl.sk] /\ t.what = "reg"),
             t.what = "unreg" => rtnl'.todo = Tail(rtnl.todo)
      PROVE  RawCtl'
  <2>1. RawTypeOK'
    BY <1>1, <1>6 DEF RawCtl, RawTypeOK
  <2>2. CallInv'
    BY <1>1, <1>2, <1>3, <1>4, <1>5, <1>6, NilFacts DEF RawCtl, CallInv
  <2>3. ASSUME rtnl.kind \in {"notify", "release"}
        PROVE  ~rtnl'.new.bound /\ \A i \in 1..Len(rtnl'.todo) : rtnl'.todo[i].what = "unreg"
    <3>1. ~rtnl.new.bound /\ \A i \in 1..Len(rtnl.todo) : rtnl.todo[i].what = "unreg"
      BY <1>3, <2>3, NilFacts DEF RawCtl, NotifyInv
    <3>2. t.what = "unreg"
      BY <1>2, <3>1
    <3>3. rtnl'.new = rtnl.new /\ rtnl'.todo = Tail(rtnl.todo)
      BY <1>6, <3>2
    <3>4. \A i \in 1..Len(Tail(rtnl.todo)) : i + 1 \in 1..Len(rtnl.todo)
      BY <1>2
    <3> QED
      BY <1>2, <3>1, <3>3, <3>4
  <2>4. NotifyInv'
    BY <1>1, <1>6, <2>3 DEF RawCtl, NotifyInv
  <2> QED
    BY <2>1, <2>2, <2>4 DEF RawCtl
<1>7. CASE Registers(faults)
  <2>1. t.what = "reg"
    BY <1>7 DEF Registers, t
  <2>2. CASE rtnl' = [rtnl EXCEPT !.todo = Tail(@), !.done = Append(@, [t EXCEPT !.what = "unreg"])]
    <3> DEFINE u == [t EXCEPT !.what = "unreg"]
    <3>1. u \in TaskRec
      BY <1>2 DEF TaskRec
    <3> HIDE DEF u
    <3>2. Append(rtnl.done, u) \in Seq(TaskRec)
      BY <1>1, <3>1, AppendProperties
    <3>3. rtnl' = [rtnl EXCEPT !.todo = Tail(rtnl.todo), !.done = Append(rtnl.done, u)]
      BY <2>2 DEF u
    <3>4. rtnl' \in CallRec /\ rtnl'.kind = rtnl.kind /\ rtnl'.sk = rtnl.sk /\ rtnl'.new = rtnl.new
      BY <1>1, <1>2, <3>2, <3>3 DEF CallRec
    <3> QED
      BY <1>6, <2>1, <3>4
  <2>3. CASE rtnl' = [rtnl EXCEPT !.todo = Undo(rtnl.done), !.done = <<>>, !.new = ro[rtnl.sk]]
    <3>1. Undo(rtnl.done) \in Seq(TaskRec)
      <4>1. Len(rtnl.done) \in Nat /\ \A i \in 1..Len(rtnl.done) : rtnl.done[i] \in TaskRec
        BY <1>1, LenProperties, ElementOfSeq
      <4>2. \A i \in 1..Len(rtnl.done) : (Len(rtnl.done) - i) + 1 \in 1..Len(rtnl.done)
        BY <4>1
      <4>3. Undo(rtnl.done) \in [1..Len(rtnl.done) -> TaskRec]
        BY <4>1, <4>2 DEF Undo, Reverse
      <4> QED
        BY <4>1, <4>3
    <3>2. <<>> \in Seq(TaskRec)
      BY EmptySeq
    <3>3. rtnl' \in CallRec /\ rtnl'.kind = rtnl.kind /\ rtnl'.sk = rtnl.sk /\ rtnl'.new = ro[rtnl.sk]
      BY <1>1, <1>4, <2>3, <3>1, <3>2 DEF CallRec
    <3> QED
      BY <1>6, <2>1, <3>3
  <2> QED
    BY <1>7, <2>2, <2>3 DEF Registers, t
<1>8. CASE Unregisters
  <2>1. rtnl' = [rtnl EXCEPT !.todo = Tail(rtnl.todo)]
    BY <1>8 DEF Unregisters
  <2>2. /\ rtnl' \in CallRec /\ rtnl'.kind = rtnl.kind /\ rtnl'.sk = rtnl.sk /\ rtnl'.new = rtnl.new
        /\ rtnl'.todo = Tail(rtnl.todo)
    BY <1>1, <1>2, <2>1 DEF CallRec
  <2> QED
    BY <1>6, <2>2
<1> QED
  BY <1>7, <1>8 DEF RawTask

LEMMA CallType ==
  /\ <<>> \in Seq(TaskRec)
  /\ NoCall \in CallRec /\ NoCall.kind = "none" /\ NoCall.sk = NIL /\ NoCall.todo = <<>>
  /\ Len(NoCall.todo) = 0 /\ NoCall.new = NIL /\ NIL \notin RawSocks
  /\ \A r \in RoRec : Off(r) \in RoRec /\ ~Off(r).bound /\ Off(r).dev = NIL
<1>1. <<>> \in Seq(TaskRec) /\ <<>> \in Seq(CanFilters) /\ Len(<<>>) = 0
  BY EmptySeq
<1>2. NoCall \in CallRec /\ NoCall.kind = "none" /\ NoCall.sk = NIL /\ NoCall.todo = <<>> /\ NoCall.new = NIL
  BY <1>1 DEF NoCall, CallRec
<1>3. \A r \in RoRec : Off(r) \in RoRec /\ ~Off(r).bound /\ Off(r).dev = NIL
  BY <1>1 DEF Off, RoRec
<1> QED
  BY <1>1, <1>2, <1>3, NilFacts

LEMMA CommitKeeps ==
  ASSUME RawCtl, RawCommit
  PROVE  RawCtl'
<1>1. /\ rtnl.kind \in {"bind", "option"} /\ rtnl.sk \in RawSocks /\ rtnl.new \in RoRec
      /\ ro' = [ro EXCEPT ![rtnl.sk] = rtnl.new] /\ rtnl' = NoCall
      /\ UNCHANGED <<raw_notifier_list, raw_busy_notifier, rpc>>
  BY DEF RawCtl, RawCommit, RawTypeOK, CallRec, CallInv
<1>2. RawTypeOK'
  BY <1>1, CallType DEF RawCtl, RawTypeOK
<1>3. CallInv'
  BY <1>1, CallType DEF RawCtl, CallInv, RawTypeOK
<1>4. NotifyInv'
  BY <1>1, CallType DEF RawCtl, NotifyInv
<1> QED
  BY <1>2, <1>3, <1>4 DEF RawCtl

LEMMA NotifierStarts ==
  ASSUME RawCtl, NEW dev \in Devs, raw_notifier(dev)
  PROVE  RawCtl'
<1>1. /\ raw_notifier_list # <<>> /\ raw_notifier_list \in Seq(RawSocks)
      /\ raw_busy_notifier' = Head(raw_notifier_list)
      /\ rtnl' = [NoCall EXCEPT !.kind = "notify", !.dev = dev]
      /\ UNCHANGED <<ro, raw_notifier_list, rpc>>
  BY DEF RawCtl, RawTypeOK, raw_notifier
<1>2. Head(raw_notifier_list) \in RawSocks /\ InSeq(raw_notifier_list, Head(raw_notifier_list))
  <2>1. Len(raw_notifier_list) \in Nat \ {0} /\ 1 \in 1..Len(raw_notifier_list)
    BY <1>1, EmptySeq
  <2>2. Head(raw_notifier_list) = raw_notifier_list[1]
    BY <1>1
  <2> QED
    BY <1>1, <2>1, <2>2, HeadTailProperties DEF InSeq
<1>3. /\ rtnl' \in CallRec /\ rtnl'.kind = "notify" /\ rtnl'.sk = NIL /\ rtnl'.todo = <<>> /\ rtnl'.new = NIL
  <2>1. rtnl' = [kind |-> "notify", sk |-> NIL, dev |-> dev, todo |-> <<>>, done |-> <<>>, new |-> NIL]
    BY <1>1 DEF NoCall
  <2> HIDE DEF TaskRec, RoRec
  <2> QED
    BY <2>1, CallType DEF CallRec
<1>4. RawTypeOK'
  BY <1>1, <1>2, <1>3 DEF RawCtl, RawTypeOK
<1>5. Len(rtnl'.todo) = 0
  BY <1>3, EmptySeq
<1>6. CallInv'
  BY <1>1, <1>3, <1>5 DEF RawCtl, CallInv
<1>7. NotifyInv'
  BY <1>1, <1>2, <1>3, <1>5, CallType DEF RawCtl, NotifyInv
<1> QED
  BY <1>4, <1>6, <1>7 DEF RawCtl

LEMMA NotifyKeeps ==
  ASSUME RawCtl, raw_notify
  PROVE  RawCtl'
<1> DEFINE k == raw_busy_notifier
<1>1. /\ rtnl.kind = "notify" /\ rtnl.sk = NIL /\ k \in RawSocks /\ rtnl \in CallRec
      /\ rtnl' = [rtnl EXCEPT !.sk = k, !.todo = DisableAll(ro[k]), !.new = Off(ro[k])]
      /\ UNCHANGED <<ro, raw_notifier_list, raw_busy_notifier, rpc>>
  BY DEF RawCtl, RawTypeOK, raw_notify
<1>2. ro[k] \in RoRec /\ (ro[k].bound <=> ro[k].dev # NIL)
  BY <1>1 DEF RawCtl, RawTypeOK, CallInv
<1>3. /\ DisableAll(ro[k]) \in Seq(TaskRec)
      /\ \A i \in 1..Len(DisableAll(ro[k])) : DisableAll(ro[k])[i].what = "unreg"
      /\ Off(ro[k]) \in RoRec /\ ~Off(ro[k]).bound /\ Off(ro[k]).dev = NIL
  BY <1>2, DisableType, CallType
<1>4. /\ rtnl' \in CallRec /\ rtnl'.kind = "notify" /\ rtnl'.sk = k /\ rtnl'.todo = DisableAll(ro[k])
      /\ rtnl'.new = Off(ro[k])
  BY <1>1, <1>3 DEF CallRec
<1>5. RawTypeOK'
  BY <1>1, <1>4 DEF RawCtl, RawTypeOK
<1>6. CallInv'
  BY <1>1, <1>3, <1>4, NilFacts DEF RawCtl, CallInv
<1>7. NotifyInv'
  BY <1>1, <1>3, <1>4 DEF RawCtl, NotifyInv
<1> QED
  BY <1>5, <1>6, <1>7 DEF RawCtl

LEMMA NotifyNextKeeps ==
  ASSUME RawCtl, raw_notify_next
  PROVE  RawCtl'
<1> DEFINE k == raw_busy_notifier
           i == SelectInSeq(raw_notifier_list, LAMBDA x : x = k)
<1>1. /\ rtnl.kind = "notify" /\ rtnl.todo = <<>> /\ rtnl \in CallRec
      /\ raw_notifier_list \in Seq(RawSocks) /\ k \in RawSocks
      /\ ro' = IF rtnl.sk = NIL THEN ro ELSE [ro EXCEPT ![k] = rtnl.new]
      /\ UNCHANGED <<raw_notifier_list, rpc>>
  BY DEF RawCtl, RawTypeOK, NotifyInv, raw_notify_next
<1>2. \E m \in 1..Len(raw_notifier_list) : raw_notifier_list[m] = k
  BY <1>1, NilFacts DEF RawCtl, NotifyInv, InSeq
<1>3. i \in 1..Len(raw_notifier_list)
  <2> DEFINE I == {m \in 1..Len(raw_notifier_list) : raw_notifier_list[m] = k}
  <2>1. i = IF I # {} THEN Min(I) ELSE 0
    BY DEF SelectInSeq
  <2>2. I \in SUBSET Nat /\ I # {}
    BY <1>1, <1>2, LenProperties
  <2>3. Min(I) \in I
    <3> HIDE DEF I
    <3> QED
      BY <2>2, LeastIn
  <2> HIDE DEF i
  <2> QED
    BY <2>1, <2>2, <2>3
<1>4. \/ /\ i < Len(raw_notifier_list) /\ raw_busy_notifier' = raw_notifier_list[i + 1]
         /\ rtnl' = [rtnl EXCEPT !.sk = NIL, !.new = NIL]
      \/ raw_busy_notifier' = NIL /\ rtnl' = NoCall
  BY DEF raw_notify_next
<1> HIDE DEF i
<1>5. rtnl.sk # NIL => rtnl.new \in RoRec /\ (rtnl.new.bound <=> rtnl.new.dev # NIL)
  BY DEF RawCtl, CallInv
<1>6. /\ ro' \in [RawSocks -> RoRec]
      /\ \A x \in RawSocks : ro'[x].bound <=> ro'[x].dev # NIL
  BY <1>1, <1>5 DEF RawCtl, RawTypeOK, CallInv
<1>7. CASE /\ i < Len(raw_notifier_list) /\ raw_busy_notifier' = raw_notifier_list[i + 1]
           /\ rtnl' = [rtnl EXCEPT !.sk = NIL, !.new = NIL]
  <2>1. i + 1 \in 1..Len(raw_notifier_list) /\ raw_busy_notifier' \in RawSocks
    <3>1. Len(raw_notifier_list) \in Nat
      BY <1>1, LenProperties
    <3>2. i + 1 \in 1..Len(raw_notifier_list)
      BY <1>3, <1>7, <3>1
    <3> QED
      BY <1>1, <1>7, <3>2, ElementOfSeq
  <2>2. rpc[raw_busy_notifier'] \in {"open", "list"}
    <3>1. InSeq(raw_notifier_list, raw_busy_notifier')
      BY <1>7, <2>1 DEF InSeq
    <3> QED
      BY <2>1, <3>1 DEF RawCtl, NotifyInv
  <2>3. rtnl' \in CallRec /\ rtnl'.kind = "notify" /\ rtnl'.sk = NIL /\ rtnl'.todo = <<>> /\ rtnl'.new = NIL
    BY <1>1, <1>7 DEF CallRec
  <2>4. Len(rtnl'.todo) = 0
    BY <2>3, EmptySeq
  <2>5. RawTypeOK'
    BY <1>1, <1>6, <2>1, <2>3 DEF RawCtl, RawTypeOK
  <2>6. CallInv'
    BY <1>6, <2>3, <2>4 DEF RawCtl, CallInv
  <2>7. NotifyInv'
    BY <1>1, <2>1, <2>2, <2>3, NilFacts DEF RawCtl, NotifyInv
  <2> QED
    BY <2>5, <2>6, <2>7 DEF RawCtl
<1>8. CASE raw_busy_notifier' = NIL /\ rtnl' = NoCall
  <2>1. RawTypeOK'
    BY <1>1, <1>6, <1>8, CallType DEF RawCtl, RawTypeOK
  <2>2. CallInv'
    BY <1>6, <1>8, CallType DEF RawCtl, CallInv
  <2>3. NotifyInv'
    BY <1>1, <1>8, CallType DEF RawCtl, NotifyInv
  <2> QED
    BY <2>1, <2>2, <2>3 DEF RawCtl
<1> QED
  BY <1>4, <1>7, <1>8

LEMMA ReleaseKeeps ==
  ASSUME RawCtl, NEW k \in RawSocks,
         raw_release(k) \/ raw_release_list(k) \/ raw_release_rtnl(k) \/ raw_release_done
  PROVE  RawCtl'
<1>1. /\ ro \in [RawSocks -> RoRec] /\ rtnl \in CallRec /\ raw_notifier_list \in Seq(RawSocks)
      /\ rpc \in [RawSocks -> {"open", "list", "rtnl", "gone"}] /\ rtnl.sk \in RawSocks \cup {NIL}
      /\ raw_busy_notifier \in RawSocks \cup {NIL} /\ NIL \notin RawSocks
      /\ rtnl.kind \in {"bind", "option", "release"} => rtnl.sk \in RawSocks
  BY NilFacts DEF RawCtl, RawTypeOK, CallRec, CallInv
<1>2. CASE raw_release(k)
  <2>1. /\ rpc' = [rpc EXCEPT ![k] = "list"] /\ rpc[k] = "open" /\ (rtnl.sk = k => rtnl.kind = "notify")
        /\ UNCHANGED <<ro, rtnl, raw_notifier_list, raw_busy_notifier>>
    BY <1>2 DEF raw_release
  <2>2. RawTypeOK' /\ CallInv'
    BY <1>1, <2>1 DEF RawCtl, RawTypeOK, CallInv
  <2>3. \A x \in RawSocks : rpc'[x] = IF x = k THEN "list" ELSE rpc[x]
    BY <1>1, <2>1
  <2>4. NotifyInv'
    BY <1>1, <2>1, <2>3 DEF RawCtl, NotifyInv
  <2> QED
    BY <2>2, <2>4 DEF RawCtl
<1>3. CASE raw_release_list(k)
  <2>1. /\ rpc' = [rpc EXCEPT ![k] = "rtnl"] /\ rpc[k] = "list" /\ raw_busy_notifier # k
        /\ raw_notifier_list' = RemoveFirst(raw_notifier_list, k)
        /\ UNCHANGED <<ro, rtnl, raw_busy_notifier>>
    BY <1>3 DEF raw_release_list, NotBusy
  <2>2. /\ raw_notifier_list' \in Seq(RawSocks) /\ NoTwice(raw_notifier_list')
        /\ \A x : InSeq(raw_notifier_list', x) <=> x # k /\ InSeq(raw_notifier_list, x)
    BY <1>1, <2>1, RemoveFirstIs DEF RawCtl, NotifyInv
  <2>3. RawTypeOK' /\ CallInv'
    BY <1>1, <2>1, <2>2 DEF RawCtl, RawTypeOK, CallInv
  <2>4. \A x \in RawSocks : rpc'[x] = IF x = k THEN "rtnl" ELSE rpc[x]
    BY <1>1, <2>1
  <2>5. NotifyInv'
    BY <1>1, <2>1, <2>2, <2>4 DEF RawCtl, NotifyInv
  <2> QED
    BY <2>3, <2>5 DEF RawCtl
<1>4. CASE raw_release_rtnl(k)
  <2>1. /\ rpc[k] = "rtnl" /\ Begin("release", k, DisableAll(ro[k]), Off(ro[k]))
        /\ UNCHANGED <<ro, raw_notifier_list, raw_busy_notifier, rpc>>
    BY <1>4 DEF raw_release_rtnl
  <2>2. /\ DisableAll(ro[k]) \in Seq(TaskRec)
        /\ \A i \in 1..Len(DisableAll(ro[k])) : DisableAll(ro[k])[i].what = "unreg"
        /\ Off(ro[k]) \in RoRec /\ ~Off(ro[k]).bound /\ Off(ro[k]).dev = NIL
    BY <1>1, DisableType, CallType DEF RawCtl, CallInv
  <2> QED
    BY <2>1, <2>2, BeginKeeps
<1>5. CASE raw_release_done
  <2>1. /\ rtnl.kind = "release" /\ rtnl.sk \in RawSocks /\ rtnl.new \in RoRec /\ rpc[rtnl.sk] = "rtnl"
        /\ ro' = [ro EXCEPT ![rtnl.sk] = rtnl.new] /\ rpc' = [rpc EXCEPT ![rtnl.sk] = "gone"]
        /\ rtnl' = NoCall /\ UNCHANGED <<raw_notifier_list, raw_busy_notifier>>
    BY <1>1, <1>5 DEF raw_release_done, RawCtl, CallInv, NotifyInv
  <2>2. RawTypeOK'
    BY <1>1, <2>1, CallType DEF RawCtl, RawTypeOK
  <2>3. CallInv'
    BY <1>1, <2>1, CallType DEF RawCtl, CallInv
  <2>4. \A x \in RawSocks : rpc'[x] = IF x = rtnl.sk THEN "gone" ELSE rpc[x]
    BY <1>1, <2>1
  <2>5. NotifyInv'
    BY <1>1, <2>1, <2>4, CallType DEF RawCtl, NotifyInv
  <2> QED
    BY <2>2, <2>3, <2>5 DEF RawCtl
<1> QED
  BY <1>2, <1>3, <1>4, <1>5

LEMMA RawStays ==
  ASSUME RawCtl, UNCHANGED <<ro, rtnl, raw_notifier_list, raw_busy_notifier, rpc>>
  PROVE  RawCtl'
BY DEF RawCtl, RawTypeOK, CallInv, NotifyInv

LEMMA RawCtlStep ==
  ASSUME RawCtl, scene \in Scenes, [Next]_vars
  PROVE  RawCtl'
<1>1. ASSUME NEW c \in Cpus, Receive(c) \/ Loopback(c) PROVE RawCtl'
  BY <1>1, RawStays DEF Receive, Loopback, NewFrame
<1>2. ASSUME NEW c \in Cpus, Filter(c) \/ Unlock(c) \/ Taken(c) PROVE RawCtl'
  BY <1>2, RawStays DEF Filter, Unlock, Taken, OldFrame, rawVars
<1>3. CASE Register \/ Unregister \/ RawSends
  BY <1>3, RawStays DEF Register, Unregister, RawSends, raw_sendmsg, rawVars
<1>4. CASE GwUses \/ GwUsed \/ BcmUses \/ BcmUsed \/ Over \/ UNCHANGED vars
  BY <1>4, RawStays DEF GwUses, GwUsed, BcmUses, BcmUsed, Over, vars, rawVars
<1>5. CASE RawUses
  <2>1. ASSUME NEW c \in Cpus, raw_rcv(c) PROVE RawCtl'
    BY <2>1, RawStays DEF raw_rcv
  <2>2. ASSUME NEW k \in RawSocks, raw_release_list(k) \/ raw_release_rtnl(k) PROVE RawCtl'
    BY <2>2, ReleaseKeeps
  <2>3. CASE raw_release_done
    <3>1. rtnl.sk \in RawSocks
      BY <2>3 DEF raw_release_done, RawCtl, RawTypeOK, CallRec, CallInv
    <3> QED
      BY <2>3, <3>1, ReleaseKeeps
  <2> QED
    BY <1>5, <2>1, <2>2, <2>3, TaskKeeps, CommitKeeps, NotifyKeeps, NotifyNextKeeps DEF RawUses, RawStep
<1>6. CASE RawUsed
  <2>1. ASSUME NEW k \in scene.socks, RawCall(k, scene.devs, scene.lists, scene.masks) PROVE RawCtl'
    <3>1. k \in RawSocks /\ scene.devs \subseteq AnyDev
      BY StackAssumption DEF AnyDev
    <3>2. ASSUME NEW d \in scene.devs, raw_bind(k, d) PROVE RawCtl'
      BY <3>1, <3>2, BindKeeps
    <3> QED
      BY <2>1, <3>1, <3>2, OptionKeeps, ReleaseKeeps DEF RawCall
  <2>2. CASE RawEvent
    BY <2>2, NotifierStarts DEF RawEvent
  <2> QED
    BY <1>6, <2>1, <2>2 DEF RawUsed
<1> QED
  BY <1>1, <1>2, <1>3, <1>4, <1>5, <1>6 DEF Next

LEMMA RawCtlInit ==
  ASSUME Init
  PROVE  RawCtl
<1>1. /\ rtnl = NoCall /\ raw_busy_notifier = NIL /\ rpc = [k \in RawSocks |-> "open"]
      /\ raw_notifier_list = SetToSeq(RawSocks) /\ scene \in Scenes
  BY DEF Init, RawInit
<1>2. ro \in [RawSocks -> RoRec] /\ \A k \in RawSocks : ~ro[k].bound /\ ro[k].dev = NIL
  <2>1. PICK r \in scene.opts : ro = [k \in RawSocks |->
          [filter |-> r.filter, join |-> r.join, own |-> r.own, kinds |-> r.kinds,
           bound |-> FALSE, dev |-> NIL, err_mask |-> {}]]
    BY DEF Init, RawInit
  <2>2. r \in [filter : Seq(CanFilters), join : BOOLEAN, own : BOOLEAN, kinds : SUBSET {"CC", "FD", "XL"}]
    BY <1>1, StackAssumption
  <2> QED
    BY <2>1, <2>2 DEF RoRec
<1>3. raw_notifier_list \in Seq(RawSocks) /\ NoTwice(raw_notifier_list)
      /\ \A k \in RawSocks : InSeq(raw_notifier_list, k)
  <2> DEFINE n == Cardinality(RawSocks)
  <2>1. n \in Nat /\ ExistsBijection(1..n, RawSocks)
    BY RawAssumption, FS_CardinalityType
  <2>2. PICK g \in Bijection(1..n, RawSocks) : TRUE
    BY <2>1 DEF ExistsBijection
  <2>3. g \in [1..n -> RawSocks] /\ IsInjective(g)
    BY <2>2 DEF Bijection, Injection
  <2> DEFINE s == SetToSeq(RawSocks)
  <2>4. s \in [1..n -> RawSocks] /\ IsInjective(s)
    BY <2>3 DEF SetToSeq
  <2> HIDE DEF n, s
  <2>5. s \in Injection(1..n, RawSocks)
    BY <2>4 DEF Injection
  <2>6. IsFiniteSet(1..n) /\ Cardinality(1..n) = n
    BY <2>1, FS_Interval
  <2>7. s \in Surjection(1..n, RawSocks)
    BY <2>5, <2>6, RawAssumption, FS_Injection DEF n
  <2>8. s \in Seq(RawSocks) /\ Len(s) = n
    BY <2>1, <2>4
  <2>9. \A k \in RawSocks : \E i \in 1..n : s[i] = k
    BY <2>7 DEF Surjection
  <2>10. NoTwice(s)
    BY <2>4, <2>8 DEF NoTwice, IsInjective
  <2> QED
    BY <1>1, <2>8, <2>9, <2>10 DEF InSeq, s
<1>4. RawTypeOK
  BY <1>1, <1>2, <1>3, CallType DEF RawTypeOK
<1>5. CallInv
  <2>1. rtnl = NoCall
    BY <1>1
  <2> QED
    BY <1>2, <2>1, CallType DEF CallInv
<1>6. NotifyInv
  BY <1>1, <1>3, CallType DEF NotifyInv
<1> QED
  BY <1>4, <1>5, <1>6 DEF RawCtl

-----------------------------------------------------------------------------
(* What the steps of the users do to lists and walks; O are the owners they *)
(* act for.                                                                 *)

Quiet == UNCHANGED <<rcv, walk>>
LinksFor(O) ==
  UNCHANGED walk /\ \E dev \in AnyDev, f \in CanFilters, o \in O : can_rx_register(dev, f, o)
UnlinksFor(O) ==
  /\ UNCHANGED walk
  /\ \E dev \in AnyDev \cup {NIL}, f \in CanFilters \cup {NIL}, o \in O : can_rx_unregister(dev, f, o)
ReturnsFor(O) == UNCHANGED rcv /\ \E c \in Cpus : Callee(c) \in O /\ Returned(c)
ActsFor(O) == Quiet \/ LinksFor(O) \/ UnlinksFor(O) \/ ReturnsFor(O)

\* The receivers of the others are as before, up to the link.
OthersStay(O) ==
  \A s \in Slots : (rcv[s].owner \in Owners \ O \/ rcv'[s].owner \in Owners \ O) =>
    /\ rcv'[s].owner = rcv[s].owner /\ rcv'[s].state = rcv[s].state /\ rcv'[s].dev = rcv[s].dev
    /\ rcv'[s].list = rcv[s].list /\ rcv'[s].id = rcv[s].id /\ rcv'[s].mask = rcv[s].mask
    /\ rcv'[s].gp = rcv[s].gp

CoreRest == waits' \in [Deferred -> SUBSET Cpus] /\ backlog' \in Seq(FrameRec) /\ up' \in [Devs -> BOOLEAN]

LEMMA CalleeFacts ==
  ASSUME CoreInv, NEW c \in Cpus, Callee(c) # NIL
  PROVE  /\ walk[c].call /\ walk[c].frame \in FrameRec /\ c \in Readers /\ walk[c].at \in Slots
         /\ rcv[walk[c].at].owner = Callee(c) /\ Callee(c) \in Owners
         /\ \/ rcv[walk[c].at].state = "on"
            \/ rcv[walk[c].at].state = "off" /\ c \in rcv[walk[c].at].gp
<1>1. walk[c] \in WalkRec /\ WalkOK(c) /\ rcv \in [Slots -> RcvRec]
  BY DEF CoreInv, CoreTypeOK, WalkInv
<1>2. walk[c].call /\ rcv[walk[c].at].owner = Callee(c)
  BY DEF Callee
<1>3. walk[c].frame # NIL
  BY <1>1, <1>2 DEF WalkOK, Idle
<1>4. walk[c].at # NIL
  BY <1>1, <1>2 DEF WalkOK
<1>5. walk[c].frame \in FrameRec /\ walk[c].at \in Slots
  BY <1>1, <1>3, <1>4 DEF WalkRec
<1>6. rcv[walk[c].at].owner \in Owners
  BY <1>1, <1>2, <1>5 DEF RcvRec
<1> QED
  BY <1>1, <1>2, <1>3, <1>4, <1>5, <1>6 DEF WalkOK, Readers

LEMMA LinksOthers ==
  ASSUME CoreInv, NEW O \in SUBSET Owners, LinksFor(O)
  PROVE  /\ OthersStay(O) /\ rcv' \in [Slots -> RcvRec] /\ ListInv' /\ WalkInv'
         /\ \A c \in Cpus : Callee(c)' = Callee(c)
<1>1. PICK dev \in AnyDev, f \in CanFilters, o \in O : can_rx_register(dev, f, o)
  BY DEF LinksFor
<1>2. PICK s \in Slots : Links(s, dev, f, o)
  BY <1>1, RegisterLinks
<1>3. UNCHANGED walk /\ o \in Owners
  BY DEF LinksFor
<1>4. rcv' \in [Slots -> RcvRec] /\ ListInv' /\ WalkInv'
  BY <1>2, <1>3, LinkKeeps
<1>5. /\ rcv \in [Slots -> RcvRec] /\ rcv[s] = Free /\ rcv'[s].owner = o
      /\ \A x \in Slots \ {s} : rcv'[x] = rcv[x]
  <2>1. rcv \in [Slots -> RcvRec] /\ rcv[s] = Free /\ rcv' = [rcv EXCEPT ![s] = New(dev, f, o)]
    BY <1>2 DEF CoreInv, CoreTypeOK, Links
  <2>2. New(dev, f, o).owner = o
    BY DEF New
  <2> QED
    BY <2>1, <2>2
<1>6. OthersStay(O)
  BY <1>5, FreeType, NilFacts DEF OthersStay
<1>7. ASSUME NEW c \in Cpus PROVE Callee(c)' = Callee(c)
  <2>1. walk[c].call => walk[c].at \in Slots \ {s}
    <3>1. walk[c] \in WalkRec /\ WalkOK(c)
      BY DEF CoreInv, CoreTypeOK, WalkInv
    <3> QED
      BY <1>5, <3>1, FreeType DEF WalkOK, WalkRec
  <2> QED
    BY <1>3, <1>5, <2>1 DEF Callee
<1> QED
  BY <1>4, <1>6, <1>7

LEMMA UnlinksOthers ==
  ASSUME CoreInv, NEW O \in SUBSET Owners, UnlinksFor(O)
  PROVE  /\ OthersStay(O) /\ rcv' \in [Slots -> RcvRec] /\ ListInv' /\ WalkInv'
         /\ \A c \in Cpus : Callee(c)' = Callee(c)
<1>1. PICK dev \in AnyDev \cup {NIL}, f \in CanFilters \cup {NIL}, o \in O : can_rx_unregister(dev, f, o)
  BY DEF UnlinksFor
<1>2. UNCHANGED walk /\ o \in Owners
  BY DEF UnlinksFor
<1>3. CASE Found(dev, f, o) = {}
  <2>1. UNCHANGED rcv
    BY <1>1, <1>3 DEF can_rx_unregister
  <2>2. rcv' \in [Slots -> RcvRec] /\ ListInv' /\ WalkInv'
    BY <1>2, <2>1 DEF CoreInv, CoreTypeOK, ListInv, WalkInv, SlotOK, WalkOK, Acyclic, On, Readers
  <2> QED
    BY <1>2, <2>1, <2>2 DEF OthersStay, Callee
<1>4. CASE Found(dev, f, o) # {}
  <2>1. PICK s \in Found(dev, f, o) : Unlinks(s)
    BY <1>1, <1>4, UnregisterUnlinks
  <2>2. s \in Slots /\ s \in On /\ rcv[s].owner = o
    BY DEF Found, OnList, On
  <2>3. rcv' \in [Slots -> RcvRec] /\ ListInv' /\ WalkInv'
    BY <1>2, <2>1, <2>2, UnlinkKeeps
  <2>4. rcv \in [Slots -> RcvRec] /\ rcv[s] \in RcvRec
    BY <2>2 DEF CoreInv, CoreTypeOK
  <2>5. rcv'[s].owner \in {NIL, o} /\ (Readers # {} => rcv'[s].owner = o)
    BY <2>1, <2>2, <2>4, FreeType DEF Unlinks, RcvRec
  <2>6. ASSUME NEW x \in Slots \ {s}
        PROVE  /\ rcv'[x].owner = rcv[x].owner /\ rcv'[x].state = rcv[x].state /\ rcv'[x].dev = rcv[x].dev
               /\ rcv'[x].list = rcv[x].list /\ rcv'[x].id = rcv[x].id /\ rcv'[x].mask = rcv[x].mask
               /\ rcv'[x].gp = rcv[x].gp
    <3>1. rcv[x] \in RcvRec
      BY <2>4
    <3> QED
      BY <2>1, <3>1 DEF Unlinks, RcvRec
  <2>7. OthersStay(O)
    BY <2>2, <2>5, <2>6, NilFacts DEF OthersStay
  <2>8. ASSUME NEW c \in Cpus PROVE Callee(c)' = Callee(c)
    <3>1. walk[c].call => walk[c].at \in Slots /\ c \in Readers
      <4>1. walk[c] \in WalkRec /\ WalkOK(c)
        BY DEF CoreInv, CoreTypeOK, WalkInv
      <4> QED
        BY <4>1 DEF WalkOK, WalkRec, Readers, Idle
    <3> QED
      BY <1>2, <2>2, <2>5, <2>6, <3>1 DEF Callee
  <2> QED
    BY <2>3, <2>7, <2>8
<1> QED
  BY <1>3, <1>4

LEMMA ActsKeep ==
  ASSUME CoreInv, NEW O \in SUBSET Owners, ActsFor(O), CoreRest
  PROVE  CoreInv' /\ OthersStay(O)
<1>1. rcv \in [Slots -> RcvRec] /\ walk \in [Cpus -> WalkRec] /\ ListInv /\ WalkInv
  BY DEF CoreInv, CoreTypeOK
<1>2. CASE Quiet
  <2>1. rcv' \in [Slots -> RcvRec] /\ walk' \in [Cpus -> WalkRec] /\ ListInv' /\ WalkInv'
    BY <1>1, <1>2 DEF Quiet, ListInv, WalkInv, SlotOK, WalkOK, Acyclic, On, Readers
  <2> QED
    BY <1>2, <2>1 DEF Quiet, CoreInv, CoreTypeOK, CoreRest, OthersStay
<1>3. CASE LinksFor(O)
  BY <1>1, <1>3, LinksOthers DEF CoreInv, CoreTypeOK, CoreRest, LinksFor
<1>4. CASE UnlinksFor(O)
  BY <1>1, <1>4, UnlinksOthers DEF CoreInv, CoreTypeOK, CoreRest, UnlinksFor
<1>5. CASE ReturnsFor(O)
  <2>1. PICK c \in Cpus : Callee(c) \in O /\ Returned(c)
    BY <1>5 DEF ReturnsFor
  <2>2. walk[c].frame # NIL
    BY <2>1, CalleeFacts, NilFacts DEF Readers
  <2>3. UNCHANGED rcv
    BY <1>5 DEF ReturnsFor
  <2>4. rcv' \in [Slots -> RcvRec] /\ walk' \in [Cpus -> WalkRec] /\ ListInv' /\ WalkInv'
    BY <2>1, <2>2, <2>3, ReturnedKeeps
  <2> QED
    BY <2>3, <2>4 DEF CoreInv, CoreTypeOK, CoreRest, OthersStay
<1> QED
  BY <1>2, <1>3, <1>4, <1>5 DEF ActsFor

-----------------------------------------------------------------------------
(* The gateway. *)

JobRec == [state : {"free", "on", "off"}, spec : JobSpecs \cup {NIL}, mod : Mods \cup {NIL}]
ModStates == {"free", "used", "old"}

Listed == {j \in Jobs : job[j].state = "on"}

\* A receiver of a job as registered.
Mine(s, j) ==
  LET l == can_rcv_list_find(job[j].spec.filter)
  IN /\ rcv[s].state = "on" /\ rcv[s].owner = j
     /\ rcv[s].dev = job[j].spec.src /\ rcv[s].list = l.list
     /\ rcv[s].id = l.id /\ rcv[s].mask = l.mask

GwTypeOK ==
  /\ job \in [Jobs -> JobRec]
  /\ DOMAIN cf_mod = Mods
  /\ \A m \in Mods : cf_mod[m].state \in ModStates /\ DOMAIN cf_mod[m] = {"state", "uid", "content"}
  /\ cgw_list \in Seq(Jobs) /\ flush \subseteq Jobs
  /\ using \in [Cpus -> Mods \cup {NIL}] /\ gone \subseteq Devs

CgwListInv ==
  /\ NoTwice(cgw_list) /\ \A j \in Jobs : InSeq(cgw_list, j) <=> j \in Listed
  /\ flush \subseteq Listed
  /\ \A j \in Listed : {job[j].spec.src, job[j].spec.dst} \cap gone # {} => j \in flush
  /\ scene.part # "gw" => \A j \in Jobs : job[j] = NoJob

JobFilterInv ==
  /\ \A s \in Slots : rcv[s].owner \in Jobs =>
       /\ rcv[s].state = "on" => Mine(s, rcv[s].owner) /\ rcv[s].owner \in Listed
       /\ rcv[s].state = "off" =>
            job[rcv[s].owner].state = "off" /\ rcv[s].gp \subseteq waits[rcv[s].owner]
  /\ \A j \in Listed : \E s \in Slots : Mine(s, j)
  /\ \A s, t \in On : rcv[s].owner \in Jobs /\ rcv[s].owner = rcv[t].owner => s = t

JobMemInv ==
  /\ \A j \in Jobs :
       /\ job[j].state = "free" => job[j] = NoJob
       /\ job[j].state # "free" =>
            /\ job[j].spec \in JobSpecs
            /\ job[j].mod \in Mods /\ cf_mod[job[j].mod].state = "used"
       /\ job[j].state = "off" => waits[j] # {} /\ waits[j] \subseteq Readers
  /\ \A j, k \in Jobs : job[j].state # "free" /\ job[j].mod = job[k].mod => j = k
  /\ \A m \in Mods :
       /\ cf_mod[m].state = "free" => cf_mod[m] = NoMod
       /\ cf_mod[m].state = "old" => waits[m] # {} /\ waits[m] \subseteq Readers

UsingInv ==
  \A c \in Cpus : using[c] # NIL =>
    /\ Callee(c) \in Jobs
    /\ walk[c].frame.hops < max_hops
    /\ \/ job[Callee(c)].mod = using[c] /\ cf_mod[using[c]].state = "used"
       \/ cf_mod[using[c]].state = "old" /\ c \in waits[using[c]]

GwInv == GwTypeOK /\ CgwListInv /\ JobFilterInv /\ JobMemInv /\ UsingInv

\* hops and the history of a frame.
HopsOK(f) ==
  IF f.times = 0 THEN f.hops = 0 /\ f.limit = max_hops
  ELSE /\ f.limit \in 1..max_hops /\ f.times <= f.limit
       /\ f.hops = max_hops - f.limit + f.times
HopsInv == \A f \in Frames : HopsOK(f)

-----------------------------------------------------------------------------
(* The core under all its users. *)

LEMMA RestStays ==
  ASSUME CoreInv, UNCHANGED <<waits, backlog, up>>
  PROVE  CoreRest
BY DEF CoreInv, CoreTypeOK, CoreRest

LEMMA RawActs ==
  ASSUME CoreInv, RawCtl, scene \in Scenes, RawUses \/ RawUsed \/ RawSends
  PROVE  ActsFor(RawSocks) /\ CoreRest
<1>1. ASSUME UNCHANGED rxVars PROVE ActsFor(RawSocks) /\ CoreRest
  BY <1>1, RestStays DEF rxVars, ActsFor, Quiet
<1>2. ASSUME NEW c \in Cpus, raw_rcv(c) PROVE ActsFor(RawSocks) /\ CoreRest
  BY <1>2, RestStays DEF raw_rcv, ActsFor, ReturnsFor
<1>3. ASSUME NEW faults, RawTask(faults) PROVE ActsFor(RawSocks) /\ CoreRest
  <2> DEFINE t == Head(rtnl.todo)
  <2>1. /\ rtnl.todo \in Seq(TaskRec) /\ rtnl.todo # <<>>
    BY <1>3 DEF RawCtl, RawTypeOK, CallRec, RawTask
  <2>2. t \in TaskRec /\ Len(rtnl.todo) > 0
    BY <2>1, HeadTailProperties, EmptySeq
  <2>3. rtnl.sk \in RawSocks
    BY <2>2 DEF RawCtl, CallInv, RawTypeOK, CallRec
  <2>4. t.dev \in AnyDev /\ t.f \in CanFilters
    BY <2>2 DEF TaskRec
  <2>5. UNCHANGED walk
    BY <1>3 DEF RawTask
  <2>6. \/ can_rx_register(t.dev, t.f, rtnl.sk) \/ can_rx_unregister(t.dev, t.f, rtnl.sk)
        \/ UNCHANGED rcv
    BY <1>3 DEF RawTask, Registers, Unregisters
  <2>7. CoreRest
    BY <1>3, RestStays DEF RawTask
  <2> HIDE DEF t
  <2> QED
    BY <2>3, <2>4, <2>5, <2>6, <2>7 DEF ActsFor, LinksFor, UnlinksFor, Quiet
<1>4. CASE RawCommit \/ raw_notify \/ raw_notify_next
  BY <1>1, <1>4 DEF RawCommit, raw_notify, raw_notify_next
<1>5. CASE raw_release_done
  BY <1>5, RestStays DEF raw_release_done, ActsFor, Quiet
<1>6. ASSUME NEW k \in RawSocks, raw_release_list(k) \/ raw_release_rtnl(k)
      PROVE  ActsFor(RawSocks) /\ CoreRest
  BY <1>1, <1>6 DEF raw_release_list, raw_release_rtnl
<1>7. CASE RawUses
  BY <1>2, <1>3, <1>4, <1>5, <1>6, <1>7 DEF RawUses, RawStep
<1>8. CASE RawUsed
  BY <1>1, <1>8 DEF RawUsed, RawCall, RawEvent, raw_setsockopt, Replace, raw_release, raw_bind, raw_notifier
<1>9. CASE RawSends
  <2>1. PICK k \in scene.socks, f \in scene.sends : raw_sendmsg(k, f)
    BY <1>9 DEF RawSends
  <2>2. k \in Socks /\ f \in NewFrames
    BY StackAssumption, NilFacts
  <2> DEFINE g == [f EXCEPT !.sk = k]
  <2>3. g \in FrameRec
    <3>1. max_hops \in Nat
      BY GwAssumption
    <3> QED
      BY <2>2, <3>1 DEF NewFrames, FrameRec
  <2>4. backlog' = Append(backlog, g) /\ UNCHANGED <<rcv, waits, refs, walk, up>>
    BY <2>1 DEF raw_sendmsg, can_send
  <2> HIDE DEF g
  <2>5. backlog' \in Seq(FrameRec)
    BY <2>3, <2>4, AppendProperties DEF CoreInv, CoreTypeOK
  <2> QED
    BY <2>4, <2>5 DEF ActsFor, Quiet, CoreRest, CoreInv, CoreTypeOK
<1> QED
  BY <1>7, <1>8, <1>9

\* A job whose callback runs is not freed, and a frame it routes is one.
LEMMA JobAtWork ==
  ASSUME CoreInv, GwInv, NEW c \in Cpus, Callee(c) \in Jobs
  PROVE  /\ job[Callee(c)].state # "free" /\ job[Callee(c)].spec \in JobSpecs
         /\ job[Callee(c)].mod \in Mods /\ cf_mod[job[Callee(c)].mod].state = "used"
         /\ walk[c].frame \in FrameRec /\ c \in Readers
         /\ job[Callee(c)].state = "off" => c \in waits[Callee(c)]
<1>1. Callee(c) # NIL
  BY GwAssumption
<1>2. /\ walk[c].frame \in FrameRec /\ c \in Readers /\ walk[c].at \in Slots
      /\ rcv[walk[c].at].owner = Callee(c)
      /\ \/ rcv[walk[c].at].state = "on"
         \/ rcv[walk[c].at].state = "off" /\ c \in rcv[walk[c].at].gp
  BY <1>1, CalleeFacts
<1>3. job[Callee(c)].state # "free" /\ (job[Callee(c)].state = "off" => c \in waits[Callee(c)])
  BY <1>2 DEF GwInv, JobFilterInv, Listed
<1> QED
  BY <1>2, <1>3 DEF GwInv, JobMemInv

LEMMA RoutedType ==
  ASSUME NEW spec \in JobSpecs, NEW f \in FrameRec
  PROVE  Routed(spec, f) \in FrameRec
<1>1. /\ spec.dst \in Devs /\ spec.limit \in 0..max_hops /\ max_hops \in Nat \ {0}
  BY GwAssumption
<1>2. /\ f.hops \in Nat /\ f.times \in Nat /\ f.limit \in Nat
  BY DEF FrameRec
<1>3. Hops(spec, f.hops) \in Nat
  BY <1>1, <1>2 DEF Hops
<1>4. (IF f.times > 0 THEN f.limit ELSE IF spec.limit > 0 THEN spec.limit ELSE max_hops) \in Nat
  BY <1>1, <1>2
<1>5. f.times + 1 \in Nat
  BY <1>2
<1> QED
  BY <1>1, <1>3, <1>4, <1>5 DEF Routed, FrameRec

LEMMA GwActs ==
  ASSUME CoreInv, GwInv, GwUses \/ GwUsed
  PROVE  ActsFor(Jobs) /\ CoreRest
<1>1. ASSUME NEW j \in Listed, cgw_remove(j), UNCHANGED <<walk, backlog, up>>
      PROVE  ActsFor(Jobs) /\ CoreRest
  <2>1. j \in Jobs /\ job[j].spec \in JobSpecs
    BY DEF GwInv, JobMemInv, Listed
  <2>2. job[j].spec.src \in AnyDev /\ job[j].spec.filter \in CanFilters
    BY <2>1, GwAssumption DEF AnyDev
  <2>3. UnlinksFor(Jobs)
    BY <1>1, <2>1, <2>2 DEF cgw_remove, UnlinksFor
  <2>4. waits' \in [Deferred -> SUBSET Cpus]
    <3>1. Readers \subseteq Cpus
      BY DEF Readers
    <3> QED
      BY <1>1, <3>1 DEF cgw_remove, CoreInv, CoreTypeOK
  <2> QED
    BY <1>1, <2>3, <2>4 DEF ActsFor, CoreRest, CoreInv, CoreTypeOK
<1>2. ASSUME NEW c \in Cpus, GwRead(c) PROVE ActsFor(Jobs) /\ CoreRest
  BY <1>2, RestStays DEF GwRead, ActsFor, ReturnsFor, Quiet
<1>3. ASSUME NEW c \in Cpus, GwSend(c) PROVE ActsFor(Jobs) /\ CoreRest
  <2> DEFINE g == Routed(job[Callee(c)].spec, walk[c].frame)
  <2>1. Callee(c) \in Jobs /\ Returned(c) /\ UNCHANGED <<rcv, waits, up>>
    BY <1>3 DEF GwSend
  <2>2. g \in FrameRec
    BY <2>1, JobAtWork, RoutedType
  <2>3. backlog' = Append(backlog, g) \/ backlog' = backlog
    BY <1>3, Zenon DEF GwSend, can_send
  <2> HIDE DEF g
  <2>4. backlog' \in Seq(FrameRec)
    BY <2>2, <2>3, AppendProperties DEF CoreInv, CoreTypeOK
  <2> QED
    BY <2>1, <2>4 DEF ActsFor, ReturnsFor, CoreRest, CoreInv, CoreTypeOK
<1>4. ASSUME NEW s \in JobSpecs, cgw_create_job(s) PROVE ActsFor(Jobs) /\ CoreRest
  <2>1. CASE GwUpdate(s)
    <3>1. PICK m : waits' = [waits EXCEPT ![m] = ModReaders] /\ UNCHANGED <<rcv, walk, backlog, up>>
      BY <2>1 DEF GwUpdate
    <3>2. ModReaders \subseteq Cpus
      BY DEF ModReaders, Readers
    <3> QED
      BY <3>1, <3>2 DEF ActsFor, Quiet, CoreRest, CoreInv, CoreTypeOK
  <2>2. CASE GwCreate(s)
    <3> DEFINE j == FirstFree(Jobs, job, NoJob)
    <3>1. j \in Jobs
      BY <2>2 DEF GwCreate, FirstFree
    <3>2. s.src \in AnyDev /\ s.filter \in CanFilters
      BY GwAssumption DEF AnyDev
    <3>3. can_rx_register(s.src, s.filter, j) /\ UNCHANGED <<waits, walk, backlog, up>>
      BY <2>2 DEF GwCreate
    <3> HIDE DEF j
    <3> QED
      BY <3>1, <3>2, <3>3, RestStays DEF ActsFor, LinksFor
  <2> QED
    BY <1>4, <2>1, <2>2 DEF cgw_create_job
<1>5. ASSUME NEW s \in JobSpecs, cgw_remove_job(s) PROVE ActsFor(Jobs) /\ CoreRest
  <2>1. PICK i \in 1..Len(cgw_list) : cgw_remove(cgw_list[i])
    BY <1>5 DEF cgw_remove_job
  <2>2. cgw_list[i] \in Listed
    <3>1. cgw_list[i] \in Jobs /\ InSeq(cgw_list, cgw_list[i])
      BY ElementOfSeq DEF GwInv, GwTypeOK, InSeq
    <3> QED
      BY <3>1 DEF GwInv, CgwListInv
  <2> QED
    BY <1>1, <1>5, <2>1, <2>2 DEF cgw_remove_job
<1>6. CASE cgw_remove_all_jobs
  BY <1>6, RestStays DEF cgw_remove_all_jobs, rxVars, ActsFor, Quiet
<1>7. ASSUME NEW d \in Devs, cgw_notifier(d) PROVE ActsFor(Jobs) /\ CoreRest
  BY <1>7 DEF cgw_notifier, ActsFor, Quiet, CoreRest, CoreInv, CoreTypeOK
<1>8. CASE GwFlush
  <2>1. PICK j \in flush : cgw_remove(j)
    BY <1>8 DEF GwFlush
  <2>2. j \in Listed
    BY DEF GwInv, CgwListInv
  <2> QED
    BY <1>1, <1>8, <2>1, <2>2 DEF GwFlush
<1> QED
  BY <1>2, <1>3, <1>4, <1>5, <1>6, <1>7, <1>8 DEF GwUses, GwUsed, GwStep, GwCall

\* What a step of the broadcast manager leaves alone.
BcmStill == UNCHANGED <<rcv, walk, waits, backlog, up>>

LEMMA HandlerStill ==
  ASSUME NEW t, NEW from, NEW to, Handler(t, from, to)
  PROVE  BcmStill
BY DEF Handler, rxVars, BcmStill

LEMMA UserStill ==
  ASSUME NEW from, NEW to, User(from, to), UNCHANGED <<rcv, waits>>
  PROVE  BcmStill
BY DEF User, BcmStill

LEMMA TxGotoStill ==
  ASSUME NEW from, NEW to, TxGoto(from, to)
  PROVE  BcmStill
BY UserStill DEF TxGoto

LEMMA RxGotoStill ==
  ASSUME NEW from, NEW to, RxGoto(from, to), UNCHANGED rcv
  PROVE  BcmStill
BY UserStill DEF RxGoto

LEMMA BcmQuiet ==
  /\ TxStep \/ BcmTxCall \/ BcmRxCall => BcmStill
  /\ RxTimeout \/ RxThrottle \/ RxThrottleAgain \/ RxThrottleEnd => BcmStill
  /\ RxSet \/ RxIval1 \/ RxIval2 \/ RxZero \/ RxLast \/ RxCancel \/ RxFlush \/ RxStart => BcmStill
  /\ RxRemove \/ ReleaseTx \/ ReleaseSynced \/ ReleasePut => BcmStill
  /\ bcm_release \/ BcmTime \/ (\E t \in Timers : Expire(t)) => BcmStill
<1>1. TxTimeout \/ TxTimeoutSent \/ TxTimeoutExpiry => BcmStill
  BY HandlerStill DEF TxTimeout, TxTimeoutSent, TxTimeoutExpiry
<1>2. TxCreated \/ TxUpdateLocked \/ TxIval1 \/ TxIval2 => BcmStill
  BY TxGotoStill DEF TxCreated, TxUpdateLocked, TxIval1, TxIval2
<1>3. TxZero \/ TxCancel \/ TxAnnounce \/ TxStart \/ TxRemove => BcmStill
  BY TxGotoStill DEF TxZero, TxCancel, TxAnnounce, TxStart, TxRemove
<1>4. TxCreate \/ TxUpdate => BcmStill
  BY UserStill DEF TxCreate, TxUpdate
<1>5. TxDelete => BcmStill
  BY TxGotoStill DEF TxDelete
<1>6. RxCreate \/ RxUpdate => BcmStill
  BY UserStill DEF RxCreate, RxUpdate
<1>7. RxDelete => BcmStill
  BY RxGotoStill DEF RxDelete
<1>8. RxTimeout \/ RxThrottle \/ RxThrottleAgain \/ RxThrottleEnd => BcmStill
  BY HandlerStill DEF RxTimeout, RxThrottle, RxThrottleAgain, RxThrottleEnd
<1>9. RxSet \/ RxIval1 \/ RxIval2 \/ RxZero => BcmStill
  BY RxGotoStill DEF RxSet, RxIval1, RxIval2, RxZero
<1>10. RxLast \/ RxCancel \/ RxFlush \/ RxStart => BcmStill
  BY RxGotoStill DEF RxLast, RxCancel, RxFlush, RxStart
<1>11. RxRemove \/ ReleaseTx \/ ReleaseSynced \/ ReleasePut => BcmStill
  BY UserStill DEF RxRemove, ReleaseTx, ReleaseSynced, ReleasePut
<1>12. bcm_release => BcmStill
  BY UserStill DEF bcm_release
<1>13. BcmTime \/ (\E t \in Timers : Expire(t)) => BcmStill
  BY DEF BcmTime, Expire, rxVars, BcmStill
<1> QED
  BY <1>1, <1>2, <1>3, <1>4, <1>5, <1>6, <1>7, <1>8, <1>9, <1>10, <1>11, <1>12, <1>13
  DEF TxStep, BcmTxCall, BcmRxCall

LEMMA BcmActs ==
  ASSUME CoreInv, BcmUses \/ BcmUsed
  PROVE  ActsFor({RxOp}) /\ CoreRest
<1> DEFINE Goal == ActsFor({RxOp}) /\ CoreRest
<1> SUFFICES Goal
  OBVIOUS
<1>1. ASSUME UNCHANGED <<rcv, walk>>, CoreRest PROVE Goal
  BY <1>1 DEF ActsFor, Quiet
<1>2. ASSUME BcmStill PROVE Goal
  BY <1>1, <1>2, RestStays DEF BcmStill
<1>3. ASSUME can_rx_register(BcmDev, BcmFilter, RxOp) \/ can_rx_unregister(BcmDev, BcmFilter, RxOp),
             UNCHANGED walk, CoreRest
      PROVE  Goal
  <2>1. BcmDev \in AnyDev /\ BcmFilter \in CanFilters /\ RxOp \in {RxOp}
    BY BcmAssumption DEF AnyDev
  <2> QED
    BY <1>3, <2>1, Zenon DEF ActsFor, LinksFor, UnlinksFor
<1>4. ASSUME NEW c \in Cpus, NEW from, NEW to, Receiving(c, from, to) PROVE Goal
  BY <1>4, RestStays DEF Receiving, ActsFor, ReturnsFor, Quiet
<1>5. Readers \subseteq Cpus
  BY DEF Readers
<1> HIDE DEF Goal
<1>6. ASSUME UNCHANGED <<walk, waits, backlog, up>>,
             \/ can_rx_register(BcmDev, BcmFilter, RxOp) \/ can_rx_unregister(BcmDev, BcmFilter, RxOp)
             \/ UNCHANGED rcv
      PROVE  Goal
  BY <1>2, <1>3, <1>6, RestStays DEF BcmStill
<1>7. CASE RxRegister
  <2>1. UNCHANGED <<walk, waits, backlog, up>>
    BY <1>7 DEF RxRegister, RxGoto, User
  <2>2. can_rx_register(BcmDev, BcmFilter, RxOp) \/ UNCHANGED rcv
    BY <1>7, Zenon DEF RxRegister
  <2> QED
    BY <1>6, <2>1, <2>2
<1>8. CASE RxUnreg \/ ReleaseUnreg
  <2>1. UNCHANGED <<walk, waits, backlog, up>>
    BY <1>8 DEF RxUnreg, ReleaseUnreg, User
  <2>2. can_rx_unregister(BcmDev, BcmFilter, RxOp) \/ UNCHANGED rcv
    BY <1>8, Zenon DEF RxUnreg, ReleaseUnreg, bcm_rx_unreg
  <2> QED
    BY <1>6, <2>1, <2>2
<1>9. CASE RxRemoveThr \/ ReleaseSync
  <2>1. UNCHANGED <<rcv, walk, backlog, up>>
    BY <1>9 DEF RxRemoveThr, ReleaseSync, User
  <2>2. waits' = [waits EXCEPT ![RxOp] = Readers] \/ waits' = [waits EXCEPT ![Sync] = Readers]
    BY <1>9 DEF RxRemoveThr, ReleaseSync, SyncWaits
  <2>3. waits' \in [Deferred -> SUBSET Cpus]
    BY <1>5, <2>2 DEF CoreInv, CoreTypeOK
  <2> QED
    BY <1>1, <2>1, <2>3 DEF CoreRest, CoreInv, CoreTypeOK
<1>10. ASSUME NEW c \in Cpus, BcmRcv(c) \/ BcmRcvCompare(c) \/ BcmRcvUpdate(c) \/ BcmRcvStart(c)
       PROVE  Goal
  BY <1>4, <1>10 DEF BcmRcv, BcmRcvCompare, BcmRcvUpdate, BcmRcvStart
<1>11. CASE bcm_notify
  <2>1. up' \in [Devs -> BOOLEAN] /\ UNCHANGED <<waits, walk, backlog>>
    BY <1>11 DEF bcm_notify, CoreInv, CoreTypeOK
  <2>2. can_rx_unregister(BcmDev, BcmFilter, RxOp)
    BY <1>11, Zenon DEF bcm_notify
  <2> QED
    BY <1>3, <2>1, <2>2 DEF CoreRest, CoreInv, CoreTypeOK
<1>12. TxStep \/ BcmTxCall \/ BcmRxCall => Goal
  BY <1>2, BcmQuiet
<1>13. RxStep => Goal
  BY <1>2, <1>7, <1>8, <1>9, <1>10, BcmQuiet DEF RxStep
<1>14. BcmEvent => Goal
  BY <1>2, <1>11, BcmQuiet DEF BcmEvent
<1> QED
  BY <1>12, <1>13, <1>14 DEF BcmUses, BcmUsed, BcmStep

LEMMA PlainActs ==
  ASSUME CoreInv, scene \in Scenes, Register \/ Unregister \/ \E c \in Cpus : Taken(c)
  PROVE  ActsFor(Plain) /\ CoreRest
<1>1. CASE Register
  <2>1. /\ UNCHANGED <<waits, walk, backlog, up>>
        /\ \E f \in scene.filters, d \in scene.devs, o \in Plain : can_rx_register(d, f, o)
    BY <1>1 DEF Register
  <2>2. scene.filters \subseteq CanFilters /\ scene.devs \subseteq AnyDev
    BY StackAssumption DEF AnyDev
  <2> QED
    BY <2>1, <2>2, RestStays DEF ActsFor, LinksFor
<1>2. CASE \E c \in Cpus : Taken(c)
  BY <1>2, RestStays DEF Taken, ActsFor, ReturnsFor
<1>3. CASE Unregister
  <2>1. PICK s \in On : rcv[s].owner \in Plain /\ can_rx_unregister(rcv[s].dev, rcv[s].asked, rcv[s].owner)
    BY <1>3 DEF Unregister
  <2>2. rcv[s] \in RcvRec
    BY DEF On, CoreInv, CoreTypeOK
  <2>3. UNCHANGED <<walk, waits, backlog, up>>
    BY <1>3 DEF Unregister
  <2> QED
    BY <2>1, <2>2, <2>3, RestStays DEF ActsFor, UnlinksFor, RcvRec
<1> QED
  BY <1>1, <1>2, <1>3

LEMMA NewFrameType == ASSUME NEW f \in NewFrames PROVE f \in FrameRec
BY GwAssumption, NilFacts DEF NewFrames, FrameRec

LEMMA SceneFrames ==
  ASSUME scene \in Scenes
  PROVE  /\ scene.frames \subseteq FrameRec /\ scene.sends \subseteq FrameRec
         /\ scene.frames \subseteq NewFrames /\ scene.sends \subseteq NewFrames
BY StackAssumption, NewFrameType

\* A frame that starts its walk on c.
Starts(c, f) == f \in FrameRec /\ f # NIL /\ can_receive(c, f) /\ UNCHANGED <<rcv, waits, refs, up>>

LEMMA ReceiveStarts ==
  ASSUME scene \in Scenes, NEW c \in Cpus, Receive(c)
  PROVE  \E f \in scene.frames : Starts(c, f) /\ UNCHANGED backlog
<1>1. PICK f \in scene.frames : can_receive(c, f)
  BY DEF Receive
<1>2. f \in FrameRec /\ f # NIL
  BY SceneFrames, StackAssumption
<1>3. UNCHANGED <<rcv, waits, refs, backlog, up>>
  BY DEF Receive
<1> QED
  BY <1>1, <1>2, <1>3 DEF Starts

LEMMA LoopbackStarts ==
  ASSUME CoreInv, NEW c \in Cpus, Loopback(c)
  PROVE  /\ backlog # <<>> /\ Starts(c, Head(backlog)) /\ backlog' = Tail(backlog)
<1>1. /\ backlog # <<>> /\ can_receive(c, Head(backlog)) /\ backlog' = Tail(backlog)
      /\ UNCHANGED <<rcv, waits, refs, up>>
  BY DEF Loopback, netif_receive
<1>2. Head(backlog) \in FrameRec
  BY <1>1, HeadTailProperties DEF CoreInv, CoreTypeOK
<1> QED
  BY <1>1, <1>2, StackAssumption DEF Starts

LEMMA CoreStep ==
  ASSUME CoreInv, RawCtl, GwInv, scene \in Scenes, Next
  PROVE  CoreInv'
<1>1. /\ Plain \in SUBSET Owners /\ RawSocks \in SUBSET Owners /\ Jobs \in SUBSET Owners
      /\ {RxOp} \in SUBSET Owners
  BY CanRxAssumption, RawAssumption, GwAssumption, BcmAssumption DEF Plain
<1>2. ASSUME NEW c \in Cpus, NEW f, Starts(c, f), backlog' \in Seq(FrameRec) PROVE CoreInv'
  <2>1. rcv' \in [Slots -> RcvRec] /\ walk' \in [Cpus -> WalkRec] /\ ListInv' /\ WalkInv'
    BY <1>2, ReceiveKeeps DEF Starts
  <2> QED
    BY <1>2, <2>1 DEF Starts, CoreInv, CoreTypeOK
<1>3. ASSUME NEW c \in Cpus, Receive(c) PROVE CoreInv'
  <2>1. PICK f : Starts(c, f) /\ UNCHANGED backlog
    BY <1>3, ReceiveStarts
  <2> QED
    BY <1>2, <2>1 DEF CoreInv, CoreTypeOK
<1>4. ASSUME NEW c \in Cpus, Loopback(c) PROVE CoreInv'
  <2>1. backlog' \in Seq(FrameRec)
    BY <1>4, LoopbackStarts, HeadTailProperties DEF CoreInv, CoreTypeOK
  <2> QED
    BY <1>2, <1>4, <2>1, LoopbackStarts
<1>5. ASSUME NEW c \in Cpus, Filter(c) PROVE CoreInv'
  BY <1>5, AdvanceKeeps DEF Filter
<1>6. ASSUME NEW c \in Cpus, Unlock(c) PROVE CoreInv'
  <2>1. rcu_read_unlock(c)
    BY <1>6 DEF Unlock
  <2>2. rcv' \in [Slots -> RcvRec] /\ walk' \in [Cpus -> WalkRec] /\ ListInv' /\ WalkInv'
    BY <2>1, UnlockKeeps
  <2>3. waits' \in [Deferred -> SUBSET Cpus] /\ UNCHANGED <<backlog, up>>
    BY <2>1 DEF rcu_read_unlock, CoreInv, CoreTypeOK
  <2> QED
    BY <2>2, <2>3 DEF CoreInv, CoreTypeOK
<1>7. CASE Register \/ Unregister \/ \E c \in Cpus : Taken(c)
  BY <1>1, <1>7, PlainActs, ActsKeep
<1>8. CASE RawUses \/ RawUsed \/ RawSends
  BY <1>1, <1>8, RawActs, ActsKeep
<1>9. CASE GwUses \/ GwUsed
  BY <1>1, <1>9, GwActs, ActsKeep
<1>10. CASE BcmUses \/ BcmUsed
  BY <1>1, <1>10, BcmActs, ActsKeep
<1>11. CASE Over
  <2>1. Quiet /\ UNCHANGED <<waits, backlog, up>>
    BY <1>11 DEF Over, vars, rxVars, Quiet
  <2> QED
    BY <1>1, <2>1, RestStays, ActsKeep DEF ActsFor
<1> QED
  BY <1>3, <1>4, <1>5, <1>6, <1>7, <1>8, <1>9, <1>10, <1>11 DEF Next

LEMMA CoreInit ==
  ASSUME RxInit
  PROVE  CoreInv
<1>1. /\ rcv = [s \in Slots |-> Free] /\ waits = [d \in Deferred |-> {}]
      /\ walk = [c \in Cpus |-> Idle] /\ backlog = <<>> /\ up = [d \in Devs |-> TRUE]
  BY DEF RxInit
<1>2. Idle \in WalkRec /\ Idle.frame = NIL /\ Idle.at = NIL
  BY DEF Idle, WalkRec
<1>3. On = {}
  BY <1>1, FreeType DEF On
<1>4. CoreTypeOK
  BY <1>1, <1>2, FreeType DEF CoreTypeOK
<1>5. ListInv
  BY <1>1, <1>3, FreeType DEF ListInv, SlotOK, Acyclic
<1>6. WalkInv
  BY <1>1, <1>2 DEF WalkInv, WalkOK, Idle
<1> QED
  BY <1>4, <1>5, <1>6 DEF CoreInv

-----------------------------------------------------------------------------
(* The gateway keeps its jobs. *)

\* Who is called, and for which frame, changes only for those who act.
LEMMA ActsWalk ==
  ASSUME CoreInv, NEW O \in SUBSET Owners, ActsFor(O)
  PROVE  /\ Readers' = Readers /\ \A c \in Cpus : walk'[c].frame = walk[c].frame
         /\ \A c \in Cpus : Callee(c) \in Owners \ O => Callee(c)' = Callee(c)
<1>0. walk \in [Cpus -> WalkRec]
  BY DEF CoreInv, CoreTypeOK
<1>1. CASE Quiet
  BY <1>1 DEF Quiet, Readers, Callee
<1>2. CASE LinksFor(O)
  BY <1>2, LinksOthers DEF LinksFor, Readers
<1>3. CASE UnlinksFor(O)
  BY <1>3, UnlinksOthers DEF UnlinksFor, Readers
<1>4. CASE ReturnsFor(O)
  <2>1. PICK d \in Cpus : Callee(d) \in O /\ Returned(d)
    BY <1>4 DEF ReturnsFor
  <2>2. \A c \in Cpus : walk'[c].frame = walk[c].frame
    BY <1>0, <2>1 DEF Returned, WalkRec
  <2>3. \A c \in Cpus \ {d} : walk'[c] = walk[c]
    BY <1>0, <2>1 DEF Returned
  <2>4. ASSUME NEW c \in Cpus, Callee(c) \in Owners \ O PROVE Callee(c)' = Callee(c)
    <3>1. c # d /\ UNCHANGED rcv
      BY <1>4, <2>1, <2>4 DEF ReturnsFor
    <3> QED
      BY <2>3, <3>1 DEF Callee
  <2> QED
    BY <2>2, <2>4 DEF Readers
<1> QED
  BY <1>1, <1>2, <1>3, <1>4 DEF ActsFor

\* What does not concern the gateway.
GwAside ==
  /\ UNCHANGED <<gwVars, scene>>
  /\ \A s \in Slots : rcv[s].owner \in Jobs \/ rcv'[s].owner \in Jobs =>
       /\ rcv'[s].owner = rcv[s].owner /\ rcv'[s].state = rcv[s].state /\ rcv'[s].dev = rcv[s].dev
       /\ rcv'[s].list = rcv[s].list /\ rcv'[s].id = rcv[s].id /\ rcv'[s].mask = rcv[s].mask
       /\ rcv'[s].gp = rcv[s].gp
  /\ \A x \in Jobs \cup Mods : waits'[x] = waits[x]
  /\ Readers \subseteq Readers'
  /\ \A c \in Cpus : Callee(c) \in Jobs =>
       Callee(c)' = Callee(c) /\ walk'[c].frame = walk[c].frame

LEMMA GwAsideKeeps ==
  ASSUME GwInv, GwAside
  PROVE  GwInv'
<1>1. UNCHANGED <<job, cf_mod, cgw_list, flush, using, gone, scene>>
  BY DEF GwAside, gwVars
<1>2. GwTypeOK' /\ CgwListInv'
  BY <1>1 DEF GwInv, GwTypeOK, CgwListInv, Listed
<1>3. JobFilterInv'
  <2>1. \A s \in Slots, j \in Jobs : Mine(s, j)' <=> Mine(s, j)
    BY <1>1 DEF GwAside, Mine
  <2>2. \A s \in Slots : rcv'[s].owner \in Jobs =>
          rcv'[s].owner = rcv[s].owner /\ rcv'[s].state = rcv[s].state /\ rcv'[s].gp = rcv[s].gp
    BY DEF GwAside
  <2>3. Listed' = Listed /\ Listed \subseteq Jobs /\ \A j \in Jobs : waits'[j] = waits[j]
    BY <1>1 DEF Listed, GwAside
  <2> QED
    BY <1>1, <2>1, <2>2, <2>3 DEF GwInv, JobFilterInv, On
<1>4. JobMemInv'
  BY <1>1 DEF GwInv, GwAside, JobMemInv
<1>5. UsingInv'
  BY <1>1 DEF GwInv, GwTypeOK, GwAside, UsingInv
<1> QED
  BY <1>2, <1>3, <1>4, <1>5 DEF GwInv

LEMMA ActsAside ==
  ASSUME CoreInv, NEW O \in SUBSET (Owners \ Jobs), ActsFor(O), CoreRest, UNCHANGED <<gwVars, scene>>,
         \A x \in Jobs \cup Mods : waits'[x] = waits[x]
  PROVE  GwAside
<1>1. OthersStay(O)
  BY ActsKeep
<1>2. Jobs \subseteq Owners \ O
  BY GwAssumption
<1>3. Readers' = Readers /\ \A c \in Cpus : walk'[c].frame = walk[c].frame
  BY ActsWalk
<1>4. \A c \in Cpus : Callee(c) \in Owners \ O => Callee(c)' = Callee(c)
  BY ActsWalk
<1> QED
  BY <1>1, <1>2, <1>3, <1>4 DEF GwAside, OthersStay

LEMMA RawRest ==
  ASSUME RawUses \/ RawUsed \/ RawSends
  PROVE  UNCHANGED <<waits, up, gwVars, bcmVars, scene>>
<1>1. UNCHANGED <<gwVars, bcmVars, scene>>
  BY DEF RawUses, RawUsed, RawSends
<1>2. CASE RawUses
  <2>1. RawStep(scene.faults)
    BY <1>2 DEF RawUses
  <2>2. ASSUME NEW c \in Cpus, raw_rcv(c) PROVE UNCHANGED <<waits, up>>
    BY <2>2 DEF raw_rcv
  <2>3. RawTask(scene.faults) => UNCHANGED <<waits, up>>
    BY DEF RawTask
  <2>4. RawCommit \/ raw_notify \/ raw_notify_next => UNCHANGED <<waits, up>>
    BY DEF RawCommit, raw_notify, raw_notify_next, rxVars
  <2>5. raw_release_done => UNCHANGED <<waits, up>>
    BY DEF raw_release_done
  <2>6. ASSUME NEW k \in RawSocks, raw_release_list(k) \/ raw_release_rtnl(k) PROVE UNCHANGED <<waits, up>>
    BY <2>6 DEF raw_release_list, raw_release_rtnl, rxVars
  <2> QED
    BY <1>1, <2>1, <2>2, <2>3, <2>4, <2>5, <2>6 DEF RawStep
<1>3. CASE RawUsed
  <2>1. ASSUME NEW k, NEW lists, NEW masks, raw_setsockopt(k, lists, masks) PROVE UNCHANGED rxVars
    BY <2>1 DEF raw_setsockopt, Replace
  <2>2. ASSUME NEW k, raw_release(k) PROVE UNCHANGED rxVars
    BY <2>2 DEF raw_release
  <2>3. ASSUME NEW k, NEW d, raw_bind(k, d) PROVE UNCHANGED rxVars
    BY <2>3 DEF raw_bind
  <2>4. ASSUME NEW d, raw_notifier(d) PROVE UNCHANGED rxVars
    BY <2>4 DEF raw_notifier
  <2>5. UNCHANGED rxVars
    BY <1>3, <2>1, <2>2, <2>3, <2>4 DEF RawUsed, RawCall, RawEvent
  <2> QED
    BY <1>1, <2>5 DEF rxVars
<1>4. CASE RawSends
  BY <1>1, <1>4 DEF RawSends, raw_sendmsg
<1> QED
  BY <1>2, <1>3, <1>4

LEMMA BcmRest ==
  ASSUME CoreInv, BcmUses \/ BcmUsed
  PROVE  /\ UNCHANGED <<backlog, rawVars, gwVars, scene>>
         /\ \A x \in Deferred \ {RxOp, Sync} : waits'[x] = waits[x]
<1>1. UNCHANGED <<rawVars, gwVars, scene>>
  BY DEF BcmUses, BcmUsed
<1> DEFINE Goal == UNCHANGED backlog /\ \A x \in Deferred \ {RxOp, Sync} : waits'[x] = waits[x]
<1>2. BcmStill => Goal
  BY DEF BcmStill
<1>3. ASSUME UNCHANGED <<waits, backlog>> PROVE Goal
  BY <1>3
<1> HIDE DEF Goal
<1>4. RxRegister => Goal
  BY <1>3 DEF RxRegister, RxGoto, User
<1>5. RxUnreg \/ ReleaseUnreg => Goal
  BY <1>3 DEF RxUnreg, ReleaseUnreg, User
<1>6. RxRemoveThr \/ ReleaseSync => Goal
  <2> SUFFICES ASSUME RxRemoveThr \/ ReleaseSync PROVE Goal
    OBVIOUS
  <2>1. UNCHANGED backlog
    BY DEF RxRemoveThr, ReleaseSync, User
  <2>2. waits' = [waits EXCEPT ![RxOp] = Readers] \/ waits' = [waits EXCEPT ![Sync] = Readers]
    BY DEF RxRemoveThr, ReleaseSync, SyncWaits
  <2> QED
    BY <2>1, <2>2 DEF Goal, CoreInv, CoreTypeOK
<1>7. ASSUME NEW c \in Cpus, NEW from, NEW to, Receiving(c, from, to) PROVE Goal
  BY <1>3, <1>7 DEF Receiving
<1>8. (\E c \in Cpus : BcmRcv(c) \/ BcmRcvCompare(c) \/ BcmRcvUpdate(c) \/ BcmRcvStart(c)) => Goal
  BY <1>7 DEF BcmRcv, BcmRcvCompare, BcmRcvUpdate, BcmRcvStart
<1>9. bcm_notify => Goal
  BY <1>3 DEF bcm_notify
<1>10. RxStep => Goal
  BY <1>2, <1>4, <1>5, <1>6, <1>8, BcmQuiet DEF RxStep
<1>11. Goal
  BY <1>2, <1>9, <1>10, BcmQuiet DEF BcmUses, BcmUsed, BcmStep, BcmEvent
<1> QED
  BY <1>1, <1>11 DEF Goal

LEMMA PlainRest ==
  ASSUME Register \/ Unregister \/ \E c \in Cpus : Taken(c)
  PROVE  UNCHANGED <<waits, backlog, up, rawVars, gwVars, bcmVars, scene>>
BY DEF Register, Unregister, Taken

LEMMA StartsWalk ==
  ASSUME CoreInv, NEW c \in Cpus, NEW f, Starts(c, f)
  PROVE  /\ Callee(c) = NIL /\ Readers' = Readers \cup {c} /\ walk'[c].frame = f
         /\ walk[c].frame = NIL
         /\ \A d \in Cpus \ {c} : walk'[d] = walk[d] /\ Callee(d)' = Callee(d)
<1>1. walk \in [Cpus -> WalkRec] /\ walk[c] = Idle /\ f # NIL /\ UNCHANGED rcv
  BY DEF Starts, can_receive, CoreInv, CoreTypeOK
<1> DEFINE L == Lists(f.id)
           Of(dev) == [i \in 1..Len(L) |-> <<dev, L[i]>>]
           w == [frame |-> f, todo |-> Of(AllDevs) \o Of(f.dev), at |-> NIL, call |-> FALSE,
                 start |-> On, hits |-> <<>>]
<1>2. walk' = [walk EXCEPT ![c] = w] /\ w.frame = f
  BY DEF Starts, can_receive
<1> HIDE DEF w
<1>3. walk'[c] = w /\ \A d \in Cpus \ {c} : walk'[d] = walk[d]
  BY <1>1, <1>2
<1> QED
  BY <1>1, <1>2, <1>3 DEF Readers, Callee, Idle

LEMMA StartsAside ==
  ASSUME CoreInv, NEW c \in Cpus, NEW f, Starts(c, f), UNCHANGED <<gwVars, scene>>
  PROVE  GwAside
<1>1. NIL \notin Jobs
  BY GwAssumption
<1> QED
  BY <1>1, StartsWalk DEF Starts, GwAside

LEMMA FilterWalk ==
  ASSUME CoreInv, NEW c \in Cpus, can_rcv_filter(c)
  PROVE  /\ Callee(c) = NIL /\ Readers' = Readers /\ walk'[c].frame = walk[c].frame
         /\ \A d \in Cpus \ {c} : walk'[d] = walk[d] /\ Callee(d)' = Callee(d)
         /\ UNCHANGED <<rcv, waits, backlog, up>>
<1>1. walk \in [Cpus -> WalkRec] /\ ~walk[c].call /\ UNCHANGED <<rcv, waits, backlog, up>>
  BY DEF can_rcv_filter, Walking, CoreInv, CoreTypeOK
<1>2. walk' = [walk EXCEPT ![c] = Advanced(walk[c])]
  BY Zenon DEF can_rcv_filter
<1>3. Advanced(walk[c]).frame = walk[c].frame
  BY <1>1 DEF Advanced, WalkRec
<1>4. walk'[c].frame = walk[c].frame /\ \A d \in Cpus \ {c} : walk'[d] = walk[d]
  BY <1>1, <1>2, <1>3
<1> QED
  BY <1>1, <1>4 DEF Readers, Callee

LEMMA OtherAside ==
  ASSUME CoreInv, RawCtl, GwInv, scene \in Scenes, Next,
         ~(GwUses \/ GwUsed), ~(\E c \in Cpus : Unlock(c))
  PROVE  GwAside
<1>1. /\ Plain \in SUBSET (Owners \ Jobs) /\ RawSocks \in SUBSET (Owners \ Jobs)
      /\ {RxOp} \in SUBSET (Owners \ Jobs) /\ RxOp \notin Jobs
      /\ {RxOp, Sync} \cap (Jobs \cup Mods) = {} /\ Jobs \cup Mods \subseteq Deferred
      /\ NIL \notin Jobs
  BY CanRxAssumption, RawAssumption, GwAssumption, BcmAssumption, StackAssumption DEF Plain
<1>2. ASSUME NEW c \in Cpus, Receive(c) PROVE GwAside
  BY <1>2, ReceiveStarts, StartsAside DEF Receive
<1>3. ASSUME NEW c \in Cpus, Loopback(c) PROVE GwAside
  BY <1>3, LoopbackStarts, StartsAside DEF Loopback
<1>4. ASSUME NEW c \in Cpus, Filter(c) PROVE GwAside
  BY <1>1, <1>4, FilterWalk DEF Filter, GwAside
<1>5. CASE Register \/ Unregister \/ \E c \in Cpus : Taken(c)
  BY <1>1, <1>5, PlainActs, PlainRest, ActsAside
<1>6. CASE RawUses \/ RawUsed \/ RawSends
  BY <1>1, <1>6, RawActs, RawRest, ActsAside
<1>7. CASE BcmUses \/ BcmUsed
  <2>1. \A x \in Jobs \cup Mods : waits'[x] = waits[x]
    BY <1>1, <1>7, BcmRest
  <2> QED
    BY <1>1, <1>7, <2>1, BcmActs, BcmRest, ActsAside
<1>8. CASE Over
  BY <1>8 DEF Over, vars, rxVars, GwAside, Readers, Callee
<1> QED
  BY <1>2, <1>3, <1>4, <1>5, <1>6, <1>7, <1>8 DEF Next

LEMMA UnlockGw ==
  ASSUME CoreInv, GwInv, NEW c \in Cpus, Unlock(c)
  PROVE  GwInv'
<1> DEFINE Dies(j) == job[j].state = "off" /\ waits[j] \subseteq {c}
           Lost(m) == (cf_mod[m].state = "old" /\ waits[m] \subseteq {c})
                        \/ \E j \in Jobs : Dies(j) /\ job[j].mod = m
<1>1. /\ rcu_read_unlock(c) /\ GwFreed(c) /\ UNCHANGED scene
  BY DEF Unlock
<1>2. /\ walk \in [Cpus -> WalkRec] /\ waits \in [Deferred -> SUBSET Cpus]
      /\ rcv \in [Slots -> RcvRec] /\ WalkInv
      /\ Jobs \subseteq Deferred /\ Mods \subseteq Deferred /\ Jobs \subseteq Owners /\ NIL \notin Jobs \cup Mods
  BY GwAssumption DEF CoreInv, CoreTypeOK
<1>3. /\ walk' = [walk EXCEPT ![c] = Idle] /\ ~walk[c].call
      /\ waits' = [d \in Deferred |-> waits[d] \ {c}]
  BY <1>1 DEF rcu_read_unlock, Ended
<1>4. Readers' = Readers \ {c} /\ Callee(c) = NIL
  BY <1>2, <1>3 DEF Readers, Callee, Idle
<1>5. \A x \in Slots : rcv'[x] = IF rcv[x].state = "off" /\ rcv[x].gp \subseteq {c} THEN Free
                                 ELSE [rcv[x] EXCEPT !.gp = @ \ {c}]
  BY <1>1, UnlockKeeps
<1>6. ASSUME NEW x \in Slots, ~(rcv[x].state = "off" /\ rcv[x].gp \subseteq {c})
      PROVE  /\ rcv'[x].state = rcv[x].state /\ rcv'[x].owner = rcv[x].owner /\ rcv'[x].dev = rcv[x].dev
             /\ rcv'[x].list = rcv[x].list /\ rcv'[x].id = rcv[x].id /\ rcv'[x].mask = rcv[x].mask
             /\ rcv'[x].gp = rcv[x].gp \ {c}
  <2>1. rcv'[x] = [rcv[x] EXCEPT !.gp = @ \ {c}] /\ rcv[x] \in RcvRec
    BY <1>2, <1>5, <1>6
  <2> QED
    BY <2>1 DEF RcvRec
<1>7. /\ \A j \in Jobs : job'[j] = IF Dies(j) THEN NoJob ELSE job[j]
      /\ \A m \in Mods : cf_mod'[m] = IF Lost(m) THEN NoMod ELSE cf_mod[m]
      /\ DOMAIN job' = Jobs /\ DOMAIN cf_mod' = Mods /\ job' = [j \in Jobs |-> job'[j]]
      /\ UNCHANGED <<cgw_list, flush, using, gone>>
  BY <1>1 DEF GwFreed
<1>8. /\ NoJob \in JobRec /\ NoJob.state = "free" /\ NoJob.mod = NIL /\ NoMod.state = "free"
      /\ DOMAIN NoMod = {"state", "uid", "content"}
  BY DEF NoJob, JobRec, NoMod
<1> HIDE DEF Lost
<1>9. GwTypeOK /\ CgwListInv /\ JobFilterInv /\ JobMemInv /\ UsingInv
  BY DEF GwInv
<1>10. /\ Listed' = Listed /\ \A j \in Listed : job'[j] = job[j]
       /\ \A j \in Jobs : job'[j] = job[j] \/ (job'[j] = NoJob /\ job[j].state = "off")
  <2>1. \A j \in Jobs : job[j] \in JobRec
    BY <1>9 DEF GwTypeOK
  <2> QED
    BY <1>7, <1>8, <2>1 DEF Listed, JobRec
<1>11. GwTypeOK'
  BY <1>7, <1>8, <1>9, <1>10 DEF GwTypeOK, ModStates
<1>12. CgwListInv'
  BY <1>1, <1>7, <1>9, <1>10 DEF CgwListInv, Listed, NoJob
<1>13. ASSUME NEW x \in Slots, rcv'[x].owner \in Jobs
       PROVE  /\ ~(rcv[x].state = "off" /\ rcv[x].gp \subseteq {c})
              /\ rcv[x].owner = rcv'[x].owner /\ rcv'[x].state = rcv[x].state
  <2>1. Free.owner \notin Jobs
    BY <1>2, FreeType
  <2> QED
    BY <1>5, <1>6, <1>13, <2>1
<1>14. ASSUME NEW x \in Slots, NEW j \in Listed PROVE Mine(x, j)' <=> Mine(x, j)
  <2>1. job'[j] = job[j]
    BY <1>10
  <2>2. CASE rcv[x].state = "off" /\ rcv[x].gp \subseteq {c}
    <3>1. rcv'[x].state = "free"
      BY <1>5, <2>2, FreeType
    <3> QED
      BY <2>2, <3>1 DEF Mine
  <2>3. CASE ~(rcv[x].state = "off" /\ rcv[x].gp \subseteq {c})
    BY <1>6, <2>1, <2>3 DEF Mine
  <2> QED
    BY <2>2, <2>3
<1>15. JobFilterInv'
  <2>1. ASSUME NEW s \in Slots, rcv'[s].owner \in Jobs
        PROVE  /\ rcv'[s].state = "on" => Mine(s, rcv[s].owner)' /\ rcv'[s].owner \in Listed'
               /\ rcv'[s].state = "off" =>
                    job'[rcv'[s].owner].state = "off" /\ rcv'[s].gp \subseteq waits'[rcv'[s].owner]
    <3> DEFINE j == rcv'[s].owner
    <3>1. /\ ~(rcv[s].state = "off" /\ rcv[s].gp \subseteq {c}) /\ rcv[s].owner = j
          /\ rcv'[s].state = rcv[s].state
      BY <1>13, <2>1
    <3>2. CASE rcv[s].state = "on"
      BY <1>9, <1>10, <1>14, <2>1, <3>1, <3>2 DEF JobFilterInv
    <3>3. CASE rcv[s].state = "off"
      <4>1. job[j].state = "off" /\ rcv[s].gp \subseteq waits[j] /\ j \in Jobs /\ j \in Deferred
        BY <1>2, <1>9, <2>1, <3>1, <3>3 DEF JobFilterInv
      <4>2. ~Dies(j) /\ rcv'[s].gp = rcv[s].gp \ {c} /\ waits'[j] = waits[j] \ {c}
        BY <1>3, <1>6, <3>1, <3>3, <4>1
      <4> QED
        BY <1>7, <3>1, <3>3, <4>1, <4>2
    <3> QED
      BY <3>1, <3>2, <3>3
  <2>2. ASSUME NEW j \in Listed' PROVE \E s \in Slots : Mine(s, j)'
    <3>1. j \in Listed
      BY <1>10
    <3>2. PICK s \in Slots : Mine(s, j)
      BY <1>9, <3>1 DEF JobFilterInv
    <3> QED
      BY <1>14, <3>1, <3>2
  <2>3. \A s, t \in On' : rcv'[s].owner \in Jobs /\ rcv'[s].owner = rcv'[t].owner => s = t
    <3> SUFFICES ASSUME NEW s \in On', NEW t \in On', rcv'[s].owner \in Jobs, rcv'[s].owner = rcv'[t].owner
                 PROVE  s = t
      OBVIOUS
    <3>1. s \in On /\ t \in On /\ rcv[s].owner = rcv'[s].owner /\ rcv[t].owner = rcv'[t].owner
      BY <1>13 DEF On
    <3> QED
      BY <1>9, <3>1 DEF JobFilterInv
  <2>4. \A s \in Slots : rcv'[s].owner \in Jobs => rcv[s].owner = rcv'[s].owner
    BY <1>13
  <2> QED
    BY <2>1, <2>2, <2>3, <2>4 DEF JobFilterInv
<1>16. ASSUME NEW j \in Jobs, job'[j].state # "free"
       PROVE  /\ job'[j] = job[j] /\ ~Dies(j) /\ job[j].mod \in Mods
              /\ cf_mod[job[j].mod].state = "used" /\ cf_mod'[job[j].mod] = cf_mod[job[j].mod]
  <2>1. ~Dies(j) /\ job'[j] = job[j]
    BY <1>7, <1>8, <1>16
  <2>2. job[j].mod \in Mods /\ cf_mod[job[j].mod].state = "used"
    BY <1>9, <1>16, <2>1 DEF JobMemInv
  <2>3. ~Lost(job[j].mod)
    BY <1>9, <1>16, <2>1, <2>2 DEF Lost, JobMemInv
  <2> QED
    BY <1>7, <2>1, <2>2, <2>3
<1>17. JobMemInv'
  <2>1. ASSUME NEW j \in Jobs
        PROVE  /\ job'[j].state = "free" => job'[j] = NoJob
               /\ job'[j].state # "free" => job'[j].spec \in JobSpecs /\ job'[j].mod \in Mods
                    /\ cf_mod'[job'[j].mod].state = "used"
               /\ job'[j].state = "off" => waits'[j] # {} /\ waits'[j] \subseteq Readers'
    <3>1. job'[j].state = "free" => job'[j] = NoJob
      BY <1>7, <1>9 DEF JobMemInv
    <3>2. job'[j].state # "free" => job'[j].spec \in JobSpecs /\ job'[j].mod \in Mods
                    /\ cf_mod'[job'[j].mod].state = "used"
      BY <1>9, <1>16 DEF JobMemInv
    <3>3. ASSUME job'[j].state = "off" PROVE waits'[j] # {} /\ waits'[j] \subseteq Readers'
      <4>1. ~Dies(j) /\ job[j].state = "off" /\ j \in Deferred
        BY <1>2, <1>16, <3>3
      <4> QED
        BY <1>3, <1>4, <1>9, <4>1 DEF JobMemInv
    <3> QED
      BY <3>1, <3>2, <3>3
  <2>2. \A j, k \in Jobs : job'[j].state # "free" /\ job'[j].mod = job'[k].mod => j = k
    <3> SUFFICES ASSUME NEW j \in Jobs, NEW k \in Jobs, job'[j].state # "free", job'[j].mod = job'[k].mod
                 PROVE  j = k
      OBVIOUS
    <3>1. job'[j] = job[j] /\ job[j].mod \in Mods /\ job'[k] = job[k]
      BY <1>2, <1>8, <1>10, <1>16
    <3> QED
      BY <1>9, <3>1 DEF JobMemInv
  <2>3. ASSUME NEW m \in Mods
        PROVE  /\ cf_mod'[m].state = "free" => cf_mod'[m] = NoMod
               /\ cf_mod'[m].state = "old" => waits'[m] # {} /\ waits'[m] \subseteq Readers'
    <3>1. cf_mod'[m].state = "free" => cf_mod'[m] = NoMod
      BY <1>7, <1>9 DEF JobMemInv
    <3>2. ASSUME cf_mod'[m].state = "old" PROVE waits'[m] # {} /\ waits'[m] \subseteq Readers'
      <4>1. ~Lost(m) /\ cf_mod[m].state = "old" /\ m \in Deferred
        BY <1>2, <1>7, <1>8, <3>2
      <4>2. ~(waits[m] \subseteq {c})
        BY <4>1 DEF Lost
      <4> QED
        BY <1>3, <1>4, <1>9, <4>1, <4>2 DEF JobMemInv
    <3> QED
      BY <3>1, <3>2
  <2> QED
    BY <2>1, <2>2, <2>3 DEF JobMemInv
<1>18. UsingInv'
  <2> SUFFICES ASSUME NEW d \in Cpus, using'[d] # NIL
               PROVE  /\ Callee(d)' \in Jobs
                      /\ walk'[d].frame.hops < max_hops
                      /\ \/ job'[Callee(d)'].mod = using'[d] /\ cf_mod'[using'[d]].state = "used"
                         \/ cf_mod'[using'[d]].state = "old" /\ d \in waits'[using'[d]]
    BY DEF UsingInv
  <2>1. using'[d] = using[d] /\ using[d] \in Mods
    BY <1>7, <1>9 DEF GwTypeOK
  <2>2. /\ Callee(d) \in Jobs /\ walk[d].frame.hops < max_hops
        /\ \/ job[Callee(d)].mod = using[d] /\ cf_mod[using[d]].state = "used"
           \/ cf_mod[using[d]].state = "old" /\ d \in waits[using[d]]
    BY <1>9, <2>1 DEF UsingInv
  <2>3. d # c
    BY <1>2, <1>4, <2>2
  <2>4. walk'[d] = walk[d]
    BY <1>2, <1>3, <2>3
  <2>5. /\ walk[d].at \in Slots /\ walk[d].call
        /\ rcv[walk[d].at].state = "on" \/ (rcv[walk[d].at].state = "off" /\ d \in rcv[walk[d].at].gp)
    BY <1>2, <2>2, CalleeFacts
  <2>6. Callee(d)' = Callee(d)
    BY <1>6, <2>3, <2>4, <2>5 DEF Callee
  <2>7. ~Dies(Callee(d)) /\ job'[Callee(d)] = job[Callee(d)] /\ job[Callee(d)].state # "free"
    BY <1>7, <2>2, <2>3, JobAtWork
  <2>8. CASE job[Callee(d)].mod = using[d] /\ cf_mod[using[d]].state = "used"
    <3>1. cf_mod'[using[d]] = cf_mod[using[d]]
      BY <1>16, <2>2, <2>7, <2>8
    <3> QED
      BY <2>1, <2>2, <2>4, <2>6, <2>7, <2>8, <3>1
  <2>9. CASE cf_mod[using[d]].state = "old" /\ d \in waits[using[d]]
    <3>1. ~Lost(using[d])
      BY <1>9, <2>3, <2>9 DEF Lost, JobMemInv
    <3>2. cf_mod'[using[d]] = cf_mod[using[d]] /\ d \in waits'[using[d]]
      BY <1>2, <1>3, <1>7, <2>1, <2>3, <2>9, <3>1
    <3> QED
      BY <2>1, <2>2, <2>4, <2>6, <2>9, <3>2
  <2> QED
    BY <2>2, <2>8, <2>9
<1> QED
  BY <1>11, <1>12, <1>15, <1>17, <1>18 DEF GwInv

LEMMA GwReadKeeps ==
  ASSUME CoreInv, GwInv, NEW c \in Cpus, GwRead(c), UNCHANGED scene
  PROVE  GwInv'
<1> DEFINE j == Callee(c)
<1>1. /\ j \in Jobs /\ using[c] = NIL
      /\ UNCHANGED <<rcv, waits, refs, backlog, up, job, cf_mod, cgw_list, flush, gone>>
  BY DEF GwRead
<1>2. /\ job[j].state # "free" /\ job[j].spec \in JobSpecs /\ job[j].mod \in Mods
      /\ cf_mod[job[j].mod].state = "used" /\ walk[c].frame \in FrameRec
  BY <1>1, JobAtWork
<1>3. /\ walk \in [Cpus -> WalkRec] /\ using \in [Cpus -> Mods \cup {NIL}]
  BY DEF CoreInv, CoreTypeOK, GwInv, GwTypeOK
<1>4. GwTypeOK /\ CgwListInv /\ JobFilterInv /\ JobMemInv /\ UsingInv
  BY DEF GwInv
<1>5. CASE Stays(job[j].spec, walk[c].frame)
  <2>1. Returned(c) /\ UNCHANGED using
    BY <1>5 DEF GwRead
  <2>2. /\ \A d \in Cpus : walk'[d].frame = walk[d].frame
        /\ \A d \in Cpus \ {c} : walk'[d] = walk[d]
    BY <1>3, <2>1 DEF Returned, WalkRec
  <2>3. Readers' = Readers
    BY <2>2 DEF Readers
  <2>4. \A d \in Cpus \ {c} : Callee(d)' = Callee(d)
    BY <1>1, <2>2 DEF Callee
  <2>5. GwTypeOK' /\ CgwListInv'
    BY <1>1, <1>4, <2>1 DEF GwTypeOK, CgwListInv, Listed
  <2>6. JobFilterInv'
    BY <1>1, <1>4 DEF JobFilterInv, Mine, Listed, On
  <2>7. JobMemInv'
    BY <1>1, <1>4, <2>3 DEF JobMemInv
  <2>8. UsingInv'
    BY <1>1, <1>4, <2>1, <2>2, <2>4 DEF UsingInv
  <2> QED
    BY <2>5, <2>6, <2>7, <2>8 DEF GwInv
<1>6. CASE ~Stays(job[j].spec, walk[c].frame)
  <2>1. using' = [using EXCEPT ![c] = job[j].mod] /\ UNCHANGED walk
    BY <1>6 DEF GwRead
  <2>2. walk[c].frame.hops < max_hops
    <3>1. max_hops \in Nat /\ walk[c].frame.hops \in Nat
      BY <1>2, GwAssumption DEF FrameRec
    <3> QED
      BY <1>6, <3>1 DEF Stays
  <2>3. GwTypeOK' /\ CgwListInv'
    BY <1>1, <1>2, <1>4, <2>1 DEF GwTypeOK, CgwListInv, Listed
  <2>4. JobFilterInv'
    BY <1>1, <1>4 DEF JobFilterInv, Mine, Listed, On
  <2>5. JobMemInv'
    BY <1>1, <1>4, <2>1 DEF JobMemInv, Readers
  <2>6. \A d \in Cpus : Callee(d)' = Callee(d)
    BY <1>1, <2>1 DEF Callee
  <2> HIDE DEF j
  <2>7. /\ using'[c] = job[j].mod /\ \A d \in Cpus \ {c} : using'[d] = using[d]
    BY <1>3, <2>1
  <2>8. UsingInv'
    <3> SUFFICES ASSUME NEW d \in Cpus, using'[d] # NIL
                 PROVE  /\ Callee(d)' \in Jobs
                        /\ walk'[d].frame.hops < max_hops
                        /\ \/ job'[Callee(d)'].mod = using'[d] /\ cf_mod'[using'[d]].state = "used"
                           \/ cf_mod'[using'[d]].state = "old" /\ d \in waits'[using'[d]]
      BY DEF UsingInv
    <3>1. CASE d = c
      BY <1>1, <1>2, <2>1, <2>2, <2>6, <2>7, <3>1 DEF j
    <3>2. CASE d # c
      BY <1>1, <1>4, <2>1, <2>6, <2>7, <3>2 DEF UsingInv
    <3> QED
      BY <3>1, <3>2
  <2> QED
    BY <2>3, <2>4, <2>5, <2>8 DEF GwInv
<1> QED
  BY <1>5, <1>6

LEMMA GwSendKeeps ==
  ASSUME CoreInv, GwInv, NEW c \in Cpus, GwSend(c), UNCHANGED scene
  PROVE  GwInv'
<1>1. /\ Callee(c) \in Jobs /\ Returned(c) /\ using' = [using EXCEPT ![c] = NIL]
      /\ UNCHANGED <<rcv, waits, refs, up, job, cf_mod, cgw_list, flush, gone>>
  BY DEF GwSend
<1>2. /\ walk \in [Cpus -> WalkRec] /\ using \in [Cpus -> Mods \cup {NIL}]
  BY DEF CoreInv, CoreTypeOK, GwInv, GwTypeOK
<1>3. GwTypeOK /\ CgwListInv /\ JobFilterInv /\ JobMemInv /\ UsingInv
  BY DEF GwInv
<1>4. /\ \A d \in Cpus : walk'[d].frame = walk[d].frame
      /\ \A d \in Cpus \ {c} : walk'[d] = walk[d]
  BY <1>1, <1>2 DEF Returned, WalkRec
<1>5. Readers' = Readers /\ \A d \in Cpus \ {c} : Callee(d)' = Callee(d)
  BY <1>1, <1>4 DEF Readers, Callee
<1>6. using'[c] = NIL /\ \A d \in Cpus \ {c} : using'[d] = using[d]
  BY <1>1, <1>2
<1>7. GwTypeOK' /\ CgwListInv'
  BY <1>1, <1>3 DEF GwTypeOK, CgwListInv, Listed
<1>8. JobFilterInv'
  BY <1>1, <1>3 DEF JobFilterInv, Mine, Listed, On
<1>9. JobMemInv'
  BY <1>1, <1>3, <1>5 DEF JobMemInv
<1>10. UsingInv'
  BY <1>1, <1>3, <1>4, <1>5, <1>6 DEF UsingInv
<1> QED
  BY <1>7, <1>8, <1>9, <1>10 DEF GwInv

\* cgw_remove_all_jobs() and the notifier pick what will be removed.
LEMMA GwPickKeeps ==
  ASSUME CoreInv, GwInv, UNCHANGED scene,
         cgw_remove_all_jobs \/ \E dev \in Devs : cgw_notifier(dev)
  PROVE  GwInv'
<1>1. /\ UNCHANGED <<rcv, waits, walk, job, cf_mod, cgw_list, using>>
      /\ flush = {} /\ flush' \subseteq ToSet(cgw_list) /\ gone' \subseteq Devs
      /\ \A j \in ToSet(cgw_list) :
           {job[j].spec.src, job[j].spec.dst} \cap gone' # {} =>
             j \in flush' \/ {job[j].spec.src, job[j].spec.dst} \cap gone # {}
  BY DEF cgw_remove_all_jobs, cgw_notifier, rxVars, OnDevice, GwInv, GwTypeOK
<1>2. GwTypeOK /\ CgwListInv /\ JobFilterInv /\ JobMemInv /\ UsingInv
  BY DEF GwInv
<1>3. \A j \in Jobs : j \in ToSet(cgw_list) <=> j \in Listed
  BY <1>2 DEF CgwListInv, InSeq, ToSet, GwTypeOK
<1>4. ToSet(cgw_list) \subseteq Jobs
  BY <1>2, ElementOfSeq DEF GwTypeOK, ToSet
<1>5. GwTypeOK' /\ CgwListInv'
  BY <1>1, <1>2, <1>3, <1>4 DEF GwTypeOK, CgwListInv, Listed
<1>6. JobFilterInv'
  BY <1>1, <1>2 DEF JobFilterInv, Mine, Listed, On
<1>7. JobMemInv'
  BY <1>1, <1>2 DEF JobMemInv, Readers
<1>8. UsingInv'
  BY <1>1, <1>2 DEF UsingInv, Callee
<1> QED
  BY <1>5, <1>6, <1>7, <1>8 DEF GwInv

LEMMA GwUpdateKeeps ==
  ASSUME CoreInv, GwInv, UNCHANGED scene, NEW s \in JobSpecs, GwUpdate(s)
  PROVE  GwInv'
<1> DEFINE m == FirstFree(Mods, cf_mod, NoMod)
<1>1. PICK i \in 1..Len(cgw_list) :
        LET j == cgw_list[i]
        IN /\ \E x \in Mods : cf_mod[x] = NoMod
           /\ job' = [job EXCEPT ![j].mod = m]
           /\ cf_mod' = [cf_mod EXCEPT ![m] = NewMod(s), ![job[j].mod] = FreeMod(job[j].mod)]
           /\ waits' = [waits EXCEPT ![job[j].mod] = ModReaders]
           /\ UNCHANGED <<rcv, refs, walk, backlog, up, cgw_list, flush, using, gone>>
  BY DEF GwUpdate
<1> DEFINE j == cgw_list[i]
           o == job[j].mod
<1>2. GwTypeOK /\ CgwListInv /\ JobFilterInv /\ JobMemInv /\ UsingInv
  BY DEF GwInv
<1>3. j \in Listed /\ j \in Jobs
  <2>1. cgw_list[i] \in Jobs /\ InSeq(cgw_list, cgw_list[i])
    BY <1>2, ElementOfSeq DEF GwTypeOK, InSeq
  <2> QED
    BY <1>2, <2>1 DEF CgwListInv
<1>4. m \in Mods /\ cf_mod[m] = NoMod /\ cf_mod[m].state = "free"
  BY <1>1 DEF FirstFree, NoMod
<1>5. o \in Mods /\ cf_mod[o].state = "used" /\ o # m /\ job[j].state = "on"
  BY <1>2, <1>3, <1>4 DEF JobMemInv, Listed
<1> HIDE DEF j, m, o
<1>6. /\ Jobs \cap Mods = {} /\ Jobs \subseteq Deferred /\ Mods \subseteq Deferred /\ NIL \notin Mods
      /\ NoMod.state = "free" /\ NewMod(s).state = "used" /\ NoJob.mod = NIL
  BY StackAssumption, GwAssumption DEF NoMod, NewMod, NoJob
<1>7. /\ job \in [Jobs -> JobRec] /\ waits \in [Deferred -> SUBSET Cpus] /\ DOMAIN cf_mod = Mods
  BY <1>2 DEF CoreInv, CoreTypeOK, GwTypeOK
<1>8. /\ job' \in [Jobs -> JobRec] /\ job'[j].mod = m /\ job'[j].state = "on" /\ job'[j].spec = job[j].spec
      /\ \A k \in Jobs \ {j} : job'[k] = job[k]
  <2>1. job' = [job EXCEPT ![j].mod = m] /\ job[j] \in JobRec
    BY <1>1, <1>3, <1>7 DEF j
  <2>2. [job[j] EXCEPT !.mod = m] \in JobRec
    BY <1>4, <2>1 DEF JobRec
  <2> QED
    BY <1>3, <1>5, <1>7, <2>1, <2>2 DEF JobRec
<1>9. /\ cf_mod' = [cf_mod EXCEPT ![m] = NewMod(s), ![o] = FreeMod(o)]
      /\ waits' = [waits EXCEPT ![o] = Readers]
      /\ UNCHANGED <<rcv, refs, walk, backlog, up, cgw_list, flush, using, gone>>
  BY <1>1 DEF j, o, ModReaders
<1>10. /\ cf_mod'[m].state = "used" /\ cf_mod'[o] = FreeMod(o) /\ DOMAIN cf_mod' = Mods
       /\ \A x \in Mods \ {m, o} : cf_mod'[x] = cf_mod[x]
  BY <1>4, <1>5, <1>6, <1>7, <1>9
<1>11. /\ Readers = {} => FreeMod(o) = NoMod
       /\ Readers # {} => FreeMod(o).state = "old"
  <2>1. cf_mod[o].state = "used"
    BY <1>5
  <2>2. DOMAIN cf_mod[o] = {"state", "uid", "content"}
    BY <1>2, <1>5 DEF GwTypeOK
  <2> QED
    BY <2>1, <2>2 DEF FreeMod, ModReaders
<1>12. /\ waits'[o] = Readers /\ \A x \in Deferred \ {o} : waits'[x] = waits[x]
  BY <1>5, <1>6, <1>7, <1>9
<1>13. Listed' = Listed /\ \A k \in Jobs : job'[k].spec = job[k].spec /\ job'[k].state = job[k].state
  BY <1>5, <1>8 DEF Listed
<1>14. GwTypeOK'
  <2>1. /\ DOMAIN FreeMod(o) = {"state", "uid", "content"}
        /\ DOMAIN NewMod(s) = {"state", "uid", "content"} /\ cf_mod'[m] = NewMod(s)
    BY <1>2, <1>4, <1>5, <1>7, <1>9 DEF GwTypeOK, FreeMod, NoMod, NewMod
  <2> QED
    BY <1>2, <1>6, <1>8, <1>9, <1>10, <1>11, <2>1 DEF GwTypeOK, ModStates
<1>15. CgwListInv'
  <2>1. scene.part = "gw"
    BY <1>2, <1>3, <1>5 DEF CgwListInv, NoJob
  <2> QED
    BY <1>2, <1>3, <1>9, <1>13, <2>1 DEF CgwListInv, Listed
<1>16. JobFilterInv'
  <2>1. \A x \in Slots, k \in Jobs : Mine(x, k)' <=> Mine(x, k)
    BY <1>9, <1>13 DEF Mine
  <2>2. \A k \in Jobs : waits'[k] = waits[k]
    BY <1>5, <1>6, <1>12
  <2>3. Listed \subseteq Jobs
    BY DEF Listed
  <2> QED
    BY <1>2, <1>9, <1>13, <2>1, <2>2, <2>3 DEF JobFilterInv, On
<1>17. JobMemInv'
  <2>1. ASSUME NEW k \in Jobs
        PROVE  /\ job'[k].state = "free" => job'[k] = NoJob
               /\ job'[k].state # "free" => job'[k].spec \in JobSpecs /\ job'[k].mod \in Mods
                    /\ cf_mod'[job'[k].mod].state = "used"
               /\ job'[k].state = "off" => waits'[k] # {} /\ waits'[k] \subseteq Readers'
    <3>1. CASE k = j
      BY <1>2, <1>3, <1>4, <1>5, <1>8, <1>10, <3>1 DEF JobMemInv
    <3>2. CASE k # j
      <4>1. job[k].state # "free" => job[k].mod # o /\ job[k].mod # m
        BY <1>2, <1>3, <1>4, <3>2 DEF JobMemInv, o
      <4>2. k \in Deferred \ {o} /\ Readers' = Readers
        BY <1>5, <1>6, <1>9 DEF Readers
      <4> QED
        BY <1>2, <1>8, <1>10, <1>12, <3>2, <4>1, <4>2 DEF JobMemInv
    <3> QED
      BY <3>1, <3>2
  <2>2. ASSUME NEW k \in Jobs, NEW l \in Jobs, job'[k].state # "free", job'[k].mod = job'[l].mod
        PROVE  k = l
    <3>1. \A x \in Jobs : job[x].mod # m
      BY <1>2, <1>4, <1>6 DEF JobMemInv
    <3> QED
      BY <1>2, <1>8, <2>2, <3>1 DEF JobMemInv
  <2>3. ASSUME NEW x \in Mods
        PROVE  /\ cf_mod'[x].state = "free" => cf_mod'[x] = NoMod
               /\ cf_mod'[x].state = "old" => waits'[x] # {} /\ waits'[x] \subseteq Readers'
    <3>1. Readers' = Readers
      BY <1>9 DEF Readers
    <3>2. CASE x = m
      BY <1>10, <3>2
    <3>3. CASE x = o
      BY <1>6, <1>10, <1>11, <1>12, <3>1, <3>3
    <3>4. CASE x \notin {m, o}
      BY <1>2, <1>6, <1>10, <1>12, <3>1, <3>4 DEF JobMemInv
    <3> QED
      BY <3>2, <3>3, <3>4
  <2> QED
    BY <2>1, <2>2, <2>3 DEF JobMemInv
<1>18. UsingInv'
  <2> SUFFICES ASSUME NEW d \in Cpus, using[d] # NIL
               PROVE  /\ Callee(d) \in Jobs
                      /\ walk[d].frame.hops < max_hops
                      /\ \/ job'[Callee(d)].mod = using[d] /\ cf_mod'[using[d]].state = "used"
                         \/ cf_mod'[using[d]].state = "old" /\ d \in waits'[using[d]]
    BY <1>9 DEF UsingInv, Callee
  <2>1. /\ Callee(d) \in Jobs /\ walk[d].frame.hops < max_hops /\ using[d] \in Mods
        /\ \/ job[Callee(d)].mod = using[d] /\ cf_mod[using[d]].state = "used"
           \/ cf_mod[using[d]].state = "old" /\ d \in waits[using[d]]
    BY <1>2 DEF UsingInv, GwTypeOK
  <2>2. d \in Readers /\ job[Callee(d)].state # "free"
    BY <2>1, JobAtWork
  <2>3. CASE using[d] = o
    <3>1. cf_mod'[o].state = "old" /\ d \in waits'[o]
      BY <1>10, <1>11, <1>12, <2>2
    <3> QED
      BY <2>1, <2>3, <3>1
  <2>4. CASE using[d] # o
    <3>1. using[d] # m
      BY <1>4, <2>1
    <3>2. cf_mod'[using[d]] = cf_mod[using[d]] /\ waits'[using[d]] = waits[using[d]]
      BY <1>6, <1>10, <1>12, <2>1, <2>4, <3>1
    <3>3. job[Callee(d)].mod = using[d] => Callee(d) # j
      BY <2>4 DEF o
    <3> QED
      BY <1>8, <2>1, <3>2, <3>3
  <2> QED
    BY <2>3, <2>4
<1> QED
  BY <1>14, <1>15, <1>16, <1>17, <1>18 DEF GwInv

LEMMA PrependIs ==
  ASSUME NEW S, NEW s \in Seq(S), NEW e \in S, NoTwice(s), ~InSeq(s, e)
  PROVE  LET t == <<e>> \o s
         IN t \in Seq(S) /\ NoTwice(t) /\ \A x : InSeq(t, x) <=> x = e \/ InSeq(s, x)
<1> DEFINE t == <<e>> \o s
<1>1. Len(s) \in Nat /\ <<e>> \in Seq(S) /\ Len(<<e>>) = 1
  BY LenProperties
<1>2. t \in Seq(S) /\ Len(t) = Len(s) + 1 /\ t[1] = e /\ \A i \in 2..Len(t) : t[i] = s[i - 1]
  BY <1>1, ConcatProperties
<1> HIDE DEF t
<1>3. NoTwice(t)
  <2> SUFFICES ASSUME NEW i \in 1..Len(t), NEW k \in 1..Len(t), t[i] = t[k] PROVE i = k
    BY DEF NoTwice
  <2>1. \A n \in 1..Len(s) : s[n] # e
    BY DEF InSeq
  <2>2. ASSUME NEW n \in 2..Len(t) PROVE n - 1 \in 1..Len(s) /\ t[n] = s[n - 1] /\ t[n] # e
    BY <1>1, <1>2, <2>1
  <2>3. CASE i = 1 \/ k = 1
    BY <1>1, <1>2, <2>2, <2>3
  <2>4. CASE i # 1 /\ k # 1
    <3>1. i \in 2..Len(t) /\ k \in 2..Len(t)
      BY <1>1, <1>2, <2>4
    <3>2. i - 1 = k - 1
      BY <2>2, <3>1 DEF NoTwice
    <3> QED
      BY <3>1, <3>2
  <2> QED
    BY <2>3, <2>4
<1>4. ASSUME NEW x PROVE InSeq(t, x) <=> x = e \/ InSeq(s, x)
  <2>1. ASSUME InSeq(t, x) PROVE x = e \/ InSeq(s, x)
    <3>1. PICK i \in 1..Len(t) : t[i] = x
      BY <2>1 DEF InSeq
    <3>2. CASE i = 1
      BY <1>2, <3>1, <3>2
    <3>3. CASE i # 1
      <4>1. i \in 2..Len(t) /\ i - 1 \in 1..Len(s)
        BY <1>1, <1>2, <3>1, <3>3
      <4> QED
        BY <1>2, <3>1, <4>1 DEF InSeq
    <3> QED
      BY <3>2, <3>3
  <2>2. x = e => InSeq(t, x)
    BY <1>1, <1>2 DEF InSeq
  <2>3. ASSUME InSeq(s, x) PROVE InSeq(t, x)
    <3>1. PICK i \in 1..Len(s) : s[i] = x
      BY <2>3 DEF InSeq
    <3>2. i + 1 \in 2..Len(t) /\ t[i + 1] = s[(i + 1) - 1] /\ (i + 1) - 1 = i
      BY <1>1, <1>2, <3>1
    <3>3. i + 1 \in 1..Len(t) /\ t[i + 1] = x
      BY <1>1, <3>1, <3>2
    <3> QED
      BY <3>3 DEF InSeq
  <2> QED
    BY <2>1, <2>2, <2>3
<1> QED
  BY <1>2, <1>3, <1>4 DEF t

LEMMA GwCreateKeeps ==
  ASSUME CoreInv, GwInv, UNCHANGED scene, scene.part = "gw", NEW s \in JobSpecs, GwCreate(s)
  PROVE  GwInv'
<1>0. PICK j, m : j = FirstFree(Jobs, job, NoJob) /\ m = FirstFree(Mods, cf_mod, NoMod)
  OBVIOUS
<1>1. /\ {s.src, s.dst} \cap gone = {} /\ (\E k \in Jobs : job[k] = NoJob)
      /\ (\E x \in Mods : cf_mod[x] = NoMod)
      /\ can_rx_register(s.src, s.filter, j)
      /\ job' = [job EXCEPT ![j] = [state |-> "on", spec |-> s, mod |-> m]]
      /\ cf_mod' = [cf_mod EXCEPT ![m] = NewMod(s)]
      /\ cgw_list' = <<j>> \o cgw_list
      /\ UNCHANGED <<waits, refs, walk, backlog, up, flush, using, gone>>
  BY <1>0 DEF GwCreate
<1>2. j \in Jobs /\ job[j] = NoJob /\ m \in Mods /\ cf_mod[m] = NoMod
  BY <1>0, <1>1 DEF FirstFree
<1>3. GwTypeOK /\ CgwListInv /\ JobFilterInv /\ JobMemInv /\ UsingInv
  BY DEF GwInv
<1>4. PICK x \in Slots : Links(x, s.src, s.filter, j)
  BY <1>1, RegisterLinks
<1>5. /\ rcv \in [Slots -> RcvRec] /\ rcv[x] = Free /\ j # NIL /\ NIL \notin Jobs /\ NIL \notin Mods
      /\ j \in Owners
  BY <1>2, <1>4, GwAssumption DEF CoreInv, CoreTypeOK, Links
<1> DEFINE l == can_rcv_list_find(s.filter)
<1>6. /\ rcv'[x].state = "on" /\ rcv'[x].owner = j /\ rcv'[x].dev = s.src /\ rcv'[x].list = l.list
      /\ rcv'[x].id = l.id /\ rcv'[x].mask = l.mask
      /\ \A y \in Slots \ {x} : rcv'[y] = rcv[y]
  BY <1>4, <1>5 DEF Links, New
<1> HIDE DEF l
<1>7. /\ NoJob.state = "free" /\ NoJob.mod = NIL /\ NoMod.state = "free" /\ NewMod(s).state = "used"
      /\ DOMAIN NewMod(s) = {"state", "uid", "content"} /\ NoJob.spec = NIL
  BY DEF NoJob, NoMod, NewMod
<1>8. /\ job \in [Jobs -> JobRec] /\ DOMAIN cf_mod = Mods
  BY <1>3 DEF GwTypeOK
<1>9. /\ job' \in [Jobs -> JobRec] /\ job'[j].state = "on" /\ job'[j].spec = s /\ job'[j].mod = m
      /\ \A k \in Jobs \ {j} : job'[k] = job[k]
  <2>1. [state |-> "on", spec |-> s, mod |-> m] \in JobRec
    BY <1>2 DEF JobRec
  <2> QED
    BY <1>1, <1>2, <1>8, <2>1
<1>10. /\ DOMAIN cf_mod' = Mods /\ cf_mod'[m] = NewMod(s) /\ \A y \in Mods \ {m} : cf_mod'[y] = cf_mod[y]
  BY <1>1, <1>2, <1>8
<1>11. Listed' = Listed \cup {j} /\ j \notin Listed
  BY <1>2, <1>7, <1>9 DEF Listed
<1>12. /\ cgw_list' \in Seq(Jobs) /\ NoTwice(cgw_list')
       /\ \A k : InSeq(cgw_list', k) <=> k = j \/ InSeq(cgw_list, k)
  <2>1. cgw_list \in Seq(Jobs) /\ NoTwice(cgw_list) /\ ~InSeq(cgw_list, j)
    BY <1>2, <1>3, <1>11 DEF GwTypeOK, CgwListInv
  <2> QED
    BY <1>1, <1>2, <2>1, PrependIs
<1>13. GwTypeOK'
  BY <1>1, <1>3, <1>7, <1>9, <1>10, <1>12 DEF GwTypeOK, ModStates
<1>14. CgwListInv'
  <2>1. \A k \in Jobs : InSeq(cgw_list', k) <=> k \in Listed'
    BY <1>3, <1>11, <1>12 DEF CgwListInv
  <2>2. \A k \in Listed' : {job'[k].spec.src, job'[k].spec.dst} \cap gone' # {} => k \in flush'
    <3> SUFFICES ASSUME NEW k \in Listed', {job'[k].spec.src, job'[k].spec.dst} \cap gone # {}
                 PROVE  k \in flush
      BY <1>1
    <3>1. k # j
      BY <1>1, <1>9
    <3>2. k \in Listed /\ job'[k] = job[k]
      BY <1>9, <1>11, <3>1 DEF Listed
    <3> QED
      BY <1>3, <3>2 DEF CgwListInv
  <2> QED
    BY <1>1, <1>3, <1>11, <1>12, <2>1, <2>2 DEF CgwListInv
<1>15. ASSUME NEW y \in Slots, NEW k \in Jobs \ {j} PROVE Mine(y, k)' <=> Mine(y, k)
  <2>1. CASE y = x
    BY <1>5, <1>6, <2>1, FreeType DEF Mine
  <2>2. CASE y # x
    BY <1>6, <1>9, <2>2 DEF Mine
  <2> QED
    BY <2>1, <2>2
<1>16. Mine(x, j)'
  BY <1>6, <1>9 DEF Mine, l
<1>17. \A y \in Slots : rcv[y].owner # j
  <2> SUFFICES ASSUME NEW y \in Slots, rcv[y].owner = j PROVE FALSE
    OBVIOUS
  <2>1. rcv[y].state \in {"on", "off"}
    BY <1>5 , FreeType DEF CoreInv, ListInv, SlotOK, RcvRec
  <2> QED
    BY <1>2, <1>3, <1>7, <1>11, <2>1 DEF JobFilterInv
<1>18. JobFilterInv'
  <2>1. ASSUME NEW y \in Slots, rcv'[y].owner \in Jobs
        PROVE  /\ rcv'[y].state = "on" => Mine(y, rcv[y].owner)' /\ rcv'[y].owner \in Listed'
               /\ rcv'[y].state = "off" =>
                    job'[rcv'[y].owner].state = "off" /\ rcv'[y].gp \subseteq waits'[rcv'[y].owner]
    <3>1. CASE y = x
      BY <1>6, <1>11, <1>16, <3>1
    <3>2. CASE y # x
      <4>1. rcv'[y] = rcv[y] /\ rcv[y].owner \in Jobs \ {j}
        BY <1>6, <1>17, <2>1, <3>2
      <4> QED
        BY <1>1, <1>3, <1>9, <1>11, <1>15, <4>1 DEF JobFilterInv
    <3> QED
      BY <3>1, <3>2
  <2>2. ASSUME NEW k \in Listed' PROVE \E y \in Slots : Mine(y, k)'
    <3>1. CASE k = j
      BY <1>16, <3>1
    <3>2. CASE k # j
      <4>1. k \in Listed /\ k \in Jobs \ {j}
        BY <1>11, <3>2 DEF Listed
      <4>2. PICK y \in Slots : Mine(y, k)
        BY <1>3, <4>1 DEF JobFilterInv
      <4> QED
        BY <1>15, <4>1, <4>2
    <3> QED
      BY <3>1, <3>2
  <2>3. ASSUME NEW y \in On', NEW z \in On', rcv'[y].owner \in Jobs, rcv'[y].owner = rcv'[z].owner
        PROVE  y = z
    <3>1. y \in Slots /\ z \in Slots
      BY DEF On
    <3>2. CASE y = x \/ z = x
      BY <1>6, <1>17, <2>3, <3>1, <3>2
    <3>3. CASE y # x /\ z # x
      BY <1>3, <1>6, <2>3, <3>1, <3>3 DEF JobFilterInv, On
    <3> QED
      BY <3>2, <3>3
  <2> QED
    BY <2>1, <2>2, <2>3 DEF JobFilterInv
<1>19. Readers' = Readers
  BY <1>1 DEF Readers
<1>20. JobMemInv'
  <2>1. ASSUME NEW k \in Jobs
        PROVE  /\ job'[k].state = "free" => job'[k] = NoJob
               /\ job'[k].state # "free" => job'[k].spec \in JobSpecs /\ job'[k].mod \in Mods
                    /\ cf_mod'[job'[k].mod].state = "used"
               /\ job'[k].state = "off" => waits'[k] # {} /\ waits'[k] \subseteq Readers'
    <3>1. CASE k = j
      BY <1>2, <1>7, <1>9, <1>10, <3>1
    <3>2. CASE k # j
      <4>1. job[k].state # "free" => job[k].mod # m
        BY <1>2, <1>3, <1>7 DEF JobMemInv
      <4> QED
        BY <1>1, <1>3, <1>9, <1>10, <1>19, <3>2, <4>1 DEF JobMemInv
    <3> QED
      BY <3>1, <3>2
  <2>2. ASSUME NEW k \in Jobs, NEW i \in Jobs, job'[k].state # "free", job'[k].mod = job'[i].mod
        PROVE  k = i
    <3>1. \A y \in Jobs : job[y].mod # m
      BY <1>2, <1>3, <1>5, <1>7 DEF JobMemInv
    <3> QED
      BY <1>3, <1>9, <2>2, <3>1 DEF JobMemInv
  <2>3. ASSUME NEW y \in Mods
        PROVE  /\ cf_mod'[y].state = "free" => cf_mod'[y] = NoMod
               /\ cf_mod'[y].state = "old" => waits'[y] # {} /\ waits'[y] \subseteq Readers'
    BY <1>1, <1>3, <1>7, <1>10, <1>19 DEF JobMemInv
  <2> QED
    BY <2>1, <2>2, <2>3 DEF JobMemInv
<1>21. UsingInv'
  <2>1. ASSUME NEW c \in Cpus, using[c] # NIL
        PROVE  /\ Callee(c)' = Callee(c) /\ job'[Callee(c)] = job[Callee(c)]
               /\ cf_mod'[using[c]] = cf_mod[using[c]]
    <3>1. Callee(c) \in Jobs /\ cf_mod[using[c]].state # "free" /\ using[c] \in Mods
      BY <1>3, <2>1 DEF UsingInv, GwTypeOK
    <3>2. job[Callee(c)].state # "free" /\ walk[c].at \in Slots /\ walk[c].call
          /\ rcv[walk[c].at].owner = Callee(c)
      BY <1>5, <3>1, JobAtWork, CalleeFacts
    <3>3. walk[c].at # x
      BY <1>5, <3>1, <3>2, FreeType
    <3> QED
      BY <1>1, <1>2, <1>6, <1>7, <1>9, <1>10, <3>1, <3>2, <3>3 DEF Callee
  <2> QED
    BY <1>1, <1>3, <2>1 DEF UsingInv
<1> QED
  BY <1>13, <1>14, <1>18, <1>20, <1>21 DEF GwInv

LEMMA GwRemoveKeeps ==
  ASSUME CoreInv, GwInv, UNCHANGED <<scene, walk, using, gone>>, NEW j \in Listed, cgw_remove(j),
         flush' = flush \ {j}
  PROVE  GwInv'
<1> DEFINE l == can_rcv_list_find(job[j].spec.filter)
           m == job[j].mod
<1>1. /\ cgw_list' = RemoveFirst(cgw_list, j)
      /\ can_rx_unregister(job[j].spec.src, job[j].spec.filter, j)
      /\ IF Readers = {}
         THEN job' = [job EXCEPT ![j] = NoJob] /\ cf_mod' = [cf_mod EXCEPT ![m] = NoMod]
         ELSE job' = [job EXCEPT ![j].state = "off"] /\ UNCHANGED cf_mod
      /\ waits' = [waits EXCEPT ![j] = Readers]
  BY DEF cgw_remove
<1>2. GwTypeOK /\ CgwListInv /\ JobFilterInv /\ JobMemInv /\ UsingInv
  BY DEF GwInv
<1>3. /\ j \in Jobs /\ job[j].state = "on" /\ job[j].spec \in JobSpecs /\ m \in Mods
      /\ cf_mod[m].state = "used" /\ j \in Owners /\ j # NIL
  BY <1>2, GwAssumption DEF JobMemInv, Listed
<1>4. PICK s \in Slots : Unlinks(s) /\ s \in On /\ rcv[s].owner = j
  <2>1. PICK t \in Slots : Mine(t, j)
    BY <1>2 DEF JobFilterInv
  <2>2. t \in Found(job[j].spec.src, job[j].spec.filter, j)
    BY <2>1 DEF Mine, Found, OnList, On
  <2>3. PICK x \in Found(job[j].spec.src, job[j].spec.filter, j) : Unlinks(x)
    BY <1>1, <2>2, UnregisterUnlinks
  <2>4. x \in Slots /\ x \in On /\ rcv[x].owner = j
    BY DEF Found, OnList, On
  <2> QED
    BY <2>3, <2>4
<1>5. /\ rcv \in [Slots -> RcvRec] /\ waits \in [Deferred -> SUBSET Cpus] /\ job \in [Jobs -> JobRec]
      /\ DOMAIN cf_mod = Mods /\ NIL \notin Jobs /\ NIL \notin Mods /\ Jobs \subseteq Deferred
      /\ Mods \subseteq Deferred /\ Jobs \cap Mods = {}
  BY <1>2, GwAssumption, StackAssumption DEF CoreInv, CoreTypeOK, GwTypeOK
<1>6. /\ Readers = {} => rcv'[s] = Free
      /\ Readers # {} => rcv'[s].state = "off" /\ rcv'[s].gp = Readers /\ rcv'[s].owner = j
  BY <1>4, <1>5 DEF Unlinks, RcvRec
<1>7. ASSUME NEW x \in Slots \ {s}
      PROVE  /\ rcv'[x].owner = rcv[x].owner /\ rcv'[x].state = rcv[x].state /\ rcv'[x].dev = rcv[x].dev
             /\ rcv'[x].list = rcv[x].list /\ rcv'[x].id = rcv[x].id /\ rcv'[x].mask = rcv[x].mask
             /\ rcv'[x].gp = rcv[x].gp
  <2>1. rcv[x] \in RcvRec
    BY <1>5
  <2> QED
    BY <1>4, <2>1 DEF Unlinks, RcvRec
<1>8. \A x \in Slots \ {s} : rcv[x].owner # j
  <2> SUFFICES ASSUME NEW x \in Slots \ {s}, rcv[x].owner = j PROVE FALSE
    OBVIOUS
  <2>1. rcv[x].state \in {"on", "off"}
    BY <1>3, <1>5, FreeType DEF CoreInv, ListInv, SlotOK, RcvRec
  <2>2. rcv[x].state # "on"
    BY <1>2, <1>3, <1>4 DEF JobFilterInv, On
  <2> QED
    BY <1>2, <1>3, <2>1, <2>2 DEF JobFilterInv
<1>9. /\ NoJob \in JobRec /\ NoJob.state = "free" /\ NoJob.mod = NIL /\ NoMod.state = "free"
      /\ DOMAIN NoMod = {"state", "uid", "content"}
  BY DEF NoJob, JobRec, NoMod
<1>10. /\ job' \in [Jobs -> JobRec] /\ \A k \in Jobs \ {j} : job'[k] = job[k]
       /\ Readers = {} => job'[j] = NoJob
       /\ Readers # {} => job'[j].state = "off" /\ job'[j].spec = job[j].spec /\ job'[j].mod = m
  BY <1>1, <1>3, <1>5, <1>9 DEF JobRec
<1>11. /\ DOMAIN cf_mod' = Mods /\ \A y \in Mods \ {m} : cf_mod'[y] = cf_mod[y]
       /\ Readers = {} => cf_mod'[m] = NoMod
       /\ Readers # {} => cf_mod'[m] = cf_mod[m]
  BY <1>1, <1>3, <1>5
<1>12. waits'[j] = Readers /\ \A y \in Deferred \ {j} : waits'[y] = waits[y]
  BY <1>1, <1>3, <1>5
<1> HIDE DEF m, l
<1>13. Readers' = Readers
  BY DEF Readers
<1>14. Listed' = Listed \ {j} /\ Listed \subseteq Jobs
  BY <1>9, <1>10 DEF Listed
<1>15. /\ cgw_list' \in Seq(Jobs) /\ NoTwice(cgw_list')
       /\ \A k : InSeq(cgw_list', k) <=> k # j /\ InSeq(cgw_list, k)
  <2>1. cgw_list \in Seq(Jobs) /\ NoTwice(cgw_list)
    BY <1>2 DEF GwTypeOK, CgwListInv
  <2> QED
    BY <1>1, <2>1, RemoveFirstIs
<1>16. GwTypeOK'
  BY <1>2, <1>9, <1>10, <1>11, <1>15 DEF GwTypeOK, ModStates
<1>17. CgwListInv'
  <2>1. \A k \in Jobs : InSeq(cgw_list', k) <=> k \in Listed'
    BY <1>2, <1>14, <1>15 DEF CgwListInv
  <2>2. \A k \in Listed' : {job'[k].spec.src, job'[k].spec.dst} \cap gone' # {} => k \in flush'
    BY <1>2, <1>10, <1>14 DEF CgwListInv
  <2>3. scene.part = "gw"
    BY <1>2, <1>3, <1>9 DEF CgwListInv
  <2> QED
    BY <1>2, <1>14, <1>15, <2>1, <2>2, <2>3 DEF CgwListInv
<1>18. ASSUME NEW y \in Slots, NEW k \in Jobs \ {j} PROVE Mine(y, k)' <=> Mine(y, k)
  <2>1. CASE y = s
    <3>1. ~Mine(y, k)
      BY <1>4, <2>1 DEF Mine
    <3>2. rcv'[s].state # "on"
      BY <1>6, FreeType
    <3> QED
      BY <2>1, <3>1, <3>2 DEF Mine
  <2>2. CASE y # s
    BY <1>7, <1>10, <2>2 DEF Mine
  <2> QED
    BY <2>1, <2>2
<1>19. JobFilterInv'
  <2>1. ASSUME NEW y \in Slots, rcv'[y].owner \in Jobs
        PROVE  /\ rcv'[y].state = "on" => Mine(y, rcv[y].owner)' /\ rcv'[y].owner \in Listed'
                    /\ rcv[y].owner = rcv'[y].owner
               /\ rcv'[y].state = "off" =>
                    job'[rcv'[y].owner].state = "off" /\ rcv'[y].gp \subseteq waits'[rcv'[y].owner]
    <3>1. CASE y = s
      BY <1>5, <1>6, <1>10, <1>12, <2>1, <3>1, FreeType
    <3>2. CASE y # s
      <4>1. /\ rcv'[y].owner = rcv[y].owner /\ rcv'[y].state = rcv[y].state /\ rcv'[y].gp = rcv[y].gp
            /\ rcv[y].owner \in Jobs \ {j} /\ rcv[y].owner \in Deferred
        BY <1>5, <1>7, <1>8, <2>1, <3>2
      <4> QED
        BY <1>2, <1>10, <1>12, <1>14, <1>18, <4>1 DEF JobFilterInv
    <3> QED
      BY <3>1, <3>2
  <2>2. ASSUME NEW k \in Listed' PROVE \E y \in Slots : Mine(y, k)'
    <3>1. k \in Listed /\ k \in Jobs \ {j}
      BY <1>14
    <3>2. PICK y \in Slots : Mine(y, k)
      BY <1>2, <3>1 DEF JobFilterInv
    <3> QED
      BY <1>18, <3>1, <3>2
  <2>3. ASSUME NEW y \in On', NEW z \in On', rcv'[y].owner \in Jobs, rcv'[y].owner = rcv'[z].owner
        PROVE  y = z
    <3>1. y \in Slots /\ z \in Slots /\ y # s /\ z # s
      BY <1>6, FreeType DEF On
    <3> QED
      BY <1>2, <1>7, <2>3, <3>1 DEF JobFilterInv, On
  <2> QED
    BY <2>1, <2>2, <2>3 DEF JobFilterInv
<1>20. JobMemInv'
  <2>1. ASSUME NEW k \in Jobs
        PROVE  /\ job'[k].state = "free" => job'[k] = NoJob
               /\ job'[k].state # "free" => job'[k].spec \in JobSpecs /\ job'[k].mod \in Mods
                    /\ cf_mod'[job'[k].mod].state = "used"
               /\ job'[k].state = "off" => waits'[k] # {} /\ waits'[k] \subseteq Readers'
    <3>1. CASE k = j
      BY <1>3, <1>9, <1>10, <1>11, <1>12, <1>13, <3>1
    <3>2. CASE k # j
      <4>1. job[k].state # "free" => job[k].mod # m
        BY <1>2, <1>3, <3>2 DEF JobMemInv, m
      <4>2. waits'[k] = waits[k]
        BY <1>5, <1>12, <3>2
      <4> QED
        BY <1>2, <1>10, <1>11, <1>13, <3>2, <4>1, <4>2 DEF JobMemInv
    <3> QED
      BY <3>1, <3>2
  <2>2. ASSUME NEW k \in Jobs, NEW i \in Jobs, job'[k].state # "free", job'[k].mod = job'[i].mod
        PROVE  k = i
    <3>1. \A y \in Jobs : job'[y].state = "free" => job'[y].mod = NIL
      BY <1>2, <1>9, <1>10 DEF JobMemInv
    <3>2. \A y \in Jobs : job'[y].state # "free" =>
            job'[y].mod = job[y].mod /\ job'[y].mod \in Mods /\ job[y].state # "free"
      BY <1>2, <1>3, <1>9, <1>10 DEF JobMemInv, m
    <3> QED
      BY <1>2, <1>5, <2>2, <3>1, <3>2 DEF JobMemInv
  <2>3. ASSUME NEW y \in Mods
        PROVE  /\ cf_mod'[y].state = "free" => cf_mod'[y] = NoMod
               /\ cf_mod'[y].state = "old" => waits'[y] # {} /\ waits'[y] \subseteq Readers'
    <3>1. waits'[y] = waits[y]
      BY <1>3, <1>5, <1>12
    <3> QED
      BY <1>2, <1>3, <1>9, <1>11, <1>13, <3>1 DEF JobMemInv
  <2> QED
    BY <2>1, <2>2, <2>3 DEF JobMemInv
<1>21. UsingInv'
  <2>1. UnlinksFor({j})
    <3>1. job[j].spec.src \in AnyDev /\ job[j].spec.filter \in CanFilters
      BY <1>3, GwAssumption DEF AnyDev
    <3> QED
      BY <1>1, <3>1 DEF UnlinksFor
  <2>2. \A c \in Cpus : Callee(c)' = Callee(c)
    BY <1>3, <2>1, UnlinksOthers
  <2> SUFFICES ASSUME NEW c \in Cpus, using[c] # NIL
               PROVE  /\ Callee(c) \in Jobs
                      /\ walk[c].frame.hops < max_hops
                      /\ \/ job'[Callee(c)].mod = using[c] /\ cf_mod'[using[c]].state = "used"
                         \/ cf_mod'[using[c]].state = "old" /\ c \in waits'[using[c]]
    BY <2>2 DEF UsingInv
  <2>3. /\ Callee(c) \in Jobs /\ walk[c].frame.hops < max_hops /\ using[c] \in Mods
        /\ \/ job[Callee(c)].mod = using[c] /\ cf_mod[using[c]].state = "used"
           \/ cf_mod[using[c]].state = "old" /\ c \in waits[using[c]]
    BY <1>2 DEF UsingInv, GwTypeOK
  <2>4. c \in Readers
    BY <2>3, JobAtWork
  <2>5. cf_mod'[using[c]] = cf_mod[using[c]] /\ waits'[using[c]] = waits[using[c]]
    BY <1>3, <1>5, <1>11, <1>12, <2>3, <2>4
  <2>6. job'[Callee(c)].mod = job[Callee(c)].mod
    BY <1>10, <2>3, <2>4 DEF m
  <2> QED
    BY <2>3, <2>5, <2>6
<1> QED
  BY <1>16, <1>17, <1>19, <1>20, <1>21 DEF GwInv

LEMMA GwStepKeeps ==
  ASSUME CoreInv, GwInv, GwUses \/ GwUsed
  PROVE  GwInv'
<1>1. UNCHANGED scene
  BY DEF GwUses, GwUsed
<1>2. ASSUME NEW s \in JobSpecs, scene.part = "gw", cgw_create_job(s) PROVE GwInv'
  BY <1>1, <1>2, GwUpdateKeeps, GwCreateKeeps DEF cgw_create_job
<1>3. ASSUME NEW s \in JobSpecs, cgw_remove_job(s) PROVE GwInv'
  <2>1. PICK i \in 1..Len(cgw_list) : cgw_remove(cgw_list[i])
    BY <1>3 DEF cgw_remove_job
  <2>2. cgw_list[i] \in Listed
    <3>1. cgw_list[i] \in Jobs /\ InSeq(cgw_list, cgw_list[i])
      BY ElementOfSeq DEF GwInv, GwTypeOK, InSeq
    <3> QED
      BY <3>1 DEF GwInv, CgwListInv
  <2>3. UNCHANGED <<walk, using, gone>> /\ flush' = flush \ {cgw_list[i]}
    BY <1>3 DEF cgw_remove_job
  <2>4. PICK j \in Listed : cgw_remove(j) /\ flush' = flush \ {j}
    BY <2>1, <2>2, <2>3
  <2> QED
    BY <1>1, <2>3, <2>4, GwRemoveKeeps
<1>4. CASE GwFlush
  <2>1. PICK j \in flush : cgw_remove(j) /\ flush' = flush \ {j}
    BY <1>4 DEF GwFlush
  <2>2. j \in Listed
    BY DEF GwInv, CgwListInv
  <2>3. UNCHANGED <<walk, using, gone>>
    BY <1>4 DEF GwFlush
  <2> QED
    BY <1>1, <2>1, <2>2, <2>3, GwRemoveKeeps
<1>5. CASE cgw_remove_all_jobs \/ \E d \in Devs : cgw_notifier(d)
  BY <1>1, <1>5, GwPickKeeps
<1>6. CASE GwUses
  BY <1>1, <1>4, <1>6, GwReadKeeps, GwSendKeeps DEF GwUses, GwStep
<1>7. CASE GwUsed
  BY <1>2, <1>3, <1>5, <1>7 DEF GwUsed, GwCall
<1> QED
  BY <1>6, <1>7

LEMMA GwInvStep ==
  ASSUME CoreInv, RawCtl, GwInv, scene \in Scenes, Next
  PROVE  GwInv'
<1>1. CASE GwUses \/ GwUsed
  BY <1>1, GwStepKeeps
<1>2. CASE \E c \in Cpus : Unlock(c)
  BY <1>2, UnlockGw
<1> QED
  BY <1>1, <1>2, OtherAside, GwAsideKeeps

LEMMA GwInvInit ==
  ASSUME Init
  PROVE  GwInv
<1>1. /\ job = [j \in Jobs |-> NoJob] /\ cf_mod = [m \in Mods |-> NoMod] /\ cgw_list = <<>>
      /\ flush = {} /\ using = [c \in Cpus |-> NIL] /\ gone = {} /\ rcv = [s \in Slots |-> Free]
  BY DEF Init, GwInit, RxInit
<1>2. /\ NoJob \in JobRec /\ NoJob.state = "free" /\ NoMod.state = "free" /\ NoJob.mod = NIL
      /\ DOMAIN NoMod = {"state", "uid", "content"} /\ NIL \notin Jobs /\ NIL \notin Mods
  BY GwAssumption DEF NoJob, JobRec, NoMod
<1>3. Listed = {}
  BY <1>1, <1>2 DEF Listed
<1>4. GwTypeOK
  BY <1>1, <1>2 DEF GwTypeOK, ModStates
<1>5. CgwListInv
  BY <1>1, <1>3 DEF CgwListInv, NoTwice, InSeq
<1>6. JobFilterInv
  BY <1>1, <1>2, <1>3, FreeType DEF JobFilterInv, On
<1>7. JobMemInv
  BY <1>1, <1>2 DEF JobMemInv
<1>8. UsingInv
  BY <1>1 DEF UsingInv
<1> QED
  BY <1>4, <1>5, <1>6, <1>7, <1>8 DEF GwInv

LEMMA GwInvAlive ==
  ASSUME CoreInv, GwInv
  PROVE  JobAlive
<1>1. ASSUME NEW c \in Cpus PROVE Callee(c) \in Jobs => job[Callee(c)].state # "free"
  BY <1>1, JobAtWork
<1>2. ASSUME NEW c \in Cpus PROVE using[c] # NIL => cf_mod[using[c]].state # "free"
  BY <1>2 DEF GwInv, UsingInv
<1> QED
  BY <1>1, <1>2 DEF JobAlive

LEMMA GwInvListed ==
  ASSUME CoreInv, GwInv
  PROVE  JobsListed
<1> SUFFICES ASSUME flush = {} PROVE
      LET listed == ToSet(cgw_list)
          mine   == {s \in On : rcv[s].owner \in Jobs}
      IN /\ Cardinality(mine) = Len(cgw_list) /\ {rcv[s].owner : s \in mine} = listed
         /\ \A j \in listed :
              /\ job[j].state = "on" /\ {job[j].spec.src, job[j].spec.dst} \cap gone = {}
              /\ \A k \in Jobs \ {j} : job[k].mod # job[j].mod
  BY DEF JobsListed
<1> DEFINE listed == ToSet(cgw_list)
           mine == {s \in On : rcv[s].owner \in Jobs}
           n == Len(cgw_list)
<1>1. GwTypeOK /\ CgwListInv /\ JobFilterInv /\ JobMemInv
  BY DEF GwInv
<1>2. cgw_list \in Seq(Jobs) /\ NoTwice(cgw_list) /\ n \in Nat
  BY <1>1, LenProperties DEF GwTypeOK, CgwListInv
<1>3. listed = Listed
  <2>1. listed \subseteq Jobs
    BY <1>2, ElementOfSeq DEF ToSet
  <2>2. \A j : j \in listed <=> InSeq(cgw_list, j)
    BY <1>2 DEF ToSet, InSeq
  <2> QED
    BY <1>1, <2>1, <2>2 DEF CgwListInv, Listed
<1>4. {rcv[s].owner : s \in mine} = listed
  <2>1. \A s \in mine : rcv[s].owner \in Listed
    BY <1>1 DEF JobFilterInv, On
  <2>2. ASSUME NEW j \in Listed PROVE \E s \in mine : rcv[s].owner = j
    <3>1. PICK s \in Slots : Mine(s, j)
      BY <1>1 DEF JobFilterInv
    <3> QED
      BY <3>1 DEF Mine, On, Listed
  <2> QED
    BY <1>3, <2>1, <2>2
<1>5. \A s, t \in mine : rcv[s].owner = rcv[t].owner => s = t
  BY <1>1 DEF JobFilterInv
<1>6. Cardinality(mine) = n
  <2> DEFINE At(i) == CHOOSE s \in mine : rcv[s].owner = cgw_list[i]
             f == [i \in 1..n |-> At(i)]
  <2> HIDE DEF mine
  <2>1. ASSUME NEW i \in 1..n PROVE At(i) \in mine /\ rcv[At(i)].owner = cgw_list[i]
    <3>1. cgw_list[i] \in listed
      BY <1>2 DEF ToSet
    <3>2. \E s \in mine : rcv[s].owner = cgw_list[i]
      BY <1>4, <3>1
    <3> QED
      BY <3>2
  <2> HIDE DEF At
  <2>2. f \in [1..n -> mine] /\ \A i \in 1..n : rcv[f[i]].owner = cgw_list[i]
    BY <2>1
  <2> HIDE DEF f
  <2>3. \A i, k \in 1..n : f[i] = f[k] => i = k
    BY <1>2, <2>2 DEF NoTwice
  <2>4. ASSUME NEW s \in mine PROVE \E i \in 1..n : f[i] = s
    <3>1. rcv[s].owner \in listed
      BY <1>4
    <3>2. PICK i \in 1..n : cgw_list[i] = rcv[s].owner
      BY <1>2, <3>1 DEF ToSet
    <3> QED
      BY <1>5, <2>2, <3>2
  <2>5. f \in Bijection(1..n, mine)
    BY <2>2, <2>3, <2>4 DEF Bijection, Injection, Surjection, IsInjective
  <2>6. ExistsBijection(1..n, mine)
    BY <2>5 DEF ExistsBijection
  <2> QED
    BY <1>2, <2>6, FS_CountingElements
<1>7. ASSUME NEW j \in listed
      PROVE  /\ job[j].state = "on" /\ {job[j].spec.src, job[j].spec.dst} \cap gone = {}
             /\ \A k \in Jobs \ {j} : job[k].mod # job[j].mod
  <2>1. j \in Listed /\ j \in Jobs /\ job[j].state = "on"
    BY <1>3 DEF Listed
  <2> QED
    BY <1>1, <2>1 DEF CgwListInv, JobMemInv
<1> QED
  BY <1>4, <1>6, <1>7

-----------------------------------------------------------------------------
(* Hops. *)

LEMMA QueueSets ==
  ASSUME NEW S, NEW s \in Seq(S)
  PROVE  /\ \A e \in S : ToSet(Append(s, e)) = ToSet(s) \cup {e}
         /\ s # <<>> => Head(s) \in ToSet(s) /\ ToSet(Tail(s)) \subseteq ToSet(s)
<1>1. Len(s) \in Nat /\ DOMAIN s = 1..Len(s)
  BY LenProperties
<1>2. ASSUME NEW e \in S PROVE ToSet(Append(s, e)) = ToSet(s) \cup {e}
  <2> DEFINE t == Append(s, e)
  <2>1. /\ t \in Seq(S) /\ Len(t) = Len(s) + 1 /\ t[Len(s) + 1] = e /\ \A i \in 1..Len(s) : t[i] = s[i]
    BY AppendProperties
  <2>2. DOMAIN t = 1..(Len(s) + 1)
    BY <2>1
  <2> HIDE DEF t
  <2>3. \A i \in 1..(Len(s) + 1) : i = Len(s) + 1 \/ i \in 1..Len(s)
    BY <1>1
  <2>4. Len(s) + 1 \in 1..(Len(s) + 1) /\ \A i \in 1..Len(s) : i \in 1..(Len(s) + 1)
    BY <1>1
  <2>5. ToSet(t) = ToSet(s) \cup {e}
    BY <1>1, <2>1, <2>2, <2>3, <2>4 DEF ToSet
  <2> QED
    BY <2>5 DEF t
<1>3. ASSUME s # <<>> PROVE Head(s) \in ToSet(s) /\ ToSet(Tail(s)) \subseteq ToSet(s)
  <2>1. /\ Len(s) > 0 /\ Head(s) = s[1] /\ Tail(s) \in Seq(S) /\ Len(Tail(s)) = Len(s) - 1
        /\ \A i \in 1..Len(Tail(s)) : Tail(s)[i] = s[i + 1]
    BY <1>1, <1>3, HeadTailProperties, EmptySeq
  <2>2. 1 \in 1..Len(s) /\ \A i \in 1..Len(Tail(s)) : i + 1 \in 1..Len(s)
    BY <1>1, <2>1
  <2>3. DOMAIN Tail(s) = 1..Len(Tail(s))
    BY <2>1
  <2> QED
    BY <1>1, <2>1, <2>2, <2>3 DEF ToSet
<1> QED
  BY <1>2, <1>3

LEMMA NewHops == ASSUME NEW f \in NewFrames PROVE HopsOK(f)
BY DEF NewFrames, HopsOK

LEMMA RoutedHops ==
  ASSUME NEW spec \in JobSpecs, NEW f \in FrameRec, HopsOK(f), f.hops < max_hops
  PROVE  HopsOK(Routed(spec, f))
<1>1. spec.limit \in 0..max_hops /\ max_hops \in Nat /\ max_hops > 0
  BY GwAssumption
<1>2. f.hops \in Nat /\ f.times \in Nat /\ f.limit \in Nat
  BY DEF FrameRec
<1> DEFINE g == Routed(spec, f)
<1>3. /\ g.hops = Hops(spec, f.hops) /\ g.times = f.times + 1
      /\ g.limit = IF f.times > 0 THEN f.limit ELSE IF spec.limit > 0 THEN spec.limit ELSE max_hops
  BY DEF Routed, FrameRec
<1> HIDE DEF g
<1>4. CASE f.times = 0
  <2>1. f.hops = 0 /\ g.times = 1
    BY <1>3, <1>4 DEF HopsOK
  <2> QED
    BY <1>1, <1>3, <1>4, <2>1 DEF Hops, HopsOK, g
<1>5. CASE f.times # 0
  <2>1. f.limit \in 1..max_hops /\ f.times <= f.limit /\ f.hops = max_hops - f.limit + f.times
    BY <1>5 DEF HopsOK
  <2>2. g.hops = f.hops + 1 /\ g.limit = f.limit
    BY <1>1, <1>2, <1>3, <1>5, <2>1 DEF Hops
  <2> QED
    BY <1>1, <1>2, <1>3, <1>5, <2>1, <2>2 DEF HopsOK, g
<1> QED
  BY <1>4, <1>5

LEMMA HopsStep ==
  ASSUME CoreInv, RawCtl, GwInv, HopsInv, scene \in Scenes, Next
  PROVE  HopsInv'
<1>1. ASSUME \A f \in Frames' : f \in Frames \/ HopsOK(f) PROVE HopsInv'
  BY <1>1 DEF HopsInv
<1>2. /\ Plain \in SUBSET Owners /\ RawSocks \in SUBSET Owners /\ Jobs \in SUBSET Owners
      /\ {RxOp} \in SUBSET Owners
  BY CanRxAssumption, RawAssumption, GwAssumption, BcmAssumption DEF Plain
<1>3. ASSUME NEW O \in SUBSET Owners, ActsFor(O), ToSet(backlog') \subseteq ToSet(backlog) \cup {f \in FrameRec : HopsOK(f)}
      PROVE  HopsInv'
  <2>1. Readers' = Readers /\ \A c \in Cpus : walk'[c].frame = walk[c].frame
    BY <1>3, ActsWalk
  <2>2. Readers \subseteq Cpus
    BY DEF Readers
  <2>3. \A f \in Frames' : f \in Frames \/ HopsOK(f)
    BY <1>3, <2>1, <2>2 DEF Frames
  <2> QED
    BY <1>1, <2>3
<1>4. backlog \in Seq(FrameRec)
  BY DEF CoreInv, CoreTypeOK
<1>5. ASSUME NEW c \in Cpus, Receive(c) PROVE HopsInv'
  <2>1. PICK f \in scene.frames : Starts(c, f) /\ UNCHANGED backlog
    BY <1>5, ReceiveStarts
  <2>2. HopsOK(f)
    BY NewHops, SceneFrames
  <2> QED
    BY <1>1, <2>1, <2>2, StartsWalk DEF Frames, Readers
<1>6. ASSUME NEW c \in Cpus, Loopback(c) PROVE HopsInv'
  <2>1. backlog # <<>> /\ Starts(c, Head(backlog)) /\ backlog' = Tail(backlog)
    BY <1>6, LoopbackStarts
  <2>2. Head(backlog) \in Frames /\ ToSet(backlog') \subseteq Frames
    BY <1>4, <2>1, QueueSets DEF Frames
  <2>3. \A d \in Cpus \ {c} : walk'[d] = walk[d]
    BY <2>1, StartsWalk
  <2>4. walk'[c].frame = Head(backlog)
    BY <2>1, StartsWalk
  <2>5. Readers' = Readers \cup {c}
    BY <2>1, StartsWalk
  <2>6. \A d \in Readers' : walk'[d].frame \in Frames
    BY <2>2, <2>3, <2>4, <2>5 DEF Frames, Readers
  <2> QED
    BY <1>1, <2>2, <2>6 DEF Frames
<1>7. ASSUME NEW c \in Cpus, Filter(c) PROVE HopsInv'
  <2>1. can_rcv_filter(c)
    BY <1>7 DEF Filter
  <2> QED
    BY <1>1, <2>1, FilterWalk DEF Frames, Readers
<1>8. ASSUME NEW c \in Cpus, Unlock(c) PROVE HopsInv'
  <2>1. walk' = [walk EXCEPT ![c] = Idle] /\ UNCHANGED backlog /\ walk \in [Cpus -> WalkRec]
    BY <1>8 DEF Unlock, rcu_read_unlock, CoreInv, CoreTypeOK
  <2>2. \A d \in Readers' : d \in Readers /\ walk'[d] = walk[d]
    BY <2>1 DEF Readers, Idle
  <2> QED
    BY <1>1, <2>1, <2>2 DEF Frames
<1>9. CASE Register \/ Unregister \/ \E c \in Cpus : Taken(c)
  BY <1>2, <1>3, <1>9, PlainActs, PlainRest
<1>10. CASE RawUses \/ RawUsed
  <2>1. UNCHANGED backlog
    <3>1. CASE RawUses
      <4>1. ASSUME NEW c \in Cpus, raw_rcv(c) PROVE UNCHANGED backlog
        BY <4>1 DEF raw_rcv
      <4>2. RawTask(scene.faults) => UNCHANGED backlog
        BY DEF RawTask
      <4>3. RawCommit \/ raw_notify \/ raw_notify_next => UNCHANGED backlog
        BY DEF RawCommit, raw_notify, raw_notify_next, rxVars
      <4>4. raw_release_done => UNCHANGED backlog
        BY DEF raw_release_done
      <4>5. ASSUME NEW k \in RawSocks, raw_release_list(k) \/ raw_release_rtnl(k) PROVE UNCHANGED backlog
        BY <4>5 DEF raw_release_list, raw_release_rtnl, rxVars
      <4> QED
        BY <3>1, <4>1, <4>2, <4>3, <4>4, <4>5 DEF RawUses, RawStep
    <3>2. CASE RawUsed
      BY <3>2 DEF RawUsed, RawCall, RawEvent, raw_setsockopt, Replace, raw_release, raw_bind, raw_notifier, rxVars
    <3> QED
      BY <1>10, <3>1, <3>2
  <2> QED
    BY <1>2, <1>3, <1>10, <2>1, RawActs
<1>11. CASE RawSends
  <2>1. PICK k \in scene.socks, f \in scene.sends : raw_sendmsg(k, f)
    BY <1>11 DEF RawSends
  <2>2. k \in Socks /\ f \in NewFrames
    BY StackAssumption, NilFacts
  <2> DEFINE g == [f EXCEPT !.sk = k]
  <2>3. g \in FrameRec /\ HopsOK(g)
    <3>1. max_hops \in Nat
      BY GwAssumption
    <3> QED
      BY <2>2, <3>1 DEF NewFrames, FrameRec, HopsOK
  <2>4. backlog' = Append(backlog, g)
    BY <2>1 DEF raw_sendmsg, can_send
  <2> HIDE DEF g
  <2>5. ToSet(backlog') \subseteq ToSet(backlog) \cup {h \in FrameRec : HopsOK(h)}
    BY <1>4, <2>3, <2>4, QueueSets
  <2> QED
    BY <1>2, <1>3, <1>11, <2>5, RawActs
<1>12. ASSUME NEW c \in Cpus, GwSend(c), GwUses \/ GwUsed PROVE HopsInv'
  <2> DEFINE g == Routed(job[Callee(c)].spec, walk[c].frame)
  <2>1. Callee(c) \in Jobs /\ using[c] # NIL
    BY <1>12 DEF GwSend
  <2>2. job[Callee(c)].spec \in JobSpecs /\ walk[c].frame \in FrameRec /\ c \in Readers
    BY <2>1, JobAtWork
  <2>3. walk[c].frame.hops < max_hops /\ HopsOK(walk[c].frame)
    BY <2>1, <2>2 DEF GwInv, UsingInv, HopsInv, Frames
  <2>4. g \in FrameRec /\ HopsOK(g)
    BY <2>2, <2>3, RoutedType, RoutedHops
  <2>5. backlog' = Append(backlog, g) \/ backlog' = backlog
    BY <1>12, Zenon DEF GwSend, can_send
  <2> HIDE DEF g
  <2>6. ToSet(Append(backlog, g)) = ToSet(backlog) \cup {g}
    BY <1>4, <2>4, QueueSets
  <2>7. ToSet(backlog') \subseteq ToSet(backlog) \cup {h \in FrameRec : HopsOK(h)}
    BY <2>4, <2>5, <2>6
  <2> QED
    BY <1>2, <1>3, <1>12, <2>7, GwActs
<1>13. ASSUME GwUses \/ GwUsed, ~\E c \in Cpus : GwSend(c) PROVE HopsInv'
  <2>1. UNCHANGED backlog
    <3>1. CASE GwUses
      <4>1. ASSUME NEW c \in Cpus, GwRead(c) PROVE UNCHANGED backlog
        BY <4>1 DEF GwRead
      <4>2. GwFlush => UNCHANGED backlog
        BY DEF GwFlush
      <4> QED
        BY <1>13, <3>1, <4>1, <4>2 DEF GwUses, GwStep
    <3>2. CASE GwUsed
      <4>1. ASSUME NEW s, cgw_create_job(s) PROVE UNCHANGED backlog
        BY <4>1 DEF cgw_create_job, GwUpdate, GwCreate
      <4>2. ASSUME NEW s, cgw_remove_job(s) PROVE UNCHANGED backlog
        BY <4>2 DEF cgw_remove_job
      <4>3. cgw_remove_all_jobs => UNCHANGED backlog
        BY DEF cgw_remove_all_jobs, rxVars
      <4>4. ASSUME NEW d, cgw_notifier(d) PROVE UNCHANGED backlog
        BY <4>4 DEF cgw_notifier
      <4> QED
        BY <3>2, <4>1, <4>2, <4>3, <4>4 DEF GwUsed, GwCall
    <3> QED
      BY <1>13, <3>1, <3>2
  <2> QED
    BY <1>2, <1>3, <1>13, <2>1, GwActs
<1>14. CASE GwUses \/ GwUsed
  BY <1>12, <1>13, <1>14
<1>15. CASE BcmUses \/ BcmUsed
  BY <1>2, <1>3, <1>15, BcmActs, BcmRest
<1>16. CASE Over
  BY <1>1, <1>16 DEF Over, vars, rxVars, Frames, Readers
<1> QED
  BY <1>5, <1>6, <1>7, <1>8, <1>9, <1>10, <1>11, <1>14, <1>15, <1>16 DEF Next

-----------------------------------------------------------------------------
(* Theorems. *)

StackInv == CoreInv /\ RawCtl /\ GwInv /\ HopsInv /\ scene \in Scenes

LEMMA SceneStays == ASSUME [Next]_vars PROVE UNCHANGED scene
<1>1. ASSUME NEW c \in Cpus, Receive(c) \/ Loopback(c) \/ Filter(c) \/ Unlock(c) \/ Taken(c)
      PROVE  UNCHANGED scene
  BY <1>1 DEF Receive, Loopback, Filter, Unlock, Taken
<1>2. Register \/ Unregister => UNCHANGED scene
  BY DEF Register, Unregister
<1>3. RawUses \/ RawUsed \/ RawSends => UNCHANGED scene
  BY RawRest
<1>4. GwUses \/ GwUsed \/ BcmUses \/ BcmUsed => UNCHANGED scene
  BY DEF GwUses, GwUsed, BcmUses, BcmUsed
<1>5. Over \/ UNCHANGED vars => UNCHANGED scene
  BY DEF Over, vars
<1> QED
  BY <1>1, <1>2, <1>3, <1>4, <1>5 DEF Next

LEMMA StackInit == Init => StackInv
<1> SUFFICES ASSUME Init PROVE StackInv
  OBVIOUS
<1>1. RxInit /\ scene \in Scenes /\ backlog = <<>> /\ walk = [c \in Cpus |-> Idle]
  BY DEF Init, RxInit
<1>2. HopsInv
  BY <1>1 DEF HopsInv, Frames, Readers, Idle, ToSet
<1> QED
  BY <1>1, <1>2, CoreInit, RawCtlInit, GwInvInit DEF StackInv

LEMMA StackStutters == ASSUME StackInv, UNCHANGED vars PROVE StackInv'
<1>1. UNCHANGED <<rcv, waits, refs, walk, backlog, up>> /\ UNCHANGED gwVars /\ UNCHANGED scene
  BY DEF vars, rxVars
<1>2. CoreInv'
  BY <1>1 DEF StackInv, CoreInv, CoreTypeOK, ListInv, WalkInv, SlotOK, WalkOK, Acyclic, On, Readers
<1>3. RawCtl'
  BY RawCtlStep DEF StackInv
<1>4. GwInv'
  BY <1>1, GwAsideKeeps DEF StackInv, GwAside, Readers, Callee
<1>5. HopsInv'
  BY <1>1 DEF StackInv, HopsInv, Frames, Readers
<1> QED
  BY <1>1, <1>2, <1>3, <1>4, <1>5 DEF StackInv

LEMMA StackStep == StackInv /\ [Next]_vars => StackInv'
<1>1. ASSUME StackInv, Next PROVE StackInv'
  BY <1>1, CoreStep, RawCtlStep, GwInvStep, HopsStep, SceneStays DEF StackInv
<1> QED
  BY <1>1, StackStutters

LEMMA StackInductive == Spec => []StackInv
BY StackInit, StackStep, PTL DEF Spec

\* A walk never stands on freed memory, while receivers are linked and unlinked
\* under it: can_rx_unregister() leaves the link, and call_rcu() outlives the walk
\* (af_can.c).
WalkOnMemory == \A c \in Cpus : walk[c].at # NIL => rcv[walk[c].at].state # "free"

THEOREM WalksOnMemory == Spec => []WalkOnMemory
<1>1. StackInv => WalkOnMemory
  BY DEF StackInv, CoreInv, WalkInv, WalkOK, WalkOnMemory
<1> QED
  BY <1>1, StackInductive, PTL

\* The receivers that can be reached form lists without a loop, and those unlinked
\* lead back into one or to memory that outlives them: the argument behind the
\* grace period of can_rx_unregister().
THEOREM ListsSound == Spec => [](CoreTypeOK /\ ListInv /\ WalkInv)
<1>1. StackInv => CoreTypeOK /\ ListInv /\ WalkInv
  BY DEF StackInv, CoreInv
<1> QED
  BY <1>1, StackInductive, PTL

\* raw_notifier() never stands on a socket that raw_release() took out of the list,
\* nor works on a released one.
THEOREM NotifierIsSafe == Spec => []NotifierSafe
<1>1. ASSUME StackInv PROVE NotifierSafe
  <2>1. RawTypeOK /\ CallInv /\ NotifyInv
    BY <1>1 DEF StackInv, RawCtl
  <2>2. ASSUME raw_busy_notifier # NIL
        PROVE  raw_busy_notifier \in ToSet(raw_notifier_list) /\ rtnl.kind = "notify"
    <3>1. InSeq(raw_notifier_list, raw_busy_notifier) /\ rtnl.kind = "notify"
      BY <2>1, <2>2 DEF RawTypeOK, NotifyInv
    <3> QED
      BY <2>1, <3>1 DEF RawTypeOK, InSeq, ToSet
  <2>3. ASSUME rtnl.sk # NIL PROVE rpc[rtnl.sk] # "gone"
    <3>1. rtnl.kind \in {"none", "bind", "option", "notify", "release"} /\ rtnl.kind # "none"
      BY <2>1, <2>3 DEF RawTypeOK, CallRec, CallInv, NoCall
    <3> QED
      BY <2>1, <2>3, <3>1 DEF NotifyInv
  <2> QED
    BY <2>2, <2>3 DEF NotifierSafe
<1> QED
  BY <1>1, StackInductive, PTL

\* The callback of a routing job works on a job and a modification that are not
\* freed, while jobs are removed and modifications replaced under it (gw.c).
THEOREM JobsAlive == Spec => []JobAlive
<1>1. StackInv => JobAlive
  BY GwInvAlive DEF StackInv
<1> QED
  BY <1>1, StackInductive, PTL

\* Between requests each listed job has its one filter, nothing else has, no job
\* names a device that is gone, and no modification is shared.
THEOREM JobsAreListed == Spec => []JobsListed
<1>1. StackInv => JobsListed
  BY GwInvListed DEF StackInv
<1> QED
  BY <1>1, StackInductive, PTL

\* However jobs are chained, a frame is not routed more often than its first job or
\* max_hops allow.
THEOREM HopsAreLimited == Spec => []HopsLimited
<1>1. ASSUME StackInv PROVE HopsLimited
  <2>1. /\ \A f \in Frames : HopsOK(f) /\ f \in FrameRec
    <3>1. ToSet(backlog) \subseteq FrameRec
      BY <1>1, ElementOfSeq DEF StackInv, CoreInv, CoreTypeOK, ToSet
    <3>2. \A c \in Readers : walk[c].frame \in FrameRec
      BY <1>1 DEF StackInv, CoreInv, CoreTypeOK, WalkRec, Readers
    <3> QED
      BY <1>1, <3>1, <3>2 DEF StackInv, HopsInv, Frames
  <2>2. max_hops \in Nat
    BY GwAssumption
  <2>3. \A f \in FrameRec : HopsOK(f) => f.times <= f.limit
    BY <2>2 DEF HopsOK, FrameRec
  <2> QED
    BY <2>1, <2>3 DEF HopsLimited
<1> QED
  BY <1>1, StackInductive, PTL

-----------------------------------------------------------------------------
(* How often the elements of a sequence are in a set. *)

At(s, T) == {i \in 1..Len(s) : s[i] \in T}
Times(s, T) == Cardinality(At(s, T))

LEMMA AtFinite ==
  ASSUME NEW S, NEW s \in Seq(S), NEW T
  PROVE  IsFiniteSet(At(s, T)) /\ Times(s, T) \in Nat
<1>1. Len(s) \in Nat
  BY LenProperties
<1>2. IsFiniteSet(1..Len(s))
  BY <1>1, FS_Interval
<1>3. IsFiniteSet(At(s, T))
  BY <1>2, FS_Subset DEF At
<1> QED
  BY <1>3, FS_CardinalityType DEF Times

LEMMA SameCount ==
  ASSUME NEW S, NEW T, IsFiniteSet(S), NEW g \in [S -> T],
         \A x, y \in S : g[x] = g[y] => x = y, \A z \in T : \E x \in S : g[x] = z
  PROVE  Cardinality(S) = Cardinality(T) /\ IsFiniteSet(T)
<1>1. g \in Bijection(S, T)
  BY DEF Bijection, Injection, Surjection, IsInjective
<1> QED
  BY <1>1, FS_Bijection DEF ExistsBijection

LEMMA TimesConcat ==
  ASSUME NEW S, NEW s \in Seq(S), NEW t \in Seq(S), NEW T
  PROVE  Times(s \o t, T) = Times(s, T) + Times(t, T)
<1> DEFINE n == Len(s)
           B == {i \in n + 1..n + Len(t) : t[i - n] \in T}
           g == [i \in At(t, T) |-> i + n]
<1>1. /\ n \in Nat /\ Len(t) \in Nat /\ Len(s \o t) = n + Len(t)
      /\ \A i \in 1..n + Len(t) : (s \o t)[i] = IF i <= n THEN s[i] ELSE t[i - n]
  BY ConcatProperties, LenProperties
<1> HIDE DEF n
<1>2. Cardinality(B) = Times(t, T) /\ IsFiniteSet(B)
  <2>1. g \in [At(t, T) -> B]
    BY <1>1 DEF At
  <2>2. \A x, y \in At(t, T) : g[x] = g[y] => x = y
    BY <1>1 DEF At
  <2>3. ASSUME NEW z \in B PROVE \E x \in At(t, T) : g[x] = z
    <3>1. z - n \in At(t, T)
      BY <1>1 DEF At
    <3>2. g[z - n] = z
      BY <1>1, <3>1
    <3> QED
      BY <3>1, <3>2
  <2> HIDE DEF g, B
  <2> QED
    BY <2>1, <2>2, <2>3, AtFinite, SameCount DEF Times
<1>3. At(s \o t, T) = At(s, T) \cup B /\ At(s, T) \cap B = {}
  BY <1>1 DEF At, n
<1> HIDE DEF B
<1>4. IsFiniteSet(At(s, T)) /\ Cardinality(At(s, T)) \in Nat /\ Cardinality(B) \in Nat
  BY <1>2, AtFinite DEF Times
<1>5. Cardinality(At(s, T) \cup B) = Cardinality(At(s, T)) + Cardinality(B) - Cardinality({})
  BY <1>2, <1>3, <1>4, FS_Union
<1> QED
  BY <1>2, <1>3, <1>4, <1>5, FS_EmptySet DEF Times

LEMMA TimesOne ==
  ASSUME NEW S, NEW e \in S, NEW T
  PROVE  Times(<<e>>, T) = (IF e \in T THEN 1 ELSE 0) /\ Times(<<>>, T) = 0
<1>1. At(<<e>>, T) = IF e \in T THEN {1} ELSE {}
  BY DEF At
<1>2. At(<<>>, T) = {}
  BY DEF At
<1> QED
  BY <1>1, <1>2, FS_EmptySet, FS_Singleton DEF Times

LEMMA TimesEmpty == ASSUME NEW T PROVE Times(<<>>, T) = 0
<1>1. At(<<>>, T) = {}
  BY DEF At
<1> QED
  BY <1>1, FS_EmptySet DEF Times

LEMMA TimesTail ==
  ASSUME NEW S, NEW s \in Seq(S), s # <<>>, NEW T
  PROVE  Times(s, T) = Times(Tail(s), T) + IF Head(s) \in T THEN 1 ELSE 0
<1>1. Head(s) \in S /\ Tail(s) \in Seq(S) /\ <<Head(s)>> \in Seq(S)
  BY HeadTailProperties
<1>2. s = <<Head(s)>> \o Tail(s)
  <2>1. /\ Len(s) \in Nat \ {0} /\ Len(Tail(s)) = Len(s) - 1 /\ Head(s) = s[1] /\ Len(<<Head(s)>>) = 1
        /\ \A i \in 1..Len(Tail(s)) : Tail(s)[i] = s[i + 1]
    BY HeadTailProperties, EmptySeq
  <2>2. /\ <<Head(s)>> \o Tail(s) \in Seq(S) /\ Len(<<Head(s)>> \o Tail(s)) = Len(s)
        /\ \A i \in 1..Len(s) :
             (<<Head(s)>> \o Tail(s))[i] = IF i <= 1 THEN <<Head(s)>>[1] ELSE Tail(s)[i - 1]
    BY <1>1, <2>1, ConcatProperties
  <2>3. \A i \in 1..Len(s) : s[i] = (<<Head(s)>> \o Tail(s))[i]
    BY <2>1, <2>2
  <2> QED
    BY <2>2, <2>3, SeqEqual
<1>3. Times(s, T) = Times(<<Head(s)>>, T) + Times(Tail(s), T)
  <2> DEFINE a == <<Head(s)>>
             z == Tail(s)
  <2>1. a \in Seq(S) /\ z \in Seq(S) /\ s = a \o z
    BY <1>1, <1>2
  <2> HIDE DEF a, z
  <2>2. Times(a \o z, T) = Times(a, T) + Times(z, T)
    BY <2>1, TimesConcat
  <2> QED
    BY <2>1, <2>2 DEF a, z
<1>4. Times(<<Head(s)>>, T) = IF Head(s) \in T THEN 1 ELSE 0
  BY <1>1, TimesOne
<1>5. Times(Tail(s), T) \in Nat
  BY <1>1, AtFinite
<1> QED
  BY <1>3, <1>4, <1>5

LEMMA TimesAppend ==
  ASSUME NEW S, NEW s \in Seq(S), NEW e \in S, NEW T
  PROVE  Times(Append(s, e), T) = Times(s, T) + IF e \in T THEN 1 ELSE 0
<1>1. <<e>> \in Seq(S) /\ Append(s, e) = s \o <<e>>
  OBVIOUS
<1>2. Times(s \o <<e>>, T) = Times(s, T) + Times(<<e>>, T)
  BY <1>1, TimesConcat
<1>3. Times(<<e>>, T) = IF e \in T THEN 1 ELSE 0
  BY TimesOne
<1> QED
  BY <1>1, <1>2, <1>3

LEMMA TimesReverse ==
  ASSUME NEW S, NEW s \in Seq(S), NEW T
  PROVE  Times(Reverse(s), T) = Times(s, T)
<1> DEFINE n == Len(s)
           g == [i \in At(s, T) |-> n + 1 - i]
<1>1. n \in Nat /\ Len(Reverse(s)) = n /\ \A i \in 1..n : Reverse(s)[i] = s[(n - i) + 1]
  <2>1. n \in Nat
    BY LenProperties
  <2>2. DOMAIN Reverse(s) = 1..n
    BY DEF Reverse
  <2>3. Reverse(s) = [i \in 1..n |-> s[(n - i) + 1]]
    BY DEF Reverse
  <2>4. \A i \in 1..n : s[(n - i) + 1] \in S
    BY <2>1, ElementOfSeq
  <2>5. Reverse(s) \in [1..n -> S]
    BY <2>3, <2>4
  <2>6. Reverse(s) \in Seq(S)
    BY <2>1, <2>5
  <2>7. Len(Reverse(s)) = n
    BY <2>1, <2>2, <2>6, LenProperties
  <2> QED
    BY <2>1, <2>3, <2>7
<1> HIDE DEF n
<1>2. g \in [At(s, T) -> At(Reverse(s), T)]
  <2> SUFFICES ASSUME NEW i \in At(s, T) PROVE n + 1 - i \in At(Reverse(s), T)
    OBVIOUS
  <2>1. i \in 1..n /\ s[i] \in T
    BY DEF At, n
  <2>2. n + 1 - i \in 1..n /\ (n - (n + 1 - i)) + 1 = i
    BY <1>1, <2>1
  <2> QED
    BY <1>1, <2>1, <2>2 DEF At
<1>3. \A x, y \in At(s, T) : g[x] = g[y] => x = y
  BY <1>1 DEF At
<1>4. ASSUME NEW z \in At(Reverse(s), T) PROVE \E x \in At(s, T) : g[x] = z
  <2>1. z \in 1..n /\ Reverse(s)[z] \in T
    BY <1>1 DEF At
  <2>2. n + 1 - z \in 1..n /\ (n - z) + 1 = n + 1 - z
    BY <1>1, <2>1
  <2>3. s[n + 1 - z] \in T
    BY <1>1, <2>1, <2>2
  <2>4. n + 1 - z \in At(s, T)
    BY <2>2, <2>3 DEF At, n
  <2>5. g[n + 1 - z] = z
    BY <1>1, <2>1, <2>4
  <2> QED
    BY <2>4, <2>5
<1> HIDE DEF g
<1> QED
  BY <1>2, <1>3, <1>4, AtFinite, SameCount DEF Times

\* Two sequences with their members of T and U at the same places.
LEMMA TimesAlike ==
  ASSUME NEW s, NEW t, NEW T, NEW U, Len(s) = Len(t),
         \A i \in 1..Len(s) : s[i] \in T <=> t[i] \in U
  PROVE  Times(s, T) = Times(t, U)
<1>1. At(s, T) = At(t, U)
  BY DEF At
<1> QED
  BY <1>1 DEF Times

LEMMA TimesNone ==
  ASSUME NEW s, NEW T, \A i \in 1..Len(s) : s[i] \notin T
  PROVE  Times(s, T) = 0
<1>1. At(s, T) = {}
  BY DEF At
<1> QED
  BY <1>1, FS_EmptySet DEF Times

-----------------------------------------------------------------------------
(* How many receivers a raw socket has of what filters come to in the      *)
(* lists; Y is a set of keys.                                              *)

Key(dev, f) == <<dev, can_rcv_list_find(f)>>
KeyAt(s) == <<rcv[s].dev, [list |-> rcv[s].list, id |-> rcv[s].id, mask |-> rcv[s].mask]>>
Regs(k, Y) == {s \in On : rcv[s].owner = k /\ KeyAt(s) \in Y}
Num(k, Y) == Cardinality(Regs(k, Y))
Leaving(k) == {s \in Slots : rcv[s].state = "off" /\ rcv[s].owner = k}

LEMMA RegsFinite ==
  ASSUME NEW k, NEW Y
  PROVE  /\ IsFiniteSet(Regs(k, Y)) /\ Num(k, Y) \in Nat
         /\ IsFiniteSet(Leaving(k)) /\ Cardinality(Leaving(k)) \in Nat
<1>1. IsFiniteSet(Slots) /\ Regs(k, Y) \in SUBSET Slots /\ Leaving(k) \in SUBSET Slots
  BY CanRxAssumption DEF Regs, Leaving, On
<1>2. IsFiniteSet(Regs(k, Y)) /\ IsFiniteSet(Leaving(k))
  BY <1>1, FS_Subset
<1> QED
  BY <1>2, FS_CardinalityType DEF Num

\* can_rx_register() adds a receiver of that kind.
LEMMA RegisterCounts ==
  ASSUME CoreInv, NEW dev \in AnyDev, NEW f \in CanFilters, NEW o \in Owners,
         can_rx_register(dev, f, o)
  PROVE  /\ \A k \in Owners : Leaving(k)' = Leaving(k)
         /\ \A k \in Owners : \A Y :
              Num(k, Y)' = Num(k, Y) + IF k = o /\ Key(dev, f) \in Y THEN 1 ELSE 0
<1>1. PICK s \in Slots : Links(s, dev, f, o)
  BY RegisterLinks
<1>2. /\ rcv[s] = Free /\ rcv'[s] = New(dev, f, o) /\ \A x \in Slots \ {s} : rcv'[x] = rcv[x]
  BY <1>1 DEF Links, CoreInv, CoreTypeOK
<1>3. New(dev, f, o).state = "on" /\ New(dev, f, o).owner = o
  BY DEF New
<1>4. /\ New(dev, f, o).dev = dev /\ can_rcv_list_find(f) \in [list : ListIds, id : SUBSET Bits, mask : SUBSET Bits]
      /\ New(dev, f, o).list = can_rcv_list_find(f).list /\ New(dev, f, o).id = can_rcv_list_find(f).id
      /\ New(dev, f, o).mask = can_rcv_list_find(f).mask
  BY FindType DEF New
<1>5. KeyAt(s)' = Key(dev, f)
  BY <1>2, <1>4 DEF KeyAt, Key
<1>6. ASSUME NEW k \in Owners PROVE Leaving(k)' = Leaving(k)
  BY <1>2, <1>3, FreeType DEF Leaving
<1>7. ASSUME NEW k \in Owners, NEW Y
      PROVE  Num(k, Y)' = Num(k, Y) + IF k = o /\ Key(dev, f) \in Y THEN 1 ELSE 0
  <2>1. s \notin Regs(k, Y)
    BY <1>2, FreeType DEF Regs, On
  <2>2. \A x \in Slots \ {s} : x \in Regs(k, Y)' <=> x \in Regs(k, Y)
    BY <1>2 DEF Regs, On, KeyAt
  <2>3. s \in Regs(k, Y)' <=> k = o /\ Key(dev, f) \in Y
    BY <1>2, <1>3, <1>5 DEF Regs, On
  <2>4. Regs(k, Y)' \subseteq Slots /\ Regs(k, Y) \subseteq Slots
    BY DEF Regs, On
  <2>5. Regs(k, Y)' = IF k = o /\ Key(dev, f) \in Y THEN Regs(k, Y) \cup {s} ELSE Regs(k, Y)
    BY <2>1, <2>2, <2>3, <2>4
  <2>6. IsFiniteSet(Regs(k, Y)) /\ Num(k, Y) \in Nat
    BY RegsFinite
  <2>7. Cardinality(Regs(k, Y) \cup {s}) = Cardinality(Regs(k, Y)) + 1
    BY <2>1, <2>6, FS_AddElement
  <2> QED
    BY <2>5, <2>6, <2>7 DEF Num
<1> QED
  BY <1>6, <1>7

\* can_rx_unregister() takes one away, if there is one, and holds the socket for it.
LEMMA UnregisterCounts ==
  ASSUME CoreInv, NEW dev \in AnyDev, NEW f \in CanFilters, NEW o \in Owners,
         can_rx_unregister(dev, f, o), Num(o, {Key(dev, f)}) > 0
  PROVE  /\ \A k \in Owners \ {o} : Leaving(k)' = Leaving(k)
         /\ \A k \in Owners : \A Y :
              Num(k, Y)' = Num(k, Y) - IF k = o /\ Key(dev, f) \in Y THEN 1 ELSE 0
         /\ \/ refs' = refs /\ Leaving(o)' = Leaving(o)
            \/ /\ Cardinality(Leaving(o))' = Cardinality(Leaving(o)) + 1
               /\ refs' = IF o \in Socks THEN [refs EXCEPT ![o] = @ + 1] ELSE refs
<1>1. Found(dev, f, o) = Regs(o, {Key(dev, f)})
  <2>1. can_rcv_list_find(f) \in [list : ListIds, id : SUBSET Bits, mask : SUBSET Bits]
    BY FindType
  <2>2. \A s : KeyAt(s) = Key(dev, f) <=>
                 /\ rcv[s].dev = dev /\ rcv[s].list = can_rcv_list_find(f).list
                 /\ rcv[s].id = can_rcv_list_find(f).id /\ rcv[s].mask = can_rcv_list_find(f).mask
    BY <2>1 DEF KeyAt, Key
  <2> QED
    BY <2>2 DEF Found, OnList, Regs
<1>2. Found(dev, f, o) # {}
  BY <1>1, FS_EmptySet DEF Num
<1>3. PICK s \in Found(dev, f, o) :
        /\ Unlinks(s)
        /\ refs' = IF Readers # {} /\ o \in Socks THEN [refs EXCEPT ![o] = @ + 1] ELSE refs
  BY <1>2, UnregisterUnlinks
<1>4. s \in Slots /\ s \in On /\ rcv[s].owner = o /\ rcv[s] \in RcvRec /\ rcv[s].state = "on" /\ o # NIL
      /\ KeyAt(s) = Key(dev, f) /\ rcv \in [Slots -> RcvRec]
  BY <1>1, NilFacts DEF Regs, On, CoreInv, CoreTypeOK
<1>5. IF Readers = {} THEN rcv'[s] = Free
      ELSE rcv'[s].state = "off" /\ rcv'[s].owner = o
  BY <1>3, <1>4 DEF Unlinks, RcvRec
<1>6. ASSUME NEW x \in Slots \ {s}
      PROVE  /\ rcv'[x].owner = rcv[x].owner /\ rcv'[x].state = rcv[x].state /\ rcv'[x].dev = rcv[x].dev
             /\ rcv'[x].list = rcv[x].list /\ rcv'[x].id = rcv[x].id /\ rcv'[x].mask = rcv[x].mask
  <2>1. rcv[x] \in RcvRec
    BY <1>4
  <2> QED
    BY <1>3, <2>1 DEF Unlinks, RcvRec
<1>7. ASSUME NEW k \in Owners
      PROVE  Leaving(k)' = IF k = o /\ Readers # {} THEN Leaving(k) \cup {s} ELSE Leaving(k)
  <2>1. \A x \in Slots \ {s} : x \in Leaving(k)' <=> x \in Leaving(k)
    BY <1>6 DEF Leaving
  <2>2. s \notin Leaving(k) /\ (s \in Leaving(k)' <=> k = o /\ Readers # {})
    BY <1>4, <1>5, FreeType DEF Leaving
  <2>3. Leaving(k) \subseteq Slots /\ Leaving(k)' \subseteq Slots
    BY DEF Leaving
  <2> QED
    BY <2>1, <2>2, <2>3, <1>4
<1>8. ASSUME NEW k \in Owners, NEW Y
      PROVE  Num(k, Y)' = Num(k, Y) - IF k = o /\ Key(dev, f) \in Y THEN 1 ELSE 0
  <2>1. \A x \in Slots \ {s} : x \in Regs(k, Y)' <=> x \in Regs(k, Y)
    BY <1>6 DEF Regs, On, KeyAt
  <2>2. s \notin Regs(k, Y)' /\ (s \in Regs(k, Y) <=> k = o /\ Key(dev, f) \in Y)
    BY <1>4, <1>5, FreeType DEF Regs, On
  <2>3. Regs(k, Y)' \subseteq Slots /\ Regs(k, Y) \subseteq Slots
    BY DEF Regs, On
  <2>4. Regs(k, Y)' = Regs(k, Y) \ {s}
    BY <2>1, <2>2, <2>3
  <2>5. IsFiniteSet(Regs(k, Y)) /\ Num(k, Y) \in Nat
    BY RegsFinite
  <2>6. Cardinality(Regs(k, Y) \ {s}) =
          IF s \in Regs(k, Y) THEN Cardinality(Regs(k, Y)) - 1 ELSE Cardinality(Regs(k, Y))
    BY <2>5, FS_RemoveElement
  <2> QED
    BY <2>2, <2>4, <2>5, <2>6 DEF Num
<1>9. \/ refs' = refs /\ Leaving(o)' = Leaving(o)
      \/ /\ Cardinality(Leaving(o))' = Cardinality(Leaving(o)) + 1
         /\ refs' = IF o \in Socks THEN [refs EXCEPT ![o] = @ + 1] ELSE refs
  <2>1. CASE Readers = {}
    BY <1>3, <1>7, <2>1
  <2>2. CASE Readers # {}
    <3>1. s \notin Leaving(o) /\ IsFiniteSet(Leaving(o))
      BY <1>4, RegsFinite DEF Leaving
    <3>2. Cardinality(Leaving(o) \cup {s}) = Cardinality(Leaving(o)) + 1
      BY <3>1, FS_AddElement
    <3> QED
      BY <1>3, <1>7, <2>2, <3>2
  <2> QED
    BY <2>1, <2>2
<1> QED
  BY <1>7, <1>8, <1>9

\* What the others do changes neither.
LEMMA OthersCount ==
  ASSUME CoreInv, NEW O \in SUBSET Owners, OthersStay(O), NEW k \in Owners \ O
  PROVE  (\A Y : Num(k, Y)' = Num(k, Y)) /\ Leaving(k)' = Leaving(k)
<1>1. Leaving(k)' = Leaving(k)
  BY DEF OthersStay, Leaving
<1>2. ASSUME NEW Y PROVE Num(k, Y)' = Num(k, Y)
  <2>1. Regs(k, Y)' = Regs(k, Y)
    BY DEF OthersStay, Regs, On, KeyAt
  <2> QED
    BY <2>1 DEF Num
<1> QED
  BY <1>1, <1>2

-----------------------------------------------------------------------------
(* Between calls a raw socket has as many receivers of each kind as its    *)
(* fields ask for; during one, those and what is still to do, or to undo,  *)
(* come to the same.                                                       *)

TasksOf(what, Y) == {t \in TaskRec : t.what = what /\ Key(t.dev, t.f) \in Y}
FiltersOf(dev, Y) == {f \in CanFilters : Key(dev, f) \in Y}
Want(r, Y) == IF r.bound THEN Times(AllFilters(r), FiltersOf(r.dev, Y)) ELSE 0
Left(what, Y) == Times(rtnl.todo, TasksOf(what, Y))

RegsFirst(todo) ==
  \A i, m \in 1..Len(todo) : i < m /\ todo[m].what = "reg" => todo[i].what = "reg"

TaskInv ==
  /\ \A i \in 1..Len(rtnl.done) : rtnl.done[i].what = "unreg"
  /\ RegsFirst(rtnl.todo)
  /\ \A k \in RawSocks : rpc[k] = "gone" => ~ro[k].bound

Counted(k) ==
  \A Y :
    IF rtnl.sk # k THEN Num(k, Y) = Want(ro[k], Y)
    ELSE /\ Num(k, Y) + Left("reg", Y) = Want(rtnl.new, Y) + Left("unreg", Y)
         /\ rtnl.todo # <<>> /\ Head(rtnl.todo).what = "reg" =>
              Num(k, Y) = Want(ro[k], Y) + Times(rtnl.done, TasksOf("unreg", Y))

RegisteredInv == TaskInv /\ \A k \in RawSocks : Counted(k)

LEMMA TaskTimes ==
  ASSUME NEW what \in {"reg", "unreg"}, NEW w \in {"reg", "unreg"}, NEW dev \in AnyDev,
         NEW fs \in Seq(CanFilters), NEW Y
  PROVE  Times(Task(what, dev, fs), TasksOf(w, Y)) = IF what = w THEN Times(fs, FiltersOf(dev, Y)) ELSE 0
<1> DEFINE s == Task(what, dev, fs)
<1>1. /\ s \in Seq(TaskRec) /\ Len(s) = Len(fs)
      /\ \A i \in 1..Len(fs) : s[i].what = what /\ s[i].dev = dev /\ s[i].f = fs[i]
  BY TaskType
<1> HIDE DEF s
<1>2. \A i \in 1..Len(s) : s[i] \in TaskRec /\ fs[i] \in CanFilters
  BY <1>1, ElementOfSeq
<1>3. CASE what = w
  <2>1. \A i \in 1..Len(s) : s[i] \in TasksOf(w, Y) <=> fs[i] \in FiltersOf(dev, Y)
    BY <1>1, <1>2, <1>3 DEF TasksOf, FiltersOf
  <2>2. Times(s, TasksOf(w, Y)) = Times(fs, FiltersOf(dev, Y))
    BY <1>1, <2>1, TimesAlike
  <2> QED
    BY <1>3, <2>2 DEF s
<1>4. CASE what # w
  <2>1. \A i \in 1..Len(s) : s[i] \notin TasksOf(w, Y)
    BY <1>1, <1>4 DEF TasksOf
  <2>2. Times(s, TasksOf(w, Y)) = 0
    BY <2>1, TimesNone
  <2> QED
    BY <1>4, <2>2 DEF s
<1> QED
  BY <1>3, <1>4

LEMMA WantType ==
  ASSUME NEW r \in RoRec, r.bound <=> r.dev # NIL, NEW Y
  PROVE  Want(r, Y) \in Nat
<1>1. AllFilters(r) \in Seq(CanFilters)
  BY FiltersType
<1>2. Times(AllFilters(r), FiltersOf(r.dev, Y)) \in Nat
  BY <1>1, AtFinite
<1> QED
  BY <1>2 DEF Want

LEMMA DisableTimes ==
  ASSUME NEW r \in RoRec, r.bound <=> r.dev # NIL, NEW Y
  PROVE  /\ Times(DisableAll(r), TasksOf("unreg", Y)) = Want(r, Y)
         /\ Times(DisableAll(r), TasksOf("reg", Y)) = 0
<1>1. CASE r.bound
  <2>1. r.dev \in AnyDev /\ AllFilters(r) \in Seq(CanFilters)
    BY <1>1, FiltersType DEF RoRec
  <2>2. DisableAll(r) = Task("unreg", r.dev, AllFilters(r))
    BY <1>1 DEF DisableAll
  <2> QED
    BY <1>1, <2>1, <2>2, TaskTimes DEF Want
<1>2. CASE ~r.bound
  BY <1>2, TimesEmpty DEF DisableAll, Want
<1> QED
  BY <1>1, <1>2

LEMMA ConcatRegsFirst ==
  ASSUME NEW s \in Seq(TaskRec), NEW t \in Seq(TaskRec),
         \A i \in 1..Len(s) : s[i].what = "reg", \A i \in 1..Len(t) : t[i].what = "unreg"
  PROVE  RegsFirst(s \o t)
<1>1. Len(s) \in Nat /\ Len(t) \in Nat
  BY LenProperties
<1>2. /\ Len(s \o t) = Len(s) + Len(t)
      /\ \A i \in 1..Len(s) + Len(t) : (s \o t)[i] = IF i <= Len(s) THEN s[i] ELSE t[i - Len(s)]
  BY ConcatProperties
<1> DEFINE u == s \o t
<1>3. /\ Len(u) = Len(s) + Len(t)
      /\ \A i \in 1..Len(u) : u[i].what = "reg" <=> i <= Len(s)
  <2> SUFFICES ASSUME NEW i \in 1..Len(u) PROVE u[i].what = "reg" <=> i <= Len(s)
    BY <1>2
  <2>1. CASE i <= Len(s)
    <3>1. u[i] = s[i] /\ i \in 1..Len(s)
      BY <1>1, <1>2, <2>1
    <3> QED
      BY <2>1, <3>1
  <2>2. CASE ~(i <= Len(s))
    <3>1. u[i] = t[i - Len(s)] /\ i - Len(s) \in 1..Len(t)
      BY <1>1, <1>2, <2>2
    <3> QED
      BY <2>2, <3>1
  <2> QED
    BY <2>1, <2>2
<1> HIDE DEF u
<1>4. RegsFirst(u)
  BY <1>1, <1>3 DEF RegsFirst
<1> QED
  BY <1>4 DEF u

LEMMA RegsFirstAlone ==
  ASSUME NEW todo, \A i \in 1..Len(todo) : todo[i].what = "unreg"
  PROVE  RegsFirst(todo)
BY DEF RegsFirst

\* A call begins: what it will do leads to the fields it will set.
LEMMA BeginCounts ==
  ASSUME RawCtl, RegisteredInv, NEW k \in RawSocks, NEW kind, NEW todo, NEW new,
         Begin(kind, k, todo, new), UNCHANGED <<rcv, ro, rpc>>, RegsFirst(todo),
         \A Y : Want(ro[k], Y) + Times(todo, TasksOf("reg", Y))
                  = Want(new, Y) + Times(todo, TasksOf("unreg", Y))
  PROVE  RegisteredInv'
<1>1. rtnl = NoCall
  BY DEF Begin
<1>2. rtnl' = [kind |-> kind, sk |-> k, dev |-> NIL, todo |-> todo, done |-> <<>>, new |-> new]
  BY DEF Begin, NoCall
<1>3. rtnl'.sk = k /\ rtnl'.todo = todo /\ rtnl'.new = new /\ rtnl'.done = <<>> /\ rtnl.sk = NIL
  BY <1>1, <1>2 DEF NoCall
<1>4. TaskInv'
  BY <1>3, EmptySeq DEF RegisteredInv, TaskInv, RegsFirst
<1>5. \A x, Y : Num(x, Y)' = Num(x, Y)
  BY DEF Num, Regs, On, KeyAt
<1>6. \A x \in RawSocks : \A Y : Num(x, Y) = Want(ro[x], Y) /\ Want(ro[x], Y) \in Nat
  <2>1. \A x \in RawSocks : \A Y : Num(x, Y) = Want(ro[x], Y)
    BY <1>3, NilFacts DEF RegisteredInv, Counted
  <2> QED
    BY <2>1, RegsFinite
<1>7. ASSUME NEW x \in RawSocks PROVE Counted(x)'
  <2>1. ASSUME x # k, NEW Y PROVE Num(x, Y)' = Want(ro'[x], Y)
    BY <1>5, <1>6
  <2>2. ASSUME x = k, NEW Y
        PROVE  /\ Num(x, Y)' + Times(todo, TasksOf("reg", Y)) = Want(new, Y) + Times(todo, TasksOf("unreg", Y))
               /\ Num(x, Y)' = Want(ro'[x], Y) + Times(<<>>, TasksOf("unreg", Y))
    <3>1. Num(k, Y)' = Want(ro[k], Y) /\ Want(ro[k], Y) \in Nat
      BY <1>5, <1>6
    <3>2. Times(<<>>, TasksOf("unreg", Y)) = 0
      BY TimesEmpty
    <3> QED
      BY <2>2, <3>1, <3>2
  <2> QED
    BY <1>3, <2>1, <2>2 DEF Counted, Left
<1> QED
  BY <1>4, <1>7 DEF RegisteredInv

LEMMA BindCounts ==
  ASSUME RawCtl, RegisteredInv, NEW k \in RawSocks, NEW dev \in AnyDev, raw_bind(k, dev)
  PROVE  RegisteredInv'
<1> DEFINE reg == Task("reg", dev, AllFilters(ro[k]))
           off == DisableAll(ro[k])
           new == [ro[k] EXCEPT !.bound = TRUE, !.dev = dev]
<1>1. ro[k] \in RoRec /\ (ro[k].bound <=> ro[k].dev # NIL) /\ AllFilters(ro[k]) \in Seq(CanFilters)
  BY FiltersType DEF RawCtl, RawTypeOK, CallInv
<1>2. /\ reg \in Seq(TaskRec) /\ off \in Seq(TaskRec)
      /\ \A i \in 1..Len(reg) : reg[i].what = "reg"
      /\ \A i \in 1..Len(off) : off[i].what = "unreg"
  <2>1. /\ reg \in Seq(TaskRec) /\ Len(reg) = Len(AllFilters(ro[k]))
        /\ \A i \in 1..Len(AllFilters(ro[k])) : reg[i].what = "reg"
    BY <1>1, TaskType
  <2>2. off \in Seq(TaskRec) /\ \A i \in 1..Len(off) : off[i].what = "unreg"
    BY <1>1, DisableType
  <2> HIDE DEF reg, off
  <2> QED
    BY <2>1, <2>2
<1>3. new.bound /\ new.dev = dev /\ AllFilters(new) = AllFilters(ro[k])
  BY <1>1 DEF RoRec, AllFilters
<1>4. Begin("bind", k, reg \o off, new) /\ UNCHANGED <<rcv, ro, rpc>>
  BY DEF raw_bind, rxVars
<1>5. ASSUME NEW Y
      PROVE  Want(ro[k], Y) + Times(reg \o off, TasksOf("reg", Y))
               = Want(new, Y) + Times(reg \o off, TasksOf("unreg", Y))
  <2>1. /\ Times(reg, TasksOf("reg", Y)) = Times(AllFilters(ro[k]), FiltersOf(dev, Y))
        /\ Times(reg, TasksOf("unreg", Y)) = 0
    BY <1>1, TaskTimes
  <2>2. Times(off, TasksOf("unreg", Y)) = Want(ro[k], Y) /\ Times(off, TasksOf("reg", Y)) = 0
    BY <1>1, DisableTimes
  <2>3. Want(new, Y) = Times(AllFilters(ro[k]), FiltersOf(dev, Y))
    BY <1>3 DEF Want
  <2>4. Want(ro[k], Y) \in Nat /\ Times(AllFilters(ro[k]), FiltersOf(dev, Y)) \in Nat
    BY <1>1, WantType, AtFinite
  <2> HIDE DEF reg, off, new
  <2>5. \A T : Times(reg \o off, T) = Times(reg, T) + Times(off, T)
    BY <1>2, TimesConcat
  <2> QED
    BY <2>1, <2>2, <2>3, <2>4, <2>5
<1> HIDE DEF reg, off, new
<1>6. RegsFirst(reg \o off)
  BY <1>2, ConcatRegsFirst
<1> QED
  BY <1>4, <1>5, <1>6, BeginCounts

\* Of the filters some are replaced, the others stay.
LEMMA ReplaceCounts ==
  ASSUME RawCtl, RegisteredInv, NEW k \in RawSocks, NEW old \in Seq(CanFilters), NEW fs \in Seq(CanFilters),
         NEW new \in RoRec, new.bound = ro[k].bound, new.dev = ro[k].dev, Replace(k, old, fs, new),
         \A T : Times(AllFilters(ro[k]), T) + Times(fs, T) = Times(AllFilters(new), T) + Times(old, T)
  PROVE  RegisteredInv'
<1> DEFINE reg == Task("reg", ro[k].dev, fs)
           off == Task("unreg", ro[k].dev, old)
           todo == IF ro[k].bound THEN reg \o off ELSE <<>>
<1>1. ro[k] \in RoRec /\ (ro[k].bound <=> ro[k].dev # NIL)
  BY DEF RawCtl, RawTypeOK, CallInv
<1>2. Begin("option", k, todo, new) /\ UNCHANGED <<rcv, ro, rpc>>
  BY DEF Replace, rxVars
<1>3. CASE ro[k].bound
  <2>1. ro[k].dev \in AnyDev /\ todo = reg \o off
    BY <1>1, <1>3 DEF RoRec
  <2>2. /\ reg \in Seq(TaskRec) /\ off \in Seq(TaskRec)
        /\ \A i \in 1..Len(reg) : reg[i].what = "reg"
        /\ \A i \in 1..Len(off) : off[i].what = "unreg"
    <3>1. ASSUME NEW what \in {"reg", "unreg"}, NEW s \in Seq(CanFilters)
          PROVE  LET t == Task(what, ro[k].dev, s)
                 IN t \in Seq(TaskRec) /\ Len(t) = Len(s) /\ \A i \in 1..Len(s) : t[i].what = what
      BY <2>1, TaskType
    <3>2. /\ reg \in Seq(TaskRec) /\ Len(reg) = Len(fs) /\ \A i \in 1..Len(fs) : reg[i].what = "reg"
          /\ off \in Seq(TaskRec) /\ Len(off) = Len(old) /\ \A i \in 1..Len(old) : off[i].what = "unreg"
      BY <3>1
    <3> HIDE DEF reg, off
    <3> QED
      BY <3>2
  <2>3. ASSUME NEW Y
        PROVE  Want(ro[k], Y) + Times(todo, TasksOf("reg", Y)) = Want(new, Y) + Times(todo, TasksOf("unreg", Y))
    <3> DEFINE F == FiltersOf(ro[k].dev, Y)
    <3>1. /\ Times(reg, TasksOf("reg", Y)) = Times(fs, F) /\ Times(reg, TasksOf("unreg", Y)) = 0
          /\ Times(off, TasksOf("unreg", Y)) = Times(old, F) /\ Times(off, TasksOf("reg", Y)) = 0
      BY <2>1, TaskTimes
    <3>2. Want(ro[k], Y) = Times(AllFilters(ro[k]), F) /\ Want(new, Y) = Times(AllFilters(new), F)
      BY <1>3 DEF Want
    <3>3. Times(fs, F) \in Nat /\ Times(old, F) \in Nat
      BY AtFinite
    <3> HIDE DEF reg, off, todo, F
    <3>4. \A T : Times(reg \o off, T) = Times(reg, T) + Times(off, T)
      BY <2>2, TimesConcat
    <3>5. Times(AllFilters(ro[k]), F) + Times(fs, F) = Times(AllFilters(new), F) + Times(old, F)
      OBVIOUS
    <3> QED
      BY <2>1, <3>1, <3>2, <3>3, <3>4, <3>5
  <2> HIDE DEF reg, off, todo
  <2>4. RegsFirst(reg \o off)
    BY <2>2, ConcatRegsFirst
  <2> QED
    BY <1>2, <2>1, <2>3, <2>4, BeginCounts
<1>4. CASE ~ro[k].bound
  <2>1. todo = <<>> /\ \A Y : Want(ro[k], Y) = 0 /\ Want(new, Y) = 0
    BY <1>4 DEF Want
  <2> HIDE DEF todo
  <2>2. RegsFirst(todo)
    BY <2>1, EmptySeq DEF RegsFirst
  <2> QED
    BY <1>2, <2>1, <2>2, TimesEmpty, BeginCounts
<1> QED
  BY <1>3, <1>4

LEMMA OptionCounts ==
  ASSUME RawCtl, RegisteredInv, scene \in Scenes, NEW k \in RawSocks,
         raw_setsockopt(k, scene.lists, scene.masks)
  PROVE  RegisteredInv'
<1> DEFINE r == ro[k]
           e == ErrFilters(r.err_mask)
<1>1. /\ r \in RoRec /\ r.filter \in Seq(CanFilters) /\ r.err_mask \in SUBSET EFF_MASK
      /\ e \in Seq(CanFilters)
  <2>1. r \in RoRec
    BY DEF RawCtl, RawTypeOK
  <2> QED
    BY <2>1, FiltersType DEF RoRec
<1>2. scene.lists \subseteq Seq(CanFilters) /\ scene.masks \subseteq SUBSET EFF_MASK
  BY StackAssumption
<1>3. \A s, t \in Seq(CanFilters) : \A T : /\ Times(s \o t, T) = Times(s, T) + Times(t, T)
                                          /\ Times(s, T) \in Nat /\ Times(t, T) \in Nat
  BY TimesConcat, AtFinite
<1>4. AllFilters(r) = r.filter \o e
  BY DEF AllFilters
<1>5. CASE \E fs \in scene.lists : Replace(k, r.filter, fs, [r EXCEPT !.filter = fs])
  <2>1. PICK fs \in scene.lists : Replace(k, r.filter, fs, [r EXCEPT !.filter = fs])
    BY <1>5
  <2> DEFINE new == [r EXCEPT !.filter = fs]
  <2>2. fs \in Seq(CanFilters)
    BY <1>2
  <2>3. /\ new \in RoRec /\ new.bound = r.bound /\ new.dev = r.dev /\ AllFilters(new) = fs \o e
    BY <1>1, <2>2 DEF RoRec, AllFilters
  <2>4. Replace(k, r.filter, fs, new)
    BY <2>1
  <2> HIDE DEF new, e
  <2>5. \A T : Times(AllFilters(r), T) + Times(fs, T) = Times(AllFilters(new), T) + Times(r.filter, T)
    BY <1>1, <1>3, <1>4, <2>2, <2>3
  <2> QED
    BY <1>1, <2>2, <2>3, <2>4, <2>5, ReplaceCounts
<1>6. CASE \E m \in scene.masks : Replace(k, e, ErrFilters(m), [r EXCEPT !.err_mask = m])
  <2>1. PICK m \in scene.masks : Replace(k, e, ErrFilters(m), [r EXCEPT !.err_mask = m])
    BY <1>6
  <2> DEFINE new == [r EXCEPT !.err_mask = m]
             d == ErrFilters(m)
  <2>2. d \in Seq(CanFilters)
    BY <1>2, FiltersType
  <2>3. /\ new \in RoRec /\ new.bound = r.bound /\ new.dev = r.dev /\ AllFilters(new) = r.filter \o d
    BY <1>1, <1>2 DEF RoRec, AllFilters
  <2>4. Replace(k, e, d, new)
    BY <2>1
  <2> HIDE DEF new, e, d
  <2>5. \A T : Times(AllFilters(r), T) + Times(d, T) = Times(AllFilters(new), T) + Times(e, T)
    BY <1>1, <1>3, <1>4, <2>2, <2>3
  <2> QED
    BY <1>1, <2>2, <2>3, <2>4, <2>5, ReplaceCounts
<1> QED
  BY <1>5, <1>6 DEF raw_setsockopt

\* The notifier and raw_release() unregister all there is.
LEMMA NotifyCounts ==
  ASSUME RawCtl, RegisteredInv, NEW k \in RawSocks, k = raw_busy_notifier, raw_notify
  PROVE  RegisteredInv'
<1> DEFINE off == DisableAll(ro[k])
<1>1. /\ rtnl.sk = NIL /\ k \in RawSocks /\ rtnl \in CallRec
      /\ rtnl' = [rtnl EXCEPT !.sk = k, !.todo = off, !.new = Off(ro[k])]
      /\ UNCHANGED <<rcv, ro, rpc>>
  BY DEF RawCtl, RawTypeOK, raw_notify, rxVars
<1>2. ro[k] \in RoRec /\ (ro[k].bound <=> ro[k].dev # NIL)
  BY <1>1 DEF RawCtl, RawTypeOK, CallInv
<1>3. off \in Seq(TaskRec) /\ \A i \in 1..Len(off) : off[i].what = "unreg"
  BY <1>2, DisableType
<1>4. ~Off(ro[k]).bound
  BY <1>2, CallType
<1>5. \A Y : Times(off, TasksOf("unreg", Y)) = Want(ro[k], Y) /\ Times(off, TasksOf("reg", Y)) = 0
  BY <1>2, DisableTimes
<1> HIDE DEF off
<1>6. rtnl'.sk = k /\ rtnl'.todo = off /\ rtnl'.new = Off(ro[k]) /\ rtnl'.done = rtnl.done
  BY <1>1 DEF CallRec
<1>7. off # <<>> => Head(off).what = "unreg"
  <2> SUFFICES ASSUME off # <<>> PROVE Head(off).what = "unreg"
    OBVIOUS
  <2>1. Len(off) \in Nat \ {0} /\ Head(off) = off[1]
    BY <1>3, EmptySeq
  <2> QED
    BY <1>3, <2>1
<1>8. TaskInv'
  BY <1>1, <1>3, <1>6, RegsFirstAlone DEF RegisteredInv, TaskInv
<1>9. \A x, Y : Num(x, Y)' = Num(x, Y)
  BY <1>1 DEF Num, Regs, On, KeyAt
<1>10. \A x \in RawSocks : \A Y : Num(x, Y) = Want(ro[x], Y) /\ Num(x, Y) \in Nat
  BY <1>1, RegsFinite, NilFacts DEF RegisteredInv, Counted
<1>11. ASSUME NEW x \in RawSocks PROVE Counted(x)'
  <2>1. ASSUME x # k, NEW Y PROVE Num(x, Y)' = Want(ro'[x], Y)
    BY <1>1, <1>9, <1>10
  <2>2. ASSUME x = k, NEW Y
        PROVE  Num(x, Y)' + Times(off, TasksOf("reg", Y)) = Want(Off(ro[k]), Y) + Times(off, TasksOf("unreg", Y))
    <3>1. Num(k, Y)' = Want(ro[k], Y) /\ Want(ro[k], Y) \in Nat
      BY <1>1, <1>9, <1>10
    <3>2. Want(Off(ro[k]), Y) = 0
      BY <1>4 DEF Want
    <3> QED
      BY <1>5, <2>2, <3>1, <3>2
  <2> QED
    BY <1>6, <1>7, <2>1, <2>2 DEF Counted, Left
<1> QED
  BY <1>8, <1>11 DEF RegisteredInv

LEMMA TailRegsFirst ==
  ASSUME NEW s \in Seq(TaskRec), s # <<>>, RegsFirst(s)
  PROVE  /\ RegsFirst(Tail(s))
         /\ Head(s).what = "unreg" => \A i \in 1..Len(s) : s[i].what = "unreg"
<1>1. /\ Len(s) \in Nat \ {0} /\ Len(Tail(s)) = Len(s) - 1 /\ Head(s) = s[1]
      /\ \A i \in 1..Len(Tail(s)) : Tail(s)[i] = s[i + 1]
  BY HeadTailProperties, EmptySeq
<1>2. \A i \in 1..Len(s) : s[i].what \in {"reg", "unreg"}
  <2>1. \A i \in 1..Len(s) : s[i] \in TaskRec
    BY ElementOfSeq
  <2> QED
    BY <2>1 DEF TaskRec
<1>3. RegsFirst(Tail(s))
  <2> SUFFICES ASSUME NEW i \in 1..Len(Tail(s)), NEW m \in 1..Len(Tail(s)), i < m, Tail(s)[m].what = "reg"
               PROVE  Tail(s)[i].what = "reg"
    BY DEF RegsFirst
  <2>1. i + 1 \in 1..Len(s) /\ m + 1 \in 1..Len(s) /\ i + 1 < m + 1
    BY <1>1
  <2> QED
    BY <1>1, <2>1 DEF RegsFirst
<1>4. ASSUME Head(s).what = "unreg", NEW i \in 1..Len(s) PROVE s[i].what = "unreg"
  <2>1. s[i].what = "reg" => s[1].what = "reg"
    BY <1>1 DEF RegsFirst
  <2> QED
    BY <1>1, <1>2, <1>4, <2>1
<1> QED
  BY <1>3, <1>4

LEMMA TaskFacts ==
  ASSUME RawCtl, RegisteredInv, NEW faults, RawTask(faults), NEW t, t = Head(rtnl.todo)
  PROVE  /\ rtnl \in CallRec /\ rtnl.todo \in Seq(TaskRec) /\ rtnl.done \in Seq(TaskRec) /\ rtnl.todo # <<>>
         /\ t \in TaskRec /\ Tail(rtnl.todo) \in Seq(TaskRec) /\ rtnl.sk \in RawSocks
         /\ UNCHANGED <<ro, rpc>>
         /\ \A T : Times(rtnl.todo, T) = Times(Tail(rtnl.todo), T) + IF t \in T THEN 1 ELSE 0
         /\ \A T : Times(Tail(rtnl.todo), T) \in Nat /\ Times(rtnl.done, T) \in Nat
<1>1. /\ rtnl \in CallRec /\ rtnl.todo \in Seq(TaskRec) /\ rtnl.done \in Seq(TaskRec) /\ rtnl.todo # <<>>
      /\ rtnl.sk \in RawSocks \cup {NIL} /\ UNCHANGED <<ro, rpc>>
  BY DEF RawCtl, RawTypeOK, RawTask, CallRec
<1>2. /\ t \in TaskRec /\ Tail(rtnl.todo) \in Seq(TaskRec)
      /\ Len(rtnl.todo) \in Nat \ {0}
  BY <1>1, HeadTailProperties, EmptySeq
<1>3. rtnl.sk \in RawSocks
  BY <1>1, <1>2 DEF RawCtl, CallInv
<1>4. \A s \in Seq(TaskRec) : s # <<>> =>
        \A T : Times(s, T) = Times(Tail(s), T) + IF Head(s) \in T THEN 1 ELSE 0
  BY TimesTail
<1>5. \A s \in Seq(TaskRec) : \A T : Times(s, T) \in Nat
  BY AtFinite
<1> QED
  BY <1>1, <1>2, <1>3, <1>4, <1>5

\* A registration: the receiver, or what was registered is undone.
LEMMA RegistersCount ==
  ASSUME CoreInv, RawCtl, RegisteredInv, NEW faults, RawTask(faults), Registers(faults),
         NEW k \in RawSocks, k = rtnl.sk
  PROVE  RegisteredInv'
<1> DEFINE t == Head(rtnl.todo)
           u == [t EXCEPT !.what = "unreg"]
<1>1. /\ rtnl \in CallRec /\ rtnl.todo \in Seq(TaskRec) /\ rtnl.done \in Seq(TaskRec) /\ rtnl.todo # <<>>
      /\ t \in TaskRec /\ Tail(rtnl.todo) \in Seq(TaskRec)
      /\ UNCHANGED <<ro, rpc>>
      /\ \A T : Times(rtnl.todo, T) = Times(Tail(rtnl.todo), T) + IF t \in T THEN 1 ELSE 0
      /\ \A T : Times(Tail(rtnl.todo), T) \in Nat /\ Times(rtnl.done, T) \in Nat
  BY TaskFacts
<1>2. /\ t.what = "reg" /\ t.dev \in AnyDev /\ t.f \in CanFilters
      /\ u \in TaskRec /\ u.what = "unreg" /\ u.dev = t.dev /\ u.f = t.f
  BY <1>1 DEF Registers, TaskRec
<1>3. \A Y : /\ t \in TasksOf("reg", Y) <=> Key(t.dev, t.f) \in Y
             /\ t \notin TasksOf("unreg", Y)
             /\ u \in TasksOf("unreg", Y) <=> Key(t.dev, t.f) \in Y
  BY <1>1, <1>2 DEF TasksOf
<1>4. ro[k] \in RoRec /\ (ro[k].bound <=> ro[k].dev # NIL) /\ rtnl.new \in RoRec
      /\ (rtnl.new.bound <=> rtnl.new.dev # NIL)
  BY NilFacts DEF RawCtl, RawTypeOK, CallInv
<1>5. \A Y : Want(ro[k], Y) \in Nat /\ Want(rtnl.new, Y) \in Nat /\ Num(k, Y) \in Nat
  BY <1>4, WantType, RegsFinite
<1>6. /\ \A Y : Num(k, Y) + Times(rtnl.todo, TasksOf("reg", Y))
                  = Want(rtnl.new, Y) + Times(rtnl.todo, TasksOf("unreg", Y))
      /\ \A Y : Num(k, Y) = Want(ro[k], Y) + Times(rtnl.done, TasksOf("unreg", Y))
      /\ \A x \in RawSocks \ {k} : \A Y : Num(x, Y) = Want(ro[x], Y)
  BY <1>1, <1>2 DEF RegisteredInv, Counted, Left
<1>7. TaskInv
  BY DEF RegisteredInv
<1>8. k \in Owners
  BY NilFacts
<1>9. CASE /\ can_rx_register(t.dev, t.f, k)
           /\ rtnl' = [rtnl EXCEPT !.todo = Tail(@), !.done = Append(@, u)]
  <2> DEFINE todo == Tail(rtnl.todo)
             done == Append(rtnl.done, u)
  <2>1. /\ \A Y : Num(k, Y)' = Num(k, Y) + IF Key(t.dev, t.f) \in Y THEN 1 ELSE 0
        /\ \A x \in RawSocks \ {k} : \A Y : Num(x, Y)' = Num(x, Y)
    <3>1. \A x \in Owners : \A Y : Num(x, Y)' = Num(x, Y) + IF x = k /\ Key(t.dev, t.f) \in Y THEN 1 ELSE 0
      <4> HIDE DEF t
      <4> QED
        BY <1>2, <1>8, <1>9, RegisterCounts
    <3>2. \A x \in RawSocks : x \in Owners /\ \A Y : Num(x, Y) \in Nat
      BY NilFacts, RegsFinite
    <3> QED
      BY <3>1, <3>2
  <2>2. /\ rtnl'.sk = k /\ rtnl'.todo = todo /\ rtnl'.done = done /\ rtnl'.new = rtnl.new
        /\ todo \in Seq(TaskRec)
    BY <1>1, <1>9 DEF CallRec
  <2>3. \A T : Times(done, T) = Times(rtnl.done, T) + IF u \in T THEN 1 ELSE 0
    <3> HIDE DEF u
    <3> QED
      BY <1>1, <1>2, TimesAppend
  <2>4. \A i \in 1..Len(done) : done[i].what = "unreg"
    <3>1. /\ Len(done) = Len(rtnl.done) + 1 /\ Len(rtnl.done) \in Nat
          /\ \A i \in 1..Len(done) : done[i] = IF i <= Len(rtnl.done) THEN rtnl.done[i] ELSE u
      <4> HIDE DEF u
      <4> QED
        BY <1>1, <1>2, AppendProperties, LenProperties
    <3> HIDE DEF u, done
    <3> QED
      BY <1>2, <1>7, <3>1 DEF TaskInv
  <2>5. RegsFirst(todo)
    BY <1>1, <1>7, TailRegsFirst DEF TaskInv
  <2> HIDE DEF t, u, todo, done
  <2>6. TaskInv'
    BY <1>1, <1>7, <2>2, <2>4, <2>5 DEF TaskInv
  <2>7. ASSUME NEW Y
        PROVE  /\ Num(k, Y)' + Times(todo, TasksOf("reg", Y)) = Want(rtnl.new, Y) + Times(todo, TasksOf("unreg", Y))
               /\ Num(k, Y)' = Want(ro[k], Y) + Times(done, TasksOf("unreg", Y))
    <3>1. /\ Num(k, Y) + Times(rtnl.todo, TasksOf("reg", Y))
                  = Want(rtnl.new, Y) + Times(rtnl.todo, TasksOf("unreg", Y))
          /\ Num(k, Y) = Want(ro[k], Y) + Times(rtnl.done, TasksOf("unreg", Y))
          /\ Num(k, Y)' = Num(k, Y) + IF Key(t.dev, t.f) \in Y THEN 1 ELSE 0
          /\ Want(ro[k], Y) \in Nat /\ Want(rtnl.new, Y) \in Nat /\ Num(k, Y) \in Nat
      BY <1>5, <1>6, <2>1
    <3>2. /\ Times(rtnl.todo, TasksOf("reg", Y)) = Times(todo, TasksOf("reg", Y)) + IF Key(t.dev, t.f) \in Y THEN 1 ELSE 0
          /\ Times(rtnl.todo, TasksOf("unreg", Y)) = Times(todo, TasksOf("unreg", Y))
          /\ Times(done, TasksOf("unreg", Y)) = Times(rtnl.done, TasksOf("unreg", Y)) + IF Key(t.dev, t.f) \in Y THEN 1 ELSE 0
          /\ Times(todo, TasksOf("reg", Y)) \in Nat /\ Times(todo, TasksOf("unreg", Y)) \in Nat
          /\ Times(rtnl.done, TasksOf("unreg", Y)) \in Nat
      BY <1>1, <1>3, <2>3 DEF todo
    <3> QED
      BY <3>1, <3>2
  <2>8. ASSUME NEW x \in RawSocks PROVE Counted(x)'
    BY <1>1, <1>6, <2>1, <2>2, <2>7 DEF Counted, Left
  <2> QED
    BY <2>6, <2>8 DEF RegisteredInv
<1>10. CASE /\ rtnl' = [rtnl EXCEPT !.todo = Undo(rtnl.done), !.done = <<>>, !.new = ro[k]]
            /\ UNCHANGED rcv
  <2> DEFINE todo == Reverse(rtnl.done)
  <2>1. rtnl'.sk = k /\ rtnl'.todo = todo /\ rtnl'.done = <<>> /\ rtnl'.new = ro[k]
    BY <1>1, <1>10 DEF CallRec, Undo
  <2>2. \A T : Times(todo, T) = Times(rtnl.done, T)
    BY <1>1, TimesReverse
  <2>3. /\ \A i \in 1..Len(todo) : todo[i].what = "unreg"
        /\ todo # <<>> => Head(todo).what = "unreg"
    <3>1. Len(rtnl.done) \in Nat /\ rtnl.done \in [1..Len(rtnl.done) -> TaskRec]
      BY <1>1, LenProperties
    <3>2. todo = [i \in 1..Len(rtnl.done) |-> rtnl.done[(Len(rtnl.done) - i) + 1]]
      BY DEF Reverse
    <3>3. \A i \in 1..Len(rtnl.done) : (Len(rtnl.done) - i) + 1 \in 1..Len(rtnl.done)
      BY <3>1
    <3>4. todo \in [1..Len(rtnl.done) -> TaskRec]
      BY <3>1, <3>2, <3>3
    <3>5. todo \in Seq(TaskRec) /\ Len(todo) = Len(rtnl.done)
      BY <3>1, <3>4
    <3>6. \A i \in 1..Len(todo) : todo[i].what = "unreg"
      BY <1>7, <3>2, <3>3, <3>5 DEF TaskInv
    <3> HIDE DEF todo
    <3>7. todo # <<>> => Head(todo) = todo[1] /\ 1 \in 1..Len(todo)
      BY <3>5, EmptySeq
    <3> QED
      BY <3>6, <3>7
  <2>4. \A x, Y : Num(x, Y)' = Num(x, Y)
    BY <1>10 DEF Num, Regs, On, KeyAt
  <2>5. \A Y : Times(rtnl.done, TasksOf("reg", Y)) = 0
    <3>1. \A Y : \A i \in 1..Len(rtnl.done) : rtnl.done[i] \notin TasksOf("reg", Y)
      BY <1>7 DEF TaskInv, TasksOf
    <3> QED
      BY <3>1, TimesNone
  <2> HIDE DEF todo
  <2>6. TaskInv'
    <3>1. RegsFirst(todo)
      BY <2>3, RegsFirstAlone
    <3>2. \A i \in 1..Len(<<>>) : FALSE
      BY EmptySeq
    <3> QED
      BY <1>1, <1>7, <2>1, <3>1, <3>2 DEF TaskInv
  <2>7. ASSUME NEW Y
        PROVE  Num(k, Y)' + Times(todo, TasksOf("reg", Y)) = Want(ro[k], Y) + Times(todo, TasksOf("unreg", Y))
    <3>1. Num(k, Y) = Want(ro[k], Y) + Times(rtnl.done, TasksOf("unreg", Y)) /\ Num(k, Y) \in Nat
      BY <1>5, <1>6
    <3>2. Num(k, Y)' = Num(k, Y)
      BY <2>4
    <3> QED
      BY <2>2, <2>5, <3>1, <3>2
  <2>8. ASSUME NEW x \in RawSocks PROVE Counted(x)'
    <3>1. x # k => \A Y : Num(x, Y)' = Want(ro'[x], Y)
      BY <1>1, <1>6, <2>4
    <3> QED
      BY <1>1, <2>1, <2>3, <2>7, <3>1 DEF Counted, Left
  <2> QED
    BY <2>6, <2>8 DEF RegisteredInv
<1> QED
  BY <1>9, <1>10 DEF Registers


\* An unregistration finds a receiver: there is one for each that is left to do.
LEMMA UnregistersCount ==
  ASSUME CoreInv, RawCtl, RegisteredInv, NEW faults, RawTask(faults), Unregisters,
         NEW k \in RawSocks, k = rtnl.sk
  PROVE  /\ RegisteredInv'
         /\ \A x \in RawSocks \ {k} : Leaving(x)' = Leaving(x)
         /\ \/ refs' = refs /\ Leaving(k)' = Leaving(k)
            \/ /\ Cardinality(Leaving(k))' = Cardinality(Leaving(k)) + 1
               /\ refs' = [refs EXCEPT ![k] = @ + 1]
<1> DEFINE t == Head(rtnl.todo)
           todo == Tail(rtnl.todo)
<1>1. /\ rtnl \in CallRec /\ rtnl.todo \in Seq(TaskRec) /\ rtnl.done \in Seq(TaskRec) /\ rtnl.todo # <<>>
      /\ t \in TaskRec /\ todo \in Seq(TaskRec)
      /\ UNCHANGED <<ro, rpc>>
      /\ \A T : Times(rtnl.todo, T) = Times(todo, T) + IF t \in T THEN 1 ELSE 0
      /\ \A T : Times(todo, T) \in Nat /\ Times(rtnl.done, T) \in Nat
  BY TaskFacts
<1>2. /\ t.what = "unreg" /\ t.dev \in AnyDev /\ t.f \in CanFilters
      /\ can_rx_unregister(t.dev, t.f, k) /\ rtnl' = [rtnl EXCEPT !.todo = todo]
  BY <1>1 DEF Unregisters, TaskRec
<1>3. \A Y : t \in TasksOf("unreg", Y) <=> Key(t.dev, t.f) \in Y
  BY <1>1, <1>2 DEF TasksOf
<1>4. /\ \A i \in 1..Len(rtnl.todo) : rtnl.todo[i].what = "unreg"
      /\ RegsFirst(todo) /\ RegsFirst(rtnl.todo)
  BY <1>1, <1>2, TailRegsFirst DEF RegisteredInv, TaskInv
<1>5. \A i \in 1..Len(todo) : todo[i].what = "unreg"
  <2>1. Len(todo) = Len(rtnl.todo) - 1 /\ Len(rtnl.todo) \in Nat /\ \A i \in 1..Len(todo) : todo[i] = rtnl.todo[i + 1]
    BY <1>1, HeadTailProperties, LenProperties
  <2> HIDE DEF todo
  <2>2. \A i \in 1..Len(todo) : i + 1 \in 1..Len(rtnl.todo)
    BY <2>1
  <2> QED
    BY <1>4, <2>1, <2>2
<1>6. \A Y : Times(todo, TasksOf("reg", Y)) = 0 /\ Times(rtnl.todo, TasksOf("reg", Y)) = 0
  <2>1. ASSUME NEW s, \A i \in 1..Len(s) : s[i].what = "unreg", NEW Y
        PROVE  Times(s, TasksOf("reg", Y)) = 0
    <3>1. \A i \in 1..Len(s) : s[i] \notin TasksOf("reg", Y)
      BY <2>1 DEF TasksOf
    <3> QED
      BY <3>1, TimesNone
  <2> HIDE DEF todo
  <2> QED
    BY <1>4, <1>5, <2>1
<1>7. /\ \A Y : Num(k, Y) + Times(rtnl.todo, TasksOf("reg", Y))
                  = Want(rtnl.new, Y) + Times(rtnl.todo, TasksOf("unreg", Y))
      /\ \A x \in RawSocks \ {k} : \A Y : Num(x, Y) = Want(ro[x], Y)
  BY DEF RegisteredInv, Counted, Left
<1>8. \A Y : Want(rtnl.new, Y) \in Nat /\ Num(k, Y) \in Nat
  <2>1. rtnl.new \in RoRec /\ (rtnl.new.bound <=> rtnl.new.dev # NIL)
    BY NilFacts DEF RawCtl, RawTypeOK, CallInv
  <2> QED
    BY <2>1, WantType, RegsFinite
<1> HIDE DEF t, todo
<1>9. Num(k, {Key(t.dev, t.f)}) > 0
  <2> DEFINE Y == {Key(t.dev, t.f)}
  <2>1. Times(rtnl.todo, TasksOf("unreg", Y)) = Times(todo, TasksOf("unreg", Y)) + 1
    BY <1>1, <1>3
  <2>2. Num(k, Y) = Want(rtnl.new, Y) + Times(rtnl.todo, TasksOf("unreg", Y))
    BY <1>6, <1>7, <1>8
  <2>3. Times(todo, TasksOf("unreg", Y)) \in Nat /\ Want(rtnl.new, Y) \in Nat
    BY <1>1, <1>8
  <2> QED
    BY <2>1, <2>2, <2>3
<1>10. k \in Owners /\ k \in Socks /\ RawSocks \subseteq Owners
  BY NilFacts
<1>11. /\ \A x \in Owners \ {k} : Leaving(x)' = Leaving(x)
       /\ \A x \in Owners : \A Y :
            Num(x, Y)' = Num(x, Y) - IF x = k /\ Key(t.dev, t.f) \in Y THEN 1 ELSE 0
       /\ \/ refs' = refs /\ Leaving(k)' = Leaving(k)
          \/ /\ Cardinality(Leaving(k))' = Cardinality(Leaving(k)) + 1
             /\ refs' = IF k \in Socks THEN [refs EXCEPT ![k] = @ + 1] ELSE refs
  <2> DEFINE dev == t.dev
             f   == t.f
  <2>1. /\ dev \in AnyDev /\ f \in CanFilters /\ k \in Owners
        /\ can_rx_unregister(dev, f, k) /\ Num(k, {Key(dev, f)}) > 0
    BY <1>2, <1>9, <1>10
  <2> HIDE DEF dev, f
  <2>2. \A x \in Owners \ {k} : Leaving(x)' = Leaving(x)
    BY <2>1, UnregisterCounts
  <2>3. ASSUME NEW x \in Owners, NEW Y
        PROVE  Num(x, Y)' = Num(x, Y) - IF x = k /\ Key(dev, f) \in Y THEN 1 ELSE 0
    BY <2>1, UnregisterCounts
  <2>4. \/ refs' = refs /\ Leaving(k)' = Leaving(k)
        \/ /\ Cardinality(Leaving(k))' = Cardinality(Leaving(k)) + 1
           /\ refs' = IF k \in Socks THEN [refs EXCEPT ![k] = @ + 1] ELSE refs
    BY <2>1, UnregisterCounts
  <2> QED
    BY <2>2, <2>3, <2>4 DEF dev, f
<1>12. rtnl'.sk = k /\ rtnl'.todo = todo /\ rtnl'.done = rtnl.done /\ rtnl'.new = rtnl.new
  BY <1>1, <1>2 DEF CallRec
<1>13. TaskInv'
  BY <1>1, <1>4, <1>12 DEF RegisteredInv, TaskInv
<1>14. todo # <<>> => Head(todo).what # "reg"
  <2> SUFFICES ASSUME todo # <<>> PROVE Head(todo).what # "reg"
    OBVIOUS
  <2>1. Len(todo) \in Nat \ {0} /\ Head(todo) = todo[1]
    BY <1>1, EmptySeq
  <2> QED
    BY <1>5, <2>1
<1>15. ASSUME NEW Y
       PROVE  Num(k, Y)' + Times(todo, TasksOf("reg", Y)) = Want(rtnl.new, Y) + Times(todo, TasksOf("unreg", Y))
  <2>1. Num(k, Y)' = Num(k, Y) - IF Key(t.dev, t.f) \in Y THEN 1 ELSE 0
    BY <1>10, <1>11
  <2>2. /\ Times(rtnl.todo, TasksOf("unreg", Y)) = Times(todo, TasksOf("unreg", Y)) + IF Key(t.dev, t.f) \in Y THEN 1 ELSE 0
        /\ Times(todo, TasksOf("unreg", Y)) \in Nat
    BY <1>1, <1>3
  <2>3. Num(k, Y) = Want(rtnl.new, Y) + Times(rtnl.todo, TasksOf("unreg", Y)) /\ Num(k, Y) \in Nat
    BY <1>6, <1>7, <1>8
  <2>4. Want(rtnl.new, Y) \in Nat /\ Times(todo, TasksOf("reg", Y)) = 0
    BY <1>6, <1>8
  <2> QED
    BY <2>1, <2>2, <2>3, <2>4
<1>16. ASSUME NEW x \in RawSocks PROVE Counted(x)'
  <2>1. x # k => \A Y : Num(x, Y)' = Want(ro'[x], Y)
    <3>1. x # k => \A Y : Num(x, Y)' = Num(x, Y) - 0 /\ Num(x, Y) \in Nat
      BY <1>10, <1>11, RegsFinite
    <3> QED
      BY <1>1, <1>7, <3>1
  <2> QED
    BY <1>12, <1>14, <1>15, <2>1 DEF Counted, Left
<1> QED
  BY <1>10, <1>11, <1>13, <1>16 DEF RegisteredInv

\* A call ends: what it led to is what the fields say from now on.
LEMMA EndCounts ==
  ASSUME RawCtl, RegisteredInv, NEW k \in RawSocks, rtnl.sk = k, rtnl.todo = <<>>,
         ro' = [ro EXCEPT ![k] = rtnl.new], rtnl'.sk = NIL, rtnl'.todo = <<>>,
         rtnl'.done = <<>> \/ rtnl'.done = rtnl.done,
         \A x \in RawSocks : rpc'[x] = "gone" => rpc[x] = "gone" \/ (x = k /\ ~rtnl.new.bound),
         rpc[k] # "gone", UNCHANGED rcv
  PROVE  RegisteredInv'
<1>1. ro \in [RawSocks -> RoRec] /\ NIL \notin RawSocks
  BY NilFacts DEF RawCtl, RawTypeOK
<1>2. \A x, Y : Num(x, Y)' = Num(x, Y)
  BY DEF Num, Regs, On, KeyAt
<1>3. ro'[k] = rtnl.new /\ \A x \in RawSocks \ {k} : ro'[x] = ro[x]
  BY <1>1
<1>4. TaskInv'
  <2>1. RegsFirst(rtnl'.todo) /\ \A i \in 1..Len(rtnl'.done) : rtnl'.done[i].what = "unreg"
    BY EmptySeq DEF RegsFirst, RegisteredInv, TaskInv
  <2>2. \A x \in RawSocks : rpc'[x] = "gone" => ~ro'[x].bound
    BY <1>3 DEF RegisteredInv, TaskInv
  <2> QED
    BY <2>1, <2>2 DEF TaskInv
<1>5. \A Y : Num(k, Y) = Want(rtnl.new, Y)
  <2> TAKE Y
  <2>1. Num(k, Y) + Times(<<>>, TasksOf("reg", Y)) = Want(rtnl.new, Y) + Times(<<>>, TasksOf("unreg", Y))
    BY DEF RegisteredInv, Counted, Left
  <2>2. Num(k, Y) \in Nat /\ Want(rtnl.new, Y) \in Nat
    BY <1>1, RegsFinite, WantType DEF RawCtl, CallInv
  <2> QED
    BY <2>1, <2>2, TimesEmpty
<1>6. \A x \in RawSocks : \A Y : Num(x, Y)' = Want(ro'[x], Y)
  <2>1. \A x \in RawSocks \ {k} : \A Y : Num(x, Y) = Want(ro[x], Y)
    BY DEF RegisteredInv, Counted
  <2> QED
    BY <1>2, <1>3, <1>5, <2>1
<1>7. \A x \in RawSocks : Counted(x)'
  BY <1>1, <1>6 DEF Counted
<1> QED
  BY <1>4, <1>7 DEF RegisteredInv

\* The notifier comes to a socket, or leaves one that is not of the device.
LEMMA IdleCounts ==
  ASSUME RawCtl, RegisteredInv, rtnl.sk = NIL, rtnl'.sk = NIL, rtnl'.todo = <<>>,
         rtnl'.done = <<>> \/ rtnl'.done = rtnl.done, UNCHANGED <<rcv, ro, rpc>>
  PROVE  RegisteredInv'
<1>1. TaskInv'
  BY EmptySeq DEF RegsFirst, RegisteredInv, TaskInv
<1>2. \A x, Y : Num(x, Y)' = Num(x, Y)
  BY DEF Num, Regs, On, KeyAt
<1>3. \A x \in RawSocks : x # NIL /\ \A Y : Num(x, Y) = Want(ro[x], Y)
  BY NilFacts DEF RegisteredInv, Counted
<1>4. \A x \in RawSocks : \A Y : Num(x, Y)' = Want(ro'[x], Y)
  BY <1>2, <1>3
<1>5. \A x \in RawSocks : Counted(x)'
  BY <1>3, <1>4 DEF Counted
<1> QED
  BY <1>1, <1>5 DEF RegisteredInv

LEMMA NotifyNextCounts ==
  ASSUME RawCtl, RegisteredInv, NEW k \in RawSocks, k = raw_busy_notifier, raw_notify_next
  PROVE  RegisteredInv'
<1>1. /\ rtnl.kind = "notify" /\ rtnl.todo = <<>> /\ rtnl \in CallRec /\ rtnl.sk \in {NIL, k}
      /\ rpc[k] \in {"open", "list"}
      /\ ro' = IF rtnl.sk = NIL THEN ro ELSE [ro EXCEPT ![k] = rtnl.new]
      /\ UNCHANGED <<rcv, rpc>>
      /\ rtnl' = [rtnl EXCEPT !.sk = NIL, !.new = NIL] \/ rtnl' = NoCall
  BY NilFacts DEF RawCtl, RawTypeOK, NotifyInv, raw_notify_next, rxVars
<1>2. rtnl'.sk = NIL /\ rtnl'.todo = <<>> /\ (rtnl'.done = <<>> \/ rtnl'.done = rtnl.done)
  <2>1. CASE rtnl' = [rtnl EXCEPT !.sk = NIL, !.new = NIL]
    BY <1>1, <2>1 DEF CallRec
  <2>2. CASE rtnl' = NoCall
    BY <2>2 DEF NoCall
  <2> QED
    BY <1>1, <2>1, <2>2
<1>3. CASE rtnl.sk = NIL
  BY <1>1, <1>2, <1>3, IdleCounts
<1>4. CASE rtnl.sk = k
  <2>1. ro' = [ro EXCEPT ![k] = rtnl.new]
    BY <1>1, <1>4, NilFacts
  <2> QED
    BY <1>1, <1>2, <1>4, <2>1, EndCounts
<1> QED
  BY <1>1, <1>3, <1>4

LEMMA NotifierCounts ==
  ASSUME RawCtl, RegisteredInv, NEW dev \in Devs, raw_notifier(dev)
  PROVE  RegisteredInv'
<1>1. /\ rtnl = NoCall /\ rtnl' = [NoCall EXCEPT !.kind = "notify", !.dev = dev]
      /\ UNCHANGED <<rcv, ro, rpc>>
  BY DEF raw_notifier, rxVars
<1>2. rtnl.sk = NIL /\ rtnl'.sk = NIL /\ rtnl'.todo = <<>> /\ rtnl'.done = <<>>
  BY <1>1 DEF NoCall
<1> QED
  BY <1>1, <1>2, IdleCounts

LEMMA CommitCounts ==
  ASSUME RawCtl, RegisteredInv, RawCommit \/ raw_release_done
  PROVE  RegisteredInv'
<1>1. /\ rtnl.kind \in {"bind", "option", "release"} /\ rtnl.todo = <<>> /\ rtnl' = NoCall
      /\ UNCHANGED rcv
      /\ IF rtnl.kind = "release" THEN rpc' = [rpc EXCEPT ![rtnl.sk] = "gone"] ELSE UNCHANGED rpc
      /\ ro' = [ro EXCEPT ![rtnl.sk] = rtnl.new]
  BY DEF RawCommit, raw_release_done, rxVars
<1>2. /\ rtnl.sk \in RawSocks /\ rpc \in [RawSocks -> {"open", "list", "rtnl", "gone"}]
      /\ rpc[rtnl.sk] # "gone" /\ (rtnl.kind = "release" => ~rtnl.new.bound)
  BY <1>1 DEF RawCtl, RawTypeOK, CallRec, CallInv, NotifyInv
<1>3. \A x \in RawSocks : rpc'[x] = "gone" => rpc[x] = "gone" \/ (x = rtnl.sk /\ ~rtnl.new.bound)
  BY <1>1, <1>2
<1>4. rtnl'.sk = NIL /\ rtnl'.todo = <<>> /\ rtnl'.done = <<>>
  BY <1>1 DEF NoCall
<1>5. ASSUME NEW k \in RawSocks, k = rtnl.sk PROVE RegisteredInv'
  BY <1>1, <1>2, <1>3, <1>4, <1>5, EndCounts
<1> QED
  BY <1>2, <1>5

\* raw_release() up to the point where it unregisters what is left.
LEMMA ReleaseCounts ==
  ASSUME RawCtl, RegisteredInv, NEW k \in RawSocks,
         raw_release(k) \/ raw_release_list(k) \/ raw_release_rtnl(k)
  PROVE  RegisteredInv' /\ UNCHANGED <<rcv, refs>> /\ \A x \in RawSocks : rpc'[x] = "gone" <=> rpc[x] = "gone"
<1>1. /\ ro \in [RawSocks -> RoRec] /\ rpc \in [RawSocks -> {"open", "list", "rtnl", "gone"}]
      /\ ro[k] \in RoRec /\ (ro[k].bound <=> ro[k].dev # NIL)
  BY DEF RawCtl, RawTypeOK, CallInv
<1>2. CASE raw_release(k) \/ raw_release_list(k)
  <2>1. /\ UNCHANGED <<rcv, refs, ro, rtnl>>
        /\ rpc[k] # "gone" /\ \E p \in {"list", "rtnl"} : rpc' = [rpc EXCEPT ![k] = p]
    BY <1>2 DEF raw_release, raw_release_list, rxVars
  <2>2. \A x \in RawSocks : rpc'[x] = "gone" <=> rpc[x] = "gone"
    BY <1>1, <2>1
  <2>3. TaskInv'
    BY <2>1, <2>2 DEF RegisteredInv, TaskInv
  <2>4. \A x, Y : Num(x, Y)' = Num(x, Y)
    BY <2>1 DEF Num, Regs, On, KeyAt
  <2>5. \A x \in RawSocks : Counted(x)'
    BY <2>1, <2>4 DEF RegisteredInv, Counted, Left
  <2> QED
    BY <2>1, <2>2, <2>3, <2>5 DEF RegisteredInv
<1>3. CASE raw_release_rtnl(k)
  <2> DEFINE off == DisableAll(ro[k])
             new == Off(ro[k])
  <2>1. Begin("release", k, off, new) /\ UNCHANGED <<rcv, refs, ro, rpc>>
    BY <1>3 DEF raw_release_rtnl, rxVars
  <2>2. off \in Seq(TaskRec) /\ (\A i \in 1..Len(off) : off[i].what = "unreg") /\ ~new.bound
    BY <1>1, DisableType, CallType
  <2>3. \A Y : Times(off, TasksOf("unreg", Y)) = Want(ro[k], Y) /\ Times(off, TasksOf("reg", Y)) = 0
    BY <1>1, DisableTimes
  <2>4. \A Y : Want(new, Y) = 0 /\ Want(ro[k], Y) \in Nat
    BY <1>1, <2>2, WantType DEF Want
  <2> HIDE DEF off, new
  <2>5. \A Y : Want(ro[k], Y) + Times(off, TasksOf("reg", Y)) = Want(new, Y) + Times(off, TasksOf("unreg", Y))
    BY <2>3, <2>4
  <2>6. RegsFirst(off)
    BY <2>2, RegsFirstAlone
  <2>7. RegisteredInv'
    BY <2>1, <2>5, <2>6, BeginCounts
  <2> QED
    BY <2>1, <2>7
<1> QED
  BY <1>2, <1>3

-----------------------------------------------------------------------------
(* The references to a raw socket: its own, and one for each receiver that *)
(* waits to be freed.                                                      *)

HeldInv ==
  /\ refs \in [Socks -> Int]
  /\ \A s \in Slots : rcv[s].owner \in Socks => rcv[s].owner \in RawSocks
  /\ \A k \in RawSocks : refs[k] >= (IF rpc[k] = "gone" THEN 0 ELSE 1) + Cardinality(Leaving(k))

CountInv == RegisteredInv /\ HeldInv

\* Those who act own no raw socket's receivers.
LEMMA OthersHeld ==
  ASSUME CoreInv, CountInv, NEW O \in SUBSET Owners, O \cap Socks = {}, OthersStay(O),
         UNCHANGED <<ro, rtnl, rpc>>, refs' \in [Socks -> Int], \A k \in RawSocks : refs'[k] = refs[k]
  PROVE  CountInv'
<1>1. \A k \in RawSocks : k \in Owners \ O
  BY NilFacts
<1>2. \A k \in RawSocks : (\A Y : Num(k, Y)' = Num(k, Y)) /\ Leaving(k)' = Leaving(k)
  BY <1>1, OthersCount
<1>3. RegisteredInv'
  BY <1>2 DEF CountInv, RegisteredInv, TaskInv, Counted, Left
<1>4. \A s \in Slots : rcv'[s].owner \in Socks => rcv'[s].owner \in RawSocks
  BY NilFacts DEF OthersStay, CountInv, HeldInv
<1>5. HeldInv'
  BY <1>2, <1>4 DEF CountInv, HeldInv
<1> QED
  BY <1>3, <1>5 DEF CountInv

\* What raw sockets do to the references, but for the last.
LEMMA RawHeld ==
  ASSUME CountInv, OthersStay(RawSocks), RegisteredInv',
         \A x \in RawSocks : rpc'[x] = "gone" <=> rpc[x] = "gone",
         NEW k, \A x \in RawSocks \ {k} : Leaving(x)' = Leaving(x),
         \/ refs' = refs /\ (k \in RawSocks => Leaving(k)' = Leaving(k))
         \/ /\ Cardinality(Leaving(k))' = Cardinality(Leaving(k)) + 1
            /\ refs' = [refs EXCEPT ![k] = @ + 1]
  PROVE  CountInv'
<1>1. \A s \in Slots : rcv'[s].owner \in Socks => rcv'[s].owner \in RawSocks
  BY NilFacts DEF OthersStay, CountInv, HeldInv
<1>2. refs \in [Socks -> Int] /\ RawSocks \subseteq Socks
      /\ \A x \in RawSocks : refs[x] >= (IF rpc[x] = "gone" THEN 0 ELSE 1) + Cardinality(Leaving(x))
  BY NilFacts DEF CountInv, HeldInv
<1>3. \A x \in RawSocks : Cardinality(Leaving(x)) \in Nat
  BY RegsFinite
<1>4. refs' \in [Socks -> Int]
  BY <1>2
<1>5. ASSUME NEW x \in RawSocks
      PROVE  refs'[x] >= (IF rpc'[x] = "gone" THEN 0 ELSE 1) + Cardinality(Leaving(x))'
  <2>1. CASE refs' = refs /\ (k \in RawSocks => Leaving(k)' = Leaving(k))
    BY <1>2, <1>5, <2>1
  <2>2. CASE /\ Cardinality(Leaving(k))' = Cardinality(Leaving(k)) + 1
             /\ refs' = [refs EXCEPT ![k] = @ + 1]
    <3>1. CASE x = k
      <4>1. refs'[x] = refs[x] + 1
        BY <1>2, <2>2, <3>1
      <4> QED
        BY <1>2, <1>3, <2>2, <3>1, <4>1
    <3>2. CASE x # k
      BY <1>2, <2>2, <3>2
    <3> QED
      BY <3>1, <3>2
  <2> QED
    BY <2>1, <2>2
<1> QED
  BY <1>1, <1>4, <1>5 DEF CountInv, HeldInv

\* A grace period ends: what is freed is no longer held.
LEMMA UnlockCounts ==
  ASSUME CoreInv, CountInv, NEW c \in Cpus, rcu_read_unlock(c), UNCHANGED <<ro, rtnl, rpc>>
  PROVE  CountInv'
<1> DEFINE E == {s \in Slots : rcv[s].state = "off" /\ rcv[s].gp \subseteq {c}}
           r == [s \in Slots |-> [rcv[s] EXCEPT !.gp = @ \ {c}]]
<1>1. /\ rcv \in [Slots -> RcvRec] /\ rcv' \in [Slots -> RcvRec]
      /\ \A x \in Slots : rcv'[x] = IF x \in E THEN Free ELSE [rcv[x] EXCEPT !.gp = @ \ {c}]
  BY UnlockKeeps DEF CoreInv, CoreTypeOK
<1>2. Expired(r) = E
  <2>1. \A s \in Slots : r[s].state = rcv[s].state /\ r[s].gp = rcv[s].gp \ {c}
    BY <1>1 DEF RcvRec
  <2> HIDE DEF r
  <2> QED
    BY <2>1 DEF Expired
<1>3. refs' = [k \in Socks |-> refs[k] - Cardinality({s \in E : rcv[s].owner = k})]
  BY <1>2 DEF rcu_read_unlock
<1> HIDE DEF r
<1>4. ASSUME NEW s \in Slots \ E
      PROVE  /\ rcv'[s].owner = rcv[s].owner /\ rcv'[s].state = rcv[s].state /\ rcv'[s].dev = rcv[s].dev
             /\ rcv'[s].list = rcv[s].list /\ rcv'[s].id = rcv[s].id /\ rcv'[s].mask = rcv[s].mask
  BY <1>1 DEF RcvRec
<1>5. \A s \in E : rcv'[s] = Free /\ rcv[s].state = "off" /\ s \in Slots
  BY <1>1
<1> HIDE DEF E
<1>6. ASSUME NEW k \in RawSocks, NEW Y PROVE Num(k, Y)' = Num(k, Y)
  <2>1. \A s \in Slots : s \in Regs(k, Y)' <=> s \in Regs(k, Y)
    BY <1>4, <1>5, FreeType DEF Regs, On, KeyAt
  <2>2. Regs(k, Y)' \subseteq Slots /\ Regs(k, Y) \subseteq Slots
    BY DEF Regs, On
  <2>3. Regs(k, Y)' = Regs(k, Y)
    BY <2>1, <2>2
  <2> QED
    BY <2>3 DEF Num
<1>7. RegisteredInv'
  BY <1>6 DEF CountInv, RegisteredInv, TaskInv, Counted, Left
<1>8. \A s \in Slots : rcv'[s].owner \in Socks => rcv'[s].owner \in RawSocks
  <2>1. NIL \notin Socks
    BY NilFacts
  <2> QED
    BY <1>4, <1>5, <2>1, FreeType DEF CountInv, HeldInv
<1>9. IsFiniteSet(Slots) /\ E \subseteq Slots /\ refs \in [Socks -> Int] /\ RawSocks \subseteq Socks
  BY <1>5, CanRxAssumption, NilFacts DEF CountInv, HeldInv
<1>10. refs' \in [Socks -> Int]
  <2>1. \A k : Cardinality({s \in E : rcv[s].owner = k}) \in Nat
    <3> TAKE k
    <3>1. {s \in E : rcv[s].owner = k} \in SUBSET Slots
      BY <1>9
    <3>2. IsFiniteSet({s \in E : rcv[s].owner = k})
      BY <1>9, <3>1, FS_Subset
    <3> QED
      BY <3>2, FS_CardinalityType
  <2>2. \A k \in Socks : refs[k] - Cardinality({s \in E : rcv[s].owner = k}) \in Int
    <3> TAKE k \in Socks
    <3>1. refs[k] \in Int /\ Cardinality({s \in E : rcv[s].owner = k}) \in Nat
      BY <1>9, <2>1
    <3> QED
      BY <3>1
  <2> QED
    BY <1>3, <2>2
<1>11. ASSUME NEW k \in RawSocks
       PROVE  refs'[k] >= (IF rpc'[k] = "gone" THEN 0 ELSE 1) + Cardinality(Leaving(k))'
  <2> DEFINE X == {s \in E : rcv[s].owner = k}
  <2>1. Leaving(k)' = Leaving(k) \ X
    <3>1. \A s \in Slots : s \in Leaving(k)' <=> s \in Leaving(k) /\ s \notin X
      <4>1. NIL \notin RawSocks
        BY NilFacts
      <4> QED
        BY <1>4, <1>5, <4>1, FreeType DEF Leaving
    <3>2. Leaving(k)' \subseteq Slots /\ Leaving(k) \subseteq Slots
      BY DEF Leaving
    <3> HIDE DEF X
    <3> QED
      BY <3>1, <3>2
  <2>2. Leaving(k) \cap X = X
    BY <1>5 DEF Leaving
  <2>3. refs'[k] = refs[k] - Cardinality(X)
    BY <1>3, <1>9
  <2> HIDE DEF X
  <2>4. IsFiniteSet(Leaving(k)) /\ Cardinality(Leaving(k)) \in Nat
    BY RegsFinite
  <2>5. Cardinality(Leaving(k) \ X) = Cardinality(Leaving(k)) - Cardinality(X) /\ Cardinality(X) \in Nat
    <3>1. Cardinality(Leaving(k) \ X) = Cardinality(Leaving(k)) - Cardinality(Leaving(k) \cap X)
      BY <2>4, FS_Difference
    <3>2. X \in SUBSET Leaving(k)
      BY <2>2
    <3>3. Cardinality(X) \in Nat
      BY <2>4, <3>2, FS_Subset, FS_CardinalityType
    <3> QED
      BY <2>2, <3>1, <3>3
  <2>6. refs[k] \in Int /\ refs[k] >= (IF rpc[k] = "gone" THEN 0 ELSE 1) + Cardinality(Leaving(k))
    BY <1>9 DEF CountInv, HeldInv
  <2> QED
    BY <2>1, <2>3, <2>4, <2>5, <2>6
<1> QED
  BY <1>7, <1>8, <1>10, <1>11 DEF CountInv, HeldInv

\* The references the gateway, the broadcast manager and plain owners change.
LEMMA UnregisterRefs ==
  ASSUME NEW dev, NEW f, NEW o, o \notin Socks, can_rx_unregister(dev, f, o)
  PROVE  UNCHANGED refs
BY DEF can_rx_unregister

LEMMA OthersRefs ==
  /\ GwInv /\ (GwUses \/ GwUsed) => UNCHANGED refs
  /\ BcmUses \/ BcmUsed => UNCHANGED refs \/ refs' = sock_put(BcmSock)
  /\ Register \/ Unregister \/ (\E c \in Cpus : Taken(c)) => UNCHANGED refs
<1>1. ASSUME GwInv, GwUses \/ GwUsed PROVE UNCHANGED refs
  <2>1. ASSUME NEW j \in Jobs, cgw_remove(j) PROVE UNCHANGED refs
    <3>1. j \notin Socks
      BY GwAssumption
    <3> QED
      BY <2>1, <3>1, UnregisterRefs DEF cgw_remove
  <2>2. flush \subseteq Jobs /\ cgw_list \in Seq(Jobs)
    BY <1>1 DEF GwInv, GwTypeOK
  <2>3. ASSUME NEW s, cgw_create_job(s) PROVE UNCHANGED refs
    BY <2>3 DEF cgw_create_job, GwUpdate, GwCreate
  <2>4. ASSUME NEW s, cgw_remove_job(s) PROVE UNCHANGED refs
    <3>1. PICK i \in 1..Len(cgw_list) : cgw_remove(cgw_list[i])
      BY <2>4 DEF cgw_remove_job
    <3>2. cgw_list[i] \in Jobs
      BY <2>2, ElementOfSeq
    <3> QED
      BY <2>1, <3>1, <3>2
  <2>5. cgw_remove_all_jobs \/ (\E d \in Devs : cgw_notifier(d)) => UNCHANGED refs
    BY DEF cgw_remove_all_jobs, cgw_notifier, rxVars
  <2>6. GwFlush => UNCHANGED refs
    BY <2>1, <2>2 DEF GwFlush
  <2>7. (\E c \in Cpus : GwRead(c) \/ GwSend(c)) => UNCHANGED refs
    BY DEF GwRead, GwSend
  <2> QED
    BY <1>1, <2>3, <2>4, <2>5, <2>6, <2>7 DEF GwUses, GwUsed, GwStep, GwCall
<1>2. ASSUME BcmUses \/ BcmUsed PROVE UNCHANGED refs \/ refs' = sock_put(BcmSock)
  <2>1. TxTimeout \/ TxTimeoutSent \/ TxTimeoutExpiry => UNCHANGED refs
    BY DEF TxTimeout, TxTimeoutSent, TxTimeoutExpiry, Handler, rxVars
  <2>2. TxCreated \/ TxUpdateLocked \/ TxIval1 \/ TxIval2 \/ TxZero \/ TxCancel \/ TxAnnounce \/ TxStart
          \/ TxRemove \/ TxCreate \/ TxUpdate \/ TxDelete => UNCHANGED refs
    BY DEF TxCreated, TxUpdateLocked, TxIval1, TxIval2, TxZero, TxCancel, TxAnnounce, TxStart,
           TxRemove, TxCreate, TxUpdate, TxDelete, TxGoto
  <2>3. RxTimeout \/ RxThrottle \/ RxThrottleAgain \/ RxThrottleEnd => UNCHANGED refs
    BY DEF RxTimeout, RxThrottle, RxThrottleAgain, RxThrottleEnd, Handler, rxVars
  <2>4. RxSet \/ RxIval1 \/ RxIval2 \/ RxZero \/ RxLast \/ RxCancel \/ RxFlush \/ RxStart => UNCHANGED refs
    BY DEF RxSet, RxIval1, RxIval2, RxZero, RxLast, RxCancel, RxFlush, RxStart
  <2>5. RxRegister \/ RxRemove \/ RxRemoveThr \/ RxCreate \/ RxUpdate \/ RxDelete => UNCHANGED refs
    BY DEF RxRegister, RxRemove, RxRemoveThr, RxCreate, RxUpdate, RxDelete
  <2>6. bcm_release \/ ReleaseTx \/ ReleaseSync \/ ReleaseSynced \/ BcmTime
          \/ (\E t \in Timers : Expire(t)) => UNCHANGED refs
    BY DEF bcm_release, ReleaseTx, ReleaseSync, ReleaseSynced, BcmTime, Expire, rxVars
  <2>7. ReleasePut => refs' = sock_put(BcmSock)
    BY DEF ReleasePut
  <2>8. ASSUME RxUnreg \/ ReleaseUnreg \/ bcm_notify PROVE UNCHANGED refs
    <3>1. can_rx_unregister(BcmDev, BcmFilter, RxOp) \/ UNCHANGED refs
      BY <2>8, Zenon DEF RxUnreg, ReleaseUnreg, bcm_notify, bcm_rx_unreg
    <3> QED
      BY <3>1, BcmAssumption, UnregisterRefs
  <2>9. (\E c \in Cpus : BcmRcv(c) \/ BcmRcvCompare(c) \/ BcmRcvUpdate(c) \/ BcmRcvStart(c)) => UNCHANGED refs
    BY DEF BcmRcv, BcmRcvCompare, BcmRcvUpdate, BcmRcvStart, Receiving
  <2>10. TxStep \/ BcmTxCall \/ BcmRxCall => UNCHANGED refs
    BY <2>1, <2>2, <2>5 DEF TxStep, BcmTxCall, BcmRxCall
  <2>11. RxStep => UNCHANGED refs \/ refs' = sock_put(BcmSock)
    BY <2>3, <2>4, <2>5, <2>6, <2>7, <2>8, <2>9 DEF RxStep
  <2>12. BcmEvent => UNCHANGED refs
    BY <2>6, <2>8 DEF BcmEvent
  <2> QED
    BY <1>2, <2>10, <2>11, <2>12 DEF BcmUses, BcmUsed, BcmStep
<1>3. ASSUME Register \/ Unregister \/ \E c \in Cpus : Taken(c) PROVE UNCHANGED refs
  <2>1. CASE Unregister
    <3>1. PICK s \in On : rcv[s].owner \in Plain /\ can_rx_unregister(rcv[s].dev, rcv[s].asked, rcv[s].owner)
      BY <2>1 DEF Unregister
    <3>2. rcv[s].owner \notin Socks
      BY <3>1 DEF Plain
    <3> QED
      BY <3>1, <3>2, UnregisterRefs
  <2> QED
    BY <1>3, <2>1 DEF Register, Taken
<1> QED
  BY <1>1, <1>2, <1>3

LEMMA RawTaskCounts ==
  ASSUME CoreInv, RawCtl, CountInv, OthersStay(RawSocks), NEW faults, RawTask(faults)
  PROVE  CountInv'
<1>1. rtnl.sk \in RawSocks /\ UNCHANGED <<ro, rpc>>
  <2>1. rtnl \in CallRec /\ rtnl.todo \in Seq(TaskRec) /\ rtnl.todo # <<>> /\ UNCHANGED <<ro, rpc>>
    BY DEF RawCtl, RawTypeOK, RawTask, CallRec
  <2>2. Len(rtnl.todo) > 0
    BY <2>1, EmptySeq
  <2> QED
    BY <2>1, <2>2 DEF RawCtl, CallInv, CallRec
<1> SUFFICES ASSUME NEW k \in RawSocks, k = rtnl.sk PROVE CountInv'
  BY <1>1
<1>2. RegisteredInv
  BY DEF CountInv
<1>3. CASE Registers(faults)
  <2>1. RegisteredInv' /\ UNCHANGED refs
    BY <1>2, <1>3, RegistersCount DEF Registers
  <2>2. \A x \in RawSocks : Leaving(x)' = Leaving(x)
    <3> DEFINE t == Head(rtnl.todo)
    <3>1. can_rx_register(t.dev, t.f, k) \/ UNCHANGED rcv
      BY <1>3 DEF Registers
    <3>2. t.dev \in AnyDev /\ t.f \in CanFilters
      <4>1. t \in TaskRec
        BY <1>2, TaskFacts
      <4> QED
        BY <4>1 DEF TaskRec
    <3>3. k \in Owners /\ RawSocks \subseteq Owners
      BY NilFacts
    <3> HIDE DEF t
    <3>4. can_rx_register(t.dev, t.f, k) => \A x \in Owners : Leaving(x)' = Leaving(x)
      BY <3>2, <3>3, RegisterCounts
    <3>5. UNCHANGED rcv => \A x : Leaving(x)' = Leaving(x)
      BY DEF Leaving
    <3> QED
      BY <3>1, <3>3, <3>4, <3>5
  <2> QED
    BY <1>1, <2>1, <2>2, RawHeld
<1>4. CASE Unregisters
  <2>1. /\ RegisteredInv'
        /\ \A x \in RawSocks \ {k} : Leaving(x)' = Leaving(x)
        /\ \/ refs' = refs /\ Leaving(k)' = Leaving(k)
           \/ /\ Cardinality(Leaving(k))' = Cardinality(Leaving(k)) + 1
              /\ refs' = [refs EXCEPT ![k] = @ + 1]
    BY <1>2, <1>4, UnregistersCount
  <2> QED
    BY <1>1, <2>1, RawHeld
<1> QED
  BY <1>3, <1>4 DEF RawTask

\* The last reference of raw_release() goes with the socket.
LEMMA DoneCounts ==
  ASSUME RawCtl, CountInv, raw_release_done
  PROVE  CountInv'
<1>1. RegisteredInv'
  BY CommitCounts DEF CountInv
<1>2. /\ rtnl.sk \in RawSocks /\ rpc[rtnl.sk] # "gone" /\ rpc' = [rpc EXCEPT ![rtnl.sk] = "gone"]
      /\ rpc \in [RawSocks -> {"open", "list", "rtnl", "gone"}]
      /\ refs' = [refs EXCEPT ![rtnl.sk] = @ - 1] /\ UNCHANGED rcv
  BY DEF raw_release_done, sock_put, RawCtl, RawTypeOK, CallRec, CallInv, NotifyInv
<1>3. \A x : Leaving(x)' = Leaving(x)
  BY <1>2 DEF Leaving
<1>4. /\ refs \in [Socks -> Int] /\ RawSocks \subseteq Socks
      /\ \A x \in RawSocks : refs[x] >= (IF rpc[x] = "gone" THEN 0 ELSE 1) + Cardinality(Leaving(x))
  BY NilFacts DEF CountInv, HeldInv
<1>5. \A x \in RawSocks : Cardinality(Leaving(x)) \in Nat
  BY RegsFinite
<1>6. refs' \in [Socks -> Int]
  BY <1>2, <1>4
<1>7. ASSUME NEW x \in RawSocks
      PROVE  refs'[x] >= (IF rpc'[x] = "gone" THEN 0 ELSE 1) + Cardinality(Leaving(x))'
  <2>1. Cardinality(Leaving(x))' = Cardinality(Leaving(x)) /\ Cardinality(Leaving(x)) \in Nat
    BY <1>3, <1>5
  <2>2. refs[x] \in Int /\ refs[x] >= (IF rpc[x] = "gone" THEN 0 ELSE 1) + Cardinality(Leaving(x))
    BY <1>4
  <2>3. CASE x = rtnl.sk
    <3>1. refs'[x] = refs[x] - 1 /\ rpc'[x] = "gone" /\ rpc[x] # "gone"
      BY <1>2, <1>4, <2>3
    <3> QED
      BY <2>1, <2>2, <3>1
  <2>4. CASE x # rtnl.sk
    <3>1. refs'[x] = refs[x] /\ rpc'[x] = rpc[x]
      BY <1>2, <1>4, <2>4
    <3> QED
      BY <2>1, <2>2, <3>1
  <2> QED
    BY <2>3, <2>4
<1>8. \A s \in Slots : rcv'[s].owner \in Socks => rcv'[s].owner \in RawSocks
  BY <1>2 DEF CountInv, HeldInv
<1> QED
  BY <1>1, <1>6, <1>7, <1>8 DEF CountInv, HeldInv

LEMMA RawCountStep ==
  ASSUME CoreInv, RawCtl, CountInv, scene \in Scenes, RawUses \/ RawUsed \/ RawSends
  PROVE  CountInv'
<1>1. RawSocks \in SUBSET Owners
  BY NilFacts
<1>2. OthersStay(RawSocks) /\ RegisteredInv
  BY <1>1, RawActs, ActsKeep DEF CountInv
<1>3. ASSUME RegisteredInv', UNCHANGED <<rcv, refs>>, \A x \in RawSocks : rpc'[x] = "gone" <=> rpc[x] = "gone"
      PROVE  CountInv'
  <2>1. \A x : Leaving(x)' = Leaving(x)
    BY <1>3 DEF Leaving
  <2> QED
    BY <1>2, <1>3, <2>1, RawHeld
<1>4. ASSUME UNCHANGED <<rcv, refs, ro, rtnl, rpc>> PROVE CountInv'
  <2>1. OthersStay({}) /\ {} \in SUBSET Owners
    BY <1>4 DEF OthersStay
  <2>2. refs' \in [Socks -> Int]
    BY <1>4 DEF CountInv, HeldInv
  <2> QED
    BY <1>4, <2>1, <2>2, OthersHeld
<1>5. CASE RawUses
  <2>1. ASSUME NEW c \in Cpus, raw_rcv(c) PROVE CountInv'
    BY <1>4, <2>1 DEF raw_rcv
  <2>2. CASE RawCommit
    <3>1. RegisteredInv'
      BY <1>2, <2>2, CommitCounts
    <3>2. UNCHANGED <<rcv, refs, rpc>>
      BY <2>2 DEF RawCommit, rxVars
    <3> QED
      BY <1>3, <3>1, <3>2
  <2>3. CASE raw_notify \/ raw_notify_next
    <3>1. raw_busy_notifier \in RawSocks
      BY <2>3 DEF RawCtl, RawTypeOK, NotifyInv, raw_notify, raw_notify_next
    <3>2. RegisteredInv'
      <4> SUFFICES ASSUME NEW k \in RawSocks, k = raw_busy_notifier PROVE RegisteredInv'
        BY <3>1
      <4> QED
        BY <1>2, <2>3, NotifyCounts, NotifyNextCounts
    <3>3. UNCHANGED <<rcv, refs, rpc>>
      BY <2>3 DEF raw_notify, raw_notify_next, rxVars
    <3> QED
      BY <1>3, <3>2, <3>3
  <2>4. ASSUME NEW k \in RawSocks, raw_release_list(k) \/ raw_release_rtnl(k) PROVE CountInv'
    BY <1>2, <1>3, <2>4, ReleaseCounts
  <2>5. ASSUME NEW faults, RawTask(faults) PROVE CountInv'
    BY <1>2, <2>5, RawTaskCounts
  <2> QED
    BY <1>5, <2>1, <2>2, <2>3, <2>4, <2>5, DoneCounts DEF RawUses, RawStep
<1>6. CASE RawUsed
  <2>1. ASSUME NEW k \in scene.socks, RawCall(k, scene.devs, scene.lists, scene.masks) PROVE CountInv'
    <3>1. k \in RawSocks /\ scene.devs \subseteq AnyDev
      BY StackAssumption DEF AnyDev
    <3>2. ASSUME NEW d \in scene.devs, raw_bind(k, d) PROVE CountInv'
      <4>1. RegisteredInv'
        BY <1>2, <3>1, <3>2, BindCounts
      <4>2. UNCHANGED <<rcv, refs, rpc>>
        BY <3>2 DEF raw_bind, rxVars
      <4> QED
        BY <1>3, <4>1, <4>2
    <3>3. ASSUME raw_setsockopt(k, scene.lists, scene.masks) PROVE CountInv'
      <4>1. RegisteredInv'
        BY <1>2, <3>1, <3>3, OptionCounts
      <4>2. UNCHANGED <<rcv, refs, rpc>>
        BY <3>3 DEF raw_setsockopt, Replace, rxVars
      <4> QED
        BY <1>3, <4>1, <4>2
    <3>4. ASSUME raw_release(k) PROVE CountInv'
      BY <1>2, <1>3, <3>1, <3>4, ReleaseCounts
    <3> QED
      BY <2>1, <3>2, <3>3, <3>4 DEF RawCall
  <2>2. CASE RawEvent
    <3>1. PICK d \in Devs : raw_notifier(d)
      BY <2>2 DEF RawEvent
    <3>2. RegisteredInv'
      BY <1>2, <3>1, NotifierCounts
    <3>3. UNCHANGED <<rcv, refs, rpc>>
      BY <3>1 DEF raw_notifier, rxVars
    <3> QED
      BY <1>3, <3>2, <3>3
  <2> QED
    BY <1>6, <2>1, <2>2 DEF RawUsed
<1>7. CASE RawSends
  BY <1>4, <1>7 DEF RawSends, raw_sendmsg, rawVars
<1> QED
  BY <1>5, <1>6, <1>7

LEMMA CountStep ==
  ASSUME StackInv, CountInv, [Next]_vars
  PROVE  CountInv'
<1>1. CoreInv /\ RawCtl /\ GwInv /\ scene \in Scenes /\ RegisteredInv
  BY DEF StackInv, CountInv
<1>2. /\ Plain \in SUBSET Owners /\ Jobs \in SUBSET Owners /\ {RxOp} \in SUBSET Owners
      /\ Plain \cap Socks = {} /\ Jobs \cap Socks = {} /\ {RxOp} \cap Socks = {}
  BY CanRxAssumption, GwAssumption, BcmAssumption DEF Plain
<1>3. /\ refs \in [Socks -> Int] /\ BcmSock \in Socks /\ BcmSock \notin RawSocks
  BY BcmAssumption, StackAssumption DEF CountInv, HeldInv
<1>4. ASSUME UNCHANGED refs \/ refs' = sock_put(BcmSock)
      PROVE  refs' \in [Socks -> Int] /\ \A k \in RawSocks : refs'[k] = refs[k]
  BY <1>3, <1>4, NilFacts DEF sock_put
<1>5. ASSUME UNCHANGED <<rcv, refs, ro, rtnl, rpc>> PROVE CountInv'
  <2>1. OthersStay({}) /\ {} \in SUBSET Owners
    BY <1>5 DEF OthersStay
  <2> QED
    BY <1>1, <1>3, <1>5, <2>1, OthersHeld
<1>6. ASSUME NEW O \in SUBSET Owners, O \cap Socks = {}, ActsFor(O), CoreRest, UNCHANGED rawVars,
             UNCHANGED refs \/ refs' = sock_put(BcmSock)
      PROVE  CountInv'
  <2>1. OthersStay(O)
    BY <1>1, <1>6, ActsKeep
  <2>2. UNCHANGED <<ro, rtnl, rpc>>
    BY <1>6 DEF rawVars
  <2> QED
    BY <1>1, <1>4, <1>6, <2>1, <2>2, OthersHeld
<1>7. ASSUME NEW c \in Cpus, Receive(c) \/ Loopback(c) \/ Filter(c) PROVE CountInv'
  <2>1. UNCHANGED <<rcv, refs>>
    BY <1>7 DEF Receive, Loopback, netif_receive, Filter, can_rcv_filter
  <2>2. UNCHANGED <<ro, rtnl, rpc>>
    BY <1>7 DEF Receive, Loopback, Filter, NewFrame, rawVars
  <2> QED
    BY <1>5, <2>1, <2>2
<1>8. ASSUME NEW c \in Cpus, Unlock(c) PROVE CountInv'
  <2>1. rcu_read_unlock(c) /\ UNCHANGED <<ro, rtnl, rpc>>
    BY <1>8 DEF Unlock, OldFrame
  <2> QED
    BY <1>1, <2>1, UnlockCounts
<1>9. ASSUME Register \/ Unregister \/ \E c \in Cpus : Taken(c) PROVE CountInv'
  <2>1. ActsFor(Plain) /\ CoreRest /\ UNCHANGED refs
    BY <1>1, <1>9, PlainActs, OthersRefs
  <2>2. UNCHANGED rawVars
    BY <1>9 DEF Register, Unregister, Taken
  <2> QED
    BY <1>2, <1>6, <2>1, <2>2
<1>10. ASSUME GwUses \/ GwUsed PROVE CountInv'
  <2>1. ActsFor(Jobs) /\ CoreRest /\ UNCHANGED refs
    BY <1>1, <1>10, GwActs, OthersRefs
  <2>2. UNCHANGED rawVars
    BY <1>10 DEF GwUses, GwUsed
  <2> QED
    BY <1>2, <1>6, <2>1, <2>2
<1>11. ASSUME BcmUses \/ BcmUsed PROVE CountInv'
  <2>1. ActsFor({RxOp}) /\ CoreRest /\ (UNCHANGED refs \/ refs' = sock_put(BcmSock))
    BY <1>1, <1>11, BcmActs, OthersRefs
  <2>2. UNCHANGED rawVars
    BY <1>11 DEF BcmUses, BcmUsed
  <2> QED
    BY <1>2, <1>6, <2>1, <2>2
<1>12. CASE Over \/ UNCHANGED vars
  BY <1>5, <1>12 DEF Over, vars, rxVars, rawVars
<1>13. CASE RawUses \/ RawUsed \/ RawSends
  BY <1>1, <1>13, RawCountStep
<1> QED
  BY <1>7, <1>8, <1>9, <1>10, <1>11, <1>12, <1>13 DEF Next

LEMMA CountInit == Init => CountInv
<1> SUFFICES ASSUME Init PROVE CountInv
  OBVIOUS
<1>1. /\ rcv = [s \in Slots |-> Free] /\ refs = [k \in Socks |-> 1] /\ rtnl = NoCall
      /\ rpc = [k \in RawSocks |-> "open"] /\ RawCtl
  BY RawCtlInit DEF Init, RxInit, RawInit
<1>2. \A k \in RawSocks : ~ro[k].bound
  <2>1. PICK r \in scene.opts : ro = [k \in RawSocks |->
          [filter |-> r.filter, join |-> r.join, own |-> r.own, kinds |-> r.kinds,
           bound |-> FALSE, dev |-> NIL, err_mask |-> {}]]
    BY DEF Init, RawInit
  <2> QED
    BY <2>1
<1>3. On = {} /\ \A k : Leaving(k) = {}
  BY <1>1, FreeType DEF On, Leaving
<1>4. \A k, Y : Num(k, Y) = 0
  BY <1>3, FS_EmptySet DEF Num, Regs
<1>5. RegisteredInv
  <2>1. TaskInv
    BY <1>1, EmptySeq DEF TaskInv, RegsFirst, NoCall
  <2>2. \A k \in RawSocks : Counted(k)
    BY <1>1, <1>2, <1>4, NilFacts DEF Counted, Want, NoCall
  <2> QED
    BY <2>1, <2>2 DEF RegisteredInv
<1>6. HeldInv
  <2>1. \A s \in Slots : rcv[s].owner \notin Socks
    BY <1>1, FreeType, NilFacts
  <2>2. \A k \in RawSocks : Cardinality(Leaving(k)) = 0 /\ refs[k] = 1
    BY <1>1, <1>3, FS_EmptySet, NilFacts
  <2>3. refs \in [Socks -> Int]
    BY <1>1
  <2> QED
    BY <2>1, <2>2, <2>3 DEF HeldInv
<1> QED
  BY <1>5, <1>6 DEF CountInv

LEMMA CountInductive == Spec => [](StackInv /\ CountInv)
<1>1. Init => StackInv /\ CountInv
  BY StackInit, CountInit
<1>2. StackInv /\ CountInv /\ [Next]_vars => StackInv' /\ CountInv'
  BY StackStep, CountStep
<1> QED
  BY <1>1, <1>2, PTL DEF Spec

\* Between the calls a raw socket has as many receivers of each kind, or of several, as its fields
\* ask for, also after calls that failed half way: bind(), setsockopt(), the
\* notifier and raw_release() (raw.c) leave none behind and lose none.
THEOREM FiltersRegistered == Spec => [](rtnl = NoCall => \A k \in RawSocks : \A Y : Num(k, Y) = Want(ro[k], Y))
<1>1. CountInv => (rtnl = NoCall => \A k \in RawSocks : \A Y : Num(k, Y) = Want(ro[k], Y))
  BY NilFacts DEF CountInv, RegisteredInv, Counted, NoCall
<1> QED
  BY <1>1, CountInductive, PTL

\* No walk stands on freed memory, and raw_rcv() does not run for a socket that is
\* gone: can_rx_unregister() holds the socket for each receiver that a walk may
\* still reach, raw_release() leaves none registered.
THEOREM CallbacksAlive == Spec => []CallbackAlive
<1>1. ASSUME StackInv, CountInv PROVE CallbackAlive
  <2>1. CoreInv /\ RawCtl /\ RegisteredInv /\ HeldInv
    BY <1>1 DEF StackInv, CountInv
  <2>2. ASSUME NEW c \in Cpus, walk[c].at # NIL PROVE rcv[walk[c].at].state # "free"
    BY <2>1, <2>2 DEF CoreInv, WalkInv, WalkOK
  <2>3. ASSUME NEW c \in Cpus, Callee(c) \in Socks PROVE refs[Callee(c)] > 0
    <3> DEFINE s == walk[c].at
               k == Callee(c)
    <3>1. s \in Slots /\ rcv[s].owner = k /\ (rcv[s].state = "on" \/ rcv[s].state = "off")
      BY <2>1, <2>3, NilFacts, CalleeFacts
    <3>2. k \in RawSocks
      BY <2>1, <2>3, <3>1 DEF HeldInv
    <3>3. /\ refs[k] >= (IF rpc[k] = "gone" THEN 0 ELSE 1) + Cardinality(Leaving(k))
          /\ Cardinality(Leaving(k)) \in Nat /\ refs[k] \in Int
      BY <2>1, <2>3, <3>2, RegsFinite DEF HeldInv
    <3>4. CASE rcv[s].state = "off"
      <4>1. Leaving(k) # {} /\ IsFiniteSet(Leaving(k))
        BY <3>1, <3>4, RegsFinite DEF Leaving
      <4>2. Cardinality(Leaving(k)) # 0
        BY <4>1, FS_EmptySet
      <4> QED
        BY <3>3, <4>2
    <3>5. CASE rcv[s].state = "on"
      <4>1. s \in Regs(k, {KeyAt(s)}) /\ IsFiniteSet(Regs(k, {KeyAt(s)}))
        BY <3>1, <3>5, RegsFinite DEF Regs, On
      <4>2. Num(k, {KeyAt(s)}) # 0
        BY <4>1, FS_EmptySet DEF Num
      <4>3. rpc[k] # "gone"
        <5> SUFFICES ASSUME rpc[k] = "gone" PROVE FALSE
          OBVIOUS
        <5>1. ~ro[k].bound
          BY <2>1, <3>2 DEF RegisteredInv, TaskInv
        <5>2. rtnl.sk # k
          BY <2>1, <3>2, NilFacts DEF RawCtl, RawTypeOK, CallRec, CallInv, NotifyInv, NoCall
        <5>3. \A Y : Num(k, Y) = Want(ro[k], Y)
          BY <2>1, <3>2, <5>2 DEF RegisteredInv, Counted
        <5> QED
          BY <4>2, <5>1, <5>3 DEF Want
      <4> QED
        BY <3>3, <4>3
    <3> QED
      BY <3>1, <3>4, <3>5
  <2> QED
    BY <2>2, <2>3 DEF CallbackAlive
<1> QED
  BY <1>1, CountInductive, PTL
=============================================================================
