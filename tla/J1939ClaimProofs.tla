--------------------------- MODULE J1939ClaimProofs ---------------------------
(***************************************************************************)
(* Theorems about the ECUs and the address table of one j1939 device       *)
(* (J1939Claim), for any number of NAMEs, addresses and sockets.           *)
(*                                                                         *)
(* The critical sections of priv->lock are compositions of the operators   *)
(* of bus.c.  `Consistent' says what a value of priv must be for given     *)
(* numbers of holders and users; a lemma for each operator says how it     *)
(* changes these numbers, and the proof of a step composes them.           *)
(***************************************************************************)
EXTENDS J1939Claim, FiniteSetTheorems, TLAPS

EcuRec  == [st : {"none", "live", "dead"}, addr : Addrs \cup {J1939_IDLE_ADDR},
            refs : Int, nusers : Int]
EntRec  == [ecu : Names \cup {NoName}, nusers : Int]
PrivRec == [ecu : [Names -> EcuRec], ents : [Addrs -> EntRec]]
MsgRec  == [name : Names \cup {NoName}, sa : Addrs \cup {J1939_IDLE_ADDR, J1939_NO_ADDR}]
SockRec == [st : {"unbound", "binding", "bound", "closing", "closed"},
            name : Names \cup {NoName}, sa : Addrs \cup {J1939_NO_ADDR}]
FixRec  == [at : {"off", "check", "unmap", "put", "free"}, name : Names \cup {NoName},
            sa : Addrs \cup {J1939_NO_ADDR}]

IsMapped(p, n) == \E a \in Addrs : p.ents[a].ecu = n

\* An ECU with h holders besides the address table and u users.  Its last
\* reference put without the lock, it is in the list with none.
EcuFits(e, h, u, mapped, dying) ==
  /\ ~dying => (e.st = "live" /\ e.refs >= 1) \/ e = NoEcu
  /\ dying => e.st = "dead" /\ e.refs = 0
  /\ e.refs = h + (IF mapped THEN 1 ELSE 0)
  /\ e.nusers = u /\ u <= h

\* The values priv may have when ECU n has H[n] holders besides the address table
\* and U[n] users, V[a] sockets are bound to address a, and the ECUs of D are
\* leaving the list: who is at an address is alive and claims it, an ECU has a
\* reference per holder and goes with the last, an address counts its own users
\* and those of its ECU.
Consistent(p, H, U, V, D) ==
  /\ p \in PrivRec
  /\ \A a \in Addrs : LET n == p.ents[a].ecu IN
       n # NoName => p.ecu[n].st = "live" /\ p.ecu[n].addr = a
  /\ \A n \in Names : EcuFits(p.ecu[n], H[n], U[n], IsMapped(p, n), n \in D)
  /\ \A a \in Addrs : LET n == p.ents[a].ecu IN
       p.ents[a].nusers = V[a] + (IF n = NoName THEN 0 ELSE U[n])

Counts(H, U, V) == H \in [Names -> Nat] /\ U \in [Names -> Nat] /\ V \in [Addrs -> Nat]

Plus(F, x, d) == [F EXCEPT ![x] = @ + d]

-----------------------------------------------------------------------------
(* The operators of bus.c. *)

LEMMA Numbers ==
  /\ Names \subseteq Nat /\ NoName \notin Names /\ Addrs \subseteq Nat
  /\ J1939_IDLE_ADDR \notin Addrs /\ J1939_NO_ADDR \notin Addrs /\ NoName \in Nat
  /\ J1939_IDLE_ADDR # J1939_NO_ADDR
  BY ClaimAssumption DEF NoName, J1939_IDLE_ADDR, J1939_NO_ADDR, J1939_MAX_UNICAST_ADDR

\* Only the ECU of one NAME changes: its references still fit, and while it is
\* mapped it stays alive and where it is.
LEMMA EcuChange ==
  ASSUME NEW p, NEW H, NEW U, NEW V, NEW D, Counts(H, U, V), Consistent(p, H, U, V, D),
         NEW n \in Names, NEW e \in EcuRec, NEW h \in Nat, NEW q,
         q = [ecu |-> [p.ecu EXCEPT ![n] = e], ents |-> p.ents],
         NEW E, \A m \in Names : m # n => (m \in E <=> m \in D),
         EcuFits(e, h, U[n], IsMapped(p, n), n \in E),
         IsMapped(p, n) => e.st = "live" /\ e.addr = p.ecu[n].addr
  PROVE  Consistent(q, [H EXCEPT ![n] = h], U, V, E)
<1>1. /\ p \in PrivRec /\ q.ents = p.ents /\ q.ecu = [p.ecu EXCEPT ![n] = e]
      /\ p.ecu \in [Names -> EcuRec] /\ p.ents \in [Addrs -> EntRec]
  BY DEF Consistent, PrivRec
<1>2. q \in PrivRec
  BY <1>1 DEF PrivRec
<1>3. \A m \in Names : IsMapped(q, m) <=> IsMapped(p, m)
  BY <1>1 DEF IsMapped
<1>4. \A m \in Names : EcuFits(q.ecu[m], [H EXCEPT ![n] = h][m], U[m], IsMapped(q, m), m \in E)
  <2> SUFFICES ASSUME NEW m \in Names
               PROVE  EcuFits(q.ecu[m], [H EXCEPT ![n] = h][m], U[m], IsMapped(q, m), m \in E)
    OBVIOUS
  <2>1. CASE m = n
    BY <1>1, <1>3, <2>1 DEF Counts, EcuFits
  <2>2. CASE m # n
    <3>1. EcuFits(p.ecu[m], H[m], U[m], IsMapped(p, m), m \in D)
      BY DEF Consistent
    <3>2. q.ecu[m] = p.ecu[m] /\ [H EXCEPT ![n] = h][m] = H[m]
      BY <1>1, <2>2 DEF Counts
    <3>3. (m \in E <=> m \in D) /\ (IsMapped(q, m) <=> IsMapped(p, m))
      BY <1>3, <2>2
    <3> QED
      BY <3>1, <3>2, <3>3 DEF EcuFits
  <2> QED
    BY <2>1, <2>2
<1>5. ASSUME NEW a \in Addrs, q.ents[a].ecu # NoName
      PROVE  q.ecu[q.ents[a].ecu].st = "live" /\ q.ecu[q.ents[a].ecu].addr = a
  <2>1. q.ents[a].ecu \in Names /\ q.ents[a].ecu = p.ents[a].ecu
    BY <1>1, <1>5 DEF EntRec
  <2>2. p.ecu[q.ents[a].ecu].st = "live" /\ p.ecu[q.ents[a].ecu].addr = a
    BY <1>5, <2>1 DEF Consistent
  <2>3. q.ents[a].ecu = n => IsMapped(p, n)
    BY <2>1 DEF IsMapped
  <2> QED
    BY <1>1, <2>1, <2>2, <2>3
<1>6. \A a \in Addrs : LET k == q.ents[a].ecu IN
        q.ents[a].nusers = V[a] + (IF k = NoName THEN 0 ELSE U[k])
  BY <1>1 DEF Consistent
<1> QED
  BY <1>2, <1>4, <1>5, <1>6 DEF Consistent

\* What is known of one ECU.
LEMMA EcuKnown ==
  ASSUME NEW p, NEW H, NEW U, NEW V, NEW D, Counts(H, U, V), Consistent(p, H, U, V, D), NEW n \in Names
  PROVE  /\ p = [ecu |-> p.ecu, ents |-> p.ents] /\ p.ecu \in [Names -> EcuRec]
         /\ p.ecu[n] \in EcuRec /\ EcuFits(p.ecu[n], H[n], U[n], IsMapped(p, n), n \in D)
         /\ H[n] \in Nat /\ U[n] \in Nat
         /\ IsMapped(p, n) => p.ecu[n].st = "live" /\ p.ecu[n].addr \in Addrs
<1>1. p \in [ecu : [Names -> EcuRec], ents : [Addrs -> EntRec]]
  BY DEF Consistent, PrivRec
<1>2. p = [ecu |-> p.ecu, ents |-> p.ents] /\ p.ecu \in [Names -> EcuRec] /\ p.ecu[n] \in EcuRec
  BY <1>1
<1>3. EcuFits(p.ecu[n], H[n], U[n], IsMapped(p, n), n \in D) /\ H[n] \in Nat /\ U[n] \in Nat
  BY DEF Consistent, Counts
<1>4. ASSUME IsMapped(p, n) PROVE p.ecu[n].st = "live" /\ p.ecu[n].addr \in Addrs
  <2>1. PICK a \in Addrs : p.ents[a].ecu = n
    BY <1>4 DEF IsMapped
  <2>2. n # NoName
    BY Numbers
  <2> QED
    BY <2>1, <2>2 DEF Consistent
<1> QED
  BY <1>2, <1>3, <1>4

LEMMA GetKeeps ==
  ASSUME NEW p, NEW H, NEW U, NEW V, NEW D, Counts(H, U, V), Consistent(p, H, U, V, D),
         NEW n \in Names, p.ecu[n].st = "live"
  PROVE  Consistent(j1939_ecu_get(p, n), Plus(H, n, 1), U, V, D)
<1> DEFINE e == [p.ecu[n] EXCEPT !.refs = @ + 1]
<1>1. p.ecu[n] \in EcuRec /\ EcuFits(p.ecu[n], H[n], U[n], IsMapped(p, n), n \in D) /\ p.ecu[n].st = "live"
      /\ H[n] \in Nat /\ U[n] \in Nat
  BY EcuKnown DEF EcuFits, NoEcu
<1>2. e \in EcuRec /\ EcuFits(e, H[n] + 1, U[n], IsMapped(p, n), n \in D) /\ e.st = "live" /\ e.addr = p.ecu[n].addr
  BY <1>1 DEF EcuRec, EcuFits
<1>3. j1939_ecu_get(p, n) = [ecu |-> [p.ecu EXCEPT ![n] = e], ents |-> p.ents]
  BY EcuKnown DEF j1939_ecu_get
<1> HIDE DEF e
<1>4. Consistent(j1939_ecu_get(p, n), [H EXCEPT ![n] = H[n] + 1], U, V, D)
  BY <1>1, <1>2, <1>3, EcuChange
<1> QED
  BY <1>4 DEF Plus

LEMMA CreateKeeps ==
  ASSUME NEW p, NEW H, NEW U, NEW V, NEW D, Counts(H, U, V), Consistent(p, H, U, V, D),
         NEW n \in Names, ~Known(p, n)
  PROVE  Consistent(j1939_ecu_create(p, n), Plus(H, n, 1), U, V, D)
<1>1. PICK e : e = [NoEcu EXCEPT !.st = "live", !.refs = 1]
  OBVIOUS
<1>2. p.ecu[n] = NoEcu /\ H[n] \in Nat /\ U[n] \in Nat
      /\ EcuFits(p.ecu[n], H[n], U[n], IsMapped(p, n), n \in D) /\ ~IsMapped(p, n) /\ n \notin D
  BY EcuKnown DEF Known, EcuFits
<1>3. e.st = "live" /\ e.refs = 1 /\ e.nusers = 0 /\ e \in EcuRec
  <2>1. e = [st |-> "live", addr |-> J1939_IDLE_ADDR, refs |-> 1, nusers |-> 0]
    BY <1>1 DEF NoEcu
  <2> QED
    BY <2>1 DEF EcuRec
<1>4. NoEcu.refs = 0 /\ NoEcu.nusers = 0
  BY DEF NoEcu
<1>5. H[n] = 0 /\ U[n] = 0
  BY <1>2, <1>4 DEF EcuFits
<1>6. EcuFits(e, H[n] + 1, U[n], IsMapped(p, n), n \in D)
  BY <1>2, <1>3, <1>5 DEF EcuFits
<1>7. j1939_ecu_create(p, n) = [ecu |-> [p.ecu EXCEPT ![n] = e], ents |-> p.ents]
  <2>1. p = [ecu |-> p.ecu, ents |-> p.ents]
    BY EcuKnown
  <2>2. [p EXCEPT !.ecu[n] = e] = [ecu |-> [p.ecu EXCEPT ![n] = e], ents |-> p.ents]
    BY <2>1
  <2> QED
    BY <1>1, <2>2 DEF j1939_ecu_create
<1>8. Consistent(j1939_ecu_create(p, n), [H EXCEPT ![n] = H[n] + 1], U, V, D)
  BY <1>2, <1>3, <1>6, <1>7, EcuChange
<1> QED
  BY <1>8 DEF Plus

\* The last holder frees the ECU: nobody has it mapped then.
LEMMA PutKeeps ==
  ASSUME NEW p, NEW H, NEW U, NEW V, NEW D, Counts(H, U, V), Consistent(p, H, U, V, D),
         NEW n \in Names, U[n] < H[n]
  PROVE  Consistent(j1939_ecu_put(p, n), Plus(H, n, -1), U, V, D)
<1>1. PICK e : e = IF p.ecu[n].refs = 1 THEN NoEcu ELSE [p.ecu[n] EXCEPT !.refs = @ - 1]
  OBVIOUS
<1>2. /\ p = [ecu |-> p.ecu, ents |-> p.ents]
      /\ p.ecu[n] \in EcuRec /\ EcuFits(p.ecu[n], H[n], U[n], IsMapped(p, n), n \in D)
      /\ H[n] \in Nat /\ U[n] \in Nat /\ H[n] - 1 \in Nat
      /\ IsMapped(p, n) => p.ecu[n].st = "live"
  BY EcuKnown
<1> DEFINE Fits == /\ e \in EcuRec /\ EcuFits(e, H[n] - 1, U[n], IsMapped(p, n), n \in D)
                   /\ IsMapped(p, n) => e.st = "live" /\ e.addr = p.ecu[n].addr
<1>3. ASSUME p.ecu[n].refs = 1 PROVE Fits
  <2>1. e = NoEcu /\ e.refs = 0 /\ e.nusers = 0 /\ e \in EcuRec
    BY <1>1, <1>3 DEF NoEcu, EcuRec
  <2>2. ~IsMapped(p, n) /\ H[n] = 1 /\ U[n] = 0 /\ n \notin D
    BY <1>2, <1>3 DEF EcuFits
  <2> QED
    BY <2>1, <2>2 DEF EcuFits
<1>4. ASSUME p.ecu[n].refs # 1 PROVE Fits
  <2>1. /\ e.st = p.ecu[n].st /\ e.addr = p.ecu[n].addr /\ e.refs = p.ecu[n].refs - 1
        /\ e.nusers = p.ecu[n].nusers /\ e \in EcuRec /\ p.ecu[n].refs \in Int
    BY <1>1, <1>2, <1>4 DEF EcuRec
  <2>2. p.ecu[n].refs >= 2 /\ p.ecu[n].st = "live"
    BY <1>2, <1>4, <2>1 DEF EcuFits, NoEcu
  <2> QED
    BY <1>2, <2>1, <2>2 DEF EcuFits
<1>5. Fits
  BY <1>3, <1>4
<1>6. j1939_ecu_put(p, n) = [ecu |-> [p.ecu EXCEPT ![n] = e], ents |-> p.ents]
  BY <1>1, <1>2 DEF j1939_ecu_put
<1>7. Consistent(j1939_ecu_put(p, n), [H EXCEPT ![n] = H[n] - 1], U, V, D)
  BY <1>2, <1>5, <1>6, EcuChange
<1> QED
  BY <1>2, <1>7 DEF Plus

\* Without the lock the last holder leaves the ECU in the list ...
LEMMA UnlockedKeeps ==
  ASSUME NEW p, NEW H, NEW U, NEW V, NEW D, Counts(H, U, V), Consistent(p, H, U, V, D),
         NEW n \in Names, U[n] < H[n]
  PROVE  /\ n \notin D
         /\ p.ecu[n].refs = 1 => Consistent(Unlocked(p, n), Plus(H, n, -1), U, V, D \cup {n})
         /\ p.ecu[n].refs # 1 => Consistent(Unlocked(p, n), Plus(H, n, -1), U, V, D)
<1>1. PICK f : f = p.ecu[n]
  OBVIOUS
<1>2. /\ p = [ecu |-> p.ecu, ents |-> p.ents] /\ p.ecu \in [Names -> EcuRec]
      /\ f \in EcuRec /\ EcuFits(f, H[n], U[n], IsMapped(p, n), n \in D)
      /\ H[n] \in Nat /\ U[n] \in Nat /\ H[n] - 1 \in Nat /\ f.refs \in Int
  BY <1>1, EcuKnown DEF EcuRec
<1>3. n \notin D /\ f.st = "live" /\ f.refs >= 1
  BY <1>2 DEF EcuFits, NoEcu
<1>4. CASE f.refs = 1
  <2>1. PICK e : e = [f EXCEPT !.st = "dead", !.refs = 0]
    OBVIOUS
  <2>2. e.st = "dead" /\ e.addr = f.addr /\ e.refs = 0 /\ e.nusers = f.nusers /\ e \in EcuRec
    <3>1. f \in [st : {"none", "live", "dead"}, addr : Addrs \cup {J1939_IDLE_ADDR},
                 refs : Int, nusers : Int]
      BY <1>2 DEF EcuRec
    <3>2. e = [st |-> "dead", addr |-> f.addr, refs |-> 0, nusers |-> f.nusers]
      BY <2>1, <3>1
    <3> QED
      BY <3>1, <3>2 DEF EcuRec
  <2>3. Unlocked(p, n) = [ecu |-> [p.ecu EXCEPT ![n] = e], ents |-> p.ents]
    BY <1>1, <1>2, <1>4, <2>1 DEF Unlocked
  <2>4. ~IsMapped(p, n) /\ H[n] = 1 /\ U[n] = 0 /\ f.nusers = 0
    BY <1>2, <1>4 DEF EcuFits
  <2>5. EcuFits(e, H[n] - 1, U[n], IsMapped(p, n), n \in D \cup {n})
    BY <2>2, <2>4 DEF EcuFits
  <2>6. Consistent(Unlocked(p, n), [H EXCEPT ![n] = H[n] - 1], U, V, D \cup {n})
    <3>1. \A m \in Names : m # n => (m \in D \cup {n} <=> m \in D)
      OBVIOUS
    <3> QED
      BY <1>2, <2>2, <2>3, <2>4, <2>5, <3>1, EcuChange
  <2> QED
    BY <1>1, <1>2, <1>3, <1>4, <2>6 DEF Plus
<1>5. CASE f.refs # 1
  BY <1>1, <1>3, <1>5, PutKeeps DEF Unlocked
<1> QED
  BY <1>4, <1>5

\* ... and then takes it off.
LEMMA ReleaseKeeps ==
  ASSUME NEW p, NEW H, NEW U, NEW V, NEW D, Counts(H, U, V), Consistent(p, H, U, V, D),
         NEW n \in Names, n \in D
  PROVE  Consistent(__j1939_ecu_release(p, n), H, U, V, D \ {n})
<1>1. /\ p = [ecu |-> p.ecu, ents |-> p.ents] /\ H[n] \in Nat /\ U[n] \in Nat
      /\ EcuFits(p.ecu[n], H[n], U[n], IsMapped(p, n), TRUE)
  BY EcuKnown DEF EcuFits
<1>2. ~IsMapped(p, n) /\ H[n] = 0 /\ U[n] = 0
  BY <1>1 DEF EcuFits
<1>3. NoEcu \in EcuRec /\ NoEcu.refs = 0 /\ NoEcu.nusers = 0
  BY DEF NoEcu, EcuRec
<1>4. EcuFits(NoEcu, H[n], U[n], IsMapped(p, n), n \in D \ {n})
  BY <1>2, <1>3 DEF EcuFits
<1>5. __j1939_ecu_release(p, n) = [ecu |-> [p.ecu EXCEPT ![n] = NoEcu], ents |-> p.ents]
  BY <1>1 DEF __j1939_ecu_release
<1>6. \A m \in Names : m # n => (m \in D \ {n} <=> m \in D)
  OBVIOUS
<1>7. Consistent(__j1939_ecu_release(p, n), [H EXCEPT ![n] = H[n]], U, V, D \ {n})
  BY <1>1, <1>2, <1>3, <1>4, <1>5, <1>6, EcuChange
<1>8. [H EXCEPT ![n] = H[n]] = H
  BY DEF Counts
<1> QED
  BY <1>7, <1>8

\* Counting up and down again, and counting for nobody, changes nothing.
LEMMA PlusFacts ==
  ASSUME NEW S, NEW F \in [S -> Nat], NEW x, NEW d \in Int
  PROVE  /\ x \notin S => Plus(F, x, d) = F
         /\ x \in S /\ F[x] + d \in Nat => Plus(F, x, d) \in [S -> Nat]
         /\ x \in S => Plus(F, x, d)[x] = F[x] + d
         /\ \A y \in S : y # x => Plus(F, x, d)[y] = F[y]
         /\ x \in S => Plus(Plus(F, x, d), x, -d) = F
<1>1. x \notin S => Plus(F, x, d) = F
  BY DEF Plus
<1>2. ASSUME x \in S PROVE Plus(Plus(F, x, d), x, -d) = F
  <2>1. F[x] \in Nat /\ (F[x] + d) + (-d) = F[x]
    BY <1>2
  <2> QED
    BY <1>2, <2>1 DEF Plus
<1>3. x \in S => Plus(F, x, d)[x] = F[x] + d
  BY DEF Plus
<1>4. \A y \in S : y # x => Plus(F, x, d)[y] = F[y]
  BY DEF Plus
<1>5. x \in S /\ F[x] + d \in Nat => Plus(F, x, d) \in [S -> Nat]
  BY DEF Plus
<1> QED
  BY <1>1, <1>2, <1>3, <1>4, <1>5

\* is_mapped() looks at the address of the ECU only: it can be at no other.
LEMMA MappedThere ==
  ASSUME NEW p, NEW H, NEW U, NEW V, NEW D, Counts(H, U, V), Consistent(p, H, U, V, D), NEW n \in Names
  PROVE  /\ j1939_ecu_is_mapped(p, n) <=> IsMapped(p, n)
         /\ \A a \in Addrs : p.ents[a].ecu = n => p.ecu[n].addr = a
<1>1. \A a \in Addrs : p.ents[a].ecu = n => p.ecu[n].addr = a
  BY Numbers DEF Consistent
<1> QED
  BY <1>1 DEF j1939_ecu_is_mapped, IsMapped

LEMMA EntKnown ==
  ASSUME NEW p, NEW H, NEW U, NEW V, NEW D, Counts(H, U, V), Consistent(p, H, U, V, D), NEW a \in Addrs
  PROVE  /\ p.ents \in [Addrs -> EntRec] /\ p.ents[a] \in EntRec
         /\ p.ents[a].ecu \in Names \cup {NoName}
         /\ V[a] \in Nat
         /\ p.ents[a].ecu = NoName => p.ents[a].nusers = V[a]
         /\ p.ents[a].ecu # NoName => p.ents[a].nusers = V[a] + U[p.ents[a].ecu]
<1>1. p.ents \in [Addrs -> EntRec] /\ p.ents[a] \in EntRec
  BY DEF Consistent, PrivRec
<1>2. p.ents[a].ecu \in Names \cup {NoName}
  BY <1>1 DEF EntRec
<1> QED
  BY <1>1, <1>2 DEF Consistent, Counts

\* ECU n loses its address, the reference for it remains to be put.
LEMMA VacateKeeps ==
  ASSUME NEW p, NEW H, NEW U, NEW V, NEW D, Counts(H, U, V), Consistent(p, H, U, V, D),
         NEW n \in Names, NEW a \in Addrs, p.ents[a].ecu = n, NEW q,
         q = [ecu |-> p.ecu,
              ents |-> [p.ents EXCEPT ![a] = [ecu |-> NoName, nusers |-> V[a]]]]
  PROVE  Consistent(q, Plus(H, n, 1), U, V, D) /\ ~IsMapped(q, n)
<1>1. p.ecu \in [Names -> EcuRec] /\ p.ents \in [Addrs -> EntRec] /\ V[a] \in Nat
  BY EcuKnown, EntKnown
<1>2. /\ q.ecu = p.ecu /\ q \in PrivRec
      /\ q.ents[a] = [ecu |-> NoName, nusers |-> V[a]]
      /\ \A b \in Addrs : b # a => q.ents[b] = p.ents[b]
  <2>1. [ecu |-> NoName, nusers |-> V[a]] \in EntRec
    BY <1>1 DEF EntRec
  <2> QED
    BY <1>1, <2>1 DEF PrivRec
<1>3. ~IsMapped(q, n)
  BY <1>2, MappedThere, Numbers DEF IsMapped
<1>4. \A m \in Names : m # n => (IsMapped(q, m) <=> IsMapped(p, m))
  <2> SUFFICES ASSUME NEW m \in Names, m # n
               PROVE  \A b \in Addrs : q.ents[b].ecu = m <=> p.ents[b].ecu = m
    BY DEF IsMapped
  <2>1. q.ents[a].ecu # m /\ p.ents[a].ecu # m
    BY <1>2, Numbers
  <2> QED
    BY <1>2, <2>1
<1>5. IsMapped(p, n)
  BY DEF IsMapped
<1>6. \A b \in Addrs : LET k == q.ents[b].ecu IN
        k # NoName => q.ecu[k].st = "live" /\ q.ecu[k].addr = b
  BY <1>2 DEF Consistent
<1>7. \A b \in Addrs : LET k == q.ents[b].ecu IN
        q.ents[b].nusers = V[b] + (IF k = NoName THEN 0 ELSE U[k])
  <2> SUFFICES ASSUME NEW b \in Addrs
               PROVE  LET k == q.ents[b].ecu IN
                        q.ents[b].nusers = V[b] + (IF k = NoName THEN 0 ELSE U[k])
    OBVIOUS
  <2>1. CASE b = a
    BY <1>1, <1>2, <2>1
  <2>2. CASE b # a
    BY <1>2, <2>2 DEF Consistent
  <2> QED
    BY <2>1, <2>2
<1>8. \A m \in Names : EcuFits(q.ecu[m], Plus(H, n, 1)[m], U[m], IsMapped(q, m), m \in D)
  <2> SUFFICES ASSUME NEW m \in Names
               PROVE  EcuFits(q.ecu[m], Plus(H, n, 1)[m], U[m], IsMapped(q, m), m \in D)
    OBVIOUS
  <2>1. H \in [Names -> Nat] /\ U[m] \in Nat /\ H[m] \in Nat
    BY DEF Counts
  <2>2. EcuFits(p.ecu[m], H[m], U[m], IsMapped(p, m), m \in D)
    BY EcuKnown
  <2>3. CASE m = n
    <3>1. Plus(H, n, 1)[m] = H[m] + 1
      BY <2>1, <2>3, PlusFacts
    <3> QED
      BY <1>2, <1>3, <1>5, <2>1, <2>2, <2>3, <3>1 DEF EcuFits
  <2>4. CASE m # n
    <3>1. Plus(H, n, 1)[m] = H[m]
      BY <2>1, <2>4, PlusFacts
    <3> QED
      BY <1>2, <1>4, <2>2, <2>4, <3>1 DEF EcuFits
  <2> QED
    BY <2>3, <2>4
<1> QED
  BY <1>2, <1>3, <1>6, <1>7, <1>8 DEF Consistent

\* ECU n gets the address it claims, and the table a reference a holder gives.
LEMMA OccupyKeeps ==
  ASSUME NEW p, NEW H, NEW U, NEW V, NEW D, Counts(H, U, V), Consistent(p, H, U, V, D),
         NEW n \in Names, NEW a \in Addrs, p.ents[a].ecu = NoName,
         p.ecu[n].addr = a, U[n] < H[n], NEW q,
         q = [ecu |-> p.ecu,
              ents |-> [p.ents EXCEPT ![a] = [ecu |-> n, nusers |-> V[a] + U[n]]]]
  PROVE  Consistent(q, Plus(H, n, -1), U, V, D)
<1>1. /\ p.ecu \in [Names -> EcuRec] /\ p.ents \in [Addrs -> EntRec] /\ V[a] \in Nat
      /\ U[n] \in Nat /\ H[n] \in Nat /\ H[n] + (-1) = H[n] - 1 /\ H[n] - 1 \in Nat
  <2>1. p.ecu \in [Names -> EcuRec] /\ p.ents \in [Addrs -> EntRec] /\ V[a] \in Nat
    BY EcuKnown, EntKnown
  <2>2. U[n] \in Nat /\ H[n] \in Nat
    BY DEF Counts
  <2> QED
    BY <2>1, <2>2
<1>2. /\ q.ecu = p.ecu /\ q \in PrivRec
      /\ q.ents[a] = [ecu |-> n, nusers |-> V[a] + U[n]]
      /\ \A b \in Addrs : b # a => q.ents[b] = p.ents[b]
  <2>1. [ecu |-> n, nusers |-> V[a] + U[n]] \in EntRec
    BY <1>1 DEF EntRec
  <2> QED
    BY <1>1, <2>1 DEF PrivRec
<1>3. ~IsMapped(p, n)
  BY MappedThere, Numbers DEF IsMapped
<1>4. p.ecu[n].st = "live"
  <2>1. EcuFits(p.ecu[n], H[n], U[n], FALSE, n \in D)
    BY <1>3, EcuKnown DEF EcuFits
  <2> QED
    BY <1>1, <2>1 DEF EcuFits, NoEcu
<1>5. IsMapped(q, n) /\ \A m \in Names : m # n => (IsMapped(q, m) <=> IsMapped(p, m))
  <2>1. IsMapped(q, n)
    BY <1>2 DEF IsMapped
  <2>2. ASSUME NEW m \in Names, m # n, NEW b \in Addrs PROVE q.ents[b].ecu = m <=> p.ents[b].ecu = m
    <3>1. m # NoName
      BY Numbers
    <3> QED
      BY <1>2, <2>2, <3>1
  <2> QED
    BY <2>1, <2>2 DEF IsMapped
<1>6. \A b \in Addrs : LET k == q.ents[b].ecu IN
        k # NoName => q.ecu[k].st = "live" /\ q.ecu[k].addr = b
  BY <1>2, <1>4 DEF Consistent
<1>7. \A b \in Addrs : LET k == q.ents[b].ecu IN
        q.ents[b].nusers = V[b] + (IF k = NoName THEN 0 ELSE U[k])
  <2> SUFFICES ASSUME NEW b \in Addrs
               PROVE  LET k == q.ents[b].ecu IN
                        q.ents[b].nusers = V[b] + (IF k = NoName THEN 0 ELSE U[k])
    OBVIOUS
  <2>1. CASE b = a
    BY <1>1, <1>2, <2>1, Numbers
  <2>2. CASE b # a
    BY <1>2, <2>2 DEF Consistent
  <2> QED
    BY <2>1, <2>2
<1>8. \A m \in Names : EcuFits(q.ecu[m], Plus(H, n, -1)[m], U[m], IsMapped(q, m), m \in D)
  <2> SUFFICES ASSUME NEW m \in Names
               PROVE  EcuFits(q.ecu[m], Plus(H, n, -1)[m], U[m], IsMapped(q, m), m \in D)
    OBVIOUS
  <2>1. H \in [Names -> Nat] /\ U[m] \in Nat /\ H[m] \in Nat
    BY DEF Counts
  <2>2. EcuFits(p.ecu[m], H[m], U[m], IsMapped(p, m), m \in D)
    BY EcuKnown
  <2>3. CASE m = n
    <3>1. Plus(H, n, -1)[m] = H[m] - 1
      BY <1>1, <2>1, <2>3, PlusFacts
    <3> QED
      BY <1>1, <1>2, <1>3, <1>4, <1>5, <2>1, <2>2, <2>3, <3>1 DEF EcuFits
  <2>4. CASE m # n
    <3>1. Plus(H, n, -1)[m] = H[m]
      BY <2>1, <2>4, PlusFacts
    <3> QED
      BY <1>2, <1>5, <2>2, <2>4, <3>1 DEF EcuFits
  <2> QED
    BY <2>3, <2>4
<1> QED
  BY <1>2, <1>6, <1>7, <1>8 DEF Consistent

\* Putting touches one ECU only.
LEMMA PutOnly ==
  ASSUME NEW p, p \in PrivRec, NEW n \in Names
  PROVE  /\ j1939_ecu_put(p, n).ents = p.ents
         /\ \A m \in Names : m # n => j1939_ecu_put(p, n).ecu[m] = p.ecu[m]
  BY DEF j1939_ecu_put, PrivRec

LEMMA MapKeeps ==
  ASSUME NEW p, NEW H, NEW U, NEW V, NEW D, Counts(H, U, V), Consistent(p, H, U, V, D),
         NEW n \in Names, U[n] < H[n]
  PROVE  Consistent(j1939_ecu_map(p, n), H, U, V, D)
<1> DEFINE a == p.ecu[n].addr
<1>1. CASE ~(a \in Addrs /\ p.ents[a].ecu = NoName)
  BY <1>1 DEF j1939_ecu_map
<1>2. CASE a \in Addrs /\ p.ents[a].ecu = NoName
  <2>1. PICK q : q = [p EXCEPT !.ents[a] = [ecu |-> n, nusers |-> @.nusers + p.ecu[n].nusers]]
    OBVIOUS
  <2>2. p.ents[a].nusers = V[a] /\ p.ecu[n].nusers = U[n] /\ p = [ecu |-> p.ecu, ents |-> p.ents]
    BY <1>2, EntKnown, EcuKnown DEF EcuFits
  <2>3. q = [ecu |-> p.ecu, ents |-> [p.ents EXCEPT ![a] = [ecu |-> n, nusers |-> V[a] + U[n]]]]
    BY <2>1, <2>2
  <2> HIDE DEF a
  <2>4. Consistent(q, Plus(H, n, -1), U, V, D)
    BY <1>2, <2>3, OccupyKeeps DEF a
  <2>5. /\ Counts(Plus(H, n, -1), U, V) /\ Plus(Plus(H, n, -1), n, 1) = H
        /\ Plus(H, n, -1)[n] \in Nat
    <3>0. H \in [Names -> Nat] /\ U[n] \in Nat /\ H[n] \in Nat
      BY DEF Counts
    <3>1. H[n] + (-1) \in Nat /\ (H[n] + (-1)) + 1 = H[n]
      BY <3>0
    <3>2. Plus(H, n, -1) \in [Names -> Nat]
      BY <3>0, <3>1, PlusFacts
    <3>3. Plus(Plus(H, n, -1), n, 1) = H
      BY <3>0, <3>1 DEF Plus
    <3> QED
      BY <3>0, <3>1, <3>2, <3>3 DEF Counts
  <2>6. q.ecu[n].st = "live"
    <3>1. EcuFits(p.ecu[n], H[n], U[n], IsMapped(p, n), n \in D) /\ H[n] \in Nat /\ U[n] \in Nat
      BY EcuKnown
    <3>2. p.ecu[n].st = "live"
      BY <3>1 DEF EcuFits, NoEcu
    <3> QED
      BY <2>3, <3>2
  <2>7. j1939_ecu_map(p, n) = j1939_ecu_get(q, n)
    BY <1>2, <2>1 DEF j1939_ecu_map, a
  <2> QED
    BY <2>4, <2>5, <2>6, <2>7, GetKeeps
<1> QED
  BY <1>1, <1>2

LEMMA UnmapKeeps ==
  ASSUME NEW p, NEW H, NEW U, NEW V, NEW D, Counts(H, U, V), Consistent(p, H, U, V, D), NEW n \in Names
  PROVE  /\ Consistent(j1939_ecu_unmap(p, n), H, U, V, D) /\ ~IsMapped(j1939_ecu_unmap(p, n), n)
         /\ \A b \in Addrs : j1939_ecu_unmap(p, n).ents[b].ecu
                               = IF p.ents[b].ecu = n THEN NoName ELSE p.ents[b].ecu
<1> DEFINE a == p.ecu[n].addr
<1>1. CASE ~j1939_ecu_is_mapped(p, n)
  <2>1. j1939_ecu_unmap(p, n) = p /\ ~IsMapped(p, n)
    BY <1>1, MappedThere DEF j1939_ecu_unmap
  <2> QED
    BY <2>1 DEF IsMapped
<1>2. CASE j1939_ecu_is_mapped(p, n)
  <2>1. PICK q : q = [p EXCEPT !.ents[a] = [ecu |-> NoName, nusers |-> @.nusers - p.ecu[n].nusers]]
    OBVIOUS
  <2>2. a \in Addrs /\ p.ents[a].ecu = n
    BY <1>2 DEF j1939_ecu_is_mapped
  <2>3. /\ p.ents[a].nusers = V[a] + U[n] /\ V[a] \in Nat /\ U[n] \in Nat
        /\ p.ecu[n].nusers = U[n] /\ p = [ecu |-> p.ecu, ents |-> p.ents]
    BY <2>2, EntKnown, EcuKnown, Numbers DEF EcuFits
  <2>4. q = [ecu |-> p.ecu, ents |-> [p.ents EXCEPT ![a] = [ecu |-> NoName, nusers |-> V[a]]]]
    BY <2>1, <2>3
  <2> HIDE DEF a
  <2>5. Consistent(q, Plus(H, n, 1), U, V, D) /\ ~IsMapped(q, n)
    BY <2>2, <2>4, VacateKeeps
  <2>6. /\ Counts(Plus(H, n, 1), U, V) /\ Plus(Plus(H, n, 1), n, -1) = H
        /\ U[n] < Plus(H, n, 1)[n]
    <3>1. H \in [Names -> Nat] /\ U[n] \in Nat /\ H[n] \in Nat /\ U[n] <= H[n]
      BY EcuKnown DEF Counts, EcuFits
    <3>2. Plus(H, n, 1) \in [Names -> Nat] /\ Plus(H, n, 1)[n] = H[n] + 1
      BY <3>1, PlusFacts
    <3>3. Plus(Plus(H, n, 1), n, -1) = H
      BY <3>1, PlusFacts
    <3> QED
      BY <3>1, <3>2, <3>3 DEF Counts
  <2>7. j1939_ecu_unmap(p, n) = j1939_ecu_put(q, n)
    BY <1>2, <2>1 DEF j1939_ecu_unmap, a
  <2>8. j1939_ecu_unmap(p, n).ents = q.ents
    <3>1. q \in PrivRec
      BY <2>5 DEF Consistent
    <3> QED
      BY <2>7, <3>1, PutOnly
  <2>9. ~IsMapped(j1939_ecu_unmap(p, n), n)
    BY <2>5, <2>8 DEF IsMapped
  <2>10. \A b \in Addrs : q.ents[b].ecu = IF p.ents[b].ecu = n THEN NoName ELSE p.ents[b].ecu
    <3>1. p.ents \in [Addrs -> EntRec]
      BY <2>2, EntKnown
    <3>2. \A b \in Addrs : p.ents[b].ecu = n => a = b
      BY MappedThere DEF a
    <3> QED
      BY <2>2, <2>4, <3>1, <3>2
  <2> QED
    BY <2>5, <2>6, <2>7, <2>8, <2>9, <2>10, PutKeeps
<1> QED
  BY <1>1, <1>2

LEMMA UnmapAllKeeps ==
  ASSUME NEW p, NEW H, NEW U, NEW V, NEW D, Counts(H, U, V), Consistent(p, H, U, V, D)
  PROVE  Consistent(j1939_ecu_unmap_all(p), H, U, V, D)
<1>1. PICK q : q = j1939_ecu_unmap_all(p)
  OBVIOUS
<1>2. ASSUME NEW n \in Names
      PROVE  /\ q.ecu[n] = j1939_ecu_unmap(p, n).ecu[n] /\ q.ecu[n] \in EcuRec
             /\ EcuFits(q.ecu[n], H[n], U[n], FALSE, n \in D)
  <2>1. /\ Consistent(j1939_ecu_unmap(p, n), H, U, V, D) /\ ~IsMapped(j1939_ecu_unmap(p, n), n)
    BY UnmapKeeps
  <2>2. q.ecu[n] = j1939_ecu_unmap(p, n).ecu[n]
    BY <1>1 DEF j1939_ecu_unmap_all
  <2>3. j1939_ecu_unmap(p, n).ecu[n] \in EcuRec
    BY <2>1, EcuKnown
  <2>4. EcuFits(j1939_ecu_unmap(p, n).ecu[n], H[n], U[n], FALSE, n \in D)
    BY <2>1, EcuKnown DEF EcuFits
  <2> QED
    BY <2>2, <2>3, <2>4
<1>3. ASSUME NEW a \in Addrs
      PROVE  q.ents[a] \in EntRec /\ q.ents[a].ecu = NoName /\ q.ents[a].nusers = V[a]
  <2>1. p.ents[a] \in EntRec /\ p.ents[a].ecu \in Names \cup {NoName}
    BY EntKnown
  <2>2. CASE p.ents[a].ecu = NoName
    <3>1. q.ents[a] = p.ents[a]
      BY <1>1, <2>2 DEF j1939_ecu_unmap_all
    <3> QED
      BY <2>1, <2>2, <3>1, EntKnown
  <2>3. CASE p.ents[a].ecu # NoName
    <3>1. PICK n \in Names : p.ents[a].ecu = n
      BY <2>1, <2>3
    <3>2. q.ents[a] = j1939_ecu_unmap(p, n).ents[a]
      BY <1>1, <2>3, <3>1 DEF j1939_ecu_unmap_all
    <3>3. /\ Consistent(j1939_ecu_unmap(p, n), H, U, V, D)
          /\ j1939_ecu_unmap(p, n).ents[a].ecu = NoName
      BY <3>1, UnmapKeeps
    <3> QED
      BY <3>2, <3>3, EntKnown
  <2> QED
    BY <2>2, <2>3
<1>4. q \in PrivRec
  <2>1. /\ q.ecu = [n \in Names |-> j1939_ecu_unmap(p, n).ecu[n]]
        /\ q.ents = [a \in Addrs |-> IF p.ents[a].ecu = NoName THEN p.ents[a]
                             ELSE j1939_ecu_unmap(p, p.ents[a].ecu).ents[a]]
        /\ q = [ecu |-> q.ecu, ents |-> q.ents]
    BY <1>1 DEF j1939_ecu_unmap_all
  <2>2. q.ecu \in [Names -> EcuRec]
    BY <1>2, <2>1
  <2>3. q.ents \in [Addrs -> EntRec]
    BY <1>3, <2>1
  <2> QED
    BY <2>1, <2>2, <2>3 DEF PrivRec
<1>5. \A n \in Names : ~IsMapped(q, n)
  BY <1>3, Numbers DEF IsMapped
<1>6. \A n \in Names : EcuFits(q.ecu[n], H[n], U[n], IsMapped(q, n), n \in D)
  BY <1>2, <1>5 DEF EcuFits
<1>7. \A a \in Addrs : LET k == q.ents[a].ecu IN
        q.ents[a].nusers = V[a] + (IF k = NoName THEN 0 ELSE U[k])
  BY <1>3 DEF Counts
<1>8. Consistent(q, H, U, V, D)
  BY <1>3, <1>4, <1>6, <1>7 DEF Consistent
<1> QED
  BY <1>1, <1>8

\* A socket more or less at address sa: J1939_NO_ADDR counts nowhere.
LEMMA CountUserKeeps ==
  ASSUME NEW p, NEW H, NEW U, NEW V, NEW D, Counts(H, U, V), Consistent(p, H, U, V, D),
         NEW sa, NEW d \in Int, sa \in Addrs => V[sa] + d \in Nat
  PROVE  /\ Counts(H, U, Plus(V, sa, d))
         /\ Consistent(CountUser(p, sa, d), H, U, Plus(V, sa, d), D)
<1>1. CASE sa \notin Addrs
  <2>1. Plus(V, sa, d) = V
    BY <1>1, PlusFacts DEF Counts
  <2> QED
    BY <1>1, <2>1 DEF CountUser
<1>2. CASE sa \in Addrs
  <2>1. Plus(V, sa, d) \in [Addrs -> Nat]
    BY <1>2, PlusFacts DEF Counts
  <2>2. PICK q : q = CountUser(p, sa, d)
    OBVIOUS
  <2>3. p.ents \in [Addrs -> EntRec] /\ p.ecu \in [Names -> EcuRec]
        /\ p = [ecu |-> p.ecu, ents |-> p.ents]
    <3>1. p \in [ecu : [Names -> EcuRec], ents : [Addrs -> EntRec]]
      BY DEF Consistent, PrivRec
    <3> QED
      BY <3>1
  <2>4. PICK x : x = [ecu |-> p.ents[sa].ecu, nusers |-> p.ents[sa].nusers + d]
    OBVIOUS
  <2>5. x \in EntRec /\ x.ecu = p.ents[sa].ecu /\ x.nusers = p.ents[sa].nusers + d
    BY <1>2, <2>3, <2>4 DEF EntRec
  <2>6. q = [ecu |-> p.ecu, ents |-> [p.ents EXCEPT ![sa] = x]]
    <3>1. [p.ents[sa] EXCEPT !.nusers = @ + d] = x
      BY <1>2, <2>3, <2>4 DEF EntRec
    <3>2. q = [p EXCEPT !.ents[sa] = [p.ents[sa] EXCEPT !.nusers = @ + d]]
      BY <1>2, <2>2 DEF CountUser
    <3> QED
      BY <2>3, <3>1, <3>2
  <2>7. q \in PrivRec /\ q.ecu = p.ecu /\ \A a \in Addrs : q.ents[a].ecu = p.ents[a].ecu
    BY <1>2, <2>3, <2>5, <2>6 DEF PrivRec
  <2>8. \A m \in Names : EcuFits(q.ecu[m], H[m], U[m], IsMapped(q, m), m \in D)
    BY <2>7 DEF IsMapped, Consistent, EcuFits
  <2>9. \A a \in Addrs : LET k == q.ents[a].ecu IN
          q.ents[a].nusers = Plus(V, sa, d)[a] + (IF k = NoName THEN 0 ELSE U[k])
    <3> SUFFICES ASSUME NEW a \in Addrs
                 PROVE  LET k == q.ents[a].ecu IN
                          q.ents[a].nusers = Plus(V, sa, d)[a] + (IF k = NoName THEN 0 ELSE U[k])
      OBVIOUS
    <3>1. /\ p.ents[a].ecu \in Names \cup {NoName} /\ V \in [Addrs -> Nat] /\ V[a] \in Nat
          /\ p.ents[a].ecu = NoName => p.ents[a].nusers = V[a]
          /\ p.ents[a].ecu # NoName => /\ p.ents[a].nusers = V[a] + U[p.ents[a].ecu]
                                       /\ U[p.ents[a].ecu] \in Nat
      BY EntKnown DEF Counts
    <3>2. CASE a = sa
      <4>1. Plus(V, sa, d)[a] = V[a] + d /\ q.ents[a].nusers = p.ents[a].nusers + d
        BY <1>2, <2>3, <2>5, <2>6, <3>1, <3>2, PlusFacts
      <4>2. CASE p.ents[a].ecu = NoName
        BY <2>7, <3>1, <4>1, <4>2
      <4>3. CASE p.ents[a].ecu # NoName
        BY <2>7, <3>1, <4>1, <4>3
      <4> QED
        BY <4>2, <4>3
    <3>3. CASE a # sa
      <4>1. Plus(V, sa, d)[a] = V[a] /\ q.ents[a] = p.ents[a]
        BY <2>3, <2>6, <3>1, <3>3, PlusFacts
      <4> QED
        BY <3>1, <4>1
    <3> QED
      BY <3>2, <3>3
  <2>10. \A a \in Addrs : LET k == q.ents[a].ecu IN
           k # NoName => q.ecu[k].st = "live" /\ q.ecu[k].addr = a
    BY <2>7 DEF Consistent
  <2>11. Consistent(q, H, U, Plus(V, sa, d), D)
    BY <2>7, <2>8, <2>9, <2>10 DEF Consistent
  <2> QED
    BY <2>1, <2>2, <2>11 DEF Counts
<1> QED
  BY <1>1, <1>2

\* A user more or less of ECU n, who holds a reference, counts at its address too.
LEMMA CountEcuUserKeeps ==
  ASSUME NEW p, NEW H, NEW U, NEW V, NEW D, Counts(H, U, V), Consistent(p, H, U, V, D),
         NEW n \in Names, NEW d \in Int, U[n] + d \in Nat, U[n] + d <= H[n], 0 < H[n]
  PROVE  /\ Counts(H, Plus(U, n, d), V)
         /\ Consistent(CountEcuUser(p, n, d), H, Plus(U, n, d), V, D)
<1>1. /\ p = [ecu |-> p.ecu, ents |-> p.ents] /\ p.ents \in [Addrs -> EntRec]
      /\ p.ecu \in [Names -> EcuRec] /\ p \in PrivRec
      /\ p.ecu[n] \in EcuRec /\ EcuFits(p.ecu[n], H[n], U[n], IsMapped(p, n), n \in D)
      /\ H[n] \in Nat /\ U[n] \in Nat /\ U \in [Names -> Nat]
  <2>1. p \in PrivRec /\ U \in [Names -> Nat] /\ p.ents \in [Addrs -> EntRec]
    BY DEF Consistent, Counts, PrivRec
  <2> QED
    BY <2>1, EcuKnown
<1>2. p.ecu[n].st = "live" /\ p.ecu[n].nusers = U[n]
  BY <1>1 DEF EcuFits, NoEcu
<1>3. Plus(U, n, d) \in [Names -> Nat] /\ Plus(U, n, d)[n] = U[n] + d
      /\ \A m \in Names : m # n => Plus(U, n, d)[m] = U[m]
  BY <1>1, PlusFacts
<1>4. PICK e : e = [p.ecu[n] EXCEPT !.nusers = @ + d]
  OBVIOUS
<1>5. /\ e \in EcuRec /\ e.st = "live" /\ e.addr = p.ecu[n].addr /\ e.refs = p.ecu[n].refs
      /\ e.nusers = U[n] + d
  BY <1>1, <1>2, <1>4 DEF EcuRec
<1>6. PICK r : r = [ecu |-> [p.ecu EXCEPT ![n] = e], ents |-> p.ents]
  OBVIOUS
<1>7. [p EXCEPT !.ecu[n].nusers = @ + d] = r
  BY <1>1, <1>4, <1>6
<1>8. r \in PrivRec /\ r.ents = p.ents /\ r.ecu[n] = e /\ \A m \in Names : m # n => r.ecu[m] = p.ecu[m]
  BY <1>1, <1>5, <1>6 DEF PrivRec
<1> DEFINE a == IF j1939_ecu_is_mapped(p, n) THEN p.ecu[n].addr ELSE J1939_NO_ADDR
<1>9. PICK q : q = CountUser(r, a, d)
  OBVIOUS
<1>10. q = CountEcuUser(p, n, d)
  BY <1>7, <1>9 DEF CountEcuUser
<1>11. /\ q \in PrivRec /\ q.ecu = r.ecu /\ (\A b \in Addrs : q.ents[b].ecu = p.ents[b].ecu)
       /\ \A b \in Addrs : q.ents[b].nusers = p.ents[b].nusers + (IF b = a THEN d ELSE 0)
  <2> HIDE DEF a
  <2>1. CASE a \notin Addrs
    <3>1. q = r
      BY <1>9, <2>1 DEF CountUser
    <3>2. \A b \in Addrs : p.ents[b].nusers \in Int
      BY <1>1 DEF EntRec
    <3> QED
      BY <1>8, <2>1, <3>1, <3>2
  <2>2. CASE a \in Addrs
    <3>1. PICK x : x = [ecu |-> p.ents[a].ecu, nusers |-> p.ents[a].nusers + d]
      OBVIOUS
    <3>2. x \in EntRec /\ x.ecu = p.ents[a].ecu /\ x.nusers = p.ents[a].nusers + d
      BY <1>1, <2>2, <3>1 DEF EntRec
    <3>3. q = [ecu |-> r.ecu, ents |-> [p.ents EXCEPT ![a] = x]]
      <4>1. [r.ents[a] EXCEPT !.nusers = @ + d] = x
        BY <1>1, <1>8, <2>2, <3>1 DEF EntRec
      <4>2. q = [r EXCEPT !.ents[a] = [r.ents[a] EXCEPT !.nusers = @ + d]]
        BY <1>9, <2>2 DEF CountUser
      <4> QED
        BY <1>6, <1>8, <4>1, <4>2
    <3>4. \A b \in Addrs : p.ents[b].nusers \in Int
      BY <1>1 DEF EntRec
    <3>5. q \in PrivRec /\ q.ecu = r.ecu
      BY <1>1, <1>8, <3>2, <3>3 DEF PrivRec
    <3> QED
      BY <1>1, <2>2, <3>2, <3>3, <3>4, <3>5
  <2> QED
    BY <2>1, <2>2
<1>12. \A b \in Addrs : p.ents[b].ecu = n <=> b = a
  BY MappedThere, Numbers DEF j1939_ecu_is_mapped
<1> HIDE DEF a
<1>13. \A m \in Names : IsMapped(q, m) <=> IsMapped(p, m)
  BY <1>11 DEF IsMapped
<1>14. \A m \in Names : EcuFits(q.ecu[m], H[m], Plus(U, n, d)[m], IsMapped(q, m), m \in D)
  <2> SUFFICES ASSUME NEW m \in Names
               PROVE  EcuFits(q.ecu[m], H[m], Plus(U, n, d)[m], IsMapped(q, m), m \in D)
    OBVIOUS
  <2>1. CASE m = n
    BY <1>1, <1>2, <1>3, <1>5, <1>8, <1>11, <1>13, <2>1 DEF EcuFits, NoEcu
  <2>2. CASE m # n
    <3>1. EcuFits(p.ecu[m], H[m], U[m], IsMapped(p, m), m \in D)
      BY EcuKnown
    <3> QED
      BY <1>3, <1>8, <1>11, <1>13, <2>2, <3>1 DEF EcuFits
  <2> QED
    BY <2>1, <2>2
<1>15. \A b \in Addrs : LET k == q.ents[b].ecu IN
         q.ents[b].nusers = V[b] + (IF k = NoName THEN 0 ELSE Plus(U, n, d)[k])
  <2> SUFFICES ASSUME NEW b \in Addrs
               PROVE  LET k == q.ents[b].ecu IN
                        q.ents[b].nusers = V[b] + (IF k = NoName THEN 0 ELSE Plus(U, n, d)[k])
    OBVIOUS
  <2>1. /\ p.ents[b].ecu \in Names \cup {NoName} /\ V[b] \in Nat
        /\ p.ents[b].ecu = NoName => p.ents[b].nusers = V[b]
        /\ p.ents[b].ecu # NoName => /\ p.ents[b].nusers = V[b] + U[p.ents[b].ecu]
                                     /\ U[p.ents[b].ecu] \in Nat
    BY EntKnown DEF Counts
  <2>2. q.ents[b].nusers = p.ents[b].nusers + (IF b = a THEN d ELSE 0) /\ q.ents[b].ecu = p.ents[b].ecu
    BY <1>11
  <2>3. CASE p.ents[b].ecu = n
    BY <1>3, <1>12, <2>1, <2>2, <2>3, Numbers
  <2>4. CASE p.ents[b].ecu = NoName
    BY <1>12, <2>1, <2>2, <2>4, Numbers
  <2>5. CASE p.ents[b].ecu # n /\ p.ents[b].ecu # NoName
    BY <1>3, <1>12, <2>1, <2>2, <2>5
  <2> QED
    BY <2>3, <2>4, <2>5
<1>16. \A b \in Addrs : LET k == q.ents[b].ecu IN
         k # NoName => q.ecu[k].st = "live" /\ q.ecu[k].addr = b
  <2> SUFFICES ASSUME NEW b \in Addrs, q.ents[b].ecu # NoName
               PROVE  q.ecu[q.ents[b].ecu].st = "live" /\ q.ecu[q.ents[b].ecu].addr = b
    OBVIOUS
  <2>1. q.ents[b].ecu = p.ents[b].ecu /\ p.ents[b].ecu \in Names
    BY <1>11, EntKnown
  <2>2. p.ecu[p.ents[b].ecu].st = "live" /\ p.ecu[p.ents[b].ecu].addr = b
    BY <2>1 DEF Consistent
  <2> QED
    BY <1>5, <1>8, <1>11, <2>1, <2>2
<1>17. Consistent(q, H, Plus(U, n, d), V, D)
  BY <1>11, <1>14, <1>15, <1>16 DEF Consistent
<1> QED
  BY <1>3, <1>10, <1>17 DEF Counts

\* What a socket takes when it binds, and gives back.
LEMMA LocalGetKeeps ==
  ASSUME NEW p, NEW H, NEW U, NEW V, NEW D, Counts(H, U, V), Consistent(p, H, U, V, D),
         NEW n \in Names \cup {NoName}, NEW sa, n \notin D
  PROVE  Consistent(j1939_local_ecu_get(p, n, sa), Plus(H, n, 1), Plus(U, n, 1), Plus(V, sa, 1), D)
<1>1. PICK q : q = CountUser(p, sa, 1)
  OBVIOUS
<1>2. PICK W : W = Plus(V, sa, 1)
  OBVIOUS
<1>3. Counts(H, U, W) /\ Consistent(q, H, U, W, D)
  <2>1. sa \in Addrs => V[sa] + 1 \in Nat
    BY DEF Counts
  <2> QED
    BY <1>1, <1>2, <2>1, CountUserKeeps
<1>4. CASE n = NoName
  <2>1. Plus(H, n, 1) = H /\ Plus(U, n, 1) = U
    <3>1. n \notin Names /\ H \in [Names -> Nat] /\ U \in [Names -> Nat]
      BY <1>4, Numbers DEF Counts
    <3> QED
      BY <3>1 DEF Plus
  <2> QED
    BY <1>1, <1>2, <1>3, <1>4, <2>1 DEF j1939_local_ecu_get
<1>5. CASE n # NoName
  <2>1. n \in Names /\ H \in [Names -> Nat] /\ U \in [Names -> Nat] /\ H[n] \in Nat /\ U[n] \in Nat
    BY <1>5 DEF Counts
  <2>2. PICK G : G = Plus(H, n, 1)
    OBVIOUS
  <2>3. G \in [Names -> Nat] /\ G[n] = H[n] + 1
    BY <2>1, <2>2, PlusFacts
  <2>4. PICK r : r = IF Known(q, n) THEN j1939_ecu_get(q, n) ELSE j1939_ecu_create(q, n)
    OBVIOUS
  <2>5. Consistent(r, G, U, W, D)
    <3>1. Known(q, n) => q.ecu[n].st = "live"
      BY <1>3, <2>1, EcuKnown DEF Known, EcuFits, NoEcu
    <3> QED
      BY <1>3, <2>1, <2>2, <2>4, <3>1, GetKeeps, CreateKeeps
  <2>6. Counts(G, U, W)
    BY <1>3, <2>3 DEF Counts
  <2>7. U[n] <= H[n]
    BY <1>3, <2>1, EcuKnown DEF EcuFits
  <2>8. Consistent(CountEcuUser(r, n, 1), G, Plus(U, n, 1), W, D)
    <3>1. U[n] + 1 \in Nat /\ U[n] + 1 <= G[n] /\ 0 < G[n]
      BY <2>1, <2>3, <2>7
    <3> QED
      BY <2>1, <2>5, <2>6, <3>1, CountEcuUserKeeps
  <2>9. j1939_local_ecu_get(p, n, sa) = CountEcuUser(r, n, 1)
    BY <1>1, <1>5, <2>4 DEF j1939_local_ecu_get
  <2> QED
    BY <1>2, <2>2, <2>8, <2>9
<1> QED
  BY <1>4, <1>5

LEMMA LocalPutKeeps ==
  ASSUME NEW p, NEW H, NEW U, NEW V, NEW D, Counts(H, U, V), Consistent(p, H, U, V, D),
         NEW n \in Names \cup {NoName}, NEW sa,
         n # NoName => U[n] # 0, sa \in Addrs => V[sa] # 0
  PROVE  Consistent(j1939_local_ecu_put(p, n, sa), Plus(H, n, -1), Plus(U, n, -1), Plus(V, sa, -1), D)
<1>1. PICK q : q = CountUser(p, sa, -1)
  OBVIOUS
<1>2. PICK W : W = Plus(V, sa, -1)
  OBVIOUS
<1>3. Counts(H, U, W) /\ Consistent(q, H, U, W, D)
  <2>1. sa \in Addrs => V[sa] + (-1) \in Nat
    BY DEF Counts
  <2> QED
    BY <1>1, <1>2, <2>1, CountUserKeeps
<1>4. CASE n = NoName
  <2>1. Plus(H, n, -1) = H /\ Plus(U, n, -1) = U
    <3>1. n \notin Names /\ H \in [Names -> Nat] /\ U \in [Names -> Nat]
      BY <1>4, Numbers DEF Counts
    <3> QED
      BY <3>1 DEF Plus
  <2> QED
    BY <1>1, <1>2, <1>3, <1>4, <2>1 DEF j1939_local_ecu_put
<1>5. CASE n # NoName
  <2>1. n \in Names /\ H \in [Names -> Nat] /\ U \in [Names -> Nat] /\ H[n] \in Nat /\ U[n] \in Nat
        /\ U[n] # 0
    BY <1>5 DEF Counts
  <2>2. U[n] <= H[n]
    BY <1>3, <2>1, EcuKnown DEF EcuFits
  <2>3. PICK T : T = Plus(U, n, -1)
    OBVIOUS
  <2>4. U[n] + (-1) \in Nat /\ U[n] + (-1) <= H[n] /\ 0 < H[n]
    BY <2>1, <2>2
  <2>5. PICK r : r = CountEcuUser(q, n, -1)
    OBVIOUS
  <2>6. Counts(H, T, W) /\ Consistent(r, H, T, W, D)
    BY <1>3, <2>1, <2>3, <2>4, <2>5, CountEcuUserKeeps
  <2>7. T[n] < H[n]
    <3>1. T[n] = U[n] + (-1)
      BY <2>1, <2>3, PlusFacts
    <3> QED
      BY <2>1, <2>2, <3>1
  <2>8. Consistent(j1939_ecu_put(r, n), Plus(H, n, -1), T, W, D)
    BY <2>1, <2>6, <2>7, PutKeeps
  <2>9. j1939_local_ecu_put(p, n, sa) = j1939_ecu_put(r, n)
    BY <1>1, <1>5, <2>5 DEF j1939_local_ecu_put
  <2> QED
    BY <1>2, <2>3, <2>8, <2>9
<1> QED
  BY <1>4, <1>5

\* An ECU that somebody holds survives its unmapping and may claim any address.
LEMMA MovedKeeps ==
  ASSUME NEW p, NEW H, NEW U, NEW V, NEW D, Counts(H, U, V), Consistent(p, H, U, V, D),
         NEW n \in Names, 0 < H[n], NEW sa \in Addrs \cup {J1939_IDLE_ADDR}
  PROVE  Consistent(Moved(p, n, sa), H, U, V, D)
<1>1. PICK q : q = j1939_ecu_unmap(p, n)
  OBVIOUS
<1>2. Consistent(q, H, U, V, D) /\ ~IsMapped(q, n)
  BY <1>1, UnmapKeeps
<1>3. /\ q = [ecu |-> q.ecu, ents |-> q.ents] /\ q.ecu \in [Names -> EcuRec] /\ q.ecu[n] \in EcuRec
      /\ EcuFits(q.ecu[n], H[n], U[n], IsMapped(q, n), n \in D) /\ H[n] \in Nat /\ U[n] \in Nat
  BY <1>2, EcuKnown
<1>4. PICK e : e = [q.ecu[n] EXCEPT !.addr = sa]
  OBVIOUS
<1>5. /\ e \in EcuRec /\ e.st = q.ecu[n].st /\ e.refs = q.ecu[n].refs /\ e.nusers = q.ecu[n].nusers
  BY <1>3, <1>4 DEF EcuRec
<1>6. EcuFits(e, H[n], U[n], IsMapped(q, n), n \in D)
  BY <1>2, <1>3, <1>5 DEF EcuFits, NoEcu
<1>7. Moved(p, n, sa) = [ecu |-> [q.ecu EXCEPT ![n] = e], ents |-> q.ents]
  BY <1>1, <1>3, <1>4 DEF Moved
<1>8. Consistent(Moved(p, n, sa), [H EXCEPT ![n] = H[n]], U, V, D)
  BY <1>2, <1>3, <1>5, <1>6, <1>7, EcuChange
<1>9. [H EXCEPT ![n] = H[n]] = H
  BY DEF Counts
<1> QED
  BY <1>8, <1>9

LEMMA KickedKeeps ==
  ASSUME NEW p, NEW H, NEW U, NEW V, NEW D, Counts(H, U, V), Consistent(p, H, U, V, D), NEW sa \in Addrs
  PROVE  Consistent(Kicked(p, sa), H, U, V, D)
<1>1. p.ents[sa].ecu \in Names \cup {NoName}
  BY EntKnown
<1> QED
  BY <1>1, UnmapKeeps DEF Kicked

-----------------------------------------------------------------------------
(* The states of the specification. *)

One(b) == IF b THEN 1 ELSE 0

AtAddr(a) == {s \in Bound : sock[s].sa = a}
Fixing(n) == {s \in Sockets : fix[s].name = n /\ fix[s].at # "free"}
AtHand(n) == msg.name = n /\ rpc # "free"

UM == [n \in Names |-> Cardinality(UsersOf(n))]
VM == [a \in Addrs |-> Cardinality(AtAddr(a))]
HM == [n \in Names |-> UM[n] + One(armed[n]) + One(cb[n] = "run") + One(AtHand(n))
                       + Cardinality(Fixing(n))]
DM == {n \in Names : Leaving(n)}

\* A timer is queued or runs; the receive softirq has a message at hand and,
\* while it waits for a handler, the lock; an ECU is taken off the list by one.
TimerInv ==
  /\ armed \in [Names -> BOOLEAN] /\ cb \in [Names -> {"off", "run"}]
  /\ \A n \in Names : armed[n] => cb[n] = "off"
RxInv ==
  /\ rpc \in {"idle", "cancel", "lookup", "free"} /\ (lock <=> rpc = "cancel") /\ msg \in MsgRec
  /\ rpc = "idle" => msg.name = NoName
  /\ rpc # "idle" => msg.name \in Names
  /\ rpc = "cancel" => msg.sa # J1939_NO_ADDR
SockInv ==
  /\ sock \in [Sockets -> SockRec] /\ fix \in [Sockets -> FixRec]
  /\ \A s \in Sockets : /\ fix[s].at # "off" => fix[s].name \in Names
                        /\ fix[s].at = "off" => fix[s] = NoFix
FreeOnce ==
  \A s \in Sockets : fix[s].at = "free" =>
    /\ rpc = "free" => msg.name # fix[s].name
    /\ \A t \in Sockets : fix[t].at = "free" /\ fix[t].name = fix[s].name => t = s

ClaimInv == TimerInv /\ RxInv /\ SockInv /\ FreeOnce /\ Consistent(priv, HM, UM, VM, DM)

\* A step that gives n or takes from n one holder.
LEMMA PlusIs ==
  ASSUME NEW S, NEW F \in [S -> Nat], NEW G \in [S -> Nat], NEW x, NEW d \in Int,
         \A y \in S : G[y] = F[y] + (IF y = x THEN d ELSE 0)
  PROVE  G = Plus(F, x, d)
<1>1. \A y \in S : F[y] \in Nat
  OBVIOUS
<1>2. \A y \in S : G[y] = Plus(F, x, d)[y]
  BY <1>1 DEF Plus
<1> QED
  BY <1>2 DEF Plus

LEMMA Finite ==
  /\ IsFiniteSet(Bound)
  /\ \A n : /\ IsFiniteSet(UsersOf(n)) /\ Cardinality(UsersOf(n)) \in Nat
            /\ IsFiniteSet(Fixing(n)) /\ Cardinality(Fixing(n)) \in Nat
            /\ IsFiniteSet(AtAddr(n)) /\ Cardinality(AtAddr(n)) \in Nat
<1>1. IsFiniteSet(Sockets)
  BY ClaimAssumption
<1>2. IsFiniteSet(Bound)
  BY <1>1, FS_Subset DEF Bound
<1>3. ASSUME NEW n
      PROVE  /\ IsFiniteSet(UsersOf(n)) /\ Cardinality(UsersOf(n)) \in Nat
             /\ IsFiniteSet(Fixing(n)) /\ Cardinality(Fixing(n)) \in Nat
             /\ IsFiniteSet(AtAddr(n)) /\ Cardinality(AtAddr(n)) \in Nat
  <2>1. UsersOf(n) \subseteq Bound /\ AtAddr(n) \subseteq Bound /\ Fixing(n) \subseteq Sockets
    BY DEF UsersOf, AtAddr, Fixing
  <2>2. IsFiniteSet(UsersOf(n)) /\ IsFiniteSet(AtAddr(n)) /\ IsFiniteSet(Fixing(n))
    BY <1>1, <1>2, <2>1, FS_Subset
  <2> QED
    BY <2>2, FS_CardinalityType
<1> QED
  BY <1>2, <1>3

LEMMA Numbered == Counts(HM, UM, VM)
<1>1. UM \in [Names -> Nat] /\ VM \in [Addrs -> Nat]
  BY Finite DEF UM, VM
<1>2. HM \in [Names -> Nat]
  <2>1. \A n \in Names : UM[n] \in Nat /\ Cardinality(Fixing(n)) \in Nat
    BY <1>1, Finite
  <2> QED
    BY <2>1 DEF HM, One
<1> QED
  BY <1>1, <1>2 DEF Counts

\* How a socket's step changes who is bound.
LEMMA SockGains ==
  ASSUME SockInv, NEW s \in Sockets, sock[s].st # "bound", NEW n \in Names \cup {NoName},
         NEW a, sock' = [sock EXCEPT ![s] = [st |-> "bound", name |-> n, sa |-> a]]
  PROVE  UM' = Plus(UM, n, 1) /\ VM' = Plus(VM, a, 1)
<1>1. /\ Bound' = Bound \cup {s} /\ s \notin Bound
      /\ sock'[s].name = n /\ sock'[s].sa = a /\ sock'[s].st = "bound"
      /\ \A t \in Sockets : t # s => sock'[t] = sock[t]
  BY DEF Bound, SockInv
<1>2. \A x : /\ UsersOf(x)' = IF x = n THEN UsersOf(x) \cup {s} ELSE UsersOf(x)
             /\ AtAddr(x)' = IF x = a THEN AtAddr(x) \cup {s} ELSE AtAddr(x)
  BY <1>1 DEF UsersOf, AtAddr, Bound
<1>3. \A x : s \notin UsersOf(x) /\ s \notin AtAddr(x)
  BY <1>1 DEF UsersOf, AtAddr
<1>4. \A x : /\ Cardinality(UsersOf(x))' = Cardinality(UsersOf(x)) + (IF x = n THEN 1 ELSE 0)
             /\ Cardinality(AtAddr(x))' = Cardinality(AtAddr(x)) + (IF x = a THEN 1 ELSE 0)
  <2> SUFFICES ASSUME NEW x
               PROVE  /\ Cardinality(UsersOf(x)') = Cardinality(UsersOf(x)) + (IF x = n THEN 1 ELSE 0)
                      /\ Cardinality(AtAddr(x)') = Cardinality(AtAddr(x)) + (IF x = a THEN 1 ELSE 0)
    OBVIOUS
  <2>1. /\ Cardinality(UsersOf(x)) \in Nat /\ Cardinality(AtAddr(x)) \in Nat
        /\ IsFiniteSet(UsersOf(x)) /\ IsFiniteSet(AtAddr(x))
    BY Finite
  <2>2. /\ Cardinality(UsersOf(x) \cup {s}) = Cardinality(UsersOf(x)) + 1
        /\ Cardinality(AtAddr(x) \cup {s}) = Cardinality(AtAddr(x)) + 1
    BY <1>3, <2>1, FS_AddElement
  <2>3. /\ UsersOf(x)' = IF x = n THEN UsersOf(x) \cup {s} ELSE UsersOf(x)
        /\ AtAddr(x)' = IF x = a THEN AtAddr(x) \cup {s} ELSE AtAddr(x)
    BY <1>2
  <2>4. Cardinality(UsersOf(x)') = Cardinality(UsersOf(x)) + (IF x = n THEN 1 ELSE 0)
    BY <2>1, <2>2, <2>3
  <2>5. Cardinality(AtAddr(x)') = Cardinality(AtAddr(x)) + (IF x = a THEN 1 ELSE 0)
    BY <2>1, <2>2, <2>3
  <2> QED
    BY <2>4, <2>5
<1>5. /\ UM \in [Names -> Nat] /\ VM \in [Addrs -> Nat]
      /\ UM' \in [Names -> Nat] /\ VM' \in [Addrs -> Nat]
  <2>1. \A x : Cardinality(UsersOf(x))' \in Nat /\ Cardinality(AtAddr(x))' \in Nat
    BY <1>4, Finite
  <2> QED
    BY <2>1, Finite DEF UM, VM
<1>6. \A m \in Names : UM'[m] = UM[m] + (IF m = n THEN 1 ELSE 0)
  BY <1>4 DEF UM
<1>7. \A b \in Addrs : VM'[b] = VM[b] + (IF b = a THEN 1 ELSE 0)
  BY <1>4 DEF VM
<1> QED
  BY <1>5, <1>6, <1>7, PlusIs

LEMMA SockLoses ==
  ASSUME SockInv, NEW s \in Sockets, sock[s].st = "bound",
         NEW st, st # "bound", sock' = [sock EXCEPT ![s].st = st]
  PROVE  /\ UM' = Plus(UM, sock[s].name, -1) /\ VM' = Plus(VM, sock[s].sa, -1)
         /\ sock[s].name \in Names \cup {NoName}
         /\ sock[s].name # NoName => UM[sock[s].name] # 0
         /\ sock[s].sa \in Addrs => VM[sock[s].sa] # 0
<1> DEFINE n == sock[s].name
           a == sock[s].sa
<1>0. n \in Names \cup {NoName} /\ sock \in [Sockets -> SockRec]
  BY DEF SockInv, SockRec
<1>1. /\ Bound' = Bound \ {s} /\ s \in Bound
      /\ \A t \in Sockets : t # s => sock'[t] = sock[t]
  BY <1>0 DEF Bound, SockRec
<1>2. \A x : /\ UsersOf(x)' = IF x = n THEN UsersOf(x) \ {s} ELSE UsersOf(x)
             /\ AtAddr(x)' = IF x = a THEN AtAddr(x) \ {s} ELSE AtAddr(x)
  BY <1>1 DEF UsersOf, AtAddr, Bound
<1>3. s \in UsersOf(n) /\ s \in AtAddr(a)
  BY <1>1 DEF UsersOf, AtAddr
<1> HIDE DEF n, a
<1>4. /\ Cardinality(UsersOf(n) \ {s}) = Cardinality(UsersOf(n)) - 1
      /\ Cardinality(AtAddr(a) \ {s}) = Cardinality(AtAddr(a)) - 1
      /\ IsFiniteSet(UsersOf(n) \ {s}) /\ IsFiniteSet(AtAddr(a) \ {s})
      /\ Cardinality(UsersOf(n) \ {s}) \in Nat /\ Cardinality(AtAddr(a) \ {s}) \in Nat
  <2>1. /\ Cardinality(UsersOf(n) \ {s}) = Cardinality(UsersOf(n)) - 1
        /\ Cardinality(AtAddr(a) \ {s}) = Cardinality(AtAddr(a)) - 1
        /\ IsFiniteSet(UsersOf(n) \ {s}) /\ IsFiniteSet(AtAddr(a) \ {s})
    BY <1>3, Finite, FS_RemoveElement
  <2> QED
    BY <2>1, FS_CardinalityType
<1>5. \A x : /\ Cardinality(UsersOf(x))' = Cardinality(UsersOf(x)) + (IF x = n THEN -1 ELSE 0)
             /\ Cardinality(AtAddr(x))' = Cardinality(AtAddr(x)) + (IF x = a THEN -1 ELSE 0)
             /\ Cardinality(UsersOf(x))' \in Nat /\ Cardinality(AtAddr(x))' \in Nat
  <2> SUFFICES ASSUME NEW x
               PROVE  /\ Cardinality(UsersOf(x)') = Cardinality(UsersOf(x)) + (IF x = n THEN -1 ELSE 0)
                      /\ Cardinality(AtAddr(x)') = Cardinality(AtAddr(x)) + (IF x = a THEN -1 ELSE 0)
                      /\ Cardinality(UsersOf(x)') \in Nat /\ Cardinality(AtAddr(x)') \in Nat
    OBVIOUS
  <2>1. Cardinality(UsersOf(x)) \in Nat /\ Cardinality(AtAddr(x)) \in Nat
    BY Finite
  <2>2. /\ UsersOf(x)' = IF x = n THEN UsersOf(x) \ {s} ELSE UsersOf(x)
        /\ AtAddr(x)' = IF x = a THEN AtAddr(x) \ {s} ELSE AtAddr(x)
    BY <1>2
  <2>3. /\ Cardinality(UsersOf(x)') = Cardinality(UsersOf(x)) + (IF x = n THEN -1 ELSE 0)
        /\ Cardinality(UsersOf(x)') \in Nat
    <3>1. CASE x = n
      BY <1>4, <2>1, <2>2, <3>1
    <3>2. CASE x # n
      BY <2>1, <2>2, <3>2
    <3> QED
      BY <3>1, <3>2
  <2>4. /\ Cardinality(AtAddr(x)') = Cardinality(AtAddr(x)) + (IF x = a THEN -1 ELSE 0)
        /\ Cardinality(AtAddr(x)') \in Nat
    <3>1. CASE x = a
      BY <1>4, <2>1, <2>2, <3>1
    <3>2. CASE x # a
      BY <2>1, <2>2, <3>2
    <3> QED
      BY <3>1, <3>2
  <2> QED
    BY <2>3, <2>4
<1>6. /\ UM \in [Names -> Nat] /\ VM \in [Addrs -> Nat]
      /\ UM' \in [Names -> Nat] /\ VM' \in [Addrs -> Nat]
  BY <1>5, Finite DEF UM, VM
<1>7. \A m \in Names : UM'[m] = UM[m] + (IF m = n THEN -1 ELSE 0)
  BY <1>5 DEF UM
<1>8. \A b \in Addrs : VM'[b] = VM[b] + (IF b = a THEN -1 ELSE 0)
  BY <1>5 DEF VM
<1>9. UM' = Plus(UM, n, -1) /\ VM' = Plus(VM, a, -1)
  BY <1>6, <1>7, <1>8, PlusIs
<1>10. Cardinality(UsersOf(n)) # 0 /\ Cardinality(AtAddr(a)) # 0
  BY <1>4, Finite
<1>11. /\ n # NoName => UM[n] # 0
       /\ a \in Addrs => VM[a] # 0
  BY <1>0, <1>10 DEF UM, VM
<1> QED
  BY <1>0, <1>9, <1>11 DEF n, a

LEMMA SockWaits ==
  ASSUME SockInv, NEW s \in Sockets, sock[s].st # "bound",
         NEW st, st # "bound", sock' = [sock EXCEPT ![s].st = st]
  PROVE  UM' = UM /\ VM' = VM
<1>1. /\ Bound' = Bound /\ s \notin Bound
      /\ \A t \in Sockets : t # s => sock'[t] = sock[t]
  BY DEF Bound, SockInv, SockRec
<1>2. \A x : UsersOf(x)' = UsersOf(x) /\ AtAddr(x)' = AtAddr(x)
  BY <1>1 DEF UsersOf, AtAddr, Bound
<1> QED
  BY <1>2 DEF UM, VM

LEMMA NumberedNext == Counts(HM, UM, VM)'
  BY Numbered, PTL

LEMMA HolderSum ==
  \A n \in Names :
    /\ UM[n] \in Nat /\ Cardinality(Fixing(n)) \in Nat
    /\ HM[n] = UM[n] + One(armed[n]) + One(cb[n] = "run") + One(AtHand(n))
               + Cardinality(Fixing(n))
  BY Numbered, Finite DEF HM, Counts

LEMMA HolderSumNext ==
  (\A n \in Names :
    /\ UM[n] \in Nat /\ Cardinality(Fixing(n)) \in Nat
    /\ HM[n] = UM[n] + One(armed[n]) + One(cb[n] = "run") + One(AtHand(n))
               + Cardinality(Fixing(n)))'
  BY HolderSum, PTL

\* The holders after a step: those of one kind come or go at one ECU.
LEMMA HoldersChange ==
  ASSUME NEW n, NEW d \in Int, \A m \in Names : HM'[m] = HM[m] + (IF m = n THEN d ELSE 0)
  PROVE  HM' = Plus(HM, n, d)
  BY PlusIs, Numbered, NumberedNext DEF Counts

LEMMA HoldersSame ==
  ASSUME \A m \in Names : HM'[m] = HM[m]
  PROVE  HM' = HM
  BY Numbered, NumberedNext DEF Counts

LEMMA SameSock ==
  ASSUME sock' = sock
  PROVE  UM' = UM /\ VM' = VM
<1>1. \A x : UsersOf(x)' = UsersOf(x) /\ AtAddr(x)' = AtAddr(x)
  BY DEF UsersOf, AtAddr, Bound
<1> QED
  BY <1>1 DEF UM, VM

LEMMA SameFix ==
  ASSUME fix' = fix
  PROVE  \A x : Cardinality(Fixing(x))' = Cardinality(Fixing(x))
<1>1. \A x : Fixing(x)' = Fixing(x)
  BY DEF Fixing
<1> QED
  BY <1>1

\* A claim is sent.
LEMMA FixGains ==
  ASSUME SockInv, NEW s \in Sockets, fix[s] = NoFix, NEW n \in Names, NEW a,
         fix' = [fix EXCEPT ![s] = [at |-> "check", name |-> n, sa |-> a]]
  PROVE  \A m \in Names :
           Cardinality(Fixing(m))' = Cardinality(Fixing(m)) + (IF m = n THEN 1 ELSE 0)
<1>1. /\ fix'[s].name = n /\ fix'[s].at = "check"
      /\ \A t \in Sockets : t # s => fix'[t] = fix[t]
  BY DEF SockInv
<1>2. fix[s].name = NoName
  BY DEF NoFix
<1> SUFFICES ASSUME NEW m \in Names
             PROVE  Cardinality(Fixing(m)') = Cardinality(Fixing(m)) + (IF m = n THEN 1 ELSE 0)
  OBVIOUS
<1>3. Fixing(m)' = (IF m = n THEN Fixing(m) \cup {s} ELSE Fixing(m)) /\ s \notin Fixing(m)
  BY <1>1, <1>2, Numbers DEF Fixing
<1>4. Cardinality(Fixing(m) \cup {s}) = Cardinality(Fixing(m)) + 1 /\ Cardinality(Fixing(m)) \in Nat
  BY <1>3, Finite, FS_AddElement
<1> QED
  BY <1>3, <1>4

\* A claim that is sent is at the next place.
LEMMA FixMoves ==
  ASSUME SockInv, NEW s \in Sockets, NEW from, from # "off",
         NEW to \in {"off", "unmap", "put", "free"}, FixStep(s, from, to)
  PROVE  /\ fix[s].at = from /\ fix[s].name \in Names /\ SockInv'
         /\ fix'[s].at = to /\ fix'[s].name = (IF to = "off" THEN NoName ELSE fix[s].name)
         /\ \A t \in Sockets : t # s => fix'[t] = fix[t]
<1>1. PICK x : x = IF to = "off" THEN NoFix
                   ELSE [at |-> to, name |-> fix[s].name, sa |-> J1939_NO_ADDR]
  OBVIOUS
<1>2. /\ fix[s].at = from /\ fix[s].name \in Names /\ fix \in [Sockets -> FixRec]
      /\ fix' = [fix EXCEPT ![s] = x] /\ sock' = sock
  <2>1. fix[s].at = from /\ sock' = sock
    BY DEF FixStep
  <2>2. fix[s].name \in Names /\ fix \in [Sockets -> FixRec]
    BY <2>1 DEF SockInv
  <2>3. fix' = [fix EXCEPT ![s] = x]
    BY <1>1 DEF FixStep
  <2> QED
    BY <2>1, <2>2, <2>3
<1>3. /\ x \in FixRec /\ x.at = to /\ x.name = (IF to = "off" THEN NoName ELSE fix[s].name)
      /\ to = "off" => x = NoFix
  BY <1>1, <1>2 DEF NoFix, FixRec
<1>4. /\ fix'[s] = x /\ fix' \in [Sockets -> FixRec]
      /\ \A t \in Sockets : t # s => fix'[t] = fix[t]
  BY <1>2, <1>3
<1>5. SockInv'
  <2> SUFFICES ASSUME NEW t \in Sockets
               PROVE  /\ fix'[t].at # "off" => fix'[t].name \in Names
                      /\ fix'[t].at = "off" => fix'[t] = NoFix
    BY <1>2, <1>4 DEF SockInv
  <2>1. CASE t = s
    BY <1>2, <1>3, <1>4, <2>1
  <2>2. CASE t # s
    <3>1. fix'[t] = fix[t]
      BY <1>4, <2>2
    <3>2. /\ fix[t].at # "off" => fix[t].name \in Names
          /\ fix[t].at = "off" => fix[t] = NoFix
      BY DEF SockInv
    <3> QED
      BY <3>1, <3>2
  <2> QED
    BY <2>1, <2>2
<1> QED
  BY <1>2, <1>3, <1>4, <1>5

\* Its reference is still there, or is gone.
LEMMA FixHolds ==
  ASSUME SockInv, NEW s \in Sockets, NEW from, from \notin {"off", "free"},
         NEW to \in {"unmap", "put"}, FixStep(s, from, to)
  PROVE  \A m : Cardinality(Fixing(m))' = Cardinality(Fixing(m))
<1>1. \A m : Fixing(m)' = Fixing(m)
  BY FixMoves DEF Fixing
<1> QED
  BY <1>1

LEMMA FixLoses ==
  ASSUME SockInv, NEW s \in Sockets, NEW from, from \notin {"off", "free"},
         NEW to \in {"off", "free"}, FixStep(s, from, to)
  PROVE  /\ fix[s].name \in Names /\ Cardinality(Fixing(fix[s].name)) # 0
         /\ \A m \in Names :
              Cardinality(Fixing(m))' = Cardinality(Fixing(m)) + (IF m = fix[s].name THEN -1 ELSE 0)
<1>1. PICK n \in Names : n = fix[s].name
  BY FixMoves
<1>2. /\ fix[s].at = from /\ fix'[s].at = to /\ fix'[s].name = (IF to = "off" THEN NoName ELSE n)
      /\ \A t \in Sockets : t # s => fix'[t] = fix[t]
  BY <1>1, FixMoves
<1>3. /\ Cardinality(Fixing(n) \ {s}) = Cardinality(Fixing(n)) - 1
      /\ Cardinality(Fixing(n) \ {s}) \in Nat
  <2>1. s \in Fixing(n)
    BY <1>1, <1>2 DEF Fixing
  <2>2. Cardinality(Fixing(n) \ {s}) = Cardinality(Fixing(n)) - 1 /\ IsFiniteSet(Fixing(n) \ {s})
    BY <2>1, Finite, FS_RemoveElement
  <2> QED
    BY <2>2, FS_CardinalityType
<1>4. ASSUME NEW m \in Names
      PROVE  Cardinality(Fixing(m)') = Cardinality(Fixing(m)) + (IF m = n THEN -1 ELSE 0)
  <2>1. Fixing(m)' = (IF m = n THEN Fixing(m) \ {s} ELSE Fixing(m))
    BY <1>1, <1>2, Numbers DEF Fixing
  <2>2. Cardinality(Fixing(m)) \in Nat
    BY Finite
  <2> QED
    BY <1>3, <2>1, <2>2
<1> QED
  BY <1>1, <1>3, <1>4, Finite

LEMMA FixFrees ==
  ASSUME SockInv, NEW s \in Sockets, FixStep(s, "free", "off")
  PROVE  \A m \in Names : Cardinality(Fixing(m))' = Cardinality(Fixing(m))
<1>1. \A m \in Names : Fixing(m)' = Fixing(m)
  BY FixMoves, Numbers DEF Fixing
<1> QED
  BY <1>1

\* Who leaves the list.
LEMMA SameLeaving ==
  ASSUME fix' = fix, rpc' = rpc, msg' = msg
  PROVE  DM' = DM /\ (FreeOnce => FreeOnce')
<1>1. \A n : Leaving(n)' <=> Leaving(n)
  BY DEF Leaving
<1> QED
  BY <1>1 DEF DM, FreeOnce

LEMMA RxStays ==
  ASSUME fix' = fix, rpc # "free", rpc' # "free"
  PROVE  DM' = DM /\ (FreeOnce => FreeOnce')
<1>1. \A n : Leaving(n)' <=> Leaving(n)
  BY DEF Leaving
<1> QED
  BY <1>1 DEF DM, FreeOnce

LEMMA FixStays ==
  ASSUME NEW s \in Sockets, fix[s].at # "free", fix'[s].at # "free",
         \A t \in Sockets : t # s => fix'[t] = fix[t], rpc' = rpc, msg' = msg
  PROVE  DM' = DM /\ (FreeOnce => FreeOnce')
<1>1. \A t \in Sockets : \/ fix'[t] = fix[t]
                         \/ fix'[t].at # "free" /\ fix[t].at # "free"
  OBVIOUS
<1>2. \A n : Leaving(n)' <=> Leaving(n)
  BY <1>1 DEF Leaving
<1> QED
  BY <1>1, <1>2 DEF DM, FreeOnce

\* Who is held is alive.
LEMMA HeldIsKnown ==
  ASSUME NEW p, NEW H, NEW U, NEW V, NEW D, Counts(H, U, V), Consistent(p, H, U, V, D), NEW n \in Names,
         H[n] # 0 \/ IsMapped(p, n)
  PROVE  p.ecu[n].st = "live" /\ Known(p, n)
<1>1. EcuFits(p.ecu[n], H[n], U[n], IsMapped(p, n), n \in D) /\ H[n] \in Nat
  BY EcuKnown
<1>2. p.ecu[n].refs # 0
  BY <1>1 DEF EcuFits
<1>3. p.ecu[n].st = "live"
  BY <1>1, <1>2 DEF EcuFits, NoEcu
<1> QED
  BY <1>3 DEF Known

LEMMA DyingLeave ==
  ASSUME ClaimInv
  PROVE  Dying = DM /\ \A n \in Names : Known(priv, n) /\ Dying = {} => priv.ecu[n].st = "live"
<1>1. ASSUME NEW n \in Names
      PROVE  /\ priv.ecu[n].st = "dead" <=> n \in DM
             /\ priv.ecu[n].st \in {"none", "live", "dead"}
  <2>1. EcuFits(priv.ecu[n], HM[n], UM[n], IsMapped(priv, n), n \in DM) /\ priv.ecu[n] \in EcuRec
    BY Numbered, EcuKnown DEF ClaimInv
  <2> QED
    BY <2>1 DEF EcuFits, NoEcu, EcuRec
<1> QED
  BY <1>1 DEF Dying, DM, Known

-----------------------------------------------------------------------------
(* The steps. *)

LEMMA InitInv == Init => ClaimInv
<1> SUFFICES ASSUME Init PROVE ClaimInv
  OBVIOUS
<1>1. TimerInv
  BY DEF Init, TimerInv
<1>2. RxInv
  <2>1. msg \in MsgRec /\ msg.name = NoName
    BY DEF Init, NoMsg, MsgRec
  <2> QED
    BY <2>1 DEF Init, RxInv
<1>3. SockInv /\ FreeOnce /\ DM = {}
  <2>1. Unbound \in SockRec /\ NoFix \in FixRec /\ NoFix.at = "off"
    BY DEF SockRec, FixRec, Unbound, NoFix
  <2> QED
    BY <2>1 DEF Init, SockInv, FreeOnce, DM, Leaving
<1>4. Bound = {} /\ \A n \in Names : Fixing(n) = {}
  BY Numbers DEF Init, Bound, Fixing, Unbound, NoFix
<1>5. \A x : UsersOf(x) = {} /\ AtAddr(x) = {}
  BY <1>4 DEF UsersOf, AtAddr
<1>6. (\A n \in Names : UM[n] = 0 /\ Cardinality(Fixing(n)) = 0) /\ \A a \in Addrs : VM[a] = 0
  BY <1>4, <1>5, FS_EmptySet DEF UM, VM
<1>7. \A n \in Names : HM[n] = 0
  <2>1. \A n \in Names : ~armed[n] /\ cb[n] # "run" /\ ~AtHand(n)
    BY Numbers DEF Init, NoMsg, AtHand
  <2> QED
    BY <1>6, <2>1, HolderSum DEF One
<1>8. Consistent(priv, HM, UM, VM, DM)
  <2>1. /\ priv \in PrivRec /\ (\A n \in Names : priv.ecu[n] = NoEcu)
        /\ \A a \in Addrs : priv.ents[a].ecu = NoName /\ priv.ents[a].nusers = 0
    <3>1. NoEcu \in EcuRec /\ [ecu |-> NoName, nusers |-> 0] \in EntRec
      BY DEF NoEcu, EcuRec, EntRec
    <3> QED
      BY <3>1 DEF Init, PrivRec
  <2>2. \A n \in Names : ~IsMapped(priv, n)
    BY <2>1, Numbers DEF IsMapped
  <2>3. \A n \in Names : EcuFits(priv.ecu[n], HM[n], UM[n], IsMapped(priv, n), n \in DM)
    BY <1>3, <1>6, <1>7, <2>1, <2>2 DEF EcuFits, NoEcu
  <2> QED
    BY <1>6, <2>1, <2>3 DEF Consistent
<1> QED
  BY <1>1, <1>2, <1>3, <1>8 DEF ClaimInv

\* The timer fires: its reference is the handler's now.
LEMMA ExpireStep ==
  ASSUME ClaimInv, NEW n \in Names, Expire(n)
  PROVE  ClaimInv'
<1>1. /\ armed[n] /\ cb[n] = "off" /\ armed \in [Names -> BOOLEAN] /\ cb \in [Names -> {"off", "run"}]
      /\ armed' = [armed EXCEPT ![n] = FALSE] /\ cb' = [cb EXCEPT ![n] = "run"]
  BY DEF Expire, ClaimInv, TimerInv
<1>2. priv' = priv /\ rpc' = rpc /\ msg' = msg /\ lock' = lock /\ sock' = sock /\ fix' = fix /\ mode' = mode
  BY DEF Expire, rxVars, sockVars
<1>3. TimerInv'
  BY <1>1 DEF ClaimInv, TimerInv
<1>4. RxInv'
  BY <1>2 DEF ClaimInv, RxInv
<1>5. SockInv'
  BY <1>2 DEF ClaimInv, SockInv
<1>6. UM' = UM /\ VM' = VM /\ HM' = HM
  <2>1. UM' = UM /\ VM' = VM
    BY <1>2, SameSock
  <2>2. \A m \in Names : One(armed'[m]) + One(cb'[m] = "run") = One(armed[m]) + One(cb[m] = "run")
    BY <1>1 DEF One
  <2>3. \A m \in Names : AtHand(m)' <=> AtHand(m)
    BY <1>2 DEF AtHand
  <2>4. \A m \in Names : HM'[m] = HM[m]
    BY <1>2, <2>1, <2>2, <2>3, HolderSum, HolderSumNext, SameFix DEF One
  <2> QED
    BY <2>1, <2>4, HoldersSame
<1>7. DM' = DM /\ FreeOnce'
  BY <1>2, SameLeaving DEF ClaimInv
<1>8. Consistent(priv, HM, UM, VM, DM)'
  BY <1>2, <1>6, <1>7 DEF ClaimInv
<1> QED
  BY <1>3, <1>4, <1>5, <1>7, <1>8 DEF ClaimInv

LEMMA HandlerStep ==
  ASSUME ClaimInv, NEW n \in Names, j1939_ecu_timer_handler(n)
  PROVE  ClaimInv'
<1>1. /\ cb[n] = "run" /\ cb \in [Names -> {"off", "run"}] /\ cb' = [cb EXCEPT ![n] = "off"]
      /\ priv' = j1939_ecu_put(j1939_ecu_map(priv, n), n) /\ ~lock
  BY DEF j1939_ecu_timer_handler, ClaimInv, TimerInv
<1>2. /\ armed' = armed /\ rpc' = rpc /\ msg' = msg /\ lock' = lock /\ sock' = sock /\ fix' = fix
      /\ mode' = mode
  BY DEF j1939_ecu_timer_handler, rxVars, sockVars
<1>3. TimerInv'
  BY <1>1, <1>2 DEF ClaimInv, TimerInv
<1>4. RxInv'
  BY <1>2 DEF ClaimInv, RxInv
<1>5. SockInv'
  BY <1>2 DEF ClaimInv, SockInv
<1>6. UM' = UM /\ VM' = VM
  BY <1>2, SameSock
<1>7. HM' = Plus(HM, n, -1)
  <2>1. \A m \in Names : One(cb'[m] = "run") = One(cb[m] = "run") + (IF m = n THEN -1 ELSE 0)
    BY <1>1 DEF One
  <2>2. ASSUME NEW m \in Names PROVE HM'[m] = HM[m] + (IF m = n THEN -1 ELSE 0)
    <3>1. AtHand(m)' <=> AtHand(m)
      BY <1>2 DEF AtHand
    <3>2. /\ HM[m] = UM[m] + One(armed[m]) + One(cb[m] = "run") + One(AtHand(m))
                       + Cardinality(Fixing(m))
          /\ HM'[m] = UM[m] + One(armed[m]) + One(cb'[m] = "run") + One(AtHand(m)')
                       + Cardinality(Fixing(m))
          /\ UM[m] \in Nat /\ Cardinality(Fixing(m)) \in Nat
      BY <1>2, <1>6, HolderSum, HolderSumNext, SameFix
    <3> QED
      BY <2>1, <3>1, <3>2 DEF One
  <2> QED
    BY <2>2, HoldersChange
<1>8. UM[n] < HM[n]
  BY <1>1, HolderSum DEF One
<1>9. Consistent(j1939_ecu_map(priv, n), HM, UM, VM, DM)
  BY <1>8, Numbered, MapKeeps DEF ClaimInv
<1>10. Consistent(priv', Plus(HM, n, -1), UM, VM, DM)
  BY <1>1, <1>8, <1>9, Numbered, PutKeeps
<1>11. DM' = DM /\ FreeOnce'
  BY <1>2, SameLeaving DEF ClaimInv
<1> QED
  BY <1>3, <1>4, <1>5, <1>6, <1>7, <1>10, <1>11 DEF ClaimInv

\* A claim at hand holds its ECU.
LEMMA ClaimArrivesStep ==
  ASSUME ClaimInv, NEW n \in Names, NEW sa \in Addrs \cup {J1939_IDLE_ADDR},
         ClaimArrives(n, sa), ~raced'
  PROVE  ClaimInv'
<1>1. /\ priv' = IF Known(priv, n) THEN j1939_ecu_get(priv, n) ELSE j1939_ecu_create(priv, n)
      /\ lock' = TRUE /\ rpc' = "cancel" /\ msg' = [name |-> n, sa |-> sa]
      /\ mode' = mode /\ armed' = armed /\ cb' = cb /\ sock' = sock /\ fix' = fix
      /\ msg.name = NoName /\ rpc = "idle" /\ Dying = {}
  BY DEF ClaimArrives, RxIdle, timerVars, sockVars, ClaimInv, RxInv, Uses
<1>2. TimerInv' /\ SockInv'
  BY <1>1 DEF ClaimInv, TimerInv, SockInv
<1>3. RxInv'
  <2>1. sa # J1939_NO_ADDR /\ msg' \in MsgRec /\ msg'.name = n /\ msg'.sa = sa
    BY <1>1, Numbers DEF MsgRec
  <2> QED
    BY <1>1, <2>1 DEF ClaimInv, RxInv
<1>4. UM' = UM /\ VM' = VM
  BY <1>1, SameSock
<1>5. HM' = Plus(HM, n, 1)
  <2>1. ASSUME NEW m \in Names PROVE HM'[m] = HM[m] + (IF m = n THEN 1 ELSE 0)
    <3>1. /\ HM[m] = UM[m] + One(armed[m]) + One(cb[m] = "run") + One(AtHand(m))
                       + Cardinality(Fixing(m))
          /\ HM'[m] = UM[m] + One(armed[m]) + One(cb[m] = "run") + One(AtHand(m)')
                       + Cardinality(Fixing(m))
          /\ UM[m] \in Nat /\ Cardinality(Fixing(m)) \in Nat
      BY <1>1, <1>4, HolderSum, HolderSumNext, SameFix
    <3>2. ~AtHand(m) /\ (AtHand(m)' <=> m = n)
      BY <1>1, Numbers DEF AtHand
    <3> QED
      BY <3>1, <3>2 DEF One
  <2> QED
    BY <2>1, HoldersChange
<1>6. Consistent(priv', Plus(HM, n, 1), UM, VM, DM)
  BY <1>1, Numbered, DyingLeave, GetKeeps, CreateKeeps DEF ClaimInv
<1>7. DM' = DM /\ FreeOnce'
  BY <1>1, RxStays DEF ClaimInv
<1> QED
  BY <1>2, <1>3, <1>4, <1>5, <1>6, <1>7 DEF ClaimInv

\* The claim decided: the timer's reference, if it was queued, is put or the one
\* of the claim takes its place.
LEMMA ClaimProcessedStep ==
  ASSUME ClaimInv, ClaimProcessed
  PROVE  ClaimInv'
<1> DEFINE starts(p) == msg.sa \in Addrs /\ Wins(p, msg.name, msg.sa)
<1>1. PICK n : n = msg.name
  OBVIOUS
<1>2. PICK p : p = j1939_ecu_timer_cancel(priv, n)
  OBVIOUS
<1>3. /\ rpc = "cancel" /\ cb[n] = "off" /\ armed' = [armed EXCEPT ![n] = starts(p)]
      /\ priv' = CASE msg.sa = J1939_IDLE_ADDR -> j1939_ecu_put(j1939_ecu_unmap(p, n), n)
                   [] starts(p) -> Kicked(Moved(p, n, msg.sa), msg.sa)
                   [] OTHER -> j1939_ecu_put(Moved(p, n, msg.sa), n)
      /\ lock' = FALSE /\ rpc' = "idle" /\ msg' = NoMsg
      /\ mode' = mode /\ cb' = cb /\ sock' = sock /\ fix' = fix
  BY <1>1, <1>2 DEF ClaimProcessed, sockVars
<1>4. n \in Names /\ msg.sa \in Addrs \cup {J1939_IDLE_ADDR}
  BY <1>1, <1>3 DEF ClaimInv, RxInv, MsgRec
<1>5. TimerInv' /\ SockInv'
  <2>1. starts(p) \in BOOLEAN
    OBVIOUS
  <2> HIDE DEF starts
  <2> QED
    BY <1>3, <1>4, <2>1 DEF ClaimInv, TimerInv, SockInv
<1>6. RxInv'
  <2>1. NoMsg \in MsgRec /\ NoMsg.name = NoName
    BY DEF NoMsg, MsgRec
  <2> QED
    BY <1>3, <2>1 DEF ClaimInv, RxInv
<1>7. UM' = UM /\ VM' = VM
  BY <1>3, SameSock
<1>8. PICK G : G = IF armed[n] THEN Plus(HM, n, -1) ELSE HM
  OBVIOUS
<1>9. HM \in [Names -> Nat] /\ UM[n] \in Nat /\ HM[n] \in Nat /\ UM[n] + One(armed[n]) < HM[n]
      /\ Counts(HM, UM, VM) /\ Consistent(priv, HM, UM, VM, DM)
  <2>1. Counts(HM, UM, VM) /\ HM \in [Names -> Nat] /\ HM[n] \in Nat
    BY <1>4, Numbered DEF Counts
  <2>2. UM[n] \in Nat /\ UM[n] + One(armed[n]) < HM[n]
    BY <1>1, <1>3, <1>4, HolderSum DEF One, AtHand
  <2> QED
    BY <2>1, <2>2 DEF ClaimInv
<1>10. /\ G \in [Names -> Nat] /\ G[n] = HM[n] - One(armed[n])
       /\ \A m \in Names : m # n => G[m] = HM[m]
  <2>1. CASE armed[n]
    <3>1. HM[n] + (-1) \in Nat /\ HM[n] + (-1) = HM[n] - 1
      BY <1>9, <2>1 DEF One
    <3>2. G \in [Names -> Nat]
      BY <1>4, <1>8, <1>9, <2>1, <3>1, PlusFacts
    <3>3. G[n] = HM[n] + (-1)
      BY <1>4, <1>8, <1>9, <2>1, PlusFacts
    <3>4. \A m \in Names : m # n => G[m] = HM[m]
      BY <1>4, <1>8, <1>9, <2>1, PlusFacts
    <3> QED
      BY <2>1, <3>1, <3>2, <3>3, <3>4 DEF One
  <2>2. CASE ~armed[n]
    BY <1>8, <1>9, <2>2 DEF One
  <2> QED
    BY <2>1, <2>2
<1>11. Counts(G, UM, VM) /\ UM[n] < G[n] /\ 0 < G[n] /\ Consistent(p, G, UM, VM, DM)
  <2>1. Counts(G, UM, VM)
    BY <1>9, <1>10 DEF Counts
  <2>2. UM[n] < G[n] /\ 0 < G[n]
    BY <1>9, <1>10 DEF One
  <2>3. CASE armed[n]
    <3>1. UM[n] < HM[n]
      BY <1>9 DEF One
    <3>2. Consistent(j1939_ecu_put(priv, n), Plus(HM, n, -1), UM, VM, DM)
      BY <1>4, <1>9, <3>1, PutKeeps
    <3> QED
      BY <1>2, <1>8, <2>1, <2>2, <2>3, <3>2 DEF j1939_ecu_timer_cancel
  <2>4. CASE ~armed[n]
    BY <1>2, <1>8, <1>9, <2>1, <2>2, <2>4 DEF j1939_ecu_timer_cancel
  <2> QED
    BY <2>3, <2>4
<1>12. ASSUME NEW m \in Names
       PROVE  HM'[m] = G[m] + (IF m = n /\ ~armed'[n] THEN -1 ELSE 0)
  <2>1. /\ HM[m] = UM[m] + One(armed[m]) + One(cb[m] = "run") + One(AtHand(m))
                     + Cardinality(Fixing(m))
        /\ HM'[m] = UM[m] + One(armed'[m]) + One(cb[m] = "run") + 0 + Cardinality(Fixing(m))
        /\ UM[m] \in Nat /\ Cardinality(Fixing(m)) \in Nat
        /\ AtHand(m) <=> m = n
    <3>1. ~AtHand(m)' /\ (AtHand(m) <=> m = n)
      BY <1>1, <1>3, Numbers DEF NoMsg, AtHand
    <3>2. One(AtHand(m)') = 0
      BY <3>1 DEF One
    <3> QED
      BY <1>3, <1>7, <3>1, <3>2, HolderSum, HolderSumNext, SameFix
  <2>2. CASE m = n
    <3>1. HM[m] = UM[m] + One(armed[m]) + One(cb[m] = "run") + 1 + Cardinality(Fixing(m))
      BY <2>1, <2>2 DEF One
    <3> QED
      BY <1>10, <2>1, <2>2, <3>1 DEF One
  <2>3. CASE m # n
    <3>1. armed'[m] = armed[m]
      BY <1>3, <2>3 DEF ClaimInv, TimerInv
    <3> QED
      BY <1>10, <2>1, <2>3, <3>1 DEF One
  <2> QED
    BY <2>2, <2>3
<1>13. HM' \in [Names -> Nat]
  BY NumberedNext DEF Counts
<1>14. armed'[n] = starts(p)
  BY <1>3, <1>4 DEF ClaimInv, TimerInv
<1>15. DM' = DM /\ FreeOnce'
  BY <1>3, RxStays DEF ClaimInv
<1> HIDE DEF starts
<1>16. CASE starts(p)
  <2>1. HM' = G
    BY <1>10, <1>12, <1>13, <1>14, <1>16
  <2>2. msg.sa \in Addrs /\ msg.sa # J1939_IDLE_ADDR
    BY <1>16, Numbers DEF starts
  <2>3. PICK q : q = Moved(p, n, msg.sa)
    OBVIOUS
  <2>4. Consistent(q, G, UM, VM, DM)
    BY <1>4, <1>11, <2>3, MovedKeeps
  <2>5. Consistent(Kicked(q, msg.sa), G, UM, VM, DM)
    BY <1>11, <2>2, <2>4, KickedKeeps
  <2>6. priv' = Kicked(q, msg.sa)
    BY <1>3, <1>16, <2>2, <2>3
  <2> QED
    BY <1>5, <1>6, <1>7, <1>15, <2>1, <2>5, <2>6 DEF ClaimInv
<1>17. CASE ~starts(p)
  <2>1. HM' = Plus(G, n, -1)
    <3>1. \A m \in Names : HM'[m] = G[m] + (IF m = n THEN -1 ELSE 0)
      BY <1>12, <1>14, <1>17
    <3> QED
      BY <1>10, <1>13, <3>1, PlusIs
  <2>2. CASE msg.sa = J1939_IDLE_ADDR
    <3>1. Consistent(j1939_ecu_unmap(p, n), G, UM, VM, DM)
      BY <1>4, <1>11, UnmapKeeps
    <3>2. Consistent(j1939_ecu_put(j1939_ecu_unmap(p, n), n), Plus(G, n, -1), UM, VM, DM)
      BY <1>4, <1>11, <3>1, PutKeeps
    <3>3. priv' = j1939_ecu_put(j1939_ecu_unmap(p, n), n)
      BY <1>3, <1>17, <2>2
    <3> QED
      BY <1>5, <1>6, <1>7, <1>15, <2>1, <3>2, <3>3 DEF ClaimInv
  <2>3. CASE msg.sa # J1939_IDLE_ADDR
    <3>1. Consistent(Moved(p, n, msg.sa), G, UM, VM, DM)
      BY <1>4, <1>11, MovedKeeps
    <3>2. Consistent(j1939_ecu_put(Moved(p, n, msg.sa), n), Plus(G, n, -1), UM, VM, DM)
      BY <1>4, <1>11, <3>1, PutKeeps
    <3>3. priv' = j1939_ecu_put(Moved(p, n, msg.sa), n)
      BY <1>3, <1>17, <2>3
    <3> QED
      BY <1>5, <1>6, <1>7, <1>15, <2>1, <3>2, <3>3 DEF ClaimInv
  <2> QED
    BY <2>2, <2>3
<1> QED
  BY <1>16, <1>17

\* A lookup holds the ECU it finds.
LEMMA LookupStep ==
  ASSUME ClaimInv, NEW a \in Addrs, Lookup(a)
  PROVE  ClaimInv'
<1>1. PICK n : n = priv.ents[a].ecu
  OBVIOUS
<1>2. /\ priv' = j1939_ecu_get(priv, n) /\ n # NoName
      /\ rpc = "idle" /\ rpc' = "lookup" /\ msg' = [NoMsg EXCEPT !.name = n]
      /\ mode' = mode /\ armed' = armed /\ cb' = cb /\ lock' = lock /\ sock' = sock /\ fix' = fix
      /\ msg.name = NoName
  BY <1>1 DEF Lookup, RxIdle, timerVars, sockVars, ClaimInv, RxInv
<1>3. n \in Names /\ IsMapped(priv, n) /\ Counts(HM, UM, VM) /\ Consistent(priv, HM, UM, VM, DM)
  BY <1>1, <1>2, EntKnown, Numbered DEF ClaimInv, IsMapped
<1>4. priv.ecu[n].st = "live"
  BY <1>3, HeldIsKnown
<1>5. TimerInv' /\ SockInv'
  BY <1>2 DEF ClaimInv, TimerInv, SockInv
<1>6. msg' = [name |-> n, sa |-> J1939_NO_ADDR]
  BY <1>2 DEF NoMsg
<1>7. RxInv'
  <2>1. msg' \in MsgRec /\ msg'.name = n
    BY <1>3, <1>6 DEF MsgRec
  <2> QED
    BY <1>2, <1>3, <2>1 DEF ClaimInv, RxInv
<1>8. UM' = UM /\ VM' = VM
  BY <1>2, SameSock
<1>9. HM' = Plus(HM, n, 1)
  <2>1. ASSUME NEW m \in Names PROVE HM'[m] = HM[m] + (IF m = n THEN 1 ELSE 0)
    <3>1. /\ HM[m] = UM[m] + One(armed[m]) + One(cb[m] = "run") + One(AtHand(m))
                       + Cardinality(Fixing(m))
          /\ HM'[m] = UM[m] + One(armed[m]) + One(cb[m] = "run") + One(AtHand(m)')
                       + Cardinality(Fixing(m))
          /\ UM[m] \in Nat /\ Cardinality(Fixing(m)) \in Nat
      BY <1>2, <1>8, HolderSum, HolderSumNext, SameFix
    <3>2. ~AtHand(m) /\ (AtHand(m)' <=> m = n)
      BY <1>2, <1>6, Numbers DEF AtHand
    <3> QED
      BY <3>1, <3>2 DEF One
  <2> QED
    BY <2>1, HoldersChange
<1>10. Consistent(priv', Plus(HM, n, 1), UM, VM, DM)
  BY <1>2, <1>3, <1>4, GetKeeps
<1>11. DM' = DM /\ FreeOnce'
  BY <1>2, RxStays DEF ClaimInv
<1> QED
  BY <1>5, <1>7, <1>8, <1>9, <1>10, <1>11 DEF ClaimInv

\* Its reference is put without the lock: the ECU may leave the list then.
LEMMA LookupPutStep ==
  ASSUME ClaimInv, LookupPut
  PROVE  ClaimInv'
<1>1. PICK n : n = msg.name
  OBVIOUS
<1>2. PICK last \in BOOLEAN : last <=> priv.ecu[n].refs = 1
  OBVIOUS
<1>3. /\ rpc = "lookup" /\ n \in Names /\ priv' = Unlocked(priv, n)
      /\ rpc' = (IF last THEN "free" ELSE "idle") /\ msg' = (IF last THEN msg ELSE NoMsg)
      /\ mode' = mode /\ armed' = armed /\ cb' = cb /\ lock' = lock /\ sock' = sock /\ fix' = fix
      /\ Counts(HM, UM, VM) /\ Consistent(priv, HM, UM, VM, DM)
  BY <1>1, <1>2, Numbered DEF LookupPut, ClaimInv, RxInv, timerVars, sockVars
<1>4. UM[n] \in Nat /\ HM[n] \in Nat /\ UM[n] < HM[n]
  <2>1. HM[n] \in Nat /\ AtHand(n)
    BY <1>1, <1>3 DEF Counts, AtHand
  <2> QED
    BY <1>3, <2>1, HolderSum DEF One
<1>5. TimerInv' /\ SockInv'
  BY <1>3 DEF ClaimInv, TimerInv, SockInv
<1>6. RxInv'
  <2>1. NoMsg \in MsgRec /\ NoMsg.name = NoName
    BY DEF NoMsg, MsgRec
  <2> QED
    BY <1>3, <2>1 DEF ClaimInv, RxInv
<1>7. UM' = UM /\ VM' = VM
  BY <1>3, SameSock
<1>8. HM' = Plus(HM, n, -1)
  <2>1. ASSUME NEW m \in Names PROVE HM'[m] = HM[m] + (IF m = n THEN -1 ELSE 0)
    <3>1. /\ HM[m] = UM[m] + One(armed[m]) + One(cb[m] = "run") + One(AtHand(m))
                       + Cardinality(Fixing(m))
          /\ HM'[m] = UM[m] + One(armed[m]) + One(cb[m] = "run") + One(AtHand(m)')
                       + Cardinality(Fixing(m))
          /\ UM[m] \in Nat /\ Cardinality(Fixing(m)) \in Nat
      BY <1>3, <1>7, HolderSum, HolderSumNext, SameFix
    <3>2. (AtHand(m) <=> m = n) /\ ~AtHand(m)'
      BY <1>1, <1>3, Numbers DEF NoMsg, AtHand
    <3> QED
      BY <3>1, <3>2 DEF One
  <2> QED
    BY <2>1, HoldersChange
<1>9. /\ n \notin DM
      /\ last => Consistent(priv', Plus(HM, n, -1), UM, VM, DM \cup {n})
      /\ ~last => Consistent(priv', Plus(HM, n, -1), UM, VM, DM)
  BY <1>2, <1>3, <1>4, UnlockedKeeps
<1>10. CASE last
  <2>1. DM' = DM \cup {n}
    BY <1>1, <1>3, <1>10 DEF DM, Leaving
  <2>2. FreeOnce'
    <3>1. \A s \in Sockets : fix[s].at = "free" => fix[s].name # n
      BY <1>3, <1>9 DEF DM, Leaving
    <3> QED
      BY <1>1, <1>3, <1>10, <3>1 DEF FreeOnce, ClaimInv
  <2> QED
    BY <1>5, <1>6, <1>7, <1>8, <1>9, <1>10, <2>1, <2>2 DEF ClaimInv
<1>11. CASE ~last
  <2>1. DM' = DM /\ FreeOnce'
    BY <1>3, <1>11, RxStays DEF ClaimInv
  <2> QED
    BY <1>5, <1>6, <1>7, <1>8, <1>9, <1>11, <2>1 DEF ClaimInv
<1> QED
  BY <1>10, <1>11

LEMMA LookupFreeStep ==
  ASSUME ClaimInv, LookupFree
  PROVE  ClaimInv'
<1>1. PICK n : n = msg.name
  OBVIOUS
<1>2. /\ rpc = "free" /\ n \in Names /\ priv' = __j1939_ecu_release(priv, n)
      /\ rpc' = "idle" /\ msg' = NoMsg
      /\ mode' = mode /\ armed' = armed /\ cb' = cb /\ lock' = lock /\ sock' = sock /\ fix' = fix
      /\ Counts(HM, UM, VM) /\ Consistent(priv, HM, UM, VM, DM)
  BY <1>1, Numbered DEF LookupFree, ClaimInv, RxInv, timerVars, sockVars
<1>3. TimerInv' /\ SockInv'
  BY <1>2 DEF ClaimInv, TimerInv, SockInv
<1>4. RxInv'
  <2>1. NoMsg \in MsgRec /\ NoMsg.name = NoName
    BY DEF NoMsg, MsgRec
  <2> QED
    BY <1>2, <2>1 DEF ClaimInv, RxInv
<1>5. UM' = UM /\ VM' = VM
  BY <1>2, SameSock
<1>6. HM' = HM
  <2>1. ASSUME NEW m \in Names PROVE HM'[m] = HM[m]
    <3>1. ~AtHand(m) /\ ~AtHand(m)'
      BY <1>2, Numbers DEF NoMsg, AtHand
    <3> QED
      BY <1>2, <1>5, <3>1, HolderSum, HolderSumNext, SameFix DEF One
  <2> QED
    BY <2>1, HoldersSame
<1>7. n \in DM
  BY <1>1, <1>2 DEF DM, Leaving
<1>8. Consistent(priv', HM, UM, VM, DM \ {n})
  BY <1>2, <1>7, ReleaseKeeps
<1>9. DM' = DM \ {n} /\ FreeOnce'
  <2>1. \A s \in Sockets : fix[s].at = "free" => fix[s].name # n
    BY <1>1, <1>2 DEF FreeOnce, ClaimInv
  <2> QED
    BY <1>1, <1>2, <2>1 DEF DM, Leaving, FreeOnce, ClaimInv
<1> QED
  BY <1>3, <1>4, <1>5, <1>6, <1>8, <1>9 DEF ClaimInv

\* Steps of sockets and of the device leave timers and the softirq alone.
LEMMA CtlKept ==
  ASSUME ClaimInv, UNCHANGED <<mode, timerVars, rxVars>>
  PROVE  /\ TimerInv' /\ RxInv' /\ (fix' = fix => DM' = DM /\ FreeOnce')
         /\ \A m \in Names :
              /\ UM[m] \in Nat /\ UM'[m] \in Nat
              /\ Cardinality(Fixing(m)) \in Nat /\ Cardinality(Fixing(m))' \in Nat
              /\ HM'[m] - HM[m] = (UM'[m] - UM[m])
                                  + (Cardinality(Fixing(m))' - Cardinality(Fixing(m)))
<1>1. mode' = mode /\ armed' = armed /\ cb' = cb /\ lock' = lock /\ rpc' = rpc /\ msg' = msg
  BY DEF timerVars, rxVars
<1>2. TimerInv'
  BY <1>1 DEF ClaimInv, TimerInv
<1>3. RxInv'
  BY <1>1 DEF ClaimInv, RxInv
<1>4. ASSUME NEW m \in Names
      PROVE  /\ UM[m] \in Nat /\ UM'[m] \in Nat
             /\ Cardinality(Fixing(m)) \in Nat /\ Cardinality(Fixing(m))' \in Nat
             /\ HM'[m] - HM[m] = (UM'[m] - UM[m])
                                 + (Cardinality(Fixing(m))' - Cardinality(Fixing(m)))
  <2>0. AtHand(m)' <=> AtHand(m)
    BY <1>1 DEF AtHand
  <2>1. /\ HM[m] = UM[m] + One(armed[m]) + One(cb[m] = "run") + One(AtHand(m))
                     + Cardinality(Fixing(m))
        /\ HM'[m] = UM'[m] + One(armed[m]) + One(cb[m] = "run") + One(AtHand(m)')
                     + Cardinality(Fixing(m))'
        /\ UM[m] \in Nat /\ Cardinality(Fixing(m)) \in Nat
        /\ UM'[m] \in Nat /\ Cardinality(Fixing(m))' \in Nat
    BY <1>1, HolderSum, HolderSumNext
  <2>2. PICK k \in Nat : k = One(armed[m]) + One(cb[m] = "run") + One(AtHand(m))
    BY DEF One
  <2>3. /\ HM[m] = UM[m] + k + Cardinality(Fixing(m))
        /\ HM'[m] = UM'[m] + k + Cardinality(Fixing(m))'
    BY <2>0, <2>1, <2>2 DEF One
  <2> QED
    BY <2>1, <2>2, <2>3
<1>5. ASSUME fix' = fix PROVE DM' = DM /\ FreeOnce'
  BY <1>1, <1>5, SameLeaving DEF ClaimInv
<1> QED
  BY <1>2, <1>3, <1>4, <1>5

\* What a socket that starts or stops being bound does to the holders.
LEMMA BoundHolders ==
  ASSUME ClaimInv, UNCHANGED <<mode, timerVars, rxVars>>, fix' = fix,
         NEW n \in Names \cup {NoName}, NEW d \in Int, UM' = Plus(UM, n, d)
  PROVE  HM' = Plus(HM, n, d)
<1>1. \A m \in Names : UM'[m] = UM[m] + (IF m = n THEN d ELSE 0)
  <2>1. UM \in [Names -> Nat]
    BY Numbered DEF Counts
  <2> QED
    BY <2>1 DEF Plus
<1>2. ASSUME NEW m \in Names PROVE HM'[m] = HM[m] + (IF m = n THEN d ELSE 0)
  <2>1. /\ UM[m] \in Nat /\ UM'[m] \in Nat /\ Cardinality(Fixing(m)) \in Nat
        /\ HM'[m] - HM[m] = (UM'[m] - UM[m]) + (Cardinality(Fixing(m)) - Cardinality(Fixing(m)))
    BY CtlKept, SameFix
  <2>2. HM[m] \in Nat /\ HM'[m] \in Nat
    BY Numbered, NumberedNext DEF Counts
  <2> QED
    BY <1>1, <2>1, <2>2
<1> QED
  BY <1>2, HoldersChange

\* Claims that are sent come and go.
LEMMA FixHolders ==
  ASSUME ClaimInv, UNCHANGED <<mode, timerVars, rxVars>>, sock' = sock,
         NEW n \in Names, NEW d \in Int,
         \A m \in Names : Cardinality(Fixing(m))' = Cardinality(Fixing(m)) + (IF m = n THEN d ELSE 0)
  PROVE  UM' = UM /\ VM' = VM /\ HM' = Plus(HM, n, d)
<1>1. UM' = UM /\ VM' = VM
  BY SameSock
<1>2. ASSUME NEW m \in Names PROVE HM'[m] = HM[m] + (IF m = n THEN d ELSE 0)
  <2>1. /\ UM[m] \in Nat /\ Cardinality(Fixing(m)) \in Nat
        /\ HM'[m] - HM[m] = (UM[m] - UM[m]) + (Cardinality(Fixing(m))' - Cardinality(Fixing(m)))
    BY <1>1, CtlKept
  <2>2. HM[m] \in Nat /\ HM'[m] \in Nat
    BY Numbered, NumberedNext DEF Counts
  <2>3. HM'[m] - HM[m] = (IF m = n THEN d ELSE 0)
    BY <2>1
  <2> QED
    BY <2>2, <2>3
<1> QED
  BY <1>1, <1>2, HoldersChange

LEMMA QuietHolders ==
  ASSUME ClaimInv, UNCHANGED <<mode, timerVars, rxVars>>, UM' = UM,
         \A m \in Names : Cardinality(Fixing(m))' = Cardinality(Fixing(m))
  PROVE  HM' = HM
<1>1. ASSUME NEW m \in Names PROVE HM'[m] = HM[m]
  <2>1. /\ UM[m] \in Nat /\ Cardinality(Fixing(m)) \in Nat
        /\ HM'[m] - HM[m] = (UM[m] - UM[m]) + (Cardinality(Fixing(m)) - Cardinality(Fixing(m)))
    BY CtlKept
  <2>2. HM[m] \in Nat /\ HM'[m] \in Nat
    BY Numbered, NumberedNext DEF Counts
  <2> QED
    BY <2>1, <2>2
<1> QED
  BY <1>1, HoldersSame

LEMMA SockTyped ==
  ASSUME SockInv, NEW s \in Sockets, fix' = fix,
         NEW st \in {"unbound", "binding", "bound", "closing", "closed"},
         sock' = [sock EXCEPT ![s].st = st]
  PROVE  SockInv'
<1>1. sock[s] \in SockRec /\ sock \in [Sockets -> SockRec]
  BY DEF SockInv
<1>2. [sock[s] EXCEPT !.st = st] \in SockRec
  BY <1>1 DEF SockRec
<1>3. sock' \in [Sockets -> SockRec]
  BY <1>1, <1>2
<1> QED
  BY <1>3 DEF SockInv

\* bind() begins, or fails: a socket that is not bound stays so.
LEMMA StartStep ==
  ASSUME ClaimInv, NEW s \in Sockets, j1939_netdev_start(s) \/ BindFails(s)
  PROVE  ClaimInv'
<1>1. PICK st \in {"binding", "closing"} : sock' = [sock EXCEPT ![s].st = st]
  BY DEF j1939_netdev_start, BindFails, SockStep
<1>2. sock[s].st # "bound" /\ UNCHANGED <<mode, timerVars, rxVars>> /\ fix' = fix /\ priv' = priv
  BY DEF j1939_netdev_start, BindFails, SockStep
<1>3. UM' = UM /\ VM' = VM
  BY <1>1, <1>2, SockWaits DEF ClaimInv
<1>4. HM' = HM
  BY <1>2, <1>3, SameFix, QuietHolders
<1>5. TimerInv' /\ RxInv' /\ DM' = DM /\ FreeOnce'
  BY <1>2, CtlKept
<1>6. SockInv'
  BY <1>1, <1>2, SockTyped DEF ClaimInv
<1> QED
  BY <1>2, <1>3, <1>4, <1>5, <1>6 DEF ClaimInv

LEMMA BindStep ==
  ASSUME ClaimInv, NEW s \in Sockets, NEW b \in Binds, Bind(s, b), ~raced'
  PROVE  ClaimInv'
<1>1. /\ sock[s].st # "bound" /\ sock' = [sock EXCEPT ![s] = [st |-> "bound", name |-> b.name, sa |-> b.sa]]
      /\ UNCHANGED <<mode, timerVars, rxVars>> /\ fix' = fix
      /\ priv' = j1939_local_ecu_get(priv, b.name, b.sa)
  BY DEF Bind, ClaimInv
<1>2. b.name \in Names \cup {NoName} /\ b.sa \in Addrs \cup {J1939_NO_ADDR}
  BY ClaimAssumption
<1>3. UM' = Plus(UM, b.name, 1) /\ VM' = Plus(VM, b.sa, 1)
  BY <1>1, <1>2, SockGains DEF ClaimInv
<1>4. HM' = Plus(HM, b.name, 1)
  BY <1>1, <1>2, <1>3, BoundHolders
<1>5. TimerInv' /\ RxInv' /\ DM' = DM /\ FreeOnce'
  BY <1>1, CtlKept
<1>6. SockInv'
  <2>1. [st |-> "bound", name |-> b.name, sa |-> b.sa] \in SockRec
    BY <1>2 DEF SockRec
  <2> QED
    BY <1>1, <2>1 DEF ClaimInv, SockInv
<1>7. b.name \notin DM
  BY DyingLeave, Numbers DEF Bind, Uses, InList, DM
<1>8. Consistent(priv', Plus(HM, b.name, 1), Plus(UM, b.name, 1), Plus(VM, b.sa, 1), DM)
  BY <1>1, <1>2, <1>7, Numbered, LocalGetKeeps DEF ClaimInv
<1> QED
  BY <1>3, <1>4, <1>5, <1>6, <1>8 DEF ClaimInv

\* close(), or bind() once more.
LEMMA UnbindStep ==
  ASSUME ClaimInv, NEW s \in Sockets, Rebind(s) \/ Release(s)
  PROVE  ClaimInv'
<1>1. PICK st \in {"binding", "closing"} : sock' = [sock EXCEPT ![s].st = st]
  BY DEF Rebind, Release, SockStep
<1>2. /\ sock[s].st = "bound" /\ UNCHANGED <<mode, timerVars, rxVars>> /\ fix' = fix
      /\ priv' = j1939_local_ecu_put(priv, sock[s].name, sock[s].sa)
  BY DEF Rebind, Release, SockStep, ClaimInv
<1>3. PICK n, a : n = sock[s].name /\ a = sock[s].sa
  OBVIOUS
<1>4. /\ UM' = Plus(UM, n, -1) /\ VM' = Plus(VM, a, -1) /\ n \in Names \cup {NoName}
      /\ n # NoName => UM[n] # 0
      /\ a \in Addrs => VM[a] # 0
  BY <1>1, <1>2, <1>3, SockLoses DEF ClaimInv
<1>5. HM' = Plus(HM, n, -1)
  BY <1>2, <1>4, BoundHolders
<1>6. TimerInv' /\ RxInv' /\ DM' = DM /\ FreeOnce'
  BY <1>2, CtlKept
<1>7. SockInv'
  BY <1>1, <1>2, SockTyped DEF ClaimInv
<1>8. Consistent(priv', Plus(HM, n, -1), Plus(UM, n, -1), Plus(VM, a, -1), DM)
  BY <1>2, <1>3, <1>4, Numbered, LocalPutKeeps DEF ClaimInv
<1> QED
  BY <1>4, <1>5, <1>6, <1>7, <1>8 DEF ClaimInv

\* The device is given back, or goes down.
LEMMA StopStep ==
  ASSUME ClaimInv, NEW s \in Sockets, j1939_netdev_stop(s)
  PROVE  ClaimInv'
<1>1. /\ sock' = [sock EXCEPT ![s].st = "closed"] /\ sock[s].st # "bound"
      /\ UNCHANGED <<mode, timerVars, rxVars>> /\ fix' = fix
      /\ priv' \in {j1939_ecu_unmap_all(priv), priv}
  BY DEF j1939_netdev_stop, SockStep, ClaimInv
<1>2. UM' = UM /\ VM' = VM
  BY <1>1, SockWaits DEF ClaimInv
<1>3. HM' = HM
  BY <1>1, <1>2, SameFix, QuietHolders
<1>4. TimerInv' /\ RxInv' /\ DM' = DM /\ FreeOnce'
  BY <1>1, CtlKept
<1>5. SockInv'
  BY <1>1, SockTyped DEF ClaimInv
<1>6. Consistent(priv', HM, UM, VM, DM)
  BY <1>1, Numbered, UnmapAllKeeps DEF ClaimInv
<1> QED
  BY <1>2, <1>3, <1>4, <1>5, <1>6 DEF ClaimInv

LEMMA DownStep ==
  ASSUME ClaimInv, NetdevDown
  PROVE  ClaimInv'
<1>1. /\ sock' = sock /\ UNCHANGED <<mode, timerVars, rxVars>> /\ fix' = fix
      /\ priv' = j1939_ecu_unmap_all(priv)
  BY DEF NetdevDown, sockVars, ClaimInv
<1>2. UM' = UM /\ VM' = VM
  BY <1>1, SameSock
<1>3. HM' = HM
  BY <1>1, <1>2, SameFix, QuietHolders
<1>4. TimerInv' /\ RxInv' /\ DM' = DM /\ FreeOnce'
  BY <1>1, CtlKept
<1>5. SockInv'
  BY <1>1 DEF ClaimInv, SockInv
<1>6. Consistent(priv', HM, UM, VM, DM)
  BY <1>1, Numbered, UnmapAllKeeps DEF ClaimInv
<1> QED
  BY <1>2, <1>3, <1>4, <1>5, <1>6 DEF ClaimInv

\* A claim is sent: from here to its end it holds the ECU.
LEMMA FixupStep ==
  ASSUME ClaimInv, NEW s \in Sockets, NEW sa \in Addrs, j1939_ac_fixup(s, sa), ~raced'
  PROVE  ClaimInv'
<1>1. PICK n : n = sock[s].name
  OBVIOUS
<1>2. PICK x : x = [at |-> "check", name |-> n, sa |-> sa]
  OBVIOUS
<1>3. /\ n \in Names /\ Known(priv, n) /\ fix[s] = NoFix
      /\ fix' = [fix EXCEPT ![s] = x] /\ priv' = j1939_ecu_get(priv, n)
      /\ UNCHANGED <<mode, timerVars, rxVars>> /\ sock' = sock /\ Dying = {}
  BY <1>1, <1>2 DEF j1939_ac_fixup, ClaimInv, SockInv, SockRec, Uses
<1>4. \A m \in Names :
        Cardinality(Fixing(m))' = Cardinality(Fixing(m)) + (IF m = n THEN 1 ELSE 0)
  BY <1>2, <1>3, FixGains DEF ClaimInv
<1>5. UM' = UM /\ VM' = VM /\ HM' = Plus(HM, n, 1)
  BY <1>3, <1>4, FixHolders
<1>6. TimerInv' /\ RxInv'
  BY <1>3, CtlKept
<1>7. x \in FixRec /\ x.at = "check" /\ x.name = n /\ NoFix.at = "off"
  BY <1>2, <1>3 DEF FixRec, NoFix
<1>8. SockInv'
  BY <1>3, <1>7 DEF ClaimInv, SockInv
<1>9. DM' = DM /\ FreeOnce'
  <2>1. fix[s].at = "off" /\ fix'[s].at = "check" /\ \A t \in Sockets : t # s => fix'[t] = fix[t]
    BY <1>3, <1>7 DEF ClaimInv, SockInv
  <2>2. rpc' = rpc /\ msg' = msg
    BY <1>3 DEF rxVars
  <2> QED
    BY <2>1, <2>2, FixStays DEF ClaimInv
<1>10. Consistent(priv', Plus(HM, n, 1), UM, VM, DM)
  BY <1>3, Numbered, DyingLeave, GetKeeps DEF ClaimInv
<1> QED
  BY <1>5, <1>6, <1>8, <1>9, <1>10 DEF ClaimInv

\* What a claim that is sent does next leaves the rest alone.
LEMMA FixRest ==
  ASSUME ClaimInv, NEW s \in Sockets, NEW from, from # "off",
         NEW to \in {"off", "unmap", "put", "free"}, FixStep(s, from, to)
  PROVE  /\ UNCHANGED <<mode, timerVars, rxVars>> /\ sock' = sock
         /\ TimerInv' /\ RxInv' /\ SockInv' /\ UM' = UM /\ VM' = VM
         /\ fix[s].at = from /\ fix[s].name \in Names
         /\ from # "free" /\ to # "free" => DM' = DM /\ FreeOnce'
<1>1. UNCHANGED <<mode, timerVars, rxVars>> /\ sock' = sock
  BY DEF FixStep
<1>2. TimerInv' /\ RxInv' /\ UM' = UM /\ VM' = VM
  BY <1>1, CtlKept, SameSock
<1>3. /\ SockInv' /\ fix[s].at = from /\ fix[s].name \in Names /\ fix'[s].at = to
      /\ \A t \in Sockets : t # s => fix'[t] = fix[t]
  BY FixMoves DEF ClaimInv
<1>4. ASSUME from # "free", to # "free" PROVE DM' = DM /\ FreeOnce'
  <2>1. rpc' = rpc /\ msg' = msg
    BY <1>1 DEF rxVars
  <2> QED
    BY <1>3, <1>4, <2>1, FixStays DEF ClaimInv
<1> QED
  BY <1>1, <1>2, <1>3, <1>4

LEMMA FixupUnmapStep ==
  ASSUME ClaimInv, NEW s \in Sockets, FixupCheck(s) \/ FixupUnmap(s)
  PROVE  ClaimInv'
<1>1. PICK from, to : /\ from \in {"check", "unmap"} /\ to \in {"unmap", "put"}
                      /\ FixStep(s, from, to)
                      /\ priv' \in {priv, j1939_ecu_unmap(priv, fix[s].name)}
  <2>1. CASE FixupCheck(s)
    BY <2>1 DEF FixupCheck
  <2>2. CASE FixupUnmap(s)
    BY <2>2 DEF FixupUnmap
  <2> QED
    BY <2>1, <2>2
<1>2. /\ UNCHANGED <<mode, timerVars, rxVars>> /\ sock' = sock
      /\ TimerInv' /\ RxInv' /\ SockInv' /\ UM' = UM /\ VM' = VM
      /\ fix[s].name \in Names /\ DM' = DM /\ FreeOnce'
  BY <1>1, FixRest
<1>3. HM' = HM
  BY <1>1, <1>2, FixHolds, QuietHolders DEF ClaimInv
<1>4. Consistent(priv', HM, UM, VM, DM)
  BY <1>1, <1>2, Numbered, UnmapKeeps DEF ClaimInv
<1> QED
  BY <1>2, <1>3, <1>4 DEF ClaimInv

LEMMA FixupPutStep ==
  ASSUME ClaimInv, NEW s \in Sockets, FixupPut(s)
  PROVE  ClaimInv'
<1>1. PICK n : n = fix[s].name
  OBVIOUS
<1>2. PICK to \in {"off", "free"} : to = IF priv.ecu[n].refs = 1 THEN "free" ELSE "off"
  OBVIOUS
<1>3. FixStep(s, "put", to) /\ priv' = Unlocked(priv, n)
  BY <1>1, <1>2 DEF FixupPut
<1>4. /\ UNCHANGED <<mode, timerVars, rxVars>> /\ sock' = sock
      /\ TimerInv' /\ RxInv' /\ SockInv' /\ UM' = UM /\ VM' = VM
      /\ n \in Names /\ (to # "free" => DM' = DM /\ FreeOnce')
  BY <1>1, <1>3, FixRest
<1>5. /\ Cardinality(Fixing(n)) # 0
      /\ \A m \in Names :
           Cardinality(Fixing(m))' = Cardinality(Fixing(m)) + (IF m = n THEN -1 ELSE 0)
  BY <1>1, <1>3, FixLoses DEF ClaimInv
<1>6. HM' = Plus(HM, n, -1)
  BY <1>4, <1>5, FixHolders
<1>7. UM[n] < HM[n]
  BY <1>4, <1>5, HolderSum DEF One
<1>8. /\ n \notin DM
      /\ to = "free" => Consistent(priv', Plus(HM, n, -1), UM, VM, DM \cup {n})
      /\ to # "free" => Consistent(priv', Plus(HM, n, -1), UM, VM, DM)
  BY <1>2, <1>3, <1>4, <1>7, Numbered, UnlockedKeeps DEF ClaimInv
<1>9. ASSUME to = "free" PROVE DM' = DM \cup {n} /\ FreeOnce'
  <2>1. /\ fix'[s].at = "free" /\ fix'[s].name = n /\ fix[s].at = "put"
        /\ (\A t \in Sockets : t # s => fix'[t] = fix[t]) /\ rpc' = rpc /\ msg' = msg
    BY <1>1, <1>3, <1>4, <1>9, FixMoves DEF rxVars, ClaimInv
  <2>2. (rpc = "free" => msg.name # n) /\ \A t \in Sockets : fix[t].at = "free" => fix[t].name # n
    BY <1>4, <1>8 DEF DM, Leaving
  <2>3. \A m : Leaving(m)' <=> Leaving(m) \/ m = n
    BY <2>1 DEF Leaving
  <2>4. FreeOnce'
    BY <2>1, <2>2 DEF FreeOnce, ClaimInv
  <2> QED
    BY <1>4, <2>3, <2>4 DEF DM
<1> QED
  BY <1>4, <1>6, <1>8, <1>9 DEF ClaimInv

LEMMA FixupFreeStep ==
  ASSUME ClaimInv, NEW s \in Sockets, FixupFree(s)
  PROVE  ClaimInv'
<1>1. PICK n : n = fix[s].name
  OBVIOUS
<1>2. FixStep(s, "free", "off") /\ priv' = __j1939_ecu_release(priv, n)
  BY <1>1 DEF FixupFree
<1>3. /\ UNCHANGED <<mode, timerVars, rxVars>> /\ sock' = sock
      /\ TimerInv' /\ RxInv' /\ SockInv' /\ UM' = UM /\ VM' = VM
      /\ fix[s].at = "free" /\ n \in Names
  BY <1>1, <1>2, FixRest
<1>4. HM' = HM
  BY <1>2, <1>3, FixFrees, QuietHolders DEF ClaimInv
<1>5. n \in DM
  BY <1>1, <1>3 DEF DM, Leaving
<1>6. Consistent(priv', HM, UM, VM, DM \ {n})
  BY <1>2, <1>3, <1>5, Numbered, ReleaseKeeps DEF ClaimInv
<1>7. DM' = DM \ {n} /\ FreeOnce'
  <2>1. /\ fix'[s].at = "off" /\ (\A t \in Sockets : t # s => fix'[t] = fix[t])
        /\ rpc' = rpc /\ msg' = msg
    BY <1>2, <1>3, FixMoves DEF rxVars, ClaimInv
  <2>2. /\ rpc = "free" => msg.name # n
        /\ \A t \in Sockets : t # s /\ fix[t].at = "free" => fix[t].name # n
    BY <1>1, <1>3 DEF FreeOnce, ClaimInv
  <2>3. \A m : Leaving(m)' <=> Leaving(m) /\ m # n
    BY <1>1, <1>3, <2>1, <2>2 DEF Leaving
  <2>4. FreeOnce'
    BY <2>1 DEF FreeOnce, ClaimInv
  <2> QED
    BY <2>3, <2>4 DEF DM
<1> QED
  BY <1>3, <1>4, <1>6, <1>7 DEF ClaimInv

LEMMA GraceStep ==
  ASSUME ClaimInv, GracePeriodEnds \/ UNCHANGED vars
  PROVE  ClaimInv'
<1>1. /\ sock' = sock /\ UNCHANGED <<mode, timerVars, rxVars>> /\ fix' = fix /\ priv' = priv
  BY DEF GracePeriodEnds, vars, sockVars
<1>2. UM' = UM /\ VM' = VM
  BY <1>1, SameSock
<1>3. HM' = HM
  BY <1>1, <1>2, SameFix, QuietHolders
<1>4. TimerInv' /\ RxInv' /\ DM' = DM /\ FreeOnce'
  BY <1>1, CtlKept
<1>5. SockInv'
  BY <1>1 DEF ClaimInv, SockInv
<1> QED
  BY <1>1, <1>2, <1>3, <1>4, <1>5 DEF ClaimInv

LEMMA NextInv == ClaimInv /\ [Next]_vars /\ ~raced' => ClaimInv'
<1> SUFFICES ASSUME ClaimInv, [Next]_vars, ~raced' PROVE ClaimInv'
  OBVIOUS
<1>1. ASSUME NEW n \in Names, Expire(n) \/ j1939_ecu_timer_handler(n) PROVE ClaimInv'
  BY <1>1, ExpireStep, HandlerStep
<1>2. ASSUME NEW n \in Names, NEW sa \in Addrs \cup {J1939_IDLE_ADDR}, ClaimArrives(n, sa)
      PROVE  ClaimInv'
  BY <1>2, ClaimArrivesStep
<1>3. ASSUME NEW a \in Addrs, Lookup(a) PROVE ClaimInv'
  BY <1>3, LookupStep
<1>4. CASE RxStep
  BY <1>4, ClaimProcessedStep, LookupPutStep, LookupFreeStep DEF RxStep
<1>5. ASSUME NEW s \in Sockets, SockNext(s) PROVE ClaimInv'
  <2>1. CASE j1939_netdev_start(s) \/ BindFails(s)
    BY <2>1, StartStep
  <2>2. ASSUME NEW b \in Binds, Bind(s, b) PROVE ClaimInv'
    BY <2>2, BindStep
  <2>3. CASE Rebind(s) \/ Release(s)
    BY <2>3, UnbindStep
  <2>4. CASE j1939_netdev_stop(s)
    BY <2>4, StopStep
  <2>5. ASSUME NEW sa \in Addrs, j1939_ac_fixup(s, sa) PROVE ClaimInv'
    BY <2>5, FixupStep
  <2>6. CASE FixupNext(s)
    BY <2>6, FixupUnmapStep, FixupPutStep, FixupFreeStep DEF FixupNext
  <2> QED
    BY <1>5, <2>1, <2>2, <2>3, <2>4, <2>5, <2>6 DEF SockNext
<1>6. CASE NetdevDown
  BY <1>6, DownStep
<1>7. CASE GracePeriodEnds \/ UNCHANGED vars
  BY <1>7, GraceStep
<1> QED
  BY <1>1, <1>2, <1>3, <1>4, <1>5, <1>6, <1>7 DEF Next

\* After the list was used while an ECU left it, the model says nothing more.
LEMMA RacedEnds == [Next]_vars /\ ~raced' => ~raced
<1> SUFFICES ASSUME [Next]_vars, raced PROVE raced'
  OBVIOUS
<1> USE DEF Uses, Apart, Unlists
<1>1. \A n \in Names : ~Expire(n) /\ ~j1939_ecu_timer_handler(n)
  BY DEF Expire, j1939_ecu_timer_handler
<1>2. \A n, sa : ~ClaimArrives(n, sa) /\ ~Lookup(n)
  BY DEF ClaimArrives, Lookup
<1>3. ~RxStep
  BY DEF RxStep, ClaimProcessed, LookupPut, LookupFree
<1>4. \A s \in Sockets : ~SockNext(s)
  <2> SUFFICES ASSUME NEW s \in Sockets PROVE ~SockNext(s)
    OBVIOUS
  <2>1. ~j1939_netdev_start(s) /\ ~BindFails(s) /\ ~Rebind(s) /\ ~Release(s) /\ ~j1939_netdev_stop(s)
    BY DEF j1939_netdev_start, BindFails, Rebind, Release, j1939_netdev_stop
  <2>2. \A x : ~Bind(s, x) /\ ~j1939_ac_fixup(s, x)
    BY DEF Bind, j1939_ac_fixup
  <2>3. ~FixupNext(s)
    BY DEF FixupNext, FixupCheck, FixupUnmap, FixupPut, FixupFree
  <2> QED
    BY <2>1, <2>2, <2>3 DEF SockNext
<1>5. ~GracePeriodEnds /\ ~NetdevDown
  BY DEF GracePeriodEnds, NetdevDown
<1> QED
  BY <1>1, <1>2, <1>3, <1>4, <1>5 DEF Next, vars

-----------------------------------------------------------------------------
(* What follows. *)

\* On every machine, whatever the order of claims, timers, binds, sent claims and
\* device events: as long as nobody has used the list of ECUs while one of them
\* left it without the lock, who is at an address is alive and claims it, and the
\* counts of holders and users are those of the sockets, timers, claims and
\* lookups there are.
THEOREM ClaimInvariant == Spec => [](~raced => ClaimInv)
<1>1. Init => ClaimInv
  BY InitInv
<1>2. (~raced => ClaimInv) /\ [Next]_vars => (~raced => ClaimInv)'
  BY NextInv, RacedEnds
<1> QED
  BY <1>1, <1>2, PTL DEF Spec

\* The transport protocol tells local addresses by ents[].nusers: it is the number
\* of sockets bound to the address and of those of the ECU that has claimed it.
THEOREM UsersAreCounted == Spec => []UsersCounted
<1>1. ClaimInv => UsersCounted
  <2> SUFFICES ASSUME ClaimInv, NEW a \in Addrs
               PROVE  priv.ents[a].nusers = Cardinality({s \in Bound : sock[s].sa = a})
                        + (IF priv.ents[a].ecu = NoName THEN 0
                           ELSE Cardinality(UsersOf(priv.ents[a].ecu)))
    BY DEF UsersCounted
  <2>1. priv.ents[a].ecu \in Names \cup {NoName}
    BY Numbered, EntKnown DEF ClaimInv
  <2>2. VM[a] = Cardinality({s \in Bound : sock[s].sa = a})
    BY DEF VM, AtAddr
  <2>3. priv.ents[a].ecu # NoName => UM[priv.ents[a].ecu] = Cardinality(UsersOf(priv.ents[a].ecu))
    BY <2>1 DEF UM
  <2>4. priv.ents[a].nusers = VM[a] + (IF priv.ents[a].ecu = NoName THEN 0 ELSE UM[priv.ents[a].ecu])
    BY DEF ClaimInv, Consistent
  <2> QED
    BY <2>2, <2>3, <2>4
<1>2. raced => UsersCounted
  BY DEF UsersCounted
<1> QED
  BY <1>1, <1>2, ClaimInvariant, PTL

\* No reference of an ECU is lost or put twice (j1939_ecu_get() and
\* j1939_ecu_put() of sockets, the address table, timers, received and sent
\* claims, lookups), and the ECU is freed by who puts the last.
THEOREM RefsAreExact == Spec => []RefsExact
<1>1. ClaimInv => RefsExact
  <2> SUFFICES ASSUME ClaimInv, NEW n \in Names
               PROVE  /\ priv.ecu[n].refs = Holders(n)
                      /\ Known(priv, n) <=> Holders(n) > 0 \/ Leaving(n)
    BY DEF RefsExact
  <2>1. Counts(HM, UM, VM) /\ Consistent(priv, HM, UM, VM, DM)
    BY Numbered DEF ClaimInv
  <2>2. /\ priv.ecu[n].refs = HM[n] + One(IsMapped(priv, n))
        /\ EcuFits(priv.ecu[n], HM[n], UM[n], IsMapped(priv, n), n \in DM)
    BY <2>1, EcuKnown DEF EcuFits, One
  <2> DEFINE At == {a \in Addrs : priv.ents[a].ecu = n}
  <2>3. Cardinality(At) = One(IsMapped(priv, n))
    <3>1. CASE IsMapped(priv, n)
      <4>1. At = {priv.ecu[n].addr}
        BY <2>1, <3>1, MappedThere DEF IsMapped
      <4> QED
        BY <3>1, <4>1, FS_Singleton DEF One
    <3>2. CASE ~IsMapped(priv, n)
      <4>1. At = {}
        BY <3>2 DEF IsMapped
      <4> QED
        BY <3>2, <4>1, FS_EmptySet DEF One
    <3> QED
      BY <3>1, <3>2
  <2>4. UM[n] = Cardinality(UsersOf(n)) /\ UM[n] \in Nat
    BY HolderSum DEF UM
  <2>5. Holders(n) = UM[n] + Cardinality(At) + One(armed[n]) + One(cb[n] = "run")
                     + One(AtHand(n)) + Cardinality(Fixing(n))
    BY <2>4 DEF Holders, One, Fixing, AtHand
  <2> HIDE DEF At
  <2>6. HM[n] = UM[n] + One(armed[n]) + One(cb[n] = "run") + One(AtHand(n))
                + Cardinality(Fixing(n)) /\ Cardinality(Fixing(n)) \in Nat
    BY HolderSum
  <2>7. priv.ecu[n].refs = Holders(n)
    BY <2>2, <2>3, <2>4, <2>5, <2>6 DEF One
  <2>8. (n \in DM) <=> Leaving(n)
    BY DEF DM
  <2>9. Known(priv, n) <=> priv.ecu[n].refs > 0 \/ Leaving(n)
    <3>1. CASE n \in DM
      BY <2>2, <2>8, <3>1 DEF Known, EcuFits
    <3>2. CASE n \notin DM
      <4>1. HM[n] + One(IsMapped(priv, n)) \in Nat
        BY <2>1, Numbered DEF Counts, One
      <4>2. CASE priv.ecu[n].refs = 0
        BY <2>2, <2>8, <3>2, <4>2 DEF Known, EcuFits, NoEcu
      <4>3. CASE priv.ecu[n].refs # 0
        <5>1. priv.ecu[n].refs > 0
          BY <2>2, <4>1, <4>3 DEF One
        <5>2. priv.ecu[n].st = "live"
          BY <2>2, <3>2, <4>3 DEF EcuFits, NoEcu
        <5> QED
          BY <5>1, <5>2 DEF Known
      <4> QED
        BY <4>2, <4>3
    <3> QED
      BY <3>1, <3>2
  <2> QED
    BY <2>7, <2>9
<1>2. raced => RefsExact
  BY DEF RefsExact
<1> QED
  BY <1>1, <1>2, ClaimInvariant, PTL

\* A socket that is bound to a NAME finds its ECU when it gives it back.
THEOREM BoundEcuLives == Spec => []EcuAlive
<1>1. ClaimInv => EcuAlive
  <2> SUFFICES ASSUME ClaimInv, NEW s \in Bound, sock[s].name # NoName
               PROVE  priv.ecu[sock[s].name].st = "live"
    BY DEF EcuAlive
  <2>1. PICK n \in Names : n = sock[s].name
    BY DEF Bound, ClaimInv, SockInv, SockRec
  <2>2. s \in UsersOf(n)
    BY <2>1 DEF UsersOf
  <2>3. Cardinality(UsersOf(n)) # 0
    BY <2>2, Finite, FS_EmptySet
  <2>4. UM[n] # 0
    BY <2>1, <2>3 DEF UM
  <2>5. HM[n] # 0
    BY <2>4, HolderSum DEF One
  <2> QED
    BY <2>1, <2>5, Numbered, HeldIsKnown DEF ClaimInv
<1>2. raced => EcuAlive
  BY DEF EcuAlive
<1> QED
  BY <1>1, <1>2, ClaimInvariant, PTL

-----------------------------------------------------------------------------
(* Where nobody uses the list while an ECU leaves it. *)

Calm == ~mode.sends /\ ~(mode.smp /\ mode.lookups)

\* Only lookups put without the lock, and then on the one processor there is.
CalmInv ==
  /\ ~raced /\ mode \in [smp : BOOLEAN, lookups : BOOLEAN, sends : BOOLEAN]
  /\ \A s \in Sockets : fix[s].at = "off"
  /\ rpc \in {"lookup", "free"} => ~mode.smp
  /\ ~mode.smp /\ rpc # "idle" => \A n \in Names : cb[n] # "run"

LEMMA CalmDying ==
  ASSUME ClaimInv, CalmInv
  PROVE  /\ rpc # "free" => Dying = {}
         /\ rpc = "free" => Dying \subseteq {msg.name}
  BY DyingLeave DEF CalmInv, DM, Leaving

\* While an ECU leaves the list, the processor does nothing else.
LEMMA CalmBusy ==
  ASSUME ClaimInv, CalmInv, Calm, Next, rpc = "free"
  PROVE  LookupFree \/ \E s \in Sockets : j1939_netdev_start(s)
<1>1. ~CpuFree /\ ~Locked
  BY DEF Locked, CpuFree, Running, CalmInv
<1>2. \A n \in Names : ~Expire(n) /\ ~j1939_ecu_timer_handler(n)
  BY <1>1 DEF Expire, j1939_ecu_timer_handler, CalmInv
<1>3. \A n, sa : ~ClaimArrives(n, sa) /\ ~Lookup(n)
  BY DEF ClaimArrives, Lookup, RxIdle
<1>4. ~ClaimProcessed /\ ~LookupPut /\ ~GracePeriodEnds /\ ~NetdevDown
  BY <1>1 DEF ClaimProcessed, LookupPut, GracePeriodEnds, NetdevDown
<1>5. \A s \in Sockets : SockNext(s) => j1939_netdev_start(s)
  <2> SUFFICES ASSUME NEW s \in Sockets, ~j1939_netdev_start(s) PROVE ~SockNext(s)
    OBVIOUS
  <2>1. ~BindFails(s) /\ ~Rebind(s) /\ ~Release(s) /\ ~j1939_netdev_stop(s)
    BY <1>1 DEF BindFails, Rebind, Release, j1939_netdev_stop
  <2>2. \A x : ~Bind(s, x) /\ ~j1939_ac_fixup(s, x)
    BY <1>1 DEF Bind, j1939_ac_fixup
  <2>3. ~FixupNext(s)
    BY <1>1 DEF FixupNext, FixupCheck, FixupUnmap, FixupPut, FixupFree, FixStep
  <2> QED
    BY <2>1, <2>2, <2>3 DEF SockNext
<1> QED
  BY <1>2, <1>3, <1>4, <1>5 DEF Next, RxStep

\* Nobody is on the way out: the list may be used.
LEMMA NobodyDies ==
  ASSUME CalmInv, Dying = {}
  PROVE  /\ Apart => ~raced'
         /\ Unlists => ~raced'
         /\ Uses(Dying) => ~raced'
         /\ \A n : Uses(Dying \ {n}) => ~raced'
         /\ \A n : Uses(InList(n)) => ~raced'
<1>1. Apart => ~raced'
  BY DEF Apart, CalmInv
<1>2. ASSUME NEW S, S = {}, Uses(S) PROVE ~raced'
  BY <1>2 DEF Uses
<1>3. {m \in Dying : \E n \in Names : priv.ecu[n].st # priv'.ecu[n].st} = {}
  OBVIOUS
<1>4. Unlists => ~raced'
  BY <1>2, <1>3 DEF Unlists
<1>5. \A n : Dying \ {n} = {} /\ InList(n) = {}
  BY DEF InList
<1> QED
  BY <1>1, <1>2, <1>4, <1>5

LEMMA CalmQuiet ==
  ASSUME ClaimInv, CalmInv, Calm, [Next]_vars
  PROVE  /\ ~raced' /\ mode' = mode /\ fix' = fix
<1>1. CASE UNCHANGED vars
  BY <1>1 DEF vars, sockVars, CalmInv
<1>2. CASE Next /\ rpc = "free"
  <2>1. CASE LookupFree
    <3>1. Dying \ {msg.name} = {}
      BY <1>2, CalmDying
    <3>2. ~raced'
      BY <2>1, <3>1 DEF LookupFree, Uses
    <3> QED
      BY <2>1, <3>2 DEF LookupFree, sockVars
  <2>2. CASE \E s \in Sockets : j1939_netdev_start(s)
    BY <2>2 DEF j1939_netdev_start, Apart, CalmInv
  <2> QED
    BY <1>2, <2>1, <2>2, CalmBusy
<1>3. CASE Next /\ rpc # "free"
  <2>1. Dying = {}
    BY <1>3, CalmDying
  <2>2. ASSUME NEW n \in Names, Expire(n) \/ j1939_ecu_timer_handler(n)
        PROVE  ~raced' /\ mode' = mode /\ fix' = fix
    BY <2>1, <2>2, NobodyDies DEF Expire, j1939_ecu_timer_handler, sockVars
  <2>3. ASSUME NEW n, NEW sa, ClaimArrives(n, sa) \/ Lookup(n)
        PROVE  ~raced' /\ mode' = mode /\ fix' = fix
    BY <2>1, <2>3, NobodyDies DEF ClaimArrives, Lookup, sockVars
  <2>4. CASE RxStep
    BY <1>3, <2>1, <2>4, NobodyDies DEF RxStep, ClaimProcessed, LookupPut, LookupFree, sockVars
  <2>5. ASSUME NEW s \in Sockets, SockNext(s)
        PROVE  ~raced' /\ mode' = mode /\ fix' = fix
    <3>1. CASE j1939_netdev_start(s) \/ BindFails(s) \/ Rebind(s) \/ Release(s) \/ j1939_netdev_stop(s)
      BY <2>1, <3>1, NobodyDies
         DEF j1939_netdev_start, BindFails, Rebind, Release, j1939_netdev_stop
    <3>2. ASSUME NEW b, Bind(s, b) PROVE ~raced' /\ mode' = mode /\ fix' = fix
      BY <2>1, <3>2, NobodyDies DEF Bind
    <3>3. \A sa : ~j1939_ac_fixup(s, sa)
      BY DEF j1939_ac_fixup, Calm
    <3>4. ~FixupNext(s)
      BY DEF FixupNext, FixupCheck, FixupUnmap, FixupPut, FixupFree, FixStep, CalmInv
    <3> QED
      BY <2>5, <3>1, <3>2, <3>3, <3>4 DEF SockNext
  <2>6. CASE GracePeriodEnds \/ NetdevDown
    BY <2>1, <2>6, NobodyDies DEF GracePeriodEnds, NetdevDown, sockVars
  <2> QED
    BY <1>3, <2>2, <2>3, <2>4, <2>5, <2>6 DEF Next
<1> QED
  BY <1>1, <1>2, <1>3

\* Who is on the processor.
LEMMA CalmRx ==
  ASSUME ClaimInv, CalmInv, Calm, [Next]_vars, mode' = mode
  PROVE  /\ rpc' \in {"lookup", "free"} => ~mode.smp
         /\ ~mode.smp /\ rpc' # "idle" => \A n \in Names : cb'[n] # "run"
<1> DEFINE Goal == /\ rpc' \in {"lookup", "free"} => ~mode.smp
                   /\ ~mode.smp /\ rpc' # "idle" => \A n \in Names : cb'[n] # "run"
<1> USE DEF CalmInv
<1>0. cb \in [Names -> {"off", "run"}]
  BY DEF ClaimInv, TimerInv
<1>1. ASSUME rpc' = rpc, cb' = cb PROVE Goal
  BY <1>1
<1>2. ASSUME NEW n \in Names, Expire(n) PROVE Goal
  BY <1>2 DEF Expire, CpuFree, Running, rxVars
<1>3. ASSUME NEW n \in Names, j1939_ecu_timer_handler(n) PROVE Goal
  BY <1>0, <1>3 DEF j1939_ecu_timer_handler, rxVars
<1>4. ASSUME NEW n, NEW sa, ClaimArrives(n, sa) \/ Lookup(n) PROVE Goal
  BY <1>4 DEF ClaimArrives, Lookup, RxIdle, Locked, CpuFree, Running, timerVars, Calm
<1>5. CASE RxStep
  BY <1>5 DEF RxStep, ClaimProcessed, LookupPut, LookupFree, timerVars
<1>6. ASSUME NEW s \in Sockets, SockNext(s) PROVE Goal
  <2>1. CASE j1939_netdev_start(s) \/ BindFails(s) \/ Rebind(s) \/ Release(s) \/ j1939_netdev_stop(s)
    BY <1>1, <2>1 DEF j1939_netdev_start, BindFails, Rebind, Release, j1939_netdev_stop,
                      timerVars, rxVars
  <2>2. ASSUME NEW b, Bind(s, b) \/ j1939_ac_fixup(s, b) PROVE Goal
    BY <1>1, <2>2 DEF Bind, j1939_ac_fixup, timerVars, rxVars
  <2>3. CASE FixupNext(s)
    BY <1>1, <2>3 DEF FixupNext, FixupCheck, FixupUnmap, FixupPut, FixupFree, FixStep,
                      timerVars, rxVars
  <2> QED
    BY <1>6, <2>1, <2>2, <2>3 DEF SockNext
<1>7. CASE GracePeriodEnds \/ NetdevDown \/ UNCHANGED vars
  BY <1>1, <1>7 DEF GracePeriodEnds, NetdevDown, vars, timerVars, rxVars
<1> QED
  BY <1>2, <1>3, <1>4, <1>5, <1>6, <1>7 DEF Next

\* Where no socket sends claims and, on several processors, nothing but claims is
\* received, the unlocked put of an ECU hurts nobody: there, what is proved above
\* holds of every state.
THEOREM RaceFree == Spec => []NeverRaced
<1>1. Init => (Calm => CalmInv)
  <2> SUFFICES ASSUME Init PROVE CalmInv
    OBVIOUS
  <2>1. mode \in [smp : BOOLEAN, lookups : BOOLEAN, sends : BOOLEAN]
    BY ClaimAssumption DEF Init
  <2> QED
    BY <2>1 DEF Init, CalmInv, NoFix
<1>2. (~raced => ClaimInv) /\ (Calm => CalmInv) /\ [Next]_vars => (Calm => CalmInv)'
  <2> SUFFICES ASSUME ~raced => ClaimInv, Calm => CalmInv, [Next]_vars, Calm' PROVE CalmInv'
    OBVIOUS
  <2>1. mode' = mode
    BY DEF Next, vars, Expire, j1939_ecu_timer_handler, ClaimArrives, Lookup, RxStep,
           ClaimProcessed, LookupPut, LookupFree, SockNext, j1939_netdev_start, Bind, BindFails,
           Rebind, Release, j1939_netdev_stop, j1939_ac_fixup, FixupNext, FixupCheck, FixupUnmap,
           FixupPut, FixupFree, FixStep, GracePeriodEnds, NetdevDown
  <2>2. Calm /\ CalmInv /\ ClaimInv
    BY <2>1 DEF Calm, CalmInv
  <2>3. ~raced' /\ fix' = fix
    BY <2>2, CalmQuiet
  <2>4. /\ rpc' \in {"lookup", "free"} => ~mode.smp
        /\ ~mode.smp /\ rpc' # "idle" => \A n \in Names : cb'[n] # "run"
    BY <2>1, <2>2, CalmRx
  <2> QED
    BY <2>1, <2>2, <2>3, <2>4 DEF CalmInv
<1>3. (Calm => CalmInv) => NeverRaced
  BY DEF Calm, CalmInv, NeverRaced
<1> QED
  BY <1>1, <1>2, <1>3, ClaimInvariant, PTL DEF Spec

-----------------------------------------------------------------------------
(* Who gives way.  This holds on every machine, and needs types only. *)

TypeInv ==
  /\ priv \in PrivRec /\ SockInv
  /\ (lock <=> rpc = "cancel") /\ msg \in MsgRec
  /\ rpc # "idle" => msg.name \in Names
  /\ rpc = "cancel" => msg.sa # J1939_NO_ADDR

\* The ECUs at the addresses are those of before, or are gone.
Stay(p, q)  == q \in PrivRec /\ \A a \in Addrs : q.ents[a].ecu = p.ents[a].ecu
Leave(p, q) == q \in PrivRec /\ \A a \in Addrs : q.ents[a].ecu \in {p.ents[a].ecu, NoName}
Freed(p, q, n) == Leave(p, q) /\ \A a \in Addrs : p.ents[a].ecu # n => q.ents[a].ecu = p.ents[a].ecu

LEMMA PrivTyped ==
  ASSUME NEW p \in PrivRec
  PROVE  /\ p = [ecu |-> p.ecu, ents |-> p.ents]
         /\ p.ecu \in [Names -> EcuRec] /\ p.ents \in [Addrs -> EntRec]
  BY DEF PrivRec

LEMMA SetEcu ==
  ASSUME NEW p \in PrivRec, NEW n \in Names, NEW e \in EcuRec
  PROVE  Stay(p, [p EXCEPT !.ecu[n] = e])
  BY DEF PrivRec, Stay

LEMMA NoEcuTyped == NoEcu \in EcuRec
  BY DEF NoEcu, EcuRec

LEMMA PutStays ==
  ASSUME NEW p \in PrivRec, NEW n \in Names
  PROVE  Stay(p, j1939_ecu_put(p, n))
<1>1. PICK e : e = IF p.ecu[n].refs = 1 THEN NoEcu ELSE [p.ecu[n] EXCEPT !.refs = @ - 1]
  OBVIOUS
<1>2. e \in EcuRec
  BY <1>1, PrivTyped, NoEcuTyped DEF EcuRec
<1>3. j1939_ecu_put(p, n) = [p EXCEPT !.ecu[n] = e]
  BY <1>1, PrivTyped DEF j1939_ecu_put
<1> QED
  BY <1>2, <1>3, SetEcu

LEMMA UnlockedStays ==
  ASSUME NEW p \in PrivRec, NEW n \in Names
  PROVE  Stay(p, Unlocked(p, n)) /\ Stay(p, __j1939_ecu_release(p, n))
<1>1. PICK e : e = [p.ecu[n] EXCEPT !.st = "dead", !.refs = 0]
  OBVIOUS
<1>2. PICK f : f = p.ecu[n]
  OBVIOUS
<1>3. f \in [st : {"none", "live", "dead"}, addr : Addrs \cup {J1939_IDLE_ADDR},
             refs : Int, nusers : Int]
  BY <1>2, PrivTyped DEF EcuRec
<1>4. e = [st |-> "dead", addr |-> f.addr, refs |-> 0, nusers |-> f.nusers]
  BY <1>1, <1>2, <1>3
<1>5. e \in EcuRec
  BY <1>3, <1>4 DEF EcuRec
<1>6. p.ecu[n].refs = 1 => Unlocked(p, n) = [p EXCEPT !.ecu[n] = e]
  BY <1>1, PrivTyped DEF Unlocked
<1>7. p.ecu[n].refs # 1 => Unlocked(p, n) = j1939_ecu_put(p, n)
  BY DEF Unlocked
<1>8. Stay(p, Unlocked(p, n))
  BY <1>5, <1>6, <1>7, SetEcu, PutStays
<1>9. Stay(p, __j1939_ecu_release(p, n))
  BY NoEcuTyped, SetEcu DEF __j1939_ecu_release
<1> QED
  BY <1>8, <1>9

LEMMA GetStays ==
  ASSUME NEW p \in PrivRec, NEW n \in Names
  PROVE  Stay(p, j1939_ecu_get(p, n)) /\ Stay(p, j1939_ecu_create(p, n))
<1>1. PICK e : e = [p.ecu[n] EXCEPT !.refs = @ + 1]
  OBVIOUS
<1>2. e \in EcuRec
  BY <1>1, PrivTyped DEF EcuRec
<1>3. j1939_ecu_get(p, n) = [p EXCEPT !.ecu[n] = e]
  BY <1>1, PrivTyped DEF j1939_ecu_get
<1>4. PICK f : f = [NoEcu EXCEPT !.st = "live", !.refs = 1]
  OBVIOUS
<1>5. f = [st |-> "live", addr |-> J1939_IDLE_ADDR, refs |-> 1, nusers |-> 0]
  BY <1>4 DEF NoEcu
<1>6. f \in EcuRec
  BY <1>5 DEF EcuRec
<1>7. j1939_ecu_create(p, n) = [p EXCEPT !.ecu[n] = f]
  BY <1>4 DEF j1939_ecu_create
<1> QED
  BY <1>2, <1>3, <1>6, <1>7, SetEcu

LEMMA CountStays ==
  ASSUME NEW p \in PrivRec, NEW sa, NEW d \in Int
  PROVE  Stay(p, CountUser(p, sa, d))
<1>1. CASE sa \notin Addrs
  BY <1>1 DEF CountUser, Stay
<1>2. CASE sa \in Addrs
  <2>1. PICK x : x = [ecu |-> p.ents[sa].ecu, nusers |-> p.ents[sa].nusers + d]
    OBVIOUS
  <2>2. x \in EntRec /\ x.ecu = p.ents[sa].ecu
    BY <1>2, <2>1, PrivTyped DEF EntRec
  <2>3. [p.ents[sa] EXCEPT !.nusers = @ + d] = x
    BY <1>2, <2>1, PrivTyped DEF EntRec
  <2>4. CountUser(p, sa, d) = [p EXCEPT !.ents[sa] = [p.ents[sa] EXCEPT !.nusers = @ + d]]
    BY <1>2 DEF CountUser
  <2>5. CountUser(p, sa, d) = [ecu |-> p.ecu, ents |-> [p.ents EXCEPT ![sa] = x]]
    BY <2>3, <2>4, PrivTyped
  <2> QED
    BY <1>2, <2>2, <2>5, PrivTyped DEF PrivRec, Stay
<1> QED
  BY <1>1, <1>2

LEMMA CountEcuStays ==
  ASSUME NEW p \in PrivRec, NEW n \in Names, NEW d \in Int
  PROVE  Stay(p, CountEcuUser(p, n, d))
<1>1. PICK e : e = [p.ecu[n] EXCEPT !.nusers = @ + d]
  OBVIOUS
<1>2. e \in EcuRec
  BY <1>1, PrivTyped DEF EcuRec
<1>3. PICK r : r = [p EXCEPT !.ecu[n].nusers = @ + d]
  OBVIOUS
<1>4. r = [p EXCEPT !.ecu[n] = e]
  BY <1>1, <1>3, PrivTyped
<1>5. Stay(p, r)
  BY <1>2, <1>4, SetEcu
<1>6. PICK a : a = IF j1939_ecu_is_mapped(p, n) THEN p.ecu[n].addr ELSE J1939_NO_ADDR
  OBVIOUS
<1>7. CountEcuUser(p, n, d) = CountUser(r, a, d)
  BY <1>3, <1>6 DEF CountEcuUser
<1>8. Stay(r, CountUser(r, a, d))
  BY <1>5, CountStays DEF Stay
<1> QED
  BY <1>5, <1>7, <1>8 DEF Stay

LEMMA LocalStays ==
  ASSUME NEW p \in PrivRec, NEW n \in Names \cup {NoName}, NEW sa
  PROVE  Stay(p, j1939_local_ecu_get(p, n, sa)) /\ Stay(p, j1939_local_ecu_put(p, n, sa))
<1>1. ASSUME NEW d \in {1, -1} PROVE Stay(p, CountUser(p, sa, d)) /\ CountUser(p, sa, d) \in PrivRec
  BY CountStays DEF Stay
<1>2. Stay(p, j1939_local_ecu_get(p, n, sa))
  <2>1. PICK q : q = CountUser(p, sa, 1)
    OBVIOUS
  <2>2. CASE n = NoName
    BY <1>1, <2>1, <2>2 DEF j1939_local_ecu_get
  <2>3. CASE n # NoName
    <3>1. PICK r : r = IF Known(q, n) THEN j1939_ecu_get(q, n) ELSE j1939_ecu_create(q, n)
      OBVIOUS
    <3>2. Stay(q, r)
      BY <1>1, <2>1, <2>3, <3>1, GetStays
    <3>3. Stay(r, CountEcuUser(r, n, 1))
      BY <2>3, <3>2, CountEcuStays DEF Stay
    <3>4. j1939_local_ecu_get(p, n, sa) = CountEcuUser(r, n, 1)
      BY <2>1, <2>3, <3>1 DEF j1939_local_ecu_get
    <3> QED
      BY <1>1, <2>1, <3>2, <3>3, <3>4 DEF Stay
  <2> QED
    BY <2>2, <2>3
<1>3. Stay(p, j1939_local_ecu_put(p, n, sa))
  <2>1. PICK q : q = CountUser(p, sa, -1)
    OBVIOUS
  <2>2. CASE n = NoName
    BY <1>1, <2>1, <2>2 DEF j1939_local_ecu_put
  <2>3. CASE n # NoName
    <3>1. PICK r : r = CountEcuUser(q, n, -1)
      OBVIOUS
    <3>2. Stay(q, r)
      BY <1>1, <2>1, <2>3, <3>1, CountEcuStays
    <3>3. Stay(r, j1939_ecu_put(r, n))
      BY <2>3, <3>2, PutStays DEF Stay
    <3>4. j1939_local_ecu_put(p, n, sa) = j1939_ecu_put(r, n)
      BY <2>1, <2>3, <3>1 DEF j1939_local_ecu_put
    <3> QED
      BY <1>1, <2>1, <3>2, <3>3, <3>4 DEF Stay
  <2> QED
    BY <2>2, <2>3
<1> QED
  BY <1>2, <1>3

\* Unmapping ECU n frees no address of another.
LEMMA UnmapFrees ==
  ASSUME NEW p \in PrivRec, NEW n \in Names
  PROVE  Freed(p, j1939_ecu_unmap(p, n), n)
<1>1. CASE ~j1939_ecu_is_mapped(p, n)
  BY <1>1 DEF j1939_ecu_unmap, Freed, Leave
<1>2. CASE j1939_ecu_is_mapped(p, n)
  <2>1. PICK a \in Addrs : a = p.ecu[n].addr /\ p.ents[a].ecu = n
    BY <1>2 DEF j1939_ecu_is_mapped
  <2>2. PICK x : x = [ecu |-> NoName, nusers |-> p.ents[a].nusers - p.ecu[n].nusers]
    OBVIOUS
  <2>3. x \in EntRec /\ x.ecu = NoName
    <3>1. p.ents[a].nusers \in Int /\ p.ecu[n].nusers \in Int
      BY PrivTyped DEF EntRec, EcuRec
    <3> QED
      BY <2>2, <3>1 DEF EntRec
  <2>4. PICK q : q = [ecu |-> p.ecu, ents |-> [p.ents EXCEPT ![a] = x]]
    OBVIOUS
  <2>5. q \in PrivRec /\ \A b \in Addrs : q.ents[b].ecu = IF b = a THEN NoName ELSE p.ents[b].ecu
    BY <2>3, <2>4, PrivTyped DEF PrivRec
  <2>6. j1939_ecu_unmap(p, n) = j1939_ecu_put(q, n)
    <3>1. [p EXCEPT !.ents[p.ecu[n].addr] = [ecu |-> NoName, nusers |-> @.nusers - p.ecu[n].nusers]] = q
      BY <2>1, <2>2, <2>4, PrivTyped
    <3> QED
      BY <1>2, <3>1 DEF j1939_ecu_unmap
  <2>7. Stay(q, j1939_ecu_put(q, n))
    BY <2>5, PutStays
  <2> QED
    BY <2>1, <2>5, <2>6, <2>7 DEF Stay, Leave, Freed
<1> QED
  BY <1>1, <1>2

\* Mapping takes an address nobody has.
LEMMA MapTakes ==
  ASSUME NEW p \in PrivRec, NEW n \in Names
  PROVE  /\ j1939_ecu_map(p, n) \in PrivRec
         /\ \A a \in Addrs : p.ents[a].ecu # NoName => j1939_ecu_map(p, n).ents[a].ecu = p.ents[a].ecu
<1>1. CASE ~(p.ecu[n].addr \in Addrs /\ p.ents[p.ecu[n].addr].ecu = NoName)
  BY <1>1 DEF j1939_ecu_map
<1>2. CASE p.ecu[n].addr \in Addrs /\ p.ents[p.ecu[n].addr].ecu = NoName
  <2>1. PICK a \in Addrs : a = p.ecu[n].addr /\ p.ents[a].ecu = NoName
    BY <1>2
  <2>2. PICK x : x = [ecu |-> n, nusers |-> p.ents[a].nusers + p.ecu[n].nusers]
    OBVIOUS
  <2>3. x \in EntRec /\ x.ecu = n
    <3>1. p.ents[a].nusers \in Int /\ p.ecu[n].nusers \in Int
      BY PrivTyped DEF EntRec, EcuRec
    <3> QED
      BY <2>2, <3>1 DEF EntRec
  <2>4. PICK q : q = [ecu |-> p.ecu, ents |-> [p.ents EXCEPT ![a] = x]]
    OBVIOUS
  <2>5. q \in PrivRec /\ \A b \in Addrs : q.ents[b].ecu = IF b = a THEN n ELSE p.ents[b].ecu
    BY <2>3, <2>4, PrivTyped DEF PrivRec
  <2>6. j1939_ecu_map(p, n) = j1939_ecu_get(q, n)
    <3>1. [p EXCEPT !.ents[a] = [ecu |-> n, nusers |-> @.nusers + p.ecu[n].nusers]] = q
      BY <2>1, <2>2, <2>4, PrivTyped
    <3> QED
      BY <1>2, <2>1, <3>1 DEF j1939_ecu_map
  <2>7. Stay(q, j1939_ecu_get(q, n))
    BY <2>5, GetStays
  <2> QED
    BY <2>1, <2>5, <2>6, <2>7 DEF Stay
<1> QED
  BY <1>1, <1>2

LEMMA UnmapAllFrees ==
  ASSUME NEW p \in PrivRec
  PROVE  Leave(p, j1939_ecu_unmap_all(p))
<1>1. PICK q : q = j1939_ecu_unmap_all(p)
  OBVIOUS
<1>2. /\ q.ecu = [n \in Names |-> j1939_ecu_unmap(p, n).ecu[n]]
      /\ q.ents = [a \in Addrs |-> IF p.ents[a].ecu = NoName THEN p.ents[a]
                           ELSE j1939_ecu_unmap(p, p.ents[a].ecu).ents[a]]
      /\ q = [ecu |-> q.ecu, ents |-> q.ents]
  BY <1>1 DEF j1939_ecu_unmap_all
<1>3. \A n \in Names : j1939_ecu_unmap(p, n) \in PrivRec
  BY UnmapFrees DEF Freed, Leave
<1>4. ASSUME NEW a \in Addrs
      PROVE  q.ents[a] \in EntRec /\ q.ents[a].ecu \in {p.ents[a].ecu, NoName}
  <2>1. p.ents[a] \in EntRec /\ p.ents[a].ecu \in Names \cup {NoName}
    BY PrivTyped DEF EntRec
  <2>2. CASE p.ents[a].ecu = NoName
    BY <1>2, <2>1, <2>2
  <2>3. CASE p.ents[a].ecu # NoName
    <3>1. PICK n \in Names : n = p.ents[a].ecu
      BY <2>1, <2>3
    <3>2. q.ents[a] = j1939_ecu_unmap(p, n).ents[a]
      BY <1>2, <2>3, <3>1
    <3>3. j1939_ecu_unmap(p, n).ents[a] \in EntRec
      BY <1>3, PrivTyped
    <3> QED
      BY <3>2, <3>3, UnmapFrees DEF Freed, Leave
  <2> QED
    BY <2>2, <2>3
<1>5. \A n \in Names : j1939_ecu_unmap(p, n).ecu[n] \in EcuRec
  BY <1>3, PrivTyped
<1>6. q \in PrivRec
  BY <1>2, <1>4, <1>5 DEF PrivRec
<1> QED
  BY <1>1, <1>4, <1>6 DEF Leave

LEMMA MovedFrees ==
  ASSUME NEW p \in PrivRec, NEW n \in Names, NEW sa \in Addrs \cup {J1939_IDLE_ADDR}
  PROVE  Freed(p, Moved(p, n, sa), n)
<1>1. PICK q : q = j1939_ecu_unmap(p, n)
  OBVIOUS
<1>2. Freed(p, q, n) /\ q \in PrivRec
  BY <1>1, UnmapFrees DEF Freed, Leave
<1>3. PICK e : e = [q.ecu[n] EXCEPT !.addr = sa]
  OBVIOUS
<1>4. e \in EcuRec
  BY <1>2, <1>3, PrivTyped DEF EcuRec
<1>5. Moved(p, n, sa) = [q EXCEPT !.ecu[n] = e]
  BY <1>1, <1>2, <1>3, PrivTyped DEF Moved
<1>6. Stay(q, Moved(p, n, sa))
  BY <1>2, <1>4, <1>5, SetEcu
<1> QED
  BY <1>2, <1>6 DEF Freed, Leave, Stay

LEMMA KickedFrees ==
  ASSUME NEW p \in PrivRec, NEW sa \in Addrs
  PROVE  Leave(p, Kicked(p, sa)) /\ Freed(p, Kicked(p, sa), p.ents[sa].ecu)
<1>1. CASE p.ents[sa].ecu = NoName
  BY <1>1 DEF Kicked, Leave, Freed
<1>2. CASE p.ents[sa].ecu # NoName
  <2>1. PICK n \in Names : n = p.ents[sa].ecu
    BY <1>2, PrivTyped DEF EntRec
  <2> QED
    BY <1>2, <2>1, UnmapFrees DEF Kicked, Freed
<1> QED
  BY <1>1, <1>2

\* What a step may do to the address table.
GivesWay ==
  \A a \in Addrs :
    priv.ents[a].ecu # NoName /\ priv'.ents[a].ecu # priv.ents[a].ecu =>
      /\ priv'.ents[a].ecu = NoName
      /\ rpc = "cancel" /\ msg.sa = a => msg.name <= priv.ents[a].ecu

LEMMA LeaveGivesWay ==
  ASSUME TypeInv, rpc # "cancel", Leave(priv, priv')
  PROVE  priv' \in PrivRec /\ GivesWay
  BY DEF Leave, GivesWay

LEMMA StayGivesWay ==
  ASSUME TypeInv, Stay(priv, priv')
  PROVE  priv' \in PrivRec /\ GivesWay
  BY DEF Stay, GivesWay
\* The claim of a higher NAME frees only the address that NAME had.
LEMMA ClaimGivesWay ==
  ASSUME TypeInv, ClaimProcessed
  PROVE  TypeInv' /\ GivesWay
<1> DEFINE starts(p) == msg.sa \in Addrs /\ Wins(p, msg.name, msg.sa)
<1>1. PICK n : n = msg.name
  OBVIOUS
<1>2. PICK p : p = j1939_ecu_timer_cancel(priv, n)
  OBVIOUS
<1>3. /\ rpc = "cancel"
      /\ priv' = CASE msg.sa = J1939_IDLE_ADDR -> j1939_ecu_put(j1939_ecu_unmap(p, n), n)
                   [] starts(p) -> Kicked(Moved(p, n, msg.sa), msg.sa)
                   [] OTHER -> j1939_ecu_put(Moved(p, n, msg.sa), n)
      /\ lock' = FALSE /\ rpc' = "idle" /\ msg' = NoMsg /\ sock' = sock /\ fix' = fix
  BY <1>1, <1>2 DEF ClaimProcessed, sockVars
<1>4. n \in Names /\ n \in Nat /\ n # NoName /\ msg.sa \in Addrs \cup {J1939_IDLE_ADDR}
  BY <1>1, <1>3, Numbers DEF TypeInv, MsgRec
<1>5. Stay(priv, p) /\ p \in PrivRec
  BY <1>2, <1>4, PutStays DEF j1939_ecu_timer_cancel, TypeInv, Stay
<1> HIDE DEF starts
<1>6. ASSUME starts(p) PROVE priv' \in PrivRec /\ GivesWay
  <2>1. msg.sa \in Addrs /\ msg.sa # J1939_IDLE_ADDR /\ Wins(p, n, msg.sa)
    BY <1>1, <1>6, Numbers DEF starts
  <2>2. PICK q : q = Moved(p, n, msg.sa)
    OBVIOUS
  <2>3. Freed(p, q, n) /\ q \in PrivRec
    BY <1>4, <1>5, <2>2, MovedFrees DEF Freed, Leave
  <2>4. priv' = Kicked(q, msg.sa)
    BY <1>3, <1>6, <2>1, <2>2
  <2>5. Leave(q, priv') /\ Freed(q, priv', q.ents[msg.sa].ecu)
    BY <2>1, <2>3, <2>4, KickedFrees
  <2>6. GivesWay
    <3> SUFFICES ASSUME NEW a \in Addrs, NEW k, k = priv.ents[a].ecu, k # NoName,
                        priv'.ents[a].ecu # k
                 PROVE  /\ priv'.ents[a].ecu = NoName
                        /\ msg.sa = a => msg.name <= k
      BY DEF GivesWay
    <3>1. p.ents[a].ecu = k
      BY <1>5 DEF Stay
    <3>2. CASE k = n
      <4>1. priv'.ents[a].ecu = NoName
        BY <2>3, <2>5, <3>1 DEF Freed, Leave
      <4> QED
        BY <1>1, <1>4, <3>2, <4>1
    <3>3. CASE k # n
      <4>1. q.ents[a].ecu = k
        BY <2>3, <3>1, <3>3 DEF Freed
      <4>2. priv'.ents[a].ecu = NoName
        BY <2>5, <4>1 DEF Leave
      <4>3. msg.sa = a => n <= k
        BY <2>1, <3>1 DEF Wins
      <4> QED
        BY <1>1, <4>2, <4>3
    <3> QED
      BY <3>2, <3>3
  <2> QED
    BY <2>5, <2>6 DEF Leave
<1>7. ASSUME ~starts(p) PROVE priv' \in PrivRec /\ GivesWay
  <2>1. PICK q : q = IF msg.sa = J1939_IDLE_ADDR THEN j1939_ecu_unmap(p, n) ELSE Moved(p, n, msg.sa)
    OBVIOUS
  <2>2. Freed(p, q, n) /\ q \in PrivRec
    BY <1>4, <1>5, <2>1, UnmapFrees, MovedFrees DEF Freed, Leave
  <2>3. priv' = j1939_ecu_put(q, n)
    BY <1>3, <1>7, <2>1
  <2>4. Stay(q, priv')
    BY <1>4, <2>2, <2>3, PutStays
  <2>5. GivesWay
    <3> SUFFICES ASSUME NEW a \in Addrs, NEW k, k = priv.ents[a].ecu, k # NoName,
                        priv'.ents[a].ecu # k
                 PROVE  /\ priv'.ents[a].ecu = NoName
                        /\ msg.sa = a => msg.name <= k
      BY DEF GivesWay
    <3>1. p.ents[a].ecu = k /\ q.ents[a].ecu # k
      BY <1>5, <2>4 DEF Stay
    <3>2. k = n /\ priv'.ents[a].ecu = NoName
      BY <2>2, <2>4, <3>1 DEF Freed, Leave, Stay
    <3> QED
      BY <1>1, <1>4, <3>2
  <2> QED
    BY <2>4, <2>5 DEF Stay
<1>8. priv' \in PrivRec /\ GivesWay
  BY <1>6, <1>7
<1>9. TypeInv'
  <2>1. NoMsg \in MsgRec
    BY DEF NoMsg, MsgRec
  <2> QED
    BY <1>3, <1>8, <2>1 DEF TypeInv, SockInv
<1> QED
  BY <1>8, <1>9

LEMMA RxGivesWay ==
  ASSUME TypeInv,
         \/ \E n \in Names, sa \in Addrs \cup {J1939_IDLE_ADDR} : ClaimArrives(n, sa)
         \/ \E a \in Addrs : Lookup(a)
         \/ RxStep
  PROVE  TypeInv' /\ GivesWay
<1>1. ASSUME NEW n \in Names, NEW sa \in Addrs \cup {J1939_IDLE_ADDR}, ClaimArrives(n, sa)
      PROVE  TypeInv' /\ GivesWay
  <2>1. /\ priv' = IF Known(priv, n) THEN j1939_ecu_get(priv, n) ELSE j1939_ecu_create(priv, n)
        /\ lock' = TRUE /\ rpc' = "cancel" /\ msg' = [name |-> n, sa |-> sa]
        /\ sock' = sock /\ fix' = fix
    BY <1>1 DEF ClaimArrives, sockVars
  <2>2. Stay(priv, priv')
    BY <2>1, GetStays DEF TypeInv
  <2>3. msg' \in MsgRec /\ msg'.name = n /\ msg'.sa # J1939_NO_ADDR
    BY <2>1, Numbers DEF MsgRec
  <2> QED
    BY <2>1, <2>2, <2>3, StayGivesWay DEF TypeInv, SockInv
<1>2. ASSUME NEW a \in Addrs, Lookup(a) PROVE TypeInv' /\ GivesWay
  <2>1. PICK n : n = priv.ents[a].ecu
    OBVIOUS
  <2>2. /\ priv' = j1939_ecu_get(priv, n) /\ n # NoName /\ rpc' = "lookup" /\ rpc = "idle"
        /\ msg' = [NoMsg EXCEPT !.name = n] /\ sock' = sock /\ fix' = fix /\ lock' = lock
    BY <1>2, <2>1 DEF Lookup, RxIdle, sockVars
  <2>3. n \in Names
    BY <2>1, <2>2, PrivTyped DEF TypeInv, EntRec
  <2>4. Stay(priv, priv')
    BY <2>2, <2>3, GetStays DEF TypeInv
  <2>5. msg' = [name |-> n, sa |-> J1939_NO_ADDR]
    BY <2>2 DEF NoMsg
  <2>6. msg' \in MsgRec /\ msg'.name = n
    BY <2>3, <2>5 DEF MsgRec
  <2> QED
    BY <2>2, <2>3, <2>4, <2>6, StayGivesWay DEF TypeInv, SockInv
<1>3. CASE LookupPut \/ LookupFree
  <2>1. PICK n : n = msg.name
    OBVIOUS
  <2>2. /\ n \in Names /\ priv \in PrivRec /\ rpc \in {"lookup", "free"} /\ lock' = lock
        /\ sock' = sock /\ fix' = fix
        /\ priv' \in {Unlocked(priv, n), __j1939_ecu_release(priv, n)}
        /\ \/ rpc' = "free" /\ msg' = msg
           \/ rpc' = "idle" /\ msg' = NoMsg
    BY <1>3, <2>1 DEF LookupPut, LookupFree, TypeInv, sockVars
  <2>3. Stay(priv, priv')
    BY <2>2, UnlockedStays
  <2>4. NoMsg \in MsgRec
    BY DEF NoMsg, MsgRec
  <2> QED
    BY <2>1, <2>2, <2>3, <2>4, StayGivesWay DEF TypeInv, SockInv
<1> QED
  BY <1>1, <1>2, <1>3, ClaimGivesWay DEF RxStep

LEMMA TimerGivesWay ==
  ASSUME TypeInv, NEW n \in Names, Expire(n) \/ j1939_ecu_timer_handler(n)
  PROVE  TypeInv' /\ GivesWay
<1>1. /\ lock' = lock /\ rpc' = rpc /\ msg' = msg /\ sock' = sock /\ fix' = fix /\ priv \in PrivRec
  BY DEF Expire, j1939_ecu_timer_handler, rxVars, sockVars, TypeInv
<1>2. CASE Expire(n)
  BY <1>1, <1>2 DEF Expire, TypeInv, SockInv, GivesWay
<1>3. CASE j1939_ecu_timer_handler(n)
  <2>1. PICK q : q = j1939_ecu_map(priv, n)
    OBVIOUS
  <2>2. q \in PrivRec /\ \A a \in Addrs : priv.ents[a].ecu # NoName => q.ents[a].ecu = priv.ents[a].ecu
    BY <1>1, <2>1, MapTakes
  <2>3. Stay(q, priv')
    BY <1>3, <2>1, <2>2, PutStays DEF j1939_ecu_timer_handler
  <2> QED
    BY <1>1, <2>2, <2>3 DEF Stay, GivesWay, TypeInv, SockInv
<1> QED
  BY <1>2, <1>3

LEMMA SocksGiveWay ==
  ASSUME TypeInv, NetdevDown \/ \E s \in Sockets : SockNext(s)
  PROVE  TypeInv' /\ GivesWay
<1>1. priv \in PrivRec /\ SockInv /\ rpc' = rpc /\ lock' = lock /\ msg' = msg
  BY DEF NetdevDown, SockNext, j1939_netdev_start, Bind, BindFails, Rebind, Release,
         j1939_netdev_stop, j1939_ac_fixup, FixupNext, FixupCheck, FixupUnmap, FixupPut,
         FixupFree, FixStep, rxVars, TypeInv
<1>2. SockInv' /\ priv' \in PrivRec /\ GivesWay => TypeInv' /\ GivesWay
  BY <1>1 DEF TypeInv
<1>3. CASE NetdevDown
  <2>1. rpc # "cancel" /\ sock' = sock /\ fix' = fix
    BY <1>3 DEF NetdevDown, Locked, TypeInv, sockVars
  <2>2. Leave(priv, priv')
    BY <1>1, <1>3, UnmapAllFrees DEF NetdevDown
  <2> QED
    BY <1>1, <1>2, <2>1, <2>2, LeaveGivesWay DEF SockInv
<1>4. ASSUME NEW s \in Sockets, SockNext(s) PROVE SockInv' /\ priv' \in PrivRec /\ GivesWay
  <2>1. CASE j1939_netdev_start(s) \/ BindFails(s)
    <3>1. PICK st \in {"binding", "closing"} : sock' = [sock EXCEPT ![s].st = st]
      BY <2>1 DEF j1939_netdev_start, BindFails, SockStep
    <3>2. fix' = fix /\ Stay(priv, priv')
      BY <1>1, <2>1 DEF j1939_netdev_start, BindFails, Stay
    <3> QED
      BY <1>1, <3>1, <3>2, SockTyped, StayGivesWay
  <2>2. ASSUME NEW b \in Binds, Bind(s, b) PROVE SockInv' /\ priv' \in PrivRec /\ GivesWay
    <3>1. b.name \in Names \cup {NoName} /\ b.sa \in Addrs \cup {J1939_NO_ADDR}
      BY ClaimAssumption
    <3>2. [st |-> "bound", name |-> b.name, sa |-> b.sa] \in SockRec
      BY <3>1 DEF SockRec
    <3>3. SockInv'
      BY <1>1, <2>2, <3>2 DEF Bind, SockInv
    <3>4. Stay(priv, priv')
      BY <1>1, <2>2, <3>1, LocalStays DEF Bind
    <3> QED
      BY <3>3, <3>4, StayGivesWay
  <2>3. CASE Rebind(s) \/ Release(s)
    <3>1. PICK st \in {"binding", "closing"} : sock' = [sock EXCEPT ![s].st = st]
      BY <2>3 DEF Rebind, Release, SockStep
    <3>2. fix' = fix /\ priv' = j1939_local_ecu_put(priv, sock[s].name, sock[s].sa)
      BY <2>3 DEF Rebind, Release
    <3>3. sock[s].name \in Names \cup {NoName}
      BY <1>1 DEF SockInv, SockRec
    <3>4. Stay(priv, priv')
      BY <1>1, <3>2, <3>3, LocalStays
    <3> QED
      BY <1>1, <3>1, <3>2, <3>4, SockTyped, StayGivesWay
  <2>4. CASE j1939_netdev_stop(s)
    <3>1. sock' = [sock EXCEPT ![s].st = "closed"] /\ fix' = fix /\ rpc # "cancel"
      BY <2>4 DEF j1939_netdev_stop, SockStep, Locked, TypeInv
    <3>2. Leave(priv, priv')
      BY <1>1, <2>4, UnmapAllFrees DEF j1939_netdev_stop, Leave
    <3> QED
      BY <1>1, <3>1, <3>2, SockTyped, LeaveGivesWay
  <2>5. ASSUME NEW sa \in Addrs, j1939_ac_fixup(s, sa) PROVE SockInv' /\ priv' \in PrivRec /\ GivesWay
    <3>1. PICK n \in Names : n = sock[s].name
      BY <1>1, <2>5 DEF j1939_ac_fixup, SockInv, SockRec
    <3>2. PICK x : x = [at |-> "check", name |-> n, sa |-> sa]
      OBVIOUS
    <3>3. fix' = [fix EXCEPT ![s] = x] /\ sock' = sock /\ priv' = j1939_ecu_get(priv, n)
          /\ x \in FixRec /\ x.at = "check" /\ x.name = n
      BY <2>5, <3>1, <3>2 DEF j1939_ac_fixup, FixRec
    <3>4. SockInv'
      BY <1>1, <3>3 DEF SockInv
    <3>5. Stay(priv, priv')
      BY <1>1, <3>3, GetStays
    <3> QED
      BY <3>4, <3>5, StayGivesWay
  <2>6. CASE FixupNext(s)
    <3>1. PICK from, to : /\ from # "off" /\ to \in {"off", "unmap", "put", "free"}
                          /\ FixStep(s, from, to)
      BY <2>6 DEF FixupNext, FixupCheck, FixupUnmap, FixupPut, FixupFree
    <3>2. SockInv' /\ fix[s].name \in Names
      BY <1>1, <3>1, FixMoves
    <3>3. CASE FixupUnmap(s)
      <4>1. rpc # "cancel"
        BY <3>3 DEF FixupUnmap, TypeInv
      <4>2. Leave(priv, priv')
        BY <1>1, <3>2, <3>3, UnmapFrees DEF FixupUnmap, Freed
      <4> QED
        BY <3>2, <4>1, <4>2, LeaveGivesWay
    <3>4. CASE FixupCheck(s) \/ FixupPut(s) \/ FixupFree(s)
      <4>1. Stay(priv, priv')
        BY <1>1, <3>2, <3>4, UnlockedStays DEF FixupCheck, FixupPut, FixupFree, Stay
      <4> QED
        BY <3>2, <4>1, StayGivesWay
    <3> QED
      BY <2>6, <3>3, <3>4 DEF FixupNext
  <2> QED
    BY <1>4, <2>1, <2>2, <2>3, <2>4, <2>5, <2>6 DEF SockNext
<1> QED
  BY <1>2, <1>3, <1>4

\* A claim of a higher NAME takes an address from nobody, and an address passes
\* from one ECU to another only by being free in between: j1939_ac_process()
\* unmaps the loser, the timer maps the winner.  On any machine.
THEOREM LowerNameKeepsAddress == Spec => LowerNameStays
<1>1. Init => TypeInv
  <2> SUFFICES ASSUME Init PROVE TypeInv
    OBVIOUS
  <2>1. NoEcu \in EcuRec /\ [ecu |-> NoName, nusers |-> 0] \in EntRec /\ NoMsg \in MsgRec
        /\ Unbound \in SockRec /\ NoFix \in FixRec /\ NoFix.at = "off"
    BY DEF NoEcu, EcuRec, EntRec, NoMsg, MsgRec, Unbound, SockRec, NoFix, FixRec
  <2> QED
    BY <2>1 DEF Init, TypeInv, PrivRec, SockInv
<1>2. TypeInv /\ [Next]_vars => TypeInv' /\ GivesWay
  <2> SUFFICES ASSUME TypeInv, [Next]_vars PROVE TypeInv' /\ GivesWay
    OBVIOUS
  <2>1. CASE GracePeriodEnds \/ UNCHANGED vars
    BY <2>1 DEF GracePeriodEnds, vars, rxVars, sockVars, TypeInv, SockInv, GivesWay
  <2>2. CASE \E n \in Names : Expire(n) \/ j1939_ecu_timer_handler(n)
    BY <2>2, TimerGivesWay
  <2>3. CASE \/ \E n \in Names, sa \in Addrs \cup {J1939_IDLE_ADDR} : ClaimArrives(n, sa)
             \/ \E a \in Addrs : Lookup(a)
             \/ RxStep
    BY <2>3, RxGivesWay
  <2>4. CASE NetdevDown \/ \E s \in Sockets : SockNext(s)
    BY <2>4, SocksGiveWay
  <2> QED
    BY <2>1, <2>2, <2>3, <2>4 DEF Next
<1>3. GivesWay =>
        [\A a \in Addrs :
           LET n == priv.ents[a].ecu m == priv'.ents[a].ecu IN
           n # NoName /\ m # n =>
             m = NoName /\ (rpc = "cancel" /\ msg.sa = a => msg.name <= n)]_vars
  BY DEF GivesWay
<1> QED
  BY <1>1, <1>2, <1>3, PTL DEF Spec, LowerNameStays

=============================================================================
