---------------------------- MODULE PartyProofs ----------------------------
(***************************************************************************)
(* One order of the members of a group, however many play through the proxy *)
(* and in whatever order their lists are handled.                           *)
(***************************************************************************)
EXTENDS Party, FiniteSetTheorems, TLAPS

\* A set of characters is finite, and no larger than all of them.
LEMMA SomeCharacters ==
    ASSUME NEW S \in SUBSET Characters
    PROVE  /\ IsFiniteSet(S) /\ S \subseteq Nat
           /\ Cardinality(S) \in Nat /\ Cardinality(S) <= Cardinality(Characters)
<1>1. IsFiniteSet(S) /\ Cardinality(S) <= Cardinality(Characters)
    BY PartyCharacters, FS_Subset
<1> QED BY <1>1, PartyCharacters, FS_CardinalityType

\* The place of a character among newcomers ordered by their GUIDs.
Place(new, m) == Cardinality({k \in new : k <= m})

\* Places start at one and none is beyond the number of newcomers.
LEMMA PlaceRange ==
    ASSUME NEW new \in SUBSET Characters, NEW m \in new
    PROVE  Place(new, m) \in 1..Cardinality(new)
<1> DEFINE upTo == {k \in new : k <= m}
<1>1. /\ IsFiniteSet(new) /\ Cardinality(new) \in Nat
      /\ IsFiniteSet(upTo) /\ Cardinality(upTo) \in Nat
      /\ m \in Nat
    BY SomeCharacters
<1>2. Cardinality(upTo) <= Cardinality(new)
    BY <1>1, FS_Subset
<1>3. m \in upTo
    BY <1>1
<1>4. Cardinality(upTo) # 0
    BY <1>1, <1>3, FS_EmptySet
<1> HIDE DEF upTo
<1>5. Cardinality(upTo) \in 1..Cardinality(new)
    BY <1>1, <1>2, <1>4
<1> QED BY <1>5 DEF Place, upTo

\* Of two newcomers the one with the lower GUID is placed first.
LEMMA PlaceOrder ==
    ASSUME NEW new \in SUBSET Characters, NEW m \in new, NEW n \in new, m < n
    PROVE  Place(new, m) < Place(new, n)
<1> DEFINE upTo(k) == {j \in new : j <= k}
<1>1. /\ IsFiniteSet(upTo(m)) /\ Cardinality(upTo(m)) \in Nat
      /\ IsFiniteSet(upTo(n)) /\ Cardinality(upTo(n)) \in Nat
      /\ m \in Nat /\ n \in Nat /\ new \subseteq Nat
    BY SomeCharacters
<1>2. upTo(m) \subseteq upTo(n) \ {n}
  <2> SUFFICES ASSUME NEW j \in new, j <= m PROVE j <= n /\ j # n
      OBVIOUS
  <2>1. j \in Nat
      BY <1>1
  <2> QED BY <1>1, <2>1
<1>3. n \in upTo(n)
    BY <1>1
<1> HIDE DEF upTo
<1>4. /\ IsFiniteSet(upTo(n) \ {n})
      /\ Cardinality(upTo(n) \ {n}) = Cardinality(upTo(n)) - 1
    BY <1>1, <1>3, FS_RemoveElement
<1>5. Cardinality(upTo(m)) <= Cardinality(upTo(n) \ {n})
    BY <1>2, <1>4, FS_Subset
<1>6. Cardinality(upTo(m)) < Cardinality(upTo(n))
    BY <1>1, <1>4, <1>5
<1> QED BY <1>6 DEF Place, upTo

-----------------------------------------------------------------------------
\* An order gives each of its members a place of his own, and has no more
\* places than members.
Order(r) ==
    /\ DOMAIN r \in SUBSET Characters
    /\ r = [m \in DOMAIN r |-> r[m]]
    /\ \A m \in DOMAIN r : r[m] \in 1..Cardinality(DOMAIN r)
    /\ \A m, n \in DOMAIN r : m # n => r[m] # r[n]

LEMMA OrderIsRanks == ASSUME NEW r, Order(r) PROVE r \in Ranks
<1>1. /\ Cardinality(DOMAIN r) \in Nat /\ Cardinality(Characters) \in Nat
      /\ Cardinality(DOMAIN r) <= Cardinality(Characters)
    BY SomeCharacters DEF Order
<1>2. \A m \in DOMAIN r : r[m] \in 1..Cardinality(Characters)
    BY <1>1 DEF Order
<1>3. r \in [DOMAIN r -> 1..Cardinality(Characters)]
    BY <1>2 DEF Order
<1> QED BY <1>3 DEF Ranks, Order

\* No ranks are an order.
LEMMA NoOrder == Order(NoRanks)
BY DEF Order, NoRanks

\* The leader before anyone else is an order.
LEMMA LeadOrder ==
    ASSUME NEW r, Order(r), NEW l, NEW ms \in SUBSET Characters
    PROVE  /\ Order(Lead(r, l, ms))
           /\ DOMAIN r \subseteq DOMAIN Lead(r, l, ms)
           /\ DOMAIN Lead(r, l, ms) \subseteq DOMAIN r \cup ms
           /\ \A m \in DOMAIN r : Lead(r, l, ms)[m] = r[m]
<1>1. CASE DOMAIN r = {} /\ l \in ms
  <2> DEFINE one == [m \in {l} |-> 1]
  <2>1. Lead(r, l, ms) = one
      BY <1>1 DEF Lead
  <2>2. Cardinality({l}) = 1
      BY FS_Singleton
  <2>3. Order(one)
      BY <1>1, <2>2 DEF Order
  <2> QED BY <1>1, <2>1, <2>3
<1>2. CASE ~(DOMAIN r = {} /\ l \in ms)
  <2>1. Lead(r, l, ms) = r
      BY <1>2 DEF Lead
  <2> QED BY <2>1
<1> QED BY <1>1, <1>2

\* Newcomers extend an order to an order, and nobody's place changes.
LEMMA ExtendOrder ==
    ASSUME NEW r, Order(r), NEW ms \in SUBSET Characters
    PROVE  /\ Order(Extend(r, ms))
           /\ DOMAIN Extend(r, ms) = DOMAIN r \cup ms
           /\ \A m \in DOMAIN r : Extend(r, ms)[m] = r[m]
<1> DEFINE old == DOMAIN r
           new == ms \ old
           ext == Extend(r, ms)
<1>1. /\ old \in SUBSET Characters /\ new \in SUBSET Characters
      /\ IsFiniteSet(old) /\ IsFiniteSet(new)
      /\ Cardinality(old) \in Nat /\ Cardinality(new) \in Nat
    BY SomeCharacters DEF Order
<1>2. /\ DOMAIN ext = old \cup new
      /\ ext = [m \in DOMAIN ext |-> ext[m]]
      /\ \A m \in old : ext[m] = r[m]
      /\ \A m \in new : ext[m] = Cardinality(old) + Place(new, m)
    BY DEF Extend, Place
<1>3. Cardinality(old \cup new) = Cardinality(old) + Cardinality(new)
  <2>1. old \cap new = {}
      OBVIOUS
  <2>2. Cardinality(old \cap new) = 0
      BY <2>1, FS_EmptySet
  <2>3. Cardinality(old \cup new)
          = Cardinality(old) + Cardinality(new) - Cardinality(old \cap new)
      BY <1>1, FS_Union
  <2> QED BY <1>1, <2>2, <2>3
<1>4. \A m \in old : r[m] \in 1..Cardinality(old)
    BY DEF Order
<1>5. \A m \in new : Place(new, m) \in 1..Cardinality(new)
    BY <1>1, PlaceRange
<1>6. \A m, n \in new : m # n => Place(new, m) # Place(new, n)
  <2> SUFFICES ASSUME NEW m \in new, NEW n \in new, m # n
               PROVE  Place(new, m) # Place(new, n)
      OBVIOUS
  <2>1. m \in Nat /\ n \in Nat
      BY <1>1, SomeCharacters
  <2>2. Place(new, m) \in Nat /\ Place(new, n) \in Nat
      BY <1>1, <1>5
  <2>3. CASE m < n
      BY <1>1, <2>2, <2>3, PlaceOrder
  <2>4. CASE n < m
      BY <1>1, <2>2, <2>4, PlaceOrder
  <2> QED BY <2>1, <2>3, <2>4
<1>7. \A m, n \in old : m # n => r[m] # r[n]
    BY DEF Order
<1>8. old \cup new \in SUBSET Characters
    BY <1>1
<1> HIDE DEF old, new, ext
<1>9. \A m \in DOMAIN ext : ext[m] \in 1..Cardinality(DOMAIN ext)
    BY <1>1, <1>2, <1>3, <1>4, <1>5
<1>10. \A m, n \in DOMAIN ext : m # n => ext[m] # ext[n]
  <2> SUFFICES ASSUME NEW m \in DOMAIN ext, NEW n \in DOMAIN ext, m # n
               PROVE  ext[m] # ext[n]
      OBVIOUS
  <2>1. \A k \in old, j \in new : ext[k] < ext[j]
      BY <1>1, <1>2, <1>4, <1>5
  <2>2. \A k \in old \cup new : ext[k] \in Nat
      BY <1>1, <1>2, <1>4, <1>5
  <2>3. CASE m \in old /\ n \in old
      BY <1>2, <1>7, <2>3
  <2>4. CASE m \in new /\ n \in new
      BY <1>1, <1>2, <1>5, <1>6, <2>4
  <2>5. CASE m \in old /\ n \in new
      BY <2>1, <2>2, <2>5
  <2>6. CASE m \in new /\ n \in old
      BY <2>1, <2>2, <2>6
  <2> QED BY <1>2, <2>3, <2>4, <2>5, <2>6
<1>11. Order(ext)
    BY <1>2, <1>8, <1>9, <1>10 DEF Order
<1>12. old \cup new = old \cup ms
    BY DEF new
<1> QED BY <1>2, <1>11, <1>12 DEF ext, old

\* stablePartyOrder makes an order of an order, has everyone in it, and keeps
\* every place that was given.
LEMMA StableOrder ==
    ASSUME NEW r, Order(r), NEW l, NEW ms \in SUBSET Characters
    PROVE  /\ Order(StablePartyOrder(r, l, ms))
           /\ ms \subseteq DOMAIN StablePartyOrder(r, l, ms)
           /\ DOMAIN r \subseteq DOMAIN StablePartyOrder(r, l, ms)
           /\ DOMAIN StablePartyOrder(r, l, ms) \subseteq DOMAIN r \cup ms
           /\ \A m \in DOMAIN r : StablePartyOrder(r, l, ms)[m] = r[m]
<1> DEFINE led == Lead(r, l, ms)
<1>1. /\ Order(led) /\ DOMAIN r \subseteq DOMAIN led /\ DOMAIN led \subseteq DOMAIN r \cup ms
      /\ \A m \in DOMAIN r : led[m] = r[m]
    BY LeadOrder
<1> HIDE DEF led
<1>2. /\ Order(Extend(led, ms))
      /\ DOMAIN Extend(led, ms) = DOMAIN led \cup ms
      /\ \A m \in DOMAIN led : Extend(led, ms)[m] = led[m]
    BY <1>1, ExtendOrder
<1>3. StablePartyOrder(r, l, ms) = Extend(led, ms)
    BY DEF StablePartyOrder, led
<1> QED BY <1>1, <1>2, <1>3

-----------------------------------------------------------------------------
\* The types, with the two facts they rest on: the realm's group has a leader
\* and a number while it has members, and what the server keeps are orders.
RealmTypes ==
    /\ group \in Nat /\ group <= MaxGroups
    /\ leader \in Characters \cup {NoLeader} /\ members \in SUBSET Characters
    /\ members # {} => leader \in Characters /\ group \in Groups
    /\ online \in SUBSET Characters /\ changes \in Nat
MailTypes == mail \in [Characters -> Seq(Packets)]
ProxyTypes ==
    /\ partyOrders \in [Groups -> Ranks]
    /\ \A g \in Groups : Order(partyOrders[g])
    /\ party \in [Characters -> Groups \cup {NoGroup}]
    /\ roster \in [Characters -> Ranks]
    /\ drawn \in SUBSET (Groups \X Ranks)
    /\ named \in [Groups -> SUBSET (Characters \X SUBSET Characters)]
TypeInv == RealmTypes /\ MailTypes /\ ProxyTypes

\* Every roster shows the members it names in the places the order has now.
RosterKept(d) ==
    /\ DOMAIN d[2] \subseteq DOMAIN partyOrders[d[1]]
    /\ \A m \in DOMAIN d[2] : d[2][m] = partyOrders[d[1]][m]
RostersKept == \A d \in drawn : RosterKept(d)

LEMMA TypeInvGivesTypes == TypeInv => TypeOK
BY PartyBounds DEF TypeInv, RealmTypes, MailTypes, ProxyTypes, TypeOK, Groups, NoGroup

LEMMA PartyInit == Init => TypeInv /\ RostersKept
<1> SUFFICES ASSUME Init PROVE TypeInv /\ RostersKept
    OBVIOUS
<1>1. RealmTypes
    BY PartyBounds DEF Init, RealmTypes, NoGroup
<1>2. MailTypes
    BY DEF Init, MailTypes
<1>3. Order(NoRanks) /\ NoRanks \in Ranks
    BY NoOrder, OrderIsRanks
<1>4. ProxyTypes
    BY <1>3 DEF Init, ProxyTypes
<1>5. RostersKept
    BY DEF Init, RostersKept
<1> QED BY <1>1, <1>2, <1>4, <1>5 DEF TypeInv

\* What the realm sends are packets.
LEMMA ListIsPacket ==
    ASSUME NEW g \in Groups, NEW l \in Characters, NEW ms \in SUBSET Characters
    PROVE  List(g, l, ms) \in Packets
BY DEF List, Packets

LEMMA TellKeepsTypes ==
    ASSUME MailTypes, NEW g \in Groups, NEW l \in Characters, NEW ms \in SUBSET Characters,
           NEW left, NEW farewell \in {"empty", "destroyed"}, Tell(g, l, ms, left, farewell)
    PROVE  MailTypes'
<1>1. \A c \in Characters : List(g, l, ms \ {c}) \in Packets
    BY ListIsPacket
<1>2. [op |-> farewell] \in Packets
    BY DEF Packets
<1>3. \A c \in Characters, p \in Packets : Append(mail[c], p) \in Seq(Packets)
    BY DEF MailTypes
<1>4. \A c \in Characters : mail[c] \in Seq(Packets)
    BY DEF MailTypes
<1> QED BY <1>1, <1>2, <1>3, <1>4 DEF Tell, MailTypes

\* The realm's steps leave the proxy alone and keep the types.
LEMMA RealmStep ==
    ASSUME TypeInv,
           \/ \E l \in Characters, ms \in SUBSET Characters : Form(l, ms) \/ Regroup(l, ms)
           \/ Disband
           \/ \E c \in Characters : Logout(c) \/ Login(c)
    PROVE  TypeInv' /\ UNCHANGED <<partyOrders, drawn>>
<1>1. UNCHANGED <<partyOrders, sessionVars, drawn, named>>
    BY DEF Form, Regroup, Disband, Logout, Login, Idle
<1>2. ProxyTypes'
    BY <1>1 DEF TypeInv, ProxyTypes, sessionVars
<1>3. changes' \in Nat
  <2>1. Change
      BY DEF Form, Regroup, Disband, Logout, Login
  <2> QED BY <2>1 DEF Change, TypeInv, RealmTypes
<1>4. ASSUME NEW l \in Characters, NEW ms \in SUBSET Characters, Form(l, ms)
      PROVE  RealmTypes' /\ MailTypes'
  <2>1. group + 1 \in Groups
      BY <1>4, PartyBounds DEF Form, TypeInv, RealmTypes, Groups
  <2>2. RealmTypes'
      BY <1>3, <1>4, <2>1, PartyBounds DEF Form, TypeInv, RealmTypes, Groups
  <2>3. MailTypes'
      BY <1>4, <2>1, TellKeepsTypes DEF Form, TypeInv
  <2> QED BY <2>2, <2>3
<1>5. ASSUME NEW l \in Characters, NEW ms \in SUBSET Characters, Regroup(l, ms)
      PROVE  RealmTypes' /\ MailTypes'
  <2>1. group \in Groups
      BY <1>5 DEF Regroup, TypeInv, RealmTypes
  <2>2. RealmTypes'
      BY <1>3, <1>5, <2>1 DEF Regroup, TypeInv, RealmTypes
  <2>3. MailTypes'
      BY <1>5, <2>1, TellKeepsTypes DEF Regroup, TypeInv
  <2> QED BY <2>2, <2>3
<1>6. ASSUME Disband PROVE RealmTypes' /\ MailTypes'
  <2>1. group \in Groups /\ leader \in Characters
      BY <1>6 DEF Disband, TypeInv, RealmTypes
  <2>2. RealmTypes'
      BY <1>3, <1>6 DEF Disband, TypeInv, RealmTypes
  <2>3. MailTypes'
      BY <1>6, <2>1, TellKeepsTypes DEF Disband, TypeInv
  <2> QED BY <2>2, <2>3
<1>7. ASSUME NEW c \in Characters, Logout(c) PROVE RealmTypes' /\ MailTypes'
  <2>1. RealmTypes'
      BY <1>3, <1>7 DEF Logout, TypeInv, RealmTypes
  <2>2. [op |-> "logout"] \in Packets
      BY DEF Packets
  <2>3. Append(mail[c], [op |-> "logout"]) \in Seq(Packets)
      BY <2>2 DEF TypeInv, MailTypes
  <2>4. MailTypes'
      BY <1>7, <2>3 DEF Logout, TypeInv, MailTypes
  <2> QED BY <2>1, <2>4
<1>8. ASSUME NEW c \in Characters, Login(c) PROVE RealmTypes' /\ MailTypes'
  <2>1. RealmTypes'
      BY <1>3, <1>8 DEF Login, TypeInv, RealmTypes
  <2>2. CASE c \in members
    <3>1. List(group, leader, members \ {c}) \in Packets
        BY <2>2, ListIsPacket DEF TypeInv, RealmTypes
    <3>2. <<List(group, leader, members \ {c})>> \in Seq(Packets)
        BY <3>1
    <3> QED BY <1>8, <2>1, <2>2, <3>2 DEF Login, TypeInv, MailTypes
  <2>3. CASE c \notin members
      BY <1>8, <2>1, <2>3 DEF Login, TypeInv, MailTypes
  <2> QED BY <2>2, <2>3
<1> QED BY <1>1, <1>2, <1>4, <1>5, <1>6, <1>7, <1>8 DEF TypeInv

\* Handling a packet takes it from the mail.
LEMMA HandleKeepsMail ==
    ASSUME MailTypes, NEW c \in Characters, NEW op, Handle(c, op)
    PROVE  MailTypes' /\ Head(mail[c]) \in Packets
<1>1. mail[c] \in Seq(Packets) /\ mail[c] # <<>>
    BY DEF MailTypes, Handle
<1>2. Head(mail[c]) \in Packets /\ Tail(mail[c]) \in Seq(Packets)
    BY <1>1
<1> QED BY <1>2 DEF MailTypes, Handle

\* A list's roster is drawn from the order it extends.
LEMMA ListStep ==
    ASSUME TypeInv, RostersKept, NEW c \in Characters, GroupList(c)
    PROVE  TypeInv' /\ RostersKept'
<1> DEFINE p == Head(mail[c])
           g == p.group
           ms == WithSelf(c, p)
           ranks == StablePartyOrder(partyOrders[g], p.leader, ms)
           seen == Present(ranks, ms)
<1>1. MailTypes' /\ p \in Packets /\ p.op = "list"
    BY HandleKeepsMail DEF GroupList, Handle, TypeInv
<1>2. g \in Groups /\ p.leader \in Characters /\ p.members \in SUBSET Characters
    BY <1>1 DEF Packets
<1>3. ms \in SUBSET Characters
    BY <1>2 DEF WithSelf
<1>4. Order(partyOrders[g])
    BY <1>2 DEF TypeInv, ProxyTypes
<1> HIDE DEF p, g, ms
<1>5. /\ Order(ranks) /\ ms \subseteq DOMAIN ranks
      /\ DOMAIN partyOrders[g] \subseteq DOMAIN ranks
      /\ \A m \in DOMAIN partyOrders[g] : ranks[m] = partyOrders[g][m]
    BY <1>3, <1>4, StableOrder
<1>6. ranks \in Ranks
    BY <1>5, OrderIsRanks
<1>7. /\ partyOrders' = [partyOrders EXCEPT ![g] = ranks]
      /\ party' = [party EXCEPT ![c] = g]
      /\ roster' = [roster EXCEPT ![c] = seen]
      /\ drawn' = drawn \cup {<<g, seen>>}
      /\ named' = [named EXCEPT ![g] = @ \cup {<<p.leader, p.members \cup {c}>>}]
      /\ UNCHANGED realmVars
    BY DEF GroupList, p, g, ms
<1> HIDE DEF ranks
<1>8. seen \in Ranks /\ DOMAIN seen = ms /\ \A m \in ms : seen[m] = ranks[m]
  <2>1. \A m \in ms : ranks[m] \in 1..Cardinality(Characters)
      BY <1>5, <1>6 DEF Ranks
  <2> QED BY <1>3, <2>1 DEF Present, Ranks
<1> HIDE DEF seen
<1>9. RealmTypes'
    BY <1>7 DEF TypeInv, RealmTypes, realmVars
<1>10. ProxyTypes'
  <2>1. <<p.leader, p.members \cup {c}>> \in Characters \X SUBSET Characters
      BY <1>2
  <2>2. named' \in [Groups -> SUBSET (Characters \X SUBSET Characters)]
      BY <1>7, <2>1 DEF TypeInv, ProxyTypes
  <2>3. drawn' \in SUBSET (Groups \X Ranks)
      BY <1>2, <1>7, <1>8 DEF TypeInv, ProxyTypes
  <2>4. /\ partyOrders' \in [Groups -> Ranks]
        /\ \A h \in Groups : Order(partyOrders'[h])
      BY <1>2, <1>5, <1>6, <1>7 DEF TypeInv, ProxyTypes
  <2>5. /\ party' \in [Characters -> Groups \cup {NoGroup}]
        /\ roster' \in [Characters -> Ranks]
      BY <1>2, <1>7, <1>8 DEF TypeInv, ProxyTypes
  <2> QED BY <2>2, <2>3, <2>4, <2>5 DEF ProxyTypes
<1>11. RostersKept'
  <2> SUFFICES ASSUME NEW d \in drawn' PROVE RosterKept(d)'
      BY DEF RostersKept
  <2>1. partyOrders \in [Groups -> Ranks] /\ drawn \in SUBSET (Groups \X Ranks)
      BY DEF TypeInv, ProxyTypes
  <2>2. CASE d \in drawn
    <3>1. d[1] \in Groups
        BY <2>1, <2>2
    <3>2. RosterKept(d)
        BY <2>2 DEF RostersKept
    <3>3. CASE d[1] = g
      <4>1. partyOrders'[d[1]] = ranks
          BY <1>2, <1>7, <2>1, <3>3
      <4> QED BY <1>5, <3>2, <3>3, <4>1 DEF RosterKept
    <3>4. CASE d[1] # g
      <4>1. partyOrders'[d[1]] = partyOrders[d[1]]
          BY <1>7, <2>1, <3>1, <3>4
      <4> QED BY <3>2, <4>1 DEF RosterKept
    <3> QED BY <3>3, <3>4
  <2>3. CASE d = <<g, seen>>
    <3>1. partyOrders'[g] = ranks
        BY <1>2, <1>7, <2>1
    <3> QED BY <1>5, <1>8, <2>3, <3>1 DEF RosterKept
  <2> QED BY <1>7, <2>2, <2>3
<1> QED BY <1>1, <1>9, <1>10, <1>11 DEF TypeInv

LEMMA LeaveStep ==
    ASSUME TypeInv, NEW c \in Characters, LeaveGroup(c)
    PROVE  TypeInv' /\ UNCHANGED <<partyOrders, drawn>>
<1>1. MailTypes'
    BY HandleKeepsMail DEF LeaveGroup, TypeInv
<1>2. RealmTypes'
    BY DEF LeaveGroup, TypeInv, RealmTypes, realmVars
<1>3. NoRanks \in Ranks
    BY NoOrder, OrderIsRanks
<1>4. ProxyTypes'
    BY <1>3 DEF LeaveGroup, TypeInv, ProxyTypes
<1> QED BY <1>1, <1>2, <1>4 DEF TypeInv, LeaveGroup

LEMMA PartyNext == TypeInv /\ RostersKept /\ [Next]_vars => TypeInv' /\ RostersKept'
<1> SUFFICES ASSUME TypeInv, RostersKept, [Next]_vars PROVE TypeInv' /\ RostersKept'
    OBVIOUS
<1>1. ASSUME UNCHANGED <<partyOrders, drawn>> PROVE RostersKept'
    BY <1>1 DEF RostersKept, RosterKept
<1>2. CASE \/ \E l \in Characters, ms \in SUBSET Characters : Form(l, ms) \/ Regroup(l, ms)
           \/ Disband
           \/ \E c \in Characters : Logout(c) \/ Login(c)
    BY <1>1, <1>2, RealmStep
<1>3. CASE \E c \in Characters : GroupList(c)
    BY <1>3, ListStep
<1>4. CASE \E c \in Characters : LeaveGroup(c)
    BY <1>1, <1>4, LeaveStep
<1>5. CASE UNCHANGED vars
    BY <1>1, <1>5 DEF vars, realmVars, sessionVars, TypeInv, RealmTypes, MailTypes, ProxyTypes
<1> QED BY <1>2, <1>3, <1>4, <1>5 DEF Next

\* Whatever the number of characters, groups and changes, every variable keeps
\* its type: no member is given a place beyond the number of characters.
THEOREM PartyTypes == Spec => []TypeOK
<1>1. TypeInv /\ RostersKept => TypeOK
    BY TypeInvGivesTypes
<1> QED BY <1>1, PartyInit, PartyNext, PTL DEF Spec

\* Any two rosters of one group ever written to any client order the members
\* they share alike and give no two of them one place: both show the places of
\* the group's order, which never change.
THEOREM PartyOneOrder == Spec => []OneOrder
<1>1. TypeInv /\ RostersKept => OneOrder
  <2> SUFFICES ASSUME TypeInv, RostersKept, NEW d \in drawn, NEW e \in drawn
               PROVE  /\ d[1] = e[1] =>
                           \A m \in DOMAIN d[2] \cap DOMAIN e[2] : d[2][m] = e[2][m]
                      /\ \A m, n \in DOMAIN d[2] : m # n => d[2][m] # d[2][n]
      BY DEF OneOrder
  <2>1. RosterKept(d) /\ RosterKept(e)
      BY DEF RostersKept
  <2>2. Order(partyOrders[d[1]])
      BY DEF TypeInv, ProxyTypes
  <2> QED BY <2>1, <2>2 DEF RosterKept, Order
<1> QED BY <1>1, PartyInit, PartyNext, PTL DEF Spec

-----------------------------------------------------------------------------
(* The first order of a group.                                              *)

\* The leader first, then the others by GUID.
ByGuid(r, l) ==
    \A m, n \in DOMAIN r : r[m] < r[n] <=> m # n /\ (m = l \/ (n # l /\ m < n))
Initially(r, said) == DOMAIN r = said[2] /\ ByGuid(r, said[1])

LEMMA NewPlaces ==
    ASSUME NEW new \in SUBSET Characters
    PROVE  /\ \A m \in new : Place(new, m) \in Nat /\ Place(new, m) >= 1 /\ m \in Nat
           /\ \A m, n \in new : Place(new, m) < Place(new, n) <=> m < n
<1>1. new \subseteq Nat /\ Cardinality(new) \in Nat
    BY SomeCharacters
<1>2. \A m \in new : Place(new, m) \in 1..Cardinality(new)
    BY PlaceRange
<1>3. \A m, n \in new : m < n => Place(new, m) < Place(new, n)
    BY PlaceOrder
<1>4. \A m \in new : Place(new, m) \in Nat /\ Place(new, m) >= 1 /\ m \in Nat
    BY <1>1, <1>2
<1>5. ASSUME NEW m \in new, NEW n \in new PROVE Place(new, m) < Place(new, n) <=> m < n
  <2>1. m < n \/ m = n \/ n < m
      BY <1>1
  <2>2. m < n => Place(new, m) < Place(new, n)
      BY <1>3
  <2>3. n < m => Place(new, n) < Place(new, m)
      BY <1>3
  <2>4. Place(new, m) \in Nat /\ Place(new, n) \in Nat /\ m \in Nat /\ n \in Nat
      BY <1>4
  <2> QED BY <2>1, <2>2, <2>3, <2>4
<1> QED BY <1>4, <1>5

\* What stablePartyOrder makes of a group's first list.
LEMMA FirstOrder ==
    ASSUME NEW r, Order(r), DOMAIN r = {}, NEW l, NEW ms \in SUBSET Characters
    PROVE  Initially(StablePartyOrder(r, l, ms), <<l, ms>>)
<1> DEFINE new == ms \ {l}
           out == StablePartyOrder(r, l, ms)
<1>1. DOMAIN out = ms
  <2>1. ms \subseteq DOMAIN out /\ DOMAIN out \subseteq DOMAIN r \cup ms
      BY StableOrder
  <2> QED BY <2>1
<1>2. ASSUME l \notin ms PROVE ByGuid(out, l)
  <2>1. \A m \in ms : out[m] = 0 + Place(ms, m)
    <3>1. Lead(r, l, ms) = r /\ ms \ DOMAIN r = ms
        BY <1>2 DEF Lead
    <3>2. Cardinality(DOMAIN r) = 0
        BY FS_EmptySet
    <3> QED BY <3>1, <3>2 DEF StablePartyOrder, Extend, Place
  <2> HIDE DEF out
  <2>4. \A m \in ms : Place(ms, m) \in Nat /\ m \in Nat
      BY NewPlaces
  <2>2. \A m \in ms : out[m] = Place(ms, m) /\ m \in Nat
      BY <2>1, <2>4
  <2>3. \A m, n \in ms : m # l /\ n # l /\ (m < n => m # n)
      BY <1>2, <2>2
  <2> QED BY <1>1, <2>2, <2>3, NewPlaces DEF ByGuid
<1>3. ASSUME l \in ms PROVE ByGuid(out, l)
  <2>1. \A m \in ms : out[m] = IF m = l THEN 1 ELSE 1 + Place(new, m)
    <3> DEFINE one == [m \in {l} |-> 1]
    <3>1. Lead(r, l, ms) = one /\ DOMAIN one = {l} /\ one[l] = 1
        BY <1>3 DEF Lead
    <3> HIDE DEF one
    <3>2. Cardinality(DOMAIN one) = 1 /\ ms \ DOMAIN one = new
        BY <3>1, FS_Singleton
    <3> QED BY <1>3, <3>1, <3>2 DEF StablePartyOrder, Extend, Place
  <2>2. new \in SUBSET Characters /\ \A m \in ms : m = l \/ m \in new
      OBVIOUS
  <2>3. l \notin new
      OBVIOUS
  <2> HIDE DEF out, new
  <2>4. \A m \in new : Place(new, m) \in Nat /\ Place(new, m) >= 1 /\ m \in Nat
      BY <2>2, NewPlaces
  <2>5. \A m, n \in new : Place(new, m) < Place(new, n) <=> m < n
      BY <2>2, NewPlaces
  <2>6. \A m \in new : m \in ms /\ out[m] = 1 + Place(new, m)
      BY <2>1, <2>3 DEF new
  <2>7. out[l] = 1
      BY <1>3, <2>1
  <2> SUFFICES ASSUME NEW m \in ms, NEW n \in ms
               PROVE  out[m] < out[n] <=> m # n /\ (m = l \/ (n # l /\ m < n))
      BY <1>1 DEF ByGuid
  <2>8. CASE m \in new /\ n \in new
      BY <2>3, <2>4, <2>5, <2>6, <2>8
  <2>9. CASE m = l /\ n \in new
      BY <2>3, <2>4, <2>6, <2>7, <2>9
  <2>10. CASE n = l
    <3>1. ~(out[m] < out[n])
        BY <2>2, <2>4, <2>6, <2>7, <2>10
    <3> QED BY <2>10, <3>1
  <2> QED BY <2>2, <2>8, <2>9, <2>10
<1> QED BY <1>1, <1>2, <1>3 DEF Initially

\* A group of which no list was handled has no order; one of which all lists
\* said the same has the order that they imply, and rosters of these members.
FirstOf(g) ==
    /\ IsFiniteSet(named[g])
    /\ named[g] = {} => DOMAIN partyOrders[g] = {} /\ \A d \in drawn : d[1] # g
    /\ \A said : named[g] = {said} =>
          /\ Initially(partyOrders[g], said)
          /\ \A d \in drawn : d[1] = g => DOMAIN d[2] = said[2]
FirstKept == \A g \in Groups : FirstOf(g)

LEMMA ListFirst ==
    ASSUME TypeInv, FirstKept, NEW c \in Characters, GroupList(c)
    PROVE  FirstKept'
<1> DEFINE p == Head(mail[c])
           g == p.group
           ms == WithSelf(c, p)
           l == p.leader
           ranks == StablePartyOrder(partyOrders[g], l, ms)
           seen == Present(ranks, ms)
           said == <<l, ms>>
<1>1. MailTypes' /\ p \in Packets /\ p.op = "list"
    BY HandleKeepsMail DEF GroupList, Handle, TypeInv
<1>2. g \in Groups /\ l \in Characters /\ p.members \in SUBSET Characters
    BY <1>1 DEF Packets
<1>3. ms \in SUBSET Characters /\ c \in ms /\ ms = p.members \cup {c}
    BY <1>2 DEF WithSelf
<1>4. Order(partyOrders[g]) /\ partyOrders \in [Groups -> Ranks]
      /\ named \in [Groups -> SUBSET (Characters \X SUBSET Characters)]
    BY <1>2 DEF TypeInv, ProxyTypes
<1>5. /\ partyOrders' = [partyOrders EXCEPT ![g] = ranks]
      /\ drawn' = drawn \cup {<<g, seen>>}
      /\ named' = [named EXCEPT ![g] = @ \cup {said}]
    BY <1>3 DEF GroupList
<1>6. DOMAIN seen = ms
    BY DEF Present
<1>7. said[1] = l /\ said[2] = ms
    OBVIOUS
<1> HIDE DEF p, g, ms, l, seen
<1>8. /\ DOMAIN partyOrders[g] \subseteq DOMAIN ranks
      /\ DOMAIN ranks \subseteq DOMAIN partyOrders[g] \cup ms
      /\ \A m \in DOMAIN partyOrders[g] : ranks[m] = partyOrders[g][m]
    BY <1>3, <1>4, StableOrder
<1>9. DOMAIN partyOrders[g] = {} => Initially(ranks, said)
    BY <1>3, <1>4, FirstOrder
<1> HIDE DEF ranks, said
<1>10. /\ partyOrders'[g] = ranks /\ named'[g] = named[g] \cup {said}
       /\ \A h \in Groups : h # g => partyOrders'[h] = partyOrders[h] /\ named'[h] = named[h]
    BY <1>2, <1>4, <1>5
<1>11. \A d \in drawn' : d \in drawn \/ (d[1] = g /\ DOMAIN d[2] = ms)
    BY <1>5, <1>6
<1> SUFFICES ASSUME NEW h \in Groups PROVE FirstOf(h)'
    BY DEF FirstKept
<1>12. FirstOf(h)
    BY DEF FirstKept
<1>13. CASE h # g
    BY <1>10, <1>11, <1>12, <1>13 DEF FirstOf
<1>14. CASE h = g
  <2>1. IsFiniteSet(named'[g]) /\ named'[g] # {}
      BY <1>10, <1>12, <1>14, FS_AddElement DEF FirstOf
  <2> SUFFICES ASSUME NEW all, named'[g] = {all}
               PROVE  /\ Initially(ranks, all)
                      /\ \A d \in drawn' : d[1] = g => DOMAIN d[2] = all[2]
      BY <1>10, <1>14, <2>1 DEF FirstOf
  <2>2. all = said /\ (named[g] = {} \/ named[g] = {said})
      BY <1>10
  <2>3. CASE named[g] = {}
      BY <1>7, <1>9, <1>11, <1>12, <1>14, <2>2, <2>3 DEF FirstOf
  <2>4. CASE named[g] = {said}
    <3>1. Initially(partyOrders[g], said)
          /\ \A d \in drawn : d[1] = g => DOMAIN d[2] = ms
        BY <1>7, <1>12, <1>14, <2>4 DEF FirstOf
    <3>2. DOMAIN ranks = DOMAIN partyOrders[g]
        BY <1>7, <1>8, <3>1 DEF Initially
    <3>3. Initially(ranks, said)
        BY <1>8, <3>1, <3>2 DEF Initially, ByGuid
    <3> QED BY <1>7, <1>11, <2>2, <3>1, <3>3
  <2> QED BY <2>2, <2>3, <2>4
<1> QED BY <1>13, <1>14

\* As long as every list handled said the same of a group, all its rosters show
\* the leader first and the others by GUID, whoever's list came first.
THEOREM PartyInitialOrder == Spec => []InitialOrder
<1>1. Init => FirstKept
  <2> SUFFICES ASSUME Init, NEW g \in Groups PROVE FirstOf(g)
      BY DEF FirstKept
  <2>1. named[g] = {} /\ drawn = {} /\ partyOrders[g] = NoRanks
      BY DEF Init
  <2>2. DOMAIN NoRanks = {}
      BY DEF NoRanks
  <2>3. IsFiniteSet({})
      BY FS_EmptySet
  <2> QED BY <2>1, <2>2, <2>3 DEF FirstOf
<1>2. TypeInv /\ FirstKept /\ [Next]_vars => FirstKept'
  <2> SUFFICES ASSUME TypeInv, FirstKept, [Next]_vars PROVE FirstKept'
      OBVIOUS
  <2>1. ASSUME UNCHANGED <<partyOrders, drawn, named>> PROVE FirstKept'
      BY <2>1 DEF FirstKept, FirstOf
  <2>2. ASSUME \/ \E l \in Characters, ms \in SUBSET Characters : Form(l, ms) \/ Regroup(l, ms)
               \/ Disband
               \/ \E c \in Characters : Logout(c) \/ Login(c)
               \/ UNCHANGED vars
        PROVE  UNCHANGED <<partyOrders, drawn, named>>
      BY <2>2 DEF Form, Regroup, Disband, Logout, Login, Idle, vars
  <2>3. ASSUME NEW c \in Characters, LeaveGroup(c) PROVE UNCHANGED <<partyOrders, drawn, named>>
      BY <2>3 DEF LeaveGroup
  <2> QED BY <2>1, <2>2, <2>3, ListFirst DEF Next
<1>3. TypeInv /\ RostersKept /\ FirstKept => InitialOrder
  <2> SUFFICES ASSUME TypeInv, RostersKept, FirstKept, NEW d \in drawn,
                      Cardinality(named[d[1]]) = 1, NEW said \in named[d[1]],
                      NEW m \in DOMAIN d[2], NEW n \in DOMAIN d[2]
               PROVE  /\ DOMAIN d[2] = said[2]
                      /\ d[2][m] < d[2][n]
                           <=> m # n /\ (m = said[1] \/ (n # said[1] /\ m < n))
      BY DEF InitialOrder
  <2>1. d[1] \in Groups
      BY DEF TypeInv, ProxyTypes
  <2>2. FirstOf(d[1]) /\ RosterKept(d)
      BY <2>1 DEF FirstKept, RostersKept
  <2>3. named[d[1]] = {said}
    <3>1. IsFiniteSet(named[d[1]])
        BY <2>2 DEF FirstOf
    <3>2. \E x : named[d[1]] = {x}
        BY <3>1, FS_Singleton
    <3> QED BY <3>2
  <2>4. Initially(partyOrders[d[1]], said) /\ DOMAIN d[2] = said[2]
      BY <2>2, <2>3 DEF FirstOf
  <2> QED BY <2>2, <2>4 DEF RosterKept, Initially, ByGuid
<1> QED BY <1>1, <1>2, <1>3, PartyInit, PartyNext, PTL DEF Spec
=============================================================================
