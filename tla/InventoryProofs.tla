--------------------------- MODULE InventoryProofs ---------------------------
(***************************************************************************)
(* A request acts on the things the client showed at the places it named, a *)
(* thing it moves is shown where it asked for it, and the count of the      *)
(* quest's items follows, whatever things there are and wherever they lie.  *)
(***************************************************************************)
EXTENDS Inventory, FiniteSetTheorems, TLAPS

\* What the client will show at a place once nothing is on its way.
Seen(p) ==
    IF ClientField(p) \in DOMAIN update THEN update[ClientField(p)]
    ELSE IF p \in DOMAIN delta THEN delta[p] ELSE shown[p]

View ==
    /\ held \in [Fields -> Contents] /\ shown \in [ClientPlaces -> Contents]
    /\ \A p \in DOMAIN delta : delta[p] \in Contents
    /\ \A p \in ClientPlaces : Seen(p) = held[ClientField(p)]

AllKinds == TwoPlaces \cup OnePlace \cup {"AutoEquipItemSlot", "AutoStoreBagItem", "BuyBackItem"}

\* A request names what the client shows.
Meant(r) ==
    /\ Settled
    /\ r.src \in Addresses /\ Shows(r.src)
    /\ r.things = <<Thing(r.src), IF r.kind \in TwoPlaces THEN Thing(r.dst) ELSE None>>
    /\ r.kind = "SwapInvItem" => r.src[1] = Backpack /\ r.dst[1] = Backpack
    /\ r.kind = "BuyBackItem" => r.src[1] = Backpack /\ r.src[2] \in 94..105
    /\ r.kind \in TwoPlaces \cup {"AutoEquipItemSlot"}
       => r.dst \in Addresses /\ Shows(r.dst) /\ r.place = Place(r.dst)
    /\ r.kind = "AutoEquipItemSlot" => r.dst[1] = Backpack
    /\ r.kind = "AutoStoreBagItem"
       => /\ r.dst = <<r.dst[1], 0>> /\ r.dst[1] \in Packs \cup {Backpack}
          /\ r.place[1] = Container(r.dst[1])

RequestOK(r) ==
    /\ r = [kind |-> r.kind, src |-> r.src, dst |-> r.dst, things |-> r.things,
            place |-> r.place, fresh |-> r.fresh]
    /\ r.kind \in AllKinds /\ r.fresh \in BOOLEAN
    /\ r.fresh => Meant(r)

Requests ==
    /\ asked # NoRequest => RequestOK(asked) /\ body = NoRequest
    /\ body # NoRequest => RequestOK(body.request) /\ body = Translated(body.request)

NamedInv == View /\ Requests /\ ActsOnNamed

-----------------------------------------------------------------------------
(* The two numberings.                                                      *)

LEMMA Renumbered ==
    ASSUME NEW m \in 0..140, modernInventoryLegacyField(m) # -1
    PROVE  324 + 2 * AdjustInventorySlot(m) = modernInventoryLegacyField(m)
BY DEF modernInventoryLegacyField, AdjustInventorySlot

LEMMA RenumberedBuyBack ==
    ASSUME NEW m \in 94..105
    PROVE  324 + 2 * (m - 20) = modernInventoryLegacyField(m)
BY DEF modernInventoryLegacyField

LEMMA ShownField ==
    ASSUME Constants, NEW m \in 0..140, <<Main, m>> \in ClientPlaces
    PROVE  MainField(AdjustInventorySlot(m)) = ClientField(<<Main, m>>)
<1>1. ClientField(<<Main, m>>) = <<Main, modernInventoryLegacyField(m)>>
    BY DEF ClientField
<1>2. <<Main, modernInventoryLegacyField(m)>> \in Fields
    BY <1>1 DEF ClientPlaces
<1>3. modernInventoryLegacyField(m) # -1
  <2>1. \A b \in Bags, s \in BagSlots : BagField(b, s) # <<Main, modernInventoryLegacyField(m)>>
      BY DEF BagField, Constants
  <2>2. PICK s \in MainSlots : MainField(s) = <<Main, modernInventoryLegacyField(m)>>
      BY <1>2, <2>1 DEF Fields
  <2>3. modernInventoryLegacyField(m) = 324 + 2 * s /\ s \in 0..117
      BY <2>2 DEF MainField, Constants
  <2> QED BY <2>3
<1> QED BY <1>1, <1>3, Renumbered DEF MainField

\* The realm's field for a renumbered address is the one the client shows there.
LEMMA SameField ==
    ASSUME Constants, View, Settled, NEW a \in Addresses, Shows(a)
    PROVE  /\ RealmField(adjustInvSlotPair(a)) = ClientField(Place(a))
           /\ At(RealmField(adjustInvSlotPair(a))) = Thing(a)
<1>1. \A p \in ClientPlaces : shown[p] = held[ClientField(p)]
    BY DEF View, Settled, Seen, Nothing
<1>2. Place(a) \in ClientPlaces /\ ClientField(Place(a)) \in Fields
  <2>1. DOMAIN shown = ClientPlaces
      BY DEF View
  <2> QED BY <2>1 DEF Shows, ClientPlaces
<1>3. RealmField(adjustInvSlotPair(a)) = ClientField(Place(a))
  <2>1. CASE a[1] = Backpack
    <3>1. a[2] \in ClientSlots
        BY <2>1 DEF Addresses, Packs, Backpack
    <3>2. Place(a) = <<Main, a[2]>>
        BY <2>1 DEF Place, Container
    <3>3. adjustInvSlotPair(a) = <<Backpack, AdjustInventorySlot(a[2])>>
        BY <2>1 DEF adjustInvSlotPair
    <3>4. MainField(AdjustInventorySlot(a[2])) = ClientField(<<Main, a[2]>>)
        BY <3>1, ShownField DEF ClientSlots, View
    <3> QED BY <3>2, <3>3, <3>4 DEF RealmField
  <2>2. CASE a[1] # Backpack
    <3>1. a[1] \in Packs /\ a = <<a[1], a[2]>>
        BY <2>2 DEF Addresses
    <3>2. a[1] \in 0..140 /\ <<Main, a[1]>> \in ClientPlaces /\ a[1] \in 30..33 \cup 87..93
        BY <3>1 DEF Packs, ClientSlots, View
    <3>3. Container(a[1]) = shown[<<Main, a[1]>>]
        BY <2>2, <3>2 DEF Container, View
    <3>4. MainField(AdjustInventorySlot(a[1])) = ClientField(<<Main, a[1]>>)
        BY <3>2, ShownField
    <3>5. MainField(AdjustInventorySlot(a[1])) \in Fields
        BY <3>2, <3>4 DEF ClientPlaces
    <3>6. AdjustInventorySlot(a[1]) # Backpack
        BY <3>2 DEF AdjustInventorySlot, Backpack
    <3>7. adjustInvSlotPair(a) = <<AdjustInventorySlot(a[1]), a[2]>>
        BY <2>2 DEF adjustInvSlotPair
    <3>8. RealmField(adjustInvSlotPair(a)) = BagField(Container(a[1]), a[2])
        BY <1>1, <3>2, <3>3, <3>4, <3>5, <3>6, <3>7 DEF RealmField
    <3>9. Container(a[1]) # Main
        BY <3>2, <3>3 DEF Constants, View, Contents, Things
    <3> QED BY <3>8, <3>9 DEF Place, ClientField
  <2> QED BY <2>1, <2>2
<1> QED BY <1>1, <1>2, <1>3 DEF At, Thing, Shows

\* A translation keeps the request it is made of, and does not look at its freshness.
LEMMA Carries ==
    ASSUME NEW r
    PROVE  /\ Translated(r).kind = r.kind /\ Translated(r).request = r
           /\ Translated(r) = [kind |-> r.kind, src |-> Translated(r).src,
                               dst |-> Translated(r).dst, request |-> r]
BY DEF Translated, Body, ParseSwapItem, ParseSwapInvItem,
       ParseSplitItem, ParseWrapItem, ParseAutoEquipItem, ParseAutoEquipItemSlot,
       ParseAutoStoreBagItem, ParseDestroyItem, EncodeLegacyOpenItem, EncodeLegacyReadItem,
       EncodeLegacyBuyBackItem

LEMMA StaleTranslated ==
    ASSUME NEW r, RequestOK(r)
    PROVE  /\ r # NoRequest /\ Stale(r) # NoRequest
           /\ ~Stale(r).fresh /\ RequestOK(Stale(r))
           /\ Translated(Stale(r)) = [Translated(r) EXCEPT !.request = Stale(@)]
<1>1. r # NoRequest
    BY DEF RequestOK, AllKinds, TwoPlaces, OnePlace, NoRequest
<1>2. Stale(r) = [kind |-> r.kind, src |-> r.src, dst |-> r.dst, things |-> r.things,
                  place |-> r.place, fresh |-> FALSE]
    BY <1>1 DEF Stale, RequestOK
<1>3. Stale(r) # NoRequest /\ ~Stale(r).fresh /\ RequestOK(Stale(r))
    BY <1>2 DEF RequestOK, AllKinds, TwoPlaces, OnePlace, NoRequest
<1>4. Translated(Stale(r)).src = Translated(r).src /\ Translated(Stale(r)).dst = Translated(r).dst
    BY <1>2 DEF Translated, Body, ParseSwapItem, ParseSwapInvItem,
       ParseSplitItem, ParseWrapItem, ParseAutoEquipItem, ParseAutoEquipItemSlot,
       ParseAutoStoreBagItem, ParseDestroyItem, EncodeLegacyOpenItem, EncodeLegacyReadItem,
       EncodeLegacyBuyBackItem
<1>5. Translated(Stale(r)) = [kind |-> r.kind, src |-> Translated(r).src,
                              dst |-> Translated(r).dst, request |-> Stale(r)]
    BY <1>2, <1>4, Carries
<1>6. Translated(r) = [kind |-> r.kind, src |-> Translated(r).src,
                       dst |-> Translated(r).dst, request |-> r]
    BY Carries
<1>7. [Translated(r) EXCEPT !.request = Stale(@)]
         = [kind |-> r.kind, src |-> Translated(r).src,
            dst |-> Translated(r).dst, request |-> Stale(r)]
    BY <1>6
<1> QED BY <1>1, <1>3, <1>5, <1>7

\* So the realm finds the things a request means.
LEMMA FindsThings ==
    ASSUME Constants, View, NEW r, RequestOK(r), r.fresh, ~Misnamed(r)
    PROVE  Found(Translated(r)) = r.things
<1> DEFINE b == Translated(r)
<1>1. Meant(r)
    BY DEF RequestOK
<1>2. /\ At(RealmField(adjustInvSlotPair(r.src))) = Thing(r.src)
      /\ r.kind \in TwoPlaces => At(RealmField(adjustInvSlotPair(r.dst))) = Thing(r.dst)
    BY <1>1, SameField DEF Meant
<1>3. b.kind = r.kind /\ b.request = r
    BY Carries
<1>4. AdjustInventorySlot(Backpack) = Backpack
    BY DEF AdjustInventorySlot, Backpack
<1>5. CASE r.kind \in TwoPlaces
  <2>1. b.src = adjustInvSlotPair(r.src) /\ b.dst = adjustInvSlotPair(r.dst)
    <3>1. CASE r.kind = "SwapItem"
        BY <1>4, <3>1 DEF Translated, ParseSwapItem, Body, Misnamed, adjustInvSlotPair
    <3>2. CASE r.kind = "SwapInvItem"
        BY <1>1, <3>2 DEF Translated, ParseSwapInvItem, Body, Meant, adjustInvSlotPair
    <3>3. CASE r.kind \in {"SplitItem", "WrapItem"}
        BY <3>3 DEF Translated, ParseSplitItem, ParseWrapItem, Body
    <3> QED BY <1>5, <3>1, <3>2, <3>3 DEF TwoPlaces
  <2>2. Source(b) = RealmField(b.src)
      BY <1>3, <1>5 DEF Source, TwoPlaces
  <2> QED BY <1>1, <1>2, <1>3, <1>5, <2>1, <2>2 DEF Found, Meant
<1>6. CASE r.kind \notin TwoPlaces
  <2>1. At(Source(b)) = Thing(r.src)
    <3>1. CASE r.kind \in OnePlace
      <4>1. b.src = adjustInvSlotPair(r.src)
          BY <3>1 DEF Translated, OnePlace, ParseAutoEquipItem, ParseDestroyItem, EncodeLegacyOpenItem,
                      EncodeLegacyReadItem, Body
      <4>2. Source(b) = RealmField(b.src)
          BY <1>3, <3>1 DEF Source, OnePlace
      <4> QED BY <1>2, <4>1, <4>2
    <3>2. CASE r.kind = "AutoStoreBagItem"
      <4>1. b.src = adjustInvSlotPair(r.src)
          BY <1>4, <3>2 DEF Translated, ParseAutoStoreBagItem, Body, Misnamed, adjustInvSlotPair
      <4>2. Source(b) = RealmField(b.src)
          BY <1>3, <3>2 DEF Source
      <4> QED BY <1>2, <4>1, <4>2
    <3>3. CASE r.kind = "BuyBackItem"
      <4>1. b.src = <<Backpack, r.src[2] - 20>> /\ Source(b) = RealmField(b.src)
          BY <1>3, <3>3 DEF Translated, EncodeLegacyBuyBackItem, Body, Source
      <4>2. r.src[1] = Backpack /\ r.src[2] \in 94..105
          BY <1>1, <3>3 DEF Meant
      <4>3. AdjustInventorySlot(r.src[2]) = r.src[2] - 20
          BY <4>2 DEF AdjustInventorySlot
      <4> QED BY <1>2, <4>1, <4>2, <4>3 DEF adjustInvSlotPair
    <3>4. CASE r.kind = "AutoEquipItemSlot"
      <4>1. Source(b) = FieldOf(Thing(r.src))
          BY <1>1, <1>3, <3>4 DEF Source, Meant
      <4>2. \E f \in Fields : held[f] = Thing(r.src)
        <5>1. Place(r.src) \in ClientPlaces /\ Thing(r.src) = shown[Place(r.src)]
            BY <1>1 DEF Meant, Shows, Thing, View
        <5> QED BY <1>1, <5>1 DEF Meant, Settled, View, Seen, Nothing, ClientPlaces
      <4>3. FieldOf(Thing(r.src)) \in Fields /\ held[FieldOf(Thing(r.src))] = Thing(r.src)
          BY <4>2 DEF FieldOf
      <4> QED BY <4>1, <4>3 DEF At
    <3> QED BY <1>6, <3>1, <3>2, <3>3, <3>4 DEF RequestOK, AllKinds
  <2> QED BY <1>1, <1>3, <1>6, <2>1 DEF Found, Meant
<1> QED BY <1>5, <1>6

-----------------------------------------------------------------------------
(* The steps.                                                               *)

LEMMA InitNamed == Init => NamedInv
<1> SUFFICES ASSUME Init PROVE NamedInv
    OBVIOUS
<1>1. held \in [Fields -> Contents] /\ update = Nothing /\ delta = Nothing
    BY DEF Init
<1>2. \A p \in ClientPlaces : ClientField(p) \in Fields
    BY DEF ClientPlaces
<1>3. shown = [p \in ClientPlaces |-> held[ClientField(p)]]
    BY DEF Init
<1>4. DOMAIN update = {} /\ DOMAIN delta = {}
    BY <1>1 DEF Nothing
<1>5. View
    BY <1>1, <1>2, <1>3, <1>4 DEF View, Seen
<1> QED BY <1>5 DEF Init, NamedInv, Requests, ActsOnNamed

\* A request that is on its way stays as it is while what it names does.
LEMMA RequestKept ==
    ASSUME NEW r, RequestOK(r), UNCHANGED <<update, delta, shown>>
    PROVE  RequestOK(r)'
BY DEF RequestOK, Meant, Settled, Addresses, Packs, ClientSlots, Shows, Thing, Place, Container

LEMMA SendsNamed ==
    ASSUME NamedInv, NEW kind \in AllKinds, NEW a \in Addresses, NEW b,
           Shows(a), kind \in TwoPlaces \cup {"AutoEquipItemSlot"} => b \in Addresses /\ Shows(b),
           kind = "AutoEquipItemSlot" => b[1] = Backpack,
           kind = "AutoStoreBagItem" => b = <<b[1], 0>> /\ b[1] \in Packs \cup {Backpack},
           kind = "SwapInvItem" => a[1] = Backpack /\ b[1] = Backpack,
           kind = "BuyBackItem" => a[1] = Backpack /\ a[2] \in 94..105,
           body = NoRequest, Sends(Request(kind, a, b))
    PROVE  NamedInv'
<1> DEFINE r == Request(kind, a, b)
<1>1. UNCHANGED <<held, update, delta, shown, body>> /\ body = NoRequest
      /\ asked' = r /\ acted' = NotYet
    BY DEF Sends, realmVars, clientVars
<1>2. View'
    BY <1>1 DEF NamedInv, View, Seen
<1>3. RequestOK(r)
  <2>1. /\ r = [kind |-> r.kind, src |-> r.src, dst |-> r.dst, things |-> r.things,
                place |-> r.place, fresh |-> r.fresh]
        /\ r.kind = kind /\ r.src = a /\ r.dst = b
        /\ r.things = <<Thing(a), IF kind \in TwoPlaces THEN Thing(b) ELSE None>>
        /\ r.place = IF kind = "AutoStoreBagItem" THEN <<Container(b[1]), 0>> ELSE Place(b)
        /\ r.fresh \in BOOLEAN /\ (r.fresh => Settled)
      BY DEF Request, Settled
  <2>2. r.fresh => Meant(r)
      BY <2>1 DEF Meant, TwoPlaces
  <2> QED BY <2>1, <2>2 DEF RequestOK
<1>4. RequestOK(asked)'
  <2>1. PICK c : c = r
      OBVIOUS
  <2>2. RequestOK(c)' /\ asked' = c
      BY <1>1, <1>3, <2>1, RequestKept
  <2> QED BY <2>2 DEF RequestOK, Meant, Settled, Shows, Thing, Place, Container
<1>5. Requests'
    BY <1>1, <1>4 DEF Requests
<1>6. ActsOnNamed'
    BY <1>1 DEF ActsOnNamed
<1> QED BY <1>2, <1>5, <1>6 DEF NamedInv

LEMMA ShownNamed == NamedInv /\ Shown => NamedInv'
<1> SUFFICES ASSUME NamedInv, Shown PROVE NamedInv'
    OBVIOUS
<1>1. /\ delta # Nothing /\ delta' = Nothing /\ UNCHANGED <<held, update, asked, body, acted>>
      /\ shown' = [p \in DOMAIN shown |-> IF p \in DOMAIN delta THEN delta[p] ELSE shown[p]]
    BY DEF Shown, realmVars
<1>2. View'
    BY <1>1 DEF NamedInv, View, Seen, Nothing
<1>3. ~Settled
    BY <1>1 DEF Settled
<1>4. Requests'
    BY <1>1, <1>3 DEF NamedInv, Requests, RequestOK, Meant
<1> QED BY <1>1, <1>2, <1>4 DEF NamedInv, ActsOnNamed

LEMMA RelayNamed == NamedInv /\ Relay => NamedInv'
<1> SUFFICES ASSUME NamedInv, Relay PROVE NamedInv'
    OBVIOUS
<1>1. /\ update # Nothing /\ delta = Nothing /\ update' = Nothing
      /\ UNCHANGED <<held, shown, asked, body, acted>>
      /\ delta' = [p \in {q \in ClientPlaces : ClientField(q) \in DOMAIN update} |->
                      update[ClientField(p)]]
    BY DEF Relay, ValuesDelta, NamedInv, View
<1>2. \A p \in ClientPlaces : ClientField(p) \in Fields
    BY DEF ClientPlaces
<1>3. View'
  <2>1. DOMAIN update' = {} /\ DOMAIN delta = {}
      BY <1>1 DEF Nothing
  <2>2. \A p \in ClientPlaces : Seen(p)' = Seen(p)
      BY <1>1, <2>1 DEF Seen
  <2>3. \A p \in DOMAIN delta' : delta'[p] = Seen(p) /\ p \in ClientPlaces
      BY <1>1 DEF Seen
  <2> QED BY <1>1, <1>2, <2>2, <2>3 DEF NamedInv, View
<1>4. ~Settled
    BY <1>1 DEF Settled
<1>5. Requests'
    BY <1>1, <1>4 DEF NamedInv, Requests, RequestOK, Meant
<1> QED BY <1>1, <1>3, <1>5 DEF NamedInv, ActsOnNamed

LEMMA ForwardNamed == NamedInv /\ Forward => NamedInv'
<1> SUFFICES ASSUME NamedInv, Forward PROVE NamedInv'
    OBVIOUS
<1>1. /\ asked # NoRequest /\ body' = Translated(asked) /\ asked' = NoRequest
      /\ UNCHANGED <<held, update, delta, shown, acted>>
    BY DEF Forward, realmVars, clientVars
<1>2. View'
    BY <1>1 DEF NamedInv, View, Seen
<1>3. PICK c : c = asked
    OBVIOUS
<1>4. RequestOK(c)'
    BY <1>1, <1>3, RequestKept DEF NamedInv, Requests
<1>5. body' = Translated(c) /\ Translated(c).request = c
    BY <1>1, <1>3, Carries
<1>6. body'.request = c
    BY <1>5
<1>7. Requests'
  <2>1. RequestOK(body.request)'
      BY <1>4, <1>6 DEF RequestOK, Meant, Settled, Shows, Thing, Place, Container
  <2>2. (body = Translated(body.request))'
      BY <1>5, <1>6 DEF Translated, Body, ParseSwapItem, ParseSwapInvItem,
       ParseSplitItem, ParseWrapItem, ParseAutoEquipItem, ParseAutoEquipItemSlot,
       ParseAutoStoreBagItem, ParseDestroyItem, EncodeLegacyOpenItem, EncodeLegacyReadItem,
       EncodeLegacyBuyBackItem
  <2> QED BY <1>1, <2>1, <2>2 DEF Requests
<1> QED BY <1>1, <1>2, <1>7 DEF NamedInv, ActsOnNamed

\* What the realm changes it tells, so the client will show it.
LEMMA BecomesView ==
    ASSUME View, NEW new \in [Fields -> Contents], Becomes(new), UNCHANGED <<delta, shown>>
    PROVE  View'
<1>1. \A p \in ClientPlaces : ClientField(p) \in Fields
    BY DEF ClientPlaces
<1>2. /\ update = Nothing /\ held' = new
      /\ update' = [f \in {g \in Fields : new[g] # held[g]} |-> new[f]]
    BY DEF Becomes
<1>3. DOMAIN update = {} /\ DOMAIN update' = {g \in Fields : new[g] # held[g]}
    BY <1>2 DEF Nothing
<1>4. ASSUME NEW p \in ClientPlaces PROVE Seen(p)' = held'[ClientField(p)]
  <2>1. CASE new[ClientField(p)] # held[ClientField(p)]
      BY <1>1, <1>2, <1>3, <2>1 DEF Seen
  <2>2. CASE new[ClientField(p)] = held[ClientField(p)]
      BY <1>1, <1>2, <1>3, <2>2 DEF Seen, View
  <2> QED BY <2>1, <2>2
<1> QED BY <1>2, <1>4 DEF View

\* A request is not fresh after the realm moved something of its own accord.
LEMMA DisturbsNamed ==
    ASSUME NamedInv, Disturbs
    PROVE  Requests' /\ ActsOnNamed'
<1>1. /\ asked' = Stale(asked) /\ acted' = NotYet
      /\ body' = IF body = NoRequest THEN body ELSE [body EXCEPT !.request = Stale(@)]
    BY DEF Disturbs
<1>2. ASSUME asked' # NoRequest PROVE RequestOK(asked)' /\ body' = NoRequest
  <2>1. asked # NoRequest
      BY <1>1, <1>2 DEF Stale
  <2>2. RequestOK(asked) /\ body = NoRequest
      BY <2>1 DEF NamedInv, Requests
  <2>3. RequestOK(Stale(asked)) /\ ~Stale(asked).fresh
      BY <2>2, StaleTranslated
  <2> QED BY <1>1, <2>2, <2>3 DEF RequestOK
<1>3. ASSUME body' # NoRequest PROVE RequestOK(body.request)' /\ body' = Translated(body.request)'
  <2>1. body # NoRequest
      BY <1>1, <1>3
  <2>2. RequestOK(body.request) /\ body = Translated(body.request)
      BY <2>1 DEF NamedInv, Requests
  <2>3. body' = [body EXCEPT !.request = Stale(@)]
      BY <1>1, <2>1
  <2>4. body' = Translated(Stale(body.request))
      BY <2>2, <2>3, StaleTranslated
  <2>5. body'.request = Stale(body.request)
      BY <2>4, Carries
  <2>6. RequestOK(body'.request) /\ ~body'.request.fresh
      BY <2>2, <2>5, StaleTranslated
  <2> QED BY <2>4, <2>5, <2>6 DEF RequestOK, Translated, Body, ParseSwapItem, ParseSwapInvItem,
       ParseSplitItem, ParseWrapItem, ParseAutoEquipItem, ParseAutoEquipItemSlot,
       ParseAutoStoreBagItem, ParseDestroyItem, EncodeLegacyOpenItem, EncodeLegacyReadItem,
       EncodeLegacyBuyBackItem
<1> QED BY <1>1, <1>2, <1>3 DEF Requests, ActsOnNamed

LEMMA RealmMovesNamed ==
    ASSUME NamedInv, NEW f \in Fields, NEW g \in Fields, RealmMoves(f, g)
    PROVE  NamedInv'
<1>1. Becomes(Swapped(f, g)) /\ Disturbs /\ UNCHANGED <<delta, shown>>
    BY DEF RealmMoves, Disturbs, clientVars
<1>2. Swapped(f, g) \in [Fields -> Contents]
    BY DEF NamedInv, View, Swapped
<1>3. View'
    BY <1>1, <1>2, BecomesView DEF NamedInv
<1> QED BY <1>1, <1>3, DisturbsNamed DEF NamedInv

LEMMA RealmGivesNamed ==
    ASSUME NamedInv, NEW item \in Items, NEW f \in Fields, RealmGives(item, f)
    PROVE  NamedInv'
<1>1. Becomes([held EXCEPT ![f] = item]) /\ Disturbs /\ UNCHANGED <<delta, shown>>
    BY DEF RealmGives, Disturbs, clientVars
<1>2. [held EXCEPT ![f] = item] \in [Fields -> Contents]
    BY DEF NamedInv, View, Contents, Things
<1>3. View'
    BY <1>1, <1>2, BecomesView DEF NamedInv
<1> QED BY <1>1, <1>3, DisturbsNamed DEF NamedInv

\* A handled request was carried out on the things it means, if it was fresh.
LEMMA HandledNamed ==
    ASSUME Constants, NamedInv, body # NoRequest, NEW done, Handled(done)
    PROVE  Requests' /\ ActsOnNamed' /\ UNCHANGED <<delta, shown>>
<1>1. /\ acted' = IF body.request.fresh
                  THEN [request |-> body.request, found |-> Found(body), done |-> done]
                  ELSE NotYet
      /\ body' = NoRequest /\ UNCHANGED <<delta, shown, asked>>
    BY DEF Handled, clientVars
<1>2. asked = NoRequest /\ RequestOK(body.request) /\ body = Translated(body.request) /\ View
    BY DEF NamedInv, Requests
<1>3. ASSUME acted' # NotYet
      PROVE  Misnamed(acted'.request) \/ acted'.found = acted'.request.things
  <2>1. body.request.fresh
      BY <1>1, <1>3
  <2>2. acted'.request = body.request /\ acted'.found = Found(body)
      BY <1>1, <2>1
  <2>3. ~Misnamed(body.request) => Found(Translated(body.request)) = body.request.things
      BY <1>2, <2>1, FindsThings
  <2> QED BY <1>2, <2>2, <2>3
<1>4. ActsOnNamed'
    BY <1>3 DEF ActsOnNamed, Misnamed
<1> QED BY <1>1, <1>2, <1>4 DEF Requests

LEMMA RealmRefusesNamed ==
    ASSUME Constants, NamedInv, RealmRefuses
    PROVE  NamedInv'
<1>1. body # NoRequest /\ Handled(FALSE) /\ UNCHANGED <<held, update>>
    BY DEF RealmRefuses, realmVars
<1>2. Requests' /\ ActsOnNamed' /\ UNCHANGED <<delta, shown>>
    BY <1>1, HandledNamed
<1>3. View'
    BY <1>1, <1>2 DEF NamedInv, View, Seen
<1> QED BY <1>2, <1>3 DEF NamedInv

LEMMA RealmPutsNamed ==
    ASSUME Constants, NamedInv, NEW g \in Fields, RealmPuts(g)
    PROVE  NamedInv'
<1>1. /\ body # NoRequest /\ Handled(TRUE) /\ At(Source(body)) # None
      /\ Becomes(Swapped(Source(body), g))
  <2>1. body.kind # "none"
      BY DEF RealmPuts
  <2>2. body # NoRequest
      BY <2>1 DEF NoRequest
  <2> QED BY <2>2 DEF RealmPuts
<1>2. Requests' /\ ActsOnNamed' /\ UNCHANGED <<delta, shown>>
    BY <1>1, HandledNamed
<1>3. Source(body) \in Fields
    BY <1>1 DEF At
<1>4. Swapped(Source(body), g) \in [Fields -> Contents]
    BY <1>3 DEF NamedInv, View, Swapped
<1>5. View'
    BY <1>1, <1>2, <1>4, BecomesView DEF NamedInv
<1> QED BY <1>2, <1>5 DEF NamedInv

LEMMA RealmTakesNamed ==
    ASSUME Constants, NamedInv, RealmTakes
    PROVE  NamedInv'
<1>1. /\ body # NoRequest /\ Handled(TRUE)
      /\ Becomes([held EXCEPT ![Source(body)] = None])
  <2>1. body.kind = "DestroyItem"
      BY DEF RealmTakes
  <2>2. body # NoRequest
      BY <2>1 DEF NoRequest
  <2> QED BY <2>2 DEF RealmTakes
<1>2. Requests' /\ ActsOnNamed' /\ UNCHANGED <<delta, shown>>
    BY <1>1, HandledNamed
<1>3. [held EXCEPT ![Source(body)] = None] \in [Fields -> Contents]
    BY DEF NamedInv, View, Contents
<1>4. View'
    BY <1>1, <1>2, <1>3, BecomesView DEF NamedInv
<1> QED BY <1>2, <1>4 DEF NamedInv

LEMMA ClientNamed == NamedInv /\ Client => NamedInv'
<1> SUFFICES ASSUME NamedInv, Client PROVE NamedInv'
    OBVIOUS
<1> USE DEF ShownAddresses, AllKinds, TwoPlaces, OnePlace
<1>1. CASE Shown
    BY <1>1, ShownNamed
<1>2. CASE asked = NoRequest /\ body = NoRequest /\ \E a \in ShownAddresses : Asks(a)
  <2>1. PICK a \in ShownAddresses : Asks(a)
      BY <1>2
  <2>2. body = NoRequest
      BY <1>2
  <2>3. CASE \E kind \in TwoPlaces, b \in ShownAddresses : NameTwo(kind, a, b)
      BY <2>2, <2>3, SendsNamed DEF NameTwo
  <2>4. CASE \E kind \in OnePlace : NameOne(kind, a)
      BY <2>2, <2>4, SendsNamed DEF NameOne
  <2>5. CASE \E b \in ShownAddresses : Equip(a, b)
      BY <2>2, <2>5, SendsNamed DEF Equip
  <2>6. CASE \E pack \in Packs \cup {Backpack} : Store(a, pack)
    <3>1. PICK pack \in Packs \cup {Backpack} : Sends(Request("AutoStoreBagItem", a, <<pack, 0>>))
        BY <2>6 DEF Store
    <3>2. <<pack, 0>> = <<<<pack, 0>>[1], 0>> /\ <<pack, 0>>[1] \in Packs \cup {Backpack}
        BY <3>1
    <3> QED BY <2>2, <3>1, <3>2, SendsNamed
  <2>7. CASE BuyBack(a)
      BY <2>2, <2>7, SendsNamed DEF BuyBack
  <2> QED BY <2>1, <2>3, <2>4, <2>5, <2>6, <2>7 DEF Asks
<1> QED BY <1>1, <1>2 DEF Client

LEMMA NextNamed ==
    ASSUME Constants, NamedInv, [Next]_vars
    PROVE  NamedInv'
<1>1. CASE Client
    BY <1>1, ClientNamed
<1>2. CASE Proxy
    BY <1>2, ForwardNamed, RelayNamed DEF Proxy
<1>3. CASE Realm
  <2>1. CASE \E f, g \in Fields : RealmMoves(f, g)
      BY <2>1, RealmMovesNamed
  <2>2. CASE \E i \in Items, f \in Fields : RealmGives(i, f)
      BY <2>2, RealmGivesNamed
  <2>3. CASE RealmRefuses
      BY <2>3, RealmRefusesNamed
  <2>4. CASE \E g \in Fields : RealmPuts(g)
      BY <2>4, RealmPutsNamed
  <2>5. CASE RealmTakes
      BY <2>5, RealmTakesNamed
  <2> QED BY <1>3, <2>1, <2>2, <2>3, <2>4, <2>5 DEF Realm
<1>4. CASE UNCHANGED vars
  <2>1. UNCHANGED <<held, update, delta, shown, asked, body, acted>>
      BY <1>4 DEF vars, realmVars, clientVars
  <2>2. View' /\ ActsOnNamed'
      BY <2>1 DEF NamedInv, View, Seen, ActsOnNamed, Misnamed
  <2>3. (asked # NoRequest => RequestOK(asked) /\ body = NoRequest)'
    <3>1. PICK c : c = asked
        OBVIOUS
    <3>2. asked # NoRequest => RequestOK(c)' /\ body = NoRequest
        BY <2>1, <3>1, RequestKept DEF NamedInv, Requests
    <3> QED BY <2>1, <3>1, <3>2 DEF RequestOK, Meant, Shows, Thing, Place, Container
  <2>4. (body # NoRequest => RequestOK(body.request) /\ body = Translated(body.request))'
    <3>1. PICK c : c = body.request
        OBVIOUS
    <3>2. body # NoRequest => RequestOK(c)' /\ body = Translated(c)
        BY <2>1, <3>1, RequestKept DEF NamedInv, Requests
    <3>3. body' = body /\ body'.request = c
        BY <2>1, <3>1
    <3> QED BY <3>2, <3>3 DEF RequestOK, Meant, Shows, Thing, Place, Container,
                Translated, Body, ParseSwapItem, ParseSwapInvItem,
                ParseSplitItem, ParseWrapItem, ParseAutoEquipItem, ParseAutoEquipItemSlot,
                ParseAutoStoreBagItem, ParseDestroyItem, EncodeLegacyOpenItem,
                EncodeLegacyReadItem, EncodeLegacyBuyBackItem
  <2> QED BY <2>2, <2>3, <2>4 DEF NamedInv, Requests
<1> QED BY <1>1, <1>2, <1>3, <1>4 DEF Next

\* Whatever the player has and wherever it lies, a request made of what the realm still has
\* is carried out on the things the client showed at the places it named, the two kinds of
\* request apart whose parsers misname a slot (ParseSwapItem, ParseAutoStoreBagItem).
THEOREM RequestsActOnNamed ==
    ASSUME Constants
    PROVE  Spec => []ActsOnNamed
<1>1. Init => NamedInv
    BY InitNamed
<1>2. NamedInv /\ [Next]_vars => NamedInv'
    BY NextNamed
<1>3. NamedInv => ActsOnNamed
    BY DEF NamedInv
<1> QED BY <1>1, <1>2, <1>3, PTL DEF Spec
-----------------------------------------------------------------------------
(* Where a thing lands.                                                      *)

\* What the realm did of a fresh request; it is no longer on its way.
Landed ==
    LET r == acted.request
    IN acted # NotYet /\ acted.done /\ ~Misnamed(r) =>
          /\ r.kind \in {"SwapItem", "SwapInvItem", "SplitItem", "AutoEquipItemSlot"}
             => r.place \in ClientPlaces /\ held[ClientField(r.place)] = r.things[1]
          /\ r.kind = "AutoStoreBagItem"
             => \E p \in ClientPlaces : p[1] = r.place[1] /\ held[ClientField(p)] = r.things[1]
Quiet == acted # NotYet => asked = NoRequest /\ body = NoRequest
LandInv == NamedInv /\ Quiet /\ Landed

\* The client has a place for every slot of the realm.
LEMMA Placed ==
    ASSUME NEW s \in 0..117
    PROVE  \E i \in 0..140 : modernInventoryLegacyField(i) = 324 + 2 * s
<1>1. CASE s \in 0..18
  <2>1. modernInventoryLegacyField(s) = 324 + 2 * s
      BY <1>1 DEF modernInventoryLegacyField
  <2> QED BY <1>1, <2>1
<1>2. CASE s \in 19..22
  <2>1. modernInventoryLegacyField(s + 11) = 324 + 2 * s /\ s + 11 \in 0..140
      BY <1>2 DEF modernInventoryLegacyField
  <2> QED BY <2>1
<1>3. CASE s \in 23..38
  <2>1. modernInventoryLegacyField(s + 12) = 324 + 2 * s /\ s + 12 \in 0..140
      BY <1>3 DEF modernInventoryLegacyField
  <2> QED BY <2>1
<1>4. CASE s \in 39..117
  <2>1. modernInventoryLegacyField(s + 20) = 324 + 2 * s /\ s + 20 \in 0..140
      BY <1>4 DEF modernInventoryLegacyField
  <2> QED BY <2>1
<1> QED BY <1>1, <1>2, <1>3, <1>4

LEMMA FieldHasPlace ==
    ASSUME Constants, NEW f \in Fields
    PROVE  \E p \in ClientPlaces : ClientField(p) = f /\ p[1] = f[1]
<1>1. CASE \E s \in MainSlots : f = MainField(s)
  <2>1. PICK s \in MainSlots : f = <<Main, 324 + 2 * s>>
      BY <1>1 DEF MainField
  <2>2. PICK i \in 0..140 : modernInventoryLegacyField(i) = 324 + 2 * s
      BY <2>1, Placed DEF Constants
  <2>3. ClientField(<<Main, i>>) = f
      BY <2>1, <2>2 DEF ClientField
  <2>4. <<Main, i>> \in ClientPlaces
      BY <2>3 DEF ClientPlaces
  <2> QED BY <2>1, <2>3, <2>4
<1>2. CASE \E b \in Bags, s \in BagSlots : f = BagField(b, s)
  <2>1. PICK b \in Bags, s \in BagSlots : f = BagField(b, s)
      BY <1>2
  <2>2. b # Main
      BY DEF Constants
  <2>3. ClientField(<<b, s>>) = f /\ f[1] = b
      BY <2>1, <2>2 DEF ClientField, BagField
  <2>4. <<b, s>> \in ClientPlaces
      BY <2>3 DEF ClientPlaces
  <2> QED BY <2>3, <2>4
<1> QED BY <1>1, <1>2 DEF Fields

\* A bag is the same one for both.
LEMMA SameBag ==
    ASSUME Constants, View, Settled, NEW pack \in Packs \cup {Backpack}
    PROVE  RealmField(<<AdjustInventorySlot(pack), 0>>)[1] = Container(pack)
<1>1. CASE pack = Backpack
    BY <1>1 DEF AdjustInventorySlot, RealmField, MainField, Container, Backpack
<1>2. CASE pack # Backpack
  <2>1. pack \in 0..140 /\ <<Main, pack>> \in ClientPlaces /\ pack \in 30..33 \cup 87..93
      BY <1>2 DEF Packs, ClientSlots, View
  <2>2. Container(pack) = shown[<<Main, pack>>]
      BY <1>2, <2>1 DEF Container, View
  <2>3. MainField(AdjustInventorySlot(pack)) = ClientField(<<Main, pack>>)
      BY <2>1, ShownField
  <2>4. MainField(AdjustInventorySlot(pack)) \in Fields
      BY <2>1, <2>3 DEF ClientPlaces
  <2>5. AdjustInventorySlot(pack) # Backpack
      BY <2>1 DEF AdjustInventorySlot, Backpack
  <2>6. shown[<<Main, pack>>] = held[MainField(AdjustInventorySlot(pack))]
      BY <2>1, <2>3 DEF View, Settled, Seen, Nothing
  <2> QED BY <2>2, <2>4, <2>5, <2>6 DEF RealmField, BagField
<1> QED BY <1>1, <1>2

\* What is put is the thing the client meant, and it is put where it meant.
LEMMA PutsLands ==
    ASSUME Constants, NamedInv, NEW g \in Fields, RealmPuts(g)
    PROVE  Landed'
<1> DEFINE r == body.request
           s == Source(body)
<1>1. body # NoRequest
  <2>1. body.kind # "none"
      BY DEF RealmPuts
  <2> QED BY <2>1 DEF NoRequest
<1>2. RequestOK(r) /\ body = Translated(r) /\ View
    BY <1>1 DEF NamedInv, Requests
<1>3. acted' = IF r.fresh THEN [request |-> r, found |-> Found(body), done |-> TRUE] ELSE NotYet
    BY DEF RealmPuts, Handled
<1>4. SUFFICES ASSUME r.fresh, ~Misnamed(r)
      PROVE  /\ r.kind \in {"SwapItem", "SwapInvItem", "SplitItem", "AutoEquipItemSlot"}
                => r.place \in ClientPlaces /\ held'[ClientField(r.place)] = r.things[1]
             /\ r.kind = "AutoStoreBagItem"
                => \E p \in ClientPlaces : p[1] = r.place[1] /\ held'[ClientField(p)] = r.things[1]
  <2>1. CASE r.fresh
    <3>1. acted'.request = r
        BY <1>3, <2>1
    <3>2. Misnamed(acted'.request) <=> Misnamed(r)
        BY <3>1
    <3> QED BY <1>4, <2>1, <3>1, <3>2 DEF Landed, Misnamed
  <2>2. CASE ~r.fresh
      BY <1>3, <2>2 DEF Landed
  <2> QED BY <2>1, <2>2
<1>5. Meant(r) /\ Settled
    BY <1>2, <1>4 DEF RequestOK, Meant
<1>6. Found(body) = r.things
    BY <1>2, <1>4, FindsThings
<1>7. At(s) = r.things[1] /\ s \in Fields /\ held[s] = r.things[1]
  <2>1. At(s) = r.things[1]
      BY <1>6 DEF Found
  <2> QED BY <2>1 DEF RealmPuts, At
<1>8. held'[g] = r.things[1]
  <2>1. held' = [held EXCEPT ![s] = held[g], ![g] = held[s]] /\ held \in [Fields -> Contents]
      BY <1>2 DEF RealmPuts, Becomes, Swapped, View
  <2> QED BY <1>7, <2>1
<1>9. body.kind = r.kind
    BY <1>2, Carries
<1>10. ASSUME r.kind \in {"SwapItem", "SwapInvItem", "SplitItem", "AutoEquipItemSlot"}
       PROVE  r.place \in ClientPlaces /\ held'[ClientField(r.place)] = r.things[1]
  <2>1. r.dst \in Addresses /\ Shows(r.dst) /\ r.place = Place(r.dst)
      BY <1>5, <1>10 DEF Meant, TwoPlaces
  <2>2. body.dst = adjustInvSlotPair(r.dst)
    <3>1. CASE r.kind = "SwapItem"
        BY <1>2, <1>4, <3>1 DEF Translated, ParseSwapItem, Body, Misnamed, adjustInvSlotPair,
                                AdjustInventorySlot, Backpack
    <3>2. CASE r.kind = "SwapInvItem"
        BY <1>2, <1>5, <3>2 DEF Translated, ParseSwapInvItem, Body, Meant, adjustInvSlotPair
    <3>3. CASE r.kind = "SplitItem"
        BY <1>2, <3>3 DEF Translated, ParseSplitItem, Body
    <3>4. CASE r.kind = "AutoEquipItemSlot"
        BY <1>2, <1>5, <3>4 DEF Translated, ParseAutoEquipItemSlot, Body, Meant, adjustInvSlotPair
    <3> QED BY <1>10, <3>1, <3>2, <3>3, <3>4
  <2>3. g = RealmField(body.dst)
      BY <1>9, <1>10 DEF RealmPuts, Targets, TwoPlaces
  <2>4. g = ClientField(r.place)
      BY <1>2, <1>5, <2>1, <2>2, <2>3, SameField
  <2> QED BY <1>2, <1>8, <2>1, <2>4 DEF Shows, View
<1>11. ASSUME r.kind = "AutoStoreBagItem"
       PROVE  \E p \in ClientPlaces : p[1] = r.place[1] /\ held'[ClientField(p)] = r.things[1]
  <2>1. g[1] = RealmField(body.dst)[1]
      BY <1>9, <1>11 DEF RealmPuts, Targets, TwoPlaces
  <2>2. /\ r.dst[1] \in Packs \cup {Backpack} /\ r.place[1] = Container(r.dst[1])
        /\ r.dst = <<r.dst[1], 0>>
      BY <1>5, <1>11 DEF Meant
  <2>3. body.dst = <<AdjustInventorySlot(r.dst[1]), 0>>
      BY <1>2, <1>11, <2>2 DEF Translated, ParseAutoStoreBagItem, Body
  <2>4. g[1] = r.place[1]
      BY <1>2, <1>5, <2>1, <2>2, <2>3, SameBag
  <2>5. PICK p \in ClientPlaces : ClientField(p) = g /\ p[1] = g[1]
      BY FieldHasPlace
  <2> QED BY <1>8, <2>4, <2>5
<1> QED BY <1>10, <1>11

LEMMA InitLands == Init => LandInv
BY InitNamed DEF Init, LandInv, Quiet, Landed

LEMMA NextLands ==
    ASSUME Constants, LandInv, [Next]_vars
    PROVE  LandInv'
<1>1. NamedInv'
    BY NextNamed DEF LandInv
<1> SUFFICES Quiet' /\ Landed'
    BY <1>1 DEF LandInv
<1>2. ASSUME acted' = NotYet PROVE Quiet' /\ Landed'
    BY <1>2 DEF Quiet, Landed
<1>3. ASSUME UNCHANGED <<held, acted>>, acted # NotYet => UNCHANGED <<asked, body>>
      PROVE  Quiet' /\ Landed'
    BY <1>3 DEF LandInv, Quiet, Landed, Misnamed
<1>4. ASSUME NEW done, body # NoRequest, Handled(done) PROVE Quiet'
    BY <1>4 DEF Handled, LandInv, NamedInv, Requests, Quiet
<1>5. CASE Client
  <2>1. CASE Shown
      BY <1>3, <2>1 DEF Shown, realmVars
  <2>2. CASE \E a \in ShownAddresses : Asks(a)
      BY <1>2, <2>2 DEF Asks, NameTwo, NameOne, Equip, Store, BuyBack, Sends
  <2> QED BY <1>5, <2>1, <2>2 DEF Client
<1>6. CASE Proxy
  <2>1. CASE Forward
    <3>1. acted = NotYet /\ acted' = acted
        BY <2>1 DEF Forward, LandInv, Quiet
    <3> QED BY <1>2, <3>1
  <2>2. CASE Relay
      BY <1>3, <2>2 DEF Relay
  <2> QED BY <1>6, <2>1, <2>2 DEF Proxy
<1>7. CASE Realm
  <2>1. CASE \/ \E f, g \in Fields : RealmMoves(f, g)
             \/ \E i \in Items, f \in Fields : RealmGives(i, f)
      BY <1>2, <2>1 DEF RealmMoves, RealmGives, Disturbs
  <2>2. CASE RealmRefuses
    <3>1. Quiet'
        BY <1>4, <2>2 DEF RealmRefuses
    <3>2. acted' # NotYet => ~acted'.done
        BY <2>2 DEF RealmRefuses, Handled
    <3> QED BY <3>1, <3>2 DEF Landed
  <2>3. CASE \E g \in Fields : RealmPuts(g)
    <3>1. PICK g \in Fields : RealmPuts(g)
        BY <2>3
    <3>2. body.kind # "none" /\ Handled(TRUE)
        BY <3>1 DEF RealmPuts
    <3>3. body # NoRequest
        BY <3>2 DEF NoRequest
    <3> QED BY <1>4, <3>1, <3>2, <3>3, PutsLands DEF LandInv
  <2>4. CASE RealmTakes
    <3>1. body.kind = "DestroyItem" /\ Handled(TRUE)
        BY <2>4 DEF RealmTakes
    <3>2. body # NoRequest
        BY <3>1 DEF NoRequest
    <3>3. body.request.kind = "DestroyItem"
        BY <3>1, <3>2, Carries DEF LandInv, NamedInv, Requests
    <3>4. acted' # NotYet => acted'.request.kind = "DestroyItem"
        BY <3>1, <3>3 DEF Handled
    <3> QED BY <1>4, <3>1, <3>2, <3>4 DEF Landed
  <2> QED BY <1>7, <2>1, <2>2, <2>3, <2>4 DEF Realm
<1>8. CASE UNCHANGED vars
    BY <1>3, <1>8 DEF vars, realmVars
<1> QED BY <1>5, <1>6, <1>7, <1>8 DEF Next

\* Once the client has been told, it shows what the realm moved for it in the place it
\* named (ParseSwapItem, ParseSwapInvItem, ParseSplitItem, ParseAutoEquipItemSlot) or in
\* the bag (ParseAutoStoreBagItem), whatever there is, unless the parser misnames a slot.
THEOREM ThingsLand ==
    ASSUME Constants
    PROVE  Spec => []LandsWhereNamed
<1>1. Init => LandInv
    BY InitLands
<1>2. LandInv /\ [Next]_vars => LandInv'
    BY NextLands
<1>3. LandInv => LandsWhereNamed
  <2> SUFFICES ASSUME LandInv, Settled, acted # NotYet, acted.done, ~Misnamed(acted.request)
               PROVE  LandsWhereNamed
      BY DEF LandsWhereNamed
  <2>1. DOMAIN shown = ClientPlaces /\ \A p \in ClientPlaces : shown[p] = held[ClientField(p)]
      BY DEF LandInv, NamedInv, View, Settled, Seen, Nothing
  <2> QED BY <2>1 DEF LandInv, Landed, LandsWhereNamed
<1> QED BY <1>1, <1>2, <1>3, PTL DEF Spec
-----------------------------------------------------------------------------
(* The count of the quest's items.                                           *)

HeldItems == {held[f] : f \in Fields} \cap Items
\* The items the relay will have fields of when it has handled what is on its way.
Told == (known \ gone) \cup (Items \cap {update[f] : f \in DOMAIN update})

\* A thing lies in one place.
Once == \A f, g \in Fields : held[f] \in Items /\ held[f] = held[g] => f = g

Counted ==
    /\ update = Nothing => gone = {}
    /\ known \subseteq Items /\ Told = HeldItems
    /\ body.kind = "DestroyItem" => questItemSyncPending \/ overtaken
    /\ overtaken \/ counted = Cardinality(HeldItems)
       \/ (update # Nothing /\ (questItemSyncPending \/ credit))

CountInv ==
    /\ held \in [Fields -> Contents] /\ IsFiniteSet(Fields) /\ Once /\ Counted

LEMMA FinitelyMany ==
    ASSUME Constants, NEW h \in [Fields -> Contents], BagsWorn(h),
           \A t \in Things : Cardinality({f \in Fields : h[f] = t}) = 1
    PROVE  IsFiniteSet(Fields)
<1>1. IsFiniteSet(MainSlots) /\ IsFiniteSet(BagSlots)
  <2>1. 0 \in Int /\ 117 \in Int /\ 35 \in Int
      OBVIOUS
  <2>2. IsFiniteSet(0..117) /\ IsFiniteSet(0..35)
      BY ONLY <2>1, FS_Interval
  <2> QED BY <2>2, FS_Subset DEF Constants
<1> DEFINE mains == {MainField(s) : s \in MainSlots}
<1>2. IsFiniteSet(mains)
  <2> DEFINE main == [s \in MainSlots |-> MainField(s)]
  <2>1. main \in Surjection(MainSlots, mains)
      BY DEF Surjection
  <2> HIDE DEF main, mains
  <2> QED BY <1>1, <2>1, FS_Surjection
<1>3. WornFields \subseteq mains
    BY DEF WornFields
<1>4. \A b \in Bags : \E f \in mains : h[f] = b
  <2> SUFFICES ASSUME NEW b \in Bags PROVE \E f \in mains : h[f] = b
      OBVIOUS
  <2> DEFINE at == {f \in Fields : h[f] = b}
  <2>1. Cardinality(at) = 1
      BY DEF Things
  <2>2. at \in SUBSET mains
      BY <1>3 DEF BagsWorn
  <2>3. IsFiniteSet(at)
      BY <1>2, <2>2, FS_Subset
  <2> HIDE DEF at
  <2>4. at # {}
      BY <2>1, FS_EmptySet
  <2> QED BY <2>2, <2>4 DEF at
<1>5. IsFiniteSet(Bags)
  <2> DEFINE where == [b \in Bags |-> CHOOSE f \in mains : h[f] = b]
  <2>1. \A b \in Bags : where[b] \in mains /\ h[where[b]] = b
      BY <1>4
  <2>2. where \in Injection(Bags, mains)
      BY <2>1 DEF Injection, IsInjective
  <2> HIDE DEF where, mains
  <2> QED BY <1>2, <2>2, FS_Injection
<1>6. IsFiniteSet(Bags \X BagSlots)
    BY <1>1, <1>5, FS_Product
<1> DEFINE inBags == {BagField(b, s) : b \in Bags, s \in BagSlots}
<1>7. IsFiniteSet(inBags)
  <2> DEFINE bag == [p \in Bags \X BagSlots |-> BagField(p[1], p[2])]
  <2>1. \A p \in Bags \X BagSlots : bag[p] \in inBags
      OBVIOUS
  <2>2. ASSUME NEW f \in inBags PROVE \E p \in Bags \X BagSlots : bag[p] = f
    <3>1. PICK b \in Bags, s \in BagSlots : f = BagField(b, s)
        OBVIOUS
    <3>2. <<b, s>> \in Bags \X BagSlots /\ bag[<<b, s>>] = f
        BY <3>1
    <3> QED BY <3>2
  <2>3. bag \in [Bags \X BagSlots -> inBags]
      BY <2>1
  <2> HIDE DEF bag, inBags
  <2>4. bag \in Surjection(Bags \X BagSlots, inBags)
      BY <2>2, <2>3 DEF Surjection
  <2> QED BY <1>6, <2>4, FS_Surjection
<1>8. Fields = mains \cup inBags
    BY DEF Fields
<1> HIDE DEF mains, inBags
<1>9. IsFiniteSet(mains \cup inBags)
    BY <1>2, <1>7, FS_Union
<1> QED BY <1>8, <1>9

\* A cardinality of one leaves one place.
LEMMA OneElement ==
    ASSUME IsFiniteSet(Fields), NEW at \in SUBSET Fields, Cardinality(at) = 1
    PROVE  \E f \in Fields : at = {f}
<1>1. IsFiniteSet(at)
    BY FS_Subset
<1>2. \E f : at = {f}
    BY <1>1, FS_Singleton
<1> QED BY <1>2

\* So the places of items are as many as the items.
LEMMA PlacesAndItems ==
    ASSUME IsFiniteSet(Fields), Once
    PROVE  Cardinality({f \in Fields : held[f] \in Items}) = Cardinality(HeldItems)
<1> DEFINE at == {f \in Fields : held[f] \in Items}
           what == [f \in at |-> held[f]]
<1>1. IsFiniteSet(at)
    BY FS_Subset
<1>2. what \in Bijection(at, HeldItems)
    BY DEF Once, HeldItems, Bijection, Injection, IsInjective, Surjection
<1> HIDE DEF at, what
<1>3. ExistsBijection(at, HeldItems)
    BY <1>2 DEF ExistsBijection
<1>4. Cardinality(HeldItems) = Cardinality(at)
    BY <1>1, <1>3, FS_Bijection
<1> QED BY <1>4 DEF at

LEMMA InitCount == Constants /\ Init => CountInv
<1> SUFFICES ASSUME Constants, Init PROVE CountInv
    OBVIOUS
<1>1. /\ held \in [Fields -> Contents] /\ BagsWorn(held)
      /\ \A t \in Things : Cardinality({f \in Fields : held[f] = t}) = 1
    BY DEF Init
<1>2. IsFiniteSet(Fields)
    BY <1>1, FinitelyMany
<1>3. ASSUME NEW t \in Items
      PROVE  \E f \in Fields : held[f] = t /\ \A g \in Fields : held[g] = t => g = f
  <2>1. Cardinality({f \in Fields : held[f] = t}) = 1
      BY <1>1 DEF Things
  <2>2. PICK f \in Fields : {g \in Fields : held[g] = t} = {f}
      BY <1>2, <2>1, OneElement
  <2> QED BY <2>2
<1>4. Once
    BY <1>3 DEF Once
<1>5. HeldItems = Items
    BY <1>3 DEF HeldItems
<1>6. /\ update = Nothing /\ gone = {} /\ known = Items /\ counted = Cardinality(Items)
      /\ body = NoRequest /\ DOMAIN update = {}
    BY DEF Init, Nothing
<1>7. Told = Items
    BY <1>6 DEF Told
<1>8. body.kind = "none"
    BY <1>6 DEF NoRequest
<1> QED BY <1>1, <1>2, <1>4, <1>5, <1>6, <1>7, <1>8 DEF CountInv, Counted

\* Two places change what they hold: the same things are held, each in one place.
LEMMA SwappedCounts ==
    ASSUME CountInv, NEW f \in Fields, NEW g \in Fields, Becomes(Swapped(f, g)),
           UNCHANGED <<gone, known>>
    PROVE  Once' /\ HeldItems' = HeldItems /\ Told' = HeldItems' /\ update = Nothing
<1>1. /\ held \in [Fields -> Contents] /\ Once /\ known \subseteq Items /\ Told = HeldItems
      /\ (update = Nothing => gone = {})
    BY DEF CountInv, Counted
<1>2. /\ update = Nothing /\ held' = [held EXCEPT ![f] = held[g], ![g] = held[f]]
      /\ update' = [k \in {l \in Fields : held'[l] # held[l]} |-> held'[k]]
    BY DEF Becomes, Swapped
<1>3. /\ held'[f] = held[g] /\ held'[g] = held[f]
      /\ \A k \in Fields \ {f, g} : held'[k] = held[k]
    BY <1>1, <1>2
<1>4. HeldItems' = HeldItems
    BY <1>3 DEF HeldItems
<1>5. Once'
    BY <1>1, <1>3 DEF Once
<1>6. known = HeldItems
  <2>1. DOMAIN update = {}
      BY <1>2 DEF Nothing
  <2> QED BY <1>1, <1>2, <2>1 DEF Told
<1>7. {update'[k] : k \in DOMAIN update'} \subseteq {held'[k] : k \in Fields}
    BY <1>2
<1>8. Told' = HeldItems'
    BY <1>1, <1>2, <1>4, <1>6, <1>7 DEF Told, HeldItems
<1> QED BY <1>2, <1>4, <1>5, <1>8

\* The count is right after a step that keeps the things, if it was before.
LEMMA SameThings ==
    ASSUME CountInv, Once', held' \in [Fields -> Contents], HeldItems' = HeldItems,
           Told' = HeldItems', update = Nothing, update' = Nothing => gone' = {},
           body'.kind = "DestroyItem" => body.kind = "DestroyItem",
           UNCHANGED <<known, counted, questItemSyncPending, overtaken>>
    PROVE  CountInv'
<1>1. overtaken \/ counted = Cardinality(HeldItems)
    BY DEF CountInv, Counted
<1>2. overtaken' \/ counted' = Cardinality(HeldItems')
    BY <1>1
<1>3. body'.kind = "DestroyItem" => questItemSyncPending' \/ overtaken'
    BY DEF CountInv, Counted
<1>4. known' \subseteq Items
    BY DEF CountInv, Counted
<1>5. Counted'
    BY <1>2, <1>3, <1>4 DEF Counted
<1> QED BY <1>5 DEF CountInv

\* Nothing the count is made of changes.
LEMMA Untouched ==
    ASSUME CountInv, UNCHANGED <<held, update, gone, credit, known, counted>>,
           questItemSyncPending => questItemSyncPending', overtaken' = overtaken,
           body'.kind = "DestroyItem" => body.kind = "DestroyItem" \/ questItemSyncPending'
    PROVE  CountInv'
<1>1. HeldItems' = HeldItems /\ Told' = Told /\ Cardinality(HeldItems)' = Cardinality(HeldItems)
    BY DEF HeldItems, Told
<1>2. Once' /\ held' \in [Fields -> Contents] /\ IsFiniteSet(Fields)
    BY DEF CountInv, Once
<1>3. Counted'
    BY <1>1 DEF CountInv, Counted
<1> QED BY <1>2, <1>3 DEF CountInv

LEMMA RelayCounts == CountInv /\ Relay => CountInv'
<1> SUFFICES ASSUME CountInv, Relay PROVE CountInv'
    OBVIOUS
<1>1. /\ known' = Told /\ update' = Nothing /\ gone' = {} /\ held' = held
      /\ UNCHANGED <<asked, body>>
    BY DEF Relay, Told
<1>2. DOMAIN update' = {}
    BY <1>1 DEF Nothing
<1>3. HeldItems' = HeldItems /\ known' = HeldItems /\ HeldItems \subseteq Items
    BY <1>1 DEF HeldItems, CountInv, Counted
<1>4. Told' = HeldItems'
    BY <1>1, <1>2, <1>3 DEF Told
<1>5. Once' /\ held' \in [Fields -> Contents] /\ IsFiniteSet(Fields)
    BY <1>1 DEF CountInv, Once
<1>6. CASE questItemSyncPending \/ credit
  <2>1. counted' = Cardinality(known')
      BY <1>6 DEF Relay
  <2>2. counted' = Cardinality(HeldItems')
      BY <1>3, <2>1
  <2>3. body'.kind = "DestroyItem" => overtaken'
    <3>1. overtaken' = \E r \in {asked, body} : r.kind = "DestroyItem"
        BY <1>6 DEF Relay
    <3> QED BY <1>1, <3>1
  <2>4. Counted'
      BY <1>1, <1>3, <1>4, <2>2, <2>3 DEF Counted
  <2> QED BY <1>5, <2>4 DEF CountInv
<1>7. CASE ~(questItemSyncPending \/ credit)
  <2>1. counted' = counted /\ overtaken' = overtaken
      BY <1>7 DEF Relay
  <2>2. overtaken \/ counted = Cardinality(HeldItems)
      BY <1>7 DEF CountInv, Counted
  <2>3. overtaken' \/ counted' = Cardinality(HeldItems')
      BY <1>3, <2>1, <2>2
  <2>4. body'.kind = "DestroyItem" => overtaken'
      BY <1>1, <1>7, <2>1 DEF CountInv, Counted
  <2>5. Counted'
      BY <1>1, <1>3, <1>4, <2>3, <2>4 DEF Counted
  <2> QED BY <1>5, <2>5 DEF CountInv
<1> QED BY <1>6, <1>7

LEMMA GivesCounts ==
    ASSUME Constants, CountInv, NEW item \in Items, NEW f \in Fields, RealmGives(item, f)
    PROVE  CountInv'
<1>1. /\ held \in [Fields -> Contents] /\ Once /\ known \subseteq Items /\ Told = HeldItems
      /\ (update = Nothing => gone = {})
    BY DEF CountInv, Counted
<1>2. /\ update = Nothing /\ held' = [held EXCEPT ![f] = item]
      /\ update' = [k \in {l \in Fields : held'[l] # held[l]} |-> held'[k]]
      /\ held[f] = None /\ \A g \in Fields : held[g] # item
      /\ credit' = TRUE /\ UNCHANGED <<gone, known, counted, questItemSyncPending, overtaken>>
    BY DEF RealmGives, Becomes, Free, Disturbs, clientVars, relayVars
<1>3. held'[f] = item /\ \A k \in Fields \ {f} : held'[k] = held[k]
    BY <1>1, <1>2
<1>4. HeldItems' = HeldItems \cup {item}
  <2>1. None \notin Items
      BY DEF Constants
  <2> QED BY <1>2, <1>3, <2>1 DEF HeldItems
<1>5. Once' /\ held' \in [Fields -> Contents]
    BY <1>1, <1>2, <1>3 DEF Once, Contents, Things
<1>6. known = HeldItems
  <2>1. DOMAIN update = {}
      BY <1>2 DEF Nothing
  <2> QED BY <1>1, <1>2, <2>1 DEF Told
<1>7. {update'[k] : k \in DOMAIN update'} = {item} /\ f \in DOMAIN update'
  <2>1. item # None
      BY DEF Constants
  <2>2. DOMAIN update' = {f}
      BY <1>2, <1>3, <2>1
  <2>3. update'[f] = item
      BY <1>2, <1>3, <2>2
  <2> QED BY <2>2, <2>3
<1>8. Told' = HeldItems'
    BY <1>1, <1>2, <1>4, <1>6, <1>7 DEF Told
<1>9. update' # Nothing
    BY <1>7 DEF Nothing
<1>10. body'.kind = "DestroyItem" => body.kind = "DestroyItem"
  <2>1. CASE body = NoRequest
      BY <2>1 DEF RealmGives, Disturbs
  <2>2. CASE body # NoRequest
      BY <2>2 DEF RealmGives, Disturbs
  <2> QED BY <2>1, <2>2
<1>11. body'.kind = "DestroyItem" => questItemSyncPending' \/ overtaken'
    BY <1>2, <1>10 DEF CountInv, Counted
<1>12. Counted'
    BY <1>1, <1>2, <1>8, <1>9, <1>11 DEF Counted
<1> QED BY <1>5, <1>12 DEF CountInv

LEMMA TakesCounts ==
    ASSUME Constants, CountInv, RealmTakes
    PROVE  CountInv'
<1> DEFINE s == Source(body)
           item == held[s]
<1>1. /\ held \in [Fields -> Contents] /\ Once /\ known \subseteq Items /\ Told = HeldItems
      /\ (update = Nothing => gone = {})
    BY DEF CountInv, Counted
<1>2. None \notin Items
    BY DEF Constants
<1>3. s \in Fields /\ item \in Items /\ At(s) = item
    BY <1>2 DEF RealmTakes, At
<1>4. /\ update = Nothing /\ held' = [held EXCEPT ![s] = None]
      /\ update' = [k \in {l \in Fields : held'[l] # held[l]} |-> held'[k]]
      /\ gone' = {item} /\ body' = NoRequest /\ body.kind = "DestroyItem"
      /\ UNCHANGED <<known, counted, credit, questItemSyncPending, overtaken>>
    BY <1>3 DEF RealmTakes, Becomes, Handled, clientVars, relayVars
<1> HIDE DEF s
<1>5. held'[s] = None /\ \A k \in Fields \ {s} : held'[k] = held[k]
    BY <1>1, <1>3, <1>4
<1>6. HeldItems' = HeldItems \ {item}
    BY <1>1, <1>2, <1>3, <1>5 DEF HeldItems, Once
<1>7. Once' /\ held' \in [Fields -> Contents]
    BY <1>1, <1>2, <1>3, <1>4, <1>5 DEF Once, Contents
<1>8. known = HeldItems
  <2>1. DOMAIN update = {}
      BY <1>4 DEF Nothing
  <2> QED BY <1>1, <1>4, <2>1 DEF Told
<1>9. DOMAIN update' = {s} /\ update'[s] = None
    BY <1>2, <1>3, <1>4, <1>5
<1>10. Told' = HeldItems'
    BY <1>1, <1>2, <1>4, <1>6, <1>8, <1>9 DEF Told
<1>11. update' # Nothing
    BY <1>9 DEF Nothing
<1>12. questItemSyncPending' \/ overtaken'
    BY <1>4 DEF CountInv, Counted
<1>13. Counted'
    BY <1>1, <1>4, <1>10, <1>11, <1>12 DEF Counted
<1> QED BY <1>7, <1>13 DEF CountInv

LEMMA NextCount ==
    ASSUME Constants, CountInv, [Next]_vars
    PROVE  CountInv'
<1> USE DEF realmVars, clientVars, relayVars
<1>1. CASE Client
  <2>1. UNCHANGED <<held, update, gone, credit, known, questItemSyncPending, counted, body,
                    overtaken>>
    <3>1. CASE Shown
        BY <3>1 DEF Shown
    <3>2. CASE \E a \in ShownAddresses : Asks(a)
        BY <3>2 DEF Asks, NameTwo, NameOne, Equip, Store, BuyBack, Sends
    <3> QED BY <1>1, <3>1, <3>2 DEF Client
  <2> QED BY <2>1, Untouched
<1>2. CASE Forward
  <2>1. /\ UNCHANGED <<held, update, gone, credit, known, counted, overtaken>>
        /\ (questItemSyncPending => questItemSyncPending')
        /\ (asked.kind = "DestroyItem" => questItemSyncPending')
        /\ body' = Translated(asked)
      BY <1>2 DEF Forward
  <2>2. body'.kind = asked.kind
      BY <2>1, Carries
  <2> QED BY <2>1, <2>2, Untouched
<1>3. CASE Relay
    BY <1>3, RelayCounts
<1>4. CASE Realm
  <2>1. CASE \E f, g \in Fields : RealmMoves(f, g)
    <3>1. PICK f \in Fields, g \in Fields : RealmMoves(f, g)
        BY <2>1
    <3>2. Becomes(Swapped(f, g)) /\ UNCHANGED <<gone, known, counted, questItemSyncPending, overtaken>>
        BY <3>1 DEF RealmMoves, Disturbs
    <3>3. body'.kind = "DestroyItem" => body.kind = "DestroyItem"
      <4>1. CASE body = NoRequest
          BY <3>1, <4>1 DEF RealmMoves, Disturbs
      <4>2. CASE body # NoRequest
          BY <3>1, <4>2 DEF RealmMoves, Disturbs
      <4> QED BY <4>1, <4>2
    <3>4. held' \in [Fields -> Contents]
        BY <3>2 DEF Becomes, Swapped, CountInv
    <3>5. Once' /\ HeldItems' = HeldItems /\ Told' = HeldItems' /\ update = Nothing
        BY <3>2, SwappedCounts
    <3>6. gone' = {}
        BY <3>2, <3>5 DEF CountInv, Counted
    <3> QED BY <3>2, <3>3, <3>4, <3>5, <3>6, SameThings
  <2>2. CASE \E i \in Items, f \in Fields : RealmGives(i, f)
      BY <2>2, GivesCounts
  <2>3. CASE RealmRefuses
    <3>1. UNCHANGED <<held, update, gone, credit, known, questItemSyncPending, counted, overtaken>>
          /\ body' = NoRequest
        BY <2>3 DEF RealmRefuses, Handled
    <3>2. body'.kind = "none"
        BY <3>1 DEF NoRequest
    <3> QED BY <3>1, <3>2, Untouched
  <2>4. CASE \E g \in Fields : RealmPuts(g)
    <3>1. PICK g \in Fields : RealmPuts(g)
        BY <2>4
    <3>2. PICK f : f = Source(body)
        OBVIOUS
    <3>3. /\ Becomes(Swapped(f, g)) /\ body' = NoRequest
          /\ UNCHANGED <<gone, known, counted, questItemSyncPending, overtaken>>
        BY <3>1, <3>2 DEF RealmPuts, Handled
    <3>4. f \in Fields
        BY <3>1, <3>2 DEF RealmPuts, At
    <3>5. held' \in [Fields -> Contents]
        BY <3>3, <3>4 DEF Becomes, Swapped, CountInv
    <3>6. Once' /\ HeldItems' = HeldItems /\ Told' = HeldItems' /\ update = Nothing
        BY <3>3, <3>4, SwappedCounts
    <3>7. gone' = {}
        BY <3>3, <3>6 DEF CountInv, Counted
    <3>8. body'.kind = "none"
        BY <3>3 DEF NoRequest
    <3> QED BY <3>3, <3>5, <3>6, <3>7, <3>8, SameThings
  <2>5. CASE RealmTakes
      BY <2>5, TakesCounts
  <2> QED BY <1>4, <2>1, <2>2, <2>3, <2>4, <2>5 DEF Realm
<1>5. CASE UNCHANGED vars
  <2>1. UNCHANGED <<held, update, gone, credit, known, questItemSyncPending, counted, body,
                    overtaken>>
      BY <1>5 DEF vars
  <2> QED BY <2>1, Untouched
<1> QED BY <1>1, <1>2, <1>3, <1>4, <1>5 DEF Next, Proxy

\* Once the client has been told, it shows as many of the quest's items as the realm has for
\* the player, whatever came, moved or was destroyed (flushQuestItemProgress), unless an
\* update spent the flag of a destruction before the realm carried it out.
THEOREM CountServed ==
    ASSUME Constants
    PROVE  Spec => []CountFollows
<1>1. Init => CountInv
    BY InitCount
<1>2. CountInv /\ [Next]_vars => CountInv'
    BY NextCount
<1>3. CountInv => CountFollows
    BY PlacesAndItems DEF CountInv, Counted, CountFollows, Settled
<1> QED BY <1>1, <1>2, <1>3, PTL DEF Spec
-----------------------------------------------------------------------------
(* The types.                                                                *)

LEMMA ItemsFinite == Constants /\ Init => IsFiniteSet(Items)
<1> SUFFICES ASSUME Constants, Init PROVE IsFiniteSet(Items)
    OBVIOUS
<1>1. IsFiniteSet(Fields) /\ \A t \in Items : Cardinality({f \in Fields : held[f] = t}) = 1
    BY FinitelyMany DEF Init, Things
<1> DEFINE where == [t \in Items |-> CHOOSE f \in Fields : held[f] = t]
<1>2. \A t \in Items : where[t] \in Fields /\ held[where[t]] = t
  <2> SUFFICES ASSUME NEW t \in Items PROVE \E f \in Fields : held[f] = t
      OBVIOUS
  <2>1. PICK f \in Fields : {g \in Fields : held[g] = t} = {f}
      BY <1>1, OneElement
  <2> QED BY <2>1
<1>3. where \in Injection(Items, Fields)
    BY <1>2 DEF Injection, IsInjective
<1> HIDE DEF where
<1> QED BY <1>1, <1>3, FS_Injection

\* The types that the invariants above leave open.
OtherTypes ==
    /\ IsFiniteSet(Items)
    /\ DOMAIN update \subseteq Fields /\ DOMAIN delta \subseteq ClientPlaces
    /\ gone \subseteq Items /\ counted \in 0..Cardinality(Items)
    /\ credit \in BOOLEAN /\ questItemSyncPending \in BOOLEAN /\ overtaken \in BOOLEAN

TypeInv == NamedInv /\ CountInv /\ OtherTypes

LEMMA CountFits ==
    ASSUME IsFiniteSet(Items), NEW A \in SUBSET Items
    PROVE  Cardinality(A) \in 0..Cardinality(Items)
<1>1. /\ Cardinality(A) \in Nat /\ Cardinality(Items) \in Nat
      /\ Cardinality(A) <= Cardinality(Items)
    BY FS_Subset, FS_CardinalityType
<1> QED BY <1>1

LEMMA InitTypes == Constants /\ Init => TypeInv
<1> SUFFICES ASSUME Constants, Init PROVE TypeInv
    OBVIOUS
<1>1. /\ NamedInv /\ CountInv /\ IsFiniteSet(Items)
    BY InitNamed, InitCount, ItemsFinite
<1>2. counted \in 0..Cardinality(Items)
    BY <1>1, CountFits DEF Init
<1>3. DOMAIN update = {} /\ DOMAIN delta = {}
    BY DEF Init, Nothing
<1> QED BY <1>1, <1>2, <1>3 DEF Init, TypeInv, OtherTypes

LEMMA BecomesTypes ==
    ASSUME NEW h, Becomes(h)
    PROVE  DOMAIN update' \subseteq Fields
BY DEF Becomes

LEMMA NextTypes == Constants /\ TypeInv /\ [Next]_vars => TypeInv'
<1> SUFFICES ASSUME Constants, TypeInv, [Next]_vars PROVE TypeInv'
    OBVIOUS
<1> USE DEF realmVars, clientVars, relayVars
<1>1. NamedInv' /\ CountInv' /\ IsFiniteSet(Items)
    BY NextNamed, NextCount DEF TypeInv, OtherTypes
<1>2. known' \subseteq Items /\ OtherTypes
    BY <1>1 DEF CountInv, Counted, TypeInv
<1>3. UNCHANGED <<update, delta, gone, counted, credit, questItemSyncPending, overtaken>>
      => OtherTypes'
    BY <1>2 DEF OtherTypes
<1> SUFFICES OtherTypes'
    BY <1>1 DEF TypeInv
<1>4. CASE Client
  <2>1. CASE Shown
    <3>1. DOMAIN delta' = {}
        BY <2>1 DEF Shown, Nothing
    <3> QED BY <1>2, <2>1, <3>1 DEF Shown, OtherTypes
  <2>2. CASE \E a \in ShownAddresses : Asks(a)
    <3>1. UNCHANGED <<update, delta, gone, counted, credit, questItemSyncPending, overtaken>>
        BY <2>2 DEF Asks, NameTwo, NameOne, Equip, Store, BuyBack, Sends
    <3> QED BY <1>3, <3>1
  <2> QED BY <1>3, <1>4, <2>1, <2>2 DEF Client
<1>5. CASE Forward
  <2>1. questItemSyncPending' \in BOOLEAN
      BY <1>5, Zenon DEF Forward
  <2> QED BY <1>2, <1>5, <2>1 DEF Forward, OtherTypes
<1>6. CASE Relay
  <2>1. DOMAIN update' = {} /\ gone' = {} /\ credit' = FALSE /\ questItemSyncPending' = FALSE
      BY <1>6 DEF Relay, Nothing
  <2>2. DOMAIN delta' \subseteq ClientPlaces
    <3>1. DOMAIN shown = ClientPlaces
        BY DEF TypeInv, NamedInv, View
    <3> QED BY <1>6, <3>1 DEF Relay, ValuesDelta
  <2>3. counted' \in 0..Cardinality(Items)
    <3>1. Cardinality(known') \in 0..Cardinality(Items)
        BY <1>1, <1>2, CountFits
    <3>2. counted' = Cardinality(known') \/ counted' = counted
        BY <1>6 DEF Relay
    <3> QED BY <1>2, <3>1, <3>2 DEF OtherTypes
  <2>4. overtaken' \in BOOLEAN
    <3>1. overtaken' = (\E r \in {asked, body} : r.kind = "DestroyItem") \/ overtaken' = overtaken
        BY <1>6 DEF Relay
    <3> QED BY <1>2, <3>1 DEF OtherTypes
  <2> QED BY <1>1, <2>1, <2>2, <2>3, <2>4 DEF OtherTypes
<1>7. CASE \E f, g \in Fields : RealmMoves(f, g)
  <2>1. DOMAIN update' \subseteq Fields
      BY <1>7, BecomesTypes DEF RealmMoves
  <2> QED BY <1>2, <1>7, <2>1 DEF RealmMoves, Disturbs, OtherTypes
<1>8. CASE \E i \in Items, f \in Fields : RealmGives(i, f)
  <2>1. DOMAIN update' \subseteq Fields
      BY <1>8, BecomesTypes DEF RealmGives
  <2> QED BY <1>2, <1>8, <2>1 DEF RealmGives, Disturbs, OtherTypes
<1>9. CASE RealmRefuses
    BY <1>3, <1>9 DEF RealmRefuses, Handled
<1>10. CASE \E g \in Fields : RealmPuts(g)
  <2>1. DOMAIN update' \subseteq Fields
      BY <1>10, BecomesTypes DEF RealmPuts
  <2> QED BY <1>2, <1>10, <2>1 DEF RealmPuts, Handled, OtherTypes
<1>11. CASE RealmTakes
  <2>1. DOMAIN update' \subseteq Fields /\ gone' \subseteq Items
      BY <1>11, BecomesTypes DEF RealmTakes
  <2> QED BY <1>2, <1>11, <2>1 DEF RealmTakes, Handled, OtherTypes
<1>12. CASE UNCHANGED vars
    BY <1>3, <1>12 DEF vars
<1> QED BY <1>4, <1>5, <1>6, <1>7, <1>8, <1>9, <1>10, <1>11, <1>12 DEF Next, Proxy, Realm

\* What lies where, what is shown and what is on its way stay what they should be; the client
\* is never shown more of the quest's items than there are.
THEOREM InventoryTypes ==
    ASSUME Constants
    PROVE  Spec => []TypeOK
<1>1. Init => TypeInv
    BY InitTypes
<1>2. TypeInv /\ [Next]_vars => TypeInv'
    BY NextTypes
<1>3. TypeInv => TypeOK
    BY DEF TypeInv, NamedInv, View, CountInv, Counted, OtherTypes, TypeOK
<1> QED BY <1>1, <1>2, <1>3, PTL DEF Spec
=============================================================================
