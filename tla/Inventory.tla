------------------------------ MODULE Inventory ------------------------------
(***************************************************************************)
(* Where things lie.  The two clients number the places of the main         *)
(* container differently: the relay shows the realm's fields to the 3.4.3   *)
(* client in one numbering (modernInventoryLegacyField), and the requests   *)
(* of the client, each with a parser of its own, come back through another  *)
(* table (AdjustInventorySlot).  A request names a place by the number of   *)
(* the place its bag is worn at, 255 for the main container, and a slot.    *)
(*                                                                          *)
(* A handler or a translation is one step: it parses a request and writes   *)
(* it.  One request and one update are on their way at a time, so that what *)
(* the client meant can be told when the request arrives.                   *)
(***************************************************************************)
EXTENDS Integers, FiniteSets

CONSTANTS
    Items,       \* items the player may have, all of one quest's objective
    Bags,        \* the player's bags
    Main,        \* the main container: the player's own fields
    None,        \* an empty place
    MainSlots,   \* the realm's slots of the main container
    BagSlots,    \* slots of a bag, the same number on both sides
    Kinds        \* the requests the client makes

Constants ==
    /\ Main \notin Items \cup Bags /\ None \notin Items \cup Bags \cup {Main}
    /\ Items \cap Bags = {}
    /\ MainSlots \subseteq 0..117 /\ BagSlots \subseteq 0..35

VARIABLES
    held,      \* realm: what is at a field; a field belongs to a container
    update,    \* realm to relay: the fields of its latest packet
    gone,      \* ... the items of DESTROY_OBJECT before it
    credit,    \* ... and whether QUESTUPDATE_ADD_ITEM came before it
    delta,     \* relay to client: the places of its latest packet
    shown,     \* client: what it shows at a place
    known,     \* session.objectFields: the items it has fields of
    questItemSyncPending,
    counted,   \* client: the progress it shows for the quest
    asked,     \* client to proxy: its request
    body,      \* proxy to realm: the request it makes of it
    acted,     \* history: the last request the realm handled, if it was fresh
    overtaken  \* history: the count was sent before the realm destroyed an item

realmVars == <<held, update, gone, credit>>
clientVars == <<shown, counted>>
relayVars == <<known, questItemSyncPending>>
vars == <<realmVars, delta, clientVars, relayVars, asked, body, acted, overtaken>>

Things == Items \cup Bags
Contents == Things \cup {None}
Nothing == [f \in {} |-> None]   \* no packet
NoRequest == [kind |-> "none"]
NotYet == [done |-> FALSE]
Backpack == 255                  \* 0xFF, for the main container

-----------------------------------------------------------------------------
(* The two numberings.                                                      *)

\* A field is a container and the index of the low half of a GUID.
MainField(slot) == <<Main, 324 + 2 * slot>>
BagField(bag, slot) == <<bag, 66 + 2 * slot>>
Fields == {MainField(s) : s \in MainSlots} \cup {BagField(b, s) : b \in Bags, s \in BagSlots}
WornSlots == 19..22 \cup 67..73
WornFields == {MainField(s) : s \in WornSlots \cap MainSlots}

\* The field whose GUID the client shows at a place of its main container.
modernInventoryLegacyField(index) ==
    IF index \in 0..18 THEN 324 + index * 2
    ELSE IF index \in 30..33 THEN 324 + (19 + index - 30) * 2
    ELSE IF index \in 35..50 THEN 370 + (index - 35) * 2
    ELSE IF index \in 59..86 THEN 402 + (index - 59) * 2
    ELSE IF index \in 87..93 THEN 458 + (index - 87) * 2
    ELSE IF index \in 94..105 THEN 472 + (index - 94) * 2
    ELSE IF index \in 106..137 THEN 496 + (index - 106) * 2
    ELSE -1

ClientField(place) ==
    IF place[1] = Main THEN <<Main, modernInventoryLegacyField(place[2])>>
                       ELSE BagField(place[1], place[2])
ClientPlaces == {p \in ({Main} \X (0..140)) \cup (Bags \X BagSlots) : ClientField(p) \in Fields}

\* The realm's slot for one of the client's.
AdjustInventorySlot(slot) ==
    IF slot \in 30..33 THEN slot - 11
    ELSE IF slot \in 35..58 THEN slot - 12
    ELSE IF slot \in 59..137 THEN slot - 20
    ELSE slot

-----------------------------------------------------------------------------
(* Requests.  An address is a pack and a slot.                              *)

\* Mutant: the slot is renumbered in a bag too.
RenumberBoth(address) == <<AdjustInventorySlot(address[1]), AdjustInventorySlot(address[2])>>
\* The slot is renumbered in the main container, the pack otherwise.
adjustInvSlotPair(address) ==
    IF address[1] = Backpack THEN <<Backpack, AdjustInventorySlot(address[2])>>
                             ELSE <<AdjustInventorySlot(address[1]), address[2]>>

Body(r, source, target) == [kind |-> r.kind, src |-> source, dst |-> target, request |-> r]

ParseSwapItem(r) ==
    LET Adjust(a) == <<AdjustInventorySlot(a[1]), AdjustInventorySlot(a[2])>>
    IN Body(r, Adjust(r.src), Adjust(r.dst))
ParseSwapInvItem(r) ==
    Body(r, <<Backpack, AdjustInventorySlot(r.src[2])>>, <<Backpack, AdjustInventorySlot(r.dst[2])>>)
ParseSplitItem(r) == Body(r, adjustInvSlotPair(r.src), adjustInvSlotPair(r.dst))
ParseWrapItem(r) == Body(r, adjustInvSlotPair(r.src), adjustInvSlotPair(r.dst))
\* CMSG_AUTO_EQUIP_ITEM, CMSG_AUTOBANK_ITEM and CMSG_AUTOSTORE_BANK_ITEM.
ParseAutoEquipItem(r) == Body(r, adjustInvSlotPair(r.src), r.dst)
ParseDestroyItem(r) == Body(r, adjustInvSlotPair(r.src), r.dst)
EncodeLegacyOpenItem(r) == Body(r, adjustInvSlotPair(r.src), r.dst)
EncodeLegacyReadItem(r) == Body(r, adjustInvSlotPair(r.src), r.dst)
\* Packs are renumbered, a slot never.
ParseAutoStoreBagItem(r) ==
    Body(r, <<AdjustInventorySlot(r.src[1]), r.src[2]>>, <<AdjustInventorySlot(r.dst[1]), r.dst[2]>>)
EncodeLegacyBuyBackItem(r) == Body(r, <<Backpack, r.src[2] - 20>>, r.dst)
\* The item goes by its GUID.
ParseAutoEquipItemSlot(r) == Body(r, r.src, <<Backpack, AdjustInventorySlot(r.dst[2])>>)

Translated(r) ==
    IF r.kind = "SwapItem" THEN ParseSwapItem(r)
    ELSE IF r.kind = "SwapInvItem" THEN ParseSwapInvItem(r)
    ELSE IF r.kind = "SplitItem" THEN ParseSplitItem(r)
    ELSE IF r.kind = "WrapItem" THEN ParseWrapItem(r)
    ELSE IF r.kind = "AutoEquipItem" THEN ParseAutoEquipItem(r)
    ELSE IF r.kind = "AutoEquipItemSlot" THEN ParseAutoEquipItemSlot(r)
    ELSE IF r.kind = "AutoStoreBagItem" THEN ParseAutoStoreBagItem(r)
    ELSE IF r.kind = "DestroyItem" THEN ParseDestroyItem(r)
    ELSE IF r.kind = "OpenItem" THEN EncodeLegacyOpenItem(r)
    ELSE IF r.kind = "ReadItem" THEN EncodeLegacyReadItem(r)
    ELSE EncodeLegacyBuyBackItem(r)

\* Requests by what they name: two places, a place and a bag, a place.
TwoPlaces == {"SwapItem", "SwapInvItem", "SplitItem", "WrapItem"}
OnePlace == {"AutoEquipItem", "DestroyItem", "OpenItem", "ReadItem"}

-----------------------------------------------------------------------------
(* The 3.4.3 client.                                                        *)

ClientSlots == {i \in 0..140 : <<Main, i>> \in DOMAIN shown}
Packs == ClientSlots \cap (30..33 \cup 87..93)
Addresses == ({Backpack} \X ClientSlots) \cup (Packs \X BagSlots)

\* The place the client means by an address, in the bag it shows.
Container(pack) ==
    IF pack = Backpack THEN Main
    ELSE IF <<Main, pack>> \in DOMAIN shown THEN shown[<<Main, pack>>] ELSE None
Place(address) == <<Container(address[1]), address[2]>>
Shows(address) == Place(address) \in DOMAIN shown
ShownAddresses == {a \in Addresses : Shows(a)}
Thing(address) == IF Shows(address) THEN shown[Place(address)] ELSE None

\* A slot in a bag that the parser of a swap takes for one of the main
\* container, and a slot of the main container that an auto-store forgets.
Misnamed(r) ==
    \/ /\ r.kind = "SwapItem"
       /\ \E a \in {r.src, r.dst} : a[1] # Backpack /\ AdjustInventorySlot(a[2]) # a[2]
    \/ /\ r.kind = "AutoStoreBagItem"
       /\ r.src[1] = Backpack /\ AdjustInventorySlot(r.src[2]) # r.src[2]

\* What a request means: the things the client shows at the places it names, and
\* the place it names to put one.  It is fresh if the client shows what the realm has.
Request(kind, source, target) ==
    [kind |-> kind, src |-> source, dst |-> target,
     things |-> <<Thing(source), IF kind \in TwoPlaces THEN Thing(target) ELSE None>>,
     place |-> IF kind = "AutoStoreBagItem" THEN <<Container(target[1]), 0>> ELSE Place(target),
     fresh |-> update = Nothing /\ delta = Nothing]

Sends(r) ==
    /\ r.kind \in Kinds /\ r.things[1] # None
    /\ asked' = r /\ acted' = NotYet
    /\ UNCHANGED <<realmVars, delta, clientVars, relayVars, body, overtaken>>

NameTwo(kind, a, b) ==
    /\ kind \in TwoPlaces /\ a # b
    /\ kind = "SwapInvItem" => a[1] = Backpack /\ b[1] = Backpack
    /\ Sends(Request(kind, a, b))
NameOne(kind, a) == kind \in OnePlace /\ Sends(Request(kind, a, a))
Equip(a, b) ==
    /\ b[1] = Backpack /\ b[2] \in 0..18
    /\ Sends(Request("AutoEquipItemSlot", a, b))
Store(a, pack) ==
    /\ Container(pack) \in (Bags \cup {Main}) \ {Thing(a)}
    /\ Sends(Request("AutoStoreBagItem", a, <<pack, 0>>))
BuyBack(a) ==
    /\ a[1] = Backpack /\ a[2] \in 94..105
    /\ Sends(Request("BuyBackItem", a, a))

\* UPDATE_OBJECT.
Shown ==
    /\ delta # Nothing
    /\ shown' = [p \in DOMAIN shown |-> IF p \in DOMAIN delta THEN delta[p] ELSE shown[p]]
    /\ delta' = Nothing
    /\ UNCHANGED <<realmVars, counted, relayVars, asked, body, acted, overtaken>>

-----------------------------------------------------------------------------
(* The proxy.                                                               *)

\* Mutant: a destruction asks for no count.
ForwardOnly ==
    /\ asked # NoRequest
    /\ body' = Translated(asked) /\ asked' = NoRequest
    /\ UNCHANGED <<realmVars, delta, clientVars, relayVars, acted, overtaken>>
\* handleModernPlayPacket: parse, write; a destruction asks for a new count.
Forward ==
    /\ asked # NoRequest
    /\ body' = Translated(asked) /\ asked' = NoRequest
    /\ questItemSyncPending' = (questItemSyncPending \/ asked.kind = "DestroyItem")
    /\ UNCHANGED <<realmVars, delta, clientVars, known, acted, overtaken>>

\* Mutant: what changed in a bag is not told.
DeltaOfMain ==
    [p \in {q \in DOMAIN shown : q[1] = Main /\ ClientField(q) \in DOMAIN update} |->
        update[ClientField(p)]]
\* The client's places whose field changed.
ValuesDelta ==
    [p \in {q \in DOMAIN shown : ClientField(q) \in DOMAIN update} |-> update[ClientField(p)]]

\* The relay has handled DESTROY_OBJECT and creations of items, and shows the
\* changed fields; then flushQuestItemProgress.
Relay ==
    LET pending == questItemSyncPending \/ credit
        destroying == \E r \in {asked, body} : r.kind = "DestroyItem"
    IN /\ update # Nothing /\ delta = Nothing
       /\ delta' = ValuesDelta
       /\ update' = Nothing /\ gone' = {} /\ credit' = FALSE
       /\ known' = (known \ gone) \cup (Items \cap {update[f] : f \in DOMAIN update})
       /\ questItemSyncPending' = FALSE
       /\ counted' = IF pending THEN Cardinality(known') ELSE counted
       /\ overtaken' = IF pending THEN destroying ELSE overtaken
       /\ UNCHANGED <<held, shown, asked, body, acted>>

-----------------------------------------------------------------------------
(* The 3.3.5 realm.                                                         *)

\* The field an address stands for.
RealmField(address) ==
    IF address[1] = Backpack THEN MainField(address[2])
    ELSE IF MainField(address[1]) \in Fields
         THEN BagField(held[MainField(address[1])], address[2])
         ELSE BagField(None, address[2])
At(field) == IF field \in Fields THEN held[field] ELSE None

\* A bag is worn or not used; what the realm moves, it tells.
BagsWorn(new) == \A f \in Fields : new[f] \in Bags => f \in WornFields
Becomes(new) ==
    /\ update = Nothing /\ BagsWorn(new) /\ held' = new
    /\ update' = [f \in {g \in Fields : new[g] # held[g]} |-> new[f]]
Swapped(f, g) == [held EXCEPT ![f] = held[g], ![g] = held[f]]
Free == {f \in Fields : held[f] = None}
Stale(r) == IF r = NoRequest THEN r ELSE [r EXCEPT !.fresh = FALSE]
Disturbs ==
    /\ asked' = Stale(asked)
    /\ body' = IF body = NoRequest THEN body ELSE [body EXCEPT !.request = Stale(@)]
    /\ acted' = NotYet
    /\ UNCHANGED <<delta, clientVars, relayVars, overtaken>>

\* A thing moves, or an item comes, for a reason of the realm's own.
RealmMoves(f, g) ==
    /\ held[f] # None /\ g \in Free
    /\ Becomes(Swapped(f, g)) /\ Disturbs /\ UNCHANGED <<gone, credit>>
RealmGives(item, f) ==
    /\ f \in Free /\ \A g \in Fields : held[g] # item
    /\ Becomes([held EXCEPT ![f] = item]) /\ credit' = TRUE
    /\ Disturbs /\ UNCHANGED gone

\* Where the thing is that the body names, and where it may go.
FieldOf(thing) ==
    IF \E f \in Fields : held[f] = thing THEN CHOOSE f \in Fields : held[f] = thing
                                         ELSE BagField(None, 0)
Source(b) == IF b.kind = "AutoEquipItemSlot" THEN FieldOf(b.request.things[1]) ELSE RealmField(b.src)
Targets(b) ==
    CASE b.kind \in TwoPlaces \cup {"AutoEquipItemSlot"} -> {RealmField(b.dst)} \cap Fields
      [] b.kind = "AutoStoreBagItem" -> {f \in Free : f[1] = RealmField(b.dst)[1]}
      [] OTHER -> {f \in Fields : f[1] = Main}
Found(b) == <<At(Source(b)), IF b.kind \in TwoPlaces THEN At(RealmField(b.dst)) ELSE None>>

Handled(done) ==
    /\ acted' = IF body.request.fresh
                THEN [request |-> body.request, found |-> Found(body), done |-> done]
                ELSE NotYet
    /\ body' = NoRequest
    /\ UNCHANGED <<delta, clientVars, relayVars, asked, overtaken>>

\* It refuses, or does what moves nothing: wraps, opens, reads.
RealmRefuses == body # NoRequest /\ Handled(FALSE) /\ UNCHANGED realmVars
RealmPuts(g) ==
    /\ body.kind \in {"SwapItem", "SwapInvItem", "SplitItem", "AutoEquipItem", "AutoEquipItemSlot",
                     "AutoStoreBagItem", "BuyBackItem"}
    /\ At(Source(body)) # None /\ g \in Targets(body)
    /\ Becomes(Swapped(Source(body), g))
    /\ Handled(TRUE) /\ UNCHANGED <<gone, credit>>
RealmTakes ==
    /\ body.kind = "DestroyItem" /\ At(Source(body)) \in Items
    /\ Becomes([held EXCEPT ![Source(body)] = None])
    /\ gone' = {At(Source(body))} /\ UNCHANGED credit
    /\ Handled(TRUE)

-----------------------------------------------------------------------------
Init ==
    /\ held \in {h \in [Fields -> Contents] :
                   /\ BagsWorn(h)
                   /\ \A t \in Things : Cardinality({f \in Fields : h[f] = t}) = 1}
    /\ shown = [p \in ClientPlaces |-> held[ClientField(p)]]
    /\ update = Nothing /\ gone = {} /\ credit = FALSE /\ delta = Nothing
    /\ known = Items /\ counted = Cardinality(Items) /\ questItemSyncPending = FALSE
    /\ asked = NoRequest /\ body = NoRequest /\ acted = NotYet /\ overtaken = FALSE

Asks(a) ==
    \/ \E kind \in TwoPlaces, b \in ShownAddresses : NameTwo(kind, a, b)
    \/ \E kind \in OnePlace : NameOne(kind, a)
    \/ \E b \in ShownAddresses : Equip(a, b)
    \/ \E pack \in Packs \cup {Backpack} : Store(a, pack)
    \/ BuyBack(a)
\* One request is on its way at a time.
Client == Shown \/ (asked = NoRequest /\ body = NoRequest /\ \E a \in ShownAddresses : Asks(a))
Proxy == Forward \/ Relay
Realm ==
    \/ \E f, g \in Fields : RealmMoves(f, g)
    \/ \E i \in Items, f \in Fields : RealmGives(i, f)
    \/ RealmRefuses \/ \E g \in Fields : RealmPuts(g)
    \/ RealmTakes
Next == Client \/ Proxy \/ Realm
Spec == Init /\ [][Next]_vars

-----------------------------------------------------------------------------
(* Properties.                                                              *)

Settled == update = Nothing /\ delta = Nothing

TypeOK ==
    /\ held \in [Fields -> Contents] /\ \A p \in DOMAIN shown : shown[p] \in Contents
    /\ DOMAIN update \subseteq Fields /\ DOMAIN delta \subseteq DOMAIN shown
    /\ gone \subseteq Items /\ known \subseteq Items /\ counted \in 0..Cardinality(Items)
    /\ credit \in BOOLEAN /\ questItemSyncPending \in BOOLEAN /\ overtaken \in BOOLEAN

\* A request that was made of what the realm still has is carried out on the things the
\* client showed at the places it named: the numbering of the fields (modernInventoryLegacyField)
\* and the parsers' (AdjustInventorySlot) undo each other, and packs name the same bags.
ActsOnNamed ==
    acted # NotYet => Misnamed(acted.request) \/ acted.found = acted.request.things

\* A thing that was moved is shown where the client asked for it, in the place or the bag.
LandsWhereNamed ==
    LET r == acted.request
    IN acted # NotYet /\ Settled /\ acted.done /\ ~Misnamed(r) =>
          /\ r.kind \in {"SwapItem", "SwapInvItem", "SplitItem", "AutoEquipItemSlot"}
             => shown[r.place] = r.things[1]
          /\ r.kind = "AutoStoreBagItem"
             => \E p \in DOMAIN shown : p[1] = r.place[1] /\ shown[p] = r.things[1]

\* When nothing is on its way, the client shows the count of the quest's items, unless an
\* update that came between a destruction's request and the destruction spent the flag.
CountFollows ==
    /\ Settled /\ asked = NoRequest /\ body = NoRequest /\ ~overtaken
    => counted = Cardinality({f \in Fields : held[f] \in Items})

=============================================================================
