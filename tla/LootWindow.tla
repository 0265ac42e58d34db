----------------------------- MODULE LootWindow -----------------------------
(***************************************************************************)
(* The loot window of a master looter.  The client names loot by an object  *)
(* GUID the proxy makes of the corpse's, the realm by the corpse.  The      *)
(* session remembers the corpse from the client's request on, the object    *)
(* from the realm's response on, so that while a second corpse is asked for *)
(* the two are of different corpses.                                        *)
(*                                                                          *)
(* The realm sends the list of those who may be given an item just before   *)
(* or just after its response; the client is to have it with the window.    *)
(* An object stands for the corpse it is made of, a list for the corpse it  *)
(* was sent for.                                                            *)
(***************************************************************************)
EXTENDS Naturals, Sequences

CONSTANTS
    Corpses, NoCorpse,
    MaxOpens,      \* bound: corpses the client asks for
    MaxRequests    \* bound: requests of the client on their way

Constants == NoCorpse \notin Corpses /\ MaxOpens \in Nat /\ MaxRequests \in Nat

VARIABLES
    asked, opening,         \* client: corpses asked for, those it waits for
    window, list,           \* client: its window's object; its list's, and of whom
    inbox,                  \* from the client to its handler, in order
    requests, packets,      \* to the realm and back, in order
    looting, noticed,       \* realm: the loot that is open; corpses told of
    left,                   \* realm: the character left its map; bound: once
    lootLegacyGUID, lootObjModern, masterLootCandidates, masterLootListPending,
    lastMasterLootSentLegacy,
    misgiven                \* history: a gift was not of the window's corpse

clientVars == <<asked, opening, window, list>>
realmVars == <<looting, noticed, left>>
lootVars == <<lootLegacyGUID, lootObjModern, masterLootCandidates,
              masterLootListPending, lastMasterLootSentLegacy>>
vars == <<clientVars, inbox, requests, packets, realmVars, lootVars, misgiven>>

CorpseOrNone == Corpses \cup {NoCorpse}
NoList == [object |-> NoCorpse, of |-> NoCorpse]
Request(k, c) == [kind |-> k, corpse |-> c, crossed |-> k = "give" /\ opening > 0]
RequestTypes == [kind : {"loot", "release", "give"}, corpse : Corpses, crossed : BOOLEAN]
Packet(k, c) == [kind |-> k, corpse |-> c]
PacketTypes ==
    [kind : {"list", "response", "failure", "release", "notice", "world"},
     corpse : CorpseOrNone]

TypeOK ==
    /\ asked \in 0..MaxOpens /\ opening \in 0..MaxOpens /\ window \in CorpseOrNone
    /\ list \in [object : CorpseOrNone, of : CorpseOrNone]
    /\ inbox \in Seq(RequestTypes) /\ requests \in Seq(RequestTypes)
    /\ packets \in Seq(PacketTypes)
    /\ looting \in CorpseOrNone /\ noticed \subseteq Corpses /\ left \in BOOLEAN
    /\ lootLegacyGUID \in CorpseOrNone /\ lootObjModern \in CorpseOrNone
    /\ masterLootCandidates \in CorpseOrNone /\ masterLootListPending \in BOOLEAN
    /\ lastMasterLootSentLegacy \in CorpseOrNone /\ misgiven \in BOOLEAN

Init ==
    /\ asked = 0 /\ opening = 0 /\ window = NoCorpse /\ list = NoList
    /\ inbox = <<>> /\ requests = <<>> /\ packets = <<>>
    /\ looting = NoCorpse /\ noticed = {} /\ left = FALSE
    /\ lootLegacyGUID = NoCorpse /\ lootObjModern = NoCorpse
    /\ masterLootCandidates = NoCorpse /\ masterLootListPending = FALSE
    /\ lastMasterLootSentLegacy = NoCorpse /\ misgiven = FALSE

-----------------------------------------------------------------------------
(* The client, which may ask for another corpse with its window open.      *)

Sends(request) ==
    /\ Len(inbox) + Len(requests) < MaxRequests
    /\ inbox' = Append(inbox, request)
    /\ UNCHANGED <<requests, packets, realmVars, lootVars, misgiven>>

Open(c) ==
    /\ asked < MaxOpens /\ asked' = asked + 1 /\ opening' = opening + 1
    /\ Sends(Request("loot", c)) /\ UNCHANGED <<window, list>>

Close ==
    /\ window # NoCorpse /\ window' = NoCorpse /\ list' = NoList
    /\ Sends(Request("release", window)) /\ UNCHANGED <<asked, opening>>

Give ==
    /\ window # NoCorpse /\ list.object = window
    /\ Sends(Request("give", window)) /\ UNCHANGED clientVars

-----------------------------------------------------------------------------
(* The handler of the client's connection.                                 *)

Forward(request) ==
    /\ inbox' = Tail(inbox) /\ requests' = Append(requests, request)
    /\ UNCHANGED <<clientVars, packets, realmVars>>

LootUnit ==
    /\ inbox # <<>> /\ Head(inbox).kind = "loot"
    /\ lootLegacyGUID' = Head(inbox).corpse
    /\ Forward(Head(inbox))
    /\ UNCHANGED <<lootObjModern, masterLootCandidates, masterLootListPending,
                   lastMasterLootSentLegacy, misgiven>>

\* A request the session has nothing for is an error and dropped.
Drop ==
    /\ inbox' = Tail(inbox)
    /\ UNCHANGED <<clientVars, requests, packets, realmVars, lootVars, misgiven>>

\* CMSG_LOOT_RELEASE: of the stored corpse, whatever object the client names.
LootRelease ==
    /\ inbox # <<>> /\ Head(inbox).kind = "release"
    /\ \/ /\ lootLegacyGUID # NoCorpse
          /\ Forward([Head(inbox) EXCEPT !.corpse = lootLegacyGUID])
          /\ UNCHANGED <<lootVars, misgiven>>
       \/ lootLegacyGUID = NoCorpse /\ Drop

\* The gifts of CMSG_MASTER_LOOT_ITEM that are forwarded.
\* Mutant: the object the client names is not looked at.
GivesAny(object) == lootLegacyGUID # NoCorpse
Gives(object) == lootLegacyGUID # NoCorpse /\ object = lootObjModern

MasterLootItem ==
    /\ inbox # <<>> /\ Head(inbox).kind = "give"
    /\ \/ /\ Gives(Head(inbox).corpse)
          /\ Forward([Head(inbox) EXCEPT !.corpse = lootLegacyGUID])
          /\ misgiven' = (misgiven \/ (~Head(inbox).crossed
                                          /\ Head(inbox).corpse # lootLegacyGUID))
          /\ UNCHANGED lootVars
       \/ ~Gives(Head(inbox).corpse) /\ Drop

-----------------------------------------------------------------------------
(* The realm (external): one loot is open at a time, and another request    *)
(* or a release closes it.  It sends notices and moves the character only   *)
(* when no packet is on its way: it may as well do so later.                *)

Closing == IF looting = NoCorpse THEN <<>> ELSE <<Packet("release", looting)>>

RealmLoots ==
    /\ requests # <<>> /\ Head(requests).kind = "loot" /\ requests' = Tail(requests)
    /\ LET c == Head(requests).corpse IN
       \/ /\ looting' = c
          /\ \E answer \in {<<Packet("list", c), Packet("response", c)>>,
                            <<Packet("response", c), Packet("list", c)>>} :
                packets' = packets \o Closing \o answer
       \/ /\ looting' = NoCorpse
          /\ packets' = packets \o Closing \o <<Packet("failure", c)>>
    /\ UNCHANGED <<clientVars, inbox, noticed, left, lootVars, misgiven>>

RealmReleases ==
    /\ requests # <<>> /\ Head(requests).kind = "release" /\ requests' = Tail(requests)
    /\ LET mine == Head(requests).corpse = looting IN
       /\ packets' = IF mine THEN packets \o Closing ELSE packets
       /\ looting' = IF mine THEN NoCorpse ELSE looting
    /\ UNCHANGED <<clientVars, inbox, noticed, left, lootVars, misgiven>>

RealmGives ==
    /\ requests # <<>> /\ Head(requests).kind = "give" /\ requests' = Tail(requests)
    /\ UNCHANGED <<clientVars, inbox, packets, realmVars, lootVars, misgiven>>

\* The corpse decays, or the character goes away.
RealmCloses ==
    /\ looting # NoCorpse /\ packets' = packets \o Closing /\ looting' = NoCorpse
    /\ UNCHANGED <<clientVars, inbox, requests, noticed, left, lootVars, misgiven>>

\* The character is taken to another map: SMSG_NEW_WORLD.
RealmMoves ==
    /\ packets = <<>> /\ ~left /\ left' = TRUE /\ looting' = NoCorpse
    /\ packets' = packets \o Closing \o <<Packet("world", NoCorpse)>>
    /\ UNCHANGED <<clientVars, inbox, requests, noticed, lootVars, misgiven>>

\* A unit of the group dies: SMSG_LOOT_LIST says who may loot it.
RealmNotices(c) ==
    /\ packets = <<>> /\ c \notin noticed /\ noticed' = noticed \cup {c}
    /\ packets' = Append(packets, Packet("notice", c))
    /\ UNCHANGED <<clientVars, inbox, requests, looting, left, lootVars, misgiven>>

-----------------------------------------------------------------------------
(* The relay.  The group loots by master looter, and this is the master.   *)

Arrives(kind) == packets # <<>> /\ Head(packets).kind = kind /\ packets' = Tail(packets)
Corpse == Head(packets).corpse

\* SMSG_LOOT_MASTER_LIST
MasterList ==
    /\ Arrives("list")
    /\ LET object == IF lootObjModern = NoCorpse THEN lootLegacyGUID ELSE lootObjModern
           sends == lootLegacyGUID # NoCorpse /\ lastMasterLootSentLegacy # lootLegacyGUID
       IN /\ lootObjModern' = object
          /\ masterLootListPending' = ~sends
          /\ lastMasterLootSentLegacy' = IF sends THEN lootLegacyGUID
                                         ELSE lastMasterLootSentLegacy
          /\ list' = IF sends THEN [object |-> object, of |-> Corpse] ELSE list
    /\ masterLootCandidates' = Corpse
    /\ UNCHANGED <<asked, opening, window, inbox, requests, realmVars, lootLegacyGUID, misgiven>>

\* SMSG_LOOT_RESPONSE: with no list yet, the group's members are sent.
LootResponse ==
    /\ Arrives("response")
    /\ LET sends == lastMasterLootSentLegacy # Corpse \/ masterLootListPending
       IN /\ masterLootListPending' = (masterLootListPending /\ ~sends)
          /\ lastMasterLootSentLegacy' = Corpse
          /\ list' = IF sends THEN [object |-> Corpse, of |-> masterLootCandidates] ELSE list
    /\ lootLegacyGUID' = Corpse /\ lootObjModern' = Corpse
    /\ window' = Corpse /\ opening' = opening - 1
    /\ UNCHANGED <<asked, inbox, requests, realmVars, masterLootCandidates, misgiven>>

\* SMSG_LOOT_RESPONSE with a reason for its failure
LootFailure ==
    /\ Arrives("failure")
    /\ lootLegacyGUID' = Corpse /\ lootObjModern' = Corpse
    /\ opening' = opening - 1
    /\ UNCHANGED <<asked, window, list, inbox, requests, realmVars, masterLootCandidates,
                   masterLootListPending, lastMasterLootSentLegacy, misgiven>>

\* SMSG_LOOT_LIST
LootList ==
    /\ Arrives("notice")
    /\ LET first == lootLegacyGUID = NoCorpse
       IN /\ lootLegacyGUID' = IF first THEN Corpse ELSE lootLegacyGUID
          /\ lootObjModern' = IF first THEN Corpse ELSE lootObjModern
    /\ UNCHANGED <<clientVars, inbox, requests, realmVars, masterLootCandidates,
                   masterLootListPending, lastMasterLootSentLegacy, misgiven>>

Forgets ==
    /\ lootLegacyGUID' = NoCorpse /\ lootObjModern' = NoCorpse
    /\ masterLootCandidates' = NoCorpse /\ masterLootListPending' = FALSE
    /\ lastMasterLootSentLegacy' = NoCorpse

\* SMSG_LOOT_RELEASE, sent on with the object the session holds.
LootReleased ==
    /\ Arrives("release")
    /\ LET object == IF lootObjModern = NoCorpse THEN Corpse ELSE lootObjModern
       IN /\ window' = IF window = object THEN NoCorpse ELSE window
          /\ list' = IF window = object THEN NoList ELSE list
    /\ Forgets
    /\ UNCHANGED <<asked, opening, inbox, requests, realmVars, misgiven>>

\* SMSG_NEW_WORLD: resetWorldObjectsLocked; the client closes its window.
NewWorld ==
    /\ Arrives("world") /\ window' = NoCorpse /\ list' = NoList /\ Forgets
    /\ UNCHANGED <<asked, opening, inbox, requests, realmVars, misgiven>>

Next ==
    \/ \E c \in Corpses : Open(c) \/ RealmNotices(c)
    \/ Close \/ Give
    \/ LootUnit \/ LootRelease \/ MasterLootItem
    \/ RealmLoots \/ RealmReleases \/ RealmGives \/ RealmCloses \/ RealmMoves
    \/ MasterList \/ LootResponse \/ LootFailure \/ LootList \/ LootReleased \/ NewWorld

Spec == Init /\ [][Next]_vars

-----------------------------------------------------------------------------
\* A gift is of an item in the window it was made in: however requests cross the
\* realm's releases, lists and notices, the realm is never asked to give away
\* what lies in the same slot of another corpse.  Only a client that gives from
\* its window while another corpse's is on its way can do that.
GiftsAsShown == ~misgiven

\* The master looter's window comes with a list for the window's object.
WindowHasList == window # NoCorpse => list.object = window
=============================================================================
