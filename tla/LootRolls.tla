------------------------------ MODULE LootRolls ------------------------------
(***************************************************************************)
(* Rolls for loot.  The realm names a roll by its corpse and the slot of    *)
(* the item, the client by an object GUID the proxy makes of the corpse and *)
(* the current map.  The realm may leave the corpse out of what it tells of *)
(* a roll later; the roll is then looked for by its slot and item.          *)
(*                                                                          *)
(* The relay handles what the realm sends packet by packet; a client's      *)
(* answer waits on the other connection and may come after the roll's end.  *)
(***************************************************************************)
EXTENDS Naturals, Sequences, FiniteSets

CONSTANTS
    Corpses, Items,
    MaxRolls,      \* bound: rolls the realm starts
    MaxMaps,       \* bound: maps the character goes to
    MaxCompleted   \* maxCompleted, 256 in the code

Constants == MaxRolls \in Nat /\ MaxMaps \in Nat /\ MaxCompleted \in Nat \ {0}

VARIABLES
    open,          \* realm: rolls under way, with the map they started on
    started,       \* realm: rolls so far
    answers,       \* answers of the client on their way
    currentMapID, lootRolls, completedLootRolls,
    dialogs,       \* client: the rolls it shows
    muddled,       \* history: items of which two rolls were open together and
                   \* one's end came without its corpse, or that were open
                   \* when the map changed
    refused        \* history: an answer was refused as unknown

vars == <<open, started, answers, currentMapID, lootRolls, completedLootRolls,
          dialogs, muddled, refused>>

\* An item stands for a slot and what lies in it: the slot, the item's ID, its
\* suffix and property are the LootRollKey.  No two items of a corpse share a
\* slot, so that a corpse, a map and an item are a lootRollIdentity.
Maps == 0..MaxMaps
Rolls == [corpse : Corpses, map : Maps, item : Items]
Reference(corpse, item) == [corpse |-> corpse, map |-> currentMapID, item |-> item]

TypeOK ==
    /\ open \subseteq Rolls /\ started \in 0..MaxRolls
    /\ answers \subseteq Rolls
    /\ currentMapID \in Maps /\ lootRolls \subseteq Rolls
    /\ completedLootRolls \in Seq(Rolls) /\ Len(completedLootRolls) <= MaxCompleted
    /\ dialogs \subseteq Rolls /\ muddled \subseteq Items /\ refused \in BOOLEAN

Init ==
    /\ open = {} /\ started = 0 /\ answers = {}
    /\ currentMapID = 0 /\ lootRolls = {} /\ completedLootRolls = <<>>
    /\ dialogs = {} /\ muddled = {} /\ refused = FALSE

-----------------------------------------------------------------------------
(* The relay.                                                              *)

\* SMSG_LOOT_START_ROLL
StartRoll(corpse, item) ==
    /\ started < MaxRolls /\ started' = started + 1
    /\ \A r \in open : <<r.corpse, r.item>> # <<corpse, item>>
    /\ LET r == Reference(corpse, item) IN
       /\ open' = open \cup {r}
       /\ lootRolls' = lootRolls \cup {r}
       /\ dialogs' = dialogs \cup {r}
    /\ UNCHANGED <<answers, currentMapID, completedLootRolls, muddled, refused>>

\* resolveLootRollLocked, as the set of what it finds: a roll named with its
\* corpse is remembered anew, under the map of now; without, it must be the
\* only one of the item.
\* Mutant: some roll of the item is taken.
ResolveSome(r, withCorpse) ==
    IF withCorpse THEN {Reference(r.corpse, r.item)}
    ELSE LET same == {s \in lootRolls : s.item = r.item} IN
         IF same = {} THEN {} ELSE {CHOOSE s \in same : TRUE}
Resolve(r, withCorpse) ==
    IF withCorpse THEN {Reference(r.corpse, r.item)}
    ELSE LET same == {s \in lootRolls : s.item = r.item} IN
         IF Cardinality(same) = 1 THEN same ELSE {}

\* SMSG_LOOT_ROLL: another player's choice.
RollBroadcast(r) ==
    /\ r \in open
    /\ \E withCorpse \in BOOLEAN :
          lootRolls' = lootRolls \cup Resolve(r, withCorpse)
    /\ UNCHANGED <<open, started, answers, currentMapID, completedLootRolls, dialogs,
                   muddled, refused>>

\* completeLootRollLocked
Complete(found) ==
    /\ lootRolls' = lootRolls \ found
    /\ LET kept == IF Len(completedLootRolls) >= MaxCompleted
                   THEN Tail(completedLootRolls) ELSE completedLootRolls
       IN completedLootRolls' =
            IF found = {} THEN completedLootRolls
            ELSE Append(kept, CHOOSE s \in found : TRUE)

\* SMSG_LOOT_ROLL_WON or SMSG_LOOT_ALL_PASSED, and SMSG_LOOT_ROLLS_COMPLETE,
\* which closes the client's dialog.
EndRoll(r) ==
    /\ r \in open /\ open' = open \ {r}
    /\ \E withCorpse \in BOOLEAN :
          /\ Complete(Resolve(r, withCorpse))
          /\ dialogs' = dialogs \ Resolve(r, withCorpse)
          /\ muddled' = IF ~withCorpse /\ \E s \in open' : s.item = r.item
                        THEN muddled \cup {r.item} ELSE muddled
    /\ UNCHANGED <<started, answers, currentMapID, refused>>

\* SMSG_NEW_WORLD: resetWorldObjectsLocked leaves the rolls alone.
NewWorld ==
    /\ currentMapID < MaxMaps /\ currentMapID' = currentMapID + 1
    /\ muddled' = muddled \cup {r.item : r \in open}
    /\ UNCHANGED <<open, started, answers, lootRolls, completedLootRolls, dialogs, refused>>

\* resetCharacterSessionLocked; the client's dialogs end with its character.
LogoutComplete ==
    /\ open' = {} /\ answers' = {} /\ dialogs' = {}
    /\ lootRolls' = {} /\ completedLootRolls' = <<>> /\ muddled' = {}
    /\ UNCHANGED <<started, currentMapID, refused>>

-----------------------------------------------------------------------------
(* The client's choice, and its handler.                                   *)

\* One answer at a time is on its way: they do not affect one another.
Answer(r) ==
    /\ r \in dialogs /\ answers = {} /\ answers' = {r}
    /\ UNCHANGED <<open, started, currentMapID, lootRolls, completedLootRolls, dialogs,
                   muddled, refused>>

Known(r) == r \in lootRolls \/ \E i \in DOMAIN completedLootRolls : completedLootRolls[i] = r

\* CMSG_LOOT_ROLL: the answer to a roll of lootRolls is forwarded.  Any other is
\* dropped: without a word if its roll was completed, else as an error.
LootRoll(r) ==
    /\ r \in answers /\ answers' = answers \ {r}
    /\ refused' = (refused \/ ~Known(r))
    /\ UNCHANGED <<open, started, currentMapID, lootRolls, completedLootRolls, dialogs,
                   muddled>>

Next ==
    \/ \E corpse \in Corpses, item \in Items : StartRoll(corpse, item)
    \/ \E r \in open : RollBroadcast(r) \/ EndRoll(r)
    \/ \E r \in dialogs : Answer(r)
    \/ \E r \in answers : LootRoll(r)
    \/ NewWorld \/ LogoutComplete

Spec == Init /\ [][Next]_vars

-----------------------------------------------------------------------------
\* The client shows a dialog for every open roll, and its answer is forwarded:
\* none is closed or completed by the end of another, although ends may come
\* without their corpse and identical drops may roll together.  A dialog whose
\* roll has ended is closed, unless some end of a roll of its item was ambiguous
\* or such a roll changed maps.  No answer to a dialog, however late, is refused
\* as unknown, as long as the completed rolls are remembered.
DialogsFollowRolls ==
    /\ open \subseteq dialogs /\ open \subseteq lootRolls
    /\ \A r \in dialogs \ open : r.item \in muddled
    /\ started <= MaxCompleted => ~refused
=============================================================================
