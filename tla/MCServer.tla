------------------------------ MODULE MCServer ------------------------------
(* The proxy's smaller parts: what it keeps for all sessions (the orders of   *)
(* groups, the logins of an account, the profiles on the disk) and what a     *)
(* session keeps for its character.  They share no state; each behaviour is   *)
(* one of one of them, named by focus, at rest in the others.                 *)
EXTENDS Party

CONSTANTS Realms, NoRealm, Unknown, MaxLogins, MaxJoins, MaxConns
VARIABLES
    bnet, sessions, worldSessions, hasClientSecret, hasRealm, selectedRealm,
    worldKey, realmWorld, legacyWorld, joins, asked, secret, conns, stage,
    session, owner, key, dialled, unguarded
loginVars == <<bnet, sessions, worldSessions, hasClientSecret, hasRealm,
    selectedRealm, worldKey, realmWorld, legacyWorld, joins, asked, secret, conns,
    stage, session, owner, key, dialled, unguarded>>
R == INSTANCE RealmLogin WITH open <- unguarded

CONSTANTS MaxSaves, MaxCrashes
VARIABLES step, saving, temp, file, disk, loaded, crashes, saved, lost
profileVars == <<step, saving, temp, file, disk, loaded, crashes, saved, lost>>
F == INSTANCE ProfileStore

CONSTANTS Senders, MaxHeld, MaxWhispers, MaxEvents
VARIABLES
    playerNames, playerIdentities, pendingNamedChats, pendingPlayerNameQueries,
    queries, events, whispers, shown, dropped, learned
nameVars == <<playerNames, playerIdentities, pendingNamedChats,
    pendingPlayerNameQueries, queries, events, whispers, shown, dropped, learned>>
N == INSTANCE NameQueries

CONSTANTS Members, Starters, MaxChecks
VARIABLES
    generation, starting, timers, firing, news, present, window, checks, disturbed
checkVars == <<generation, starting, timers, firing, news, present, window, checks,
    disturbed>>
C == INSTANCE ReadyCheck

CONSTANTS Corpses, Items, MaxRolls, MaxMaps, MaxCompleted
VARIABLES
    open, started, answers, currentMapID, lootRolls, completedLootRolls, dialogs,
    muddled, refused
rollVars == <<open, started, answers, currentMapID, lootRolls, completedLootRolls,
    dialogs, muddled, refused>>
L == INSTANCE LootRolls

CONSTANTS NoCorpse, MaxOpens, MaxRequests
VARIABLES
    corpses, opening, lootWindow, list, inbox, requests, packets, looting, noticed, left,
    lootLegacyGUID, lootObjModern, masterLootCandidates, masterLootListPending,
    lastMasterLootSentLegacy, misgiven
windowVars == <<corpses, opening, lootWindow, list, inbox, requests, packets, looting,
    noticed, left, lootLegacyGUID, lootObjModern, masterLootCandidates,
    masterLootListPending, lastMasterLootSentLegacy, misgiven>>
W == INSTANCE LootWindow WITH asked <- corpses, window <- lootWindow

CONSTANTS Names, NoName, MaxLists, MaxBreaks
VARIABLES
    characters, charRequests, charAnswers, writing, pendingCreateName,
    awaitingCreateEnum, creating, lists, breaks, stray, wrong
screenVars == <<characters, charRequests, charAnswers, writing, pendingCreateName,
    awaitingCreateEnum, creating, lists, breaks, stray, wrong>>
S == INSTANCE CharacterList WITH requests <- charRequests, answers <- charAnswers

CONSTANTS Nodes, Graphs, Masks, MaxMenus, MaxSegments
VARIABLES
    taxiPathGraph, menus, currentTaxiNode, usableTaxiNodes, search, distance,
    previous, visited, route, flight, taxiPackets, taxiReplyPending, taxiLoginGrace,
    flown, relogged, late
taxiVars == <<taxiPathGraph, menus, currentTaxiNode, usableTaxiNodes, search, distance,
    previous, visited, route, flight, taxiPackets, taxiReplyPending, taxiLoginGrace,
    flown, relogged, late>>
T == INSTANCE Taxi WITH packets <- taxiPackets, shown <- flown

CONSTANTS Carried, Bags, Main, None, MainSlots, BagSlots, Kinds
VARIABLES
    held, update, gone, credit, delta, places, known, questItemSyncPending, counted,
    itemRequest, body, acted, overtaken
inventoryVars == <<held, update, gone, credit, delta, places, known, questItemSyncPending,
    counted, itemRequest, body, acted, overtaken>>
I == INSTANCE Inventory WITH Items <- Carried, shown <- places, asked <- itemRequest

VARIABLE focus

\* Four nodes: a short and a long way, a path that costs nothing, a way back,
\* then two paths between the same nodes, then nodes the long way alone joins.
Paths == {<<1, 2, 0>>, <<2, 3, 1>>, <<1, 3, 3>>, <<3, 4, 0>>, <<1, 4, 4>>, <<2, 4, 2>>,
          <<2, 1, 1>>}
SomePaths == {Paths, Paths \cup {<<1, 4, 2>>}, Paths \ {<<1, 4, 4>>, <<2, 4, 2>>}}
SomeMasks == {{}, {2}, {2, 3}, {1, 2, 3, 4}}

\* One of the places things may lie when the other parts begin.
SomewhereHeld ==
    CHOOSE h \in [I!Fields -> I!Contents] :
        I!BagsWorn(h) /\ \A t \in I!Things : Cardinality({f \in I!Fields : h[f] = t}) = 1

ASSUME ServerConstants ==
    R!Constants /\ F!Constants /\ N!Constants /\ C!Constants /\ L!Constants
    /\ W!Constants /\ S!Constants /\ T!Constants /\ I!Constants

Parts == {"party", "login", "profiles", "names", "check", "rolls", "window", "screen", "taxi",
          "inventory"}

ServerInit ==
    /\ focus \in Parts
    /\ Init /\ R!Init /\ F!Init /\ N!Init /\ C!Init /\ L!Init /\ W!Init /\ S!Init
    /\ T!Init /\ (focus # "taxi" => taxiPathGraph = Paths)
    /\ I!Init /\ (focus # "inventory" => held = SomewhereHeld)

\* A part that is at rest does not change.
Rests(part, partVars) == IF focus = part THEN TRUE ELSE UNCHANGED partVars

ServerNext ==
    /\ UNCHANGED focus
    /\ \/ focus = "party" /\ Next
       \/ focus = "login" /\ R!Next
       \/ focus = "profiles" /\ F!Next
       \/ focus = "names" /\ N!Next
       \/ focus = "check" /\ C!Next
       \/ focus = "rolls" /\ L!Next
       \/ focus = "window" /\ W!Next
       \/ focus = "screen" /\ S!Next
       \/ focus = "taxi" /\ T!Next
       \/ focus = "inventory" /\ I!Next
    /\ Rests("party", vars) /\ Rests("login", loginVars) /\ Rests("profiles", profileVars)
    /\ Rests("names", nameVars) /\ Rests("check", checkVars) /\ Rests("rolls", rollVars)
    /\ Rests("window", windowVars) /\ Rests("screen", screenVars) /\ Rests("taxi", taxiVars)
    /\ Rests("inventory", inventoryVars)

\* The fairness of one is satisfied while it is at rest: its steps are disabled.
ServerSpec ==
    /\ ServerInit
    /\ [][ServerNext]_<<focus, vars, loginVars, profileVars, nameVars, checkVars, rollVars,
                        windowVars, screenVars, taxiVars, inventoryVars>>
    /\ N!Fairness /\ C!Fairness

\* The type invariants of the parts.
TypesOK ==
    /\ TypeOK /\ R!TypeOK /\ F!TypeOK /\ N!TypeOK /\ C!TypeOK /\ L!TypeOK
    /\ W!TypeOK /\ S!TypeOK /\ T!TypeOK /\ I!TypeOK

\* The properties of those that are instances.
RealmServesJoin == R!RealmServesJoin
ProfileSurvives == F!ProfileSurvives
WhispersShown == N!WhispersShown
WhispersInOrder == N!WhispersInOrder
CheckEnds == C!CheckEnds
DialogsFollowRolls == L!DialogsFollowRolls
GiftsAsShown == W!GiftsAsShown
AnswersMatch == S!AnswersMatch
RouteCheapest == T!RouteCheapest
FlightStartsOnce == T!FlightStartsOnce
ActsOnNamed == I!ActsOnNamed
LandsWhereNamed == I!LandsWhereNamed
CountFollows == I!CountFollows
=============================================================================
