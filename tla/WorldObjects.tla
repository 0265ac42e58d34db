---------------------------- MODULE WorldObjects ----------------------------
(***************************************************************************)
(* The objects of the map the character stands on, and what the relay ties  *)
(* to them: spells of other units wait for their casters' creates, boss     *)
(* frames follow their units in and out of sight, and a transfer to another *)
(* map forgets everything.                                                  *)
(*                                                                          *)
(* Everything but the client's world-port response is handled by one        *)
(* goroutine, relayLegacyWorld, packet by packet; a packet's handling is    *)
(* one step, except that a transfer's packets wait on the wire, for the     *)
(* response (handleModernTeleportPacket, the session's other goroutine)     *)
(* clears a flag they test and writes to the realm after it unlocked.       *)
(* A map is named by the number of the transfer that led to it, so that     *)
(* coming back to a map is another visit.                                   *)
(***************************************************************************)
EXTENDS Naturals, Sequences, FiniteSets

CONSTANTS
    Units,         \* creatures and players other than the character
    Untranslated,  \* those whose create is skipped: a corpse, a portal's skull
    MaxPending,    \* maxPendingObjectSpells, 128 in the code
    MaxTransfers,  \* bound: maps the realm sends the character to
    MaxReports,    \* bound: spells the realm reports and transfers together
    Returns,       \* may a destroyed unit come back under its GUID
    Chains         \* may a transfer start before the last one's ack

ASSUME ObjectBounds ==
    MaxPending \in Nat \ {0} /\ MaxTransfers \in Nat /\ MaxReports \in Nat
ASSUME ObjectUnits == Untranslated \subseteq Units
ASSUME ObjectFaults == Returns \in BOOLEAN /\ Chains \in BOOLEAN

VARIABLES
    shows,       \* realm: the units it has created for this session
    engaged,     \* realm: bosses engaged on the character's map
    gone,        \* realm: units it has destroyed
    visit,       \* realm: the map it has sent the character to
    awaiting,    \* realm: it waits for MSG_MOVE_WORLDPORT_ACK
    chained,     \* realm: some transfer started while it waited
    wire,        \* transfer packets the relay has not handled
    currentMapID, objectGUIDs, visibleObjectGUIDs, pendingObjectSpells,
    encounterFrames,            \* its keys; the two next are fields of a frame
    framePending, frameSent,    \* Pending is set, SentGUID is not zero
    encounterInProgress, waitingForNewWorld, waitingForWorldPortAck,
    acking,      \* a world-port response is handled but its ack not written
    here,        \* client: the map it shows
    loading,     \* client: it has not answered NEW_WORLD
    sees,        \* client: its objects
    bosses,      \* client: its boss frames
    fighting,    \* client: between encounter start and end
    spells,      \* history: the spells the realm reported
    shown        \* history: those written to the client, by number

realmVars == <<shows, engaged, gone, visit, awaiting, chained>>
encounterVars == <<encounterFrames, framePending, frameSent, encounterInProgress>>
objectVars == <<objectGUIDs, visibleObjectGUIDs>>
transferVars == <<wire, currentMapID, waitingForNewWorld, waitingForWorldPortAck, acking>>
clientVars == <<here, loading, sees, bosses, fighting>>
vars == <<realmVars, objectVars, pendingObjectSpells, encounterVars, transferVars,
          clientVars, spells, shown>>

Visits == 0..MaxTransfers
SpellNos == 1..MaxReports
\* A spell has a caster and a caster unit, which may be the same.  (The
\* character's own spells wait for nothing.)
Casters == {c \in SUBSET (Units \ Untranslated) : Cardinality(c) \in 1..2}
TransferPacket ==
    [op : {"PENDING", "ABORTED"}] \cup [op : {"NEW_WORLD"}, visit : Visits]

TypeOK ==
    /\ shows \subseteq Units /\ engaged \subseteq Units /\ gone \subseteq Units
    /\ visit \in Visits /\ awaiting \in BOOLEAN /\ chained \in BOOLEAN
    /\ wire \in Seq(TransferPacket)
    /\ currentMapID \in Visits
    /\ objectGUIDs \subseteq Units \ Untranslated
    /\ visibleObjectGUIDs \subseteq Units \ Untranslated
    /\ pendingObjectSpells \in Seq(SpellNos) /\ Len(pendingObjectSpells) <= MaxPending
    /\ encounterFrames \subseteq Units
    /\ framePending \subseteq encounterFrames /\ frameSent \subseteq encounterFrames
    /\ encounterInProgress \in BOOLEAN
    /\ waitingForNewWorld \in BOOLEAN /\ waitingForWorldPortAck \in BOOLEAN
    /\ acking \in BOOLEAN
    /\ here \in Visits /\ loading \in BOOLEAN
    /\ sees \subseteq Units \ Untranslated /\ bosses \subseteq sees
    /\ fighting \in BOOLEAN
    /\ spells \in Seq([casters : Casters, visit : Visits]) /\ Len(spells) <= MaxReports
    /\ shown \in Seq(1..Len(spells))

Init ==
    /\ shows = {} /\ engaged = {} /\ gone = {} /\ visit = 0
    /\ awaiting = FALSE /\ chained = FALSE /\ wire = <<>>
    /\ currentMapID = 0 /\ objectGUIDs = {} /\ visibleObjectGUIDs = {}
    /\ pendingObjectSpells = <<>>
    /\ encounterFrames = {} /\ framePending = {} /\ frameSent = {}
    /\ encounterInProgress = FALSE
    /\ waitingForNewWorld = FALSE /\ waitingForWorldPortAck = FALSE
    /\ acking = FALSE
    /\ here = 0 /\ loading = FALSE /\ sees = {} /\ bosses = {} /\ fighting = FALSE
    /\ spells = <<>> /\ shown = <<>>

\* The realm reports what is on the character's map while the character is on
\* it; the relay has then handled what the realm sent before.
OnMap == ~awaiting /\ wire = <<>>

\* May the realm speak of these units?
Alive(units) == Returns \/ units \cap gone = {}

-----------------------------------------------------------------------------
(* Spells of other units.                                                  *)

\* unknownSpellObjectLocked: some caster is not yet visible.
UnknownSpellObject(n, visible) == ~(spells'[n].casters \subseteq visible)

\* The members of a queue at some of its places, in the order of the queue:
\* what a loop that appends those it keeps to an empty slice builds.
Nth(places, k) == CHOOSE i \in places : Cardinality({j \in places : j <= i}) = k
KeptAt(queue, places) == [k \in 1..Cardinality(places) |-> queue[Nth(places, k)]]

\* takeReadyObjectSpellsLocked, once these units are visible.
Ready(visible) ==
    {i \in DOMAIN pendingObjectSpells : ~UnknownSpellObject(pendingObjectSpells[i], visible)}
TakeReadyObjectSpells(visible) == KeptAt(pendingObjectSpells, Ready(visible))
RemainingObjectSpells(visible) ==
    KeptAt(pendingObjectSpells, DOMAIN pendingObjectSpells \ Ready(visible))

\* Mutant: a spell is queued in front of the others.
QueueInFront(n) ==
    pendingObjectSpells' = IF Len(pendingObjectSpells) >= MaxPending
                           THEN pendingObjectSpells
                           ELSE <<n>> \o pendingObjectSpells

\* queueObjectSpellLocked: the newest spell is dropped when the queue is full.
QueueObjectSpell(n) ==
    pendingObjectSpells' = IF Len(pendingObjectSpells) >= MaxPending
                           THEN pendingObjectSpells
                           ELSE Append(pendingObjectSpells, n)

\* SPELL_START or SPELL_GO.
Spell(casters) ==
    /\ OnMap /\ Alive(casters) /\ Len(spells) + visit < MaxReports
    /\ spells' = Append(spells, [casters |-> casters, visit |-> visit])
    /\ LET n == Len(spells') IN
       \/ /\ UnknownSpellObject(n, visibleObjectGUIDs)
          /\ QueueObjectSpell(n)
          /\ UNCHANGED shown
       \/ /\ ~UnknownSpellObject(n, visibleObjectGUIDs)
          /\ shown' = Append(shown, n)
          /\ UNCHANGED pendingObjectSpells
    /\ UNCHANGED <<realmVars, objectVars, encounterVars, transferVars, clientVars>>

-----------------------------------------------------------------------------
(* Boss frames.                                                            *)

\* Mutant: frames that wait are sent without the start of the encounter.
EngageAlone(units, objects) ==
    /\ UNCHANGED <<encounterInProgress, fighting>>
    /\ bosses' = (bosses \cup units) \cap objects

\* wrapEncounterPacketsLocked for engage packets of these units, and what the
\* client, which has these objects, makes of them.
Engage(units, objects) ==
    /\ encounterInProgress' = (encounterInProgress \/ units # {})
    /\ fighting' = (fighting \/ (units # {} /\ ~encounterInProgress))
    /\ bosses' = (bosses \cup units) \cap objects

\* visibleEncounterGUIDLocked
Resolves(u) == u \in objectGUIDs /\ u \in visibleObjectGUIDs

\* Events 0 (engage) and 2 (change of priority) of EncounterFrames.Apply: a
\* change is an engagement if the frame has not been shown, and nothing if
\* the unit has no frame.
EncounterEngage(u, kind) ==
    /\ OnMap /\ Alive({u})
    /\ engaged' = IF kind = 0 THEN engaged \cup {u} ELSE engaged
    /\ IF kind = 2 /\ u \notin encounterFrames
       THEN UNCHANGED <<encounterVars, clientVars>>
       ELSE /\ encounterFrames' = encounterFrames \cup {u}
            /\ IF Resolves(u)
               THEN /\ framePending' = framePending \ {u}
                    /\ frameSent' = frameSent \cup {u}
                    /\ Engage(IF kind = 0 \/ u \in framePending THEN {u} ELSE {}, sees)
               ELSE /\ framePending' = framePending \cup {u}
                    /\ UNCHANGED <<frameSent, encounterInProgress, bosses, fighting>>
            /\ UNCHANGED <<here, loading, sees>>
    /\ UNCHANGED <<shows, gone, visit, awaiting, chained, objectVars,
                   pendingObjectSpells, transferVars, spells, shown>>

\* Event 1: the client is told if the unit is in sight or its frame was ever
\* shown, and is told the end with the last frame.
EncounterDisengage(u) ==
    /\ OnMap /\ engaged' = engaged \ {u}
    /\ encounterFrames' = encounterFrames \ {u}
    /\ framePending' = framePending \ {u} /\ frameSent' = frameSent \ {u}
    /\ IF Resolves(u) \/ u \in frameSent
       THEN /\ bosses' = bosses \ {u}
            /\ encounterInProgress' = (encounterInProgress /\ encounterFrames' # {})
            /\ fighting' = (fighting /\ ~(encounterInProgress /\ encounterFrames' = {}))
       ELSE UNCHANGED <<bosses, encounterInProgress, fighting>>
    /\ UNCHANGED <<shows, gone, visit, awaiting, chained, objectVars, here, loading, sees,
                   pendingObjectSpells, transferVars, spells, shown>>

\* Event 7: every frame is sent anew, if its unit is in sight.
EncounterRefresh ==
    /\ OnMap /\ encounterFrames # {}
    /\ LET resolved == {u \in encounterFrames : Resolves(u)} IN
       /\ framePending' = encounterFrames \ resolved
       /\ frameSent' = frameSent \cup resolved
       /\ Engage(resolved, sees)
    /\ UNCHANGED <<realmVars, objectVars, encounterFrames, here, loading, sees,
                   pendingObjectSpells, transferVars, spells, shown>>

-----------------------------------------------------------------------------
(* Objects.                                                                *)

\* Mutants: a frame does not wait for its unit; a unit without one gets one.
HiddenNever(far) == framePending
HiddenAlways(far) == framePending \cup far

\* forgetObjectVisibleLocked for the units a batch takes out of range; their
\* frames wait for them to return.
Hidden(far) == framePending \cup (far \cap encounterFrames)

\* SMSG_UPDATE_OBJECT.  The units out of range come first, whatever their
\* place in the batch.  The creates that can be translated are remembered one
\* by one, written together and only then marked as visible; frames and spells
\* that waited for them follow.
UpdateObjects(far, new) ==
    /\ OnMap /\ Alive(new)
    /\ far \subseteq shows /\ new \cap (shows \ far) = {} /\ far \cup new # {}
    /\ shows' = (shows \ far) \cup new
    /\ LET created == new \ Untranslated
           objects == (sees \ far) \cup created
           known == (objectGUIDs \ far) \cup created
           visible == (visibleObjectGUIDs \ far) \cup created
           resolved == Hidden(far) \cap known \cap visible
       IN /\ objectGUIDs' = known
          /\ visibleObjectGUIDs' = visible
          /\ sees' = objects
          /\ IF created = {}
             THEN /\ framePending' = Hidden(far)
                  /\ bosses' = bosses \cap objects
                  /\ UNCHANGED <<frameSent, encounterInProgress, fighting,
                                 shown, pendingObjectSpells, spells>>
             ELSE /\ framePending' = Hidden(far) \ resolved
                  /\ frameSent' = frameSent \cup resolved
                  /\ Engage(resolved, objects)
                  /\ UNCHANGED spells
                  /\ shown' = shown \o TakeReadyObjectSpells(visible)
                  /\ pendingObjectSpells' = RemainingObjectSpells(visible)
    /\ UNCHANGED <<engaged, gone, visit, awaiting, chained, encounterFrames,
                   transferVars, here, loading>>

\* SMSG_DESTROY_OBJECT removes the object from the client and from the maps
\* of known objects; it does not call forgetObjectVisibleLocked.
DestroyObject(u) ==
    /\ OnMap /\ u \in shows
    /\ shows' = shows \ {u} /\ gone' = gone \cup {u}
    /\ objectGUIDs' = objectGUIDs \ {u}
    /\ sees' = sees \ {u} /\ bosses' = bosses \ {u}
    /\ UNCHANGED <<engaged, visit, awaiting, chained, visibleObjectGUIDs,
                   pendingObjectSpells, encounterVars, transferVars, here, loading,
                   fighting, spells, shown>>

-----------------------------------------------------------------------------
(* Transfers between maps.                                                 *)

\* The realm sends the character to another map and waits for the client.
Transfer ==
    /\ awaiting => Chains
    /\ visit < MaxTransfers /\ Len(spells) + visit < MaxReports
    /\ visit' = visit + 1 /\ awaiting' = TRUE /\ chained' = (chained \/ awaiting)
    /\ wire' = wire \o <<[op |-> "PENDING"], [op |-> "NEW_WORLD", visit |-> visit + 1]>>
    /\ shows' = {} /\ engaged' = {} /\ gone' = {}
    /\ UNCHANGED <<objectVars, pendingObjectSpells, encounterVars, currentMapID,
                   waitingForNewWorld, waitingForWorldPortAck, acking, clientVars,
                   spells, shown>>

\* The realm refuses a transfer, before or after it announced it.
RefuseTransfer ==
    /\ OnMap
    /\ \E announced \in BOOLEAN :
          wire' = IF announced THEN <<[op |-> "PENDING"], [op |-> "ABORTED"]>>
                               ELSE <<[op |-> "ABORTED"]>>
    /\ UNCHANGED <<realmVars, objectVars, pendingObjectSpells, encounterVars,
                   currentMapID, waitingForNewWorld, waitingForWorldPortAck, acking,
                   clientVars, spells, shown>>

\* SMSG_TRANSFER_PENDING: skipped while the client owes an ack.  The two
\* locked sections of the handler are one step: the flag set by the second is
\* the relay's own.
RelayTransferPending ==
    /\ wire # <<>> /\ Head(wire).op = "PENDING"
    /\ wire' = Tail(wire)
    /\ waitingForNewWorld' = (waitingForNewWorld \/ ~waitingForWorldPortAck)
    /\ UNCHANGED <<realmVars, objectVars, pendingObjectSpells, encounterVars, currentMapID,
                   waitingForWorldPortAck, acking, clientVars, spells, shown>>

\* Mutant: the aborted transfer is still waited for.
RelayAbortedOnly ==
    /\ wire # <<>> /\ Head(wire).op = "ABORTED"
    /\ wire' = Tail(wire)
    /\ UNCHANGED <<waitingForNewWorld, realmVars, objectVars, pendingObjectSpells,
                   encounterVars, currentMapID, waitingForWorldPortAck, acking,
                   clientVars, spells, shown>>

\* SMSG_TRANSFER_ABORTED
RelayTransferAborted ==
    /\ wire # <<>> /\ Head(wire).op = "ABORTED"
    /\ wire' = Tail(wire)
    /\ waitingForNewWorld' = FALSE
    /\ UNCHANGED <<realmVars, objectVars, pendingObjectSpells, encounterVars, currentMapID,
                   waitingForWorldPortAck, acking, clientVars, spells, shown>>

\* Mutant: the spells that wait survive the change of map.
ResetKeepsSpells(to) ==
    /\ currentMapID' = to
    /\ encounterFrames' = {} /\ framePending' = {} /\ frameSent' = {}
    /\ encounterInProgress' = FALSE
    /\ objectGUIDs' = {} /\ visibleObjectGUIDs' = {}
    /\ UNCHANGED pendingObjectSpells

\* resetWorldObjectsLocked
ResetWorldObjects(to) ==
    /\ currentMapID' = to
    /\ encounterFrames' = {} /\ framePending' = {} /\ frameSent' = {}
    /\ encounterInProgress' = FALSE
    /\ pendingObjectSpells' = <<>>
    /\ objectGUIDs' = {} /\ visibleObjectGUIDs' = {}

\* The client leaves its map with all it showed.
ClientNewWorld(to) ==
    /\ here' = to /\ loading' = TRUE
    /\ sees' = {} /\ bosses' = {} /\ fighting' = FALSE

\* SMSG_NEW_WORLD: one that no TRANSFER_PENDING announced is not passed on.
RelayNewWorld ==
    /\ wire # <<>> /\ Head(wire).op = "NEW_WORLD"
    /\ wire' = Tail(wire)
    /\ \/ /\ waitingForNewWorld
          /\ ResetWorldObjects(Head(wire).visit)
          /\ waitingForNewWorld' = FALSE /\ waitingForWorldPortAck' = TRUE
          /\ ClientNewWorld(Head(wire).visit)
       \/ /\ ~waitingForNewWorld
          /\ currentMapID' = Head(wire).visit
          /\ UNCHANGED <<waitingForNewWorld, waitingForWorldPortAck, encounterVars,
                         pendingObjectSpells, objectVars, clientVars>>
    /\ UNCHANGED <<realmVars, acking, spells, shown>>

\* Mutant: the response leaves the flag set.
ResponseKeepsFlag ==
    /\ loading /\ ~acking
    /\ loading' = FALSE /\ acking' = TRUE
    /\ UNCHANGED <<realmVars, objectVars, pendingObjectSpells, encounterVars, wire,
                   currentMapID, waitingForNewWorld, waitingForWorldPortAck, here,
                   sees, bosses, fighting, spells, shown>>

\* CMSG_WORLD_PORT_RESPONSE: the client has loaded the map, the handler clears
\* the flag and will write the ack.
WorldPortResponse ==
    /\ loading /\ ~acking
    /\ loading' = FALSE
    /\ waitingForWorldPortAck' = FALSE
    /\ acking' = TRUE
    /\ UNCHANGED <<realmVars, objectVars, pendingObjectSpells, encounterVars, wire,
                   currentMapID, waitingForNewWorld, here, sees, bosses, fighting,
                   spells, shown>>

\* The ack reaches the realm, which takes any for the one it waits for.
WriteWorldPortAck ==
    /\ acking
    /\ acking' = FALSE /\ awaiting' = FALSE
    /\ UNCHANGED <<shows, engaged, gone, visit, chained, objectVars, pendingObjectSpells,
                   encounterVars, wire, currentMapID, waitingForNewWorld,
                   waitingForWorldPortAck, clientVars, spells, shown>>

Next ==
    \/ \E casters \in Casters : Spell(casters)
    \/ \E u \in Units \ Untranslated, kind \in {0, 2} : EncounterEngage(u, kind)
    \/ \E u \in Units \ Untranslated : EncounterDisengage(u)
    \/ EncounterRefresh
    \/ \E far, new \in SUBSET Units : UpdateObjects(far, new)
    \/ \E u \in Units : DestroyObject(u)
    \/ Transfer \/ RefuseTransfer
    \/ RelayTransferPending \/ RelayTransferAborted \/ RelayNewWorld
    \/ WorldPortResponse \/ WriteWorldPortAck

Spec == Init /\ [][Next]_vars

\* The relay reads on while there is something to read, the client answers a
\* NEW_WORLD once it has loaded the map, and its handler goes on to its write.
Fairness ==
    /\ WF_vars(RelayTransferPending) /\ WF_vars(RelayTransferAborted)
    /\ WF_vars(RelayNewWorld)
    /\ WF_vars(WorldPortResponse) /\ WF_vars(WriteWorldPortAck)

FairSpec == Spec /\ Fairness

-----------------------------------------------------------------------------
(* Properties.                                                             *)

\* No transfer is under way at the realm, on the wire, or at the client.
Settled == ~awaiting /\ wire = <<>> /\ ~loading /\ ~acking

\* While transfers do not overlap, a spell of another unit reaches the client
\* only when all its casters are there (one that was destroyed while the spell
\* waited for another excepted: DestroyObject leaves it marked as visible), and
\* on the map it was cast on: the create is written before the caster is
\* marked, a spell waits for the mark, and a transfer drops the spells that
\* still wait.
SpellsHaveCasters ==
    [][\A i \in Len(shown) + 1..Len(shown') :
          LET spell == spells'[shown'[i]] IN
          ~chained => /\ spell.casters \subseteq sees' \cup gone'
                      /\ spell.visit = here']_vars

\* The spells of the same casters are shown in the order the realm reported
\* them, each once: a queued START is never overtaken by its GO, also when the
\* queue was full in between.
SpellsInOrder ==
    \A i, j \in DOMAIN shown :
       i < j /\ spells[shown[i]].casters = spells[shown[j]].casters => shown[i] < shown[j]

\* The client shows a boss frame for exactly those units in sight that the
\* realm has engaged, whatever came first, the engagement or the unit, and
\* however often the unit left and returned.
FramesFollowUnits ==
    ~chained /\ Settled => bosses = engaged \cap sees

\* The client has boss frames only between an encounter's start and its end,
\* the session knows which, and a frame that waits belongs to a unit out of sight.
EncounterBracketed ==
    /\ bosses # {} => fighting
    /\ fighting = encounterInProgress
    /\ \A u \in framePending : ~Resolves(u)

\* When no transfer is under way, the client and the proxy are on the map the
\* realm has the character on, and the proxy is ready for the next transfer.
ClientOnRealmMap ==
    ~chained /\ Settled =>
       /\ here = visit /\ currentMapID = visit
       /\ ~waitingForNewWorld /\ ~waitingForWorldPortAck

\* Every transfer the realm starts ends: it gets an ack, also when a second
\* transfer started before the client had answered the first one and was
\* skipped.
TransferCompletes == awaiting ~> ~awaiting
=============================================================================
