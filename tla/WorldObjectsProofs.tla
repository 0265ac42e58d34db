------------------------- MODULE WorldObjectsProofs -------------------------
(***************************************************************************)
(* Boss frames, the client on the realm's map, and the spells of other     *)
(* units, for every set of units and any number of spells and transfers.   *)
(***************************************************************************)
EXTENDS WorldObjects, FiniteSetTheorems, WellFoundedInduction, TLAPS

\* A frame the client shows is one the session has sent and still has: the
\* last frame to be taken back takes the last boss with it.
FramesSent ==
    /\ bosses \subseteq frameSent
    /\ frameSent \subseteq encounterFrames /\ framePending \subseteq encounterFrames
BossInv == FramesSent /\ EncounterBracketed

\* What the boss frames depend on.
bossVars == <<encounterVars, objectVars, bosses, fighting>>

LEMMA BossInit == Init => BossInv
BY DEF Init, BossInv, FramesSent, EncounterBracketed, Resolves

\* The realm's announcements, spells and transfers up to NEW_WORLD leave them
\* alone.
LEMMA OthersKeepBosses ==
    ASSUME \/ \E casters \in Casters : Spell(casters)
           \/ Transfer \/ RefuseTransfer \/ RelayTransferPending
           \/ RelayTransferAborted \/ WorldPortResponse \/ WriteWorldPortAck
    PROVE  UNCHANGED bossVars
<1> USE DEF bossVars, encounterVars, objectVars, clientVars, transferVars
<1>1. CASE \E casters \in Casters : Spell(casters)
    BY <1>1 DEF Spell
<1>2. CASE Transfer \/ RefuseTransfer
    BY <1>2 DEF Transfer, RefuseTransfer
<1>3. CASE RelayTransferPending \/ RelayTransferAborted
    BY <1>3 DEF RelayTransferPending, RelayTransferAborted
<1>4. CASE WorldPortResponse \/ WriteWorldPortAck
    BY <1>4 DEF WorldPortResponse, WriteWorldPortAck
<1> QED BY <1>1, <1>2, <1>3, <1>4

LEMMA EngageKeeps ==
    ASSUME BossInv, NEW u \in Units, NEW kind \in {0, 2}, EncounterEngage(u, kind)
    PROVE  BossInv'
<1> USE DEF BossInv, FramesSent, EncounterBracketed, Resolves, encounterVars, objectVars,
            clientVars
<1>1. CASE kind = 2 /\ u \notin encounterFrames
    BY <1>1 DEF EncounterEngage
<1>2. CASE ~(kind = 2 /\ u \notin encounterFrames) /\ Resolves(u)
    BY <1>2 DEF EncounterEngage, Engage
<1>3. CASE ~(kind = 2 /\ u \notin encounterFrames) /\ ~Resolves(u)
    BY <1>3 DEF EncounterEngage
<1> QED BY <1>1, <1>2, <1>3

LEMMA DisengageKeeps ==
    ASSUME BossInv, NEW u \in Units, EncounterDisengage(u)
    PROVE  BossInv'
<1> USE DEF BossInv, FramesSent, EncounterBracketed, objectVars
<1>1. \A v : Resolves(v)' <=> Resolves(v)
    BY DEF EncounterDisengage, Resolves
<1>2. CASE Resolves(u) \/ u \in frameSent
    BY <1>1, <1>2 DEF EncounterDisengage
<1>3. CASE ~(Resolves(u) \/ u \in frameSent)
    BY <1>1, <1>3 DEF EncounterDisengage
<1> QED BY <1>2, <1>3

LEMMA RefreshKeeps == ASSUME BossInv, EncounterRefresh PROVE BossInv'
<1> DEFINE resolved == {u \in encounterFrames : Resolves(u)}
<1>1. /\ framePending' = encounterFrames \ resolved
      /\ frameSent' = frameSent \cup resolved
      /\ Engage(resolved, sees)
      /\ UNCHANGED <<encounterFrames, objectVars>>
    BY DEF EncounterRefresh
<1>2. \A u \in framePending' : ~Resolves(u)'
    BY <1>1 DEF Resolves, objectVars
<1>3. resolved \subseteq encounterFrames
    OBVIOUS
<1> HIDE DEF resolved
<1>4. FramesSent'
    BY <1>1, <1>3 DEF BossInv, FramesSent, Engage
<1>5. (bosses' # {} => fighting') /\ fighting' = encounterInProgress'
    BY <1>1 DEF BossInv, EncounterBracketed, Engage
<1> QED BY <1>2, <1>4, <1>5 DEF BossInv, EncounterBracketed

LEMMA UpdateKeeps ==
    ASSUME BossInv, NEW far \in SUBSET Units, NEW new \in SUBSET Units,
           UpdateObjects(far, new)
    PROVE  BossInv'
<1> DEFINE created == new \ Untranslated
           objects == (sees \ far) \cup created
           known == (objectGUIDs \ far) \cup created
           visible == (visibleObjectGUIDs \ far) \cup created
           resolved == Hidden(far) \cap known \cap visible
<1>1. objectGUIDs' = known /\ visibleObjectGUIDs' = visible
    BY DEF UpdateObjects
<1>2. encounterFrames' = encounterFrames
    BY DEF UpdateObjects
<1>3. Hidden(far) \subseteq framePending \cup encounterFrames
    BY DEF Hidden
<1>4. framePending \subseteq {u \in framePending : ~Resolves(u)}
    BY DEF BossInv, EncounterBracketed
<1>5. CASE created = {}
  <2>1. /\ framePending' = Hidden(far) /\ bosses' = bosses \cap objects
        /\ UNCHANGED <<frameSent, encounterInProgress, fighting>>
      BY <1>5 DEF UpdateObjects
  <2>2. \A u \in framePending' : ~Resolves(u)'
    <3> SUFFICES ASSUME NEW u \in Hidden(far), u \in known, u \in visible PROVE FALSE
        BY <1>1, <2>1 DEF Resolves
    <3>1. u \in objectGUIDs /\ u \in visibleObjectGUIDs /\ u \notin far
        BY <1>5
    <3>2. u \in framePending
        BY <3>1 DEF Hidden
    <3> QED BY <1>4, <3>1, <3>2 DEF Resolves
  <2>3. FramesSent'
      BY <1>2, <1>3, <2>1 DEF BossInv, FramesSent
  <2> QED BY <2>1, <2>2, <2>3 DEF BossInv, EncounterBracketed
<1>6. CASE created # {}
  <2>1. /\ framePending' = Hidden(far) \ resolved
        /\ frameSent' = frameSent \cup resolved
        /\ Engage(resolved, objects)
      BY <1>6 DEF UpdateObjects
  <2>2. \A u \in framePending' : ~Resolves(u)'
      BY <1>1, <2>1 DEF Resolves
  <2>3. resolved \subseteq encounterFrames /\ framePending' \subseteq encounterFrames
      BY <1>3, <2>1 DEF BossInv, FramesSent
  <2> QED BY <1>2, <2>1, <2>2, <2>3 DEF BossInv, FramesSent, EncounterBracketed, Engage
<1> QED BY <1>5, <1>6

LEMMA DestroyKeeps ==
    ASSUME BossInv, NEW u \in Units, DestroyObject(u)
    PROVE  BossInv'
BY DEF BossInv, FramesSent, EncounterBracketed, DestroyObject, Resolves, encounterVars

LEMMA NewWorldKeeps == ASSUME BossInv, RelayNewWorld PROVE BossInv'
<1> USE DEF BossInv, FramesSent, EncounterBracketed, Resolves, encounterVars, objectVars,
            clientVars
<1>1. CASE waitingForNewWorld
    BY <1>1 DEF RelayNewWorld, ResetWorldObjects, ClientNewWorld
<1>2. CASE ~waitingForNewWorld
    BY <1>2 DEF RelayNewWorld
<1> QED BY <1>1, <1>2

LEMMA BossNext == BossInv /\ [Next]_vars => BossInv'
<1> SUFFICES ASSUME BossInv, [Next]_vars PROVE BossInv'
    OBVIOUS
<1>1. ASSUME UNCHANGED bossVars PROVE BossInv'
    BY <1>1 DEF bossVars, BossInv, FramesSent, EncounterBracketed, Resolves, encounterVars,
                objectVars
<1>2. CASE \/ \E casters \in Casters : Spell(casters)
           \/ Transfer \/ RefuseTransfer \/ RelayTransferPending
           \/ RelayTransferAborted \/ WorldPortResponse \/ WriteWorldPortAck
    BY <1>1, <1>2, OthersKeepBosses
<1>3. CASE \E u \in Units \ Untranslated, kind \in {0, 2} : EncounterEngage(u, kind)
    BY <1>3, EngageKeeps
<1>4. CASE \E u \in Units \ Untranslated : EncounterDisengage(u)
    BY <1>4, DisengageKeeps
<1>5. CASE EncounterRefresh \/ RelayNewWorld
    BY <1>5, RefreshKeeps, NewWorldKeeps
<1>6. CASE \E far, new \in SUBSET Units : UpdateObjects(far, new)
    BY <1>6, UpdateKeeps
<1>7. CASE \E u \in Units : DestroyObject(u)
    BY <1>7, DestroyKeeps
<1>8. CASE UNCHANGED vars
    BY <1>1, <1>8 DEF vars, bossVars, clientVars
<1> QED BY <1>2, <1>3, <1>4, <1>5, <1>6, <1>7, <1>8 DEF Next

\* Whatever the units do and in whatever order their packets come, boss frames
\* stand between an encounter's start and its end, and no frame waits for a
\* unit in sight.
THEOREM FramesBracketed == Spec => []EncounterBracketed
<1>1. BossInv => EncounterBracketed
    BY DEF BossInv
<1> QED BY <1>1, BossInit, BossNext, PTL DEF Spec

-----------------------------------------------------------------------------
\* A transfer that does not overlap another goes through these phases; the
\* realm may refuse another one before it.
Pending == [op |-> "PENDING"]
Aborted == [op |-> "ABORTED"]
Arrival == [op |-> "NEW_WORLD", visit |-> visit]

Arrived == here = visit /\ currentMapID = visit
Quiet == ~loading /\ ~acking /\ ~waitingForWorldPortAck

AtRest ==
    /\ ~awaiting /\ wire = <<>> /\ Quiet /\ Arrived /\ ~waitingForNewWorld
Refusing ==
    /\ ~awaiting /\ Quiet /\ Arrived
    /\ \/ wire = <<Pending, Aborted>> /\ ~waitingForNewWorld
       \/ wire = <<Aborted>>
Leaving ==
    /\ awaiting /\ Quiet
    /\ \/ wire = <<Pending, Aborted, Pending, Arrival>> /\ ~waitingForNewWorld
       \/ wire = <<Aborted, Pending, Arrival>>
       \/ wire = <<Pending, Arrival>> /\ ~waitingForNewWorld
Announced ==
    /\ awaiting /\ Quiet /\ wire = <<Arrival>> /\ waitingForNewWorld
Arriving ==
    /\ awaiting /\ wire = <<>> /\ Arrived
    /\ loading /\ ~acking /\ waitingForWorldPortAck /\ ~waitingForNewWorld
Acknowledging ==
    /\ awaiting /\ wire = <<>> /\ Arrived
    /\ ~loading /\ acking /\ ~waitingForWorldPortAck /\ ~waitingForNewWorld

Phases ==
    AtRest \/ Refusing \/ Leaving \/ Announced \/ Arriving \/ Acknowledging
MapInv == ~chained => Phases

mapVars == <<visit, awaiting, chained, wire, currentMapID, waitingForNewWorld,
             waitingForWorldPortAck, acking, here, loading>>

LEMMA MapInit == Init => MapInv
BY DEF Init, MapInv, Phases, AtRest, Quiet, Arrived

LEMMA OthersKeepMap ==
    ASSUME \/ \E casters \in Casters : Spell(casters)
           \/ \E u \in Units \ Untranslated, kind \in {0, 2} : EncounterEngage(u, kind)
           \/ \E u \in Units \ Untranslated : EncounterDisengage(u)
           \/ EncounterRefresh
           \/ \E far, new \in SUBSET Units : UpdateObjects(far, new)
           \/ \E u \in Units : DestroyObject(u)
    PROVE  UNCHANGED mapVars
<1> USE DEF mapVars, realmVars, transferVars, clientVars
<1>1. CASE \E casters \in Casters : Spell(casters)
    BY <1>1 DEF Spell
<1>2. CASE \E u \in Units \ Untranslated, kind \in {0, 2} : EncounterEngage(u, kind)
    BY <1>2 DEF EncounterEngage
<1>3. CASE \E u \in Units \ Untranslated : EncounterDisengage(u)
    BY <1>3 DEF EncounterDisengage
<1>4. CASE EncounterRefresh
    BY <1>4 DEF EncounterRefresh
<1>5. CASE \E far, new \in SUBSET Units : UpdateObjects(far, new)
    BY <1>5 DEF UpdateObjects
<1>6. CASE \E u \in Units : DestroyObject(u)
    BY <1>6 DEF DestroyObject
<1> QED BY <1>1, <1>2, <1>3, <1>4, <1>5, <1>6

\* Sequences are equal element by element.
LEMMA SameSeq ==
    ASSUME NEW S, NEW s \in Seq(S), NEW t \in Seq(S), Len(s) = Len(t),
           \A i \in 1..Len(s) : s[i] = t[i]
    PROVE  s = t
<1>1. s \in [1..Len(s) -> S] /\ t \in [1..Len(s) -> S]
    OBVIOUS
<1> QED BY <1>1

\* Two packets behind one, and behind two.
LEMMA BehindOne ==
    ASSUME NEW S, NEW a \in S, NEW b \in S, NEW c \in S
    PROVE  <<a>> \o <<b, c>> = <<a, b, c>>
<1> DEFINE s == <<a>> \o <<b, c>>
           t == <<a, b, c>>
<1>1. <<a>> \in Seq(S) /\ <<b, c>> \in Seq(S)
    OBVIOUS
<1>2. s \in Seq(S) /\ Len(s) = 3 /\ s[1] = a /\ s[2] = b /\ s[3] = c
    BY <1>1
<1>3. t \in Seq(S) /\ Len(t) = 3
    OBVIOUS
<1>4. \A i \in 1..3 : s[i] = t[i]
    BY <1>2
<1> HIDE DEF s, t
<1>5. s = t
    BY <1>2, <1>3, <1>4, SameSeq
<1> QED BY <1>5 DEF s, t

LEMMA BehindTwo ==
    ASSUME NEW S, NEW a \in S, NEW b \in S, NEW c \in S, NEW d \in S
    PROVE  <<a, b>> \o <<c, d>> = <<a, b, c, d>>
<1> DEFINE s == <<a, b>> \o <<c, d>>
           t == <<a, b, c, d>>
<1>1. <<a, b>> \in Seq(S) /\ <<c, d>> \in Seq(S)
    OBVIOUS
<1>2. s \in Seq(S) /\ Len(s) = 4 /\ s[1] = a /\ s[2] = b /\ s[3] = c /\ s[4] = d
    BY <1>1
<1>3. t \in Seq(S) /\ Len(t) = 4
    OBVIOUS
<1>4. \A i \in 1..4 : s[i] = t[i]
    BY <1>2
<1> HIDE DEF s, t
<1>5. s = t
    BY <1>2, <1>3, <1>4, SameSeq
<1> QED BY <1>5 DEF s, t

LEMMA TransferKeeps == ASSUME MapInv, Transfer PROVE MapInv'
<1> SUFFICES ASSUME ~chained' PROVE Phases'
    BY DEF MapInv
<1>1. ~chained /\ ~awaiting
    BY DEF Transfer
<1>2. AtRest \/ Refusing
    BY <1>1 DEF MapInv, Phases, Leaving, Announced, Arriving, Acknowledging
<1>3. wire' = wire \o <<Pending, Arrival'>>
    BY DEF Transfer, Pending, Arrival
<1>4. awaiting' /\ Quiet' /\ waitingForNewWorld' = waitingForNewWorld
    BY <1>2 DEF Transfer, AtRest, Refusing, Quiet, clientVars
<1> HIDE DEF Pending, Aborted, Arrival
<1>5. CASE AtRest
  <2>1. wire' = <<Pending, Arrival'>> /\ ~waitingForNewWorld'
      BY <1>3, <1>4, <1>5 DEF AtRest
  <2> QED BY <1>4, <2>1 DEF Phases, Leaving, Pending
<1>6. CASE Refusing
  <2>1. CASE wire = <<Aborted>>
    <3> DEFINE S == {Pending, Aborted, Arrival'}
    <3>1. wire' = <<Aborted, Pending, Arrival'>>
      <4>1. Pending \in S /\ Aborted \in S /\ Arrival' \in S
          OBVIOUS
      <4> QED BY <1>3, <2>1, <4>1, BehindOne
    <3> QED BY <1>4, <3>1 DEF Phases, Leaving, Pending, Aborted
  <2>2. CASE wire = <<Pending, Aborted>> /\ ~waitingForNewWorld
    <3> DEFINE S == {Pending, Aborted, Arrival'}
    <3>1. wire' = <<Pending, Aborted, Pending, Arrival'>>
      <4>1. Pending \in S /\ Aborted \in S /\ Arrival' \in S
          OBVIOUS
      <4> QED BY <1>3, <2>2, <4>1, BehindTwo
    <3> QED BY <1>4, <2>2, <3>1 DEF Phases, Leaving, Pending, Aborted
  <2> QED BY <1>6, <2>1, <2>2 DEF Refusing
<1> QED BY <1>2, <1>5, <1>6

LEMMA RefuseKeeps == ASSUME MapInv, RefuseTransfer PROVE MapInv'
<1> SUFFICES ASSUME ~chained' PROVE Phases'
    BY DEF MapInv
<1>1. ~chained /\ ~awaiting /\ wire = <<>>
    BY DEF RefuseTransfer, OnMap, realmVars
<1>2. AtRest
    BY <1>1 DEF MapInv, Phases, Refusing, Leaving, Announced, Arriving, Acknowledging
<1>3. wire' = <<Pending, Aborted>> \/ wire' = <<Aborted>>
    BY DEF RefuseTransfer, Pending, Aborted
<1>4. Refusing'
    BY <1>2, <1>3 DEF RefuseTransfer, AtRest, Refusing, Quiet, Arrived, realmVars, clientVars,
                      Pending, Aborted
<1> QED BY <1>4 DEF Phases

\* The relay takes the first packet of the wire.
LEMMA Heads ==
    /\ Pending.op = "PENDING" /\ Aborted.op = "ABORTED" /\ Arrival.op = "NEW_WORLD"
    /\ Arrival.visit = visit
BY DEF Pending, Aborted, Arrival

LEMMA PendingKeeps == ASSUME MapInv, RelayTransferPending PROVE MapInv'
<1> SUFFICES ASSUME ~chained' PROVE Phases'
    BY DEF MapInv
<1>1. /\ wire # <<>> /\ Head(wire).op = "PENDING" /\ wire' = Tail(wire)
      /\ waitingForNewWorld' = (waitingForNewWorld \/ ~waitingForWorldPortAck)
      /\ UNCHANGED <<visit, awaiting, chained, currentMapID, waitingForWorldPortAck,
                     acking, here, loading>>
    BY DEF RelayTransferPending, realmVars, clientVars
<1>2. Phases
    BY <1>1 DEF MapInv
<1>3. Arrival' = Arrival
    BY <1>1 DEF Arrival
<1>4. ~AtRest /\ ~Arriving /\ ~Acknowledging
    BY <1>1 DEF AtRest, Arriving, Acknowledging
<1> HIDE DEF Pending, Aborted, Arrival
<1>5. ~Announced
    BY <1>1, Heads DEF Announced
<1>6. CASE Refusing
  <2>1. wire = <<Pending, Aborted>>
      BY <1>1, <1>6, Heads DEF Refusing
  <2>2. wire' = <<Aborted>>
      BY <1>1, <2>1
  <2> QED BY <1>1, <1>6, <2>2 DEF Phases, Refusing, Quiet, Arrived, Aborted
<1>7. CASE Leaving
  <2>1. CASE wire = <<Pending, Aborted, Pending, Arrival>>
    <3>1. wire' = <<Aborted, Pending, Arrival'>>
        BY <1>1, <1>3, <2>1
    <3> QED BY <1>1, <1>7, <3>1 DEF Phases, Leaving, Quiet, Aborted, Pending
  <2>2. CASE wire = <<Pending, Arrival>>
    <3>1. wire' = <<Arrival'>>
        BY <1>1, <1>3, <2>2
    <3>2. waitingForNewWorld'
        BY <1>1, <1>7 DEF Leaving, Quiet
    <3> QED BY <1>1, <1>7, <3>1, <3>2 DEF Phases, Leaving, Announced, Quiet
  <2>3. wire # <<Aborted, Pending, Arrival>>
      BY <1>1, Heads
  <2> QED BY <1>7, <2>1, <2>2, <2>3 DEF Leaving
<1> QED BY <1>2, <1>4, <1>5, <1>6, <1>7 DEF Phases

LEMMA AbortedKeeps == ASSUME MapInv, RelayTransferAborted PROVE MapInv'
<1> SUFFICES ASSUME ~chained' PROVE Phases'
    BY DEF MapInv
<1>1. /\ wire # <<>> /\ Head(wire).op = "ABORTED" /\ wire' = Tail(wire)
      /\ ~waitingForNewWorld'
      /\ UNCHANGED <<visit, awaiting, chained, currentMapID, waitingForWorldPortAck,
                     acking, here, loading>>
    BY DEF RelayTransferAborted, realmVars, clientVars
<1>2. Phases
    BY <1>1 DEF MapInv
<1>3. Arrival' = Arrival
    BY <1>1 DEF Arrival
<1>4. ~AtRest /\ ~Arriving /\ ~Acknowledging
    BY <1>1 DEF AtRest, Arriving, Acknowledging
<1> HIDE DEF Pending, Aborted, Arrival
<1>5. ~Announced
    BY <1>1, Heads DEF Announced
<1>6. CASE Refusing
  <2>1. wire = <<Aborted>>
      BY <1>1, <1>6, Heads DEF Refusing
  <2>2. wire' = <<>>
      BY <1>1, <2>1
  <2> QED BY <1>1, <1>6, <2>2 DEF Phases, Refusing, AtRest, Quiet, Arrived
<1>7. CASE Leaving
  <2>1. wire = <<Aborted, Pending, Arrival>>
    <3>1. wire # <<Pending, Arrival>> /\ wire # <<Pending, Aborted, Pending, Arrival>>
        BY <1>1, Heads
    <3> QED BY <1>7, <3>1 DEF Leaving
  <2>2. wire' = <<Pending, Arrival'>>
      BY <1>1, <1>3, <2>1
  <2> QED BY <1>1, <1>7, <2>2 DEF Phases, Leaving, Quiet, Pending
<1> QED BY <1>2, <1>4, <1>5, <1>6, <1>7 DEF Phases

LEMMA ArrivalKeeps == ASSUME MapInv, RelayNewWorld PROVE MapInv'
<1> SUFFICES ASSUME ~chained' PROVE Phases'
    BY DEF MapInv
<1>1. /\ wire # <<>> /\ Head(wire).op = "NEW_WORLD" /\ wire' = Tail(wire)
      /\ UNCHANGED <<visit, awaiting, chained, acking>>
    BY DEF RelayNewWorld, realmVars
<1>2. Phases
    BY <1>1 DEF MapInv
<1>3. ~AtRest /\ ~Arriving /\ ~Acknowledging
    BY <1>1 DEF AtRest, Arriving, Acknowledging
<1>4. ~Refusing /\ ~Leaving
  <2> HIDE DEF Pending, Aborted, Arrival
  <2>1. Head(wire) # Pending /\ Head(wire) # Aborted
      BY <1>1, Heads
  <2>2. /\ wire # <<Pending, Aborted>> /\ wire # <<Aborted>> /\ wire # <<Pending, Arrival>>
        /\ wire # <<Aborted, Pending, Arrival>>
        /\ wire # <<Pending, Aborted, Pending, Arrival>>
      BY <2>1
  <2> QED BY <2>2 DEF Refusing, Leaving
<1>5. Announced
    BY <1>2, <1>3, <1>4 DEF Phases
<1>6. wire' = <<>> /\ Head(wire).visit = visit
  <2> HIDE DEF Arrival
  <2>1. wire = <<Arrival>>
      BY <1>5 DEF Announced
  <2>2. Head(wire) = Arrival /\ Tail(wire) = <<>>
      BY <2>1
  <2> QED BY <1>1, <2>2, Heads
<1>7. waitingForNewWorld
    BY <1>5 DEF Announced
<1>8. /\ currentMapID' = visit /\ here' = visit /\ loading'
      /\ ~waitingForNewWorld' /\ waitingForWorldPortAck'
    BY <1>6, <1>7 DEF RelayNewWorld, ResetWorldObjects, ClientNewWorld
<1> QED BY <1>1, <1>5, <1>6, <1>8 DEF Phases, Announced, Arriving, Arrived, Quiet

LEMMA AckKeeps == ASSUME MapInv, WorldPortResponse \/ WriteWorldPortAck PROVE MapInv'
<1> SUFFICES ASSUME ~chained' PROVE Phases'
    BY DEF MapInv
<1>1. ~chained /\ Phases
    BY DEF WorldPortResponse, WriteWorldPortAck, realmVars, MapInv
<1>2. CASE WorldPortResponse
  <2>1. Arriving
      BY <1>1, <1>2 DEF WorldPortResponse, Phases, AtRest, Refusing, Leaving, Announced,
                        Acknowledging, Quiet
  <2> QED BY <1>2, <2>1 DEF WorldPortResponse, Phases, Arriving, Acknowledging, Arrived,
                            realmVars
<1>3. CASE WriteWorldPortAck
  <2>1. Acknowledging
      BY <1>1, <1>3 DEF WriteWorldPortAck, Phases, AtRest, Refusing, Leaving, Announced,
                        Arriving, Quiet
  <2> QED BY <1>3, <2>1 DEF WriteWorldPortAck, Phases, Acknowledging, AtRest, Quiet, Arrived,
                            clientVars
<1> QED BY <1>2, <1>3

LEMMA MapNext == MapInv /\ [Next]_vars => MapInv'
<1> SUFFICES ASSUME MapInv, [Next]_vars PROVE MapInv'
    OBVIOUS
<1>1. ASSUME UNCHANGED mapVars PROVE MapInv'
    BY <1>1 DEF mapVars, MapInv, Phases, AtRest, Refusing, Leaving, Announced, Arriving,
                Acknowledging, Quiet, Arrived, Arrival, Pending, Aborted
<1>2. CASE \/ \E casters \in Casters : Spell(casters)
           \/ \E u \in Units \ Untranslated, kind \in {0, 2} : EncounterEngage(u, kind)
           \/ \E u \in Units \ Untranslated : EncounterDisengage(u)
           \/ EncounterRefresh
           \/ \E far, new \in SUBSET Units : UpdateObjects(far, new)
           \/ \E u \in Units : DestroyObject(u)
    BY <1>1, <1>2, OthersKeepMap
<1>3. CASE Transfer \/ RefuseTransfer
    BY <1>3, TransferKeeps, RefuseKeeps
<1>4. CASE RelayTransferPending \/ RelayTransferAborted \/ RelayNewWorld
    BY <1>4, PendingKeeps, AbortedKeeps, ArrivalKeeps
<1>5. CASE WorldPortResponse \/ WriteWorldPortAck
    BY <1>5, AckKeeps
<1>6. CASE UNCHANGED vars
    BY <1>1, <1>6 DEF vars, mapVars, realmVars, transferVars, clientVars
<1> QED BY <1>2, <1>3, <1>4, <1>5, <1>6 DEF Next

\* Between transfers that do not overlap, however many there were and however
\* many were refused, the client and the proxy are on the map the realm has the
\* character on, and the proxy waits for nothing.
THEOREM ClientFollows == Spec => []ClientOnRealmMap
<1>1. MapInv => ClientOnRealmMap
    BY DEF MapInv, ClientOnRealmMap, Settled, Phases, AtRest, Refusing, Leaving, Announced,
           Arriving, Acknowledging, Quiet, Arrived
<1> QED BY <1>1, MapInit, MapNext, PTL DEF Spec

-----------------------------------------------------------------------------
(* The queue of spells that wait for their casters.                         *)

\* A non-empty set of numbers has a least one.
LEMMA LeastNumber ==
    ASSUME NEW T \in SUBSET Nat, T # {}
    PROVE  \E x \in T : \A y \in T : x <= y
<1> DEFINE less == OpToRel(<, Nat)
<1>1. IsWellFoundedOn(less, Nat)
    BY NatLessThanWellFounded
<1>2. \A x, y \in Nat : y < x => <<y, x>> \in less
    BY DEF OpToRel
<1>3. PICK x \in T : \A y \in T : <<y, x>> \notin less
  <2> HIDE DEF less
  <2> QED BY <1>1, WFMin
<1>4. \A y \in T : ~(y < x)
    BY <1>2, <1>3
<1> QED BY <1>4

\* How many places come up to the i-th.
UpTo(places, i) == {j \in places : j <= i}

LEMMA UpToCounts ==
    ASSUME NEW n \in Nat, NEW places \in SUBSET (1..n)
    PROVE  /\ IsFiniteSet(places) /\ Cardinality(places) \in Nat /\ Cardinality(places) <= n
           /\ \A i : IsFiniteSet(UpTo(places, i)) /\ Cardinality(UpTo(places, i)) \in Nat
           /\ Cardinality(UpTo(places, 0)) = 0
           /\ Cardinality(UpTo(places, n)) = Cardinality(places)
<1>1. IsFiniteSet(1..n) /\ Cardinality(1..n) = n
    BY FS_Interval
<1>2. IsFiniteSet(places) /\ Cardinality(places) <= n
    BY <1>1, FS_Subset
<1>3. \A i : UpTo(places, i) \in SUBSET places
    BY DEF UpTo
<1>4. \A i : IsFiniteSet(UpTo(places, i))
    BY <1>2, <1>3, FS_Subset
<1>5. UpTo(places, 0) = {} /\ UpTo(places, n) = places
  <2>1. \A j \in places : j \in 1..n /\ ~(j <= 0) /\ j <= n
      OBVIOUS
  <2> QED BY <2>1 DEF UpTo
<1> QED BY <1>2, <1>4, <1>5, FS_CardinalityType, FS_EmptySet

LEMMA UpToNext ==
    ASSUME NEW n \in Nat, NEW places \in SUBSET (1..n), NEW i \in 1..n
    PROVE  Cardinality(UpTo(places, i))
              = Cardinality(UpTo(places, i - 1)) + (IF i \in places THEN 1 ELSE 0)
<1> DEFINE before == UpTo(places, i - 1)
<1>1. IsFiniteSet(before) /\ Cardinality(before) \in Nat
    BY UpToCounts
<1>2. \A j \in places : j \in 1..n /\ (j <= i <=> j <= i - 1 \/ j = i)
    OBVIOUS
<1>5. i \notin before
    BY DEF UpTo
<1>3. CASE i \in places
  <2>1. UpTo(places, i) = before \cup {i}
      BY <1>2, <1>3 DEF UpTo
  <2> HIDE DEF before
  <2>2. Cardinality(before \cup {i}) = Cardinality(before) + 1
      BY <1>1, <1>5, FS_AddElement
  <2> QED BY <1>3, <2>1, <2>2 DEF before
<1>4. CASE i \notin places
  <2>1. UpTo(places, i) = before
      BY <1>2, <1>4 DEF UpTo
  <2> QED BY <1>1, <1>4, <2>1
<1> QED BY <1>3, <1>4

\* The k-th of some places is one of them, and k of them come up to it.
LEMMA NthPlace ==
    ASSUME NEW n \in Nat, NEW places \in SUBSET (1..n), NEW k \in 1..Cardinality(places)
    PROVE  Nth(places, k) \in places /\ Cardinality(UpTo(places, Nth(places, k))) = k
<1> DEFINE enough == {i \in 0..n : Cardinality(UpTo(places, i)) >= k}
<1>1. Cardinality(places) \in Nat /\ \A i : Cardinality(UpTo(places, i)) \in Nat
    BY UpToCounts
<1>2. n \in enough /\ 0 \notin enough /\ enough \in SUBSET Nat
  <2>1. Cardinality(UpTo(places, 0)) = 0
        /\ Cardinality(UpTo(places, n)) = Cardinality(places)
      BY UpToCounts
  <2> QED BY <1>1, <2>1
<1>3. PICK i \in enough : \A j \in enough : i <= j
  <2> HIDE DEF enough
  <2> QED BY <1>2, LeastNumber
<1>4. i \in 1..n /\ i - 1 \in 0..n /\ ~(i <= i - 1)
    BY <1>2
<1>5. Cardinality(UpTo(places, i - 1)) < k /\ Cardinality(UpTo(places, i)) >= k
    BY <1>1, <1>3, <1>4
<1>6. i \in places /\ Cardinality(UpTo(places, i)) = k
    BY <1>1, <1>4, <1>5, UpToNext
<1>7. \E j \in places : Cardinality({l \in places : l <= j}) = k
    BY <1>6 DEF UpTo
<1> QED BY <1>7 DEF Nth, UpTo

\* What is kept of a queue are members of it, in its order.
LEMMA KeptInOrder ==
    ASSUME NEW S, NEW queue \in Seq(S), NEW places \in SUBSET DOMAIN queue
    PROVE  /\ KeptAt(queue, places) \in Seq(S)
           /\ Len(KeptAt(queue, places)) \in Nat /\ Len(KeptAt(queue, places)) <= Len(queue)
           /\ \A k \in DOMAIN KeptAt(queue, places) :
                 /\ Nth(places, k) \in places
                 /\ KeptAt(queue, places)[k] = queue[Nth(places, k)]
           /\ \A k, l \in DOMAIN KeptAt(queue, places) : k < l => Nth(places, k) < Nth(places, l)
<1> DEFINE n == Len(queue)
           count == Cardinality(places)
<1>1. n \in Nat /\ DOMAIN queue = 1..n /\ places \in SUBSET (1..n)
    OBVIOUS
<1>2. count \in Nat /\ count <= n
    BY <1>1, UpToCounts
<1>3. \A k \in 1..count : Nth(places, k) \in places /\ Cardinality(UpTo(places, Nth(places, k))) = k
    BY <1>1, NthPlace
<1>4. ASSUME NEW k \in 1..count, NEW l \in 1..count, k < l
      PROVE  Nth(places, k) < Nth(places, l)
  <2> SUFFICES ASSUME Nth(places, l) <= Nth(places, k) PROVE FALSE
      BY <1>1, <1>3
  <2>1. UpTo(places, Nth(places, l)) \in SUBSET UpTo(places, Nth(places, k))
    <3>1. \A j \in places : j \in 1..n
        BY <1>1
    <3>2. Nth(places, k) \in 1..n /\ Nth(places, l) \in 1..n
        BY <1>3, <3>1
    <3> QED BY <3>1, <3>2 DEF UpTo
  <2>2. Cardinality(UpTo(places, Nth(places, l))) <= Cardinality(UpTo(places, Nth(places, k)))
      BY <1>1, <2>1, UpToCounts, FS_Subset
  <2> QED BY <1>3, <1>4, <2>2
<1>5. \A k \in 1..count : queue[Nth(places, k)] \in S
    BY <1>1, <1>3
<1>6. KeptAt(queue, places) = [k \in 1..count |-> queue[Nth(places, k)]]
    BY DEF KeptAt
<1>7. KeptAt(queue, places) \in Seq(S) /\ Len(KeptAt(queue, places)) = count
      /\ DOMAIN KeptAt(queue, places) = 1..count
  <2> HIDE DEF count
  <2> QED BY <1>2, <1>5, <1>6
<1> QED BY <1>2, <1>3, <1>4, <1>6, <1>7

-----------------------------------------------------------------------------
(* Boss frames follow their units.                                          *)

\* The proxy knows the objects the client has, and takes them for visible.
Aligned == objectGUIDs = sees /\ sees \subseteq visibleObjectGUIDs

\* On its map the character's frames are the realm's engaged units; those in
\* sight are shown, and the others wait for their units or were destroyed.
Tracked ==
    /\ sees \subseteq shows
    /\ encounterFrames = engaged
    /\ engaged \ sees \subseteq framePending \cup gone
    /\ bosses = engaged \cap sees

\* From the realm's decision to move the character to the client's leaving.
OnTheWay == awaiting /\ wire # <<>>
FrameInv ==
    /\ Aligned
    /\ ~chained => IF OnTheWay THEN engaged = {} /\ shows = {} ELSE Tracked

frameVars == <<objectVars, shows, engaged, gone, encounterFrames, framePending, sees, bosses>>

LEMMA AlignedResolves == ASSUME Aligned PROVE \A u : Resolves(u) <=> u \in sees
BY DEF Aligned, Resolves

LEMMA EngageFollows ==
    ASSUME FrameInv, NEW u, NEW kind \in {0, 2}, EncounterEngage(u, kind)
    PROVE  FrameInv'
<1>1. /\ engaged' = (IF kind = 0 THEN engaged \cup {u} ELSE engaged) /\ Aligned
      /\ UNCHANGED <<shows, gone, awaiting, chained, wire, objectVars, sees>> /\ ~awaiting
    BY DEF EncounterEngage, transferVars, OnMap, FrameInv, clientVars
<1>2. Aligned'
    BY <1>1 DEF Aligned, objectVars
<1> SUFFICES ASSUME ~chained PROVE Tracked'
    BY <1>1, <1>2 DEF FrameInv, OnTheWay
<1>3. Tracked
    BY <1>1 DEF FrameInv, OnTheWay
<1>4. CASE kind = 2 /\ u \notin encounterFrames
    BY <1>1, <1>3, <1>4 DEF EncounterEngage, encounterVars, clientVars, Tracked
<1>7. ~(kind = 2 /\ u \notin encounterFrames) => kind = 0 \/ u \in engaged
    BY <1>3 DEF Tracked
<1>5. CASE ~(kind = 2 /\ u \notin encounterFrames) /\ Resolves(u)
  <2>1. /\ encounterFrames' = encounterFrames \cup {u} /\ framePending' = framePending \ {u}
        /\ Engage(IF kind = 0 \/ u \in framePending THEN {u} ELSE {}, sees) /\ u \in sees
      BY <1>1, <1>5, AlignedResolves DEF EncounterEngage
  <2>2. kind = 0 \/ u \in engaged
      BY <1>5, <1>7
  <2> QED BY <1>1, <1>3, <2>1, <2>2 DEF Tracked, Engage
<1>6. CASE ~(kind = 2 /\ u \notin encounterFrames) /\ ~Resolves(u)
  <2>1. /\ encounterFrames' = encounterFrames \cup {u} /\ framePending' = framePending \cup {u}
        /\ bosses' = bosses /\ u \notin sees
      BY <1>1, <1>6, AlignedResolves DEF EncounterEngage
  <2> QED BY <1>1, <1>3, <1>6, <1>7, <2>1 DEF Tracked
<1> QED BY <1>4, <1>5, <1>6

LEMMA DisengageFollows ==
    ASSUME FrameInv, BossInv, NEW u, EncounterDisengage(u)
    PROVE  FrameInv'
<1>1. /\ engaged' = engaged \ {u} /\ encounterFrames' = encounterFrames \ {u}
      /\ framePending' = framePending \ {u} /\ Aligned /\ ~awaiting
      /\ UNCHANGED <<shows, gone, awaiting, chained, wire, objectVars, sees>>
    BY DEF EncounterDisengage, transferVars, OnMap, FrameInv
<1>2. Aligned'
    BY <1>1 DEF Aligned, objectVars
<1> SUFFICES ASSUME ~chained PROVE Tracked'
    BY <1>1, <1>2 DEF FrameInv, OnTheWay
<1>3. Tracked
    BY <1>1 DEF FrameInv, OnTheWay
<1>4. bosses' = bosses \ {u}
    BY DEF EncounterDisengage, BossInv, FramesSent
<1> QED BY <1>1, <1>3, <1>4 DEF Tracked

LEMMA RefreshFollows == ASSUME FrameInv, EncounterRefresh PROVE FrameInv'
<1> DEFINE resolved == {u \in encounterFrames : Resolves(u)}
<1>1. /\ framePending' = encounterFrames \ resolved /\ Engage(resolved, sees)
      /\ UNCHANGED <<shows, engaged, gone, awaiting, chained, wire, objectVars, sees, encounterFrames>>
      /\ Aligned /\ ~awaiting
    BY DEF EncounterRefresh, realmVars, transferVars, OnMap, FrameInv
<1>2. Aligned'
    BY <1>1 DEF Aligned, objectVars
<1> SUFFICES ASSUME ~chained PROVE Tracked'
    BY <1>1, <1>2 DEF FrameInv, OnTheWay
<1>3. Tracked
    BY <1>1 DEF FrameInv, OnTheWay
<1>4. \A u : u \in resolved <=> u \in encounterFrames /\ u \in sees
    BY <1>1, AlignedResolves
<1>5. bosses' = (bosses \cup resolved) \cap sees
    BY <1>1 DEF Engage
<1> HIDE DEF resolved
<1> QED BY <1>1, <1>3, <1>4, <1>5 DEF Tracked

LEMMA UpdateFollows ==
    ASSUME Returns = FALSE, FrameInv, BossInv, NEW far, NEW new, UpdateObjects(far, new)
    PROVE  FrameInv'
<1> DEFINE created == new \ Untranslated
           objects == (sees \ far) \cup created
           known == (objectGUIDs \ far) \cup created
           visible == (visibleObjectGUIDs \ far) \cup created
           resolved == Hidden(far) \cap known \cap visible
<1>1. /\ shows' = (shows \ far) \cup new /\ new \cap (shows \ far) = {} /\ new \cap gone = {}
      /\ objectGUIDs' = known /\ visibleObjectGUIDs' = visible /\ sees' = objects
      /\ UNCHANGED <<engaged, gone, awaiting, chained, wire, encounterFrames>>
      /\ Aligned /\ ~awaiting
    BY DEF UpdateObjects, transferVars, OnMap, Alive, FrameInv
<1>2. Aligned'
    BY <1>1 DEF Aligned
<1> SUFFICES ASSUME ~chained PROVE Tracked'
    BY <1>1, <1>2 DEF FrameInv, OnTheWay
<1>3. Tracked
    BY <1>1 DEF FrameInv, OnTheWay
<1>4. known = objects /\ objects \subseteq visible
    BY <1>1 DEF Aligned
<1>5. /\ created = {} => framePending' = Hidden(far) /\ bosses' = bosses \cap objects
      /\ created # {} => /\ framePending' = Hidden(far) \ resolved
                         /\ bosses' = (bosses \cup resolved) \cap objects
    BY DEF UpdateObjects, Engage
<1>6. \A u : u \in resolved <=> u \in objects /\ (u \in framePending \/ (u \in far /\ u \in engaged))
    BY <1>3, <1>4 DEF Hidden, Tracked
<1>7. created \subseteq new /\ objects = (sees \ far) \cup created
    OBVIOUS
<1>8. \A u : u \in Hidden(far) <=> u \in framePending \/ (u \in far /\ u \in engaged)
    BY <1>3 DEF Hidden, Tracked
<1> HIDE DEF created, objects, known, visible, resolved
<1>9. \A u \in created : u \notin gone /\ (u \in sees => u \in far)
    BY <1>1, <1>3, <1>7 DEF Tracked
<1>10. engaged \ objects \subseteq framePending' \cup gone
  <2> SUFFICES ASSUME NEW u \in engaged, u \notin objects, u \notin gone PROVE u \in framePending'
      OBVIOUS
  <2>1. u \in sees => u \in far
      BY <1>7
  <2>2. u \in Hidden(far)
      BY <1>3, <1>8, <2>1 DEF Tracked
  <2> QED BY <1>5, <1>6, <2>2
<1>11. bosses' = engaged \cap objects
  <2>1. CASE created = {}
      BY <1>3, <1>5, <1>7, <2>1 DEF Tracked
  <2>2. ASSUME created # {}, NEW u \in bosses' PROVE u \in engaged \cap objects
    <3>1. framePending \subseteq engaged
        BY <1>3 DEF BossInv, FramesSent, Tracked
    <3> QED BY <1>3, <1>5, <1>6, <2>2, <3>1 DEF Tracked
  <2>3. ASSUME created # {}, NEW u \in engaged \cap objects PROVE u \in bosses'
      BY <1>3, <1>5, <1>6, <1>7, <1>9, <2>3 DEF Tracked
  <2> QED BY <2>1, <2>2, <2>3
<1> QED BY <1>1, <1>3, <1>7, <1>10, <1>11 DEF Tracked

LEMMA DestroyFollows ==
    ASSUME FrameInv, NEW u, DestroyObject(u)
    PROVE  FrameInv'
<1>1. /\ shows' = shows \ {u} /\ gone' = gone \cup {u} /\ objectGUIDs' = objectGUIDs \ {u}
      /\ sees' = sees \ {u} /\ bosses' = bosses \ {u}
      /\ UNCHANGED <<engaged, awaiting, chained, wire, visibleObjectGUIDs, encounterFrames, framePending>>
      /\ Aligned /\ ~awaiting
    BY DEF DestroyObject, transferVars, encounterVars, OnMap, FrameInv
<1>2. Aligned'
    BY <1>1 DEF Aligned
<1> SUFFICES ASSUME ~chained PROVE Tracked'
    BY <1>1, <1>2 DEF FrameInv, OnTheWay
<1>3. Tracked
    BY <1>1 DEF FrameInv, OnTheWay
<1> QED BY <1>1, <1>3 DEF Tracked

LEMMA TransferFollows == ASSUME FrameInv, Transfer PROVE FrameInv'
<1>1. /\ awaiting' /\ wire' = wire \o <<[op |-> "PENDING"], [op |-> "NEW_WORLD", visit |-> visit + 1]>>
      /\ shows' = {} /\ engaged' = {} /\ UNCHANGED <<objectVars, sees>>
    BY DEF Transfer, clientVars
<1>2. Aligned'
    BY <1>1 DEF FrameInv, Aligned, objectVars
<1> QED BY <1>1, <1>2 DEF FrameInv, OnTheWay

\* The transfer's packets, up to the client's leaving and back.
LEMMA RefuseFollows == ASSUME FrameInv, RefuseTransfer PROVE FrameInv'
<1>1. UNCHANGED frameVars /\ UNCHANGED <<awaiting, chained>> /\ ~awaiting
    BY DEF RefuseTransfer, OnMap, frameVars, realmVars, encounterVars, clientVars
<1> QED BY <1>1 DEF FrameInv, OnTheWay, Tracked, Aligned, frameVars, objectVars

\* A NEW_WORLD is on the wire until the character's new map is announced to
\* the client.
LEMMA WireGoesOn ==
    ASSUME MapInv, ~chained, awaiting, RelayTransferPending \/ RelayTransferAborted
    PROVE  wire' # <<>>
<1>1. wire # <<>> /\ wire' = Tail(wire) /\ Head(wire).op \in {"PENDING", "ABORTED"}
    BY DEF RelayTransferPending, RelayTransferAborted
<1>2. Leaving \/ Announced
    BY <1>1 DEF MapInv, Phases, AtRest, Refusing, Arriving, Acknowledging
<1>3. ~Announced
    BY <1>1 DEF Announced, Arrival
<1> HIDE DEF Pending, Aborted, Arrival
<1>4. ASSUME wire = <<Pending, Aborted, Pending, Arrival>>
      PROVE  wire' = <<Aborted, Pending, Arrival>>
    BY <1>1, <1>4
<1>5. ASSUME wire = <<Aborted, Pending, Arrival>> PROVE wire' = <<Pending, Arrival>>
    BY <1>1, <1>5
<1>6. ASSUME wire = <<Pending, Arrival>> PROVE wire' = <<Arrival>>
    BY <1>1, <1>6
<1> QED BY <1>2, <1>3, <1>4, <1>5, <1>6 DEF Leaving

LEMMA OnlyAnnounced ==
    ASSUME MapInv, ~chained, wire # <<>>, Head(wire).op = "NEW_WORLD"
    PROVE  Announced
<1>1. Refusing \/ Leaving \/ Announced
    BY DEF MapInv, Phases, AtRest, Arriving, Acknowledging
<1>2. ~Refusing /\ ~Leaving
    BY DEF Refusing, Leaving, Pending, Aborted
<1> QED BY <1>1, <1>2

LEMMA RelayFollows ==
    ASSUME MapInv, FrameInv, RelayTransferPending \/ RelayTransferAborted
    PROVE  FrameInv'
<1>1. UNCHANGED frameVars /\ UNCHANGED <<awaiting, chained>> /\ wire # <<>>
    BY DEF RelayTransferPending, RelayTransferAborted, frameVars, realmVars, encounterVars, clientVars
<1>2. ~chained /\ awaiting => wire' # <<>>
    BY WireGoesOn
<1> QED BY <1>1, <1>2 DEF FrameInv, OnTheWay, Tracked, Aligned, frameVars, objectVars

LEMMA ArrivalFollows == ASSUME MapInv, FrameInv, RelayNewWorld PROVE FrameInv'
<1>1. /\ wire # <<>> /\ Head(wire).op = "NEW_WORLD" /\ wire' = Tail(wire)
      /\ UNCHANGED <<shows, engaged, gone, awaiting, chained>>
    BY DEF RelayNewWorld, realmVars
<1>2. Aligned'
    BY DEF RelayNewWorld, ResetWorldObjects, ClientNewWorld, FrameInv, Aligned, objectVars, clientVars
<1> SUFFICES ASSUME ~chained PROVE ~OnTheWay' /\ Tracked'
    BY <1>1, <1>2 DEF FrameInv
<1>3. Announced
    BY <1>1, OnlyAnnounced
<1>4. wire' = <<>>
    BY <1>1, <1>3 DEF Announced
<1>5. engaged' = {} /\ shows' = {}
    BY <1>1, <1>3 DEF FrameInv, OnTheWay, Announced
<1>6. encounterFrames' = {} /\ framePending' = {} /\ sees' = {} /\ bosses' = {}
    BY <1>3 DEF RelayNewWorld, ResetWorldObjects, ClientNewWorld, Announced
<1> QED BY <1>4, <1>5, <1>6 DEF OnTheWay, Tracked

\* The client's answer comes when the map has been left.
LEMMA AckFollows ==
    ASSUME MapInv, FrameInv, WorldPortResponse \/ WriteWorldPortAck
    PROVE  FrameInv'
<1>1. UNCHANGED frameVars /\ UNCHANGED <<chained, wire>> /\ (loading \/ acking)
    BY DEF WorldPortResponse, WriteWorldPortAck, frameVars, realmVars, encounterVars, objectVars, clientVars
<1>2. ~chained => wire = <<>>
    BY <1>1 DEF MapInv, Phases, AtRest, Refusing, Leaving, Announced, Arriving, Acknowledging, Quiet
<1> QED BY <1>1, <1>2 DEF FrameInv, OnTheWay, Tracked, Aligned, frameVars, objectVars

LEMMA FrameNext ==
    ASSUME Returns = FALSE, MapInv, BossInv, FrameInv, [Next]_vars
    PROVE  FrameInv'
<1>1. ASSUME UNCHANGED frameVars, UNCHANGED <<awaiting, chained, wire>> PROVE FrameInv'
    BY <1>1 DEF FrameInv, OnTheWay, Tracked, Aligned, frameVars, objectVars
<1>2. UNCHANGED vars \/ (\E casters \in Casters : Spell(casters))
         => UNCHANGED frameVars /\ UNCHANGED <<awaiting, chained, wire>>
    BY DEF vars, Spell, frameVars, realmVars, encounterVars, objectVars, clientVars, transferVars
<1> QED BY <1>1, <1>2, EngageFollows, DisengageFollows, RefreshFollows, UpdateFollows,
           DestroyFollows, TransferFollows, RefuseFollows, RelayFollows, ArrivalFollows,
           AckFollows DEF Next

\* The client shows a boss frame for exactly the engaged units in sight
\* (EncounterFrames.Apply and Flush, forgetObjectVisibleLocked), where no unit
\* comes back under the GUID it was destroyed with.
THEOREM FramesFollow == ASSUME Returns = FALSE PROVE Spec => []FramesFollowUnits
<1>1. Init => FrameInv
    BY DEF Init, FrameInv, Aligned, Tracked, OnTheWay
<1>2. MapInv /\ BossInv /\ FrameInv /\ [Next]_vars => FrameInv'
    BY FrameNext
<1>3. FrameInv => FramesFollowUnits
    BY DEF FrameInv, FramesFollowUnits, Settled, OnTheWay, Tracked
<1> QED BY <1>1, <1>2, <1>3, MapInit, MapNext, BossInit, BossNext, PTL DEF Spec

-----------------------------------------------------------------------------
(* Types.                                                                   *)

UnitTypes ==
    /\ shows \subseteq Units /\ engaged \subseteq Units /\ gone \subseteq Units
    /\ objectGUIDs \subseteq Units \ Untranslated
    /\ visibleObjectGUIDs \subseteq Units \ Untranslated
    /\ encounterFrames \subseteq Units
    /\ framePending \subseteq encounterFrames /\ frameSent \subseteq encounterFrames
    /\ encounterInProgress \in BOOLEAN
    /\ sees \subseteq Units \ Untranslated /\ bosses \subseteq sees
    /\ fighting \in BOOLEAN
MapTypes ==
    /\ visit \in Visits /\ awaiting \in BOOLEAN /\ chained \in BOOLEAN
    /\ wire \in Seq(TransferPacket)
    /\ currentMapID \in Visits
    /\ waitingForNewWorld \in BOOLEAN /\ waitingForWorldPortAck \in BOOLEAN
    /\ acking \in BOOLEAN
    /\ here \in Visits /\ loading \in BOOLEAN
\* The spells that wait and those shown are spells the realm reported.
SpellTypes ==
    /\ spells \in Seq([casters : Casters, visit : Visits]) /\ Len(spells) <= MaxReports
    /\ pendingObjectSpells \in Seq(1..Len(spells)) /\ Len(pendingObjectSpells) <= MaxPending
    /\ shown \in Seq(1..Len(spells))
TypeInv == UnitTypes /\ MapTypes /\ SpellTypes

unitVars == <<shows, engaged, gone, objectVars, encounterVars, sees, bosses, fighting>>
spellVars == <<pendingObjectSpells, spells, shown>>

LEMMA WiderSeq ==
    ASSUME NEW m \in Nat, NEW n \in Nat, m <= n, NEW s \in Seq(1..m)
    PROVE  s \in Seq(1..n)
<1>1. s \in [1..Len(s) -> 1..m] /\ Len(s) \in Nat
    OBVIOUS
<1>2. \A i \in 1..m : i \in 1..n
    OBVIOUS
<1>3. s \in [1..Len(s) -> 1..n]
    BY <1>1, <1>2
<1> QED BY <1>1, <1>3

LEMMA TypeParts == TypeInv => TypeOK
<1> SUFFICES ASSUME TypeInv PROVE TypeOK
    OBVIOUS
<1>1. Len(spells) \in Nat /\ Len(spells) <= MaxReports /\ MaxReports \in Nat
    BY ObjectBounds DEF TypeInv, SpellTypes
<1>2. pendingObjectSpells \in Seq(SpellNos)
    BY <1>1, WiderSeq DEF TypeInv, SpellTypes, SpellNos
<1> QED BY <1>2 DEF TypeInv, UnitTypes, MapTypes, SpellTypes, TypeOK

LEMMA TypeInit == Init => TypeInv
<1> SUFFICES ASSUME Init PROVE TypeInv
    OBVIOUS
<1>1. UnitTypes
    BY DEF Init, UnitTypes
<1>2. MapTypes
  <2>1. 0 \in Visits
      BY ObjectBounds DEF Visits
  <2>2. wire \in Seq(TransferPacket)
      BY DEF Init
  <2> QED BY <2>1, <2>2 DEF Init, MapTypes
<1>3. SpellTypes
    BY ObjectBounds DEF Init, SpellTypes
<1> QED BY <1>1, <1>2, <1>3 DEF TypeInv

\* The units.
LEMMA UpdateTypes ==
    ASSUME UnitTypes, NEW far \in SUBSET Units, NEW new \in SUBSET Units, UpdateObjects(far, new)
    PROVE  UnitTypes'
<1> DEFINE created == new \ Untranslated
           objects == (sees \ far) \cup created
           known == (objectGUIDs \ far) \cup created
           visible == (visibleObjectGUIDs \ far) \cup created
           resolved == Hidden(far) \cap known \cap visible
<1>1. /\ shows' = (shows \ far) \cup new /\ UNCHANGED <<engaged, gone, encounterFrames>>
      /\ objectGUIDs' = known /\ visibleObjectGUIDs' = visible /\ sees' = objects
    BY DEF UpdateObjects
<1>2. created \subseteq Units \ Untranslated
    OBVIOUS
<1>3. Hidden(far) \subseteq encounterFrames /\ resolved \subseteq Hidden(far)
    BY DEF Hidden, UnitTypes
<1>4. /\ created = {} => /\ framePending' = Hidden(far) /\ bosses' = bosses \cap objects
                         /\ UNCHANGED <<frameSent, encounterInProgress, fighting>>
      /\ created # {} => /\ framePending' = Hidden(far) \ resolved
                         /\ frameSent' = frameSent \cup resolved
                         /\ Engage(resolved, objects)
    BY DEF UpdateObjects
<1>5. known \subseteq Units \ Untranslated /\ visible \subseteq Units \ Untranslated
      /\ objects \subseteq Units \ Untranslated
    BY <1>2 DEF UnitTypes
<1> HIDE DEF created, objects, known, visible, resolved
<1>6. bosses' \subseteq objects /\ encounterInProgress' \in BOOLEAN /\ fighting' \in BOOLEAN
    BY <1>4 DEF UnitTypes, Engage
<1>7. framePending' \subseteq encounterFrames /\ frameSent' \subseteq encounterFrames
    BY <1>3, <1>4 DEF UnitTypes
<1> QED BY <1>1, <1>5, <1>6, <1>7 DEF UnitTypes

LEMMA UnitTypesNext == ASSUME UnitTypes, [Next]_vars PROVE UnitTypes'
<1>1. ASSUME UNCHANGED unitVars PROVE UnitTypes'
    BY <1>1 DEF unitVars, UnitTypes, objectVars, encounterVars
<1>2. CASE UNCHANGED vars
    BY <1>1, <1>2 DEF vars, unitVars, realmVars, clientVars
<1>3. CASE \E casters \in Casters : Spell(casters)
    BY <1>1, <1>3 DEF Spell, unitVars, realmVars, clientVars
<1>4. ASSUME NEW u \in Units \ Untranslated, NEW kind \in {0, 2}, EncounterEngage(u, kind)
      PROVE  UnitTypes'
  <2>1. engaged' \subseteq Units /\ UNCHANGED <<shows, gone, objectVars, sees>>
      BY <1>4 DEF EncounterEngage, UnitTypes, clientVars
  <2>2. /\ encounterFrames' \subseteq Units /\ framePending' \subseteq encounterFrames'
        /\ frameSent' \subseteq encounterFrames' /\ bosses' \subseteq sees
        /\ encounterInProgress' \in BOOLEAN /\ fighting' \in BOOLEAN
    <3>1. CASE kind = 2 /\ u \notin encounterFrames
        BY <1>4, <3>1 DEF EncounterEngage, UnitTypes, encounterVars, clientVars
    <3>2. CASE ~(kind = 2 /\ u \notin encounterFrames) /\ Resolves(u)
        BY <1>4, <3>2 DEF EncounterEngage, UnitTypes, Engage
    <3>3. CASE ~(kind = 2 /\ u \notin encounterFrames) /\ ~Resolves(u)
        BY <1>4, <3>3 DEF EncounterEngage, UnitTypes
    <3> QED BY <3>1, <3>2, <3>3
  <2> QED BY <2>1, <2>2 DEF UnitTypes, objectVars
<1>5. ASSUME NEW u, EncounterDisengage(u) PROVE UnitTypes'
    BY <1>5 DEF EncounterDisengage, UnitTypes, objectVars
<1>6. CASE EncounterRefresh
    BY <1>6 DEF EncounterRefresh, UnitTypes, Engage, objectVars, realmVars
<1>7. ASSUME NEW u \in Units, DestroyObject(u) PROVE UnitTypes'
    BY <1>7 DEF DestroyObject, UnitTypes, encounterVars
<1>8. CASE Transfer
    BY <1>8 DEF Transfer, UnitTypes, objectVars, encounterVars, clientVars
<1>9. CASE RefuseTransfer \/ RelayTransferPending \/ RelayTransferAborted
           \/ WorldPortResponse \/ WriteWorldPortAck
    BY <1>1, <1>9 DEF RefuseTransfer, RelayTransferPending, RelayTransferAborted,
         WorldPortResponse, WriteWorldPortAck, unitVars, realmVars, clientVars
<1>10. CASE RelayNewWorld
    BY <1>10 DEF RelayNewWorld, ResetWorldObjects, ClientNewWorld, UnitTypes, objectVars,
         encounterVars, realmVars, clientVars
<1> QED BY <1>2, <1>3, <1>4, <1>5, <1>6, <1>7, <1>8, <1>9, <1>10, UpdateTypes DEF Next

\* The map.
LEMMA PacketTypes ==
    /\ [op |-> "PENDING"] \in TransferPacket /\ [op |-> "ABORTED"] \in TransferPacket
    /\ \A v \in Visits : [op |-> "NEW_WORLD", visit |-> v] \in TransferPacket
    /\ \A p \in TransferPacket : p.op = "NEW_WORLD" => p.visit \in Visits
BY DEF TransferPacket

LEMMA TransferTypes == ASSUME MapTypes, Transfer \/ RefuseTransfer PROVE MapTypes'
<1>1. /\ UNCHANGED <<currentMapID, waitingForNewWorld, waitingForWorldPortAck, acking, here, loading>>
      /\ visit' \in Visits /\ awaiting' \in BOOLEAN /\ chained' \in BOOLEAN
  <2>1. visit' \in Visits
      BY ObjectBounds DEF Transfer, RefuseTransfer, MapTypes, Visits, realmVars
  <2>2. awaiting' \in BOOLEAN /\ chained' \in BOOLEAN
    <3>1. CASE Transfer
        BY <3>1 DEF Transfer, MapTypes
    <3>2. CASE RefuseTransfer
        BY <3>2 DEF RefuseTransfer, MapTypes, realmVars
    <3> QED BY <3>1, <3>2
  <2> QED BY <2>1, <2>2 DEF Transfer, RefuseTransfer, clientVars
<1>2. wire' \in Seq(TransferPacket)
  <2> DEFINE pending == [op |-> "PENDING"]
             aborted == [op |-> "ABORTED"]
             arrival == [op |-> "NEW_WORLD", visit |-> visit + 1]
  <2>1. pending \in TransferPacket /\ aborted \in TransferPacket
      BY PacketTypes
  <2>2. CASE Transfer
    <3>1. arrival \in TransferPacket
      <4>1. visit + 1 \in Visits
          BY <2>2, <1>1 DEF Transfer
      <4> QED BY <4>1, PacketTypes
    <3>3. wire \in Seq(TransferPacket)
        BY DEF MapTypes
    <3>2. wire' = wire \o <<pending, arrival>>
        BY <2>2 DEF Transfer
    <3> HIDE DEF pending, arrival
    <3>4. <<pending, arrival>> \in Seq(TransferPacket)
        BY <2>1, <3>1
    <3> QED BY <3>2, <3>3, <3>4
  <2>3. CASE RefuseTransfer
    <3>1. wire' = <<pending, aborted>> \/ wire' = <<aborted>>
        BY <2>3 DEF RefuseTransfer
    <3> HIDE DEF pending, aborted
    <3>2. <<pending, aborted>> \in Seq(TransferPacket) /\ <<aborted>> \in Seq(TransferPacket)
        BY <2>1
    <3> QED BY <3>1, <3>2
  <2> QED BY <2>2, <2>3
<1> QED BY <1>1, <1>2 DEF MapTypes

LEMMA MapTypesNext == ASSUME MapTypes, [Next]_vars PROVE MapTypes'
<1>1. ASSUME UNCHANGED mapVars PROVE MapTypes'
    BY <1>1 DEF mapVars, MapTypes
<1>2. CASE UNCHANGED vars
    BY <1>1, <1>2 DEF vars, mapVars, realmVars, transferVars, clientVars
<1>3. CASE RelayTransferPending \/ RelayTransferAborted
  <2>1. wire # <<>> /\ wire' = Tail(wire)
      BY <1>3 DEF RelayTransferPending, RelayTransferAborted
  <2>2. wire' \in Seq(TransferPacket)
      BY <2>1 DEF MapTypes
  <2>3. waitingForNewWorld' \in BOOLEAN
      BY <1>3 DEF RelayTransferPending, RelayTransferAborted, MapTypes
  <2> QED BY <1>3, <2>2, <2>3 DEF RelayTransferPending, RelayTransferAborted, MapTypes,
           realmVars, clientVars
<1>4. CASE RelayNewWorld
  <2>1. /\ wire # <<>> /\ Head(wire).op = "NEW_WORLD" /\ wire' = Tail(wire)
        /\ UNCHANGED <<visit, awaiting, chained, acking>>
      BY <1>4 DEF RelayNewWorld, realmVars
  <2>2. Head(wire) \in TransferPacket
      BY <2>1 DEF MapTypes
  <2>3. Head(wire).visit \in Visits
      BY <2>1, <2>2, PacketTypes
  <2>4. wire' \in Seq(TransferPacket)
      BY <2>1 DEF MapTypes
  <2> QED BY <1>4, <2>1, <2>3, <2>4 DEF RelayNewWorld, ResetWorldObjects, ClientNewWorld,
           MapTypes, clientVars
<1>5. CASE WorldPortResponse \/ WriteWorldPortAck
    BY <1>5 DEF WorldPortResponse, WriteWorldPortAck, MapTypes, realmVars, clientVars
<1> QED BY <1>1, <1>2, <1>3, <1>4, <1>5, TransferTypes, OthersKeepMap DEF Next

\* The spells.
LEMMA ReportTypes ==
    ASSUME TypeInv, NEW casters \in Casters, Spell(casters)
    PROVE  SpellTypes'
<1> DEFINE n == Len(spells) + 1
           spell == [casters |-> casters, visit |-> visit]
<1>1. /\ spells \in Seq([casters : Casters, visit : Visits]) /\ visit \in Visits /\ visit \in Nat
      /\ Len(spells) \in Nat /\ Len(spells) + visit < MaxReports /\ MaxReports \in Nat
      /\ MaxPending \in Nat
    BY ObjectBounds DEF TypeInv, SpellTypes, MapTypes, Visits, Spell
<1>2. spell \in [casters : Casters, visit : Visits]
    BY <1>1
<1>3. spells' = Append(spells, spell)
    BY DEF Spell
<1>4. /\ spells' \in Seq([casters : Casters, visit : Visits]) /\ Len(spells') = n
      /\ n \in 1..n /\ n <= MaxReports /\ n \in Nat
  <2> HIDE DEF spell
  <2> QED BY <1>1, <1>2, <1>3
<1>5. pendingObjectSpells \in Seq(1..n) /\ shown \in Seq(1..n)
    BY <1>1, <1>4, WiderSeq DEF TypeInv, SpellTypes
<1>6. \/ pendingObjectSpells' = pendingObjectSpells /\ shown' = Append(shown, n)
      \/ /\ shown' = shown
         /\ \/ pendingObjectSpells' = pendingObjectSpells
            \/ /\ pendingObjectSpells' = Append(pendingObjectSpells, n)
               /\ ~(Len(pendingObjectSpells) >= MaxPending)
    BY <1>4 DEF Spell, QueueObjectSpell
<1>7. Len(pendingObjectSpells) <= MaxPending
    BY DEF TypeInv, SpellTypes
<1> HIDE DEF n
<1>8. Append(shown, n) \in Seq(1..n) /\ Append(pendingObjectSpells, n) \in Seq(1..n)
      /\ Len(Append(pendingObjectSpells, n)) = Len(pendingObjectSpells) + 1
      /\ Len(pendingObjectSpells) \in Nat
    BY <1>4, <1>5
<1>9. pendingObjectSpells' \in Seq(1..n) /\ shown' \in Seq(1..n)
    BY <1>5, <1>6, <1>8
<1>10. Len(pendingObjectSpells') <= MaxPending
    BY <1>1, <1>6, <1>7, <1>8
<1> QED BY <1>4, <1>9, <1>10 DEF SpellTypes

\* The two parts of a queue when some units become visible.
LEMMA QueueParts ==
    ASSUME SpellTypes, NEW visible
    PROVE  /\ Ready(visible) \in SUBSET DOMAIN pendingObjectSpells
           /\ DOMAIN pendingObjectSpells \ Ready(visible) \in SUBSET DOMAIN pendingObjectSpells
           /\ pendingObjectSpells \in Seq(1..Len(spells))
BY DEF Ready, SpellTypes

LEMMA SpellTypesNext == ASSUME TypeInv, [Next]_vars PROVE SpellTypes'
<1>1. ASSUME UNCHANGED spellVars PROVE SpellTypes'
    BY <1>1 DEF spellVars, SpellTypes, TypeInv
<1>2. ASSUME NEW far, NEW new, UpdateObjects(far, new) PROVE SpellTypes'
  <2> DEFINE visible == (visibleObjectGUIDs \ far) \cup (new \ Untranslated)
  <2>1. CASE new \ Untranslated = {}
      BY <1>1, <1>2, <2>1 DEF UpdateObjects, spellVars
  <2>2. CASE new \ Untranslated # {}
    <3>1. /\ UNCHANGED spells
          /\ shown' = shown \o KeptAt(pendingObjectSpells, Ready(visible))
          /\ pendingObjectSpells'
                = KeptAt(pendingObjectSpells, DOMAIN pendingObjectSpells \ Ready(visible))
        BY <1>2, <2>2 DEF UpdateObjects, TakeReadyObjectSpells, RemainingObjectSpells
    <3> HIDE DEF visible
    <3>2. /\ KeptAt(pendingObjectSpells, Ready(visible)) \in Seq(1..Len(spells))
          /\ pendingObjectSpells' \in Seq(1..Len(spells))
          /\ Len(pendingObjectSpells') \in Nat
          /\ Len(pendingObjectSpells') <= Len(pendingObjectSpells)
        BY <3>1, QueueParts, KeptInOrder DEF TypeInv
    <3>3. shown \in Seq(1..Len(spells)) /\ Len(pendingObjectSpells) <= MaxPending
          /\ Len(pendingObjectSpells) \in Nat /\ MaxPending \in Nat
        BY ObjectBounds DEF TypeInv, SpellTypes
    <3>4. shown' \in Seq(1..Len(spells))
        BY <3>1, <3>2, <3>3
    <3>5. Len(pendingObjectSpells') <= MaxPending
        BY <3>2, <3>3
    <3> QED BY <3>1, <3>2, <3>4, <3>5 DEF TypeInv, SpellTypes
  <2> QED BY <2>1, <2>2
<1>3. ASSUME RelayNewWorld PROVE SpellTypes'
  <2>1. UNCHANGED <<spells, shown>>
        /\ (pendingObjectSpells' = pendingObjectSpells \/ pendingObjectSpells' = <<>>)
      BY <1>3 DEF RelayNewWorld, ResetWorldObjects
  <2>2. CASE pendingObjectSpells' = pendingObjectSpells
      BY <1>1, <2>1, <2>2 DEF spellVars
  <2>3. CASE pendingObjectSpells' = <<>>
    <3>1. pendingObjectSpells' \in Seq(1..Len(spells)) /\ Len(pendingObjectSpells') = 0
        BY <2>3
    <3>2. 0 <= MaxPending
        BY ObjectBounds
    <3> QED BY <2>1, <3>1, <3>2 DEF TypeInv, SpellTypes
  <2> QED BY <2>1, <2>2, <2>3
<1>4. ASSUME \/ \E u \in Units \ Untranslated, kind \in {0, 2} : EncounterEngage(u, kind)
             \/ \E u \in Units \ Untranslated : EncounterDisengage(u)
             \/ EncounterRefresh
             \/ \E u \in Units : DestroyObject(u)
      PROVE  UNCHANGED spellVars
    BY <1>4 DEF EncounterEngage, EncounterDisengage, EncounterRefresh, DestroyObject, spellVars
<1>5. ASSUME \/ Transfer \/ RefuseTransfer \/ RelayTransferPending \/ RelayTransferAborted
             \/ WorldPortResponse \/ WriteWorldPortAck
      PROVE  UNCHANGED spellVars
    BY <1>5 DEF Transfer, RefuseTransfer, RelayTransferPending, RelayTransferAborted,
         WorldPortResponse, WriteWorldPortAck, spellVars
<1>6. CASE UNCHANGED vars
    BY <1>1, <1>6 DEF vars, spellVars
<1> QED BY <1>1, <1>2, <1>3, <1>4, <1>5, <1>6, ReportTypes DEF Next

\* Every variable has its type: the queue stays within its bound, and what
\* waits and what was shown was reported.
THEOREM TypeCorrect == Spec => []TypeOK
<1>1. TypeInv /\ [Next]_vars => TypeInv'
    BY UnitTypesNext, MapTypesNext, SpellTypesNext DEF TypeInv
<1> QED BY <1>1, TypeInit, TypeParts, PTL DEF Spec

-----------------------------------------------------------------------------
(* Spells of other units.                                                   *)

\* What the client was told is visible is there or was destroyed, until a
\* transfer is announced.
VisInv == ~chained /\ ~OnTheWay => visibleObjectGUIDs \subseteq sees \cup gone

\* A spell that waits lacks a caster, and was cast on the client's map; those
\* that wait are in the order of their reports, and none of the same casters
\* was shown before it.
Waits == \A j \in DOMAIN pendingObjectSpells :
            ~(spells[pendingObjectSpells[j]].casters \subseteq visibleObjectGUIDs)
QueueOrdered ==
    \A i, j \in DOMAIN pendingObjectSpells :
       i < j => pendingObjectSpells[i] < pendingObjectSpells[j]
NotOvertaken ==
    \A i \in DOMAIN shown, j \in DOMAIN pendingObjectSpells :
       spells[shown[i]].casters = spells[pendingObjectSpells[j]].casters
       => shown[i] < pendingObjectSpells[j]
CastHere ==
    ~chained => \A j \in DOMAIN pendingObjectSpells : spells[pendingObjectSpells[j]].visit = here
SpellInv == Waits /\ QueueOrdered /\ NotOvertaken /\ CastHere /\ SpellsInOrder

LEMMA VisNext == ASSUME MapInv, VisInv, [Next]_vars PROVE VisInv'
<1> SUFFICES ASSUME ~chained', ~OnTheWay' PROVE visibleObjectGUIDs' \subseteq sees' \cup gone'
    BY DEF VisInv
<1>1. ASSUME UNCHANGED <<visibleObjectGUIDs, sees, gone, awaiting, wire, chained>>
      PROVE  visibleObjectGUIDs' \subseteq sees' \cup gone'
    BY <1>1 DEF VisInv, OnTheWay
<1>2. CASE UNCHANGED vars
    BY <1>1, <1>2 DEF vars, realmVars, objectVars, transferVars, clientVars
<1>3. CASE \E casters \in Casters : Spell(casters)
    BY <1>1, <1>3 DEF Spell, realmVars, objectVars, transferVars, clientVars
<1>4. CASE \E u \in Units \ Untranslated, kind \in {0, 2} : EncounterEngage(u, kind)
    BY <1>1, <1>4 DEF EncounterEngage, objectVars, transferVars, clientVars
<1>5. CASE \E u \in Units \ Untranslated : EncounterDisengage(u)
    BY <1>1, <1>5 DEF EncounterDisengage, objectVars, transferVars
<1>6. CASE EncounterRefresh
    BY <1>1, <1>6 DEF EncounterRefresh, realmVars, objectVars, transferVars
<1>7. ASSUME NEW far, NEW new, UpdateObjects(far, new)
      PROVE  visibleObjectGUIDs' \subseteq sees' \cup gone'
  <2>1. /\ visibleObjectGUIDs' = (visibleObjectGUIDs \ far) \cup (new \ Untranslated)
        /\ sees' = (sees \ far) \cup (new \ Untranslated)
        /\ UNCHANGED <<gone, chained>> /\ ~awaiting
      BY <1>7 DEF UpdateObjects, OnMap
  <2> QED BY <2>1 DEF VisInv, OnTheWay
<1>8. ASSUME NEW u, DestroyObject(u) PROVE visibleObjectGUIDs' \subseteq sees' \cup gone'
  <2>1. /\ visibleObjectGUIDs' = visibleObjectGUIDs /\ sees' = sees \ {u} /\ gone' = gone \cup {u}
        /\ UNCHANGED <<chained>> /\ ~awaiting
      BY <1>8 DEF DestroyObject, OnMap
  <2> QED BY <2>1 DEF VisInv, OnTheWay
<1>9. ASSUME Transfer PROVE FALSE
  <2>1. awaiting' /\ wire' = wire \o <<[op |-> "PENDING"], [op |-> "NEW_WORLD", visit |-> visit + 1]>>
      BY <1>9 DEF Transfer
  <2>2. ~awaiting /\ ~chained
      BY <1>9 DEF Transfer
  <2>3. wire' # <<>>
    <3>1. MapInv'
        BY <1>9, TransferKeeps
    <3>2. UNCHANGED <<loading, acking>> /\ ~loading /\ ~acking
        BY <1>9, <2>2 DEF Transfer, MapInv, Phases, AtRest, Refusing, Leaving, Announced, Arriving,
           Acknowledging, Quiet, clientVars
    <3> QED BY <2>1, <3>1, <3>2 DEF MapInv, Phases, AtRest, Refusing, Leaving, Announced,
           Arriving, Acknowledging
  <2> QED BY <2>1, <2>3 DEF OnTheWay
<1>10. CASE RefuseTransfer
  <2>1. UNCHANGED <<visibleObjectGUIDs, sees, gone, chained>> /\ ~awaiting
      BY <1>10 DEF RefuseTransfer, OnMap, realmVars, objectVars, clientVars
  <2> QED BY <2>1 DEF VisInv, OnTheWay
<1>11. CASE RelayTransferPending \/ RelayTransferAborted
  <2>1. UNCHANGED <<visibleObjectGUIDs, sees, gone, chained, awaiting>>
      BY <1>11 DEF RelayTransferPending, RelayTransferAborted, realmVars, objectVars, clientVars
  <2>2. awaiting => wire' # <<>>
      BY <1>11, <2>1, WireGoesOn
  <2> QED BY <2>1, <2>2 DEF VisInv, OnTheWay
<1>12. CASE RelayNewWorld
  <2>1. UNCHANGED <<gone, chained, awaiting>> /\ wire # <<>> /\ Head(wire).op = "NEW_WORLD"
      BY <1>12 DEF RelayNewWorld, realmVars
  <2>2. waitingForNewWorld
      BY <2>1, OnlyAnnounced DEF Announced
  <2> QED BY <1>12, <2>2 DEF RelayNewWorld, ResetWorldObjects
<1>13. CASE WorldPortResponse \/ WriteWorldPortAck
  <2>1. /\ UNCHANGED <<visibleObjectGUIDs, sees, gone, chained, wire>> /\ (loading \/ acking)
      BY <1>13 DEF WorldPortResponse, WriteWorldPortAck, realmVars, objectVars, clientVars
  <2>2. wire = <<>>
      BY <2>1 DEF MapInv, Phases, AtRest, Refusing, Leaving, Announced, Arriving,
         Acknowledging, Quiet
  <2> QED BY <2>1, <2>2 DEF VisInv, OnTheWay
<1> QED BY <1>2, <1>3, <1>4, <1>5, <1>6, <1>7, <1>8, <1>9, <1>10, <1>11, <1>12, <1>13 DEF Next

spellInvVars == <<spellVars, visibleObjectGUIDs, here>>

\* What the numbers of the queue and of the history stand for.
LEMMA Numbers ==
    ASSUME TypeInv
    PROVE  /\ Len(spells) \in Nat /\ Len(shown) \in Nat
           /\ DOMAIN shown = 1..Len(shown)
           /\ \A j \in DOMAIN pendingObjectSpells : pendingObjectSpells[j] \in 1..Len(spells)
           /\ \A i \in DOMAIN shown : shown[i] \in 1..Len(spells)
           /\ DOMAIN pendingObjectSpells = 1..Len(pendingObjectSpells)
           /\ Len(pendingObjectSpells) \in Nat
BY DEF TypeInv, SpellTypes

LEMMA HereIsVisit ==
    ASSUME MapInv, OnMap, ~chained
    PROVE  here = visit
BY DEF MapInv, OnMap, Phases, AtRest, Refusing, Leaving, Announced, Arriving, Acknowledging,
       Arrived

LEMMA ReportOrdered ==
    ASSUME TypeInv, MapInv, SpellInv, NEW casters \in Casters, Spell(casters)
    PROVE  SpellInv'
<1> DEFINE n == Len(spells) + 1
<1>1. /\ spells \in Seq([casters : Casters, visit : Visits])
      /\ spells' = Append(spells, [casters |-> casters, visit |-> visit])
    BY DEF TypeInv, SpellTypes, Spell
<1>2. /\ \A m \in 1..Len(spells) : spells'[m] = spells[m]
      /\ spells'[n].casters = casters /\ spells'[n].visit = visit /\ Len(spells') = n
    BY <1>1
<1>3. UNCHANGED <<visibleObjectGUIDs, here, chained, visit>> /\ OnMap
    BY DEF Spell, realmVars, objectVars, clientVars
<1>4. ~chained => here = visit
    BY <1>3, HereIsVisit
<1>5. \/ /\ pendingObjectSpells' = pendingObjectSpells /\ shown' = Append(shown, n)
         /\ casters \subseteq visibleObjectGUIDs
      \/ shown' = shown /\ pendingObjectSpells' = pendingObjectSpells
      \/ /\ shown' = shown /\ pendingObjectSpells' = Append(pendingObjectSpells, n)
         /\ ~(casters \subseteq visibleObjectGUIDs)
    BY <1>2 DEF Spell, QueueObjectSpell, UnknownSpellObject
<1>6. \A m \in 1..Len(spells) : m < n /\ m # n
    BY Numbers
<1> HIDE DEF n
<1>7. SpellInv =>
        /\ \A j \in DOMAIN pendingObjectSpells :
              spells'[pendingObjectSpells[j]] = spells[pendingObjectSpells[j]]
        /\ \A i \in DOMAIN shown : spells'[shown[i]] = spells[shown[i]]
    BY <1>2, Numbers
<1>8. CASE shown' = shown /\ pendingObjectSpells' = pendingObjectSpells
    BY <1>3, <1>7, <1>8 DEF SpellInv, Waits, QueueOrdered, NotOvertaken, CastHere, SpellsInOrder
<1>9. CASE /\ pendingObjectSpells' = pendingObjectSpells /\ shown' = Append(shown, n)
           /\ casters \subseteq visibleObjectGUIDs
  <2>1. /\ DOMAIN shown' = 1..Len(shown) + 1
        /\ \A i \in 1..Len(shown) : shown'[i] = shown[i]
        /\ shown'[Len(shown) + 1] = n /\ Len(shown) \in Nat /\ DOMAIN shown = 1..Len(shown)
    <3>1. shown \in Seq(1..Len(spells))
        BY DEF TypeInv, SpellTypes
    <3> QED BY <1>9, <3>1
  <2>2. \A i \in DOMAIN shown' : \/ i \in DOMAIN shown /\ shown'[i] = shown[i]
                                 \/ i = Len(shown) + 1 /\ shown'[i] = n
      BY <2>1
  <2>3. Waits' /\ QueueOrdered' /\ CastHere'
      BY <1>3, <1>7, <1>9 DEF SpellInv, Waits, QueueOrdered, CastHere
  <2>4. NotOvertaken'
    <3> SUFFICES ASSUME NEW i \in DOMAIN shown', NEW j \in DOMAIN pendingObjectSpells,
                        spells'[shown'[i]].casters = spells'[pendingObjectSpells[j]].casters
                 PROVE  shown'[i] < pendingObjectSpells[j]
        BY <1>9 DEF NotOvertaken
    <3>1. CASE i \in DOMAIN shown /\ shown'[i] = shown[i]
        BY <1>7, <3>1 DEF SpellInv, NotOvertaken
    <3>2. shown'[i] # n
        BY <1>2, <1>7, <1>9 DEF SpellInv, Waits
    <3> QED BY <2>2, <3>1, <3>2
  <2>5. SpellsInOrder'
    <3> SUFFICES ASSUME NEW i \in DOMAIN shown', NEW j \in DOMAIN shown', i < j,
                        spells'[shown'[i]].casters = spells'[shown'[j]].casters
                 PROVE  shown'[i] < shown'[j]
        BY DEF SpellsInOrder
    <3>1. i \in DOMAIN shown /\ shown'[i] = shown[i] /\ shown[i] \in 1..Len(spells)
        BY <2>1, <2>2, Numbers
    <3>2. CASE j \in DOMAIN shown /\ shown'[j] = shown[j]
        BY <1>7, <3>1, <3>2 DEF SpellInv, SpellsInOrder
    <3> QED BY <1>6, <2>2, <3>1, <3>2
  <2> QED BY <2>3, <2>4, <2>5 DEF SpellInv
<1>10. CASE /\ shown' = shown /\ pendingObjectSpells' = Append(pendingObjectSpells, n)
            /\ ~(casters \subseteq visibleObjectGUIDs)
  <2> DEFINE last == Len(pendingObjectSpells) + 1
  <2>1. /\ DOMAIN pendingObjectSpells' = 1..last
        /\ \A i \in 1..Len(pendingObjectSpells) : pendingObjectSpells'[i] = pendingObjectSpells[i]
        /\ pendingObjectSpells'[last] = n
        /\ Len(pendingObjectSpells) \in Nat /\ DOMAIN pendingObjectSpells = 1..Len(pendingObjectSpells)
    <3>1. pendingObjectSpells \in Seq(1..Len(spells))
        BY DEF TypeInv, SpellTypes
    <3> QED BY <1>10, <3>1
  <2>2. \A j \in DOMAIN pendingObjectSpells' :
           \/ j \in DOMAIN pendingObjectSpells /\ pendingObjectSpells'[j] = pendingObjectSpells[j]
           \/ j = last /\ pendingObjectSpells'[j] = n
      BY <2>1
  <2>3. Waits'
      BY <1>2, <1>3, <1>7, <1>10, <2>2 DEF SpellInv, Waits
  <2>4. CastHere'
      BY <1>2, <1>3, <1>4, <1>7, <2>2 DEF SpellInv, CastHere
  <2>5. SpellsInOrder'
      BY <1>7, <1>10 DEF SpellInv, SpellsInOrder
  <2>6. NotOvertaken'
    <3> SUFFICES ASSUME NEW i \in DOMAIN shown, NEW j \in DOMAIN pendingObjectSpells',
                        spells'[shown[i]].casters = spells'[pendingObjectSpells'[j]].casters
                 PROVE  shown[i] < pendingObjectSpells'[j]
        BY <1>10 DEF NotOvertaken
    <3>1. CASE j \in DOMAIN pendingObjectSpells /\ pendingObjectSpells'[j] = pendingObjectSpells[j]
        BY <1>7, <3>1 DEF SpellInv, NotOvertaken
    <3>2. shown[i] \in 1..Len(spells)
        BY Numbers
    <3> QED BY <1>6, <2>2, <3>1, <3>2
  <2>7. QueueOrdered'
    <3> SUFFICES ASSUME NEW i \in DOMAIN pendingObjectSpells', NEW j \in DOMAIN pendingObjectSpells',
                        i < j
                 PROVE  pendingObjectSpells'[i] < pendingObjectSpells'[j]
        BY DEF QueueOrdered
    <3>1. /\ i \in DOMAIN pendingObjectSpells /\ pendingObjectSpells'[i] = pendingObjectSpells[i]
          /\ pendingObjectSpells[i] \in 1..Len(spells)
        BY <2>1, <2>2, Numbers
    <3>2. CASE j \in DOMAIN pendingObjectSpells /\ pendingObjectSpells'[j] = pendingObjectSpells[j]
        BY <3>1, <3>2 DEF SpellInv, QueueOrdered
    <3> QED BY <1>6, <2>2, <3>1, <3>2
  <2> QED BY <2>3, <2>4, <2>5, <2>6, <2>7 DEF SpellInv
<1> QED BY <1>5, <1>8, <1>9, <1>10

\* The spells that became ready are shown behind the others, in their order;
\* the rest waits on.
LEMMA ReadyOrdered ==
    ASSUME TypeInv, SpellInv, NEW far, NEW new, UpdateObjects(far, new),
           new \ Untranslated # {}
    PROVE  SpellInv'
<1> DEFINE visible == (visibleObjectGUIDs \ far) \cup (new \ Untranslated)
           rest == DOMAIN pendingObjectSpells \ Ready(visible)
           ready == Ready(visible)
           taken == KeptAt(pendingObjectSpells, ready)
           kept == KeptAt(pendingObjectSpells, rest)
<1>1. /\ UNCHANGED <<spells, here, chained>> /\ shown' = shown \o taken
      /\ pendingObjectSpells' = kept /\ visibleObjectGUIDs' = visible
    BY DEF UpdateObjects, TakeReadyObjectSpells, RemainingObjectSpells
<1>2. \A i \in DOMAIN pendingObjectSpells :
         i \in ready <=> spells[pendingObjectSpells[i]].casters \subseteq visible
    BY <1>1 DEF Ready, UnknownSpellObject
<1>3. ready \in SUBSET DOMAIN pendingObjectSpells /\ rest \in SUBSET DOMAIN pendingObjectSpells
      /\ pendingObjectSpells \in Seq(1..Len(spells)) /\ rest \cap ready = {}
      /\ shown \in Seq(1..Len(spells))
    BY QueueParts DEF TypeInv, SpellTypes
<1> HIDE DEF visible, ready, rest
<1>4. /\ taken \in Seq(1..Len(spells)) /\ kept \in Seq(1..Len(spells))
      /\ \A k \in DOMAIN taken : /\ Nth(ready, k) \in ready
                                 /\ taken[k] = pendingObjectSpells[Nth(ready, k)]
      /\ \A k \in DOMAIN kept : /\ Nth(rest, k) \in rest
                                /\ kept[k] = pendingObjectSpells[Nth(rest, k)]
      /\ \A k, l \in DOMAIN taken : k < l => Nth(ready, k) < Nth(ready, l)
      /\ \A k, l \in DOMAIN kept : k < l => Nth(rest, k) < Nth(rest, l)
    BY <1>3, KeptInOrder
<1> HIDE DEF taken, kept
<1>5. \A i \in DOMAIN shown' : \/ i \in DOMAIN shown /\ shown'[i] = shown[i]
                               \/ /\ i - Len(shown) \in DOMAIN taken /\ i \notin DOMAIN shown
                                  /\ shown'[i] = taken[i - Len(shown)]
    BY <1>1, <1>3, <1>4
<1>6. DOMAIN shown = 1..Len(shown) /\ Len(shown) \in Nat /\ DOMAIN shown' \subseteq Nat
  <2>1. shown' \in Seq(1..Len(spells))
      BY <1>1, <1>3, <1>4
  <2> QED BY <1>3, <2>1
<1>7. Waits'
  <2> SUFFICES ASSUME NEW k \in DOMAIN kept PROVE ~(spells[kept[k]].casters \subseteq visible)
      BY <1>1 DEF Waits
  <2> QED BY <1>2, <1>3, <1>4
<1>8. QueueOrdered'
    BY <1>1, <1>3, <1>4 DEF SpellInv, QueueOrdered
<1>9. CastHere'
    BY <1>1, <1>3, <1>4 DEF SpellInv, CastHere
<1>10. NotOvertaken'
  <2> SUFFICES ASSUME NEW i \in DOMAIN shown', NEW k \in DOMAIN kept,
                      spells[shown'[i]].casters = spells[kept[k]].casters
               PROVE  shown'[i] < kept[k]
      BY <1>1 DEF NotOvertaken
  <2>1. Nth(rest, k) \in rest /\ kept[k] = pendingObjectSpells[Nth(rest, k)]
        /\ Nth(rest, k) \in DOMAIN pendingObjectSpells
      BY <1>3, <1>4
  <2>2. CASE i \in DOMAIN shown /\ shown'[i] = shown[i]
      BY <2>1, <2>2 DEF SpellInv, NotOvertaken
  <2>3. ASSUME NEW l \in DOMAIN taken, shown'[i] = taken[l] PROVE FALSE
    <3>1. Nth(ready, l) \in ready /\ Nth(ready, l) \in DOMAIN pendingObjectSpells
          /\ taken[l] = pendingObjectSpells[Nth(ready, l)]
        BY <1>3, <1>4
    <3> QED BY <1>2, <1>3, <2>1, <2>3, <3>1
  <2> QED BY <1>5, <2>2, <2>3
<1>11. SpellsInOrder'
  <2> SUFFICES ASSUME NEW i \in DOMAIN shown', NEW j \in DOMAIN shown', i < j,
                      spells[shown'[i]].casters = spells[shown'[j]].casters
               PROVE  shown'[i] < shown'[j]
      BY <1>1 DEF SpellsInOrder
  <2>1. CASE j \in DOMAIN shown /\ shown'[j] = shown[j]
    <3>1. i \in DOMAIN shown
        BY <1>6, <2>1
    <3> QED BY <1>5, <2>1, <3>1 DEF SpellInv, SpellsInOrder
  <2>2. ASSUME NEW l \in DOMAIN taken, l = j - Len(shown), shown'[j] = taken[l]
        PROVE  shown'[i] < shown'[j]
    <3>1. Nth(ready, l) \in DOMAIN pendingObjectSpells /\ taken[l] = pendingObjectSpells[Nth(ready, l)]
        BY <1>3, <1>4
    <3>2. CASE i \in DOMAIN shown /\ shown'[i] = shown[i]
        BY <2>2, <3>1, <3>2 DEF SpellInv, NotOvertaken
    <3>3. ASSUME NEW k \in DOMAIN taken, k = i - Len(shown), shown'[i] = taken[k]
          PROVE  shown'[i] < shown'[j]
      <4>1. k < l
          BY <1>6, <2>2, <3>3
      <4>2. Nth(ready, k) < Nth(ready, l)
          BY <1>4, <4>1
      <4>3. Nth(ready, k) \in DOMAIN pendingObjectSpells
            /\ taken[k] = pendingObjectSpells[Nth(ready, k)]
          BY <1>3, <1>4
      <4> QED BY <2>2, <3>1, <3>3, <4>2, <4>3 DEF SpellInv, QueueOrdered
    <3> QED BY <1>5, <3>2, <3>3
  <2> QED BY <1>5, <2>1, <2>2
<1> QED BY <1>7, <1>8, <1>9, <1>10, <1>11 DEF SpellInv

LEMMA SpellNext == ASSUME TypeInv, MapInv, SpellInv, [Next]_vars PROVE SpellInv'
<1>1. ASSUME UNCHANGED spellInvVars, ~chained' => ~chained PROVE SpellInv'
    BY <1>1 DEF spellInvVars, spellVars, SpellInv, Waits, QueueOrdered, NotOvertaken, CastHere,
         SpellsInOrder
<1>2. CASE UNCHANGED vars
    BY <1>1, <1>2 DEF vars, spellInvVars, spellVars, realmVars, objectVars, clientVars
<1>3. CASE \/ \E u \in Units \ Untranslated, kind \in {0, 2} : EncounterEngage(u, kind)
           \/ \E u \in Units \ Untranslated : EncounterDisengage(u)
           \/ EncounterRefresh
           \/ \E u \in Units : DestroyObject(u)
  <2>1. UNCHANGED spellInvVars /\ UNCHANGED chained
      BY <1>3 DEF EncounterEngage, EncounterDisengage, EncounterRefresh, DestroyObject,
         spellInvVars, spellVars, objectVars, clientVars, realmVars
  <2> QED BY <1>1, <2>1
<1>4. CASE \/ Transfer \/ RefuseTransfer \/ RelayTransferPending \/ RelayTransferAborted
           \/ WorldPortResponse \/ WriteWorldPortAck
  <2>1. UNCHANGED spellInvVars
      BY <1>4 DEF Transfer, RefuseTransfer, RelayTransferPending, RelayTransferAborted,
         WorldPortResponse, WriteWorldPortAck, spellInvVars, spellVars, objectVars,
         clientVars
  <2>2. ASSUME Transfer PROVE chained' = (chained \/ awaiting)
      BY <2>2 DEF Transfer
  <2>3. Transfer \/ UNCHANGED chained
      BY <1>4 DEF RefuseTransfer, RelayTransferPending, RelayTransferAborted,
         WorldPortResponse, WriteWorldPortAck, realmVars
  <2> QED BY <1>1, <2>1, <2>2, <2>3
<1>5. CASE RelayNewWorld
  <2>1. UNCHANGED <<spells, shown, chained>>
        /\ \/ UNCHANGED spellInvVars
           \/ pendingObjectSpells' = <<>>
      BY <1>5 DEF RelayNewWorld, ResetWorldObjects, spellInvVars, spellVars, objectVars,
         clientVars, realmVars
  <2>2. CASE pendingObjectSpells' = <<>>
    <3>1. DOMAIN pendingObjectSpells' = {}
        BY <2>2
    <3> QED BY <2>1, <3>1 DEF SpellInv, Waits, QueueOrdered, NotOvertaken, CastHere,
         SpellsInOrder
  <2> QED BY <1>1, <2>1, <2>2
<1>6. ASSUME NEW far, NEW new, UpdateObjects(far, new) PROVE SpellInv'
  <2>1. CASE new \ Untranslated # {}
      BY <1>6, <2>1, ReadyOrdered
  <2>2. CASE new \ Untranslated = {}
    <3>1. /\ UNCHANGED spellVars /\ UNCHANGED <<here, chained>>
          /\ visibleObjectGUIDs' \subseteq visibleObjectGUIDs
        BY <1>6, <2>2 DEF UpdateObjects, spellVars
    <3> QED BY <3>1 DEF spellVars, SpellInv, Waits, QueueOrdered, NotOvertaken, CastHere,
         SpellsInOrder
  <2> QED BY <2>1, <2>2
<1> QED BY <1>2, <1>3, <1>4, <1>5, <1>6, ReportOrdered DEF Next

LEMMA SpellInit == Init => SpellInv /\ VisInv
BY DEF Init, SpellInv, Waits, QueueOrdered, NotOvertaken, CastHere, SpellsInOrder, VisInv

\* Spells of the same casters are shown in the order of their reports, however
\* many there are and whichever were dropped at the queue's limit.
THEOREM SpellsOrdered == Spec => []SpellsInOrder
<1>1. TypeInv /\ [Next]_vars => TypeInv'
    BY UnitTypesNext, MapTypesNext, SpellTypesNext DEF TypeInv
<1>2. TypeInv /\ MapInv /\ SpellInv /\ [Next]_vars => SpellInv'
    BY SpellNext
<1>3. Init => SpellInv
    BY SpellInit
<1>4. SpellInv => SpellsInOrder
    BY DEF SpellInv
<1> QED BY <1>1, <1>2, <1>3, <1>4, TypeInit, MapInit, MapNext, PTL DEF Spec

\* What a step adds to the history.
CastersThere ==
    \A i \in Len(shown) + 1..Len(shown') :
       ~chained => /\ spells'[shown'[i]].casters \subseteq sees' \cup gone'
                   /\ spells'[shown'[i]].visit = here'

LEMMA ReportThere ==
    ASSUME TypeInv, MapInv, VisInv', NEW casters \in Casters, Spell(casters)
    PROVE  CastersThere
<1> DEFINE n == Len(spells) + 1
<1>1. /\ spells \in Seq([casters : Casters, visit : Visits]) /\ shown \in Seq(1..Len(spells))
      /\ spells' = Append(spells, [casters |-> casters, visit |-> visit])
    BY DEF TypeInv, SpellTypes, Spell
<1>2. spells'[n].casters = casters /\ spells'[n].visit = visit /\ Len(spells') = n
    BY <1>1
<1>3. UNCHANGED <<visibleObjectGUIDs, here, chained, visit, awaiting>> /\ OnMap
    BY DEF Spell, realmVars, objectVars, clientVars
<1>4. \/ shown' = Append(shown, n) /\ casters \subseteq visibleObjectGUIDs
      \/ shown' = shown
    BY <1>2 DEF Spell, UnknownSpellObject
<1> HIDE DEF n
<1> SUFFICES ASSUME NEW i \in Len(shown) + 1..Len(shown'), ~chained
             PROVE  /\ spells'[shown'[i]].casters \subseteq sees' \cup gone'
                    /\ spells'[shown'[i]].visit = here'
    BY DEF CastersThere
<1>5. shown' = Append(shown, n) /\ shown'[i] = n /\ casters \subseteq visibleObjectGUIDs
    BY <1>1, <1>4
<1>6. visibleObjectGUIDs' \subseteq sees' \cup gone'
    BY <1>3 DEF VisInv, OnTheWay, OnMap
<1> QED BY <1>2, <1>3, <1>5, <1>6, HereIsVisit

LEMMA ReadyThere ==
    ASSUME TypeInv, SpellInv, VisInv', NEW far, NEW new, UpdateObjects(far, new)
    PROVE  CastersThere
<1> DEFINE visible == (visibleObjectGUIDs \ far) \cup (new \ Untranslated)
           ready == Ready(visible)
           taken == KeptAt(pendingObjectSpells, ready)
<1>1. /\ visibleObjectGUIDs' = visible /\ UNCHANGED <<here, chained, awaiting, spells>> /\ OnMap
      /\ shown' = shown \/ shown' = shown \o taken
    BY DEF UpdateObjects, TakeReadyObjectSpells
<1>2. \A j \in ready : spells[pendingObjectSpells[j]].casters \subseteq visible
                       /\ j \in DOMAIN pendingObjectSpells
    BY <1>1 DEF Ready, UnknownSpellObject
<1>3. ready \in SUBSET DOMAIN pendingObjectSpells /\ pendingObjectSpells \in Seq(1..Len(spells))
      /\ shown \in Seq(1..Len(spells))
    BY QueueParts DEF TypeInv, SpellTypes
<1> HIDE DEF visible, ready
<1>4. /\ taken \in Seq(1..Len(spells))
      /\ \A k \in DOMAIN taken : Nth(ready, k) \in ready
                                 /\ taken[k] = pendingObjectSpells[Nth(ready, k)]
    BY <1>3, KeptInOrder
<1> HIDE DEF taken
<1> SUFFICES ASSUME NEW i \in Len(shown) + 1..Len(shown'), ~chained
             PROVE  /\ spells'[shown'[i]].casters \subseteq sees' \cup gone'
                    /\ spells'[shown'[i]].visit = here'
    BY DEF CastersThere
<1>5. PICK k \in DOMAIN taken : shown'[i] = taken[k]
  <2>1. Len(shown) \in Nat /\ shown' = shown \o taken
      BY <1>1, <1>3
  <2>2. i - Len(shown) \in DOMAIN taken /\ shown'[i] = taken[i - Len(shown)]
      BY <1>3, <1>4, <2>1
  <2> QED BY <2>2
<1>6. visibleObjectGUIDs' \subseteq sees' \cup gone'
    BY <1>1 DEF VisInv, OnTheWay, OnMap
<1>7. spells[shown'[i]].visit = here
    BY <1>2, <1>4, <1>5 DEF SpellInv, CastHere
<1> QED BY <1>1, <1>2, <1>4, <1>5, <1>6, <1>7

\* A spell of another unit is shown where it was cast and not before its
\* casters, however the units come, go and come back.
THEOREM CastersShown == Spec => SpellsHaveCasters
<1>1. TypeInv /\ [Next]_vars => TypeInv'
    BY UnitTypesNext, MapTypesNext, SpellTypesNext DEF TypeInv
<1>2. TypeInv /\ MapInv /\ SpellInv /\ [Next]_vars => SpellInv'
    BY SpellNext
<1>3. MapInv /\ VisInv /\ [Next]_vars => VisInv'
    BY VisNext
<1>4. Init => SpellInv /\ VisInv
    BY SpellInit
<1>5. TypeInv /\ MapInv /\ SpellInv /\ VisInv' /\ [Next]_vars
        => [\A i \in Len(shown) + 1..Len(shown') :
              LET spell == spells'[shown'[i]] IN
              ~chained => /\ spell.casters \subseteq sees' \cup gone'
                          /\ spell.visit = here']_vars
  <2> SUFFICES ASSUME TypeInv, MapInv, SpellInv, VisInv', Next PROVE CastersThere
      BY DEF CastersThere
  <2>1. ASSUME UNCHANGED shown PROVE CastersThere
    <3>1. Len(shown) \in Nat
        BY Numbers
    <3> QED BY <2>1, <3>1 DEF CastersThere
  <2>2. ASSUME NEW casters \in Casters, Spell(casters) PROVE CastersThere
      BY <2>2, ReportThere
  <2>3. ASSUME NEW far, NEW new, UpdateObjects(far, new) PROVE CastersThere
      BY <2>3, ReadyThere
  <2>4. ASSUME \/ \E u \in Units \ Untranslated, kind \in {0, 2} : EncounterEngage(u, kind)
               \/ \E u \in Units \ Untranslated : EncounterDisengage(u)
               \/ EncounterRefresh
               \/ \E u \in Units : DestroyObject(u)
        PROVE  UNCHANGED shown
      BY <2>4 DEF EncounterEngage, EncounterDisengage, EncounterRefresh, DestroyObject
  <2>5. ASSUME \/ Transfer \/ RefuseTransfer \/ RelayTransferPending \/ RelayTransferAborted
               \/ RelayNewWorld \/ WorldPortResponse \/ WriteWorldPortAck
        PROVE  UNCHANGED shown
      BY <2>5 DEF Transfer, RefuseTransfer, RelayTransferPending, RelayTransferAborted,
         RelayNewWorld, WorldPortResponse, WriteWorldPortAck
  <2> QED BY <2>1, <2>2, <2>3, <2>4, <2>5 DEF Next
<1> QED BY <1>1, <1>2, <1>3, <1>4, <1>5, TypeInit, MapInit, MapNext, PTL DEF Spec, SpellsHaveCasters
=============================================================================
