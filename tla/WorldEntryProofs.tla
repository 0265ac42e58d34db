-------------------------- MODULE WorldEntryProofs --------------------------
(***************************************************************************)
(* An instance key admits one connection, whatever the number of logins, of *)
(* connection attempts and of packets, and whatever breaks.                 *)
(***************************************************************************)
EXTENDS WorldEntry, TLAPS

\* What the keys depend on.
keyVars == <<address, login, handler, keys, instanceKey, stage, presents>>

\* Nobody presents a key drawn later than the last one, so a fresh key is one
\* that no connection has; and a key that admitted a connection is gone.
Admitted(c) == stage[c] \in {"claimed", "active"}

KeyTypes ==
    /\ login \in Nat /\ instanceKey \in Nat /\ address \in Nat
    /\ stage \in [Conns -> Stages] /\ presents \in [Conns -> Nat]

KeysInOrder ==
    /\ handler = "register" => instanceKey < login
    /\ handler = "connect" => instanceKey = login
    /\ instanceKey <= login
    /\ address <= instanceKey
    /\ \A c \in Conns : presents[c] <= instanceKey

KeysUsed == \A c \in Conns : Admitted(c) => presents[c] \notin keys

KeyInv == KeyTypes /\ KeysInOrder /\ KeysUsed /\ OneConnectionPerKey

\* At the start nothing is drawn, presented or admitted.
LEMMA KeyInit == Init => KeyInv
<1> SUFFICES ASSUME Init PROVE KeyInv
    OBVIOUS
<1>1. KeyTypes
    BY DEF Init, KeyTypes, Stages, NoLogin
<1>2. KeysInOrder
    BY DEF Init, KeysInOrder, NoLogin
<1>3. KeysUsed /\ OneConnectionPerKey
    BY DEF Init, KeysUsed, OneConnectionPerKey, Admitted
<1> QED BY <1>1, <1>2, <1>3 DEF KeyInv

\* Neither the relay nor the realm nor a connection that breaks touches a key.
LEMMA OthersKeepKeys ==
    Relay \/ RealmHandles \/ RealmSends \/ RealmStrays \/ (\E c \in Conns : Break(c))
       => UNCHANGED keyVars
<1> SUFFICES ASSUME Relay \/ RealmHandles \/ RealmSends \/ RealmStrays
                       \/ \E c \in Conns : Break(c)
             PROVE  UNCHANGED keyVars
    OBVIOUS
<1> USE DEF keyVars, connVars
<1>1. ASSUME NEW p, NEW rest, Handles(p, rest) PROVE UNCHANGED keyVars
    BY <1>1 DEF Handles
<1>2. CASE Relay
    BY <1>1, <1>2 DEF Relay, Replay, WriteQuery, LogoutComplete, clientVars, sessionVars
<1>3. CASE RealmHandles
    BY <1>1, <1>3 DEF RealmHandles, Answers, Silent, clientVars, sessionVars
<1>4. CASE RealmSends
    BY <1>1, <1>4 DEF RealmSends
<1>5. CASE RealmStrays
    BY <1>1, <1>5 DEF RealmStrays, Answers
<1>6. CASE \E c \in Conns : Break(c)
    BY <1>6 DEF Break, sessionVars
<1> QED BY <1>2, <1>3, <1>4, <1>5, <1>6

\* A login draws its key after every key presented so far.
LEMMA HandlerKeys == KeyInv /\ Handler => KeyInv'
<1> SUFFICES ASSUME KeyInv, Handler PROVE KeyInv'
    OBVIOUS
<1> USE DEF KeyInv, KeyTypes, KeysInOrder, KeysUsed, OneConnectionPerKey, Admitted,
            clientVars, sessionVars, connVars
<1>1. CASE PlayerLogin
    BY <1>1 DEF PlayerLogin
<1>2. CASE PlayerLoginUnknown
    BY <1>2 DEF PlayerLoginUnknown
<1>3. CASE RegisterInstanceSession
  <2>1. CASE Register /\ handler' = "connect"
    <3>1. keys' = {login} /\ instanceKey' = login /\ instanceKey < login
        BY <1>3, <2>1 DEF RegisterInstanceSession, Register
    <3>2. UNCHANGED <<address, login, stage, presents>>
        BY <1>3 DEF RegisterInstanceSession
    <3>3. \A c \in Conns : presents[c] \in Nat /\ presents[c] < login
        BY <3>1
    <3> QED BY <2>1, <3>1, <3>2, <3>3
  <2>2. CASE FailLogin /\ UNCHANGED <<keys, instanceKey>>
      BY <1>3, <2>2 DEF RegisterInstanceSession, FailLogin
  <2> QED BY <1>3, <2>1, <2>2 DEF RegisterInstanceSession
<1>4. CASE WriteConnectTo
    BY <1>4 DEF WriteConnectTo, FailLogin
<1>5. CASE ForwardLogin
    BY <1>5 DEF ForwardLogin
<1>6. CASE ForwardRequest
    BY <1>6 DEF ForwardRequest
<1> QED BY <1>1, <1>2, <1>3, <1>4, <1>5, <1>6 DEF Handler

\* A connection presents a key when it is opened, and is admitted only by
\* taking the key away.
LEMMA ConnectionKeys ==
    ASSUME NEW c \in Conns, KeyInv, Connect(c) \/ Instance(c)
    PROVE  KeyInv'
<1> USE DEF KeyInv, KeyTypes, KeysInOrder, KeysUsed, OneConnectionPerKey, Admitted, Go, Stages,
            clientVars, sessionVars
<1>1. CASE Connect(c)
    BY <1>1 DEF Connect
<1>2. CASE LookupInstanceSession(c)
    BY <1>2 DEF LookupInstanceSession
<1>3. CASE ClaimInstanceSession(c)
  <2>1. /\ UNCHANGED <<address, login, handler, instanceKey, presents>>
        /\ keys' = keys \ {presents[c]}
        /\ stage' = [stage EXCEPT ![c] = IF presents[c] \in keys THEN "claimed" ELSE "ended"]
      BY <1>3 DEF ClaimInstanceSession, Claim
  <2>2. CASE presents[c] \in keys
    <3>1. \A d \in Conns : Admitted(d) => presents[d] # presents[c]
        BY <2>2
    <3>2. \A d \in Conns : d # c => stage'[d] = stage[d]
        BY <2>1
    <3> QED BY <2>1, <2>2, <3>1, <3>2
  <2>3. CASE presents[c] \notin keys
      BY <2>1, <2>3
  <2> QED BY <2>2, <2>3
<1>4. CASE ActivateInstance(c)
    BY <1>4 DEF ActivateInstance
<1>5. CASE HandshakeFails(c)
    BY <1>5 DEF HandshakeFails
<1>6. CASE ClearInstance(c)
    BY <1>6 DEF ClearInstance
<1> QED BY <1>1, <1>2, <1>3, <1>4, <1>5, <1>6 DEF Instance

\* A step that leaves the keys and the connections alone keeps the invariant.
LEMMA KeyStutter == KeyInv /\ UNCHANGED keyVars => KeyInv'
    BY DEF KeyInv, KeyTypes, KeysInOrder, KeysUsed, OneConnectionPerKey, Admitted, keyVars

\* Every step keeps the invariant.
LEMMA KeyNext == KeyInv /\ [Next]_vars => KeyInv'
<1> SUFFICES ASSUME KeyInv, [Next]_vars PROVE KeyInv'
    OBVIOUS
<1>1. CASE Handler
    BY <1>1, HandlerKeys
<1>2. CASE \E c \in Conns : Connect(c) \/ Instance(c)
    BY <1>2, ConnectionKeys
<1>3. CASE Relay \/ RealmHandles \/ RealmSends \/ RealmStrays \/ \E c \in Conns : Break(c)
    BY <1>3, OthersKeepKeys, KeyStutter
<1>4. CASE UNCHANGED vars
    BY <1>4, KeyStutter DEF vars, keyVars, clientVars, sessionVars, connVars
<1> QED BY <1>1, <1>2, <1>3, <1>4 DEF Next

\* A key drawn by registerInstanceSession admits one connection, and the key of
\* an earlier login admits none once a newer one is drawn.
THEOREM KeysAdmitOne == Spec => []OneConnectionPerKey
<1>1. KeyInv => OneConnectionPerKey
    BY DEF KeyInv
<1> QED BY <1>1, KeyInit, KeyNext, PTL DEF Spec

-----------------------------------------------------------------------------
(* Types.  A login is counted before anything is kept under its number, and *)
(* a packet of the stream belongs to a login, while any other carries no    *)
(* movements: neither follows from the types of the variables alone.        *)

OwnedPackets ==
    {p \in RealmPackets : (p.kind = "world" => p.login # NoLogin) /\ (p.kind # "world" => p.parts = 1)}

Counted == handler # "idle" \/ syncPending => login # NoLogin
Owned == deferred \in Seq(OwnedPackets) /\ replay \in Seq(OwnedPackets)

\* What the handling of a packet changes, and the rest of the state.
RelayTypes ==
    /\ client \in ClientStates /\ pendingInstance \in Seq(Logins \X Nat)
    /\ {syncPending, syncRequested, quests, created, questsShown} \subseteq BOOLEAN
    /\ relay \in RelayStates /\ Owned
    /\ shown \in [Logins -> Seq(Logins \X Nat)] /\ released \subseteq Logins
HandlerTypes ==
    /\ address \in 0..MaxLogins /\ login \in 0..MaxLogins /\ handler \in HandlerStates
    /\ keys \subseteq Logins /\ instanceKey \in 0..MaxLogins
ConnTypes ==
    /\ stage \in [Conns -> Stages] /\ presents \in [Conns -> 0..MaxLogins]
    /\ broken \subseteq Conns /\ instanceWorld \in Conns \cup {NoConn}
RealmTypes ==
    /\ toRealm \in Seq({"login", "query", "logout", "enum"})
    /\ inWorld \in 0..MaxLogins /\ strays \in 0..MaxStrays
    /\ sent \in [Logins -> Seq(Logins \X Nat)]
    /\ disturbed \subseteq 0..MaxLogins

TypeInv == RelayTypes /\ HandlerTypes /\ ConnTypes /\ RealmTypes /\ Counted

\* The parts are the type invariant of the module, and more.
LEMMA TypeInvGivesTypes == TypeInv => TypeOK
<1>1. OwnedPackets \subseteq RealmPackets
    BY DEF OwnedPackets
<1>2. Seq(OwnedPackets) \subseteq Seq(RealmPackets)
    BY <1>1
<1> QED
    BY <1>2 DEF TypeInv, TypeOK, Owned, RelayTypes, HandlerTypes, ConnTypes, RealmTypes

\* At the start nothing is kept.
LEMMA TypeInit == Init => TypeInv
<1> SUFFICES ASSUME Init PROVE TypeInv
    OBVIOUS
<1> USE EntryBounds, EntryFaults DEF Init, NoLogin, NoConn
<1>1. RelayTypes
  <2>1. Owned /\ pendingInstance \in Seq(Logins \X Nat)
      BY DEF Owned
  <2>2. shown \in [Logins -> Seq(Logins \X Nat)]
      OBVIOUS
  <2>3. client \in ClientStates /\ relay \in RelayStates /\ released \subseteq Logins
      BY DEF ClientStates, RelayStates
  <2>4. {syncPending, syncRequested, quests, created, questsShown} \subseteq BOOLEAN
      OBVIOUS
  <2> QED BY <2>1, <2>2, <2>3, <2>4 DEF RelayTypes
<1>2. HandlerTypes
    BY DEF HandlerTypes, HandlerStates
<1>3. ConnTypes
    BY DEF ConnTypes, Stages
<1>4. RealmTypes
    BY DEF RealmTypes
<1> QED BY <1>1, <1>2, <1>3, <1>4 DEF TypeInv, Counted

\* Packets written to a connection keep the types, whoever writes them.
LEMMA ShowsTypes ==
    ASSUME TypeInv, NEW c \in Conns, NEW packets \in Seq(Logins \X Nat), Shows(c, packets)
    PROVE  client' \in ClientStates /\ shown' \in [Logins -> Seq(Logins \X Nat)]
<1>1. \A n \in Logins : shown[n] \o packets \in Seq(Logins \X Nat)
    BY DEF TypeInv, RelayTypes, HandlerTypes, ConnTypes, RealmTypes
<1> QED BY <1>1 DEF Shows, TypeInv, RelayTypes, HandlerTypes, ConnTypes, RealmTypes, ClientStates

\* The value for "no connection" is no connection's number.
LEMMA NoConnIsNone == NoConn \notin Conns
<1>1. MaxLogins * MaxAttempts \in Nat
    BY EntryBounds
<1> QED BY <1>1 DEF Conns, NoConn

\* The movements a packet is expanded into belong to the login it belonged to.
LEMMA PiecesOwned ==
    ASSUME NEW p \in OwnedPackets
    PROVE  /\ [p EXCEPT !.parts = 1] \in OwnedPackets
           /\ [p EXCEPT !.parts = 1, !.no = @ + 1] \in OwnedPackets
<1>1. p \in RealmPackets /\ (p.kind = "world" => p.login # NoLogin)
    BY DEF OwnedPackets
<1>2. p.no + 1 \in Nat /\ p.no \in Nat
    BY <1>1 DEF RealmPackets
<1>3. [p EXCEPT !.parts = 1] \in RealmPackets
    BY <1>1 DEF RealmPackets
<1>4. [p EXCEPT !.parts = 1, !.no = p.no + 1] \in RealmPackets
  <2>1. [p EXCEPT !.parts = 1, !.no = p.no + 1] = [[p EXCEPT !.parts = 1] EXCEPT !.no = p.no + 1]
      BY <1>1 DEF RealmPackets
  <2> QED BY <1>2, <1>3, <2>1 DEF RealmPackets
<1>5. /\ [p EXCEPT !.parts = 1].kind = p.kind /\ [p EXCEPT !.parts = 1].login = p.login
      /\ [p EXCEPT !.parts = 1, !.no = p.no + 1].kind = p.kind
      /\ [p EXCEPT !.parts = 1, !.no = p.no + 1].login = p.login
      /\ [p EXCEPT !.parts = 1].parts = 1 /\ [p EXCEPT !.parts = 1, !.no = p.no + 1].parts = 1
    BY <1>1 DEF RealmPackets
<1> QED BY <1>1, <1>3, <1>4, <1>5 DEF OwnedPackets

\* sendInstance queues or writes a packet of a login.
LEMMA SendInstanceTypes ==
    ASSUME TypeInv, NEW p \in OwnedPackets, p.kind = "world", SendInstance(p)
    PROVE  /\ client' \in ClientStates /\ shown' \in [Logins -> Seq(Logins \X Nat)]
           /\ pendingInstance' \in Seq(Logins \X Nat) /\ relay' \in RelayStates
<1>1. <<p.login, p.no>> \in Logins \X Nat
    BY DEF OwnedPackets, RealmPackets
<1>2. CASE instanceWorld = NoConn
  <2>1. instanceWorld \notin broken
      BY <1>2, NoConnIsNone DEF TypeInv, RelayTypes, HandlerTypes, ConnTypes, RealmTypes
  <2>2. /\ pendingInstance' = Append(pendingInstance, <<p.login, p.no>>)
        /\ relay' = "reading" /\ UNCHANGED <<shown, client>>
      BY <1>2, <2>1 DEF SendInstance
  <2>3. pendingInstance' \in Seq(Logins \X Nat)
      BY <1>1, <2>2 DEF TypeInv, RelayTypes, HandlerTypes, ConnTypes, RealmTypes
  <2> QED BY <2>2, <2>3 DEF TypeInv, RelayTypes, HandlerTypes, ConnTypes, RealmTypes, RelayStates
<1>3. CASE instanceWorld # NoConn /\ instanceWorld \notin broken
  <2>1. instanceWorld \in Conns
      BY <1>3 DEF TypeInv, RelayTypes, HandlerTypes, ConnTypes, RealmTypes
  <2>2. Shows(instanceWorld, <<<<p.login, p.no>>>>) /\ relay' = "reading" /\ UNCHANGED pendingInstance
      BY <1>3 DEF SendInstance
  <2>3. <<<<p.login, p.no>>>> \in Seq(Logins \X Nat)
      BY <1>1
  <2> QED BY <2>1, <2>2, <2>3, ShowsTypes DEF RelayStates, TypeInv, RelayTypes, HandlerTypes, ConnTypes, RealmTypes
<1>4. CASE instanceWorld # NoConn /\ instanceWorld \in broken
    BY <1>4 DEF SendInstance, TypeInv, RelayTypes, HandlerTypes, ConnTypes, RealmTypes, RelayStates
<1> QED BY <1>2, <1>3, <1>4

\* Handling a packet, put by or translated, keeps the types it touches.
LEMMA HandlesTypes ==
    ASSUME TypeInv, NEW p \in OwnedPackets, NEW rest \in Seq(OwnedPackets), Handles(p, rest)
    PROVE  RelayTypes' /\ (syncPending' => syncPending)
<1>0. /\ RelayTypes /\ relay = "reading" /\ login \in 0..MaxLogins
      /\ p \in RealmPackets /\ Counted
    BY DEF TypeInv, Handles, HandlerTypes, OwnedPackets
<1>1. CASE syncPending
  <2>0. Defer(p, rest) /\ login \in Logins
      BY <1>0, <1>1, EntryBounds DEF Handles, Counted, Logins, NoLogin
  <2>1. UNCHANGED <<client, shown, pendingInstance, created>> /\ relay' \in RelayStates
      BY <2>0 DEF Defer, RelayStates
  <2>2. Append(deferred, p) \in Seq(OwnedPackets) /\ rest \o deferred \in Seq(OwnedPackets)
      BY <1>0 DEF RelayTypes, Owned
  <2>3. rest \o Append(deferred, p) \in Seq(OwnedPackets)
      BY <2>2
  <2>4. Owned'
    <3>1. \/ deferred' = <<>> /\ replay' = rest \o deferred
          \/ deferred' = Append(deferred, p) /\ replay' = rest
          \/ deferred' = <<>> /\ replay' = rest \o Append(deferred, p)
        BY <2>0 DEF Defer, EndSync
    <3>2. <<>> \in Seq(OwnedPackets)
        OBVIOUS
    <3> QED BY <2>2, <2>3, <3>1, <3>2 DEF Owned
  <2>5. {syncPending', syncRequested', quests', created', questsShown'} \subseteq BOOLEAN
      BY <1>0, <2>0, <2>1 DEF Defer, EndSync, SyncCompletedQuests, RelayTypes
  <2>6. released' \subseteq Logins
      BY <1>0, <2>0 DEF Defer, RelayTypes
  <2> QED BY <1>0, <1>1, <2>1, <2>4, <2>5, <2>6 DEF RelayTypes
<1>2. CASE ~syncPending
  <2>0. Translate(p, rest)
      BY <1>2 DEF Handles
  <2>1. UNCHANGED <<syncPending, syncRequested, deferred, released>>
      BY <2>0 DEF Translate
  <2>2. replay' \in Seq(OwnedPackets)
    <3>1. [p EXCEPT !.parts = 1] \in OwnedPackets
          /\ [p EXCEPT !.parts = 1, !.no = @ + 1] \in OwnedPackets
        BY PiecesOwned
    <3>2. \A a, b \in OwnedPackets : <<a, b>> \o rest \in Seq(OwnedPackets)
        OBVIOUS
    <3>3. Expand(p, rest) \in Seq(OwnedPackets)
        BY <3>1, <3>2 DEF Expand
    <3> QED BY <2>0, <3>3 DEF Translate
  <2>3. /\ client' \in ClientStates /\ shown' \in [Logins -> Seq(Logins \X Nat)]
        /\ pendingInstance' \in Seq(Logins \X Nat) /\ relay' \in RelayStates
    <3>1. CASE p.kind = "world" /\ p.parts = 1
        BY <2>0, <3>1, SendInstanceTypes DEF Translate
    <3>2. CASE p.kind = "quests"
        BY <1>0, <2>0, <3>2 DEF Translate, RelayTypes
    <3>3. CASE p.kind \in {"refused", "logout", "list"}
        BY <1>0, <2>0, <3>3 DEF Translate, TellClient, RelayTypes, RelayStates, ClientStates
    <3>4. CASE ~(p.kind = "world" /\ p.parts = 1) /\ p.kind \notin {"quests", "refused", "logout", "list"}
        BY <1>0, <2>0, <3>4 DEF Translate, RelayTypes
    <3> QED BY <3>1, <3>2, <3>3, <3>4
  <2>4. {quests', created', questsShown'} \subseteq BOOLEAN
      BY <1>0, <2>0 DEF Translate, CreatePlayer, SyncCompletedQuests, RelayTypes
  <2> QED BY <1>0, <2>1, <2>2, <2>3, <2>4 DEF RelayTypes, Owned
<1> QED BY <1>1, <1>2

\* The handler of the realm connection counts a login before it registers it.
LEMMA HandlerTypesKept == TypeInv /\ Handler => TypeInv'
<1> SUFFICES ASSUME TypeInv, Handler PROVE TypeInv'
    OBVIOUS
<1> USE EntryBounds
        DEF TypeInv, clientVars, sessionVars, connVars, relayVars, realmVars, histVars
<1>0. /\ RelayTypes /\ HandlerTypes /\ ConnTypes /\ RealmTypes /\ Counted
      /\ <<>> \in Seq(Logins \X Nat)
    OBVIOUS
<1>1. CASE PlayerLogin
  <2>1. RelayTypes'
      BY <1>0, <1>1 DEF PlayerLogin, RelayTypes, Owned, ClientStates
  <2>2. HandlerTypes' /\ Counted'
      BY <1>0, <1>1 DEF PlayerLogin, HandlerTypes, HandlerStates, Counted, NoLogin
  <2>3. ConnTypes' /\ RealmTypes'
      BY <1>0, <1>1 DEF PlayerLogin, ConnTypes, RealmTypes
  <2> QED BY <2>1, <2>2, <2>3
<1>2. CASE PlayerLoginUnknown
    BY <1>0, <1>2 DEF PlayerLoginUnknown, RelayTypes, Owned, HandlerTypes, ConnTypes, RealmTypes, Counted
<1>3. CASE RegisterInstanceSession \/ WriteConnectTo
  <2>1. login \in Logins /\ login \in 0..MaxLogins
      BY <1>0, <1>3 DEF RegisterInstanceSession, WriteConnectTo, Counted, HandlerTypes, Logins, NoLogin
  <2>2. RelayTypes'
      BY <1>0, <1>3 DEF RegisterInstanceSession, WriteConnectTo, FailLogin, RelayTypes, Owned, ClientStates
  <2>3. HandlerTypes' /\ Counted'
      BY <1>0, <1>3, <2>1 DEF RegisterInstanceSession, Register, WriteConnectTo, FailLogin, HandlerTypes,
                              HandlerStates, Counted
  <2>4. ConnTypes' /\ RealmTypes'
      BY <1>0, <1>3, <2>1 DEF RegisterInstanceSession, WriteConnectTo, FailLogin, Disturb, ConnTypes,
                              RealmTypes
  <2> QED BY <2>2, <2>3, <2>4
<1>4. CASE ForwardLogin \/ ForwardRequest
  <2>1. RelayTypes' /\ HandlerTypes' /\ ConnTypes' /\ Counted'
      BY <1>0, <1>4 DEF ForwardLogin, ForwardRequest, LogoutRequest, EnumCharacters, RelayTypes, Owned,
                        HandlerTypes, HandlerStates, ConnTypes, Counted, ClientStates
  <2>2. RealmTypes'
    <3>1. PICK kind \in {"login", "query", "logout", "enum"} : toRealm' = Append(toRealm, kind)
        BY <1>4 DEF ForwardLogin, ForwardRequest, LogoutRequest, EnumCharacters, Request
    <3>2. toRealm' \in Seq({"login", "query", "logout", "enum"})
        BY <1>0, <3>1 DEF RealmTypes
    <3> QED BY <1>0, <1>4, <3>2 DEF ForwardLogin, ForwardRequest, RealmTypes
  <2> QED BY <2>1, <2>2
<1> QED BY <1>1, <1>2, <1>3, <1>4 DEF Handler

\* The goroutine of an instance connection, and the end of its connection.
LEMMA ConnTypesKept ==
    ASSUME TypeInv, NEW c \in Conns, Connect(c) \/ Instance(c) \/ Break(c)
    PROVE  TypeInv'
<1> USE EntryBounds
        DEF TypeInv, clientVars, sessionVars, connVars, relayVars, realmVars, histVars
<1>0. RelayTypes /\ HandlerTypes /\ ConnTypes /\ RealmTypes /\ Counted
    OBVIOUS
<1>1. CASE Connect(c)
  <2>1. /\ stage' = [stage EXCEPT ![c] = "new"] /\ presents' = [presents EXCEPT ![c] = address]
        /\ UNCHANGED <<broken, clientVars, login, handler, sessionVars, relayVars, realmVars, histVars>>
      BY <1>1 DEF Connect, Go
  <2>2. RelayTypes' /\ HandlerTypes' /\ RealmTypes' /\ Counted'
      BY <1>0, <2>1 DEF RelayTypes, Owned, HandlerTypes, RealmTypes, Counted
  <2>3. ConnTypes'
      BY <1>0, <2>1 DEF ConnTypes, HandlerTypes, Stages
  <2> QED BY <2>2, <2>3
<1>2. CASE LookupInstanceSession(c) \/ HandshakeFails(c)
  <2>1. /\ \E to \in {"found", "ended"} : stage' = [stage EXCEPT ![c] = to]
        /\ UNCHANGED <<presents, broken, clientVars, login, handler, sessionVars, relayVars, realmVars,
                       histVars>>
      BY <1>2 DEF LookupInstanceSession, HandshakeFails, Go
  <2>2. RelayTypes' /\ HandlerTypes' /\ RealmTypes' /\ Counted'
      BY <1>0, <2>1 DEF RelayTypes, Owned, HandlerTypes, RealmTypes, Counted
  <2>3. ConnTypes'
      BY <1>0, <2>1 DEF ConnTypes, Stages
  <2> QED BY <2>2, <2>3
<1>3. CASE ClaimInstanceSession(c)
    BY <1>0, <1>3 DEF ClaimInstanceSession, Claim, Go, RelayTypes, Owned, HandlerTypes,
                      ConnTypes, RealmTypes, Counted, Stages
<1>4. CASE ClearInstance(c)
    BY <1>0, <1>4 DEF ClearInstance, Detach, Go, RelayTypes, Owned, HandlerTypes,
                      ConnTypes, RealmTypes, Counted, Stages
<1>5. CASE Break(c)
    BY <1>0, <1>5 DEF Break, Breaks, RelayTypes, Owned, HandlerTypes,
                      ConnTypes, RealmTypes, Counted, ClientStates
<1>6. CASE ActivateInstance(c)
  <2>1. PICK k \in 0..Len(pendingInstance) :
            /\ UNCHANGED <<broken, disturbed>> \/ Breaks(c)
            /\ Shows(c, SubSeq(pendingInstance, 1, k))
            /\ Flush(k)
      BY <1>6 DEF ActivateInstance
  <2>2. pendingInstance \in Seq(Logins \X Nat)
      BY <1>0 DEF RelayTypes
  <2>3. SubSeq(pendingInstance, 1, k) \in Seq(Logins \X Nat)
      BY <2>2
  <2>4. client' \in ClientStates /\ shown' \in [Logins -> Seq(Logins \X Nat)]
      BY <2>1, <2>3, ShowsTypes
  <2>5. pendingInstance' \in Seq(Logins \X Nat)
      BY <2>1, <2>2 DEF Flush
  <2>6. RelayTypes'
      BY <1>0, <1>6, <2>4, <2>5 DEF ActivateInstance, RelayTypes, Owned
  <2>7. HandlerTypes' /\ Counted'
      BY <1>0, <1>6 DEF ActivateInstance, HandlerTypes, Counted
  <2>8. ConnTypes' /\ RealmTypes'
      BY <1>0, <1>6, <2>1 DEF ActivateInstance, Breaks, Go, ConnTypes, RealmTypes, Stages
  <2> QED BY <2>6, <2>7, <2>8
<1> QED BY <1>1, <1>2, <1>3, <1>4, <1>5, <1>6 DEF Instance

\* Whoever hands the relay a packet of a known login.
LEMMA HandlesKeeps ==
    ASSUME TypeInv, NEW p \in OwnedPackets, NEW rest \in Seq(OwnedPackets), Handles(p, rest),
           RealmTypes'
    PROVE  TypeInv'
<1>1. RelayTypes' /\ (syncPending' => syncPending)
    BY HandlesTypes
<1>2. HandlerTypes' /\ ConnTypes' /\ Counted'
    BY <1>1 DEF TypeInv, Handles, HandlerTypes, ConnTypes, Counted, connVars
<1> QED BY <1>1, <1>2 DEF TypeInv

\* The relay replays packets it was handed before, asks, or ends a logout.
LEMMA RelayTypesKept == TypeInv /\ Relay => TypeInv'
<1> SUFFICES ASSUME TypeInv, Relay PROVE TypeInv'
    OBVIOUS
<1>0. RelayTypes /\ HandlerTypes /\ ConnTypes /\ RealmTypes /\ Counted
    BY DEF TypeInv
<1>1. CASE Replay
  <2>1. Head(replay) \in OwnedPackets /\ Tail(replay) \in Seq(OwnedPackets)
      BY <1>0, <1>1 DEF Replay, RelayTypes, Owned
  <2>2. RealmTypes'
      BY <1>0, <1>1 DEF Replay, RealmTypes, realmVars
  <2> QED BY <1>1, <2>1, <2>2, HandlesKeeps DEF Replay
<1>2. CASE WriteQuery
  <2>1. /\ relay' = "reading" /\ toRealm' = Append(toRealm, "query")
        /\ UNCHANGED <<client, address, login, handler, keys, instanceKey, instanceWorld, pendingInstance,
                       syncPending, syncRequested, quests, created, stage, presents, broken, deferred,
                       replay, inWorld, strays, sent, shown, questsShown, released, disturbed>>
      BY <1>2 DEF WriteQuery, Request, clientVars, sessionVars, connVars, histVars
  <2>2. toRealm' \in Seq({"login", "query", "logout", "enum"})
      BY <1>0, <2>1 DEF RealmTypes
  <2>3. RelayTypes' /\ HandlerTypes'
      BY <1>0, <2>1 DEF RelayTypes, RelayStates, Owned, HandlerTypes
  <2>4. ConnTypes' /\ RealmTypes' /\ Counted'
      BY <1>0, <2>1, <2>2 DEF ConnTypes, RealmTypes, Counted
  <2> QED BY <2>3, <2>4 DEF TypeInv
<1>3. CASE LogoutComplete
    BY <1>0, <1>3 DEF TypeInv, LogoutComplete, RelayTypes, RelayStates, Owned, HandlerTypes, ConnTypes,
        RealmTypes, Counted, clientVars, realmVars, histVars
<1> QED BY <1>1, <1>2, <1>3 DEF Relay

\* What the realm may send: a packet of the stream names its login.
LEMMA PacketOwned ==
    ASSUME NEW kind \in Kinds, NEW n \in Logins \cup {NoLogin}, NEW no \in Nat, NEW parts \in 1..2,
           kind = "world" => n # NoLogin, kind # "world" => parts = 1
    PROVE  Packet(kind, n, no, parts) \in OwnedPackets
<1>1. Packet(kind, n, no, parts) \in RealmPackets
    BY DEF Packet, RealmPackets
<1>2. /\ Packet(kind, n, no, parts).kind = kind /\ Packet(kind, n, no, parts).login = n
      /\ Packet(kind, n, no, parts).parts = parts
    BY DEF Packet
<1> QED BY <1>1, <1>2 DEF OwnedPackets

\* An answer of the realm, which is no packet of the stream.
LEMMA AnswersKeeps ==
    ASSUME TypeInv, NEW kind \in Kinds \ {"world"}, Answers(kind), RealmTypes'
    PROVE  TypeInv'
<1>1. inWorld \in Logins \cup {NoLogin}
    BY EntryBounds DEF TypeInv, RelayTypes, HandlerTypes, ConnTypes, RealmTypes, Logins, NoLogin
<1>2. Packet(kind, inWorld, 0, 1) \in OwnedPackets
    BY <1>1, PacketOwned
<1>3. <<>> \in Seq(OwnedPackets)
    OBVIOUS
<1> QED BY <1>2, <1>3, HandlesKeeps DEF Answers

\* The realm's packets, put by or translated as they arrive.
LEMMA RealmTypesKept == TypeInv /\ (RealmHandles \/ RealmSends \/ RealmStrays) => TypeInv'
<1> SUFFICES ASSUME TypeInv, RealmHandles \/ RealmSends \/ RealmStrays PROVE TypeInv'
    OBVIOUS
<1>0. RelayTypes /\ HandlerTypes /\ ConnTypes /\ RealmTypes /\ Counted
    BY DEF TypeInv
<1>1. CASE RealmHandles
  <2>1. RealmTypes'
    <3>1. Tail(toRealm) \in Seq({"login", "query", "logout", "enum"})
      <4>1. toRealm # <<>> /\ toRealm \in Seq({"login", "query", "logout", "enum"})
          BY <1>0, <1>1 DEF RealmTypes, RealmHandles
      <4> QED BY <4>1
    <3>2. inWorld' \in 0..MaxLogins /\ disturbed' \subseteq 0..MaxLogins
      <4>1. inWorld' \in {inWorld, login, NoLogin}
          BY <1>1 DEF RealmHandles
      <4>2. disturbed' \in {disturbed, disturbed \cup {login}}
          BY <1>1 DEF RealmHandles, Disturb, Silent, histVars
      <4> QED BY <1>0, <4>1, <4>2, EntryBounds DEF RealmTypes, HandlerTypes, NoLogin
    <3> QED BY <1>0, <1>1, <3>1, <3>2 DEF RealmHandles, RealmTypes
  <2>2. CASE Silent
      BY <1>0, <2>1, <2>2 DEF TypeInv, Silent, RelayTypes, Owned, HandlerTypes, ConnTypes, Counted,
          clientVars, sessionVars, connVars, relayVars, histVars
  <2>3. CASE \E kind \in {"refused", "quests", "logout", "list"} : Answers(kind)
      BY <2>1, <2>3, AnswersKeeps DEF Kinds
  <2> QED BY <1>1, <2>2, <2>3 DEF RealmHandles
<1>2. CASE RealmSends
  <2> DEFINE more(parts) == [i \in 1..parts |-> <<inWorld, Len(sent[inWorld]) + 1 + i - 1>>]
  <2>1. PICK parts \in 1..2 :
            /\ sent' = [sent EXCEPT ![inWorld] = sent[inWorld] \o more(parts)]
            /\ Handles(Packet("world", inWorld, Len(sent[inWorld]) + 1, parts), <<>>)
      BY <1>2 DEF RealmSends
  <2>2. inWorld \in Logins /\ inWorld # NoLogin
      BY <1>0, <1>2, EntryBounds DEF RealmSends, RealmTypes, Logins, NoLogin
  <2>3. Len(sent[inWorld]) \in Nat /\ sent[inWorld] \in Seq(Logins \X Nat)
      BY <1>0, <2>2 DEF RealmTypes
  <2>4. more(parts) \in Seq(Logins \X Nat)
    <3>1. \A i \in 1..parts : <<inWorld, Len(sent[inWorld]) + 1 + i - 1>> \in Logins \X Nat
        BY <2>2, <2>3
    <3>2. parts \in Nat
        OBVIOUS
    <3> QED BY <3>1, <3>2
  <2> HIDE DEF more
  <2>5. sent[inWorld] \o more(parts) \in Seq(Logins \X Nat)
      BY <2>3, <2>4
  <2>6. RealmTypes'
      BY <1>0, <1>2, <2>1, <2>5 DEF RealmSends, RealmTypes
  <2>7. Packet("world", inWorld, Len(sent[inWorld]) + 1, parts) \in OwnedPackets
      BY <2>2, <2>3, PacketOwned DEF Kinds
  <2>8. <<>> \in Seq(OwnedPackets)
      OBVIOUS
  <2> QED BY <2>1, <2>6, <2>7, <2>8, HandlesKeeps
<1>3. CASE RealmStrays
  <2>1. RealmTypes'
      BY <1>0, <1>3, EntryBounds DEF RealmStrays, RealmTypes, HandlerTypes, Disturb
  <2> QED BY <1>3, <2>1, AnswersKeeps DEF RealmStrays, Kinds
<1> QED BY <1>1, <1>2, <1>3

\* Every step keeps the types.
LEMMA TypeNext == TypeInv /\ [Next]_vars => TypeInv'
<1> SUFFICES ASSUME TypeInv, [Next]_vars PROVE TypeInv'
    OBVIOUS
<1>1. CASE Handler
    BY <1>1, HandlerTypesKept
<1>2. CASE \E c \in Conns : Connect(c) \/ Instance(c) \/ Break(c)
    BY <1>2, ConnTypesKept
<1>3. CASE Relay \/ RealmHandles \/ RealmSends \/ RealmStrays
    BY <1>3, RelayTypesKept, RealmTypesKept
<1>4. CASE UNCHANGED vars
    BY <1>4 DEF TypeInv, vars, RelayTypes, Owned, HandlerTypes, ConnTypes, RealmTypes, Counted, clientVars,
        sessionVars, connVars, relayVars, realmVars, histVars
<1> QED BY <1>1, <1>2, <1>3, <1>4 DEF Next

\* Every variable keeps its type, whatever the realm sends and whenever.
THEOREM TypeCorrect == Spec => []TypeOK
<1>1. TypeInv => TypeOK
    BY TypeInvGivesTypes
<1> QED BY <1>1, TypeInit, TypeNext, PTL DEF Spec
=============================================================================
