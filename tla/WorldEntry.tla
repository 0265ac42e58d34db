----------------------------- MODULE WorldEntry -----------------------------
(***************************************************************************)
(* How a character enters and leaves the world through the proxy: the 3.4.3 *)
(* client logs in on its realm connection, is sent to a second, instance    *)
(* connection by a key, and must see there, in order, what the 3.3.5 realm  *)
(* sends from the moment it has the login, although the connection may not  *)
(* be there yet and although the relay holds every packet back until the    *)
(* realm has answered a query for the completed quests.                     *)
(*                                                                          *)
(* The goroutines of one session are "handler" (handleRealmWorld, one for   *)
(* the realm connection), "relay" (relayLegacyWorld) and one per instance   *)
(* connection (handleInstanceWorld).  Each of their locked sections, and    *)
(* each write to a peer that another goroutine can overtake, is a step.     *)
(* Logins are numbered; a login's number also stands for the random key     *)
(* that registerInstanceSession draws for it, unique in instanceSessions.   *)
(***************************************************************************)
EXTENDS Naturals, Sequences, FiniteSets

CONSTANTS
    MaxLogins,   \* bound: how often the client logs in
    MaxAttempts, \* bound: instance connections the client opens for a login
    MaxPackets,  \* bound: packets the realm sends to one login
    MaxStrays,   \* bound: packets the realm sends while nobody is logged in
    DeferLimit,  \* maxCompletedQuestLoginPackets, 4096 in the code
    MayRefuse,   \* may a login fail, at the proxy or at the realm
    MayBreak     \* may an instance connection break

ASSUME EntryBounds ==
    /\ MaxLogins \in Nat \ {0} /\ MaxAttempts \in Nat \ {0}
    /\ MaxPackets \in Nat /\ MaxStrays \in Nat /\ DeferLimit \in Nat \ {0, 1}
ASSUME EntryFaults == MayRefuse \in BOOLEAN /\ MayBreak \in BOOLEAN

Logins == 1..MaxLogins
NoLogin == 0
Conns == 1..MaxLogins * MaxAttempts
NoConn == 0

\* The realm's packets.  A "world" packet is one of a login's numbered ones:
\* parts is 2 when it carries two movements (opcode 0x51E), 1 otherwise.
Kinds == {"world", "quests", "refused", "logout", "list", "stray"}
RealmPackets == [kind : Kinds, login : Logins \cup {NoLogin}, no : Nat, parts : 1..2]
PlayerNo == 2   \* the packet that creates the player, after LOGIN_VERIFY_WORLD

VARIABLES
    client,      \* what the client does, see ClientStates
    address,     \* the key of the last CONNECT_TO the client got
    login,       \* how many logins the handler has begun
    handler,     \* where the handler is in PLAYER_LOGIN
    keys,        \* Server.instanceSessions, for this session
    instanceKey, \* proxySession.instanceKey
    stage,       \* where the goroutine of an instance connection is
    presents,    \* the key an instance connection presents
    broken,      \* instance connections whose writes and reads fail
    instanceWorld, pendingInstance,  \* proxySession, in packets of a login
    syncPending, syncRequested,      \* completedQuestSyncPending, -Requested
    quests,      \* completedQuestBlocks holds the realm's answer
    created,     \* activePlayerCreated
    relay,       \* where the relay is
    deferred,    \* deferredLoginPackets
    replay,      \* replayPackets
    toRealm,     \* requests written to the realm, oldest first
    inWorld,     \* the login the realm has in the world
    strays,      \* packets the realm sent while nobody was logged in
    sent,        \* history, by login: the packets the realm sent to it
    shown,       \* history, by login: what was written to its connections
    questsShown, \* history: the player the client was sent has its quests
    released,    \* history: logins whose packets the deferral limit released
    disturbed    \* history: logins that met a stray packet, a refusal or a
                 \* broken connection

sessionVars == <<keys, instanceKey, instanceWorld, pendingInstance,
                 syncPending, syncRequested, quests, created>>
connVars == <<stage, presents, broken>>
relayVars == <<relay, deferred, replay>>
realmVars == <<toRealm, inWorld, strays, sent>>
clientVars == <<client, address>>
histVars == <<shown, questsShown, released, disturbed>>
vars == <<clientVars, login, handler, sessionVars, connVars, relayVars, realmVars, histVars>>

ClientStates == {"list", "entering", "world", "leaving", "returning", "waiting", "gone"}
HandlerStates == {"idle", "register", "connect", "forward"}
Stages == {"none", "new", "found", "claimed", "active", "ended"}
RelayStates == {"reading", "query", "logout", "stopped"}

Init ==
    /\ client = "list" /\ address = NoLogin
    /\ login = 0 /\ handler = "idle"
    /\ keys = {} /\ instanceKey = NoLogin
    /\ stage = [c \in Conns |-> "none"]
    /\ presents = [c \in Conns |-> NoLogin]
    /\ broken = {}
    /\ instanceWorld = NoConn /\ pendingInstance = <<>>
    /\ syncPending = FALSE /\ syncRequested = FALSE
    /\ quests = FALSE /\ created = FALSE
    /\ relay = "reading" /\ deferred = <<>> /\ replay = <<>>
    /\ toRealm = <<>> /\ inWorld = NoLogin /\ strays = 0
    /\ sent = [n \in Logins |-> <<>>]
    /\ shown = [n \in Logins |-> <<>>]
    /\ questsShown = FALSE /\ released = {} /\ disturbed = {}

Disturb == disturbed' = disturbed \cup {login}
Request(kind) == toRealm' = Append(toRealm, kind)

-----------------------------------------------------------------------------
(* The realm connection: CMSG_PLAYER_LOGIN and what follows its lock.       *)

\* The locked section for a character of the list.  It drops what waits for
\* the instance connection, and asks the relay to fetch the completed quests.
PlayerLogin ==
    /\ client = "list" /\ handler = "idle" /\ login < MaxLogins
    /\ client' = "entering"
    /\ login' = login + 1
    /\ handler' = "register"
    /\ pendingInstance' = <<>>
    /\ syncPending' = TRUE /\ syncRequested' = FALSE
    /\ quests' = FALSE /\ created' = FALSE
    /\ questsShown' = FALSE
    /\ UNCHANGED <<address, keys, instanceKey, instanceWorld, connVars, relayVars, realmVars,
                   shown, released, disturbed>>

\* The character is not in the list (any more): only the queue is dropped.
PlayerLoginUnknown ==
    /\ client = "list" /\ handler = "idle" /\ MayRefuse
    /\ pendingInstance' = <<>>
    /\ UNCHANGED <<clientVars, login, handler, keys, instanceKey, instanceWorld, syncPending,
                   syncRequested, quests, created, connVars, relayVars, realmVars, histVars>>

\* The client is sent CHARACTER_LOGIN_FAILED: no key could be drawn, or there is
\* no endpoint to connect to.
FailLogin == MayRefuse /\ handler' = "idle" /\ client' = "list" /\ Disturb

\* registerInstanceSession: the session has one key at a time.
Register == keys' = (keys \ {instanceKey}) \cup {login} /\ instanceKey' = login

RegisterInstanceSession ==
    /\ handler = "register"
    /\ \/ Register /\ handler' = "connect" /\ UNCHANGED <<client, disturbed>>
       \/ FailLogin /\ UNCHANGED <<keys, instanceKey>>
    /\ UNCHANGED <<address, login, instanceWorld, pendingInstance, syncPending, syncRequested,
                   quests, created, connVars, relayVars, realmVars, shown, questsShown, released>>

\* SMSG_CONNECT_TO reaches the client before the login reaches the realm.
WriteConnectTo ==
    /\ handler = "connect"
    /\ \/ address' = login /\ handler' = "forward" /\ UNCHANGED <<client, disturbed>>
       \/ FailLogin /\ UNCHANGED address     \* the key stays registered
    /\ UNCHANGED <<login, sessionVars, connVars, relayVars, realmVars, shown, questsShown, released>>

ForwardLogin ==
    /\ handler = "forward"
    /\ Request("login") /\ handler' = "idle"
    /\ UNCHANGED <<clientVars, login, sessionVars, connVars, relayVars, inWorld, strays, sent,
                   histVars>>

\* CMSG_LOGOUT_REQUEST and CMSG_ENUM_CHARACTERS are forwarded as they are.
LogoutRequest == client = "world" /\ client' = "leaving" /\ Request("logout")
EnumCharacters == client = "returning" /\ client' = "waiting" /\ Request("enum")

ForwardRequest ==
    /\ handler = "idle"
    /\ LogoutRequest \/ EnumCharacters
    /\ UNCHANGED <<address, login, handler, sessionVars, connVars, relayVars, inWorld, strays,
                   sent, histVars>>

Handler == PlayerLogin \/ PlayerLoginUnknown \/ RegisterInstanceSession \/ WriteConnectTo
              \/ ForwardLogin \/ ForwardRequest

-----------------------------------------------------------------------------
(* An instance connection: handleInstanceWorld.                             *)

Go(c, from, to) == stage[c] = from /\ stage' = [stage EXCEPT ![c] = to]

\* The client answers CONNECT_TO, again when an attempt stalls.
Connect(c) ==
    /\ client = "entering" /\ address = login
    /\ Cardinality({d \in Conns : presents[d] = address}) < MaxAttempts
    /\ \A d \in 1..c - 1 : stage[d] # "none"
    /\ Go(c, "none", "new")
    /\ presents' = [presents EXCEPT ![c] = address]
    /\ UNCHANGED <<clientVars, login, handler, sessionVars, broken, relayVars, realmVars, histVars>>

LookupInstanceSession(c) ==
    /\ Go(c, "new", IF presents[c] \in keys THEN "found" ELSE "ended")
    /\ UNCHANGED <<clientVars, login, handler, sessionVars, presents, broken, relayVars, realmVars,
                   histVars>>

\* claimInstanceSession: of two connections with one key, the second is refused.
\* Mutant: the key is deleted without looking whether it is still there.
ClaimUnchecked(c) == keys' = keys \ {presents[c]} /\ Go(c, "found", "claimed")
Claim(c) ==
    /\ keys' = keys \ {presents[c]}
    /\ Go(c, "found", IF presents[c] \in keys THEN "claimed" ELSE "ended")

ClaimInstanceSession(c) ==
    /\ Claim(c)
    /\ UNCHANGED <<clientVars, login, handler, instanceKey, instanceWorld, pendingInstance,
                   syncPending, syncRequested, quests, created, presents, broken, relayVars,
                   realmVars, histVars>>

\* Packets are written to connection c, of the login whose key it presented.
Shows(c, packets) ==
    /\ shown' = [shown EXCEPT ![presents[c]] = @ \o packets]
    /\ client' = IF /\ client = "entering"
                    /\ \E i \in 1..Len(packets) : packets[i] = <<login, PlayerNo>>
                 THEN "world" ELSE client

\* A broken connection's writes fail.  It may break between two packets of a
\* flush; the client leaves with it.
Breaks(c) ==
    /\ broken' = broken \cup {c}
    /\ disturbed' = disturbed \cup {presents[c]}

\* activateInstance, after the encryption handshake: what waited is written
\* under the lock.  When a write fails the whole queue stays, the written part
\* included, and the goroutine goes on to clearInstance.
\* Mutant: what was written stays in the queue.
FlushKeeps(k) == UNCHANGED pendingInstance
Flush(k) == pendingInstance' = IF k = Len(pendingInstance) THEN <<>> ELSE pendingInstance

ActivateInstance(c) ==
    /\ Go(c, "claimed", "active")
    /\ instanceWorld' = c
    /\ \E k \in 0..Len(pendingInstance) :
          /\ IF k = Len(pendingInstance)
             THEN (c \in broken => k = 0) /\ UNCHANGED <<broken, disturbed>>
             ELSE (c \in broken \/ MayBreak) /\ (c \in broken => k = 0) /\ Breaks(c)
          /\ Shows(c, SubSeq(pendingInstance, 1, k))
          /\ Flush(k)
    /\ UNCHANGED <<address, login, handler, keys, instanceKey, syncPending, syncRequested, quests,
                   created, presents, relayVars, realmVars, questsShown, released>>

\* The handshake fails.
HandshakeFails(c) ==
    /\ c \in broken /\ Go(c, "claimed", "ended")
    /\ UNCHANGED <<clientVars, login, handler, sessionVars, presents, broken, relayVars, realmVars,
                   histVars>>

\* clearInstance, when the connection can no longer be read: a newer
\* connection stays attached.
\* Mutant: whichever connection is attached is detached.
DetachAny(c) == instanceWorld' = NoConn
Detach(c) == instanceWorld' = IF instanceWorld = c THEN NoConn ELSE instanceWorld

ClearInstance(c) ==
    /\ c \in broken /\ Go(c, "active", "ended")
    /\ Detach(c)
    /\ UNCHANGED <<clientVars, login, handler, keys, instanceKey, pendingInstance, syncPending,
                   syncRequested, quests, created, presents, broken, relayVars, realmVars, histVars>>

\* The network or the client ends a connection.
Break(c) ==
    /\ MayBreak /\ stage[c] \notin {"none", "ended"} /\ c \notin broken
    /\ Breaks(c)
    /\ client' = IF presents[c] = login THEN "gone" ELSE client
    /\ UNCHANGED <<address, login, handler, sessionVars, stage, presents, relayVars, realmVars,
                   shown, questsShown, released>>

Instance(c) ==
    \/ LookupInstanceSession(c) \/ ClaimInstanceSession(c) \/ ActivateInstance(c)
    \/ HandshakeFails(c) \/ ClearInstance(c)

-----------------------------------------------------------------------------
(* The relay.  It takes a packet to replay or, without one, the realm's     *)
(* next; sending and handling a packet of the realm are one step.           *)

\* sendInstance: the packet waits for a connection that is not there yet.  A
\* write that fails ends the relay.
SendInstance(p) ==
    \/ /\ instanceWorld = NoConn
       /\ pendingInstance' = Append(pendingInstance, <<p.login, p.no>>)
       /\ relay' = "reading"
       /\ UNCHANGED <<shown, client>>
    \/ /\ instanceWorld \notin broken \cup {NoConn}
       /\ Shows(instanceWorld, <<<<p.login, p.no>>>>)
       /\ relay' = "reading"
       /\ UNCHANGED pendingInstance
    \/ /\ instanceWorld \in broken
       /\ relay' = "stopped"
       /\ UNCHANGED <<pendingInstance, shown, client>>

\* Opcode 0x51E: the movements come ahead of everything still to replay.
\* Mutant: they come behind it.
ExpandBehind(p, rest) == rest \o <<[p EXCEPT !.parts = 1], [p EXCEPT !.parts = 1, !.no = @ + 1]>>
\* Mutant: the second movement is what two movements less leave.
ExpandMiscounted(p, rest) ==
    <<[p EXCEPT !.parts = 1], [p EXCEPT !.parts = @ - 2, !.no = @ + 1]>> \o rest
Expand(p, rest) == <<[p EXCEPT !.parts = 1], [p EXCEPT !.parts = 1, !.no = @ + 1]>> \o rest

\* The packet that creates the player carries the completed quests known now;
\* finishActivePlayerLogin follows it.
CreatePlayer == created' = TRUE /\ questsShown' = quests

\* replaceCompletedQuests: a player who is there gets an update.
\* Mutant: the answer is only stored.
SyncSilently == quests' = TRUE /\ UNCHANGED questsShown
SyncCompletedQuests == quests' = TRUE /\ questsShown' = (questsShown \/ created)

TellClient(from, to) == client' = IF client \in from THEN to ELSE client

Translate(p, rest) ==
    /\ replay' = IF p.parts = 2 THEN Expand(p, rest) ELSE rest
    /\ CASE p.kind = "world" /\ p.parts = 1 ->
              /\ SendInstance(p)
              /\ IF p.no = PlayerNo THEN CreatePlayer ELSE UNCHANGED <<created, questsShown>>
              /\ UNCHANGED quests
         [] p.kind = "quests" ->
              /\ SyncCompletedQuests
              /\ UNCHANGED <<created, client, shown, pendingInstance, relay>>
         [] p.kind \in {"refused", "logout", "list"} ->
              /\ CASE p.kind = "refused" -> TellClient({"entering"}, "list")
                   [] p.kind = "logout" -> TellClient({"leaving"}, "returning")
                   [] p.kind = "list" -> TellClient({"waiting"}, "list")
              /\ relay' = IF p.kind = "logout" THEN "logout" ELSE "reading"
              /\ UNCHANGED <<created, quests, questsShown, shown, pendingInstance>>
         [] OTHER -> UNCHANGED <<created, quests, questsShown, client, shown, pendingInstance, relay>>
    /\ UNCHANGED <<syncPending, syncRequested, deferred, released>>

\* The wait for the completed quests ends; the deferred packets come behind
\* those still to replay.
\* Mutant: the wait goes on after the packets were released.
EndSyncHalf(packets) == deferred' = <<>> /\ replay' = packets /\ UNCHANGED <<syncPending, syncRequested>>
EndSync(packets) ==
    deferred' = <<>> /\ replay' = packets /\ syncPending' = FALSE /\ syncRequested' = FALSE

\* While the completed quests are awaited, packets are put by; the first one
\* makes the relay ask for them, and so many of them end the wait.
Defer(p, rest) ==
    /\ relay' = IF syncRequested THEN "reading" ELSE "query"
    /\ \/ /\ p.kind = "quests"
          /\ SyncCompletedQuests
          /\ EndSync(rest \o deferred)
          /\ UNCHANGED released
       \/ /\ p.kind # "quests" /\ Len(deferred) + 1 < DeferLimit
          /\ deferred' = Append(deferred, p)
          /\ replay' = rest
          /\ syncRequested' = TRUE
          /\ UNCHANGED <<syncPending, quests, questsShown, released>>
       \/ /\ p.kind # "quests" /\ Len(deferred) + 1 >= DeferLimit
          /\ EndSync(rest \o Append(deferred, p))
          /\ released' = released \cup {login}
          /\ UNCHANGED <<quests, questsShown>>
    /\ UNCHANGED <<created, client, shown, pendingInstance>>

Handles(p, rest) ==
    /\ relay = "reading"
    /\ IF syncPending THEN Defer(p, rest) ELSE Translate(p, rest)
    /\ UNCHANGED <<address, login, handler, keys, instanceKey, instanceWorld, connVars>>

Replay ==
    /\ replay # <<>>
    /\ Handles(Head(replay), Tail(replay))
    /\ UNCHANGED <<realmVars, disturbed>>

WriteQuery ==
    /\ relay = "query" /\ relay' = "reading"
    /\ Request("query")
    /\ UNCHANGED <<clientVars, login, handler, sessionVars, connVars, deferred, replay, inWorld,
                   strays, sent, histVars>>

\* The locked section of LOGOUT_COMPLETE, after it was written to the client:
\* resetCharacterSessionLocked, and the instance connection is closed.
LogoutComplete ==
    /\ relay = "logout" /\ relay' = "reading"
    /\ instanceWorld' = NoConn
    /\ broken' = broken \cup ({instanceWorld} \ {NoConn})
    /\ syncPending' = FALSE /\ syncRequested' = FALSE
    /\ quests' = FALSE /\ created' = FALSE
    /\ UNCHANGED <<clientVars, login, handler, keys, instanceKey, pendingInstance, stage, presents,
                   deferred, replay, realmVars, histVars>>

Relay == Replay \/ WriteQuery \/ LogoutComplete

-----------------------------------------------------------------------------
(* The realm (external).  It handles requests in order, lets a login in or  *)
(* refuses it, answers the query for completed quests only to a character   *)
(* in the world, and sends to a login its packets from then on.             *)

Packet(kind, n, no, parts) == [kind |-> kind, login |-> n, no |-> no, parts |-> parts]
Answers(kind) == replay = <<>> /\ Handles(Packet(kind, inWorld, 0, 1), <<>>)
Silent == UNCHANGED <<clientVars, login, handler, sessionVars, connVars, relayVars, histVars>>

RealmHandles ==
    /\ toRealm # <<>> /\ toRealm' = Tail(toRealm)
    /\ \/ Head(toRealm) = "login" /\ inWorld' = login /\ Silent
       \/ Head(toRealm) = "login" /\ MayRefuse /\ Answers("refused") /\ Disturb /\ UNCHANGED inWorld
       \/ /\ Head(toRealm) = "query"
          /\ IF inWorld # NoLogin THEN Answers("quests") /\ UNCHANGED disturbed ELSE Silent
          /\ UNCHANGED inWorld
       \/ Head(toRealm) = "logout" /\ Answers("logout") /\ inWorld' = NoLogin /\ UNCHANGED disturbed
       \/ Head(toRealm) = "enum" /\ Answers("list") /\ UNCHANGED <<inWorld, disturbed>>
    /\ UNCHANGED <<strays, sent>>

RealmSends ==
    /\ inWorld # NoLogin /\ replay = <<>>
    /\ \E parts \in 1..2 :
          LET no == Len(sent[inWorld]) + 1
          IN  /\ no + parts - 1 <= MaxPackets
              /\ parts = 2 => no > PlayerNo
              /\ sent' = [sent EXCEPT ![inWorld] = @ \o [i \in 1..parts |-> <<inWorld, no + i - 1>>]]
              /\ Handles(Packet("world", inWorld, no, parts), <<>>)
    /\ UNCHANGED <<toRealm, inWorld, strays, disturbed>>

RealmStrays ==
    /\ inWorld = NoLogin /\ strays < MaxStrays /\ strays' = strays + 1
    /\ Answers("stray") /\ Disturb
    /\ UNCHANGED <<toRealm, inWorld, sent>>

Next ==
    \/ Handler
    \/ \E c \in Conns : Connect(c) \/ Instance(c) \/ Break(c)
    \/ Relay
    \/ RealmHandles \/ RealmSends \/ RealmStrays

Spec == Init /\ [][Next]_vars

\* The proxy's goroutines run, the realm handles requests and sends what a
\* login is sent, and the client answers CONNECT_TO.  Nothing else is owed.
Fairness ==
    /\ WF_vars(RegisterInstanceSession \/ WriteConnectTo \/ ForwardLogin)
    /\ WF_vars(Relay) /\ WF_vars(RealmHandles) /\ WF_vars(RealmSends)
    /\ WF_vars(\E c \in Conns : Connect(c))
    /\ \A c \in Conns : WF_vars(Instance(c))

FairSpec == Spec /\ Fairness

-----------------------------------------------------------------------------
(* Properties.                                                              *)

\* Every variable has its type.
TypeOK ==
    /\ client \in ClientStates /\ address \in 0..MaxLogins
    /\ login \in 0..MaxLogins /\ handler \in HandlerStates
    /\ keys \subseteq Logins /\ instanceKey \in 0..MaxLogins
    /\ stage \in [Conns -> Stages] /\ presents \in [Conns -> 0..MaxLogins]
    /\ broken \subseteq Conns /\ instanceWorld \in Conns \cup {NoConn}
    /\ pendingInstance \in Seq(Logins \X Nat)
    /\ {syncPending, syncRequested, quests, created, questsShown} \subseteq BOOLEAN
    /\ relay \in RelayStates
    /\ deferred \in Seq(RealmPackets) /\ replay \in Seq(RealmPackets)
    /\ toRealm \in Seq({"login", "query", "logout", "enum"})
    /\ inWorld \in 0..MaxLogins /\ strays \in 0..MaxStrays
    /\ sent \in [Logins -> Seq(Logins \X Nat)] /\ shown \in [Logins -> Seq(Logins \X Nat)]
    /\ released \subseteq Logins /\ disturbed \subseteq 0..MaxLogins

\* The connections of a login are shown the packets the realm sent to that
\* login, in order and once, whenever they attach and whatever was deferred.
Stream == INSTANCE LoginStream
StreamHonoured == Stream!StreamSpec

\* Nothing is lost on the way: what a login was sent was shown to it, or waits
\* in pendingInstance, in the packets to replay or in the deferred ones, in
\* that order, unless a write failed.
Numbers(packets) ==
    LET Parts(p) == [i \in 1..p.parts |-> <<p.login, p.no + i - 1>>]
        f[k \in 0..Len(packets)] ==
            IF k = 0 THEN <<>>
            ELSE f[k - 1] \o IF packets[k].kind = "world" THEN Parts(packets[k]) ELSE <<>>
    IN  f[Len(packets)]
NothingLost ==
    inWorld # NoLogin /\ inWorld \notin disturbed =>
        sent[inWorld] = shown[inWorld] \o pendingInstance \o Numbers(replay) \o Numbers(deferred)

\* A key admits one connection: it is claimed once, and a key that a new login
\* replaced admits none.
OneConnectionPerKey ==
    /\ \A c, d \in Conns :
          c # d /\ {stage[c], stage[d]} \subseteq {"claimed", "active"} => presents[c] # presents[d]
    /\ keys \subseteq {instanceKey}

\* The session writes to the connection of its newest login from the moment it
\* is attached until its own goroutine or a logout detaches it: the end of an
\* older connection's goroutine never does.
LiveStaysAttached ==
    \A c \in Conns : stage[c] = "active" /\ presents[c] = login /\ c \notin broken
                       => instanceWorld = c

\* The player the client is sent has its completed quests as soon as the proxy
\* has them, and has them from the start unless the limit released the packets.
QuestsReachPlayer ==
    created => (quests => questsShown) /\ (login \notin released => quests)

\* A login that meets no stray packet, refusal or broken connection brings the
\* client into the world.
LoginCompletes ==
    \A n \in Logins :
        client = "entering" /\ login = n ~> client # "entering" \/ n \in disturbed
=============================================================================
