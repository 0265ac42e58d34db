----------------------------- MODULE RealmLogin -----------------------------
(***************************************************************************)
(* How a client of one account gets from the login form to an encrypted     *)
(* connection to a realm: the REST login makes a session under a ticket,    *)
(* the BNet connection finds it by the ticket, picks a realm and leaves the *)
(* session in worldSessions under the account's name, and the world         *)
(* connection finds it there by that name.                                  *)
(*                                                                          *)
(* Each BNet request is one step of that connection's goroutine, which      *)
(* locks nothing but the maps.  A world connection's goroutine (handleWorld *)
(* and handleRealmWorld) goes through stages, with the dial to the realm,   *)
(* up to ten seconds, between two of them.  Keys are numbers; a shared      *)
(* secret stands for the key both ends derive from it.                      *)
(***************************************************************************)
EXTENDS Naturals

CONSTANTS
    Realms,     \* IDs of the account's realms
    NoRealm,    \* the ID of the zero Realm
    Unknown,    \* an address that is no realm's
    MaxLogins,  \* bound: logins of the account, each with its session
    MaxJoins,   \* bound: realm joins
    MaxConns    \* bound: world connections

Constants ==
    /\ {NoRealm, Unknown} \cap Realms = {} /\ NoRealm # Unknown
    /\ MaxLogins \in Nat /\ MaxJoins \in Nat /\ MaxConns \in Nat

Sessions == 1..MaxLogins
NoSession == 0
Conns == 1..MaxConns
NoConn == 0
Secrets == 0..MaxJoins
NoSecret == 0

VARIABLES
    bnet,            \* how far the client of a session is on its BNet connection
    sessions,        \* how many sessions the REST login made: Server.sessions
    worldSessions,   \* the account's entry of Server.worldSessions
    hasClientSecret, hasRealm, selectedRealm, worldKey,  \* by session
    realmWorld, legacyWorld,        \* by session: the connections it uses
    joins,           \* joins so far; a join's number is its secret
    asked, secret,   \* client, by session: the address of its last join, and
                     \* the secret it got for it
    conns,           \* world connections accepted
    stage, session, owner, key, dialled,
                     \* by connection: where its goroutine is, the session it
                     \* found, the client it belongs to, the key, the realm
    open             \* connections the client has not closed

bnetVars == <<bnet, sessions, hasClientSecret>>
joinVars == <<worldSessions, hasRealm, selectedRealm, worldKey, joins, asked, secret>>
connVars == <<stage, session, owner, key, dialled>>
vars == <<bnetVars, joinVars, realmWorld, legacyWorld, conns, connVars, open>>

TypeOK ==
    /\ bnet \in [Sessions -> {"none", "ticket", "logged", "joined", "closed"}]
    /\ sessions \in 0..MaxLogins
    /\ worldSessions \in Sessions \cup {NoSession}
    /\ hasClientSecret \in [Sessions -> BOOLEAN]
    /\ hasRealm \in [Sessions -> BOOLEAN]
    /\ selectedRealm \in [Sessions -> Realms \cup {NoRealm}]
    /\ worldKey \in [Sessions -> Secrets]
    /\ realmWorld \in [Sessions -> Conns \cup {NoConn}]
    /\ legacyWorld \in [Sessions -> Conns \cup {NoConn}]
    /\ joins \in Secrets /\ secret \in [Sessions -> Secrets]
    /\ asked \in [Sessions -> Realms \cup {NoRealm, Unknown}]
    /\ conns \in 0..MaxConns
    /\ stage \in [Conns -> {"none", "keyed", "dialled", "encrypted", "ended"}]
    /\ session \in [Conns -> Sessions \cup {NoSession}]
    /\ owner \in [Conns -> Sessions \cup {NoSession}]
    /\ key \in [Conns -> Secrets]
    /\ dialled \in [Conns -> Realms \cup {NoRealm}]
    /\ open \subseteq 1..conns

Init ==
    /\ bnet = [s \in Sessions |-> "none"] /\ sessions = 0
    /\ worldSessions = NoSession
    /\ hasClientSecret = [s \in Sessions |-> FALSE]
    /\ hasRealm = [s \in Sessions |-> FALSE]
    /\ selectedRealm = [s \in Sessions |-> NoRealm]
    /\ worldKey = [s \in Sessions |-> NoSecret]
    /\ realmWorld = [s \in Sessions |-> NoConn]
    /\ legacyWorld = [s \in Sessions |-> NoConn]
    /\ joins = 0 /\ secret = [s \in Sessions |-> NoSecret]
    /\ asked = [s \in Sessions |-> NoRealm]
    /\ conns = 0
    /\ stage = [w \in Conns |-> "none"]
    /\ session = [w \in Conns |-> NoSession]
    /\ owner = [w \in Conns |-> NoSession]
    /\ key = [w \in Conns |-> NoSecret]
    /\ dialled = [w \in Conns |-> NoRealm]
    /\ open = {}

-----------------------------------------------------------------------------
(* REST and BNet.                                                          *)

\* handleLoginPOST: the 3.3.5 realm accepted the password.
LoginPOST ==
    /\ sessions < MaxLogins
    /\ sessions' = sessions + 1
    /\ bnet' = [bnet EXCEPT ![sessions'] = "ticket"]
    /\ UNCHANGED <<hasClientSecret, joinVars, realmWorld, legacyWorld, conns, connVars, open>>

\* Authentication method 7: the connection's session is the ticket's.
WebCredentials(s) ==
    /\ bnet[s] = "ticket"
    /\ bnet' = [bnet EXCEPT ![s] = "logged"]
    /\ UNCHANGED <<sessions, hasClientSecret, joinVars, realmWorld, legacyWorld,
                   conns, connVars, open>>

RealmListTicket(s) ==
    /\ bnet[s] = "logged"
    /\ hasClientSecret' = [hasClientSecret EXCEPT ![s] = TRUE]
    /\ UNCHANGED <<bnet, sessions, joinVars, realmWorld, legacyWorld, conns, connVars, open>>

\* The client joins when it has no world connection; while it waits for the
\* answer it opens none.
AtRealmList(s) ==
    bnet[s] \in {"logged", "joined"} /\ \A w \in open : owner[w] # s

\* Once some join has found its realm, hasRealm stays set: a later join of an
\* address that is no realm's selects the zero Realm and is answered like any.
RealmJoin(s, address) ==
    /\ AtRealmList(s) /\ hasClientSecret[s] /\ joins < MaxJoins
    /\ asked' = [asked EXCEPT ![s] = address]
    /\ hasRealm' = [hasRealm EXCEPT ![s] = @ \/ address \in Realms]
    /\ \/ /\ hasRealm'[s]
          /\ selectedRealm' = [selectedRealm EXCEPT
                                  ![s] = IF address \in Realms THEN address ELSE NoRealm]
          /\ joins' = joins + 1
          /\ secret' = [secret EXCEPT ![s] = joins']
          /\ worldKey' = [worldKey EXCEPT ![s] = joins']
          /\ worldSessions' = s
          /\ bnet' = [bnet EXCEPT ![s] = "joined"]
       \/ /\ ~hasRealm'[s]
          /\ UNCHANGED <<selectedRealm, joins, secret, worldKey, worldSessions, bnet>>
    /\ UNCHANGED <<sessions, hasClientSecret, realmWorld, legacyWorld, conns, connVars, open>>

\* Connection method 7: only the BNet connection ends, the session stays.
Disconnect(s) ==
    /\ bnet[s] = "joined"
    /\ bnet' = [bnet EXCEPT ![s] = "closed"]
    /\ UNCHANGED <<sessions, hasClientSecret, joinVars, realmWorld, legacyWorld,
                   conns, connVars, open>>

-----------------------------------------------------------------------------
(* World connections.                                                      *)

\* A client connects to the realm of its last join; it may have given up a
\* connection before.  It names the account and no session: it is given that of
\* the account's latest join, whichever login's it is, and becomes its
\* realmWorld before any key is compared.
Connect(s) ==
    /\ secret[s] # NoSecret
    /\ \A w \in open : owner[w] # s
    /\ conns < MaxConns
    /\ conns' = conns + 1
    /\ owner' = [owner EXCEPT ![conns'] = s]
    /\ \/ /\ hasRealm[worldSessions] /\ asked[s] = selectedRealm[worldSessions]
          /\ stage' = [stage EXCEPT ![conns'] = "keyed"]
          /\ session' = [session EXCEPT ![conns'] = worldSessions]
          /\ key' = [key EXCEPT ![conns'] = worldKey[worldSessions]]
          /\ realmWorld' = [realmWorld EXCEPT ![worldSessions] = conns']
          /\ open' = open \cup {conns'}
       \/ /\ ~hasRealm[worldSessions] \/ asked[s] # selectedRealm[worldSessions]
          /\ stage' = [stage EXCEPT ![conns'] = "ended"]
          /\ UNCHANGED <<session, key, realmWorld, open>>
    /\ UNCHANGED <<bnetVars, joinVars, legacyWorld, dialled>>

\* legacyWorld(ctx, selectedRealm, ...) has connected to the realm.
Dial(w) ==
    /\ stage[w] = "keyed"
    /\ stage' = [stage EXCEPT ![w] = "dialled"]
    /\ dialled' = [dialled EXCEPT ![w] = selectedRealm[session[w]]]
    /\ legacyWorld' = [legacyWorld EXCEPT ![session[w]] = w]
    /\ UNCHANGED <<bnetVars, joinVars, realmWorld, conns, session, owner, key, open>>

\* Both ends derive a key, and the client goes on if they are the same.
EnterEncryptedMode(w) ==
    /\ stage[w] = "dialled" /\ w \in open /\ key[w] = secret[owner[w]]
    /\ stage' = [stage EXCEPT ![w] = "encrypted"]
    /\ UNCHANGED <<bnetVars, joinVars, realmWorld, legacyWorld, conns, session, owner,
                   key, dialled, open>>

ClientCloses(w) ==
    /\ w \in open /\ open' = open \ {w}
    /\ UNCHANGED <<bnetVars, joinVars, realmWorld, legacyWorld, conns, connVars>>

\* handleRealmWorld returns: its dial failed, or it found the client gone.
\* Mutant: whatever connection the session has is taken from it.
DetachAny(s, w) == realmWorld' = [realmWorld EXCEPT ![s] = NoConn]
Detach(s, w) == realmWorld' = IF realmWorld[s] = w THEN [realmWorld EXCEPT ![s] = NoConn]
                              ELSE realmWorld

End(w) ==
    /\ stage[w] = "keyed" \/ (stage[w] \in {"dialled", "encrypted"} /\ w \notin open)
    /\ stage' = [stage EXCEPT ![w] = "ended"]
    /\ Detach(session[w], w)
    /\ open' = open \ {w}
    /\ UNCHANGED <<bnetVars, joinVars, legacyWorld, conns, session, owner, key, dialled>>

Next ==
    \/ LoginPOST
    \/ \E s \in Sessions :
          \/ WebCredentials(s) \/ RealmListTicket(s) \/ Disconnect(s) \/ Connect(s)
          \/ \E address \in Realms \cup {Unknown} : RealmJoin(s, address)
    \/ \E w \in Conns : Dial(w) \/ EnterEncryptedMode(w) \/ ClientCloses(w) \/ End(w)

Spec == Init /\ [][Next]_vars

-----------------------------------------------------------------------------
\* The session of w was given since to a client of another login of the account.
Displaced(w) ==
    \E v \in w+1 .. conns : session[v] = session[w] /\ owner[v] # owner[w]

\* A client that gets through the handshake is in the session of its own login,
\* on the realm it asked for last: although the session was found by the
\* account's name, so that it may be another login's until the keys are
\* compared, hasRealm survives a failed join and the realm is read again for the
\* dial.  Its session writes realm packets to this connection, although one
\* given up earlier ends later, unless a client of another login was given the
\* session since: that one takes its place before any key is compared.
RealmServesJoin ==
    \A w \in open : stage[w] = "encrypted" =>
       /\ session[w] = owner[w]
       /\ dialled[w] = asked[owner[w]] /\ dialled[w] \in Realms
       /\ realmWorld[owner[w]] = w \/ Displaced(w)
=============================================================================
