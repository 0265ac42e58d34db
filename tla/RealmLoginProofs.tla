-------------------------- MODULE RealmLoginProofs --------------------------
(***************************************************************************)
(* A client that gets through the handshake is on the realm it asked for, in *)
(* the session of its own login, whatever the number of logins, joins,       *)
(* connections and realms.                                                   *)
(***************************************************************************)
EXTENDS RealmLogin, TLAPS

\* A connection the client still has and the proxy still serves.
Serving(w) == w \in open /\ stage[w] \in {"keyed", "dialled", "encrypted"}

LoginTypes ==
    /\ joins \in Nat /\ conns \in Nat /\ worldSessions \in Sessions \cup {NoSession}
    /\ hasRealm \in [Sessions -> BOOLEAN]
    /\ selectedRealm \in [Sessions -> Realms \cup {NoRealm}]
    /\ worldKey \in [Sessions -> Nat] /\ secret \in [Sessions -> Nat]
    /\ realmWorld \in [Sessions -> Nat]
    /\ asked \in [Sessions -> Realms \cup {NoRealm, Unknown}]
    /\ stage \in [Conns -> {"none", "keyed", "dialled", "encrypted", "ended"}]
    /\ session \in [Conns -> Sessions \cup {NoSession}]
    /\ owner \in [Conns -> Sessions \cup {NoSession}]
    /\ dialled \in [Conns -> Realms \cup {NoRealm}]
    /\ key \in [Conns -> Nat]
    /\ open \subseteq Conns
    /\ \A w \in open : w <= conns
    /\ \A w \in Conns : stage[w] = "keyed" => session[w] \in Sessions
    /\ \A s \in Sessions : hasRealm[s] => asked[s] # NoRealm

\* The account has an entry once a client has joined; a session has the key of
\* its client's last join, and no two have the same.
LatestJoin ==
    /\ worldSessions = NoSession => joins = 0
    /\ worldKey = secret
    /\ \A s \in Sessions : secret[s] <= joins
    /\ \A s, t \in Sessions : s # t /\ secret[s] = secret[t] => secret[s] = NoSecret

\* A connection that is served and has the key of its client has the session of
\* its client.
KeyOfClient(w) ==
    /\ owner[w] \in Sessions /\ session[w] \in Sessions
    /\ key[w] = secret[owner[w]] => session[w] = owner[w]
    /\ stage[w] = "encrypted" => key[w] = secret[owner[w]]

\* In the session of its client, it is on the realm the client asked for, which
\* joins no other meanwhile, and the session writes to it.
RealmOfClient(w) ==
    LET s == owner[w] IN
    /\ asked[s] = selectedRealm[s] /\ asked[s] \in Realms
    /\ stage[w] # "keyed" => dialled[w] = selectedRealm[s]
    /\ realmWorld[s] = w \/ Displaced(w)

Served ==
    \A w \in open : Serving(w) =>
       KeyOfClient(w) /\ (session[w] = owner[w] => RealmOfClient(w))

\* A client has one connection at a time.
OneOpen == \A v, w \in open : owner[v] = owner[w] => v = w

LoginInv == LoginTypes /\ LatestJoin /\ Served /\ OneOpen

\* What the invariant speaks of.
loginVars == <<joinVars, realmWorld, conns, connVars, open>>

LEMMA LoginInit == Constants /\ Init => LoginInv
BY DEF Constants, Init, LoginInv, LoginTypes, LatestJoin, Served, OneOpen, Sessions, Conns, NoSession,
       NoSecret, NoConn

\* A join of a client that has no open connection disturbs none.
LEMMA OthersServed ==
    ASSUME LoginTypes, Served, NEW s \in Sessions, \A w \in open : owner[w] # s,
           \A t \in Sessions : t # s => /\ secret'[t] = secret[t] /\ asked'[t] = asked[t]
                                       /\ selectedRealm'[t] = selectedRealm[t],
           UNCHANGED <<realmWorld, conns, connVars, open>>
    PROVE  Served'
<1> SUFFICES ASSUME NEW w \in open, Serving(w)
             PROVE  KeyOfClient(w)' /\ (session[w] = owner[w] => RealmOfClient(w)')
    BY DEF Served, Serving, connVars
<1>1. KeyOfClient(w) /\ (session[w] = owner[w] => RealmOfClient(w))
    BY DEF Served
<1>2. owner[w] \in Sessions /\ owner[w] # s
    BY <1>1 DEF KeyOfClient
<1>3. /\ secret'[owner[w]] = secret[owner[w]] /\ asked'[owner[w]] = asked[owner[w]]
      /\ selectedRealm'[owner[w]] = selectedRealm[owner[w]]
    BY <1>2
<1> QED BY <1>1, <1>3 DEF KeyOfClient, RealmOfClient, Displaced, connVars

LEMMA JoinKeeps ==
    ASSUME Constants, LoginInv, NEW s \in Sessions, NEW address \in Realms \cup {Unknown},
           RealmJoin(s, address)
    PROVE  LoginInv'
<1>1. /\ \A w \in open : owner[w] # s
      /\ asked' = [asked EXCEPT ![s] = address]
      /\ hasRealm' = [hasRealm EXCEPT ![s] = @ \/ address \in Realms]
      /\ UNCHANGED <<realmWorld, conns, connVars, open>>
    BY DEF RealmJoin, AtRealmList
<1>2. CASE hasRealm'[s]
  <2>1. /\ joins' = joins + 1 /\ worldSessions' = s
        /\ secret' = [secret EXCEPT ![s] = joins + 1]
        /\ worldKey' = [worldKey EXCEPT ![s] = joins + 1]
        /\ selectedRealm' = [selectedRealm EXCEPT
                                ![s] = IF address \in Realms THEN address ELSE NoRealm]
      BY <1>2 DEF RealmJoin
  <2>2. LoginTypes'
    <3>1. \A t \in Sessions : asked'[t] # NoRealm \/ (t # s /\ asked'[t] = asked[t]
                                                   /\ hasRealm'[t] = hasRealm[t])
        BY <1>1 DEF LoginInv, LoginTypes, Constants
    <3> QED BY <1>1, <2>1, <3>1 DEF LoginInv, LoginTypes, connVars
  <2>3. LatestJoin'
    <3> DEFINE n == joins + 1
    <3>1. n \in Nat /\ joins < n
        BY DEF LoginInv, LoginTypes
    <3>2. \A t \in Sessions : secret[t] \in Nat /\ secret[t] <= joins
        BY DEF LoginInv, LoginTypes, LatestJoin
    <3>3. s # NoSession
        BY DEF Sessions, NoSession
    <3>4. joins' = n /\ secret' = [secret EXCEPT ![s] = n]
        BY <2>1
    <3> HIDE DEF n
    <3>5. \A t \in Sessions : secret'[t] = IF t = s THEN n ELSE secret[t]
        BY <3>4 DEF LoginInv, LoginTypes
    <3>6. \A t \in Sessions : secret'[t] <= n
        BY <3>1, <3>2, <3>5 DEF LoginInv, LoginTypes
    <3>7. \A t, u \in Sessions : t # u /\ secret'[t] = secret'[u] => secret'[t] = NoSecret
      <4> SUFFICES ASSUME NEW t \in Sessions, NEW u \in Sessions,
                          t # u, secret'[t] = secret'[u]
                   PROVE  secret'[t] = NoSecret
          OBVIOUS
      <4>1. t # s /\ u # s
          BY <3>1, <3>2, <3>5 DEF LoginInv, LoginTypes
      <4> QED BY <3>5, <4>1 DEF LoginInv, LatestJoin
    <3>8. worldKey' = secret'
        BY <2>1 DEF LoginInv, LatestJoin
    <3> QED BY <2>1, <3>3, <3>4, <3>5, <3>6, <3>7, <3>8 DEF LatestJoin
  <2>4. \A t \in Sessions : t # s => /\ secret'[t] = secret[t] /\ asked'[t] = asked[t]
                                    /\ selectedRealm'[t] = selectedRealm[t]
      BY <1>1, <2>1 DEF LoginInv, LoginTypes
  <2>5. Served'
      BY <1>1, <2>4, OthersServed DEF LoginInv
  <2>6. OneOpen'
      BY <1>1 DEF LoginInv, OneOpen, connVars
  <2> QED BY <2>2, <2>3, <2>5, <2>6 DEF LoginInv
<1>3. CASE ~hasRealm'[s]
  <2>1. UNCHANGED <<selectedRealm, joins, secret, worldKey, worldSessions>>
      BY <1>3 DEF RealmJoin
  <2>2. LoginTypes'
    <3>1. \A t \in Sessions : asked'[t] # NoRealm \/ (t # s /\ asked'[t] = asked[t]
                                                   /\ hasRealm'[t] = hasRealm[t])
        BY <1>1 DEF LoginInv, LoginTypes, Constants
    <3> QED BY <1>1, <2>1, <3>1 DEF LoginInv, LoginTypes, connVars
  <2>3. LatestJoin'
      BY <2>1 DEF LoginInv, LatestJoin
  <2>4. \A t \in Sessions : t # s => asked'[t] = asked[t]
      BY <1>1 DEF LoginInv, LoginTypes
  <2>5. Served'
      BY <1>1, <2>1, <2>4, OthersServed DEF LoginInv
  <2>6. OneOpen'
      BY <1>1 DEF LoginInv, OneOpen, connVars
  <2> QED BY <2>2, <2>3, <2>5, <2>6 DEF LoginInv
<1> QED BY <1>2, <1>3

LEMMA ConnectKeeps ==
    ASSUME Constants, LoginInv, NEW s \in Sessions, Connect(s)
    PROVE  LoginInv'
<1> DEFINE new == conns + 1
           found == worldSessions
<1>1. /\ secret[s] # NoSecret
      /\ \A w \in open : owner[w] # s
      /\ conns < MaxConns /\ conns' = new
      /\ owner' = [owner EXCEPT ![new] = s]
      /\ UNCHANGED <<joinVars, dialled>>
    BY DEF Connect
<1>2. new \in Conns /\ new \notin open
    BY <1>1 DEF LoginInv, LoginTypes, Conns, Constants
<1>3. found \in Sessions
  <2>1. secret[s] \in Nat /\ secret[s] # 0 /\ secret[s] <= joins /\ joins \in Nat
      BY <1>1 DEF LoginInv, LoginTypes, LatestJoin, NoSecret
  <2>2. joins # 0
      BY <2>1
  <2> QED BY <2>2 DEF LoginInv, LoginTypes, LatestJoin
<1>4. LatestJoin'
    BY <1>1 DEF LoginInv, LatestJoin, joinVars
<1>7. new \in Nat /\ \A w \in open : w \in Nat /\ w <= new /\ w < new
    BY DEF LoginInv, LoginTypes, Conns
\* The client of the session's own join has its key, and no other has.
<1>8. worldKey[found] = secret[s] => found = s
    BY <1>1, <1>3 DEF LoginInv, LatestJoin
<1>9. worldKey[found] \in Nat
    BY <1>3 DEF LoginInv, LoginTypes
<1> USE DEF found
<1> HIDE DEF new
<1>5. CASE hasRealm[found] /\ asked[s] = selectedRealm[found]
  <2>1. /\ stage' = [stage EXCEPT ![new] = "keyed"]
        /\ session' = [session EXCEPT ![new] = found]
        /\ key' = [key EXCEPT ![new] = worldKey[found]]
        /\ realmWorld' = [realmWorld EXCEPT ![found] = new]
        /\ open' = open \cup {new}
      BY <1>1, <1>5 DEF Connect
  <2>2. found = s => asked[s] \in Realms
      BY <1>5 DEF LoginInv, LoginTypes
  <2>3. LoginTypes'
    <3>1. /\ stage' \in [Conns -> {"none", "keyed", "dialled", "encrypted", "ended"}]
          /\ key' \in [Conns -> Nat]
        BY <1>9, <2>1 DEF LoginInv, LoginTypes
    <3>2. /\ session' \in [Conns -> Sessions \cup {NoSession}]
          /\ owner' \in [Conns -> Sessions \cup {NoSession}]
        BY <1>1, <1>3, <2>1 DEF LoginInv, LoginTypes
    <3>3. realmWorld' \in [Sessions -> Nat]
        BY <1>7, <2>1 DEF LoginInv, LoginTypes
    <3>4. open' \subseteq Conns /\ \A w \in open' : w <= conns'
        BY <1>1, <1>2, <1>7, <2>1 DEF LoginInv, LoginTypes
    <3>5. \A w \in Conns : stage'[w] = "keyed" => session'[w] \in Sessions
        BY <1>3, <2>1 DEF LoginInv, LoginTypes
    <3> QED BY <1>1, <1>7, <3>1, <3>2, <3>3, <3>4, <3>5 DEF LoginInv, LoginTypes, joinVars
  <2>4. Served'
    <3> SUFFICES ASSUME NEW w \in open', Serving(w)'
                 PROVE  KeyOfClient(w)' /\ (session'[w] = owner'[w] => RealmOfClient(w)')
        BY DEF Served
    <3>1. UNCHANGED <<asked, selectedRealm, dialled, secret>>
        BY <1>1 DEF joinVars
    <3>2. CASE w = new
      <4>1. /\ owner'[w] = s /\ session'[w] = found /\ stage'[w] = "keyed"
            /\ key'[w] = worldKey[found] /\ realmWorld'[found] = w
          BY <1>1, <1>2, <1>3, <2>1, <3>2 DEF LoginInv, LoginTypes
      <4>2. KeyOfClient(w)'
          BY <1>3, <1>8, <3>1, <4>1 DEF KeyOfClient
      <4>3. found = s => RealmOfClient(w)'
          BY <1>5, <2>2, <3>1, <4>1 DEF RealmOfClient
      <4> QED BY <4>1, <4>2, <4>3
    <3>3. CASE w \in open /\ w # new
      <4>1. /\ owner'[w] = owner[w] /\ session'[w] = session[w] /\ stage'[w] = stage[w]
            /\ key'[w] = key[w] /\ w \in Conns
          BY <1>1, <1>2, <2>1, <3>3 DEF LoginInv, LoginTypes
      <4>2. Serving(w)
          BY <3>3, <4>1 DEF Serving
      <4>3. KeyOfClient(w) /\ (session[w] = owner[w] => RealmOfClient(w))
          BY <3>3, <4>2 DEF LoginInv, Served
      <4>4. KeyOfClient(w)'
          BY <3>1, <4>1, <4>3 DEF KeyOfClient
      <4>5. ASSUME session[w] = owner[w] PROVE realmWorld'[owner[w]] = w \/ Displaced(w)'
        <5>1. owner[w] \in Sessions /\ owner[w] # s
            BY <1>1, <3>3, <4>3 DEF KeyOfClient
        <5>2. CASE found = owner[w]
          <6>1. new \in w+1 .. conns'
              BY <1>1, <1>7, <3>3
          <6>2. session'[new] = session'[w] /\ owner'[new] # owner'[w]
              BY <1>1, <1>2, <2>1, <4>1, <4>5, <5>1, <5>2 DEF LoginInv, LoginTypes
          <6> QED BY <6>1, <6>2 DEF Displaced
        <5>3. CASE found # owner[w]
          <6>1. realmWorld'[owner[w]] = realmWorld[owner[w]]
              BY <2>1, <5>1, <5>3 DEF LoginInv, LoginTypes
          <6>2. ASSUME Displaced(w) PROVE Displaced(w)'
            <7>1. PICK v \in w+1 .. conns : session[v] = session[w] /\ owner[v] # owner[w]
                BY <6>2 DEF Displaced
            <7>2. v \in w+1 .. conns' /\ v # new
                BY <1>1, <1>7, <3>3 DEF LoginInv, LoginTypes, new
            <7>3. v \in Conns
                BY <1>1, <4>1, <7>1 DEF LoginInv, LoginTypes, Conns, Constants
            <7>4. session'[v] = session[v] /\ owner'[v] = owner[v]
                BY <1>1, <2>1, <7>2, <7>3 DEF LoginInv, LoginTypes
            <7> QED BY <4>1, <7>1, <7>2, <7>4 DEF Displaced
          <6> QED BY <4>3, <4>5, <6>1, <6>2 DEF RealmOfClient
        <5> QED BY <5>2, <5>3
      <4>6. session[w] = owner[w] => RealmOfClient(w)'
          BY <3>1, <4>1, <4>3, <4>5 DEF RealmOfClient
      <4> QED BY <4>1, <4>4, <4>6
    <3> QED BY <2>1, <3>2, <3>3
  <2>5. OneOpen'
      BY <1>1, <1>2, <2>1 DEF LoginInv, LoginTypes, OneOpen
  <2> QED BY <1>4, <2>3, <2>4, <2>5 DEF LoginInv
<1>6. CASE ~(hasRealm[found] /\ asked[s] = selectedRealm[found])
  <2>1. /\ stage' = [stage EXCEPT ![new] = "ended"]
        /\ UNCHANGED <<session, key, realmWorld, open>>
      BY <1>1, <1>6 DEF Connect
  <2>2. LoginTypes'
      BY <1>1, <1>2, <1>7, <2>1 DEF LoginInv, LoginTypes, joinVars
  <2>3. Served'
    <3> SUFFICES ASSUME NEW w \in open, Serving(w)'
                 PROVE  KeyOfClient(w)' /\ (session[w] = owner'[w] => RealmOfClient(w)')
        BY <2>1 DEF Served
    <3>1. owner'[w] = owner[w] /\ stage'[w] = stage[w] /\ w \in Conns
        BY <1>1, <1>2, <2>1 DEF LoginInv, LoginTypes
    <3>2. Serving(w)
        BY <2>1, <3>1 DEF Serving
    <3>3. KeyOfClient(w) /\ (session[w] = owner[w] => RealmOfClient(w))
        BY <3>2 DEF LoginInv, Served
    <3>4. ASSUME Displaced(w) PROVE Displaced(w)'
      <4>1. PICK v \in w+1 .. conns : session[v] = session[w] /\ owner[v] # owner[w]
          BY <3>4 DEF Displaced
      <4>2. v \in w+1 .. conns' /\ v # new
          BY <1>1, <1>7 DEF LoginInv, LoginTypes, new
      <4>3. v \in Conns
          BY <1>1, <3>1, <4>1 DEF LoginInv, LoginTypes, Conns, Constants
      <4>4. owner'[v] = owner[v]
          BY <1>1, <4>2, <4>3 DEF LoginInv, LoginTypes
      <4> QED BY <2>1, <3>1, <4>1, <4>2, <4>4 DEF Displaced
    <3> QED BY <1>1, <2>1, <3>1, <3>3, <3>4 DEF KeyOfClient, RealmOfClient, joinVars
  <2>4. OneOpen'
      BY <1>1, <1>2, <2>1 DEF LoginInv, LoginTypes, OneOpen
  <2> QED BY <1>4, <2>2, <2>3, <2>4 DEF LoginInv
<1> QED BY <1>5, <1>6

LEMMA DialKeeps ==
    ASSUME LoginInv, NEW w \in Conns, Dial(w)
    PROVE  LoginInv'
<1>1. /\ stage[w] = "keyed"
      /\ stage' = [stage EXCEPT ![w] = "dialled"]
      /\ dialled' = [dialled EXCEPT ![w] = selectedRealm[session[w]]]
      /\ UNCHANGED <<joinVars, realmWorld, conns, session, owner, key, open>>
    BY DEF Dial
<1>2. LatestJoin' /\ OneOpen'
    BY <1>1 DEF LoginInv, LatestJoin, OneOpen, joinVars
<1>3. Served'
  <2> SUFFICES ASSUME NEW v \in open, Serving(v)'
               PROVE  KeyOfClient(v)' /\ (session[v] = owner[v] => RealmOfClient(v)')
      BY <1>1 DEF Served
  <2>1. /\ stage'[v] = "encrypted" => stage[v] = "encrypted"
        /\ Serving(v)
        /\ IF v = w THEN dialled'[v] = selectedRealm[session[v]]
                    ELSE dialled'[v] = dialled[v] /\ stage'[v] = stage[v]
      BY <1>1 DEF Serving, LoginInv, LoginTypes
  <2>2. KeyOfClient(v) /\ (session[v] = owner[v] => RealmOfClient(v))
      BY <2>1 DEF LoginInv, Served
  <2>3. Displaced(v)' = Displaced(v)
      BY <1>1 DEF Displaced
  <2> QED BY <1>1, <2>1, <2>2, <2>3 DEF KeyOfClient, RealmOfClient, joinVars
<1>4. selectedRealm[session[w]] \in Realms \cup {NoRealm}
    BY <1>1 DEF LoginInv, LoginTypes
<1>5. LoginTypes'
    BY <1>1, <1>4 DEF LoginInv, LoginTypes, joinVars
<1> QED BY <1>2, <1>3, <1>5 DEF LoginInv

LEMMA HandshakeKeeps ==
    ASSUME LoginInv, NEW w \in Conns, EnterEncryptedMode(w) \/ ClientCloses(w)
    PROVE  LoginInv'
<1>1. CASE EnterEncryptedMode(w)
  <2>1. /\ stage[w] = "dialled" /\ key[w] = secret[owner[w]]
        /\ stage' = [stage EXCEPT ![w] = "encrypted"]
        /\ UNCHANGED <<joinVars, realmWorld, conns, session, owner, key, dialled, open>>
      BY <1>1 DEF EnterEncryptedMode
  <2>2. LoginTypes' /\ LatestJoin' /\ OneOpen'
      BY <2>1 DEF LoginInv, LoginTypes, LatestJoin, OneOpen, joinVars
  <2>3. Served'
    <3> SUFFICES ASSUME NEW v \in open, Serving(v)'
                 PROVE  KeyOfClient(v)' /\ (session[v] = owner[v] => RealmOfClient(v)')
        BY <2>1 DEF Served
    <3>1. /\ Serving(v)
          /\ stage'[v] = "encrypted" => stage[v] = "encrypted" \/ v = w
          /\ stage'[v] # "keyed" => stage[v] # "keyed"
        BY <2>1 DEF Serving, LoginInv, LoginTypes
    <3>2. KeyOfClient(v) /\ (session[v] = owner[v] => RealmOfClient(v))
        BY <3>1 DEF LoginInv, Served
    <3>3. Displaced(v)' = Displaced(v)
        BY <2>1 DEF Displaced
    <3> QED BY <2>1, <3>1, <3>2, <3>3 DEF KeyOfClient, RealmOfClient, joinVars
  <2> QED BY <2>2, <2>3 DEF LoginInv
<1>2. CASE ClientCloses(w)
  <2>1. /\ open' = open \ {w}
        /\ UNCHANGED <<joinVars, realmWorld, conns, connVars>>
      BY <1>2 DEF ClientCloses
  <2> QED BY <2>1 DEF LoginInv, LoginTypes, LatestJoin, OneOpen, Served, Serving, KeyOfClient,
                      RealmOfClient, Displaced, joinVars, connVars
<1> QED BY <1>1, <1>2

\* A connection that ends takes from the session itself and no other.
LEMMA EndKeeps ==
    ASSUME LoginInv, NEW w \in Conns, End(w)
    PROVE  LoginInv'
<1>1. /\ stage' = [stage EXCEPT ![w] = "ended"]
      /\ open' = open \ {w}
      /\ UNCHANGED <<joinVars, conns, session, owner, key, dialled>>
      /\ realmWorld' = IF realmWorld[session[w]] = w
                       THEN [realmWorld EXCEPT ![session[w]] = NoConn] ELSE realmWorld
    BY DEF End, Detach
<1>2. LoginTypes' /\ LatestJoin' /\ OneOpen'
    BY <1>1 DEF LoginInv, LoginTypes, LatestJoin, OneOpen, joinVars, NoConn
<1>3. Served'
  <2> SUFFICES ASSUME NEW v \in open', Serving(v)'
               PROVE  KeyOfClient(v)' /\ (session[v] = owner[v] => RealmOfClient(v)')
      BY <1>1 DEF Served
  <2>1. /\ v \in open /\ v # w /\ v \in Conns /\ stage'[v] = stage[v]
      BY <1>1 DEF LoginInv, LoginTypes
  <2>2. Serving(v)
      BY <2>1 DEF Serving
  <2>3. KeyOfClient(v) /\ (session[v] = owner[v] => RealmOfClient(v))
      BY <2>1, <2>2 DEF LoginInv, Served
  <2>4. ASSUME realmWorld[owner[v]] = v, owner[v] \in Sessions PROVE realmWorld'[owner[v]] = v
      BY <1>1, <2>1, <2>4 DEF LoginInv, LoginTypes
  <2>5. Displaced(v)' = Displaced(v)
      BY <1>1 DEF Displaced
  <2> QED BY <1>1, <2>1, <2>3, <2>4, <2>5 DEF KeyOfClient, RealmOfClient, joinVars
<1> QED BY <1>2, <1>3 DEF LoginInv

LEMMA LoginNext == Constants /\ LoginInv /\ [Next]_vars => LoginInv'
<1> SUFFICES ASSUME Constants, LoginInv, [Next]_vars PROVE LoginInv'
    OBVIOUS
<1>1. ASSUME UNCHANGED loginVars PROVE LoginInv'
    BY <1>1 DEF loginVars, joinVars, connVars, LoginInv, LoginTypes, LatestJoin, Served, Serving,
                KeyOfClient, RealmOfClient, Displaced, OneOpen
<1>2. CASE \/ LoginPOST
           \/ \E s \in Sessions : WebCredentials(s) \/ RealmListTicket(s) \/ Disconnect(s)
    BY <1>1, <1>2 DEF LoginPOST, WebCredentials, RealmListTicket, Disconnect, loginVars
<1>3. CASE \E s \in Sessions, address \in Realms \cup {Unknown} : RealmJoin(s, address)
    BY <1>3, JoinKeeps
<1>4. CASE \E s \in Sessions : Connect(s)
    BY <1>4, ConnectKeeps
<1>5. CASE \E w \in Conns : Dial(w) \/ EnterEncryptedMode(w) \/ ClientCloses(w) \/ End(w)
    BY <1>5, DialKeeps, HandshakeKeeps, EndKeeps
<1>6. CASE UNCHANGED vars
    BY <1>1, <1>6 DEF vars, loginVars
<1> QED BY <1>2, <1>3, <1>4, <1>5, <1>6 DEF Next

\* However often the clients of an account join, give up and come back, in
\* whatever session they are put: one whose handshake is through is in that of its
\* own login, on the realm it asked for last, and the session writes realm packets
\* to this connection, unless it was given to another login's client since.
THEOREM JoinServed ==
    ASSUME Constants
    PROVE  Spec => []RealmServesJoin
<1>1. LoginInv => RealmServesJoin
    BY DEF LoginInv, Served, Serving, KeyOfClient, RealmOfClient, RealmServesJoin
<1>2. Init => LoginInv
    BY LoginInit
<1>3. LoginInv /\ [Next]_vars => LoginInv'
    BY LoginNext
<1> QED BY <1>1, <1>2, <1>3, PTL DEF Spec
-----------------------------------------------------------------------------
(* The types.                                                                *)

\* The types that the invariant above leaves open.
OtherTypes ==
    /\ bnet \in [Sessions -> {"none", "ticket", "logged", "joined", "closed"}]
    /\ sessions \in 0..MaxLogins
    /\ hasClientSecret \in [Sessions -> BOOLEAN]
    /\ worldKey \in [Sessions -> Secrets] /\ secret \in [Sessions -> Secrets]
    /\ realmWorld \in [Sessions -> Conns \cup {NoConn}]
    /\ legacyWorld \in [Sessions -> Conns \cup {NoConn}]
    /\ joins \in Secrets /\ conns \in 0..MaxConns
    /\ key \in [Conns -> Secrets] /\ open \subseteq 1..conns

LEMMA OtherTypesKept ==
    ASSUME Constants, LoginInv, OtherTypes, [Next]_vars
    PROVE  OtherTypes'
<1>1. MaxLogins \in Nat /\ MaxJoins \in Nat /\ MaxConns \in Nat
    BY DEF Constants
<1>2. /\ sessions < MaxLogins => sessions + 1 \in Sessions /\ sessions + 1 \in 0..MaxLogins
      /\ joins < MaxJoins => joins + 1 \in Secrets
      /\ conns < MaxConns => conns + 1 \in Conns /\ conns + 1 \in 0..MaxConns
    BY <1>1 DEF OtherTypes, Sessions, Secrets, Conns
<1> USE DEF bnetVars, joinVars, connVars
<1>3. CASE LoginPOST
    BY <1>2, <1>3 DEF LoginPOST, OtherTypes
<1>4. ASSUME NEW s \in Sessions, WebCredentials(s) \/ RealmListTicket(s) \/ Disconnect(s)
      PROVE  OtherTypes'
    BY <1>4 DEF WebCredentials, RealmListTicket, Disconnect, OtherTypes
<1>5. ASSUME NEW s \in Sessions, NEW address \in Realms \cup {Unknown}, RealmJoin(s, address)
      PROVE  OtherTypes'
  <2>1. CASE joins' = joins + 1 /\ secret' = [secret EXCEPT ![s] = joins']
             /\ worldKey' = [worldKey EXCEPT ![s] = joins']
             /\ bnet' = [bnet EXCEPT ![s] = "joined"]
      BY <1>2, <1>5, <2>1 DEF RealmJoin, OtherTypes
  <2>2. CASE UNCHANGED <<joins, secret, worldKey, bnet>>
      BY <1>5, <2>2 DEF RealmJoin, OtherTypes
  <2> QED BY <1>5, <2>1, <2>2 DEF RealmJoin
<1>6. ASSUME NEW s \in Sessions, Connect(s) PROVE OtherTypes'
  <2> DEFINE n == conns + 1
  <2>1. conns' = n /\ n \in Conns /\ n \in 0..MaxConns
      BY <1>2, <1>6 DEF Connect
  <2>2. \A w \in open : w \in 1..n
      BY DEF OtherTypes
  <2>3. n \in 1..n
      BY <2>1 DEF Conns
  <2>4. worldSessions \in Sessions
    <3>1. secret[s] \in Nat /\ secret[s] # 0 /\ secret[s] <= joins /\ joins \in Nat
        BY <1>6 DEF Connect, NoSecret, LoginInv, LoginTypes, LatestJoin
    <3>2. joins # 0
        BY <3>1
    <3> QED BY <3>2 DEF LoginInv, LoginTypes, LatestJoin
  <2>5. worldKey[worldSessions] \in Secrets
      BY <2>4 DEF OtherTypes
  <2>6. /\ UNCHANGED <<bnet, sessions, hasClientSecret, worldKey, secret, legacyWorld, joins>>
        /\ \/ /\ key' = [key EXCEPT ![n] = worldKey[worldSessions]]
              /\ realmWorld' = [realmWorld EXCEPT ![worldSessions] = n]
              /\ open' = open \cup {n}
           \/ UNCHANGED <<key, realmWorld, open>>
      BY <1>6 DEF Connect
  <2> HIDE DEF n
  <2>7. open' \subseteq 1..n
      BY <2>2, <2>3, <2>6
  <2> QED BY <2>1, <2>4, <2>5, <2>6, <2>7 DEF OtherTypes
<1>7. ASSUME NEW w \in Conns, Dial(w) PROVE OtherTypes'
    BY <1>7 DEF Dial, LoginInv, LoginTypes, OtherTypes
<1>8. ASSUME NEW w \in Conns, EnterEncryptedMode(w) \/ ClientCloses(w) PROVE OtherTypes'
    BY <1>8 DEF EnterEncryptedMode, ClientCloses, OtherTypes
<1>9. ASSUME NEW w \in Conns, End(w) PROVE OtherTypes'
    BY <1>9 DEF End, Detach, OtherTypes
<1>10. CASE UNCHANGED vars
    BY <1>10 DEF vars, OtherTypes
<1> QED BY <1>3, <1>4, <1>5, <1>6, <1>7, <1>8, <1>9, <1>10 DEF Next

\* What the server and the sessions of an account keep, and the goroutines of the connections,
\* stay what they should be; the secrets are those of joins.
THEOREM LoginTypesKept ==
    ASSUME Constants
    PROVE  Spec => []TypeOK
<1>1. Init => LoginInv /\ OtherTypes
  <2>1. Init => OtherTypes
      BY DEF Init, Constants, OtherTypes, Sessions, Conns, Secrets, NoSecret, NoConn
  <2> QED BY <2>1, LoginInit
<1>2. LoginInv /\ OtherTypes /\ [Next]_vars => LoginInv' /\ OtherTypes'
    BY LoginNext, OtherTypesKept
<1>3. LoginInv /\ OtherTypes => TypeOK
    BY DEF LoginInv, LoginTypes, OtherTypes, TypeOK
<1> QED BY <1>1, <1>2, <1>3, PTL DEF Spec
=============================================================================
