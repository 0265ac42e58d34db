----------------------------- MODULE NameQueries -----------------------------
(***************************************************************************)
(* Names of other players.  The 3.4.3 client cannot show a whisper without  *)
(* its sender's name, the 3.3.5 realm does not put it in the packet: the    *)
(* relay holds the whisper, asks the realm, and shows it with the answer.   *)
(* A name may also come with a group's list, or be asked for by the client. *)
(*                                                                          *)
(* The relay handles packets one by one and nobody else shows whispers, so  *)
(* that what the realm sends and the relay's handling of it are one step.   *)
(* Queries wait at the realm, which answers in order.                       *)
(***************************************************************************)
EXTENDS Naturals, Sequences

CONSTANTS
    Senders,      \* other players
    MaxHeld,      \* whispers held for one of them, 32 in the code
    MaxWhispers,  \* bound: whispers
    MaxEvents     \* bound: rosters, invalidations, logouts, client's queries

Constants ==
    MaxHeld \in Nat \ {0} /\ MaxWhispers \in Nat /\ MaxEvents \in Nat

VARIABLES
    playerNames, playerIdentities,  \* the senders in the maps of these names
    pendingNamedChats,              \* by sender: the whispers held
    pendingPlayerNameQueries,
    queries,    \* realm: name queries it has not answered
    events,     \* events so far
    whispers,   \* history: the senders of the whispers
    shown,      \* history: the whispers written to the client
    dropped,    \* history: those given up, by a full queue or a logout
    learned     \* history: senders whose name came while whispers were held

nameVars == <<playerNames, playerIdentities>>
heldVars == <<pendingNamedChats, pendingPlayerNameQueries, queries>>
historyVars == <<whispers, shown, dropped, learned>>
vars == <<nameVars, heldVars, events, historyVars>>

Numbers == 1..MaxWhispers
InSeq(n, s) == \E i \in DOMAIN s : s[i] = n

TypeOK ==
    /\ playerNames \subseteq Senders /\ playerIdentities \subseteq Senders
    /\ pendingNamedChats \in [Senders -> Seq(Numbers)]
    /\ \A g \in Senders : Len(pendingNamedChats[g]) <= MaxHeld
    /\ pendingPlayerNameQueries \subseteq Senders
    /\ queries \in Seq(Senders)
    /\ events \in 0..MaxEvents
    /\ whispers \in Seq(Senders) /\ shown \in Seq(Numbers)
    /\ dropped \subseteq Numbers /\ learned \subseteq Senders

Init ==
    /\ playerNames = {} /\ playerIdentities = {}
    /\ pendingNamedChats = [g \in Senders |-> <<>>]
    /\ pendingPlayerNameQueries = {} /\ queries = <<>>
    /\ events = 0
    /\ whispers = <<>> /\ shown = <<>> /\ dropped = {} /\ learned = {}

Event == events < MaxEvents /\ events' = events + 1

-----------------------------------------------------------------------------
\* queuePlayerNameQueryLocked, and the query when it says so.
Asks(g) == g \notin playerIdentities \cup pendingPlayerNameQueries
QueuePlayerNameQuery(g) ==
    /\ pendingPlayerNameQueries' =
         pendingPlayerNameQueries \cup (IF Asks(g) THEN {g} ELSE {})
    /\ queries' = IF Asks(g) THEN Append(queries, g) ELSE queries

\* queueNamedChatLocked: the newest whisper is dropped when the queue is full.
\* Mutant: a whisper is queued in front of the others.
QueueChatInFront(g, n) ==
    /\ pendingNamedChats' = [pendingNamedChats EXCEPT ![g] = <<n>> \o @]
    /\ UNCHANGED dropped
    /\ QueuePlayerNameQuery(g)
QueueNamedChat(g, n) ==
    /\ \/ /\ Len(pendingNamedChats[g]) < MaxHeld
          /\ pendingNamedChats' = [pendingNamedChats EXCEPT ![g] = Append(@, n)]
          /\ UNCHANGED dropped
       \/ /\ Len(pendingNamedChats[g]) >= MaxHeld
          /\ dropped' = dropped \cup {n}
          /\ UNCHANGED pendingNamedChats
    /\ QueuePlayerNameQuery(g)

\* SMSG_MESSAGECHAT with a whisper.
Whisper(g) ==
    /\ Len(whispers) < MaxWhispers
    /\ whispers' = Append(whispers, g)
    /\ \/ /\ g \in playerNames
          /\ shown' = Append(shown, Len(whispers'))
          /\ UNCHANGED <<heldVars, dropped>>
       \/ /\ g \notin playerNames
          /\ QueueNamedChat(g, Len(whispers'))
          /\ UNCHANGED shown
    /\ UNCHANGED <<nameVars, events, learned>>

\* SMSG_GROUP_LIST: the names of the members, and a query for each whose race
\* and class are not known.
GroupList(g) ==
    /\ Event
    /\ playerNames' = playerNames \cup {g}
    /\ QueuePlayerNameQuery(g)
    /\ learned' = IF pendingNamedChats[g] # <<>> THEN learned \cup {g} ELSE learned
    /\ UNCHANGED <<playerIdentities, pendingNamedChats, whispers, shown, dropped>>

\* CMSG_QUERY_PLAYER_NAMES: answered if the identity is known, forwarded if not,
\* also when a query is under way.
QueryPlayerNames(g) ==
    /\ Event
    /\ queries' = IF g \in playerIdentities THEN queries ELSE Append(queries, g)
    /\ UNCHANGED <<nameVars, pendingNamedChats, pendingPlayerNameQueries, historyVars>>

\* SMSG_INVALIDATE_PLAYER
InvalidatePlayer(g) ==
    /\ Event
    /\ playerNames' = playerNames \ {g} /\ playerIdentities' = playerIdentities \ {g}
    /\ UNCHANGED <<heldVars, historyVars>>

\* takeNamedChatsLocked
\* Mutant: the query stays marked as pending.
TakeChatsOnly(g) ==
    /\ pendingNamedChats' = [pendingNamedChats EXCEPT ![g] = <<>>]
    /\ UNCHANGED pendingPlayerNameQueries
TakeNamedChats(g) ==
    /\ pendingNamedChats' = [pendingNamedChats EXCEPT ![g] = <<>>]
    /\ pendingPlayerNameQueries' = pendingPlayerNameQueries \ {g}

\* SMSG_NAME_QUERY_RESPONSE: the whispers held are shown, without a name when
\* the realm does not know the player (any more).
NameQueryResponse(found) ==
    /\ queries # <<>>
    /\ queries' = Tail(queries)
    /\ LET g == Head(queries) IN
       /\ playerNames' = IF found THEN playerNames \cup {g} ELSE playerNames
       /\ playerIdentities' = IF found THEN playerIdentities \cup {g} ELSE playerIdentities
       /\ TakeNamedChats(g)
       /\ shown' = shown \o pendingNamedChats[g]
    /\ UNCHANGED <<events, whispers, dropped, learned>>

\* SMSG_LOGOUT_COMPLETE: resetCharacterSessionLocked keeps playerNames, whose
\* owners the next character may meet too.
LogoutComplete ==
    /\ Event
    /\ pendingPlayerNameQueries' = {} /\ playerIdentities' = {}
    /\ dropped' = dropped \cup
         {n \in Numbers : \E g \in Senders : InSeq(n, pendingNamedChats[g])}
    /\ pendingNamedChats' = [g \in Senders |-> <<>>]
    /\ UNCHANGED <<playerNames, queries, whispers, shown, learned>>

Next ==
    \/ \E g \in Senders :
          Whisper(g) \/ GroupList(g) \/ QueryPlayerNames(g) \/ InvalidatePlayer(g)
    \/ \E found \in BOOLEAN : NameQueryResponse(found)
    \/ LogoutComplete

Spec == Init /\ [][Next]_vars

\* The realm answers every name query.
Fairness == WF_vars(\E found \in BOOLEAN : NameQueryResponse(found))

FairSpec == Spec /\ Fairness

-----------------------------------------------------------------------------
\* Every whisper is shown, or given up by a full queue or a logout: no whisper
\* is held for a name that nobody asks the realm for, although queries are
\* deduplicated across chat and group lists, identities and names are forgotten
\* apart, and any answer settles the pending query.  (Whispers are bounded, so
\* that every one is settled when again and again all so far are.)
WhispersShown ==
    []<>(\A n \in DOMAIN whispers : InSeq(n, shown) \/ n \in dropped)

\* Each whisper is shown at most once, and those of one sender in the order he
\* sent them, unless his name came by another way while the first were held: a
\* later one is then shown at once, ahead of them.
WhispersInOrder ==
    \A i, j \in DOMAIN shown :
       i < j /\ whispers[shown[i]] = whispers[shown[j]] =>
          \/ shown[i] < shown[j]
          \/ shown[i] # shown[j] /\ whispers[shown[i]] \in learned
=============================================================================
