-------------------------------- MODULE Party --------------------------------
(***************************************************************************)
(* One order of the members of a group for every client behind the proxy.   *)
(* The 3.3.5 realm sends each member a GROUP_LIST that leaves the receiver  *)
(* out and has no order of its own; the 3.4.3 client addresses members by   *)
(* their row.  The relays of all sessions share Server.partyOrders, which   *)
(* stablePartyOrder extends under its mutex: handling a list is one step.   *)
(*                                                                          *)
(* An order is a function from characters to ranks, the positions in the    *)
(* code's slice.  Characters are their GUIDs, compared as numbers.          *)
(***************************************************************************)
EXTENDS Naturals, Sequences, FiniteSets

CONSTANTS
    Characters,  \* characters of one realm that play through the proxy
    MaxGroups,   \* bound: groups the realm forms
    MaxChanges   \* bound: changes of a group or of who is logged in

ASSUME PartyCharacters == Characters \subseteq Nat \ {0} /\ IsFiniteSet(Characters)
ASSUME PartyBounds == MaxGroups \in Nat \ {0} /\ MaxChanges \in Nat

VARIABLES
    group,       \* realm: the number of the latest group formed, its GUID
    leader, members,  \* realm: of that group; no members: disbanded
    online,      \* realm: the characters logged in
    changes,     \* realm: changes so far
    mail,        \* packets the realm sent to a character's session
    partyOrders, \* Server.partyOrders, by group, as ranks
    party,       \* by session: partyLegacyGUID, NoGroup if it is 0
    roster,      \* by client: the rows it shows, as ranks
    drawn,       \* history: the rosters written to any client
    named        \* history: what the lists handled so far said of a group

realmVars == <<group, leader, members, online, changes>>
sessionVars == <<party, roster>>
vars == <<realmVars, mail, partyOrders, sessionVars, drawn, named>>

NoGroup == 0
NoLeader == 0
Groups == 1..MaxGroups
Ranks == UNION {[who -> 1..Cardinality(Characters)] : who \in SUBSET Characters}
NoRanks == [c \in {} |-> 0]
Packets ==
    [op : {"list"}, group : Groups, leader : Characters, members : SUBSET Characters]
    \cup [op : {"empty", "destroyed", "logout"}]

TypeOK ==
    /\ group \in Groups \cup {NoGroup}
    /\ leader \in Characters \cup {NoLeader} /\ members \subseteq Characters
    /\ online \subseteq Characters /\ changes \in Nat
    /\ mail \in [Characters -> Seq(Packets)]
    /\ partyOrders \in [Groups -> Ranks]
    /\ party \in [Characters -> Groups \cup {NoGroup}]
    /\ roster \in [Characters -> Ranks]
    /\ drawn \subseteq Groups \X Ranks
    /\ named \in [Groups -> SUBSET (Characters \X SUBSET Characters)]

Init ==
    /\ group = NoGroup /\ leader = NoLeader /\ members = {}
    /\ online = Characters /\ changes = 0
    /\ mail = [c \in Characters |-> <<>>]
    /\ partyOrders = [g \in Groups |-> NoRanks]
    /\ party = [c \in Characters |-> NoGroup]
    /\ roster = [c \in Characters |-> NoRanks]
    /\ drawn = {} /\ named = [g \in Groups |-> {}]

-----------------------------------------------------------------------------
(* The realm.                                                              *)

Change == changes < MaxChanges /\ changes' = changes + 1
Idle == UNCHANGED <<partyOrders, sessionVars, drawn, named>>

List(g, l, ms) == [op |-> "list", group |-> g, leader |-> l, members |-> ms]

\* Every member who is logged in gets the list, those who left something else.
Tell(g, l, ms, left, farewell) ==
    mail' = [c \in Characters |->
        IF c \notin online THEN mail[c]
        ELSE IF c \in ms THEN Append(mail[c], List(g, l, ms \ {c}))
        ELSE IF c \in left THEN Append(mail[c], [op |-> farewell])
        ELSE mail[c]]

Form(l, ms) ==
    /\ Change /\ members = {} /\ group < MaxGroups
    /\ l \in ms /\ Cardinality(ms) >= 2 /\ ms \subseteq online
    /\ group' = group + 1 /\ leader' = l /\ members' = ms
    /\ Tell(group + 1, l, ms, {}, "empty")
    /\ UNCHANGED online /\ Idle

\* Someone joins or leaves, or the lead passes on.
Regroup(l, ms) ==
    /\ Change /\ members # {}
    /\ l \in ms /\ Cardinality(ms) >= 2
    /\ <<l, ms>> # <<leader, members>> /\ ms \ members \subseteq online
    /\ leader' = l /\ members' = ms
    /\ Tell(group, l, ms, members \ ms, "empty")
    /\ UNCHANGED <<group, online>> /\ Idle

Disband ==
    /\ Change /\ members # {}
    /\ leader' = NoLeader /\ members' = {}
    /\ Tell(group, leader, {}, members, "destroyed")
    /\ UNCHANGED <<group, online>> /\ Idle

Logout(c) ==
    /\ Change /\ c \in online
    /\ online' = online \ {c}
    /\ mail' = [mail EXCEPT ![c] = Append(@, [op |-> "logout"])]
    /\ UNCHANGED <<group, leader, members>> /\ Idle

Login(c) ==
    /\ Change /\ c \notin online /\ mail[c] = <<>>
    /\ online' = online \cup {c}
    /\ mail' = IF c \in members
               THEN [mail EXCEPT ![c] = <<List(group, leader, members \ {c})>>] ELSE mail
    /\ UNCHANGED <<group, leader, members>> /\ Idle

-----------------------------------------------------------------------------
(* The proxy.                                                              *)

Handle(c, op) ==
    /\ mail[c] # <<>> /\ Head(mail[c]).op = op
    /\ mail' = [mail EXCEPT ![c] = Tail(@)]

\* The members TranslateLegacyGroupListWithOrder puts together: those the
\* list names and the receiver, whom it leaves out.
\* Mutant: the receiver is left out.
OthersOnly(c, p) == p.members
WithSelf(c, p) == p.members \cup {c}

\* The first list of a group puts its leader first.
\* Mutant: whoever leads when members are added is put first.
LeadAgain(ranks, l, ms) ==
    IF l \in ms THEN [m \in DOMAIN ranks \cup {l} |-> IF m = l THEN 1 ELSE ranks[m] + 1]
    ELSE ranks
Lead(ranks, l, ms) ==
    IF DOMAIN ranks = {} /\ l \in ms THEN [m \in {l} |-> 1] ELSE ranks

\* stablePartyOrder: newcomers follow in the order of their GUIDs, those who
\* left keep their rank.
Extend(ranks, ms) ==
    LET new == ms \ DOMAIN ranks IN
    [m \in DOMAIN ranks \cup new |->
        IF m \in DOMAIN ranks THEN ranks[m]
        ELSE Cardinality(DOMAIN ranks) + Cardinality({k \in new : k <= m})]
StablePartyOrder(ranks, l, ms) == Extend(Lead(ranks, l, ms), ms)

Present(ranks, ms) == [m \in ms |-> ranks[m]]

\* SMSG_GROUP_LIST with members.
GroupList(c) ==
    /\ Handle(c, "list")
    /\ LET p == Head(mail[c])
           g == p.group
           ms == WithSelf(c, p)
           ranks == StablePartyOrder(partyOrders[g], p.leader, ms)
       IN /\ partyOrders' = [partyOrders EXCEPT ![g] = ranks]
          /\ party' = [party EXCEPT ![c] = g]
          /\ roster' = [roster EXCEPT ![c] = Present(ranks, ms)]
          /\ drawn' = drawn \cup {<<g, Present(ranks, ms)>>}
          /\ named' = [named EXCEPT ![g] = @ \cup {<<p.leader, p.members \cup {c}>>}]
    /\ UNCHANGED realmVars

\* SMSG_GROUP_LIST without members, SMSG_GROUP_DESTROYED, and the end of the
\* character's session (resetCharacterSessionLocked).
LeaveGroup(c) ==
    /\ \E op \in {"empty", "destroyed", "logout"} : Handle(c, op)
    /\ party' = [party EXCEPT ![c] = NoGroup]
    /\ roster' = [roster EXCEPT ![c] = NoRanks]
    /\ UNCHANGED <<realmVars, partyOrders, drawn, named>>

Next ==
    \/ \E l \in Characters, ms \in SUBSET Characters : Form(l, ms) \/ Regroup(l, ms)
    \/ Disband
    \/ \E c \in Characters : Logout(c) \/ Login(c) \/ GroupList(c) \/ LeaveGroup(c)

Spec == Init /\ [][Next]_vars

-----------------------------------------------------------------------------
(* Properties.                                                             *)

\* Any two rosters ever written to clients of one group, to the same client or
\* to two, early or late, order the members they share alike, and no roster
\* gives two members one place: stablePartyOrder only ever appends, and keeps
\* those who left.
OneOrder ==
    \A d, e \in drawn :
       /\ d[1] = e[1] => \A m \in DOMAIN d[2] \cap DOMAIN e[2] : d[2][m] = e[2][m]
       /\ \A m, n \in DOMAIN d[2] : m # n => d[2][m] # d[2][n]

\* While all lists handled named the same leader and members, every roster has
\* the leader first and the others by GUID, whichever member's list came first.
InitialOrder ==
    \A d \in drawn :
       Cardinality(named[d[1]]) = 1 =>
          \A said \in named[d[1]] : \A m, n \in DOMAIN d[2] :
             /\ DOMAIN d[2] = said[2]
             /\ d[2][m] < d[2][n] <=> m # n /\ (m = said[1] \/ (n # said[1] /\ m < n))
=============================================================================
