-------------------------------- MODULE Taxi --------------------------------
(***************************************************************************)
(* Flights.  The 3.4.3 client asks for a destination, the realm wants the   *)
(* whole route: the proxy looks for the cheapest one in the paths it was    *)
(* built with, from the node of the last menu through the nodes the menu    *)
(* says are usable.  Map iteration makes every choice among equal distances *)
(* possible; one step of the search is one turn of its loop.                *)
(*                                                                          *)
(* The client takes a flight off in the order start, success, and must not  *)
(* be told to start again on the flight's later segments.  A client that    *)
(* logs in during a flight is told to start without a success.              *)
(***************************************************************************)
EXTENDS Naturals, FiniteSets, Sequences, Functions

CONSTANTS
    Nodes,
    Graphs,         \* the tables of paths looked at: sets of <<from, to, cost>>
    Masks,          \* the sets of usable nodes of the realm's menus
    MaxMenus,       \* bound: menus the realm sends
    MaxSegments     \* bound: splines of a flight

Constants ==
    /\ Nodes \subseteq Nat \ {0} /\ IsFiniteSet(Nodes)
    /\ \A g \in Graphs : g \subseteq Nodes \X Nodes \X Nat
    /\ Masks \subseteq SUBSET Nodes
    /\ MaxMenus \in Nat /\ MaxSegments \in Nat \ {0}

VARIABLES
    taxiPathGraph, menus,
    currentTaxiNode, usableTaxiNodes,
    search,             \* the handler's request: where it stands in the search
    distance, previous, visited, route,
    flight,             \* realm: splines sent of the flight under way
    packets,            \* from the realm to the relay, in order
    taxiReplyPending,
    taxiLoginGrace,     \* taxiLoginGraceUntil has not passed
    shown,              \* client: what it was sent of its flight
    relogged, late      \* history: it logged in during it; the grace ended first

menuVars == <<menus, currentTaxiNode, usableTaxiNodes>>
searchVars == <<search, distance, previous, visited, route>>
flightVars == <<flight, packets, taxiReplyPending, taxiLoginGrace, shown, relogged, late>>
vars == <<taxiPathGraph, menuVars, searchVars, flightVars>>

NoNode == 0
NoSearch == [phase |-> "idle", source |-> NoNode, destination |-> NoNode, usable |-> {}]
Phases == {"idle", "search", "written", "refused"}

TypeOK ==
    /\ taxiPathGraph \in Graphs /\ menus \in 0..MaxMenus
    /\ currentTaxiNode \in Nodes \cup {NoNode} /\ usableTaxiNodes \subseteq Nodes
    /\ search.phase \in Phases /\ search.usable \subseteq Nodes
    /\ search.source \in Nodes \cup {NoNode} /\ search.destination \in Nodes \cup {NoNode}
    /\ DOMAIN distance \subseteq Nodes /\ \A n \in DOMAIN distance : distance[n] \in Nat
    /\ DOMAIN previous \subseteq Nodes /\ \A n \in DOMAIN previous : previous[n] \in Nodes
    /\ visited \subseteq Nodes /\ route \in Seq(Nodes)
    /\ flight \in 0..MaxSegments /\ packets \in Seq({"ok", "refusal", "fly"})
    /\ taxiReplyPending \in BOOLEAN /\ taxiLoginGrace \in BOOLEAN
    /\ shown \in Seq({"start", "success", "segment", "refusal"})
    /\ relogged \in BOOLEAN /\ late \in BOOLEAN

Empty == [n \in {} |-> 0]

Init ==
    /\ taxiPathGraph \in Graphs /\ menus = 0
    /\ currentTaxiNode = NoNode /\ usableTaxiNodes = {}
    /\ search = NoSearch /\ distance = Empty /\ previous = Empty
    /\ visited = {} /\ route = <<>>
    /\ flight = 0 /\ packets = <<>>
    /\ taxiReplyPending = FALSE /\ taxiLoginGrace = FALSE
    /\ shown = <<>> /\ relogged = FALSE /\ late = FALSE

-----------------------------------------------------------------------------
(* The menu, and the search for a route.                                   *)

\* SMSG_SHOW_TAXI_NODES
ShowTaxiNodes(node, usable) ==
    /\ menus < MaxMenus /\ menus' = menus + 1
    /\ flight = 0 /\ packets = <<>>
    /\ currentTaxiNode' = node /\ usableTaxiNodes' = usable
    /\ UNCHANGED <<taxiPathGraph, searchVars, flightVars>>

\* CMSG_ACTIVATE_TAXI: the handler copies the menu under the lock.  A request
\* without a route is an error and forwarded to nobody.
ActivateTaxi(destination) ==
    /\ search.phase \in {"idle", "refused"} /\ currentTaxiNode # NoNode /\ flight = 0
    /\ search' = [phase |-> IF currentTaxiNode = destination THEN "refused" ELSE "search",
                  source |-> currentTaxiNode, destination |-> destination,
                  usable |-> usableTaxiNodes]
    /\ distance' = [n \in {currentTaxiNode} |-> 0]
    /\ previous' = Empty /\ visited' = {} /\ route' = <<>>
    /\ UNCHANGED <<taxiPathGraph, menuVars, flightVars>>

\* The nodes the loop can take next, the nearest ones.
Nearest ==
    LET open == DOMAIN distance \ visited
    IN {n \in open : \A o \in open : distance[n] <= distance[o]}

\* loadTaxiPathGraph: a path costs one at least.
Cost(edge) == IF edge[3] = 0 THEN 1 ELSE edge[3]

\* The edges of a node the search follows.
Followed(node) ==
    {e \in taxiPathGraph : e[1] = node /\ (e[2] = search.destination \/ e[2] \in search.usable)}

\* The nodes a turn of the loop brings nearer, and how near.
Candidate(node, to) ==
    LET costs == {distance[node] + Cost(e) : e \in {f \in Followed(node) : f[2] = to}}
    IN CHOOSE c \in costs : \A d \in costs : c <= d
\* Mutant: a node that has a distance keeps it.
FirstSeen(node) == {e[2] : e \in Followed(node)} \ DOMAIN distance
Nearer(node) ==
    {to \in {e[2] : e \in Followed(node)} :
        to \notin DOMAIN distance \/ Candidate(node, to) < distance[to]}

\* One turn of the loop of ShortestTaxiRoute.
Visit(node) ==
    /\ search.phase = "search" /\ node \in Nearest \ {search.destination}
    /\ visited' = visited \cup {node}
    /\ distance' = [n \in DOMAIN distance \cup Nearer(node) |->
                        IF n \in Nearer(node) THEN Candidate(node, n) ELSE distance[n]]
    /\ previous' = [n \in DOMAIN previous \cup Nearer(node) |->
                        IF n \in Nearer(node) THEN node ELSE previous[n]]
    /\ UNCHANGED <<taxiPathGraph, menuVars, search, route, flightVars>>

\* The way back from the destination, and the request to the realm.
Back[k \in Nat] ==
    IF k = 0 THEN <<search.destination>>
    ELSE IF Head(Back[k - 1]) \notin DOMAIN previous THEN Back[k - 1]
    ELSE <<previous[Head(Back[k - 1])]>> \o Back[k - 1]
Finish ==
    /\ search.phase = "search"
    /\ Nearest = {} \/ search.destination \in Nearest
    /\ IF search.destination \in DOMAIN distance
       THEN /\ route' = Back[Cardinality(Nodes)]
            /\ search' = [search EXCEPT !.phase = "written"]
       ELSE search' = [search EXCEPT !.phase = "refused"] /\ UNCHANGED route
    /\ UNCHANGED <<taxiPathGraph, menuVars, distance, previous, visited, flightVars>>

-----------------------------------------------------------------------------
(* The realm (external) answers a route, and flies it by segments.         *)

Idle ==
    /\ search' = NoSearch /\ distance' = Empty /\ previous' = Empty
    /\ visited' = {} /\ route' = <<>>

RealmAccepts ==
    /\ search.phase = "written" /\ flight = 0 /\ packets = <<>> /\ Idle
    /\ packets' = <<"ok", "fly">> /\ flight' = 1
    /\ UNCHANGED <<taxiPathGraph, menuVars, taxiReplyPending, taxiLoginGrace, shown,
                   relogged, late>>

RealmRefuses ==
    /\ search.phase = "written" /\ flight = 0 /\ packets = <<>> /\ Idle
    /\ packets' = <<"refusal">>
    /\ UNCHANGED <<taxiPathGraph, menuVars, flight, taxiReplyPending, taxiLoginGrace, shown,
                   relogged, late>>

NextSegment ==
    /\ flight \in 1..MaxSegments - 1 /\ flight' = flight + 1
    /\ packets' = Append(packets, "fly")
    /\ UNCHANGED <<taxiPathGraph, menuVars, searchVars, taxiReplyPending, taxiLoginGrace,
                   shown, relogged, late>>

Lands ==
    /\ flight > 0 /\ packets = <<>>
    /\ flight' = 0 /\ shown' = <<>> /\ relogged' = FALSE /\ late' = FALSE
    /\ UNCHANGED <<taxiPathGraph, menuVars, searchVars, packets, taxiReplyPending,
                   taxiLoginGrace>>

-----------------------------------------------------------------------------
(* The relay.                                                              *)

\* SMSG_ACTIVATE_TAXI_REPLY: a success is kept for the flight's first spline.
ActivateTaxiReply ==
    /\ packets # <<>> /\ Head(packets) \in {"ok", "refusal"} /\ packets' = Tail(packets)
    /\ taxiReplyPending' = (Head(packets) = "ok")
    /\ shown' = IF Head(packets) = "ok" THEN shown ELSE <<>>
    /\ UNCHANGED <<taxiPathGraph, menuVars, searchVars, flight, taxiLoginGrace, relogged, late>>

\* Mutant: only a reply makes a spline the flight's first.
StartsReplied == taxiReplyPending
StartsFlight == taxiReplyPending \/ taxiLoginGrace

\* SMSG_ON_MONSTER_MOVE of the character, a flight: two stopping splines and
\* the decorated one when it starts, then the success that was kept.
FlightSpline ==
    /\ packets # <<>> /\ Head(packets) = "fly" /\ packets' = Tail(packets)
    /\ shown' = shown \o (IF ~StartsFlight THEN <<"segment">>
                          ELSE IF taxiReplyPending THEN <<"start", "success">> ELSE <<"start">>)
    /\ taxiLoginGrace' = FALSE
    /\ taxiReplyPending' = FALSE
    /\ UNCHANGED <<taxiPathGraph, menuVars, searchVars, flight, relogged, late>>

\* A connection is lost and the character logs in again: PLAYER_LOGIN resets
\* the session, the new player object starts the grace, a flight goes on.
LoginAgain ==
    /\ ~relogged /\ relogged' = (flight > 0)
    /\ currentTaxiNode' = NoNode /\ usableTaxiNodes' = {} /\ UNCHANGED menus
    /\ taxiReplyPending' = FALSE /\ taxiLoginGrace' = TRUE
    /\ shown' = <<>> /\ packets' = IF flight > 0 THEN <<"fly">> ELSE <<>>
    /\ Idle /\ UNCHANGED <<taxiPathGraph, flight, late>>

\* A second passes.
GraceEnds ==
    /\ taxiLoginGrace /\ taxiLoginGrace' = FALSE
    /\ late' = (relogged /\ shown = <<>>)
    /\ UNCHANGED <<taxiPathGraph, menuVars, searchVars, flight, packets, taxiReplyPending,
                   shown, relogged>>

Next ==
    \/ \E n \in Nodes, usable \in Masks : ShowTaxiNodes(n, usable)
    \/ \E n \in Nodes : ActivateTaxi(n) \/ Visit(n)
    \/ Finish \/ RealmAccepts \/ RealmRefuses \/ NextSegment \/ Lands
    \/ ActivateTaxiReply \/ FlightSpline \/ LoginAgain \/ GraceEnds

Spec == Init /\ [][Next]_vars

-----------------------------------------------------------------------------
(* Properties.                                                             *)

\* The reference: all routes without a repeated node whose inner nodes are
\* usable, and what the cheapest paths along one cost.
Routes ==
    {r \in UNION {[1..k -> Nodes] : k \in 2..Cardinality(Nodes)} :
        /\ r[1] = search.source /\ r[Len(r)] = search.destination /\ IsInjective(r)
        /\ \A i \in 2..Len(r) - 1 : r[i] \in search.usable
        /\ \A i \in 1..Len(r) - 1 : \E e \in taxiPathGraph : e[1] = r[i] /\ e[2] = r[i + 1]}
Leg(from, to) ==
    LET costs == {Cost(e) : e \in {f \in taxiPathGraph : f[1] = from /\ f[2] = to}}
    IN CHOOSE c \in costs : \A d \in costs : c <= d
Price(r) ==
    LET upTo[i \in 1..Len(r)] == IF i = 1 THEN 0 ELSE upTo[i - 1] + Leg(r[i - 1], r[i])
    IN upTo[Len(r)]

\* Whatever ties the search breaks and whatever menus come meanwhile, the route
\* asked of the realm leads from the node of the menu of the request to the
\* destination over usable nodes, and none is cheaper; and a request is refused
\* only when there is no such route.
RouteCheapest ==
    /\ search.phase = "written" =>
          route \in Routes /\ \A r \in Routes : Price(route) <= Price(r)
    /\ search.phase = "refused" => Routes = {}

\* Of every flight the client is sent one start, first of all; then, unless it
\* logged in during the flight, the success, once and at once; and never another
\* start, whatever refusals, logins and earlier flights left behind.  Only a
\* flight whose spline takes more than a second after the login is not started.
FlightStartsOnce ==
    /\ \A i \in DOMAIN shown : /\ shown[i] = "start" => i = 1
                              /\ shown[i] = "success" <=> i = 2 /\ ~relogged
    /\ shown # <<>> => shown[1] = "start" \/ late
=============================================================================
