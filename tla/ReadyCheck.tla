----------------------------- MODULE ReadyCheck -----------------------------
(***************************************************************************)
(* A ready check of a raid whose members play through the proxy.  The 3.4.3 *)
(* client leaves the end of a check to the server, the 3.3.5 realm leaves   *)
(* it to the starter's client: the proxy of the starter writes it when its  *)
(* 30 s timer fires, unless the check's generation is no longer the         *)
(* session's.                                                               *)
(*                                                                          *)
(* Per session, three goroutines meet in readyCheckGeneration: the client's *)
(* (CMSG_DO_READY_CHECK), the relay and the timers'.  Each locked section   *)
(* and each write after it is a step.                                       *)
(***************************************************************************)
EXTENDS Naturals, Sequences, FiniteSets

CONSTANTS
    Members,    \* members of the raid
    Starters,   \* those who may start a check: the leader, assistants
    MaxChecks   \* bound: checks started, and logins

Constants == Starters \subseteq Members /\ MaxChecks \in Nat \ {0}

VARIABLES
    generation,  \* by session: readyCheckGeneration
    starting,    \* by session: the generation of a check not yet written, or 0
    timers,      \* running timers: the session and the generation each guards
    firing,      \* sessions whose timer found its generation and writes the end
    news,        \* packets the realm sent to a member's session
    present,     \* members logged in
    window,      \* by client: no check, one asked for, one shown
    checks,      \* checks and logins so far
    disturbed    \* history: the starter of a running check logged out, or a
                 \* check began before the last one's end was known

vars == <<generation, starting, timers, firing, news, present, window, checks, disturbed>>

NoCheck == 0

TypeOK ==
    /\ generation \in [Members -> Nat]
    /\ starting \in [Members -> Nat]
    /\ timers \subseteq Members \X Nat /\ firing \subseteq Members
    /\ news \in [Members -> Seq({"started", "finished", "logout"})]
    /\ present \subseteq Members
    /\ window \in [Members -> {"none", "asked", "shown"}]
    /\ checks \in 0..MaxChecks /\ disturbed \in BOOLEAN
    /\ \A m \in Members : starting[m] <= generation[m]
    /\ \A t \in timers : t[2] <= generation[t[1]]

Init ==
    /\ generation = [m \in Members |-> 0]
    /\ starting = [m \in Members |-> NoCheck]
    /\ timers = {} /\ firing = {}
    /\ news = [m \in Members |-> <<>>]
    /\ present = Members
    /\ window = [m \in Members |-> "none"]
    /\ checks = 0 /\ disturbed = FALSE

\* The realm tells every member who is logged in.
Broadcast(packet) ==
    news' = [m \in Members |-> IF m \in present THEN Append(news[m], packet) ELSE news[m]]

\* Another generation makes the timers of the ones before void.
NextGeneration(m) == generation' = [generation EXCEPT ![m] = @ + 1]

\* A check of this session has begun and its end is not written.
Running(m) ==
    starting[m] # NoCheck \/ <<m, generation[m]>> \in timers \/ m \in firing
\* A check of this session would begin before the last one's end reached it.
Overlaps(m) ==
    \/ \E n \in Members : Running(n)
    \/ \E i \in DOMAIN news[m] : news[m][i] = "finished"

-----------------------------------------------------------------------------
\* CMSG_DO_READY_CHECK, under the lock.  A client starts a check when it shows
\* none.
DoReadyCheck(m) ==
    /\ m \in Starters \cap present /\ window[m] = "none"
    /\ starting[m] = NoCheck /\ checks < MaxChecks
    /\ checks' = checks + 1
    /\ NextGeneration(m)
    /\ starting' = [starting EXCEPT ![m] = generation[m] + 1]
    /\ window' = [window EXCEPT ![m] = "asked"]
    /\ disturbed' = (disturbed \/ Overlaps(m))
    /\ UNCHANGED <<timers, firing, news, present>>

\* After the lock: MSG_RAID_READY_CHECK is written and the timer starts.
WriteReadyCheck(m) ==
    /\ starting[m] # NoCheck
    /\ starting' = [starting EXCEPT ![m] = NoCheck]
    /\ timers' = timers \cup {<<m, starting[m]>>}
    /\ Broadcast("started")
    /\ UNCHANGED <<generation, firing, present, window, checks, disturbed>>

\* Assumption: 30 s are longer than a packet takes to a client.
Delivered == \A m \in Members : news[m] = <<>>

\* The callback of scheduleLegacyReadyCheckFinish, under the lock.
\* Mutant: a check's timer is taken for that of the check before it.
GuardsNext(t) == generation[t[1]] = t[2] + 1
Guards(t) == generation[t[1]] = t[2]

TimerFires(t) ==
    /\ t \in timers /\ Delivered
    /\ timers' = timers \ {t}
    /\ IF Guards(t)
       THEN NextGeneration(t[1]) /\ firing' = firing \cup {t[1]}
       ELSE UNCHANGED <<generation, firing>>
    /\ UNCHANGED <<starting, news, present, window, checks, disturbed>>

\* After the lock: MSG_RAID_READY_CHECK_FINISHED, which the realm takes from a
\* member who is logged in.
WriteFinished(m) ==
    /\ m \in firing
    /\ firing' = firing \ {m}
    /\ IF m \in present THEN Broadcast("finished") ELSE UNCHANGED news
    /\ UNCHANGED <<generation, starting, timers, present, window, checks, disturbed>>

-----------------------------------------------------------------------------
(* The relay.                                                              *)

Handle(m, packet) ==
    /\ news[m] # <<>> /\ Head(news[m]) = packet
    /\ news' = [news EXCEPT ![m] = Tail(@)]

RelayStarted(m) ==
    /\ Handle(m, "started")
    /\ window' = [window EXCEPT ![m] = "shown"]
    /\ UNCHANGED <<generation, starting, timers, firing, present, checks, disturbed>>

RelayFinished(m) ==
    /\ Handle(m, "finished")
    /\ NextGeneration(m)
    /\ window' = [window EXCEPT ![m] = "none"]
    /\ UNCHANGED <<starting, timers, firing, present, checks, disturbed>>

Logout(m) ==
    /\ m \in present /\ starting[m] = NoCheck
    /\ present' = present \ {m}
    /\ news' = [news EXCEPT ![m] = Append(@, "logout")]
    /\ disturbed' = (disturbed \/ Running(m))
    /\ UNCHANGED <<generation, starting, timers, firing, window, checks>>

\* resetCharacterSessionLocked ends the session's own check without a word.
RelayLogout(m) ==
    /\ Handle(m, "logout")
    /\ NextGeneration(m)
    /\ window' = [window EXCEPT ![m] = "none"]
    /\ UNCHANGED <<starting, timers, firing, present, checks, disturbed>>

Login(m) ==
    /\ m \notin present /\ news[m] = <<>> /\ checks < MaxChecks
    /\ checks' = checks + 1
    /\ present' = present \cup {m}
    /\ UNCHANGED <<generation, starting, timers, firing, news, window, disturbed>>

Next ==
    \/ \E m \in Members :
          \/ DoReadyCheck(m) \/ WriteReadyCheck(m) \/ WriteFinished(m)
          \/ RelayStarted(m) \/ RelayFinished(m) \/ RelayLogout(m)
          \/ Logout(m) \/ Login(m)
    \/ \E t \in timers : TimerFires(t)

\* Every goroutine that is past its lock writes, the relays read on, and timers
\* fire.
Fairness ==
    /\ \A m \in Members :
          /\ WF_vars(WriteReadyCheck(m)) /\ WF_vars(WriteFinished(m))
          /\ WF_vars(RelayStarted(m) \/ RelayFinished(m) \/ RelayLogout(m))
    /\ WF_vars(\E t \in timers : TimerFires(t))

Spec == Init /\ [][Next]_vars
FairSpec == Spec /\ Fairness

\* A check that clients show ends for all of them: although a FINISHED, a logout or the session's
\* next check voids a timer, never that of a check which still runs.  Left out
\* are a starter who logs out, which ends the check for nobody else, and checks
\* that overlap, where the end of one voids the timer of the other.
CheckEnds ==
    (\E m \in Members : window[m] = "shown") ~>
        disturbed \/ \A m \in Members : window[m] # "shown"
=============================================================================
