----------------------------- MODULE SpellQueue -----------------------------
(***************************************************************************)
(* The cast queue of one session: how the proxy pairs the casts of a 3.4.3 *)
(* client, which waits for an answer to every cast ID, with the answers of  *)
(* a 3.3.5 realm, which name only a spell.                                  *)
(*                                                                          *)
(* Two goroutines share the state under worldMu: "client" reads the client  *)
(* (handleModernPlayPacket), "relay" reads the realm (relayLegacyWorld).    *)
(* Each changes the state in one locked section and writes its packets      *)
(* after the unlock, so a section leaves its packets in the goroutine's     *)
(* outbox, from which they leave one by one, interleaved with the other     *)
(* goroutine; a goroutine starts its next section when its outbox is empty. *)
(*                                                                          *)
(* Casts are numbered in the order the client sends them.  pendingCasts is  *)
(* only appended to and removed from, so the set of its members gives the   *)
(* slice: the lower number is nearer its head.                              *)
(***************************************************************************)
EXTENDS Naturals, Sequences, FiniteSets

CONSTANTS
    MaxCasts,      \* bound: how many casts the client sends
    PendingLimit,  \* trimPendingCastsLocked's limit, 8 in the code
    Spells,        \* spell IDs
    LowerRank,     \* pairs <<s, r>>: r is a lower rank of spell s
    Owners,        \* which of "player", "item", "pet" cast in this instance
    Dismissals,    \* which of "cancel", "cancelSpell", "logout" may happen
    ClockEdge,     \* may RetryDeadline pass between two readings of the clock
    NoSpell

ASSUME CastBounds == MaxCasts \in Nat \ {0} /\ PendingLimit \in Nat \ {0}
ASSUME SpellRanks == NoSpell \notin Spells /\ LowerRank \subseteq Spells \X Spells
ASSUME CastOwners == Owners \subseteq {"player", "item", "pet"}
ASSUME ClockEdgeType == ClockEdge \in BOOLEAN

Casts == 1..MaxCasts
NoCast == 0
Threads == {"client", "relay"}
Packets == {"prepare", "start", "go", "failed"}        \* to the client
Requests == {"cast", "cancel"}                         \* to the realm
Writes(casts) == [kind : Packets \cup Requests, cast : casts]

VARIABLES
    asked,        \* how many casts the client has sent
    spell, owner, \* what each of them asked for, and for whom
    answer,       \* the spell ID the realm uses for it: its own or a lower rank
    serverSpell,  \* PendingCast.ServerSpellID; NoSpell until Started
    pending,      \* proxySession.pendingCasts
    active,       \* spellQueue.active, by cast
    attempt,      \* the rest of the active SpellQueueAttempt
    held,         \* spellQueue.held
    retired,      \* spellQueue.retiredSpellID
    stale,        \* spellQueue.staleSpellID until staleUntil
    completed,    \* completedCastIDs
    outbox,       \* packets each goroutine has still to write
    requests,     \* the realm's input: casts written to it, oldest first
    casting,      \* casts the realm has started and not finished
    view,         \* history: what the client was last told of each cast
    answered,     \* history: the casts whose GO or failure was written
    sent,         \* history: the casts whose body was written to the realm
    dismissed     \* history: the casts the client gave up

castVars  == <<asked, spell, owner, answer>>
queueVars == <<serverSpell, pending, active, attempt, held, retired, stale, completed>>
realmVars == <<requests, casting>>
histVars  == <<view, answered, sent, dismissed>>
vars == <<castVars, queueVars, outbox, realmVars, histVars>>

-----------------------------------------------------------------------------
(* Helpers on casts and outgoing packets.                                   *)

Oldest(S) == IF S = {} THEN NoCast ELSE CHOOSE c \in S : \A d \in S : c <= d

Started(c) == serverSpell[c] # NoSpell
ActiveSpell == IF active = NoCast THEN NoSpell ELSE spell[active]
PendingSpell(c) == IF Started(c) THEN serverSpell[c] ELSE spell[c]

Packet(kind, c) == <<[kind |-> kind, cast |-> c]>>
When(condition, packets) == IF condition THEN packets ELSE <<>>

\* What the queue knows of its active cast (SpellQueueAttempt).  settled is
\* SettledSeq >= RetrySeq, retried is RetrySeq > 1, expired is RetryDeadline
\* passed, fresh is LastRetryAt less than the fuse ago.
Attempts == [started : BOOLEAN, inFlight : BOOLEAN, settled : BOOLEAN,
             retried : BOOLEAN, expired : BOOLEAN, fresh : BOOLEAN]

\* An attempt as enqueuePlayerCastLocked and promoteHeldLocked create it.
NewAttempt == [started |-> FALSE, inFlight |-> TRUE, settled |-> FALSE,
               retried |-> FALSE, expired |-> FALSE, fresh |-> TRUE]

\* The PREPARE that binds a cast whose START never came, ahead of its verdict.
Binding(c) == When(c # NoCast /\ ~Started(c), Packet("prepare", c))

\* The packets of takeAbandonedCastPacketsLocked; pets are told nothing.
\* Mutant: only casts the realm began are answered when they are dropped.
AbandonedIfStarted(c) ==
    When(c # NoCast /\ owner[c] # "pet" /\ Started(c), Packet("failed", c))
Abandoned(c) ==
    When(c # NoCast /\ owner[c] # "pet", Binding(c) \o Packet("failed", c))

-----------------------------------------------------------------------------
(* spell_cast_matching.go: which pending cast an answer belongs to.         *)

Find(s, start, accepted) ==
    LET same  == {c \in accepted : PendingSpell(c) = s}
        begun == {c \in same : Started(c)}
        fresh == same \ begun
    IN  IF /\ active \in same
           /\ ActiveSpell = s
           /\ IF start THEN active \in fresh ELSE active \in begun \/ begun = {}
        THEN active
        ELSE IF ~start /\ begun # {} THEN Oldest(begun) ELSE Oldest(fresh)

\* All casts have the same target here, so only their spells tell them apart.
FindDownrank(s) ==
    LET aliases == {c \in pending : /\ owner[c] = "player" /\ ~Started(c)
                                    /\ <<spell[c], s>> \in LowerRank}
    IN  IF \A c, d \in aliases : spell[c] = spell[d] THEN Oldest(aliases) ELSE NoCast

FailureMatch(s) ==
    LET found == Find(s, FALSE, {c \in pending : owner[c] # "pet"})
    IN  IF found # NoCast THEN found ELSE FindDownrank(s)

\* resolveSpellCastLocked's accepts: the casts an answer from caster may end.
\* An item that was used up leaves its started cast to its owner.
Accepted(caster, start) ==
    {c \in pending : \/ owner[c] = caster
                     \/ caster = "player" /\ owner[c] = "item" /\ ~start /\ Started(c)}

StartMatch(s, caster) ==
    LET found == Find(s, TRUE, Accepted(caster, TRUE))
    IN  IF found = NoCast /\ caster = "player" THEN FindDownrank(s) ELSE found

GoMatch(s, caster) == Find(s, FALSE, Accepted(caster, FALSE))

-----------------------------------------------------------------------------
Init ==
    /\ asked = 0
    /\ spell = [c \in Casts |-> NoSpell]
    /\ owner = [c \in Casts |-> "player"]
    /\ answer = [c \in Casts |-> NoSpell]
    /\ serverSpell = [c \in Casts |-> NoSpell]
    /\ pending = {}
    /\ active = NoCast /\ attempt = NewAttempt /\ held = NoCast
    /\ retired = NoSpell /\ stale = NoSpell
    /\ completed = [s \in Spells |-> NoCast]
    /\ outbox = [t \in Threads |-> <<>>]
    /\ requests = <<>> /\ casting = {}
    /\ view = [c \in Casts |-> "new"]
    /\ answered = {} /\ sent = {} /\ dismissed = {}

(* What the client learns from a packet about the cast it names.            *)
Tells(kind) == CASE kind = "prepare" -> "prepared" [] kind = "start"  -> "begun"
                 [] kind = "go"      -> "done"     [] kind = "failed" -> "failed"

(* A locked section of goroutine t that leaves packets to write.            *)
Section(t, packets) ==
    /\ outbox[t] = <<>>
    /\ outbox' = [outbox EXCEPT ![t] = packets]

SetActive(c) == active' = c /\ attempt' = NewAttempt

(* The active and the held cast are given up together.                      *)
\* Mutant: the held cast outlives the active one.
KeepHeld == SetActive(NoCast) /\ UNCHANGED held
DropQueue == SetActive(NoCast) /\ held' = NoCast

-----------------------------------------------------------------------------
(* The client goroutine: handleModernPlayPacket.                            *)

\* The cast trimPendingCastsLocked drops to make room: at most one, because
\* every handler that appends a cast trims first.
Evicted == IF Cardinality(pending) >= PendingLimit THEN Oldest(pending) ELSE NoCast

NewCast(c, s, o) ==
    /\ asked < MaxCasts /\ o \in Owners
    /\ asked' = c
    /\ spell' = [spell EXCEPT ![c] = s]
    /\ owner' = [owner EXCEPT ![c] = o]
    /\ \E r \in Spells :
          /\ r = s \/ (o = "player" /\ <<s, r>> \in LowerRank)
          /\ answer' = [answer EXCEPT ![c] = r]
    /\ view' = [view EXCEPT ![c] = "asked"]
    /\ UNCHANGED <<serverSpell, completed, realmVars, answered, sent, dismissed>>

\* The active cast is still there and asks for the same spell.
Competes == active \notin {NoCast, Evicted}
\* Mutant: holds a repeated spell only once the first one began.
HoldsOnceStarted(s) == Competes /\ ActiveSpell = s /\ attempt.started
Holds(s) == Competes /\ ActiveSpell = s

\* CMSG_CAST_SPELL: a spell that repeats the active one is held; another one
\* retires it and goes to the realm.  Both replace a held cast.
CastSpell(s) ==
    LET c        == asked + 1
        kept     == pending \ {Evicted}
        replaced == IF held \in kept THEN held ELSE NoCast
    IN  /\ NewCast(c, s, "player")
        /\ pending' = (kept \ {replaced}) \cup {c}
        /\ IF Holds(s) THEN held' = c /\ UNCHANGED <<active, attempt>>
                       ELSE held' = NoCast /\ SetActive(c)
        /\ IF Competes /\ ~Holds(s) THEN retired' = ActiveSpell /\ stale' = ActiveSpell
                                    ELSE UNCHANGED <<retired, stale>>
        /\ Section("client", Abandoned(Evicted) \o Abandoned(replaced)
                                \o When(~Holds(s), Packet("cast", c)))

\* The queue no longer names a cast that trimPendingCastsLocked drops.
Forget(c) ==
    /\ IF c # NoCast /\ active = c THEN SetActive(NoCast) ELSE UNCHANGED <<active, attempt>>
    /\ held' = IF held = c THEN NoCast ELSE held

\* CMSG_USE_ITEM and CMSG_PET_CAST_SPELL wait in pendingCasts like a cast but
\* never pass through the queue.
OtherCast(s, o) ==
    LET c == asked + 1
    IN  /\ NewCast(c, s, o)
        /\ pending' = (pending \ {Evicted}) \cup {c}
        /\ Forget(Evicted)
        /\ UNCHANGED <<retired, stale>>
        /\ Section("client", Abandoned(Evicted) \o Packet("cast", c))

UseItem(s) == OtherCast(s, "item")
PetCastSpell(s) == OtherCast(s, "pet")

\* The packets of a cancel: the held cast that was dropped is answered.
\* Mutant: the held cast a cancel drops is not answered.
CancelSilently(dropped) == Packet("cancel", active)
CancelPackets(dropped) == Abandoned(dropped) \o Packet("cancel", active)

\* cancelSpellQueueLocked, active cast matched: it is retired and dropped, the
\* held one is dropped and answered.
CancelActive(c) ==
    /\ retired' = ActiveSpell
    /\ pending' = pending \ {active, held, c}
    /\ DropQueue
    /\ dismissed' = dismissed \cup {active, c}
    /\ Section("client", CancelPackets(IF held \in pending \ {active} THEN held ELSE NoCast))

\* CMSG_CANCEL_CAST with a cast ID.
CancelCast(c) ==
    /\ "cancel" \in Dismissals
    /\ c \in 1..asked \ (dismissed \cup answered)
    /\ \/ active = c /\ CancelActive(c)
       \/ /\ active # c /\ held = c
          /\ held' = NoCast
          /\ pending' = pending \ {c}
          /\ dismissed' = dismissed \cup {c}
          /\ Section("client", <<>>)
          /\ UNCHANGED <<active, attempt, retired>>
       \/ /\ active # c /\ held # c
          /\ pending' = pending \ {c}
          /\ dismissed' = dismissed \cup {c}
          /\ Section("client", Packet("cancel", c))
          /\ UNCHANGED <<active, attempt, held, retired>>
    /\ UNCHANGED <<castVars, serverSpell, stale, completed, realmVars, view, answered, sent>>

\* CMSG_CANCEL_CAST without a cast ID names the active cast by its spell.
CancelSpell(s) ==
    /\ "cancelSpell" \in Dismissals
    /\ ActiveSpell = s
    /\ CancelActive(active)
    /\ UNCHANGED <<castVars, serverSpell, stale, completed, realmVars, view, answered, sent>>

\* PLAYER_LOGIN (client), or resetCharacterSessionLocked by LOGOUT_COMPLETE
\* (relay): every cast of the character is forgotten without an answer.
ResetCharacter(t) ==
    /\ "logout" \in Dismissals
    /\ pending' = {} /\ DropQueue
    /\ retired' = NoSpell /\ stale' = NoSpell
    /\ completed' = [s \in Spells |-> NoCast]
    /\ dismissed' = dismissed \cup 1..asked
    /\ Section(t, <<>>)
    /\ UNCHANGED <<castVars, serverSpell, realmVars, view, answered, sent>>

ClientSection ==
    \/ \E s \in Spells : CastSpell(s) \/ UseItem(s) \/ PetCastSpell(s) \/ CancelSpell(s)
    \/ \E c \in Casts : CancelCast(c)
    \/ ResetCharacter("client")

-----------------------------------------------------------------------------
(* The relay goroutine: relayLegacyWorld.                                   *)

\* promoteHeldLocked, after the active attempt ended: the held cast becomes
\* the active one and its body is written to the realm behind the answer.
Promotes(rest) == held \in rest /\ ~Started(held)
\* Mutant: the ended attempt stays active when nothing is held.
EndOnlyToPromote(rest, answers) ==
    /\ IF Promotes(rest) THEN SetActive(held) ELSE UNCHANGED <<active, attempt>>
    /\ held' = NoCast
    /\ Section("relay", answers \o When(Promotes(rest), Packet("cast", held)))
\* Mutant: the promoted cast stays held.
EndAndHoldOn(rest, answers) ==
    /\ SetActive(IF Promotes(rest) THEN held ELSE NoCast)
    /\ UNCHANGED held
    /\ Section("relay", answers \o When(Promotes(rest), Packet("cast", held)))
EndActive(rest, answers) ==
    /\ SetActive(IF Promotes(rest) THEN held ELSE NoCast)
    /\ held' = NoCast
    /\ Section("relay", answers \o When(Promotes(rest), Packet("cast", held)))

\* A cast leaves pendingCasts with its answer (usePendingCastLocked).
\* Mutant: the answered cast stays in pendingCasts.
ConsumeNothing(c, s) == UNCHANGED <<pending, completed>>
\* Mutant: completedCastIDs keeps the spell instead of the cast.
ConsumeSwapped(c, s) ==
    /\ pending' = pending \ {c}
    /\ completed' = IF owner[c] = "pet" THEN completed
                    ELSE [completed EXCEPT ![spell[c]] = s]
Consume(c, s) ==
    /\ pending' = pending \ {c}
    /\ completed' = IF owner[c] = "pet" THEN completed
                    ELSE [completed EXCEPT ![spell[c]] = c, ![s] = c]

\* SMSG_SPELL_START of spell s by caster.  The packet of an answer nothing
\* pending matches carries a made-up cast ID and is not modelled.
SpellStart(s, caster) ==
    LET c == StartMatch(s, caster)
    IN  /\ IF c = NoCast
           THEN UNCHANGED <<serverSpell, attempt>> /\ Section("relay", <<>>)
           ELSE /\ serverSpell' = [serverSpell EXCEPT ![c] = s]
                /\ attempt' = IF c = active
                              THEN [attempt EXCEPT !.started = TRUE, !.inFlight = FALSE,
                                                   !.settled = TRUE]
                              ELSE attempt
                /\ Section("relay", Packet("prepare", c) \o Packet("start", c))
        /\ UNCHANGED <<pending, active, held, retired, stale, completed>>

\* SMSG_SPELL_GO: the matched cast is done; if it was the active one, the held
\* cast takes its place.
SpellGo(s, caster) ==
    LET c       == GoMatch(s, caster)
        answers == Binding(c) \o Packet("go", c)
    IN  /\ IF c = NoCast
           THEN /\ completed' = IF caster = "pet" THEN completed
                                ELSE [completed EXCEPT ![s] = NoCast]
                /\ Section("relay", <<>>)
                /\ UNCHANGED <<pending, active, attempt, held>>
           ELSE /\ Consume(c, s)
                /\ IF c = active
                   THEN EndActive(pending \ {c}, answers)
                   ELSE Section("relay", answers) /\ UNCHANGED <<active, attempt, held>>
        /\ UNCHANGED <<serverSpell, retired, stale>>

\* dropRetiredFailureLocked
DropsRetired(s, reason) ==
    /\ reason = "notReady" /\ retired = s
    /\ ~\E c \in pending : owner[c] # "pet" /\ spell[c] = s /\ ~Started(c)
    /\ \/ ActiveSpell # s
       \/ ~attempt.retried /\ attempt.inFlight /\ stale = s

\* attemptMatchesFailureLocked
AnswersActive(s) ==
    /\ active # NoCast
    /\ FailureMatch(s) = active \/ (FailureMatch(s) = NoCast /\ ActiveSpell = s)

\* swallowCastFailedLocked found the active attempt and a retryable reason.
ActiveNotReady(s, reason) ==
    reason = "notReady" /\ ~DropsRetired(s, reason) /\ AnswersActive(s)

ActiveBegun(s) == attempt.started \/ (FailureMatch(s) = active /\ Started(active))

\* The failure that the retry of the last 50 ms got, or one past the deadline.
\* Mutant: an expired deadline does not end the retries.
RetryForever == attempt.inFlight /\ attempt.retried /\ attempt.fresh
FinalNotReady == (attempt.inFlight /\ attempt.retried /\ attempt.fresh) \/ attempt.expired

\* The failure is swallowed and nothing is sent: it is about a retired cast,
\* the active cast has started, or this send was settled before.
SwallowFailure(s, reason) ==
    /\ \/ DropsRetired(s, reason) /\ UNCHANGED attempt
       \/ /\ ActiveNotReady(s, reason) /\ ActiveBegun(s)
          /\ attempt' = [attempt EXCEPT !.started = TRUE]
       \/ /\ ActiveNotReady(s, reason) /\ ~ActiveBegun(s)
          /\ attempt.settled /\ UNCHANGED attempt
    /\ Section("relay", <<>>)
    /\ UNCHANGED <<pending, active, held, completed>>

\* The cast whose body spellQueueRetryBodyLocked returns.
\* Mutant: the retry sends the newest body of the spell.
RetriesNewest == IF held # NoCast THEN held ELSE active
Retries == active

\* The failure is swallowed and the body is sent again,
\* unless the second reading of the clock finds the deadline passed.
RetryCast(s, reason) ==
    /\ ActiveNotReady(s, reason) /\ ~ActiveBegun(s)
    /\ ~attempt.settled /\ ~FinalNotReady
    /\ \/ /\ active \in pending /\ ~Started(active)
          /\ attempt' = [attempt EXCEPT !.inFlight = TRUE, !.settled = FALSE,
                                        !.retried = TRUE, !.fresh = TRUE]
          /\ Section("relay", Packet("cast", Retries))
       \/ /\ ClockEdge
          /\ attempt' = [attempt EXCEPT !.inFlight = FALSE, !.settled = TRUE,
                                        !.expired = TRUE]
          /\ Section("relay", <<>>)
    /\ UNCHANGED <<pending, active, held, completed>>

\* The failure ends the cast it matches.  failSpellQueueLocked ends the active
\* attempt for a failure of any cast of its spell.  A failure that matches
\* nothing pending goes out under the last completed cast of the spell.
DeliverFailure(s, reason) ==
    LET c       == FailureMatch(s)
        blamed  == IF c # NoCast THEN c ELSE completed[s]
        answers == Binding(c) \o When(blamed # NoCast, Packet("failed", blamed))
    IN  /\ ~DropsRetired(s, reason)
        /\ ActiveNotReady(s, reason) =>
              ~ActiveBegun(s) /\ ~attempt.settled /\ FinalNotReady
        /\ IF c # NoCast THEN Consume(c, s) ELSE UNCHANGED <<pending, completed>>
        /\ IF c # NoCast /\ (active = c \/ ActiveSpell = spell[c])
           THEN EndActive(pending \ {c}, answers)
           ELSE Section("relay", answers) /\ UNCHANGED <<active, attempt, held>>

\* SMSG_CAST_FAILED
CastFailed(s, reason) ==
    /\ \/ SwallowFailure(s, reason)
       \/ RetryCast(s, reason)
       \/ DeliverFailure(s, reason)
    /\ UNCHANGED <<serverSpell, retired, stale>>

\* SMSG_PET_CAST_FAILED names no caster, so it is matched to pet casts only.
PetCastFailed(s) ==
    LET c == Find(s, FALSE, {p \in pending : owner[p] = "pet"})
    IN  /\ pending' = pending \ {c}
        /\ Section("relay", When(c # NoCast, Packet("failed", c)))
        /\ UNCHANGED <<serverSpell, active, attempt, held, retired, stale, completed>>

-----------------------------------------------------------------------------
(* The realm (external).  It handles the casts it is sent in order and      *)
(* answers each one: it fails it, or starts it and finishes or interrupts   *)
(* it later, or finishes it at once.  Player and pet cast one spell at a    *)
(* time.  It answers at any time, so the answer and its handling by the     *)
(* relay are one step.                                                      *)

CasterOf(c) == IF owner[c] = "pet" THEN "pet" ELSE "player"
Idle(c) == \A d \in casting : CasterOf(d) # CasterOf(c)

Fails(c, reason) ==
    IF owner[c] = "pet" THEN PetCastFailed(answer[c]) ELSE CastFailed(answer[c], reason)

RealmFails ==
    /\ requests # <<>>
    /\ \E reason \in {"notReady", "other"} : Fails(Head(requests), reason)
    /\ requests' = Tail(requests)
    /\ UNCHANGED casting

RealmStarts ==
    /\ requests # <<>> /\ Idle(Head(requests))
    /\ SpellStart(answer[Head(requests)], owner[Head(requests)])
    /\ requests' = Tail(requests)
    /\ casting' = casting \cup {Head(requests)}

RealmFinishesAtOnce ==
    /\ requests # <<>>
    /\ SpellGo(answer[Head(requests)], owner[Head(requests)])
    /\ requests' = Tail(requests)
    /\ UNCHANGED casting

\* An item whose charges are gone is no longer named as the caster.
RealmFinishes ==
    \E c \in casting : \E caster \in {owner[c], CasterOf(c)} :
        /\ SpellGo(answer[c], caster)
        /\ casting' = casting \ {c}
        /\ UNCHANGED requests

RealmInterrupts ==
    \E c \in casting :
        /\ Fails(c, "other")
        /\ casting' = casting \ {c}
        /\ UNCHANGED requests

RelaySection ==
    \/ /\ RealmFails \/ RealmStarts \/ RealmFinishesAtOnce \/ RealmFinishes \/ RealmInterrupts
       /\ UNCHANGED <<castVars, histVars>>
    \/ ResetCharacter("relay")

-----------------------------------------------------------------------------
(* A goroutine writes its next packet: sendInstance or WritePacket.         *)
Write(t) ==
    LET packet == Head(outbox[t])
    IN  /\ outbox[t] # <<>>
        /\ outbox' = [outbox EXCEPT ![t] = Tail(@)]
        /\ IF packet.kind \in Packets
           THEN view' = [view EXCEPT ![packet.cast] = Tells(packet.kind)]
           ELSE UNCHANGED view
        /\ answered' = IF packet.kind \in {"go", "failed"}
                       THEN answered \cup {packet.cast} ELSE answered
        /\ IF packet.kind = "cast"
           THEN requests' = Append(requests, packet.cast) /\ sent' = sent \cup {packet.cast}
           ELSE UNCHANGED <<requests, sent>>
        /\ UNCHANGED <<castVars, queueVars, casting, dismissed>>

(* Time passes: the 1500 ms retry lifetime and the two 50 ms fuses.         *)
DeadlinePasses ==
    /\ active # NoCast /\ ~attempt.expired
    /\ attempt' = [attempt EXCEPT !.expired = TRUE]
    /\ UNCHANGED stale

FuseBurns ==
    \/ /\ active # NoCast /\ attempt.fresh
       /\ attempt' = [attempt EXCEPT !.fresh = FALSE]
       /\ UNCHANGED stale
    \/ stale # NoSpell /\ stale' = NoSpell /\ UNCHANGED attempt

TimePasses ==
    /\ DeadlinePasses \/ FuseBurns
    /\ UNCHANGED <<castVars, serverSpell, pending, active, held, retired, completed,
                   outbox, realmVars, histVars>>

Next == ClientSection \/ RelaySection \/ TimePasses \/ \E t \in Threads : Write(t)

Spec == Init /\ [][Next]_vars

-----------------------------------------------------------------------------
(* Fairness: both goroutines run, the realm answers what it was sent and    *)
(* ends what it started, and time passes.  The client owes nothing.         *)
RealmAnswers == RealmFails \/ RealmStarts \/ RealmFinishesAtOnce
RealmEnds == RealmFinishes \/ RealmInterrupts
Fairness ==
    /\ \A t \in Threads : WF_vars(Write(t))
    /\ WF_vars(RealmAnswers /\ UNCHANGED <<castVars, histVars>>)
    /\ WF_vars(RealmEnds /\ UNCHANGED <<castVars, histVars>>)
    /\ WF_vars(DeadlinePasses /\ TimePasses)

FairSpec == Spec /\ Fairness

-----------------------------------------------------------------------------
(* Properties.                                                              *)

\* Every variable has its type.
TypeOK ==
    /\ asked \in 0..MaxCasts
    /\ spell \in [Casts -> Spells \cup {NoSpell}]
    /\ owner \in [Casts -> {"player", "item", "pet"}]
    /\ answer \in [Casts -> Spells \cup {NoSpell}]
    /\ serverSpell \in [Casts -> Spells \cup {NoSpell}]
    /\ pending \subseteq Casts
    /\ active \in Casts \cup {NoCast}
    /\ attempt \in Attempts
    /\ held \in Casts \cup {NoCast}
    /\ retired \in Spells \cup {NoSpell}
    /\ stale \in Spells \cup {NoSpell}
    /\ completed \in [Spells -> Casts \cup {NoCast}]
    /\ outbox \in [Threads -> Seq(Writes(Casts))]
    /\ requests \in Seq(Casts)
    /\ casting \subseteq Casts
    /\ view \in [Casts -> {"new", "asked", "prepared", "begun", "done", "failed"}]
    /\ answered \subseteq Casts
    /\ sent \subseteq Casts
    /\ dismissed \subseteq Casts

CastsIn(packets, kind) ==
    {packets[i].cast : i \in {j \in 1..Len(packets) : packets[j].kind = kind}}
Queued(t, kind) == CastsIn(outbox[t], kind)

\* The active attempt is a player's cast that is still in pendingCasts, and
\* its flags agree with that cast: removing a cast from the list in any of the
\* seven places that do must also clear the attempt.
ActiveTracked ==
    active # NoCast =>
        /\ active \in pending /\ owner[active] = "player"
        /\ attempt.started = Started(active)
        /\ attempt.settled = ~attempt.inFlight
        /\ attempt.started => attempt.settled

\* The held cast is a player's pending cast that the realm has not begun.
HeldTracked ==
    held # NoCast =>
        /\ held # active
        /\ held \in pending /\ owner[held] = "player"
        /\ ~Started(held)

\* Nothing names a cast the client has not sent, and the casts it sent name
\* spells: with ActiveTracked and the start of HeldTracked, what the proofs need.
QueueInv ==
    /\ pending \subseteq 1..asked
    /\ held \in 0..asked
    /\ completed \in [Spells -> 0..asked]
    /\ outbox \in [Threads -> Seq(Writes(1..asked))]
    /\ requests \in Seq(1..asked)
    /\ casting \subseteq 1..asked
    /\ sent \subseteq 1..asked
    /\ \A c \in 1..asked : spell[c] \in Spells /\ answer[c] \in Spells
    /\ \A c \in Casts \ 1..asked : serverSpell[c] = NoSpell
    /\ held # NoCast => held # active /\ owner[held] = "player"
    /\ ActiveTracked

\* A held cast was never written to the realm and is not about to be: it is
\* released once, not twice.
HeldUnsent ==
    held # NoCast => held \notin sent /\ \A t \in Threads : held \notin Queued(t, "cast")

\* A held cast waits for an active cast of its own spell, whose end releases it.
HeldBehindActive == held # NoCast => ActiveSpell = spell[held]

\* pendingCasts never outgrows its limit.
PendingBounded == Cardinality(pending) <= PendingLimit

\* Every cast the client waits for can still be answered: it is in
\* pendingCasts, or its answer was written, or is about to be.  (A pet's
\* cast that trimPendingCastsLocked evicts is dropped without an answer.)
NothingForgotten ==
    \A c \in 1..asked :
        \/ c \in pending \cup answered \cup dismissed
        \/ \E t \in Threads : c \in Queued(t, "go") \cup Queued(t, "failed")
        \/ owner[c] = "pet"

\* The realm never holds two unanswered casts of one spell from the queue.
OneRequestPerSpell ==
    \A i, j \in 1..Len(requests) :
        /\ i # j
        /\ owner[requests[i]] = "player" /\ owner[requests[j]] = "player"
        => spell[requests[i]] # spell[requests[j]]

\* The client is told of each cast what CastLifecycle promises, in that order.
Lifecycle == INSTANCE CastLifecycle WITH phase <- view
LifecycleHonoured == Lifecycle!LifecycleSpec

\* Every cast is answered in the end, unless the client gives it up.
EveryCastAnswered ==
    \A c \in Casts : view[c] = "asked" ~> c \in answered \cup dismissed
=============================================================================
