-------------------------- MODULE SpellQueueProofs --------------------------
(***************************************************************************)
(* Theorems about the cast queue, for any number of casts, spells, ranks,  *)
(* pending limit and way of dismissing casts.                               *)
(***************************************************************************)
EXTENDS SpellQueue, FiniteSetTheorems, WellFoundedInduction, TLAPS

-----------------------------------------------------------------------------
(* The operators the queue is built from.                                   *)

LEMMA CastsAreNumbers == Casts \subseteq Nat /\ NoCast \notin Casts
BY CastBounds DEF Casts, NoCast

\* The head of pendingCasts exists whenever the list is not empty: a set of
\* numbers has a least one.
LEMMA OldestMember ==
    ASSUME NEW S \in SUBSET Nat
    PROVE  S # {} => Oldest(S) \in S
<1> SUFFICES ASSUME S # {} PROVE Oldest(S) \in S
    OBVIOUS
<1> DEFINE T == {1..n : n \in S}
<1>1. T \subseteq FiniteSubsetsOf(Nat) /\ T # {}
  <2>1. \A n \in S : 1..n \in SUBSET Nat
    OBVIOUS
  <2>2. \A n \in S : IsFiniteSet(1..n)
    BY FS_Interval
  <2> QED BY <2>1, <2>2 DEF FiniteSubsetsOf
<1>2. PICK t \in T : \A u \in T : <<u, t>> \notin StrictSubsetOrdering(Nat)
  <2> HIDE DEF T
  <2> QED BY <1>1, FS_StrictSubsetOrderingWellFounded, WFMin, Zenon
<1>3. PICK x \in S : t = 1..x
  OBVIOUS
<1>4. \A y \in S : x <= y
  <2> SUFFICES ASSUME NEW y \in S, y < x PROVE FALSE
    OBVIOUS
  <2>1. 1..y \in T /\ 1..y \subseteq 1..x /\ x \in 1..x /\ x \notin 1..y
    OBVIOUS
  <2>2. <<1..y, 1..x>> \in StrictSubsetOrdering(Nat)
    BY <2>1 DEF StrictSubsetOrdering
  <2> QED BY <2>1, <2>2, <1>2, <1>3
<1> QED BY <1>4 DEF Oldest

\* An answer is matched to one of the casts it may be matched to, or to none.
LEMMA FindMember ==
    ASSUME NEW S \in SUBSET Casts, NEW s, NEW start \in BOOLEAN
    PROVE  Find(s, start, S) \in S \cup {NoCast}
<1> DEFINE same  == {c \in S : PendingSpell(c) = s}
           begun == {c \in same : Started(c)}
           fresh == same \ begun
<1>1. same \subseteq S /\ begun \subseteq S /\ fresh \subseteq S
  OBVIOUS
<1>2. S \subseteq Nat
  BY CastsAreNumbers
<1>3. Oldest(begun) \in S \cup {NoCast} /\ Oldest(fresh) \in S \cup {NoCast}
  <2> HIDE DEF same, begun, fresh
  <2> QED BY <1>1, <1>2, OldestMember DEF Oldest
<1>4. Find(s, start, S) \in {active, Oldest(begun), Oldest(fresh)}
      /\ (Find(s, start, S) = active => active \in same \/ Oldest(begun) = active \/ Oldest(fresh) = active)
  BY DEF Find
<1> HIDE DEF same, begun, fresh
<1> QED BY <1>1, <1>3, <1>4

LEMMA FindDownrankMember ==
    ASSUME NEW s, pending \subseteq Casts
    PROVE  /\ FindDownrank(s) \in pending \cup {NoCast}
           /\ FindDownrank(s) # NoCast => owner[FindDownrank(s)] = "player"
<1> DEFINE aliases == {c \in pending : /\ owner[c] = "player" /\ ~Started(c)
                                       /\ <<spell[c], s>> \in LowerRank}
<1>1. aliases \subseteq pending /\ aliases \in SUBSET Nat /\ \A c \in aliases : owner[c] = "player"
  BY CastsAreNumbers
<1>2. FindDownrank(s) \in {Oldest(aliases), NoCast}
  BY DEF FindDownrank
<1>3. Oldest(aliases) \in aliases \cup {NoCast}
  <2> HIDE DEF aliases
  <2> QED BY <1>1, OldestMember DEF Oldest
<1> HIDE DEF aliases
<1> QED BY <1>1, <1>2, <1>3

\* Every matcher answers with a pending cast or none; a failure never with a
\* pet's cast.
LEMMA MatchMember ==
    ASSUME NEW s, NEW caster, pending \subseteq Casts
    PROVE  /\ StartMatch(s, caster) \in pending \cup {NoCast}
           /\ GoMatch(s, caster) \in pending \cup {NoCast}
           /\ FailureMatch(s) \in pending \cup {NoCast}
           /\ FailureMatch(s) # NoCast => owner[FailureMatch(s)] # "pet"
<1>1. \A start \in BOOLEAN : Accepted(caster, start) \in SUBSET Casts
                             /\ Accepted(caster, start) \subseteq pending
  BY DEF Accepted
<1>2. \A start \in BOOLEAN : Find(s, start, Accepted(caster, start)) \in pending \cup {NoCast}
  BY <1>1, FindMember
<1>3. StartMatch(s, caster) \in {Find(s, TRUE, Accepted(caster, TRUE)), FindDownrank(s)}
  BY DEF StartMatch
<1>4. StartMatch(s, caster) \in pending \cup {NoCast}
  BY <1>2, <1>3, FindDownrankMember
<1>5. GoMatch(s, caster) \in pending \cup {NoCast}
  BY <1>2 DEF GoMatch
<1> DEFINE others == {c \in pending : owner[c] # "pet"}
<1>6. Find(s, FALSE, others) \in others \cup {NoCast}
  BY FindMember
<1>7. FailureMatch(s) \in {Find(s, FALSE, others), FindDownrank(s)}
  BY DEF FailureMatch
<1>8. /\ FailureMatch(s) \in pending \cup {NoCast}
      /\ FailureMatch(s) # NoCast => owner[FailureMatch(s)] # "pet"
  BY <1>6, <1>7, FindDownrankMember
<1> QED BY <1>4, <1>5, <1>8

LEMMA EvictedMember ==
    ASSUME pending \subseteq Casts
    PROVE  Evicted \in pending \cup {NoCast}
<1>1. pending \in SUBSET Nat
  BY CastsAreNumbers
<1> QED BY <1>1, OldestMember DEF Evicted, Oldest

-----------------------------------------------------------------------------
(* Outgoing packets: they name only casts the client has sent.              *)

LEMMA SeqMonotone ==
    ASSUME NEW S, NEW T, S \subseteq T
    PROVE  Seq(S) \subseteq Seq(T)
OBVIOUS

LEMMA HeadAndTail ==
    ASSUME NEW S, NEW q \in Seq(S), q # <<>>
    PROVE  Head(q) \in S /\ Tail(q) \in Seq(S)
OBVIOUS

LEMMA WritesMonotone ==
    ASSUME NEW S, NEW T, S \subseteq T
    PROVE  Seq(Writes(S)) \subseteq Seq(Writes(T))
<1>1. Writes(S) \subseteq Writes(T)
  BY DEF Writes
<1> QED BY <1>1, SeqMonotone

LEMMA PacketType ==
    ASSUME NEW S, NEW kind \in Packets \cup Requests, NEW c, NEW condition \in BOOLEAN,
           condition => c \in S
    PROVE  When(condition, Packet(kind, c)) \in Seq(Writes(S))
<1>1. condition => [kind |-> kind, cast |-> c] \in Writes(S)
  BY DEF Writes
<1> QED BY <1>1 DEF When, Packet

LEMMA BindingType ==
    ASSUME NEW S, NEW c \in S \cup {NoCast}
    PROVE  Binding(c) \in Seq(Writes(S))
<1>1. (c # NoCast /\ ~Started(c)) \in BOOLEAN /\ "prepare" \in Packets \cup Requests
  BY DEF Packets
<1> QED BY <1>1, PacketType DEF Binding

LEMMA AbandonedType ==
    ASSUME NEW S, NEW c \in S \cup {NoCast}
    PROVE  Abandoned(c) \in Seq(Writes(S))
<1> DEFINE told == c # NoCast /\ owner[c] # "pet"
<1>1. CASE told
  <2>1. c \in S
    BY <1>1
  <2>2. Binding(c) \in Seq(Writes(S))
    BY BindingType
  <2>3. Packet("failed", c) \in Seq(Writes(S))
    BY <2>1 DEF Packet, Writes, Packets
  <2>4. Abandoned(c) = Binding(c) \o Packet("failed", c)
    BY <1>1 DEF Abandoned, When
  <2> QED BY <2>2, <2>3, <2>4
<1>2. CASE ~told
  BY <1>2 DEF Abandoned, When
<1> QED BY <1>1, <1>2

LEMMA SectionType ==
    ASSUME NEW S, NEW T, S \subseteq T, NEW t, NEW packets \in Seq(Writes(T)),
           outbox \in [Threads -> Seq(Writes(S))], Section(t, packets)
    PROVE  outbox' \in [Threads -> Seq(Writes(T))]
<1>1. Seq(Writes(S)) \subseteq Seq(Writes(T))
  BY WritesMonotone
<1> QED BY <1>1 DEF Section

-----------------------------------------------------------------------------
(* Type correctness and the inductive invariant.                            *)

IInv == TypeOK /\ QueueInv

LEMMA InitIInv == Init => IInv
<1> SUFFICES ASSUME Init PROVE IInv
    OBVIOUS
<1>1. 1..asked = {} /\ NoCast \notin Casts /\ MaxCasts \in Nat
  BY CastsAreNumbers, CastBounds DEF Init
<1>2. TypeOK
  BY <1>1 DEF Init, TypeOK, NewAttempt, Attempts, Threads, NoCast
<1>3. QueueInv
  BY <1>1, SpellRanks DEF Init, QueueInv, ActiveTracked, NoCast, Casts
<1> QED BY <1>2, <1>3 DEF IInv

\* A goroutine writes a packet.
LEMMA WriteStep ==
    ASSUME IInv, NEW t \in Threads, Write(t)
    PROVE  IInv'
<1> DEFINE packet == Head(outbox[t])
<1>1. packet \in Writes(1..asked) /\ Tail(outbox[t]) \in Seq(Writes(1..asked))
  BY DEF IInv, QueueInv, Write
<1>2. packet.cast \in 1..asked /\ packet.kind \in Packets \cup Requests
  BY <1>1 DEF Writes
<1>3. 1..asked \subseteq Casts /\ UNCHANGED <<castVars, queueVars, casting, dismissed>>
  BY CastBounds DEF IInv, TypeOK, Casts, Write
<1>4. outbox' \in [Threads -> Seq(Writes(1..asked))]
  BY <1>1 DEF IInv, QueueInv, Write
<1>5. requests' \in Seq(1..asked) /\ sent' \subseteq 1..asked
  <2>1. requests' \in {requests, Append(requests, packet.cast)}
        /\ sent' \in {sent, sent \cup {packet.cast}}
    BY DEF Write
  <2>2. requests \in Seq(1..asked) /\ sent \subseteq 1..asked
    BY DEF IInv, QueueInv
  <2> HIDE DEF packet
  <2>3. Append(requests, packet.cast) \in Seq(1..asked)
    BY <1>2, <2>2
  <2> QED BY <1>2, <2>1, <2>2, <2>3
<1>6. view' \in [Casts -> {"new", "asked", "prepared", "begun", "done", "failed"}]
  BY <1>2, <1>3 DEF IInv, TypeOK, Write, Tells, Packets
<1>7. answered' \subseteq Casts
  BY <1>2, <1>3 DEF IInv, TypeOK, Write
<1>8. /\ outbox' \in [Threads -> Seq(Writes(Casts))]
      /\ requests' \in Seq(Casts) /\ sent' \subseteq Casts
  BY <1>3, <1>4, <1>5, WritesMonotone, SeqMonotone
<1>9. TypeOK'
  BY <1>3, <1>6, <1>7, <1>8 DEF IInv, TypeOK, castVars, queueVars
<1>10. QueueInv'
  <2>1. ActiveTracked'
    BY <1>3 DEF IInv, QueueInv, ActiveTracked, Started, castVars, queueVars
  <2> QED BY <1>3, <1>4, <1>5, <2>1 DEF IInv, QueueInv, castVars, queueVars
<1> QED BY <1>9, <1>10 DEF IInv

\* What a locked section must keep of the queue, and what its packets name.
QueueShape ==
    /\ serverSpell \in [Casts -> Spells \cup {NoSpell}]
    /\ \A c \in Casts \ 1..asked : serverSpell[c] = NoSpell
    /\ pending \subseteq 1..asked
    /\ active \in Casts \cup {NoCast}
    /\ attempt \in Attempts
    /\ held \in 0..asked
    /\ held # NoCast => held # active /\ owner[held] = "player"
    /\ retired \in Spells \cup {NoSpell}
    /\ stale \in Spells \cup {NoSpell}
    /\ completed \in [Spells -> 0..asked]
    /\ ActiveTracked
OutboxShape == outbox \in [Threads -> Seq(Writes(1..asked))]

LEMMA ShapeFromIInv ==
    ASSUME IInv
    PROVE  /\ QueueShape /\ OutboxShape
           /\ asked \in Nat /\ asked \in 0..MaxCasts /\ 1..asked \subseteq Casts /\ pending \subseteq Casts
           /\ NoCast \notin 1..asked
BY CastBounds DEF IInv, TypeOK, QueueInv, QueueShape, OutboxShape, Casts, NoCast

\* A step that leaves the casts alone and keeps the shapes keeps IInv.
LEMMA ShapeToIInv ==
    ASSUME IInv, UNCHANGED castVars, UNCHANGED <<view, answered, sent>>,
           dismissed' \subseteq Casts, requests' \in Seq(1..asked), casting' \subseteq 1..asked,
           QueueShape', OutboxShape'
    PROVE  IInv'
<1>1. asked' = asked /\ asked \in Nat /\ 1..asked \subseteq Casts /\ 0..asked \subseteq Casts \cup {NoCast}
  BY CastBounds DEF IInv, TypeOK, castVars, Casts, NoCast
<1>2. outbox' \in [Threads -> Seq(Writes(Casts))] /\ requests' \in Seq(Casts)
  BY <1>1, WritesMonotone, SeqMonotone DEF OutboxShape
<1>3. TypeOK'
  BY <1>1, <1>2 DEF IInv, TypeOK, QueueShape, castVars
<1>4. QueueInv'
  BY <1>1 DEF IInv, QueueInv, QueueShape, OutboxShape, castVars
<1> QED BY <1>3, <1>4 DEF IInv

LEMMA NothingWritten == \A S : <<>> \in Seq(S)
OBVIOUS

LEMMA SectionShape ==
    ASSUME OutboxShape, UNCHANGED asked,
           NEW t, NEW packets \in Seq(Writes(1..asked)), Section(t, packets)
    PROVE  OutboxShape'
BY SectionType DEF OutboxShape

\* Time passes.
LEMMA TimeStep ==
    ASSUME IInv, TimePasses
    PROVE  IInv'
<1>1. UNCHANGED <<castVars, serverSpell, pending, active, held, retired, completed,
                  outbox, realmVars, histVars>>
  BY DEF TimePasses
<1>2. /\ attempt' \in Attempts
      /\ attempt'.started = attempt.started /\ attempt'.inFlight = attempt.inFlight
      /\ attempt'.settled = attempt.settled
      /\ stale' \in Spells \cup {NoSpell}
  BY DEF IInv, TypeOK, TimePasses, DeadlinePasses, FuseBurns, Attempts
<1>3. QueueShape /\ OutboxShape
  BY ShapeFromIInv
<1>4. ActiveTracked'
  BY <1>1, <1>2, <1>3 DEF QueueShape, ActiveTracked, Started, castVars
<1>5. QueueShape' /\ OutboxShape'
  BY <1>1, <1>2, <1>3, <1>4 DEF QueueShape, OutboxShape, castVars
<1> QED BY <1>1, <1>5, ShapeToIInv DEF IInv, TypeOK, QueueInv, realmVars, histVars

\* The client cancels a cast, or logs in or out.
LEMMA CancelActiveShape ==
    ASSUME IInv, active # NoCast, NEW c \in Casts, CancelActive(c),
           UNCHANGED <<castVars, serverSpell, stale, completed>>
    PROVE  QueueShape' /\ OutboxShape' /\ dismissed' \subseteq Casts
<1>1. QueueShape /\ OutboxShape /\ active \in 1..asked /\ asked \in Nat
  BY ShapeFromIInv DEF QueueShape, ActiveTracked
<1>2. ActiveSpell \in Spells
  BY <1>1 DEF ActiveSpell, IInv, QueueInv
<1>3. pending' \subseteq pending /\ active' = NoCast /\ held' = NoCast /\ attempt' \in Attempts
      /\ retired' \in Spells
  BY <1>2 DEF CancelActive, DropQueue, SetActive, NewAttempt, Attempts
<1>4. QueueShape'
  BY <1>1, <1>3 DEF QueueShape, ActiveTracked, castVars, NoCast
<1>5. dismissed' \subseteq Casts
  BY <1>1, ShapeFromIInv DEF CancelActive, IInv, TypeOK
<1> DEFINE dropped == IF held \in pending \ {active} THEN held ELSE NoCast
<1>6. dropped \in 1..asked \cup {NoCast}
  BY <1>1 DEF QueueShape
<1>7. Abandoned(dropped) \in Seq(Writes(1..asked))
  BY <1>6, AbandonedType
<1>8. Packet("cancel", active) \in Seq(Writes(1..asked))
  BY <1>1 DEF Packet, Writes, Requests
<1>9. OutboxShape'
  <2>1. Section("client", Abandoned(dropped) \o Packet("cancel", active))
    BY DEF CancelActive, CancelPackets
  <2>2. Abandoned(dropped) \o Packet("cancel", active) \in Seq(Writes(1..asked))
    BY <1>7, <1>8
  <2> QED BY <1>1, <2>1, <2>2, SectionShape DEF castVars
<1> QED BY <1>4, <1>5, <1>9

LEMMA CancelCastStep ==
    ASSUME IInv, NEW c \in Casts, CancelCast(c)
    PROVE  IInv'
<1>1. UNCHANGED <<castVars, serverSpell, stale, completed, realmVars, view, answered, sent>>
  BY DEF CancelCast
<1>2. QueueShape /\ OutboxShape /\ c \in 1..asked /\ asked \in Nat /\ dismissed \subseteq Casts
  BY ShapeFromIInv DEF CancelCast, IInv, TypeOK
<1>3. QueueShape' /\ OutboxShape' /\ dismissed' \subseteq Casts
  <2>1. CASE active = c /\ CancelActive(c)
    BY <1>1, <2>1, CancelActiveShape, CastsAreNumbers
  <2>2. CASE active # c /\ held = c /\ held' = NoCast /\ pending' = pending \ {c}
             /\ dismissed' = dismissed \cup {c} /\ Section("client", <<>>)
             /\ UNCHANGED <<active, attempt, retired>>
    <3>1. OutboxShape'
      BY <1>1, <1>2, <2>2, NothingWritten, SectionShape DEF castVars
    <3>2. QueueShape'
      BY <1>1, <1>2, <2>2 DEF QueueShape, ActiveTracked, Started, castVars, NoCast
    <3> QED BY <1>2, <2>2, <3>1, <3>2
  <2>3. CASE active # c /\ held # c /\ pending' = pending \ {c}
             /\ dismissed' = dismissed \cup {c} /\ Section("client", Packet("cancel", c))
             /\ UNCHANGED <<active, attempt, held, retired>>
    <3>1. Packet("cancel", c) \in Seq(Writes(1..asked))
      BY <1>2 DEF Packet, Writes, Requests
    <3>2. OutboxShape'
      BY <1>1, <1>2, <2>3, <3>1, SectionShape DEF castVars
    <3>3. QueueShape'
      BY <1>1, <1>2, <2>3 DEF QueueShape, ActiveTracked, Started, castVars
    <3> QED BY <1>2, <2>3, <3>2, <3>3
  <2> QED BY <2>1, <2>2, <2>3 DEF CancelCast
<1> QED BY <1>1, <1>3, ShapeToIInv DEF IInv, QueueInv, realmVars

LEMMA CancelSpellStep ==
    ASSUME IInv, NEW s \in Spells, CancelSpell(s)
    PROVE  IInv'
<1>1. UNCHANGED <<castVars, serverSpell, stale, completed, realmVars, view, answered, sent>>
      /\ CancelActive(active)
  BY DEF CancelSpell
<1>2. active # NoCast /\ active \in Casts
  BY SpellRanks DEF CancelSpell, ActiveSpell, IInv, TypeOK
<1> QED BY <1>1, <1>2, CancelActiveShape, ShapeToIInv DEF IInv, QueueInv, realmVars

LEMMA ResetStep ==
    ASSUME IInv, NEW t, ResetCharacter(t)
    PROVE  IInv'
<1>1. UNCHANGED <<castVars, serverSpell, realmVars, view, answered, sent>>
  BY DEF ResetCharacter
<1>2. QueueShape /\ OutboxShape /\ dismissed \subseteq Casts /\ 1..asked \subseteq Casts
      /\ asked \in Nat
  BY ShapeFromIInv DEF IInv, TypeOK
<1>3. OutboxShape'
  BY <1>1, <1>2, NothingWritten, SectionShape DEF ResetCharacter, castVars
<1>4. QueueShape'
  BY <1>1, <1>2 DEF ResetCharacter, DropQueue, QueueShape, ActiveTracked, SetActive, NewAttempt,
                    Attempts, castVars, NoCast
<1> QED BY <1>1, <1>2, <1>3, <1>4, ShapeToIInv DEF ResetCharacter, IInv, QueueInv, realmVars

\* The client sends a cast.
LEMMA NewCastToIInv ==
    ASSUME IInv, NEW s \in Spells, NEW o, NewCast(asked + 1, s, o),
           QueueShape', OutboxShape', UNCHANGED dismissed
    PROVE  IInv'
<1>1. /\ asked \in Nat /\ asked' = asked + 1 /\ asked + 1 \in Casts
      /\ 1..asked' \subseteq Casts /\ 0..asked' \subseteq Casts \cup {NoCast}
      /\ 1..asked' = (1..asked) \cup {asked + 1} /\ asked + 1 \notin 1..asked
  BY CastBounds DEF NewCast, IInv, TypeOK, Casts, NoCast
<1>2. UNCHANGED <<serverSpell, completed, requests, casting, answered, sent, dismissed>>
  BY DEF NewCast, realmVars
<1>3. /\ spell' = [spell EXCEPT ![asked + 1] = s] /\ owner' = [owner EXCEPT ![asked + 1] = o]
      /\ o \in {"player", "item", "pet"} /\ view' = [view EXCEPT ![asked + 1] = "asked"]
  BY CastOwners DEF NewCast
<1>4. PICK r \in Spells : answer' = [answer EXCEPT ![asked + 1] = r]
  BY DEF NewCast
<1>5. outbox' \in [Threads -> Seq(Writes(Casts))]
  BY <1>1, WritesMonotone DEF OutboxShape
<1>6. TypeOK'
  <2>1. asked' \in 0..MaxCasts
    BY <1>1, CastBounds DEF Casts
  <2>2. /\ spell' \in [Casts -> Spells \cup {NoSpell}]
        /\ owner' \in [Casts -> {"player", "item", "pet"}]
        /\ answer' \in [Casts -> Spells \cup {NoSpell}]
        /\ view' \in [Casts -> {"new", "asked", "prepared", "begun", "done", "failed"}]
    BY <1>3, <1>4 DEF IInv, TypeOK
  <2>3. requests' \in Seq(Casts) /\ casting' \subseteq Casts /\ answered' \subseteq Casts
        /\ sent' \subseteq Casts /\ dismissed' \subseteq Casts
    BY <1>2 DEF IInv, TypeOK
  <2> QED BY <1>1, <1>5, <2>1, <2>2, <2>3 DEF TypeOK, QueueShape
<1>7. QueueInv'
  <2>1. requests' \in Seq(1..asked')
    BY <1>1, <1>2, SeqMonotone DEF IInv, QueueInv
  <2>2. casting' \subseteq 1..asked' /\ sent' \subseteq 1..asked'
    BY <1>1, <1>2 DEF IInv, QueueInv
  <2>3. \A c \in 1..asked' : spell'[c] \in Spells /\ answer'[c] \in Spells
    BY <1>1, <1>3, <1>4 DEF IInv, TypeOK, QueueInv
  <2> QED BY <2>1, <2>2, <2>3 DEF QueueInv, QueueShape, OutboxShape
<1> QED BY <1>6, <1>7 DEF IInv

\* The facts about a new cast that the proofs of CastSpell and OtherCast share.
LEMMA NewCastFacts ==
    ASSUME IInv, NEW s \in Spells, NEW o, NewCast(asked + 1, s, o)
    PROVE  /\ QueueShape /\ OutboxShape /\ asked \in Nat
           /\ asked' = asked + 1 /\ asked + 1 \in Casts /\ asked + 1 # NoCast
           /\ 1..asked' = (1..asked) \cup {asked + 1} /\ asked + 1 \notin 1..asked
           /\ 0..asked' = (0..asked) \cup {asked + 1} /\ asked + 1 \notin 0..asked
           /\ 1..asked \subseteq Casts /\ NoCast \notin 1..asked
           /\ owner'[asked + 1] = o
           /\ \A c \in 1..asked : owner'[c] = owner[c] /\ spell'[c] = spell[c]
           /\ UNCHANGED <<serverSpell, completed>>
           /\ serverSpell[asked + 1] = NoSpell
           /\ Evicted \in 1..asked \cup {NoCast}
<1>1. QueueShape /\ OutboxShape /\ asked \in Nat /\ 1..asked \subseteq Casts
      /\ pending \subseteq Casts /\ NoCast \notin 1..asked
  BY ShapeFromIInv
<1>2. asked' = asked + 1 /\ asked + 1 \in Casts
  BY <1>1, CastBounds DEF NewCast, Casts
<1>3. Evicted \in 1..asked \cup {NoCast}
  BY <1>1, EvictedMember DEF QueueShape
<1>4. owner'[asked + 1] = o
      /\ \A c \in 1..asked : owner'[c] = owner[c] /\ spell'[c] = spell[c]
  BY <1>1, <1>2 DEF NewCast, IInv, TypeOK
<1>5. serverSpell[asked + 1] = NoSpell
  BY <1>1, <1>2 DEF QueueShape
<1>6. UNCHANGED <<serverSpell, completed>>
  BY DEF NewCast
<1> QED BY <1>1, <1>2, <1>3, <1>4, <1>5, <1>6 DEF NoCast

LEMMA CastSpellStep ==
    ASSUME IInv, NEW s \in Spells, CastSpell(s)
    PROVE  IInv'
<1> DEFINE c        == asked + 1
           kept     == pending \ {Evicted}
           replaced == IF held \in kept THEN held ELSE NoCast
           holds    == Holds(s)
<1>1. NewCast(c, s, "player")
  BY DEF CastSpell
<1>2. /\ QueueShape /\ OutboxShape /\ asked \in Nat
      /\ asked' = c /\ c \in Casts /\ c # NoCast
      /\ 1..asked' = (1..asked) \cup {c} /\ c \notin 1..asked
      /\ 0..asked' = (0..asked) \cup {c} /\ c \notin 0..asked
      /\ 1..asked \subseteq Casts /\ NoCast \notin 1..asked
      /\ owner'[c] = "player"
      /\ \A d \in 1..asked : owner'[d] = owner[d] /\ spell'[d] = spell[d]
      /\ UNCHANGED <<serverSpell, completed>>
      /\ serverSpell[c] = NoSpell
      /\ Evicted \in 1..asked \cup {NoCast}
  BY <1>1, NewCastFacts
<1>3. replaced \in 1..asked \cup {NoCast} /\ (active # NoCast => active \in pending)
      /\ pending \subseteq 1..asked /\ (active # NoCast => replaced # active)
  BY <1>2 DEF QueueShape, ActiveTracked
<1>4. OutboxShape'
  <2>1. Abandoned(Evicted) \in Seq(Writes(1..asked')) /\ Abandoned(replaced) \in Seq(Writes(1..asked'))
    <3> HIDE DEF replaced, c
    <3> QED BY <1>2, <1>3, AbandonedType
  <2>2. When(~holds, Packet("cast", c)) \in Seq(Writes(1..asked'))
    <3>1. c \in 1..asked' /\ "cast" \in Packets \cup Requests /\ (~holds) \in BOOLEAN
      BY <1>2 DEF Requests, Holds
    <3> HIDE DEF c, holds
    <3> QED BY <3>1, PacketType
  <2>3. Section("client", Abandoned(Evicted) \o Abandoned(replaced)
                             \o When(~holds, Packet("cast", c)))
    BY DEF CastSpell
  <2> HIDE DEF c, kept, replaced, holds
  <2>4. Abandoned(Evicted) \o Abandoned(replaced) \o When(~holds, Packet("cast", c))
           \in Seq(Writes(1..asked'))
    BY <2>1, <2>2
  <2>5. 1..asked \subseteq 1..asked'
    BY <1>2
  <2> QED BY <1>2, <2>3, <2>4, <2>5, SectionType DEF OutboxShape
<1>5. pending' = (kept \ {replaced}) \cup {c}
  BY DEF CastSpell
<1>6. retired' \in Spells \cup {NoSpell} /\ stale' \in Spells \cup {NoSpell}
  <2>1. ActiveSpell \in Spells \cup {NoSpell}
    BY <1>2 DEF ActiveSpell, IInv, TypeOK
  <2>2. UNCHANGED <<retired, stale>> \/ (retired' = ActiveSpell /\ stale' = ActiveSpell)
    BY DEF CastSpell
  <2> QED BY <1>2, <2>1, <2>2 DEF QueueShape
<1>7. QueueShape'
  <2>1. CASE holds
    <3>1. held' = c /\ UNCHANGED <<active, attempt>>
      BY <2>1 DEF CastSpell
    <3>2. active \in pending' /\ active # c /\ active \in 1..asked /\ active # NoCast
      BY <1>2, <1>3, <1>5, <2>1 DEF Holds, Competes
    <3>3. ActiveTracked'
      BY <1>2, <3>1, <3>2 DEF QueueShape, ActiveTracked, Started
    <3> HIDE DEF c
    <3> QED BY <1>2, <1>3, <1>5, <1>6, <3>1, <3>2, <3>3 DEF QueueShape
  <2>2. CASE ~holds
    <3>1. held' = NoCast /\ active' = c /\ attempt' = NewAttempt
      BY <2>2 DEF CastSpell, SetActive
    <3>2. ActiveTracked' /\ attempt' \in Attempts
      BY <1>2, <1>5, <3>1 DEF QueueShape, ActiveTracked, Started, NewAttempt, Attempts
    <3>3. 0 \in 0..asked'
      BY <1>2
    <3> HIDE DEF c
    <3> QED BY <1>2, <1>3, <1>5, <1>6, <3>1, <3>2, <3>3 DEF QueueShape, NoCast
  <2> QED BY <2>1, <2>2
<1>8. UNCHANGED dismissed
  BY <1>1 DEF NewCast
<1> QED BY <1>1, <1>4, <1>7, <1>8, NewCastToIInv

LEMMA OtherCastStep ==
    ASSUME IInv, NEW s \in Spells, NEW o, OtherCast(s, o)
    PROVE  IInv'
<1> DEFINE c == asked + 1
<1>1. NewCast(c, s, o)
  BY DEF OtherCast
<1>2. /\ QueueShape /\ OutboxShape /\ asked \in Nat
      /\ asked' = c /\ c \in Casts /\ c # NoCast
      /\ 1..asked' = (1..asked) \cup {c} /\ c \notin 1..asked
      /\ 0..asked' = (0..asked) \cup {c} /\ c \notin 0..asked
      /\ 1..asked \subseteq Casts /\ NoCast \notin 1..asked
      /\ \A d \in 1..asked : owner'[d] = owner[d] /\ spell'[d] = spell[d]
      /\ UNCHANGED <<serverSpell, completed>>
      /\ Evicted \in 1..asked \cup {NoCast}
  BY <1>1, NewCastFacts
<1>3. /\ pending' = (pending \ {Evicted}) \cup {c}
      /\ held' = (IF held = Evicted THEN NoCast ELSE held)
      /\ UNCHANGED <<retired, stale>>
      /\ Section("client", Abandoned(Evicted) \o Packet("cast", c))
  BY DEF OtherCast, Forget
<1>4. OutboxShape'
  <2>1. Abandoned(Evicted) \in Seq(Writes(1..asked'))
    <3> HIDE DEF c
    <3> QED BY <1>2, AbandonedType
  <2>2. Packet("cast", c) \in Seq(Writes(1..asked'))
    BY <1>2 DEF Packet, Writes, Requests
  <2> HIDE DEF c
  <2>3. Abandoned(Evicted) \o Packet("cast", c) \in Seq(Writes(1..asked'))
    BY <2>1, <2>2
  <2>4. 1..asked \subseteq 1..asked'
    BY <1>2
  <2> QED BY <1>2, <1>3, <2>3, <2>4, SectionType DEF OutboxShape
<1>5. QueueShape'
  <2>1. CASE active # NoCast /\ active = Evicted
    <3>1. active' = NoCast /\ attempt' = NewAttempt
      BY <2>1 DEF OtherCast, Forget, SetActive
    <3>2. ActiveTracked' /\ attempt' \in Attempts
      BY <3>1 DEF ActiveTracked, NewAttempt, Attempts
    <3> HIDE DEF c
    <3>3. held' \in 0..asked' /\ (held' # NoCast => owner'[held'] = "player")
      <4>1. held \in 0..asked /\ 0 \in 0..asked' /\ (held # NoCast => held \in 1..asked)
        BY <1>2 DEF QueueShape, NoCast
      <4> QED BY <1>2, <1>3, <4>1 DEF QueueShape, NoCast
    <3> QED BY <1>2, <1>3, <3>1, <3>2, <3>3 DEF QueueShape
  <2>2. CASE ~(active # NoCast /\ active = Evicted)
    <3>1. UNCHANGED <<active, attempt>>
      BY <2>2 DEF OtherCast, Forget
    <3> HIDE DEF c
    <3>2. ActiveTracked'
      BY <1>2, <1>3, <2>2, <3>1 DEF QueueShape, ActiveTracked, Started
    <3>3. held' \in 0..asked' /\ (held' # NoCast => owner'[held'] = "player" /\ held' # active)
      <4>1. held \in 0..asked /\ 0 \in 0..asked' /\ (held # NoCast => held \in 1..asked)
        BY <1>2 DEF QueueShape, NoCast
      <4> QED BY <1>2, <1>3, <4>1 DEF QueueShape, NoCast
    <3> QED BY <1>2, <1>3, <3>1, <3>2, <3>3 DEF QueueShape
  <2> QED BY <2>1, <2>2
<1>6. UNCHANGED dismissed
  BY <1>1 DEF NewCast
<1> QED BY <1>1, <1>4, <1>5, <1>6, NewCastToIInv

\* The relay handles an answer of the realm.
LEMMA ConsumeShape ==
    ASSUME IInv, NEW c \in pending, NEW s \in Spells, Consume(c, s)
    PROVE  pending' = pending \ {c} /\ completed' \in [Spells -> 0..asked]
<1>1. QueueShape /\ c \in 0..asked
  BY ShapeFromIInv DEF QueueShape
<1> QED BY <1>1 DEF QueueShape, Consume

LEMMA EndActiveShape ==
    ASSUME IInv, NEW rest \in SUBSET pending, pending' = rest,
           NEW answers \in Seq(Writes(1..asked)), EndActive(rest, answers),
           completed' \in [Spells -> 0..asked],
           UNCHANGED <<castVars, serverSpell, retired, stale>>
    PROVE  QueueShape' /\ OutboxShape'
<1>1. QueueShape /\ OutboxShape /\ asked \in Nat
  BY ShapeFromIInv
<1>2. Promotes(rest) => held \in 1..asked /\ held \in Casts /\ held # NoCast
  BY ShapeFromIInv DEF Promotes, QueueShape
<1>3. Promotes(rest) \in BOOLEAN
  BY DEF Promotes
<1>4. When(Promotes(rest), Packet("cast", held)) \in Seq(Writes(1..asked))
  BY <1>2, <1>3, PacketType DEF Requests
<1>5. OutboxShape'
  <2>1. Section("relay", answers \o When(Promotes(rest), Packet("cast", held)))
    BY DEF EndActive
  <2>2. answers \o When(Promotes(rest), Packet("cast", held)) \in Seq(Writes(1..asked))
    BY <1>4
  <2> QED BY <1>1, <2>1, <2>2, SectionShape DEF castVars
<1>6. /\ active' = (IF Promotes(rest) THEN held ELSE NoCast)
      /\ attempt' = NewAttempt /\ held' = NoCast
  BY DEF EndActive, SetActive
<1>7. ActiveTracked'
  <2>1. CASE Promotes(rest)
    <3>1. active' = held /\ held \in pending' /\ owner'[held] = "player" /\ serverSpell'[held] = NoSpell
      BY <1>1, <1>2, <1>6, <2>1 DEF QueueShape, Promotes, Started, castVars
    <3> QED BY <1>6, <3>1 DEF ActiveTracked, Started, NewAttempt
  <2>2. CASE ~Promotes(rest)
    BY <1>6, <2>2 DEF ActiveTracked
  <2> QED BY <2>1, <2>2
<1>8. QueueShape'
  <2>1. active' \in Casts \cup {NoCast} /\ attempt' \in Attempts /\ held' \in 0..asked
    BY <1>1, <1>2, <1>6 DEF NewAttempt, Attempts, NoCast
  <2> QED BY <1>1, <1>6, <1>7, <2>1 DEF QueueShape, castVars
<1> QED BY <1>5, <1>8

LEMMA SpellStartShape ==
    ASSUME IInv, NEW s \in Spells, NEW caster, SpellStart(s, caster), UNCHANGED castVars
    PROVE  QueueShape' /\ OutboxShape'
<1> DEFINE c == StartMatch(s, caster)
<1>1. QueueShape /\ OutboxShape /\ asked \in Nat /\ 1..asked \subseteq Casts /\ NoCast \notin 1..asked
  BY ShapeFromIInv
<1>2. c \in pending \cup {NoCast}
  BY ShapeFromIInv, MatchMember
<1>3. UNCHANGED <<pending, active, held, retired, stale, completed>>
  BY DEF SpellStart
<1>4. CASE c = NoCast
  <2>1. UNCHANGED <<serverSpell, attempt>> /\ Section("relay", <<>>)
    BY <1>4 DEF SpellStart
  <2>2. OutboxShape'
    BY <1>1, <2>1, NothingWritten, SectionShape DEF castVars
  <2>3. QueueShape'
    BY <1>1, <1>3, <2>1 DEF QueueShape, ActiveTracked, Started, castVars
  <2> QED BY <2>2, <2>3
<1>5. CASE c # NoCast
  <2>1. c \in 1..asked
    BY <1>1, <1>2, <1>5 DEF QueueShape
  <2>2. /\ serverSpell' = [serverSpell EXCEPT ![c] = s]
        /\ attempt' = IF c = active
                      THEN [attempt EXCEPT !.started = TRUE, !.inFlight = FALSE, !.settled = TRUE]
                      ELSE attempt
        /\ Section("relay", Packet("prepare", c) \o Packet("start", c))
    BY <1>5 DEF SpellStart
  <2> HIDE DEF c
  <2>3. Packet("prepare", c) \o Packet("start", c) \in Seq(Writes(1..asked))
    <3>1. Packet("prepare", c) \in Seq(Writes(1..asked)) /\ Packet("start", c) \in Seq(Writes(1..asked))
      BY <2>1 DEF Packet, Writes, Packets
    <3> QED BY <3>1
  <2>4. OutboxShape'
    BY <1>1, <2>2, <2>3, SectionShape DEF castVars
  <2>5. serverSpell' \in [Casts -> Spells \cup {NoSpell}]
        /\ (\A d \in Casts : serverSpell'[d] = IF d = c THEN s ELSE serverSpell[d])
    BY <1>1, <2>1, <2>2 DEF QueueShape
  <2>6. attempt' \in Attempts
        /\ (c = active => attempt'.started /\ attempt'.settled /\ ~attempt'.inFlight)
    BY <1>1, <2>2 DEF QueueShape, Attempts
  <2>7. ActiveTracked'
    <3>1. CASE active = c
      BY <1>1, <1>3, <2>1, <2>5, <2>6, <3>1, SpellRanks
         DEF QueueShape, ActiveTracked, Started, Attempts, castVars
    <3>2. CASE active # c
      BY <1>1, <1>3, <2>2, <2>5, <3>2 DEF QueueShape, ActiveTracked, Started, castVars
    <3> QED BY <3>1, <3>2
  <2> QED BY <1>1, <1>3, <2>1, <2>4, <2>5, <2>6, <2>7 DEF QueueShape, castVars
<1> QED BY <1>4, <1>5

LEMMA SpellGoShape ==
    ASSUME IInv, NEW s \in Spells, NEW caster, SpellGo(s, caster), UNCHANGED castVars
    PROVE  QueueShape' /\ OutboxShape'
<1> DEFINE c == GoMatch(s, caster)
           answers == Binding(c) \o Packet("go", c)
<1>1. QueueShape /\ OutboxShape /\ asked \in Nat /\ 1..asked \subseteq Casts /\ NoCast \notin 1..asked
  BY ShapeFromIInv
<1>2. c \in pending \cup {NoCast}
  BY ShapeFromIInv, MatchMember
<1>3. UNCHANGED <<serverSpell, retired, stale>>
  BY DEF SpellGo
<1>4. CASE c = NoCast
  <2>1. /\ completed' \in [Spells -> 0..asked]
        /\ Section("relay", <<>>)
        /\ UNCHANGED <<pending, active, attempt, held>>
    BY <1>1, <1>4 DEF SpellGo, QueueShape, NoCast
  <2>2. OutboxShape'
    BY <1>1, <2>1, NothingWritten, SectionShape DEF castVars
  <2>3. QueueShape'
    BY <1>1, <1>3, <2>1 DEF QueueShape, ActiveTracked, Started, castVars
  <2> QED BY <2>2, <2>3
<1>5. CASE c # NoCast
  <2>1. c \in 1..asked /\ c \in pending
    BY <1>1, <1>2, <1>5 DEF QueueShape
  <2>2. Consume(c, s)
    BY <1>5 DEF SpellGo
  <2>3. pending' = pending \ {c} /\ completed' \in [Spells -> 0..asked]
    <3> HIDE DEF c
    <3> QED BY <2>1, <2>2, ConsumeShape
  <2>4. answers \in Seq(Writes(1..asked))
    <3> HIDE DEF c
    <3>2. Binding(c) \in Seq(Writes(1..asked))
      BY <2>1, BindingType
    <3>3. Packet("go", c) \in Seq(Writes(1..asked))
      BY <2>1 DEF Packet, Writes, Packets
    <3> QED BY <3>2, <3>3
  <2>5. CASE c = active
    <3>1. EndActive(pending \ {c}, answers)
      BY <1>5, <2>5 DEF SpellGo
    <3> HIDE DEF c, answers
    <3> QED BY <1>3, <2>3, <2>4, <3>1, EndActiveShape
  <2>6. CASE c # active
    <3>1. Section("relay", answers) /\ UNCHANGED <<active, attempt, held>>
      BY <1>5, <2>6 DEF SpellGo
    <3> HIDE DEF c, answers
    <3>2. OutboxShape'
      BY <1>1, <2>4, <3>1, SectionShape DEF castVars
    <3>3. QueueShape'
      BY <1>1, <1>3, <2>3, <2>6, <3>1 DEF QueueShape, ActiveTracked, Started, castVars
    <3> QED BY <3>2, <3>3
  <2> QED BY <2>5, <2>6
<1> QED BY <1>4, <1>5

LEMMA SwallowFailureShape ==
    ASSUME IInv, NEW s \in Spells, NEW reason, SwallowFailure(s, reason),
           UNCHANGED <<castVars, serverSpell, retired, stale>>
    PROVE  QueueShape' /\ OutboxShape'
<1>1. QueueShape /\ OutboxShape
  BY ShapeFromIInv
<1>2. UNCHANGED <<pending, active, held, completed>> /\ Section("relay", <<>>)
  BY DEF SwallowFailure
<1>3. OutboxShape'
  BY <1>1, <1>2, NothingWritten, SectionShape DEF castVars
<1>4. CASE UNCHANGED attempt
  BY <1>1, <1>2, <1>3, <1>4 DEF QueueShape, ActiveTracked, Started, castVars
\* A failure for a cast that has started can only repeat what the START set:
\* the matched cast is the active one, so attempt.started was true before.
<1>5. CASE /\ ActiveBegun(s)
           /\ attempt' = [attempt EXCEPT !.started = TRUE]
  <2>1. active # NoCast => attempt.started
    BY <1>1, <1>5 DEF ActiveBegun, QueueShape, ActiveTracked
  <2>2. attempt' \in Attempts /\ attempt'.started
        /\ attempt'.settled = attempt.settled /\ attempt'.inFlight = attempt.inFlight
    BY <1>1, <1>5 DEF QueueShape, Attempts
  <2>3. ActiveTracked'
    BY <1>1, <1>2, <2>1, <2>2 DEF QueueShape, ActiveTracked, Started, castVars
  <2> QED BY <1>1, <1>2, <1>3, <2>2, <2>3 DEF QueueShape, castVars
<1> QED BY <1>4, <1>5 DEF SwallowFailure

LEMMA RetryCastShape ==
    ASSUME IInv, NEW s \in Spells, NEW reason, RetryCast(s, reason),
           UNCHANGED <<castVars, serverSpell, retired, stale>>
    PROVE  QueueShape' /\ OutboxShape'
<1>1. QueueShape /\ OutboxShape
  BY ShapeFromIInv
<1>2. UNCHANGED <<pending, active, held, completed>>
  BY DEF RetryCast
<1>3. active # NoCast /\ active \in 1..asked
  BY <1>1 DEF RetryCast, ActiveNotReady, AnswersActive, QueueShape, ActiveTracked
<1>4. ~attempt.started
  BY DEF RetryCast, ActiveBegun
<1>5. \/ Section("relay", Packet("cast", active))
      \/ Section("relay", <<>>)
  BY DEF RetryCast, Retries
<1>6. Packet("cast", active) \in Seq(Writes(1..asked)) /\ <<>> \in Seq(Writes(1..asked))
  BY <1>3, NothingWritten DEF Packet, Writes, Requests
<1>7. OutboxShape'
  BY <1>1, <1>5, <1>6, SectionShape DEF castVars
<1>8. /\ attempt' \in Attempts /\ attempt'.started = attempt.started
      /\ attempt'.settled = ~attempt'.inFlight
  BY <1>1 DEF RetryCast, QueueShape, Attempts
<1>9. ActiveTracked'
  BY <1>1, <1>2, <1>4, <1>8 DEF QueueShape, ActiveTracked, Started, castVars
<1> QED BY <1>1, <1>2, <1>7, <1>8, <1>9 DEF QueueShape, castVars

LEMMA DeliverFailureShape ==
    ASSUME IInv, NEW s \in Spells, NEW reason, DeliverFailure(s, reason),
           UNCHANGED <<castVars, serverSpell, retired, stale>>
    PROVE  QueueShape' /\ OutboxShape'
<1> DEFINE c       == FailureMatch(s)
           blamed  == IF c # NoCast THEN c ELSE completed[s]
           answers == Binding(c) \o When(blamed # NoCast, Packet("failed", blamed))
           ends    == c # NoCast /\ (active = c \/ ActiveSpell = spell[c])
<1>1. QueueShape /\ OutboxShape /\ asked \in Nat /\ NoCast \notin 1..asked
  BY ShapeFromIInv
<1>2. c \in pending \cup {NoCast}
  BY ShapeFromIInv, MatchMember
<1>3. blamed \in 1..asked \cup {NoCast}
  <2>1. completed[s] \in 1..asked \cup {NoCast}
    BY <1>1 DEF QueueShape, NoCast
  <2> HIDE DEF c
  <2> QED BY <1>1, <1>2, <2>1 DEF QueueShape
<1>4. answers \in Seq(Writes(1..asked))
  <2> HIDE DEF c, blamed
  <2>1. c \in 1..asked \cup {NoCast}
    BY <1>1, <1>2 DEF QueueShape
  <2>2. Binding(c) \in Seq(Writes(1..asked))
    BY <2>1, BindingType
  <2>3. When(blamed # NoCast, Packet("failed", blamed)) \in Seq(Writes(1..asked))
    <3>1. (blamed # NoCast) \in BOOLEAN /\ "failed" \in Packets \cup Requests
      BY DEF Packets
    <3> QED BY <1>3, <3>1, PacketType
  <2> QED BY <2>2, <2>3
<1>5. /\ pending' = pending \ {c}
      /\ completed' \in [Spells -> 0..asked]
  <2>1. CASE c # NoCast
    <3>1. Consume(c, s) /\ c \in pending
      BY <1>2, <2>1 DEF DeliverFailure
    <3> HIDE DEF c
    <3> QED BY <3>1, ConsumeShape
  <2>2. CASE c = NoCast
    <3>1. UNCHANGED <<pending, completed>>
      BY <2>2 DEF DeliverFailure
    <3> HIDE DEF c
    <3> QED BY <1>1, <2>2, <3>1 DEF QueueShape
  <2> QED BY <2>1, <2>2
<1>6. CASE ends
  <2>1. EndActive(pending \ {c}, answers)
    BY <1>6 DEF DeliverFailure
  <2> HIDE DEF c, answers
  <2> QED BY <1>4, <1>5, <2>1, EndActiveShape
<1>7. CASE ~ends
  <2>1. Section("relay", answers) /\ UNCHANGED <<active, attempt, held>>
    BY <1>7 DEF DeliverFailure
  <2>2. active # NoCast => active # c
    BY <1>7
  <2> HIDE DEF c, answers, ends
  <2>3. OutboxShape'
    BY <1>1, <1>4, <2>1, SectionShape DEF castVars
  <2>4. QueueShape'
    BY <1>1, <1>5, <2>1, <2>2 DEF QueueShape, ActiveTracked, Started, castVars
  <2> QED BY <2>3, <2>4
<1> QED BY <1>6, <1>7

LEMMA PetCastFailedShape ==
    ASSUME IInv, NEW s \in Spells, PetCastFailed(s), UNCHANGED castVars
    PROVE  QueueShape' /\ OutboxShape'
<1> DEFINE pets == {p \in pending : owner[p] = "pet"}
           c    == Find(s, FALSE, pets)
<1>1. QueueShape /\ OutboxShape /\ asked \in Nat /\ pending \subseteq Casts
  BY ShapeFromIInv
<1>2. c \in pets \cup {NoCast} /\ FALSE \in BOOLEAN
  BY <1>1, FindMember
<1>3. /\ pending' = pending \ {c}
      /\ Section("relay", When(c # NoCast, Packet("failed", c)))
      /\ UNCHANGED <<serverSpell, active, attempt, held, retired, stale, completed>>
  BY DEF PetCastFailed
<1>4. \A p \in pets : owner[p] = "pet" /\ p \in 1..asked
  BY <1>1 DEF QueueShape
<1> HIDE DEF c, pets
<1>5. When(c # NoCast, Packet("failed", c)) \in Seq(Writes(1..asked))
  <2>1. (c # NoCast) \in BOOLEAN /\ "failed" \in Packets \cup Requests
    BY DEF Packets
  <2> QED BY <1>2, <1>4, <2>1, PacketType
<1>6. OutboxShape'
  BY <1>1, <1>3, <1>5, SectionShape DEF castVars
<1>7. active # NoCast => active # c
  BY <1>1, <1>2, <1>4 DEF QueueShape, ActiveTracked
<1>8. QueueShape'
  BY <1>1, <1>3, <1>7 DEF QueueShape, ActiveTracked, Started, castVars
<1> QED BY <1>6, <1>8

LEMMA CastFailedShape ==
    ASSUME IInv, NEW s \in Spells, NEW reason, CastFailed(s, reason), UNCHANGED castVars
    PROVE  QueueShape' /\ OutboxShape'
BY SwallowFailureShape, RetryCastShape, DeliverFailureShape DEF CastFailed

LEMMA FailsShape ==
    ASSUME IInv, NEW c \in 1..asked, NEW reason, Fails(c, reason), UNCHANGED castVars
    PROVE  QueueShape' /\ OutboxShape'
<1>1. answer[c] \in Spells
  BY DEF IInv, QueueInv
<1> QED BY <1>1, CastFailedShape, PetCastFailedShape DEF Fails

LEMMA RelayStep ==
    ASSUME IInv, RelaySection
    PROVE  IInv'
<1>1. ASSUME UNCHANGED <<castVars, histVars>>, QueueShape', OutboxShape',
             requests' \in Seq(1..asked), casting' \subseteq 1..asked
      PROVE  IInv'
  <2>1. UNCHANGED <<view, answered, sent>> /\ dismissed' \subseteq Casts
    BY <1>1 DEF histVars, IInv, TypeOK
  <2> QED BY <1>1, <2>1, ShapeToIInv
<1>2. requests \in Seq(1..asked) /\ casting \subseteq 1..asked
      /\ \A c \in 1..asked : answer[c] \in Spells
  BY DEF IInv, QueueInv
<1>3. requests # <<>> => Head(requests) \in 1..asked /\ Tail(requests) \in Seq(1..asked)
  BY <1>2, HeadAndTail
<1>4. CASE RealmFails /\ UNCHANGED <<castVars, histVars>>
  <2>1. PICK reason \in {"notReady", "other"} : Fails(Head(requests), reason)
    BY <1>4 DEF RealmFails
  <2>2. requests # <<>> /\ requests' = Tail(requests) /\ UNCHANGED casting
    BY <1>4 DEF RealmFails
  <2>3. QueueShape' /\ OutboxShape'
    BY <1>3, <1>4, <2>1, <2>2, FailsShape
  <2> QED BY <1>1, <1>2, <1>3, <1>4, <2>2, <2>3
<1>5. CASE RealmStarts /\ UNCHANGED <<castVars, histVars>>
  <2>1. /\ requests # <<>> /\ requests' = Tail(requests)
        /\ casting' = casting \cup {Head(requests)}
        /\ SpellStart(answer[Head(requests)], owner[Head(requests)])
    BY <1>5 DEF RealmStarts
  <2>2. QueueShape' /\ OutboxShape'
    BY <1>2, <1>3, <1>5, <2>1, SpellStartShape
  <2> QED BY <1>1, <1>2, <1>3, <1>5, <2>1, <2>2
<1>6. CASE RealmFinishesAtOnce /\ UNCHANGED <<castVars, histVars>>
  <2>1. /\ requests # <<>> /\ requests' = Tail(requests) /\ UNCHANGED casting
        /\ SpellGo(answer[Head(requests)], owner[Head(requests)])
    BY <1>6 DEF RealmFinishesAtOnce
  <2>2. QueueShape' /\ OutboxShape'
    BY <1>2, <1>3, <1>6, <2>1, SpellGoShape
  <2> QED BY <1>1, <1>2, <1>3, <1>6, <2>1, <2>2
<1>7. CASE RealmFinishes /\ UNCHANGED <<castVars, histVars>>
  <2>1. PICK c \in casting : \E caster \in {owner[c], CasterOf(c)} :
           SpellGo(answer[c], caster) /\ casting' = casting \ {c} /\ UNCHANGED requests
    BY <1>7 DEF RealmFinishes
  <2>2. QueueShape' /\ OutboxShape'
    BY <1>2, <1>7, <2>1, SpellGoShape
  <2> QED BY <1>1, <1>2, <1>7, <2>1, <2>2
<1>8. CASE RealmInterrupts /\ UNCHANGED <<castVars, histVars>>
  <2>1. PICK c \in casting : Fails(c, "other") /\ casting' = casting \ {c} /\ UNCHANGED requests
    BY <1>8 DEF RealmInterrupts
  <2>2. QueueShape' /\ OutboxShape'
    BY <1>2, <1>8, <2>1, FailsShape
  <2> QED BY <1>1, <1>2, <1>8, <2>1, <2>2
<1>9. CASE ResetCharacter("relay")
  BY <1>9, ResetStep
<1> QED BY <1>4, <1>5, <1>6, <1>7, <1>8, <1>9 DEF RelaySection

LEMMA NextIInv == IInv /\ [Next]_vars => IInv'
<1> SUFFICES ASSUME IInv, [Next]_vars PROVE IInv'
    OBVIOUS
<1>1. CASE ClientSection
  BY <1>1, CastSpellStep, OtherCastStep, CancelCastStep, CancelSpellStep, ResetStep
     DEF ClientSection, UseItem, PetCastSpell
<1>2. CASE RelaySection
  BY <1>2, RelayStep
<1>3. CASE TimePasses
  BY <1>3, TimeStep
<1>4. CASE \E t \in Threads : Write(t)
  BY <1>4, WriteStep
<1>5. CASE UNCHANGED vars
  <2>1. ActiveTracked'
    BY <1>5 DEF IInv, QueueInv, ActiveTracked, Started, vars, castVars, queueVars
  <2> QED BY <1>5, <2>1 DEF IInv, TypeOK, QueueInv, vars, castVars, queueVars, realmVars, histVars
<1> QED BY <1>1, <1>2, <1>3, <1>4, <1>5 DEF Next

-----------------------------------------------------------------------------
(* The theorems.                                                            *)

\* The inductive invariant: TypeOK with QueueInv, which every handler of both
\* goroutines preserves.
THEOREM Inductive == Spec => []IInv
BY InitIInv, NextIInv, PTL DEF Spec

\* Every variable has its type, for every number of casts and every limit.
THEOREM TypeCorrect == Spec => []TypeOK
<1>1. IInv => TypeOK
  BY DEF IInv
<1> QED BY <1>1, Inductive, PTL

\* The invariant the runs check is an invariant of the specification.
THEOREM QueueInvariant == Spec => []QueueInv
<1>1. IInv => QueueInv
  BY DEF IInv
<1> QED BY <1>1, Inductive, PTL

\* spellQueue.active is never dangling: whatever removes a cast from
\* pendingCasts, the active attempt is a pending cast of the player and its
\* flags agree with that cast.
THEOREM ActiveIsTracked == Spec => []ActiveTracked
<1>1. IInv => ActiveTracked
  BY DEF IInv, QueueInv
<1> QED BY <1>1, Inductive, PTL

-----------------------------------------------------------------------------
(* The packets of a section, by kind.                                       *)

LEMMA CastsInConcat ==
    ASSUME NEW S, NEW p \in Seq(S), NEW q \in Seq(S), NEW kind
    PROVE  CastsIn(p \o q, kind) = CastsIn(p, kind) \cup CastsIn(q, kind)
<1>1. /\ Len(p) \in Nat /\ Len(q) \in Nat /\ Len(p \o q) = Len(p) + Len(q)
      /\ \A i \in 1..Len(p) : (p \o q)[i] = p[i]
      /\ \A i \in 1..Len(q) : (p \o q)[Len(p) + i] = q[i]
  OBVIOUS
<1>2. CastsIn(p, kind) \subseteq CastsIn(p \o q, kind)
  BY <1>1 DEF CastsIn
<1>3. CastsIn(q, kind) \subseteq CastsIn(p \o q, kind)
  <2> SUFFICES ASSUME NEW i \in 1..Len(q), q[i].kind = kind
               PROVE  q[i].cast \in CastsIn(p \o q, kind)
    BY DEF CastsIn
  <2>1. Len(p) + i \in 1..Len(p \o q) /\ (p \o q)[Len(p) + i] = q[i]
    BY <1>1
  <2> QED BY <2>1 DEF CastsIn
<1>4. CastsIn(p \o q, kind) \subseteq CastsIn(p, kind) \cup CastsIn(q, kind)
  <2> SUFFICES ASSUME NEW i \in 1..Len(p \o q), (p \o q)[i].kind = kind
               PROVE  (p \o q)[i].cast \in CastsIn(p, kind) \cup CastsIn(q, kind)
    BY DEF CastsIn
  <2>1. CASE i \in 1..Len(p)
    BY <1>1, <2>1 DEF CastsIn
  <2>2. CASE i \notin 1..Len(p)
    <3>1. i - Len(p) \in 1..Len(q) /\ i = Len(p) + (i - Len(p))
      BY <1>1, <2>2
    <3>2. q[i - Len(p)] = (p \o q)[i]
      BY <1>1, <3>1
    <3> QED BY <3>1, <3>2 DEF CastsIn
  <2> QED BY <2>1, <2>2
<1> QED BY <1>2, <1>3, <1>4

LEMMA CastsInNone == \A kind : CastsIn(<<>>, kind) = {}
BY DEF CastsIn

LEMMA CastsInPacket ==
    ASSUME NEW k, NEW c, NEW kind
    PROVE  CastsIn(Packet(k, c), kind) = IF k = kind THEN {c} ELSE {}
BY DEF CastsIn, Packet

LEMMA CastsInWhen ==
    ASSUME NEW condition \in BOOLEAN, NEW packets, NEW kind
    PROVE  CastsIn(When(condition, packets), kind)
              = IF condition THEN CastsIn(packets, kind) ELSE {}
BY CastsInNone DEF When

LEMMA CastsInBinding ==
    ASSUME NEW c
    PROVE  CastsIn(Binding(c), "cast") = {}
<1>1. (c # NoCast /\ ~Started(c)) \in BOOLEAN /\ CastsIn(Packet("prepare", c), "cast") = {}
  BY CastsInPacket
<1>2. CastsIn(Binding(c), "cast") \in {CastsIn(Packet("prepare", c), "cast"), {}}
  BY <1>1, CastsInWhen DEF Binding
<1> QED BY <1>1, <1>2

\* What takeAbandonedCastPacketsLocked sends for a cast: never a body to the
\* realm, and a failure to the client unless the cast is a pet's.
LEMMA CastsInAbandoned ==
    ASSUME NEW c
    PROVE  /\ CastsIn(Abandoned(c), "cast") = {}
           /\ c # NoCast /\ owner[c] # "pet" => c \in CastsIn(Abandoned(c), "failed")
<1> DEFINE told == c # NoCast /\ owner[c] # "pet"
<1>1. CASE told
  <2>1. Binding(c) \in Seq(Writes({c})) /\ CastsIn(Binding(c), "cast") = {}
    BY BindingType, CastsInBinding
  <2>2. Packet("failed", c) \in Seq(Writes({c}))
    BY DEF Packet, Writes, Packets
  <2>3. Abandoned(c) = Binding(c) \o Packet("failed", c)
    BY <1>1 DEF Abandoned, When
  <2>4. CastsIn(Packet("failed", c), "cast") = {} /\ CastsIn(Packet("failed", c), "failed") = {c}
    BY CastsInPacket
  <2> QED BY <2>1, <2>2, <2>3, <2>4, CastsInConcat
<1>2. CASE ~told
  BY <1>2, CastsInNone DEF Abandoned, When
<1> QED BY <1>1, <1>2

LEMMA CastsInTail ==
    ASSUME NEW S, NEW q \in Seq(S), q # <<>>, NEW kind
    PROVE  CastsIn(q, kind)
              = CastsIn(Tail(q), kind) \cup (IF Head(q).kind = kind THEN {Head(q).cast} ELSE {})
<1>1. /\ Len(q) \in Nat /\ Len(q) >= 1 /\ Len(Tail(q)) = Len(q) - 1 /\ Head(q) = q[1]
      /\ \A i \in 1..Len(Tail(q)) : Tail(q)[i] = q[i + 1]
  OBVIOUS
<1>2. CastsIn(Tail(q), kind) \subseteq CastsIn(q, kind)
  <2> SUFFICES ASSUME NEW i \in 1..Len(Tail(q)), Tail(q)[i].kind = kind
               PROVE  Tail(q)[i].cast \in CastsIn(q, kind)
    BY DEF CastsIn
  <2>1. i + 1 \in 1..Len(q) /\ q[i + 1] = Tail(q)[i]
    BY <1>1
  <2> QED BY <2>1 DEF CastsIn
<1>3. Head(q).kind = kind => Head(q).cast \in CastsIn(q, kind)
  BY <1>1 DEF CastsIn
<1>4. ASSUME NEW i \in 1..Len(q), q[i].kind = kind
      PROVE  q[i].cast \in CastsIn(Tail(q), kind) \/ (i = 1 /\ q[i] = Head(q))
  <2>1. CASE i = 1
    BY <1>1, <2>1
  <2>2. CASE i # 1
    <3>1. i - 1 \in 1..Len(Tail(q)) /\ (i - 1) + 1 = i
      BY <1>1, <2>2
    <3>2. Tail(q)[i - 1] = q[i]
      BY <1>1, <3>1
    <3> QED BY <1>4, <3>1, <3>2 DEF CastsIn
  <2> QED BY <2>1, <2>2
<1>5. CastsIn(q, kind) \subseteq CastsIn(Tail(q), kind)
                                    \cup (IF Head(q).kind = kind THEN {Head(q).cast} ELSE {})
  <2> SUFFICES ASSUME NEW i \in 1..Len(q), q[i].kind = kind
               PROVE  q[i].cast \in CastsIn(Tail(q), kind)
                                    \cup (IF Head(q).kind = kind THEN {Head(q).cast} ELSE {})
    BY DEF CastsIn
  <2> QED BY <1>4
<1> QED BY <1>2, <1>3, <1>5

LEMMA QueuedCasts ==
    ASSUME OutboxShape, NEW t \in Threads, NEW kind
    PROVE  Queued(t, kind) \subseteq 1..asked
<1> DEFINE packets == outbox[t]
<1>1. packets \in Seq(Writes(1..asked))
  BY DEF OutboxShape
<1> HIDE DEF packets
<1>2. \A i \in 1..Len(packets) : packets[i] \in Writes(1..asked)
  BY <1>1
<1>3. CastsIn(packets, kind) \subseteq 1..asked
  BY <1>2 DEF CastsIn, Writes
<1> QED BY <1>3 DEF Queued, packets

\* After a section, its goroutine's outbox holds exactly the section's packets.
LEMMA QueuedAfter ==
    ASSUME OutboxShape, NEW t \in Threads, NEW packets, Section(t, packets), NEW kind
    PROVE  /\ Queued(t, kind)' = CastsIn(packets, kind)
           /\ Queued(t, kind) = {}
           /\ \A u \in Threads \ {t} : Queued(u, kind)' = Queued(u, kind)
<1>1. outbox[t] = <<>> /\ outbox'[t] = packets
      /\ \A u \in Threads \ {t} : outbox'[u] = outbox[u]
  BY DEF Section, OutboxShape
<1> QED BY <1>1, CastsInNone DEF Queued, CastsIn

-----------------------------------------------------------------------------
(* What a locked section may do to the queue, whichever handler it is.      *)

\* The casts a list of packets answers.
Answers(packets) == CastsIn(packets, "go") \cup CastsIn(packets, "failed")

\* pendingCasts shrinks, or the new cast joins it after a trim; a cast that
\* leaves it is answered, given up or a pet's; the held cast stays, goes, or is
\* the new one, and its body is not written.
Effect(packets) ==
    /\ \/ pending' \subseteq pending
       \/ pending' \subseteq (pending \ {Evicted}) \cup {asked + 1}
    /\ 1..asked' \subseteq (1..asked) \cup pending'
    /\ \A c \in pending \ pending' :
          c \in Answers(packets) \cup dismissed' \/ owner'[c] = "pet"
    /\ held' # NoCast => /\ held' = held \/ (held' = asked + 1 /\ asked' = asked + 1)
                         /\ held' \notin CastsIn(packets, "cast")
    /\ asked' \in {asked, asked + 1}
    /\ \A c \in 1..asked : owner'[c] = owner[c]
    /\ dismissed \subseteq dismissed' /\ UNCHANGED <<sent, answered>>
    /\ packets \in Seq(Writes(1..asked'))

SectionEffect(t) == \E packets : Section(t, packets) /\ Effect(packets)

LEMMA CastSpellEffect ==
    ASSUME IInv, NEW s \in Spells, CastSpell(s)
    PROVE  SectionEffect("client")
<1> DEFINE c        == asked + 1
           kept     == pending \ {Evicted}
           replaced == IF held \in kept THEN held ELSE NoCast
           holds    == Holds(s)
           head     == Abandoned(Evicted) \o Abandoned(replaced)
           tail     == When(~holds, Packet("cast", c))
<1>1. NewCast(c, s, "player") /\ Section("client", head \o tail)
      /\ pending' = (kept \ {replaced}) \cup {c}
  BY DEF CastSpell
<1>2. /\ QueueShape /\ asked \in Nat /\ asked' = c /\ c \in Casts
      /\ 1..asked' = (1..asked) \cup {c} /\ c \notin 1..asked
      /\ \A d \in 1..asked : owner'[d] = owner[d]
      /\ Evicted \in 1..asked \cup {NoCast} /\ NoCast \notin 1..asked
  BY <1>1, NewCastFacts
<1>3. UNCHANGED <<dismissed, sent, answered>>
  BY <1>1 DEF NewCast
<1>4. replaced \in 1..asked \cup {NoCast} /\ (replaced # NoCast => owner[replaced] # "pet")
      /\ c \in 1..asked' /\ 1..asked \subseteq 1..asked' /\ (~holds) \in BOOLEAN
  BY <1>2 DEF QueueShape, Holds
<1> HIDE DEF c, replaced, holds
<1>5. Abandoned(Evicted) \in Seq(Writes(1..asked')) /\ Abandoned(replaced) \in Seq(Writes(1..asked'))
      /\ tail \in Seq(Writes(1..asked'))
  <2>1. "cast" \in Packets \cup Requests
    BY DEF Requests
  <2>2. Evicted \in 1..asked' \cup {NoCast} /\ replaced \in 1..asked' \cup {NoCast}
    BY <1>2, <1>4
  <2> QED BY <1>4, <2>1, <2>2, AbandonedType, PacketType
<1> DEFINE packets == head \o tail
<1>6. head \in Seq(Writes(1..asked')) /\ packets \in Seq(Writes(1..asked'))
  BY <1>5
<1>7. \A kind : CastsIn(packets, kind) = CastsIn(Abandoned(Evicted), kind)
                   \cup CastsIn(Abandoned(replaced), kind) \cup CastsIn(tail, kind)
  <2> TAKE kind
  <2>1. CastsIn(head, kind) = CastsIn(Abandoned(Evicted), kind) \cup CastsIn(Abandoned(replaced), kind)
    BY <1>5, CastsInConcat
  <2> HIDE DEF head, tail
  <2>2. CastsIn(packets, kind) = CastsIn(head, kind) \cup CastsIn(tail, kind)
    BY <1>5, <1>6, CastsInConcat DEF packets
  <2> QED BY <2>1, <2>2
<1>8. /\ Evicted # NoCast /\ owner[Evicted] # "pet" => Evicted \in CastsIn(packets, "failed")
      /\ replaced # NoCast => replaced \in CastsIn(packets, "failed")
  BY <1>4, <1>7, CastsInAbandoned
<1>9. held' # NoCast => held' = c /\ held' \notin CastsIn(packets, "cast")
  <2>1. CASE holds
    <3>1. held' = c
      BY <2>1 DEF CastSpell, holds, c
    <3>2. CastsIn(tail, "cast") = {}
      BY <1>4, <2>1, CastsInWhen
    <3> QED BY <1>7, <3>1, <3>2, CastsInAbandoned
  <2>2. CASE ~holds
    BY <2>2 DEF CastSpell, holds, c
  <2> QED BY <2>1, <2>2
<1>10. \A d \in pending \ pending' :
          d \in Answers(packets) \cup dismissed' \/ owner'[d] = "pet"
  <2> SUFFICES ASSUME NEW d \in pending \ pending', owner'[d] # "pet"
               PROVE  d \in Answers(packets)
    BY <1>1
  <2>1. d \in 1..asked /\ owner[d] # "pet" /\ d # NoCast
    BY <1>2 DEF QueueShape
  <2>2. d = Evicted \/ d = replaced
    BY <1>1
  <2> HIDE DEF packets
  <2> QED BY <1>8, <2>1, <2>2 DEF Answers
<1>11. c \in pending' /\ pending' \subseteq (pending \ {Evicted}) \cup {c}
  BY <1>1
<1>12. Section("client", packets)
  BY <1>1
<1> HIDE DEF packets
<1>13. Effect(packets)
  BY <1>2, <1>3, <1>6, <1>9, <1>10, <1>11 DEF Effect, c
<1> QED BY <1>12, <1>13 DEF SectionEffect

LEMMA OtherCastEffect ==
    ASSUME IInv, NEW s \in Spells, NEW o, OtherCast(s, o)
    PROVE  SectionEffect("client")
<1> DEFINE c       == asked + 1
           packets == Abandoned(Evicted) \o Packet("cast", c)
<1>1. /\ NewCast(c, s, o) /\ Section("client", packets)
      /\ pending' = (pending \ {Evicted}) \cup {c}
      /\ held' = (IF held = Evicted THEN NoCast ELSE held)
  BY DEF OtherCast, Forget
<1>2. /\ QueueShape /\ asked \in Nat /\ asked' = c /\ c \in Casts
      /\ 1..asked' = (1..asked) \cup {c} /\ c \notin 1..asked /\ c \notin 0..asked
      /\ \A d \in 1..asked : owner'[d] = owner[d]
      /\ Evicted \in 1..asked \cup {NoCast} /\ NoCast \notin 1..asked
  BY <1>1, NewCastFacts
<1>3. UNCHANGED <<dismissed, sent, answered>>
  BY <1>1 DEF NewCast
<1> HIDE DEF c
<1>4. Abandoned(Evicted) \in Seq(Writes(1..asked')) /\ Packet("cast", c) \in Seq(Writes(1..asked'))
  <2>1. Evicted \in 1..asked' \cup {NoCast} /\ c \in 1..asked'
    BY <1>2
  <2>2. Packet("cast", c) \in Seq(Writes(1..asked'))
    BY <2>1 DEF Packet, Writes, Requests
  <2> QED BY <2>1, <2>2, AbandonedType
<1>5. packets \in Seq(Writes(1..asked'))
  BY <1>4
<1>6. \A kind : CastsIn(packets, kind) = CastsIn(Abandoned(Evicted), kind)
                                            \cup CastsIn(Packet("cast", c), kind)
  BY <1>4, CastsInConcat
<1>7. CastsIn(packets, "cast") = {c}
      /\ (Evicted # NoCast /\ owner[Evicted] # "pet" => Evicted \in CastsIn(packets, "failed"))
  BY <1>6, CastsInAbandoned, CastsInPacket
<1>8. held' # NoCast => held' = held /\ held' \notin CastsIn(packets, "cast")
  BY <1>1, <1>2, <1>7 DEF QueueShape
<1>9. \A d \in pending \ pending' :
          d \in Answers(packets) \cup dismissed' \/ owner'[d] = "pet"
  <2> SUFFICES ASSUME NEW d \in pending \ pending', owner'[d] # "pet"
               PROVE  d \in Answers(packets)
    BY <1>1
  <2>1. d \in 1..asked /\ owner[d] # "pet" /\ d # NoCast /\ d = Evicted
    BY <1>1, <1>2 DEF QueueShape
  <2> HIDE DEF packets
  <2> QED BY <1>7, <2>1 DEF Answers
<1> HIDE DEF packets
<1>10. Effect(packets)
  BY <1>1, <1>2, <1>3, <1>5, <1>8, <1>9 DEF Effect, c
<1> QED BY <1>1, <1>10 DEF SectionEffect

LEMMA CancelActiveEffect ==
    ASSUME IInv, active # NoCast, NEW c \in 1..asked, CancelActive(c), UNCHANGED castVars,
           UNCHANGED <<sent, answered>>
    PROVE  SectionEffect("client")
<1> DEFINE dropped == IF held \in pending \ {active} THEN held ELSE NoCast
           packets == Abandoned(dropped) \o Packet("cancel", active)
<1>1. /\ pending' = pending \ {active, held, c} /\ held' = NoCast
      /\ dismissed' = dismissed \cup {active, c} /\ Section("client", packets)
  BY DEF CancelActive, CancelPackets, DropQueue, SetActive
<1>2. QueueShape /\ active \in 1..asked /\ asked' = asked /\ owner' = owner
  BY ShapeFromIInv DEF QueueShape, ActiveTracked, castVars
<1>3. dropped \in 1..asked \cup {NoCast} /\ (held \in pending /\ held # active => dropped = held)
      /\ (held # NoCast => owner[held] # "pet")
  BY <1>2 DEF QueueShape
<1> HIDE DEF dropped
<1>4. Abandoned(dropped) \in Seq(Writes(1..asked)) /\ Packet("cancel", active) \in Seq(Writes(1..asked))
  <2>1. Packet("cancel", active) \in Seq(Writes(1..asked))
    BY <1>2 DEF Packet, Writes, Requests
  <2> QED BY <1>3, <2>1, AbandonedType
<1>5. packets \in Seq(Writes(1..asked))
  BY <1>4
<1>6. CastsIn(Abandoned(dropped), "failed") \subseteq CastsIn(packets, "failed")
  BY <1>4, CastsInConcat
<1>7. \A d \in pending \ pending' :
          d \in Answers(packets) \cup dismissed' \/ owner'[d] = "pet"
  <2> SUFFICES ASSUME NEW d \in pending \ pending', d \notin {active, c}
               PROVE  d \in Answers(packets)
    BY <1>1
  <2>1. d = held /\ held # NoCast /\ dropped = held
    BY <1>1, <1>3, ShapeFromIInv DEF QueueShape
  <2>2. d \in CastsIn(Abandoned(dropped), "failed")
    BY <1>3, <2>1, CastsInAbandoned
  <2> QED BY <1>6, <2>2 DEF Answers
<1> HIDE DEF packets
<1>8. Effect(packets)
  BY <1>1, <1>2, <1>5, <1>7 DEF Effect
<1> QED BY <1>1, <1>8 DEF SectionEffect

\* A section that takes casts from pendingCasts and writes no body.
LEMMA QuietEffect ==
    ASSUME IInv, NEW t, NEW packets \in Seq(Writes(1..asked)), Section(t, packets),
           UNCHANGED <<castVars, sent, answered>>, dismissed \subseteq dismissed',
           pending' \subseteq pending,
           pending \ pending' \subseteq Answers(packets) \cup dismissed',
           held' # NoCast => held' = held /\ held' \notin CastsIn(packets, "cast")
    PROVE  SectionEffect(t)
<1>1. asked' = asked /\ owner' = owner
  BY DEF castVars
<1>2. Effect(packets)
  BY <1>1 DEF Effect
<1> QED BY <1>2 DEF SectionEffect

LEMMA ResetEffect ==
    ASSUME IInv, NEW t, ResetCharacter(t)
    PROVE  SectionEffect(t)
<1>1. /\ pending' = {} /\ held' = NoCast /\ dismissed' = dismissed \cup 1..asked
      /\ Section(t, <<>>) /\ UNCHANGED <<castVars, sent, answered>>
  BY DEF ResetCharacter, DropQueue
<1>2. pending \subseteq 1..asked
  BY ShapeFromIInv DEF QueueShape
<1> QED BY <1>1, <1>2, NothingWritten, QuietEffect

LEMMA ClientEffect ==
    ASSUME IInv, ClientSection
    PROVE  SectionEffect("client")
<1>1. ASSUME NEW s \in Spells, CastSpell(s) PROVE SectionEffect("client")
  BY <1>1, CastSpellEffect
<1>2. ASSUME NEW s \in Spells, UseItem(s) \/ PetCastSpell(s) PROVE SectionEffect("client")
  BY <1>2, OtherCastEffect DEF UseItem, PetCastSpell
<1>3. ASSUME NEW s \in Spells, CancelSpell(s) PROVE SectionEffect("client")
  <2>1. CancelActive(active) /\ UNCHANGED castVars /\ UNCHANGED <<sent, answered>>
    BY <1>3 DEF CancelSpell
  <2>2. active # NoCast /\ active \in 1..asked
    <3>1. active # NoCast
      BY <1>3, SpellRanks DEF CancelSpell, ActiveSpell
    <3> QED BY <3>1, ShapeFromIInv DEF QueueShape, ActiveTracked
  <2> QED BY <2>1, <2>2, CancelActiveEffect
<1>4. ASSUME NEW c \in Casts, CancelCast(c) PROVE SectionEffect("client")
  <2>1. c \in 1..asked /\ c # NoCast /\ UNCHANGED castVars /\ UNCHANGED <<castVars, sent, answered>>
        /\ UNCHANGED <<sent, answered>>
    BY <1>4, ShapeFromIInv DEF CancelCast
  <2>2. CASE active = c /\ CancelActive(c)
    BY <2>1, <2>2, CancelActiveEffect
  <2>3. CASE held' = NoCast /\ pending' = pending \ {c}
             /\ dismissed' = dismissed \cup {c} /\ Section("client", <<>>)
    BY <2>1, <2>3, NothingWritten, QuietEffect
  <2>4. CASE pending' = pending \ {c} /\ dismissed' = dismissed \cup {c}
             /\ Section("client", Packet("cancel", c)) /\ UNCHANGED held
    <3>1. Packet("cancel", c) \in Seq(Writes(1..asked))
      BY <2>1 DEF Packet, Writes, Requests
    <3>2. CastsIn(Packet("cancel", c), "cast") = {}
      BY CastsInPacket
    <3> QED BY <2>1, <2>4, <3>1, <3>2, QuietEffect
  <2> QED BY <1>4, <2>2, <2>3, <2>4 DEF CancelCast
<1> QED BY <1>1, <1>2, <1>3, <1>4, ResetEffect DEF ClientSection

\* An answer to the client, and the body of the held cast behind it.
LEMMA EndActiveEffect ==
    ASSUME IInv, NEW rest \in SUBSET pending, pending' = rest,
           NEW answers \in Seq(Writes(1..asked)), EndActive(rest, answers),
           pending \ rest \subseteq Answers(answers),
           UNCHANGED <<castVars, sent, answered, dismissed>>
    PROVE  SectionEffect("relay")
<1> DEFINE body    == When(Promotes(rest), Packet("cast", held))
           packets == answers \o body
<1>1. held' = NoCast /\ Section("relay", packets)
  BY DEF EndActive
<1>2. body \in Seq(Writes(1..asked))
  <2>1. Promotes(rest) \in BOOLEAN /\ "cast" \in Packets \cup Requests
        /\ (Promotes(rest) => held \in 1..asked)
    BY ShapeFromIInv DEF Promotes, QueueShape, Requests
  <2> QED BY <2>1, PacketType
<1> HIDE DEF body
<1>3. packets \in Seq(Writes(1..asked))
  BY <1>2
<1>4. Answers(answers) \subseteq Answers(packets)
  BY <1>2, CastsInConcat DEF Answers
<1> HIDE DEF packets
<1> QED BY <1>1, <1>3, <1>4, QuietEffect

LEMMA SpellStartEffect ==
    ASSUME IInv, NEW s \in Spells, NEW caster, SpellStart(s, caster),
           UNCHANGED <<castVars, sent, answered, dismissed>>
    PROVE  SectionEffect("relay")
<1> DEFINE c == StartMatch(s, caster)
<1>1. UNCHANGED <<pending, held>>
  BY DEF SpellStart
<1>2. c \in 1..asked \cup {NoCast}
  BY ShapeFromIInv, MatchMember DEF QueueShape
<1>3. CASE c = NoCast
  <2>1. Section("relay", <<>>)
    BY <1>3 DEF SpellStart
  <2> QED BY <1>1, <2>1, NothingWritten, CastsInNone, QuietEffect
<1>4. CASE c # NoCast
  <2> DEFINE packets == Packet("prepare", c) \o Packet("start", c)
  <2>1. Section("relay", packets)
    BY <1>4 DEF SpellStart
  <2> HIDE DEF c
  <2>2. Packet("prepare", c) \in Seq(Writes(1..asked)) /\ Packet("start", c) \in Seq(Writes(1..asked))
    BY <1>2, <1>4 DEF Packet, Writes, Packets
  <2>3. CastsIn(Packet("prepare", c), "cast") = {} /\ CastsIn(Packet("start", c), "cast") = {}
    BY CastsInPacket
  <2>4. packets \in Seq(Writes(1..asked)) /\ CastsIn(packets, "cast") = {}
    BY <2>2, <2>3, CastsInConcat
  <2> HIDE DEF packets
  <2> QED BY <1>1, <2>1, <2>4, QuietEffect
<1> QED BY <1>3, <1>4

\* A verdict about cast c behind a PREPARE, as SPELL_GO and CAST_FAILED send it.
LEMMA VerdictPackets ==
    ASSUME NEW S, NEW c \in S \cup {NoCast},
           NEW last \in BOOLEAN, NEW d, last => d \in S, NEW kind \in {"go", "failed"}
    PROVE  LET packets == Binding(c) \o When(last, Packet(kind, d))
           IN  /\ packets \in Seq(Writes(S))
               /\ CastsIn(packets, "cast") = {}
               /\ last => d \in Answers(packets)
<1> DEFINE tail == When(last, Packet(kind, d))
<1>1. kind \in Packets \cup Requests
  BY DEF Packets
<1>2. Binding(c) \in Seq(Writes(S)) /\ tail \in Seq(Writes(S))
  BY <1>1, PacketType, BindingType
<1>3. /\ CastsIn(Binding(c), "cast") = {} /\ CastsIn(Packet(kind, d), "cast") = {}
      /\ CastsIn(Packet(kind, d), kind) = {d}
  BY CastsInPacket, CastsInBinding
<1>4. /\ CastsIn(tail, "cast") \in {CastsIn(Packet(kind, d), "cast"), {}}
      /\ last => CastsIn(tail, kind) = CastsIn(Packet(kind, d), kind)
  BY CastsInWhen
<1> HIDE DEF tail
<1>5. \A k : CastsIn(Binding(c) \o tail, k) = CastsIn(Binding(c), k) \cup CastsIn(tail, k)
  BY <1>2, CastsInConcat
<1>6. Binding(c) \o tail \in Seq(Writes(S))
  BY <1>2
<1>7. last => d \in Answers(Binding(c) \o tail)
  BY <1>3, <1>4, <1>5 DEF Answers
<1> QED BY <1>3, <1>4, <1>5, <1>6, <1>7 DEF tail

LEMMA SpellGoEffect ==
    ASSUME IInv, NEW s \in Spells, NEW caster, SpellGo(s, caster),
           UNCHANGED <<castVars, sent, answered, dismissed>>
    PROVE  SectionEffect("relay")
<1> DEFINE c       == GoMatch(s, caster)
           answers == Binding(c) \o Packet("go", c)
<1>1. c \in pending \cup {NoCast} /\ pending \subseteq 1..asked
  BY ShapeFromIInv, MatchMember DEF QueueShape
<1>2. CASE c = NoCast
  <2>1. Section("relay", <<>>) /\ UNCHANGED <<pending, held>>
    BY <1>2 DEF SpellGo
  <2> QED BY <2>1, NothingWritten, CastsInNone, QuietEffect
<1>3. CASE c # NoCast
  <2>1. pending' = pending \ {c} /\ c \in pending /\ c \in 1..asked
    BY <1>1, <1>3 DEF SpellGo, Consume
  <2>2. answers \in Seq(Writes(1..asked)) /\ CastsIn(answers, "cast") = {} /\ c \in Answers(answers)
    <3> HIDE DEF c
    <3>1. answers = Binding(c) \o When(TRUE, Packet("go", c))
      BY DEF When
    <3> HIDE DEF answers
    <3> QED BY <2>1, <3>1, VerdictPackets
  <2>3. CASE c = active
    <3>1. EndActive(pending \ {c}, answers)
      BY <1>3, <2>3 DEF SpellGo
    <3> HIDE DEF c, answers
    <3> QED BY <2>1, <2>2, <3>1, EndActiveEffect
  <2>4. CASE c # active
    <3>1. Section("relay", answers) /\ UNCHANGED held
      BY <1>3, <2>4 DEF SpellGo
    <3> HIDE DEF c, answers
    <3> QED BY <2>1, <2>2, <3>1, QuietEffect
  <2> QED BY <2>3, <2>4
<1> QED BY <1>2, <1>3

LEMMA CastFailedEffect ==
    ASSUME IInv, NEW s \in Spells, NEW reason, CastFailed(s, reason),
           UNCHANGED <<castVars, sent, answered, dismissed>>
    PROVE  SectionEffect("relay")
<1>1. CASE SwallowFailure(s, reason)
  <2>1. Section("relay", <<>>) /\ UNCHANGED <<pending, held>>
    BY <1>1 DEF SwallowFailure
  <2> QED BY <2>1, NothingWritten, CastsInNone, QuietEffect
<1>2. CASE RetryCast(s, reason)
  <2>1. UNCHANGED <<pending, held>>
        /\ (Section("relay", Packet("cast", active)) \/ Section("relay", <<>>))
    BY <1>2 DEF RetryCast, Retries
  <2>2. active # NoCast /\ active \in 1..asked /\ (held # NoCast => held # active)
    BY <1>2, ShapeFromIInv
       DEF RetryCast, ActiveNotReady, AnswersActive, QueueShape, ActiveTracked
  <2>3. Packet("cast", active) \in Seq(Writes(1..asked))
    BY <2>2 DEF Packet, Writes, Requests
  <2>4. CastsIn(Packet("cast", active), "cast") = {active}
    BY CastsInPacket
  <2> QED BY <2>1, <2>2, <2>3, <2>4, NothingWritten, CastsInNone, QuietEffect
<1>3. CASE DeliverFailure(s, reason)
  <2> DEFINE c       == FailureMatch(s)
             blamed  == IF c # NoCast THEN c ELSE completed[s]
             answers == Binding(c) \o When(blamed # NoCast, Packet("failed", blamed))
             ends    == c # NoCast /\ (active = c \/ ActiveSpell = spell[c])
  <2>1. c \in pending \cup {NoCast} /\ pending \subseteq 1..asked
        /\ completed[s] \in 1..asked \cup {NoCast} /\ NoCast \notin pending
    <3>1. completed[s] \in 1..asked \cup {NoCast} /\ pending \subseteq 1..asked
      BY ShapeFromIInv DEF QueueShape, NoCast
    <3> QED BY <3>1, ShapeFromIInv, MatchMember
  <2>2. pending' = pending \ {c}
    BY <1>3, <2>1 DEF DeliverFailure, Consume
  <2>3. /\ answers \in Seq(Writes(1..asked)) /\ CastsIn(answers, "cast") = {}
        /\ c # NoCast => c \in Answers(answers)
    <3>1. (blamed # NoCast) \in BOOLEAN
      OBVIOUS
    <3>2. c \in 1..asked \cup {NoCast} /\ (blamed # NoCast => blamed \in 1..asked)
          /\ (c # NoCast => blamed = c)
      BY <2>1
    <3> HIDE DEF c, blamed
    <3> QED BY <3>1, <3>2, VerdictPackets
  <2>4. CASE ends
    <3>1. EndActive(pending \ {c}, answers)
      BY <1>3, <2>4 DEF DeliverFailure
    <3>2. c # NoCast
      BY <2>4
    <3> HIDE DEF c, answers, ends
    <3> QED BY <2>1, <2>2, <2>3, <3>1, <3>2, EndActiveEffect
  <2>5. CASE ~ends
    <3>1. Section("relay", answers) /\ UNCHANGED held
      BY <1>3, <2>5 DEF DeliverFailure
    <3> HIDE DEF c, answers, ends
    <3> QED BY <2>1, <2>2, <2>3, <3>1, QuietEffect
  <2> QED BY <2>4, <2>5
<1> QED BY <1>1, <1>2, <1>3 DEF CastFailed

LEMMA PetCastFailedEffect ==
    ASSUME IInv, NEW s \in Spells, PetCastFailed(s),
           UNCHANGED <<castVars, sent, answered, dismissed>>
    PROVE  SectionEffect("relay")
<1> DEFINE pets    == {p \in pending : owner[p] = "pet"}
           c       == Find(s, FALSE, pets)
           packets == When(c # NoCast, Packet("failed", c))
<1>1. pending \subseteq 1..asked /\ pending \subseteq Casts /\ NoCast \notin pending
  BY ShapeFromIInv DEF QueueShape
<1>2. c \in pets \cup {NoCast} /\ pets \subseteq 1..asked
  BY <1>1, FindMember
<1>3. pending' = pending \ {c} /\ UNCHANGED held /\ Section("relay", packets)
  BY DEF PetCastFailed
<1> HIDE DEF c, pets
<1>4. packets \in Seq(Writes(1..asked))
  <2>1. (c # NoCast) \in BOOLEAN /\ "failed" \in Packets \cup Requests
    BY DEF Packets
  <2> QED BY <1>2, <2>1, PacketType
<1>5. /\ CastsIn(packets, "cast") \in {CastsIn(Packet("failed", c), "cast"), {}}
      /\ c # NoCast => CastsIn(packets, "failed") = CastsIn(Packet("failed", c), "failed")
  BY CastsInWhen
<1>6. CastsIn(packets, "cast") = {} /\ (c # NoCast => c \in Answers(packets))
  BY <1>5, CastsInPacket DEF Answers
<1> HIDE DEF packets
<1> QED BY <1>1, <1>3, <1>4, <1>6, QuietEffect

LEMMA RelayEffect ==
    ASSUME IInv, RelaySection
    PROVE  SectionEffect("relay")
<1>1. /\ \A c \in 1..asked : answer[c] \in Spells
      /\ casting \subseteq 1..asked
      /\ requests # <<>> => Head(requests) \in 1..asked
  <2>1. requests \in Seq(1..asked)
    BY DEF IInv, QueueInv
  <2>2. requests # <<>> => Head(requests) \in 1..asked
    BY <2>1, HeadAndTail
  <2> QED BY <2>2 DEF IInv, QueueInv
<1>2. ASSUME NEW c \in 1..asked, NEW reason, Fails(c, reason),
             UNCHANGED <<castVars, sent, answered, dismissed>>
      PROVE  SectionEffect("relay")
  <2>1. answer[c] \in Spells
    BY <1>1
  <2> QED BY <1>2, <2>1, CastFailedEffect, PetCastFailedEffect DEF Fails
<1>3. ASSUME UNCHANGED <<castVars, histVars>>
      PROVE  UNCHANGED <<castVars, sent, answered, dismissed>>
  BY <1>3 DEF histVars
<1>4. CASE RealmFails /\ UNCHANGED <<castVars, histVars>>
  BY <1>1, <1>2, <1>3, <1>4 DEF RealmFails
<1>5. CASE RealmStarts /\ UNCHANGED <<castVars, histVars>>
  BY <1>1, <1>3, <1>5, SpellStartEffect DEF RealmStarts
<1>6. CASE RealmFinishesAtOnce /\ UNCHANGED <<castVars, histVars>>
  BY <1>1, <1>3, <1>6, SpellGoEffect DEF RealmFinishesAtOnce
<1>7. CASE RealmFinishes /\ UNCHANGED <<castVars, histVars>>
  BY <1>1, <1>3, <1>7, SpellGoEffect DEF RealmFinishes
<1>8. CASE RealmInterrupts /\ UNCHANGED <<castVars, histVars>>
  BY <1>1, <1>2, <1>3, <1>8 DEF RealmInterrupts
<1>9. CASE ResetCharacter("relay")
  BY <1>9, ResetEffect
<1> QED BY <1>4, <1>5, <1>6, <1>7, <1>8, <1>9 DEF RelaySection

\* A step is a section of a goroutine, a write, or leaves the queue alone.
LEMMA NextEffect ==
    ASSUME IInv, [Next]_vars
    PROVE  \/ \E t \in Threads : SectionEffect(t)
           \/ \E t \in Threads : Write(t)
           \/ UNCHANGED <<castVars, pending, held, outbox, histVars>>
<1>1. CASE ClientSection
  BY <1>1, ClientEffect DEF Threads
<1>2. CASE RelaySection
  BY <1>2, RelayEffect DEF Threads
<1>3. CASE TimePasses
  BY <1>3 DEF TimePasses
<1>4. CASE UNCHANGED vars
  BY <1>4 DEF vars, queueVars
<1> QED BY <1>1, <1>2, <1>3, <1>4 DEF Next

-----------------------------------------------------------------------------
(* The theorems that follow from the effects.                               *)

\* spell_queue.go holds a repeated cast "without its heartbeat until SPELL_GO or
\* a terminal CAST_FAILED, then released once": while it is held, its body has
\* never gone to the realm and is in no outbox on its way there.
THEOREM HeldIsUnsent == Spec => []HeldUnsent
<1>1. Init => HeldUnsent
  BY DEF Init, HeldUnsent
<1>2. IInv /\ HeldUnsent /\ [Next]_vars => HeldUnsent'
  <2> SUFFICES ASSUME IInv, HeldUnsent, [Next]_vars, held' # NoCast,
                      NEW u \in Threads
               PROVE  held' \notin sent' /\ held' \notin Queued(u, "cast")'
    BY DEF HeldUnsent, Threads
  <2>1. QueueShape /\ OutboxShape /\ asked \in Nat /\ sent \subseteq 1..asked
    BY ShapeFromIInv DEF IInv, QueueInv
  <2>2. CASE \E t \in Threads : SectionEffect(t)
    <3>0. PICK t \in Threads : SectionEffect(t)
      BY <2>2
    <3>1. PICK packets : Section(t, packets) /\ Effect(packets)
      BY <3>0 DEF SectionEffect
    <3>2. /\ held' = held \/ (held' = asked + 1 /\ asked' = asked + 1)
          /\ held' \notin CastsIn(packets, "cast") /\ sent' = sent
      BY <3>1 DEF Effect
    <3>3. Queued(u, "cast")' = CastsIn(packets, "cast") \/ Queued(u, "cast")' = Queued(u, "cast")
      BY <2>1, <3>1, QueuedAfter
    <3>4. Queued(u, "cast") \subseteq 1..asked
      BY <2>1, QueuedCasts
    <3>5. held' = held => held' \notin sent /\ held' \notin Queued(u, "cast")
      BY DEF HeldUnsent
    <3>6. held' = asked + 1 => held' \notin sent /\ held' \notin Queued(u, "cast")
      BY <2>1, <3>4
    <3> QED BY <3>2, <3>3, <3>5, <3>6
  <2>3. CASE \E t \in Threads : Write(t)
    <3>1. PICK t \in Threads : Write(t)
      BY <2>3
    <3>2. /\ outbox[t] # <<>> /\ held' = held
          /\ outbox' = [outbox EXCEPT ![t] = Tail(outbox[t])]
          /\ sent' = sent \/ (Head(outbox[t]).kind = "cast" /\ sent' = sent \cup {Head(outbox[t]).cast})
      BY <3>1 DEF Write, queueVars
    <3>3. Queued(t, "cast") = CastsIn(Tail(outbox[t]), "cast")
             \cup (IF Head(outbox[t]).kind = "cast" THEN {Head(outbox[t]).cast} ELSE {})
      BY <2>1, <3>2, CastsInTail DEF OutboxShape, Queued
    <3>4. Queued(u, "cast")' \subseteq Queued(u, "cast")
      BY <2>1, <3>2, <3>3 DEF OutboxShape, Queued
    <3> QED BY <3>2, <3>3, <3>4 DEF HeldUnsent
  <2>4. CASE UNCHANGED <<castVars, pending, held, outbox, histVars>>
    BY <2>4 DEF HeldUnsent, Queued, histVars
  <2> QED BY <2>2, <2>3, <2>4, NextEffect
<1> QED BY <1>1, <1>2, Inductive, PTL DEF Spec

\* trimPendingCastsLocked keeps pendingCasts within its limit, whatever the
\* limit and however the handlers interleave.
THEOREM PendingIsBounded == Spec => []PendingBounded
<1>1. Init => PendingBounded
  BY CastBounds, FS_EmptySet DEF Init, PendingBounded
<1>2. IInv /\ PendingBounded /\ [Next]_vars => PendingBounded'
  <2> SUFFICES ASSUME IInv, PendingBounded, [Next]_vars PROVE PendingBounded'
    OBVIOUS
  <2>1. asked \in Nat /\ pending \subseteq 1..asked /\ pending \subseteq Casts
    BY ShapeFromIInv DEF QueueShape
  <2>2. IsFiniteSet(pending) /\ Cardinality(pending) \in Nat
    <3>1. IsFiniteSet(1..asked)
      BY <2>1, FS_Interval
    <3>2. IsFiniteSet(pending)
      BY <2>1, <3>1, FS_Subset
    <3> QED BY <3>2, FS_CardinalityType
  <2>3. ASSUME pending' \subseteq pending PROVE PendingBounded'
    <3>1. Cardinality(pending') <= Cardinality(pending) /\ Cardinality(pending') \in Nat
      BY <2>2, <2>3, FS_Subset, FS_CardinalityType
    <3> QED BY <2>2, <3>1, CastBounds DEF PendingBounded
  <2>4. ASSUME pending' \subseteq (pending \ {Evicted}) \cup {asked + 1} PROVE PendingBounded'
    <3> DEFINE kept == pending \ {Evicted}
               more == kept \cup {asked + 1}
    <3>1. IsFiniteSet(kept) /\ Cardinality(kept) \in Nat
          /\ Cardinality(kept) = IF Evicted \in pending THEN Cardinality(pending) - 1
                                                        ELSE Cardinality(pending)
      BY <2>2, FS_RemoveElement, FS_CardinalityType
    <3>2. Cardinality(kept) + 1 <= PendingLimit
      <4>1. CASE Cardinality(pending) >= PendingLimit
        <5>1. pending # {}
          BY <2>2, <4>1, CastBounds, FS_EmptySet
        <5>2. pending \in SUBSET Nat
          BY <2>1, CastsAreNumbers
        <5>3. Evicted \in pending
          BY <4>1, <5>1, <5>2, OldestMember DEF Evicted
        <5> HIDE DEF kept
        <5> QED BY <2>2, <3>1, <4>1, <5>3, CastBounds DEF PendingBounded
      <4>2. CASE ~(Cardinality(pending) >= PendingLimit)
        <5> HIDE DEF kept
        <5> QED BY <2>2, <3>1, <4>2, CastBounds
      <4> QED BY <4>1, <4>2
    <3> HIDE DEF kept
    <3>3. IsFiniteSet(more) /\ Cardinality(more) \in Nat /\ Cardinality(more) <= Cardinality(kept) + 1
      <4>1. /\ IsFiniteSet(more)
            /\ Cardinality(more) = IF asked + 1 \in kept THEN Cardinality(kept)
                                                        ELSE Cardinality(kept) + 1
        <5> HIDE DEF kept
        <5> QED BY <3>1, FS_AddElement
      <4> HIDE DEF kept, more
      <4> QED BY <3>1, <4>1, FS_CardinalityType
    <3>4. Cardinality(pending') <= Cardinality(more) /\ Cardinality(pending') \in Nat
      <4>1. pending' \subseteq more
        BY <2>4 DEF kept
      <4> HIDE DEF more
      <4> QED BY <3>3, <4>1, FS_Subset, FS_CardinalityType
    <3> HIDE DEF more
    <3> QED BY <3>1, <3>2, <3>3, <3>4, CastBounds DEF PendingBounded
  <2>5. CASE \E t \in Threads : SectionEffect(t)
    BY <2>3, <2>4, <2>5 DEF SectionEffect, Effect
  <2>6. CASE \E t \in Threads : Write(t)
    <3>1. UNCHANGED pending
      BY <2>6 DEF Write, queueVars
    <3> QED BY <2>3, <3>1
  <2>7. CASE UNCHANGED <<castVars, pending, held, outbox, histVars>>
    BY <2>3, <2>7
  <2> QED BY <2>5, <2>6, <2>7, NextEffect
<1> QED BY <1>1, <1>2, Inductive, PTL DEF Spec

\* No cast the client waits for is lost inside the proxy: until its answer is
\* written it is in pendingCasts or its answer is in an outbox, through every
\* eviction, replacement, cancel, reset and failure.
THEOREM NothingIsForgotten == Spec => []NothingForgotten
<1>1. Init => NothingForgotten
  BY CastsAreNumbers DEF Init, NothingForgotten
<1>2. IInv /\ NothingForgotten /\ [Next]_vars => NothingForgotten'
  <2> DEFINE Owed(c) == \E u \in Threads : c \in Queued(u, "go") \cup Queued(u, "failed")
  <2> SUFFICES ASSUME IInv, NothingForgotten, [Next]_vars, NEW c \in 1..asked'
               PROVE  c \in (pending \cup answered \cup dismissed)' \/ Owed(c)' \/ owner'[c] = "pet"
    BY DEF NothingForgotten
  <2>1. QueueShape /\ OutboxShape /\ asked \in Nat /\ NoCast \notin 1..asked
    BY ShapeFromIInv
  <2>2. c \in 1..asked => c \in pending \cup answered \cup dismissed \/ Owed(c) \/ owner[c] = "pet"
    BY DEF NothingForgotten
  <2>3. CASE \E t \in Threads : SectionEffect(t)
    <3>0. PICK t \in Threads : SectionEffect(t)
      BY <2>3
    <3>1. PICK packets : Section(t, packets) /\ Effect(packets)
      BY <3>0 DEF SectionEffect
    <3>2. \A kind : /\ Queued(t, kind)' = CastsIn(packets, kind) /\ Queued(t, kind) = {}
                    /\ \A u \in Threads \ {t} : Queued(u, kind)' = Queued(u, kind)
      BY <2>1, <3>1, QueuedAfter
    <3>3. Owed(c) => Owed(c)'
      BY <3>2
    <3>4. c \in Answers(packets) => Owed(c)'
      BY <3>2 DEF Answers
    <3>5. /\ c \in 1..asked \/ c \in pending'
          /\ c \in pending \ pending' =>
                c \in Answers(packets) \cup dismissed' \/ owner'[c] = "pet"
          /\ c \in 1..asked => owner'[c] = owner[c]
          /\ dismissed \subseteq dismissed' /\ answered' = answered
      BY <3>1 DEF Effect
    <3> HIDE DEF Owed
    <3> QED BY <2>2, <3>3, <3>4, <3>5
  <2>4. CASE \E t \in Threads : Write(t)
    <3>1. PICK t \in Threads : Write(t)
      BY <2>4
    <3> DEFINE packet == Head(outbox[t])
    <3>2. /\ outbox[t] # <<>> /\ asked' = asked /\ owner' = owner /\ pending' = pending
          /\ dismissed' = dismissed /\ outbox' = [outbox EXCEPT ![t] = Tail(outbox[t])]
          /\ answered' = IF packet.kind \in {"go", "failed"}
                         THEN answered \cup {packet.cast} ELSE answered
      BY <3>1 DEF Write, castVars, queueVars
    <3>3. \A kind : Queued(t, kind) = CastsIn(Tail(outbox[t]), kind)
             \cup (IF packet.kind = kind THEN {packet.cast} ELSE {})
      BY <2>1, <3>2, CastsInTail DEF OutboxShape, Queued
    <3>4. \A kind : /\ Queued(t, kind)' = CastsIn(Tail(outbox[t]), kind)
                    /\ \A u \in Threads \ {t} : Queued(u, kind)' = Queued(u, kind)
      BY <2>1, <3>2 DEF OutboxShape, Queued
    <3> HIDE DEF packet
    <3>5. Owed(c) => Owed(c)' \/ c \in answered'
      BY <3>2, <3>3, <3>4
    <3>6. answered \subseteq answered'
      BY <3>2
    <3> HIDE DEF Owed
    <3> QED BY <2>2, <3>2, <3>5, <3>6
  <2>5. CASE UNCHANGED <<castVars, pending, held, outbox, histVars>>
    <3>1. Owed(c)' <=> Owed(c)
      BY <2>5 DEF Queued
    <3> HIDE DEF Owed
    <3> QED BY <2>2, <2>5, <3>1 DEF castVars, histVars
  <2> QED BY <2>3, <2>4, <2>5, NextEffect
<1> QED BY <1>1, <1>2, Inductive, PTL DEF Spec

-----------------------------------------------------------------------------
(* The held cast.  Its place behind the active one is lost when an item's or *)
(* a pet's cast has pendingCasts evict the active cast (run spell_orphan):   *)
(* the theorems are about behaviours in which these casts find room.         *)

OthersFit == asked' # asked /\ owner'[asked'] # "player" => Cardinality(pending) < PendingLimit

\* What a step may do to the held cast: drop it, leave it behind the same
\* active cast, or hold the new cast behind the active cast of its spell.
HoldEffect ==
    \/ held' = NoCast
    \/ held' = held /\ active' = active
    \/ /\ held' = asked + 1 /\ active' = active /\ active # NoCast
       /\ spell'[held'] = ActiveSpell

LEMMA HoldEffectEnough ==
    ASSUME IInv, HeldBehindActive, HoldEffect,
           \A c \in 1..asked : spell'[c] = spell[c]
    PROVE  HeldBehindActive'
<1>1. asked \in Nat /\ held \in 0..asked /\ (active # NoCast => active \in 1..asked)
  BY ShapeFromIInv DEF QueueShape, ActiveTracked
<1>2. active # NoCast => spell'[active] = spell[active]
  BY <1>1
<1>3. CASE held' = NoCast
  BY <1>3 DEF HeldBehindActive
<1>4. CASE held' = held /\ active' = active
  <2> SUFFICES ASSUME held # NoCast PROVE ActiveSpell' = spell'[held]
    BY <1>4 DEF HeldBehindActive
  <2>1. held \in 1..asked
    BY <1>1 DEF NoCast
  <2>2. ActiveSpell = spell[held] /\ spell[held] \in Spells
    BY <2>1 DEF HeldBehindActive, IInv, QueueInv
  <2>3. active # NoCast
    BY <2>2, SpellRanks DEF ActiveSpell
  <2> QED BY <1>2, <1>4, <2>1, <2>2, <2>3 DEF ActiveSpell
<1>5. CASE held' = asked + 1 /\ active' = active /\ active # NoCast /\ spell'[held'] = ActiveSpell
  BY <1>2, <1>5 DEF HeldBehindActive, ActiveSpell
<1> QED BY <1>3, <1>4, <1>5 DEF HoldEffect

LEMMA CastSpellHolds ==
    ASSUME IInv, NEW s \in Spells, CastSpell(s)
    PROVE  HoldEffect
<1>1. CASE Holds(s)
  <2>1. held' = asked + 1 /\ UNCHANGED active /\ active # NoCast /\ ActiveSpell = s
    BY <1>1 DEF CastSpell, Holds, Competes
  <2>2. NewCast(asked + 1, s, "player")
    BY DEF CastSpell
  <2>3. asked + 1 \in Casts /\ spell \in [Casts -> Spells \cup {NoSpell}]
    BY <2>2, NewCastFacts DEF IInv, TypeOK
  <2>4. spell'[asked + 1] = s
    BY <2>2, <2>3 DEF NewCast
  <2> QED BY <2>1, <2>4 DEF HoldEffect
<1>2. CASE ~Holds(s)
  BY <1>2 DEF CastSpell, HoldEffect
<1> QED BY <1>1, <1>2

LEMMA OtherCastHolds ==
    ASSUME IInv, NEW s \in Spells, NEW o, o # "player", OtherCast(s, o), OthersFit
    PROVE  HoldEffect
<1>1. NewCast(asked + 1, s, o)
  BY DEF OtherCast
<1>2. asked' = asked + 1 /\ asked' # asked /\ owner'[asked'] # "player"
  BY <1>1, NewCastFacts
<1>3. IsFiniteSet(pending) /\ asked \in Nat /\ PendingLimit \in Nat
  <2>1. pending \subseteq 1..asked /\ asked \in Nat
    BY ShapeFromIInv DEF QueueShape
  <2>2. IsFiniteSet(1..asked)
    BY <2>1, FS_Interval
  <2> QED BY <2>1, <2>2, FS_Subset, CastBounds
<1>4. ~(Cardinality(pending) >= PendingLimit)
  <2>1. Cardinality(pending) \in Nat
    BY <1>3, FS_CardinalityType
  <2> QED BY <1>2, <1>3, <2>1 DEF OthersFit
<1>5. Evicted = NoCast
  BY <1>4 DEF Evicted
<1>6. held' = held /\ active' = active
  BY <1>5 DEF OtherCast, Forget, NoCast
<1> QED BY <1>6 DEF HoldEffect

LEMMA ClientHolds ==
    ASSUME IInv, ClientSection, OthersFit
    PROVE  HoldEffect
<1>1. CASE \E s \in Spells : CastSpell(s)
  BY <1>1, CastSpellHolds
<1>2. CASE \E s \in Spells : UseItem(s) \/ PetCastSpell(s)
  BY <1>2, OtherCastHolds DEF UseItem, PetCastSpell
<1>3. CASE \E c \in Casts : CancelCast(c)
  BY <1>3 DEF CancelCast, CancelActive, DropQueue, HoldEffect
<1>4. CASE \E s \in Spells : CancelSpell(s)
  BY <1>4 DEF CancelSpell, CancelActive, DropQueue, HoldEffect
<1>5. CASE ResetCharacter("client")
  BY <1>5 DEF ResetCharacter, DropQueue, HoldEffect
<1> QED BY <1>1, <1>2, <1>3, <1>4, <1>5 DEF ClientSection

LEMMA AnswerHolds ==
    ASSUME NEW s, NEW caster, NEW reason
    PROVE  SpellStart(s, caster) \/ SpellGo(s, caster) \/ CastFailed(s, reason) \/ PetCastFailed(s)
              => HoldEffect
<1>1. SpellStart(s, caster) => HoldEffect
  BY DEF SpellStart, HoldEffect
<1>2. SpellGo(s, caster) => HoldEffect
  BY DEF SpellGo, EndActive, HoldEffect
<1>3. CastFailed(s, reason) => HoldEffect
  <2>1. SwallowFailure(s, reason) => HoldEffect
    BY DEF SwallowFailure, HoldEffect
  <2>2. RetryCast(s, reason) => HoldEffect
    BY DEF RetryCast, HoldEffect
  <2>3. DeliverFailure(s, reason) => HoldEffect
    BY DEF DeliverFailure, EndActive, HoldEffect
  <2> QED BY <2>1, <2>2, <2>3 DEF CastFailed
<1>4. PetCastFailed(s) => HoldEffect
  BY DEF PetCastFailed, HoldEffect
<1> QED BY <1>1, <1>2, <1>3, <1>4

LEMMA RelayHolds ==
    ASSUME RelaySection
    PROVE  HoldEffect /\ UNCHANGED castVars
<1>1. \A c, reason : Fails(c, reason) => HoldEffect
  BY AnswerHolds DEF Fails
<1>2. RealmFails \/ RealmInterrupts => HoldEffect
  BY <1>1 DEF RealmFails, RealmInterrupts
<1>3. RealmStarts \/ RealmFinishesAtOnce \/ RealmFinishes => HoldEffect
  BY AnswerHolds DEF RealmStarts, RealmFinishesAtOnce, RealmFinishes
<1>4. ResetCharacter("relay") => HoldEffect
  BY DEF ResetCharacter, DropQueue, HoldEffect
<1>5. RealmFails \/ RealmInterrupts \/ RealmStarts \/ RealmFinishesAtOnce \/ RealmFinishes
        \/ ResetCharacter("relay")
  BY DEF RelaySection
<1>6. UNCHANGED castVars
  BY DEF RelaySection, ResetCharacter
<1> QED BY <1>2, <1>3, <1>4, <1>5, <1>6

\* No step renames the spell of a cast that was sent.
LEMMA SpellsKept ==
    ASSUME IInv, [Next]_vars
    PROVE  \A c \in 1..asked : spell'[c] = spell[c]
<1>1. \A s \in Spells : \A o : NewCast(asked + 1, s, o) => \A c \in 1..asked : spell'[c] = spell[c]
  BY NewCastFacts
<1>2. CASE \E s \in Spells : CastSpell(s) \/ UseItem(s) \/ PetCastSpell(s)
  BY <1>1, <1>2 DEF CastSpell, UseItem, PetCastSpell, OtherCast
<1>3. CASE \E s \in Spells : CancelSpell(s)
  BY <1>3 DEF CancelSpell, castVars
<1>4. CASE \E c \in Casts : CancelCast(c)
  BY <1>4 DEF CancelCast, castVars
<1>5. CASE ResetCharacter("client")
  BY <1>5 DEF ResetCharacter, castVars
<1>6. CASE RelaySection
  BY <1>6, RelayHolds DEF castVars
<1>7. CASE TimePasses
  BY <1>7 DEF TimePasses, castVars
<1>8. CASE \E t \in Threads : Write(t)
  BY <1>8 DEF Write, castVars
<1>9. CASE UNCHANGED vars
  BY <1>9 DEF vars, castVars
<1> QED BY <1>2, <1>3, <1>4, <1>5, <1>6, <1>7, <1>8, <1>9 DEF Next, ClientSection

LEMMA NextHolds ==
    ASSUME IInv, [Next]_vars, [OthersFit]_vars
    PROVE  HoldEffect
<1>1. CASE UNCHANGED vars
  BY <1>1 DEF vars, queueVars, HoldEffect
<1>2. CASE Next /\ OthersFit
  <2>1. CASE TimePasses
    BY <2>1 DEF TimePasses, HoldEffect
  <2>2. CASE \E t \in Threads : Write(t)
    BY <2>2 DEF Write, queueVars, HoldEffect
  <2> QED BY <1>2, <2>1, <2>2, ClientHolds, RelayHolds DEF Next
<1> QED BY <1>1, <1>2

\* A held cast always waits behind an active cast of its own spell, whose end
\* releases it, as long as casts that do not pass through the queue find room
\* in pendingCasts (trimPendingCastsLocked clears active but not held).
THEOREM HeldIsBehindActive == Spec /\ [][OthersFit]_vars => []HeldBehindActive
<1>1. Init => HeldBehindActive
  BY DEF Init, HeldBehindActive
<1>2. IInv /\ HeldBehindActive /\ [Next]_vars /\ [OthersFit]_vars => HeldBehindActive'
  BY NextHolds, SpellsKept, HoldEffectEnough
<1> QED BY <1>1, <1>2, Inductive, PTL DEF Spec

-----------------------------------------------------------------------------
(* The held cast stays pending and unstarted, where the realm answers every  *)
(* cast under the spell's own ID.                                            *)

\* The realm's name for a cast is the client's.
OwnSpell ==
    \A c \in 1..asked : answer[c] = spell[c] /\ serverSpell[c] \in {NoSpell, spell[c]}

\* An active cast that began is one the realm is casting: no other cast of the
\* player can start before its end, which is matched to the active one.
BegunAtRealm ==
    active # NoCast /\ Started(active) =>
        \E d \in casting : owner[d] = "player" /\ spell[d] = spell[active]

HeldInv == OwnSpell /\ BegunAtRealm /\ HeldBehindActive /\ HeldTracked

LEMMA NoDownrank ==
    ASSUME LowerRank = {}, NEW s
    PROVE  FindDownrank(s) = NoCast
BY DEF FindDownrank, Oldest

\* What Find answers is of the spell asked for, and not begun if a start asks.
LEMMA FindSpell ==
    ASSUME NEW S \in SUBSET Casts, NEW s, NEW start \in BOOLEAN,
           Find(s, start, S) # NoCast
    PROVE  /\ Find(s, start, S) \in S
           /\ PendingSpell(Find(s, start, S)) = s
           /\ start => ~Started(Find(s, start, S))
<1> DEFINE same  == {c \in S : PendingSpell(c) = s}
           begun == {c \in same : Started(c)}
           fresh == same \ begun
           found == Find(s, start, S)
<1>1. S \in SUBSET Nat
  BY CastsAreNumbers
<1>2. begun \in SUBSET Nat /\ fresh \in SUBSET Nat /\ begun \subseteq same /\ fresh \subseteq same
  BY <1>1
<1>3. (Oldest(begun) \in begun \cup {NoCast}) /\ (Oldest(fresh) \in fresh \cup {NoCast})
  <2> HIDE DEF begun, fresh
  <2> QED BY <1>2, OldestMember DEF Oldest
<1>4. \/ found = active /\ active \in same /\ (start => active \in fresh)
      \/ found = Oldest(begun) /\ ~start
      \/ found = Oldest(fresh)
  BY DEF Find
<1>5. found \in same /\ (start => found \in fresh)
  <2> HIDE DEF same, begun, fresh, found
  <2>1. found # NoCast
    BY DEF found
  <2> QED BY <1>2, <1>3, <1>4, <2>1
<1> QED BY <1>5

\* The active cast is found before another cast of its spell.
LEMMA FindActive ==
    ASSUME NEW S \in SUBSET Casts, NEW s, NEW start \in BOOLEAN,
           active \in S, ActiveSpell = s, PendingSpell(active) = s
    PROVE  /\ start # Started(active) => Find(s, start, S) = active
           /\ ~start /\ ~Started(active) =>
                 Find(s, start, S) = active \/ Started(Find(s, start, S))
<1> DEFINE same  == {c \in S : PendingSpell(c) = s}
           begun == {c \in same : Started(c)}
           fresh == same \ begun
<1>1. start # Started(active) => Find(s, start, S) = active
  BY DEF Find, Started
<1>2. ASSUME ~start, ~Started(active), Find(s, start, S) # active
      PROVE  Started(Find(s, start, S))
  <2>1. active \in same /\ ~(active \in begun \/ begun = {})
    BY <1>2 DEF Find
  <2>2. Find(s, start, S) = Oldest(begun)
    BY <1>2, <2>1 DEF Find
  <2>3. begun \in SUBSET Nat /\ begun # {}
    BY <2>1, CastsAreNumbers
  <2>4. Oldest(begun) \in begun
    <3> HIDE DEF begun
    <3> QED BY <2>3, OldestMember
  <2> QED BY <2>2, <2>4
<1> QED BY <1>1, <1>2

LEMMA HeldFacts ==
    ASSUME IInv, HeldInv, held # NoCast
    PROVE  /\ held \in 1..asked /\ active \in 1..asked /\ active # NoCast /\ held # active
           /\ ActiveSpell = spell[held] /\ spell[active] = spell[held]
           /\ PendingSpell(active) = spell[held] /\ PendingSpell(held) = spell[held]
           /\ active \in pending /\ owner[active] = "player" /\ owner[held] = "player"
           /\ ~Started(held) /\ held \in pending
<1>1. held \in 1..asked /\ spell[held] \in Spells
  BY ShapeFromIInv DEF QueueShape, IInv, QueueInv, NoCast
<1>2. ActiveSpell = spell[held] /\ active # NoCast
  BY <1>1, SpellRanks DEF HeldInv, HeldBehindActive, ActiveSpell
<1>3. active \in pending /\ owner[active] = "player" /\ active \in 1..asked
  BY <1>2, ShapeFromIInv DEF QueueShape, ActiveTracked
<1>4. spell[active] = spell[held]
  BY <1>2 DEF ActiveSpell
<1>5. PendingSpell(active) = spell[active]
  BY <1>3 DEF HeldInv, OwnSpell, PendingSpell, Started
<1> QED BY <1>1, <1>2, <1>3, <1>4, <1>5 DEF HeldInv, HeldTracked, PendingSpell

\* A GO is never matched to the held cast.
LEMMA GoNotHeld ==
    ASSUME IInv, HeldInv, NEW s, NEW caster, held # NoCast
    PROVE  GoMatch(s, caster) # held
<1> SUFFICES ASSUME GoMatch(s, caster) = held PROVE FALSE
  OBVIOUS
<1> DEFINE S == Accepted(caster, FALSE)
<1>1. S \in SUBSET Casts /\ FALSE \in BOOLEAN
  BY ShapeFromIInv DEF Accepted
<1>2. Find(s, FALSE, S) = held
  BY DEF GoMatch
<1>3. held \in S /\ PendingSpell(held) = s
  <2> HIDE DEF S
  <2> QED BY <1>1, <1>2, FindSpell
<1>4. caster = "player" /\ s = spell[held]
  BY <1>3, HeldFacts DEF Accepted
<1>5. active \in S
  BY <1>4, HeldFacts DEF Accepted
<1>6. Find(s, FALSE, S) = active \/ Started(Find(s, FALSE, S))
  <2> HIDE DEF S
  <2>1. ActiveSpell = s /\ PendingSpell(active) = s /\ Started(active) \in BOOLEAN
    BY <1>4, HeldFacts DEF Started
  <2> QED BY <1>1, <1>5, <2>1, FindActive
<1> QED BY <1>2, <1>6, HeldFacts

\* A START is matched to the held cast only when the active one has begun.
LEMMA StartNotHeld ==
    ASSUME LowerRank = {}, IInv, HeldInv, NEW s, NEW caster, held # NoCast,
           StartMatch(s, caster) = held
    PROVE  caster = "player" /\ Started(active)
<1> DEFINE S == Accepted(caster, TRUE)
<1>1. S \in SUBSET Casts /\ TRUE \in BOOLEAN
  BY ShapeFromIInv DEF Accepted
<1>2. Find(s, TRUE, S) = held
  BY NoDownrank DEF StartMatch
<1>3. held \in S /\ PendingSpell(held) = s
  <2> HIDE DEF S
  <2> QED BY <1>1, <1>2, FindSpell
<1>4. caster = "player" /\ s = spell[held]
  BY <1>3, HeldFacts DEF Accepted
<1>5. active \in S
  BY <1>4, HeldFacts DEF Accepted
<1>6. Started(active)
  <2> HIDE DEF S
  <2>1. ActiveSpell = s /\ PendingSpell(active) = s /\ Started(active) \in BOOLEAN
    BY <1>4, HeldFacts DEF Started
  <2> QED BY <1>1, <1>2, <1>5, <2>1, FindActive, HeldFacts
<1> QED BY <1>4, <1>6

\* The end of what the active cast began at the realm is matched to it.
LEMMA EndIsActive ==
    ASSUME IInv, HeldInv, active # NoCast, Started(active),
           NEW d \in 1..asked, spell[d] = spell[active], owner[d] = "player"
    PROVE  /\ GoMatch(answer[d], "player") = active
           /\ FailureMatch(answer[d]) = active
<1>1. /\ active \in pending /\ owner[active] = "player" /\ active \in 1..asked
      /\ pending \subseteq Casts
  BY ShapeFromIInv DEF QueueShape, ActiveTracked
<1>2. PendingSpell(active) = spell[active] /\ answer[d] = spell[active] /\ ActiveSpell = spell[active]
  BY <1>1 DEF HeldInv, OwnSpell, PendingSpell, Started, ActiveSpell
<1>3. /\ Accepted("player", FALSE) \in SUBSET Casts
      /\ active \in Accepted("player", FALSE)
      /\ {c \in pending : owner[c] # "pet"} \in SUBSET Casts
      /\ active \in {c \in pending : owner[c] # "pet"}
  BY <1>1 DEF Accepted
<1>4. Started(active) \in BOOLEAN /\ FALSE # Started(active)
  BY DEF Started
<1>5. \A S \in SUBSET Casts : active \in S => Find(answer[d], FALSE, S) = active
  BY <1>2, <1>4, FindActive
<1>6. active # NoCast
  OBVIOUS
<1> QED BY <1>3, <1>5, <1>6 DEF GoMatch, FailureMatch

\* The parts of HeldInv that HeldIsBehindActive does not prove.
HeldKept == OwnSpell' /\ BegunAtRealm' /\ HeldTracked'

LEMMA OwnKept ==
    ASSUME HeldInv, UNCHANGED <<castVars, serverSpell>>
    PROVE  OwnSpell'
BY DEF HeldInv, OwnSpell, castVars

LEMMA BegunKept ==
    ASSUME IInv, HeldInv, casting \subseteq casting',
           \A c \in 1..asked : spell'[c] = spell[c] /\ owner'[c] = owner[c],
           \/ active' = active /\ serverSpell'[active] = serverSpell[active]
           \/ active' = NoCast
           \/ serverSpell'[active'] = NoSpell
    PROVE  BegunAtRealm'
<1> SUFFICES ASSUME active' # NoCast, serverSpell'[active'] # NoSpell
             PROVE  \E d \in casting' : owner'[d] = "player" /\ spell'[d] = spell'[active']
  BY DEF BegunAtRealm, Started
<1>1. active' = active /\ active # NoCast /\ Started(active)
  BY DEF Started
<1>2. active \in 1..asked /\ casting \subseteq 1..asked
  BY <1>1, ShapeFromIInv DEF QueueShape, ActiveTracked, IInv, QueueInv
<1>3. PICK d \in casting : owner[d] = "player" /\ spell[d] = spell[active]
  BY <1>1 DEF HeldInv, BegunAtRealm
<1> QED BY <1>1, <1>2, <1>3

LEMMA TrackedKept ==
    ASSUME IInv', held' # NoCast => held' \in pending' /\ serverSpell'[held'] = NoSpell
    PROVE  HeldTracked'
BY DEF IInv, QueueInv, HeldTracked, Started

\* The client's handlers.
LEMMA NewCastOwn ==
    ASSUME LowerRank = {}, IInv, HeldInv, NEW s \in Spells, NEW o, NewCast(asked + 1, s, o)
    PROVE  OwnSpell'
<1>1. answer' = [answer EXCEPT ![asked + 1] = s] /\ spell' = [spell EXCEPT ![asked + 1] = s]
      /\ UNCHANGED serverSpell
  BY DEF NewCast
<1>2. asked + 1 \in Casts /\ serverSpell[asked + 1] = NoSpell
      /\ 1..asked' = (1..asked) \cup {asked + 1} /\ 1..asked \subseteq Casts
  BY NewCastFacts
<1>3. answer \in [Casts -> Spells \cup {NoSpell}] /\ spell \in [Casts -> Spells \cup {NoSpell}]
  BY DEF IInv, TypeOK
<1> QED BY <1>1, <1>2, <1>3 DEF HeldInv, OwnSpell

LEMMA CastSpellHeld ==
    ASSUME LowerRank = {}, IInv, IInv', HeldInv, NEW s \in Spells, CastSpell(s)
    PROVE  HeldKept
<1>1. NewCast(asked + 1, s, "player")
  BY DEF CastSpell
<1>2. /\ serverSpell[asked + 1] = NoSpell /\ UNCHANGED serverSpell
      /\ \A c \in 1..asked : owner'[c] = owner[c] /\ spell'[c] = spell[c]
      /\ UNCHANGED casting
  BY <1>1, NewCastFacts DEF NewCast, realmVars
<1>3. asked + 1 \in pending' /\ held' \in {NoCast, asked + 1} /\ active' \in {active, asked + 1}
  BY DEF CastSpell, SetActive
<1>4. BegunAtRealm'
  BY <1>2, <1>3, BegunKept
<1>5. HeldTracked'
  BY <1>2, <1>3, TrackedKept
<1> QED BY <1>1, <1>4, <1>5, NewCastOwn DEF HeldKept

\* Nothing is evicted when there is room.
LEMMA NoneEvicted ==
    ASSUME IInv, Cardinality(pending) < PendingLimit
    PROVE  Evicted = NoCast
<1>1. pending \subseteq 1..asked /\ asked \in Nat
  BY ShapeFromIInv DEF QueueShape
<1>2. IsFiniteSet(pending)
  <2>1. IsFiniteSet(1..asked)
    BY <1>1, FS_Interval
  <2> QED BY <1>1, <2>1, FS_Subset
<1>3. Cardinality(pending) \in Nat /\ PendingLimit \in Nat
  BY <1>2, FS_CardinalityType, CastBounds
<1> QED BY <1>3 DEF Evicted

LEMMA OtherCastHeld ==
    ASSUME LowerRank = {}, IInv, IInv', HeldInv, OthersFit,
           NEW s \in Spells, NEW o, o # "player", OtherCast(s, o)
    PROVE  HeldKept
<1>1. NewCast(asked + 1, s, o)
  BY DEF OtherCast
<1>2. /\ asked' = asked + 1 /\ owner'[asked + 1] = o /\ asked \in Nat /\ UNCHANGED serverSpell
      /\ \A c \in 1..asked : owner'[c] = owner[c] /\ spell'[c] = spell[c]
      /\ UNCHANGED casting
  BY <1>1, NewCastFacts DEF NewCast, realmVars
<1>3. Evicted = NoCast
  BY <1>2, NoneEvicted DEF OthersFit
<1>4. held' = held /\ active' = active /\ (held # NoCast => pending' = (pending \ {NoCast}) \cup {asked + 1})
  BY <1>3 DEF OtherCast, Forget
<1>5. HeldTracked'
  BY <1>2, <1>4, TrackedKept DEF HeldInv, HeldTracked, Started
<1>6. BegunAtRealm'
  BY <1>2, <1>4, BegunKept
<1> QED BY <1>1, <1>5, <1>6, NewCastOwn DEF HeldKept

LEMMA DismissHeld ==
    ASSUME IInv, IInv', HeldInv,
           \/ \E c \in Casts : CancelCast(c)
           \/ \E s \in Spells : CancelSpell(s)
           \/ \E t \in Threads : ResetCharacter(t)
    PROVE  HeldKept
<1>1. UNCHANGED <<castVars, serverSpell, casting>>
  BY DEF CancelCast, CancelSpell, ResetCharacter, realmVars
<1>2. active' \in {active, NoCast}
  BY DEF CancelCast, CancelSpell, CancelActive, ResetCharacter, DropQueue, SetActive
<1>3. held' = NoCast \/ (held' = held /\ \E c \in Casts : c # held /\ pending' = pending \ {c})
  BY DEF CancelCast, CancelSpell, CancelActive, ResetCharacter, DropQueue
<1>4. HeldTracked'
  BY <1>1, <1>3, TrackedKept DEF HeldInv, HeldTracked, Started
<1>5. BegunAtRealm'
  BY <1>1, <1>2, BegunKept DEF castVars
<1> QED BY <1>1, <1>4, <1>5, OwnKept DEF HeldKept

\* A START of a cast the realm took from its input while the player was idle.
LEMMA StartHeld ==
    ASSUME LowerRank = {}, IInv, IInv', HeldInv, RealmStarts, UNCHANGED castVars
    PROVE  HeldKept
<1> DEFINE h == Head(requests)
           s == answer[h]
           c == StartMatch(s, owner[h])
<1>1. h \in 1..asked /\ Idle(h) /\ casting' = casting \cup {h} /\ SpellStart(s, owner[h])
      /\ casting \subseteq 1..asked
  BY HeadAndTail DEF RealmStarts, IInv, QueueInv
<1>2. s = spell[h] /\ s \in Spells
  BY <1>1 DEF HeldInv, OwnSpell, IInv, QueueInv
<1>3. /\ UNCHANGED <<pending, active, held>>
      /\ IF c = NoCast THEN UNCHANGED serverSpell
                       ELSE serverSpell' = [serverSpell EXCEPT ![c] = s]
  BY <1>1 DEF SpellStart
<1>4. c # NoCast =>
         /\ c \in Accepted(owner[h], TRUE) /\ c \in pending /\ owner[c] = owner[h]
         /\ PendingSpell(c) = s /\ spell[c] = s /\ c \in 1..asked
  <2>1. Accepted(owner[h], TRUE) \in SUBSET Casts /\ TRUE \in BOOLEAN
        /\ \A d \in Accepted(owner[h], TRUE) : d \in pending /\ owner[d] = owner[h]
    BY ShapeFromIInv DEF Accepted
  <2>2. c = Find(s, TRUE, Accepted(owner[h], TRUE))
    BY NoDownrank DEF StartMatch
  <2> HIDE DEF c
  <2>3. c # NoCast => c \in Accepted(owner[h], TRUE) /\ PendingSpell(c) = s /\ ~Started(c)
    BY <2>1, <2>2, FindSpell
  <2>4. pending \subseteq 1..asked
    BY ShapeFromIInv DEF QueueShape
  <2> QED BY <2>1, <2>3, <2>4 DEF PendingSpell
<1>5. held # NoCast => c # held
  <2> SUFFICES ASSUME held # NoCast, c = held PROVE FALSE
    OBVIOUS
  <2>1. owner[h] = "player" /\ Started(active) /\ active # NoCast
    BY StartNotHeld, HeldFacts
  <2>2. PICK d \in casting : owner[d] = "player"
    BY <2>1 DEF HeldInv, BegunAtRealm
  <2> QED BY <1>1, <2>1, <2>2 DEF Idle, CasterOf
<1> HIDE DEF c
<1>9. /\ c # NoCast => serverSpell'[c] = s
      /\ \A d \in Casts : d # c => serverSpell'[d] = serverSpell[d]
      /\ 1..asked \subseteq Casts /\ active \in Casts \cup {NoCast}
  <2>1. serverSpell \in [Casts -> Spells \cup {NoSpell}] /\ 1..asked \subseteq Casts
        /\ active \in Casts \cup {NoCast}
    BY ShapeFromIInv DEF IInv, TypeOK
  <2> QED BY <1>3, <1>4, <2>1
<1>6. OwnSpell'
  <2> SUFFICES ASSUME NEW d \in 1..asked
               PROVE  answer[d] = spell[d] /\ serverSpell'[d] \in {NoSpell, spell[d]}
    BY DEF OwnSpell, castVars
  <2>1. answer[d] = spell[d] /\ serverSpell[d] \in {NoSpell, spell[d]} /\ d \in Casts /\ d # NoCast
    BY <1>9, CastsAreNumbers DEF HeldInv, OwnSpell
  <2>2. CASE d = c
    <3>1. spell[c] = s /\ serverSpell'[c] = s
      BY <1>4, <1>9, <2>1, <2>2
    <3> QED BY <2>1, <2>2, <3>1
  <2>3. CASE d # c
    <3>1. serverSpell'[d] = serverSpell[d]
      BY <1>9, <2>1, <2>3
    <3> QED BY <2>1, <3>1
  <2> QED BY <2>2, <2>3
<1>7. BegunAtRealm'
  <2>1. CASE c # NoCast /\ c = active
    BY <1>1, <1>2, <1>3, <1>4, <2>1, ShapeFromIInv DEF BegunAtRealm, castVars, QueueShape, ActiveTracked
  <2>2. CASE c = NoCast \/ c # active
    <3>1. active = NoCast \/ serverSpell'[active] = serverSpell[active]
      BY <1>3, <1>9, <2>2
    <3> QED BY <1>1, <1>3, <3>1, BegunKept DEF castVars
  <2> QED BY <2>1, <2>2
<1>8. HeldTracked'
  BY <1>3, <1>5, TrackedKept DEF HeldInv, HeldTracked, Started, IInv, TypeOK
<1> QED BY <1>6, <1>7, <1>8 DEF HeldKept

\* The end of a cast at the realm leaves only the casts that the active cast
\* does not need, or is the active cast's.
LEMMA EndKeepsBegun ==
    ASSUME IInv, HeldInv, UNCHANGED <<castVars, serverSpell>>,
           NEW ended \in SUBSET casting, casting' = casting \ ended,
           \/ /\ active' = active
              /\ active # NoCast /\ Started(active) =>
                    \A d \in ended : ~(owner[d] = "player" /\ spell[d] = spell[active])
           \/ active' = NoCast
           \/ ~Started(active')
    PROVE  BegunAtRealm'
<1> SUFFICES ASSUME active' # NoCast, serverSpell'[active'] # NoSpell
             PROVE  \E d \in casting' : owner'[d] = "player" /\ spell'[d] = spell'[active']
  BY DEF BegunAtRealm, Started
<1>1. active' = active /\ active # NoCast /\ Started(active)
  BY DEF Started
<1>2. PICK d \in casting : owner[d] = "player" /\ spell[d] = spell[active]
  BY <1>1 DEF HeldInv, BegunAtRealm
<1>3. d \in casting'
  BY <1>1, <1>2 DEF Started
<1> QED BY <1>1, <1>2, <1>3 DEF castVars

\* EndActive leaves no begun cast active and nothing held.
LEMMA EndActiveFresh ==
    ASSUME NEW rest, NEW answers, EndActive(rest, answers)
    PROVE  held' = NoCast /\ (active' = NoCast \/ ~Started(active'))
BY DEF EndActive, SetActive, Promotes

\* A GO, at once or of a cast the realm had begun.
LEMMA GoHeld ==
    ASSUME IInv, IInv', HeldInv, UNCHANGED castVars, NEW s, NEW caster, SpellGo(s, caster),
           NEW ended \in SUBSET casting, casting' = casting \ ended,
           active # NoCast /\ Started(active) /\ GoMatch(s, caster) # active =>
              \A d \in ended : ~(owner[d] = "player" /\ spell[d] = spell[active])
    PROVE  HeldKept
<1> DEFINE c == GoMatch(s, caster)
<1>1. UNCHANGED serverSpell
  BY DEF SpellGo
<1>2. \/ held' = NoCast /\ (active' = NoCast \/ ~Started(active'))
      \/ c # active /\ UNCHANGED <<active, held>> /\ pending' = pending \ {c}
      \/ c = NoCast /\ UNCHANGED <<active, held, pending>>
  BY EndActiveFresh DEF SpellGo, Consume
<1>3. held # NoCast => c # held
  BY GoNotHeld
<1>4. c = NoCast => c # active \/ active = NoCast
  OBVIOUS
<1>5. BegunAtRealm'
  BY <1>1, <1>2, <1>4, EndKeepsBegun
<1>6. HeldTracked'
  <2>1. held' # NoCast => held' = held /\ held \in pending'
    BY <1>2, <1>3 DEF HeldInv, HeldTracked
  <2> QED BY <1>1, <2>1, TrackedKept DEF HeldInv, HeldTracked, Started
<1> QED BY <1>1, <1>5, <1>6, OwnKept DEF HeldKept

\* A failure, of a request or of a cast the realm had begun.
LEMMA FailureHeld ==
    ASSUME IInv, IInv', HeldInv, UNCHANGED castVars, NEW s, NEW reason, CastFailed(s, reason),
           NEW ended \in SUBSET casting, casting' = casting \ ended,
           active # NoCast /\ Started(active) /\ ~(FailureMatch(s) = active /\ reason = "other") =>
              \A d \in ended : ~(owner[d] = "player" /\ spell[d] = spell[active])
    PROVE  HeldKept
<1> DEFINE c == FailureMatch(s)
<1>1. UNCHANGED serverSpell
  BY DEF CastFailed
<1>2. \/ reason = "notReady" /\ UNCHANGED <<active, held, pending>>
      \/ held' = NoCast /\ (active' = NoCast \/ ~Started(active'))
      \/ /\ c # NoCast => c # active /\ ActiveSpell # spell[c]
         /\ UNCHANGED <<active, held>> /\ (pending' = pending \ {c} \/ pending' = pending)
      \/ c = NoCast /\ UNCHANGED <<active, held, pending>>
  <2>1. SwallowFailure(s, reason) => reason = "notReady" /\ UNCHANGED <<active, held, pending>>
    BY DEF SwallowFailure, DropsRetired, ActiveNotReady
  <2>2. RetryCast(s, reason) => reason = "notReady" /\ UNCHANGED <<active, held, pending>>
    BY DEF RetryCast, ActiveNotReady
  <2>3. ASSUME DeliverFailure(s, reason)
        PROVE  \/ held' = NoCast /\ (active' = NoCast \/ ~Started(active'))
               \/ /\ c # NoCast => c # active /\ ActiveSpell # spell[c]
                  /\ UNCHANGED <<active, held>> /\ (pending' = pending \ {c} \/ pending' = pending)
               \/ c = NoCast /\ UNCHANGED <<active, held, pending>>
    BY <2>3, EndActiveFresh DEF DeliverFailure, Consume
  <2> QED BY <2>1, <2>2, <2>3 DEF CastFailed
<1>3. BegunAtRealm'
  <2>1. \/ /\ active' = active
           /\ active # NoCast /\ Started(active) => ~(c = active /\ reason = "other")
        \/ active' = NoCast
        \/ ~Started(active')
    <3> HIDE DEF c
    <3> QED BY <1>2
  <2> QED BY <1>1, <2>1, EndKeepsBegun
<1>4. HeldTracked'
  <2>1. held' # NoCast => held' = held /\ held \in pending'
    <3>1. held # NoCast => held \in pending /\ ActiveSpell = spell[held]
      BY DEF HeldInv, HeldTracked, HeldBehindActive
    <3> HIDE DEF c
    <3> QED BY <1>2, <3>1
  <2> QED BY <1>1, <2>1, TrackedKept DEF HeldInv, HeldTracked, Started
<1> QED BY <1>1, <1>3, <1>4, OwnKept DEF HeldKept

LEMMA PetFailureHeld ==
    ASSUME IInv, IInv', HeldInv, UNCHANGED castVars, NEW s, PetCastFailed(s),
           NEW ended \in SUBSET casting, casting' = casting \ ended,
           \A d \in ended : owner[d] = "pet"
    PROVE  HeldKept
<1> DEFINE pets == {p \in pending : owner[p] = "pet"}
           c == Find(s, FALSE, pets)
<1>1. UNCHANGED <<serverSpell, active, held>> /\ pending' = pending \ {c}
  BY DEF PetCastFailed
<1>2. c \in pets \cup {NoCast}
  BY FindMember, ShapeFromIInv
<1>3. BegunAtRealm'
  BY <1>1, EndKeepsBegun
<1>4. held # NoCast => held \in pending'
  <2>1. \A p \in pets : owner[p] = "pet"
    OBVIOUS
  <2>2. held # NoCast => held \in pending /\ owner[held] = "player"
    BY DEF HeldInv, HeldTracked
  <2> HIDE DEF c, pets
  <2> QED BY <1>1, <1>2, <2>1, <2>2
<1>5. HeldTracked'
  BY <1>1, <1>4, TrackedKept DEF HeldInv, HeldTracked, Started
<1> QED BY <1>1, <1>3, <1>5, OwnKept DEF HeldKept

\* The realm's answers, and the relay's handling of each.
LEMMA AnswersHeld ==
    ASSUME LowerRank = {}, IInv, IInv', HeldInv, UNCHANGED castVars,
           RealmFails \/ RealmStarts \/ RealmFinishesAtOnce \/ RealmFinishes \/ RealmInterrupts
    PROVE  HeldKept
<1>1. casting \subseteq 1..asked
  BY DEF IInv, QueueInv
<1>2. ASSUME RealmFails
      PROVE  HeldKept
  <2>1. PICK reason \in {"notReady", "other"} : Fails(Head(requests), reason)
    BY <1>2 DEF RealmFails
  <2>2. casting' = casting \ {} /\ {} \in SUBSET casting
    BY <1>2 DEF RealmFails
  <2>3. CastFailed(answer[Head(requests)], reason) \/ PetCastFailed(answer[Head(requests)])
    BY <2>1 DEF Fails
  <2> DEFINE none == {}
  <2>4. none \in SUBSET casting /\ casting' = casting \ none /\ \A d \in none : FALSE
    BY <2>2
  <2> HIDE DEF none
  <2> QED BY <2>3, <2>4, FailureHeld, PetFailureHeld
<1>3. ASSUME RealmFinishesAtOnce
      PROVE  HeldKept
  <2> DEFINE none == {}
  <2>1. none \in SUBSET casting /\ casting' = casting \ none /\ \A d \in none : FALSE
    BY <1>3 DEF RealmFinishesAtOnce
  <2>2. SpellGo(answer[Head(requests)], owner[Head(requests)])
    BY <1>3 DEF RealmFinishesAtOnce
  <2> HIDE DEF none
  <2> QED BY <2>1, <2>2, GoHeld
<1>4. ASSUME RealmFinishes
      PROVE  HeldKept
  <2>1. PICK d \in casting : \E caster \in {owner[d], CasterOf(d)} :
           SpellGo(answer[d], caster) /\ casting' = casting \ {d}
    BY <1>4 DEF RealmFinishes
  <2>2. PICK caster \in {owner[d], CasterOf(d)} :
           SpellGo(answer[d], caster) /\ casting' = casting \ {d}
    BY <2>1
  <2>3. owner[d] = "player" => caster = "player"
    BY <2>2 DEF CasterOf
  <2>4. active # NoCast /\ Started(active) /\ GoMatch(answer[d], caster) # active =>
           ~(owner[d] = "player" /\ spell[d] = spell[active])
    BY <1>1, <2>1, <2>3, EndIsActive
  <2> DEFINE ended == {d}
  <2>5. /\ ended \in SUBSET casting /\ casting' = casting \ ended
        /\ active # NoCast /\ Started(active) /\ GoMatch(answer[d], caster) # active =>
              \A e \in ended : ~(owner[e] = "player" /\ spell[e] = spell[active])
    BY <2>2, <2>4
  <2> HIDE DEF ended
  <2> QED BY <2>2, <2>5, GoHeld
<1>5. ASSUME RealmInterrupts
      PROVE  HeldKept
  <2>1. PICK d \in casting : Fails(d, "other") /\ casting' = casting \ {d}
    BY <1>5 DEF RealmInterrupts
  <2> DEFINE ended == {d}
  <2>2. ended \in SUBSET casting /\ casting' = casting \ ended
    BY <2>1
  <2>3. CASE owner[d] = "pet"
    <3>1. PetCastFailed(answer[d]) /\ \A e \in ended : owner[e] = "pet"
      BY <2>1, <2>3 DEF Fails
    <3> HIDE DEF ended
    <3> QED BY <2>2, <3>1, PetFailureHeld
  <2>4. CASE owner[d] # "pet"
    <3>1. CastFailed(answer[d], "other")
      BY <2>1, <2>4 DEF Fails
    <3>2. active # NoCast /\ Started(active)
             /\ ~(FailureMatch(answer[d]) = active /\ "other" = "other") =>
                \A e \in ended : ~(owner[e] = "player" /\ spell[e] = spell[active])
      BY <1>1, <2>1, EndIsActive
    <3> HIDE DEF ended
    <3> QED BY <2>2, <3>1, <3>2, FailureHeld
  <2> QED BY <2>3, <2>4
<1> QED BY <1>2, <1>3, <1>4, <1>5, StartHeld

LEMMA NextHeld ==
    ASSUME LowerRank = {}, IInv, HeldInv, [Next]_vars, [OthersFit]_vars
    PROVE  HeldInv'
<1>1. IInv' /\ HeldBehindActive'
  BY NextIInv, NextHolds, SpellsKept, HoldEffectEnough DEF HeldInv
<1>2. HeldKept
  <2>1. ASSUME ClientSection, OthersFit PROVE HeldKept
    <3>1. ASSUME NEW s \in Spells, UseItem(s) \/ PetCastSpell(s) PROVE HeldKept
      <4>1. PICK o : o # "player" /\ OtherCast(s, o)
        BY <3>1 DEF UseItem, PetCastSpell
      <4> QED BY <1>1, <2>1, <4>1, OtherCastHeld
    <3> QED BY <1>1, <2>1, <3>1, CastSpellHeld, DismissHeld DEF ClientSection, Threads
  <2>2. ASSUME RelaySection PROVE HeldKept
    <3>1. CASE ResetCharacter("relay")
      BY <1>1, <3>1, DismissHeld DEF Threads
    <3>2. CASE ~ResetCharacter("relay")
      BY <1>1, <2>2, <3>2, AnswersHeld DEF RelaySection
    <3> QED BY <3>1, <3>2
  <2>3. ASSUME UNCHANGED <<castVars, serverSpell, pending, active, held, casting>> PROVE HeldKept
    <3>1. BegunAtRealm'
      BY <2>3, BegunKept DEF castVars
    <3>2. HeldTracked'
      BY <1>1, <2>3, TrackedKept DEF HeldInv, HeldTracked, Started
    <3> QED BY <2>3, <3>1, <3>2, OwnKept DEF HeldKept
  <2>4. TimePasses \/ (\E t \in Threads : Write(t)) \/ UNCHANGED vars
           => UNCHANGED <<castVars, serverSpell, pending, active, held, casting>>
    BY DEF TimePasses, Write, vars, queueVars, realmVars, castVars
  <2>5. CASE UNCHANGED vars
    BY <2>3, <2>4, <2>5
  <2>6. CASE Next /\ OthersFit
    BY <2>1, <2>2, <2>3, <2>4, <2>6 DEF Next
  <2> QED BY <2>5, <2>6
<1> QED BY <1>1, <1>2 DEF HeldInv, HeldKept

\* A held cast is a pending cast of the player that the realm has not begun,
\* so its promotion (promoteHeldLocked) sends it: where the realm answers a
\* spell under its own ID, and casts that do not pass through the queue find
\* room in pendingCasts.
THEOREM HeldIsTracked == ASSUME LowerRank = {} PROVE Spec /\ [][OthersFit]_vars => []HeldTracked
<1>1. Init => HeldInv
  BY CastBounds DEF Init, HeldInv, OwnSpell, BegunAtRealm, HeldBehindActive, HeldTracked
<1>2. IInv /\ HeldInv /\ [Next]_vars /\ [OthersFit]_vars => HeldInv'
  BY NextHeld
<1>3. HeldInv => HeldTracked
  BY DEF HeldInv
<1> QED BY <1>1, <1>2, <1>3, Inductive, PTL DEF Spec

-----------------------------------------------------------------------------
(* What the client is told of its casts, in order.                           *)

\* The casts a list of packets tells the client about.
Told(packets) == CastsIn(packets, "prepare") \cup CastsIn(packets, "start") \cup Answers(packets)

\* The packet after the PREPARE of its cast.
AfterPrepare(p, i) == i = 2 /\ p[1] = [kind |-> "prepare", cast |-> p[i].cast]

\* Written in this order to a client that was told v, the packets are those of
\* CastLifecycle: a PREPARE comes first, and a START or GO after the PREPARE.
InOrder(p, v) ==
    \A i \in 1..Len(p) :
        /\ p[i].kind = "prepare" => i = 1 /\ v[p[i].cast] = "asked"
        /\ p[i].kind = "start" =>
              AfterPrepare(p, i) \/ (i = 1 /\ v[p[i].cast] = "prepared")
        /\ p[i].kind = "go" =>
              AfterPrepare(p, i) \/ (i = 1 /\ v[p[i].cast] \in {"prepared", "begun"})

ToldOf(t) == Told(outbox[t])

\* A cast the client still waits for has no answer on its way, and the client
\* knows or is about to be told how far it is.
Waiting(c) ==
    /\ c \notin ToldOf("client") /\ c \notin Answers(outbox["relay"])
    /\ ~Started(c) => view[c] = "asked" /\ c \notin ToldOf("relay")
    /\ Started(c) => view[c] = "begun" \/ c \in Queued("relay", "start")

ToldInv ==
    /\ \A c \in Casts : view[c] = "new" <=> c \notin 1..asked
    /\ \A t \in Threads : InOrder(outbox[t], view)
    /\ ToldOf("client") \cap ToldOf("relay") = {}
    /\ \A c \in pending : Waiting(c)
    /\ \A s \in Spells : completed[s] # NoCast =>
          completed[s] \notin pending /\ completed[s] \notin ToldOf("client")

LEMMA ToldTail ==
    ASSUME NEW S, NEW q \in Seq(Writes(S)), q # <<>>
    PROVE  /\ Told(Tail(q)) \subseteq Told(q) /\ Answers(Tail(q)) \subseteq Answers(q)
           /\ CastsIn(q, "start") \subseteq
                 CastsIn(Tail(q), "start") \cup (IF Head(q).kind = "start" THEN {Head(q).cast} ELSE {})
           /\ Head(q).kind \in Packets => Head(q).cast \in Told(q)
<1>1. \A kind : CastsIn(q, kind)
              = CastsIn(Tail(q), kind) \cup (IF Head(q).kind = kind THEN {Head(q).cast} ELSE {})
  BY CastsInTail
<1>2. \A kind : CastsIn(Tail(q), kind) \subseteq CastsIn(q, kind)
  BY <1>1
<1>3. Told(Tail(q)) \subseteq Told(q) /\ Answers(Tail(q)) \subseteq Answers(q)
  BY <1>2 DEF Told, Answers
<1>4. \A kind : Head(q).kind = kind => Head(q).cast \in CastsIn(q, kind)
  BY <1>1
<1>5. Head(q).kind \in Packets => Head(q).cast \in Told(q)
  BY <1>4 DEF Told, Answers, Packets
<1>6. CastsIn(q, "start") \subseteq
         CastsIn(Tail(q), "start") \cup (IF Head(q).kind = "start" THEN {Head(q).cast} ELSE {})
  BY <1>1
<1> QED BY <1>3, <1>5, <1>6

LEMMA ToldMember ==
    ASSUME NEW p, NEW i \in 1..Len(p), p[i].kind \in Packets
    PROVE  p[i].cast \in Told(p)
BY DEF Told, Answers, CastsIn, Packets

\* The rest of a list stays in order when its head is written.
LEMMA InOrderTail ==
    ASSUME NEW S, NEW q \in Seq(Writes(S)), q # <<>>, NEW v, NEW w, InOrder(q, v),
           Head(q).kind = "prepare" => w[Head(q).cast] = "prepared"
    PROVE  InOrder(Tail(q), w)
<1>1. /\ Len(q) \in Nat /\ Len(q) >= 1 /\ Len(Tail(q)) = Len(q) - 1 /\ Head(q) = q[1]
      /\ \A i \in 1..Len(Tail(q)) : Tail(q)[i] = q[i + 1] /\ i + 1 \in 1..Len(q) /\ i + 1 # 1
  OBVIOUS
<1> SUFFICES ASSUME NEW i \in 1..Len(Tail(q))
             PROVE  /\ Tail(q)[i].kind = "prepare" => i = 1 /\ w[Tail(q)[i].cast] = "asked"
                    /\ Tail(q)[i].kind = "start" =>
                          AfterPrepare(Tail(q), i) \/ (i = 1 /\ w[Tail(q)[i].cast] = "prepared")
                    /\ Tail(q)[i].kind = "go" =>
                          AfterPrepare(Tail(q), i)
                          \/ (i = 1 /\ w[Tail(q)[i].cast] \in {"prepared", "begun"})
  BY DEF InOrder
<1> DEFINE x == q[i + 1]
<1>2. Tail(q)[i] = x /\ i + 1 \in 1..Len(q) /\ i + 1 # 1
  BY <1>1
<1>3. /\ x.kind # "prepare"
      /\ x.kind \in {"start", "go"} => i + 1 = 2 /\ q[1] = [kind |-> "prepare", cast |-> x.cast]
  BY <1>2 DEF InOrder, AfterPrepare
<1>4. x.kind \in {"start", "go"} => i = 1 /\ Head(q).kind = "prepare" /\ Head(q).cast = x.cast
  BY <1>1, <1>3
<1> QED BY <1>2, <1>3, <1>4

\* Another list of packets is in order still when a cast it does not tell of
\* moves on.
LEMMA InOrderElsewhere ==
    ASSUME NEW p, NEW v, NEW w, InOrder(p, v), \A c \in Told(p) : w[c] = v[c]
    PROVE  InOrder(p, w)
<1>1. \A i \in 1..Len(p) : p[i].kind \in Packets => w[p[i].cast] = v[p[i].cast]
  BY ToldMember
<1> QED BY <1>1 DEF InOrder, Packets

\* Packets to the realm, behind those to the client, tell nothing.
LEMMA RequestsTellNothing ==
    ASSUME NEW S, NEW p \in Seq(Writes(S)), NEW r \in Seq(Writes(S)),
           \A kind \in Packets : CastsIn(r, kind) = {}
    PROVE  /\ Told(p \o r) = Told(p) /\ Answers(p \o r) = Answers(p)
           /\ CastsIn(p \o r, "start") = CastsIn(p, "start")
           /\ \A v : InOrder(p, v) => InOrder(p \o r, v)
<1>1. \A kind \in Packets : CastsIn(p \o r, kind) = CastsIn(p, kind)
  <2>1. \A kind : CastsIn(p \o r, kind) = CastsIn(p, kind) \cup CastsIn(r, kind)
    BY CastsInConcat
  <2> QED BY <2>1
<1>2. /\ Told(p \o r) = Told(p) /\ Answers(p \o r) = Answers(p)
      /\ CastsIn(p \o r, "start") = CastsIn(p, "start")
  BY <1>1 DEF Told, Answers, Packets
<1>3. ASSUME NEW v, InOrder(p, v) PROVE InOrder(p \o r, v)
  <2>1. /\ Len(p) \in Nat /\ Len(r) \in Nat /\ Len(p \o r) = Len(p) + Len(r)
        /\ \A i \in 1..Len(p) : (p \o r)[i] = p[i]
        /\ \A i \in 1..Len(r) : (p \o r)[Len(p) + i] = r[i]
    OBVIOUS
  <2>2. \A i \in 1..Len(r) : r[i].kind \notin Packets
    BY DEF CastsIn
  <2>3. ASSUME NEW i \in 1..Len(p \o r), i \notin 1..Len(p)
        PROVE  (p \o r)[i].kind \notin Packets
    <3>1. i - Len(p) \in 1..Len(r) /\ i = Len(p) + (i - Len(p))
      BY <2>1, <2>3
    <3> QED BY <2>1, <2>2, <3>1
  <2>4. ASSUME NEW i \in 1..Len(p), AfterPrepare(p, i)
        PROVE  AfterPrepare(p \o r, i)
    <3>1. 1 \in 1..Len(p)
      BY <2>1
    <3> QED BY <2>1, <2>4, <3>1 DEF AfterPrepare
  <2>5. ASSUME NEW i \in 1..Len(p \o r)
        PROVE  /\ (p \o r)[i].kind = "prepare" => i = 1 /\ v[(p \o r)[i].cast] = "asked"
               /\ (p \o r)[i].kind = "start" =>
                     AfterPrepare(p \o r, i) \/ (i = 1 /\ v[(p \o r)[i].cast] = "prepared")
               /\ (p \o r)[i].kind = "go" =>
                     AfterPrepare(p \o r, i)
                     \/ (i = 1 /\ v[(p \o r)[i].cast] \in {"prepared", "begun"})
    <3>1. CASE i \in 1..Len(p)
      <4>1. (p \o r)[i] = p[i] /\ (AfterPrepare(p, i) => AfterPrepare(p \o r, i))
        BY <2>1, <2>4, <3>1
      <4> QED BY <1>3, <3>1, <4>1 DEF InOrder
    <3>2. CASE i \notin 1..Len(p)
      BY <2>3, <3>2 DEF Packets
    <3> QED BY <3>1, <3>2
  <2> QED BY <2>5 DEF InOrder
<1> QED BY <1>2, <1>3

\* A PREPARE, if one is due, then at most one packet about the same cast.
Verdict(bind, tell, c, k, b) ==
    When(bind, Packet("prepare", c)) \o When(tell, Packet(k, b))

LEMMA VerdictNames ==
    ASSUME NEW S, NEW bind \in BOOLEAN, NEW tell \in BOOLEAN,
           NEW c, NEW b, NEW k \in {"start", "go", "failed"},
           bind => c \in S /\ b = c, tell => b \in S
    PROVE  /\ Verdict(bind, tell, c, k, b) \in Seq(Writes(S))
           /\ Told(Verdict(bind, tell, c, k, b)) \subseteq {b}
           /\ ~bind /\ ~tell => Told(Verdict(bind, tell, c, k, b)) = {}
           /\ CastsIn(Verdict(bind, tell, c, k, b), "start")
                 = IF tell /\ k = "start" THEN {b} ELSE {}
           /\ Answers(Verdict(bind, tell, c, k, b)) = IF tell /\ k # "start" THEN {b} ELSE {}
<1> DEFINE x == When(bind, Packet("prepare", c))
           y == When(tell, Packet(k, b))
           p == x \o y
<1>1. x \in Seq(Writes(S)) /\ y \in Seq(Writes(S))
  BY PacketType DEF Packets
<1>2. p \in Seq(Writes(S)) /\ \A kind : CastsIn(p, kind) = CastsIn(x, kind) \cup CastsIn(y, kind)
  <2> HIDE DEF x, y
  <2> QED BY <1>1, CastsInConcat
<1>3. \A kind : /\ CastsIn(x, kind) = IF bind /\ kind = "prepare" THEN {c} ELSE {}
                /\ CastsIn(y, kind) = IF tell /\ kind = k THEN {b} ELSE {}
  BY CastsInWhen, CastsInPacket
<1>4. p = Verdict(bind, tell, c, k, b)
  BY DEF Verdict
<1> HIDE DEF p, x, y
<1>5. /\ CastsIn(p, "prepare") = IF bind THEN {c} ELSE {}
      /\ CastsIn(p, "start") = IF tell /\ k = "start" THEN {b} ELSE {}
      /\ CastsIn(p, "go") = IF tell /\ k = "go" THEN {b} ELSE {}
      /\ CastsIn(p, "failed") = IF tell /\ k = "failed" THEN {b} ELSE {}
  <2>1. \A kind : CastsIn(p, kind) = (IF bind /\ kind = "prepare" THEN {c} ELSE {})
                                       \cup (IF tell /\ kind = k THEN {b} ELSE {})
    BY <1>2, <1>3
  <2> QED BY <2>1
<1>6. Answers(p) = IF tell /\ k # "start" THEN {b} ELSE {}
  BY <1>5 DEF Answers
<1>7. Told(p) \subseteq {b} /\ (~bind /\ ~tell => Told(p) = {})
  BY <1>5, <1>6 DEF Told
<1> QED BY <1>2, <1>4, <1>5, <1>6, <1>7

LEMMA VerdictInOrder ==
    ASSUME NEW bind \in BOOLEAN, NEW tell \in BOOLEAN,
           NEW c, NEW b, NEW k \in {"start", "go", "failed"}, NEW v,
           bind => b = c /\ v[c] = "asked",
           tell /\ k = "start" => bind \/ v[b] = "prepared",
           tell /\ k = "go" => bind \/ v[b] \in {"prepared", "begun"}
    PROVE  InOrder(Verdict(bind, tell, c, k, b), v)
<1> DEFINE x == When(bind, Packet("prepare", c))
           y == When(tell, Packet(k, b))
           p == x \o y
           m == [kind |-> "prepare", cast |-> c]
           n == [kind |-> k, cast |-> b]
<1>1. m.kind = "prepare" /\ m.cast = c /\ n.kind = k /\ n.cast = b
      /\ (bind => m = [kind |-> "prepare", cast |-> n.cast])
  OBVIOUS
<1>2. x = (IF bind THEN <<m>> ELSE <<>>) /\ y = (IF tell THEN <<n>> ELSE <<>>)
  BY DEF When, Packet
<1>3. p = Verdict(bind, tell, c, k, b)
  BY DEF Verdict
<1> HIDE DEF m, n, x, y
<1>4. CASE bind /\ tell
  <2>1. p = <<m>> \o <<n>>
    BY <1>2, <1>4
  <2>2. Len(<<m>> \o <<n>>) = 2 /\ (<<m>> \o <<n>>)[1] = m /\ (<<m>> \o <<n>>)[2] = n
    OBVIOUS
  <2>3. Len(p) = 2 /\ p[1] = m /\ p[2] = n
    BY <2>1, <2>2
  <2> HIDE DEF p
  <2>4. AfterPrepare(p, 2) /\ \A i \in 1..Len(p) : i = 1 \/ i = 2
    BY <1>1, <1>4, <2>3 DEF AfterPrepare
  <2>5. ASSUME NEW i \in 1..Len(p)
        PROVE  /\ p[i].kind = "prepare" => i = 1 /\ v[p[i].cast] = "asked"
               /\ p[i].kind \in {"start", "go"} => AfterPrepare(p, i)
    <3>1. CASE i = 1
      BY <1>1, <1>4, <2>3, <3>1
    <3>2. CASE i = 2
      BY <1>1, <2>3, <2>4, <3>2
    <3> QED BY <2>4, <3>1, <3>2
  <2>6. InOrder(p, v)
    BY <2>5 DEF InOrder
  <2> QED BY <1>3, <2>6
<1>5. CASE bind /\ ~tell
  <2>1. Len(p) = 1 /\ p[1] = m
    BY <1>2, <1>5
  <2> HIDE DEF p
  <2>2. \A i \in 1..Len(p) : i = 1
    BY <2>1
  <2> QED BY <1>1, <1>3, <1>5, <2>1, <2>2 DEF InOrder
<1>6. CASE ~bind /\ tell
  <2>1. Len(p) = 1 /\ p[1] = n
    BY <1>2, <1>6
  <2> HIDE DEF p
  <2>2. \A i \in 1..Len(p) : i = 1
    BY <2>1
  <2>3. /\ p[1].kind = k /\ p[1].cast = b
        /\ k = "start" => v[p[1].cast] = "prepared"
        /\ k = "go" => v[p[1].cast] \in {"prepared", "begun"}
    BY <1>1, <1>6, <2>1
  <2>4. InOrder(p, v)
    BY <2>2, <2>3 DEF InOrder
  <2> QED BY <1>3, <2>4
<1>7. CASE ~bind /\ ~tell
  <2>1. Len(p) = 0
    BY <1>2, <1>7
  <2> HIDE DEF p
  <2> QED BY <1>3, <2>1 DEF InOrder
<1> QED BY <1>4, <1>5, <1>6, <1>7

LEMMA ToldNames ==
    ASSUME OutboxShape, NEW t \in Threads
    PROVE  ToldOf(t) \subseteq 1..asked
BY QueuedCasts DEF ToldOf, Told, Answers, Queued

LEMMA ToldAfter ==
    ASSUME OutboxShape, NEW t \in Threads, NEW p, Section(t, p)
    PROVE  /\ outbox'[t] = p /\ outbox[t] = <<>> /\ Queued(t, "start") = {}
           /\ \A u \in Threads \ {t} : outbox'[u] = outbox[u]
BY CastsInNone DEF Section, OutboxShape, Queued

\* A section of the client goroutine tells of a waiting cast it drops, if any.
LEMMA ClientTold ==
    ASSUME IInv, IInv', ToldInv, NEW p, NEW r, Section("client", p),
           Told(p) \subseteq {r},
           Told(p) # {} => r \in pending /\ ~Started(r) /\ r \notin pending',
           InOrder(p, view'), 1..asked \subseteq 1..asked',
           \A c \in Casts : view'[c] = IF c \in 1..asked' \ 1..asked THEN "asked" ELSE view[c],
           pending' \subseteq pending \cup (1..asked' \ 1..asked), UNCHANGED serverSpell,
           \A s \in Spells : completed'[s] \in {completed[s], NoCast}
    PROVE  ToldInv'
<1>1. /\ QueueShape /\ OutboxShape /\ 1..asked' \subseteq Casts /\ NoCast \notin 1..asked
      /\ 1..asked \subseteq Casts /\ pending \subseteq 1..asked
  BY ShapeFromIInv, CastBounds DEF IInv, TypeOK, Casts, QueueShape
<1>2. outbox'["client"] = p /\ outbox'["relay"] = outbox["relay"]
  BY <1>1, ToldAfter DEF Threads
<1>3. ToldOf("relay") \subseteq 1..asked
  BY <1>1, ToldNames DEF Threads
<1>4. \A c \in 1..asked : view'[c] = view[c]
  BY <1>1
<1>5. \A c \in Casts : view'[c] = "new" <=> c \notin 1..asked'
  BY <1>1 DEF ToldInv
<1>6. \A t \in Threads : InOrder(outbox'[t], view')
  <2>1. InOrder(outbox["relay"], view) /\ \A c \in Told(outbox["relay"]) : view'[c] = view[c]
    BY <1>3, <1>4 DEF ToldInv, ToldOf, Threads
  <2>2. InOrder(outbox["relay"], view')
    BY <2>1, InOrderElsewhere
  <2> QED BY <1>2, <2>2 DEF Threads
<1>7. Told(p) # {} => r \notin ToldOf("relay")
  BY DEF ToldInv, Waiting
<1>8. Told(p) \cap ToldOf("relay") = {}
  BY <1>7
<1>9. ASSUME NEW c \in pending'
      PROVE  /\ c \notin Told(p) /\ c \notin Answers(outbox["relay"])
             /\ ~Started(c) => view'[c] = "asked" /\ c \notin ToldOf("relay")
             /\ Started(c) => view'[c] = "begun" \/ c \in Queued("relay", "start")
  <2>1. c \notin Told(p)
    OBVIOUS
  <2>2. CASE c \in pending
    <3>1. Waiting(c) /\ view'[c] = view[c]
      BY <1>1, <1>4, <2>2 DEF ToldInv
    <3> QED BY <2>1, <3>1 DEF Waiting
  <2>3. CASE c \in 1..asked' \ 1..asked
    <3>1. serverSpell[c] = NoSpell /\ view'[c] = "asked"
      BY <1>1, <2>3 DEF QueueShape
    <3>2. Answers(outbox["relay"]) \subseteq ToldOf("relay")
      BY DEF ToldOf, Told
    <3> QED BY <1>3, <2>1, <2>3, <3>1, <3>2 DEF Started
  <2> QED BY <2>2, <2>3
<1>10. \A c \in pending' : Waiting(c)'
  BY <1>2, <1>9 DEF Waiting, ToldOf, Queued, Started
<1>11. ASSUME NEW s \in Spells, completed'[s] # NoCast
       PROVE  completed'[s] \notin pending' /\ completed'[s] \notin Told(p)
  <2>1. completed'[s] = completed[s] /\ completed[s] \notin pending
    BY <1>11 DEF ToldInv
  <2>2. completed[s] \in 1..asked
    BY <1>1, <1>11, <2>1 DEF QueueShape, NoCast
  <2> QED BY <2>1, <2>2
<1> QED BY <1>2, <1>5, <1>6, <1>8, <1>10, <1>11 DEF ToldInv, ToldOf

\* A section of the relay tells of one cast: one that begins, one that ends, or
\* one that ended before.
LEMMA RelayTold ==
    ASSUME IInv, ToldInv, NEW p, NEW b, Section("relay", p),
           Told(p) \subseteq {b}, Told(p) # {} => b \notin ToldOf("client"),
           InOrder(p, view), UNCHANGED <<asked, view>>, pending' \subseteq pending,
           \A c \in pending' :
              \/ c \notin Told(p) /\ serverSpell'[c] = serverSpell[c]
              \/ c \in CastsIn(p, "start") /\ c \notin Answers(p) /\ serverSpell'[c] # NoSpell,
           \A s \in Spells : completed'[s] \in {completed[s], NoCast} \cup (pending \ pending')
    PROVE  ToldInv'
<1>1. OutboxShape
  BY ShapeFromIInv
<1>2. outbox'["relay"] = p /\ outbox'["client"] = outbox["client"] /\ Queued("relay", "start") = {}
  BY <1>1, ToldAfter DEF Threads
<1>3. \A t \in Threads : InOrder(outbox'[t], view')
  BY <1>2 DEF ToldInv, Threads
<1>4. ToldOf("client") \cap Told(p) = {}
  OBVIOUS
<1>5. Answers(p) \subseteq Told(p)
  BY DEF Told
<1>6. ASSUME NEW c \in pending'
      PROVE  /\ c \notin ToldOf("client") /\ c \notin Answers(p)
             /\ serverSpell'[c] = NoSpell => view'[c] = "asked" /\ c \notin Told(p)
             /\ serverSpell'[c] # NoSpell => view'[c] = "begun" \/ c \in CastsIn(p, "start")
  BY <1>2, <1>5 DEF ToldInv, Waiting, Started
<1>7. \A c \in pending' : Waiting(c)'
  BY <1>2, <1>6 DEF Waiting, ToldOf, Queued, Started
<1>8. \A s \in Spells : completed'[s] # NoCast =>
         completed'[s] \notin pending' /\ completed'[s] \notin ToldOf("client")
  BY DEF ToldInv, Waiting
<1> QED BY <1>2, <1>3, <1>4, <1>7, <1>8 DEF ToldInv, ToldOf

LifecycleStep == [Lifecycle!LifecycleNext]_(Lifecycle!lifecycleVars)

\* What a goroutine writes moves its cast as CastLifecycle says.
LEMMA WriteTold ==
    ASSUME IInv, ToldInv, NEW t \in Threads, Write(t)
    PROVE  ToldInv' /\ LifecycleStep
<1> DEFINE q == outbox[t]
           h == Head(q)
           told == h.kind \in Packets
<1>1. QueueShape /\ OutboxShape /\ 1..asked \subseteq Casts /\ pending \subseteq 1..asked
      /\ view \in [Casts -> {"new", "asked", "prepared", "begun", "done", "failed"}]
  BY ShapeFromIInv DEF QueueShape, IInv, TypeOK
<1>2. q \in Seq(Writes(1..asked)) /\ q # <<>> /\ h \in Writes(1..asked) /\ h = q[1] /\ 1 \in 1..Len(q)
  BY <1>1 DEF OutboxShape, Write
<1>3. h.cast \in 1..asked /\ h.cast \in Casts
  BY <1>1, <1>2 DEF Writes
<1>4. /\ outbox'[t] = Tail(q) /\ \A u \in Threads \ {t} : outbox'[u] = outbox[u]
      /\ view' = IF told THEN [view EXCEPT ![h.cast] = Tells(h.kind)] ELSE view
      /\ UNCHANGED <<castVars, queueVars, dismissed>>
  BY <1>1 DEF Write, OutboxShape
<1>5. InOrder(q, view)
  BY DEF ToldInv
<1>6. /\ h.kind = "prepare" => view[h.cast] = "asked"
      /\ h.kind = "start" => view[h.cast] = "prepared"
      /\ h.kind = "go" => view[h.cast] \in {"prepared", "begun"}
      /\ view[h.cast] # "new"
  <2>1. h = q[1] /\ 1 \in 1..Len(q) /\ ~AfterPrepare(q, 1)
    BY <1>2 DEF AfterPrepare
  <2>2. view[h.cast] # "new"
    BY <1>3 DEF ToldInv
  <2> HIDE DEF q, h
  <2> QED BY <1>5, <2>1, <2>2 DEF InOrder
<1>7. /\ h.kind = "prepare" => Tells(h.kind) = "prepared"
      /\ h.kind = "start" => Tells(h.kind) = "begun"
      /\ h.kind = "go" => Tells(h.kind) = "done"
      /\ h.kind = "failed" => Tells(h.kind) = "failed"
  BY DEF Tells
<1>8. /\ Told(Tail(q)) \subseteq Told(q) /\ Answers(Tail(q)) \subseteq Answers(q)
      /\ CastsIn(q, "start") \subseteq
            CastsIn(Tail(q), "start") \cup (IF h.kind = "start" THEN {h.cast} ELSE {})
      /\ told => h.cast \in Told(q)
  <2> HIDE DEF q
  <2> QED BY <1>2, ToldTail
<1>15. h.kind \in {"go", "failed"} => h.cast \in Answers(q)
  BY <1>2 DEF Answers, CastsIn
<1>9. \A c \in Casts : view'[c] = IF told /\ c = h.cast THEN Tells(h.kind) ELSE view[c]
  BY <1>1, <1>3, <1>4
<1>10. \A c \in Casts : view'[c] = "new" <=> c \notin 1..asked'
  <2>1. told => Tells(h.kind) # "new"
    BY <1>7 DEF Packets
  <2>2. asked' = asked
    BY <1>4 DEF castVars
  <2> QED BY <1>3, <1>9, <2>1, <2>2 DEF ToldInv
<1>11. \A u \in Threads : InOrder(outbox'[u], view')
  <2>1. InOrder(Tail(q), view')
    <3>1. h.kind = "prepare" => view'[h.cast] = "prepared"
      BY <1>3, <1>7, <1>9 DEF Packets
    <3> HIDE DEF q
    <3> QED BY <1>2, <1>5, <3>1, InOrderTail
  <2>2. ASSUME NEW u \in Threads, u # t PROVE InOrder(outbox[u], view')
    <3>1. told => h.cast \notin Told(outbox[u])
      BY <1>8, <2>2 DEF ToldInv, ToldOf, Threads
    <3>2. \A c \in Told(outbox[u]) : view'[c] = view[c]
      BY <1>1, <1>9, <3>1, ToldNames DEF ToldOf
    <3>3. InOrder(outbox[u], view)
      BY DEF ToldInv
    <3> QED BY <3>2, <3>3, InOrderElsewhere
  <2> QED BY <1>4, <2>1, <2>2
<1>12. \A u \in Threads : /\ Told(outbox'[u]) \subseteq ToldOf(u)
                          /\ Answers(outbox'[u]) \subseteq Answers(outbox[u])
  BY <1>4, <1>8 DEF ToldOf
<1>13. ASSUME NEW c \in pending
       PROVE  /\ ~Started(c) => view'[c] = "asked"
              /\ Started(c) => view'[c] = "begun" \/ c \in CastsIn(outbox'["relay"], "start")
  <2>1. Waiting(c) /\ c \in Casts
    BY <1>1 DEF ToldInv
  <2>2. CASE ~(told /\ c = h.cast)
    <3>1. view'[c] = view[c]
      BY <1>9, <2>1, <2>2
    <3>2. c \in Queued("relay", "start") => c \in CastsIn(outbox'["relay"], "start")
      <4>1. CASE t = "relay"
        BY <1>4, <1>8, <2>2, <4>1 DEF Queued, Packets
      <4>2. CASE t # "relay"
        BY <1>4, <4>2 DEF Queued, Threads
      <4> QED BY <4>1, <4>2
    <3> QED BY <2>1, <3>1, <3>2 DEF Waiting
  <2>3. CASE told /\ c = h.cast
    <3>1. c \in ToldOf(t)
      BY <1>8, <2>3 DEF ToldOf
    <3>2. t = "relay" /\ Started(c)
      BY <2>1, <3>1 DEF Waiting, Threads
    <3>3. h.kind \in {"prepare", "start"}
      BY <1>15, <2>1, <2>3, <3>2 DEF Waiting, Packets
    <3>4. CASE h.kind = "start"
      BY <1>7, <1>9, <2>1, <2>3, <3>2, <3>4
    <3>5. CASE h.kind = "prepare"
      <4>1. view[c] = "asked" /\ c \in CastsIn(q, "start")
        BY <1>6, <2>1, <2>3, <3>2, <3>5 DEF Waiting, Queued
      <4> QED BY <1>4, <1>8, <3>2, <3>5, <4>1
    <3> QED BY <3>3, <3>4, <3>5
  <2> QED BY <2>2, <2>3
<1>14. UNCHANGED <<pending, completed, serverSpell>>
  BY <1>4 DEF queueVars
<1>16. \A c \in pending' : Waiting(c)'
  <2>1. ASSUME NEW c \in pending
        PROVE  /\ c \notin Told(outbox'["client"]) /\ c \notin Answers(outbox'["relay"])
               /\ ~Started(c) => c \notin Told(outbox'["relay"])
    BY <1>12 DEF ToldInv, Waiting, Threads
  <2> QED BY <1>13, <1>14, <2>1 DEF Waiting, ToldOf, Queued, Started
<1>17. ToldInv'
  <2>1. ToldOf("client")' \cap ToldOf("relay")' = {}
    BY <1>12 DEF ToldInv, ToldOf, Threads
  <2>2. \A s \in Spells : completed'[s] # NoCast =>
           completed'[s] \notin pending' /\ completed'[s] \notin ToldOf("client")'
    BY <1>12, <1>14 DEF ToldInv, ToldOf, Threads
  <2> QED BY <1>10, <1>11, <1>16, <2>1, <2>2 DEF ToldInv
<1>18. LifecycleStep
  <2>1. CASE ~told
    BY <1>4, <2>1 DEF LifecycleStep, Lifecycle!lifecycleVars
  <2>2. CASE told
    <3>1. view' = [view EXCEPT ![h.cast] = Tells(h.kind)] /\ UNCHANGED dismissed
      BY <1>4, <2>2
    <3>2. h.kind = "prepare" => Lifecycle!Prepare(h.cast)
      BY <1>6, <1>7, <3>1 DEF Lifecycle!Prepare, Lifecycle!Move
    <3>3. h.kind = "start" => Lifecycle!Begin(h.cast)
      BY <1>6, <1>7, <3>1 DEF Lifecycle!Begin, Lifecycle!Move
    <3>4. h.kind = "go" => Lifecycle!Finish(h.cast)
      BY <1>6, <1>7, <3>1 DEF Lifecycle!Finish, Lifecycle!Move
    <3>5. h.kind = "failed" =>
             Lifecycle!Fail(h.cast) \/ Lifecycle!Blame(h.cast) \/ UNCHANGED <<view, dismissed>>
      <4>1. view[h.cast] \in {"asked", "prepared", "begun", "done", "failed"}
        BY <1>1, <1>3, <1>6
      <4>2. view[h.cast] = "failed" /\ h.kind = "failed" => view' = view
        BY <1>1, <1>3, <1>7, <3>1
      <4> QED BY <1>7, <3>1, <4>1, <4>2 DEF Lifecycle!Fail, Lifecycle!Blame, Lifecycle!Move
    <3> QED BY <1>3, <2>2, <3>2, <3>3, <3>4, <3>5
            DEF LifecycleStep, Lifecycle!LifecycleNext, Lifecycle!lifecycleVars, Packets
  <2> QED BY <2>1, <2>2
<1> QED BY <1>17, <1>18

\* The other casts wait for nothing: pendingCasts has room for each new one.
AllFit == asked' # asked => Cardinality(pending) < PendingLimit

LEMMA RequestTold ==
    ASSUME NEW S, NEW condition \in BOOLEAN, NEW k \in Requests, NEW c, condition => c \in S
    PROVE  /\ When(condition, Packet(k, c)) \in Seq(Writes(S))
           /\ \A kind \in Packets : CastsIn(When(condition, Packet(k, c)), kind) = {}
<1>1. \A kind \in Packets : k # kind
  BY DEF Packets, Requests
<1>2. \A kind \in Packets : CastsIn(Packet(k, c), kind) = {}
  BY <1>1, CastsInPacket
<1>3. \A kind : CastsIn(When(condition, Packet(k, c)), kind)
                   = IF condition THEN CastsIn(Packet(k, c), kind) ELSE {}
  BY CastsInWhen
<1> QED BY <1>2, <1>3, PacketType

LEMMA NothingTold == Told(<<>>) = {} /\ Answers(<<>>) = {} /\ \A v : InOrder(<<>>, v)
BY CastsInNone DEF Told, Answers, InOrder

LEMMA OnlyRequestTold ==
    ASSUME NEW condition \in BOOLEAN, NEW k \in Requests, NEW c
    PROVE  /\ Told(When(condition, Packet(k, c))) = {}
           /\ \A v : InOrder(When(condition, Packet(k, c)), v)
<1> DEFINE p == When(condition, Packet(k, c))
           S == {c}
           none == <<>>
<1>1. p \in Seq(Writes(S)) /\ \A kind \in Packets : CastsIn(p, kind) = {}
  BY RequestTold
<1>2. none \in Seq(Writes(S)) /\ none \o p = p
  BY <1>1
<1>3. Told(none) = {} /\ \A v : InOrder(none, v)
  BY NothingTold
<1> HIDE DEF p, none, S
<1>4. Told(none \o p) = Told(none) /\ \A v : InOrder(none, v) => InOrder(none \o p, v)
  BY <1>1, <1>2, RequestsTellNothing
<1> QED BY <1>2, <1>3, <1>4 DEF p

\* The packets of an abandoned cast that never started.
LEMMA AbandonedTold ==
    ASSUME NEW S, NEW c \in S \cup {NoCast}, NEW v,
           c # NoCast => ~Started(c) /\ v[c] = "asked"
    PROVE  /\ Abandoned(c) \in Seq(Writes(S))
           /\ Told(Abandoned(c)) \subseteq {c}
           /\ Told(Abandoned(c)) # {} => c # NoCast
           /\ InOrder(Abandoned(c), v)
<1>1. CASE c # NoCast /\ owner[c] # "pet"
  <2>1. Abandoned(c) = Verdict(TRUE, TRUE, c, "failed", c)
    BY <1>1 DEF Abandoned, Binding, When, Verdict
  <2>2. c \in S /\ "failed" \in {"start", "go", "failed"} /\ TRUE \in BOOLEAN
        /\ "failed" # "start" /\ "failed" # "go"
    BY <1>1
  <2>3. Told(Verdict(TRUE, TRUE, c, "failed", c)) \subseteq {c}
        /\ Verdict(TRUE, TRUE, c, "failed", c) \in Seq(Writes(S))
    BY <2>2, VerdictNames
  <2>4. InOrder(Verdict(TRUE, TRUE, c, "failed", c), v)
    BY <1>1, <2>2, VerdictInOrder
  <2> QED BY <1>1, <2>1, <2>3, <2>4
<1>2. CASE ~(c # NoCast /\ owner[c] # "pet")
  <2>1. Abandoned(c) = <<>>
    BY <1>2 DEF Abandoned, When
  <2> QED BY <2>1, NothingTold, NothingWritten
<1> QED BY <1>1, <1>2

\* The same, followed by a packet to the realm.
LEMMA AbandonedThenRequest ==
    ASSUME NEW S, NEW c \in S \cup {NoCast}, NEW v,
           c # NoCast => ~Started(c) /\ v[c] = "asked",
           NEW condition \in BOOLEAN, NEW k \in Requests, NEW d, condition => d \in S
    PROVE  /\ Told(Abandoned(c) \o When(condition, Packet(k, d))) \subseteq {c}
           /\ Told(Abandoned(c) \o When(condition, Packet(k, d))) # {} => c # NoCast
           /\ InOrder(Abandoned(c) \o When(condition, Packet(k, d)), v)
<1> DEFINE r == When(condition, Packet(k, d))
           a == Abandoned(c)
<1>1. r \in Seq(Writes(S)) /\ \A kind \in Packets : CastsIn(r, kind) = {}
  BY RequestTold
<1>2. /\ a \in Seq(Writes(S)) /\ Told(a) \subseteq {c} /\ (Told(a) # {} => c # NoCast)
      /\ InOrder(a, v)
  BY AbandonedTold
<1> HIDE DEF r, a
<1>3. Told(a \o r) = Told(a) /\ (InOrder(a, v) => InOrder(a \o r, v))
  BY <1>1, <1>2, RequestsTellNothing
<1> QED BY <1>2, <1>3 DEF r, a

\* The relay's answer to a cast, then the body of the promoted one.
LEMMA RelayVerdict ==
    ASSUME IInv, ToldInv, NEW bind \in BOOLEAN, NEW tell \in BOOLEAN, NEW cond \in BOOLEAN,
           NEW c, NEW b, NEW d, NEW k \in {"go", "failed"},
           Section("relay", Verdict(bind, tell, c, k, b) \o When(cond, Packet("cast", d))),
           bind => b = c /\ view[c] = "asked",
           tell /\ k = "go" => bind \/ view[b] \in {"prepared", "begun"},
           bind \/ tell => b \in 1..asked /\ b \notin ToldOf("client") /\ b \notin pending',
           cond => d \in 1..asked,
           UNCHANGED <<asked, view, serverSpell>>, pending' \subseteq pending,
           \A s \in Spells : completed'[s] \in {completed[s], NoCast} \cup (pending \ pending')
    PROVE  ToldInv'
<1> DEFINE S == 1..asked
           a == Verdict(bind, tell, c, k, b)
           r == When(cond, Packet("cast", d))
           p == a \o r
<1>1. r \in Seq(Writes(S)) /\ \A kind \in Packets : CastsIn(r, kind) = {}
  <2>1. "cast" \in Requests
    BY DEF Requests
  <2> QED BY <2>1, RequestTold
<1>2. /\ a \in Seq(Writes(S)) /\ Told(a) \subseteq {b} /\ (~bind /\ ~tell => Told(a) = {})
      /\ InOrder(a, view)
  <2>1. k \in {"start", "go", "failed"} /\ k # "start" /\ (bind => c \in S /\ b = c)
        /\ (tell => b \in S)
    OBVIOUS
  <2>2. InOrder(a, view)
    BY <2>1, VerdictInOrder
  <2> HIDE DEF S
  <2> QED BY <2>1, <2>2, VerdictNames
<1> HIDE DEF a, r, S
<1>3. Told(p) = Told(a) /\ InOrder(p, view)
  BY <1>1, <1>2, RequestsTellNothing
<1>4. Section("relay", p)
  BY DEF a, r
<1> HIDE DEF p
<1>5. Told(p) \subseteq {b} /\ (Told(p) # {} => b \notin ToldOf("client") /\ b \notin pending')
  BY <1>2, <1>3
<1>6. \A e \in pending' : e \notin Told(p) /\ serverSpell'[e] = serverSpell[e]
  BY <1>5
<1> QED BY <1>3, <1>4, <1>5, <1>6, RelayTold

\* What the invariant says of a pending cast when the relay writes nothing.
LEMMA RelayIdle ==
    ASSUME IInv, ToldInv, outbox["relay"] = <<>>, NEW c \in pending
    PROVE  /\ c \in 1..asked /\ c \notin ToldOf("client") /\ c # NoCast
           /\ ~Started(c) => view[c] = "asked"
           /\ Started(c) => view[c] = "begun"
<1>1. Queued("relay", "start") = {}
  BY CastsInNone DEF Queued
<1> QED BY <1>1, ShapeFromIInv DEF ToldInv, Waiting, QueueShape

ToldKept == ToldInv' /\ LifecycleStep

\* The held cast has not begun, and the client is owed its PREPARE.
LEMMA HeldWaits ==
    ASSUME HeldInv, ToldInv, held # NoCast
    PROVE  held \in pending /\ ~Started(held) /\ view[held] = "asked"
BY DEF HeldInv, HeldTracked, ToldInv, Waiting

\* What the client asks for.
LEMMA NewCastTold ==
    ASSUME IInv, ToldInv, NEW s \in Spells, NEW o, NewCast(asked + 1, s, o)
    PROVE  /\ LifecycleStep
           /\ 1..asked \subseteq 1..asked' /\ 1..asked' \ 1..asked = {asked + 1}
           /\ \A c \in Casts : view'[c] = IF c \in 1..asked' \ 1..asked THEN "asked" ELSE view[c]
           /\ UNCHANGED <<serverSpell, completed>>
<1>1. /\ asked + 1 \in Casts /\ 1..asked' = (1..asked) \cup {asked + 1} /\ asked + 1 \notin 1..asked
      /\ view \in [Casts -> {"new", "asked", "prepared", "begun", "done", "failed"}]
  BY NewCastFacts DEF IInv, TypeOK
<1>2. view' = [view EXCEPT ![asked + 1] = "asked"] /\ UNCHANGED <<serverSpell, completed, dismissed>>
  BY DEF NewCast
<1>3. view[asked + 1] = "new"
  BY <1>1 DEF ToldInv
<1>4. Lifecycle!Ask(asked + 1)
  BY <1>2, <1>3 DEF Lifecycle!Ask, Lifecycle!Move
<1>5. LifecycleStep
  BY <1>1, <1>4 DEF LifecycleStep, Lifecycle!LifecycleNext
<1> QED BY <1>1, <1>2, <1>5

LEMMA CastSpellTold ==
    ASSUME IInv, IInv', HeldInv, ToldInv, AllFit, NEW s \in Spells, CastSpell(s)
    PROVE  ToldKept
<1> DEFINE c == asked + 1
           r == IF held \in pending \ {Evicted} THEN held ELSE NoCast
           p == Abandoned(r) \o When(~Holds(s), Packet("cast", c))
<1>1. NewCast(c, s, "player") /\ pending' = ((pending \ {Evicted}) \ {r}) \cup {c}
      /\ Section("client", Abandoned(Evicted) \o Abandoned(r) \o When(~Holds(s), Packet("cast", c)))
  BY DEF CastSpell
<1>2. /\ asked' = c /\ c # asked /\ 1..asked' = (1..asked) \cup {c} /\ c \notin 1..asked
      /\ pending \subseteq 1..asked /\ 1..asked \subseteq Casts
  BY <1>1, NewCastFacts DEF QueueShape
<1>3. /\ LifecycleStep
      /\ 1..asked \subseteq 1..asked' /\ 1..asked' \ 1..asked = {c}
      /\ \A d \in Casts : view'[d] = IF d \in 1..asked' \ 1..asked THEN "asked" ELSE view[d]
      /\ UNCHANGED <<serverSpell, completed>>
  BY <1>1, NewCastTold
<1>4. Evicted = NoCast
  BY <1>2, NoneEvicted DEF AllFit
<1>5. r # NoCast => r = held /\ r \in pending /\ ~Started(r) /\ view'[r] = "asked"
  BY <1>2, <1>3, <1>4, HeldWaits
<1>6. r \in 1..asked' \cup {NoCast} /\ c \in 1..asked' /\ "cast" \in Requests /\ (~Holds(s)) \in BOOLEAN
  BY <1>2, <1>5 DEF Requests
<1>7. Section("client", p)
  <2>1. Abandoned(Evicted) = <<>>
    BY <1>4 DEF Abandoned, When
  <2>2. Abandoned(r) \in Seq(Writes(1..asked'))
    BY <1>6, AbandonedType
  <2>3. <<>> \o Abandoned(r) = Abandoned(r)
    BY <2>2
  <2> QED BY <1>1, <2>1, <2>3
<1>8. Told(p) \subseteq {r} /\ (Told(p) # {} => r # NoCast) /\ InOrder(p, view')
  <2> DEFINE goes == ~Holds(s)
             S == 1..asked'
             v == view'
  <2>1. /\ r \in S \cup {NoCast} /\ c \in S /\ "cast" \in Requests /\ goes \in BOOLEAN
        /\ r # NoCast => ~Started(r) /\ v[r] = "asked"
        /\ p = Abandoned(r) \o When(goes, Packet("cast", c))
    BY <1>5, <1>6
  <2>2. Told(p) \subseteq {r} /\ (Told(p) # {} => r # NoCast) /\ InOrder(p, v)
    <3> HIDE DEF r, c, goes, S, v, p
    <3> QED BY <2>1, AbandonedThenRequest
  <2> QED BY <2>2
<1> HIDE DEF r, c
<1> HIDE DEF p
<1>9. r # NoCast => r \notin pending'
  BY <1>1, <1>2, <1>5
<1>10. pending' \subseteq pending \cup (1..asked' \ 1..asked)
  BY <1>1, <1>3
<1> QED BY <1>3, <1>5, <1>7, <1>8, <1>9, <1>10, ClientTold DEF ToldKept

LEMMA OtherCastTold ==
    ASSUME IInv, IInv', HeldInv, ToldInv, AllFit, NEW s \in Spells, NEW o, OtherCast(s, o)
    PROVE  ToldKept
<1> DEFINE c == asked + 1
           yes == TRUE
           p == When(yes, Packet("cast", c))
<1>1. NewCast(c, s, o) /\ pending' = (pending \ {Evicted}) \cup {c}
      /\ Section("client", Abandoned(Evicted) \o Packet("cast", c))
  BY DEF OtherCast
<1>2. asked' = c /\ c # asked
  BY <1>1, NewCastFacts
<1>3. /\ LifecycleStep
      /\ 1..asked \subseteq 1..asked' /\ 1..asked' \ 1..asked = {c}
      /\ \A d \in Casts : view'[d] = IF d \in 1..asked' \ 1..asked THEN "asked" ELSE view[d]
      /\ UNCHANGED <<serverSpell, completed>>
  BY <1>1, NewCastTold
<1>4. Evicted = NoCast
  BY <1>2, NoneEvicted DEF AllFit
<1>5. Section("client", p)
  <2>1. Abandoned(Evicted) = <<>> /\ p = Packet("cast", c)
    BY <1>4 DEF Abandoned, When
  <2>2. <<>> \o Packet("cast", c) = Packet("cast", c)
    BY DEF Packet
  <2> QED BY <1>1, <2>1, <2>2
<1>6. yes \in BOOLEAN /\ "cast" \in Requests
  BY DEF Requests
<1> HIDE DEF c, yes
<1>7. Told(p) = {} /\ InOrder(p, view')
  BY <1>6, OnlyRequestTold
<1> HIDE DEF p
<1>8. pending' \subseteq pending \cup (1..asked' \ 1..asked)
  BY <1>1, <1>3
<1> QED BY <1>3, <1>5, <1>7, <1>8, ClientTold DEF ToldKept

\* What the client gives up.
LEMMA DismissStep ==
    ASSUME IInv, ToldInv, UNCHANGED view, NEW given \in SUBSET (1..asked),
           dismissed' = dismissed \cup given
    PROVE  LifecycleStep
<1>1. 1..asked \subseteq Casts
  BY ShapeFromIInv
<1>2. \A c \in given : view[c] # "new"
  BY <1>1 DEF ToldInv
<1>3. Lifecycle!Dismiss(given)
  BY <1>2 DEF Lifecycle!Dismiss
<1> QED BY <1>1, <1>3 DEF LifecycleStep, Lifecycle!LifecycleNext

LEMMA QuietClientTold ==
    ASSUME IInv, IInv', ToldInv, NEW p, Section("client", p), Told(p) = {}, InOrder(p, view),
           UNCHANGED <<asked, view, serverSpell>>, pending' \subseteq pending,
           \A s \in Spells : completed'[s] \in {completed[s], NoCast}
    PROVE  ToldInv'
<1>1. 1..asked' \ 1..asked = {} /\ 1..asked \subseteq 1..asked'
      /\ pending' \subseteq pending \cup (1..asked' \ 1..asked)
  OBVIOUS
<1>2. \A c \in Casts : view'[c] = IF c \in 1..asked' \ 1..asked THEN "asked" ELSE view[c]
  BY <1>1
<1>3. Told(p) \subseteq {NoCast}
  OBVIOUS
<1>4. InOrder(p, view')
  OBVIOUS
<1> QED BY <1>1, <1>2, <1>3, <1>4, ClientTold

LEMMA CancelActiveTold ==
    ASSUME IInv, IInv', HeldInv, ToldInv, active # NoCast, NEW c \in 1..asked, CancelActive(c),
           UNCHANGED <<castVars, serverSpell, completed, view>>
    PROVE  ToldKept
<1> DEFINE r == IF held \in pending \ {active} THEN held ELSE NoCast
           yes == TRUE
           p == Abandoned(r) \o When(yes, Packet("cancel", active))
<1>1. Section("client", p)
  BY DEF CancelActive, CancelPackets, When
<1>2. /\ pending' = pending \ {active, held, c}
      /\ dismissed' = dismissed \cup {active, c}
  BY DEF CancelActive
<1>3. active \in 1..asked /\ pending \subseteq 1..asked /\ asked' = asked
  BY ShapeFromIInv DEF QueueShape, ActiveTracked, castVars
<1>4. r # NoCast => r = held /\ r \in pending /\ ~Started(r) /\ view[r] = "asked"
  BY HeldWaits
<1>5. r \in 1..asked \cup {NoCast} /\ yes \in BOOLEAN /\ "cancel" \in Requests
  BY <1>3, <1>4 DEF Requests
<1> HIDE DEF r, yes
<1>6. Told(p) \subseteq {r} /\ (Told(p) # {} => r # NoCast) /\ InOrder(p, view)
  <2> DEFINE S == 1..asked
  <2>1. r \in S \cup {NoCast} /\ active \in S
        /\ p = Abandoned(r) \o When(yes, Packet("cancel", active))
    BY <1>3, <1>5
  <2> HIDE DEF S, p
  <2> QED BY <1>4, <1>5, <2>1, AbandonedThenRequest
<1> HIDE DEF p
<1>7. r # NoCast => r \notin pending'
  BY <1>2, <1>4
<1>8. 1..asked' \ 1..asked = {} /\ 1..asked \subseteq 1..asked'
      /\ pending' \subseteq pending \cup (1..asked' \ 1..asked)
  BY <1>2, <1>3
<1>9. /\ \A d \in Casts : view'[d] = IF d \in 1..asked' \ 1..asked THEN "asked" ELSE view[d]
      /\ \A s \in Spells : completed'[s] \in {completed[s], NoCast}
      /\ InOrder(p, view') /\ UNCHANGED serverSpell
  BY <1>6, <1>8
<1>10. ToldInv'
  BY <1>1, <1>4, <1>6, <1>7, <1>8, <1>9, ClientTold
<1>11. LifecycleStep
  <2>1. {active, c} \in SUBSET (1..asked)
    BY <1>3
  <2> QED BY <1>2, <2>1, DismissStep
<1> QED BY <1>10, <1>11 DEF ToldKept

LEMMA CancelCastTold ==
    ASSUME IInv, IInv', HeldInv, ToldInv, NEW c \in Casts, CancelCast(c)
    PROVE  ToldKept
<1>1. c \in 1..asked /\ UNCHANGED <<castVars, serverSpell, completed, view>> /\ c # NoCast
  BY CastsAreNumbers DEF CancelCast
<1>2. CASE active = c /\ CancelActive(c)
  BY <1>1, <1>2, CancelActiveTold
<1>3. CASE ~(active = c /\ CancelActive(c))
  <2>1. /\ pending' = pending \ {c} /\ dismissed' = dismissed \cup {c}
        /\ Section("client", <<>>) \/ Section("client", Packet("cancel", c))
    BY <1>3 DEF CancelCast
  <2>2. PICK p : Section("client", p) /\ Told(p) = {} /\ InOrder(p, view)
    <3>1. CASE Section("client", <<>>)
      BY <3>1, NothingTold
    <3>2. CASE Section("client", Packet("cancel", c))
      <4> DEFINE yes == TRUE
      <4>1. Packet("cancel", c) = When(yes, Packet("cancel", c)) /\ yes \in BOOLEAN
            /\ "cancel" \in Requests
        BY DEF When, Requests
      <4> HIDE DEF yes
      <4> QED BY <3>2, <4>1, OnlyRequestTold
    <3> QED BY <2>1, <3>1, <3>2
  <2>3. ToldInv'
    BY <1>1, <2>1, <2>2, QuietClientTold DEF castVars
  <2>4. LifecycleStep
    BY <1>1, <2>1, DismissStep
  <2> QED BY <2>3, <2>4 DEF ToldKept
<1> QED BY <1>2, <1>3

LEMMA CancelSpellTold ==
    ASSUME IInv, IInv', HeldInv, ToldInv, NEW s \in Spells, CancelSpell(s)
    PROVE  ToldKept
<1>1. UNCHANGED <<castVars, serverSpell, completed, view>> /\ ActiveSpell = s /\ CancelActive(active)
  BY DEF CancelSpell
<1>2. active # NoCast
  BY <1>1, SpellRanks DEF ActiveSpell
<1>3. active \in 1..asked
  BY <1>2, ShapeFromIInv DEF QueueShape, ActiveTracked
<1> QED BY <1>1, <1>2, <1>3, CancelActiveTold

LEMMA ResetTold ==
    ASSUME IInv, IInv', ToldInv, NEW t \in Threads, ResetCharacter(t)
    PROVE  ToldKept
<1>1. /\ pending' = {} /\ dismissed' = dismissed \cup 1..asked /\ Section(t, <<>>)
      /\ UNCHANGED <<asked, serverSpell, view>>
      /\ \A s \in Spells : completed'[s] = NoCast
  BY DEF ResetCharacter, castVars
<1> DEFINE p == <<>>
<1>2. Section(t, p) /\ Told(p) = {} /\ InOrder(p, view)
  BY <1>1, NothingTold
<1> HIDE DEF p
<1>3. ToldInv'
  <2>1. CASE t = "client"
    BY <1>1, <1>2, <2>1, QuietClientTold
  <2>2. CASE t = "relay"
    <3>1. Told(p) \subseteq {NoCast}
      BY <1>2
    <3> QED BY <1>1, <1>2, <2>2, <3>1, RelayTold
  <2> QED BY <2>1, <2>2 DEF Threads
<1>4. LifecycleStep
  BY <1>1, DismissStep
<1> QED BY <1>3, <1>4 DEF ToldKept

\* What the relay tells the client.
LEMMA QuietRelayTold ==
    ASSUME IInv, ToldInv, NEW p, Section("relay", p), Told(p) = {}, InOrder(p, view),
           UNCHANGED <<asked, view, serverSpell>>, pending' \subseteq pending,
           \A s \in Spells : completed'[s] \in {completed[s], NoCast}
    PROVE  ToldInv'
<1>1. Told(p) \subseteq {NoCast}
  OBVIOUS
<1> QED BY <1>1, RelayTold

LEMMA NothingWrittenTold ==
    ASSUME IInv, ToldInv, Section("relay", <<>>),
           UNCHANGED <<asked, view, serverSpell, pending>>,
           \A s \in Spells : completed'[s] \in {completed[s], NoCast}
    PROVE  ToldInv'
<1> DEFINE p == <<>>
<1>1. Section("relay", p) /\ Told(p) = {} /\ InOrder(p, view)
  BY NothingTold
<1> HIDE DEF p
<1> QED BY <1>1, QuietRelayTold

\* PREPARE and START tell of the cast that begins, and answer nothing.
LEMMA StartNames ==
    ASSUME NEW c
    PROVE  LET p == Verdict(TRUE, TRUE, c, "start", c)
           IN  Told(p) \subseteq {c} /\ CastsIn(p, "start") = {c} /\ Answers(p) = {}
<1> DEFINE x == Packet("prepare", c)
           y == Packet("start", c)
<1>1. x \in Seq(Writes({c})) /\ y \in Seq(Writes({c}))
  BY DEF Packet, Writes, Packets
<1>2. \A kind : CastsIn(x \o y, kind) = CastsIn(x, kind) \cup CastsIn(y, kind)
  <2> HIDE DEF x, y
  <2> QED BY <1>1, CastsInConcat
<1>3. \A kind : /\ CastsIn(x, kind) = IF kind = "prepare" THEN {c} ELSE {}
                /\ CastsIn(y, kind) = IF kind = "start" THEN {c} ELSE {}
  BY CastsInPacket
<1>4. Verdict(TRUE, TRUE, c, "start", c) = x \o y
  BY DEF Verdict, When
<1> HIDE DEF x, y
<1>5. \A kind : CastsIn(x \o y, kind) = IF kind \in {"prepare", "start"} THEN {c} ELSE {}
  BY <1>2, <1>3
<1>6. Answers(x \o y) = {}
  BY <1>5 DEF Answers
<1> QED BY <1>4, <1>5, <1>6 DEF Told

LEMMA StartTold ==
    ASSUME LowerRank = {}, IInv, ToldInv, UNCHANGED <<castVars, view>>,
           NEW s \in Spells, NEW caster, SpellStart(s, caster)
    PROVE  ToldInv'
<1> DEFINE c == StartMatch(s, caster)
           p == Verdict(TRUE, TRUE, c, "start", c)
<1>1. UNCHANGED <<asked, pending, completed>>
  BY DEF SpellStart, castVars
<1>2. CASE c = NoCast
  <2>1. Section("relay", <<>>) /\ UNCHANGED serverSpell
    BY <1>2 DEF SpellStart
  <2> QED BY <1>1, <2>1, NothingWrittenTold
<1>3. CASE c # NoCast
  <2>1. Section("relay", p) /\ serverSpell' = [serverSpell EXCEPT ![c] = s]
    BY <1>3 DEF SpellStart, Verdict, When
  <2>2. c \in pending /\ ~Started(c)
    <3>1. Accepted(caster, TRUE) \in SUBSET Casts /\ Accepted(caster, TRUE) \subseteq pending
      BY ShapeFromIInv DEF Accepted
    <3>2. c = Find(s, TRUE, Accepted(caster, TRUE)) /\ TRUE \in BOOLEAN
      BY NoDownrank DEF StartMatch
    <3> HIDE DEF c
    <3> QED BY <1>3, <3>1, <3>2, FindSpell
  <2>3. outbox["relay"] = <<>>
    BY <2>1 DEF Section
  <2>4. /\ c \in 1..asked /\ c \notin ToldOf("client") /\ view[c] = "asked" /\ c \in Casts
        /\ s # NoSpell /\ serverSpell \in [Casts -> Spells \cup {NoSpell}]
    BY <2>2, <2>3, RelayIdle, ShapeFromIInv, SpellRanks DEF IInv, TypeOK
  <2>5. serverSpell'[c] # NoSpell /\ \A d \in Casts \ {c} : serverSpell'[d] = serverSpell[d]
    BY <2>1, <2>4
  <2> HIDE DEF c
  <2>6. TRUE \in BOOLEAN /\ "start" \in {"start", "go", "failed"} /\ "start" # "go"
    OBVIOUS
  <2>7. /\ Told(p) \subseteq {c} /\ CastsIn(p, "start") = {c} /\ Answers(p) = {}
    BY StartNames
  <2>8. InOrder(p, view)
    BY <2>4, <2>6, VerdictInOrder
  <2> HIDE DEF p
  <2>9. pending \subseteq Casts
    BY ShapeFromIInv
  <2>10. \A d \in pending' :
            \/ d \notin Told(p) /\ serverSpell'[d] = serverSpell[d]
            \/ d \in CastsIn(p, "start") /\ d \notin Answers(p) /\ serverSpell'[d] # NoSpell
    BY <1>1, <2>5, <2>7, <2>9
  <2>11. /\ Told(p) # {} => c \notin ToldOf("client")
         /\ pending' \subseteq pending
         /\ \A r \in Spells : completed'[r] \in {completed[r], NoCast} \cup (pending \ pending')
    BY <1>1, <2>4
  <2> QED BY <1>1, <2>1, <2>7, <2>8, <2>10, <2>11, RelayTold
<1> QED BY <1>2, <1>3

\* The relay's answer that ends a cast, in the words of RelayVerdict.
LEMMA EndTold ==
    ASSUME IInv, ToldInv, UNCHANGED <<castVars, view, serverSpell>>,
           NEW c \in pending, NEW s \in Spells, Consume(c, s), NEW k \in {"go", "failed"},
           \/ EndActive(pending \ {c}, Binding(c) \o Packet(k, c))
           \/ Section("relay", Binding(c) \o Packet(k, c))
    PROVE  ToldInv'
<1> DEFINE bind == ~Started(c)
           tell == TRUE
           none == FALSE
           goes == Promotes(pending \ {c})
           a == Verdict(bind, tell, c, k, c)
<1>1. /\ pending' = pending \ {c} /\ UNCHANGED asked
      /\ \A r \in Spells : completed'[r] \in {completed[r], NoCast} \cup (pending \ pending')
  <2>1. completed \in [Spells -> Casts \cup {NoCast}] /\ pending' = pending \ {c}
    BY DEF IInv, TypeOK, Consume
  <2>2. \A r \in Spells : completed'[r] \in {completed[r], c}
    BY <2>1 DEF Consume
  <2> QED BY <2>1, <2>2 DEF castVars
<1>2. outbox["relay"] = <<>>
  BY DEF EndActive, Section
<1>3. c \in 1..asked /\ c \notin ToldOf("client") /\ c # NoCast
      /\ (bind => view[c] = "asked") /\ (~bind => view[c] = "begun")
  BY <1>2, RelayIdle
<1>4. a = Binding(c) \o Packet(k, c) /\ a \in Seq(Writes(1..asked))
  <2>1. a = Binding(c) \o Packet(k, c)
    BY <1>3 DEF Verdict, Binding, When
  <2>2. bind \in BOOLEAN /\ tell \in BOOLEAN /\ k \in {"start", "go", "failed"}
    BY DEF Started
  <2>3. a \in Seq(Writes(1..asked))
    <3> HIDE DEF bind, tell
    <3> QED BY <1>3, <2>2, VerdictNames
  <2> QED BY <2>1, <2>3
<1>5. /\ Section("relay", a \o When(goes, Packet("cast", held)))
         \/ Section("relay", a \o When(none, Packet("cast", held)))
      /\ goes => held \in 1..asked
  <2>1. goes => held \in 1..asked
    BY ShapeFromIInv DEF Promotes, QueueShape
  <2>2. EndActive(pending \ {c}, Binding(c) \o Packet(k, c))
           => Section("relay", a \o When(goes, Packet("cast", held)))
    BY <1>4 DEF EndActive
  <2>3. a \o When(none, Packet("cast", held)) = a
    <3> DEFINE r == When(none, Packet("cast", held))
               S == Writes(1..asked)
    <3>1. r = <<>> /\ a \in Seq(S)
      BY <1>4 DEF When
    <3>2. a \o r = a
      <4> HIDE DEF a, r, S
      <4> QED BY <3>1
    <3> QED BY <3>2
  <2>4. Section("relay", Binding(c) \o Packet(k, c))
           => Section("relay", a \o When(none, Packet("cast", held)))
    BY <1>4, <2>3
  <2> QED BY <2>1, <2>2, <2>4
<1>6. bind \in BOOLEAN /\ tell \in BOOLEAN /\ none \in BOOLEAN /\ goes \in BOOLEAN
      /\ ~none /\ c \notin pending' /\ pending' \subseteq pending /\ UNCHANGED <<asked, view, serverSpell>>
  BY <1>1 DEF Started, Promotes
<1>7. a = Verdict(bind, tell, c, k, c)
  OBVIOUS
<1> HIDE DEF bind, tell, none, goes, a
<1>8. CASE Section("relay", a \o When(goes, Packet("cast", held)))
  BY <1>1, <1>3, <1>5, <1>6, <1>7, <1>8, RelayVerdict
<1>9. CASE Section("relay", a \o When(none, Packet("cast", held)))
  BY <1>1, <1>3, <1>6, <1>7, <1>9, RelayVerdict
<1> QED BY <1>5, <1>8, <1>9

LEMMA GoTold ==
    ASSUME IInv, ToldInv, UNCHANGED <<castVars, view>>,
           NEW s \in Spells, NEW caster, SpellGo(s, caster)
    PROVE  ToldInv'
<1> DEFINE c == GoMatch(s, caster)
<1>1. UNCHANGED serverSpell /\ UNCHANGED asked
  BY DEF SpellGo, castVars
<1>2. CASE c = NoCast
  <2>1. Section("relay", <<>>) /\ UNCHANGED pending
    BY <1>2 DEF SpellGo
  <2>2. \A r \in Spells : completed'[r] \in {completed[r], NoCast}
    <3>1. completed \in [Spells -> Casts \cup {NoCast}]
      BY DEF IInv, TypeOK
    <3> QED BY <1>2, <3>1 DEF SpellGo
  <2> QED BY <1>1, <2>1, <2>2, NothingWrittenTold
<1>3. CASE c # NoCast
  <2>1. c \in pending
    BY <1>3, MatchMember, ShapeFromIInv
  <2>2. /\ Consume(c, s)
        /\ \/ EndActive(pending \ {c}, Binding(c) \o Packet("go", c))
           \/ Section("relay", Binding(c) \o Packet("go", c))
    BY <1>3 DEF SpellGo
  <2>3. "go" \in {"go", "failed"}
    OBVIOUS
  <2> HIDE DEF c
  <2> QED BY <1>1, <2>1, <2>2, <2>3, EndTold
<1> QED BY <1>2, <1>3

\* A failure shown under an earlier cast, or a pet's, needs no PREPARE.
LEMMA BlameTold ==
    ASSUME IInv, ToldInv, UNCHANGED <<castVars, view, serverSpell, completed>>,
           NEW b, NEW tell \in BOOLEAN, Section("relay", When(tell, Packet("failed", b))),
           tell => b \in 1..asked /\ b \notin ToldOf("client") /\ b \notin pending',
           pending' \subseteq pending
    PROVE  ToldInv'
<1> DEFINE none == FALSE
           k == "failed"
           a == Verdict(none, tell, b, k, b)
<1>1. Section("relay", a \o When(none, Packet("cast", b)))
  <2>1. a = <<>> \o When(tell, Packet("failed", b)) /\ When(none, Packet("cast", b)) = <<>>
    BY DEF Verdict, When
  <2>2. When(tell, Packet("failed", b)) = <<>> \o When(tell, Packet("failed", b)) \o <<>>
    BY DEF When, Packet
  <2> QED BY <2>1, <2>2
<1>2. none \in BOOLEAN /\ k \in {"go", "failed"} /\ k # "go" /\ ~none /\ UNCHANGED <<asked, view, serverSpell>>
      /\ \A r \in Spells : completed'[r] \in {completed[r], NoCast} \cup (pending \ pending')
  BY DEF castVars
<1> HIDE DEF none, k
<1> QED BY <1>1, <1>2, RelayVerdict

LEMMA FailureTold ==
    ASSUME IInv, ToldInv, UNCHANGED <<castVars, view>>,
           NEW s \in Spells, NEW reason, CastFailed(s, reason)
    PROVE  ToldInv'
<1>1. UNCHANGED serverSpell /\ UNCHANGED asked
  BY DEF CastFailed, castVars
<1>2. CASE SwallowFailure(s, reason)
  <2>1. Section("relay", <<>>) /\ UNCHANGED <<pending, completed>>
    BY <1>2 DEF SwallowFailure
  <2> QED BY <1>1, <2>1, NothingWrittenTold
<1>3. CASE RetryCast(s, reason)
  <2>1. UNCHANGED <<pending, completed>>
    BY <1>3 DEF RetryCast
  <2>2. Section("relay", <<>>) \/ Section("relay", Packet("cast", active))
    BY <1>3 DEF RetryCast, Retries
  <2> DEFINE yes == TRUE
             p == When(yes, Packet("cast", active))
  <2>3. ASSUME Section("relay", Packet("cast", active)) PROVE ToldInv'
    <3>1. Section("relay", p) /\ yes \in BOOLEAN /\ "cast" \in Requests
      BY <2>3 DEF When, Requests
    <3> HIDE DEF yes
    <3>2. Told(p) = {} /\ InOrder(p, view)
      BY <3>1, OnlyRequestTold
    <3> HIDE DEF p
    <3> QED BY <1>1, <2>1, <3>1, <3>2, QuietRelayTold
  <2> QED BY <1>1, <2>1, <2>2, <2>3, NothingWrittenTold
<1>4. CASE DeliverFailure(s, reason)
  <2> DEFINE c == FailureMatch(s)
             b == completed[s]
  <2>1. CASE c # NoCast
    <3>1. c \in pending
      BY <2>1, MatchMember, ShapeFromIInv
    <3>2. /\ Consume(c, s)
          /\ \/ EndActive(pending \ {c}, Binding(c) \o Packet("failed", c))
             \/ Section("relay", Binding(c) \o Packet("failed", c))
      BY <1>4, <2>1 DEF DeliverFailure, When
    <3>3. "failed" \in {"go", "failed"}
      OBVIOUS
    <3> HIDE DEF c
    <3> QED BY <1>1, <3>1, <3>2, <3>3, EndTold
  <2>2. CASE c = NoCast
    <3> DEFINE tell == b # NoCast
    <3>1. UNCHANGED <<pending, completed>> /\ Section("relay", When(tell, Packet("failed", b)))
      <4>1. Binding(c) = <<>>
        BY <2>2 DEF Binding, When
      <4>2. <<>> \o When(tell, Packet("failed", b)) = When(tell, Packet("failed", b))
        BY DEF When, Packet
      <4> QED BY <1>4, <2>2, <4>1, <4>2 DEF DeliverFailure
    <3>2. tell => b \in 1..asked /\ b \notin ToldOf("client") /\ b \notin pending'
      BY <3>1, ShapeFromIInv DEF ToldInv, QueueShape, NoCast
    <3>3. tell \in BOOLEAN /\ pending' \subseteq pending
      BY <3>1
    <3> HIDE DEF tell, b
    <3> QED BY <1>1, <3>1, <3>2, <3>3, BlameTold
  <2> QED BY <2>1, <2>2
<1> QED BY <1>2, <1>3, <1>4 DEF CastFailed

LEMMA PetFailureTold ==
    ASSUME IInv, ToldInv, UNCHANGED <<castVars, view>>, NEW s, PetCastFailed(s)
    PROVE  ToldInv'
<1> DEFINE pets == {p \in pending : owner[p] = "pet"}
           c == Find(s, FALSE, pets)
           tell == c # NoCast
<1>1. /\ UNCHANGED <<serverSpell, completed>> /\ pending' = pending \ {c}
      /\ Section("relay", When(tell, Packet("failed", c)))
  BY DEF PetCastFailed
<1>2. c \in pending \cup {NoCast}
  <2>1. pets \in SUBSET Casts /\ pets \subseteq pending /\ FALSE \in BOOLEAN
    BY ShapeFromIInv
  <2> HIDE DEF pets
  <2> QED BY <2>1, FindMember
<1>3. outbox["relay"] = <<>> /\ tell \in BOOLEAN /\ UNCHANGED asked
  BY <1>1 DEF Section, castVars
<1>4. tell => c \in 1..asked /\ c \notin ToldOf("client") /\ c \notin pending'
  <2> HIDE DEF c
  <2> QED BY <1>1, <1>2, <1>3, RelayIdle
<1>5. pending' \subseteq pending
  BY <1>1
<1> HIDE DEF c, tell
<1> QED BY <1>1, <1>3, <1>4, <1>5, BlameTold

\* A section of the relay, whatever the realm answered.
LEMMA RelayTells ==
    ASSUME LowerRank = {}, IInv, IInv', HeldInv, ToldInv, RelaySection
    PROVE  ToldKept
<1>1. CASE ResetCharacter("relay")
  BY <1>1, ResetTold DEF Threads
<1>2. CASE ~ResetCharacter("relay")
  <2>1. UNCHANGED <<castVars, view, dismissed>>
    BY <1>2 DEF RelaySection, histVars
  <2>2. RealmFails \/ RealmStarts \/ RealmFinishesAtOnce \/ RealmFinishes \/ RealmInterrupts
    BY <1>2 DEF RelaySection
  <2>3. /\ \A c \in 1..asked : answer[c] \in Spells
        /\ casting \subseteq 1..asked
        /\ requests # <<>> => Head(requests) \in 1..asked
    BY HeadAndTail DEF IInv, QueueInv
  <2>4. ASSUME NEW c \in 1..asked, NEW reason, Fails(c, reason) PROVE ToldInv'
    BY <2>1, <2>3, <2>4, FailureTold, PetFailureTold DEF Fails
  <2>5. RealmFails => ToldInv'
    BY <2>3, <2>4 DEF RealmFails
  <2>6. RealmInterrupts => ToldInv'
    BY <2>3, <2>4 DEF RealmInterrupts
  <2>7. RealmStarts => ToldInv'
    BY <2>1, <2>3, StartTold DEF RealmStarts
  <2>8. RealmFinishesAtOnce => ToldInv'
    BY <2>1, <2>3, GoTold DEF RealmFinishesAtOnce
  <2>9. RealmFinishes => ToldInv'
    BY <2>1, <2>3, GoTold DEF RealmFinishes
  <2>10. LifecycleStep
    BY <2>1 DEF LifecycleStep, Lifecycle!lifecycleVars
  <2> QED BY <2>2, <2>5, <2>6, <2>7, <2>8, <2>9, <2>10 DEF ToldKept
<1> QED BY <1>1, <1>2

LEMMA ToldUnchanged ==
    ASSUME ToldInv, UNCHANGED <<asked, view, outbox, pending, serverSpell, completed, dismissed>>
    PROVE  ToldKept
<1>1. ToldInv'
  BY DEF ToldInv, Waiting, ToldOf, Queued, Started
<1>2. LifecycleStep
  BY DEF LifecycleStep, Lifecycle!lifecycleVars
<1> QED BY <1>1, <1>2 DEF ToldKept

LEMMA NextTold ==
    ASSUME LowerRank = {}, IInv, HeldInv, ToldInv, [Next]_vars, [AllFit]_vars
    PROVE  HeldInv' /\ ToldKept
<1>1. IInv' /\ HeldInv'
  BY NextIInv, NextHeld DEF AllFit, OthersFit
<1>2. ASSUME ClientSection, AllFit PROVE ToldKept
  <2>1. ASSUME NEW s \in Spells, UseItem(s) \/ PetCastSpell(s) PROVE ToldKept
    BY <1>1, <1>2, <2>1, OtherCastTold DEF UseItem, PetCastSpell
  <2> QED BY <1>1, <1>2, <2>1, CastSpellTold, CancelSpellTold, CancelCastTold, ResetTold
          DEF ClientSection, Threads
<1>3. ASSUME NEW t \in Threads, Write(t) PROVE ToldKept
  BY <1>3, WriteTold DEF ToldKept
<1>4. TimePasses \/ UNCHANGED vars
         => UNCHANGED <<asked, view, outbox, pending, serverSpell, completed, dismissed>>
  BY DEF TimePasses, vars, castVars, queueVars, histVars
<1>5. CASE UNCHANGED vars
  BY <1>1, <1>4, <1>5, ToldUnchanged
<1>6. CASE Next /\ AllFit
  BY <1>1, <1>2, <1>3, <1>4, <1>6, RelayTells, ToldUnchanged DEF Next
<1> QED BY <1>1, <1>5, <1>6

\* The client is told of each cast what CastLifecycle promises, in that order:
\* every step of the queue is a step of the lifecycle, where the realm answers
\* a spell under its own ID and no cast is evicted from pendingCasts.
THEOREM LifecycleImplemented ==
    ASSUME LowerRank = {} PROVE Spec /\ [][AllFit]_vars => LifecycleHonoured
<1>1. Init => HeldInv /\ ToldInv /\ Lifecycle!LifecycleInit
  <2> SUFFICES ASSUME Init PROVE HeldInv /\ ToldInv /\ Lifecycle!LifecycleInit
    OBVIOUS
  <2>1. HeldInv
    BY CastBounds DEF Init, HeldInv, OwnSpell, BegunAtRealm, HeldBehindActive, HeldTracked
  <2>2. \A t \in Threads : InOrder(outbox[t], view) /\ ToldOf(t) = {}
    BY NothingTold DEF Init, ToldOf
  <2>3. 1..asked = {} /\ pending = {} /\ \A s \in Spells : completed[s] = NoCast
    BY DEF Init
  <2>4. \A c \in Casts : view[c] = "new"
    BY DEF Init
  <2>5. ToldInv
    BY <2>2, <2>3, <2>4 DEF ToldInv, Threads
  <2>6. Lifecycle!LifecycleInit
    BY DEF Init, Lifecycle!LifecycleInit
  <2> QED BY <2>1, <2>5, <2>6
<1>2. IInv /\ HeldInv /\ ToldInv /\ [Next]_vars /\ [AllFit]_vars => HeldInv' /\ ToldInv' /\ LifecycleStep
  BY NextTold DEF ToldKept
<1>3. LifecycleStep => [Lifecycle!LifecycleNext]_(Lifecycle!lifecycleVars)
  BY DEF LifecycleStep
<1> QED BY <1>1, <1>2, <1>3, Inductive, PTL DEF Spec, LifecycleHonoured, Lifecycle!LifecycleSpec

-----------------------------------------------------------------------------
(* One request at a time.                                                    *)

\* None of the packets asks the realm for a cast; or the last does, for c, and no other.
NoneAsks(packets) == \A i \in 1..Len(packets) : packets[i].kind # "cast"
LastAsks(packets, c) ==
    /\ packets # <<>> /\ packets[Len(packets)] = [kind |-> "cast", cast |-> c]
    /\ \A i \in 1..Len(packets) - 1 : packets[i].kind # "cast"

\* The one request for c is at the realm, or a goroutine has it to write.
AskedOnce(c) ==
    \/ requests = <<c>> /\ \A t \in Threads : NoneAsks(outbox[t])
    \/ /\ requests = <<>>
       /\ \E t \in Threads : /\ LastAsks(outbox[t], c)
                             /\ \A u \in Threads \ {t} : NoneAsks(outbox[u])
NothingAsked == requests = <<>> /\ \A t \in Threads : NoneAsks(outbox[t])

InFlight == active # NoCast /\ attempt.inFlight

\* The queue has the active cast and the held one, and no other; it takes the
\* active one to be on its way exactly while its request is.
Solo ==
    /\ pending \subseteq {active, held} /\ retired = NoSpell
    /\ active = NoCast => held = NoCast
    /\ InFlight => AskedOnce(active) /\ casting = {}
    /\ ~InFlight => NothingAsked /\ casting \subseteq {active}
    /\ casting # {} => attempt.started

RepeatsOneSpell ==
    /\ LowerRank = {} /\ Owners = {"player"} /\ Dismissals = {} /\ PendingLimit > 2
    /\ \A s, r \in Spells : s = r

LEMMA NothingAsks == NoneAsks(<<>>)
BY DEF NoneAsks

LEMMA NoneAsksConcat ==
    ASSUME NEW S, NEW p \in Seq(S), NEW q \in Seq(S), NoneAsks(p), NoneAsks(q)
    PROVE  NoneAsks(p \o q)
<1> SUFFICES ASSUME NEW i \in 1..Len(p \o q) PROVE (p \o q)[i].kind # "cast"
  BY DEF NoneAsks
<1>1. CASE i \in 1..Len(p)
  BY <1>1 DEF NoneAsks
<1>2. CASE i \notin 1..Len(p)
  <2>1. i - Len(p) \in 1..Len(q) /\ (p \o q)[i] = q[i - Len(p)]
    BY <1>2
  <2> QED BY <2>1 DEF NoneAsks
<1> QED BY <1>1, <1>2

LEMMA LastAsksConcat ==
    ASSUME NEW S, NEW p \in Seq(S), NEW c, [kind |-> "cast", cast |-> c] \in S, NoneAsks(p)
    PROVE  LastAsks(p \o Packet("cast", c), c)
<1> DEFINE a == [kind |-> "cast", cast |-> c]
           q == p \o <<a>>
<1>1. q = p \o Packet("cast", c)
  BY DEF Packet
<1>2. a \in S
  OBVIOUS
<1> HIDE DEF a
<1>3. q \in Seq(S) /\ Len(q) = Len(p) + 1 /\ q[Len(q)] = a /\ q # <<>>
  BY <1>2
<1>4. \A i \in 1..Len(q) - 1 : q[i] = p[i] /\ i \in 1..Len(p)
  BY <1>2, <1>3
<1> HIDE DEF q
<1> QED BY <1>1, <1>3, <1>4 DEF LastAsks, NoneAsks, a

LEMMA NoneAsksTail ==
    ASSUME NEW S, NEW p \in Seq(S), p # <<>>, NoneAsks(p)
    PROVE  NoneAsks(Tail(p)) /\ Head(p).kind # "cast"
<1>1. Len(Tail(p)) = Len(p) - 1 /\ Len(p) >= 1 /\ Head(p) = p[1]
  OBVIOUS
<1>2. \A i \in 1..Len(Tail(p)) : Tail(p)[i] = p[i + 1] /\ i + 1 \in 1..Len(p)
  BY <1>1
<1>3. 1 \in 1..Len(p)
  BY <1>1
<1> QED BY <1>1, <1>2, <1>3 DEF NoneAsks

LEMMA LastAsksTail ==
    ASSUME NEW S, NEW p \in Seq(S), NEW c, LastAsks(p, c)
    PROVE  \/ Head(p) = [kind |-> "cast", cast |-> c] /\ Tail(p) = <<>>
           \/ Head(p).kind # "cast" /\ LastAsks(Tail(p), c)
<1>1. p # <<>> /\ Len(p) \in Nat /\ Len(p) >= 1 /\ Len(Tail(p)) = Len(p) - 1 /\ Head(p) = p[1]
  BY DEF LastAsks
<1>2. CASE Len(p) = 1
  <2>1. p[1] = [kind |-> "cast", cast |-> c]
    BY <1>2 DEF LastAsks
  <2>2. Tail(p) \in Seq(S) /\ Len(Tail(p)) = 0
    BY <1>1, <1>2
  <2>3. \A q \in Seq(S) : Len(q) = 0 => q = <<>>
    OBVIOUS
  <2> QED BY <1>1, <2>1, <2>2, <2>3
<1>3. CASE Len(p) > 1
  <2>1. 1 \in 1..Len(p) - 1 /\ Tail(p) # <<>>
    <3>1. Len(Tail(p)) # 0 /\ Len(<<>>) = 0
      BY <1>1, <1>3
    <3>2. 1 \in 1..Len(p) - 1
      BY ONLY <1>1, <1>3
    <3> QED BY ONLY <3>1, <3>2
  <2>2. Tail(p)[Len(Tail(p))] = p[Len(p)]
    BY <1>1, <1>3
  <2>3. \A i \in 1..Len(Tail(p)) - 1 : Tail(p)[i] = p[i + 1] /\ i + 1 \in 1..Len(p) - 1
    BY <1>1, <1>3
  <2> QED BY <1>1, <2>1, <2>2, <2>3 DEF LastAsks
<1> QED BY <1>1, <1>2, <1>3

LEMMA NoRequest ==
    ASSUME NEW kind, kind # "cast", NEW c
    PROVE  NoneAsks(Packet(kind, c))
<1> DEFINE a == [kind |-> kind, cast |-> c]
<1>1. a.kind # "cast"
  OBVIOUS
<1> HIDE DEF a
<1>2. Len(<<a>>) = 1 /\ \A i \in 1..Len(<<a>>) : <<a>>[i] = a
  OBVIOUS
<1>3. Packet(kind, c) = <<a>>
  BY DEF Packet, a
<1> QED BY <1>1, <1>2, <1>3 DEF NoneAsks

LEMMA BindingAsksNot ==
    ASSUME NEW c
    PROVE  NoneAsks(Binding(c))
BY NoRequest, NothingAsks DEF Binding, When

LEMMA AbandonedAsksNot ==
    ASSUME NEW S, NEW c \in S \cup {NoCast}
    PROVE  NoneAsks(Abandoned(c))
<1>1. CASE c # NoCast /\ owner[c] # "pet"
  <2>1. Binding(c) \in Seq(Writes(S))
    BY BindingType
  <2>2. Packet("failed", c) \in Seq(Writes(S))
    BY <1>1 DEF Packet, Writes, Packets
  <2>3. NoneAsks(Binding(c)) /\ NoneAsks(Packet("failed", c))
    BY NoRequest, BindingAsksNot
  <2>4. NoneAsks(Binding(c) \o Packet("failed", c))
    BY <2>1, <2>2, <2>3, NoneAsksConcat
  <2> QED BY <1>1, <2>4 DEF Abandoned, When
<1>2. CASE ~(c # NoCast /\ owner[c] # "pet")
  BY <1>2, NothingAsks DEF Abandoned, When
<1> QED BY <1>1, <1>2

\* What a queue that only repeats one spell is known to be.
LEMMA SoloFacts ==
    ASSUME RepeatsOneSpell, IInv, HeldInv, Solo
    PROVE  /\ QueueShape /\ OutboxShape /\ asked \in Nat /\ 1..asked \subseteq Casts
           /\ NoCast \notin 1..asked /\ casting \subseteq 1..asked
           /\ active = NoCast => pending = {} /\ held = NoCast /\ casting = {}
           /\ active # NoCast =>
                 /\ active \in pending /\ active \in 1..asked /\ owner[active] = "player"
                 /\ answer[active] = spell[active] /\ spell[active] \in Spells
                 /\ attempt.started = Started(active) /\ attempt.settled = ~attempt.inFlight
                 /\ attempt.started => attempt.settled
           /\ held # NoCast => held \in pending /\ held # active /\ ~Started(held)
           /\ \A c \in 1..asked : spell[c] \in Spells
           /\ retired = NoSpell
<1>1. QueueShape /\ OutboxShape /\ asked \in Nat /\ 1..asked \subseteq Casts /\ NoCast \notin 1..asked
  BY ShapeFromIInv
<1>2. casting \subseteq 1..asked /\ pending \subseteq 1..asked
      /\ \A c \in 1..asked : spell[c] \in Spells /\ answer[c] = spell[c]
  BY <1>1 DEF QueueShape, IInv, QueueInv, HeldInv, OwnSpell
<1>3. active = NoCast => pending = {} /\ held = NoCast /\ casting = {}
  BY <1>1, <1>2 DEF Solo, InFlight
<1>4. active # NoCast =>
         /\ active \in pending /\ owner[active] = "player"
         /\ attempt.started = Started(active) /\ attempt.settled = ~attempt.inFlight
         /\ attempt.started => attempt.settled
  BY <1>1 DEF QueueShape, ActiveTracked
<1>5. held # NoCast => held \in pending /\ held # active /\ ~Started(held)
  BY DEF HeldInv, HeldTracked
<1> QED BY <1>1, <1>2, <1>3, <1>4, <1>5 DEF Solo

\* The realm's answers of a cast that is on its way, or that the realm began,
\* are matched to the active cast.
LEMMA SoloMatch ==
    ASSUME RepeatsOneSpell, IInv, HeldInv, Solo, active # NoCast
    PROVE  /\ FailureMatch(answer[active]) = active
           /\ GoMatch(answer[active], "player") = active
           /\ ~Started(active) => StartMatch(answer[active], "player") = active
<1> DEFINE s == answer[active]
           others == {c \in pending : owner[c] # "pet"}
           mine == Accepted("player", FALSE)
           starts == Accepted("player", TRUE)
<1>1. /\ active \in pending /\ active \in 1..asked /\ owner[active] = "player"
      /\ s = spell[active] /\ pending \subseteq 1..asked /\ 1..asked \subseteq Casts
  BY SoloFacts DEF QueueShape
<1>2. ActiveSpell = s /\ PendingSpell(active) = s
  BY <1>1 DEF ActiveSpell, PendingSpell, HeldInv, OwnSpell, Started
<1>3. /\ others \in SUBSET Casts /\ mine \in SUBSET Casts /\ starts \in SUBSET Casts
      /\ active \in others /\ active \in mine /\ active \in starts
      /\ others \subseteq pending /\ mine \subseteq pending
  BY <1>1 DEF Accepted
<1>4. CASE Started(active)
  BY <1>1, <1>4, EndIsActive
<1>5. CASE ~Started(active)
  <2>1. \A c \in pending : ~Started(c)
    <3>1. \A c \in pending : c = active \/ (c = held /\ held # NoCast)
      BY <1>1, SoloFacts DEF Solo
    <3> QED BY <1>5, <3>1, SoloFacts
  <2>2. ASSUME NEW S \in SUBSET Casts, S \subseteq pending, active \in S
        PROVE  Find(s, FALSE, S) = active
    <3>1. {c \in {d \in S : PendingSpell(d) = s} : Started(c)} = {}
      BY <2>1, <2>2
    <3> QED BY <1>2, <2>2, <3>1 DEF Find
  <2>3. Find(s, TRUE, starts) = active
    <3> HIDE DEF s, starts
    <3> QED BY <1>2, <1>3, <1>5, FindActive DEF Started
  <2>4. Find(s, FALSE, others) = active /\ Find(s, FALSE, mine) = active
    <3> HIDE DEF s, others, mine
    <3> QED BY <1>3, <2>2
  <2> QED BY <2>3, <2>4 DEF FailureMatch, GoMatch, StartMatch
<1> QED BY <1>4, <1>5

\* The active cast ends while it has no request left: the held one is sent, or nothing is left.
LEMMA EndSolo ==
    ASSUME RepeatsOneSpell, IInv, HeldInv, Solo, active # NoCast, UNCHANGED <<asked, retired>>,
           NEW answers \in Seq(Writes(1..asked)), NoneAsks(answers), NoneAsks(outbox["client"]),
           EndActive(pending \ {active}, answers), pending' = pending \ {active},
           requests' = <<>>, casting' = {}
    PROVE  Solo'
<1> DEFINE cast == When(Promotes(pending \ {active}), Packet("cast", held))
<1>1. held # NoCast => held \in pending \ {active} /\ ~Started(held) /\ held \in 1..asked
  BY SoloFacts DEF QueueShape
<1>2. Promotes(pending \ {active}) <=> held # NoCast
  BY <1>1, SoloFacts DEF Promotes, QueueShape
<1>3. active' = held /\ attempt' = NewAttempt /\ held' = NoCast
  BY <1>2 DEF EndActive, SetActive
<1>4. /\ outbox' = [outbox EXCEPT !["relay"] = answers \o cast]
      /\ outbox["relay"] = <<>>
  BY DEF EndActive, Section
<1>5. outbox \in [Threads -> Seq(Writes(1..asked))]
  BY SoloFacts DEF OutboxShape
<1>6. outbox'["relay"] = answers \o cast /\ outbox'["client"] = outbox["client"]
  BY <1>4, <1>5 DEF Threads
<1>7. retired' = NoSpell /\ pending' \subseteq {held}
  BY SoloFacts DEF Solo
<1>8. CASE held = NoCast
  <2>1. NoneAsks(answers \o cast)
    BY <1>2, <1>8 DEF When
  <2>2. NothingAsked'
    BY <1>6, <2>1 DEF NothingAsked, Threads
  <2> QED BY <1>3, <1>7, <1>8, <2>2 DEF Solo, InFlight
<1>9. CASE held # NoCast
  <2>1. [kind |-> "cast", cast |-> held] \in Writes(1..asked)
    BY <1>1, <1>9 DEF Writes, Requests
  <2>2. LastAsks(answers \o cast, held)
    BY <1>2, <1>9, <2>1, LastAsksConcat DEF When
  <2>3. AskedOnce(active)'
    <3>1. "relay" \in Threads /\ \A u \in Threads \ {"relay"} : u = "client"
      BY DEF Threads
    <3>2. LastAsks(outbox["relay"], active)' /\ NoneAsks(outbox["client"])'
      BY <1>3, <1>6, <2>2 DEF LastAsks, NoneAsks
    <3> QED BY <3>1, <3>2 DEF AskedOnce
  <2>4. attempt'.inFlight /\ ~attempt'.started
    BY <1>3 DEF NewAttempt
  <2> QED BY <1>3, <1>7, <1>9, <2>3, <2>4 DEF Solo, InFlight
<1> QED BY <1>8, <1>9

\* Nothing the queue knows changes but the clocks, and no packet leaves.
LEMMA SoloKept ==
    ASSUME Solo, UNCHANGED <<pending, active, held, retired, outbox, requests, casting>>,
           attempt'.inFlight = attempt.inFlight, attempt'.started = attempt.started
    PROVE  Solo'
<1>1. InFlight' = InFlight
  BY DEF InFlight
<1>2. AskedOnce(active)' = AskedOnce(active) /\ NothingAsked' = NothingAsked
  BY DEF AskedOnce, NothingAsked, NoneAsks, LastAsks
<1> QED BY <1>1, <1>2 DEF Solo

LEMMA TimeSolo ==
    ASSUME IInv, Solo, TimePasses
    PROVE  Solo'
<1>1. attempt'.inFlight = attempt.inFlight /\ attempt'.started = attempt.started
  BY DEF IInv, TypeOK, TimePasses, DeadlinePasses, FuseBurns, Attempts
<1>2. UNCHANGED <<pending, active, held, retired, outbox, requests, casting>>
  BY DEF TimePasses, realmVars
<1> QED BY <1>1, <1>2, SoloKept

\* A goroutine writes its next packet: the request moves to the realm, or stays where it is.
LEMMA WriteSolo ==
    ASSUME RepeatsOneSpell, IInv, HeldInv, Solo, NEW t \in Threads, Write(t)
    PROVE  Solo'
<1>1. /\ outbox[t] # <<>> /\ outbox' = [outbox EXCEPT ![t] = Tail(@)]
      /\ IF Head(outbox[t]).kind = "cast" THEN requests' = Append(requests, Head(outbox[t]).cast)
                                          ELSE UNCHANGED requests
      /\ UNCHANGED <<pending, active, attempt, held, retired, casting>>
  BY DEF Write, queueVars
<1>2. outbox \in [Threads -> Seq(Writes(1..asked))]
  BY SoloFacts DEF OutboxShape
<1>3. /\ outbox'[t] = Tail(outbox[t]) /\ outbox[t] \in Seq(Writes(1..asked))
      /\ \A u \in Threads \ {t} : outbox'[u] = outbox[u]
  BY <1>1, <1>2
<1>4. NoneAsks(outbox[t]) => NoneAsks(outbox'[t]) /\ UNCHANGED requests
  BY <1>1, <1>3, NoneAsksTail
<1>5. NothingAsked => NothingAsked'
  <2> SUFFICES ASSUME NothingAsked, NEW u \in Threads PROVE NoneAsks(outbox'[u]) /\ requests' = <<>>
    BY DEF NothingAsked, NoneAsks
  <2> QED BY <1>3, <1>4 DEF NothingAsked
<1>6. ASSUME AskedOnce(active) PROVE AskedOnce(active)'
  <2>1. CASE requests = <<active>> /\ \A u \in Threads : NoneAsks(outbox[u])
    <3>1. \A u \in Threads : NoneAsks(outbox'[u])
      BY <1>3, <1>4, <2>1
    <3>2. requests' = <<active'>>
      BY <1>1, <1>4, <2>1
    <3> QED BY <3>1, <3>2 DEF AskedOnce, NoneAsks
  <2>2. ASSUME NEW q \in Threads, requests = <<>>, LastAsks(outbox[q], active),
               \A u \in Threads \ {q} : NoneAsks(outbox[u])
        PROVE  AskedOnce(active)'
    <3>1. \A u \in Threads \ {q} : NoneAsks(outbox'[u])
      BY <1>3, <1>4, <2>2
    <3>2. CASE t # q
      <4>1. outbox'[q] = outbox[q] /\ requests' = <<>>
        BY <1>3, <1>4, <2>2, <3>2
      <4>2. LastAsks(outbox[q], active)'
        BY <1>1, <2>2, <4>1 DEF LastAsks
      <4> QED BY <3>1, <4>1, <4>2 DEF AskedOnce, NoneAsks, LastAsks
    <3>3. CASE t = q /\ Head(outbox[t]) = [kind |-> "cast", cast |-> active] /\ Tail(outbox[t]) = <<>>
      <4>1. requests' = <<active>>
        BY <1>1, <2>2, <3>3
      <4>2. \A u \in Threads : NoneAsks(outbox'[u])
        BY <1>3, <3>1, <3>3, NothingAsks
      <4>3. requests' = <<active'>> /\ \A u \in Threads : NoneAsks(outbox[u])'
        BY <1>1, <4>1, <4>2 DEF NoneAsks
      <4> QED BY <4>3 DEF AskedOnce
    <3>4. CASE t = q /\ Head(outbox[t]).kind # "cast" /\ LastAsks(Tail(outbox[t]), active)
      <4>1. requests' = <<>> /\ LastAsks(outbox'[q], active')
        BY <1>1, <1>3, <2>2, <3>4
      <4> QED BY <3>1, <4>1 DEF AskedOnce, NoneAsks, LastAsks
    <3> QED BY <1>3, <2>2, <3>2, <3>3, <3>4, LastAsksTail
  <2> QED BY <1>6, <2>1, <2>2 DEF AskedOnce
<1>7. InFlight' = InFlight
  BY <1>1 DEF InFlight
<1> QED BY <1>1, <1>5, <1>6, <1>7 DEF Solo

\* A repeated cast is held, and a first one goes to the realm.
LEMMA CastSolo ==
    ASSUME RepeatsOneSpell, IInv, HeldInv, Solo, NEW s \in Spells, CastSpell(s)
    PROVE  Solo'
<1> DEFINE c        == asked + 1
           replaced == IF held \in pending THEN held ELSE NoCast
           dropped  == Abandoned(Evicted) \o Abandoned(replaced)
<1>1. /\ NewCast(c, s, "player") /\ UNCHANGED <<requests, casting>>
      /\ asked' = c /\ 1..asked' = (1..asked) \cup {c} /\ c # NoCast
  BY NewCastFacts DEF CastSpell, NewCast, realmVars
<1>2. Evicted = NoCast
  <2>1. IsFiniteSet({active, held}) /\ Cardinality({active, held}) <= 2
    <3>1. IsFiniteSet({active}) /\ Cardinality({active}) = 1
      BY FS_Singleton
    <3>2. IsFiniteSet({active} \cup {held})
          /\ (Cardinality({active} \cup {held}) = 1 \/ Cardinality({active} \cup {held}) = 1 + 1)
      BY <3>1, FS_AddElement
    <3>3. {active, held} = {active} \cup {held}
      OBVIOUS
    <3> QED BY <3>2, <3>3
  <2>2. pending \subseteq {active, held}
    BY DEF Solo
  <2>3. Cardinality(pending) \in Nat /\ Cardinality({active, held}) \in Nat
        /\ Cardinality(pending) <= Cardinality({active, held})
    BY <2>1, <2>2, FS_Subset, FS_CardinalityType
  <2>4. Cardinality(pending) < PendingLimit
    BY <2>1, <2>3, CastBounds DEF RepeatsOneSpell
  <2> QED BY <2>4, NoneEvicted
<1>3. pending \ {Evicted} = pending /\ (held # NoCast => replaced = held)
      /\ replaced \in 1..asked \cup {NoCast}
  <2>1. NoCast \notin pending
    BY SoloFacts DEF QueueShape
  <2> QED BY <1>2, <2>1, SoloFacts DEF QueueShape
<1>4. /\ pending' = (pending \ {replaced}) \cup {c}
      /\ Section("client", dropped \o When(~Holds(s), Packet("cast", c)))
  BY <1>3 DEF CastSpell
<1>5. Competes <=> active # NoCast
  BY <1>2 DEF Competes
<1>6. Holds(s) <=> active # NoCast
  BY <1>5, SoloFacts DEF Holds, ActiveSpell, RepeatsOneSpell
<1>7. retired' = NoSpell
  BY <1>5, <1>6, SoloFacts DEF CastSpell
<1>8. dropped \in Seq(Writes(1..asked')) /\ NoneAsks(dropped)
  <2> HIDE DEF replaced, c
  <2>1. Evicted \in 1..asked \cup {NoCast}
    BY <1>2
  <2>2. 1..asked' = (1..asked) \cup {c}
    BY <1>1
  <2>3. Abandoned(Evicted) \in Seq(Writes(1..asked')) /\ Abandoned(replaced) \in Seq(Writes(1..asked'))
    BY <1>3, <2>1, <2>2, AbandonedType
  <2>4. NoneAsks(Abandoned(Evicted)) /\ NoneAsks(Abandoned(replaced))
    BY <1>3, <2>1, AbandonedAsksNot
  <2> QED BY <2>3, <2>4, NoneAsksConcat
<1> HIDE DEF dropped
<1>9. /\ outbox["client"] = <<>> /\ outbox'["relay"] = outbox["relay"]
      /\ outbox'["client"] = dropped \o When(~Holds(s), Packet("cast", c))
      /\ \A u \in Threads : u = "client" \/ u = "relay"
      /\ "client" \in Threads /\ "relay" \in Threads
  BY <1>4, SoloFacts DEF Section, OutboxShape, Threads
<1>10. CASE active = NoCast
  <2>1. active' = c /\ attempt' = NewAttempt /\ held' = NoCast
    BY <1>6, <1>10 DEF CastSpell, SetActive
  <2>2. pending' = {c}
    BY <1>4, <1>10, SoloFacts
  <2>3. NothingAsked /\ casting = {}
    BY <1>10, SoloFacts DEF Solo, InFlight
  <2>4. LastAsks(outbox'["client"], c)
    <3>1. [kind |-> "cast", cast |-> c] \in Writes(1..asked')
      BY <1>1 DEF Writes, Requests
    <3> HIDE DEF c
    <3> QED BY <1>6, <1>8, <1>9, <1>10, <3>1, LastAsksConcat DEF When
  <2>5. requests' = <<>> /\ NoneAsks(outbox'["relay"])
    BY <1>1, <1>9, <2>3 DEF NothingAsked
  <2> HIDE DEF c
  <2>6. AskedOnce(active)'
    <3>1. LastAsks(outbox["client"], active)' /\ NoneAsks(outbox["relay"])'
      BY <2>1, <2>4, <2>5 DEF LastAsks, NoneAsks
    <3>2. \A u \in Threads \ {"client"} : u = "relay"
      BY <1>9
    <3> QED BY <1>9, <2>5, <3>1, <3>2 DEF AskedOnce
  <2>7. attempt'.inFlight /\ casting' = {}
    BY <1>1, <2>1, <2>3 DEF NewAttempt
  <2> QED BY <1>1, <1>7, <2>1, <2>2, <2>6, <2>7 DEF Solo, InFlight
<1>11. CASE active # NoCast
  <2>1. held' = c /\ UNCHANGED <<active, attempt>>
    BY <1>6, <1>11 DEF CastSpell
  <2>2. pending' \subseteq {active', held'}
    BY <1>3, <1>4, <2>1, SoloFacts DEF Solo, QueueShape
  <2> HIDE DEF c
  <2>3. outbox'["client"] = dropped
    BY <1>6, <1>8, <1>9, <1>11 DEF When
  <2>4. NoneAsks(outbox["client"])' /\ UNCHANGED requests
    BY <1>1, <1>8, <2>3 DEF NoneAsks
  <2>5. NoneAsks(outbox["relay"]) => NoneAsks(outbox["relay"])'
    BY <1>9 DEF NoneAsks
  <2>6. NothingAsked => NothingAsked'
    BY <1>9, <2>4, <2>5 DEF NothingAsked
  <2>7. ASSUME AskedOnce(active) PROVE AskedOnce(active)'
    <3>1. CASE requests = <<active>> /\ \A u \in Threads : NoneAsks(outbox[u])
      <4>1. requests' = <<active'>> /\ \A u \in Threads : NoneAsks(outbox[u])'
        BY <1>9, <2>1, <2>4, <2>5, <3>1
      <4> QED BY <4>1 DEF AskedOnce
    <3>2. ASSUME NEW q \in Threads, requests = <<>>, LastAsks(outbox[q], active) PROVE AskedOnce(active)'
      <4>1. q = "relay"
        BY <1>9, <3>2 DEF LastAsks
      <4>2. LastAsks(outbox["relay"], active)'
        BY <1>9, <2>1, <3>2, <4>1 DEF LastAsks
      <4>3. \A u \in Threads \ {"relay"} : NoneAsks(outbox[u])'
        BY <1>9, <2>4
      <4> QED BY <1>9, <2>4, <3>2, <4>2, <4>3 DEF AskedOnce
    <3> QED BY <2>7, <3>1, <3>2 DEF AskedOnce
  <2>8. InFlight' = InFlight
    BY <2>1 DEF InFlight
  <2> QED BY <1>1, <1>7, <1>11, <2>1, <2>2, <2>6, <2>7, <2>8 DEF Solo
<1> QED BY <1>10, <1>11

\* What answers the active cast: its verdict, or its PREPARE and its verdict.
LEMMA VerdictAsksNot ==
    ASSUME NEW S, NEW c \in S, c # NoCast, NEW kind \in {"go", "failed"}
    PROVE  /\ Binding(c) \o Packet(kind, c) \in Seq(Writes(S))
           /\ NoneAsks(Binding(c) \o Packet(kind, c))
<1>1. Binding(c) \in Seq(Writes(S)) /\ NoneAsks(Binding(c))
  BY BindingType, BindingAsksNot
<1>2. Packet(kind, c) \in Seq(Writes(S)) /\ NoneAsks(Packet(kind, c))
  BY NoRequest DEF Packet, Writes, Packets
<1> QED BY <1>1, <1>2, NoneAsksConcat

\* A GO of the active cast, which has no request left once the realm sent it.
LEMMA GoSolo ==
    ASSUME RepeatsOneSpell, IInv, HeldInv, Solo, active # NoCast, UNCHANGED castVars,
           SpellGo(answer[active], "player"), NoneAsks(outbox["client"]),
           requests' = <<>>, casting' = {}
    PROVE  Solo'
<1>1. GoMatch(answer[active], "player") = active
  BY SoloMatch
<1> DEFINE answers == Binding(active) \o Packet("go", active)
<1>2. /\ EndActive(pending \ {active}, answers) /\ pending' = pending \ {active}
      /\ UNCHANGED retired
  BY <1>1 DEF SpellGo, Consume
<1>3. answers \in Seq(Writes(1..asked)) /\ NoneAsks(answers)
  BY SoloFacts, VerdictAsksNot
<1> HIDE DEF answers
<1> QED BY <1>2, <1>3, EndSolo DEF castVars

\* A failure of the active cast ends it, or has its request written again, or
\* gives the retries up and leaves it to time.
LEMMA FailureSolo ==
    ASSUME RepeatsOneSpell, IInv, HeldInv, Solo, active # NoCast, UNCHANGED castVars, NEW reason,
           CastFailed(answer[active], reason), NoneAsks(outbox["client"]),
           requests' = <<>>, casting' = {},
           reason = "other" \/ (attempt.inFlight /\ ~Started(active))
    PROVE  Solo'
<1> DEFINE s == answer[active]
<1>1. FailureMatch(s) = active
  BY SoloMatch
<1>2. s \in Spells /\ retired = NoSpell /\ retired' = NoSpell
  BY SoloFacts DEF CastFailed
<1>3. ~DropsRetired(s, reason)
  BY <1>2, SpellRanks DEF DropsRetired
<1>4. ~SwallowFailure(s, reason)
  BY <1>1, <1>3, SoloFacts DEF SwallowFailure, ActiveNotReady, ActiveBegun
<1>5. ASSUME RetryCast(s, reason) PROVE Solo'
  <2>1. UNCHANGED <<pending, active, held>> /\ attempt \in Attempts /\ ~attempt.started
    BY <1>5, SoloFacts DEF RetryCast, ActiveNotReady, QueueShape
  <2>2. attempt'.started = attempt.started
    BY <1>5, <2>1 DEF RetryCast, Attempts
  <2>3. CASE /\ attempt' = [attempt EXCEPT !.inFlight = TRUE, !.settled = FALSE,
                                          !.retried = TRUE, !.fresh = TRUE]
             /\ Section("relay", Packet("cast", Retries))
    <3>1. attempt'.inFlight
      BY <2>1, <2>3 DEF Attempts
    <3>2. LastAsks(Packet("cast", active), active)
      <4>1. <<>> \in Seq(Writes(1..asked))
        BY NothingWritten
      <4>2. [kind |-> "cast", cast |-> active] \in Writes(1..asked)
        BY SoloFacts DEF Writes, Requests
      <4>3. LastAsks(<<>> \o Packet("cast", active), active)
        BY <4>1, <4>2, NothingAsks, LastAsksConcat
      <4>4. <<>> \o Packet("cast", active) = Packet("cast", active)
        BY DEF Packet
      <4> QED BY <4>3, <4>4
    <3>3. outbox'["relay"] = Packet("cast", active) /\ outbox'["client"] = outbox["client"]
      BY <2>3, SoloFacts DEF Section, OutboxShape, Threads, Retries
    <3>4. LastAsks(outbox["relay"], active)' /\ NoneAsks(outbox["client"])'
      BY <2>1, <3>2, <3>3 DEF LastAsks, NoneAsks
    <3>5. "relay" \in Threads /\ \A u \in Threads \ {"relay"} : u = "client"
      BY DEF Threads
    <3>6. AskedOnce(active)'
      BY <3>4, <3>5 DEF AskedOnce
    <3> QED BY <1>2, <2>1, <3>1, <3>6 DEF Solo, InFlight
  <2>4. CASE /\ attempt' = [attempt EXCEPT !.inFlight = FALSE, !.settled = TRUE,
                                          !.expired = TRUE]
             /\ Section("relay", <<>>)
    <3>1. ~attempt'.inFlight
      BY <2>1, <2>4 DEF Attempts
    <3>2. outbox'["relay"] = <<>> /\ outbox'["client"] = outbox["client"]
      BY <2>4, SoloFacts DEF Section, OutboxShape, Threads
    <3>3. NothingAsked'
      BY <3>2, NothingAsks DEF NothingAsked, NoneAsks, Threads
    <3> QED BY <1>2, <2>1, <3>1, <3>3 DEF Solo, InFlight
  <2> QED BY <1>5, <2>3, <2>4 DEF RetryCast
<1>6. ASSUME DeliverFailure(s, reason) PROVE Solo'
  <2> DEFINE answers == Binding(active) \o Packet("failed", active)
  <2>1. /\ EndActive(pending \ {active}, answers) /\ pending' = pending \ {active}
        /\ UNCHANGED retired
    BY <1>1, <1>2, <1>6, SoloFacts DEF DeliverFailure, Consume, When
  <2>2. answers \in Seq(Writes(1..asked)) /\ NoneAsks(answers)
    BY SoloFacts, VerdictAsksNot
  <2> HIDE DEF answers
  <2> QED BY <2>1, <2>2, EndSolo DEF castVars
<1> QED BY <1>4, <1>5, <1>6 DEF CastFailed

\* The START of the active cast: it is no longer on its way, and the realm has it.
LEMMA StartSolo ==
    ASSUME RepeatsOneSpell, IInv, HeldInv, Solo, InFlight, ~Started(active), UNCHANGED castVars,
           SpellStart(answer[active], "player"), NoneAsks(outbox["client"]),
           requests' = <<>>, casting' = {active}
    PROVE  Solo'
<1>1. active # NoCast /\ StartMatch(answer[active], "player") = active
  BY SoloMatch DEF InFlight
<1>2. /\ attempt' = [attempt EXCEPT !.started = TRUE, !.inFlight = FALSE, !.settled = TRUE]
      /\ Section("relay", Packet("prepare", active) \o Packet("start", active))
      /\ UNCHANGED <<pending, active, held, retired>>
  BY <1>1 DEF SpellStart
<1>3. attempt'.started /\ ~attempt'.inFlight
  BY <1>2, SoloFacts DEF QueueShape, Attempts
<1>4. NoneAsks(Packet("prepare", active) \o Packet("start", active))
  <2>1. Packet("prepare", active) \in Seq(Writes(1..asked)) /\ Packet("start", active) \in Seq(Writes(1..asked))
    BY <1>1, SoloFacts DEF Packet, Writes, Packets
  <2> QED BY <2>1, NoRequest, NoneAsksConcat
<1>5. /\ outbox'["relay"] = Packet("prepare", active) \o Packet("start", active)
      /\ outbox'["client"] = outbox["client"]
  BY <1>2, SoloFacts DEF Section, OutboxShape, Threads
<1>6. NothingAsked'
  BY <1>4, <1>5 DEF NothingAsked, NoneAsks, Threads
<1> QED BY <1>2, <1>3, <1>6 DEF Solo, InFlight

\* The realm's answers.
LEMMA AnswersSolo ==
    ASSUME RepeatsOneSpell, IInv, HeldInv, Solo, UNCHANGED castVars,
           RealmFails \/ RealmStarts \/ RealmFinishesAtOnce \/ RealmFinishes \/ RealmInterrupts
    PROVE  Solo'
<1>1. ASSUME requests # <<>>
      PROVE  /\ InFlight /\ active # NoCast /\ attempt.inFlight /\ ~Started(active)
             /\ Head(requests) = active /\ Tail(requests) = <<>> /\ casting = {}
             /\ NoneAsks(outbox["client"]) /\ owner[active] = "player"
  <2>1. InFlight /\ requests = <<active>> /\ casting = {} /\ NoneAsks(outbox["client"])
    BY <1>1 DEF Solo, NothingAsked, AskedOnce, Threads
  <2>2. Head(requests) = active /\ Tail(requests) = <<>>
    BY <2>1
  <2>3. active # NoCast /\ attempt.inFlight
    BY <2>1 DEF InFlight
  <2>4. ~Started(active) /\ owner[active] = "player"
    BY <2>3, SoloFacts
  <2> QED BY <2>1, <2>2, <2>3, <2>4
<1>2. ASSUME NEW c \in casting
      PROVE  /\ c = active /\ active # NoCast /\ ~InFlight /\ requests = <<>>
             /\ casting \ {c} = {} /\ NoneAsks(outbox["client"]) /\ owner[active] = "player"
  <2>1. ~InFlight /\ NothingAsked /\ casting \subseteq {active}
    BY <1>2 DEF Solo
  <2>2. active # NoCast
    BY <1>2, SoloFacts
  <2> QED BY <1>2, <2>1, <2>2, SoloFacts DEF NothingAsked, Threads
<1>3. ASSUME RealmFails PROVE Solo'
  <2>1. PICK reason \in {"notReady", "other"} : Fails(Head(requests), reason)
    BY <1>3 DEF RealmFails
  <2>2. requests # <<>> /\ requests' = Tail(requests) /\ UNCHANGED casting
    BY <1>3 DEF RealmFails
  <2>3. CastFailed(answer[active], reason)
    BY <1>1, <2>1, <2>2 DEF Fails
  <2> QED BY <1>1, <2>2, <2>3, FailureSolo
<1>4. ASSUME RealmStarts PROVE Solo'
  <2>1. /\ requests # <<>> /\ requests' = Tail(requests) /\ casting' = casting \cup {Head(requests)}
        /\ SpellStart(answer[Head(requests)], owner[Head(requests)])
    BY <1>4 DEF RealmStarts
  <2> QED BY <1>1, <2>1, StartSolo
<1>5. ASSUME RealmFinishesAtOnce PROVE Solo'
  <2>1. /\ requests # <<>> /\ requests' = Tail(requests) /\ UNCHANGED casting
        /\ SpellGo(answer[Head(requests)], owner[Head(requests)])
    BY <1>5 DEF RealmFinishesAtOnce
  <2> QED BY <1>1, <2>1, GoSolo
<1>6. ASSUME RealmFinishes PROVE Solo'
  <2>1. PICK c \in casting : \E caster \in {owner[c], CasterOf(c)} :
           SpellGo(answer[c], caster) /\ casting' = casting \ {c} /\ UNCHANGED requests
    BY <1>6 DEF RealmFinishes
  <2>2. owner[c] = "player" => CasterOf(c) = "player"
    BY DEF CasterOf
  <2> QED BY <1>2, <2>1, <2>2, GoSolo
<1>7. ASSUME RealmInterrupts PROVE Solo'
  <2>1. PICK c \in casting : Fails(c, "other") /\ casting' = casting \ {c} /\ UNCHANGED requests
    BY <1>7 DEF RealmInterrupts
  <2>2. CastFailed(answer[active], "other")
    BY <1>2, <2>1 DEF Fails
  <2> QED BY <1>2, <2>1, <2>2, FailureSolo
<1> QED BY <1>3, <1>4, <1>5, <1>6, <1>7

LEMMA NextSolo ==
    ASSUME RepeatsOneSpell, IInv, HeldInv, Solo, [Next]_vars
    PROVE  Solo'
<1>1. ASSUME ClientSection PROVE Solo'
  <2>1. \A s \in Spells : ~UseItem(s) /\ ~PetCastSpell(s) /\ ~CancelSpell(s)
    BY DEF UseItem, PetCastSpell, OtherCast, NewCast, CancelSpell, RepeatsOneSpell
  <2>2. (\A c \in Casts : ~CancelCast(c)) /\ ~ResetCharacter("client")
    BY DEF CancelCast, ResetCharacter, RepeatsOneSpell
  <2> QED BY <1>1, <2>1, <2>2, CastSolo DEF ClientSection
<1>2. ASSUME RelaySection PROVE Solo'
  <2>1. ~ResetCharacter("relay")
    BY DEF ResetCharacter, RepeatsOneSpell
  <2> QED BY <1>2, <2>1, AnswersSolo DEF RelaySection
<1>3. ASSUME UNCHANGED vars PROVE Solo'
  BY <1>3, SoloKept DEF vars, queueVars, realmVars
<1> QED BY <1>1, <1>2, <1>3, TimeSolo, WriteSolo DEF Next

\* A player who casts one spell again and again, and gives no cast up, has one
\* request for it at the realm at most: the repeat waits in the queue until the
\* relay has the answer to the request before it, and a retry is sent only for a
\* request the realm refused.  Other spells, items and pets can bring a second
\* one: a spell between two casts of another takes its place in the queue.
THEOREM OneRequestHeld == ASSUME RepeatsOneSpell PROVE Spec => []OneRequestPerSpell
<1>1. LowerRank = {}
  BY DEF RepeatsOneSpell
<1>2. Init => HeldInv /\ Solo
  <2> SUFFICES ASSUME Init PROVE HeldInv /\ Solo
    OBVIOUS
  <2>1. HeldInv
    BY CastBounds DEF Init, HeldInv, OwnSpell, BegunAtRealm, HeldBehindActive, HeldTracked
  <2>2. NothingAsked
    BY NothingAsks DEF Init, NothingAsked
  <2>3. Solo
    BY <2>2 DEF Init, Solo, InFlight
  <2> QED BY <2>1, <2>3
<1>3. IInv /\ [Next]_vars => [OthersFit]_vars
  <2>1. ASSUME NEW s \in Spells, NEW o, NewCast(asked + 1, s, o), IInv
        PROVE  OthersFit
    BY <2>1, NewCastFacts DEF NewCast, OthersFit, RepeatsOneSpell
  <2>2. IInv /\ ClientSection => OthersFit
    <3>1. ASSUME NEW s \in Spells PROVE ~UseItem(s) /\ ~PetCastSpell(s)
      BY DEF UseItem, PetCastSpell, OtherCast, NewCast, RepeatsOneSpell
    <3>2. ASSUME NEW s \in Spells, CastSpell(s) PROVE NewCast(asked + 1, s, "player")
      BY <3>2 DEF CastSpell
    <3>3. UNCHANGED asked => OthersFit
      BY DEF OthersFit
    <3>4. (\E c \in Casts : CancelCast(c)) \/ (\E s \in Spells : CancelSpell(s))
             \/ ResetCharacter("client") => UNCHANGED asked
      BY DEF CancelCast, CancelSpell, ResetCharacter, castVars
    <3> QED BY <2>1, <3>1, <3>2, <3>3, <3>4 DEF ClientSection
  <2>3. RelaySection \/ TimePasses \/ (\E t \in Threads : Write(t)) => UNCHANGED asked
    BY DEF RelaySection, ResetCharacter, TimePasses, Write, castVars
  <2> QED BY <2>2, <2>3 DEF Next, OthersFit
<1>4. IInv /\ HeldInv /\ Solo /\ [Next]_vars => HeldInv' /\ Solo'
  BY <1>1, <1>3, NextHeld, NextSolo
<1>5. IInv /\ Solo => OneRequestPerSpell
  <2> SUFFICES ASSUME IInv, Solo, NEW i \in 1..Len(requests), NEW j \in 1..Len(requests) PROVE i = j
    BY DEF OneRequestPerSpell
  <2>1. requests = <<>> \/ requests = <<active>>
    BY DEF Solo, NothingAsked, AskedOnce
  <2> QED BY <2>1
<1> QED BY <1>2, <1>4, <1>5, Inductive, PTL DEF Spec
=============================================================================
