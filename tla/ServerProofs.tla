---------------------------- MODULE ServerProofs ----------------------------
(* Proofs about the smaller parts in one server.                              *)
EXTENDS MCServer, PartyProofs, FiniteSetTheorems, FunctionTheorems, WellFoundedInduction,
        TLAPS

\* The variables of all parts; a step of the server is one of a part, or none of it.
allVars == <<focus, vars, loginVars, profileVars, nameVars, checkVars, rollVars,
             windowVars, screenVars, taxiVars, inventoryVars>>

-----------------------------------------------------------------------------
(* Numbers.                                                                  *)

\* A set of numbers has a least one; so what holds of 0 and of every successor holds of
\* all numbers.
LEMMA Least ==
    ASSUME NEW A, A \subseteq Nat, A # {}
    PROVE  \E m \in A : \A n \in A : m <= n
<1> DEFINE Less == {ss \in Nat \X Nat : ss[1] < ss[2]}
<1>1. OpToRel(<, Nat) = Less
    BY DEF OpToRel
<1>2. PICK m \in A : \A n \in A : ~ (<<n, m>> \in Less)
  <2> HIDE DEF Less
  <2> QED BY <1>1, NatLessThanWellFounded, WFMin
<1>3. ASSUME NEW n \in A PROVE m <= n
  <2>1. n \in Nat /\ m \in Nat /\ <<n, m>> \notin Less
      BY <1>2
  <2>2. n < m => <<n, m>> \in Less
      BY <2>1
  <2> QED BY ONLY <2>1, <2>2
<1> QED BY <1>3

LEMMA Inductive ==
    ASSUME NEW A, 0 \in A, \A n \in Nat : n \in A => n + 1 \in A
    PROVE  Nat \subseteq A
<1>1. SUFFICES ASSUME Nat \ A # {} PROVE FALSE
    OBVIOUS
<1>2. PICK m \in Nat \ A : \A n \in Nat \ A : m <= n
    BY <1>1, Least
<1>3. m # 0 /\ m - 1 \in Nat /\ m = (m - 1) + 1
    BY <1>2
<1>4. m - 1 \in A
    BY <1>2, <1>3
<1> QED BY <1>2, <1>3, <1>4

\* What is built step by step from a first value.
Builds(f, b, g) == f[0] = b /\ \A k \in Nat : f[k + 1] = g[<<k, f[k]>>]

LEMMA Built ==
    ASSUME NEW X, NEW b \in X, NEW g \in [Nat \X X -> X]
    PROVE  \E f \in [Nat -> X] : Builds(f, b, g)
<1> DEFINE Good(h, n) == /\ h \in [0..n -> X] /\ h[0] = b
                         /\ \A k \in 0..(n - 1) : h[k + 1] = g[<<k, h[k]>>]
           A == {n \in Nat : \E h \in [0..n -> X] : Good(h, n)}
<1>1. \A n \in Nat : \E h \in [0..n -> X] : Good(h, n)
  <2>1. 0 \in A
    <3>1. Good([k \in 0..0 |-> b], 0)
        OBVIOUS
    <3> QED BY <3>1
  <2>2. ASSUME NEW n \in Nat, n \in A
        PROVE  n + 1 \in A
    <3>1. PICK h \in [0..n -> X] : Good(h, n)
        BY <2>2
    <3> DEFINE u == [k \in 0..(n + 1) |-> IF k = n + 1 THEN g[<<n, h[n]>>] ELSE h[k]]
    <3>2. g[<<n, h[n]>>] \in X /\ <<n, h[n]>> \in Nat \X X
        BY <3>1
    <3>3. u \in [0..(n + 1) -> X] /\ \A k \in 0..n : u[k] = h[k]
        BY <3>1, <3>2
    <3>4. u[n + 1] = g[<<n, h[n]>>] /\ u[n] = h[n] /\ u[0] = h[0]
        BY <3>1
    <3> HIDE DEF u
    <3>5. ASSUME NEW k \in 0..n PROVE u[k + 1] = g[<<k, u[k]>>]
      <4>1. CASE k = n
          BY <4>1, <3>4
      <4>2. CASE k # n
        <5>1. k \in 0..(n - 1) /\ k + 1 \in 0..n
            BY <4>2
        <5> QED BY <5>1, <3>1, <3>3
      <4> QED BY <4>1, <4>2
    <3>6. Good(u, n + 1)
        BY <3>1, <3>3, <3>4, <3>5
    <3> QED BY <3>3, <3>6
  <2> HIDE DEF Good
  <2>3. Nat \subseteq A
    <3> HIDE DEF A
    <3> QED BY <2>1, <2>2, Inductive
  <2> QED BY <2>3
<1>2. ASSUME NEW n \in Nat, NEW m \in Nat, n <= m,
             NEW h, NEW i, Good(h, n), Good(i, m)
      PROVE  \A k \in 0..n : h[k] = i[k]
  <2> DEFINE B == {k \in Nat : k <= n => h[k] = i[k]}
  <2>1. 0 \in B
      BY <1>2
  <2>2. ASSUME NEW k \in Nat, k \in B PROVE k + 1 \in B
    <3>1. CASE k + 1 <= n
      <4>1. h[k] = i[k] /\ k \in 0..(n - 1) /\ k \in 0..(m - 1)
          BY <1>2, <2>2, <3>1
      <4>2. h[k + 1] = g[<<k, h[k]>>] /\ i[k + 1] = g[<<k, i[k]>>]
          BY <1>2, <4>1
      <4> QED BY <4>1, <4>2
    <3>2. CASE ~(k + 1 <= n)
        BY <3>2
    <3> QED BY <3>1, <3>2
  <2>3. Nat \subseteq B
    <3> HIDE DEF B
    <3> QED BY <2>1, <2>2, Inductive
  <2> QED BY <2>3
<1> DEFINE H(n) == CHOOSE h \in [0..n -> X] : Good(h, n)
           f == [n \in Nat |-> H(n)[n]]
<1>3. \A n \in Nat : H(n) \in [0..n -> X] /\ Good(H(n), n)
  <2> HIDE DEF Good
  <2> QED BY <1>1
<1> HIDE DEF H
<1>4. f \in [Nat -> X]
    BY <1>3
<1>5. f[0] = b
    BY <1>3
<1>6. ASSUME NEW k \in Nat PROVE f[k + 1] = g[<<k, f[k]>>]
  <2>1. H(k)[k] = H(k + 1)[k]
    <3> HIDE DEF Good
    <3>1. Good(H(k), k) /\ Good(H(k + 1), k + 1) /\ k + 1 \in Nat /\ k <= k + 1
        BY <1>3
    <3> QED BY <3>1, <1>2
  <2>2. Good(H(k + 1), k + 1)
      BY <1>3
  <2>3. H(k + 1)[k + 1] = g[<<k, H(k + 1)[k]>>]
      BY <2>2
  <2> QED BY <2>1, <2>3
<1>7. Builds(f, b, g)
    BY <1>5, <1>6 DEF Builds
<1> HIDE DEF f
<1> QED BY <1>4, <1>7

-----------------------------------------------------------------------------
(* Sequences.                                                                *)

\* What is appended to a sequence, what is joined to it, what is left of it.
LEMMA Appended ==
    ASSUME NEW X, NEW s \in Seq(X), NEW x \in X
    PROVE  /\ Append(s, x) \in Seq(X) /\ s \o <<x>> = Append(s, x) /\ Append(s, x) # <<>>
           /\ Len(s) \in Nat /\ DOMAIN s = 1..Len(s)
           /\ DOMAIN Append(s, x) = 1..(Len(s) + 1) /\ Append(s, x)[Len(s) + 1] = x
           /\ \A i \in DOMAIN s : /\ i \in 1..Len(s) /\ i \in DOMAIN Append(s, x)
                                  /\ Append(s, x)[i] = s[i]
           /\ \A i \in DOMAIN Append(s, x) :
                 \/ i \in DOMAIN s /\ Append(s, x)[i] = s[i]
                 \/ i = Len(s) + 1 /\ Append(s, x)[i] = x /\ \A j \in DOMAIN s : j < i
           /\ \A i \in DOMAIN s, j \in DOMAIN Append(s, x) : j < i => j \in DOMAIN s
OBVIOUS

LEMMA Joined ==
    ASSUME NEW X, NEW s \in Seq(X), NEW t \in Seq(X)
    PROVE  /\ s \o t \in Seq(X)
           /\ \A i \in DOMAIN (s \o t) :
                 /\ i \in DOMAIN s => (s \o t)[i] = s[i]
                 /\ i \notin DOMAIN s => /\ i - Len(s) \in DOMAIN t
                                         /\ (s \o t)[i] = t[i - Len(s)]
           /\ \A i \in DOMAIN (s \o t) : i \in DOMAIN s <=> i <= Len(s)
           /\ DOMAIN (s \o t) \subseteq Nat /\ Len(s) \in Nat
<1> DEFINE u == s \o t
<1>1. u \in Seq(X) /\ DOMAIN u = 1..(Len(s) + Len(t)) /\ DOMAIN s = 1..Len(s)
      /\ DOMAIN t = 1..Len(t) /\ Len(s) \in Nat /\ Len(t) \in Nat
    OBVIOUS
<1>2. ASSUME NEW i \in DOMAIN u
      PROVE  /\ i \in DOMAIN s => u[i] = s[i]
             /\ i \notin DOMAIN s => i - Len(s) \in DOMAIN t /\ u[i] = t[i - Len(s)]
    BY <1>1, <1>2
<1> QED BY <1>1, <1>2

LEMMA TailOf ==
    ASSUME NEW X, NEW s \in Seq(X), s # <<>>
    PROVE  /\ Tail(s) \in Seq(X) /\ Head(s) \in X /\ 1 \in DOMAIN s /\ s[1] = Head(s)
           /\ \A i \in DOMAIN Tail(s) : /\ i + 1 \in DOMAIN s /\ Tail(s)[i] = s[i + 1]
                                        /\ i \in Nat \ {0}
OBVIOUS

\* How many elements of a sequence are in a set.
PlacesOf(s, A) == {i \in DOMAIN s : s[i] \in A}
HowMany(s, A) == Cardinality(PlacesOf(s, A))

LEMMA HowManyFinite ==
    ASSUME NEW X, NEW s \in Seq(X), NEW A
    PROVE  IsFiniteSet(PlacesOf(s, A)) /\ HowMany(s, A) \in Nat
<1>1. DOMAIN s = 1..Len(s) /\ Len(s) \in Nat
    OBVIOUS
<1>2. IsFiniteSet(1..Len(s)) /\ PlacesOf(s, A) \subseteq 1..Len(s)
    BY <1>1, FS_Interval DEF PlacesOf
<1>3. IsFiniteSet(PlacesOf(s, A))
    BY <1>2, FS_Subset
<1> QED BY <1>3, FS_CardinalityType DEF HowMany

LEMMA HowManyAppend ==
    ASSUME NEW X, NEW s \in Seq(X), NEW x \in X, NEW A
    PROVE  /\ x \in A => HowMany(Append(s, x), A) = HowMany(s, A) + 1
           /\ x \notin A => HowMany(Append(s, x), A) = HowMany(s, A)
<1> DEFINE n == Len(s) + 1
           t == Append(s, x)
<1>1. /\ DOMAIN s = 1..Len(s) /\ Len(s) \in Nat
      /\ DOMAIN t = 1..n /\ t[n] = x /\ \A i \in 1..Len(s) : t[i] = s[i]
    OBVIOUS
<1> HIDE DEF t
<1>2. n \notin PlacesOf(s, A)
    BY <1>1 DEF PlacesOf
<1>3. x \in A => PlacesOf(t, A) = PlacesOf(s, A) \cup {n}
    BY <1>1 DEF PlacesOf
<1>4. x \notin A => PlacesOf(t, A) = PlacesOf(s, A)
    BY <1>1 DEF PlacesOf
<1>5. Cardinality(PlacesOf(s, A) \cup {n}) = Cardinality(PlacesOf(s, A)) + 1
    BY <1>2, HowManyFinite, FS_AddElement
<1> QED BY <1>3, <1>4, <1>5 DEF HowMany, t

LEMMA HowManyTail ==
    ASSUME NEW X, NEW s \in Seq(X), s # <<>>, NEW A
    PROVE  /\ Head(s) \in A => HowMany(s, A) = HowMany(Tail(s), A) + 1
           /\ Head(s) \notin A => HowMany(s, A) = HowMany(Tail(s), A)
<1> DEFINE t == Tail(s)
           later == PlacesOf(s, A) \ {1}
           f == [i \in PlacesOf(t, A) |-> i + 1]
<1>1. /\ DOMAIN s = 1..Len(s) /\ Len(s) \in Nat \ {0}
      /\ DOMAIN t = 1..(Len(s) - 1) /\ \A i \in 1..(Len(s) - 1) : t[i] = s[i + 1]
      /\ t \in Seq(X) /\ Head(s) = s[1]
    OBVIOUS
<1> HIDE DEF t
<1>2. f \in Bijection(PlacesOf(t, A), later)
  <2>1. f \in [PlacesOf(t, A) -> later]
      BY <1>1 DEF PlacesOf
  <2>2. \A i, j \in PlacesOf(t, A) : f[i] = f[j] => i = j
      BY <1>1 DEF PlacesOf
  <2>3. \A m \in later : m - 1 \in PlacesOf(t, A) /\ f[m - 1] = m
      BY <1>1 DEF PlacesOf
  <2> HIDE DEF f, later
  <2> QED BY <2>1, <2>2, <2>3, Fun_IsBij
<1>3. IsFiniteSet(PlacesOf(s, A)) /\ IsFiniteSet(later) /\ IsFiniteSet(PlacesOf(t, A))
    BY <1>1, HowManyFinite, FS_RemoveElement
<1>4. Cardinality(later) = HowMany(t, A)
    BY <1>2, <1>3, FS_Bijection DEF HowMany, ExistsBijection
<1>5. CASE Head(s) \in A
  <2>1. PlacesOf(s, A) = later \cup {1} /\ 1 \notin later
      BY <1>1, <1>5 DEF PlacesOf
  <2> QED BY <2>1, <1>3, <1>4, <1>5, FS_AddElement DEF HowMany, t
<1>6. CASE Head(s) \notin A
  <2>1. PlacesOf(s, A) = later
      BY <1>1, <1>6 DEF PlacesOf
  <2> QED BY <2>1, <1>4, <1>6 DEF HowMany, t
<1> QED BY <1>5, <1>6

LEMMA NoneOf ==
    ASSUME NEW X, NEW s \in Seq(X), NEW A, HowMany(s, A) = 0
    PROVE  \A i \in DOMAIN s : s[i] \notin A
<1>1. PlacesOf(s, A) = {}
    BY HowManyFinite, FS_EmptySet DEF HowMany
<1> QED BY <1>1 DEF PlacesOf


-----------------------------------------------------------------------------
(* The profile store.                                                        *)

LEMMA ProfileStep == [ServerNext]_allVars => [F!Next]_profileVars
BY DEF ServerNext, allVars, Rests

\* A file is one profile, written to its end; the one on the way to the disk is the latest.
WholeInv ==
    /\ file.whole /\ \A d \in disk : d.whole
    /\ saving \in Nat /\ saved \in Nat /\ saved <= saving
    /\ step \in {"written", "synced"} => temp = F!Whole(saving)
    /\ step = "renamed" => file = F!Whole(saving)
    /\ lost \/ (file.profile \in Nat /\ file.profile >= saved)

LEMMA WholeNext == WholeInv /\ [F!Next]_profileVars => WholeInv'
<1> SUFFICES ASSUME WholeInv, [F!Next]_profileVars PROVE WholeInv'
    OBVIOUS
<1>1. CASE F!CreateTemp \/ F!Write \/ F!Sync
    BY <1>1 DEF F!CreateTemp, F!Write, F!Sync, WholeInv, F!Whole
<1>2. CASE F!Rename \/ F!Return
    BY <1>2 DEF F!Rename, F!Return, WholeInv, F!Whole
<1>3. CASE F!Fail \/ F!Load \/ F!WriteBack
    BY <1>3 DEF F!Fail, F!Load, F!WriteBack, WholeInv, F!Whole
<1>4. CASE F!Crash \/ F!PowerLoss
    BY <1>4 DEF F!Crash, F!PowerLoss, WholeInv, F!Whole
<1>5. CASE UNCHANGED profileVars
    BY <1>5 DEF profileVars, WholeInv, F!Whole
<1> QED BY <1>1, <1>2, <1>3, <1>4, <1>5 DEF F!Next

\* Whatever saves fail and wherever the process or the machine stops: the file that is
\* read at the next start is a whole profile, and no older than the last that was saved
\* unless the machine lost power (ProfileStore's saves).
THEOREM ProfileKept == ServerSpec => []ProfileSurvives
<1>1. ServerInit => WholeInv
    BY DEF ServerInit, F!Init, WholeInv, F!Whole, F!Default
<1>2. WholeInv => ProfileSurvives
    BY DEF WholeInv, ProfileSurvives, F!ProfileSurvives
<1>3. WholeInv /\ [ServerNext]_allVars => WholeInv'
    BY ProfileStep, WholeNext
<1> QED BY <1>1, <1>2, <1>3, PTL DEF ServerSpec, allVars

-----------------------------------------------------------------------------
(* Whispers.                                                                 *)

\* Who has a name and held whispers got the name while they were held.
LearnedWhileHeld ==
    \A g \in Senders : g \in playerNames /\ pendingNamedChats[g] # <<>> => g \in learned

\* Held under a sender are whispers of his, the older ones first.
HeldOfSender ==
    \A g \in Senders : \A k \in DOMAIN pendingNamedChats[g] :
        /\ pendingNamedChats[g][k] \in DOMAIN whispers
        /\ whispers[pendingNamedChats[g][k]] = g

HeldAscend ==
    \A g \in Senders : \A k, l \in DOMAIN pendingNamedChats[g] :
        k < l => pendingNamedChats[g][k] < pendingNamedChats[g][l]

\* What is shown was sent, and before what is still held of the same sender.
ShownSent == \A i \in DOMAIN shown : shown[i] \in DOMAIN whispers

HeldAfterShown ==
    \A g \in Senders : \A i \in DOMAIN shown, k \in DOMAIN pendingNamedChats[g] :
        whispers[shown[i]] = g =>
           \/ shown[i] < pendingNamedChats[g][k]
           \/ g \in learned /\ shown[i] # pendingNamedChats[g][k]

WhisperInv ==
    /\ whispers \in Seq(Senders) /\ shown \in Seq(Nat) /\ queries \in Seq(Senders)
    /\ pendingNamedChats \in [Senders -> Seq(Nat)]
    /\ LearnedWhileHeld /\ HeldOfSender /\ HeldAscend /\ ShownSent /\ HeldAfterShown
    /\ N!WhispersInOrder

LEMMA NamesStep == [ServerNext]_allVars => [N!Next]_nameVars
BY DEF ServerNext, allVars, Rests

\* The parts of WhisperInv that a new whisper g does not touch stay true of the longer history.
LEMMA LongerHistory ==
    ASSUME NEW g \in Senders, WhisperInv, whispers' = Append(whispers, g)
    PROVE  /\ whispers' \in Seq(Senders)
           /\ \A n \in DOMAIN whispers : n \in DOMAIN whispers' /\ whispers'[n] = whispers[n]
                                         /\ n \in Nat /\ n <= Len(whispers)
           /\ Len(whispers) + 1 \in DOMAIN whispers' /\ whispers'[Len(whispers) + 1] = g
           /\ Len(whispers) \in Nat
BY Appended, SMT DEF WhisperInv

LEMMA WhisperShown ==
    ASSUME NEW g \in Senders, WhisperInv, N!Whisper(g), g \in playerNames
    PROVE  WhisperInv'
<1> DEFINE n == Len(whispers) + 1
           more == Append(shown, n)
<1>1. /\ whispers' = Append(whispers, g)
      /\ UNCHANGED <<playerNames, queries, pendingNamedChats, learned>>
    BY Zenon DEF N!Whisper, N!heldVars, N!nameVars
<1>2. whispers' \in Seq(Senders) /\ n \in DOMAIN whispers' /\ whispers'[n] = g
    BY <1>1, LongerHistory
<1>3. \A m \in DOMAIN whispers : m \in DOMAIN whispers' /\ whispers'[m] = whispers[m]
                                 /\ m \in Nat /\ m < n
    BY <1>1, LongerHistory
<1>4. Len(whispers') = n /\ n \in Nat
    BY <1>1, LongerHistory, SMT DEF WhisperInv
<1>5. shown' = more
    BY <1>4 DEF N!Whisper
<1>6. /\ more \in Seq(Nat)
      /\ \A i \in DOMAIN more : i \in Nat
      /\ \A i \in DOMAIN more :
            \/ i \in DOMAIN shown /\ more[i] = shown[i]
            \/ i = Len(shown) + 1 /\ more[i] = n
      /\ \A i \in DOMAIN shown : i < Len(shown) + 1
      /\ Len(shown) \in Nat
    BY <1>4, Appended, SMT DEF WhisperInv
<1> HIDE DEF n, more
<1>7. \A k \in DOMAIN pendingNamedChats[g] : g \in learned /\ pendingNamedChats[g][k] < n
    BY <1>3 DEF WhisperInv, LearnedWhileHeld, HeldOfSender
<1>8. LearnedWhileHeld' /\ HeldAscend'
    BY <1>1 DEF WhisperInv, LearnedWhileHeld, HeldAscend
<1>9. HeldOfSender'
    BY <1>1, <1>3 DEF WhisperInv, HeldOfSender
<1>10. ShownSent'
    BY <1>2, <1>3, <1>5, <1>6 DEF WhisperInv, ShownSent
<1>11. HeldAfterShown'
  <2> SUFFICES ASSUME NEW h \in Senders, NEW i \in DOMAIN more,
                      NEW k \in DOMAIN pendingNamedChats[h], whispers'[more[i]] = h
               PROVE  \/ more[i] < pendingNamedChats[h][k]
                      \/ h \in learned /\ more[i] # pendingNamedChats[h][k]
      BY <1>1, <1>5 DEF HeldAfterShown
  <2>1. CASE i \in DOMAIN shown /\ more[i] = shown[i]
      BY <2>1, <1>3 DEF WhisperInv, ShownSent, HeldAfterShown
  <2>2. CASE more[i] = n
      BY <2>2, <1>2, <1>3, <1>4, <1>7 DEF WhisperInv, HeldOfSender
  <2> QED BY <2>1, <2>2, <1>6
<1>12. N!WhispersInOrder'
  <2> SUFFICES ASSUME NEW i \in DOMAIN more, NEW j \in DOMAIN more, i < j,
                      whispers'[more[i]] = whispers'[more[j]]
               PROVE  \/ more[i] < more[j]
                      \/ more[i] # more[j] /\ whispers'[more[i]] \in learned
      BY <1>1, <1>5 DEF N!WhispersInOrder
  <2>1. i \in DOMAIN shown /\ more[i] = shown[i]
      BY <1>6
  <2>3. more[i] < n
      BY <2>1, <1>3 DEF WhisperInv, ShownSent
  <2>2. CASE j \in DOMAIN shown /\ more[j] = shown[j]
      BY <2>1, <2>2, <1>3 DEF WhisperInv, ShownSent, N!WhispersInOrder
  <2> QED BY <2>1, <2>2, <2>3, <1>6
<1> QED BY <1>1, <1>2, <1>5, <1>6, <1>8, <1>9, <1>10, <1>11, <1>12 DEF WhisperInv

LEMMA WhisperHeld ==
    ASSUME NEW g \in Senders, WhisperInv, N!Whisper(g), g \notin playerNames
    PROVE  WhisperInv'
<1> DEFINE n == Len(whispers) + 1
           old == pendingNamedChats[g]
           more == Append(old, n)
<1>1. /\ whispers' = Append(whispers, g)
      /\ UNCHANGED <<playerNames, shown, learned>>
    BY Zenon DEF N!Whisper, N!heldVars, N!nameVars
<1>2. whispers' \in Seq(Senders) /\ n \in DOMAIN whispers' /\ whispers'[n] = g
    BY <1>1, LongerHistory
<1>3. \A m \in DOMAIN whispers : m \in DOMAIN whispers' /\ whispers'[m] = whispers[m]
                                 /\ m \in Nat /\ m < n
    BY <1>1, LongerHistory
<1>4. Len(whispers') = n /\ n \in Nat
    BY <1>1, LongerHistory, SMT DEF WhisperInv
<1>5. queries' \in Seq(Senders)
  <2>1. N!QueuePlayerNameQuery(g)
      BY DEF N!Whisper, N!QueueNamedChat
  <2>2. queries \in Seq(Senders) /\ Append(queries, g) \in Seq(Senders)
      BY Appended DEF WhisperInv
  <2> QED BY <2>1, <2>2 DEF N!QueuePlayerNameQuery
<1>6. \/ pendingNamedChats' = pendingNamedChats
      \/ pendingNamedChats' = [pendingNamedChats EXCEPT ![g] = more]
    BY <1>4 DEF N!Whisper, N!QueueNamedChat
<1>7. /\ old \in Seq(Nat) /\ more \in Seq(Nat)
      /\ \A k \in DOMAIN more : k \in Nat
      /\ \A k \in DOMAIN more :
            \/ k \in DOMAIN old /\ more[k] = old[k]
            \/ k = Len(old) + 1 /\ more[k] = n
      /\ \A k \in DOMAIN old : k < Len(old) + 1
    BY <1>4, Appended, SMT DEF WhisperInv
<1>8. ShownSent' /\ N!WhispersInOrder'
    BY <1>1, <1>3 DEF WhisperInv, ShownSent, N!WhispersInOrder
<1>9. CASE pendingNamedChats' = pendingNamedChats
  <2>1. LearnedWhileHeld' /\ HeldAscend'
      BY <1>1, <1>9 DEF WhisperInv, LearnedWhileHeld, HeldAscend
  <2> HIDE DEF n, old, more
  <2>2. HeldOfSender'
      BY <1>3, <1>9 DEF WhisperInv, HeldOfSender
  <2>3. HeldAfterShown'
      BY <1>1, <1>3, <1>9 DEF WhisperInv, HeldAfterShown, ShownSent
  <2> QED BY <2>1, <2>2, <2>3, <1>1, <1>2, <1>5, <1>8, <1>9 DEF WhisperInv
<1>10. CASE pendingNamedChats' = [pendingNamedChats EXCEPT ![g] = more]
  <2> HIDE DEF n, more
  <2>1. /\ pendingNamedChats' \in [Senders -> Seq(Nat)]
        /\ pendingNamedChats'[g] = more
        /\ \A h \in Senders : h # g => pendingNamedChats'[h] = pendingNamedChats[h]
      BY <1>7, <1>10 DEF WhisperInv
  <2>2. LearnedWhileHeld'
      BY <1>1, <2>1 DEF WhisperInv, LearnedWhileHeld
  <2>3. HeldOfSender'
    <3> SUFFICES ASSUME NEW h \in Senders, NEW k \in DOMAIN pendingNamedChats'[h]
                 PROVE  /\ pendingNamedChats'[h][k] \in DOMAIN whispers'
                        /\ whispers'[pendingNamedChats'[h][k]] = h
        BY DEF HeldOfSender
    <3>1. CASE h = g
      <4>1. k \in DOMAIN more /\ pendingNamedChats'[h][k] = more[k]
          BY <3>1, <2>1
      <4>2. CASE k \in DOMAIN old /\ more[k] = old[k]
          BY <3>1, <4>1, <4>2, <1>3 DEF WhisperInv, HeldOfSender
      <4> QED BY <3>1, <4>1, <4>2, <1>2, <1>7
    <3>2. CASE h # g
        BY <3>2, <2>1, <1>3 DEF WhisperInv, HeldOfSender
    <3> QED BY <3>1, <3>2
  <2>4. \A k \in DOMAIN old : old[k] < n /\ old[k] \in Nat
      BY <1>3 DEF WhisperInv, HeldOfSender
  <2>5. HeldAscend'
    <3> SUFFICES ASSUME NEW h \in Senders, NEW k \in DOMAIN pendingNamedChats'[h],
                        NEW l \in DOMAIN pendingNamedChats'[h], k < l
                 PROVE  pendingNamedChats'[h][k] < pendingNamedChats'[h][l]
        BY DEF HeldAscend
    <3>1. CASE h = g
      <4>1. k \in DOMAIN old /\ more[k] = old[k]
          BY <3>1, <2>1, <1>7
      <4>2. CASE l \in DOMAIN old /\ more[l] = old[l]
          BY <3>1, <2>1, <4>1, <4>2 DEF WhisperInv, HeldAscend
      <4> QED BY <3>1, <2>1, <4>1, <4>2, <1>7, <2>4
    <3>2. CASE h # g
        BY <3>2, <2>1 DEF WhisperInv, HeldAscend
    <3> QED BY <3>1, <3>2
  <2>6. HeldAfterShown'
    <3> SUFFICES ASSUME NEW h \in Senders, NEW i \in DOMAIN shown,
                        NEW k \in DOMAIN pendingNamedChats'[h], whispers'[shown[i]] = h
                 PROVE  \/ shown[i] < pendingNamedChats'[h][k]
                        \/ h \in learned /\ shown[i] # pendingNamedChats'[h][k]
        BY <1>1 DEF HeldAfterShown
    <3>1. whispers[shown[i]] = h /\ shown[i] < n
        BY <1>3 DEF WhisperInv, ShownSent
    <3>2. CASE h = g
      <4>1. k \in DOMAIN more /\ pendingNamedChats'[h][k] = more[k]
          BY <3>2, <2>1
      <4>2. CASE k \in DOMAIN old /\ more[k] = old[k]
          BY <3>1, <3>2, <4>1, <4>2 DEF WhisperInv, HeldAfterShown
      <4> QED BY <3>1, <4>1, <4>2, <1>7
    <3>3. CASE h # g
        BY <3>1, <3>3, <2>1 DEF WhisperInv, HeldAfterShown
    <3> QED BY <3>2, <3>3
  <2> QED BY <2>1, <2>2, <2>3, <2>5, <2>6, <1>1, <1>2, <1>5, <1>8 DEF WhisperInv
<1> QED BY <1>6, <1>9, <1>10

LEMMA AnswerShows ==
    ASSUME NEW found \in BOOLEAN, WhisperInv, N!NameQueryResponse(found)
    PROVE  WhisperInv'
<1> DEFINE g == Head(queries)
           old == pendingNamedChats[g]
           more == shown \o old
<1>1. /\ g \in Senders /\ queries' \in Seq(Senders)
      /\ UNCHANGED <<whispers, learned>>
    BY SMT DEF N!NameQueryResponse, WhisperInv
<1>2. /\ playerNames' \subseteq playerNames \cup {g}
      /\ pendingNamedChats' = [pendingNamedChats EXCEPT ![g] = <<>>]
      /\ shown' = more
    BY DEF N!NameQueryResponse, N!TakeNamedChats
<1> HIDE DEF g
<1>3. old \in Seq(Nat) /\ shown \in Seq(Nat)
    BY <1>1 DEF WhisperInv
<1>4. /\ more \in Seq(Nat)
      /\ \A i \in DOMAIN more :
            /\ i \in DOMAIN shown => more[i] = shown[i]
            /\ i \notin DOMAIN shown => /\ i - Len(shown) \in DOMAIN old
                                        /\ more[i] = old[i - Len(shown)]
      /\ \A i \in DOMAIN more : i \in DOMAIN shown <=> i <= Len(shown)
      /\ DOMAIN more \subseteq Nat /\ Len(shown) \in Nat
    BY <1>3, Joined
<1> HIDE DEF more
<1>5. /\ pendingNamedChats' \in [Senders -> Seq(Nat)]
      /\ pendingNamedChats'[g] = <<>>
      /\ \A h \in Senders : h # g => pendingNamedChats'[h] = pendingNamedChats[h]
    BY <1>1, <1>2 DEF WhisperInv
<1>6. LearnedWhileHeld'
    BY <1>1, <1>2, <1>5 DEF WhisperInv, LearnedWhileHeld
<1>7. \A h \in Senders : \A k \in DOMAIN pendingNamedChats'[h] :
          h # g /\ k \in DOMAIN pendingNamedChats[h]
    BY <1>5
<1>8. HeldOfSender' /\ HeldAscend'
    BY <1>1, <1>5, <1>7 DEF WhisperInv, HeldOfSender, HeldAscend
<1>9. ShownSent'
    BY <1>1, <1>2, <1>4 DEF WhisperInv, ShownSent, HeldOfSender
<1>10. HeldAfterShown'
  <2> SUFFICES ASSUME NEW h \in Senders, NEW i \in DOMAIN more,
                      NEW k \in DOMAIN pendingNamedChats'[h], whispers[more[i]] = h
               PROVE  \/ more[i] < pendingNamedChats'[h][k]
                      \/ h \in learned /\ more[i] # pendingNamedChats'[h][k]
      BY <1>1, <1>2 DEF HeldAfterShown
  <2>1. h # g /\ k \in DOMAIN pendingNamedChats[h]
        /\ pendingNamedChats'[h] = pendingNamedChats[h]
      BY <1>5, <1>7
  <2>2. i \in DOMAIN shown /\ more[i] = shown[i]
      BY <2>1, <1>1, <1>4 DEF WhisperInv, HeldOfSender
  <2> QED BY <2>1, <2>2 DEF WhisperInv, HeldAfterShown
<1>11. N!WhispersInOrder'
  <2> SUFFICES ASSUME NEW i \in DOMAIN more, NEW j \in DOMAIN more, i < j,
                      whispers[more[i]] = whispers[more[j]]
               PROVE  \/ more[i] < more[j]
                      \/ more[i] # more[j] /\ whispers[more[i]] \in learned
      BY <1>1, <1>2 DEF N!WhispersInOrder
  <2>1. CASE i \in DOMAIN shown /\ j \in DOMAIN shown
    <3>1. more[i] = shown[i] /\ more[j] = shown[j]
        BY <2>1, <1>4
    <3> QED BY <2>1, <3>1 DEF WhisperInv, N!WhispersInOrder
  <2>2. CASE i \in DOMAIN shown /\ j \notin DOMAIN shown
    <3>1. more[i] = shown[i]
        BY <2>2, <1>4
    <3>2. j - Len(shown) \in DOMAIN old /\ more[j] = old[j - Len(shown)]
        BY <2>2, <1>4
    <3>3. whispers[shown[i]] = g
        BY <3>1, <3>2, <1>1 DEF WhisperInv, HeldOfSender
    <3> QED BY <2>2, <3>1, <3>2, <3>3, <1>1 DEF WhisperInv, HeldAfterShown
  <2>3. CASE i \notin DOMAIN shown
    <3>1. j \notin DOMAIN shown
        BY <2>3, <1>4
    <3>2. i - Len(shown) \in DOMAIN old /\ more[i] = old[i - Len(shown)]
        BY <2>3, <1>4
    <3>3. j - Len(shown) \in DOMAIN old /\ more[j] = old[j - Len(shown)]
        BY <3>1, <1>4
    <3>4. i - Len(shown) < j - Len(shown)
        BY <1>4
    <3> QED BY <3>2, <3>3, <3>4, <1>1 DEF WhisperInv, HeldAscend
  <2> QED BY <2>1, <2>2, <2>3
<1> QED BY <1>1, <1>2, <1>4, <1>5, <1>6, <1>8, <1>9, <1>10, <1>11 DEF WhisperInv

LEMMA NamesCome ==
    ASSUME NEW g \in Senders, WhisperInv,
           N!GroupList(g) \/ N!QueryPlayerNames(g) \/ N!InvalidatePlayer(g)
    PROVE  WhisperInv'
<1>1. /\ UNCHANGED <<whispers, shown, pendingNamedChats>>
      /\ queries' \in Seq(Senders)
      /\ learned \subseteq learned'
      /\ \A h \in Senders : h \in playerNames' /\ pendingNamedChats[h] # <<>> => h \in learned'
  <2>1. CASE N!GroupList(g)
    <3>1. queries' \in Seq(Senders)
        BY <2>1, SMT DEF N!GroupList, N!QueuePlayerNameQuery, WhisperInv
    <3> QED BY <3>1, <2>1 DEF N!GroupList, WhisperInv, LearnedWhileHeld
  <2>2. CASE N!QueryPlayerNames(g)
    <3>1. queries' \in Seq(Senders)
        BY <2>2, SMT DEF N!QueryPlayerNames, WhisperInv
    <3> QED BY <3>1, <2>2 DEF N!QueryPlayerNames, N!nameVars, N!historyVars, WhisperInv,
                              LearnedWhileHeld
  <2>3. CASE N!InvalidatePlayer(g)
      BY <2>3 DEF N!InvalidatePlayer, N!heldVars, N!historyVars, WhisperInv,
         LearnedWhileHeld
  <2> QED BY <2>1, <2>2, <2>3
<1>2. LearnedWhileHeld' /\ HeldOfSender' /\ HeldAscend' /\ ShownSent'
    BY <1>1 DEF WhisperInv, LearnedWhileHeld, HeldOfSender, HeldAscend, ShownSent
<1>3. HeldAfterShown' /\ N!WhispersInOrder'
    BY <1>1 DEF WhisperInv, HeldAfterShown, N!WhispersInOrder
<1> QED BY <1>1, <1>2, <1>3 DEF WhisperInv

LEMMA LogoutDrops ==
    ASSUME WhisperInv, N!LogoutComplete
    PROVE  WhisperInv'
<1>1. /\ UNCHANGED <<playerNames, queries, whispers, shown, learned>>
      /\ pendingNamedChats' = [g \in Senders |-> <<>>]
    BY DEF N!LogoutComplete
<1>2. /\ pendingNamedChats' \in [Senders -> Seq(Nat)]
      /\ \A g \in Senders : pendingNamedChats'[g] = <<>> /\ DOMAIN pendingNamedChats'[g] = {}
    BY <1>1
<1>3. LearnedWhileHeld' /\ HeldOfSender' /\ HeldAscend' /\ HeldAfterShown'
    BY <1>2 DEF LearnedWhileHeld, HeldOfSender, HeldAscend, HeldAfterShown
<1> QED BY <1>1, <1>2, <1>3 DEF WhisperInv, ShownSent, N!WhispersInOrder

LEMMA WhisperNext == WhisperInv /\ [N!Next]_nameVars => WhisperInv'
<1> SUFFICES ASSUME WhisperInv, [N!Next]_nameVars PROVE WhisperInv'
    OBVIOUS
<1>1. CASE \E g \in Senders : N!Whisper(g)
    BY <1>1, WhisperShown, WhisperHeld
<1>2. CASE \E g \in Senders :
              N!GroupList(g) \/ N!QueryPlayerNames(g) \/ N!InvalidatePlayer(g)
    BY <1>2, NamesCome
<1>3. CASE \E found \in BOOLEAN : N!NameQueryResponse(found)
    BY <1>3, AnswerShows
<1>4. CASE N!LogoutComplete
    BY <1>4, LogoutDrops
<1>5. CASE UNCHANGED nameVars
    BY <1>5 DEF nameVars, WhisperInv, LearnedWhileHeld, HeldOfSender, HeldAscend,
                ShownSent, HeldAfterShown, N!WhispersInOrder
<1> QED BY <1>1, <1>2, <1>3, <1>4, <1>5 DEF N!Next

\* Any number of senders and of whispers, whatever queue length: the client is shown each
\* whisper once at most and those of one sender in his order, unless his name came by a
\* group's list while some were held (queueNamedChatLocked, takeNamedChatsLocked).
THEOREM WhispersKeepOrder == ServerSpec => []WhispersInOrder
<1>1. ServerInit => WhisperInv
  <2> SUFFICES ASSUME ServerInit PROVE WhisperInv
      OBVIOUS
  <2>1. /\ whispers = <<>> /\ shown = <<>> /\ queries = <<>>
        /\ pendingNamedChats = [g \in Senders |-> <<>>]
      BY DEF ServerInit, N!Init
  <2>2. \A g \in Senders : pendingNamedChats[g] = <<>> /\ DOMAIN pendingNamedChats[g] = {}
      BY <2>1
  <2>3. DOMAIN shown = {} /\ pendingNamedChats \in [Senders -> Seq(Nat)]
      BY <2>1
  <2>4. LearnedWhileHeld /\ HeldOfSender /\ HeldAscend /\ HeldAfterShown
      BY <2>2 DEF LearnedWhileHeld, HeldOfSender, HeldAscend, HeldAfterShown
  <2> QED BY <2>1, <2>3, <2>4 DEF WhisperInv, ShownSent, N!WhispersInOrder
<1>2. WhisperInv => WhispersInOrder
    BY DEF WhisperInv, WhispersInOrder
<1>3. WhisperInv /\ [ServerNext]_allVars => WhisperInv'
    BY NamesStep, WhisperNext
<1> QED BY <1>1, <1>2, <1>3, PTL DEF ServerSpec, allVars

-----------------------------------------------------------------------------
(* The loot window.                                                          *)

\* Requests to loot and the answers that end them, and how many are on their way.
Loots == {r \in W!RequestTypes : r.kind = "loot"}
Replies == {p \in W!PacketTypes : p.kind \in {"response", "failure"}}
InboxLoots == HowMany(inbox, Loots)
RequestLoots == HowMany(requests, Loots)
PacketReplies == HowMany(packets, Replies)
\* The handler has sent no request to loot that the relay has no answer to.
Settled == RequestLoots = 0 /\ PacketReplies = 0
\* A gift the client made while it waited for no corpse.
Surely(r) == r.kind = "give" /\ ~r.crossed

WindowTypes ==
    /\ inbox \in Seq(W!RequestTypes) /\ requests \in Seq(W!RequestTypes)
    /\ packets \in Seq(W!PacketTypes)
    /\ lootWindow \in W!CorpseOrNone /\ looting \in W!CorpseOrNone
    /\ lootLegacyGUID \in W!CorpseOrNone

GiftsUncrossed ==
    \A i \in DOMAIN inbox : Surely(inbox[i]) =>
        Settled /\ \A j \in DOMAIN inbox : j < i => inbox[j] \notin Loots

\* The client waits for as many corpses as are asked for and not answered; the session's
\* object and corpse differ only in between.
GiftInv ==
    /\ WindowTypes
    /\ opening = InboxLoots + RequestLoots + PacketReplies
    /\ Settled => lootObjModern \in {NoCorpse, lootLegacyGUID}
    /\ GiftsUncrossed
    /\ misgiven = FALSE

LEMMA WindowStep == [ServerNext]_allVars => [W!Next]_windowVars
BY DEF ServerNext, allVars, Rests

LEMMA Counts ==
    ASSUME WindowTypes
    PROVE  InboxLoots \in Nat /\ RequestLoots \in Nat /\ PacketReplies \in Nat
BY HowManyFinite DEF WindowTypes, InboxLoots, RequestLoots, PacketReplies

\* The client sends a request.
LEMMA SendsKeeps ==
    ASSUME GiftInv, NEW r \in W!RequestTypes, W!Sends(r),
           lootWindow' \in W!CorpseOrNone,
           r \in Loots => opening' = opening + 1,
           r \notin Loots => opening' = opening,
           Surely(r) => opening = 0
    PROVE  GiftInv'
<1>1. /\ inbox' = Append(inbox, r)
      /\ UNCHANGED <<requests, packets, looting, lootLegacyGUID, lootObjModern, misgiven>>
    BY DEF W!Sends, W!realmVars, W!lootVars
<1>2. inbox \in Seq(W!RequestTypes) /\ inbox' \in Seq(W!RequestTypes)
    BY <1>1, Appended DEF GiftInv, WindowTypes
<1>3. WindowTypes'
    BY <1>1, <1>2 DEF GiftInv, WindowTypes
<1>4. UNCHANGED <<RequestLoots, PacketReplies, Settled>>
    BY <1>1 DEF RequestLoots, PacketReplies, Settled, HowMany, PlacesOf, Loots, Replies
<1>5. /\ r \in Loots => InboxLoots' = InboxLoots + 1
      /\ r \notin Loots => InboxLoots' = InboxLoots
  <2>1. InboxLoots' = HowMany(inbox', Loots)
      BY DEF InboxLoots, HowMany, PlacesOf, Loots
  <2> QED BY <2>1, <1>1, <1>2, HowManyAppend DEF InboxLoots
<1>6. opening' = InboxLoots' + RequestLoots' + PacketReplies'
    BY <1>4, <1>5, Counts DEF GiftInv
<1>7. GiftsUncrossed'
  <2> SUFFICES ASSUME NEW i \in DOMAIN inbox', Surely(inbox'[i])
               PROVE  Settled /\ \A j \in DOMAIN inbox' : j < i => inbox'[j] \notin Loots
      BY <1>4 DEF GiftsUncrossed, Surely, Loots
  <2>1. \A j \in DOMAIN inbox' : \/ j \in DOMAIN inbox /\ inbox'[j] = inbox[j]
                                 \/ inbox'[j] = r /\ \A k \in DOMAIN inbox : k < j
      BY <1>1, <1>2, Appended
  <2>2. CASE i \in DOMAIN inbox /\ inbox'[i] = inbox[i]
    <3>1. \A j \in DOMAIN inbox' : j < i => j \in DOMAIN inbox /\ inbox'[j] = inbox[j]
        BY <1>1, <1>2, <2>2, Appended
    <3> QED BY <2>2, <3>1 DEF GiftInv, GiftsUncrossed
  <2>3. CASE inbox'[i] = r
    <3>1. InboxLoots = 0 /\ Settled
        BY <2>3, Counts DEF GiftInv, Settled
    <3>2. \A j \in DOMAIN inbox : inbox[j] \notin Loots
        BY <3>1, <1>2, NoneOf DEF InboxLoots
    <3>3. r \notin Loots
        BY <2>3 DEF Surely, Loots
    <3> QED BY <2>1, <3>1, <3>2, <3>3
  <2> QED BY <2>1, <2>2, <2>3
<1> QED BY <1>1, <1>3, <1>4, <1>6, <1>7 DEF GiftInv

LEMMA ClientKeeps ==
    ASSUME GiftInv,
           \/ \E c \in Corpses : W!Open(c)
           \/ W!Close \/ W!Give
    PROVE  GiftInv'
<1>1. ASSUME NEW c \in Corpses, W!Open(c) PROVE GiftInv'
  <2>1. /\ W!Request("loot", c) \in W!RequestTypes /\ W!Request("loot", c) \in Loots
        /\ ~Surely(W!Request("loot", c))
      BY DEF W!Request, W!RequestTypes, Loots, Surely
  <2>2. W!Sends(W!Request("loot", c)) /\ opening' = opening + 1 /\ lootWindow' = lootWindow
      BY <1>1 DEF W!Open
  <2> QED BY <2>1, <2>2, SendsKeeps DEF GiftInv, WindowTypes
<1>2. CASE W!Close
  <2>1. lootWindow \in Corpses
      BY <1>2 DEF W!Close, GiftInv, WindowTypes, W!CorpseOrNone
  <2>2. /\ W!Request("release", lootWindow) \in W!RequestTypes
        /\ W!Request("release", lootWindow) \notin Loots
        /\ ~Surely(W!Request("release", lootWindow))
      BY <2>1 DEF W!Request, W!RequestTypes, Loots, Surely
  <2>3. W!Sends(W!Request("release", lootWindow)) /\ opening' = opening /\ lootWindow' = NoCorpse
      BY <1>2 DEF W!Close
  <2>4. NoCorpse \in W!CorpseOrNone
      BY DEF W!CorpseOrNone
  <2> QED BY <2>2, <2>3, <2>4, SendsKeeps
<1>3. CASE W!Give
  <2>1. lootWindow \in Corpses
      BY <1>3 DEF W!Give, GiftInv, WindowTypes, W!CorpseOrNone
  <2>2. opening \in Nat
      BY Counts DEF GiftInv
  <2>3. /\ W!Request("give", lootWindow) \in W!RequestTypes
        /\ W!Request("give", lootWindow) \notin Loots
        /\ Surely(W!Request("give", lootWindow)) => opening = 0
    <3> DEFINE crossed == "give" = "give" /\ opening > 0
    <3>1. crossed \in BOOLEAN /\ (~crossed => opening = 0)
        BY <2>2
    <3>2. W!Request("give", lootWindow) =
              [kind |-> "give", corpse |-> lootWindow, crossed |-> crossed]
        BY DEF W!Request
    <3> HIDE DEF crossed
    <3> QED BY <2>1, <3>1, <3>2 DEF W!RequestTypes, Loots, Surely
  <2>4. W!Sends(W!Request("give", lootWindow)) /\ opening' = opening /\ lootWindow' = lootWindow
      BY <1>3 DEF W!Give, W!clientVars
  <2> QED BY <2>3, <2>4, SendsKeeps DEF GiftInv, WindowTypes
<1> QED BY <1>1, <1>2, <1>3

\* The handler takes a request from the inbox.
LEMMA TakenKeeps ==
    ASSUME GiftInv, inbox # <<>>, inbox' = Tail(inbox), WindowTypes',
           UNCHANGED <<opening, packets>>, misgiven' = FALSE,
           \/ /\ Head(inbox) \notin Loots /\ RequestLoots' = RequestLoots
              /\ UNCHANGED <<lootLegacyGUID, lootObjModern>>
           \/ Head(inbox) \in Loots /\ RequestLoots' = RequestLoots + 1
    PROVE  GiftInv'
<1>1. inbox \in Seq(W!RequestTypes) /\ 1 \in DOMAIN inbox /\ Head(inbox) = inbox[1]
      /\ Head(inbox) \in W!RequestTypes
    BY TailOf DEF GiftInv, WindowTypes
<1>2. PacketReplies' = PacketReplies
    BY DEF PacketReplies, HowMany, PlacesOf, Replies
<1>3. /\ InboxLoots \in Nat /\ RequestLoots \in Nat /\ PacketReplies \in Nat
      /\ InboxLoots' \in Nat /\ RequestLoots' \in Nat
  <2>1. HowMany(inbox', Loots) \in Nat
      BY <1>1, TailOf, HowManyFinite
  <2>2. InboxLoots' \in Nat
      BY <2>1 DEF InboxLoots, HowMany, PlacesOf, Loots
  <2> QED BY <2>2, Counts DEF GiftInv
<1>4. /\ Head(inbox) \in Loots => InboxLoots = InboxLoots' + 1
      /\ Head(inbox) \notin Loots => InboxLoots = InboxLoots'
  <2>1. InboxLoots' = HowMany(Tail(inbox), Loots)
      BY DEF InboxLoots, HowMany, PlacesOf, Loots
  <2> QED BY <2>1, <1>1, HowManyTail DEF InboxLoots
<1>5. opening' = InboxLoots' + RequestLoots' + PacketReplies'
  <2>1. InboxLoots' + RequestLoots' = InboxLoots + RequestLoots
    <3>1. CASE Head(inbox) \in Loots
      <4>1. RequestLoots' = RequestLoots + 1 /\ InboxLoots = InboxLoots' + 1
          BY <3>1, <1>4
      <4> QED BY <4>1, <1>3
    <3>2. CASE Head(inbox) \notin Loots
      <4>1. RequestLoots' = RequestLoots /\ InboxLoots = InboxLoots'
          BY <3>2, <1>4
      <4> QED BY <4>1, <1>3
    <3> QED BY <3>1, <3>2
  <2>2. opening' = opening /\ opening = InboxLoots + RequestLoots + PacketReplies
      BY DEF GiftInv
  <2> QED BY <1>2, <2>1, <2>2
<1>6. (Settled => lootObjModern \in {NoCorpse, lootLegacyGUID})'
    BY <1>2, <1>3 DEF GiftInv, Settled
<1>7. GiftsUncrossed'
  <2> SUFFICES ASSUME NEW i \in DOMAIN inbox', Surely(inbox'[i])
               PROVE  Settled' /\ \A j \in DOMAIN inbox' : j < i => inbox'[j] \notin Loots
      BY DEF GiftsUncrossed, Surely, Loots
  <2>1. \A j \in DOMAIN inbox' : /\ j + 1 \in DOMAIN inbox /\ inbox'[j] = inbox[j + 1]
                                 /\ j \in Nat \ {0}
      BY <1>1, TailOf
  <2>2. Settled /\ \A j \in DOMAIN inbox : j < i + 1 => inbox[j] \notin Loots
      BY <2>1 DEF GiftInv, GiftsUncrossed
  <2>3. Head(inbox) \notin Loots
      BY <1>1, <2>1, <2>2
  <2> QED BY <1>2, <2>1, <2>2, <2>3 DEF Settled
<1> QED BY <1>5, <1>6, <1>7 DEF GiftInv

LEMMA ForwardsOne ==
    ASSUME GiftInv, NEW r \in W!RequestTypes, requests' = Append(requests, r)
    PROVE  /\ r \in Loots => RequestLoots' = RequestLoots + 1
           /\ r \notin Loots => RequestLoots' = RequestLoots
<1>1. RequestLoots' = HowMany(Append(requests, r), Loots)
    BY DEF RequestLoots, HowMany, PlacesOf, Loots
<1> QED BY <1>1, HowManyAppend DEF RequestLoots, GiftInv, WindowTypes

LEMMA HandlerKeeps ==
    ASSUME GiftInv, W!Constants, W!LootUnit \/ W!LootRelease \/ W!MasterLootItem
    PROVE  GiftInv'
<1> DEFINE r == Head(inbox)
           of == [Head(inbox) EXCEPT !.corpse = lootLegacyGUID]
<1>1. inbox # <<>> /\ inbox' = Tail(inbox)
    BY DEF W!LootUnit, W!LootRelease, W!MasterLootItem, W!Forward, W!Drop
<1>2. /\ r \in W!RequestTypes /\ r = inbox[1] /\ 1 \in DOMAIN inbox
      /\ inbox' \in Seq(W!RequestTypes)
    BY <1>1, TailOf DEF GiftInv, WindowTypes
<1>3. UNCHANGED <<opening, packets, lootWindow, looting>>
    BY DEF W!LootUnit, W!LootRelease, W!MasterLootItem, W!Forward, W!Drop, W!clientVars,
           W!realmVars
<1>4. \A q \in W!RequestTypes : requests' = Append(requests, q)
          => requests' \in Seq(W!RequestTypes)
    BY Appended DEF GiftInv, WindowTypes
<1>5. requests' = requests => RequestLoots' = RequestLoots
    BY DEF RequestLoots, HowMany, PlacesOf, Loots
<1> HIDE DEF r, of
<1>6. CASE W!LootUnit
  <2>1. /\ r.kind = "loot" /\ requests' = Append(requests, r)
        /\ lootLegacyGUID' = r.corpse /\ misgiven' = misgiven
      BY <1>6 DEF W!LootUnit, W!Forward, r
  <2>2. r \in Loots /\ r.corpse \in W!CorpseOrNone
      BY <1>2, <2>1 DEF Loots, W!RequestTypes, W!CorpseOrNone
  <2>3. WindowTypes'
      BY <1>2, <1>3, <1>4, <2>1, <2>2 DEF GiftInv, WindowTypes
  <2> QED BY <1>1, <1>2, <1>3, <2>1, <2>2, <2>3, ForwardsOne, TakenKeeps DEF GiftInv, r
<1>7. ASSUME r.kind # "loot", UNCHANGED <<lootLegacyGUID, lootObjModern>>, misgiven' = FALSE,
             requests' = requests \/ (requests' = Append(requests, of) /\ lootLegacyGUID # NoCorpse)
      PROVE  GiftInv'
  <2>1. r \notin Loots
      BY <1>7 DEF Loots
  <2>2. lootLegacyGUID # NoCorpse => of \in W!RequestTypes /\ of \notin Loots
      BY <1>2, <1>7 DEF GiftInv, WindowTypes, W!CorpseOrNone, W!RequestTypes, Loots, of, r
  <2>3. RequestLoots' = RequestLoots
      BY <1>5, <1>7, <2>2, ForwardsOne
  <2>4. WindowTypes'
      BY <1>2, <1>3, <1>4, <1>7, <2>2 DEF GiftInv, WindowTypes
  <2> QED BY <1>1, <1>3, <1>7, <2>1, <2>3, <2>4, TakenKeeps DEF r
<1>8. CASE W!LootRelease
    BY <1>7, <1>8 DEF W!LootRelease, W!Forward, W!Drop, W!lootVars, GiftInv, r, of
<1>9. CASE W!MasterLootItem
  <2>1. r.kind = "give" /\ UNCHANGED <<lootLegacyGUID, lootObjModern>>
      BY <1>9 DEF W!MasterLootItem, W!Drop, W!lootVars, r
  <2>2. \/ requests' = requests /\ misgiven' = misgiven
        \/ /\ lootLegacyGUID # NoCorpse /\ requests' = Append(requests, of)
           /\ r.corpse = lootObjModern
           /\ misgiven' = (misgiven \/ (~r.crossed /\ r.corpse # lootLegacyGUID))
      BY <1>9 DEF W!MasterLootItem, W!Gives, W!Forward, W!Drop, r, of
  <2>3. ~r.crossed => Settled
      BY <1>2, <2>1 DEF GiftInv, GiftsUncrossed, Surely
  <2>4. r.corpse # NoCorpse
      BY <1>2 DEF W!RequestTypes, W!Constants
  <2>5. ~r.crossed /\ r.corpse = lootObjModern => r.corpse = lootLegacyGUID
      BY <2>3, <2>4 DEF GiftInv
  <2>6. misgiven' = FALSE
      BY <2>2, <2>5 DEF GiftInv
  <2> QED BY <1>7, <2>1, <2>2, <2>6
<1> QED BY <1>6, <1>8, <1>9

\* Packets come: p is what was on its way, q what is.
Longer(p, q, n) ==
    /\ q \in Seq(W!PacketTypes)
    /\ HowMany(q, Replies) = HowMany(p, Replies) + n

LEMMA OneMore ==
    ASSUME NEW p \in Seq(W!PacketTypes), NEW k, NEW c \in W!CorpseOrNone
    PROVE  /\ k \in {"list", "release", "notice", "world"} => Longer(p, p \o <<W!Packet(k, c)>>, 0)
           /\ k \in {"response", "failure"} => Longer(p, p \o <<W!Packet(k, c)>>, 1)
<1> DEFINE x == W!Packet(k, c)
           q == p \o <<x>>
<1>1. q = Append(p, x)
    OBVIOUS
<1>2. HowMany(p, Replies) \in Nat
    BY HowManyFinite
<1>3. CASE k \in {"list", "release", "notice", "world"}
  <2>1. x \in W!PacketTypes /\ x \notin Replies
      BY <1>3 DEF W!Packet, W!PacketTypes, Replies
  <2> HIDE DEF x
  <2>2. Append(p, x) \in Seq(W!PacketTypes)
      BY <2>1, Appended
  <2>3. HowMany(Append(p, x), Replies) = HowMany(p, Replies)
      BY <2>1, HowManyAppend
  <2> HIDE DEF q
  <2>4. Longer(p, q, 0)
      BY <2>2, <2>3, <1>1, <1>2 DEF Longer
  <2> QED BY <2>4, <1>3 DEF q, x
<1>4. CASE k \in {"response", "failure"}
  <2>1. x \in W!PacketTypes /\ x \in Replies
      BY <1>4 DEF W!Packet, W!PacketTypes, Replies
  <2> HIDE DEF x
  <2>2. Append(p, x) \in Seq(W!PacketTypes)
      BY <2>1, Appended
  <2>3. HowMany(Append(p, x), Replies) = HowMany(p, Replies) + 1
      BY <2>1, HowManyAppend
  <2> HIDE DEF q
  <2>4. Longer(p, q, 1)
      BY <2>2, <2>3, <1>1, <1>2 DEF Longer
  <2> QED BY <2>4, <1>4 DEF q, x
<1> QED BY <1>3, <1>4

LEMMA LongerTwice ==
    ASSUME NEW p \in Seq(W!PacketTypes), NEW q, NEW t, NEW m \in Nat, NEW n \in Nat,
           Longer(p, q, m), Longer(q, t, n)
    PROVE  Longer(p, t, m + n)
<1>1. HowMany(p, Replies) \in Nat
    BY HowManyFinite
<1> QED BY <1>1 DEF Longer

LEMMA TwoMore ==
    ASSUME NEW p \in Seq(W!PacketTypes), NEW c \in W!CorpseOrNone
    PROVE  /\ Longer(p, p \o <<W!Packet("list", c), W!Packet("response", c)>>, 1)
           /\ Longer(p, p \o <<W!Packet("response", c), W!Packet("list", c)>>, 1)
<1> DEFINE l == W!Packet("list", c)
           r == W!Packet("response", c)
           pl == p \o <<l>>
           pr == p \o <<r>>
           plr == pl \o <<r>>
           prl == pr \o <<l>>
<1>1. p \o <<l, r>> = plr /\ p \o <<r, l>> = prl
    OBVIOUS
<1>2. Longer(p, pl, 0) /\ Longer(p, pr, 1)
    BY OneMore
<1>3. pl \in Seq(W!PacketTypes) /\ pr \in Seq(W!PacketTypes)
    BY <1>2 DEF Longer
<1>4. Longer(pl, plr, 1) /\ Longer(pr, prl, 0)
    BY <1>3, OneMore
<1> HIDE DEF l, r, pl, pr, plr, prl
<1>5. Longer(p, plr, 0 + 1) /\ Longer(p, prl, 1 + 0)
    BY <1>2, <1>4, LongerTwice
<1>6. Longer(p, plr, 1) /\ Longer(p, prl, 1)
    BY <1>5
<1>7. Longer(p, p \o <<l, r>>, 1) /\ Longer(p, p \o <<r, l>>, 1)
    BY <1>1, <1>6
<1> QED BY <1>7 DEF l, r

LEMMA ClosingMore ==
    ASSUME NEW p \in Seq(W!PacketTypes), looting \in W!CorpseOrNone
    PROVE  Longer(p, p \o W!Closing, 0)
<1>1. HowMany(p, Replies) \in Nat
    BY HowManyFinite
<1>2. CASE looting = NoCorpse
  <2>1. p \o W!Closing = p
      BY <1>2 DEF W!Closing
  <2> QED BY <2>1, <1>1 DEF Longer
<1>3. CASE looting # NoCorpse
  <2>1. W!Closing = <<W!Packet("release", looting)>>
      BY <1>3 DEF W!Closing
  <2> QED BY <2>1, OneMore
<1> QED BY <1>2, <1>3

\* The realm takes a request, if it does, and sends packets.
LEMMA RealmKeepsInv ==
    ASSUME GiftInv, NEW n \in {0, 1}, Longer(packets, packets', n),
           looting' \in W!CorpseOrNone,
           UNCHANGED <<opening, lootWindow, inbox, lootLegacyGUID, lootObjModern, misgiven>>,
           \/ n = 0 /\ requests' = requests
           \/ n = 0 /\ requests # <<>> /\ Head(requests).kind # "loot" /\ requests' = Tail(requests)
           \/ n = 1 /\ requests # <<>> /\ Head(requests).kind = "loot" /\ requests' = Tail(requests)
    PROVE  GiftInv'
<1>1. requests \in Seq(W!RequestTypes)
    BY DEF GiftInv, WindowTypes
<1>2. WindowTypes'
  <2>1. requests' \in Seq(W!RequestTypes)
      BY <1>1, TailOf
  <2> QED BY <2>1 DEF GiftInv, WindowTypes, Longer
<1>3. InboxLoots' = InboxLoots /\ PacketReplies' = PacketReplies + n
    BY DEF InboxLoots, PacketReplies, Longer, HowMany, PlacesOf, Loots, Replies
<1>4. /\ InboxLoots \in Nat /\ RequestLoots \in Nat /\ PacketReplies \in Nat
      /\ RequestLoots' \in Nat
  <2>1. HowMany(requests', Loots) \in Nat
      BY <1>2, HowManyFinite DEF WindowTypes
  <2>2. RequestLoots' \in Nat
      BY <2>1 DEF RequestLoots, HowMany, PlacesOf, Loots
  <2> QED BY <2>2, Counts DEF GiftInv
<1>5. RequestLoots' = HowMany(requests', Loots)
    BY DEF RequestLoots, HowMany, PlacesOf, Loots
<1>6. requests # <<>> /\ requests' = Tail(requests) =>
          /\ Head(requests).kind = "loot" => RequestLoots = RequestLoots' + 1
          /\ Head(requests).kind # "loot" => RequestLoots = RequestLoots'
  <2> SUFFICES ASSUME requests # <<>>, requests' = Tail(requests)
               PROVE  /\ Head(requests).kind = "loot" => RequestLoots = RequestLoots' + 1
                      /\ Head(requests).kind # "loot" => RequestLoots = RequestLoots'
      OBVIOUS
  <2>1. Head(requests) \in W!RequestTypes
      BY <1>1, TailOf
  <2>2. Head(requests) \in Loots <=> Head(requests).kind = "loot"
      BY <2>1 DEF Loots
  <2> QED BY <2>2, <1>1, <1>5, HowManyTail DEF RequestLoots
<1>7. \/ n = 0 /\ RequestLoots' = RequestLoots /\ PacketReplies' = PacketReplies
      \/ n = 1 /\ RequestLoots = RequestLoots' + 1 /\ PacketReplies' = PacketReplies + 1
  <2>1. CASE n = 0
    <3>1. PacketReplies' = PacketReplies
        BY <1>3, <1>4, <2>1
    <3>2. RequestLoots' = RequestLoots
        BY <1>5, <1>6, <2>1 DEF RequestLoots
    <3> QED BY <2>1, <3>1, <3>2
  <2>2. CASE n = 1
    <3>1. PacketReplies' = PacketReplies + 1
        BY <1>3, <2>2
    <3>2. RequestLoots = RequestLoots' + 1
        BY <1>6, <2>2
    <3> QED BY <2>2, <3>1, <3>2
  <2> QED BY <2>1, <2>2
<1>8. /\ opening' = InboxLoots' + RequestLoots' + PacketReplies'
      /\ \/ n = 0 /\ Settled' = Settled
         \/ ~Settled /\ ~Settled'
  <2>1. opening' = opening /\ opening = InboxLoots + RequestLoots + PacketReplies
      BY DEF GiftInv
  <2>2. CASE n = 0
    <3>1. RequestLoots' = RequestLoots /\ PacketReplies' = PacketReplies
        BY <1>7, <2>2
    <3> QED BY <3>1, <2>1, <2>2, <1>3 DEF Settled
  <2>3. CASE n = 1
    <3>1. PICK rest, more : rest = RequestLoots' /\ more = PacketReplies'
        OBVIOUS
    <3>2. /\ RequestLoots = rest + 1 /\ more = PacketReplies + 1 /\ rest \in Nat
          /\ InboxLoots \in Nat /\ PacketReplies \in Nat
        BY <1>4, <1>7, <2>3, <3>1
    <3>3. /\ RequestLoots # 0 /\ more # 0
          /\ InboxLoots + RequestLoots + PacketReplies = InboxLoots + rest + more
        BY <3>2
    <3> QED BY <2>1, <3>1, <3>3, <1>3 DEF Settled
  <2> QED BY <2>2, <2>3
<1>9. GiftsUncrossed'
    BY <1>8 DEF GiftInv, GiftsUncrossed, Surely, Loots
<1> QED BY <1>2, <1>8, <1>9 DEF GiftInv

LEMMA RealmSends ==
    ASSUME GiftInv,
           \/ W!RealmLoots \/ W!RealmReleases \/ W!RealmGives \/ W!RealmCloses \/ W!RealmMoves
           \/ \E c \in Corpses : W!RealmNotices(c)
    PROVE  GiftInv'
<1>1. packets \in Seq(W!PacketTypes) /\ looting \in W!CorpseOrNone /\ NoCorpse \in W!CorpseOrNone
    BY DEF GiftInv, WindowTypes, W!CorpseOrNone
<1>2. UNCHANGED <<opening, lootWindow, inbox, lootLegacyGUID, lootObjModern, misgiven>>
    BY DEF W!RealmLoots, W!RealmReleases, W!RealmGives, W!RealmCloses, W!RealmMoves,
           W!RealmNotices, W!clientVars, W!lootVars
<1> DEFINE closed == packets \o W!Closing
<1>3. closed \in Seq(W!PacketTypes) /\ Longer(packets, closed, 0)
    BY <1>1, ClosingMore DEF Longer
<1>4. HowMany(packets, Replies) \in Nat
    BY <1>1, HowManyFinite
<1>5. \A q, n : Longer(closed, q, n) => Longer(packets, q, n)
    BY <1>3, <1>4 DEF Longer
<1> HIDE DEF closed
<1>6. CASE W!RealmLoots
  <2>1. /\ requests # <<>> /\ Head(requests).kind = "loot" /\ requests' = Tail(requests)
      BY <1>6 DEF W!RealmLoots
  <2>5. Head(requests) \in W!RequestTypes
      BY <2>1, TailOf DEF GiftInv, WindowTypes
  <2>2. Head(requests).corpse \in Corpses
      BY <2>5 DEF W!RequestTypes
  <2>3. Head(requests).corpse \in W!CorpseOrNone
      BY <2>2 DEF W!CorpseOrNone
  <2>4. \E c \in {Head(requests).corpse} :
           \/ /\ looting' = c
              /\ \/ packets' = closed \o <<W!Packet("list", c), W!Packet("response", c)>>
                 \/ packets' = closed \o <<W!Packet("response", c), W!Packet("list", c)>>
           \/ looting' = NoCorpse /\ packets' = closed \o <<W!Packet("failure", c)>>
      BY <1>6 DEF W!RealmLoots, closed
  <2>6. Longer(closed, packets', 1) /\ looting' \in W!CorpseOrNone
      BY <1>1, <1>3, <2>3, <2>4, OneMore, TwoMore
  <2> QED BY <1>2, <1>5, <2>1, <2>6, RealmKeepsInv
<1>7. CASE W!RealmReleases
  <2>1. /\ requests # <<>> /\ Head(requests).kind = "release" /\ requests' = Tail(requests)
        /\ packets' \in {closed, packets} /\ looting' \in {NoCorpse, looting}
      BY <1>7 DEF W!RealmReleases, closed
  <2>2. Longer(packets, packets', 0)
      BY <1>1, <1>3, <1>4, <2>1 DEF Longer
  <2> QED BY <1>1, <1>2, <2>1, <2>2, RealmKeepsInv
<1>8. CASE W!RealmGives
  <2>1. /\ requests # <<>> /\ Head(requests).kind = "give" /\ requests' = Tail(requests)
        /\ packets' = packets /\ looting' = looting
      BY <1>8 DEF W!RealmGives, W!realmVars
  <2>2. Longer(packets, packets', 0)
      BY <1>1, <1>4, <2>1 DEF Longer
  <2> QED BY <1>1, <1>2, <2>1, <2>2, RealmKeepsInv
<1>9. CASE W!RealmCloses
    BY <1>1, <1>2, <1>3, <1>9, RealmKeepsInv DEF W!RealmCloses, closed
<1>10. CASE W!RealmMoves
  <2>1. /\ packets' = closed \o <<W!Packet("world", NoCorpse)>>
        /\ requests' = requests /\ looting' = NoCorpse
      BY <1>10 DEF W!RealmMoves, closed
  <2>2. Longer(packets, packets', 0)
      BY <1>1, <1>3, <1>5, <2>1, OneMore
  <2> QED BY <1>1, <1>2, <2>1, <2>2, RealmKeepsInv
<1>11. CASE \E c \in Corpses : W!RealmNotices(c)
  <2>1. PICK c \in Corpses : W!RealmNotices(c)
      BY <1>11
  <2>2. /\ packets' = Append(packets, W!Packet("notice", c))
        /\ requests' = requests /\ looting' = looting
      BY <2>1 DEF W!RealmNotices
  <2>3. packets' = packets \o <<W!Packet("notice", c)>> /\ c \in W!CorpseOrNone
      BY <1>1, <2>2 DEF W!CorpseOrNone
  <2>4. Longer(packets, packets', 0)
      BY <1>1, <2>3, OneMore
  <2> QED BY <1>1, <1>2, <2>2, <2>4, RealmKeepsInv
<1> QED BY <1>6, <1>7, <1>8, <1>9, <1>10, <1>11

\* The relay takes a packet.
LEMMA RelayTakes ==
    ASSUME GiftInv, packets # <<>>, packets' = Tail(packets), WindowTypes',
           UNCHANGED <<inbox, requests, misgiven>>,
           \/ /\ Head(packets).kind \in {"response", "failure"} /\ opening' = opening - 1
              /\ lootObjModern' = lootLegacyGUID'
           \/ /\ Head(packets).kind \notin {"response", "failure"} /\ opening' = opening
              /\ \/ lootObjModern' \in {NoCorpse, lootLegacyGUID'}
                 \/ UNCHANGED <<lootLegacyGUID, lootObjModern>>
    PROVE  GiftInv'
<1>1. /\ packets \in Seq(W!PacketTypes) /\ Head(packets) \in W!PacketTypes
      /\ Tail(packets) \in Seq(W!PacketTypes)
    BY TailOf DEF GiftInv, WindowTypes
<1>2. /\ InboxLoots' = InboxLoots /\ RequestLoots' = RequestLoots
      /\ PacketReplies' = HowMany(Tail(packets), Replies)
    BY DEF InboxLoots, RequestLoots, PacketReplies, HowMany, PlacesOf, Loots, Replies
<1>3. PICK rest : rest = HowMany(Tail(packets), Replies)
    OBVIOUS
<1>4. /\ InboxLoots \in Nat /\ RequestLoots \in Nat /\ PacketReplies \in Nat /\ rest \in Nat
      /\ opening = InboxLoots + RequestLoots + PacketReplies
    BY <1>1, <1>3, Counts, HowManyFinite DEF GiftInv
<1>5. Head(packets) \in Replies <=> Head(packets).kind \in {"response", "failure"}
    BY <1>1 DEF Replies
<1>6. /\ Head(packets) \in Replies => PacketReplies = rest + 1
      /\ Head(packets) \notin Replies => PacketReplies = rest
    BY <1>1, <1>3, HowManyTail DEF PacketReplies
<1>7. opening' = InboxLoots + RequestLoots + rest
  <2>1. CASE Head(packets) \in Replies
    <3>1. PacketReplies = rest + 1 /\ opening' = opening - 1
        BY <1>5, <1>6, <2>1
    <3> QED BY <3>1, <1>4
  <2>2. CASE Head(packets) \notin Replies
    <3>1. PacketReplies = rest /\ opening' = opening
        BY <1>5, <1>6, <2>2
    <3> QED BY <3>1, <1>4
  <2> QED BY <2>1, <2>2
<1>8. /\ Settled => Settled' /\ Head(packets) \notin Replies
      /\ Settled' /\ Head(packets) \notin Replies => Settled
  <2>1. PacketReplies = 0 => rest = 0 /\ Head(packets) \notin Replies
      BY <1>4, <1>6
  <2> QED BY <2>1, <1>2, <1>3, <1>6 DEF Settled
<1>9. (Settled => lootObjModern \in {NoCorpse, lootLegacyGUID})'
    BY <1>5, <1>8 DEF GiftInv
<1>10. GiftsUncrossed'
    BY <1>8 DEF GiftInv, GiftsUncrossed, Surely, Loots
<1> QED BY <1>2, <1>3, <1>7, <1>9, <1>10 DEF GiftInv

LEMMA RelayKeeps ==
    ASSUME GiftInv,
           \/ W!MasterList \/ W!LootResponse \/ W!LootFailure \/ W!LootList \/ W!LootReleased
           \/ W!NewWorld
    PROVE  GiftInv'
<1>1. /\ packets # <<>> /\ packets' = Tail(packets) /\ UNCHANGED <<inbox, requests, misgiven>>
      /\ looting' = looting
    BY DEF W!MasterList, W!LootResponse, W!LootFailure, W!LootList, W!LootReleased,
       W!NewWorld,
           W!Arrives, W!realmVars, W!clientVars
<1>2. Tail(packets) \in Seq(W!PacketTypes) /\ W!Corpse \in W!CorpseOrNone
  <2>1. Tail(packets) \in Seq(W!PacketTypes) /\ Head(packets) \in W!PacketTypes
      BY <1>1, TailOf DEF GiftInv, WindowTypes
  <2> QED BY <2>1 DEF W!Corpse, W!PacketTypes
<1>3. NoCorpse \in W!CorpseOrNone
    BY DEF W!CorpseOrNone
<1>4. ASSUME lootWindow' \in W!CorpseOrNone, lootLegacyGUID' \in W!CorpseOrNone
      PROVE  WindowTypes'
    BY <1>1, <1>2, <1>4 DEF GiftInv, WindowTypes
<1>5. lootWindow \in W!CorpseOrNone /\ lootLegacyGUID \in W!CorpseOrNone
    BY DEF GiftInv, WindowTypes
<1>6. CASE W!MasterList
  <2>1. /\ Head(packets).kind = "list" /\ UNCHANGED <<opening, lootWindow, lootLegacyGUID>>
        /\ lootObjModern' \in {lootObjModern, lootLegacyGUID}
      BY <1>6 DEF W!MasterList, W!Arrives
  <2> QED BY <1>1, <1>4, <1>5, <2>1, RelayTakes
<1>7. CASE W!LootResponse
  <2>1. /\ Head(packets).kind = "response" /\ opening' = opening - 1
        /\ lootWindow' = W!Corpse /\ lootLegacyGUID' = W!Corpse /\ lootObjModern' = W!Corpse
      BY <1>7 DEF W!LootResponse, W!Arrives
  <2> QED BY <1>1, <1>2, <1>4, <2>1, RelayTakes
<1>8. CASE W!LootFailure
  <2>1. /\ Head(packets).kind = "failure" /\ opening' = opening - 1
        /\ lootWindow' = lootWindow /\ lootLegacyGUID' = W!Corpse /\ lootObjModern' = W!Corpse
      BY <1>8 DEF W!LootFailure, W!Arrives
  <2> QED BY <1>1, <1>2, <1>4, <1>5, <2>1, RelayTakes
<1>9. CASE W!LootList
  <2>1. /\ Head(packets).kind = "notice" /\ opening' = opening /\ lootWindow' = lootWindow
        /\ \/ lootLegacyGUID' = W!Corpse /\ lootObjModern' = W!Corpse
           \/ UNCHANGED <<lootLegacyGUID, lootObjModern>>
      BY <1>9 DEF W!LootList, W!Arrives, W!clientVars
  <2> QED BY <1>1, <1>2, <1>4, <1>5, <2>1, RelayTakes
<1>10. CASE W!LootReleased \/ W!NewWorld
  <2>1. /\ Head(packets).kind \in {"release", "world"} /\ opening' = opening
        /\ lootWindow' \in {lootWindow, NoCorpse}
        /\ lootLegacyGUID' = NoCorpse /\ lootObjModern' = NoCorpse
      BY <1>10 DEF W!LootReleased, W!NewWorld, W!Arrives, W!Forgets
  <2> QED BY <1>1, <1>3, <1>4, <1>5, <2>1, RelayTakes
<1> QED BY <1>6, <1>7, <1>8, <1>9, <1>10

LEMMA GiftNext == GiftInv /\ [W!Next]_windowVars => GiftInv'
<1> SUFFICES ASSUME GiftInv, [W!Next]_windowVars PROVE GiftInv'
    OBVIOUS
<1>1. CASE (\E c \in Corpses : W!Open(c)) \/ W!Close \/ W!Give
    BY <1>1, ClientKeeps
<1>2. CASE W!LootUnit \/ W!LootRelease \/ W!MasterLootItem
    BY <1>2, HandlerKeeps, ServerConstants DEF ServerConstants
<1>3. CASE \/ W!RealmLoots \/ W!RealmReleases \/ W!RealmGives \/ W!RealmCloses \/ W!RealmMoves
           \/ \E c \in Corpses : W!RealmNotices(c)
    BY <1>3, RealmSends
<1>4. CASE \/ W!MasterList \/ W!LootResponse \/ W!LootFailure \/ W!LootList \/ W!LootReleased
           \/ W!NewWorld
    BY <1>4, RelayKeeps
<1>5. CASE UNCHANGED windowVars
    BY <1>5 DEF windowVars, GiftInv, WindowTypes, GiftsUncrossed, Settled, Surely,
       InboxLoots,
                RequestLoots, PacketReplies, HowMany, PlacesOf, Loots, Replies
<1> QED BY <1>1, <1>2, <1>3, <1>4, <1>5 DEF W!Next

LEMMA GiftInit == ServerInit => GiftInv
<1> SUFFICES ASSUME ServerInit PROVE GiftInv
    OBVIOUS
<1>1. /\ inbox = <<>> /\ requests = <<>> /\ packets = <<>> /\ opening = 0
      /\ lootWindow = NoCorpse /\ looting = NoCorpse /\ lootLegacyGUID = NoCorpse
      /\ lootObjModern = NoCorpse /\ misgiven = FALSE
    BY DEF ServerInit, W!Init
<1>2. WindowTypes
    BY <1>1 DEF WindowTypes, W!CorpseOrNone
<1>3. \A A : PlacesOf(<<>>, A) = {}
    BY DEF PlacesOf
<1>4. InboxLoots = 0 /\ RequestLoots = 0 /\ PacketReplies = 0
    BY <1>1, <1>3, FS_EmptySet DEF InboxLoots, RequestLoots, PacketReplies, HowMany
<1>5. GiftsUncrossed
    BY <1>1 DEF GiftsUncrossed
<1> QED BY <1>1, <1>2, <1>4, <1>5 DEF GiftInv

\* Any number of corpses, requests and packets on their way: a gift that the handler
\* forwards (MasterLootItem) is of the corpse whose window the client gave it in, unless
\* the client had asked for another corpse before it gave.
THEOREM GiftsInWindow == ServerSpec => []GiftsAsShown
<1>1. ServerInit => GiftInv
    BY GiftInit
<1>2. GiftInv => GiftsAsShown
    BY DEF GiftInv, GiftsAsShown, W!GiftsAsShown
<1>3. GiftInv /\ [ServerNext]_allVars => GiftInv'
    BY WindowStep, GiftNext
<1> QED BY <1>1, <1>2, <1>3, PTL DEF ServerSpec, allVars

-----------------------------------------------------------------------------
(* The character screen: what is awaited is counted against what is due.     *)

Enums == {q \in S!Requests : q[1] = "enum"}
Creations == {q \in S!Requests : q[1] = "create"}
Deletions == {q \in S!Requests : q[1] = "delete"}
Lists == {a \in S!Answers : a[1] = "list"}
Results == {a \in S!Answers : a[1] \in {"failed", "success"}}
In(x, A) == IF x \in A THEN 1 ELSE 0

\* The lists and the results that are on their way: in what is to be written (w), what the
\* realm has still to answer (q) and what it answered (a).
ListsDue(w, q, a) ==
    In(w["handler"], Enums) + In(w["relay"], Enums) + HowMany(q, Enums) + HowMany(a, Lists)
ResultsDue(w, q, a) ==
    In(w["handler"], Creations) + HowMany(q, Creations) + HowMany(a, Results)

Pipe(w, q, a) ==
    /\ w \in [{"handler", "relay"} -> S!Requests \cup {<<>>}]
    /\ w["relay"] \in Enums \cup {<<>>}
    /\ q \in Seq(S!Requests) /\ a \in Seq(S!Answers)

\* From the first to the second there are l lists and n results more.
More(w, q, a, w2, q2, a2, l, n) ==
    /\ Pipe(w, q, a) /\ Pipe(w2, q2, a2)
    /\ ListsDue(w2, q2, a2) = ListsDue(w, q, a) + l
    /\ ResultsDue(w2, q2, a2) = ResultsDue(w, q, a) + n

ScreenTypes ==
    /\ Pipe(writing, charRequests, charAnswers)
    /\ characters \subseteq Names
    /\ lists \in Nat /\ awaitingCreateEnum \in BOOLEAN /\ stray \in BOOLEAN /\ wrong \in BOOLEAN

LEMMA ScreenKinds ==
    /\ \A x : x \in Enums => x \in S!Requests /\ x \notin Creations /\ x \notin Deletions
    /\ \A x : x \in Creations => x \in S!Requests /\ x \notin Deletions
    /\ \A x \in S!Requests : x \in Enums \/ x \in Creations \/ x \in Deletions
    /\ <<>> \notin Enums /\ <<>> \notin Creations /\ <<>> \notin Deletions /\ <<>> \notin S!Requests
    /\ <<"enum">> \in Enums
    /\ \A n \in Names : <<"create", n>> \in Creations /\ <<"delete", n>> \in Deletions
    /\ \A x : x \in Lists => x \notin Results
<1>1. \A x \in S!Requests : x \in Enums \/ x \in Creations \/ x \in Deletions
    BY DEF S!Requests, Enums, Creations, Deletions
<1>2. <<>> \notin S!Requests
    BY DEF S!Requests
<1>3. <<"enum">> \in S!Requests /\ \A n \in Names : <<"create", n>> \in S!Requests /\ <<"delete", n>> \in S!Requests
    BY DEF S!Requests
<1>4. <<"enum">> \in Enums
    BY <1>3 DEF Enums
<1>5. \A n \in Names : <<"create", n>> \in Creations /\ <<"delete", n>> \in Deletions
    BY <1>3 DEF Creations, Deletions
<1>6. \A x : x \in Lists => x \notin Results
    BY DEF Lists, Results
<1>7. \A x : x \in Enums => x \in S!Requests /\ x \notin Creations /\ x \notin Deletions
    BY DEF Enums, Creations, Deletions
<1>8. \A x : x \in Creations => x \in S!Requests /\ x \notin Deletions
    BY DEF Creations, Deletions
<1>9. <<>> \notin Enums /\ <<>> \notin Creations /\ <<>> \notin Deletions
    BY <1>2 DEF Enums, Creations, Deletions
<1> QED BY <1>1, <1>2, <1>4, <1>5, <1>6, <1>7, <1>8, <1>9

LEMMA OneNat ==
    \A x, A : In(x, A) \in Nat /\ (x \in A => In(x, A) = 1) /\ (x \notin A => In(x, A) = 0)
BY DEF In

LEMMA OneMoreIn ==
    ASSUME NEW X, NEW s \in Seq(X), NEW x \in X, NEW A
    PROVE  HowMany(Append(s, x), A) = HowMany(s, A) + In(x, A)
<1>1. HowMany(s, A) \in Nat
    BY HowManyFinite
<1>2. CASE x \in A
    BY <1>2, HowManyAppend, OneNat
<1>3. CASE x \notin A
    BY <1>1, <1>3, HowManyAppend, OneNat
<1> QED BY <1>2, <1>3

LEMMA OneLessIn ==
    ASSUME NEW X, NEW s \in Seq(X), s # <<>>, NEW A
    PROVE  HowMany(s, A) = HowMany(Tail(s), A) + In(Head(s), A)
<1>1. HowMany(Tail(s), A) \in Nat
    BY TailOf, HowManyFinite
<1>2. CASE Head(s) \in A
    BY <1>2, HowManyTail, OneNat
<1>3. CASE Head(s) \notin A
    BY <1>1, <1>3, HowManyTail, OneNat
<1> QED BY <1>2, <1>3

LEMMA DueNat ==
    ASSUME NEW w, NEW q, NEW a, Pipe(w, q, a)
    PROVE  /\ HowMany(q, Enums) \in Nat /\ HowMany(a, Lists) \in Nat
           /\ HowMany(q, Creations) \in Nat /\ HowMany(a, Results) \in Nat
           /\ ListsDue(w, q, a) \in Nat /\ ResultsDue(w, q, a) \in Nat
<1>1. /\ HowMany(q, Enums) \in Nat /\ HowMany(a, Lists) \in Nat
      /\ HowMany(q, Creations) \in Nat /\ HowMany(a, Results) \in Nat
    BY HowManyFinite DEF Pipe
<1> QED BY <1>1, OneNat DEF ListsDue, ResultsDue

LEMMA PartsNat ==
    ASSUME NEW w, NEW q, NEW a, Pipe(w, q, a)
    PROVE  /\ In(w["handler"], Enums) \in Nat /\ In(w["relay"], Enums) \in Nat
           /\ In(w["handler"], Creations) \in Nat
           /\ HowMany(q, Enums) \in Nat /\ HowMany(a, Lists) \in Nat
           /\ HowMany(q, Creations) \in Nat /\ HowMany(a, Results) \in Nat
BY DueNat, OneNat

\* Write moves a request from the goroutine to the realm.
LEMMA WriteDue ==
    ASSUME NEW w, NEW q, NEW a, Pipe(w, q, a), NEW g \in {"handler", "relay"}, w[g] # <<>>,
           NEW w2, w2 = [w EXCEPT ![g] = <<>>], NEW q2, q2 = Append(q, w[g])
    PROVE  More(w, q, a, w2, q2, a, 0, 0)
<1>1. w[g] \in S!Requests /\ q \in Seq(S!Requests)
    BY DEF Pipe
<1>2. q2 \in Seq(S!Requests)
    BY <1>1, Appended
<1>3. w2[g] = <<>> /\ \A h \in {"handler", "relay"} \ {g} : w2[h] = w[h]
    BY DEF Pipe
<1>4. Pipe(w2, q2, a)
    BY <1>2, <1>3 DEF Pipe
<1>5. /\ HowMany(q2, Enums) = HowMany(q, Enums) + In(w[g], Enums)
      /\ HowMany(q2, Creations) = HowMany(q, Creations) + In(w[g], Creations)
    BY <1>1, OneMoreIn
<1>6. In(w2[g], Enums) = 0 /\ In(w2[g], Creations) = 0
    BY <1>3, ScreenKinds, OneNat
<1>7. ASSUME g = "handler"
      PROVE  /\ ListsDue(w2, q2, a) = ListsDue(w, q, a)
             /\ ResultsDue(w2, q2, a) = ResultsDue(w, q, a)
  <2>1. w2["handler"] = <<>> /\ w2["relay"] = w["relay"]
      BY <1>3, <1>7
  <2>2. /\ In(w2["handler"], Enums) = 0 /\ In(w2["handler"], Creations) = 0
        /\ In(w2["relay"], Enums) = In(w["relay"], Enums)
        /\ HowMany(q2, Enums) = HowMany(q, Enums) + In(w["handler"], Enums)
        /\ HowMany(q2, Creations) = HowMany(q, Creations) + In(w["handler"], Creations)
      BY <2>1, <1>5, <1>6, <1>7
  <2> QED BY <2>2, <1>4, PartsNat DEF ListsDue, ResultsDue
<1>8. ASSUME g = "relay"
      PROVE  /\ ListsDue(w2, q2, a) = ListsDue(w, q, a)
             /\ ResultsDue(w2, q2, a) = ResultsDue(w, q, a)
  <2>1. In(w[g], Creations) = 0
      BY <1>8, ScreenKinds, OneNat DEF Pipe
  <2>2. w2["relay"] = <<>> /\ w2["handler"] = w["handler"]
      BY <1>3, <1>8
  <2>3. /\ In(w2["relay"], Enums) = 0
        /\ In(w2["handler"], Enums) = In(w["handler"], Enums)
        /\ In(w2["handler"], Creations) = In(w["handler"], Creations)
        /\ HowMany(q2, Enums) = HowMany(q, Enums) + In(w["relay"], Enums)
        /\ HowMany(q2, Creations) = HowMany(q, Creations) + 0
      BY <2>1, <2>2, <1>5, <1>6, <1>8
  <2>4. /\ In(w["handler"], Enums) \in Nat /\ In(w["relay"], Enums) \in Nat
        /\ In(w["handler"], Creations) \in Nat
        /\ HowMany(q, Enums) \in Nat /\ HowMany(a, Lists) \in Nat
        /\ HowMany(q, Creations) \in Nat /\ HowMany(a, Results) \in Nat
      BY PartsNat
  <2>5. /\ ListsDue(w2, q2, a) = ListsDue(w, q, a)
        /\ ResultsDue(w2, q2, a) = ResultsDue(w, q, a)
      BY ONLY <2>3, <2>4 DEF ListsDue, ResultsDue
  <2> QED BY <2>5
<1>9. /\ ListsDue(w2, q2, a) = ListsDue(w, q, a) /\ ListsDue(w, q, a) \in Nat
      /\ ResultsDue(w2, q2, a) = ResultsDue(w, q, a) /\ ResultsDue(w, q, a) \in Nat
    BY <1>7, <1>8, DueNat
<1>10. /\ ListsDue(w2, q2, a) = ListsDue(w, q, a) + 0
       /\ ResultsDue(w2, q2, a) = ResultsDue(w, q, a) + 0
    BY ONLY <1>9
<1> QED BY <1>4, <1>10 DEF More

\* The handler has a request to write.
LEMMA HandlerDue ==
    ASSUME NEW w, NEW q, NEW a, Pipe(w, q, a), w["handler"] = <<>>, NEW r \in S!Requests,
           NEW w2, w2 = [w EXCEPT !["handler"] = r]
    PROVE  More(w, q, a, w2, q, a, In(r, Enums), In(r, Creations))
<1>1. w2["handler"] = r /\ w2["relay"] = w["relay"] /\ Pipe(w2, q, a)
    BY DEF Pipe
<1>2. In(w["handler"], Enums) = 0 /\ In(w["handler"], Creations) = 0
    BY ScreenKinds, OneNat
<1>3. In(r, Enums) \in Nat /\ In(r, Creations) \in Nat
    BY OneNat
<1>4. /\ ListsDue(w2, q, a) = ListsDue(w, q, a) + In(r, Enums)
      /\ ResultsDue(w2, q, a) = ResultsDue(w, q, a) + In(r, Creations)
    BY <1>1, <1>2, <1>3, PartsNat DEF ListsDue, ResultsDue
<1> QED BY <1>1, <1>4 DEF More

\* The realm answers a request.
LEMMA AnswerDue ==
    ASSUME NEW w, NEW q, NEW a, Pipe(w, q, a), q # <<>>, NEW x \in S!Answers,
           Head(q) \in Enums <=> x \in Lists, Head(q) \in Creations <=> x \in Results,
           NEW q2, q2 = Tail(q), NEW a2, a2 = Append(a, x)
    PROVE  More(w, q, a, w, q2, a2, 0, 0)
<1>1. q \in Seq(S!Requests) /\ a \in Seq(S!Answers)
    BY DEF Pipe
<1>2. q2 \in Seq(S!Requests) /\ a2 \in Seq(S!Answers)
    BY <1>1, TailOf, Appended
<1>3. Pipe(w, q2, a2)
    BY <1>2 DEF Pipe
<1>4. /\ HowMany(q2, Enums) \in Nat /\ HowMany(q2, Creations) \in Nat
    BY <1>2, HowManyFinite
<1>5. /\ HowMany(q, Enums) = HowMany(q2, Enums) + In(Head(q), Enums)
      /\ HowMany(q, Creations) = HowMany(q2, Creations) + In(Head(q), Creations)
    BY <1>1, OneLessIn
<1>6. /\ HowMany(a2, Lists) = HowMany(a, Lists) + In(x, Lists)
      /\ HowMany(a2, Results) = HowMany(a, Results) + In(x, Results)
    BY <1>1, OneMoreIn
<1>7. In(x, Lists) = In(Head(q), Enums) /\ In(x, Results) = In(Head(q), Creations)
    BY DEF In
<1>8. In(Head(q), Enums) \in Nat /\ In(Head(q), Creations) \in Nat
    BY OneNat
<1>9. /\ In(w["handler"], Enums) \in Nat /\ In(w["relay"], Enums) \in Nat
      /\ In(w["handler"], Creations) \in Nat
      /\ HowMany(q, Enums) \in Nat /\ HowMany(a, Lists) \in Nat
      /\ HowMany(q, Creations) \in Nat /\ HowMany(a, Results) \in Nat
    BY PartsNat
<1>10. ListsDue(w, q2, a2) = ListsDue(w, q, a)
    BY ONLY <1>4, <1>5, <1>6, <1>7, <1>8, <1>9 DEF ListsDue
<1>11. ResultsDue(w, q2, a2) = ResultsDue(w, q, a)
    BY ONLY <1>4, <1>5, <1>6, <1>7, <1>8, <1>9 DEF ResultsDue
<1>12. ListsDue(w, q, a) \in Nat /\ ResultsDue(w, q, a) \in Nat
    BY DueNat
<1>13. /\ ListsDue(w, q2, a2) = ListsDue(w, q, a) + 0
       /\ ResultsDue(w, q2, a2) = ResultsDue(w, q, a) + 0
    BY ONLY <1>10, <1>11, <1>12
<1> QED BY <1>3, <1>13 DEF More

\* The relay takes an answer.
LEMMA TakenDue ==
    ASSUME NEW w, NEW q, NEW a, Pipe(w, q, a), a # <<>>, NEW a2, a2 = Tail(a)
    PROVE  More(w, q, a2, w, q, a, In(Head(a), Lists), In(Head(a), Results))
<1>1. q \in Seq(S!Requests) /\ a \in Seq(S!Answers)
    BY DEF Pipe
<1>2. a2 \in Seq(S!Answers)
    BY <1>1, TailOf
<1>3. Pipe(w, q, a2)
    BY <1>2 DEF Pipe
<1>4. HowMany(a2, Lists) \in Nat /\ HowMany(a2, Results) \in Nat
    BY <1>2, HowManyFinite
<1>5. /\ HowMany(a, Lists) = HowMany(a2, Lists) + In(Head(a), Lists)
      /\ HowMany(a, Results) = HowMany(a2, Results) + In(Head(a), Results)
    BY <1>1, OneLessIn
<1>6. In(Head(a), Lists) \in Nat /\ In(Head(a), Results) \in Nat
    BY OneNat
<1>7. /\ In(w["handler"], Enums) \in Nat /\ In(w["relay"], Enums) \in Nat
      /\ In(w["handler"], Creations) \in Nat
      /\ HowMany(q, Enums) \in Nat /\ HowMany(a, Lists) \in Nat
      /\ HowMany(q, Creations) \in Nat /\ HowMany(a, Results) \in Nat
    BY PartsNat
<1>8. ListsDue(w, q, a) = ListsDue(w, q, a2) + In(Head(a), Lists)
    BY <1>4, <1>5, <1>6, <1>7 DEF ListsDue
<1>9. ResultsDue(w, q, a) = ResultsDue(w, q, a2) + In(Head(a), Results)
    BY <1>4, <1>5, <1>6, <1>7 DEF ResultsDue
<1> QED BY <1>3, <1>8, <1>9 DEF More

\* The relay asks for a list.
LEMMA RelayDue ==
    ASSUME NEW w, NEW q, NEW a, Pipe(w, q, a), w["relay"] = <<>>,
           NEW w2, w2 = [w EXCEPT !["relay"] = <<"enum">>]
    PROVE  More(w, q, a, w2, q, a, 1, 0)
<1>1. <<"enum">> \in Enums
    BY ScreenKinds
<1> DEFINE e == <<"enum">>
<1>2. w2["handler"] = w["handler"] /\ w2["relay"] = e
    BY DEF Pipe
<1> HIDE DEF e
<1>3. e \in Enums /\ e \in S!Requests
    BY ScreenKinds DEF e
<1>4. w2 \in [{"handler", "relay"} -> S!Requests \cup {<<>>}]
    BY <1>3 DEF Pipe, e
<1>5. Pipe(w2, q, a)
    BY <1>2, <1>3, <1>4 DEF Pipe
<1>6. In(w["relay"], Enums) = 0 /\ In(w2["relay"], Enums) = 1
    BY <1>2, <1>3, ScreenKinds, OneNat
<1>7. ListsDue(w2, q, a) = ListsDue(w, q, a) + 1 /\ ResultsDue(w2, q, a) = ResultsDue(w, q, a) + 0
    BY <1>2, <1>6, PartsNat DEF ListsDue, ResultsDue
<1> QED BY <1>5, <1>7 DEF More

\* Answers are awaited as they are due, and the realm has the new character.
Counted ==
    /\ ListsDue(writing, charRequests, charAnswers) = lists + In(awaitingCreateEnum, {TRUE})
    /\ ResultsDue(writing, charRequests, charAnswers) + In(awaitingCreateEnum, {TRUE})
         = In(creating, Names)
Requested ==
    /\ creating \in Names =>
          /\ pendingCreateName = creating
          /\ writing["handler"] \notin Deletions
          /\ \A i \in DOMAIN charRequests : charRequests[i] \notin Deletions
    /\ writing["handler"] \in Creations => writing["handler"][2] = creating
    /\ \A i \in DOMAIN charRequests :
          charRequests[i] \in Creations => charRequests[i][2] = creating
Answered ==
    /\ awaitingCreateEnum =>
          /\ creating \in characters
          /\ \A i \in DOMAIN charAnswers :
                charAnswers[i] \in Lists => creating \in charAnswers[i][2]
    /\ \A i \in DOMAIN charAnswers : charAnswers[i] = <<"success">> =>
          /\ creating \in characters
          /\ \A j \in DOMAIN charAnswers :
                i < j /\ charAnswers[j] \in Lists => creating \in charAnswers[j][2]

ScreenInv ==
    /\ ScreenTypes /\ creating \in Names \cup {NoName}
    /\ ~stray => Counted /\ Requested /\ Answered /\ wrong = FALSE

\* The results that are due are of the one creation the client waits for.
LEMMA OneCreation ==
    ASSUME ScreenInv, ~stray
    PROVE  /\ awaitingCreateEnum =>
                 creating \in Names /\ ResultsDue(writing, charRequests, charAnswers) = 0
           /\ creating \notin Names =>
                 ~awaitingCreateEnum /\ ResultsDue(writing, charRequests, charAnswers) = 0
           /\ ResultsDue(writing, charRequests, charAnswers) # 0 =>
                 creating \in Names /\ ~awaitingCreateEnum
<1>1. PICK d, b, c : /\ d = ResultsDue(writing, charRequests, charAnswers)
                     /\ b = In(awaitingCreateEnum, {TRUE}) /\ c = In(creating, Names)
    OBVIOUS
<1>2. d \in Nat /\ d + b = c
    BY <1>1, DueNat DEF ScreenInv, ScreenTypes, Counted
<1>3. /\ b \in {0, 1} /\ (b = 1 <=> awaitingCreateEnum)
      /\ c \in {0, 1} /\ (c = 1 <=> creating \in Names)
  <2>1. c \in {0, 1} /\ (c = 1 <=> creating \in Names)
      BY <1>1 DEF In
  <2>2. awaitingCreateEnum \in {TRUE} <=> awaitingCreateEnum
      BY DEF ScreenInv, ScreenTypes
  <2>3. b \in {0, 1} /\ (b = 1 <=> awaitingCreateEnum \in {TRUE})
    <3>1. CASE awaitingCreateEnum \in {TRUE}
        BY <1>1, <3>1, OneNat
    <3>2. CASE awaitingCreateEnum \notin {TRUE}
      <4>1. b = 0
          BY <1>1, <3>2, OneNat, Zenon
      <4>2. b # 1 /\ b \in {0, 1}
          BY ONLY <4>1
      <4> QED BY <3>2, <4>2, Zenon
    <3> QED BY <3>1, <3>2
  <2> QED BY <2>1, <2>2, <2>3, Zenon
<1>4. /\ b = 1 => c = 1 /\ d = 0
      /\ c = 0 => b = 0 /\ d = 0
      /\ d # 0 => c = 1 /\ b = 0
    BY ONLY <1>2, <1>3
<1> QED BY <1>1, <1>3, <1>4

LEMMA NothingDue ==
    ASSUME NEW w, NEW q, NEW a, Pipe(w, q, a)
    PROVE  /\ ResultsDue(w, q, a) = 0 =>
                 /\ w["handler"] \notin Creations /\ \A i \in DOMAIN q : q[i] \notin Creations
                 /\ \A i \in DOMAIN a : a[i] \notin Results
           /\ ListsDue(w, q, a) = 0 => \A i \in DOMAIN a : a[i] \notin Lists
<1>1. /\ In(w["handler"], Enums) \in Nat /\ In(w["relay"], Enums) \in Nat
      /\ In(w["handler"], Creations) \in Nat
      /\ HowMany(q, Enums) \in Nat /\ HowMany(a, Lists) \in Nat
      /\ HowMany(q, Creations) \in Nat /\ HowMany(a, Results) \in Nat
    BY PartsNat
<1>2. ResultsDue(w, q, a) = 0 =>
          In(w["handler"], Creations) = 0 /\ HowMany(q, Creations) = 0 /\ HowMany(a, Results) = 0
    BY ONLY <1>1 DEF ResultsDue
<1>3. ListsDue(w, q, a) = 0 => HowMany(a, Lists) = 0
    BY ONLY <1>1 DEF ListsDue
<1>4. q \in Seq(S!Requests) /\ a \in Seq(S!Answers)
    BY DEF Pipe
<1> QED BY <1>2, <1>3, <1>4, NoneOf, OneNat

LEMMA AllAnswered ==
    ASSUME NEW w, NEW q, NEW a, q = <<>>, a = <<>>, w["handler"] = <<>>, w["relay"] = <<>>
    PROVE  ListsDue(w, q, a) = 0 /\ ResultsDue(w, q, a) = 0
<1>1. \A A : HowMany(<<>>, A) = 0
  <2>1. \A A : PlacesOf(<<>>, A) = {}
      BY DEF PlacesOf
  <2> QED BY <2>1, FS_EmptySet DEF HowMany
<1>2. In(<<>>, Enums) = 0 /\ In(<<>>, Creations) = 0
    BY ScreenKinds, OneNat
<1> QED BY <1>1, <1>2 DEF ListsDue, ResultsDue

LEMMA ScreenEnum == ScreenInv /\ S!EnumCharacters => ScreenInv'
<1> SUFFICES ASSUME ScreenInv, S!EnumCharacters PROVE ScreenInv'
    OBVIOUS
<1> DEFINE r == <<"enum">>
<1>1. /\ writing["handler"] = <<>> /\ writing' = [writing EXCEPT !["handler"] = r]
      /\ lists' = lists + 1
      /\ UNCHANGED <<characters, charRequests, charAnswers, pendingCreateName,
                     awaitingCreateEnum, creating, stray, wrong>>
    BY DEF S!EnumCharacters, S!HandlerIdle, S!HandlerWrites, S!sessionVars
<1>2. r \in Enums /\ r \in S!Requests /\ r \notin Creations /\ r \notin Deletions
    BY ScreenKinds
<1> HIDE DEF r
<1>3. Pipe(writing, charRequests, charAnswers) /\ lists \in Nat
    BY DEF ScreenInv, ScreenTypes
<1>4. /\ Pipe(writing', charRequests, charAnswers)
      /\ ListsDue(writing', charRequests, charAnswers)
           = ListsDue(writing, charRequests, charAnswers) + In(r, Enums)
      /\ ResultsDue(writing', charRequests, charAnswers)
           = ResultsDue(writing, charRequests, charAnswers) + In(r, Creations)
  <2>1. More(writing, charRequests, charAnswers, writing', charRequests, charAnswers,
             In(r, Enums), In(r, Creations))
      BY <1>1, <1>2, <1>3, HandlerDue, Zenon
  <2> QED BY ONLY <2>1 DEF More
<1>5. In(r, Enums) = 1 /\ In(r, Creations) = 0
    BY <1>2, OneNat
<1>6. ScreenTypes'
    BY <1>1, <1>3, <1>4 DEF ScreenInv, ScreenTypes
<1>7. ASSUME ~stray PROVE Counted'
  <2>1. ListsDue(writing, charRequests, charAnswers) = lists + In(awaitingCreateEnum, {TRUE})
      BY <1>7 DEF ScreenInv, Counted
  <2>2. lists \in Nat /\ In(awaitingCreateEnum, {TRUE}) \in Nat
        /\ ResultsDue(writing, charRequests, charAnswers) \in Nat
      BY <1>3, OneNat, DueNat
  <2>3. ListsDue(writing', charRequests, charAnswers) = lists + 1 + In(awaitingCreateEnum, {TRUE})
      BY ONLY <2>1, <2>2, <1>4, <1>5
  <2>4. ResultsDue(writing', charRequests, charAnswers) = ResultsDue(writing, charRequests, charAnswers)
      BY ONLY <2>2, <1>4, <1>5
  <2> QED BY <1>1, <1>7, <2>3, <2>4 DEF ScreenInv, Counted
<1>8. writing'["handler"] = r
    BY <1>1, <1>3 DEF Pipe
<1>9. ~stray => Requested' /\ Answered'
    BY <1>1, <1>2, <1>8 DEF ScreenInv, Requested, Answered
<1> QED BY <1>1, <1>6, <1>7, <1>9 DEF ScreenInv

LEMMA ScreenCreate ==
    ASSUME ScreenInv, NEW name \in Names, S!CreateCharacter(name), S!Constants
    PROVE  ScreenInv'
<1> DEFINE r == <<"create", name>>
<1>1. /\ writing["handler"] = <<>> /\ writing' = [writing EXCEPT !["handler"] = r]
      /\ creating = NoName /\ creating' = name /\ pendingCreateName' = name
      /\ awaitingCreateEnum' = FALSE
      /\ UNCHANGED <<characters, charRequests, charAnswers, lists, stray, wrong>>
    BY DEF S!CreateCharacter, S!Settled, S!HandlerIdle, S!HandlerWrites
<1>2. /\ r \in Creations /\ r \in S!Requests /\ r \notin Enums /\ r \notin Deletions
      /\ r[2] = name
    BY ScreenKinds
<1> HIDE DEF r
<1>3. Pipe(writing, charRequests, charAnswers) /\ NoName \notin Names
    BY DEF ScreenInv, ScreenTypes, S!Constants
<1>4. /\ Pipe(writing', charRequests, charAnswers)
      /\ ListsDue(writing', charRequests, charAnswers)
           = ListsDue(writing, charRequests, charAnswers) + In(r, Enums)
      /\ ResultsDue(writing', charRequests, charAnswers)
           = ResultsDue(writing, charRequests, charAnswers) + In(r, Creations)
  <2>1. More(writing, charRequests, charAnswers, writing', charRequests, charAnswers,
             In(r, Enums), In(r, Creations))
      BY <1>1, <1>2, <1>3, HandlerDue, Zenon
  <2> QED BY ONLY <2>1 DEF More
<1>5. In(r, Enums) = 0 /\ In(r, Creations) = 1 /\ In(name, Names) = 1
      /\ In(FALSE, {TRUE}) = 0
    BY <1>2, OneNat DEF In
<1>6. ScreenTypes' /\ creating' \in Names \cup {NoName}
    BY <1>1, <1>4 DEF ScreenInv, ScreenTypes
<1>7. writing'["handler"] = r
    BY <1>1, <1>3 DEF Pipe
<1>8. ASSUME ~stray PROVE Counted' /\ Requested' /\ Answered'
  <2>1. ~awaitingCreateEnum /\ ResultsDue(writing, charRequests, charAnswers) = 0
      BY <1>1, <1>3, <1>8, OneCreation
  <2>2. /\ \A i \in DOMAIN charRequests : charRequests[i] \notin Creations
        /\ \A i \in DOMAIN charAnswers : charAnswers[i] \notin Results
      BY <2>1, <1>3, NothingDue
  <2>3. ListsDue(writing, charRequests, charAnswers) = lists + 0
    <3>1. In(awaitingCreateEnum, {TRUE}) = 0
        BY <2>1 DEF In
    <3> QED BY <3>1, <1>8 DEF ScreenInv, Counted
  <2>4. lists \in Nat
      BY DEF ScreenInv, ScreenTypes
  <2>5. /\ ListsDue(writing', charRequests, charAnswers) = lists + 0
        /\ ResultsDue(writing', charRequests, charAnswers) + 0 = 1
      BY ONLY <1>4, <1>5, <2>1, <2>3, <2>4
  <2>6. Counted'
      BY <1>1, <1>5, <2>5 DEF Counted
  <2>7. \A i \in DOMAIN charRequests : charRequests[i] \notin Deletions
      BY DEF S!CreateCharacter, S!Settled, Deletions
  <2>8. Requested'
      BY <1>1, <1>2, <1>7, <2>2, <2>7 DEF Requested
  <2>9. \A i \in DOMAIN charAnswers : charAnswers[i] # <<"success">>
    <3>1. <<"success">> \in Results
        BY DEF Results, S!Answers
    <3> QED BY <3>1, <2>2
  <2>10. Answered'
      BY <1>1, <2>9 DEF Answered
  <2> QED BY <2>6, <2>8, <2>10
<1> QED BY <1>1, <1>6, <1>8 DEF ScreenInv

LEMMA ScreenDelete ==
    ASSUME ScreenInv, NEW name \in Names, S!DeleteCharacter(name), S!Constants
    PROVE  ScreenInv'
<1> DEFINE r == <<"delete", name>>
<1>1. /\ writing["handler"] = <<>> /\ writing' = [writing EXCEPT !["handler"] = r]
      /\ creating = NoName
      /\ UNCHANGED <<characters, charRequests, charAnswers, pendingCreateName,
                     awaitingCreateEnum, creating, lists, stray, wrong>>
    BY DEF S!DeleteCharacter, S!Settled, S!HandlerIdle, S!HandlerWrites, S!sessionVars
<1>2. r \in Deletions /\ r \in S!Requests /\ r \notin Enums /\ r \notin Creations
  <2>1. r \in Deletions
      BY ScreenKinds
  <2> QED BY <2>1, ScreenKinds DEF Deletions
<1> HIDE DEF r
<1>3. Pipe(writing, charRequests, charAnswers) /\ NoName \notin Names
    BY DEF ScreenInv, ScreenTypes, S!Constants
<1>4. /\ Pipe(writing', charRequests, charAnswers)
      /\ ListsDue(writing', charRequests, charAnswers)
           = ListsDue(writing, charRequests, charAnswers) + In(r, Enums)
      /\ ResultsDue(writing', charRequests, charAnswers)
           = ResultsDue(writing, charRequests, charAnswers) + In(r, Creations)
  <2>1. More(writing, charRequests, charAnswers, writing', charRequests, charAnswers,
             In(r, Enums), In(r, Creations))
      BY <1>1, <1>2, <1>3, HandlerDue, Zenon
  <2> QED BY ONLY <2>1 DEF More
<1>5. In(r, Enums) = 0 /\ In(r, Creations) = 0
    BY <1>2, OneNat
<1>6. /\ ListsDue(writing, charRequests, charAnswers) \in Nat
      /\ ResultsDue(writing, charRequests, charAnswers) \in Nat
    BY <1>3, DueNat
<1>7. /\ ListsDue(writing', charRequests, charAnswers)
           = ListsDue(writing, charRequests, charAnswers)
      /\ ResultsDue(writing', charRequests, charAnswers)
           = ResultsDue(writing, charRequests, charAnswers)
    BY ONLY <1>4, <1>5, <1>6
<1>8. writing'["handler"] = r
    BY <1>1, <1>3 DEF Pipe
<1>9. ~stray => Counted' /\ Requested' /\ Answered'
    BY <1>1, <1>2, <1>3, <1>7, <1>8 DEF ScreenInv, Counted, Requested, Answered
<1> QED BY <1>1, <1>4, <1>9 DEF ScreenInv, ScreenTypes

LEMMA ScreenWrite ==
    ASSUME ScreenInv, NEW g \in S!Goroutines, S!Write(g)
    PROVE  ScreenInv'
<1>1. /\ g \in {"handler", "relay"} /\ writing[g] # <<>>
      /\ charRequests' = Append(charRequests, writing[g])
      /\ writing' = [writing EXCEPT ![g] = <<>>]
      /\ UNCHANGED <<characters, charAnswers, pendingCreateName, awaitingCreateEnum,
                     creating, lists, stray, wrong>>
    BY DEF S!Write, S!Goroutines, S!sessionVars
<1>2. Pipe(writing, charRequests, charAnswers)
    BY DEF ScreenInv, ScreenTypes
<1>3. /\ Pipe(writing', charRequests', charAnswers)
      /\ ListsDue(writing', charRequests', charAnswers)
           = ListsDue(writing, charRequests, charAnswers)
      /\ ResultsDue(writing', charRequests', charAnswers)
           = ResultsDue(writing, charRequests, charAnswers)
  <2>1. More(writing, charRequests, charAnswers, writing', charRequests', charAnswers, 0, 0)
      BY <1>1, <1>2, WriteDue, Zenon
  <2>2. /\ ListsDue(writing, charRequests, charAnswers) \in Nat
        /\ ResultsDue(writing, charRequests, charAnswers) \in Nat
      BY <1>2, DueNat
  <2> QED BY ONLY <2>1, <2>2 DEF More
<1>4. writing[g] \in S!Requests /\ charRequests \in Seq(S!Requests)
    BY <1>1, <1>2 DEF Pipe
<1>5. \A i \in DOMAIN charRequests' :
          \/ i \in DOMAIN charRequests /\ charRequests'[i] = charRequests[i]
          \/ charRequests'[i] = writing[g]
    BY <1>1, <1>4, Appended
<1>6. writing'["handler"] \in {writing["handler"], <<>>}
    BY <1>1, <1>2 DEF Pipe
<1>7. writing[g] = writing["handler"] \/ writing[g] \in Enums
    BY <1>1, <1>2 DEF Pipe
<1>8. /\ writing[g] \in Deletions => writing["handler"] \in Deletions
      /\ writing[g] \in Creations => writing[g] = writing["handler"]
    BY <1>7, ScreenKinds
<1>9. ~stray => Requested'
    BY <1>1, <1>5, <1>6, <1>8, ScreenKinds DEF ScreenInv, Requested
<1>10. ~stray => Counted' /\ Answered'
    BY <1>1, <1>3 DEF ScreenInv, Counted, Answered
<1> QED BY <1>1, <1>3, <1>9, <1>10 DEF ScreenInv, ScreenTypes

LEMMA ScreenReconnect == ScreenInv /\ S!Reconnect /\ S!Constants => ScreenInv'
<1> SUFFICES ASSUME ScreenInv, S!Reconnect, S!Constants PROVE ScreenInv'
    OBVIOUS
<1>1. /\ charRequests' = <<>> /\ charAnswers' = <<>>
      /\ writing' = [g \in {"handler", "relay"} |-> <<>>]
      /\ creating' = NoName /\ lists' = 0 /\ stray' = awaitingCreateEnum /\ wrong' = FALSE
      /\ UNCHANGED <<characters, pendingCreateName, awaitingCreateEnum>>
    BY DEF S!Reconnect, S!Goroutines, S!sessionVars
<1>2. writing'["handler"] = <<>> /\ writing'["relay"] = <<>>
    BY <1>1
<1>3. Pipe(writing', charRequests', charAnswers')
    BY <1>1, <1>2 DEF Pipe
<1>4. /\ ListsDue(writing', charRequests', charAnswers') = 0
      /\ ResultsDue(writing', charRequests', charAnswers') = 0
    BY <1>1, <1>2, AllAnswered
<1>5. NoName \notin Names
    BY DEF S!Constants
<1>6. In(NoName, Names) = 0 /\ In(FALSE, {TRUE}) = 0
    BY <1>5 DEF In
<1>7. ASSUME ~stray' PROVE Counted' /\ Requested' /\ Answered'
  <2>1. awaitingCreateEnum' = FALSE
      BY <1>1, <1>7 DEF ScreenInv, ScreenTypes
  <2>2. Counted'
    <3>1. In(awaitingCreateEnum', {TRUE}) = 0
        BY <2>1, <1>6
    <3>2. lists' = 0 /\ In(creating', Names) = 0
        BY <1>1, <1>6
    <3> QED BY <1>4, <3>1, <3>2 DEF Counted
  <2>3. Requested'
      BY <1>1, <1>2, <1>5, ScreenKinds DEF Requested
  <2>4. Answered'
      BY <1>1, <2>1 DEF Answered
  <2> QED BY <2>2, <2>3, <2>4
<1>8. ScreenTypes'
    BY <1>1, <1>3 DEF ScreenInv, ScreenTypes
<1> QED BY <1>1, <1>7, <1>8 DEF ScreenInv

LEMMA AnswerKinds ==
    /\ \A a \in S!Answers : /\ a[1] = "success" => a = <<"success">>
                            /\ a[1] = "failed" => a = <<"failed">>
                            /\ a[1] = "deleted" => a = <<"deleted">>
                            /\ a[1] = "list" => a \in Lists
    /\ \A x \in {<<"success">>, <<"failed">>} : x \in S!Answers /\ x \in Results /\ x \notin Lists
    /\ <<"deleted">> \in S!Answers /\ <<"deleted">> \notin Results /\ <<"deleted">> \notin Lists
    /\ <<"failed">> # <<"success">> /\ <<"deleted">> # <<"success">>
    /\ \A A \in SUBSET Names : /\ <<"list", A>> \in S!Answers /\ <<"list", A>> \in Lists
                               /\ <<"list", A>>[2] = A
    /\ \A a \in Lists : a[2] \in SUBSET Names /\ a # <<"success">>
<1>1. \A a \in S!Answers : /\ a[1] = "success" => a = <<"success">>
                           /\ a[1] = "failed" => a = <<"failed">>
                           /\ a[1] = "deleted" => a = <<"deleted">>
                           /\ a[1] = "list" => a \in Lists /\ a[2] \in SUBSET Names
    BY DEF S!Answers, Lists
<1>2. \A x \in {<<"success">>, <<"failed">>} : x \in S!Answers /\ x \in Results /\ x \notin Lists
    BY DEF S!Answers, Lists, Results
<1>3. <<"deleted">> \in S!Answers /\ <<"deleted">> \notin Results /\ <<"deleted">> \notin Lists
    BY DEF S!Answers, Lists, Results
<1>4. <<"failed">> # <<"success">> /\ <<"deleted">> # <<"success">>
    BY <1>2, <1>3
<1>5. \A A \in SUBSET Names : /\ <<"list", A>> \in S!Answers /\ <<"list", A>> \in Lists
                              /\ <<"list", A>>[2] = A
    BY DEF S!Answers, Lists
<1>6. \A a \in Lists : a[2] \in SUBSET Names /\ a # <<"success">>
    BY <1>1, <1>2 DEF Lists
<1> QED BY <1>1, <1>2, <1>3, <1>4, <1>5, <1>6

LEMMA RequestKinds ==
    \A r \in S!Requests : /\ r[1] = "enum" <=> r \in Enums
                          /\ r[1] = "create" <=> r \in Creations
                          /\ r[1] = "delete" <=> r \in Deletions
                          /\ r \in Creations => r[2] \in Names
BY DEF S!Requests, Enums, Creations, Deletions

\* The realm's answer x to its first request.
LEMMA AnswerStep ==
    ASSUME ScreenInv, charRequests # <<>>, NEW x \in S!Answers,
           Head(charRequests) \in Enums <=> x \in Lists,
           Head(charRequests) \in Creations <=> x \in Results,
           charRequests' = Tail(charRequests), charAnswers' = Append(charAnswers, x),
           characters' \subseteq Names,
           UNCHANGED <<writing, pendingCreateName, awaitingCreateEnum, creating, lists, stray,
                       wrong>>
    PROVE  /\ ScreenTypes' /\ (~stray => Counted' /\ Requested')
           /\ \A i \in DOMAIN charAnswers' :
                 \/ i \in DOMAIN charAnswers /\ charAnswers'[i] = charAnswers[i]
                 \/ charAnswers'[i] = x /\ \A j \in DOMAIN charAnswers : j < i
           /\ \A i \in DOMAIN charAnswers, j \in DOMAIN charAnswers' :
                 j < i => j \in DOMAIN charAnswers
<1>1. Pipe(writing, charRequests, charAnswers)
    BY DEF ScreenInv, ScreenTypes
<1>2. charRequests \in Seq(S!Requests) /\ charAnswers \in Seq(S!Answers)
    BY <1>1 DEF Pipe
<1>3. /\ Pipe(writing, charRequests', charAnswers')
      /\ ListsDue(writing, charRequests', charAnswers')
           = ListsDue(writing, charRequests, charAnswers)
      /\ ResultsDue(writing, charRequests', charAnswers')
           = ResultsDue(writing, charRequests, charAnswers)
  <2>1. More(writing, charRequests, charAnswers, writing, charRequests', charAnswers', 0, 0)
      BY <1>1, AnswerDue, Zenon
  <2>2. /\ ListsDue(writing, charRequests, charAnswers) \in Nat
        /\ ResultsDue(writing, charRequests, charAnswers) \in Nat
      BY <1>1, DueNat
  <2> QED BY ONLY <2>1, <2>2 DEF More
<1>4. ScreenTypes'
    BY <1>3 DEF ScreenInv, ScreenTypes
<1>5. ~stray => Counted'
    BY <1>3 DEF ScreenInv, Counted
<1>6. \A i \in DOMAIN charRequests' : \E j \in DOMAIN charRequests : charRequests'[i] = charRequests[j]
    BY <1>2, TailOf
<1>7. ~stray => Requested'
    BY <1>6 DEF ScreenInv, Requested
<1>8. /\ \A i \in DOMAIN charAnswers' :
                 \/ i \in DOMAIN charAnswers /\ charAnswers'[i] = charAnswers[i]
                 \/ charAnswers'[i] = x /\ \A j \in DOMAIN charAnswers : j < i
      /\ \A i \in DOMAIN charAnswers, j \in DOMAIN charAnswers' :
                 j < i => j \in DOMAIN charAnswers
    BY <1>2, Appended
<1> QED BY <1>4, <1>5, <1>7, <1>8

LEMMA ScreenAnswers == ScreenInv /\ S!RealmAnswers => ScreenInv'
<1> SUFFICES ASSUME ScreenInv, S!RealmAnswers PROVE ScreenInv'
    OBVIOUS
<1> DEFINE h == Head(charRequests)
<1>1. /\ charRequests # <<>> /\ charRequests' = Tail(charRequests)
      /\ UNCHANGED <<writing, pendingCreateName, awaitingCreateEnum, creating, lists, stray,
                     wrong>>
    BY DEF S!RealmAnswers, S!sessionVars
<1>2. \/ h[1] = "enum" /\ characters' = characters
         /\ charAnswers' = Append(charAnswers, <<"list", characters>>)
      \/ h[1] = "create" /\ characters' = characters \cup {h[2]}
         /\ charAnswers' = Append(charAnswers, <<"success">>)
      \/ h[1] = "create" /\ characters' = characters
         /\ charAnswers' = Append(charAnswers, <<"failed">>)
      \/ h[1] = "delete" /\ characters' = characters \ {h[2]}
         /\ charAnswers' = Append(charAnswers, <<"deleted">>)
    BY DEF S!RealmAnswers
<1>3. Pipe(writing, charRequests, charAnswers) /\ characters \subseteq Names
      /\ creating \in Names \cup {NoName} /\ stray \in BOOLEAN
    BY DEF ScreenInv, ScreenTypes
<1>4. h \in S!Requests /\ 1 \in DOMAIN charRequests /\ charRequests[1] = h
    BY <1>1, <1>3, TailOf DEF Pipe
<1> HIDE DEF h
<1>5. /\ h[1] = "enum" <=> h \in Enums
      /\ h[1] = "create" <=> h \in Creations
      /\ h[1] = "delete" <=> h \in Deletions
      /\ h \in Creations => h[2] \in Names
    BY <1>4, RequestKinds
<1>6. CASE /\ h[1] = "enum" /\ characters' = characters
           /\ charAnswers' = Append(charAnswers, <<"list", characters>>)
  <2> DEFINE x == <<"list", characters>>
  <2>1. x \in S!Answers /\ x \in Lists /\ x \notin Results /\ x[2] = characters /\ x # <<"success">>
      BY <1>3, AnswerKinds, ScreenKinds
  <2>2. charAnswers' = Append(charAnswers, x)
      BY <1>6
  <2> HIDE DEF x
  <2>3. h \in Enums /\ h \notin Creations
      BY <1>5, <1>6, ScreenKinds
  <2>4. /\ ScreenTypes' /\ (~stray => Counted' /\ Requested')
        /\ \A i \in DOMAIN charAnswers' :
              \/ i \in DOMAIN charAnswers /\ charAnswers'[i] = charAnswers[i]
              \/ charAnswers'[i] = x /\ \A j \in DOMAIN charAnswers : j < i
        /\ \A i \in DOMAIN charAnswers, j \in DOMAIN charAnswers' :
              j < i => j \in DOMAIN charAnswers
      BY <1>1, <1>3, <1>6, <2>1, <2>2, <2>3, AnswerStep DEF h
  <2>5. ASSUME ~stray PROVE Answered'
    <3>1. /\ awaitingCreateEnum => creating \in characters
          /\ \A i \in DOMAIN charAnswers :
                awaitingCreateEnum /\ charAnswers[i] \in Lists => creating \in charAnswers[i][2]
        BY <2>5, Zenon DEF ScreenInv, Answered
    <3>2. ASSUME NEW i \in DOMAIN charAnswers', charAnswers'[i] = <<"success">>
          PROVE  /\ creating \in characters
                 /\ \A j \in DOMAIN charAnswers' :
                       i < j /\ charAnswers'[j] \in Lists => creating \in charAnswers'[j][2]
      <4>1. i \in DOMAIN charAnswers /\ charAnswers[i] = <<"success">>
          BY <2>1, <2>4, <3>2
      <4>2. /\ creating \in characters
            /\ \A j \in DOMAIN charAnswers :
                  i < j /\ charAnswers[j] \in Lists => creating \in charAnswers[j][2]
          BY <2>5, <4>1 DEF ScreenInv, Answered
      <4> QED BY <2>1, <2>4, <4>2
    <3>3. awaitingCreateEnum => \A i \in DOMAIN charAnswers' :
             charAnswers'[i] \in Lists => creating \in charAnswers'[i][2]
        BY <2>1, <2>4, <3>1
    <3>4. UNCHANGED <<awaitingCreateEnum, creating, characters>>
        BY <1>1, <1>6
    <3> QED BY <3>1, <3>2, <3>3, <3>4, Zenon DEF Answered
  <2> QED BY <1>1, <1>3, <2>4, <2>5 DEF ScreenInv
<1>7. CASE /\ h[1] = "create" /\ characters' = characters \cup {h[2]}
           /\ charAnswers' = Append(charAnswers, <<"success">>)
  <2> DEFINE x == <<"success">>
  <2>1. x \in S!Answers /\ x \notin Lists /\ x \in Results
      BY AnswerKinds
  <2>2. charAnswers' = Append(charAnswers, x)
      BY <1>7
  <2>3. h \notin Enums /\ h \in Creations
      BY <1>5, <1>7, ScreenKinds
  <2>4. /\ ScreenTypes' /\ (~stray => Counted' /\ Requested')
        /\ \A i \in DOMAIN charAnswers' :
              \/ i \in DOMAIN charAnswers /\ charAnswers'[i] = charAnswers[i]
              \/ charAnswers'[i] = x /\ \A j \in DOMAIN charAnswers : j < i
        /\ \A i \in DOMAIN charAnswers, j \in DOMAIN charAnswers' :
              j < i => j \in DOMAIN charAnswers
    <3> HIDE DEF x
    <3> QED BY <1>1, <1>3, <1>5, <1>7, <2>1, <2>2, <2>3, AnswerStep DEF h
  <2>5. ASSUME ~stray PROVE Answered'
    <3>1. ~awaitingCreateEnum
        BY <1>3, <1>4, <2>3, <2>5, NothingDue, OneCreation
    <3>2. creating \in characters' /\ characters \subseteq characters'
        BY <1>4, <1>7, <2>3, <2>5 DEF ScreenInv, Requested
    <3> HIDE DEF x
    <3>3. ASSUME NEW i \in DOMAIN charAnswers', NEW j \in DOMAIN charAnswers', i < j,
                 charAnswers'[i] = <<"success">>, charAnswers'[j] \in Lists
          PROVE  creating \in charAnswers'[j][2]
      <4>1. j \in DOMAIN charAnswers /\ charAnswers'[j] = charAnswers[j]
          BY <2>1, <2>4, <3>3
      <4>2. i \in DOMAIN charAnswers /\ charAnswers'[i] = charAnswers[i]
        <5>1. i \in DOMAIN charAnswers
            BY <2>4, <3>3, <4>1
        <5>2. i \in Nat
            BY <1>3, <5>1 DEF Pipe
        <5> QED BY <2>4, <5>1, <5>2
      <4> QED BY <3>3, <4>1, <4>2, <2>5 DEF ScreenInv, Answered
    <3> QED BY <1>1, <3>1, <3>2, <3>3 DEF Answered
  <2> QED BY <1>1, <1>3, <2>4, <2>5 DEF ScreenInv
<1>8. CASE /\ h[1] = "create" /\ characters' = characters
           /\ charAnswers' = Append(charAnswers, <<"failed">>)
  <2> DEFINE x == <<"failed">>
  <2>1. x \in S!Answers /\ x \notin Lists /\ x \in Results /\ x # <<"success">>
      BY AnswerKinds
  <2>2. charAnswers' = Append(charAnswers, x)
      BY <1>8
  <2> HIDE DEF x
  <2>3. h \notin Enums /\ h \in Creations
      BY <1>5, <1>8, ScreenKinds
  <2>4. /\ ScreenTypes' /\ (~stray => Counted' /\ Requested')
        /\ \A i \in DOMAIN charAnswers' :
              \/ i \in DOMAIN charAnswers /\ charAnswers'[i] = charAnswers[i]
              \/ charAnswers'[i] = x /\ \A j \in DOMAIN charAnswers : j < i
        /\ \A i \in DOMAIN charAnswers, j \in DOMAIN charAnswers' :
              j < i => j \in DOMAIN charAnswers
      BY <1>1, <1>3, <1>8, <2>1, <2>2, <2>3, AnswerStep DEF h
  <2>5. ~stray => Answered'
      BY <1>1, <1>8, <2>1, <2>4 DEF ScreenInv, Answered
  <2> QED BY <1>1, <1>3, <2>4, <2>5 DEF ScreenInv
<1>9. CASE /\ h[1] = "delete" /\ characters' = characters \ {h[2]}
           /\ charAnswers' = Append(charAnswers, <<"deleted">>)
  <2> DEFINE x == <<"deleted">>
  <2>1. x \in S!Answers /\ x \notin Lists /\ x \notin Results /\ x # <<"success">>
      BY AnswerKinds
  <2>2. charAnswers' = Append(charAnswers, x)
      BY <1>9
  <2> HIDE DEF x
  <2>3. h \notin Enums /\ h \notin Creations /\ h \in Deletions
      BY <1>5, <1>9, ScreenKinds
  <2>4. /\ ScreenTypes' /\ (~stray => Counted' /\ Requested')
        /\ \A i \in DOMAIN charAnswers' :
              \/ i \in DOMAIN charAnswers /\ charAnswers'[i] = charAnswers[i]
              \/ charAnswers'[i] = x /\ \A j \in DOMAIN charAnswers : j < i
        /\ \A i \in DOMAIN charAnswers, j \in DOMAIN charAnswers' :
              j < i => j \in DOMAIN charAnswers
      BY <1>1, <1>3, <1>9, <2>1, <2>2, <2>3, AnswerStep DEF h
  <2>5. ASSUME ~stray PROVE Answered'
    <3>1. creating \notin Names
        BY <1>4, <2>3, <2>5 DEF ScreenInv, Requested
    <3>2. ~awaitingCreateEnum /\ \A i \in DOMAIN charAnswers : charAnswers[i] \notin Results
        BY <1>3, <2>5, <3>1, NothingDue, OneCreation
    <3>3. \A i \in DOMAIN charAnswers' : charAnswers'[i] # <<"success">>
        BY <2>1, <2>4, <3>2, AnswerKinds
    <3> QED BY <1>1, <3>2, <3>3 DEF Answered
  <2> QED BY <1>1, <1>3, <2>4, <2>5 DEF ScreenInv
<1> QED BY <1>2, <1>6, <1>7, <1>8, <1>9

\* The relay takes the first answer.
LEMMA TakeStep ==
    ASSUME ScreenInv, charAnswers # <<>>, charAnswers' = Tail(charAnswers)
    PROVE  /\ Pipe(writing, charRequests, charAnswers')
           /\ ListsDue(writing, charRequests, charAnswers')
                + In(Head(charAnswers), Lists) = ListsDue(writing, charRequests, charAnswers)
           /\ ResultsDue(writing, charRequests, charAnswers')
                + In(Head(charAnswers), Results) = ResultsDue(writing, charRequests, charAnswers)
           /\ Head(charAnswers) \in S!Answers
           /\ 1 \in DOMAIN charAnswers /\ charAnswers[1] = Head(charAnswers)
           /\ \A i \in DOMAIN charAnswers' :
                 i \in Nat \ {0} /\ i + 1 \in DOMAIN charAnswers
                 /\ charAnswers'[i] = charAnswers[i + 1]
<1>1. Pipe(writing, charRequests, charAnswers)
    BY DEF ScreenInv, ScreenTypes
<1>2. /\ Head(charAnswers) \in S!Answers
      /\ 1 \in DOMAIN charAnswers /\ charAnswers[1] = Head(charAnswers)
      /\ \A i \in DOMAIN charAnswers' :
            i \in Nat \ {0} /\ i + 1 \in DOMAIN charAnswers
            /\ charAnswers'[i] = charAnswers[i + 1]
    BY <1>1, TailOf DEF Pipe
<1>3. More(writing, charRequests, charAnswers', writing, charRequests, charAnswers,
           In(Head(charAnswers), Lists), In(Head(charAnswers), Results))
    BY <1>1, TakenDue, Zenon
<1> QED BY <1>2, <1>3 DEF More

\* What was said of the answers is said of those left.
LEMMA TakenAnswered ==
    ASSUME ScreenInv, charAnswers # <<>>, charAnswers' = Tail(charAnswers),
           UNCHANGED <<characters, creating>>, awaitingCreateEnum' \in BOOLEAN,
           ~stray, awaitingCreateEnum' = TRUE => charAnswers[1] = <<"success">> \/ awaitingCreateEnum
    PROVE  Answered'
<1>1. /\ 1 \in DOMAIN charAnswers
      /\ \A i \in DOMAIN charAnswers' :
            i \in Nat \ {0} /\ i + 1 \in DOMAIN charAnswers
            /\ charAnswers'[i] = charAnswers[i + 1]
    BY TakeStep
<1>2. Answered
    BY DEF ScreenInv
<1>3. ASSUME NEW i \in DOMAIN charAnswers', charAnswers'[i] = <<"success">>
      PROVE  /\ creating \in characters
             /\ \A j \in DOMAIN charAnswers' :
                   i < j /\ charAnswers'[j] \in Lists => creating \in charAnswers'[j][2]
  <2>1. /\ creating \in characters
        /\ \A j \in DOMAIN charAnswers :
              i + 1 < j /\ charAnswers[j] \in Lists => creating \in charAnswers[j][2]
      BY <1>1, <1>2, <1>3 DEF Answered
  <2>2. \A j \in DOMAIN charAnswers' : i < j => i + 1 < j + 1
      BY <1>1
  <2> QED BY <1>1, <2>1, <2>2
<1>4. ASSUME charAnswers[1] = <<"success">>
      PROVE  /\ creating \in characters
             /\ \A i \in DOMAIN charAnswers' :
                   charAnswers'[i] \in Lists => creating \in charAnswers'[i][2]
  <2>1. /\ creating \in characters
        /\ \A j \in DOMAIN charAnswers :
              1 < j /\ charAnswers[j] \in Lists => creating \in charAnswers[j][2]
      BY <1>1, <1>2, <1>4 DEF Answered
  <2>2. \A j \in DOMAIN charAnswers' : 1 < j + 1
      BY <1>1
  <2> QED BY <1>1, <2>1, <2>2
<1>5. ASSUME awaitingCreateEnum
      PROVE  /\ creating \in characters
             /\ \A i \in DOMAIN charAnswers' :
                   charAnswers'[i] \in Lists => creating \in charAnswers'[i][2]
    BY <1>1, <1>2, <1>5 DEF Answered
<1>6. awaitingCreateEnum' => /\ creating \in characters
                             /\ \A i \in DOMAIN charAnswers' :
                                   charAnswers'[i] \in Lists => creating \in charAnswers'[i][2]
    BY <1>4, <1>5
<1> QED BY <1>3, <1>6, Zenon DEF Answered

LEMMA ScreenRelay == ScreenInv /\ S!Relay /\ S!Constants => ScreenInv'
<1> SUFFICES ASSUME ScreenInv, S!Relay, S!Constants PROVE ScreenInv'
    OBVIOUS
<1> DEFINE h == Head(charAnswers)
           lists1 == ListsDue(writing, charRequests, charAnswers)
           results1 == ResultsDue(writing, charRequests, charAnswers)
<1>1. /\ charAnswers # <<>> /\ writing["relay"] = <<>> /\ charAnswers' = Tail(charAnswers)
      /\ UNCHANGED <<characters, charRequests, stray>>
    BY DEF S!Relay, S!RelayIdle
<1>2. \/ h[1] = "success" /\ pendingCreateName # NoName /\ S!Created
      \/ /\ h[1] = "failed" \/ (h[1] = "success" /\ pendingCreateName = NoName)
         /\ S!NotCreated(h[1] = "success")
      \/ h[1] = "list" /\ S!EnumResult(h[2])
      \/ /\ h[1] = "deleted"
         /\ UNCHANGED <<writing, pendingCreateName, awaitingCreateEnum, creating, lists, wrong>>
    BY DEF S!Relay, S!sessionVars
<1>3. /\ Pipe(writing, charRequests, charAnswers')
      /\ ListsDue(writing, charRequests, charAnswers') + In(h, Lists) = lists1
      /\ ResultsDue(writing, charRequests, charAnswers') + In(h, Results) = results1
      /\ h \in S!Answers /\ 1 \in DOMAIN charAnswers /\ charAnswers[1] = h
    BY <1>1, TakeStep
<1>4. /\ Pipe(writing, charRequests, charAnswers) /\ characters \subseteq Names
      /\ creating \in Names \cup {NoName} /\ stray \in BOOLEAN /\ wrong \in BOOLEAN
      /\ lists \in Nat /\ awaitingCreateEnum \in BOOLEAN /\ NoName \notin Names
    BY DEF ScreenInv, ScreenTypes, S!Constants
<1>5. /\ ListsDue(writing, charRequests, charAnswers') \in Nat
      /\ ResultsDue(writing, charRequests, charAnswers') \in Nat
      /\ lists1 \in Nat /\ results1 \in Nat
    BY <1>3, <1>4, DueNat
<1>6. h \in Results /\ ~stray => creating \in Names /\ ~awaitingCreateEnum /\ results1 = 1
  <2> SUFFICES ASSUME h \in Results, ~stray
               PROVE  creating \in Names /\ ~awaitingCreateEnum /\ results1 = 1
      OBVIOUS
  <2>1. results1 # 0
      BY <1>3, <1>4, NothingDue
  <2>2. creating \in Names /\ ~awaitingCreateEnum
      BY <2>1, OneCreation
  <2>3. results1 + In(awaitingCreateEnum, {TRUE}) = In(creating, Names)
      BY DEF ScreenInv, Counted
  <2>4. In(awaitingCreateEnum, {TRUE}) = 0 /\ In(creating, Names) = 1
      BY <2>2 DEF In
  <2> QED BY ONLY <1>5, <2>2, <2>3, <2>4
<1>0. lists \in Nat
    BY <1>4
<1> HIDE DEF h, lists1, results1
<1>7. CASE h[1] = "success" /\ pendingCreateName # NoName /\ S!Created
  <2>1. /\ awaitingCreateEnum' = TRUE /\ pendingCreateName' = pendingCreateName
        /\ writing' = [writing EXCEPT !["relay"] = <<"enum">>]
        /\ UNCHANGED <<creating, lists, wrong>>
      BY <1>7 DEF S!Created
  <2>2. h = <<"success">> /\ h \in Results /\ h \notin Lists
      BY <1>3, <1>7, AnswerKinds
  <2>3. In(h, Results) = 1 /\ In(h, Lists) = 0 /\ In(TRUE, {TRUE}) = 1
      BY <2>2, OneNat DEF In
  <2>4. /\ Pipe(writing', charRequests, charAnswers')
        /\ ListsDue(writing', charRequests, charAnswers')
             = ListsDue(writing, charRequests, charAnswers') + 1
        /\ ResultsDue(writing', charRequests, charAnswers')
             = ResultsDue(writing, charRequests, charAnswers') + 0
    <3>1. More(writing, charRequests, charAnswers', writing', charRequests, charAnswers', 1, 0)
        BY <1>1, <1>3, <2>1, RelayDue, Zenon
    <3> QED BY ONLY <3>1 DEF More
  <2>5. writing'["handler"] = writing["handler"]
      BY <1>4, <2>1 DEF Pipe
  <2>6. ScreenTypes'
      BY <1>1, <1>4, <2>1, <2>4 DEF ScreenTypes
  <2>7. ASSUME ~stray PROVE Counted' /\ Requested' /\ Answered'
    <3>1. creating \in Names /\ ~awaitingCreateEnum /\ results1 = 1
        BY <1>6, <2>2, <2>7
    <3>2. In(creating, Names) = 1 /\ In(awaitingCreateEnum, {TRUE}) = 0
        BY <3>1 DEF In
    <3>3. lists1 = lists + In(awaitingCreateEnum, {TRUE})
        BY <2>7 DEF ScreenInv, Counted, lists1
    <3>4. /\ ListsDue(writing', charRequests, charAnswers') = lists + 1
          /\ ResultsDue(writing', charRequests, charAnswers') + 1 = 1
      <4>1. results1 = 1
          BY <3>1
      <4>2. lists1 = lists + 0
          BY <3>2, <3>3
      <4> QED BY ONLY <1>0, <1>3, <1>5, <2>3, <2>4, <4>1, <4>2
    <3>5. Counted'
        BY <1>1, <2>1, <2>3, <3>2, <3>4 DEF Counted
    <3>6. Requested'
        BY <1>1, <2>1, <2>5, <2>7 DEF ScreenInv, Requested
    <3>7. Answered'
        BY <1>1, <1>3, <2>1, <2>2, <2>7, TakenAnswered
    <3> QED BY <3>5, <3>6, <3>7
  <2> QED BY <1>1, <1>4, <2>1, <2>6, <2>7 DEF ScreenInv
<1>8. CASE /\ h[1] = "failed" \/ (h[1] = "success" /\ pendingCreateName = NoName)
           /\ S!NotCreated(h[1] = "success")
  <2>1. /\ awaitingCreateEnum' = FALSE /\ pendingCreateName' = NoName /\ creating' = NoName
        /\ wrong' = (wrong \/ creating = NoName \/ (h[1] = "success" /\ NoName # creating))
        /\ UNCHANGED <<lists, writing>>
      BY <1>8 DEF S!NotCreated, S!Result
  <2>2. h \in Results /\ h \notin Lists
      BY <1>3, <1>8, AnswerKinds
  <2>3. ScreenTypes'
      BY <1>1, <1>3, <1>4, <2>1 DEF ScreenTypes
  <2>4. ASSUME ~stray PROVE Counted' /\ Requested' /\ Answered' /\ wrong' = FALSE
    <3>1. creating \in Names /\ ~awaitingCreateEnum /\ results1 = 1
        BY <1>6, <2>2, <2>4
    <3>2. /\ In(h, Results) = 1 /\ In(h, Lists) = 0
          /\ In(awaitingCreateEnum, {TRUE}) = 0 /\ In(FALSE, {TRUE}) = 0
          /\ In(NoName, Names) = 0
        BY <1>4, <2>2, <3>1 DEF In
    <3>3. lists1 = lists + In(awaitingCreateEnum, {TRUE})
        BY <2>4 DEF ScreenInv, Counted, lists1
    <3>4. /\ ListsDue(writing, charRequests, charAnswers') = lists + 0
          /\ ResultsDue(writing, charRequests, charAnswers') = 0
          /\ ResultsDue(writing, charRequests, charAnswers') + 0 = 0
      <4>1. results1 = 1 /\ In(h, Results) = 1 /\ In(h, Lists) = 0
          BY <3>1, <3>2
      <4>2. lists1 = lists + 0
          BY <3>2, <3>3
      <4> QED BY ONLY <1>0, <1>3, <1>5, <4>1, <4>2
    <3>5. Counted'
        BY <1>1, <2>1, <3>2, <3>4 DEF Counted
    <3>6. /\ writing["handler"] \notin Creations
          /\ \A i \in DOMAIN charRequests : charRequests[i] \notin Creations
          /\ \A i \in DOMAIN charAnswers' : charAnswers'[i] \notin Results
        BY <1>3, <3>4, NothingDue
    <3>7. Requested'
        BY <1>1, <1>4, <2>1, <3>6 DEF Requested
    <3>8. Answered'
        BY <2>1, <3>6, AnswerKinds DEF Answered
    <3>9. pendingCreateName = creating /\ wrong = FALSE
        BY <2>4, <3>1 DEF ScreenInv, Requested
    <3>10. ~(h[1] = "success")
        BY <1>4, <1>8, <3>1, <3>9
    <3>11. wrong' = FALSE
        BY <1>4, <2>1, <3>1, <3>9, <3>10
    <3> QED BY <3>5, <3>7, <3>8, <3>11
  <2>5. creating' \in Names \cup {NoName}
      BY <2>1
  <2> QED BY <1>1, <2>3, <2>4, <2>5 DEF ScreenInv
<1>9. CASE h[1] = "list" /\ S!EnumResult(h[2]) /\ awaitingCreateEnum
  <2>1. /\ awaitingCreateEnum' = FALSE /\ pendingCreateName' = NoName /\ creating' = NoName
        /\ wrong' = (wrong \/ creating = NoName
              \/ (IF pendingCreateName \in h[2] THEN pendingCreateName ELSE NoName) # creating)
        /\ UNCHANGED <<lists, writing>>
      BY <1>9 DEF S!EnumResult, S!Result
  <2>2. h \in Lists /\ h \notin Results
      BY <1>3, <1>9, AnswerKinds, ScreenKinds
  <2>3. ScreenTypes'
      BY <1>1, <1>3, <1>4, <2>1 DEF ScreenTypes
  <2>4. ASSUME ~stray PROVE Counted' /\ Requested' /\ Answered' /\ wrong' = FALSE
    <3>1. creating \in Names /\ results1 = 0
        BY <1>9, <2>4, OneCreation DEF results1
    <3>2. /\ In(h, Results) = 0 /\ In(h, Lists) = 1
          /\ In(awaitingCreateEnum, {TRUE}) = 1 /\ In(FALSE, {TRUE}) = 0
          /\ In(NoName, Names) = 0
      <4>1. awaitingCreateEnum \in {TRUE}
          BY <1>4, <1>9
      <4>2. In(awaitingCreateEnum, {TRUE}) = 1
          BY <4>1, OneNat, Zenon
      <4>3. In(FALSE, {TRUE}) = 0
          BY DEF In
      <4> QED BY <1>4, <2>2, <4>2, <4>3, OneNat, Zenon
    <3>3. lists1 = lists + In(awaitingCreateEnum, {TRUE})
        BY <2>4 DEF ScreenInv, Counted, lists1
    <3>4. /\ ListsDue(writing, charRequests, charAnswers') = lists + 0
          /\ ResultsDue(writing, charRequests, charAnswers') = 0
          /\ ResultsDue(writing, charRequests, charAnswers') + 0 = 0
      <4>1. results1 = 0 /\ In(h, Results) = 0 /\ In(h, Lists) = 1
          BY <3>1, <3>2
      <4>2. lists1 = lists + 1
          BY <3>2, <3>3
      <4> QED BY ONLY <1>0, <1>3, <1>5, <4>1, <4>2
    <3>5. Counted'
        BY <1>1, <2>1, <3>2, <3>4 DEF Counted
    <3>6. /\ writing["handler"] \notin Creations
          /\ \A i \in DOMAIN charRequests : charRequests[i] \notin Creations
          /\ \A i \in DOMAIN charAnswers' : charAnswers'[i] \notin Results
        BY <1>3, <3>4, NothingDue
    <3>7. Requested'
        BY <1>1, <1>4, <2>1, <3>6 DEF Requested
    <3>8. Answered'
        BY <2>1, <3>6, AnswerKinds DEF Answered
    <3>9. pendingCreateName = creating /\ wrong = FALSE
        BY <2>4, <3>1 DEF ScreenInv, Requested
    <3>10. creating \in h[2]
        BY <1>3, <1>9, <2>2, <2>4 DEF ScreenInv, Answered
    <3>11. wrong' = FALSE
        BY <1>4, <2>1, <3>1, <3>9, <3>10
    <3> QED BY <3>5, <3>7, <3>8, <3>11
  <2>5. creating' \in Names \cup {NoName}
      BY <2>1
  <2> QED BY <1>1, <2>3, <2>4, <2>5 DEF ScreenInv
<1>10. CASE h[1] = "list" /\ S!EnumResult(h[2]) /\ ~awaitingCreateEnum
  <2>1. /\ lists' = IF lists = 0 THEN 0 ELSE lists - 1
        /\ wrong' = (wrong \/ lists = 0)
        /\ UNCHANGED <<pendingCreateName, awaitingCreateEnum, creating, writing>>
      BY <1>10 DEF S!EnumResult, S!sessionVars
  <2>2. h \in Lists /\ h \notin Results
      BY <1>3, <1>10, AnswerKinds, ScreenKinds
  <2>3. lists' \in Nat /\ wrong' \in BOOLEAN
      BY <1>4, <2>1
  <2>4. ScreenTypes'
      BY <1>1, <1>3, <1>4, <2>1, <2>3 DEF ScreenTypes
  <2>5. ASSUME ~stray PROVE Counted' /\ Requested' /\ Answered' /\ wrong' = FALSE
    <3>1. In(h, Results) = 0 /\ In(h, Lists) = 1 /\ In(awaitingCreateEnum, {TRUE}) = 0
      <4>1. awaitingCreateEnum \notin {TRUE}
          BY <1>10
      <4> QED BY <2>2, <4>1, OneNat
    <3>2. /\ lists1 = lists + In(awaitingCreateEnum, {TRUE})
          /\ results1 + In(awaitingCreateEnum, {TRUE}) = In(creating, Names)
        BY <2>5 DEF ScreenInv, Counted, lists1, results1
    <3>3. lists # 0
        BY ONLY <1>3, <1>4, <1>5, <3>1, <3>2
    <3>4. lists' = lists - 1
        BY <2>1, <3>3
    <3>5. /\ ListsDue(writing, charRequests, charAnswers')
               = lists - 1 + In(awaitingCreateEnum, {TRUE})
          /\ ResultsDue(writing, charRequests, charAnswers') + In(awaitingCreateEnum, {TRUE})
               = In(creating, Names)
        BY ONLY <1>3, <1>4, <1>5, <3>1, <3>2, <3>3
    <3>6. Counted'
        BY <1>1, <2>1, <3>4, <3>5 DEF Counted
    <3>7. Requested'
        BY <1>1, <2>1, <2>5 DEF ScreenInv, Requested
    <3>8. Answered'
        BY <1>1, <1>4, <2>1, <2>5, TakenAnswered
    <3>9. wrong' = FALSE
        BY <2>1, <2>5, <3>3 DEF ScreenInv
    <3> QED BY <3>6, <3>7, <3>8, <3>9
  <2> QED BY <1>1, <1>4, <2>1, <2>4, <2>5 DEF ScreenInv
<1>11. CASE /\ h[1] = "deleted"
            /\ UNCHANGED <<writing, pendingCreateName, awaitingCreateEnum, creating, lists, wrong>>
  <2>1. h \notin Lists /\ h \notin Results
      BY <1>3, <1>11, AnswerKinds
  <2>2. In(h, Results) = 0 /\ In(h, Lists) = 0
      BY <2>1, OneNat
  <2>3. ScreenTypes'
      BY <1>1, <1>3, <1>4, <1>11 DEF ScreenTypes
  <2>4. ASSUME ~stray PROVE Counted' /\ Requested' /\ Answered'
    <3>1. /\ ListsDue(writing, charRequests, charAnswers') = lists1
          /\ ResultsDue(writing, charRequests, charAnswers') = results1
        BY ONLY <1>3, <1>5, <2>2
    <3>2. Counted'
        BY <1>1, <1>11, <2>4, <3>1 DEF ScreenInv, Counted, lists1, results1
    <3>3. Requested'
        BY <1>1, <1>11, <2>4 DEF ScreenInv, Requested
    <3>4. Answered'
        BY <1>1, <1>4, <1>11, <2>4, TakenAnswered
    <3> QED BY <3>2, <3>3, <3>4
  <2> QED BY <1>1, <1>4, <1>11, <2>3, <2>4 DEF ScreenInv
<1> QED BY <1>2, <1>7, <1>8, <1>9, <1>10, <1>11

LEMMA ScreenNext == ScreenInv /\ [S!Next]_screenVars => ScreenInv'
<1> SUFFICES ASSUME ScreenInv, [S!Next]_screenVars PROVE ScreenInv'
    OBVIOUS
<1>1. S!Constants
    BY ServerConstants DEF ServerConstants
<1>2. CASE UNCHANGED screenVars
    BY <1>2 DEF screenVars, ScreenInv, ScreenTypes, Counted, Requested, Answered
<1>3. CASE S!Next
    BY <1>1, <1>3, ScreenEnum, ScreenCreate, ScreenDelete, ScreenWrite, ScreenReconnect,
       ScreenAnswers, ScreenRelay DEF S!Next
<1> QED BY <1>2, <1>3

LEMMA ScreenStep == [ServerNext]_allVars => [S!Next]_screenVars
BY DEF ServerNext, allVars, Rests

LEMMA ScreenInit == ServerInit => ScreenInv
<1> SUFFICES ASSUME ServerInit PROVE ScreenInv
    OBVIOUS
<1>1. /\ characters = {} /\ charRequests = <<>> /\ charAnswers = <<>>
      /\ writing = [g \in {"handler", "relay"} |-> <<>>]
      /\ pendingCreateName = NoName /\ awaitingCreateEnum = FALSE
      /\ creating = NoName /\ lists = 0 /\ stray = FALSE /\ wrong = FALSE
    BY DEF ServerInit, S!Init, S!Goroutines
<1>2. writing["handler"] = <<>> /\ writing["relay"] = <<>> /\ NoName \notin Names
    BY <1>1, ServerConstants DEF ServerConstants, S!Constants
<1>3. ScreenTypes
  <2>1. Pipe(writing, charRequests, charAnswers)
      BY <1>1, <1>2 DEF Pipe
  <2> QED BY <1>1, <2>1 DEF ScreenTypes
<1>4. /\ ListsDue(writing, charRequests, charAnswers) = 0
      /\ ResultsDue(writing, charRequests, charAnswers) = 0
    BY <1>1, <1>2, AllAnswered
<1>5. In(awaitingCreateEnum, {TRUE}) = 0 /\ In(creating, Names) = 0
    BY <1>1, <1>2 DEF In
<1>6. Counted
    BY <1>1, <1>4, <1>5 DEF Counted
<1>7. Requested /\ Answered
    BY <1>1, <1>2, ScreenKinds DEF Requested, Answered
<1> QED BY <1>1, <1>3, <1>6, <1>7 DEF ScreenInv

\* Any number of names, lists and lost connections: the client is sent one result for a
\* creation, with the new character, and one list for each it asked for, whichever list the
\* relay takes for its own, unless the last connection was lost while the relay waited.
THEOREM ScreenAnswersMatch == ServerSpec => []AnswersMatch
<1>1. ServerInit => ScreenInv
    BY ScreenInit
<1>2. ScreenInv => AnswersMatch
  <2> SUFFICES ASSUME ScreenInv, ~stray
               PROVE  ~wrong /\ (S!AtRest => creating = NoName /\ lists = 0)
      BY DEF AnswersMatch, S!AnswersMatch
  <2>1. ~wrong
      BY DEF ScreenInv
  <2>2. ASSUME S!AtRest PROVE creating = NoName /\ lists = 0
    <3>1. /\ ListsDue(writing, charRequests, charAnswers) = 0
          /\ ResultsDue(writing, charRequests, charAnswers) = 0
        BY <2>2, AllAnswered DEF S!AtRest, S!Goroutines
    <3>2. PICK b, c : b = In(awaitingCreateEnum, {TRUE}) /\ c = In(creating, Names)
        OBVIOUS
    <3>3. b \in Nat /\ lists \in Nat /\ 0 = lists + b /\ 0 + b = c
        BY <3>1, <3>2, OneNat DEF ScreenInv, ScreenTypes, Counted
    <3>4. lists = 0 /\ c = 0
        BY ONLY <3>3
    <3>5. creating \notin Names
      <4> SUFFICES ASSUME creating \in Names PROVE FALSE
          OBVIOUS
      <4>1. c = 1
          BY <3>2, OneNat, Zenon
      <4> QED BY ONLY <3>4, <4>1
    <3> QED BY <3>4, <3>5 DEF ScreenInv
  <2> QED BY <2>1, <2>2
<1>3. ScreenInv /\ [ServerNext]_allVars => ScreenInv'
    BY ScreenStep, ScreenNext
<1> QED BY <1>1, <1>2, <1>3, PTL DEF ServerSpec, allVars

-----------------------------------------------------------------------------
(* Loot rolls.                                                               *)

\* The rolls an answer to which is known.
Remembered(rolls, completed) == rolls \cup {completed[i] : i \in DOMAIN completed}

RollTypes ==
    /\ open \subseteq L!Rolls /\ lootRolls \subseteq L!Rolls
    /\ completedLootRolls \in Seq(L!Rolls)
    /\ IsFiniteSet(open) /\ IsFiniteSet(lootRolls)
    /\ started \in Nat /\ currentMapID \in L!Maps /\ refused \in BOOLEAN

\* What is remembered beside the open rolls, and what lies on another map, is of muddled
\* items.
OpenKept ==
    /\ open \subseteq dialogs /\ open \subseteq lootRolls
    /\ \A r, s \in open : r.corpse = s.corpse /\ r.item = s.item => r = s
    /\ \A r \in open : r.map # currentMapID => r.item \in muddled
    /\ \A r \in dialogs \cup lootRolls : r \notin open => r.item \in muddled

\* No more rolls are completed than were started and are not open; until more are started
\* than are remembered, no answer is to a roll that is forgotten.
AnswersKept ==
    /\ Len(completedLootRolls) + Cardinality(open) <= started
    /\ started <= MaxCompleted =>
          ~refused /\ dialogs \cup answers \subseteq Remembered(lootRolls, completedLootRolls)

RollInv == RollTypes /\ OpenKept /\ AnswersKept

LEMMA RollStep == [ServerNext]_allVars => [L!Next]_rollVars
BY DEF ServerNext, allVars, Rests

LEMMA Named ==
    ASSUME RollTypes, NEW r \in L!Rolls
    PROVE  /\ L!Reference(r.corpse, r.item) \in L!Rolls
           /\ L!Reference(r.corpse, r.item).corpse = r.corpse
           /\ L!Reference(r.corpse, r.item).item = r.item
           /\ L!Reference(r.corpse, r.item) = r <=> r.map = currentMapID
BY DEF L!Reference, L!Rolls, RollTypes

LEMMA RollStart ==
    ASSUME RollInv, NEW corpse \in Corpses, NEW item \in Items, L!StartRoll(corpse, item)
    PROVE  RollInv'
<1> DEFINE r == L!Reference(corpse, item)
<1>1. /\ started' = started + 1 /\ \A s \in open : ~(s.corpse = corpse /\ s.item = item)
      /\ open' = open \cup {r} /\ lootRolls' = lootRolls \cup {r} /\ dialogs' = dialogs \cup {r}
      /\ UNCHANGED <<answers, currentMapID, completedLootRolls, muddled, refused>>
    BY DEF L!StartRoll, L!Reference
<1>2. r \in L!Rolls /\ r.corpse = corpse /\ r.item = item /\ r.map = currentMapID
    BY DEF L!Reference, L!Rolls, RollTypes, RollInv
<1> HIDE DEF r
<1>3. r \notin open
    BY <1>1, <1>2
<1>4. IsFiniteSet(open') /\ IsFiniteSet(lootRolls') /\ Cardinality(open') = Cardinality(open) + 1
      /\ Cardinality(open) \in Nat
    BY <1>1, <1>3, FS_AddElement, FS_CardinalityType DEF RollInv, RollTypes
<1>5. RollTypes'
    BY <1>1, <1>2, <1>4 DEF RollInv, RollTypes
<1>6. OpenKept'
    BY <1>1, <1>2, <1>3 DEF RollInv, OpenKept
<1>7. Len(completedLootRolls) + Cardinality(open) + 1 <= started + 1
  <2>1. Len(completedLootRolls) \in Nat /\ started \in Nat
      BY DEF RollInv, RollTypes
  <2>2. Len(completedLootRolls) + Cardinality(open) <= started
      BY DEF RollInv, AnswersKept
  <2> QED BY ONLY <1>4, <2>1, <2>2
<1>8. Len(completedLootRolls)' + Cardinality(open') <= started'
  <2>1. Len(completedLootRolls) \in Nat
      BY DEF RollInv, RollTypes
  <2> QED BY <1>1, <1>4, <1>7, <2>1
<1>9. started' <= MaxCompleted => started <= MaxCompleted
    BY <1>1, ServerConstants DEF ServerConstants, L!Constants, RollInv, RollTypes
<1>10. AnswersKept'
    BY <1>1, <1>8, <1>9 DEF RollInv, AnswersKept, Remembered
<1> QED BY <1>5, <1>6, <1>10 DEF RollInv

LEMMA SameSize == \A A : L!Cardinality(A) = Cardinality(A)
BY DEF L!Cardinality, Cardinality

\* What resolveLootRollLocked finds for an open roll: the roll itself, or one under the map
\* of now, or nothing.
LEMMA Resolved ==
    ASSUME RollInv, NEW r \in open, NEW withCorpse \in BOOLEAN
    PROVE  /\ L!Resolve(r, withCorpse) \subseteq L!Rolls /\ IsFiniteSet(L!Resolve(r, withCorpse))
           /\ \A s \in L!Resolve(r, withCorpse) :
                 /\ L!Resolve(r, withCorpse) = {s} /\ s.item = r.item
                 /\ s # r => s \notin open /\ r.item \in muddled
           /\ r \notin L!Resolve(r, withCorpse) =>
                 \/ r.item \in muddled
                 \/ ~withCorpse /\ \E s \in open : s # r /\ s.item = r.item
<1> DEFINE ref == L!Reference(r.corpse, r.item)
           same == {s \in lootRolls : s.item = r.item}
<1>1. r \in L!Rolls /\ r \in same /\ same \subseteq L!Rolls
    BY DEF RollInv, OpenKept, RollTypes
<1>2. IsFiniteSet(same)
    BY FS_Subset DEF RollInv, RollTypes
<1>3. Cardinality(same) = 1 => same = {r}
    BY <1>1, <1>2, FS_Singleton
<1>4. Cardinality(same) # 1 => \E s \in same : s # r
  <2>1. Cardinality({r}) = 1
      BY FS_Singleton
  <2>2. (\A s \in same : s = r) => same = {r}
      BY <1>1
  <2> QED BY <2>1, <2>2
<1>5. /\ ref \in L!Rolls /\ ref.corpse = r.corpse /\ ref.item = r.item
      /\ ref = r <=> r.map = currentMapID
    BY <1>1, Named DEF RollInv
<1>6. ref # r => ref \notin open /\ r.item \in muddled
    BY <1>5 DEF RollInv, OpenKept
<1>7. IsFiniteSet({ref}) /\ IsFiniteSet({r}) /\ IsFiniteSet({})
    BY FS_Singleton, FS_EmptySet
<1>8. CASE withCorpse = TRUE
  <2>1. L!Resolve(r, withCorpse) = {ref}
      BY <1>8 DEF L!Resolve
  <2> HIDE DEF ref
  <2> QED BY <1>5, <1>6, <1>7, <2>1
<1>9. CASE withCorpse = FALSE
  <2>1. L!Resolve(r, withCorpse) = IF Cardinality(same) = 1 THEN same ELSE {}
      BY <1>9, SameSize DEF L!Resolve
  <2>2. CASE Cardinality(same) = 1
    <3>1. L!Resolve(r, withCorpse) = {r}
        BY <1>3, <2>1, <2>2
    <3> QED BY <1>1, <1>7, <3>1
  <2>3. CASE Cardinality(same) # 1
    <3>1. L!Resolve(r, withCorpse) = {}
        BY <2>1, <2>3
    <3>2. PICK s \in lootRolls : s # r /\ s.item = r.item
        BY <1>4, <2>3
    <3>3. s \in open \/ r.item \in muddled
        BY <3>2 DEF RollInv, OpenKept
    <3> QED BY <1>7, <1>9, <3>1, <3>2, <3>3
  <2> QED BY <2>2, <2>3
<1> QED BY <1>8, <1>9

LEMMA RollTold ==
    ASSUME RollInv, NEW r \in open, L!RollBroadcast(r)
    PROVE  RollInv'
<1>1. PICK withCorpse \in BOOLEAN : lootRolls' = lootRolls \cup L!Resolve(r, withCorpse)
    BY DEF L!RollBroadcast
<1>2. UNCHANGED <<open, started, answers, currentMapID, completedLootRolls, dialogs,
                  muddled, refused>>
    BY DEF L!RollBroadcast
<1> DEFINE found == L!Resolve(r, withCorpse)
<1>3. /\ found \subseteq L!Rolls /\ IsFiniteSet(found)
      /\ \A s \in found : s.item = r.item /\ (s # r => s \notin open /\ r.item \in muddled)
    BY Resolved
<1> HIDE DEF found
<1>4. lootRolls' = lootRolls \cup found
    BY <1>1 DEF found
<1>5. IsFiniteSet(lootRolls')
    BY <1>3, <1>4, FS_Union DEF RollInv, RollTypes
<1>6. RollTypes'
    BY <1>2, <1>3, <1>4, <1>5 DEF RollInv, RollTypes
<1>7. OpenKept'
    BY <1>2, <1>3, <1>4 DEF RollInv, OpenKept
<1>8. AnswersKept'
    BY <1>2, <1>4 DEF RollInv, AnswersKept, Remembered
<1> QED BY <1>6, <1>7, <1>8 DEF RollInv

\* completeLootRollLocked remembers what it removes, as long as there is room.
LEMMA Completed ==
    ASSUME RollTypes, NEW found, found \subseteq L!Rolls, \A s \in found : found = {s},
           L!Complete(found)
    PROVE  /\ lootRolls' = lootRolls \ found /\ completedLootRolls' \in Seq(L!Rolls)
           /\ Len(completedLootRolls') <= Len(completedLootRolls) + 1
           /\ Len(completedLootRolls) < MaxCompleted =>
                 Remembered(lootRolls, completedLootRolls)
                     \subseteq Remembered(lootRolls', completedLootRolls')
<1>1. completedLootRolls \in Seq(L!Rolls) /\ lootRolls' = lootRolls \ found
    BY DEF RollTypes, L!Complete
<1>2. CASE found = {}
    BY <1>1, <1>2 DEF L!Complete, Remembered
<1>3. ASSUME NEW s \in found
      PROVE  /\ completedLootRolls' \in Seq(L!Rolls)
             /\ Len(completedLootRolls') <= Len(completedLootRolls) + 1
             /\ Len(completedLootRolls) < MaxCompleted =>
                   Remembered(lootRolls, completedLootRolls)
                       \subseteq Remembered(lootRolls', completedLootRolls')
  <2> DEFINE kept == IF Len(completedLootRolls) >= MaxCompleted
                     THEN Tail(completedLootRolls) ELSE completedLootRolls
  <2>1. found = {s} /\ s \in L!Rolls
      OBVIOUS
  <2>2. completedLootRolls' = Append(kept, s)
      BY <2>1 DEF L!Complete
  <2>3. Len(completedLootRolls) \in Nat /\ MaxCompleted \in Nat \ {0}
      BY <1>1, ServerConstants DEF ServerConstants, L!Constants
  <2>4. kept \in Seq(L!Rolls) /\ Len(kept) <= Len(completedLootRolls)
    <3>1. CASE Len(completedLootRolls) >= MaxCompleted
      <4>1. completedLootRolls # <<>>
          BY <2>3, <3>1
      <4> QED BY <1>1, <3>1, <4>1
    <3>2. CASE ~(Len(completedLootRolls) >= MaxCompleted)
        BY <1>1, <2>3, <3>2
    <3> QED BY <3>1, <3>2
  <2>5. Len(completedLootRolls) < MaxCompleted => kept = completedLootRolls
      BY <2>3
  <2> HIDE DEF kept
  <2>6. /\ Append(kept, s) \in Seq(L!Rolls) /\ Len(Append(kept, s)) = Len(kept) + 1
        /\ Len(kept) \in Nat
        /\ \A i \in DOMAIN kept : i \in DOMAIN Append(kept, s) /\ Append(kept, s)[i] = kept[i]
        /\ \E i \in DOMAIN Append(kept, s) : Append(kept, s)[i] = s
      BY <2>1, <2>4
  <2>7. Len(Append(kept, s)) <= Len(completedLootRolls) + 1
      BY ONLY <2>3, <2>4, <2>6
  <2>8. kept = completedLootRolls =>
            Remembered(lootRolls, completedLootRolls)
                \subseteq Remembered(lootRolls', completedLootRolls')
      BY <1>1, <2>1, <2>2, <2>6 DEF Remembered
  <2> QED BY <2>2, <2>5, <2>6, <2>7, <2>8
<1> QED BY <1>1, <1>2, <1>3

LEMMA RollEnds ==
    ASSUME RollInv, NEW r \in open, L!EndRoll(r)
    PROVE  RollInv'
<1>1. PICK withCorpse \in BOOLEAN :
          /\ L!Complete(L!Resolve(r, withCorpse))
          /\ dialogs' = dialogs \ L!Resolve(r, withCorpse)
          /\ muddled' = IF ~withCorpse /\ \E s \in open' : s.item = r.item
                        THEN muddled \cup {r.item} ELSE muddled
    BY DEF L!EndRoll
<1>2. open' = open \ {r} /\ UNCHANGED <<started, answers, currentMapID, refused>>
    BY DEF L!EndRoll
<1> DEFINE found == L!Resolve(r, withCorpse)
<1>3. /\ found \subseteq L!Rolls
      /\ \A s \in found : found = {s} /\ (s # r => s \notin open /\ r.item \in muddled)
      /\ r \notin found => \/ r.item \in muddled
                           \/ ~withCorpse /\ \E s \in open : s # r /\ s.item = r.item
    BY Resolved
<1>4. /\ L!Complete(found) /\ dialogs' = dialogs \ found /\ muddled \subseteq muddled'
      /\ r \notin found => r.item \in muddled'
    BY <1>1, <1>2, <1>3
<1> HIDE DEF found
<1>5. /\ lootRolls' = lootRolls \ found /\ completedLootRolls' \in Seq(L!Rolls)
      /\ Len(completedLootRolls') <= Len(completedLootRolls) + 1
      /\ Len(completedLootRolls) < MaxCompleted =>
            Remembered(lootRolls, completedLootRolls)
                \subseteq Remembered(lootRolls', completedLootRolls')
    BY <1>3, <1>4, Completed DEF RollInv
<1>6. /\ IsFiniteSet(open') /\ Cardinality(open') = Cardinality(open) - 1
      /\ Cardinality(open) \in Nat /\ Cardinality(open') \in Nat
    BY <1>2, FS_RemoveElement, FS_CardinalityType DEF RollInv, RollTypes
<1>7. IsFiniteSet(lootRolls')
    BY <1>5, FS_Subset DEF RollInv, RollTypes
<1>8. RollTypes'
    BY <1>2, <1>5, <1>6, <1>7 DEF RollInv, RollTypes
<1>9. OpenKept'
  <2>1. \A s \in open' : s \notin found
      BY <1>2, <1>3
  <2>2. open' \subseteq dialogs' /\ open' \subseteq lootRolls'
      BY <1>2, <1>4, <1>5, <2>1 DEF RollInv, OpenKept
  <2>3. \A s \in dialogs' \cup lootRolls' : s \notin open' => s.item \in muddled'
      BY <1>2, <1>4, <1>5 DEF RollInv, OpenKept
  <2> QED BY <1>2, <1>4, <2>2, <2>3 DEF RollInv, OpenKept
<1>10. Len(completedLootRolls') + Cardinality(open') <= started
       /\ Len(completedLootRolls) < started
  <2>1. /\ Len(completedLootRolls) + Cardinality(open) <= started
        /\ Len(completedLootRolls) \in Nat /\ started \in Nat
      BY DEF RollInv, AnswersKept, RollTypes
  <2>2. Len(completedLootRolls') \in Nat
      BY <1>5
  <2> QED BY ONLY <1>5, <1>6, <2>1, <2>2
<1>11. ASSUME started <= MaxCompleted
       PROVE  /\ ~refused
              /\ dialogs' \cup answers' \subseteq Remembered(lootRolls', completedLootRolls')
  <2>1. Len(completedLootRolls) < MaxCompleted
    <3>1. /\ Len(completedLootRolls) \in Nat /\ started \in Nat /\ MaxCompleted \in Nat
        BY ServerConstants DEF ServerConstants, L!Constants, RollInv, RollTypes
    <3> QED BY ONLY <1>10, <1>11, <3>1
  <2> QED BY <1>2, <1>4, <1>5, <1>11, <2>1 DEF RollInv, AnswersKept
<1>12. AnswersKept'
    BY <1>2, <1>10, <1>11 DEF AnswersKept
<1> QED BY <1>8, <1>9, <1>12 DEF RollInv

LEMMA RollNext == RollInv /\ [L!Next]_rollVars => RollInv'
<1> SUFFICES ASSUME RollInv, [L!Next]_rollVars PROVE RollInv'
    OBVIOUS
<1>1. CASE UNCHANGED rollVars
    BY <1>1 DEF rollVars, RollInv, RollTypes, OpenKept, AnswersKept
<1>2. CASE L!NewWorld
  <2>1. /\ currentMapID' \in L!Maps /\ \A r \in open : r.item \in muddled'
        /\ muddled \subseteq muddled'
        /\ UNCHANGED <<open, started, answers, lootRolls, completedLootRolls, dialogs, refused>>
      BY <1>2, ServerConstants
         DEF L!NewWorld, L!Maps, RollInv, RollTypes, ServerConstants, L!Constants
  <2>2. OpenKept'
      BY <2>1 DEF RollInv, OpenKept
  <2>3. RollTypes' /\ AnswersKept'
      BY <2>1 DEF RollInv, RollTypes, AnswersKept
  <2> QED BY <2>2, <2>3 DEF RollInv
<1>3. CASE L!LogoutComplete
  <2>1. /\ open' = {} /\ answers' = {} /\ dialogs' = {} /\ lootRolls' = {}
        /\ completedLootRolls' = <<>> /\ UNCHANGED <<started, currentMapID, refused>>
      BY <1>3 DEF L!LogoutComplete
  <2>2. IsFiniteSet({}) /\ Cardinality({}) = 0
      BY FS_EmptySet
  <2>3. RollTypes'
      BY <2>1, <2>2 DEF RollInv, RollTypes
  <2>4. Len(completedLootRolls') + Cardinality(open') <= started'
      BY <2>1, <2>2 DEF RollInv, RollTypes
  <2>5. AnswersKept'
      BY <2>1, <2>4 DEF RollInv, AnswersKept
  <2>6. OpenKept'
      BY <2>1 DEF OpenKept
  <2> QED BY <2>3, <2>5, <2>6 DEF RollInv
<1>4. ASSUME NEW r \in dialogs, L!Answer(r) PROVE RollInv'
  <2>1. /\ answers' = {r}
        /\ UNCHANGED <<open, started, currentMapID, lootRolls, completedLootRolls, dialogs,
                       muddled, refused>>
      BY <1>4 DEF L!Answer
  <2> QED BY <1>4, <2>1 DEF RollInv, RollTypes, OpenKept, AnswersKept
<1>5. ASSUME NEW r \in answers, L!LootRoll(r) PROVE RollInv'
  <2>1. /\ answers' = answers \ {r} /\ refused' = (refused \/ ~L!Known(r))
        /\ UNCHANGED <<open, started, currentMapID, lootRolls, completedLootRolls, dialogs,
                       muddled>>
      BY <1>5 DEF L!LootRoll
  <2>2. r \in Remembered(lootRolls, completedLootRolls) => L!Known(r)
      BY DEF Remembered, L!Known
  <2>3. started <= MaxCompleted => ~refused'
      BY <1>5, <2>1, <2>2 DEF RollInv, AnswersKept
  <2>4. AnswersKept'
      BY <2>1, <2>3 DEF RollInv, AnswersKept
  <2>5. refused' \in BOOLEAN
      BY <2>1 DEF RollInv, RollTypes
  <2>6. RollTypes' /\ OpenKept'
      BY <2>1, <2>5 DEF RollInv, RollTypes, OpenKept
  <2> QED BY <2>4, <2>6 DEF RollInv
<1> QED BY <1>1, <1>2, <1>3, <1>4, <1>5, RollStart, RollTold, RollEnds DEF L!Next

LEMMA RollInit == ServerInit => RollInv
<1> SUFFICES ASSUME ServerInit PROVE RollInv
    OBVIOUS
<1>1. /\ open = {} /\ started = 0 /\ answers = {} /\ currentMapID = 0 /\ lootRolls = {}
      /\ completedLootRolls = <<>> /\ dialogs = {} /\ refused = FALSE
    BY DEF ServerInit, L!Init
<1>2. IsFiniteSet({}) /\ Cardinality({}) = 0 /\ 0 \in L!Maps
    BY FS_EmptySet, ServerConstants DEF L!Maps, ServerConstants, L!Constants
<1>3. RollTypes
  <2>1. <<>> \in Seq(L!Rolls)
      OBVIOUS
  <2> QED BY <1>1, <1>2, <2>1 DEF RollTypes
<1>4. Len(completedLootRolls) + Cardinality(open) <= started
    BY <1>1, <1>2
<1> QED BY <1>1, <1>3, <1>4 DEF RollInv, OpenKept, AnswersKept

\* Any number of corpses, items, rolls and maps: a dialog is open for every open roll, one
\* of an ended roll only if its item is muddled, and no answer, however late, is refused
\* until more rolls were started than completeLootRollLocked remembers.
THEOREM DialogsFollow == ServerSpec => []DialogsFollowRolls
<1>1. ServerInit => RollInv
    BY RollInit
<1>2. RollInv => DialogsFollowRolls
    BY DEF RollInv, OpenKept, AnswersKept, DialogsFollowRolls, L!DialogsFollowRolls
<1>3. RollInv /\ [ServerNext]_allVars => RollInv'
    BY RollStep, RollNext
<1> QED BY <1>1, <1>2, <1>3, PTL DEF ServerSpec, allVars

-----------------------------------------------------------------------------
(* Flights.                                                                  *)

FlightTypes ==
    /\ flight \in Nat /\ taxiPackets \in Seq({"ok", "refusal", "fly"})
    /\ flown \in Seq({"start", "success", "segment", "refusal"})
    /\ taxiReplyPending \in BOOLEAN /\ taxiLoginGrace \in BOOLEAN
    /\ relogged \in BOOLEAN /\ late \in BOOLEAN

AllFly(s) == \A i \in DOMAIN s : s[i] = "fly"
\* The n-th of what the client is sent is a segment, from n on.
SegmentsFrom(n) == \A i \in DOMAIN flown : i >= n => flown[i] = "segment"

\* The stages of a flight: no flight; accepted, and its success on the way; the success
\* kept; started; the client back in the middle of it; shown again to the client.
OnGround ==
    /\ flight = 0 /\ flown = <<>> /\ ~relogged /\ ~taxiReplyPending
    /\ taxiPackets \in {<<>>, <<"refusal">>}
Accepted ==
    /\ flight > 0 /\ flown = <<>> /\ ~relogged /\ ~taxiReplyPending
    /\ taxiPackets # <<>> /\ Head(taxiPackets) = "ok"
    /\ Tail(taxiPackets) # <<>> /\ AllFly(Tail(taxiPackets))
Replied ==
    /\ flight > 0 /\ flown = <<>> /\ ~relogged /\ taxiReplyPending
    /\ taxiPackets # <<>> /\ AllFly(taxiPackets)
Begun ==
    /\ flight > 0 /\ ~relogged /\ ~taxiReplyPending /\ ~taxiLoginGrace /\ AllFly(taxiPackets)
    /\ 1 \in DOMAIN flown /\ 2 \in DOMAIN flown /\ flown[1] = "start" /\ flown[2] = "success"
    /\ SegmentsFrom(3)
Returned ==
    /\ flight > 0 /\ flown = <<>> /\ relogged /\ ~taxiReplyPending
    /\ taxiPackets # <<>> /\ AllFly(taxiPackets) /\ (taxiLoginGrace \/ late)
Resumed ==
    /\ flight > 0 /\ relogged /\ ~taxiReplyPending /\ ~taxiLoginGrace /\ AllFly(taxiPackets)
    /\ 1 \in DOMAIN flown /\ (flown[1] = "start" \/ (flown[1] = "segment" /\ late))
    /\ SegmentsFrom(2)

FlightInv ==
    /\ FlightTypes
    /\ OnGround \/ Accepted \/ Replied \/ Begun \/ Returned \/ Resumed

LEMMA TaxiStep == [ServerNext]_allVars => [T!Next]_taxiVars
BY DEF ServerNext, allVars, Rests

LEMMA ShortSequences ==
    /\ <<>> \in Seq({"ok", "refusal", "fly"}) /\ <<"fly">> \in Seq({"ok", "refusal", "fly"})
    /\ <<>> \in Seq({"start", "success", "segment", "refusal"})
    /\ \A x \in {<<"segment">>, <<"start">>, <<"start", "success">>} :
          x \in Seq({"start", "success", "segment", "refusal"})
OBVIOUS

LEMMA FliesOn ==
    ASSUME NEW s \in Seq({"ok", "refusal", "fly"})
    PROVE  /\ Append(s, "fly") \in Seq({"ok", "refusal", "fly"}) /\ Append(s, "fly") # <<>>
           /\ AllFly(s) => AllFly(Append(s, "fly"))
           /\ s # <<>> => /\ Head(Append(s, "fly")) = Head(s)
                          /\ Tail(Append(s, "fly")) = Append(Tail(s), "fly")
                          /\ Tail(s) \in Seq({"ok", "refusal", "fly"})
                          /\ AllFly(s) => Head(s) = "fly" /\ AllFly(Tail(s))
<1>1. Append(s, "fly") \in Seq({"ok", "refusal", "fly"}) /\ Append(s, "fly") # <<>>
    OBVIOUS
<1>2. AllFly(s) => AllFly(Append(s, "fly"))
    BY DEF AllFly
<1>3. ASSUME s # <<>>
      PROVE  /\ Head(Append(s, "fly")) = Head(s)
             /\ Tail(Append(s, "fly")) = Append(Tail(s), "fly")
             /\ Tail(s) \in Seq({"ok", "refusal", "fly"})
             /\ AllFly(s) => Head(s) = "fly" /\ AllFly(Tail(s))
  <2>1. Head(Append(s, "fly")) = Head(s) /\ Tail(s) \in Seq({"ok", "refusal", "fly"})
      BY <1>3
  <2>2. Tail(Append(s, "fly")) = Append(Tail(s), "fly")
      BY <1>3
  <2>3. AllFly(s) => Head(s) = "fly" /\ AllFly(Tail(s))
      BY <1>3 DEF AllFly
  <2> QED BY <2>1, <2>2, <2>3
<1> QED BY <1>1, <1>2, <1>3

\* A relay's packet about the flight, and what the client is sent.
LEMMA FlightSplineKeeps == FlightInv /\ T!FlightSpline => FlightInv'
<1> SUFFICES ASSUME FlightInv, T!FlightSpline PROVE FlightInv'
    OBVIOUS
<1> DEFINE sent == IF ~(taxiReplyPending \/ taxiLoginGrace) THEN <<"segment">>
                   ELSE IF taxiReplyPending THEN <<"start", "success">> ELSE <<"start">>
<1>1. /\ taxiPackets # <<>> /\ Head(taxiPackets) = "fly" /\ taxiPackets' = Tail(taxiPackets)
      /\ flown' = flown \o sent /\ taxiLoginGrace' = FALSE /\ taxiReplyPending' = FALSE
      /\ UNCHANGED <<flight, relogged, late>>
    BY DEF T!FlightSpline, T!StartsFlight
<1>2. /\ FlightTypes
      /\ flown \in Seq({"start", "success", "segment", "refusal"})
      /\ taxiPackets \in Seq({"ok", "refusal", "fly"})
    BY DEF FlightInv, FlightTypes
<1>3. /\ taxiPackets' \in Seq({"ok", "refusal", "fly"})
      /\ AllFly(taxiPackets) => AllFly(taxiPackets')
    BY <1>1, <1>2, FliesOn
<1>4. \/ sent = <<"segment">> \/ sent = <<"start">> \/ sent = <<"start", "success">>
    OBVIOUS
<1>5. flown' \in Seq({"start", "success", "segment", "refusal"})
  <2>1. sent \in Seq({"start", "success", "segment", "refusal"})
      BY <1>4, ShortSequences
  <2> HIDE DEF sent
  <2> QED BY <1>1, <1>2, <2>1, Joined
<1>6. FlightTypes'
    BY <1>1, <1>2, <1>3, <1>5 DEF FlightTypes
<1>7. ~OnGround /\ ~Accepted
    BY <1>1 DEF OnGround, Accepted
<1>8. CASE Replied
  <2>1. sent = <<"start", "success">> /\ flown = <<>>
      BY <1>8 DEF Replied
  <2>2. flown' = <<"start", "success">>
      BY <1>1, <2>1
  <2>3. /\ 1 \in DOMAIN flown' /\ 2 \in DOMAIN flown' /\ flown'[1] = "start"
        /\ flown'[2] = "success" /\ SegmentsFrom(3)'
      BY <2>2 DEF SegmentsFrom
  <2>4. Begun'
      BY <1>1, <1>3, <1>8, <2>3 DEF Begun, Replied
  <2> QED BY <1>6, <2>4 DEF FlightInv
<1>9. CASE Begun
  <2>1. sent = <<"segment">>
      BY <1>9 DEF Begun
  <2>2. flown' = Append(flown, "segment")
      BY <1>1, <1>2, <2>1
  <2>3. /\ 1 \in DOMAIN flown' /\ 2 \in DOMAIN flown' /\ flown'[1] = "start"
        /\ flown'[2] = "success" /\ SegmentsFrom(3)'
      BY <1>2, <1>9, <2>2 DEF Begun, SegmentsFrom
  <2>4. Begun'
      BY <1>1, <1>3, <1>9, <2>3 DEF Begun
  <2> QED BY <1>6, <2>4 DEF FlightInv
<1>10. CASE Returned
  <2>1. flown = <<>> /\ (sent = <<"start">> \/ (sent = <<"segment">> /\ late))
      BY <1>10 DEF Returned
  <2>2. flown' = <<"start">> \/ (flown' = <<"segment">> /\ late')
      BY <1>1, <2>1
  <2>3. /\ 1 \in DOMAIN flown' /\ (flown'[1] = "start" \/ (flown'[1] = "segment" /\ late'))
        /\ SegmentsFrom(2)'
      BY <2>2 DEF SegmentsFrom
  <2>4. Resumed'
      BY <1>1, <1>3, <1>10, <2>3 DEF Returned, Resumed
  <2> QED BY <1>6, <2>4 DEF FlightInv
<1>11. CASE Resumed
  <2>1. sent = <<"segment">>
      BY <1>11 DEF Resumed
  <2>2. flown' = Append(flown, "segment")
      BY <1>1, <1>2, <2>1
  <2>3. 1 \in DOMAIN flown' /\ flown'[1] = flown[1] /\ SegmentsFrom(2)'
      BY <1>2, <1>11, <2>2 DEF Resumed, SegmentsFrom
  <2>4. Resumed'
      BY <1>1, <1>3, <1>11, <2>3 DEF Resumed
  <2> QED BY <1>6, <2>4 DEF FlightInv
<1> QED BY <1>7, <1>8, <1>9, <1>10, <1>11 DEF FlightInv

LEMMA FlightReplyKeeps == FlightInv /\ T!ActivateTaxiReply => FlightInv'
<1> SUFFICES ASSUME FlightInv, T!ActivateTaxiReply PROVE FlightInv'
    OBVIOUS
<1>1. /\ taxiPackets # <<>> /\ Head(taxiPackets) \in {"ok", "refusal"}
      /\ taxiPackets' = Tail(taxiPackets)
      /\ taxiReplyPending' = (Head(taxiPackets) = "ok")
      /\ flown' = IF Head(taxiPackets) = "ok" THEN flown ELSE <<>>
      /\ UNCHANGED <<flight, taxiLoginGrace, relogged, late>>
    BY DEF T!ActivateTaxiReply
<1>2. FlightTypes /\ taxiPackets \in Seq({"ok", "refusal", "fly"})
    BY DEF FlightInv, FlightTypes
<1>3. /\ taxiPackets' \in Seq({"ok", "refusal", "fly"}) /\ ~AllFly(taxiPackets)
    BY <1>1, <1>2, FliesOn
<1>4. FlightTypes'
  <2>1. <<>> \in Seq({"start", "success", "segment", "refusal"})
      BY ShortSequences
  <2>2. flown' \in Seq({"start", "success", "segment", "refusal"})
      BY <1>1, <1>2, <2>1 DEF FlightTypes
  <2>3. taxiReplyPending' \in BOOLEAN
      BY <1>1
  <2> QED BY <1>1, <1>2, <1>3, <2>2, <2>3 DEF FlightTypes
<1>5. CASE OnGround
  <2>1. taxiPackets = <<"refusal">>
      BY <1>1, <1>5 DEF OnGround
  <2>2. Head(taxiPackets) # "ok" /\ Tail(taxiPackets) = <<>>
      BY <2>1
  <2>3. OnGround'
      BY <1>1, <1>5, <2>2 DEF OnGround
  <2> QED BY <1>4, <2>3 DEF FlightInv
<1>6. CASE Accepted
  <2>1. Replied'
      BY <1>1, <1>6 DEF Accepted, Replied
  <2> QED BY <1>4, <2>1 DEF FlightInv
<1> QED BY <1>3, <1>5, <1>6 DEF FlightInv, Replied, Begun, Returned, Resumed

\* The realm's part of a flight, and the client's return to it.
LEMMA FlightGoesOn ==
    ASSUME FlightInv,
           \/ T!RealmAccepts \/ T!RealmRefuses \/ T!NextSegment \/ T!Lands \/ T!LoginAgain
           \/ T!GraceEnds
    PROVE  FlightInv'
<1>0. FlightTypes /\ taxiPackets \in Seq({"ok", "refusal", "fly"})
    BY DEF FlightInv, FlightTypes
<1>1. CASE T!RealmAccepts
  <2>1. /\ flight = 0 /\ taxiPackets' = <<"ok", "fly">> /\ flight' = 1
        /\ UNCHANGED <<taxiReplyPending, taxiLoginGrace, flown, relogged, late>>
      BY <1>1 DEF T!RealmAccepts
  <2>2. /\ taxiPackets' # <<>> /\ Head(taxiPackets') = "ok" /\ Tail(taxiPackets') = <<"fly">>
        /\ taxiPackets' \in Seq({"ok", "refusal", "fly"})
      BY <2>1
  <2>3. OnGround
      BY <2>1 DEF FlightInv, Accepted, Replied, Begun, Returned, Resumed
  <2>4. <<"fly">> # <<>> /\ AllFly(<<"fly">>)
      BY DEF AllFly
  <2>5. Accepted' /\ FlightTypes'
      BY <1>0, <2>1, <2>2, <2>3, <2>4 DEF OnGround, Accepted, FlightTypes
  <2> QED BY <2>5 DEF FlightInv
<1>2. CASE T!RealmRefuses
  <2>1. /\ flight = 0 /\ taxiPackets' = <<"refusal">>
        /\ UNCHANGED <<flight, taxiReplyPending, taxiLoginGrace, flown, relogged, late>>
      BY <1>2 DEF T!RealmRefuses
  <2>2. OnGround
      BY <2>1 DEF FlightInv, Accepted, Replied, Begun, Returned, Resumed
  <2>3. OnGround' /\ FlightTypes'
      BY <1>0, <2>1, <2>2 DEF OnGround, FlightTypes
  <2> QED BY <2>3 DEF FlightInv
<1>3. CASE T!NextSegment
  <2>1. /\ flight # 0 /\ flight' = flight + 1 /\ taxiPackets' = Append(taxiPackets, "fly")
        /\ UNCHANGED <<taxiReplyPending, taxiLoginGrace, flown, relogged, late>>
      BY <1>0, <1>3 DEF T!NextSegment, FlightTypes
  <2>2. /\ taxiPackets' \in Seq({"ok", "refusal", "fly"}) /\ taxiPackets' # <<>>
        /\ AllFly(taxiPackets) => AllFly(taxiPackets')
        /\ taxiPackets # <<>> => /\ Head(taxiPackets') = Head(taxiPackets)
                                 /\ Tail(taxiPackets') = Append(Tail(taxiPackets), "fly")
                                 /\ Tail(taxiPackets) \in Seq({"ok", "refusal", "fly"})
      BY <1>0, <2>1, FliesOn
  <2>3. flight' > 0 /\ FlightTypes'
      BY <1>0, <2>1, <2>2 DEF FlightTypes
  <2>4. Accepted => Accepted'
      BY <2>1, <2>2, <2>3, FliesOn DEF Accepted
  <2>5. Replied => Replied'
      BY <2>1, <2>2, <2>3 DEF Replied
  <2>6. Begun => Begun'
      BY <2>1, <2>2, <2>3 DEF Begun, SegmentsFrom
  <2>7. Returned => Returned'
      BY <2>1, <2>2, <2>3 DEF Returned
  <2>8. Resumed => Resumed'
      BY <2>1, <2>2, <2>3 DEF Resumed, SegmentsFrom
  <2>9. ~OnGround
      BY <2>1 DEF OnGround
  <2> QED BY <2>3, <2>4, <2>5, <2>6, <2>7, <2>8, <2>9 DEF FlightInv
<1>4. CASE T!Lands
  <2>1. /\ flight > 0 /\ taxiPackets = <<>> /\ flight' = 0 /\ flown' = <<>>
        /\ relogged' = FALSE /\ late' = FALSE
        /\ UNCHANGED <<taxiPackets, taxiReplyPending, taxiLoginGrace>>
      BY <1>4 DEF T!Lands
  <2>2. ~taxiReplyPending
      BY <2>1 DEF FlightInv, OnGround, Accepted, Replied, Begun, Returned, Resumed
  <2>3. OnGround'
      BY <2>1, <2>2 DEF OnGround
  <2>4. FlightTypes'
      BY <1>0, <2>1, ShortSequences DEF FlightTypes
  <2> QED BY <2>3, <2>4 DEF FlightInv
<1>5. CASE T!LoginAgain
  <2>1. /\ relogged' = (flight > 0) /\ taxiReplyPending' = FALSE /\ taxiLoginGrace' = TRUE
        /\ flown' = <<>> /\ taxiPackets' = IF flight > 0 THEN <<"fly">> ELSE <<>>
        /\ UNCHANGED <<flight, late>>
      BY <1>5 DEF T!LoginAgain
  <2>2. taxiPackets' \in Seq({"ok", "refusal", "fly"})
      BY <2>1, ShortSequences
  <2>3. FlightTypes'
    <3>1. relogged' \in BOOLEAN
        BY <2>1
    <3> QED BY <1>0, <2>1, <2>2, <3>1, ShortSequences DEF FlightTypes
  <2>4. CASE flight > 0
    <3>1. taxiPackets' = <<"fly">> /\ <<"fly">> # <<>> /\ AllFly(<<"fly">>)
        BY <2>1, <2>4 DEF AllFly
    <3>2. Returned'
        BY <2>1, <2>4, <3>1 DEF Returned
    <3> QED BY <2>3, <3>2 DEF FlightInv
  <2>5. CASE ~(flight > 0)
    <3>1. flight = 0
        BY <1>0, <2>5 DEF FlightTypes
    <3>2. OnGround'
        BY <2>1, <2>5, <3>1 DEF OnGround
    <3> QED BY <2>3, <3>2 DEF FlightInv
  <2> QED BY <2>4, <2>5
<1>6. CASE T!GraceEnds
  <2>1. /\ taxiLoginGrace /\ taxiLoginGrace' = FALSE /\ late' = (relogged /\ flown = <<>>)
        /\ UNCHANGED <<flight, taxiPackets, taxiReplyPending, flown, relogged>>
      BY <1>6 DEF T!GraceEnds
  <2>2. late' \in BOOLEAN
      BY <1>0, <2>1 DEF FlightTypes
  <2>3. FlightTypes'
      BY <1>0, <2>1, <2>2 DEF FlightTypes
  <2>4. ~Begun /\ ~Resumed
      BY <2>1 DEF Begun, Resumed
  <2>5. /\ OnGround => OnGround'
        /\ Accepted => Accepted'
        /\ Replied => Replied'
        /\ Returned => Returned'
      BY <2>1 DEF OnGround, Accepted, Replied, Returned
  <2> QED BY <2>3, <2>4, <2>5 DEF FlightInv
<1> QED BY <1>1, <1>2, <1>3, <1>4, <1>5, <1>6

LEMMA FlightNext == FlightInv /\ [T!Next]_taxiVars => FlightInv'
<1> SUFFICES ASSUME FlightInv, [T!Next]_taxiVars PROVE FlightInv'
    OBVIOUS
<1> DEFINE quiet == UNCHANGED <<flight, taxiPackets, taxiReplyPending, taxiLoginGrace, flown,
                               relogged, late>>
<1>1. ASSUME quiet PROVE FlightInv'
    BY <1>1 DEF FlightInv, FlightTypes, OnGround, Accepted, Replied, Begun, Returned, Resumed,
                SegmentsFrom
<1>2. ASSUME NEW n \in Nodes, NEW usable \in Masks, T!ShowTaxiNodes(n, usable) PROVE quiet
    BY <1>2 DEF T!ShowTaxiNodes, T!flightVars
<1>3. ASSUME NEW n \in Nodes, T!ActivateTaxi(n) PROVE quiet
    BY <1>3 DEF T!ActivateTaxi, T!flightVars
<1>4. ASSUME NEW n \in Nodes, T!Visit(n) PROVE quiet
    BY <1>4 DEF T!Visit, T!flightVars
<1>5. ASSUME T!Finish PROVE quiet
    BY <1>5 DEF T!Finish, T!flightVars
<1>6. ASSUME UNCHANGED taxiVars PROVE quiet
    BY <1>6 DEF taxiVars
<1> HIDE DEF quiet
<1> QED BY <1>1, <1>2, <1>3, <1>4, <1>5, <1>6, FlightSplineKeeps, FlightReplyKeeps,
           FlightGoesOn DEF T!Next

LEMMA FlightInit == ServerInit => FlightInv
<1> SUFFICES ASSUME ServerInit PROVE FlightInv
    OBVIOUS
<1>1. /\ flight = 0 /\ taxiPackets = <<>> /\ taxiReplyPending = FALSE
      /\ taxiLoginGrace = FALSE /\ flown = <<>> /\ relogged = FALSE /\ late = FALSE
    BY DEF ServerInit, T!Init
<1>2. FlightTypes
    BY <1>1, ShortSequences DEF FlightTypes
<1>3. OnGround
    BY <1>1 DEF OnGround
<1> QED BY <1>2, <1>3 DEF FlightInv

\* Any number of nodes, menus and segments: of every flight the client is sent one start,
\* first of all, then the success at once, unless it logged in meanwhile.
THEOREM FlightsStartOnce == ServerSpec => []FlightStartsOnce
<1>1. ServerInit => FlightInv
    BY FlightInit
<1>2. FlightInv => FlightStartsOnce
  <2> SUFFICES ASSUME FlightInv PROVE T!FlightStartsOnce
      BY DEF FlightStartsOnce
  <2>1. /\ FlightTypes /\ relogged \in BOOLEAN
        /\ \A i \in DOMAIN flown : i \in Nat \ {0} /\ (i = 1 \/ i = 2 \/ i >= 3)
      BY DEF FlightInv, FlightTypes
  <2>2. CASE flown = <<>>
      BY <2>2 DEF T!FlightStartsOnce
  <2>3. CASE Begun
      BY <2>1, <2>3 DEF Begun, SegmentsFrom, T!FlightStartsOnce
  <2>4. CASE Resumed
      BY <2>1, <2>4 DEF Resumed, SegmentsFrom, T!FlightStartsOnce
  <2> QED BY <2>2, <2>3, <2>4 DEF FlightInv, OnGround, Accepted, Replied, Returned
<1>3. FlightInv /\ [ServerNext]_allVars => FlightInv'
    BY TaxiStep, FlightNext
<1> QED BY <1>1, <1>2, <1>3, PTL DEF ServerSpec, allVars

-----------------------------------------------------------------------------
(* Routes.                                                                   *)

\* The least of a set of numbers, as the model chooses it.
LEMMA LeastChosen ==
    ASSUME NEW A, A \subseteq Nat, A # {}
    PROVE  LET m == CHOOSE c \in A : \A d \in A : c <= d
           IN m \in A /\ \A d \in A : m <= d
BY Least

\* A path from a node to another, and one the search follows.
Edges(from, to) == {e \in taxiPathGraph : e[1] = from /\ e[2] = to}
Follows(from, to) ==
    Edges(from, to) # {} /\ (to = search.destination \/ to \in search.usable)

SearchTypes ==
    /\ taxiPathGraph \in Graphs
    /\ currentTaxiNode \in Nodes \cup {T!NoNode} /\ usableTaxiNodes \subseteq Nodes
    /\ search \in [phase : T!Phases, source : Nodes \cup {T!NoNode},
                   destination : Nodes \cup {T!NoNode}, usable : SUBSET Nodes]
    /\ search.phase = "search" => search.source \in Nodes /\ search.destination \in Nodes
    /\ \E D \in SUBSET Nodes : distance \in [D -> Nat]
    /\ \E D \in SUBSET Nodes : previous \in [D -> Nodes]
    /\ visited \subseteq Nodes /\ route \in Seq(Nodes)

LEMMA LegLeast ==
    ASSUME T!Constants, SearchTypes, NEW a, NEW b, Edges(a, b) # {}
    PROVE  /\ T!Leg(a, b) \in Nat \ {0} /\ a \in Nodes /\ b \in Nodes
           /\ \E e \in Edges(a, b) : T!Leg(a, b) = T!Cost(e)
           /\ \A e \in Edges(a, b) : T!Leg(a, b) <= T!Cost(e)
<1> DEFINE A == {T!Cost(e) : e \in Edges(a, b)}
<1>1. \A e \in taxiPathGraph : e \in Nodes \X Nodes \X Nat
    BY DEF T!Constants, SearchTypes
<1>2. \A e \in Edges(a, b) : T!Cost(e) \in Nat \ {0} /\ a \in Nodes /\ b \in Nodes
    BY <1>1 DEF Edges, T!Cost
<1>3. A \subseteq Nat \ {0} /\ A # {}
    BY <1>2
<1>4. T!Leg(a, b) = CHOOSE c \in A : \A d \in A : c <= d
    BY DEF T!Leg, Edges
<1>5. T!Leg(a, b) \in A /\ \A d \in A : T!Leg(a, b) <= d
  <2> HIDE DEF A
  <2>1. A \subseteq Nat
      BY <1>3
  <2> QED BY <2>1, <1>3, <1>4, LeastChosen
<1> QED BY <1>2, <1>3, <1>5

\* What a turn of the loop offers a node: the way to the one taken, and the leg.
LEMMA Offers ==
    ASSUME T!Constants, SearchTypes, NEW n \in DOMAIN distance, NEW m, Follows(n, m)
    PROVE  /\ T!Candidate(n, m) = distance[n] + T!Leg(n, m)
           /\ T!Candidate(n, m) \in Nat /\ distance[n] \in Nat /\ T!Leg(n, m) \in Nat \ {0}
           /\ distance[n] < T!Candidate(n, m) /\ m \in Nodes
<1> DEFINE A == {distance[n] + T!Cost(e) : e \in {f \in T!Followed(n) : f[2] = m}}
<1>1. {f \in T!Followed(n) : f[2] = m} = Edges(n, m)
    BY DEF T!Followed, Edges, Follows
<1>2. distance[n] \in Nat /\ \A e \in Edges(n, m) : T!Cost(e) \in Nat
    BY DEF T!Constants, SearchTypes, Edges, T!Cost
<1>3. A \subseteq Nat /\ A # {} /\ A = {distance[n] + T!Cost(e) : e \in Edges(n, m)}
    BY <1>1, <1>2 DEF Follows
<1>4. T!Candidate(n, m) = CHOOSE c \in A : \A d \in A : c <= d
    BY DEF T!Candidate
<1>5. T!Candidate(n, m) \in A /\ \A d \in A : T!Candidate(n, m) <= d
  <2> HIDE DEF A
  <2> QED BY <1>3, <1>4, LeastChosen
<1>6. PICK e \in Edges(n, m) : T!Candidate(n, m) = distance[n] + T!Cost(e)
    BY <1>3, <1>5
<1>7. /\ T!Leg(n, m) \in Nat \ {0} /\ m \in Nodes
      /\ \E d \in Edges(n, m) : T!Leg(n, m) = T!Cost(d)
      /\ \A d \in Edges(n, m) : T!Leg(n, m) <= T!Cost(d)
    BY LegLeast DEF Follows
<1>8. PICK d \in Edges(n, m) : T!Leg(n, m) = T!Cost(d)
    BY <1>7
<1>9. T!Candidate(n, m) <= distance[n] + T!Cost(d) /\ T!Leg(n, m) <= T!Cost(e)
    BY <1>3, <1>5, <1>7
<1>10. T!Cost(e) \in Nat /\ T!Cost(d) \in Nat
    BY <1>2
<1> HIDE DEF A
<1> QED BY ONLY <1>2, <1>6, <1>7, <1>8, <1>9, <1>10

\* While the search goes on: the nodes reached are the source and those with a
\* previous node, a taken one; no way through the nodes taken is shorter than
\* the distance kept; and no node still open is nearer than one taken.
Searching ==
    /\ search.source # search.destination
    /\ search.source \in DOMAIN distance /\ distance[search.source] = 0
    /\ \A n \in DOMAIN distance : n = search.source \/ n \in DOMAIN previous
    /\ \A n \in DOMAIN previous :
          /\ n \in DOMAIN distance /\ previous[n] \in visited /\ Follows(previous[n], n)
          /\ distance[n] = distance[previous[n]] + T!Leg(previous[n], n)
    /\ visited \subseteq DOMAIN distance \ {search.destination}
    /\ \A v \in visited : \A m \in Nodes :
          Follows(v, m) => m \in DOMAIN distance /\ distance[m] <= distance[v] + T!Leg(v, m)
    /\ \A v \in visited, o \in DOMAIN distance \ visited : distance[v] <= distance[o]

SearchInv ==
    /\ SearchTypes
    /\ search.phase = "search" => Searching
    /\ RouteCheapest
LEMMA VisitSearches ==
    ASSUME T!Constants, SearchInv, NEW node \in Nodes, T!Visit(node)
    PROVE  SearchInv'
<1>1. /\ search.phase = "search" /\ node \in T!Nearest \ {search.destination}
      /\ UNCHANGED <<taxiPathGraph, currentTaxiNode, usableTaxiNodes, search, route>>
      /\ visited' = visited \cup {node}
    BY DEF T!Visit, T!menuVars
<1> DEFINE Offered == {to \in Nodes : /\ Follows(node, to)
                                      /\ to \notin DOMAIN distance
                                         \/ T!Candidate(node, to) < distance[to]}
<1>2. SearchTypes /\ Searching
    BY <1>1 DEF SearchInv
<1>3. node \in DOMAIN distance \ visited /\ \A o \in DOMAIN distance \ visited :
          distance[node] <= distance[o]
    BY <1>1 DEF T!Nearest
<1>4. ASSUME NEW to, Follows(node, to)
      PROVE  /\ T!Candidate(node, to) = distance[node] + T!Leg(node, to) /\ to \in Nodes
             /\ T!Candidate(node, to) \in Nat /\ T!Leg(node, to) \in Nat \ {0}
             /\ distance[node] < T!Candidate(node, to)
    BY <1>2, <1>3, <1>4, Offers
<1>5. T!Nearer(node) = Offered
  <2>1. \A to : (to \in {e[2] : e \in T!Followed(node)}) <=> Follows(node, to)
      BY DEF T!Followed, Follows, Edges
  <2> QED BY <1>4, <2>1 DEF T!Nearer
<1>6. /\ distance' = [n \in DOMAIN distance \cup Offered |->
                        IF n \in Offered THEN T!Candidate(node, n) ELSE distance[n]]
      /\ previous' = [n \in DOMAIN previous \cup Offered |->
                        IF n \in Offered THEN node ELSE previous[n]]
    BY <1>5 DEF T!Visit
<1>7. /\ DOMAIN distance \subseteq Nodes /\ \A n \in DOMAIN distance : distance[n] \in Nat
      /\ DOMAIN previous \subseteq Nodes /\ \A n \in DOMAIN previous : previous[n] \in Nodes
      /\ visited \subseteq Nodes
    BY <1>2 DEF SearchTypes
<1>8. \A n \in Offered : /\ Follows(node, n) /\ n \in Nodes
                         /\ n \notin DOMAIN distance \/ T!Candidate(node, n) < distance[n]
    OBVIOUS
<1>9. \A n \in Nodes : Follows(node, n) => /\ n \in Offered \/ n \in DOMAIN distance
                                           /\ n \in Offered \/ distance[n] <= T!Candidate(node, n)
    BY <1>4, <1>7
<1> HIDE DEF Offered
<1>10. /\ DOMAIN distance' = DOMAIN distance \cup Offered
       /\ \A n \in Offered : distance'[n] = T!Candidate(node, n)
       /\ \A n \in DOMAIN distance \ Offered : distance'[n] = distance[n]
       /\ DOMAIN previous' = DOMAIN previous \cup Offered
       /\ \A n \in Offered : previous'[n] = node
       /\ \A n \in DOMAIN previous \ Offered : previous'[n] = previous[n]
    BY <1>6
\* The nodes taken, and the source, keep their distance.
<1>11. \A v \in visited \cup {node, search.source} :
           v \notin Offered /\ v \in DOMAIN distance /\ distance'[v] = distance[v]
  <2>1. ASSUME NEW v \in visited \cup {node, search.source}, v \in Offered PROVE FALSE
    <3>1. v \in DOMAIN distance /\ distance[v] <= distance[node]
        BY <1>2, <1>3, <1>7 DEF Searching
    <3>2. T!Candidate(node, v) < distance[v] /\ distance[node] < T!Candidate(node, v)
          /\ T!Candidate(node, v) \in Nat
        BY <1>4, <1>8, <2>1, <3>1
    <3>3. distance[v] \in Nat /\ distance[node] \in Nat
        BY <1>3, <1>7, <3>1
    <3> QED BY ONLY <3>1, <3>2, <3>3
  <2>2. \A v \in visited \cup {node, search.source} : v \in DOMAIN distance
      BY <1>2, <1>3 DEF Searching
  <2> QED BY <1>10, <2>1, <2>2
<1>12. \A a, b : Follows(a, b)' <=> Follows(a, b)
    BY <1>1 DEF Follows, Edges
<1>13. \A a, b : T!Leg(a, b)' = T!Leg(a, b)
    BY <1>1 DEF T!Leg, T!Cost
<1>14. SearchTypes'
  <2>1. \A n \in DOMAIN distance' : n \in Nodes /\ distance'[n] \in Nat
      BY <1>4, <1>7, <1>8, <1>10
  <2>2. \A n \in DOMAIN previous' : n \in Nodes /\ previous'[n] \in Nodes
      BY <1>7, <1>8, <1>10
  <2>3. distance' \in [DOMAIN distance' -> Nat] /\ previous' \in [DOMAIN previous' -> Nodes]
    <3>1. /\ distance' = [n \in DOMAIN distance' |-> distance'[n]]
          /\ previous' = [n \in DOMAIN previous' |-> previous'[n]]
        BY <1>6
    <3> QED BY <2>1, <2>2, <3>1
  <2>4. visited' \subseteq Nodes
      BY <1>1, <1>7
  <2>5. DOMAIN distance' \in SUBSET Nodes /\ DOMAIN previous' \in SUBSET Nodes
      BY <2>1, <2>2
  <2> QED BY <1>1, <1>2, <2>3, <2>4, <2>5 DEF SearchTypes
<1>15. Searching'
  <2>1. search.source \in DOMAIN distance' /\ distance'[search.source] = 0
      BY <1>2, <1>10, <1>11 DEF Searching
  <2>2. \A n \in DOMAIN distance' : n = search.source \/ n \in DOMAIN previous'
      BY <1>2, <1>10 DEF Searching
  <2>3. ASSUME NEW n \in DOMAIN previous'
        PROVE  /\ n \in DOMAIN distance' /\ previous'[n] \in visited'
               /\ Follows(previous'[n], n)
               /\ distance'[n] = distance'[previous'[n]] + T!Leg(previous'[n], n)
    <3>1. CASE n \in Offered
        BY <1>1, <1>4, <1>8, <1>10, <1>11, <3>1
    <3>2. CASE n \notin Offered
      <4>1. /\ n \in DOMAIN distance /\ previous[n] \in visited /\ Follows(previous[n], n)
            /\ distance[n] = distance[previous[n]] + T!Leg(previous[n], n)
            /\ previous'[n] = previous[n]
          BY <1>2, <1>10, <2>3, <3>2 DEF Searching
      <4> QED BY <1>1, <1>10, <1>11, <3>2, <4>1
    <3> QED BY <3>1, <3>2
  <2>4. visited' \subseteq DOMAIN distance' \ {search.destination}
      BY <1>1, <1>2, <1>10, <1>11 DEF Searching
  <2>5. ASSUME NEW v \in visited', NEW m \in Nodes, Follows(v, m)
        PROVE  m \in DOMAIN distance' /\ distance'[m] <= distance'[v] + T!Leg(v, m)
    <3>1. v \in visited \cup {node} /\ distance'[v] = distance[v] /\ v \in DOMAIN distance
          /\ distance[v] \in Nat
        BY <1>1, <1>7, <1>11
    <3>2. T!Leg(v, m) \in Nat
        BY <1>2, <2>5, LegLeast DEF Follows
    <3>3. CASE v = node
      <4>1. CASE m \in Offered
          BY <1>4, <1>10, <2>5, <3>1, <3>2, <3>3, <4>1
      <4>2. CASE m \notin Offered
        <5>1. m \in DOMAIN distance /\ distance[m] <= T!Candidate(node, m)
          <6>1. Follows(node, m)
              BY <2>5, <3>3
          <6> QED BY <1>9, <4>2, <6>1
        <5>2. T!Candidate(node, m) = distance[v] + T!Leg(v, m)
            BY <1>4, <2>5, <3>3
        <5>3. distance'[m] = distance[m] /\ m \in DOMAIN distance'
            BY <1>10, <4>2, <5>1
        <5> QED BY <3>1, <5>1, <5>2, <5>3
      <4> QED BY <4>1, <4>2
    <3>4. CASE v \in visited
      <4>1. m \in DOMAIN distance /\ distance[m] <= distance[v] + T!Leg(v, m)
            /\ distance[m] \in Nat
          BY <1>2, <1>7, <2>5, <3>4 DEF Searching
      <4>2. CASE m \in Offered
          BY <1>4, <1>8, <1>10, <3>1, <3>2, <4>1, <4>2
      <4>3. CASE m \notin Offered
          BY <1>10, <3>1, <4>1, <4>3
      <4> QED BY <4>2, <4>3
    <3> QED BY <3>1, <3>3, <3>4
  <2>6. ASSUME NEW v \in visited', NEW o \in DOMAIN distance' \ visited'
        PROVE  distance'[v] <= distance'[o]
    <3>1. v \in visited \cup {node} /\ distance'[v] = distance[v] /\ v \in DOMAIN distance
          /\ distance[v] \in Nat
        BY <1>1, <1>7, <1>11
    <3>2. distance[v] <= distance[node] /\ distance[node] \in Nat
        BY <1>2, <1>3, <1>7, <3>1 DEF Searching
    <3>3. CASE o \in Offered
        BY <1>4, <1>8, <1>10, <3>1, <3>2, <3>3
    <3>4. CASE o \notin Offered
      <4>1. o \in DOMAIN distance \ visited /\ distance'[o] = distance[o] /\ distance[o] \in Nat
            /\ distance[node] <= distance[o]
          BY <1>1, <1>3, <1>7, <1>10, <3>4
      <4> QED BY <3>1, <3>2, <4>1
    <3> QED BY <3>3, <3>4
  <2>7. search.source # search.destination
      BY <1>2 DEF Searching
  <2> QED BY <1>1, <1>12, <1>13, <2>1, <2>2, <2>3, <2>4, <2>5, <2>6, <2>7 DEF Searching
<1>16. RouteCheapest'
    BY <1>1 DEF RouteCheapest, T!RouteCheapest
<1> QED BY <1>1, <1>14, <1>15, <1>16 DEF SearchInv

LEMMA ActivateSearches ==
    ASSUME SearchInv, NEW to \in Nodes, T!ActivateTaxi(to)
    PROVE  SearchInv'
<1>1. /\ currentTaxiNode \in Nodes /\ UNCHANGED <<taxiPathGraph, currentTaxiNode, usableTaxiNodes>>
      /\ search' = [phase |-> IF currentTaxiNode = to THEN "refused" ELSE "search",
                    source |-> currentTaxiNode, destination |-> to, usable |-> usableTaxiNodes]
      /\ distance' = [n \in {currentTaxiNode} |-> 0] /\ previous' = T!Empty
      /\ visited' = {} /\ route' = <<>> /\ usableTaxiNodes \subseteq Nodes
      /\ taxiPathGraph \in Graphs
    BY DEF SearchInv, SearchTypes, T!ActivateTaxi, T!menuVars
<1>2. /\ search'.source = currentTaxiNode /\ search'.destination = to
      /\ search'.phase = "search" => currentTaxiNode # to
      /\ search'.phase \in {"search", "refused"}
      /\ search'.phase = "refused" => currentTaxiNode = to
      /\ search' \in [phase : T!Phases, source : Nodes \cup {T!NoNode},
                      destination : Nodes \cup {T!NoNode}, usable : SUBSET Nodes]
    BY <1>1 DEF T!Phases
<1>3. SearchTypes'
  <2>1. {currentTaxiNode} \in SUBSET Nodes /\ distance' \in [{currentTaxiNode} -> Nat]
      BY <1>1
  <2>2. {} \in SUBSET Nodes /\ previous' \in [{} -> Nodes]
      BY <1>1 DEF T!Empty
  <2>3. route' \in Seq(Nodes)
      BY <1>1
  <2> QED BY <1>1, <1>2, <2>1, <2>2, <2>3 DEF SearchTypes
<1>4. search'.phase = "search" => Searching'
    BY <1>1, <1>2 DEF Searching, T!Empty
<1>5. RouteCheapest'
  <2>1. ASSUME currentTaxiNode = to, NEW r \in T!Routes' PROVE FALSE
    <3>1. PICK k \in 2..T!Cardinality(Nodes) : r \in [1..k -> Nodes]
        BY <2>1 DEF T!Routes
    <3>2. Len(r) = k /\ 1 \in DOMAIN r /\ k \in DOMAIN r /\ k # 1
        BY <3>1
    <3>3. r[1] = r[k] /\ \A i, j \in DOMAIN r : r[i] = r[j] => i = j
        BY <1>2, <2>1, <3>2 DEF T!Routes, T!IsInjective
    <3> QED BY <3>2, <3>3
  <2> QED BY <1>2, <2>1 DEF RouteCheapest, T!RouteCheapest
<1> QED BY <1>3, <1>4, <1>5 DEF SearchInv

\* The prices of the beginnings of a route.
Sums(r, u) ==
    /\ u \in [1..Len(r) -> Nat] /\ u[1] = 0 /\ u[Len(r)] = T!Price(r)
    /\ \A i \in 1..(Len(r) - 1) : u[i + 1] = u[i] + T!Leg(r[i], r[i + 1])

LEMMA RouteIs ==
    ASSUME NEW r \in T!Routes
    PROVE  /\ Len(r) \in Nat /\ Len(r) >= 2 /\ r \in [1..Len(r) -> Nodes]
           /\ r[1] = search.source /\ r[Len(r)] = search.destination
           /\ \A i, j \in 1..Len(r) : r[i] = r[j] => i = j
           /\ \A i \in 2..(Len(r) - 1) : r[i] \in search.usable
           /\ \A i \in 1..(Len(r) - 1) : Follows(r[i], r[i + 1])
<1>1. PICK k \in 2..T!Cardinality(Nodes) : r \in [1..k -> Nodes]
    BY DEF T!Routes
<1>2. Len(r) = k /\ k \in Nat /\ k >= 2 /\ DOMAIN r = 1..k
    BY <1>1
<1>3. /\ r[1] = search.source /\ r[Len(r)] = search.destination
      /\ \A i, j \in 1..Len(r) : r[i] = r[j] => i = j
      /\ \A i \in 2..(Len(r) - 1) : r[i] \in search.usable
      /\ \A i \in 1..(Len(r) - 1) : Edges(r[i], r[i + 1]) # {}
    BY <1>2 DEF T!Routes, T!IsInjective, Edges
<1>4. ASSUME NEW i \in 1..(Len(r) - 1) PROVE Follows(r[i], r[i + 1])
  <2>1. i + 1 = Len(r) \/ i + 1 \in 2..(Len(r) - 1)
      BY <1>2
  <2> QED BY <1>3, <2>1 DEF Follows
<1> QED BY <1>1, <1>2, <1>3, <1>4

LEMMA PriceSums ==
    ASSUME T!Constants, SearchTypes, NEW r \in T!Routes
    PROVE  \E u : Sums(r, u)
<1> DEFINE n == Len(r)
<1>1. /\ n \in Nat /\ n >= 2
      /\ \A i \in 1..(n - 1) : T!Leg(r[i], r[i + 1]) \in Nat
    BY RouteIs, LegLeast DEF Follows
<1> HIDE DEF n
<1> DEFINE g == [ks \in Nat \X Nat |->
                    IF ks[1] + 2 <= n THEN ks[2] + T!Leg(r[ks[1] + 1], r[ks[1] + 2]) ELSE 0]
<1>2. g \in [Nat \X Nat -> Nat]
  <2>1. ASSUME NEW ks \in Nat \X Nat, ks[1] + 2 <= n
        PROVE  ks[2] + T!Leg(r[ks[1] + 1], r[ks[1] + 2]) \in Nat
    <3>1. ks[1] + 1 \in 1..(n - 1) /\ ks[2] \in Nat /\ (ks[1] + 1) + 1 = ks[1] + 2
        BY <1>1, <2>1
    <3>2. T!Leg(r[ks[1] + 1], r[(ks[1] + 1) + 1]) \in Nat
        BY <1>1, <3>1
    <3> QED BY <3>1, <3>2
  <2> QED BY <2>1
<1>3. \A k, s \in Nat : k + 2 <= n => g[<<k, s>>] = s + T!Leg(r[k + 1], r[k + 2])
    OBVIOUS
<1> HIDE DEF g
<1>4. PICK f \in [Nat -> Nat] : f[0] = 0 /\ \A k \in Nat : f[k + 1] = g[<<k, f[k]>>]
  <2>1. \A b \in Nat : \E f \in [Nat -> Nat] : Builds(f, b, g)
      BY <1>2, Built, Zenon
  <2> QED BY <2>1 DEF Builds
<1> DEFINE u == [i \in 1..n |-> f[i - 1]]
           Again(w) == [i \in 1..n |-> IF i = 1 THEN 0 ELSE w[i - 1] + T!Leg(r[i - 1], r[i])]
<1>5. u = Again(u)
  <2>1. ASSUME NEW i \in 1..n, i # 1 PROVE u[i] = u[i - 1] + T!Leg(r[i - 1], r[i])
    <3>1. i - 2 \in Nat /\ (i - 2) + 1 = i - 1 /\ (i - 2) + 2 = i /\ i - 1 \in 1..n
          /\ i - 2 = (i - 1) - 1
        BY <1>1, <2>1
    <3>2. f[i - 1] = g[<<i - 2, f[i - 2]>>] /\ f[i - 2] \in Nat
        BY <1>4, <3>1
    <3>3. g[<<i - 2, f[i - 2]>>] = f[i - 2] + T!Leg(r[i - 1], r[i])
        BY <1>1, <1>3, <3>1, <3>2
    <3>4. u[i] = f[i - 1] /\ u[i - 1] = f[i - 2]
        BY <3>1
    <3> QED BY <3>2, <3>3, <3>4
  <2>2. 1 \in 1..n => u[1] = 0
      BY <1>4
  <2>3. \A i \in 1..n : u[i] = IF i = 1 THEN 0 ELSE u[i - 1] + T!Leg(r[i - 1], r[i])
      BY <2>1, <2>2
  <2> QED BY <2>3
<1> DEFINE w == CHOOSE v : v = Again(v)
<1>6. w = Again(w)
    BY <1>5
<1>7. T!Price(r) = w[n]
    BY DEF T!Price, n
<1> HIDE DEF u, w
<1>8. /\ w[1] = 0 /\ DOMAIN w = 1..n /\ w = [i \in 1..n |-> w[i]]
      /\ \A i \in 1..(n - 1) : w[i + 1] = w[i] + T!Leg(r[i], r[i + 1])
  <2>1. w[1] = 0 /\ DOMAIN w = 1..n /\ w = [i \in 1..n |-> w[i]]
      BY <1>1, <1>6
  <2>2. \A i \in 1..n : w[i] = IF i = 1 THEN 0 ELSE w[i - 1] + T!Leg(r[i - 1], r[i])
      BY <1>6
  <2>3. ASSUME NEW i \in 1..(n - 1) PROVE w[i + 1] = w[i] + T!Leg(r[i], r[i + 1])
    <3>1. i + 1 \in 1..n /\ i + 1 # 1 /\ (i + 1) - 1 = i
        BY <1>1
    <3> QED BY <2>2, <3>1
  <2> QED BY <2>1, <2>3
<1> HIDE DEF Again
<1>9. \A i \in 1..n : w[i] \in Nat
  <2> DEFINE A == {k \in Nat : k + 1 \in 1..n => w[k + 1] \in Nat}
  <2>1. 0 \in A
      BY <1>8
  <2>2. ASSUME NEW k \in Nat, k \in A PROVE k + 1 \in A
    <3>1. CASE (k + 1) + 1 \in 1..n
      <4>1. PICK i \in 1..(n - 1) : i = k + 1 /\ i \in 1..n
          BY <1>1, <3>1
      <4>2. w[i] \in Nat /\ T!Leg(r[i], r[i + 1]) \in Nat
            /\ w[i + 1] = w[i] + T!Leg(r[i], r[i + 1])
          BY <1>1, <1>8, <2>2, <4>1
      <4>3. w[i + 1] \in Nat
          BY <4>2
      <4> QED BY <4>1, <4>3
    <3>2. CASE (k + 1) + 1 \notin 1..n
        BY <3>2
    <3> QED BY <3>1, <3>2
  <2>3. Nat \subseteq A
    <3> HIDE DEF A
    <3> QED BY <2>1, <2>2, Inductive
  <2>4. ASSUME NEW i \in 1..n PROVE w[i] \in Nat
    <3>1. i - 1 \in Nat /\ (i - 1) + 1 = i
        BY <1>1
    <3> QED BY <2>3, <3>1
  <2> QED BY <2>4
<1>10. w \in [1..n -> Nat]
    BY <1>8, <1>9
<1> QED BY <1>7, <1>8, <1>10 DEF Sums, n

\* No route is cheaper than the distance of a destination that is next.
LEMMA NoneCheaper ==
    ASSUME T!Constants, SearchTypes, Searching, search.destination \in T!Nearest,
           NEW r \in T!Routes
    PROVE  T!Price(r) \in Nat /\ distance[search.destination] <= T!Price(r)
<1> DEFINE d == distance[search.destination]
           n == Len(r)
<1>1. PICK u : Sums(r, u)
    BY PriceSums
<1>2. /\ n \in Nat /\ n >= 2 /\ r \in [1..n -> Nodes]
      /\ r[1] = search.source /\ r[n] = search.destination
      /\ \A i \in 1..(n - 1) : Follows(r[i], r[i + 1])
    BY RouteIs
<1>3. /\ u \in [1..n -> Nat] /\ u[1] = 0 /\ u[n] = T!Price(r)
      /\ \A i \in 1..(n - 1) : u[i + 1] = u[i] + T!Leg(r[i], r[i + 1])
      /\ \A i \in 1..(n - 1) : T!Leg(r[i], r[i + 1]) \in Nat
    BY <1>1, <1>2, LegLeast DEF Sums, Follows
<1>4. d \in Nat /\ \A o \in DOMAIN distance \ visited : d <= distance[o]
    BY DEF T!Nearest, SearchTypes
<1>5. \A o \in DOMAIN distance : distance[o] \in Nat
    BY DEF SearchTypes
<1> HIDE DEF d, n
<1> DEFINE A == {k \in Nat : k + 1 \in 1..n =>
                    \/ r[k + 1] \in visited /\ distance[r[k + 1]] <= u[k + 1]
                    \/ d <= u[k + 1]}
<1>6. 0 \in A
  <2>1. search.source \in DOMAIN distance /\ distance[search.source] = 0
      BY DEF Searching
  <2> QED BY <1>2, <1>3, <1>4, <2>1
<1>7. ASSUME NEW k \in Nat, k \in A PROVE k + 1 \in A
  <2>1. SUFFICES ASSUME (k + 1) + 1 \in 1..n
                 PROVE  \/ r[(k + 1) + 1] \in visited
                           /\ distance[r[(k + 1) + 1]] <= u[(k + 1) + 1]
                        \/ d <= u[(k + 1) + 1]
      OBVIOUS
  <2>2. PICK i \in 1..(n - 1) : i = k + 1 /\ i \in 1..n /\ i + 1 \in 1..n
      BY <1>2, <2>1
  <2>3. /\ u[i + 1] = u[i] + T!Leg(r[i], r[i + 1]) /\ T!Leg(r[i], r[i + 1]) \in Nat
        /\ u[i] \in Nat /\ r[i + 1] \in Nodes
      BY <1>2, <1>3, <2>2
  <2>4. CASE d <= u[i]
      BY <1>4, <2>2, <2>3, <2>4
  <2>5. CASE r[i] \in visited /\ distance[r[i]] <= u[i]
    <3>1. /\ r[i + 1] \in DOMAIN distance
          /\ distance[r[i + 1]] <= distance[r[i]] + T!Leg(r[i], r[i + 1])
          /\ r[i] \in DOMAIN distance
        BY <1>2, <2>2, <2>3, <2>5 DEF Searching
    <3>2. distance[r[i + 1]] \in Nat /\ distance[r[i]] \in Nat
        BY <1>5, <3>1
    <3>3. distance[r[i + 1]] <= u[i + 1]
        BY <2>3, <2>5, <3>1, <3>2
    <3>4. r[i + 1] \in visited \/ d <= distance[r[i + 1]]
        BY <1>4, <3>1
    <3> QED BY <1>4, <2>2, <2>3, <3>2, <3>3, <3>4
  <2>6. (r[i] \in visited /\ distance[r[i]] <= u[i]) \/ d <= u[i]
      BY <1>7, <2>2
  <2> QED BY <2>4, <2>5, <2>6
<1>8. Nat \subseteq A
  <2> HIDE DEF A
  <2> QED BY <1>6, <1>7, Inductive
<1>9. n - 1 \in A /\ (n - 1) + 1 = n /\ n \in 1..n
  <2> HIDE DEF A
  <2> QED BY <1>2, <1>8
<1>10. r[n] \notin visited
    BY <1>2 DEF Searching
<1> QED BY <1>3, <1>9, <1>10 DEF d

\* When nothing is open the nodes taken are all a route can lead to.
LEMMA NoneLeft ==
    ASSUME SearchTypes, Searching, T!Nearest = {}
    PROVE  DOMAIN distance \subseteq visited /\ T!Routes = {}
<1>1. DOMAIN distance \subseteq visited
  <2> DEFINE O == DOMAIN distance \ visited
             A == {distance[o] : o \in O}
  <2>1. SUFFICES ASSUME O # {} PROVE FALSE
      OBVIOUS
  <2>2. A \subseteq Nat /\ A # {}
      BY <2>1 DEF SearchTypes
  <2>3. PICK m \in A : \A k \in A : m <= k
    <3> HIDE DEF A
    <3> QED BY <2>2, Least
  <2>4. PICK o \in O : m = distance[o]
      BY <2>3
  <2>5. o \in T!Nearest
      BY <2>3, <2>4 DEF T!Nearest
  <2> QED BY <2>5
<1>2. ASSUME NEW r \in T!Routes PROVE FALSE
  <2> DEFINE n == Len(r)
  <2>1. /\ n \in Nat /\ n >= 2 /\ r \in [1..n -> Nodes]
        /\ r[1] = search.source /\ r[n] = search.destination
        /\ \A i \in 1..(n - 1) : Follows(r[i], r[i + 1])
      BY RouteIs
  <2> HIDE DEF n
  <2> DEFINE A == {k \in Nat : k + 1 \in 1..n => r[k + 1] \in visited}
  <2>2. 0 \in A
      BY <1>1, <2>1 DEF Searching
  <2>3. ASSUME NEW k \in Nat, k \in A PROVE k + 1 \in A
    <3>1. SUFFICES ASSUME (k + 1) + 1 \in 1..n PROVE r[(k + 1) + 1] \in visited
        OBVIOUS
    <3>2. PICK i \in 1..(n - 1) : i = k + 1 /\ i \in 1..n /\ i + 1 \in 1..n
        BY <2>1, <3>1
    <3>3. r[i] \in visited /\ Follows(r[i], r[i + 1]) /\ r[i + 1] \in Nodes
        BY <2>1, <2>3, <3>2
    <3>4. r[i + 1] \in DOMAIN distance
        BY <3>3 DEF Searching
    <3> QED BY <1>1, <3>2, <3>4
  <2>4. Nat \subseteq A
    <3> HIDE DEF A
    <3> QED BY <2>2, <2>3, Inductive
  <2>5. n - 1 \in A /\ (n - 1) + 1 = n /\ n \in 1..n
    <3> HIDE DEF A
    <3> QED BY <2>1, <2>4
  <2> QED BY <2>1, <2>5 DEF Searching
<1> QED BY <1>1, <1>2

\* A node put in front of a route.
LEMMA InFront ==
    ASSUME NEW X, NEW s \in Seq(X), NEW x \in X
    PROVE  LET t == <<x>> \o s
           IN /\ t \in Seq(X) /\ t # <<>> /\ Len(t) = Len(s) + 1 /\ Head(t) = x /\ t[1] = x
              /\ Len(s) \in Nat /\ DOMAIN s = 1..Len(s) /\ DOMAIN t = 1..Len(t)
              /\ \A i \in 1..Len(t) : i = 1 \/ (i - 1 \in 1..Len(s) /\ t[i] = s[i - 1])
OBVIOUS

\* The way back, node by node.
LEMMA BackIs ==
    ASSUME SearchTypes, search.destination \in Nodes
    PROVE  /\ T!Back[0] = <<search.destination>>
           /\ \A k \in Nat :
                 /\ T!Back[k] \in Seq(Nodes)
                 /\ T!Back[k + 1] = IF Head(T!Back[k]) \notin DOMAIN previous THEN T!Back[k]
                                    ELSE <<previous[Head(T!Back[k])]>> \o T!Back[k]
<1> DEFINE d == <<search.destination>>
           g == [ks \in Nat \X Seq(Nodes) |->
                    IF Head(ks[2]) \notin DOMAIN previous THEN ks[2]
                    ELSE <<previous[Head(ks[2])]>> \o ks[2]]
           Again(w) == [k \in Nat |-> IF k = 0 THEN d
                                      ELSE IF Head(w[k - 1]) \notin DOMAIN previous THEN w[k - 1]
                                      ELSE <<previous[Head(w[k - 1])]>> \o w[k - 1]]
<1>1. d \in Seq(Nodes)
    OBVIOUS
<1>2. \A x \in DOMAIN previous : previous[x] \in Nodes
    BY DEF SearchTypes
<1>3. \A s \in Seq(Nodes) : Head(s) \in DOMAIN previous =>
          <<previous[Head(s)]>> \o s \in Seq(Nodes)
    BY <1>2
<1>4. g \in [Nat \X Seq(Nodes) -> Seq(Nodes)]
    BY <1>3
<1>5. \A k \in Nat, s \in Seq(Nodes) :
          g[<<k, s>>] = IF Head(s) \notin DOMAIN previous THEN s
                        ELSE <<previous[Head(s)]>> \o s
    OBVIOUS
<1> HIDE DEF g, d
<1>6. PICK f \in [Nat -> Seq(Nodes)] : Builds(f, d, g)
    BY <1>1, <1>4, Built, Zenon
<1>7. f[0] = d /\ \A k \in Nat : f[k + 1] = g[<<k, f[k]>>]
    BY <1>6 DEF Builds
<1>8. f = Again(f)
  <2>1. ASSUME NEW k \in Nat, k # 0
        PROVE  f[k] = IF Head(f[k - 1]) \notin DOMAIN previous THEN f[k - 1]
                      ELSE <<previous[Head(f[k - 1])]>> \o f[k - 1]
    <3>1. PICK i \in Nat : i = k - 1 /\ k = i + 1
        BY <2>1
    <3> QED BY <1>5, <1>7, <3>1
  <2> QED BY <1>7, <2>1
<1>9. T!Back = Again(T!Back)
    BY <1>8 DEF T!Back, d
<1>10. T!Back[0] = d
    BY <1>9
<1>11. ASSUME NEW k \in Nat
       PROVE  T!Back[k + 1] = IF Head(T!Back[k]) \notin DOMAIN previous THEN T!Back[k]
                              ELSE <<previous[Head(T!Back[k])]>> \o T!Back[k]
  <2>1. k + 1 \in Nat /\ k + 1 # 0 /\ (k + 1) - 1 = k
      OBVIOUS
  <2> QED BY <1>9, <2>1
<1> DEFINE A == {k \in Nat : T!Back[k] \in Seq(Nodes)}
<1>12. 0 \in A
    BY <1>1, <1>10
<1>13. ASSUME NEW k \in Nat, k \in A PROVE k + 1 \in A
  <2>1. T!Back[k + 1] \in Seq(Nodes)
    <3> DEFINE s == T!Back[k]
    <3>1. s \in Seq(Nodes)
        BY <1>13
    <3>2. T!Back[k + 1] = IF Head(s) \notin DOMAIN previous THEN s
                         ELSE <<previous[Head(s)]>> \o s
        BY <1>11
    <3> HIDE DEF s
    <3> QED BY <1>3, <3>1, <3>2
  <2> QED BY <2>1
<1>14. Nat \subseteq A
  <2> HIDE DEF A
  <2> QED BY <1>12, <1>13, Inductive
<1> QED BY <1>10, <1>11, <1>14 DEF d

LeadsBack(b, k) ==
    /\ b \in Seq(Nodes) /\ b # <<>> /\ b[Len(b)] = search.destination
    /\ \A i \in 1..Len(b) : b[i] \in DOMAIN distance
    /\ \A i \in 1..(Len(b) - 1) : b[i + 1] \in DOMAIN previous /\ b[i] = previous[b[i + 1]]
    /\ \A i, j \in 1..Len(b) : i < j => distance[b[i]] < distance[b[j]]
    /\ Head(b) \in DOMAIN previous => Len(b) = k + 1

\* A node is farther than the one before it.
LEMMA Farther ==
    ASSUME T!Constants, SearchTypes, Searching, NEW n \in DOMAIN previous
    PROVE  /\ previous[n] \in DOMAIN distance /\ previous[n] \in Nodes /\ n \in DOMAIN distance
           /\ n \in Nodes /\ distance[n] \in Nat /\ distance[previous[n]] \in Nat
           /\ T!Leg(previous[n], n) \in Nat
           /\ distance[n] = distance[previous[n]] + T!Leg(previous[n], n)
           /\ distance[previous[n]] < distance[n] /\ n # search.source
           /\ Follows(previous[n], n)
<1>1. /\ n \in DOMAIN distance /\ previous[n] \in DOMAIN distance /\ Follows(previous[n], n)
      /\ distance[n] = distance[previous[n]] + T!Leg(previous[n], n)
      /\ distance[search.source] = 0
    BY DEF Searching
<1>2. T!Leg(previous[n], n) \in Nat \ {0}
    BY <1>1, LegLeast DEF Follows
<1>3. \A o \in DOMAIN distance : o \in Nodes /\ distance[o] \in Nat
    BY DEF SearchTypes
<1>4. distance[n] \in Nat /\ distance[previous[n]] \in Nat
    BY <1>1, <1>3
<1>5. distance[previous[n]] < distance[n] /\ distance[n] # 0
    BY ONLY <1>1, <1>2, <1>4
<1> QED BY <1>1, <1>2, <1>3, <1>4, <1>5

LEMMA BackLeads ==
    ASSUME T!Constants, SearchTypes, Searching, search.destination \in DOMAIN distance
    PROVE  \A k \in Nat : LeadsBack(T!Back[k], k)
<1> DEFINE A == {k \in Nat : LeadsBack(T!Back[k], k)}
<1>1. search.destination \in Nodes
    BY DEF SearchTypes
<1>2. 0 \in A
  <2> DEFINE b == T!Back[0]
  <2>1. b = <<search.destination>>
      BY <1>1, BackIs
  <2>2. b \in Seq(Nodes) /\ b # <<>> /\ Len(b) = 1 /\ b[1] = search.destination
      BY <1>1, <2>1
  <2> HIDE DEF b
  <2>3. LeadsBack(b, 0)
      BY <2>2 DEF LeadsBack
  <2> QED BY <2>3 DEF b
<1>3. ASSUME NEW k \in Nat, LeadsBack(T!Back[k], k)
      PROVE  LeadsBack(T!Back[k + 1], k + 1)
  <2> DEFINE b == T!Back[k]
             h == Head(b)
             t == <<previous[h]>> \o b
  <2>1. /\ b \in Seq(Nodes) /\ b # <<>> /\ b[Len(b)] = search.destination
        /\ \A i \in 1..Len(b) : b[i] \in DOMAIN distance
        /\ \A i \in 1..(Len(b) - 1) : b[i + 1] \in DOMAIN previous /\ b[i] = previous[b[i + 1]]
        /\ \A i, j \in 1..Len(b) : i < j => distance[b[i]] < distance[b[j]]
        /\ h \in DOMAIN previous => Len(b) = k + 1
      BY <1>3 DEF LeadsBack
  <2>2. /\ h \notin DOMAIN previous => T!Back[k + 1] = b
        /\ h \in DOMAIN previous => T!Back[k + 1] = t
      BY <1>1, BackIs
  <2> HIDE DEF b
  <2>3. Len(b) \in Nat /\ Len(b) >= 1 /\ b[1] = h
      BY <2>1
  <2> HIDE DEF h
  <2>4. CASE h \notin DOMAIN previous
    <3>1. LeadsBack(b, k + 1)
        BY <2>1, <2>4 DEF LeadsBack, h
    <3> QED BY <2>2, <2>4, <3>1
  <2>5. CASE h \in DOMAIN previous
    <3>1. /\ previous[h] \in DOMAIN distance /\ previous[h] \in Nodes
          /\ distance[previous[h]] \in Nat /\ distance[h] \in Nat
          /\ distance[previous[h]] < distance[h]
        BY <2>5, Farther
    <3>2. /\ t \in Seq(Nodes) /\ t # <<>> /\ Len(t) = Len(b) + 1
          /\ Head(t) = previous[h] /\ t[1] = previous[h]
          /\ \A i \in 1..Len(t) : i = 1 \/ (i - 1 \in 1..Len(b) /\ t[i] = b[i - 1])
        BY <2>1, <3>1, InFront
    <3> HIDE DEF t
    <3>3. t[Len(t)] = search.destination /\ Len(t) = (k + 1) + 1
      <4>1. Len(t) \in 1..Len(t) /\ Len(t) # 1 /\ Len(t) - 1 = Len(b)
          BY <2>3, <3>2
      <4> QED BY <2>1, <2>5, <3>2, <4>1
    <3>4. \A i \in 1..Len(t) : t[i] \in DOMAIN distance
        BY <2>1, <3>1, <3>2
    <3>5. ASSUME NEW i \in 1..(Len(t) - 1)
          PROVE  t[i + 1] \in DOMAIN previous /\ t[i] = previous[t[i + 1]]
      <4>1. i + 1 \in 1..Len(t) /\ i + 1 # 1 /\ (i + 1) - 1 = i /\ i \in 1..Len(t)
            /\ i \in 1..Len(b)
          BY <2>3, <3>2
      <4>2. t[i + 1] = b[i]
          BY <3>2, <4>1
      <4>3. CASE i = 1
          BY <2>3, <2>5, <3>2, <4>2, <4>3
      <4>4. CASE i # 1
        <5>1. i - 1 \in 1..(Len(b) - 1) /\ (i - 1) + 1 = i /\ t[i] = b[i - 1]
            BY <2>3, <3>2, <4>1, <4>4
        <5>2. b[(i - 1) + 1] \in DOMAIN previous /\ b[i - 1] = previous[b[(i - 1) + 1]]
            BY <2>1, <5>1
        <5> QED BY <4>2, <5>1, <5>2
      <4> QED BY <4>3, <4>4
    <3>6. ASSUME NEW i \in 1..Len(t), NEW j \in 1..Len(t), i < j
          PROVE  distance[t[i]] < distance[t[j]]
      <4>1. j # 1 /\ j - 1 \in 1..Len(b) /\ t[j] = b[j - 1]
          BY <3>2, <3>6
      <4>2. CASE i # 1
        <5>1. i - 1 \in 1..Len(b) /\ t[i] = b[i - 1] /\ i - 1 < j - 1
            BY <3>2, <3>6, <4>2
        <5> QED BY <2>1, <4>1, <5>1
      <4>3. CASE i = 1
        <5>1. t[i] = previous[h] /\ 1 \in 1..Len(b)
            BY <2>3, <3>2, <4>3
        <5>2. j - 1 = 1 \/ 1 < j - 1
            BY <4>1
        <5>3. b[j - 1] = h \/ distance[h] < distance[b[j - 1]]
            BY <2>1, <2>3, <4>1, <5>1, <5>2
        <5>4. distance[b[j - 1]] \in Nat
            BY <2>1, <4>1 DEF SearchTypes
        <5> QED BY <3>1, <4>1, <5>1, <5>3, <5>4
      <4> QED BY <4>2, <4>3
    <3>7. LeadsBack(t, k + 1)
        BY <3>2, <3>3, <3>4, <3>5, <3>6 DEF LeadsBack
    <3> QED BY <2>2, <2>5, <3>7 DEF t
  <2> QED BY <2>4, <2>5
<1>4. Nat \subseteq A
  <2>1. \A k \in Nat : k \in A => k + 1 \in A
      BY <1>3
  <2> HIDE DEF A
  <2> QED BY <1>2, <2>1, Inductive
<1> QED BY <1>4

LEMMA NodesFinite ==
    ASSUME T!Constants
    PROVE  /\ IsFiniteSet(Nodes) /\ T!Cardinality(Nodes) = Cardinality(Nodes)
           /\ Cardinality(Nodes) \in Nat
<1>1. T!IsFiniteSet(Nodes) /\ (T!IsFiniteSet(Nodes) <=> IsFiniteSet(Nodes))
      /\ T!Cardinality(Nodes) = Cardinality(Nodes)
    BY DEF T!Constants, T!IsFiniteSet, IsFiniteSet, T!Cardinality, Cardinality
<1> QED BY <1>1, FS_CardinalityType

\* The route written: the way back, from the source on, at the price of the distance.
LEMMA RouteFound ==
    ASSUME T!Constants, SearchTypes, Searching, search.destination \in DOMAIN distance
    PROVE  /\ T!Back[T!Cardinality(Nodes)] \in T!Routes
           /\ T!Back[T!Cardinality(Nodes)] \in Seq(Nodes)
           /\ T!Price(T!Back[T!Cardinality(Nodes)]) = distance[search.destination]
<1> DEFINE c == Cardinality(Nodes)
           b == T!Back[c]
           n == Len(b)
<1>1. c \in Nat /\ c = T!Cardinality(Nodes)
    BY NodesFinite
<1>2. LeadsBack(b, c)
    BY <1>1, BackLeads
<1>3. /\ b \in Seq(Nodes) /\ b # <<>> /\ b[n] = search.destination
      /\ \A i \in 1..n : b[i] \in DOMAIN distance
      /\ \A i \in 1..(n - 1) : b[i + 1] \in DOMAIN previous /\ b[i] = previous[b[i + 1]]
      /\ \A i, j \in 1..n : i < j => distance[b[i]] < distance[b[j]]
      /\ Head(b) \in DOMAIN previous => n = c + 1
    BY <1>2 DEF LeadsBack
<1> HIDE DEF b
<1>4. n \in Nat /\ n >= 1 /\ b \in [1..n -> Nodes] /\ Head(b) = b[1]
    BY <1>3
<1> HIDE DEF n, c
<1>5. \A i \in 1..n : distance[b[i]] \in Nat
    BY <1>3 DEF SearchTypes
<1>6. ASSUME NEW i \in 1..n, NEW j \in 1..n, b[i] = b[j] PROVE i = j
  <2>1. ~(i < j) /\ ~(j < i)
      BY <1>3, <1>5, <1>6
  <2> QED BY <1>4, <2>1
<1>7. n <= c
  <2>1. SUFFICES ASSUME n > c PROVE FALSE
      BY <1>1, <1>4
  <2>2. IsFiniteSet(1..n) /\ Cardinality(1..n) = n
    <3>1. 1 \in Int /\ n \in Int /\ n >= 1
        BY <1>4
    <3>2. IsFiniteSet(1..n) /\ Cardinality(1..n) = IF 1 > n THEN 0 ELSE n - 1 + 1
        BY ONLY <3>1, FS_Interval
    <3> QED BY <3>1, <3>2
  <2>3. \E x, y \in 1..n : x # y /\ b[x] = b[y]
      BY <1>4, <2>1, <2>2, NodesFinite, FS_PigeonHole DEF c
  <2> QED BY <1>6, <2>3
<1>8. b[1] \notin DOMAIN previous /\ 1 \in 1..n
    BY <1>1, <1>3, <1>4, <1>7
<1>9. b[1] = search.source
    BY <1>3, <1>8 DEF Searching
<1>10. n >= 2 /\ n \in 2..c
  <2>1. n # 1
      BY <1>3, <1>9 DEF Searching
  <2> QED BY <1>1, <1>4, <1>7, <2>1
<1>11. ASSUME NEW i \in 1..(n - 1)
       PROVE  /\ Follows(b[i], b[i + 1])
              /\ distance[b[i + 1]] = distance[b[i]] + T!Leg(b[i], b[i + 1])
    BY <1>3, Farther
<1>12. ASSUME NEW i \in 2..(n - 1) PROVE b[i] \in search.usable
  <2>1. i - 1 \in 1..(n - 1) /\ (i - 1) + 1 = i /\ i \in 1..n /\ n \in 1..n /\ i # n
      BY <1>4
  <2>2. Follows(b[i - 1], b[(i - 1) + 1])
      BY <1>11, <2>1
  <2>3. b[i] # search.destination
      BY <1>3, <1>6, <2>1
  <2> QED BY <2>1, <2>2, <2>3 DEF Follows
<1>13. b \in T!Routes
  <2>1. b \in UNION {[1..k -> Nodes] : k \in 2..T!Cardinality(Nodes)}
      BY <1>1, <1>4, <1>10
  <2>2. DOMAIN b = 1..n
      BY <1>4
  <2>3. T!IsInjective(b)
      BY <1>6, <2>2 DEF T!IsInjective
  <2>4. \A i \in 1..(n - 1) : \E e \in taxiPathGraph : e[1] = b[i] /\ e[2] = b[i + 1]
      BY <1>11 DEF Follows, Edges
  <2> QED BY <1>3, <1>9, <1>12, <2>1, <2>3, <2>4 DEF T!Routes, n
<1>14. PICK u : Sums(b, u)
    BY <1>13, PriceSums
<1>15. /\ u \in [1..n -> Nat] /\ u[1] = 0 /\ u[n] = T!Price(b)
       /\ \A i \in 1..(n - 1) : u[i + 1] = u[i] + T!Leg(b[i], b[i + 1])
    BY <1>14 DEF Sums, n
<1> DEFINE A == {k \in Nat : k + 1 \in 1..n => u[k + 1] = distance[b[k + 1]]}
<1>16. 0 \in A
    BY <1>9, <1>15 DEF Searching
<1>17. ASSUME NEW k \in Nat, k \in A PROVE k + 1 \in A
  <2>1. SUFFICES ASSUME (k + 1) + 1 \in 1..n PROVE u[(k + 1) + 1] = distance[b[(k + 1) + 1]]
      OBVIOUS
  <2>2. PICK i \in 1..(n - 1) : i = k + 1 /\ i \in 1..n
      BY <1>4, <2>1
  <2>3. u[i] = distance[b[i]]
      BY <1>17, <2>2
  <2>4. u[i + 1] = distance[b[i + 1]]
      BY <1>11, <1>15, <2>2, <2>3
  <2> QED BY <2>2, <2>4
<1>18. Nat \subseteq A
  <2> HIDE DEF A
  <2> QED BY <1>16, <1>17, Inductive
<1>19. n - 1 \in A /\ (n - 1) + 1 = n /\ n \in 1..n
  <2> HIDE DEF A
  <2> QED BY <1>4, <1>18
<1>20. T!Price(b) = distance[search.destination]
    BY <1>3, <1>15, <1>19
<1> QED BY <1>1, <1>3, <1>13, <1>20 DEF b

LEMMA FinishSearches ==
    ASSUME T!Constants, SearchInv, T!Finish
    PROVE  SearchInv'
<1>1. /\ search.phase = "search" /\ (T!Nearest = {} \/ search.destination \in T!Nearest)
      /\ UNCHANGED <<taxiPathGraph, currentTaxiNode, usableTaxiNodes, distance, previous, visited>>
    BY DEF T!Finish, T!menuVars
<1>2. SearchTypes /\ Searching
    BY <1>1 DEF SearchInv
<1>3. CASE search.destination \in DOMAIN distance
  <2>1. /\ route' = T!Back[T!Cardinality(Nodes)]
        /\ search' = [search EXCEPT !.phase = "written"]
      BY <1>3 DEF T!Finish
  <2>2. search.destination \in T!Nearest
      BY <1>1, <1>2, <1>3, NoneLeft DEF Searching
  <2>3. /\ route' \in T!Routes /\ route' \in Seq(Nodes)
        /\ T!Price(route') = distance[search.destination]
      BY <1>2, <1>3, <2>1, RouteFound
  <2>4. \A r \in T!Routes : T!Price(route') <= T!Price(r)
      BY <1>2, <2>2, <2>3, NoneCheaper
  <2>5. /\ search'.phase = "written" /\ search'.source = search.source
        /\ search'.destination = search.destination /\ search'.usable = search.usable
        /\ search' \in [phase : T!Phases, source : Nodes \cup {T!NoNode},
                        destination : Nodes \cup {T!NoNode}, usable : SUBSET Nodes]
      BY <1>2, <2>1 DEF SearchTypes, T!Phases
  <2>6. T!Routes' = T!Routes /\ \A r : T!Price(r)' = T!Price(r)
      BY <1>1, <2>5 DEF T!Routes, T!Price, T!Leg, T!Cost
  <2>7. RouteCheapest'
    <3>1. T!Price(route)' = T!Price(route')
        BY <1>1 DEF T!Price, T!Leg, T!Cost
    <3> QED BY <2>3, <2>4, <2>5, <2>6, <3>1 DEF RouteCheapest, T!RouteCheapest
  <2>8. SearchTypes'
      BY <1>1, <1>2, <2>3, <2>5 DEF SearchTypes
  <2> QED BY <2>5, <2>7, <2>8 DEF SearchInv
<1>4. CASE search.destination \notin DOMAIN distance
  <2>1. route' = route /\ search' = [search EXCEPT !.phase = "refused"]
      BY <1>4 DEF T!Finish
  <2>2. T!Nearest = {}
      BY <1>1, <1>4 DEF T!Nearest
  <2>3. T!Routes = {}
      BY <1>2, <2>2, NoneLeft
  <2>4. /\ search'.phase = "refused" /\ search'.source = search.source
        /\ search'.destination = search.destination /\ search'.usable = search.usable
        /\ search' \in [phase : T!Phases, source : Nodes \cup {T!NoNode},
                        destination : Nodes \cup {T!NoNode}, usable : SUBSET Nodes]
      BY <1>2, <2>1 DEF SearchTypes, T!Phases
  <2>5. T!Routes' = T!Routes
      BY <1>1, <2>4 DEF T!Routes
  <2>6. RouteCheapest'
      BY <2>3, <2>4, <2>5 DEF RouteCheapest, T!RouteCheapest
  <2>7. SearchTypes'
      BY <1>1, <1>2, <2>1, <2>4 DEF SearchTypes
  <2> QED BY <2>4, <2>6, <2>7 DEF SearchInv
<1> QED BY <1>3, <1>4

LEMMA SearchNext ==
    ASSUME T!Constants, SearchInv, [T!Next]_taxiVars
    PROVE  SearchInv'
<1>1. ASSUME UNCHANGED <<taxiPathGraph, search, distance, previous, visited, route>>,
             currentTaxiNode' \in Nodes \cup {T!NoNode}, usableTaxiNodes' \subseteq Nodes
      PROVE  SearchInv'
  <2>1. SearchTypes'
      BY <1>1 DEF SearchInv, SearchTypes
  <2>2. search'.phase = "search" => Searching'
    <3>1. \A a, b : T!Leg(a, b)' = T!Leg(a, b)
        BY <1>1 DEF T!Leg, T!Cost
    <3>2. \A a, b : Follows(a, b)' <=> Follows(a, b)
        BY <1>1 DEF Follows, Edges
    <3> QED BY <1>1, <3>1, <3>2 DEF SearchInv, Searching
  <2>3. RouteCheapest'
    <3>1. T!Routes' = T!Routes /\ \A r : T!Price(r)' = T!Price(r)
        BY <1>1 DEF T!Routes, T!Price, T!Leg, T!Cost
    <3>2. T!Price(route)' = T!Price(route)
        BY <1>1 DEF T!Price, T!Leg, T!Cost
    <3> QED BY <1>1, <3>1, <3>2 DEF SearchInv, RouteCheapest, T!RouteCheapest
  <2> QED BY <2>1, <2>2, <2>3 DEF SearchInv
<1>2. currentTaxiNode \in Nodes \cup {T!NoNode} /\ usableTaxiNodes \subseteq Nodes
      /\ taxiPathGraph \in Graphs
    BY DEF SearchInv, SearchTypes
<1>3. ASSUME T!Idle, UNCHANGED taxiPathGraph,
             currentTaxiNode' \in Nodes \cup {T!NoNode}, usableTaxiNodes' \subseteq Nodes
      PROVE  SearchInv'
  <2>1. search'.phase = "idle" /\ route' = <<>> /\ visited' = {}
        /\ search' \in [phase : T!Phases, source : Nodes \cup {T!NoNode},
                        destination : Nodes \cup {T!NoNode}, usable : SUBSET Nodes]
      BY <1>3 DEF T!Idle, T!NoSearch, T!Phases
  <2>2. {} \in SUBSET Nodes /\ distance' \in [{} -> Nat] /\ previous' \in [{} -> Nodes]
      BY <1>3 DEF T!Idle, T!Empty
  <2>3. route' \in Seq(Nodes)
      BY <2>1
  <2>4. SearchTypes'
      BY <1>2, <1>3, <2>1, <2>2, <2>3 DEF SearchTypes
  <2> QED BY <2>1, <2>4 DEF SearchInv, RouteCheapest, T!RouteCheapest
<1>4. ASSUME NEW n \in Nodes, NEW usable \in Masks, T!ShowTaxiNodes(n, usable)
      PROVE  SearchInv'
  <2>1. usable \subseteq Nodes
      BY DEF T!Constants
  <2> QED BY <1>1, <1>4, <2>1 DEF T!ShowTaxiNodes, T!searchVars
<1>5. CASE T!RealmAccepts \/ T!RealmRefuses
    BY <1>2, <1>3, <1>5 DEF T!RealmAccepts, T!RealmRefuses, T!menuVars
<1>6. CASE T!NextSegment \/ T!Lands \/ T!ActivateTaxiReply \/ T!FlightSpline \/ T!GraceEnds
    BY <1>1, <1>2, <1>6 DEF T!NextSegment, T!Lands, T!ActivateTaxiReply, T!FlightSpline,
        T!GraceEnds, T!menuVars, T!searchVars
<1>7. CASE T!LoginAgain
    BY <1>3, <1>7 DEF T!LoginAgain
<1>8. CASE UNCHANGED taxiVars
    BY <1>1, <1>2, <1>8 DEF taxiVars
<1> QED BY <1>4, <1>5, <1>6, <1>7, <1>8, VisitSearches, ActivateSearches, FinishSearches
        DEF T!Next

LEMMA SearchInit == ServerInit => SearchInv
<1> SUFFICES ASSUME ServerInit PROVE SearchInv
    OBVIOUS
<1>1. /\ taxiPathGraph \in Graphs /\ currentTaxiNode = T!NoNode /\ usableTaxiNodes = {}
      /\ search = T!NoSearch /\ distance = T!Empty /\ previous = T!Empty
      /\ visited = {} /\ route = <<>>
    BY DEF ServerInit, T!Init
<1>2. search.phase = "idle"
      /\ search \in [phase : T!Phases, source : Nodes \cup {T!NoNode},
                     destination : Nodes \cup {T!NoNode}, usable : SUBSET Nodes]
    BY <1>1 DEF T!NoSearch, T!Phases
<1>3. {} \in SUBSET Nodes /\ distance \in [{} -> Nat] /\ previous \in [{} -> Nodes]
    BY <1>1 DEF T!Empty
<1>4. route \in Seq(Nodes)
    BY <1>1
<1>5. SearchTypes
    BY <1>1, <1>2, <1>3, <1>4 DEF SearchTypes
<1> QED BY <1>2, <1>5 DEF SearchInv, RouteCheapest, T!RouteCheapest

\* Of every request written to the realm the route is a cheapest one from the node of its
\* menu to the destination over usable nodes, and only a request without any is refused,
\* for every table of paths, whatever ties the search breaks.
THEOREM CheapestRoutes == ServerSpec => []RouteCheapest
<1>1. ServerInit => SearchInv
    BY SearchInit
<1>2. SearchInv => RouteCheapest
    BY DEF SearchInv
<1>3. SearchInv /\ [ServerNext]_allVars => SearchInv'
    BY TaxiStep, SearchNext, ServerConstants
<1> QED BY <1>1, <1>2, <1>3, PTL DEF ServerSpec, allVars

-----------------------------------------------------------------------------
(* What is proved of a part alone holds of the part in the server.  Its      *)
(* instance here and the one its proofs come with are of the same text.      *)

LP == INSTANCE RealmLoginProofs WITH open <- unguarded
IP == INSTANCE InventoryProofs WITH Items <- Carried, shown <- places, asked <- itemRequest

LEMMA SameLogin == R!Init = LP!Init /\ R!Next = LP!Next
BY DEF R!Sessions, R!NoSession, R!Conns, R!NoConn, R!Secrets, R!NoSecret, R!bnetVars,
       R!joinVars, R!connVars, R!vars, R!Init, R!LoginPOST, R!WebCredentials,
       R!RealmListTicket, R!AtRealmList, R!RealmJoin, R!Disconnect, R!Connect, R!Dial,
       R!EnterEncryptedMode, R!ClientCloses, R!Detach, R!End, R!Next, LP!Sessions,
       LP!NoSession, LP!Conns, LP!NoConn, LP!Secrets, LP!NoSecret, LP!bnetVars,
       LP!joinVars, LP!connVars, LP!vars, LP!Init, LP!LoginPOST, LP!WebCredentials,
       LP!RealmListTicket, LP!AtRealmList, LP!RealmJoin, LP!Disconnect, LP!Connect,
       LP!Dial, LP!EnterEncryptedMode, LP!ClientCloses, LP!Detach, LP!End, LP!Next

LEMMA LoginStep == [ServerNext]_allVars => [R!Next]_loginVars
BY DEF ServerNext, allVars, Rests

LEMMA LoginServed == ServerSpec => LP!Spec
<1>1. ServerInit => LP!Init
    BY SameLogin DEF ServerInit
<1>2. [ServerNext]_allVars => [LP!Next]_LP!vars
    BY LoginStep, SameLogin DEF loginVars, LP!vars, LP!bnetVars, LP!joinVars, LP!connVars
<1> QED BY <1>1, <1>2, PTL DEF LP!Spec, ServerSpec, allVars

LEMMA LoginConstants == LP!Constants
BY ServerConstants DEF ServerConstants, R!Constants, LP!Constants

\* Any number of logins, joins and connections: a client that gets through the handshake is
\* in the session of its own login, on the realm it asked for last, and the session writes
\* to it unless it was given to another login's client since (RealmLoginProofs!JoinServed).
THEOREM RealmJoinServed == ServerSpec => []RealmServesJoin
<1>1. LP!Spec => []LP!RealmServesJoin
    BY LoginConstants, LP!JoinServed
<1>2. LP!RealmServesJoin => RealmServesJoin
    BY DEF LP!RealmServesJoin, RealmServesJoin, R!RealmServesJoin, LP!Displaced, R!Displaced
<1> QED BY <1>1, <1>2, LoginServed, PTL

LEMMA SameFields == I!Fields = IP!Fields
BY DEF I!Fields, I!MainField, I!BagField, IP!Fields, IP!MainField, IP!BagField

LEMMA SamePlaces ==
    /\ I!ClientPlaces = IP!ClientPlaces
    /\ \A p : I!ClientField(p) = IP!ClientField(p)
    /\ I!ValuesDelta = IP!ValuesDelta
BY SameFields DEF I!ClientPlaces, I!ClientField, I!modernInventoryLegacyField,
       I!MainField, I!BagField, I!Nothing, I!ValuesDelta, IP!ClientPlaces, IP!ClientField,
       IP!modernInventoryLegacyField, IP!MainField, IP!BagField, IP!Nothing,
       IP!ValuesDelta

LEMMA SameCount == \A A : I!Cardinality(A) = IP!Cardinality(A)
BY DEF I!Cardinality, IP!Cardinality

LEMMA SameInit == I!Init => IP!Init
<1>1. \A h : I!BagsWorn(h) = IP!BagsWorn(h)
    BY SameFields DEF I!BagsWorn, I!WornFields, I!WornSlots, I!MainField, IP!BagsWorn,
           IP!WornFields, IP!WornSlots, IP!MainField
<1> QED BY <1>1, SameFields, SamePlaces, SameCount DEF I!Init, I!Contents, I!Things,
        I!Nothing, I!NoRequest, I!NotYet, IP!Init, IP!Contents, IP!Things, IP!Nothing,
        IP!NoRequest, IP!NotYet

LEMMA SameRelay == I!Relay => IP!Relay
BY SamePlaces, SameCount DEF I!Relay, I!Nothing, IP!Relay, IP!Nothing

LEMMA SameShown == I!Shown = IP!Shown
BY DEF I!Shown, I!Nothing, IP!Shown, IP!Nothing, I!realmVars, I!clientVars, I!relayVars,
       IP!realmVars, IP!clientVars, IP!relayVars

LEMMA SameForward == I!Forward = IP!Forward
BY DEF I!Forward, I!NoRequest, I!Translated, I!Body, I!adjustInvSlotPair,
       I!AdjustInventorySlot, I!Backpack, I!ParseSwapItem, I!ParseSwapInvItem,
       I!ParseSplitItem, I!ParseWrapItem, I!ParseAutoEquipItem, I!ParseAutoEquipItemSlot,
       I!ParseAutoStoreBagItem, I!ParseDestroyItem, I!EncodeLegacyOpenItem,
       I!EncodeLegacyReadItem, I!EncodeLegacyBuyBackItem, IP!Forward, IP!NoRequest,
       IP!Translated, IP!Body, IP!adjustInvSlotPair, IP!AdjustInventorySlot, IP!Backpack,
       IP!ParseSwapItem, IP!ParseSwapInvItem, IP!ParseSplitItem, IP!ParseWrapItem,
       IP!ParseAutoEquipItem, IP!ParseAutoEquipItemSlot, IP!ParseAutoStoreBagItem,
       IP!ParseDestroyItem, IP!EncodeLegacyOpenItem, IP!EncodeLegacyReadItem,
       IP!EncodeLegacyBuyBackItem, I!realmVars, I!clientVars, I!relayVars, IP!realmVars,
       IP!clientVars, IP!relayVars

LEMMA SameAddresses == I!ShownAddresses = IP!ShownAddresses
BY DEF I!ShownAddresses, I!Addresses, I!Packs, I!ClientSlots, I!Backpack, I!Shows,
       I!Place, I!Container, I!NoRequest, IP!ShownAddresses, IP!Addresses, IP!Packs,
       IP!ClientSlots, IP!Backpack, IP!Shows, IP!Place, IP!Container, IP!NoRequest

LEMMA SameRequest == \A kind, a, b : I!Request(kind, a, b) = IP!Request(kind, a, b)
BY DEF I!Request, I!Thing, I!Shows, I!Place, I!Container, I!Backpack, I!TwoPlaces,
       I!Nothing, IP!Request, IP!Thing, IP!Shows, IP!Place, IP!Container, IP!Backpack,
       IP!TwoPlaces, IP!Nothing

LEMMA SameSends == \A r : I!Sends(r) = IP!Sends(r)
BY DEF I!Sends, I!NotYet, IP!Sends, IP!NotYet, I!realmVars, I!clientVars, I!relayVars,
       IP!realmVars, IP!clientVars, IP!relayVars

LEMMA SameAsks ==
    \A kind, a, b :
       /\ I!NameTwo(kind, a, b) = IP!NameTwo(kind, a, b)
       /\ I!NameOne(kind, a) = IP!NameOne(kind, a)
       /\ I!Equip(a, b) = IP!Equip(a, b) /\ I!Store(a, b) = IP!Store(a, b)
       /\ I!BuyBack(a) = IP!BuyBack(a)
BY SameRequest, SameSends DEF I!NameTwo, I!NameOne, I!Equip, I!Store, I!BuyBack, I!Thing,
       I!Shows, I!Place, I!Container, I!Backpack, I!TwoPlaces, I!OnePlace, IP!NameTwo,
       IP!NameOne, IP!Equip, IP!Store, IP!BuyBack, IP!Thing, IP!Shows, IP!Place,
       IP!Container, IP!Backpack, IP!TwoPlaces, IP!OnePlace

LEMMA SameClient == I!Client = IP!Client
<1>1. \A a : I!Asks(a) = IP!Asks(a)
    BY SameAddresses, SameAsks DEF I!Asks, IP!Asks, I!Packs, IP!Packs, I!ClientSlots,
           IP!ClientSlots, I!Backpack, IP!Backpack, I!TwoPlaces, IP!TwoPlaces, I!OnePlace,
           IP!OnePlace
<1> QED BY <1>1, SameShown, SameAddresses DEF I!Client, IP!Client, I!NoRequest,
        IP!NoRequest

LEMMA SameMoves ==
    \A f, g : /\ I!RealmMoves(f, g) = IP!RealmMoves(f, g)
              /\ I!RealmGives(f, g) = IP!RealmGives(f, g)
BY SameFields DEF I!RealmMoves, I!RealmGives, I!Free, I!Swapped, I!Becomes, I!BagsWorn,
       I!WornFields, I!WornSlots, I!MainField, I!Disturbs, I!Stale, I!NotYet, I!NoRequest,
       I!Nothing, IP!RealmMoves, IP!RealmGives, IP!Free, IP!Swapped, IP!Becomes,
       IP!BagsWorn, IP!WornFields, IP!WornSlots, IP!MainField, IP!Disturbs, IP!Stale,
       IP!NotYet, IP!NoRequest, IP!Nothing, I!realmVars, I!clientVars, I!relayVars,
       IP!realmVars, IP!clientVars, IP!relayVars

LEMMA SameWhere ==
    \A b : /\ I!Source(b) = IP!Source(b) /\ I!Targets(b) = IP!Targets(b)
           /\ I!At(b) = IP!At(b) /\ I!Found(b) = IP!Found(b)
BY SameFields DEF I!Found, I!At, I!Source, I!FieldOf, I!RealmField, I!MainField,
       I!BagField, I!TwoPlaces, I!Targets, I!Free, I!Backpack, IP!Found, IP!At, IP!Source,
       IP!FieldOf, IP!RealmField, IP!MainField, IP!BagField, IP!TwoPlaces, IP!Targets,
       IP!Free, IP!Backpack

LEMMA SameHandled == \A d : I!Handled(d) = IP!Handled(d)
BY SameWhere DEF I!Handled, I!NotYet, I!NoRequest, IP!Handled, IP!NotYet, IP!NoRequest,
       I!realmVars, I!clientVars, I!relayVars, IP!realmVars, IP!clientVars, IP!relayVars

LEMMA SameBecomes == \A h : I!Becomes(h) = IP!Becomes(h)
BY SameFields DEF I!Becomes, IP!Becomes, I!BagsWorn, IP!BagsWorn, I!WornFields,
       IP!WornFields, I!WornSlots, IP!WornSlots, I!MainField, IP!MainField, I!Nothing,
       IP!Nothing

LEMMA SamePuts ==
    /\ I!RealmRefuses = IP!RealmRefuses /\ I!RealmTakes = IP!RealmTakes
    /\ \A g : I!RealmPuts(g) = IP!RealmPuts(g)
<1>1. I!RealmRefuses = IP!RealmRefuses
    BY SameHandled DEF I!RealmRefuses, IP!RealmRefuses, I!NoRequest, IP!NoRequest,
           I!realmVars, IP!realmVars
<1>2. I!RealmTakes = IP!RealmTakes
    BY SameHandled, SameWhere, SameBecomes DEF I!RealmTakes, IP!RealmTakes
<1>3. \A g : I!RealmPuts(g) = IP!RealmPuts(g)
    BY SameHandled, SameWhere, SameBecomes DEF I!RealmPuts, IP!RealmPuts, I!Swapped,
           IP!Swapped
<1> QED BY <1>1, <1>2, <1>3

LEMMA SameNext == I!Next => IP!Next
BY SameClient, SameForward, SameRelay, SameMoves, SamePuts, SameFields DEF I!Next,
       I!Proxy, I!Realm, IP!Next, IP!Proxy, IP!Realm

LEMMA InventoryStep == [ServerNext]_allVars => [I!Next]_inventoryVars
BY DEF ServerNext, allVars, Rests

\* The inventory of the server is the inventory that is proved about.
LEMMA InventoryServed == ServerSpec => IP!Spec
<1>1. ServerInit => IP!Init
    BY SameInit DEF ServerInit
<1>2. [ServerNext]_allVars => [IP!Next]_IP!vars
    BY InventoryStep, SameNext DEF inventoryVars, IP!vars, IP!realmVars, IP!clientVars,
           IP!relayVars
<1> QED BY <1>1, <1>2, PTL DEF IP!Spec, ServerSpec, allVars

LEMMA InventoryConstants == IP!Constants
BY ServerConstants DEF ServerConstants, I!Constants, IP!Constants

LEMMA SameMisnamed == \A r : I!Misnamed(r) = IP!Misnamed(r)
BY DEF IP!Misnamed, I!Misnamed, IP!AdjustInventorySlot, I!AdjustInventorySlot, IP!Backpack,
       I!Backpack

\* Any bags, slots and items: a request made of what the realm still has is carried out on
\* the things the client showed (InventoryProofs!RequestsActOnNamed).
THEOREM RequestsServed == ServerSpec => []ActsOnNamed
<1>1. IP!Spec => []IP!ActsOnNamed
    BY InventoryConstants, IP!RequestsActOnNamed
<1>2. IP!ActsOnNamed => ActsOnNamed
    BY SameMisnamed DEF IP!ActsOnNamed, ActsOnNamed, I!ActsOnNamed, IP!NotYet, I!NotYet
<1> QED BY <1>1, <1>2, InventoryServed, PTL

\* Any bags, slots and items: what the realm moved the client shows in the place or the bag it
\* named (InventoryProofs!ThingsLand).
THEOREM MovesServed == ServerSpec => []LandsWhereNamed
<1>1. IP!Spec => []IP!LandsWhereNamed
    BY InventoryConstants, IP!ThingsLand
<1>2. IP!LandsWhereNamed => LandsWhereNamed
    BY SameMisnamed DEF IP!LandsWhereNamed, LandsWhereNamed, I!LandsWhereNamed, IP!NotYet,
           I!NotYet, IP!Settled, I!Settled, IP!Nothing, I!Nothing
<1> QED BY <1>1, <1>2, InventoryServed, PTL

\* Any bags, slots and items: the client shows the count of the quest's items
\* (InventoryProofs!CountServed).
THEOREM QuestCountServed == ServerSpec => []CountFollows
<1>1. IP!Spec => []IP!CountFollows
    BY InventoryConstants, IP!CountServed
<1>2. IP!CountFollows => CountFollows
    BY SameFields, SameCount DEF IP!CountFollows, CountFollows, I!CountFollows, IP!NoRequest,
           I!NoRequest, IP!Settled, I!Settled, IP!Nothing, I!Nothing
<1> QED BY <1>1, <1>2, InventoryServed, PTL
-----------------------------------------------------------------------------
(* The types of the parts.                                                   *)

\* Party's behaviours in the server are Party's.
LEMMA PartyServed == ServerSpec => Spec
<1>1. ServerInit => Init
    BY DEF ServerInit
<1>2. [ServerNext]_allVars => [Next]_vars
    BY DEF ServerNext, allVars, Rests
<1> QED BY <1>1, <1>2, PTL DEF ServerSpec, Spec, allVars

LEMMA ProfileTypes == F!Constants /\ F!TypeOK /\ [F!Next]_profileVars => F!TypeOK'
<1> SUFFICES ASSUME F!Constants, F!TypeOK, [F!Next]_profileVars PROVE F!TypeOK'
    OBVIOUS
<1>1. MaxSaves \in Nat /\ MaxCrashes \in Nat
    BY DEF F!Constants
<1>2. \A p \in F!Profiles : F!Whole(p) \in F!Contents /\ F!Torn(p) \in F!Contents
    BY DEF F!Whole, F!Torn, F!Contents
<1>3. /\ saving < MaxSaves => saving + 1 \in F!Profiles
      /\ crashes < MaxCrashes => crashes + 1 \in 0..MaxCrashes
    BY <1>1 DEF F!TypeOK, F!Profiles
<1>4. CASE F!CreateTemp
    BY <1>2, <1>3, <1>4 DEF F!CreateTemp, F!TypeOK
<1>5. CASE F!Write \/ F!Sync \/ F!Fail \/ F!Return
    BY <1>2, <1>5 DEF F!Write, F!Sync, F!Fail, F!Return, F!TypeOK
<1>6. CASE F!Rename \/ F!WriteBack
    BY <1>6 DEF F!Rename, F!WriteBack, F!TypeOK
<1>7. CASE F!Load
  <2>1. (IF file.whole THEN file.profile ELSE F!Default) \in F!Profiles
      BY <1>1 DEF F!TypeOK, F!Contents, F!Default, F!Profiles
  <2> QED BY <1>7, <2>1 DEF F!Load, F!TypeOK
<1>8. CASE F!Crash \/ F!PowerLoss
    BY <1>3, <1>8 DEF F!Crash, F!PowerLoss, F!TypeOK
<1>9. CASE UNCHANGED profileVars
    BY <1>9 DEF profileVars, F!TypeOK
<1> QED BY <1>4, <1>5, <1>6, <1>7, <1>8, <1>9 DEF F!Next

\* Of the whispers, all have a number.
NameTypes == N!TypeOK /\ Len(whispers) <= MaxWhispers

LEMMA QueryTypes ==
    ASSUME N!TypeOK, NEW g \in Senders, N!QueuePlayerNameQuery(g)
    PROVE  pendingPlayerNameQueries' \subseteq Senders /\ queries' \in Seq(Senders)
<1>1. queries \in Seq(Senders) /\ pendingPlayerNameQueries \subseteq Senders
    BY DEF N!TypeOK
<1>2. Append(queries, g) \in Seq(Senders)
    BY <1>1
<1> QED BY <1>1, <1>2 DEF N!QueuePlayerNameQuery

LEMMA NameTypesKept == N!Constants /\ NameTypes /\ [N!Next]_nameVars => NameTypes'
<1> SUFFICES ASSUME N!Constants, NameTypes, [N!Next]_nameVars PROVE NameTypes'
    OBVIOUS
<1>1. /\ playerNames \subseteq Senders /\ playerIdentities \subseteq Senders
      /\ pendingNamedChats \in [Senders -> Seq(N!Numbers)]
      /\ \A g \in Senders : /\ Len(pendingNamedChats[g]) <= MaxHeld
                            /\ pendingNamedChats[g] \in Seq(N!Numbers)
      /\ pendingPlayerNameQueries \subseteq Senders /\ queries \in Seq(Senders)
      /\ events \in 0..MaxEvents /\ whispers \in Seq(Senders) /\ shown \in Seq(N!Numbers)
      /\ dropped \subseteq N!Numbers /\ learned \subseteq Senders
      /\ MaxHeld \in Nat \ {0} /\ MaxWhispers \in Nat /\ MaxEvents \in Nat
      /\ Len(whispers) <= MaxWhispers /\ N!TypeOK
    BY DEF NameTypes, N!TypeOK, N!Constants
<1>2. N!Event => events' \in 0..MaxEvents
    BY <1>1 DEF N!Event
<1>3. <<>> \in Seq(N!Numbers) /\ Len(<<>>) = 0
    OBVIOUS
<1>4. ASSUME NEW g \in Senders, N!Whisper(g) PROVE NameTypes'
  <2> DEFINE n == Len(whispers')
  <2>1. whispers' \in Seq(Senders) /\ n \in N!Numbers /\ n <= MaxWhispers
      BY <1>1, <1>4 DEF N!Whisper, N!Numbers
  <2> HIDE DEF n
  <2>2. CASE g \in playerNames /\ shown' = Append(shown, n) /\ UNCHANGED <<N!heldVars, dropped>>
    <3>1. shown' \in Seq(N!Numbers)
        BY <1>1, <2>1, <2>2
    <3> QED BY <1>1, <1>4, <2>1, <2>2, <3>1
          DEF N!Whisper, N!heldVars, N!nameVars, NameTypes, N!TypeOK, n
  <2>3. CASE N!QueueNamedChat(g, n) /\ UNCHANGED shown
    <3>1. pendingPlayerNameQueries' \subseteq Senders /\ queries' \in Seq(Senders)
        BY <1>1, <2>3, QueryTypes DEF N!QueueNamedChat
    <3>2. CASE Len(pendingNamedChats[g]) < MaxHeld /\ UNCHANGED dropped
               /\ pendingNamedChats' = [pendingNamedChats EXCEPT ![g] = Append(@, n)]
      <4>1. /\ Append(pendingNamedChats[g], n) \in Seq(N!Numbers)
            /\ Len(Append(pendingNamedChats[g], n)) <= MaxHeld
          BY <1>1, <2>1, <3>2
      <4>2. /\ pendingNamedChats' \in [Senders -> Seq(N!Numbers)]
            /\ \A h \in Senders : Len(pendingNamedChats'[h]) <= MaxHeld
          BY <1>1, <3>2, <4>1
      <4> QED BY <1>1, <1>4, <2>1, <2>3, <3>1, <3>2, <4>2
            DEF N!Whisper, N!nameVars, NameTypes, N!TypeOK, n
    <3>3. CASE dropped' = dropped \cup {n} /\ UNCHANGED pendingNamedChats
        BY <1>1, <1>4, <2>1, <2>3, <3>1, <3>3
          DEF N!Whisper, N!nameVars, NameTypes, N!TypeOK, n
    <3> QED BY <2>3, <3>2, <3>3 DEF N!QueueNamedChat
  <2> QED BY <1>4, <2>2, <2>3 DEF N!Whisper, n
<1>5. ASSUME NEW g \in Senders, N!GroupList(g) PROVE NameTypes'
  <2>1. pendingPlayerNameQueries' \subseteq Senders /\ queries' \in Seq(Senders)
      BY <1>1, <1>5, QueryTypes DEF N!GroupList
  <2> QED BY <1>1, <1>2, <1>5, <2>1 DEF N!GroupList, NameTypes, N!TypeOK
<1>6. ASSUME NEW g \in Senders, N!QueryPlayerNames(g) PROVE NameTypes'
  <2>1. Append(queries, g) \in Seq(Senders)
      BY <1>1
  <2> QED BY <1>1, <1>2, <1>6, <2>1
        DEF N!QueryPlayerNames, N!nameVars, N!historyVars, NameTypes, N!TypeOK
<1>7. ASSUME NEW g \in Senders, N!InvalidatePlayer(g) PROVE NameTypes'
    BY <1>1, <1>2, <1>7 DEF N!InvalidatePlayer, N!heldVars, N!historyVars, NameTypes, N!TypeOK
<1>8. ASSUME NEW found \in BOOLEAN, N!NameQueryResponse(found) PROVE NameTypes'
  <2> DEFINE g == Head(queries)
  <2>1. queries # <<>> /\ g \in Senders /\ queries' \in Seq(Senders)
      BY <1>1, <1>8 DEF N!NameQueryResponse
  <2> HIDE DEF g
  <2>2. /\ pendingNamedChats' = [pendingNamedChats EXCEPT ![g] = <<>>]
        /\ pendingPlayerNameQueries' = pendingPlayerNameQueries \ {g}
        /\ shown' = shown \o pendingNamedChats[g]
        /\ playerNames' \subseteq playerNames \cup {g}
        /\ playerIdentities' \subseteq playerIdentities \cup {g}
        /\ UNCHANGED <<events, whispers, dropped, learned>>
      BY <1>8 DEF N!NameQueryResponse, N!TakeNamedChats, g
  <2>3. /\ pendingNamedChats' \in [Senders -> Seq(N!Numbers)]
        /\ \A h \in Senders : Len(pendingNamedChats'[h]) <= MaxHeld
      BY <1>1, <1>3, <2>1, <2>2
  <2>4. shown' \in Seq(N!Numbers)
      BY <1>1, <2>1, <2>2
  <2> QED BY <1>1, <2>1, <2>2, <2>3, <2>4 DEF NameTypes, N!TypeOK
<1>9. CASE N!LogoutComplete
  <2>1. /\ pendingNamedChats' \in [Senders -> Seq(N!Numbers)]
        /\ \A h \in Senders : Len(pendingNamedChats'[h]) <= MaxHeld
      BY <1>1, <1>3, <1>9 DEF N!LogoutComplete
  <2> QED BY <1>1, <1>2, <1>9, <2>1 DEF N!LogoutComplete, NameTypes, N!TypeOK
<1>10. CASE UNCHANGED nameVars
    BY <1>1, <1>10 DEF nameVars, NameTypes, N!TypeOK
<1> QED BY <1>4, <1>5, <1>6, <1>7, <1>8, <1>9, <1>10 DEF N!Next

LEMMA CheckTypes == C!Constants /\ C!TypeOK /\ [C!Next]_checkVars => C!TypeOK'
<1> DEFINE Told3 == {"started", "finished", "logout"}
<1> SUFFICES ASSUME C!Constants, C!TypeOK, [C!Next]_checkVars PROVE C!TypeOK'
    OBVIOUS
<1>1. /\ generation \in [Members -> Nat] /\ starting \in [Members -> Nat]
      /\ \A t \in timers : t \in Members \X Nat /\ t[2] <= generation[t[1]]
      /\ firing \subseteq Members /\ news \in [Members -> Seq(Told3)]
      /\ present \subseteq Members /\ window \in [Members -> {"none", "asked", "shown"}]
      /\ checks \in 0..MaxChecks /\ disturbed \in BOOLEAN
      /\ \A m \in Members : starting[m] <= generation[m]
      /\ MaxChecks \in Nat /\ Starters \subseteq Members
    BY DEF C!TypeOK, C!Constants
<1>2. checks < MaxChecks => checks + 1 \in 0..MaxChecks
    BY <1>1
<1>3. ASSUME NEW m \in Members, C!NextGeneration(m)
      PROVE  /\ generation' \in [Members -> Nat] /\ generation'[m] = generation[m] + 1
             /\ \A n \in Members : generation[n] <= generation'[n]
             /\ \A n \in Members : starting[n] <= generation'[n]
             /\ \A t \in timers : t[2] <= generation'[t[1]]
  <2>1. /\ generation' \in [Members -> Nat] /\ generation'[m] = generation[m] + 1
        /\ \A n \in Members : generation[n] <= generation'[n]
      BY <1>1, <1>3 DEF C!NextGeneration
  <2>2. \A n \in Members : starting[n] <= generation'[n]
      BY <1>1, <2>1
  <2>3. ASSUME NEW t \in timers PROVE t[2] <= generation'[t[1]]
    <3>1. t[1] \in Members /\ t[2] \in Nat /\ t[2] <= generation[t[1]]
        BY <1>1
    <3> QED BY <1>1, <2>1, <3>1
  <2> QED BY <2>1, <2>2, <2>3
<1>4. ASSUME NEW packet \in Told3, C!Broadcast(packet)
      PROVE  news' \in [Members -> Seq(Told3)]
  <2>1. \A n \in Members : Append(news[n], packet) \in Seq(Told3)
      BY <1>1
  <2> HIDE DEF Told3
  <2> QED BY <1>1, <1>4, <2>1 DEF C!Broadcast
<1>5. ASSUME NEW m \in Members, NEW packet, C!Handle(m, packet)
      PROVE  news' \in [Members -> Seq(Told3)]
  <2>1. news[m] # <<>> /\ news' = [news EXCEPT ![m] = Tail(news[m])]
      BY <1>5 DEF C!Handle
  <2>2. Tail(news[m]) \in Seq(Told3)
      BY <1>1, <2>1
  <2> HIDE DEF Told3
  <2> QED BY <1>1, <2>1, <2>2
<1>6. ASSUME NEW m \in Members, C!DoReadyCheck(m) PROVE C!TypeOK'
  <2>1. /\ generation' \in [Members -> Nat] /\ generation'[m] = generation[m] + 1
        /\ \A n \in Members : starting[n] <= generation'[n]
        /\ \A t \in timers : t[2] <= generation'[t[1]]
      BY <1>3, <1>6 DEF C!DoReadyCheck
  <2>2. /\ starting' \in [Members -> Nat]
        /\ \A n \in Members : starting'[n] <= generation'[n]
      BY <1>1, <1>6, <2>1 DEF C!DoReadyCheck
  <2>3. window' \in [Members -> {"none", "asked", "shown"}] /\ checks' \in 0..MaxChecks
      BY <1>1, <1>2, <1>6 DEF C!DoReadyCheck
  <2>4. disturbed' \in BOOLEAN
      BY <1>6, Zenon DEF C!DoReadyCheck
  <2>5. UNCHANGED <<timers, firing, news, present>>
      BY <1>6 DEF C!DoReadyCheck
  <2> QED BY <1>1, <2>1, <2>2, <2>3, <2>4, <2>5 DEF C!TypeOK
<1>7. ASSUME NEW m \in Members, C!WriteReadyCheck(m) PROVE C!TypeOK'
  <2>1. /\ starting' \in [Members -> Nat]
        /\ \A n \in Members : starting'[n] <= generation[n]
      BY <1>1, <1>7 DEF C!WriteReadyCheck, C!NoCheck
  <2>2. <<m, starting[m]>> \in Members \X Nat /\ starting[m] <= generation[m]
      BY <1>1
  <2>3. timers' = timers \cup {<<m, starting[m]>>}
        /\ UNCHANGED <<generation, firing, present, window, checks, disturbed>>
      BY <1>7 DEF C!WriteReadyCheck
  <2>4. \A t \in timers' : t \in Members \X Nat /\ t[2] <= generation[t[1]]
      BY <1>1, <2>2, <2>3
  <2>5. news' \in [Members -> Seq(Told3)]
      BY <1>4, <1>7 DEF C!WriteReadyCheck
  <2> QED BY <1>1, <2>1, <2>3, <2>4, <2>5 DEF C!TypeOK
<1>8. ASSUME NEW m \in Members, C!WriteFinished(m) PROVE C!TypeOK'
  <2>1. news' \in [Members -> Seq(Told3)]
      BY <1>1, <1>4, <1>8 DEF C!WriteFinished
  <2> QED BY <1>1, <1>8, <2>1 DEF C!WriteFinished, C!TypeOK
<1>9. ASSUME NEW m \in Members, C!RelayStarted(m) PROVE C!TypeOK'
  <2>1. news' \in [Members -> Seq(Told3)]
      BY <1>5, <1>9 DEF C!RelayStarted
  <2> QED BY <1>1, <1>9, <2>1 DEF C!RelayStarted, C!TypeOK
<1>10. ASSUME NEW m \in Members, C!RelayFinished(m) \/ C!RelayLogout(m) PROVE C!TypeOK'
  <2>1. news' \in [Members -> Seq(Told3)]
      BY <1>5, <1>10 DEF C!RelayFinished, C!RelayLogout
  <2>2. /\ generation' \in [Members -> Nat]
        /\ \A n \in Members : starting[n] <= generation'[n]
        /\ \A t \in timers : t[2] <= generation'[t[1]]
      BY <1>3, <1>10 DEF C!RelayFinished, C!RelayLogout
  <2> QED BY <1>1, <1>10, <2>1, <2>2 DEF C!RelayFinished, C!RelayLogout, C!TypeOK
<1>11. ASSUME NEW m \in Members, C!Logout(m) PROVE C!TypeOK'
  <2>1. Append(news[m], "logout") \in Seq(Told3)
      BY <1>1
  <2>2. news' \in [Members -> Seq(Told3)]
    <3> HIDE DEF Told3
    <3> QED BY <1>1, <1>11, <2>1 DEF C!Logout
  <2>3. disturbed' \in BOOLEAN
      BY <1>11, Zenon DEF C!Logout
  <2>4. present' \subseteq Members
        /\ UNCHANGED <<generation, starting, timers, firing, window, checks>>
      BY <1>1, <1>11 DEF C!Logout
  <2> QED BY <1>1, <2>2, <2>3, <2>4 DEF C!TypeOK
<1>12. ASSUME NEW m \in Members, C!Login(m) PROVE C!TypeOK'
    BY <1>1, <1>2, <1>12 DEF C!Login, C!TypeOK
<1>13. ASSUME NEW t \in timers, C!TimerFires(t) PROVE C!TypeOK'
  <2>1. t[1] \in Members /\ timers' = timers \ {t}
        /\ UNCHANGED <<starting, news, present, window, checks, disturbed>>
      BY <1>1, <1>13 DEF C!TimerFires
  <2>2. CASE C!NextGeneration(t[1]) /\ firing' = firing \cup {t[1]}
    <3>1. /\ generation' \in [Members -> Nat]
          /\ \A n \in Members : starting[n] <= generation'[n]
          /\ \A s \in timers : s[2] <= generation'[s[1]]
        BY <1>3, <2>1, <2>2
    <3> QED BY <1>1, <2>1, <2>2, <3>1 DEF C!TypeOK
  <2>3. CASE UNCHANGED <<generation, firing>>
      BY <1>1, <2>1, <2>3 DEF C!TypeOK
  <2> QED BY <1>13, <2>2, <2>3 DEF C!TimerFires
<1>14. CASE UNCHANGED checkVars
    BY <1>1, <1>14 DEF checkVars, C!TypeOK
<1> QED BY <1>6, <1>7, <1>8, <1>9, <1>10, <1>11, <1>12, <1>13, <1>14 DEF C!Next

\* The types of the rolls that RollInv leaves open.
LEMMA RollTypesKept ==
    ASSUME L!Constants, RollInv, RollInv', L!TypeOK, [L!Next]_rollVars
    PROVE  L!TypeOK'
<1>1. /\ open' \subseteq L!Rolls /\ started' \in Nat /\ currentMapID' \in L!Maps
      /\ lootRolls' \subseteq L!Rolls /\ completedLootRolls' \in Seq(L!Rolls)
      /\ refused' \in BOOLEAN /\ completedLootRolls \in Seq(L!Rolls)
    BY DEF RollInv, RollTypes
<1>2. /\ MaxRolls \in Nat /\ MaxCompleted \in Nat \ {0} /\ started \in 0..MaxRolls
      /\ Len(completedLootRolls) <= MaxCompleted /\ answers \subseteq L!Rolls
      /\ dialogs \subseteq L!Rolls /\ muddled \subseteq Items /\ open \subseteq L!Rolls
    BY DEF L!Constants, L!TypeOK
<1>3. \A r \in L!Rolls : r.item \in Items
    BY DEF L!Rolls
<1>4. ASSUME NEW corpse \in Corpses, NEW item \in Items, L!StartRoll(corpse, item)
      PROVE  L!TypeOK'
  <2>1. /\ started' \in 0..MaxRolls /\ dialogs' = dialogs \cup {L!Reference(corpse, item)}
        /\ L!Reference(corpse, item) \in L!Rolls
        /\ UNCHANGED <<answers, completedLootRolls, muddled>>
      BY <1>1, <1>2, <1>4 DEF L!StartRoll, L!Reference, L!Rolls
  <2> QED BY <1>1, <1>2, <2>1 DEF L!TypeOK
<1>5. ASSUME NEW r \in open, L!RollBroadcast(r) PROVE L!TypeOK'
    BY <1>1, <1>2, <1>5 DEF L!RollBroadcast, L!TypeOK
<1>6. ASSUME NEW r \in open, L!EndRoll(r) PROVE L!TypeOK'
  <2>1. PICK withCorpse \in BOOLEAN :
            /\ L!Complete(L!Resolve(r, withCorpse))
            /\ dialogs' = dialogs \ L!Resolve(r, withCorpse)
            /\ muddled' \subseteq muddled \cup {r.item}
      BY <1>6 DEF L!EndRoll
  <2>2. Len(completedLootRolls') <= MaxCompleted
    <3> DEFINE kept == IF Len(completedLootRolls) >= MaxCompleted
                       THEN Tail(completedLootRolls) ELSE completedLootRolls
    <3>1. Len(kept) < MaxCompleted /\ Len(kept) \in Nat /\ kept \in Seq(L!Rolls)
      <4>1. CASE Len(completedLootRolls) >= MaxCompleted
        <5>1. Len(completedLootRolls) = MaxCompleted /\ completedLootRolls # <<>>
            BY <1>1, <1>2, <4>1
        <5> QED BY <1>1, <1>2, <4>1, <5>1
      <4>2. CASE ~(Len(completedLootRolls) >= MaxCompleted)
          BY <1>1, <1>2, <4>2
      <4> QED BY <4>1, <4>2
    <3>2. \/ completedLootRolls' = completedLootRolls
          \/ \E s : completedLootRolls' = Append(kept, s)
        BY <2>1 DEF L!Complete
    <3> HIDE DEF kept
    <3>3. \A s : Len(Append(kept, s)) = Len(kept) + 1
        BY <3>1
    <3> QED BY <1>2, <3>1, <3>2, <3>3
  <2>3. UNCHANGED <<started, answers>>
      BY <1>6 DEF L!EndRoll
  <2> QED BY <1>1, <1>2, <1>3, <2>1, <2>2, <2>3 DEF L!TypeOK
<1>7. CASE L!NewWorld
    BY <1>1, <1>2, <1>3, <1>7 DEF L!NewWorld, L!TypeOK
<1>8. CASE L!LogoutComplete
  <2>1. Len(<<>>) = 0 /\ completedLootRolls' = <<>>
      BY <1>8 DEF L!LogoutComplete
  <2> QED BY <1>1, <1>2, <1>8, <2>1 DEF L!LogoutComplete, L!TypeOK
<1>9. ASSUME NEW r \in dialogs, L!Answer(r) PROVE L!TypeOK'
    BY <1>1, <1>2, <1>9 DEF L!Answer, L!TypeOK
<1>10. ASSUME NEW r \in answers, L!LootRoll(r) PROVE L!TypeOK'
    BY <1>1, <1>2, <1>10 DEF L!LootRoll, L!TypeOK
<1>11. CASE UNCHANGED rollVars
    BY <1>1, <1>2, <1>11 DEF rollVars, L!TypeOK
<1> QED BY <1>4, <1>5, <1>6, <1>7, <1>8, <1>9, <1>10, <1>11 DEF L!Next

\* No more corpses are waited for than were asked for.
WindowBounds == W!TypeOK /\ opening <= corpses

LEMMA WindowTypesKept ==
    ASSUME W!Constants, GiftInv, GiftInv', WindowBounds, [W!Next]_windowVars
    PROVE  WindowBounds'
<1>1. /\ inbox' \in Seq(W!RequestTypes) /\ requests' \in Seq(W!RequestTypes)
      /\ packets' \in Seq(W!PacketTypes) /\ lootWindow' \in W!CorpseOrNone
      /\ looting' \in W!CorpseOrNone /\ lootLegacyGUID' \in W!CorpseOrNone
      /\ misgiven' = FALSE /\ packets \in Seq(W!PacketTypes)
    BY DEF GiftInv, WindowTypes
<1>2. opening' \in Nat
  <2>1. PICK i, r, p \in Nat : i = InboxLoots' /\ r = RequestLoots' /\ p = PacketReplies'
    <3>1. \A A : HowMany(inbox', A) \in Nat
        BY <1>1, HowManyFinite
    <3>2. \A A : HowMany(requests', A) \in Nat
        BY <1>1, HowManyFinite
    <3>3. \A A : HowMany(packets', A) \in Nat
        BY <1>1, HowManyFinite
    <3> QED BY <3>1, <3>2, <3>3 DEF InboxLoots, RequestLoots, PacketReplies, HowMany, PlacesOf
  <2>2. opening' = i + r + p
      BY <2>1 DEF GiftInv
  <2> QED BY <2>2
<1>3. /\ corpses \in 0..MaxOpens /\ opening \in 0..MaxOpens /\ opening <= corpses
      /\ MaxOpens \in Nat /\ list \in [object : W!CorpseOrNone, of : W!CorpseOrNone]
      /\ noticed \subseteq Corpses /\ left \in BOOLEAN /\ masterLootListPending \in BOOLEAN
      /\ lootObjModern \in W!CorpseOrNone /\ masterLootCandidates \in W!CorpseOrNone
      /\ lastMasterLootSentLegacy \in W!CorpseOrNone /\ lootLegacyGUID \in W!CorpseOrNone
      /\ NoCorpse \in W!CorpseOrNone
    BY DEF W!Constants, WindowBounds, W!TypeOK, W!CorpseOrNone
<1>4. packets # <<>> => W!Corpse \in W!CorpseOrNone
  <2>1. packets # <<>> => Head(packets) \in W!PacketTypes
      BY <1>1
  <2>2. \A p \in W!PacketTypes : p.corpse \in W!CorpseOrNone
      BY DEF W!PacketTypes
  <2> QED BY <2>1, <2>2 DEF W!Corpse
<1>5. W!NoList \in [object : W!CorpseOrNone, of : W!CorpseOrNone]
    BY <1>3 DEF W!NoList
\* Of the others only what a step changes is left to show.
<1> DEFINE Waits == corpses' \in 0..MaxOpens /\ opening' \in 0..MaxOpens /\ opening' <= corpses'
           Told == /\ list' \in [object : W!CorpseOrNone, of : W!CorpseOrNone]
                   /\ lootObjModern' \in W!CorpseOrNone
                   /\ masterLootCandidates' \in W!CorpseOrNone
                   /\ masterLootListPending' \in BOOLEAN
                   /\ lastMasterLootSentLegacy' \in W!CorpseOrNone
           Seen == noticed' \subseteq Corpses /\ left' \in BOOLEAN
<1>6. Waits /\ Told /\ Seen => WindowBounds'
    BY <1>1 DEF WindowBounds, W!TypeOK
<1>7. UNCHANGED <<corpses, opening>> => Waits
    BY <1>3
<1>8. UNCHANGED <<list, lootObjModern, masterLootCandidates, masterLootListPending,
                  lastMasterLootSentLegacy>> => Told
    BY <1>3
<1>9. UNCHANGED <<noticed, left>> => Seen
    BY <1>3
<1>10. opening' = opening - 1 /\ corpses' = corpses => Waits
    BY <1>2, <1>3
<1> HIDE DEF Waits, Told, Seen
<1>11. CASE \E c \in Corpses : W!Open(c)
  <2>1. corpses < MaxOpens /\ corpses' = corpses + 1 /\ opening' = opening + 1
        /\ UNCHANGED <<list, lootObjModern, masterLootCandidates, masterLootListPending,
                       lastMasterLootSentLegacy, noticed, left>>
      BY <1>11 DEF W!Open, W!Sends, W!realmVars, W!lootVars
  <2>2. Waits
      BY <1>3, <2>1 DEF Waits
  <2> QED BY <1>6, <1>8, <1>9, <2>1, <2>2
<1>12. CASE W!Close
  <2>1. list' = W!NoList /\ UNCHANGED <<corpses, opening, lootObjModern, masterLootCandidates,
             masterLootListPending, lastMasterLootSentLegacy, noticed, left>>
      BY <1>12 DEF W!Close, W!Sends, W!realmVars, W!lootVars
  <2>2. Told
      BY <1>3, <1>5, <2>1 DEF Told
  <2> QED BY <1>6, <1>7, <1>9, <2>1, <2>2
<1>13. CASE W!Give
    BY <1>6, <1>7, <1>8, <1>9, <1>13 DEF W!Give, W!Sends, W!realmVars, W!lootVars, W!clientVars
<1>14. CASE W!LootUnit
    BY <1>6, <1>7, <1>8, <1>9, <1>14 DEF W!LootUnit, W!Forward, W!realmVars, W!clientVars
<1>15. CASE W!LootRelease
    BY <1>6, <1>7, <1>8, <1>9, <1>15
       DEF W!LootRelease, W!Forward, W!Drop, W!realmVars, W!clientVars, W!lootVars
<1>16. CASE W!MasterLootItem
    BY <1>6, <1>7, <1>8, <1>9, <1>16
       DEF W!MasterLootItem, W!Forward, W!Drop, W!realmVars, W!clientVars, W!lootVars
<1>17. CASE W!RealmLoots \/ W!RealmReleases \/ W!RealmGives \/ W!RealmCloses
    BY <1>6, <1>7, <1>8, <1>9, <1>17
       DEF W!RealmLoots, W!RealmReleases, W!RealmGives, W!RealmCloses, W!realmVars,
           W!clientVars, W!lootVars
<1>18. CASE W!RealmMoves
  <2>1. Seen
      BY <1>3, <1>18 DEF W!RealmMoves, Seen
  <2> QED BY <1>6, <1>7, <1>8, <1>18, <2>1 DEF W!RealmMoves, W!clientVars, W!lootVars
<1>19. ASSUME NEW c \in Corpses, W!RealmNotices(c) PROVE WindowBounds'
  <2>1. Seen
      BY <1>3, <1>19 DEF W!RealmNotices, Seen
  <2> QED BY <1>6, <1>7, <1>8, <1>19, <2>1 DEF W!RealmNotices, W!clientVars, W!lootVars
<1>20. CASE W!MasterList
  <2>1. packets # <<>> /\ UNCHANGED <<corpses, opening, noticed, left>>
      BY <1>20 DEF W!MasterList, W!Arrives, W!realmVars
  <2>2. /\ lootObjModern' \in {lootObjModern, lootLegacyGUID}
        /\ lastMasterLootSentLegacy' \in {lootLegacyGUID, lastMasterLootSentLegacy}
        /\ list' = [object |-> lootObjModern', of |-> W!Corpse] \/ list' = list
        /\ masterLootCandidates' = W!Corpse
      BY <1>20 DEF W!MasterList
  <2>3. masterLootListPending' \in BOOLEAN
      BY <1>20, Zenon DEF W!MasterList
  <2>4. Told
      BY <1>3, <1>4, <2>1, <2>2, <2>3 DEF Told
  <2> QED BY <1>6, <1>7, <1>9, <2>1, <2>4
<1>21. CASE W!LootResponse
  <2>1. packets # <<>> /\ corpses' = corpses /\ opening' = opening - 1
        /\ UNCHANGED <<noticed, left, masterLootCandidates>>
      BY <1>21 DEF W!LootResponse, W!Arrives, W!realmVars
  <2>2. /\ lastMasterLootSentLegacy' = W!Corpse /\ lootObjModern' = W!Corpse
        /\ list' \in {[object |-> W!Corpse, of |-> masterLootCandidates], list}
      BY <1>21 DEF W!LootResponse
  <2>3. masterLootListPending' \in BOOLEAN
      BY <1>21, Zenon DEF W!LootResponse
  <2>4. Told
      BY <1>3, <1>4, <2>1, <2>2, <2>3 DEF Told
  <2> QED BY <1>6, <1>9, <1>10, <2>1, <2>4
<1>22. CASE W!LootFailure
  <2>1. packets # <<>> /\ corpses' = corpses /\ opening' = opening - 1
        /\ UNCHANGED <<noticed, left>>
      BY <1>22 DEF W!LootFailure, W!Arrives, W!realmVars
  <2>2. Told
      BY <1>3, <1>4, <1>22, <2>1 DEF W!LootFailure, Told
  <2> QED BY <1>6, <1>9, <1>10, <2>1, <2>2
<1>23. CASE W!LootList
  <2>1. packets # <<>> /\ UNCHANGED <<corpses, opening, noticed, left>>
      BY <1>23 DEF W!LootList, W!Arrives, W!realmVars, W!clientVars
  <2>2. Told
      BY <1>3, <1>4, <1>23, <2>1 DEF W!LootList, W!clientVars, Told
  <2> QED BY <1>6, <1>7, <1>9, <2>1, <2>2
<1>24. CASE W!LootReleased
  <2>1. W!Forgets /\ list' \in {W!NoList, list}
        /\ UNCHANGED <<corpses, opening, noticed, left>>
      BY <1>24 DEF W!LootReleased, W!realmVars
  <2>2. Told
      BY <1>3, <1>5, <2>1 DEF W!Forgets, Told
  <2> QED BY <1>6, <1>7, <1>9, <2>1, <2>2
<1>25. CASE W!NewWorld
  <2>1. W!Forgets /\ list' = W!NoList /\ UNCHANGED <<corpses, opening, noticed, left>>
      BY <1>25 DEF W!NewWorld, W!realmVars
  <2>2. Told
      BY <1>3, <1>5, <2>1 DEF W!Forgets, Told
  <2> QED BY <1>6, <1>7, <1>9, <2>1, <2>2
<1>26. CASE UNCHANGED windowVars
    BY <1>6, <1>7, <1>8, <1>9, <1>26 DEF windowVars
<1> QED BY <1>11, <1>12, <1>13, <1>14, <1>15, <1>16, <1>17, <1>18, <1>19, <1>20, <1>21, <1>22,
           <1>23, <1>24, <1>25, <1>26 DEF W!Next

LEMMA ScreenTypesKept ==
    ASSUME S!Constants, ScreenInv, ScreenInv', S!TypeOK, [S!Next]_screenVars
    PROVE  S!TypeOK'
<1>1. /\ characters' \subseteq Names /\ charRequests' \in Seq(S!Requests)
      /\ charAnswers' \in Seq(S!Answers)
      /\ writing' \in [S!Goroutines -> S!Requests \cup {<<>>}]
      /\ awaitingCreateEnum' \in BOOLEAN /\ stray' \in BOOLEAN /\ wrong' \in BOOLEAN
      /\ creating' \in S!NamesOrNone /\ lists' \in Nat
    BY DEF ScreenInv, ScreenTypes, Pipe, S!Goroutines, S!NamesOrNone
<1>2. /\ lists \in 0..MaxLists /\ breaks \in 0..MaxBreaks /\ MaxLists \in Nat
      /\ MaxBreaks \in Nat /\ pendingCreateName \in S!NamesOrNone
      /\ Names \subseteq S!NamesOrNone /\ NoName \in S!NamesOrNone
    BY DEF S!TypeOK, S!Constants, S!NamesOrNone
<1>3. ASSUME lists' \in 0..MaxLists, breaks' \in 0..MaxBreaks,
             pendingCreateName' \in S!NamesOrNone
      PROVE  S!TypeOK'
    BY <1>1, <1>3 DEF S!TypeOK
<1>4. CASE S!EnumCharacters
    BY <1>2, <1>3, <1>4 DEF S!EnumCharacters, S!sessionVars
<1>5. ASSUME NEW name \in Names, S!CreateCharacter(name) PROVE S!TypeOK'
    BY <1>2, <1>3, <1>5 DEF S!CreateCharacter
<1>6. ASSUME NEW name \in Names, S!DeleteCharacter(name) PROVE S!TypeOK'
    BY <1>2, <1>3, <1>6 DEF S!DeleteCharacter, S!sessionVars
<1>7. ASSUME NEW g \in S!Goroutines, S!Write(g) PROVE S!TypeOK'
    BY <1>2, <1>3, <1>7 DEF S!Write, S!sessionVars
<1>8. CASE S!Reconnect
    BY <1>2, <1>3, <1>8 DEF S!Reconnect, S!sessionVars
<1>9. CASE S!RealmAnswers
    BY <1>2, <1>3, <1>9 DEF S!RealmAnswers, S!sessionVars
<1>10. CASE S!Relay
  <2>1. breaks' = breaks
      BY <1>10 DEF S!Relay
  <2>2. pendingCreateName' \in {pendingCreateName, NoName}
        /\ (lists' = lists \/ lists' = 0 \/ lists' = lists - 1)
      BY <1>10 DEF S!Relay, S!Created, S!NotCreated, S!EnumResult, S!Result, S!sessionVars
  <2> QED BY <1>1, <1>2, <1>3, <2>1, <2>2
<1>11. CASE UNCHANGED screenVars
    BY <1>2, <1>3, <1>11 DEF screenVars
<1> QED BY <1>4, <1>5, <1>6, <1>7, <1>8, <1>9, <1>10, <1>11 DEF S!Next

LEMMA TaxiTypesKept ==
    ASSUME T!Constants, SearchInv', FlightInv', T!TypeOK, [T!Next]_taxiVars
    PROVE  T!TypeOK'
<1>1. /\ taxiPathGraph' \in Graphs /\ currentTaxiNode' \in Nodes \cup {T!NoNode}
      /\ usableTaxiNodes' \subseteq Nodes
      /\ search' \in [phase : T!Phases, source : Nodes \cup {T!NoNode},
                      destination : Nodes \cup {T!NoNode}, usable : SUBSET Nodes]
      /\ \E D \in SUBSET Nodes : distance' \in [D -> Nat]
      /\ \E D \in SUBSET Nodes : previous' \in [D -> Nodes]
      /\ visited' \subseteq Nodes /\ route' \in Seq(Nodes)
    BY DEF SearchInv, SearchTypes
<1>2. /\ flight' \in Nat /\ taxiPackets' \in Seq({"ok", "refusal", "fly"})
      /\ flown' \in Seq({"start", "success", "segment", "refusal"})
      /\ taxiReplyPending' \in BOOLEAN /\ taxiLoginGrace' \in BOOLEAN
      /\ relogged' \in BOOLEAN /\ late' \in BOOLEAN
    BY DEF FlightInv, FlightTypes
<1>3. /\ search'.phase \in T!Phases /\ search'.usable \subseteq Nodes
      /\ search'.source \in Nodes \cup {T!NoNode}
      /\ search'.destination \in Nodes \cup {T!NoNode}
    BY <1>1
<1>4. /\ DOMAIN distance' \subseteq Nodes /\ \A n \in DOMAIN distance' : distance'[n] \in Nat
      /\ DOMAIN previous' \subseteq Nodes /\ \A n \in DOMAIN previous' : previous'[n] \in Nodes
    BY <1>1
<1>5. /\ menus \in 0..MaxMenus /\ flight \in 0..MaxSegments /\ MaxMenus \in Nat
      /\ MaxSegments \in Nat \ {0}
    BY DEF T!TypeOK, T!Constants
<1>6. menus' \in 0..MaxMenus /\ flight' \in 0..MaxSegments
  <2>1. CASE \E n \in Nodes, usable \in Masks : T!ShowTaxiNodes(n, usable)
      BY <1>5, <2>1 DEF T!ShowTaxiNodes, T!flightVars
  <2>2. CASE (\E n \in Nodes : T!ActivateTaxi(n) \/ T!Visit(n)) \/ T!Finish
      BY <1>5, <2>2 DEF T!ActivateTaxi, T!Visit, T!Finish, T!menuVars, T!flightVars
  <2>3. CASE T!RealmAccepts \/ T!RealmRefuses \/ T!NextSegment \/ T!Lands
      BY <1>5, <2>3 DEF T!RealmAccepts, T!RealmRefuses, T!NextSegment, T!Lands, T!menuVars
  <2>4. CASE T!ActivateTaxiReply \/ T!FlightSpline \/ T!LoginAgain \/ T!GraceEnds
      BY <1>5, <2>4 DEF T!ActivateTaxiReply, T!FlightSpline, T!LoginAgain, T!GraceEnds,
         T!menuVars
  <2>5. CASE UNCHANGED taxiVars
      BY <1>5, <2>5 DEF taxiVars
  <2> QED BY <2>1, <2>2, <2>3, <2>4, <2>5 DEF T!Next
<1> QED BY <1>1, <1>2, <1>3, <1>4, <1>6 DEF T!TypeOK

LEMMA ProfileTypesServed == ServerSpec => []F!TypeOK
<1>1. ServerInit => F!TypeOK
  <2> SUFFICES ASSUME ServerInit PROVE F!TypeOK
      OBVIOUS
  <2>1. F!Init /\ F!Constants
      BY ServerConstants DEF ServerInit, ServerConstants
  <2>2. F!Default \in F!Profiles /\ 0 \in 0..MaxCrashes
      BY <2>1 DEF F!Constants, F!Profiles, F!Default
  <2>3. F!Whole(F!Default) \in F!Contents /\ F!Torn(F!Default) \in F!Contents
      BY <2>2 DEF F!Whole, F!Torn, F!Contents
  <2> QED BY <2>1, <2>2, <2>3 DEF F!Init, F!TypeOK
<1>2. F!TypeOK /\ [ServerNext]_allVars => F!TypeOK'
    BY ServerConstants, ProfileStep, ProfileTypes DEF ServerConstants
<1> QED BY <1>1, <1>2, PTL DEF ServerSpec, allVars

LEMMA NameTypesServed == ServerSpec => []N!TypeOK
<1>1. ServerInit => NameTypes
  <2> SUFFICES ASSUME ServerInit PROVE NameTypes
      OBVIOUS
  <2>1. N!Init /\ N!Constants
      BY ServerConstants DEF ServerInit, ServerConstants
  <2>2. <<>> \in Seq(Senders) /\ <<>> \in Seq(N!Numbers) /\ Len(<<>>) = 0
      OBVIOUS
  <2> QED BY <2>1, <2>2 DEF N!Init, N!Constants, N!TypeOK, NameTypes
<1>2. NameTypes /\ [ServerNext]_allVars => NameTypes'
    BY ServerConstants, NamesStep, NameTypesKept DEF ServerConstants
<1>3. NameTypes => N!TypeOK
    BY DEF NameTypes
<1> QED BY <1>1, <1>2, <1>3, PTL DEF ServerSpec, allVars

LEMMA CheckTypesServed == ServerSpec => []C!TypeOK
<1>1. ServerInit => C!TypeOK
  <2> SUFFICES ASSUME ServerInit PROVE C!TypeOK
      OBVIOUS
  <2>1. C!Init /\ C!Constants
      BY ServerConstants DEF ServerInit, ServerConstants
  <2>2. <<>> \in Seq({"started", "finished", "logout"})
      OBVIOUS
  <2>3. 0 \in 0..MaxChecks /\ C!NoCheck = 0
      BY <2>1 DEF C!Constants, C!NoCheck
  <2>4. news \in [Members -> Seq({"started", "finished", "logout"})]
      BY <2>1, <2>2 DEF C!Init
  <2>5. /\ generation = [m \in Members |-> 0] /\ starting = [m \in Members |-> 0]
        /\ window = [m \in Members |-> "none"]
        /\ timers = {} /\ firing = {} /\ present = Members /\ checks = 0 /\ disturbed = FALSE
      BY <2>1, <2>3 DEF C!Init
  <2>6. /\ generation \in [Members -> Nat] /\ starting \in [Members -> Nat]
        /\ window \in [Members -> {"none", "asked", "shown"}]
        /\ \A m \in Members : starting[m] <= generation[m]
      BY <2>5
  <2> QED BY <2>3, <2>4, <2>5, <2>6 DEF C!TypeOK
<1>2. [ServerNext]_allVars => [C!Next]_checkVars
    BY DEF ServerNext, allVars, Rests
<1>3. C!TypeOK /\ [ServerNext]_allVars => C!TypeOK'
    BY <1>2, ServerConstants, CheckTypes DEF ServerConstants
<1> QED BY <1>1, <1>3, PTL DEF ServerSpec, allVars

LEMMA RollTypesServed == ServerSpec => []L!TypeOK
<1>1. ServerInit => RollInv /\ L!TypeOK
  <2> SUFFICES ASSUME ServerInit PROVE RollInv /\ L!TypeOK
      OBVIOUS
  <2>1. L!Init /\ L!Constants
      BY ServerConstants DEF ServerInit, ServerConstants
  <2>2. <<>> \in Seq(L!Rolls) /\ Len(<<>>) = 0
      OBVIOUS
  <2>3. 0 \in 0..MaxRolls /\ 0 \in L!Maps /\ 0 <= MaxCompleted
      BY <2>1 DEF L!Constants, L!Maps
  <2>4. completedLootRolls \in Seq(L!Rolls) /\ Len(completedLootRolls) = 0
      BY <2>1, <2>2 DEF L!Init
  <2>5. L!TypeOK
      BY <2>1, <2>3, <2>4 DEF L!Init, L!TypeOK
  <2> QED BY <2>5, RollInit
<1>2. RollInv /\ L!TypeOK /\ [ServerNext]_allVars => RollInv' /\ L!TypeOK'
    BY ServerConstants, RollStep, RollNext, RollTypesKept DEF ServerConstants
<1> QED BY <1>1, <1>2, PTL DEF ServerSpec, allVars

LEMMA WindowTypesServed == ServerSpec => []W!TypeOK
<1>1. ServerInit => GiftInv /\ WindowBounds
  <2> SUFFICES ASSUME ServerInit PROVE GiftInv /\ WindowBounds
      OBVIOUS
  <2>1. W!Init /\ W!Constants
      BY ServerConstants DEF ServerInit, ServerConstants
  <2>2. /\ <<>> \in Seq(W!RequestTypes) /\ <<>> \in Seq(W!PacketTypes)
      OBVIOUS
  <2>3. 0 \in 0..MaxOpens /\ NoCorpse \in W!CorpseOrNone
        /\ W!NoList \in [object : W!CorpseOrNone, of : W!CorpseOrNone]
      BY <2>1 DEF W!Constants, W!CorpseOrNone, W!NoList
  <2>4. /\ inbox \in Seq(W!RequestTypes) /\ requests \in Seq(W!RequestTypes)
        /\ packets \in Seq(W!PacketTypes)
      BY <2>1, <2>2 DEF W!Init
  <2>5. WindowBounds
    <3>1. corpses = 0 /\ opening = 0 /\ opening <= corpses
        BY <2>1 DEF W!Init
    <3>2. W!TypeOK
        BY <2>1, <2>3, <2>4 DEF W!Init, W!TypeOK
    <3> QED BY <3>1, <3>2 DEF WindowBounds
  <2> QED BY <2>5, GiftInit
<1>2. GiftInv /\ WindowBounds /\ [ServerNext]_allVars => GiftInv' /\ WindowBounds'
    BY ServerConstants, WindowStep, GiftNext, WindowTypesKept DEF ServerConstants
<1>3. WindowBounds => W!TypeOK
    BY DEF WindowBounds
<1> QED BY <1>1, <1>2, <1>3, PTL DEF ServerSpec, allVars

LEMMA ScreenTypesServed == ServerSpec => []S!TypeOK
<1>1. ServerInit => ScreenInv /\ S!TypeOK
  <2> SUFFICES ASSUME ServerInit PROVE ScreenInv /\ S!TypeOK
      OBVIOUS
  <2>1. S!Init /\ S!Constants
      BY ServerConstants DEF ServerInit, ServerConstants
  <2>2. /\ <<>> \in Seq(S!Requests) /\ <<>> \in Seq(S!Answers)
      OBVIOUS
  <2>3. charRequests \in Seq(S!Requests) /\ charAnswers \in Seq(S!Answers)
      BY <2>1, <2>2 DEF S!Init
  <2>4. 0 \in 0..MaxLists /\ 0 \in 0..MaxBreaks /\ NoName \in S!NamesOrNone
      BY <2>1 DEF S!Constants, S!NamesOrNone
  <2>5. writing \in [S!Goroutines -> S!Requests \cup {<<>>}]
      BY <2>1 DEF S!Init
  <2>6. S!TypeOK
      BY <2>1, <2>3, <2>4, <2>5 DEF S!Init, S!TypeOK
  <2> QED BY <2>6, ScreenInit
<1>2. ScreenInv /\ S!TypeOK /\ [ServerNext]_allVars => ScreenInv' /\ S!TypeOK'
    BY ServerConstants, ScreenStep, ScreenNext, ScreenTypesKept DEF ServerConstants
<1> QED BY <1>1, <1>2, PTL DEF ServerSpec, allVars

LEMMA TaxiTypesServed == ServerSpec => []T!TypeOK
<1> DEFINE Inv == SearchInv /\ FlightInv /\ T!TypeOK
<1>1. ServerInit => Inv
  <2> SUFFICES ASSUME ServerInit PROVE Inv
      OBVIOUS
  <2>1. T!Init /\ T!Constants
      BY ServerConstants DEF ServerInit, ServerConstants
  <2>2. /\ <<>> \in Seq(Nodes) /\ <<>> \in Seq({"ok", "refusal", "fly"})
        /\ <<>> \in Seq({"start", "success", "segment", "refusal"})
      OBVIOUS
  <2>3. /\ search.phase \in T!Phases /\ search.usable \subseteq Nodes
        /\ search.source \in Nodes \cup {T!NoNode} /\ search.destination \in Nodes \cup {T!NoNode}
        /\ DOMAIN distance = {} /\ DOMAIN previous = {}
      BY <2>1 DEF T!Init, T!NoSearch, T!Phases, T!Empty
  <2>4. 0 \in 0..MaxMenus /\ 0 \in 0..MaxSegments
      BY <2>1 DEF T!Constants
  <2>5. /\ route \in Seq(Nodes) /\ taxiPackets \in Seq({"ok", "refusal", "fly"})
        /\ flown \in Seq({"start", "success", "segment", "refusal"})
      BY <2>1, <2>2 DEF T!Init
  <2>6. T!TypeOK
      BY <2>1, <2>3, <2>4, <2>5 DEF T!Init, T!TypeOK
  <2> QED BY <2>6, SearchInit, FlightInit
<1>2. Inv /\ [ServerNext]_allVars => Inv'
    BY ServerConstants, TaxiStep, SearchNext, FlightNext, TaxiTypesKept DEF ServerConstants
<1>3. Inv => T!TypeOK
    OBVIOUS
<1> QED BY <1>1, <1>2, <1>3, PTL DEF ServerSpec, allVars

LEMMA LoginTypesServed == ServerSpec => []R!TypeOK
<1>1. LP!Spec => []LP!TypeOK
    BY LoginConstants, LP!LoginTypesKept
<1>2. LP!TypeOK => R!TypeOK
    BY DEF LP!TypeOK, R!TypeOK, LP!Sessions, R!Sessions, LP!NoSession, R!NoSession, LP!Conns,
           R!Conns, LP!NoConn, R!NoConn, LP!Secrets, R!Secrets
<1> QED BY <1>1, <1>2, LoginServed, PTL

LEMMA InventoryTypesServed == ServerSpec => []I!TypeOK
<1>1. IP!Spec => []IP!TypeOK
    BY InventoryConstants, IP!InventoryTypes
<1>2. IP!TypeOK => I!TypeOK
    BY SameFields, SameCount
       DEF IP!TypeOK, I!TypeOK, IP!Contents, I!Contents, IP!Things, I!Things
<1> QED BY <1>1, <1>2, InventoryServed, PTL

\* Any characters, realms, senders, members, corpses, names, taxi nodes, bags and items: what
\* every part of the proxy keeps, and what is on its way to and from it, stays what it should
\* be: the pipelines carry requests and answers of their kinds, the counters their bounds (held
\* whispers maxQueuedNamedChats, resolved rolls maxCompletedLootRolls), the tables entries of
\* those that have them.
THEOREM ServerTypes == ServerSpec => []TypesOK
<1>1. ServerSpec => []TypeOK
    BY PartyServed, PartyTypes, PTL
<1>2. TypeOK /\ R!TypeOK /\ F!TypeOK /\ N!TypeOK /\ C!TypeOK /\ L!TypeOK /\ W!TypeOK
      /\ S!TypeOK /\ T!TypeOK /\ I!TypeOK => TypesOK
    BY DEF TypesOK
<1> QED BY <1>1, <1>2, LoginTypesServed, ProfileTypesServed, NameTypesServed, CheckTypesServed,
           RollTypesServed, WindowTypesServed, ScreenTypesServed, TaxiTypesServed,
           InventoryTypesServed, PTL
=============================================================================
