-------------------------- MODULE WorldStreamProofs --------------------------
(***************************************************************************)
(* The stream of a login through WorldEntry, whatever the number of logins, *)
(* of connection attempts and of packets, and whatever breaks: nothing is   *)
(* lost or shown out of turn, the newest connection stays attached, and the *)
(* player has its completed quests.  WorldEntry implements LoginStream.     *)
(*                                                                          *)
(* What is held for a login is a run of its packets, numbered one after the *)
(* other, from the first one not shown to the last one sent.  The fold in   *)
(* Numbers is reasoned about by induction on a least counterexample.        *)
(***************************************************************************)
EXTENDS WorldEntryProofs, WellFoundedInduction

-----------------------------------------------------------------------------
(* Sequences, and induction up to a number: the natural numbers are well    *)
(* founded, so a set of them that is not empty has a least member.          *)

\* A set of natural numbers that is not empty has a least member.
LEMMA LeastNumber ==
    ASSUME NEW T \in SUBSET Nat, T # {}
    PROVE  \E x \in T : \A y \in T : x <= y
<1> DEFINE less == {ss \in Nat \X Nat : ss[1] < ss[2]}
<1>1. IsWellFoundedOn(less, Nat)
    BY NatLessThanWellFounded DEF OpToRel
<1>2. PICK x \in T : \A y \in T : ~ (<<y, x>> \in less)
  <2> HIDE DEF less
  <2> QED BY <1>1, WFMin
<1>3. ASSUME NEW y \in T PROVE x <= y
  <2>1. ~ (y < x)
      BY <1>2
  <2> QED BY <2>1
<1> QED BY <1>3

\* What holds of 0, and of a number up to n when it holds of the one before,
\* holds of every number up to n.
LEMMA InductionUpTo ==
    ASSUME NEW n \in Nat, NEW S, 0 \in S, \A k \in 1..n : k - 1 \in S => k \in S
    PROVE  0..n \subseteq S
<1> DEFINE T == (0..n) \ S
<1>1. CASE T # {}
  <2>1. T \in SUBSET Nat
      OBVIOUS
  <2>2. PICK x \in T : \A y \in T : x <= y
    <3> HIDE DEF T
    <3> QED BY <1>1, <2>1, LeastNumber
  <2>3. x \in 1..n /\ x - 1 \in 0..n
      OBVIOUS
  <2>4. x - 1 \notin T
      BY <2>2, <2>3
  <2> QED BY <2>3, <2>4
<1> QED BY <1>1

\* Sequences of one length and the same elements are equal.
LEMMA SameSequence ==
    ASSUME NEW S, NEW r \in Seq(S), NEW t \in Seq(S), Len(r) = Len(t),
           \A i \in 1..Len(r) : r[i] = t[i]
    PROVE  r = t
    OBVIOUS

\* A sequence without its first element.
LEMMA TailAt ==
    ASSUME NEW S, NEW r \in Seq(S), r # <<>>
    PROVE  /\ Tail(r) \in Seq(S) /\ Len(Tail(r)) = Len(r) - 1 /\ Len(r) \in Nat \ {0}
           /\ Head(r) = r[1] /\ r[1] \in S
           /\ \A i \in 1..Len(r) - 1 : Tail(r)[i] = r[i + 1]
    OBVIOUS

\* A sequence with one more element.
LEMMA AppendAt ==
    ASSUME NEW S, NEW r \in Seq(S), NEW x \in S
    PROVE  /\ Append(r, x) \in Seq(S) /\ Len(Append(r, x)) = Len(r) + 1
           /\ Append(r, x)[Len(r) + 1] = x
           /\ \A i \in 1..Len(r) : Append(r, x)[i] = r[i]
    OBVIOUS

\* An element put before a sequence.
LEMMA PrependAt ==
    ASSUME NEW S, NEW r \in Seq(S), NEW x \in S
    PROVE  /\ <<x>> \o r \in Seq(S) /\ Len(<<x>> \o r) = Len(r) + 1
           /\ (<<x>> \o r)[1] = x
           /\ \A i \in 2..Len(r) + 1 : (<<x>> \o r)[i] = r[i - 1]
    OBVIOUS

-----------------------------------------------------------------------------
(* Packets of one login one behind the other: the first one's number is s.  *)

Numbered == Logins \X Nat
Number(n, no) == <<n, no>>
Follows(r, n, s) == r \in Seq(Numbered) /\ \A i \in 1..Len(r) : r[i] = Number(n, s + i - 1)

\* No packet at all is a run from any number.
LEMMA FollowsNone == ASSUME NEW n, NEW s PROVE Follows(<<>>, n, s)
    BY DEF Follows

\* Runs from one number that are as long are the same.
LEMMA FollowsSame ==
    ASSUME NEW n, NEW s, NEW r, NEW t, Follows(r, n, s), Follows(t, n, s), Len(r) = Len(t)
    PROVE  r = t
    BY DEF Follows

\* A run that goes on where another ends.
LEMMA FollowsJoined ==
    ASSUME NEW n, NEW s \in Nat, NEW r, NEW t, Follows(r, n, s), Follows(t, n, s + Len(r))
    PROVE  Follows(r \o t, n, s) /\ Len(r \o t) = Len(r) + Len(t)
<1>1. r \in Seq(Numbered) /\ \A i \in 1..Len(r) : r[i] = Number(n, s + i - 1)
    BY DEF Follows
<1>2. t \in Seq(Numbered) /\ \A i \in 1..Len(t) : t[i] = Number(n, s + Len(r) + i - 1)
    BY DEF Follows
<1>3. r \o t \in Seq(Numbered) /\ Len(r \o t) = Len(r) + Len(t)
    BY <1>1, <1>2
<1>4. ASSUME NEW i \in 1..Len(r) + Len(t) PROVE (r \o t)[i] = Number(n, s + i - 1)
  <2>0. Len(r) \in Nat /\ Len(t) \in Nat
      BY <1>1, <1>2
  <2>1. CASE i <= Len(r)
    <3>1. i \in 1..Len(r) /\ (r \o t)[i] = r[i]
        BY <1>1, <1>2, <2>0, <2>1
    <3> QED BY <1>1, <3>1
  <2>2. CASE i > Len(r)
    <3>1. i - Len(r) \in 1..Len(t) /\ (r \o t)[i] = t[i - Len(r)]
        BY <1>1, <1>2, <2>0, <2>2
    <3>2. s + Len(r) + (i - Len(r)) - 1 = s + i - 1
        BY <2>0
    <3> QED BY <1>2, <3>1, <3>2
  <2>3. i <= Len(r) \/ i > Len(r)
      BY <2>0
  <2> QED BY <2>1, <2>2, <2>3
<1> QED BY <1>3, <1>4 DEF Follows

\* The first packets of a run.
LEMMA FollowsStart ==
    ASSUME NEW n, NEW s \in Nat, NEW r, Follows(r, n, s), NEW k \in 0..Len(r)
    PROVE  Follows(SubSeq(r, 1, k), n, s) /\ Len(SubSeq(r, 1, k)) = k
<1>1. SubSeq(r, 1, k) \in Seq(Numbered) /\ Len(SubSeq(r, 1, k)) = k
    BY DEF Follows
<1>2. \A i \in 1..k : SubSeq(r, 1, k)[i] = r[i] /\ i \in 1..Len(r)
    BY DEF Follows
<1> QED BY <1>1, <1>2 DEF Follows

\* The next packet of a run.
LEMMA FollowsNext ==
    ASSUME NEW n \in Logins, NEW s \in Nat, NEW r, Follows(r, n, s)
    PROVE  /\ Follows(Append(r, <<n, s + Len(r)>>), n, s)
           /\ Len(Append(r, <<n, s + Len(r)>>)) = Len(r) + 1
<1>0. r \in Seq(Numbered) /\ Len(r) \in Nat /\ \A i \in 1..Len(r) : r[i] = Number(n, s + i - 1)
    BY DEF Follows
<1>1. <<n, s + Len(r)>> = Number(n, s + Len(r)) /\ Number(n, s + Len(r)) \in Numbered
    BY <1>0 DEF Numbered, Number
<1> DEFINE x == Number(n, s + Len(r))
<1>2. x \in Numbered /\ x = Number(n, s + Len(r))
    BY <1>1
<1> HIDE DEF x
<1>3. Append(r, x) \in Seq(Numbered) /\ Len(Append(r, x)) = Len(r) + 1
    BY <1>0, <1>2
<1>4. ASSUME NEW i \in 1..Len(r) + 1 PROVE Append(r, x)[i] = Number(n, s + i - 1)
  <2>1. CASE i \in 1..Len(r)
    <3>1. Append(r, x)[i] = r[i]
        BY <1>0, <1>2, <2>1
    <3> QED BY <1>0, <2>1, <3>1
  <2>2. CASE i = Len(r) + 1
    <3>1. s + i - 1 = s + Len(r)
        BY <1>0, <2>2
    <3>2. Append(r, x)[i] = x
        BY <1>0, <1>2, <2>2
    <3> QED BY <1>2, <3>1, <3>2
  <2>3. i \in 1..Len(r) \/ i = Len(r) + 1
      BY <1>0
  <2> QED BY <2>1, <2>2, <2>3
<1>5. Follows(Append(r, x), n, s)
    BY <1>3, <1>4 DEF Follows
<1> QED BY <1>1, <1>2, <1>3, <1>5

\* The run of k packets.
Run(n, s, k) == [i \in 1..k |-> Number(n, s + i - 1)]

\* It is what its name says.
LEMMA RunFollows ==
    ASSUME NEW n \in Logins, NEW s \in Nat \ {0}, NEW k \in Nat
    PROVE  Follows(Run(n, s, k), n, s) /\ Len(Run(n, s, k)) = k
<1>1. \A i \in 1..k : s + i - 1 \in Nat
    OBVIOUS
<1>2. \A i \in 1..k : Number(n, s + i - 1) \in Numbered
    BY <1>1 DEF Number, Numbered
<1>3. Run(n, s, k) \in [1..k -> Numbered]
    BY <1>2 DEF Run
<1>4. \A i \in 1..k : Run(n, s, k)[i] = Number(n, s + i - 1)
    BY DEF Run
<1>5. Run(n, s, k) \in Seq(Numbered) /\ Len(Run(n, s, k)) = k
    BY <1>3
<1> QED BY <1>4, <1>5 DEF Follows

\* A run goes on where a shorter one ends.
LEMMA RunJoined ==
    ASSUME NEW n \in Logins, NEW s \in Nat \ {0}, NEW a \in Nat, NEW b \in Nat
    PROVE  Run(n, s, a) \o Run(n, s + a, b) = Run(n, s, a + b)
<1>1. s + a \in Nat \ {0} /\ a + b \in Nat
    OBVIOUS
<1>2. Follows(Run(n, s, a), n, s) /\ Len(Run(n, s, a)) = a
    BY RunFollows
<1>3. Follows(Run(n, s + a, b), n, s + a) /\ Len(Run(n, s + a, b)) = b
    BY <1>1, RunFollows
<1>4. Follows(Run(n, s, a + b), n, s) /\ Len(Run(n, s, a + b)) = a + b
    BY <1>1, RunFollows
<1>5. /\ Follows(Run(n, s, a) \o Run(n, s + a, b), n, s)
      /\ Len(Run(n, s, a) \o Run(n, s + a, b)) = a + b
    BY <1>2, <1>3, FollowsJoined
<1> QED BY <1>4, <1>5, FollowsSame

-----------------------------------------------------------------------------
(* Packets that are held carry a login's packets from one number up to      *)
(* another: next[i] is the number that comes after the i-th of them.        *)

Fits(p, n, a, b) ==
    IF p.kind = "world" THEN p.login = n /\ p.no = a /\ b = a + p.parts ELSE b = a
Marks(q, n, next) ==
    /\ next \in [0..Len(q) -> Nat]
    /\ \A i \in 1..Len(q) : Fits(q[i], n, next[i - 1], next[i])
    /\ \A i, j \in 0..Len(q) : i <= j => next[i] <= next[j]
Carries(q, n, from, to) == \E next : Marks(q, n, next) /\ next[0] = from /\ next[Len(q)] = to

\* What is carried is counted upwards.
LEMMA CarriesUp ==
    ASSUME NEW q \in Seq(OwnedPackets), NEW n, NEW from, NEW to, Carries(q, n, from, to)
    PROVE  from \in Nat /\ to \in Nat /\ from <= to
<1>1. PICK next : Marks(q, n, next) /\ next[0] = from /\ next[Len(q)] = to
    BY DEF Carries
<1>2. Len(q) \in Nat /\ 0 \in 0..Len(q) /\ Len(q) \in 0..Len(q) /\ 0 <= Len(q)
    OBVIOUS
<1> QED BY <1>1, <1>2 DEF Marks

\* Packets of no login carry nothing.
LEMMA CarriesNone ==
    ASSUME NEW q \in Seq(OwnedPackets), NEW n, NEW a \in Nat,
           \A i \in 1..Len(q) : q[i].kind # "world"
    PROVE  Carries(q, n, a, a)
<1> DEFINE next == [i \in 0..Len(q) |-> a]
<1>1. Marks(q, n, next) /\ next[0] = a /\ next[Len(q)] = a
    BY DEF Marks, Fits
<1> QED BY <1>1 DEF Carries

\* Nothing held carries nothing.
LEMMA CarriesEmpty ==
    ASSUME NEW n, NEW from, NEW to, Carries(<<>>, n, from, to)
    PROVE  from = to
    BY DEF Carries

\* A packet held behind the others.
LEMMA CarriesAppend ==
    ASSUME NEW q \in Seq(OwnedPackets), NEW n, NEW from, NEW to, Carries(q, n, from, to),
           NEW p \in OwnedPackets, NEW upto \in Nat, Fits(p, n, to, upto), to <= upto
    PROVE  Carries(Append(q, p), n, from, upto)
<1>1. PICK next : Marks(q, n, next) /\ next[0] = from /\ next[Len(q)] = to
    BY DEF Carries
<1>2. Len(q) \in Nat /\ next \in [0..Len(q) -> Nat] /\ 0 \in 0..Len(q) /\ Len(q) \in 0..Len(q)
    BY <1>1 DEF Marks
<1> DEFINE r == Append(q, p)
           more == [i \in 0..Len(q) + 1 |-> IF i = Len(q) + 1 THEN upto ELSE next[i]]
<1>3. Len(r) = Len(q) + 1 /\ r[Len(q) + 1] = p /\ \A i \in 1..Len(q) : r[i] = q[i]
    OBVIOUS
<1>4. /\ more \in [0..Len(q) + 1 -> Nat] /\ more[Len(q) + 1] = upto
      /\ \A i \in 0..Len(q) : more[i] = next[i]
    BY <1>2
<1> HIDE DEF r, more
<1>5. ASSUME NEW i \in 1..Len(r) PROVE Fits(r[i], n, more[i - 1], more[i])
  <2>1. CASE i \in 1..Len(q)
    <3>1. r[i] = q[i] /\ more[i] = next[i] /\ more[i - 1] = next[i - 1]
        BY <1>2, <1>3, <1>4, <2>1
    <3> QED BY <1>1, <2>1, <3>1 DEF Marks
  <2>2. CASE i = Len(q) + 1
    <3>1. i - 1 = Len(q) /\ more[i - 1] = to
        BY <1>1, <1>2, <1>4, <2>2
    <3> QED BY <1>3, <1>4, <2>2, <3>1
  <2>3. i \in 1..Len(q) \/ i = Len(q) + 1
      BY <1>2, <1>3
  <2> QED BY <2>1, <2>2, <2>3
<1>6. ASSUME NEW i \in 0..Len(r), NEW j \in 0..Len(r), i <= j PROVE more[i] <= more[j]
  <2>0. \A k \in 0..Len(q) : next[k] \in Nat /\ next[k] <= to
      BY <1>1, <1>2 DEF Marks
  <2>1. CASE i \in 0..Len(q) /\ j \in 0..Len(q)
      BY <1>1, <1>4, <1>6, <2>1 DEF Marks
  <2>2. CASE i \in 0..Len(q) /\ j = Len(q) + 1
    <3>1. more[i] = next[i] /\ next[i] \in Nat /\ next[i] <= to /\ to \in Nat
        BY <1>1, <1>2, <1>4, <2>0, <2>2
    <3> QED BY <1>4, <2>2, <3>1
  <2>3. CASE i = Len(q) + 1 /\ j = Len(q) + 1
      BY <1>4, <2>3
  <2>4. \/ i \in 0..Len(q) /\ j \in 0..Len(q)
        \/ i \in 0..Len(q) /\ j = Len(q) + 1
        \/ i = Len(q) + 1 /\ j = Len(q) + 1
      BY <1>2, <1>3, <1>6
  <2> QED BY <2>1, <2>2, <2>3, <2>4
<1>7. Marks(r, n, more)
    BY <1>3, <1>4, <1>5, <1>6 DEF Marks
<1>8. more[0] = from /\ more[Len(r)] = upto
    BY <1>1, <1>2, <1>3, <1>4
<1>9. Carries(r, n, from, upto)
    BY <1>7, <1>8 DEF Carries
<1> QED BY <1>9 DEF r

\* The first of the packets, and the others.
LEMMA CarriesTail ==
    ASSUME NEW q \in Seq(OwnedPackets), q # <<>>, NEW n, NEW from, NEW to, Carries(q, n, from, to)
    PROVE  \E after \in Nat : Fits(Head(q), n, from, after) /\ Carries(Tail(q), n, after, to)
<1>1. PICK next : Marks(q, n, next) /\ next[0] = from /\ next[Len(q)] = to
    BY DEF Carries
<1> DEFINE r == Tail(q)
           less == [i \in 0..Len(q) - 1 |-> next[i + 1]]
<1>2. Len(q) \in Nat \ {0} /\ r \in Seq(OwnedPackets) /\ Len(r) = Len(q) - 1
      /\ Head(q) = q[1] /\ \A i \in 1..Len(q) - 1 : r[i] = q[i + 1]
    OBVIOUS
<1>3. next \in [0..Len(q) -> Nat]
    BY <1>1 DEF Marks
<1>4. less \in [0..Len(q) - 1 -> Nat] /\ \A i \in 0..Len(q) - 1 : less[i] = next[i + 1]
    BY <1>2, <1>3
<1> HIDE DEF r, less
<1>5. ASSUME NEW i \in 1..Len(r) PROVE Fits(r[i], n, less[i - 1], less[i])
  <2>1. /\ r[i] = q[i + 1] /\ i + 1 \in 1..Len(q) /\ (i + 1) - 1 = i
        /\ less[i] = next[i + 1] /\ less[i - 1] = next[i]
      BY <1>2, <1>4
  <2>2. Fits(q[i + 1], n, next[(i + 1) - 1], next[i + 1])
      BY <1>1, <2>1 DEF Marks
  <2> QED BY <2>1, <2>2
<1>6. ASSUME NEW i \in 0..Len(r), NEW j \in 0..Len(r), i <= j PROVE less[i] <= less[j]
  <2>1. i + 1 \in 0..Len(q) /\ j + 1 \in 0..Len(q) /\ i + 1 <= j + 1
      BY <1>2, <1>6
  <2>2. next[i + 1] <= next[j + 1]
      BY <1>1, <2>1 DEF Marks
  <2>3. less[i] = next[i + 1] /\ less[j] = next[j + 1]
      BY <1>2, <1>4
  <2> QED BY <2>2, <2>3
<1>7. Marks(r, n, less)
    BY <1>2, <1>4, <1>5, <1>6 DEF Marks
<1>8. less[0] = next[1] /\ less[Len(r)] = to
  <2>1. 0 \in 0..Len(q) - 1 /\ Len(r) \in 0..Len(q) - 1 /\ 0 + 1 = 1 /\ Len(r) + 1 = Len(q)
      BY <1>2
  <2> QED BY <1>1, <1>4, <2>1
<1>9. Carries(r, n, next[1], to)
    BY <1>7, <1>8 DEF Carries
<1>10. Fits(Head(q), n, from, next[1]) /\ next[1] \in Nat
  <2>1. 1 \in 1..Len(q) /\ 1 \in 0..Len(q) /\ 1 - 1 = 0
      BY <1>2
  <2>2. Fits(q[1], n, next[1 - 1], next[1])
      BY <1>1, <2>1 DEF Marks
  <2> QED BY <1>1, <1>2, <1>3, <2>1, <2>2
<1> QED BY <1>9, <1>10 DEF r

\* A packet held before the others.
LEMMA CarriesPrepend ==
    ASSUME NEW q \in Seq(OwnedPackets), NEW n, NEW after, NEW to, Carries(q, n, after, to),
           NEW p \in OwnedPackets, NEW from \in Nat, Fits(p, n, from, after), from <= after
    PROVE  Carries(<<p>> \o q, n, from, to)
<1>1. PICK next : Marks(q, n, next) /\ next[0] = after /\ next[Len(q)] = to
    BY DEF Carries
<1>2. Len(q) \in Nat /\ next \in [0..Len(q) -> Nat] /\ 0 \in 0..Len(q)
    BY <1>1 DEF Marks
<1> DEFINE r == <<p>> \o q
           more == [i \in 0..Len(q) + 1 |-> IF i = 0 THEN from ELSE next[i - 1]]
<1>3. Len(r) = Len(q) + 1 /\ r[1] = p /\ \A i \in 2..Len(q) + 1 : r[i] = q[i - 1]
    OBVIOUS
<1>4. /\ more \in [0..Len(q) + 1 -> Nat] /\ more[0] = from
      /\ \A i \in 1..Len(q) + 1 : more[i] = next[i - 1]
    BY <1>2
<1> HIDE DEF r, more
<1>5. ASSUME NEW i \in 1..Len(r) PROVE Fits(r[i], n, more[i - 1], more[i])
  <2>1. CASE i \in 2..Len(q) + 1
    <3>1. /\ r[i] = q[i - 1] /\ i - 1 \in 1..Len(q)
          /\ more[i] = next[i - 1] /\ more[i - 1] = next[(i - 1) - 1]
        BY <1>2, <1>3, <1>4, <2>1
    <3> QED BY <1>1, <3>1 DEF Marks
  <2>2. CASE i = 1
    <3>1. i - 1 = 0 /\ more[i] = next[0] /\ more[i - 1] = from
      <4>1. 1 \in 1..Len(q) + 1 /\ 1 - 1 = 0
          BY <1>2
      <4> QED BY <1>4, <2>2, <4>1
    <3> QED BY <1>1, <1>3, <2>2, <3>1
  <2>3. i \in 2..Len(q) + 1 \/ i = 1
      BY <1>2, <1>3
  <2> QED BY <2>1, <2>2, <2>3
<1>6. ASSUME NEW i \in 0..Len(r), NEW j \in 0..Len(r), i <= j PROVE more[i] <= more[j]
  <2>0. ASSUME NEW k \in 0..Len(q) PROVE next[k] \in Nat /\ after <= next[k] /\ after \in Nat
    <3>1. 0 <= k /\ next[0] <= next[k]
        BY <1>1, <1>2 DEF Marks
    <3> QED BY <1>1, <1>2, <3>1
  <2>1. CASE i # 0
    <3>1. /\ i \in 1..Len(q) + 1 /\ j \in 1..Len(q) + 1
          /\ i - 1 \in 0..Len(q) /\ j - 1 \in 0..Len(q) /\ i - 1 <= j - 1
        BY <1>2, <1>3, <1>6, <2>1
    <3>2. next[i - 1] <= next[j - 1]
        BY <1>1, <3>1 DEF Marks
    <3> QED BY <1>4, <3>1, <3>2
  <2>2. CASE i = 0 /\ j # 0
    <3>1. j \in 1..Len(q) + 1 /\ j - 1 \in 0..Len(q)
        BY <1>2, <1>3, <1>6, <2>2
    <3>2. next[j - 1] \in Nat /\ after <= next[j - 1] /\ after \in Nat
        BY <2>0, <3>1
    <3> QED BY <1>4, <2>2, <3>1, <3>2
  <2>3. CASE i = 0 /\ j = 0
      BY <1>4, <2>3
  <2> QED BY <2>1, <2>2, <2>3
<1>7. Marks(r, n, more)
    BY <1>3, <1>4, <1>5, <1>6 DEF Marks
<1>8. more[0] = from /\ more[Len(r)] = to
  <2>1. Len(q) + 1 \in 1..Len(q) + 1 /\ (Len(q) + 1) - 1 = Len(q)
      BY <1>2
  <2> QED BY <1>1, <1>3, <1>4, <2>1
<1>9. Carries(r, n, from, to)
    BY <1>7, <1>8 DEF Carries
<1> QED BY <1>9 DEF r

\* The numbers a queue carries, in order: the fold in Numbers, one packet after
\* the other, is the run up to each of them.
LEMMA NumbersFollow ==
    ASSUME NEW q \in Seq(OwnedPackets), NEW n \in Logins, NEW from \in Nat \ {0}, NEW to,
           Carries(q, n, from, to)
    PROVE  Follows(Numbers(q), n, from) /\ Len(Numbers(q)) = to - from
<1>1. PICK next : Marks(q, n, next) /\ next[0] = from /\ next[Len(q)] = to
    BY DEF Carries
<1> DEFINE Part(p) == IF p.kind = "world" THEN [i \in 1..p.parts |-> <<p.login, p.no + i - 1>>]
                                          ELSE <<>>
           Def(g) == [k \in 0..Len(q) |-> IF k = 0 THEN <<>> ELSE g[k - 1] \o Part(q[k])]
           f == CHOOSE g : g = Def(g)
           h == [k \in 0..Len(q) |-> Run(n, from, next[k] - from)]
<1>2. Numbers(q) = f[Len(q)]
    BY DEF Numbers
<1>3. Len(q) \in Nat /\ next \in [0..Len(q) -> Nat] /\ 0 \in 0..Len(q) /\ Len(q) \in 0..Len(q)
    BY <1>1 DEF Marks
<1>4. ASSUME NEW k \in 0..Len(q) PROVE next[k] - from \in Nat /\ next[k] \in Nat
  <2>1. next[0] <= next[k]
      BY <1>1, <1>3 DEF Marks
  <2> QED BY <1>1, <1>3, <2>1
<1>5. h[0] = <<>>
  <2>1. h[0] = Run(n, from, 0)
      BY <1>1, <1>3
  <2>2. Len(Run(n, from, 0)) = 0 /\ Run(n, from, 0) \in Seq(Numbered)
      BY RunFollows DEF Follows
  <2> QED BY <2>1, <2>2
<1>6. ASSUME NEW k \in 1..Len(q) PROVE h[k] = h[k - 1] \o Part(q[k])
  <2>0. k - 1 \in 0..Len(q) /\ k \in 0..Len(q) /\ q[k] \in OwnedPackets
      BY <1>3
  <2>1. /\ next[k - 1] \in Nat /\ next[k - 1] - from \in Nat
        /\ next[k] \in Nat /\ next[k] - from \in Nat
      BY <1>4, <2>0
  <2>2. Fits(q[k], n, next[k - 1], next[k])
      BY <1>1 DEF Marks
  <2>3. h[k] = Run(n, from, next[k] - from) /\ h[k - 1] = Run(n, from, next[k - 1] - from)
      BY <2>0
  <2> DEFINE a == next[k - 1]  b == next[k]  m == q[k].parts
  <2> HIDE DEF h, Part, a, b, m
  <2>4. CASE q[k].kind = "world"
    <3>1. q[k].login = n /\ q[k].no = a /\ b = a + m /\ m \in Nat
        BY <2>0, <2>2, <2>4 DEF Fits, OwnedPackets, RealmPackets, a, b, m
    <3>2. Part(q[k]) = Run(n, a, m)
        BY <2>4, <3>1 DEF Part, Run, Number, m
    <3>3. a \in Nat /\ b \in Nat /\ a - from \in Nat
        BY <2>1 DEF a, b
    <3>4. a = from + (a - from) /\ b - from = (a - from) + m
        BY <3>1, <3>3
    <3>5. Run(n, from, a - from) \o Run(n, from + (a - from), m) = Run(n, from, (a - from) + m)
      <4> DEFINE c == a - from
      <4>1. c \in Nat
          BY <3>3
      <4> HIDE DEF c
      <4>2. Run(n, from, c) \o Run(n, from + c, m) = Run(n, from, c + m)
          BY <3>1, <4>1, RunJoined
      <4> QED BY <4>2 DEF c
    <3>6. h[k] = Run(n, from, b - from) /\ h[k - 1] = Run(n, from, a - from)
        BY <2>3 DEF a, b
    <3> QED BY <3>2, <3>4, <3>5, <3>6
  <2>5. CASE q[k].kind # "world"
    <3>1. b = a /\ Part(q[k]) = <<>>
        BY <2>2, <2>5 DEF Fits, Part, a, b
    <3>2. Run(n, from, a - from) \in Seq(Numbered)
        BY <2>1, RunFollows DEF Follows, a
    <3>3. Run(n, from, a - from) \o <<>> = Run(n, from, a - from)
        BY <3>2
    <3> QED BY <2>3, <3>1, <3>3 DEF a, b
  <2> QED BY <2>4, <2>5
<1>7. h = Def(h)
  <2> DEFINE e(k) == IF k = 0 THEN <<>> ELSE h[k - 1] \o Part(q[k])
  <2>1. \A k \in 0..Len(q) : h[k] = e(k)
    <3> HIDE DEF h, Part
    <3>1. \A k \in 0..Len(q) : k = 0 \/ k \in 1..Len(q)
        BY <1>3
    <3> QED BY <1>5, <1>6, <3>1
  <2>2. h = [k \in 0..Len(q) |-> h[k]]
      OBVIOUS
  <2>3. Def(h) = [k \in 0..Len(q) |-> e(k)]
      OBVIOUS
  <2> HIDE DEF h, e, Def
  <2> QED BY <2>1, <2>2, <2>3
<1>8. f = Def(f)
  <2> HIDE DEF h, Def
  <2> QED BY <1>7
<1>9. f[0] = <<>> /\ \A k \in 1..Len(q) : f[k] = f[k - 1] \o Part(q[k])
  <2>1. Def(f)[0] = <<>>
    <3> HIDE DEF f, Part
    <3> QED BY <1>3
  <2>2. ASSUME NEW k \in 1..Len(q) PROVE Def(f)[k] = f[k - 1] \o Part(q[k])
    <3>1. k \in 0..Len(q) /\ k # 0
        BY <1>3
    <3> HIDE DEF f, Part
    <3> QED BY <3>1
  <2> HIDE DEF f, Def
  <2> QED BY <1>8, <2>1, <2>2
<1>10. 0..Len(q) \subseteq {k \in 0..Len(q) : f[k] = h[k]}
  <2> DEFINE S == {k \in 0..Len(q) : f[k] = h[k]}
  <2> HIDE DEF f, h, Part
  <2>1. 0 \in S
      BY <1>3, <1>5, <1>9
  <2>2. ASSUME NEW k \in 1..Len(q), k - 1 \in S PROVE k \in S
    <3>1. k \in 0..Len(q) /\ f[k - 1] = h[k - 1]
        BY <1>3, <2>2
    <3>2. f[k] = h[k]
        BY <1>6, <1>9, <3>1
    <3> QED BY <3>1, <3>2
  <2> HIDE DEF S
  <2>3. 0..Len(q) \subseteq S
      BY <1>3, <2>1, <2>2, InductionUpTo
  <2> QED BY <2>3 DEF S
<1>11. f[Len(q)] = Run(n, from, to - from) /\ to - from \in Nat
  <2>1. h[Len(q)] = Run(n, from, to - from)
      BY <1>1, <1>3
  <2> HIDE DEF f, h
  <2> QED BY <1>1, <1>3, <1>4, <1>10, <2>1
<1>12. Numbers(q) = Run(n, from, to - from)
  <2> HIDE DEF f
  <2> QED BY <1>2, <1>11
<1> QED BY <1>11, <1>12, RunFollows

-----------------------------------------------------------------------------
(* The stream of a login.  It is whole as long as the packets of nobody do  *)
(* not fill the deferral limit before the realm has let the login in: then  *)
(* the wait ends only when a login is in the world.                         *)

FewStrays == MaxStrays + 1 < DeferLimit

Queued(kind) == \E i \in 1..Len(toRealm) : toRealm[i] = kind
OnlyQueries == \A kind \in {"login", "logout", "enum"} : ~Queued(kind)
Waits(kind) == \E i \in 1..Len(deferred) : deferred[i].kind = kind

\* Where the client, the handler and the realm are, seen from each other.
Phases ==
    /\ inWorld \in {NoLogin, login}
    /\ client = "list" => inWorld = NoLogin /\ handler = "idle"
    /\ handler # "idle" =>
          inWorld = NoLogin /\ client \in {"entering", "gone"} /\ sent[login] = <<>> /\ syncPending
    /\ handler \in {"register", "connect"} => client = "entering" /\ address < login
    /\ client \in {"world", "leaving"} => inWorld = login
    /\ client \in {"returning", "waiting"} => inWorld = NoLogin
    /\ client = "gone" => login \in disturbed
    /\ client = "entering" /\ sent[login] # <<>> => inWorld = login
    /\ \A m \in Logins : m > login => sent[m] = <<>> /\ shown[m] = <<>>
    /\ relay = "logout" =>
          client \in {"returning", "waiting", "gone"} /\ inWorld = NoLogin /\ ~syncPending

\* At most one request that is no query is on its way, and it is the one the
\* client waits for.
Requests ==
    /\ \A i, j \in 1..Len(toRealm) : toRealm[i] # "query" /\ toRealm[j] # "query" => i = j
    /\ Queued("login") =>
          handler = "idle" /\ inWorld = NoLogin /\ client \in {"entering", "gone"} /\ syncPending
    /\ Queued("logout") =>
          handler = "idle" /\ inWorld = login /\ client \in {"leaving", "gone"} /\ ~syncPending
    /\ Queued("enum") => inWorld = NoLogin /\ client \in {"waiting", "gone"} /\ ~syncPending
    /\ client = "leaving" => Queued("logout")
    /\ client = "waiting" => Queued("enum")

\* What is held, and by which of the two queues.
Holding ==
    /\ syncPending => replay = <<>>
    /\ ~syncPending => deferred = <<>>
    /\ inWorld = NoLogin => replay = <<>> /\ ~Waits("world")
    /\ client \in {"world", "leaving", "returning", "waiting"} => ~syncPending
    /\ pendingInstance # <<>> => ~syncPending
    /\ \A i \in 1..Len(deferred) : deferred[i].kind \in {"world", "stray", "refused"}
    /\ \A i \in 1..Len(replay) : replay[i].kind \in {"world", "stray"}
    /\ Waits("refused") =>
          inWorld = NoLogin /\ handler = "idle" /\ client \in {"entering", "gone"} /\ OnlyQueries
    /\ inWorld = NoLogin =>
          Len(deferred) <= strays \/ (Len(deferred) <= strays + 1 /\ Waits("refused"))

\* Which connections may still be shown something.
Attached ==
    /\ \A c \in Conns :
          stage[c] = "claimed" \/ presents[c] \in keys => presents[c] = login /\ login # NoLogin
    /\ instanceWorld # NoConn => stage[instanceWorld] = "active" /\ presents[instanceWorld] = login
    /\ client \notin {"entering", "gone"} =>
          /\ \A c \in Conns : stage[c] # "claimed" /\ presents[c] \notin keys
          /\ syncPending \/ (login \notin keys /\ instanceKey = login)
    /\ handler \in {"register", "connect"} =>
          instanceWorld = NoConn /\ \A c \in Conns : presents[c] # login
    /\ client \in {"returning", "waiting", "list"} /\ relay # "logout" => instanceWorld = NoConn
    /\ instanceWorld # NoConn /\ instanceWorld \notin broken => pendingInstance = <<>>
    /\ \A c \in broken :
          stage[c] # "none" /\ (presents[c] \in disturbed \/ stage[c] \in {"active", "ended"})

\* The login may still be shown packets: a connection for it can come, has its
\* key or is there.
Opens(c) == presents[c] = login /\ (stage[c] = "claimed" \/ (stage[c] = "active" /\ c \notin broken))
MayShow == instanceKey < login \/ login \in keys \/ \E c \in Conns : Opens(c)
StillShows == client \notin {"list", "returning", "waiting"} => MayShow \/ login \in disturbed

\* Then everything it was sent and not shown is on its way, in order.
Held == IF syncPending THEN deferred ELSE replay
OnTheWay ==
    login # NoLogin /\ MayShow =>
        /\ Follows(pendingInstance, login, Len(shown[login]) + 1)
        /\ Carries(Held, login, Len(shown[login]) + Len(pendingInstance) + 1, Len(sent[login]) + 1)

\* A login is sent its packets in order, and shown a beginning of them.
InTurn ==
    \A m \in Logins :
        Follows(sent[m], m, 1) /\ Follows(shown[m], m, 1) /\ Len(shown[m]) <= Len(sent[m])

\* The completed quests, from the wait for them to the player.
Completed ==
    /\ QuestsReachPlayer
    /\ inWorld # NoLogin => syncPending \/ quests \/ login \in released

Parts == /\ Phases /\ Requests /\ Holding /\ Attached /\ StillShows /\ OnTheWay /\ InTurn
         /\ Completed /\ LiveStaysAttached
StreamInv == TypeInv /\ KeyInv /\ Parts

\* A step of the stream, or none.
StreamStep == [Stream!StreamNext]_(Stream!streamVars)

\* At the start no login was begun.
LEMMA StreamInvInit == Init => StreamInv
<1> SUFFICES ASSUME Init PROVE StreamInv
    OBVIOUS
<1>1. TypeInv /\ KeyInv
    BY TypeInit, KeyInit
<1>2. Phases /\ Requests /\ Holding /\ Attached /\ StillShows
  <2>1. \A m \in Logins : sent[m] = <<>> /\ shown[m] = <<>>
      BY DEF Init
  <2>2. Phases
      BY <2>1 DEF Init, Phases, NoLogin
  <2>3. toRealm = <<>> /\ deferred = <<>> /\ replay = <<>>
      BY DEF Init
  <2>4. Requests
      BY <2>3 DEF Init, Requests, Queued, NoLogin
  <2>5. Holding
      BY <2>3 DEF Init, Holding, Waits, NoLogin
  <2>6. Attached
      BY DEF Init, Attached, NoLogin
  <2>7. StillShows
      BY DEF Init, StillShows
  <2> QED BY <2>2, <2>4, <2>5, <2>6, <2>7
<1>3. OnTheWay /\ Completed /\ LiveStaysAttached
    BY DEF Init, OnTheWay, Completed, QuestsReachPlayer, LiveStaysAttached, NoLogin
<1>4. InTurn
  <2>1. \A m \in Logins : sent[m] = <<>> /\ shown[m] = <<>>
      BY DEF Init
  <2>2. \A m \in Logins : Follows(<<>>, m, 1) /\ Len(<<>>) <= Len(<<>>)
      BY FollowsNone
  <2> QED BY <2>1, <2>2 DEF InTurn
<1> QED BY <1>1, <1>2, <1>3, <1>4 DEF StreamInv, Parts

-----------------------------------------------------------------------------
(* What the steps need of the types, and of the requests.                   *)

\* The login the realm has in the world is the last one begun.
LEMMA InWorld ==
    StreamInv /\ inWorld # NoLogin => inWorld = login /\ login \in Logins /\ login # NoLogin
    BY EntryBounds DEF StreamInv, Parts, Phases, TypeInv, RealmTypes, Logins, NoLogin

\* A request is put behind the others.
LEMMA RequestAdded ==
    ASSUME TypeInv, NEW kind \in {"login", "query", "logout", "enum"}, Request(kind)
    PROVE  /\ \A k : Queued(k)' <=> Queued(k) \/ k = kind
           /\ (kind = "query" \/ OnlyQueries)
              /\ (\A i, j \in 1..Len(toRealm) : toRealm[i] # "query" /\ toRealm[j] # "query" => i = j)
                => (\A i, j \in 1..Len(toRealm) : toRealm[i] # "query" /\ toRealm[j] # "query" => i = j)'
<1> DEFINE K == {"login", "query", "logout", "enum"}
<1>1. toRealm \in Seq(K)
    BY DEF TypeInv, RealmTypes
<1>2. toRealm' = Append(toRealm, kind) /\ kind \in K
    BY DEF Request
<1>3. \A i \in 1..Len(toRealm) : toRealm[i] \in K
    BY <1>1
<1>4. Len(toRealm) \in Nat
    BY <1>1
<1>5. /\ Len(toRealm') = Len(toRealm) + 1
      /\ toRealm'[Len(toRealm) + 1] = kind
      /\ \A i \in 1..Len(toRealm) : toRealm'[i] = toRealm[i]
  <2> HIDE DEF K
  <2> QED BY <1>1, <1>2, AppendAt
<1>6. \A k : Queued(k)' <=> Queued(k) \/ k = kind
    BY <1>4, <1>5 DEF Queued
<1>7. ASSUME kind = "query" \/ OnlyQueries,
             \A i, j \in 1..Len(toRealm) : toRealm[i] # "query" /\ toRealm[j] # "query" => i = j,
             NEW i \in 1..Len(toRealm'), NEW j \in 1..Len(toRealm'),
             toRealm'[i] # "query", toRealm'[j] # "query"
      PROVE  i = j
  <2>1. CASE kind = "query"
      BY <1>4, <1>5, <1>7, <2>1
  <2>2. CASE OnlyQueries
    <3>1. \A m \in 1..Len(toRealm) : toRealm[m] = "query"
        BY <1>3, <2>2 DEF OnlyQueries, Queued
    <3> QED BY <1>4, <1>5, <1>7, <3>1
  <2> QED BY <1>7, <2>1, <2>2
<1> QED BY <1>6, <1>7

\* The realm takes the oldest request.
LEMMA RequestTaken ==
    ASSUME TypeInv, Requests, toRealm # <<>>, toRealm' = Tail(toRealm)
    PROVE  /\ Queued(Head(toRealm))
           /\ \A k : Queued(k)' => Queued(k)
           /\ \A k : Queued(k) /\ Head(toRealm) # k => Queued(k)'
           /\ Head(toRealm) # "query" => OnlyQueries'
           /\ (\A i, j \in 1..Len(toRealm) : toRealm[i] # "query" /\ toRealm[j] # "query" => i = j)'
<1> DEFINE K == {"login", "query", "logout", "enum"}
<1>1. toRealm \in Seq(K)
    BY DEF TypeInv, RealmTypes
<1>2. /\ Len(toRealm') = Len(toRealm) - 1 /\ Len(toRealm) \in Nat \ {0}
      /\ Head(toRealm) = toRealm[1]
      /\ \A i \in 1..Len(toRealm) - 1 : toRealm'[i] = toRealm[i + 1]
  <2> HIDE DEF K
  <2> QED BY <1>1, TailAt
<1>3. \A i, j \in 1..Len(toRealm) : toRealm[i] # "query" /\ toRealm[j] # "query" => i = j
    BY DEF Requests
<1>4. \A i \in 1..Len(toRealm') : i + 1 \in 2..Len(toRealm) /\ toRealm'[i] = toRealm[i + 1]
    BY <1>2
<1>5. Queued(Head(toRealm)) /\ \A k : Queued(k)' => Queued(k)
    BY <1>2, <1>4 DEF Queued
<1>6. ASSUME NEW k, Queued(k), Head(toRealm) # k PROVE Queued(k)'
  <2>1. PICK i \in 1..Len(toRealm) : toRealm[i] = k
      BY <1>6 DEF Queued
  <2>2. i # 1
      BY <1>2, <1>6, <2>1
  <2>3. i - 1 \in 1..Len(toRealm') /\ (i - 1) + 1 = i
      BY <1>2, <2>2
  <2>4. toRealm'[i - 1] = k
      BY <1>4, <2>1, <2>3
  <2> QED BY <2>3, <2>4 DEF Queued
<1>7. (\A i, j \in 1..Len(toRealm) : toRealm[i] # "query" /\ toRealm[j] # "query" => i = j)'
  <2> SUFFICES ASSUME NEW i \in 1..Len(toRealm'), NEW j \in 1..Len(toRealm'),
                      toRealm'[i] # "query", toRealm'[j] # "query"
               PROVE  i = j
      OBVIOUS
  <2>1. i + 1 = j + 1
      BY <1>2, <1>3, <1>4
  <2> QED BY <1>2, <2>1
<1>8. ASSUME Head(toRealm) # "query", NEW k \in {"login", "logout", "enum"}, Queued(k)' PROVE FALSE
  <2>1. PICK i \in 1..Len(toRealm') : toRealm'[i] = k
      BY <1>8 DEF Queued
  <2>2. i + 1 \in 1..Len(toRealm) /\ toRealm[i + 1] = k /\ 1 \in 1..Len(toRealm)
      BY <1>2, <1>4, <2>1
  <2>3. i + 1 = 1
      BY <1>2, <1>3, <1>8, <2>2
  <2> QED BY <1>2, <2>3
<1>9. Head(toRealm) # "query" => OnlyQueries'
    BY <1>8 DEF OnlyQueries
<1> QED BY <1>5, <1>6, <1>7, <1>9

-----------------------------------------------------------------------------
(* The handler's steps.                                                     *)

\* A new login: no packet of an older one is held, and none was sent to it.
LEMMA PlayerLoginStream ==
    ASSUME StreamInv, PlayerLogin
    PROVE  Parts' /\ UNCHANGED <<sent, shown>>
<1> USE DEF NoLogin
<1>0. /\ TypeInv /\ KeyInv /\ Phases /\ Requests /\ Holding /\ Attached /\ InTurn
      /\ OnTheWay /\ StillShows /\ Completed /\ LiveStaysAttached
    BY DEF StreamInv, Parts
<1>1. /\ client = "list" /\ handler = "idle" /\ login < MaxLogins
      /\ client' = "entering" /\ login' = login + 1 /\ handler' = "register"
      /\ pendingInstance' = <<>> /\ syncPending' = TRUE /\ created' = FALSE
      /\ UNCHANGED <<address, keys, instanceKey, instanceWorld, stage, presents, broken, relay,
                     deferred, replay, toRealm, inWorld, strays, sent, shown, released, disturbed>>
    BY DEF PlayerLogin, connVars, relayVars, realmVars
<1>2. login \in Nat /\ login' \in Logins /\ instanceKey <= login /\ address <= instanceKey
      /\ instanceKey \in Nat /\ address \in Nat /\ \A c \in Conns : presents[c] \in Nat /\ presents[c] <= instanceKey
    BY <1>0, <1>1, EntryBounds DEF TypeInv, HandlerTypes, KeyInv, KeysInOrder, KeyTypes, Logins
<1>3. /\ inWorld = NoLogin /\ replay = <<>> /\ relay # "logout" /\ instanceWorld = NoConn
      /\ \A c \in Conns : stage[c] # "claimed" /\ presents[c] \notin keys
      /\ ~Waits("world") /\ ~Waits("refused") /\ OnlyQueries
    BY <1>0, <1>1 DEF Phases, Holding, Attached, Requests, OnlyQueries
<1>4. /\ \A k : Queued(k)' <=> Queued(k)
      /\ \A k : Waits(k)' <=> Waits(k)
    BY <1>1 DEF Queued, Waits
<1>5. sent[login'] = <<>> /\ shown[login'] = <<>>
    BY <1>0, <1>1, <1>2 DEF Phases
<1>6. Phases'
    BY <1>0, <1>1, <1>2, <1>3, <1>5 DEF Phases
<1>7. Requests'
    BY <1>0, <1>1, <1>3, <1>4 DEF Requests, OnlyQueries
<1>8. Holding'
    BY <1>0, <1>1, <1>3, <1>4 DEF Holding
<1>9. Attached'
    BY <1>0, <1>1, <1>2, <1>3 DEF Attached
<1>10. StillShows'
    BY <1>1, <1>2 DEF StillShows, MayShow
<1>11. OnTheWay'
  <2>1. deferred \in Seq(OwnedPackets) /\ \A i \in 1..Len(deferred) : deferred[i].kind # "world"
      BY <1>0, <1>3 DEF Waits, TypeInv, RelayTypes, Owned
  <2>2. Carries(deferred, login', 1, 1)
      BY <2>1, CarriesNone
  <2>3. Follows(<<>>, login', 1)
      BY FollowsNone
  <2>4. Held' = deferred /\ Len(sent'[login']) = 0 /\ Len(shown'[login']) = 0 /\ pendingInstance' = <<>>
      BY <1>1, <1>5 DEF Held
  <2> QED BY <2>2, <2>3, <2>4 DEF OnTheWay
<1>12. InTurn'
    BY <1>0, <1>1 DEF InTurn
<1>13. Completed' /\ LiveStaysAttached'
    BY <1>1, <1>2, <1>3 DEF Completed, QuestsReachPlayer, LiveStaysAttached
<1> QED BY <1>1, <1>6, <1>7, <1>8, <1>9, <1>10, <1>11, <1>12, <1>13 DEF Parts

\* A login that is not in the list: nothing waits that is owed to anybody.
LEMMA PlayerLoginUnknownStream ==
    ASSUME StreamInv, PlayerLoginUnknown
    PROVE  Parts' /\ UNCHANGED <<sent, shown>>
<1>0. /\ TypeInv /\ KeyInv /\ Phases /\ Requests /\ Holding /\ Attached /\ InTurn
      /\ OnTheWay /\ StillShows /\ Completed /\ LiveStaysAttached
    BY DEF StreamInv, Parts
<1>1. /\ client = "list" /\ handler = "idle" /\ pendingInstance' = <<>>
      /\ UNCHANGED <<client, address, login, handler, keys, instanceKey, instanceWorld, syncPending,
                     stage, presents, broken, relay, deferred, replay, toRealm, inWorld, strays,
                     sent, shown, quests, created, questsShown, released, disturbed>>
    BY DEF PlayerLoginUnknown, clientVars, connVars, relayVars, realmVars, histVars
<1>2. pendingInstance = <<>> \/ ~MayShow
  <2>1. CASE ~syncPending
    <3>1. relay # "logout" /\ instanceWorld = NoConn /\ login \notin keys /\ instanceKey = login
          /\ \A c \in Conns : stage[c] # "claimed"
        BY <1>0, <1>1, <2>1 DEF Phases, Attached
    <3>2. login \in Nat
        BY <1>0 DEF KeyInv, KeyTypes
    <3>3. \A c \in Conns : ~Opens(c)
        BY <1>0, <3>1, NoConnIsNone DEF Opens, LiveStaysAttached
    <3> QED BY <3>1, <3>2, <3>3 DEF MayShow
  <2> QED BY <1>0, <2>1 DEF Holding
<1>3. /\ \A k : Queued(k)' <=> Queued(k)
      /\ \A k : Waits(k)' <=> Waits(k)
      /\ MayShow' <=> MayShow
      /\ Held' = Held
    BY <1>1 DEF Queued, Waits, MayShow, Held, Opens
<1>4. Phases' /\ StillShows' /\ InTurn' /\ Completed' /\ LiveStaysAttached' /\ Attached'
    BY <1>0, <1>1, <1>3 DEF Phases, StillShows, InTurn, Completed, QuestsReachPlayer,
                            LiveStaysAttached, Attached
<1>5. Requests' /\ Holding'
    BY <1>0, <1>1, <1>3 DEF Requests, Holding, OnlyQueries
<1>6. OnTheWay'
    BY <1>0, <1>1, <1>2, <1>3 DEF OnTheWay
<1> QED BY <1>1, <1>4, <1>5, <1>6 DEF Parts

\* What the stream depends on beside the handler's own variables.
restVars == <<instanceWorld, pendingInstance, syncPending, stage, presents, broken, relay, deferred,
              replay, inWorld, strays, sent, shown, quests, created, questsShown, released>>

\* What they leave alone keeps the queues and what the connections show.
LEMMA RestKept ==
    ASSUME UNCHANGED restVars
    PROVE  /\ \A k : Waits(k)' <=> Waits(k)
           /\ \A c \in Conns :
                 Opens(c)' <=> /\ presents[c] = login'
                               /\ stage[c] = "claimed" \/ (stage[c] = "active" /\ c \notin broken)
           /\ Held' = Held
    BY DEF restVars, Waits, Opens, Held

\* A fresh key: until then nothing else kept the login showing.
LEMMA RegisterStream ==
    ASSUME StreamInv, RegisterInstanceSession
    PROVE  Parts' /\ UNCHANGED <<sent, shown>>
<1>0. /\ TypeInv /\ KeyInv /\ Phases /\ Requests /\ Holding /\ Attached /\ InTurn
      /\ OnTheWay /\ StillShows /\ Completed /\ LiveStaysAttached
    BY DEF StreamInv, Parts
<1>1. handler = "register" /\ UNCHANGED <<address, login, toRealm, restVars>>
    BY DEF RegisterInstanceSession, restVars, connVars, relayVars, realmVars
<1>2. /\ login \in Nat /\ instanceKey < login /\ instanceKey \in Nat /\ keys \subseteq {instanceKey}
      /\ login # 0 /\ MayShow
    BY <1>0, <1>1 DEF KeyInv, KeyTypes, KeysInOrder, OneConnectionPerKey, MayShow
<1>3. client = "entering" /\ inWorld = NoLogin /\ syncPending /\ sent[login] = <<>> /\ address < login
      /\ OnlyQueries /\ ~Waits("refused") /\ instanceWorld = NoConn /\ \A c \in Conns : presents[c] # login
    BY <1>0, <1>1 DEF Phases, Requests, Holding, Attached, OnlyQueries
<1>4. /\ \A k : Waits(k)' <=> Waits(k) 
      /\ \A k : Queued(k)' <=> Queued(k)
      /\ Held' = Held
    BY <1>1, RestKept DEF Queued
<1>5. \/ client' = "entering" /\ handler' = "connect" /\ keys' = {login} /\ instanceKey' = login
         /\ UNCHANGED disturbed
      \/ client' = "list" /\ handler' = "idle" /\ UNCHANGED <<keys, instanceKey>>
         /\ disturbed' = disturbed \cup {login}
    BY <1>2, <1>3 DEF RegisterInstanceSession, Register, FailLogin, Disturb
<1>6. Phases'
    BY <1>0, <1>1, <1>3, <1>5 DEF Phases, restVars
<1>7. Requests'
    BY <1>0, <1>1, <1>3, <1>4, <1>5 DEF Requests, OnlyQueries, restVars
<1>8. Holding'
    BY <1>0, <1>1, <1>3, <1>4, <1>5 DEF Holding, restVars
<1>9. Attached'
    BY <1>0, <1>1, <1>2, <1>3, <1>5 DEF Attached, restVars
<1>10. StillShows'
    BY <1>1, <1>2, <1>5 DEF StillShows, MayShow
<1>11. OnTheWay'
    BY <1>0, <1>1, <1>2, <1>4 DEF OnTheWay, restVars
<1>12. InTurn' /\ Completed' /\ LiveStaysAttached'
    BY <1>0, <1>1 DEF InTurn, Completed, QuestsReachPlayer, LiveStaysAttached, restVars
<1> QED BY <1>1, <1>6, <1>7, <1>8, <1>9, <1>10, <1>11, <1>12 DEF Parts, restVars

\* The key reaches the client, or the login fails with its key registered.
LEMMA ConnectToStream ==
    ASSUME StreamInv, WriteConnectTo
    PROVE  Parts' /\ UNCHANGED <<sent, shown>>
<1>0. /\ TypeInv /\ KeyInv /\ Phases /\ Requests /\ Holding /\ Attached /\ InTurn
      /\ OnTheWay /\ StillShows /\ Completed /\ LiveStaysAttached
    BY DEF StreamInv, Parts
<1>1. handler = "connect" /\ UNCHANGED <<login, keys, instanceKey, toRealm, restVars>>
    BY DEF WriteConnectTo, restVars, sessionVars, connVars, relayVars, realmVars
<1>3. client = "entering" /\ inWorld = NoLogin /\ syncPending /\ sent[login] = <<>>
      /\ OnlyQueries /\ ~Waits("refused") /\ instanceWorld = NoConn /\ \A c \in Conns : presents[c] # login
    BY <1>0, <1>1 DEF Phases, Requests, Holding, Attached, OnlyQueries
<1>4. /\ \A k : Waits(k)' <=> Waits(k)
      /\ \A k : Queued(k)' <=> Queued(k)
      /\ Held' = Held /\ (MayShow' <=> MayShow)
    BY <1>1, RestKept DEF Queued, MayShow, Opens
<1>5. \/ client' = "entering" /\ handler' = "forward" /\ UNCHANGED disturbed
      \/ client' = "list" /\ handler' = "idle" /\ disturbed' = disturbed \cup {login}
    BY <1>3 DEF WriteConnectTo, FailLogin, Disturb
<1>6. Phases'
    BY <1>0, <1>1, <1>3, <1>5 DEF Phases, restVars
<1>7. Requests'
    BY <1>0, <1>1, <1>3, <1>4, <1>5 DEF Requests, OnlyQueries, restVars
<1>8. Holding'
    BY <1>0, <1>1, <1>3, <1>4, <1>5 DEF Holding, restVars
<1>9. Attached'
  <2>1. \A c \in Conns : stage[c] # "claimed" /\ presents[c] \notin keys
      BY <1>0, <1>3 DEF Attached
  <2> QED BY <1>0, <1>1, <1>3, <1>5, <2>1 DEF Attached, restVars
<1>10. StillShows'
    BY <1>0, <1>1, <1>3, <1>4, <1>5 DEF StillShows
<1>11. OnTheWay'
    BY <1>0, <1>1, <1>4 DEF OnTheWay, restVars
<1>12. InTurn' /\ Completed' /\ LiveStaysAttached'
    BY <1>0, <1>1 DEF InTurn, Completed, QuestsReachPlayer, LiveStaysAttached, restVars
<1> QED BY <1>1, <1>6, <1>7, <1>8, <1>9, <1>10, <1>11, <1>12 DEF Parts, restVars

\* The login, a logout or the wish for the list is sent to the realm.
LEMMA ForwardStream ==
    ASSUME StreamInv, ForwardLogin \/ ForwardRequest
    PROVE  Parts' /\ UNCHANGED <<sent, shown>>
<1>0. /\ TypeInv /\ KeyInv /\ Phases /\ Requests /\ Holding /\ Attached /\ InTurn
      /\ OnTheWay /\ StillShows /\ Completed /\ LiveStaysAttached
    BY DEF StreamInv, Parts
<1>1. UNCHANGED <<address, login, keys, instanceKey, disturbed, restVars>>
    BY DEF ForwardLogin, ForwardRequest, restVars, clientVars, sessionVars, connVars, relayVars, histVars
<1>2. PICK kind \in {"login", "logout", "enum"} :
         /\ Request(kind)
         /\ handler' = "idle"
         /\ kind = "login" => handler = "forward" /\ UNCHANGED client
         /\ kind = "logout" => handler = "idle" /\ client = "world" /\ client' = "leaving"
         /\ kind = "enum" => handler = "idle" /\ client = "returning" /\ client' = "waiting"
    BY DEF ForwardLogin, ForwardRequest, LogoutRequest, EnumCharacters, clientVars
<1>3. OnlyQueries /\ ~Waits("refused")
    BY <1>0, <1>2 DEF Phases, Requests, Holding, OnlyQueries
<1>4. \A k : Queued(k)' <=> Queued(k) \/ k = kind
    BY <1>0, <1>2, RequestAdded
<1>5. /\ \A k : Waits(k)' <=> Waits(k)
      /\ Held' = Held /\ (MayShow' <=> MayShow)
    BY <1>1, RestKept DEF MayShow, Opens
<1>6. Phases'
    BY <1>0, <1>1, <1>2 DEF Phases, restVars
<1>7. Requests'
  <2>1. (\A i, j \in 1..Len(toRealm) : toRealm[i] # "query" /\ toRealm[j] # "query" => i = j)'
      BY <1>0, <1>2, <1>3, RequestAdded DEF Requests
  <2> QED BY <1>0, <1>1, <1>2, <1>3, <1>4, <2>1 DEF Requests, OnlyQueries, restVars, Phases, Holding
<1>8. Holding'
    BY <1>0, <1>1, <1>2, <1>3, <1>5 DEF Holding, restVars
<1>9. Attached'
    BY <1>0, <1>1, <1>2 DEF Attached, restVars
<1>10. StillShows'
    BY <1>0, <1>1, <1>2, <1>5 DEF StillShows
<1>11. OnTheWay'
    BY <1>0, <1>1, <1>5 DEF OnTheWay, restVars
<1>12. InTurn' /\ Completed' /\ LiveStaysAttached'
    BY <1>0, <1>1 DEF InTurn, Completed, QuestsReachPlayer, LiveStaysAttached, restVars
<1> QED BY <1>1, <1>6, <1>7, <1>8, <1>9, <1>10, <1>11, <1>12 DEF Parts, restVars

-----------------------------------------------------------------------------
(* The steps of an instance connection.                                     *)

\* What a connection's steps leave alone until it is attached.
streamVars == <<client, address, login, handler, instanceKey, instanceWorld, pendingInstance,
                syncPending, quests, created, relay, deferred, replay, toRealm, inWorld, strays,
                sent, shown, questsShown, released, disturbed>>

\* A connection opens, finds its key or does not, or fails its handshake.
LEMMA OpeningStream ==
    ASSUME StreamInv, NEW c \in Conns, Connect(c) \/ LookupInstanceSession(c) \/ HandshakeFails(c)
    PROVE  Parts' /\ UNCHANGED <<sent, shown>>
<1>0. /\ TypeInv /\ KeyInv /\ Phases /\ Requests /\ Holding /\ Attached /\ InTurn
      /\ OnTheWay /\ StillShows /\ Completed /\ LiveStaysAttached
    BY DEF StreamInv, Parts
<1>1. UNCHANGED <<streamVars, keys, broken>>
    BY DEF Connect, LookupInstanceSession, HandshakeFails, streamVars, clientVars, sessionVars,
           relayVars, realmVars, histVars
<1>2. /\ stage \in [Conns -> Stages] /\ presents \in [Conns -> Nat] /\ instanceKey <= login
      /\ login \in Nat /\ instanceKey \in Nat /\ address <= instanceKey /\ keys \subseteq {instanceKey}
    BY <1>0 DEF KeyInv, KeyTypes, KeysInOrder, OneConnectionPerKey
<1>3. /\ \A d \in Conns : d # c => stage'[d] = stage[d] /\ presents'[d] = presents[d]
      /\ \/ /\ stage[c] = "none" /\ stage'[c] = "new" /\ presents'[c] = login
            /\ client = "entering" /\ address = login
         \/ stage[c] = "new" /\ stage'[c] \in {"found", "ended"} /\ presents'[c] = presents[c]
         \/ stage[c] = "claimed" /\ stage'[c] = "ended" /\ presents'[c] = presents[c] /\ c \in broken
    BY <1>2 DEF Connect, LookupInstanceSession, HandshakeFails, Go
<1>4. /\ \A k : Queued(k)' <=> Queued(k)
      /\ \A k : Waits(k)' <=> Waits(k)
      /\ Held' = Held
    BY <1>1 DEF Queued, Waits, Held, streamVars
<1>5. \A d \in Conns : Opens(d)' => Opens(d)
    BY <1>1, <1>3 DEF Opens, streamVars
<1>6. \A d \in Conns : Opens(d) => Opens(d)' \/ login \in disturbed
    BY <1>0, <1>1, <1>3 DEF Opens, streamVars, Attached
<1>7. Phases' /\ InTurn' /\ Completed'
    BY <1>0, <1>1 DEF Phases, InTurn, Completed, QuestsReachPlayer, streamVars
<1>8. Requests' /\ Holding'
    BY <1>0, <1>1, <1>4 DEF Requests, Holding, OnlyQueries, streamVars
<1>9. StillShows'
    BY <1>0, <1>1, <1>6 DEF StillShows, MayShow, streamVars
<1>10. OnTheWay'
    BY <1>0, <1>1, <1>4, <1>5 DEF OnTheWay, MayShow, streamVars
<1>11. LiveStaysAttached'
    BY <1>0, <1>1, <1>3 DEF LiveStaysAttached, streamVars
<1>12. Attached'
  <2>1. handler \notin {"register", "connect"} \/ address # login
      BY <1>0, <1>2 DEF Phases
  <2>2. instanceWorld # NoConn => instanceWorld \in Conns
      BY <1>0 DEF TypeInv, ConnTypes
  <2>3. instanceWorld # NoConn => instanceWorld # c
      BY <1>0, <1>3 DEF Attached
  <2> USE <1>0, <1>1 DEF streamVars
  <2>4. /\ \A d \in Conns : stage'[d] = "claimed" \/ presents'[d] \in keys
              => presents'[d] = login /\ login # NoLogin
        /\ \A d \in broken :
              stage'[d] # "none" /\ (presents'[d] \in disturbed \/ stage'[d] \in {"active", "ended"})
    <3>1. broken \subseteq Conns
        BY DEF TypeInv, ConnTypes
    <3>2. NoLogin \notin keys
        BY DEF TypeInv, HandlerTypes, Logins, NoLogin
    <3> QED BY <1>3, <3>1, <3>2 DEF Attached
  <2>5. client \notin {"entering", "gone"} =>
           /\ \A d \in Conns : stage'[d] # "claimed" /\ presents'[d] \notin keys
           /\ syncPending \/ (login \notin keys /\ instanceKey = login)
      BY <1>3 DEF Attached
  <2>6. instanceWorld # NoConn => stage'[instanceWorld] = "active" /\ presents'[instanceWorld] = login
      BY <1>3, <2>2, <2>3 DEF Attached
  <2>7. handler \in {"register", "connect"} => instanceWorld = NoConn /\ \A d \in Conns : presents'[d] # login
      BY <1>3, <2>1 DEF Attached
  <2> QED BY <2>4, <2>5, <2>6, <2>7 DEF Attached
<1> QED BY <1>1, <1>7, <1>8, <1>9, <1>10, <1>11, <1>12 DEF Parts, streamVars

\* A connection takes the key away, or finds that another did.
LEMMA ClaimStream ==
    ASSUME StreamInv, NEW c \in Conns, ClaimInstanceSession(c)
    PROVE  Parts' /\ UNCHANGED <<sent, shown>>
<1>0. /\ TypeInv /\ KeyInv /\ Phases /\ Requests /\ Holding /\ Attached /\ InTurn
      /\ OnTheWay /\ StillShows /\ Completed /\ LiveStaysAttached
    BY DEF StreamInv, Parts
<1>1. UNCHANGED <<streamVars, presents, broken>>
    BY DEF ClaimInstanceSession, streamVars, clientVars, relayVars, realmVars, histVars
<1>2. /\ stage \in [Conns -> Stages] /\ presents \in [Conns -> Nat] /\ keys \subseteq {instanceKey}
    BY <1>0 DEF KeyInv, KeyTypes, OneConnectionPerKey
<1>3. /\ \A d \in Conns : d # c => stage'[d] = stage[d]
      /\ stage[c] = "found" /\ keys' = keys \ {presents[c]}
      /\ stage'[c] = IF presents[c] \in keys THEN "claimed" ELSE "ended"
    BY <1>2 DEF ClaimInstanceSession, Claim, Go
<1>4. /\ \A k : Queued(k)' <=> Queued(k)
      /\ \A k : Waits(k)' <=> Waits(k)
      /\ Held' = Held
    BY <1>1 DEF Queued, Waits, Held, streamVars
<1>5. MayShow' <=> MayShow
  <2>1. CASE presents[c] \in keys
    <3>1. presents[c] = login
        BY <1>0, <2>1 DEF Attached
    <3>2. MayShow
        BY <2>1, <3>1 DEF MayShow
    <3>3. Opens(c)'
        BY <1>1, <1>3, <2>1, <3>1 DEF Opens, streamVars
    <3> QED BY <3>2, <3>3 DEF MayShow
  <2>2. CASE presents[c] \notin keys
    <3>1. keys' = keys /\ \A d \in Conns : Opens(d)' <=> Opens(d)
        BY <1>1, <1>3, <2>2 DEF Opens, streamVars
    <3> QED BY <1>1, <3>1 DEF MayShow, streamVars
  <2> QED BY <2>1, <2>2
<1>6. Phases' /\ InTurn' /\ Completed' /\ LiveStaysAttached'
    BY <1>0, <1>1, <1>3 DEF Phases, InTurn, Completed, QuestsReachPlayer, LiveStaysAttached, streamVars
<1>7. Requests' /\ Holding'
    BY <1>0, <1>1, <1>4 DEF Requests, Holding, OnlyQueries, streamVars
<1>8. StillShows' /\ OnTheWay'
    BY <1>0, <1>1, <1>4, <1>5 DEF StillShows, OnTheWay, streamVars
<1>9. Attached'
  <2>1. instanceWorld # NoConn => instanceWorld \in Conns /\ instanceWorld # c
      BY <1>0, <1>3 DEF TypeInv, ConnTypes, Attached
  <2>2. broken \subseteq Conns /\ keys' \subseteq keys
      BY <1>0, <1>3 DEF TypeInv, ConnTypes
  <2> QED BY <1>0, <1>1, <1>3, <2>1, <2>2 DEF Attached, streamVars
<1> QED BY <1>1, <1>6, <1>7, <1>8, <1>9 DEF Parts, streamVars

\* The goroutine of a connection that broke ends.
LEMMA ClearStream ==
    ASSUME StreamInv, NEW c \in Conns, ClearInstance(c)
    PROVE  Parts' /\ UNCHANGED <<sent, shown>>
<1>0. /\ TypeInv /\ KeyInv /\ Phases /\ Requests /\ Holding /\ Attached /\ InTurn
      /\ OnTheWay /\ StillShows /\ Completed /\ LiveStaysAttached
    BY DEF StreamInv, Parts
<1>1. /\ UNCHANGED <<client, address, login, handler, keys, instanceKey, pendingInstance,
                     syncPending, quests, created, relay, deferred, replay, toRealm, inWorld, strays,
                     sent, shown, questsShown, released, disturbed, presents, broken>>
      /\ c \in broken /\ stage[c] = "active"
      /\ instanceWorld' = IF instanceWorld = c THEN NoConn ELSE instanceWorld
    BY DEF ClearInstance, Detach, Go, clientVars, relayVars, realmVars, histVars
<1>2. stage \in [Conns -> Stages] /\ presents \in [Conns -> Nat]
    BY <1>0 DEF KeyInv, KeyTypes
<1>3. stage'[c] = "ended" /\ \A d \in Conns : d # c => stage'[d] = stage[d]
    BY <1>2 DEF ClearInstance, Go
<1>4. /\ \A k : Queued(k)' <=> Queued(k)
      /\ \A k : Waits(k)' <=> Waits(k)
      /\ Held' = Held
    BY <1>1 DEF Queued, Waits, Held
<1>5. MayShow' <=> MayShow
  <2>1. \A d \in Conns : Opens(d)' <=> Opens(d)
      BY <1>1, <1>3 DEF Opens
  <2> QED BY <1>1, <2>1 DEF MayShow
<1>6. Phases' /\ InTurn' /\ Completed'
    BY <1>0, <1>1 DEF Phases, InTurn, Completed, QuestsReachPlayer
<1>7. Requests' /\ Holding'
    BY <1>0, <1>1, <1>4 DEF Requests, Holding, OnlyQueries
<1>8. StillShows' /\ OnTheWay'
    BY <1>0, <1>1, <1>4, <1>5 DEF StillShows, OnTheWay
<1>9. Attached' /\ LiveStaysAttached'
  <2>1. broken \subseteq Conns /\ (instanceWorld # NoConn => instanceWorld \in Conns)
      BY <1>0 DEF TypeInv, ConnTypes
  <2>2. LiveStaysAttached'
      BY <1>0, <1>1, <1>3 DEF LiveStaysAttached
  <2>3. Attached'
      BY <1>0, <1>1, <1>3, <2>1 DEF Attached
  <2> QED BY <2>2, <2>3
<1> QED BY <1>1, <1>6, <1>7, <1>8, <1>9 DEF Parts

\* The network ends a connection.
LEMMA BreakStream ==
    ASSUME StreamInv, NEW c \in Conns, Break(c)
    PROVE  Parts' /\ UNCHANGED <<sent, shown>>
<1>0. /\ TypeInv /\ KeyInv /\ Phases /\ Requests /\ Holding /\ Attached /\ InTurn
      /\ OnTheWay /\ StillShows /\ Completed /\ LiveStaysAttached
    BY DEF StreamInv, Parts
<1>1. /\ UNCHANGED <<address, login, handler, keys, instanceKey, instanceWorld, pendingInstance,
                     syncPending, quests, created, relay, deferred, replay, toRealm, inWorld, strays,
                     sent, shown, questsShown, released, stage, presents>>
      /\ stage[c] # "none" /\ broken' = broken \cup {c} /\ disturbed' = disturbed \cup {presents[c]}
      /\ client' = IF presents[c] = login THEN "gone" ELSE client
    BY DEF Break, Breaks, sessionVars, relayVars, realmVars
<1>2. broken \subseteq Conns
    BY <1>0 DEF TypeInv, ConnTypes
<1>4. /\ \A k : Queued(k)' <=> Queued(k)
      /\ \A k : Waits(k)' <=> Waits(k)
      /\ Held' = Held
    BY <1>1 DEF Queued, Waits, Held
<1>5. (MayShow' => MayShow) /\ (MayShow => MayShow' \/ login \in disturbed')
  <2>1. \A d \in Conns : (Opens(d)' => Opens(d)) /\ (Opens(d) => Opens(d)' \/ presents[c] = login)
      BY <1>1 DEF Opens
  <2> QED BY <1>1, <2>1 DEF MayShow
<1>6. Phases'
  <2>1. handler \in {"register", "connect"} => presents[c] # login
      BY <1>0 DEF Attached
  <2> QED BY <1>0, <1>1, <2>1 DEF Phases
<1>7. InTurn' /\ Completed' /\ LiveStaysAttached'
    BY <1>0, <1>1 DEF InTurn, Completed, QuestsReachPlayer, LiveStaysAttached
<1>9. Requests' /\ Holding'
  <2>1. client' = client \/ client' = "gone"
      BY <1>1
  <2> QED BY <1>0, <1>1, <1>4, <2>1 DEF Requests, Holding, OnlyQueries
<1>10. StillShows'
    BY <1>0, <1>1, <1>5 DEF StillShows
<1>11. OnTheWay'
    BY <1>0, <1>1, <1>4, <1>5 DEF OnTheWay
<1>12. Attached'
    BY <1>0, <1>1, <1>2 DEF Attached
<1> QED BY <1>1, <1>6, <1>7, <1>9, <1>10, <1>11, <1>12 DEF Parts

\* Of the packets sent to a login some more are shown.
LEMMA MoreShown ==
    ASSUME StreamInv, NEW n \in Logins, NEW packets,
           Follows(packets, n, Len(shown[n]) + 1), Len(shown[n]) + Len(packets) <= Len(sent[n]),
           shown' = [shown EXCEPT ![n] = shown[n] \o packets], UNCHANGED sent
    PROVE  /\ InTurn' /\ StreamStep
           /\ Len(shown'[n]) = Len(shown[n]) + Len(packets)
           /\ \A m \in Logins : m # n => shown'[m] = shown[m]
<1>1. /\ InTurn /\ shown \in [Logins -> Seq(Logins \X Nat)] /\ sent \in [Logins -> Seq(Logins \X Nat)]
    BY DEF StreamInv, Parts, TypeInv, RelayTypes, RealmTypes
<1>2. /\ Len(shown[n]) \in Nat /\ Len(sent[n]) \in Nat /\ Len(packets) \in Nat
      /\ shown[n] \in Seq(Numbered) /\ packets \in Seq(Numbered)
    BY <1>1 DEF Follows, Numbered
<1>3. Follows(shown[n], n, 1) /\ Follows(sent[n], n, 1) /\ n \in Logins
    BY <1>1 DEF InTurn
<1>4. /\ Follows(shown[n] \o packets, n, 1)
      /\ Len(shown[n] \o packets) = Len(shown[n]) + Len(packets)
  <2>1. 1 + Len(shown[n]) = Len(shown[n]) + 1
      BY <1>2
  <2> QED BY <1>3, <2>1, FollowsJoined
<1>5. shown'[n] = shown[n] \o packets /\ \A m \in Logins : m # n => shown'[m] = shown[m]
    BY <1>1
<1>6. InTurn'
    BY <1>1, <1>4, <1>5 DEF InTurn
<1>7. StreamStep
  <2>1. CASE Len(packets) = 0
    <3>1. shown[n] \o packets = shown[n]
        BY <1>2, <2>1
    <3>2. shown' = shown
        BY <1>1, <3>1
    <3> QED BY <3>2 DEF StreamStep, Stream!streamVars
  <2>2. CASE Len(packets) # 0
    <3> DEFINE k == Len(shown[n]) + Len(packets)
    <3>1. k \in Len(shown[n]) + 1..Len(sent[n]) /\ k \in 0..Len(sent[n])
        BY <1>2, <2>2
    <3>2. Follows(SubSeq(sent[n], 1, k), n, 1) /\ Len(SubSeq(sent[n], 1, k)) = k
        BY <1>3, <3>1, FollowsStart
    <3>3. shown[n] \o packets = SubSeq(sent[n], 1, k)
        BY <1>4, <3>2, FollowsSame
    <3>4. shown' = [shown EXCEPT ![n] = SubSeq(sent[n], 1, k)]
        BY <3>3
    <3> HIDE DEF k
    <3>5. Stream!Show(n)
        BY <3>1, <3>4 DEF Stream!Show
    <3> QED BY <3>5 DEF StreamStep, Stream!StreamNext
  <2> QED BY <2>1, <2>2
<1> QED BY <1>4, <1>5, <1>6, <1>7

\* A connection that was admitted is the only one that can be shown anything.
LEMMA OnlyOneOpens ==
    ASSUME StreamInv, NEW c \in Conns, Admitted(c), presents[c] = login
    PROVE  /\ instanceKey = login /\ login \notin keys
           /\ \A d \in Conns : d # c => ~(Admitted(d) /\ presents[d] = login)
           /\ \A d \in Conns : presents[d] \notin keys
<1>1. KeyInv /\ Attached
    BY DEF StreamInv, Parts
<1>2. /\ instanceKey <= login /\ login <= instanceKey /\ login \in Nat /\ instanceKey \in Nat
    BY <1>1 DEF KeyInv, KeyTypes, KeysInOrder
<1>3. login \notin keys
    BY <1>1 DEF KeyInv, KeysUsed
<1>4. \A d \in Conns : d # c => ~(Admitted(d) /\ presents[d] = login)
    BY <1>1 DEF KeyInv, OneConnectionPerKey, Admitted
<1>5. \A d \in Conns : presents[d] \notin keys
    BY <1>1, <1>3 DEF Attached
<1> QED BY <1>2, <1>3, <1>4, <1>5

\* A connection is attached and is shown what waited, or breaks over it.
LEMMA ActivateStream ==
    ASSUME StreamInv, NEW c \in Conns, ActivateInstance(c)
    PROVE  Parts' /\ StreamStep
<1>0. /\ TypeInv /\ KeyInv /\ Phases /\ Requests /\ Holding /\ Attached /\ InTurn
      /\ OnTheWay /\ StillShows /\ Completed /\ LiveStaysAttached
    BY DEF StreamInv, Parts
<1>1. /\ UNCHANGED <<address, login, handler, keys, instanceKey, syncPending, quests, created, presents,
                     relay, deferred, replay, toRealm, inWorld, strays, sent, questsShown, released>>
      /\ instanceWorld' = c /\ stage[c] = "claimed"
    BY DEF ActivateInstance, Go, relayVars, realmVars
<1>2. stage \in [Conns -> Stages] /\ presents \in [Conns -> Nat] /\ broken \subseteq Conns
    BY <1>0 DEF KeyInv, KeyTypes, TypeInv, ConnTypes
<1>3. stage'[c] = "active" /\ \A d \in Conns : d # c => stage'[d] = stage[d]
    BY <1>2 DEF ActivateInstance, Go
<1>4. presents[c] = login /\ login # NoLogin /\ login \in Logins /\ Admitted(c) /\ c \in Conns
    BY <1>0, <1>1, EntryBounds DEF Attached, Admitted, TypeInv, HandlerTypes, Logins, NoLogin
<1>5. /\ instanceKey = login /\ login \notin keys
      /\ \A d \in Conns : d # c => ~(Admitted(d) /\ presents[d] = login)
      /\ \A d \in Conns : presents[d] \notin keys
    BY <1>4, OnlyOneOpens
<1>6. PICK k \in 0..Len(pendingInstance) :
         /\ IF k = Len(pendingInstance)
            THEN (c \in broken => k = 0) /\ UNCHANGED <<broken, disturbed>>
            ELSE (c \in broken => k = 0) /\ Breaks(c)
         /\ Shows(c, SubSeq(pendingInstance, 1, k))
         /\ Flush(k)
    BY DEF ActivateInstance
<1> DEFINE packets == SubSeq(pendingInstance, 1, k)
<1>7. /\ c \in broken' => UNCHANGED pendingInstance \/ pendingInstance' = <<>>
      /\ c \notin broken' => k = Len(pendingInstance) /\ pendingInstance' = <<>>
      /\ broken' \in {broken, broken \cup {c}}
      /\ disturbed' \in {disturbed, disturbed \cup {login}}
      /\ c \in broken' => login \in disturbed'
      /\ pendingInstance' \in {pendingInstance, <<>>}
  <2>1. CASE k = Len(pendingInstance)
    <3>1. UNCHANGED <<broken, disturbed>> /\ pendingInstance' = <<>>
        BY <1>6, <2>1 DEF Flush
    <3>2. c \in broken => login \in disturbed
        BY <1>0, <1>1, <1>4 DEF Attached
    <3> QED BY <2>1, <3>1, <3>2
  <2>2. CASE k # Len(pendingInstance)
      BY <1>4, <1>6, <2>2 DEF Flush, Breaks
  <2> QED BY <2>1, <2>2
<1>8. Opens(c) \/ c \in broken
    BY <1>1, <1>4 DEF Opens
<1>9. /\ Follows(pendingInstance, login, Len(shown[login]) + 1)
      /\ Carries(Held, login, Len(shown[login]) + Len(pendingInstance) + 1, Len(sent[login]) + 1)
  <2>1. MayShow
      BY <1>1, <1>4 DEF MayShow, Opens
  <2> QED BY <1>0, <1>4, <2>1 DEF OnTheWay
<1>10. /\ Len(shown[login]) \in Nat /\ Len(sent[login]) \in Nat /\ Len(pendingInstance) \in Nat
       /\ pendingInstance \in Seq(Logins \X Nat) /\ shown \in [Logins -> Seq(Logins \X Nat)]
    BY <1>0, <1>4 DEF TypeInv, RelayTypes, RealmTypes
<1>11. Len(shown[login]) + Len(pendingInstance) <= Len(sent[login])
  <2>1. Held \in Seq(OwnedPackets)
      BY <1>0 DEF Held, TypeInv, RelayTypes, Owned
  <2> QED BY <1>9, <1>10, <2>1, CarriesUp
<1>12. Follows(packets, login, Len(shown[login]) + 1) /\ Len(packets) = k
    BY <1>9, <1>10, FollowsStart
<1>13. shown' = [shown EXCEPT ![login] = shown[login] \o packets]
    BY <1>4, <1>6 DEF Shows
<1>14. /\ InTurn' /\ StreamStep /\ Len(shown'[login]) = Len(shown[login]) + k
       /\ \A m \in Logins : m # login => shown'[m] = shown[m]
  <2> HIDE DEF packets
  <2>1. Len(shown[login]) + Len(packets) <= Len(sent[login]) /\ UNCHANGED sent
      BY <1>1, <1>10, <1>11, <1>12
  <2> QED BY <1>4, <1>12, <1>13, <2>1, MoreShown
<1>15. \/ UNCHANGED client
       \/ /\ client = "entering" /\ client' = "world" /\ inWorld = login /\ handler = "idle"
          /\ ~syncPending
  <2>1. CASE k = 0
    <3>1. Len(packets) = 0
        BY <1>12, <2>1
    <3> HIDE DEF packets
    <3>2. \A i \in 1..Len(packets) : FALSE
        BY <3>1
    <3> QED BY <1>6, <3>2 DEF Shows, packets
  <2>2. CASE k # 0
    <3>1. pendingInstance # <<>> /\ sent[login] # <<>>
        BY <1>10, <1>11, <2>2
    <3>2. ~syncPending
        BY <1>0, <3>1 DEF Holding
    <3>3. client = "entering" => inWorld = login
        BY <1>0, <3>1 DEF Phases
    <3>4. inWorld = login => handler = "idle"
        BY <1>0, <1>4 DEF Phases
    <3>5. UNCHANGED client \/ (client = "entering" /\ client' = "world")
        BY <1>6 DEF Shows
    <3> QED BY <3>2, <3>3, <3>4, <3>5
  <2> QED BY <2>1, <2>2
<1> HIDE DEF packets
<1>16. /\ \A q : Queued(q)' <=> Queued(q)
       /\ \A q : Waits(q)' <=> Waits(q)
       /\ Held' = Held
    BY <1>1 DEF Queued, Waits, Held
<1>17. MayShow' <=> c \notin broken'
  <2>1. \A d \in Conns : d # c => ~Opens(d)'
      BY <1>1, <1>3, <1>5 DEF Opens, Admitted
  <2>2. Opens(c)' <=> c \notin broken'
      BY <1>1, <1>3, <1>4 DEF Opens
  <2>3. ~(instanceKey' < login') /\ login' \notin keys'
      BY <1>0, <1>1, <1>5 DEF KeyInv, KeyTypes
  <2> QED BY <2>1, <2>2, <2>3 DEF MayShow
<1>18. Phases'
  <2>1. \A m \in Logins : m > login => shown'[m] = shown[m]
      BY <1>4, <1>14, EntryBounds DEF Logins
  <2>2. login \in disturbed => login \in disturbed'
      BY <1>7
  <2> QED BY <1>0, <1>1, <1>4, <1>15, <2>1, <2>2 DEF Phases
<1>19. Requests'
    BY <1>0, <1>1, <1>4, <1>15, <1>16 DEF Requests, OnlyQueries
<1>20. Holding'
    BY <1>0, <1>1, <1>4, <1>7, <1>15, <1>16 DEF Holding, OnlyQueries
<1>21. StillShows'
    BY <1>1, <1>7, <1>17 DEF StillShows
<1>22. OnTheWay'
  <2>1. SUFFICES ASSUME c \notin broken'
        PROVE  /\ Follows(pendingInstance', login, Len(shown'[login]) + 1)
               /\ Carries(Held, login, Len(shown'[login]) + Len(pendingInstance') + 1, Len(sent[login]) + 1)
      BY <1>1, <1>16, <1>17 DEF OnTheWay
  <2>2. pendingInstance' = <<>> /\ Len(pendingInstance') = 0
        /\ Len(shown'[login]) = Len(shown[login]) + Len(pendingInstance)
      BY <1>7, <1>14, <2>1
  <2>3. Len(shown'[login]) + Len(pendingInstance') + 1 = Len(shown[login]) + Len(pendingInstance) + 1
      BY <1>10, <2>2
  <2> QED BY <1>9, <2>2, <2>3, FollowsNone
<1>23. Completed'
    BY <1>0, <1>1 DEF Completed, QuestsReachPlayer
<1>24. LiveStaysAttached'
    BY <1>1, <1>3, <1>5 DEF LiveStaysAttached, Admitted
<1>25. Attached'
  <2>1. \A d \in Conns : stage'[d] # "claimed"
      BY <1>0, <1>3, <1>5 DEF Attached, Admitted
  <2>2. handler \notin {"register", "connect"} /\ client \in {"entering", "gone"}
      BY <1>0, <1>1, <1>4 DEF Attached
  <2>3. \A d \in broken' : stage'[d] # "none" /\ (presents[d] \in disturbed' \/ stage'[d] \in {"active", "ended"})
      BY <1>0, <1>2, <1>3, <1>7 DEF Attached
  <2> QED BY <1>1, <1>3, <1>4, <1>5, <1>7, <1>15, <2>1, <2>2, <2>3 DEF Attached
<1> QED BY <1>14, <1>18, <1>19, <1>20, <1>21, <1>22, <1>23, <1>24, <1>25 DEF Parts

-----------------------------------------------------------------------------
(* The relay's own steps.                                                   *)

\* The query for the completed quests is sent.
LEMMA WriteQueryStream ==
    ASSUME StreamInv, WriteQuery
    PROVE  Parts' /\ UNCHANGED <<sent, shown>>
<1>0. /\ TypeInv /\ KeyInv /\ Phases /\ Requests /\ Holding /\ Attached /\ InTurn
      /\ OnTheWay /\ StillShows /\ Completed /\ LiveStaysAttached
    BY DEF StreamInv, Parts
<1>1. /\ relay = "query" /\ relay' = "reading" /\ Request("query")
      /\ UNCHANGED <<client, address, login, handler, keys, instanceKey, instanceWorld, pendingInstance,
                     syncPending, quests, created, stage, presents, broken, deferred, replay, inWorld,
                     strays, sent, shown, questsShown, released, disturbed>>
    BY DEF WriteQuery, clientVars, sessionVars, connVars, histVars
<1>2. \A k : Queued(k)' <=> Queued(k) \/ k = "query"
    BY <1>0, <1>1, RequestAdded
<1>3. /\ \A k : Waits(k)' <=> Waits(k)
      /\ Held' = Held /\ (MayShow' <=> MayShow)
    BY <1>1 DEF Waits, Held, MayShow, Opens
<1>4. Requests'
  <2>1. (\A i, j \in 1..Len(toRealm) : toRealm[i] # "query" /\ toRealm[j] # "query" => i = j)'
      BY <1>0, <1>1, RequestAdded DEF Requests
  <2> QED BY <1>0, <1>1, <1>2, <2>1 DEF Requests
<1>5. OnlyQueries => OnlyQueries'
    BY <1>2 DEF OnlyQueries
<1>6. Phases' /\ Holding' /\ Attached'
    BY <1>0, <1>1, <1>3, <1>5 DEF Phases, Holding, Attached
<1>7. StillShows' /\ OnTheWay' /\ InTurn' /\ Completed' /\ LiveStaysAttached'
    BY <1>0, <1>1, <1>3 DEF StillShows, OnTheWay, InTurn, Completed, QuestsReachPlayer, LiveStaysAttached
<1> QED BY <1>1, <1>4, <1>6, <1>7 DEF Parts

\* The session forgets the character that has left.
LEMMA LogoutStream ==
    ASSUME StreamInv, LogoutComplete
    PROVE  Parts' /\ UNCHANGED <<sent, shown>>
<1>0. /\ TypeInv /\ KeyInv /\ Phases /\ Requests /\ Holding /\ Attached /\ InTurn
      /\ OnTheWay /\ StillShows /\ Completed /\ LiveStaysAttached
    BY DEF StreamInv, Parts
<1>1. /\ relay = "logout" /\ relay' = "reading" /\ instanceWorld' = NoConn
      /\ broken' = broken \cup ({instanceWorld} \ {NoConn})
      /\ syncPending' = FALSE /\ quests' = FALSE /\ created' = FALSE
      /\ UNCHANGED <<client, address, login, handler, keys, instanceKey, pendingInstance, stage, presents,
                     deferred, replay, toRealm, inWorld, strays, sent, shown, questsShown, released,
                     disturbed>>
    BY DEF LogoutComplete, clientVars, realmVars, histVars
<1>2. ~syncPending /\ client \in {"returning", "waiting", "gone"} /\ inWorld = NoLogin
    BY <1>0, <1>1 DEF Phases
<1>3. /\ \A k : Waits(k)' <=> Waits(k)
      /\ \A k : Queued(k)' <=> Queued(k)
      /\ Held' = Held
    BY <1>1, <1>2 DEF Waits, Held, Queued
<1>4. MayShow' => MayShow
    BY <1>1 DEF MayShow, Opens
<1>5. Phases' /\ Requests' /\ Holding'
    BY <1>0, <1>1, <1>2, <1>3 DEF Phases, Requests, Holding, OnlyQueries
<1>6. Attached'
    BY <1>0, <1>1, <1>2 DEF Attached
<1>7. StillShows'
    BY <1>0, <1>1, <1>2 DEF StillShows, Phases
<1>8. OnTheWay'
    BY <1>0, <1>1, <1>3, <1>4 DEF OnTheWay
<1>9. InTurn' /\ Completed'
    BY <1>0, <1>1, <1>2 DEF InTurn, Completed, QuestsReachPlayer
<1>10. LiveStaysAttached'
    BY <1>0, <1>1, NoConnIsNone DEF LiveStaysAttached
<1> QED BY <1>1, <1>5, <1>6, <1>7, <1>8, <1>9, <1>10 DEF Parts

-----------------------------------------------------------------------------
(* Packets the relay handles.                                               *)

\* What no packet changes.
boundVars == <<address, login, handler, keys, instanceKey, instanceWorld, stage, presents, broken>>

\* A packet is put by while the completed quests are awaited.
LEMMA PutBy ==
    ASSUME NEW p, Handles(p, <<>>), syncPending, p.kind # "quests", Len(deferred) + 1 < DeferLimit,
           Len(deferred) \in Nat
    PROVE  /\ deferred' = Append(deferred, p) /\ replay' = <<>>
           /\ relay = "reading" /\ relay' \in {"reading", "query"}
           /\ UNCHANGED <<boundVars, syncPending, client, shown, pendingInstance, created, quests,
                          questsShown, released>>
<1>1. Defer(p, <<>>) /\ relay = "reading" /\ UNCHANGED boundVars
    BY DEF Handles, boundVars, connVars
<1>2. ~(Len(deferred) + 1 >= DeferLimit)
    BY EntryBounds
<1>3. relay' \in {"reading", "query"} /\ UNCHANGED <<created, client, shown, pendingInstance>>
    BY <1>1 DEF Defer
<1>4. /\ deferred' = Append(deferred, p) /\ replay' = <<>>
      /\ UNCHANGED <<syncPending, quests, questsShown, released>>
    BY <1>1, <1>2 DEF Defer
<1> QED BY <1>1, <1>3, <1>4

\* The limit releases what was put by, and the packet behind it.
LEMMA LimitReached ==
    ASSUME TypeInv, NEW p \in OwnedPackets, Handles(p, <<>>), syncPending, p.kind # "quests",
           Len(deferred) + 1 >= DeferLimit
    PROVE  /\ deferred' = <<>> /\ replay' = Append(deferred, p) /\ syncPending' = FALSE
           /\ relay = "reading" /\ relay' \in {"reading", "query"}
           /\ released' = released \cup {login}
           /\ UNCHANGED <<boundVars, client, shown, pendingInstance, created, quests, questsShown>>
<1>1. deferred \in Seq(OwnedPackets) /\ Len(deferred) \in Nat
    BY DEF TypeInv, RelayTypes, Owned
<1>2. <<>> \o Append(deferred, p) = Append(deferred, p)
    BY <1>1
<1>3. Defer(p, <<>>) /\ relay = "reading" /\ UNCHANGED boundVars
    BY DEF Handles, boundVars, connVars
<1>4. ~(Len(deferred) + 1 < DeferLimit)
    BY <1>1, EntryBounds
<1>5. relay' \in {"reading", "query"} /\ UNCHANGED <<created, client, shown, pendingInstance>>
    BY <1>3 DEF Defer
<1>6. /\ EndSync(<<>> \o Append(deferred, p)) /\ released' = released \cup {login}
      /\ UNCHANGED <<quests, questsShown>>
    BY <1>3, <1>4 DEF Defer
<1>7. deferred' = <<>> /\ replay' = Append(deferred, p) /\ syncPending' = FALSE
    BY <1>2, <1>6 DEF EndSync
<1> QED BY <1>3, <1>5, <1>6, <1>7

\* Nothing of the stream's but one queue and the realm's own counts changes
\* when a packet of nobody is put by.
LEMMA NobodysStream ==
    ASSUME StreamInv, NEW p \in OwnedPackets, p.kind \in {"stray", "refused"}, inWorld = NoLogin,
           deferred' = Append(deferred, p), replay' = <<>>, syncPending,
           relay = "reading", relay' \in {"reading", "query"},
           UNCHANGED <<boundVars, syncPending, client, shown, pendingInstance, created, quests,
                       questsShown, released, inWorld, sent>>,
           strays' \in Nat, disturbed \subseteq disturbed',
           Requests', OnlyQueries => OnlyQueries',
           p.kind = "refused" => /\ handler = "idle" /\ client \in {"entering", "gone"} /\ OnlyQueries'
                                 /\ strays' = strays /\ ~Waits("refused"),
           p.kind = "stray" => strays' = strays + 1
    PROVE  Parts'
<1>0. /\ TypeInv /\ KeyInv /\ Phases /\ Requests /\ Holding /\ Attached /\ InTurn
      /\ OnTheWay /\ StillShows /\ Completed /\ LiveStaysAttached
    BY DEF StreamInv, Parts
<1>1. deferred \in Seq(OwnedPackets) /\ Len(deferred) \in Nat /\ strays \in Nat
    BY <1>0, EntryBounds DEF TypeInv, RelayTypes, Owned, RealmTypes
<1>2. /\ Len(deferred') = Len(deferred) + 1 /\ deferred'[Len(deferred) + 1] = p
      /\ \A i \in 1..Len(deferred) : deferred'[i] = deferred[i]
    BY <1>1, AppendAt
<1>3. \A k : Waits(k)' <=> Waits(k) \/ k = p.kind
    BY <1>1, <1>2 DEF Waits
<1>4. MayShow' <=> MayShow
    BY DEF MayShow, Opens, boundVars
<1>5. Phases'
    BY <1>0 DEF Phases, boundVars
<1>6. Holding'
  <2>1. \A i \in 1..Len(deferred') : deferred'[i].kind \in {"world", "stray", "refused"}
      BY <1>0, <1>1, <1>2 DEF Holding
  <2>2. Len(deferred') <= strays' \/ (Len(deferred') <= strays' + 1 /\ Waits("refused")')
      BY <1>0, <1>1, <1>2, <1>3 DEF Holding
  <2>3. Waits("refused")' => handler = "idle" /\ client \in {"entering", "gone"} /\ OnlyQueries'
      BY <1>0, <1>3 DEF Holding
  <2> QED BY <1>0, <1>2, <1>3, <2>1, <2>2, <2>3 DEF Holding, boundVars
<1>7. Attached'
    BY <1>0 DEF Attached, boundVars
<1>8. StillShows' /\ InTurn' /\ Completed' /\ LiveStaysAttached'
    BY <1>0, <1>4 DEF StillShows, InTurn, Completed, QuestsReachPlayer, LiveStaysAttached, boundVars
<1>9. OnTheWay'
  <2>1. Held = deferred /\ Held' = Append(deferred, p)
      BY DEF Held
  <2>2. ASSUME NEW n, NEW from, NEW to, Carries(deferred, n, from, to)
        PROVE  Carries(Append(deferred, p), n, from, to)
    <3>1. to \in Nat /\ Fits(p, n, to, to) /\ to <= to
        BY <1>1, <2>2, CarriesUp DEF Fits
    <3> QED BY <1>1, <2>2, <3>1, CarriesAppend
  <2> QED BY <1>0, <1>4, <2>1, <2>2 DEF OnTheWay, boundVars
<1> QED BY <1>5, <1>6, <1>7, <1>8, <1>9 DEF Parts

\* The realm's packets of nobody, before a login is in the world.
LEMMA StraysStream ==
    ASSUME StreamInv, FewStrays, RealmStrays
    PROVE  Parts' /\ UNCHANGED <<sent, shown>>
<1>0. /\ TypeInv /\ KeyInv /\ Phases /\ Requests /\ Holding /\ Attached /\ InTurn
      /\ OnTheWay /\ StillShows /\ Completed /\ LiveStaysAttached
    BY DEF StreamInv, Parts
<1> DEFINE p == Packet("stray", inWorld, 0, 1)
<1>1. /\ inWorld = NoLogin /\ strays < MaxStrays /\ strays' = strays + 1 /\ replay = <<>>
      /\ Handles(p, <<>>) /\ disturbed' = disturbed \cup {login} /\ UNCHANGED <<toRealm, inWorld, sent>>
    BY DEF RealmStrays, Answers, Disturb
<1>2. p \in OwnedPackets /\ p.kind = "stray"
  <2>1. inWorld \in Logins \cup {NoLogin}
      BY <1>1
  <2>2. p \in OwnedPackets
      BY <2>1, PacketOwned DEF Kinds
  <2> QED BY <2>2 DEF Packet
<1> HIDE DEF p
<1>3. strays \in Nat /\ MaxStrays \in Nat /\ DeferLimit \in Nat /\ Len(deferred) \in Nat
    BY <1>0, EntryBounds DEF TypeInv, RelayTypes, Owned, RealmTypes
<1>4. \A k : Queued(k)' <=> Queued(k)
    BY <1>1 DEF Queued
<1>5. CASE syncPending
  <2>1. Len(deferred) + 1 < DeferLimit
      BY <1>0, <1>1, <1>3 DEF Holding, FewStrays
  <2>2. /\ deferred' = Append(deferred, p) /\ replay' = <<>>
        /\ relay = "reading" /\ relay' \in {"reading", "query"}
        /\ UNCHANGED <<boundVars, syncPending, client, shown, pendingInstance, created, quests,
                       questsShown, released>>
      BY <1>1, <1>2, <1>3, <1>5, <2>1, PutBy
  <2>3. Requests' /\ (OnlyQueries => OnlyQueries')
      BY <1>0, <1>1, <1>4, <2>2 DEF Requests, OnlyQueries, boundVars
  <2>4. Parts'
      BY <1>1, <1>2, <1>3, <1>5, <2>2, <2>3, NobodysStream
  <2> QED BY <1>1, <2>2, <2>4
<1>6. CASE ~syncPending
  <2>1. /\ replay' = <<>>
        /\ UNCHANGED <<boundVars, syncPending, deferred, client, shown, pendingInstance, created, quests,
                       questsShown, released, relay>>
      BY <1>1, <1>2, <1>6 DEF Handles, Translate, boundVars, connVars, p, Packet
  <2>2. /\ \A k : Waits(k)' <=> Waits(k)
        /\ Held' = Held /\ (MayShow' <=> MayShow)
      BY <1>1, <2>1 DEF Waits, Held, MayShow, Opens, boundVars
  <2>3. Phases' /\ Requests' /\ Holding' /\ Attached'
      BY <1>0, <1>1, <1>3, <1>4, <1>6, <2>1, <2>2 DEF Phases, Requests, Holding, Attached, OnlyQueries, boundVars
  <2>4. StillShows' /\ OnTheWay' /\ InTurn' /\ Completed' /\ LiveStaysAttached'
      BY <1>0, <1>1, <2>1, <2>2 DEF StillShows, OnTheWay, InTurn, Completed, QuestsReachPlayer,
                                    LiveStaysAttached, boundVars
  <2> QED BY <1>1, <2>1, <2>3, <2>4 DEF Parts
<1> QED BY <1>5, <1>6

\* Two elements before a sequence are one, and one before it.
LEMMA TwoBefore ==
    ASSUME NEW S, NEW r \in Seq(S), NEW a \in S, NEW b \in S
    PROVE  <<a, b>> \o r = <<a>> \o (<<b>> \o r)
<1> DEFINE t == <<a, b>> \o r  q == <<b>> \o r  u == <<a>> \o q
<1>1. /\ t \in Seq(S) /\ Len(t) = Len(r) + 2 /\ t[1] = a /\ t[2] = b
      /\ \A i \in 3..Len(r) + 2 : t[i] = r[i - 2]
    OBVIOUS
<1>2. /\ q \in Seq(S) /\ Len(q) = Len(r) + 1 /\ q[1] = b
      /\ \A i \in 2..Len(r) + 1 : q[i] = r[i - 1]
    OBVIOUS
<1> HIDE DEF t, q
<1>3. /\ u \in Seq(S) /\ Len(u) = Len(q) + 1 /\ u[1] = a
      /\ \A i \in 2..Len(q) + 1 : u[i] = q[i - 1]
    BY <1>2
<1> HIDE DEF u
<1>4. Len(r) \in Nat
    OBVIOUS
<1>5. ASSUME NEW i \in 1..Len(t) PROVE t[i] = u[i]
  <2>1. CASE i = 1
      BY <1>1, <1>3, <2>1
  <2>2. CASE i = 2
    <3>1. u[2] = q[2 - 1] /\ 2 - 1 = 1
        BY <1>2, <1>3, <1>4
    <3> QED BY <1>1, <1>2, <2>2, <3>1
  <2>3. CASE i \in 3..Len(r) + 2
    <3>1. i \in 2..Len(q) + 1 /\ i - 1 \in 2..Len(r) + 1 /\ (i - 1) - 1 = i - 2
        BY <1>2, <1>4, <2>3
    <3> QED BY <1>1, <1>2, <1>3, <2>3, <3>1
  <2>4. i = 1 \/ i = 2 \/ i \in 3..Len(r) + 2
      BY <1>1, <1>4
  <2> QED BY <2>1, <2>2, <2>3, <2>4
<1>6. t = u
    BY <1>1, <1>2, <1>3, <1>4, <1>5, SameSequence
<1> QED BY <1>6 DEF t, q, u

\* A packet of two movements becomes two packets.
LEMMA ExpandPieces ==
    ASSUME NEW p \in OwnedPackets, p.kind = "world", NEW rest \in Seq(OwnedPackets)
    PROVE  \E a \in OwnedPackets, b \in OwnedPackets :
              /\ a.kind = "world" /\ a.login = p.login /\ a.no = p.no /\ a.parts = 1
              /\ b.kind = "world" /\ b.login = p.login /\ b.no = p.no + 1 /\ b.parts = 1
              /\ Expand(p, rest) = <<a>> \o (<<b>> \o rest)
<1> DEFINE a == [p EXCEPT !.parts = 1]
           b == [p EXCEPT !.parts = 1, !.no = @ + 1]
<1>1. a \in OwnedPackets /\ b \in OwnedPackets
    BY PiecesOwned
<1>2. p \in RealmPackets /\ p.no \in Nat
    BY DEF OwnedPackets, RealmPackets
<1>3. /\ a.kind = "world" /\ a.login = p.login /\ a.no = p.no /\ a.parts = 1
      /\ b.kind = "world" /\ b.login = p.login /\ b.no = p.no + 1 /\ b.parts = 1
    BY <1>2 DEF RealmPackets
<1>4. Expand(p, rest) = <<a, b>> \o rest
    BY DEF Expand
<1> HIDE DEF a, b
<1>5. <<a, b>> \o rest = <<a>> \o (<<b>> \o rest)
    BY <1>1, TwoBefore
<1> QED BY <1>1, <1>3, <1>4, <1>5

\* They carry what it carried.
LEMMA ExpandCarries ==
    ASSUME NEW p \in OwnedPackets, p.kind = "world", p.parts = 2, NEW rest \in Seq(OwnedPackets),
           NEW n, NEW from \in Nat, NEW after, NEW to, Fits(p, n, from, after), Carries(rest, n, after, to)
    PROVE  Carries(Expand(p, rest), n, from, to)
<1>1. PICK a \in OwnedPackets, b \in OwnedPackets :
          /\ a.kind = "world" /\ a.login = p.login /\ a.no = p.no /\ a.parts = 1
          /\ b.kind = "world" /\ b.login = p.login /\ b.no = p.no + 1 /\ b.parts = 1
          /\ Expand(p, rest) = <<a>> \o (<<b>> \o rest)
    BY ExpandPieces
<1>2. p.login = n /\ p.no = from /\ after = from + 2
    BY DEF Fits
<1>3. Fits(a, n, from, from + 1) /\ Fits(b, n, from + 1, after)
    BY <1>1, <1>2 DEF Fits
<1>4. Carries(<<b>> \o rest, n, from + 1, to) /\ <<b>> \o rest \in Seq(OwnedPackets)
  <2>1. from + 1 \in Nat /\ from + 1 <= after
      BY <1>2
  <2> QED BY <1>1, <1>3, <2>1, CarriesPrepend
<1>5. Carries(<<a>> \o (<<b>> \o rest), n, from, to)
  <2>1. from <= from + 1
      OBVIOUS
  <2> QED BY <1>1, <1>3, <1>4, <2>1, CarriesPrepend
<1> QED BY <1>1, <1>5

\* And are packets of the stream.
LEMMA ExpandKinds ==
    ASSUME NEW p \in OwnedPackets, p.kind = "world", NEW rest \in Seq(OwnedPackets),
           NEW K, "world" \in K, \A i \in 1..Len(rest) : rest[i].kind \in K
    PROVE  \A i \in 1..Len(Expand(p, rest)) : Expand(p, rest)[i].kind \in K
<1>1. PICK a \in OwnedPackets, b \in OwnedPackets :
          /\ a.kind = "world" /\ b.kind = "world"
          /\ Expand(p, rest) = <<a>> \o (<<b>> \o rest)
    BY ExpandPieces
<1> DEFINE q == <<b>> \o rest  r == <<a>> \o q
<1>2. /\ q \in Seq(OwnedPackets) /\ Len(q) = Len(rest) + 1 /\ q[1] = b
      /\ \A i \in 2..Len(rest) + 1 : q[i] = rest[i - 1]
    BY PrependAt
<1> HIDE DEF q
<1>3. /\ Len(r) = Len(q) + 1 /\ r[1] = a
      /\ \A i \in 2..Len(q) + 1 : r[i] = q[i - 1]
    BY <1>2, PrependAt
<1> HIDE DEF r
<1>4. Len(rest) \in Nat
    OBVIOUS
<1>5. ASSUME NEW i \in 1..Len(q) PROVE q[i].kind \in K
  <2>1. CASE i = 1
      BY <1>1, <1>2, <2>1
  <2>2. CASE i # 1
    <3>1. i \in 2..Len(rest) + 1 /\ i - 1 \in 1..Len(rest)
        BY <1>2, <1>4, <2>2
    <3> QED BY <1>2, <3>1
  <2> QED BY <2>1, <2>2
<1>6. ASSUME NEW i \in 1..Len(r) PROVE r[i].kind \in K
  <2>1. CASE i = 1
      BY <1>1, <1>3, <2>1
  <2>2. CASE i # 1
    <3>1. i \in 2..Len(q) + 1 /\ i - 1 \in 1..Len(q)
        BY <1>2, <1>3, <1>4, <2>2
    <3> QED BY <1>3, <1>5, <3>1
  <2> QED BY <2>1, <2>2
<1> QED BY <1>1, <1>6 DEF q, r

\* A packet of the stream, from the queue or from the realm, is translated:
\* it is expanded, waits for a connection, is written to one or is lost.
LEMMA WorldTranslated ==
    ASSUME StreamInv, TypeInv', inWorld # NoLogin, ~syncPending,
           NEW p \in OwnedPackets, p.kind = "world", NEW rest \in Seq(OwnedPackets), Handles(p, rest),
           \A i \in 1..Len(rest) : rest[i].kind \in {"world", "stray"},
           UNCHANGED <<toRealm, inWorld, strays, disturbed>>,
           sent' \in [Logins -> Seq(Logins \X Nat)],
           \A m \in Logins : m # login => sent'[m] = sent[m],
           Follows(sent'[login], login, 1), Len(sent[login]) <= Len(sent'[login]),
           MayShow => \E after \in Nat :
                         /\ Fits(p, login, Len(shown[login]) + Len(pendingInstance) + 1, after)
                         /\ Carries(rest, login, after, Len(sent'[login]) + 1)
    PROVE  /\ Parts'
           /\ \/ UNCHANGED shown
              \/ /\ p.parts = 1 /\ shown' = [shown EXCEPT ![login] = Append(shown[login], <<login, p.no>>)]
                 /\ pendingInstance = <<>> /\ MayShow
<1>0. /\ TypeInv /\ KeyInv /\ Phases /\ Requests /\ Holding /\ Attached /\ InTurn
      /\ OnTheWay /\ StillShows /\ Completed /\ LiveStaysAttached
    BY DEF StreamInv, Parts
<1>1. inWorld = login /\ login \in Logins /\ login # NoLogin
    BY InWorld
<1>2. relay = "reading" /\ Translate(p, rest) /\ UNCHANGED boundVars
    BY DEF Handles, boundVars, connVars
<1>3. UNCHANGED <<syncPending, deferred, released, quests>>
    BY <1>2 DEF Translate
<1>4. handler = "idle" /\ deferred = <<>>
      /\ client \notin {"list", "returning", "waiting"}
    BY <1>0, <1>1 DEF Phases, Holding
<1>5. /\ shown \in [Logins -> Seq(Logins \X Nat)] /\ pendingInstance \in Seq(Logins \X Nat)
      /\ Len(shown[login]) \in Nat /\ Len(pendingInstance) \in Nat /\ Len(sent'[login]) \in Nat
      /\ Len(sent[login]) \in Nat
    BY <1>0, <1>1 DEF TypeInv, RelayTypes, RealmTypes
<1>6. p.parts \in 1..2 /\ p.no \in Nat
    BY DEF OwnedPackets, RealmPackets
\* What the queue to replay holds then.
<1>7. /\ \A i \in 1..Len(replay') : replay'[i].kind \in {"world", "stray"}
      /\ MayShow => IF p.parts = 2
                    THEN Carries(replay', login, Len(shown[login]) + Len(pendingInstance) + 1, Len(sent'[login]) + 1)
                    ELSE /\ p.login = login /\ p.no = Len(shown[login]) + Len(pendingInstance) + 1
                         /\ Carries(replay', login, Len(shown[login]) + Len(pendingInstance) + 2, Len(sent'[login]) + 1)
  <2>1. CASE p.parts = 2
    <3>1. replay' = Expand(p, rest)
        BY <1>2, <2>1 DEF Translate
    <3>2. MayShow => Carries(replay', login, Len(shown[login]) + Len(pendingInstance) + 1, Len(sent'[login]) + 1)
      <4>1. Len(shown[login]) + Len(pendingInstance) + 1 \in Nat
          BY <1>5
      <4> QED BY <2>1, <3>1, <4>1, ExpandCarries
    <3>3. \A i \in 1..Len(replay') : replay'[i].kind \in {"world", "stray"}
      <4> DEFINE K == {"world", "stray"}
      <4>1. "world" \in K /\ \A i \in 1..Len(rest) : rest[i].kind \in K
          OBVIOUS
      <4> HIDE DEF K
      <4>2. \A i \in 1..Len(replay') : replay'[i].kind \in K
          BY <3>1, <4>1, ExpandKinds
      <4> QED BY <4>2 DEF K
    <3> QED BY <2>1, <3>2, <3>3
  <2>2. CASE p.parts = 1
    <3>1. replay' = rest
        BY <1>2, <2>2 DEF Translate
    <3>2. ASSUME MayShow
          PROVE  /\ p.login = login /\ p.no = Len(shown[login]) + Len(pendingInstance) + 1
                 /\ Carries(rest, login, Len(shown[login]) + Len(pendingInstance) + 2, Len(sent'[login]) + 1)
      <4>1. PICK after \in Nat :
                /\ Fits(p, login, Len(shown[login]) + Len(pendingInstance) + 1, after)
                /\ Carries(rest, login, after, Len(sent'[login]) + 1)
          BY <3>2
      <4>2. after = Len(shown[login]) + Len(pendingInstance) + 2
          BY <1>5, <2>2, <4>1 DEF Fits
      <4> QED BY <4>1, <4>2 DEF Fits
    <3> QED BY <2>2, <3>1, <3>2
  <2> QED BY <1>6, <2>1, <2>2
\* What is shown, and what waits.
<1>8. \/ /\ UNCHANGED <<shown, client>> /\ relay' \in {"reading", "stopped"}
         /\ \/ /\ p.parts = 2 /\ UNCHANGED pendingInstance
            \/ /\ p.parts = 1 /\ instanceWorld = NoConn
               /\ pendingInstance' = Append(pendingInstance, <<p.login, p.no>>)
            \/ /\ p.parts = 1 /\ instanceWorld # NoConn /\ instanceWorld \in broken
               /\ UNCHANGED pendingInstance
      \/ /\ p.parts = 1 /\ instanceWorld # NoConn /\ instanceWorld \notin broken
         /\ shown' = [shown EXCEPT ![login] = Append(shown[login], <<p.login, p.no>>)]
         /\ UNCHANGED pendingInstance /\ relay' = "reading"
         /\ client' = client \/ (client = "entering" /\ client' = "world")
  <2>1. CASE p.parts = 2
      BY <1>2, <2>1 DEF Translate
  <2>2. CASE p.parts = 1
    <3>1. SendInstance(p)
        BY <1>2, <2>2 DEF Translate
    <3>2. instanceWorld = NoConn => instanceWorld \notin broken
        BY <1>0, NoConnIsNone DEF TypeInv, ConnTypes
    <3>3. ASSUME Shows(instanceWorld, <<<<p.login, p.no>>>>), instanceWorld # NoConn
          PROVE  /\ shown' = [shown EXCEPT ![login] = Append(shown[login], <<p.login, p.no>>)]
                 /\ client' = client \/ (client = "entering" /\ client' = "world")
      <4>1. presents[instanceWorld] = login
          BY <1>0, <3>3 DEF Attached
      <4>2. shown[login] \o <<<<p.login, p.no>>>> = Append(shown[login], <<p.login, p.no>>)
          BY <1>1, <1>5
      <4> QED BY <3>3, <4>1, <4>2 DEF Shows
    <3> QED BY <2>2, <3>1, <3>2, <3>3 DEF SendInstance
  <2> QED BY <1>6, <2>1, <2>2
<1>9. client' = client \/ (client = "entering" /\ client' = "world")
    BY <1>8
<1>10. relay' \in {"reading", "stopped"}
    BY <1>8
<1>11. instanceWorld # NoConn =>
          /\ instanceWorld \in Conns /\ Admitted(instanceWorld) /\ presents[instanceWorld] = login
          /\ stage[instanceWorld] = "active"
    BY <1>0 DEF TypeInv, ConnTypes, Attached, Admitted
<1>12. instanceWorld # NoConn =>
          /\ instanceKey = login /\ login \notin keys
          /\ \A d \in Conns : d # instanceWorld => ~(Admitted(d) /\ presents[d] = login)
          /\ \A d \in Conns : presents[d] \notin keys
    BY <1>11, OnlyOneOpens
<1>13. instanceWorld # NoConn => (MayShow <=> instanceWorld \notin broken)
  <2> SUFFICES ASSUME instanceWorld # NoConn PROVE MayShow <=> instanceWorld \notin broken
      OBVIOUS
  <2>1. \A d \in Conns : d # instanceWorld => ~Opens(d)
      BY <1>12 DEF Opens, Admitted
  <2>2. Opens(instanceWorld) <=> instanceWorld \notin broken
      BY <1>11 DEF Opens
  <2>3. ~(instanceKey < login) /\ login \notin keys
      BY <1>0, <1>12 DEF KeyInv, KeyTypes
  <2> QED BY <1>11, <2>1, <2>2, <2>3 DEF MayShow
<1>14. /\ \A k : Queued(k)' <=> Queued(k)
       /\ \A k : Waits(k)' <=> Waits(k)
       /\ MayShow' <=> MayShow
       /\ Held = replay /\ Held' = replay'
    BY <1>2, <1>3 DEF Queued, Waits, MayShow, Opens, Held, boundVars
<1>15. \A m \in Logins : m # login => shown'[m] = shown[m]
    BY <1>5, <1>8
<1>16. Phases'
  <2>1. \A m \in Logins : m > login => sent'[m] = sent[m] /\ shown'[m] = shown[m]
      BY <1>1, <1>15, EntryBounds DEF Logins
  <2> QED BY <1>0, <1>1, <1>2, <1>3, <1>4, <1>9, <1>10, <2>1 DEF Phases, boundVars
<1>17. Requests'
    BY <1>0, <1>1, <1>2, <1>3, <1>9, <1>14 DEF Requests, OnlyQueries, boundVars
<1>18. Holding'
    BY <1>0, <1>1, <1>2, <1>3, <1>4, <1>7, <1>14 DEF Holding, boundVars
<1>19. Attached'
  <2>1. client' # client => instanceWorld # NoConn
      BY <1>8
  <2>2. instanceWorld # NoConn =>
           \A d \in Conns : stage[d] # "claimed" /\ presents[d] \notin keys
      BY <1>0, <1>11, <1>12 DEF Attached, Admitted
  <2>3. instanceWorld # NoConn /\ instanceWorld \notin broken => UNCHANGED pendingInstance
      BY <1>8
  <2> QED BY <1>0, <1>2, <1>3, <1>4, <1>9, <1>10, <1>12, <2>1, <2>2, <2>3 DEF Attached, boundVars
<1>20. StillShows'
    BY <1>0, <1>2, <1>4, <1>9, <1>14 DEF StillShows, boundVars
<1>21. Completed'
  <2>1. quests \/ login \in released
      BY <1>0, <1>1 DEF Completed
  <2>2. UNCHANGED <<created, questsShown>> \/ (created' = TRUE /\ questsShown' = quests)
      BY <1>2 DEF Translate, CreatePlayer
  <2> QED BY <1>0, <1>1, <1>2, <1>3, <2>1, <2>2 DEF Completed, QuestsReachPlayer, boundVars
<1>22. LiveStaysAttached'
    BY <1>0, <1>2 DEF LiveStaysAttached, boundVars
<1>23. /\ login' = login
       /\ \/ UNCHANGED shown
          \/ /\ p.parts = 1 /\ shown' = [shown EXCEPT ![login] = Append(shown[login], <<login, p.no>>)]
             /\ pendingInstance = <<>> /\ MayShow
             /\ p.no = Len(shown[login]) + 1
  <2> SUFFICES ASSUME shown' # shown
               PROVE  /\ p.parts = 1 /\ shown' = [shown EXCEPT ![login] = Append(shown[login], <<login, p.no>>)]
                      /\ pendingInstance = <<>> /\ MayShow
                      /\ p.no = Len(shown[login]) + 1
      BY <1>2 DEF boundVars
  <2>1. /\ p.parts = 1 /\ instanceWorld # NoConn /\ instanceWorld \notin broken
        /\ shown' = [shown EXCEPT ![login] = Append(shown[login], <<p.login, p.no>>)]
      BY <1>8
  <2>2. MayShow /\ pendingInstance = <<>> /\ Len(pendingInstance) = 0
      BY <1>0, <1>13, <2>1 DEF Attached
  <2>3. p.login = login /\ p.no = Len(shown[login]) + Len(pendingInstance) + 1
      BY <1>7, <2>1, <2>2
  <2> QED BY <1>5, <2>1, <2>2, <2>3
<1>24. sent'[login] \in Seq(Logins \X Nat) /\ Len(shown[login]) <= Len(sent[login])
    BY <1>0, <1>1 DEF InTurn
<1>25. ASSUME UNCHANGED shown PROVE InTurn' /\ OnTheWay'
  <2>1. InTurn'
    <3>1. ASSUME NEW m \in Logins
          PROVE  Follows(sent'[m], m, 1) /\ Follows(shown[m], m, 1) /\ Len(shown[m]) <= Len(sent'[m])
      <4>1. CASE m = login
          BY <1>0, <1>5, <1>24, <4>1 DEF InTurn
      <4>2. CASE m # login
          BY <1>0, <4>2 DEF InTurn
      <4> QED BY <4>1, <4>2
    <3> QED BY <1>25, <3>1 DEF InTurn
  <2>2. ASSUME MayShow
        PROVE  /\ Follows(pendingInstance', login, Len(shown[login]) + 1)
               /\ Carries(replay', login, Len(shown[login]) + Len(pendingInstance') + 1, Len(sent'[login]) + 1)
    <3>1. Follows(pendingInstance, login, Len(shown[login]) + 1)
        BY <1>0, <1>1, <2>2 DEF OnTheWay
    <3>2. CASE p.parts = 2
        BY <1>7, <1>8, <2>2, <3>1, <3>2
    <3>3. CASE p.parts = 1 /\ instanceWorld = NoConn
      <4>1. pendingInstance' = Append(pendingInstance, <<p.login, p.no>>)
          BY <1>8, <3>3
      <4>2. /\ p.login = login /\ p.no = (Len(shown[login]) + 1) + Len(pendingInstance)
            /\ Carries(replay', login, Len(shown[login]) + Len(pendingInstance) + 2, Len(sent'[login]) + 1)
          BY <1>5, <1>7, <2>2, <3>3
      <4>3. /\ Follows(pendingInstance', login, Len(shown[login]) + 1)
            /\ Len(pendingInstance') = Len(pendingInstance) + 1
        <5>1. Len(shown[login]) + 1 \in Nat
            BY <1>5
        <5> QED BY <1>1, <3>1, <4>1, <4>2, <5>1, FollowsNext
      <4>4. Len(shown[login]) + Len(pendingInstance') + 1 = Len(shown[login]) + Len(pendingInstance) + 2
        <5>1. /\ Len(shown[login]) \in Nat /\ Len(pendingInstance) \in Nat
              /\ Len(pendingInstance') = Len(pendingInstance) + 1
            BY <1>5, <4>3
        <5>2. \A x, y \in Nat : x + (y + 1) + 1 = x + y + 2
            OBVIOUS
        <5> QED BY <5>1, <5>2, Zenon
      <4> QED BY <4>2, <4>3, <4>4
    <3>4. ~ (p.parts = 1 /\ instanceWorld # NoConn /\ instanceWorld \in broken)
        BY <1>13, <2>2
    <3>5. p.parts = 1 /\ instanceWorld # NoConn /\ instanceWorld \notin broken => shown' # shown
      <4>1. Len(Append(shown[login], <<p.login, p.no>>)) = Len(shown[login]) + 1
        <5>1. <<p.login, p.no>> \in Logins \X Nat
            BY DEF OwnedPackets, RealmPackets
        <5> QED BY <1>1, <1>5, <5>1
      <4> QED BY <1>1, <1>5, <1>8, <4>1
    <3> QED BY <1>6, <1>25, <3>2, <3>3, <3>4, <3>5
  <2> QED BY <1>14, <1>23, <1>25, <2>1, <2>2 DEF OnTheWay
<1>26. ASSUME shown' # shown PROVE InTurn' /\ OnTheWay'
  <2>1. /\ p.parts = 1 /\ shown' = [shown EXCEPT ![login] = Append(shown[login], <<login, p.no>>)]
        /\ pendingInstance = <<>> /\ MayShow /\ p.no = Len(shown[login]) + 1
      BY <1>23, <1>26
  <2>2. shown'[login] = Append(shown[login], <<login, p.no>>)
      BY <1>1, <1>5, <2>1
  <2>3. Follows(shown[login], login, 1) /\ p.no = 1 + Len(shown[login])
      BY <1>0, <1>1, <1>5, <2>1 DEF InTurn
  <2>4. Follows(shown'[login], login, 1) /\ Len(shown'[login]) = Len(shown[login]) + 1
      BY <1>1, <2>2, <2>3, FollowsNext
  <2>5. Carries(replay', login, Len(shown[login]) + 2, Len(sent'[login]) + 1)
    <3>1. Len(pendingInstance) = 0 /\ Len(shown[login]) + Len(pendingInstance) + 2 = Len(shown[login]) + 2
        BY <1>5, <2>1
    <3> QED BY <1>7, <2>1, <3>1
  <2>6. Len(shown'[login]) <= Len(sent'[login])
    <3>1. replay' \in Seq(OwnedPackets)
        BY DEF TypeInv, RelayTypes, Owned
    <3>2. Len(shown[login]) + 2 <= Len(sent'[login]) + 1
        BY <2>5, <3>1, CarriesUp
    <3> QED BY <1>5, <2>4, <3>2
  <2>7. InTurn'
    <3>1. ASSUME NEW m \in Logins
          PROVE  Follows(sent'[m], m, 1) /\ Follows(shown'[m], m, 1) /\ Len(shown'[m]) <= Len(sent'[m])
      <4>1. CASE m = login
          BY <2>4, <2>6, <4>1
      <4>2. CASE m # login
          BY <1>0, <1>15, <4>2 DEF InTurn
      <4> QED BY <4>1, <4>2
    <3> QED BY <3>1 DEF InTurn
  <2>8. pendingInstance' = <<>> /\ Len(pendingInstance') = 0
      BY <1>8, <1>26, <2>1
  <2>9. Len(shown'[login]) + Len(pendingInstance') + 1 = Len(shown[login]) + 2
      BY <1>5, <2>4, <2>8
  <2>10. OnTheWay'
      BY <1>14, <1>23, <2>5, <2>8, <2>9, FollowsNone DEF OnTheWay
  <2> QED BY <2>7, <2>10
<1> QED BY <1>16, <1>17, <1>18, <1>19, <1>20, <1>21, <1>22, <1>23, <1>25, <1>26 DEF Parts

\* What is replayed is of the login in the world.
LEMMA ReplayStream ==
    ASSUME StreamInv, TypeInv', Replay
    PROVE  Parts' /\ StreamStep
<1>0. /\ TypeInv /\ KeyInv /\ Phases /\ Requests /\ Holding /\ Attached /\ InTurn
      /\ OnTheWay /\ StillShows /\ Completed /\ LiveStaysAttached
    BY DEF StreamInv, Parts
<1> DEFINE p == Head(replay)  rest == Tail(replay)
<1>1. replay # <<>> /\ Handles(p, rest) /\ UNCHANGED <<toRealm, inWorld, strays, sent, disturbed>>
    BY DEF Replay, realmVars
<1>2. replay \in Seq(OwnedPackets)
    BY <1>0 DEF TypeInv, RelayTypes, Owned
<1>3. /\ rest \in Seq(OwnedPackets) /\ Len(rest) = Len(replay) - 1 /\ Len(replay) \in Nat \ {0}
      /\ p = replay[1] /\ p \in OwnedPackets
      /\ \A i \in 1..Len(replay) - 1 : rest[i] = replay[i + 1]
    BY <1>1, <1>2, TailAt
<1>4. inWorld # NoLogin /\ ~syncPending /\ deferred = <<>>
    BY <1>0, <1>1 DEF Holding
<1>5. inWorld = login /\ login \in Logins /\ login # NoLogin
    BY <1>4, InWorld
<1>6. MayShow => \E after \in Nat :
                    /\ Fits(p, login, Len(shown[login]) + Len(pendingInstance) + 1, after)
                    /\ Carries(rest, login, after, Len(sent[login]) + 1)
  <2> SUFFICES ASSUME MayShow
               PROVE  \E after \in Nat :
                         /\ Fits(p, login, Len(shown[login]) + Len(pendingInstance) + 1, after)
                         /\ Carries(rest, login, after, Len(sent[login]) + 1)
      OBVIOUS
  <2>1. Carries(replay, login, Len(shown[login]) + Len(pendingInstance) + 1, Len(sent[login]) + 1)
      BY <1>0, <1>4, <1>5 DEF OnTheWay, Held
  <2> QED BY <1>1, <1>2, <2>1, CarriesTail
<1> HIDE DEF p, rest
<1>7. p.kind \in {"world", "stray"} /\ \A i \in 1..Len(rest) : rest[i].kind \in {"world", "stray"}
  <2>1. 1 \in 1..Len(replay) /\ \A i \in 1..Len(rest) : i + 1 \in 1..Len(replay) /\ rest[i] = replay[i + 1]
      BY <1>3
  <2> QED BY <1>0, <1>3, <2>1 DEF Holding
<1>8. /\ sent' \in [Logins -> Seq(Logins \X Nat)] /\ sent' = sent
      /\ Follows(sent'[login], login, 1) /\ Len(sent[login]) <= Len(sent'[login])
  <2>1. Len(sent[login]) \in Nat
      BY <1>0, <1>5 DEF TypeInv, RealmTypes
  <2> QED BY <1>0, <1>1, <1>5, <2>1 DEF TypeInv, RealmTypes, InTurn
<1>9. CASE p.kind = "world"
  <2>1. /\ Parts'
        /\ \/ UNCHANGED shown
           \/ /\ p.parts = 1 /\ shown' = [shown EXCEPT ![login] = Append(shown[login], <<login, p.no>>)]
              /\ pendingInstance = <<>> /\ MayShow
      BY <1>1, <1>3, <1>4, <1>6, <1>7, <1>8, <1>9, WorldTranslated
  <2>2. CASE UNCHANGED shown
      BY <1>1, <2>1, <2>2 DEF StreamStep, Stream!streamVars
  <2>3. CASE shown' # shown
    <3>1. /\ p.parts = 1 /\ shown' = [shown EXCEPT ![login] = Append(shown[login], <<login, p.no>>)]
          /\ pendingInstance = <<>> /\ MayShow
        BY <2>1, <2>3
    <3>2. /\ Len(shown[login]) \in Nat /\ Len(sent[login]) \in Nat
          /\ shown \in [Logins -> Seq(Logins \X Nat)]
        BY <1>0, <1>5 DEF TypeInv, RelayTypes, RealmTypes
    <3>3. PICK after \in Nat :
              /\ Fits(p, login, Len(shown[login]) + 1, after)
              /\ Carries(rest, login, after, Len(sent[login]) + 1)
      <4>1. Len(pendingInstance) = 0 /\ Len(shown[login]) + Len(pendingInstance) + 1 = Len(shown[login]) + 1
          BY <3>1, <3>2
      <4> QED BY <1>6, <3>1, <4>1
    <3>4. p.no = Len(shown[login]) + 1 /\ after = Len(shown[login]) + 2
        BY <1>9, <3>1, <3>2, <3>3 DEF Fits
    <3>5. after <= Len(sent[login]) + 1
        BY <1>3, <3>3, CarriesUp
    <3> DEFINE more == <<<<login, p.no>>>>
    <3>6. Follows(more, login, Len(shown[login]) + 1) /\ Len(more) = 1
      <4>1. Len(shown[login]) + 1 \in Nat /\ Follows(<<>>, login, Len(shown[login]) + 1) /\ Len(<<>>) = 0
          BY <3>2, FollowsNone
      <4>2. (Len(shown[login]) + 1) + Len(<<>>) = p.no
          BY <3>2, <3>4, <4>1
      <4>3. Append(<<>>, <<login, p.no>>) = more
          OBVIOUS
      <4>4. /\ Follows(Append(<<>>, <<login, (Len(shown[login]) + 1) + Len(<<>>)>>), login, Len(shown[login]) + 1)
          BY <1>5, <4>1, FollowsNext
      <4> QED BY <4>2, <4>3, <4>4
    <3>7. shown' = [shown EXCEPT ![login] = shown[login] \o more]
      <4>1. shown[login] \o more = Append(shown[login], <<login, p.no>>)
          BY <1>5, <3>2
      <4> QED BY <3>1, <4>1
    <3>8. Len(shown[login]) + Len(more) <= Len(sent[login])
        BY <3>2, <3>4, <3>5, <3>6
    <3> HIDE DEF more
    <3> QED BY <1>1, <1>5, <2>1, <3>6, <3>7, <3>8, MoreShown
  <2> QED BY <2>1, <2>2, <2>3
<1>10. CASE p.kind = "stray"
  <2>1. /\ replay' = rest
        /\ UNCHANGED <<boundVars, syncPending, deferred, client, shown, pendingInstance, created, quests,
                       questsShown, released, relay>>
    <3>1. p.parts = 1
        BY <1>3, <1>10 DEF OwnedPackets
    <3> QED BY <1>1, <1>4, <1>10, <3>1 DEF Handles, Translate, boundVars, connVars
  <2>2. /\ \A k : Waits(k)' <=> Waits(k)
        /\ \A k : Queued(k)' <=> Queued(k)
        /\ Held' = rest /\ (MayShow' <=> MayShow)
      BY <1>1, <1>4, <2>1 DEF Waits, Queued, Held, MayShow, Opens, boundVars
  <2>3. Phases' /\ Requests' /\ Attached'
      BY <1>0, <1>1, <2>1, <2>2 DEF Phases, Requests, Attached, OnlyQueries, boundVars
  <2>4. Holding'
      BY <1>0, <1>1, <1>4, <1>7, <2>1, <2>2 DEF Holding, OnlyQueries, boundVars
  <2>5. OnTheWay'
    <3>1. MayShow => Carries(rest, login, Len(shown[login]) + Len(pendingInstance) + 1, Len(sent[login]) + 1)
        BY <1>6, <1>10 DEF Fits
    <3> QED BY <1>0, <1>1, <1>5, <2>1, <2>2, <3>1 DEF OnTheWay, boundVars
  <2>6. StillShows' /\ InTurn' /\ Completed' /\ LiveStaysAttached'
      BY <1>0, <1>1, <2>1, <2>2 DEF StillShows, InTurn, Completed, QuestsReachPlayer, LiveStaysAttached,
                                    boundVars
  <2> QED BY <1>1, <2>1, <2>3, <2>4, <2>5, <2>6 DEF Parts, StreamStep, Stream!streamVars
<1> QED BY <1>7, <1>9, <1>10

\* The realm sends the login in the world one or two of its packets: they are
\* put by, end the wait, or are translated as they arrive.
LEMMA RealmSendsStream ==
    ASSUME StreamInv, TypeInv', RealmSends
    PROVE  Parts' /\ StreamStep
<1>0. /\ TypeInv /\ KeyInv /\ Phases /\ Requests /\ Holding /\ Attached /\ InTurn
      /\ OnTheWay /\ StillShows /\ Completed /\ LiveStaysAttached
    BY DEF StreamInv, Parts
<1>1. /\ inWorld # NoLogin /\ inWorld = login /\ login \in Logins /\ login # NoLogin /\ replay = <<>>
      /\ UNCHANGED <<toRealm, inWorld, strays, disturbed>>
    BY InWorld DEF RealmSends
<1>2. /\ sent \in [Logins -> Seq(Numbered)] /\ shown \in [Logins -> Seq(Numbered)]
      /\ Len(sent[login]) \in Nat /\ Len(shown[login]) \in Nat /\ Len(pendingInstance) \in Nat
      /\ deferred \in Seq(OwnedPackets) /\ Len(deferred) \in Nat
  <2>1. /\ sent \in [Logins -> Seq(Logins \X Nat)] /\ shown \in [Logins -> Seq(Logins \X Nat)]
        /\ pendingInstance \in Seq(Logins \X Nat) /\ deferred \in Seq(OwnedPackets)
      BY <1>0 DEF TypeInv, RelayTypes, RealmTypes, Owned
  <2>2. sent \in [Logins -> Seq(Numbered)] /\ shown \in [Logins -> Seq(Numbered)]
      BY <2>1 DEF Numbered
  <2> QED BY <1>1, <2>1, <2>2
<1> DEFINE no == Len(sent[login]) + 1
           run(k) == Run(login, no, k)
<1>3. PICK parts \in 1..2 :
          /\ sent' = [sent EXCEPT ![login] = sent[login] \o run(parts)]
          /\ Handles(Packet("world", login, no, parts), <<>>)
    BY <1>1 DEF RealmSends, Run, Number
<1> DEFINE p == Packet("world", login, no, parts)
           more == run(parts)
<1>4. no \in Nat \ {0} /\ parts \in Nat /\ no = 1 + Len(sent[login])
    BY <1>2
<1>5. Follows(more, login, no) /\ Len(more) = parts
    BY <1>1, <1>4, RunFollows
<1>6. p \in OwnedPackets /\ p.kind = "world" /\ p.login = login /\ p.no = no /\ p.parts = parts
  <2>1. p \in OwnedPackets
      BY <1>1, <1>4, PacketOwned DEF Kinds
  <2> QED BY <2>1 DEF Packet
<1>7. Handles(p, <<>>)
    BY <1>3
<1>8. /\ sent'[login] = sent[login] \o more
      /\ \A m \in Logins : m # login => sent'[m] = sent[m]
    BY <1>1, <1>2, <1>3
<1>9. UNCHANGED shown => StreamStep
  <2>1. more = [i \in 1..parts |-> <<login, Len(sent[login]) + i>>]
    <3>1. \A i \in 1..parts : Number(login, no + i - 1) = <<login, Len(sent[login]) + i>>
        BY <1>2 DEF Number
    <3> QED BY <3>1 DEF Run
  <2>2. sent' = [sent EXCEPT ![login] = @ \o [i \in 1..parts |-> <<login, Len(@) + i>>]]
      BY <1>1, <1>2, <1>3, <2>1
  <2>3. UNCHANGED shown => Stream!Send(login)
      BY <2>2 DEF Stream!Send
  <2> QED BY <1>1, <2>3 DEF StreamStep, Stream!StreamNext
<1> HIDE DEF no, p, more
<1>10. /\ sent' \in [Logins -> Seq(Logins \X Nat)]
       /\ Follows(sent'[login], login, 1) /\ Len(sent'[login]) = Len(sent[login]) + parts
  <2>1. Follows(sent[login], login, 1) /\ 1 \in Nat
      BY <1>0, <1>1 DEF InTurn
  <2>2. Follows(more, login, 1 + Len(sent[login]))
      BY <1>4, <1>5
  <2>3. /\ Follows(sent[login] \o more, login, 1)
        /\ Len(sent[login] \o more) = Len(sent[login]) + Len(more)
      BY <2>1, <2>2, FollowsJoined
  <2>4. sent' \in [Logins -> Seq(Logins \X Nat)]
      BY DEF TypeInv, RealmTypes
  <2> QED BY <1>5, <1>8, <2>3, <2>4
<1>11. Len(sent[login]) <= Len(sent'[login]) /\ no + parts = Len(sent'[login]) + 1
    BY <1>2, <1>4, <1>10
<1>12. handler = "idle" /\ client # "list" /\ ~Waits("refused")
    BY <1>0, <1>1 DEF Phases, Holding
<1>13. CASE syncPending
  <2>1. /\ relay = "reading" /\ relay' \in {"reading", "query"}
        /\ UNCHANGED <<boundVars, client, shown, pendingInstance, created, quests, questsShown>>
        /\ \/ /\ deferred' = Append(deferred, p) /\ replay' = <<>>
              /\ UNCHANGED <<syncPending, released>>
           \/ /\ deferred' = <<>> /\ replay' = Append(deferred, p)
              /\ syncPending' = FALSE /\ released' = released \cup {login}
    <3>1. CASE Len(deferred) + 1 < DeferLimit
        BY <1>2, <1>6, <1>7, <1>13, <3>1, PutBy
    <3>2. CASE Len(deferred) + 1 >= DeferLimit
        BY <1>0, <1>6, <1>7, <1>13, <3>2, LimitReached
    <3>3. Len(deferred) + 1 < DeferLimit \/ Len(deferred) + 1 >= DeferLimit
        BY <1>2, EntryBounds
    <3> QED BY <3>1, <3>2, <3>3
  <2>2. Held = deferred /\ Held' = Append(deferred, p)
      BY <1>13, <2>1 DEF Held
  <2>3. /\ \A k : Queued(k)' <=> Queued(k)
        /\ MayShow' <=> MayShow
      BY <1>1, <2>1 DEF Queued, MayShow, Opens, boundVars
  <2> DEFINE q == Append(deferred, p)
  <2>4. \A i \in 1..Len(q) : q[i].kind \in {"world", "stray"}
    <3>1. /\ Len(q) = Len(deferred) + 1 /\ q[Len(deferred) + 1] = p
          /\ \A i \in 1..Len(deferred) : q[i] = deferred[i]
        BY <1>2, <1>6, AppendAt
    <3> HIDE DEF q
    <3>2. \A i \in 1..Len(deferred) : deferred[i].kind \in {"world", "stray"}
        BY <1>0, <1>12 DEF Holding, Waits
    <3>3. ASSUME NEW i \in 1..Len(q) PROVE q[i].kind \in {"world", "stray"}
      <4>1. i \in 1..Len(deferred) \/ i = Len(deferred) + 1
          BY <1>2, <3>1
      <4> QED BY <1>6, <3>1, <3>2, <4>1
    <3> QED BY <3>3
  <2>5. MayShow => Carries(q, login, Len(shown[login]) + Len(pendingInstance) + 1, Len(sent'[login]) + 1)
    <3> SUFFICES ASSUME MayShow
                 PROVE  Carries(q, login, Len(shown[login]) + Len(pendingInstance) + 1, Len(sent'[login]) + 1)
        OBVIOUS
    <3> DEFINE a == Len(shown[login]) + Len(pendingInstance) + 1
    <3>1. Carries(deferred, login, a, no)
        BY <1>0, <1>1, <2>2 DEF OnTheWay, no
    <3> HIDE DEF a
    <3>2. Fits(p, login, no, no + parts) /\ no + parts \in Nat /\ no <= no + parts
        BY <1>4, <1>6 DEF Fits
    <3>3. Carries(q, login, a, no + parts)
        BY <1>2, <1>6, <3>1, <3>2, CarriesAppend
    <3> QED BY <1>11, <3>3 DEF a
  <2> HIDE DEF q
  <2>6. client \in {"entering", "gone"}
      BY <1>0, <1>12, <1>13 DEF Holding, TypeInv, RelayTypes, ClientStates
  <2>7. Phases'
    <3>1. \A m \in Logins : m > login => sent'[m] = sent[m]
        BY <1>1, <1>8, EntryBounds DEF Logins
    <3> QED BY <1>0, <1>1, <1>12, <2>1, <3>1 DEF Phases, boundVars
  <2>8. Requests'
      BY <1>0, <1>1, <2>1, <2>3, <2>6, <1>13 DEF Requests, OnlyQueries, boundVars
  <2>9. Holding'
    <3>1. \A i \in 1..Len(<<>>) : <<>>[i].kind \in {"world", "stray"}
        OBVIOUS
    <3>2. ~Waits("refused")'
      <4>1. CASE deferred' = q
          BY <2>4, <4>1 DEF Waits
      <4>2. CASE deferred' = <<>>
          BY <4>2 DEF Waits
      <4> QED BY <2>1, <4>1, <4>2 DEF q
    <3>3. /\ \A i \in 1..Len(deferred') : deferred'[i].kind \in {"world", "stray", "refused"}
          /\ \A i \in 1..Len(replay') : replay'[i].kind \in {"world", "stray"}
        BY <2>1, <2>4, <3>1 DEF q
    <3>4. /\ syncPending' => replay' = <<>>
          /\ ~syncPending' => deferred' = <<>>
          /\ pendingInstance' # <<>> => ~syncPending'
        BY <1>0, <1>13, <2>1 DEF Holding
    <3> QED BY <1>1, <2>1, <2>6, <3>2, <3>3, <3>4 DEF Holding
  <2>10. Attached'
      BY <1>0, <1>1, <2>1, <2>6 DEF Attached, boundVars
  <2>11. StillShows' /\ LiveStaysAttached'
      BY <1>0, <1>1, <2>1, <2>3 DEF StillShows, LiveStaysAttached, boundVars
  <2>12. OnTheWay'
      BY <1>0, <1>1, <2>1, <2>2, <2>3, <2>5 DEF OnTheWay, boundVars, q
  <2>13. InTurn'
    <3>1. ASSUME NEW m \in Logins
          PROVE  Follows(sent'[m], m, 1) /\ Follows(shown[m], m, 1) /\ Len(shown[m]) <= Len(sent'[m])
      <4>1. CASE m = login
        <5>1. Len(shown[login]) <= Len(sent[login]) /\ Follows(shown[login], login, 1)
            BY <1>0, <1>1 DEF InTurn
        <5> QED BY <1>2, <1>10, <4>1, <5>1
      <4>2. CASE m # login
          BY <1>0, <1>8, <4>2 DEF InTurn
      <4> QED BY <4>1, <4>2
    <3> QED BY <2>1, <3>1 DEF InTurn
  <2>14. Completed'
      BY <1>0, <1>1, <1>13, <2>1 DEF Completed, QuestsReachPlayer, boundVars
  <2> QED BY <1>9, <2>1, <2>7, <2>8, <2>9, <2>10, <2>11, <2>12, <2>13, <2>14 DEF Parts
<1>14. CASE ~syncPending
  <2> DEFINE a == Len(shown[login]) + Len(pendingInstance) + 1
  <2>1. MayShow => a = no
    <3> SUFFICES ASSUME MayShow PROVE a = no
        OBVIOUS
    <3>1. Carries(<<>>, login, a, no)
        BY <1>0, <1>1, <1>14 DEF OnTheWay, Held, no
    <3> HIDE DEF a
    <3> QED BY <3>1, CarriesEmpty
  <2> HIDE DEF a
  <2>2. MayShow => \E after \in Nat :
                      Fits(p, login, a, after) /\ Carries(<<>>, login, after, Len(sent'[login]) + 1)
    <3>1. no + parts \in Nat /\ Fits(p, login, no, no + parts)
        BY <1>4, <1>6 DEF Fits
    <3>2. Carries(<<>>, login, no + parts, no + parts)
      <4> DEFINE z == no + parts
      <4>1. z \in Nat
          BY <3>1
      <4>2. <<>> \in Seq(OwnedPackets) /\ \A i \in 1..Len(<<>>) : <<>>[i].kind # "world"
          OBVIOUS
      <4> HIDE DEF z
      <4>3. Carries(<<>>, login, z, z)
          BY <4>1, <4>2, CarriesNone
      <4> QED BY <4>3 DEF z
    <3> QED BY <1>11, <2>1, <3>1, <3>2
  <2>3. <<>> \in Seq(OwnedPackets) /\ \A i \in 1..Len(<<>>) : <<>>[i].kind \in {"world", "stray"}
      OBVIOUS
  <2>4. /\ Parts'
        /\ \/ UNCHANGED shown
           \/ /\ p.parts = 1 /\ shown' = [shown EXCEPT ![login] = Append(shown[login], <<login, p.no>>)]
              /\ pendingInstance = <<>> /\ MayShow
      BY <1>1, <1>6, <1>7, <1>8, <1>10, <1>11, <1>14, <2>2, <2>3, WorldTranslated DEF a
  <2>5. ASSUME shown' # shown PROVE StreamStep
    <3>1. /\ parts = 1 /\ shown' = [shown EXCEPT ![login] = Append(shown[login], <<login, no>>)]
          /\ Len(pendingInstance) = 0 /\ a = no
        BY <1>6, <2>1, <2>4, <2>5
    <3>2. Len(shown[login]) = Len(sent[login])
        BY <1>2, <3>1 DEF a, no
    <3>3. shown[login] = sent[login]
        BY <1>0, <1>1, <3>2, FollowsSame DEF InTurn
    <3>4. sent'[login] = Append(sent[login], <<login, no>>)
      <4>1. Follows(Append(sent[login], <<login, no>>), login, 1)
            /\ Len(Append(sent[login], <<login, no>>)) = Len(sent[login]) + 1
          BY <1>0, <1>1, <1>4, FollowsNext DEF InTurn
      <4> QED BY <1>10, <3>1, <4>1, FollowsSame
    <3>5. /\ sent' = [sent EXCEPT ![login] = sent'[login]]
          /\ shown' = [shown EXCEPT ![login] = sent'[login]]
        BY <1>1, <1>2, <1>3, <3>1, <3>3, <3>4
    <3>6. Stream!SendAndShow(login)
        BY <1>2, <3>4, <3>5 DEF Stream!SendAndShow, no
    <3> QED BY <1>1, <3>6 DEF StreamStep, Stream!StreamNext
  <2> QED BY <1>9, <2>4, <2>5
<1> QED BY <1>13, <1>14

\* An answer of the realm to a request is a packet of no stream.
LEMMA AnswerOwned ==
    ASSUME StreamInv, NEW kind \in Kinds \ {"world"}
    PROVE  LET p == Packet(kind, inWorld, 0, 1)
           IN  p \in OwnedPackets /\ p.kind = kind /\ p.parts = 1
<1>1. inWorld \in Logins \cup {NoLogin}
    BY EntryBounds DEF StreamInv, TypeInv, RealmTypes, Logins, NoLogin
<1>2. Packet(kind, inWorld, 0, 1) \in OwnedPackets
    BY <1>1, PacketOwned
<1> QED BY <1>2 DEF Packet

\* The realm lets a login in.
LEMMA AcceptedStream ==
    ASSUME StreamInv, toRealm # <<>>, toRealm' = Tail(toRealm), Head(toRealm) = "login",
           inWorld' = login, Silent, UNCHANGED <<strays, sent>>
    PROVE  Parts' /\ UNCHANGED shown
<1>0. /\ TypeInv /\ KeyInv /\ Phases /\ Requests /\ Holding /\ Attached /\ InTurn
      /\ OnTheWay /\ StillShows /\ Completed /\ LiveStaysAttached
    BY DEF StreamInv, Parts
<1>1. UNCHANGED <<client, address, login, handler, keys, instanceKey, instanceWorld, pendingInstance,
                  syncPending, quests, created, stage, presents, broken, relay, deferred, replay,
                  strays, sent, shown, questsShown, released, disturbed>>
    BY DEF Silent, clientVars, sessionVars, connVars, relayVars, histVars
<1>2. Queued("login") /\ OnlyQueries' /\ ~OnlyQueries
    BY <1>0, RequestTaken DEF OnlyQueries
<1>3. /\ handler = "idle" /\ inWorld = NoLogin /\ client \in {"entering", "gone"} /\ syncPending
      /\ login # NoLogin /\ relay # "logout" /\ ~Waits("refused")
    BY <1>0, <1>2 DEF Requests, TypeInv, Counted, Phases, Holding
<1>4. /\ \A k : Waits(k)' <=> Waits(k)
      /\ Held' = Held /\ (MayShow' <=> MayShow)
    BY <1>1 DEF Waits, Held, MayShow, Opens
<1>5. Phases'
    BY <1>0, <1>1, <1>3 DEF Phases
<1>6. Requests'
  <2>1. (\A i, j \in 1..Len(toRealm) : toRealm[i] # "query" /\ toRealm[j] # "query" => i = j)'
      BY <1>0, RequestTaken
  <2> QED BY <1>1, <1>2, <1>3, <2>1 DEF Requests, OnlyQueries
<1>7. Holding' /\ Attached'
    BY <1>0, <1>1, <1>3, <1>4 DEF Holding, Attached
<1>8. StillShows' /\ OnTheWay' /\ InTurn' /\ Completed' /\ LiveStaysAttached'
    BY <1>0, <1>1, <1>3, <1>4 DEF StillShows, OnTheWay, InTurn, Completed, QuestsReachPlayer, LiveStaysAttached
<1> QED BY <1>1, <1>5, <1>6, <1>7, <1>8 DEF Parts

\* The realm refuses it: nobody is in the world yet, and the limit is far.
LEMMA RefusedStream ==
    ASSUME StreamInv, FewStrays, toRealm # <<>>, toRealm' = Tail(toRealm), Head(toRealm) = "login",
           Answers("refused"), Disturb, UNCHANGED <<inWorld, strays, sent>>
    PROVE  Parts' /\ UNCHANGED shown
<1>0. /\ TypeInv /\ KeyInv /\ Phases /\ Requests /\ Holding /\ Attached /\ InTurn
      /\ OnTheWay /\ StillShows /\ Completed /\ LiveStaysAttached
    BY DEF StreamInv, Parts
<1> DEFINE p == Packet("refused", inWorld, 0, 1)
<1>1. replay = <<>> /\ Handles(p, <<>>) /\ disturbed' = disturbed \cup {login}
    BY DEF Answers, Disturb
<1>2. p \in OwnedPackets /\ p.kind = "refused"
    BY AnswerOwned DEF Kinds
<1> HIDE DEF p
<1>3. Queued("login") /\ OnlyQueries' /\ ~OnlyQueries
    BY <1>0, RequestTaken DEF OnlyQueries
<1>4. /\ handler = "idle" /\ inWorld = NoLogin /\ client \in {"entering", "gone"} /\ syncPending
      /\ ~Waits("refused")
    BY <1>0, <1>3 DEF Requests, Holding
<1>5. strays \in Nat /\ strays <= MaxStrays /\ MaxStrays \in Nat /\ DeferLimit \in Nat /\ Len(deferred) \in Nat
    BY <1>0, EntryBounds DEF TypeInv, RelayTypes, Owned, RealmTypes
<1>6. Len(deferred) + 1 < DeferLimit
    BY <1>0, <1>4, <1>5 DEF Holding, FewStrays
<1>7. /\ deferred' = Append(deferred, p) /\ replay' = <<>>
      /\ relay = "reading" /\ relay' \in {"reading", "query"}
      /\ UNCHANGED <<boundVars, syncPending, client, shown, pendingInstance, created, quests,
                     questsShown, released>>
    BY <1>1, <1>2, <1>4, <1>5, <1>6, PutBy
<1>8. Requests'
  <2>1. (\A i, j \in 1..Len(toRealm) : toRealm[i] # "query" /\ toRealm[j] # "query" => i = j)'
      BY <1>0, RequestTaken
  <2> QED BY <1>3, <1>4, <1>7, <2>1 DEF Requests, OnlyQueries
<1>9. Parts'
    BY <1>1, <1>2, <1>3, <1>4, <1>5, <1>7, <1>8, NobodysStream
<1> QED BY <1>7, <1>9

\* Without a character in the world the query is not answered.
LEMMA UnansweredStream ==
    ASSUME StreamInv, toRealm # <<>>, toRealm' = Tail(toRealm), Head(toRealm) = "query",
           Silent, UNCHANGED <<inWorld, strays, sent>>
    PROVE  Parts' /\ UNCHANGED shown
<1>0. /\ TypeInv /\ KeyInv /\ Phases /\ Requests /\ Holding /\ Attached /\ InTurn
      /\ OnTheWay /\ StillShows /\ Completed /\ LiveStaysAttached
    BY DEF StreamInv, Parts
<1>1. UNCHANGED <<client, address, login, handler, keys, instanceKey, instanceWorld, pendingInstance,
                  syncPending, quests, created, stage, presents, broken, relay, deferred, replay,
                  inWorld, strays, sent, shown, questsShown, released, disturbed>>
    BY DEF Silent, clientVars, sessionVars, connVars, relayVars, histVars
<1>2. \A k : k # "query" => (Queued(k)' <=> Queued(k))
    BY <1>0, RequestTaken
<1>3. /\ \A k : Waits(k)' <=> Waits(k)
      /\ Held' = Held /\ (MayShow' <=> MayShow)
    BY <1>1 DEF Waits, Held, MayShow, Opens
<1>4. Requests'
  <2>1. (\A i, j \in 1..Len(toRealm) : toRealm[i] # "query" /\ toRealm[j] # "query" => i = j)'
      BY <1>0, RequestTaken
  <2> QED BY <1>0, <1>1, <1>2, <2>1 DEF Requests
<1>5. Phases' /\ Holding' /\ Attached'
    BY <1>0, <1>1, <1>2, <1>3 DEF Phases, Holding, Attached, OnlyQueries
<1>6. StillShows' /\ OnTheWay' /\ InTurn' /\ Completed' /\ LiveStaysAttached'
    BY <1>0, <1>1, <1>3 DEF StillShows, OnTheWay, InTurn, Completed, QuestsReachPlayer, LiveStaysAttached
<1> QED BY <1>1, <1>4, <1>5, <1>6 DEF Parts

\* The completed quests end the wait for them: what was put by is to be
\* replayed.  Later ones, of a query that a new limit or login overtook, are
\* stored as they come.
LEMMA QuestsStream ==
    ASSUME StreamInv, toRealm # <<>>, toRealm' = Tail(toRealm), Head(toRealm) = "query",
           inWorld # NoLogin, Answers("quests"), UNCHANGED <<inWorld, strays, sent, disturbed>>
    PROVE  Parts' /\ UNCHANGED shown
<1>0. /\ TypeInv /\ KeyInv /\ Phases /\ Requests /\ Holding /\ Attached /\ InTurn
      /\ OnTheWay /\ StillShows /\ Completed /\ LiveStaysAttached
    BY DEF StreamInv, Parts
<1> DEFINE p == Packet("quests", inWorld, 0, 1)
<1>1. replay = <<>> /\ Handles(p, <<>>)
    BY DEF Answers
<1>2. p \in OwnedPackets /\ p.kind = "quests" /\ p.parts = 1
    BY AnswerOwned DEF Kinds
<1> HIDE DEF p
<1>3. relay = "reading" /\ UNCHANGED boundVars
    BY <1>1 DEF Handles, boundVars, connVars
<1>4. deferred \in Seq(OwnedPackets) /\ strays \in Nat
    BY <1>0, EntryBounds DEF TypeInv, RelayTypes, Owned, RealmTypes
<1>5. /\ relay' \in {"reading", "query"} /\ syncPending' = FALSE
      /\ deferred' = <<>> /\ Held' = Held /\ replay' = Held
      /\ quests' = TRUE /\ questsShown' = (questsShown \/ created)
      /\ UNCHANGED <<client, shown, pendingInstance, created, released>>
  <2>1. CASE syncPending
    <3>1. Defer(p, <<>>)
        BY <1>1, <2>1 DEF Handles
    <3>2. EndSync(<<>> \o deferred) /\ SyncCompletedQuests /\ UNCHANGED released
        BY <1>2, <3>1 DEF Defer
    <3>3. relay' \in {"reading", "query"} /\ UNCHANGED <<created, client, shown, pendingInstance>>
        BY <3>1 DEF Defer
    <3>4. <<>> \o deferred = deferred
        BY <1>4
    <3> QED BY <2>1, <3>2, <3>3, <3>4 DEF EndSync, SyncCompletedQuests, Held
  <2>2. CASE ~syncPending
    <3>1. /\ replay' = <<>> /\ SyncCompletedQuests
          /\ UNCHANGED <<created, client, shown, pendingInstance, relay, syncPending, deferred, released>>
        BY <1>1, <1>2, <2>2 DEF Handles, Translate
    <3>2. deferred = <<>>
        BY <1>0, <2>2 DEF Holding
    <3> QED BY <1>0, <1>1, <1>3, <2>2, <3>1, <3>2 DEF SyncCompletedQuests, Held, TypeInv, RelayTypes
  <2> QED BY <2>1, <2>2
<1>6. /\ inWorld = login /\ handler = "idle" /\ client \notin {"list", "returning", "waiting"}
      /\ ~Waits("refused")
    BY <1>0, InWorld DEF Phases, Holding
<1>7. \A k : k # "query" => (Queued(k)' <=> Queued(k))
    BY <1>0, RequestTaken
<1>8. MayShow' <=> MayShow
    BY <1>3 DEF MayShow, Opens, boundVars
<1>9. Phases'
    BY <1>0, <1>3, <1>5, <1>6 DEF Phases, boundVars
<1>10. Requests'
  <2>1. (\A i, j \in 1..Len(toRealm) : toRealm[i] # "query" /\ toRealm[j] # "query" => i = j)'
      BY <1>0, RequestTaken
  <2> QED BY <1>0, <1>3, <1>5, <1>6, <1>7, <2>1 DEF Requests, boundVars
<1>11. Holding'
  <2>1. \A i \in 1..Len(Held) : Held[i].kind \in {"world", "stray"}
    <3>1. CASE syncPending
        BY <1>0, <1>6, <3>1 DEF Holding, Waits, Held
    <3>2. CASE ~syncPending
        BY <1>0, <3>2 DEF Holding, Held
    <3> QED BY <3>1, <3>2
  <2>2. \A k : ~Waits(k)'
      BY <1>5 DEF Waits
  <2>3. \A i \in 1..Len(deferred') : FALSE
      BY <1>5
  <2> QED BY <1>5, <1>6, <2>1, <2>2, <2>3 DEF Holding
<1>12. Attached'
  <2>1. client \notin {"entering", "gone"} => ~syncPending
      BY <1>0, <1>6 DEF Holding, TypeInv, RelayTypes, ClientStates
  <2> QED BY <1>0, <1>3, <1>5, <1>6, <2>1 DEF Attached, boundVars
<1>13. StillShows' /\ InTurn' /\ LiveStaysAttached'
    BY <1>0, <1>3, <1>5, <1>6, <1>8 DEF StillShows, InTurn, LiveStaysAttached, boundVars
<1>14. OnTheWay'
    BY <1>0, <1>3, <1>5, <1>8 DEF OnTheWay, boundVars
<1>15. Completed'
    BY <1>0, <1>3, <1>5 DEF Completed, QuestsReachPlayer, boundVars
<1> QED BY <1>5, <1>9, <1>10, <1>11, <1>12, <1>13, <1>14, <1>15 DEF Parts

\* The realm lets the character go, or lists the characters again: a request
\* that nobody's queue holds anything for.
LEMMA LeftStream ==
    ASSUME StreamInv, toRealm # <<>>, toRealm' = Tail(toRealm), UNCHANGED <<strays, sent, disturbed>>,
           \/ Head(toRealm) = "logout" /\ Answers("logout") /\ inWorld' = NoLogin
           \/ Head(toRealm) = "enum" /\ Answers("list") /\ UNCHANGED inWorld
    PROVE  Parts' /\ UNCHANGED shown
<1>0. /\ TypeInv /\ KeyInv /\ Phases /\ Requests /\ Holding /\ Attached /\ InTurn
      /\ OnTheWay /\ StillShows /\ Completed /\ LiveStaysAttached
    BY DEF StreamInv, Parts
<1>1. PICK kind \in {"logout", "list"} :
          /\ Answers(kind)
          /\ kind = "logout" => Queued("logout") /\ inWorld' = NoLogin
          /\ kind = "list" => Queued("enum") /\ inWorld' = inWorld
    BY <1>0, RequestTaken
<1>2. OnlyQueries'
    BY <1>0, RequestTaken
<1> DEFINE p == Packet(kind, inWorld, 0, 1)
<1>3. p.kind = kind /\ p.parts = 1 /\ Handles(p, <<>>) /\ replay = <<>>
  <2>1. kind \in Kinds \ {"world"}
      BY DEF Kinds
  <2> QED BY <1>1, <2>1, AnswerOwned DEF Answers
<1> HIDE DEF p
<1>4. /\ ~syncPending /\ deferred = <<>> /\ inWorld' = NoLogin
      /\ kind = "logout" => inWorld = login /\ client \in {"leaving", "gone"} /\ handler = "idle"
      /\ kind = "list" => inWorld = NoLogin /\ client \in {"waiting", "gone"}
    BY <1>0, <1>1 DEF Requests, Holding
<1>5. relay = "reading" /\ Translate(p, <<>>) /\ UNCHANGED boundVars
    BY <1>3, <1>4 DEF Handles, boundVars, connVars
<1>6. /\ replay' = <<>>
      /\ UNCHANGED <<syncPending, deferred, released, created, quests, questsShown, shown, pendingInstance>>
      /\ kind = "logout" => relay' = "logout" /\ TellClient({"leaving"}, "returning")
      /\ kind = "list" => relay' = "reading" /\ TellClient({"waiting"}, "list")
  <2>1. CASE kind = "logout"
    <3>1. p.kind = "logout" /\ p.parts = 1
        BY <1>3, <2>1
    <3>2. /\ replay' = <<>> /\ UNCHANGED <<syncPending, deferred, released>>
          /\ UNCHANGED <<created, quests, questsShown, shown, pendingInstance>>
        BY <1>5, <3>1 DEF Translate
    <3>3. relay' = "logout" /\ TellClient({"leaving"}, "returning")
        BY <1>5, <3>1 DEF Translate
    <3> QED BY <2>1, <3>2, <3>3
  <2>2. CASE kind = "list"
    <3>1. p.kind = "list" /\ p.parts = 1
        BY <1>3, <2>2
    <3>2. /\ replay' = <<>> /\ UNCHANGED <<syncPending, deferred, released>>
          /\ UNCHANGED <<created, quests, questsShown, shown, pendingInstance>>
        BY <1>5, <3>1 DEF Translate
    <3>3. relay' = "reading" /\ TellClient({"waiting"}, "list")
        BY <1>5, <3>1 DEF Translate
    <3> QED BY <2>2, <3>2, <3>3
  <2> QED BY <2>1, <2>2
<1>7. \/ client = "gone" /\ client' = "gone"
      \/ kind = "logout" /\ client = "leaving" /\ client' = "returning"
      \/ kind = "list" /\ client = "waiting" /\ client' = "list"
    BY <1>4, <1>6 DEF TellClient
<1>8. /\ \A k : ~Waits(k)'
      /\ Held' = Held /\ (MayShow' <=> MayShow)
    BY <1>3, <1>4, <1>5, <1>6 DEF Waits, Held, MayShow, Opens, boundVars
<1>9. Phases'
    BY <1>0, <1>4, <1>5, <1>6, <1>7 DEF Phases, boundVars
<1>10. Requests'
  <2>1. (\A i, j \in 1..Len(toRealm) : toRealm[i] # "query" /\ toRealm[j] # "query" => i = j)'
      BY <1>0, RequestTaken
  <2> QED BY <1>2, <1>7, <2>1 DEF Requests, OnlyQueries
<1>11. Holding'
  <2>1. strays \in Nat /\ Len(deferred') = 0
      BY <1>0, <1>4, <1>6, EntryBounds DEF TypeInv, RealmTypes
  <2>2. \A i \in 1..Len(<<>>) : FALSE
      OBVIOUS
  <2> QED BY <1>4, <1>6, <1>8, <2>1, <2>2 DEF Holding
<1>12. Attached'
    BY <1>0, <1>4, <1>5, <1>6, <1>7 DEF Attached, boundVars
<1>13. StillShows' /\ InTurn' /\ LiveStaysAttached'
    BY <1>0, <1>5, <1>6, <1>7, <1>8 DEF StillShows, InTurn, LiveStaysAttached, boundVars
<1>14. OnTheWay' /\ Completed'
    BY <1>0, <1>4, <1>5, <1>6, <1>8 DEF OnTheWay, Completed, QuestsReachPlayer, boundVars
<1> QED BY <1>6, <1>9, <1>10, <1>11, <1>12, <1>13, <1>14 DEF Parts

\* What the realm does with the oldest request.
LEMMA RealmHandlesStream ==
    ASSUME StreamInv, FewStrays, RealmHandles
    PROVE  Parts' /\ UNCHANGED <<sent, shown>>
<1>1. toRealm # <<>> /\ toRealm' = Tail(toRealm) /\ UNCHANGED <<strays, sent>>
    BY DEF RealmHandles
<1>2. CASE Head(toRealm) = "login" /\ inWorld' = login /\ Silent
    BY <1>1, <1>2, AcceptedStream
<1>3. CASE Head(toRealm) = "login" /\ Answers("refused") /\ Disturb /\ UNCHANGED inWorld
    BY <1>1, <1>3, RefusedStream
<1>4. CASE Head(toRealm) = "query" /\ inWorld # NoLogin /\ Answers("quests") /\ UNCHANGED <<disturbed, inWorld>>
    BY <1>1, <1>4, QuestsStream
<1>5. CASE Head(toRealm) = "query" /\ Silent /\ UNCHANGED inWorld
    BY <1>1, <1>5, UnansweredStream
<1>6. CASE /\ UNCHANGED disturbed
           /\ \/ Head(toRealm) = "logout" /\ Answers("logout") /\ inWorld' = NoLogin
              \/ Head(toRealm) = "enum" /\ Answers("list") /\ UNCHANGED inWorld
    BY <1>1, <1>6, LeftStream
<1> QED BY <1>2, <1>3, <1>4, <1>5, <1>6 DEF RealmHandles

-----------------------------------------------------------------------------
(* Every step keeps the stream whole, and is a step of LoginStream or none. *)

\* What leaves the history of the stream alone is no step of it.
LEMMA NoStreamStep == UNCHANGED <<sent, shown>> => StreamStep
    BY DEF StreamStep, Stream!streamVars

\* Nothing changes.
LEMMA StreamStutter ==
    ASSUME StreamInv, UNCHANGED vars
    PROVE  Parts' /\ StreamStep
<1>1. UNCHANGED <<client, address, login, handler, keys, instanceKey, instanceWorld, pendingInstance,
                  syncPending, quests, created, stage, presents, broken, relay, deferred, replay, toRealm,
                  inWorld, strays, sent, shown, questsShown, released, disturbed>>
    BY DEF vars, clientVars, sessionVars, connVars, relayVars, realmVars, histVars
<1>2. /\ \A k : Waits(k)' <=> Waits(k)
      /\ \A k : Queued(k)' <=> Queued(k)
      /\ Held' = Held /\ (MayShow' <=> MayShow)
    BY <1>1 DEF Waits, Queued, Held, MayShow, Opens
<1>3. Phases' /\ Requests' /\ Holding' /\ Attached'
    BY <1>1, <1>2 DEF StreamInv, Parts, Phases, Requests, Holding, Attached, OnlyQueries
<1>4. StillShows' /\ OnTheWay' /\ InTurn' /\ Completed' /\ LiveStaysAttached'
    BY <1>1, <1>2 DEF StreamInv, Parts, StillShows, OnTheWay, InTurn, Completed, QuestsReachPlayer,
                      LiveStaysAttached
<1> QED BY <1>1, <1>3, <1>4, NoStreamStep DEF Parts

\* Each step, one actor after the other.
LEMMA StreamNextKept ==
    ASSUME StreamInv, FewStrays, [Next]_vars
    PROVE  StreamInv' /\ StreamStep
<1>1. TypeInv' /\ KeyInv'
    BY TypeNext, KeyNext DEF StreamInv
<1>2. ASSUME Handler PROVE Parts' /\ StreamStep
    BY <1>2, PlayerLoginStream, PlayerLoginUnknownStream, RegisterStream, ConnectToStream, ForwardStream,
       NoStreamStep DEF Handler
<1>3. ASSUME NEW c \in Conns, Connect(c) \/ Instance(c) \/ Break(c)
      PROVE  Parts' /\ StreamStep
    BY <1>3, OpeningStream, ClaimStream, ActivateStream, ClearStream, BreakStream, NoStreamStep DEF Instance
<1>4. ASSUME Relay PROVE Parts' /\ StreamStep
    BY <1>1, <1>4, ReplayStream, WriteQueryStream, LogoutStream, NoStreamStep DEF Relay
<1>5. ASSUME RealmHandles \/ RealmSends \/ RealmStrays PROVE Parts' /\ StreamStep
    BY <1>1, <1>5, RealmHandlesStream, RealmSendsStream, StraysStream, NoStreamStep
<1>6. Parts' /\ StreamStep
    BY <1>2, <1>3, <1>4, <1>5, StreamStutter DEF Next
<1> QED BY <1>1, <1>6 DEF StreamInv

\* The numbers of the two queues one behind the other are those of the one
\* that holds something.
LEMMA NothingLostKept == StreamInv => NothingLost
<1> SUFFICES ASSUME StreamInv, inWorld # NoLogin, inWorld \notin disturbed
             PROVE  sent[inWorld] = shown[inWorld] \o pendingInstance \o Numbers(replay) \o Numbers(deferred)
    BY DEF NothingLost
<1>1. inWorld = login /\ login \in Logins /\ login # NoLogin
    BY InWorld
<1>2. TypeInv /\ Phases /\ Holding /\ StillShows /\ OnTheWay /\ InTurn
    BY DEF StreamInv, Parts
<1>3. MayShow
    BY <1>1, <1>2 DEF Phases, StillShows
<1> DEFINE now == Len(shown[login]) + 1
           upTo == Len(shown[login]) + Len(pendingInstance) + 1
<1>4. /\ Follows(shown[login], login, 1) /\ Follows(sent[login], login, 1)
      /\ Follows(pendingInstance, login, now)
      /\ Carries(Held, login, upTo, Len(sent[login]) + 1)
    BY <1>1, <1>2, <1>3 DEF InTurn, OnTheWay
<1>5. /\ Len(shown[login]) \in Nat /\ Len(pendingInstance) \in Nat /\ Len(sent[login]) \in Nat
      /\ deferred \in Seq(OwnedPackets) /\ replay \in Seq(OwnedPackets)
    BY <1>1, <1>2 DEF TypeInv, RelayTypes, RealmTypes, Owned
<1> DEFINE seen == shown[login] \o pendingInstance
<1>6. Follows(seen, login, 1) /\ Len(seen) = Len(shown[login]) + Len(pendingInstance)
  <2>1. now = 1 + Len(shown[login]) /\ 1 \in Nat
      BY <1>5
  <2> QED BY <1>4, <2>1, FollowsJoined
<1>7. upTo \in Nat \ {0} /\ upTo = 1 + Len(seen)
    BY <1>5, <1>6
<1> HIDE DEF seen, upTo, now
<1>8. Held \in Seq(OwnedPackets)
    BY <1>5 DEF Held
<1>9. /\ Follows(Numbers(Held), login, upTo) /\ Len(Numbers(Held)) \in Nat
      /\ Len(Numbers(Held)) = (Len(sent[login]) + 1) - upTo
  <2> DEFINE last == Len(sent[login]) + 1
  <2>1. Carries(Held, login, upTo, last)
      BY <1>4
  <2> HIDE DEF last
  <2>2. Follows(Numbers(Held), login, upTo) /\ Len(Numbers(Held)) = last - upTo
      BY <1>1, <1>7, <1>8, <2>1, NumbersFollow
  <2>3. Len(Numbers(Held)) \in Nat
      BY <2>2 DEF Follows
  <2> QED BY <2>2, <2>3 DEF last
<1>10. seen \o Numbers(Held) = sent[login]
  <2>1. /\ Follows(seen \o Numbers(Held), login, 1)
        /\ Len(seen \o Numbers(Held)) = Len(seen) + Len(Numbers(Held))
    <3>1. Follows(Numbers(Held), login, 1 + Len(seen)) /\ 1 \in Nat
        BY <1>7, <1>9
    <3> QED BY <1>6, <3>1, FollowsJoined
  <2>2. Len(seen) + Len(Numbers(Held)) = Len(sent[login])
    <3>1. Len(seen) \in Nat
        BY <1>5, <1>6
    <3> QED BY <1>5, <1>7, <1>9, <3>1
  <2> QED BY <1>4, <2>1, <2>2, FollowsSame
<1>11. Numbers(<<>>) = <<>>
  <2>1. <<>> \in Seq(OwnedPackets) /\ \A i \in 1..Len(<<>>) : <<>>[i].kind # "world"
      OBVIOUS
  <2>2. Carries(<<>>, login, 1, 1)
      BY <2>1, CarriesNone
  <2> DEFINE q == <<>>
  <2> HIDE DEF q
  <2>3. Carries(q, login, 1, 1) /\ q \in Seq(OwnedPackets) /\ 1 \in Nat \ {0}
      BY <2>1, <2>2 DEF q
  <2>4. Follows(Numbers(q), login, 1) /\ Len(Numbers(q)) = 1 - 1
      BY <1>1, <2>3, NumbersFollow
  <2> QED BY <2>4 DEF Follows, q
<1>12. /\ seen \in Seq(Numbered) /\ Numbers(Held) \in Seq(Numbered) /\ sent[login] \in Seq(Numbered)
    BY <1>4, <1>6, <1>9 DEF Follows
<1>13. CASE syncPending
  <2>1. replay = <<>> /\ Held = deferred
      BY <1>2, <1>13 DEF Holding, Held
  <2>2. seen \o <<>> = seen
      BY <1>12
  <2> QED BY <1>1, <1>10, <1>11, <2>1, <2>2 DEF seen
<1>14. CASE ~syncPending
  <2>1. deferred = <<>> /\ Held = replay
      BY <1>2, <1>14 DEF Holding, Held
  <2>2. sent[login] \o <<>> = sent[login]
      BY <1>12
  <2> QED BY <1>1, <1>10, <1>11, <2>1, <2>2 DEF seen
<1> QED BY <1>13, <1>14

\* Nothing the realm sends to a login is lost, reordered or doubled on its way
\* through the wait for the instance connection, the deferred packets and the
\* ones to replay (relayLegacyWorld, sendInstance, activateInstance).
THEOREM NothingIsLost == ASSUME FewStrays PROVE Spec => []NothingLost
<1>1. StreamInv /\ [Next]_vars => StreamInv'
    BY StreamNextKept
<1> QED BY <1>1, StreamInvInit, NothingLostKept, PTL DEF Spec

\* The connections of a login are shown a beginning of what it was sent:
\* WorldEntry implements LoginStream.
THEOREM StreamImplemented == ASSUME FewStrays PROVE Spec => StreamHonoured
<1>1. Init => Stream!StreamInit
    BY DEF Init, Stream!StreamInit
<1>2. StreamInv /\ [Next]_vars => StreamInv'
    BY StreamNextKept
<1>3. StreamInv /\ [Next]_vars => [Stream!StreamNext]_(Stream!streamVars)
    BY StreamNextKept DEF StreamStep
<1> QED BY <1>1, <1>2, <1>3, StreamInvInit, PTL DEF Spec, StreamHonoured, Stream!StreamSpec

\* The connection of the newest login stays attached until it breaks or a
\* logout ends it (activateInstance, clearInstance).
THEOREM LiveAttached == ASSUME FewStrays PROVE Spec => []LiveStaysAttached
<1>1. StreamInv /\ [Next]_vars => StreamInv'
    BY StreamNextKept
<1>2. StreamInv => LiveStaysAttached
    BY DEF StreamInv, Parts
<1> QED BY <1>1, <1>2, StreamInvInit, PTL DEF Spec

\* The player is created with the completed quests, or gets them when they come
\* (replaceCompletedQuests, the deferral of relayLegacyWorld).
THEOREM QuestsShown == ASSUME FewStrays PROVE Spec => []QuestsReachPlayer
<1>1. StreamInv /\ [Next]_vars => StreamInv'
    BY StreamNextKept
<1>2. StreamInv => QuestsReachPlayer
    BY DEF StreamInv, Parts, Completed
<1> QED BY <1>1, <1>2, StreamInvInit, PTL DEF Spec
=============================================================================
