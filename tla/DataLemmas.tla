------------------------------ MODULE DataLemmas ------------------------------
(***************************************************************************)
(* What the proofs share about natural numbers and queues.  The induction  *)
(* principles of the library are about predicates, which the provers that  *)
(* are used here cannot take as arguments; those of this module are about  *)
(* sets, and follow from Nat being well-founded.                           *)
(***************************************************************************)
EXTENDS Integers, Sequences, SequenceTheorems, NaturalsInduction, WellFoundedInduction, TLAPS

\* A set of natural numbers has a least member.
LEMMA LeastNatural ==
    ASSUME NEW T \in SUBSET Nat, T # {}
    PROVE  \E n \in T : \A m \in T : n <= m
<1> DEFINE R == {ss \in Nat \X Nat : ss[1] < ss[2]}
<1>1. IsWellFoundedOn(R, Nat)
  BY NatLessThanWellFounded DEF OpToRel
<1>2. PICK n \in T : \A m \in T : ~(<<m, n>> \in R)
  BY <1>1, WFMin
<1>3. ASSUME NEW m \in T PROVE n <= m
  <2>1. n \in Nat /\ m \in Nat
    OBVIOUS
  <2>2. m < n => <<m, n>> \in R
    BY <2>1
  <2>3. QED
    BY <1>2, <2>1, <2>2
<1>4. QED
  BY <1>3

\* Induction up to a bound, over the set of the numbers that have a property
LEMMA InductionUpTo ==
    ASSUME NEW N \in Nat, NEW T \in SUBSET (0 .. N), 0 \in T,
           \A n \in T : n < N => n + 1 \in T
    PROVE  T = 0 .. N
<1> DEFINE Missing == (0 .. N) \ T
<1>1. SUFFICES ASSUME Missing # {} PROVE FALSE
  OBVIOUS
<1>2. Missing \in SUBSET Nat
  OBVIOUS
<1> HIDE DEF Missing
<1>3. PICK n \in Missing : \A m \in Missing : n <= m
  BY <1>1, <1>2, LeastNatural
<1>4. n \in 0 .. N /\ n \notin T /\ n # 0
  BY <1>3 DEF Missing
<1>5. n - 1 \in 0 .. N /\ ~(n <= n - 1) /\ n - 1 < N /\ (n - 1) + 1 = n
  BY <1>4
<1>6. n - 1 \in T
  BY <1>3, <1>5 DEF Missing
<1>7. QED
  BY <1>4, <1>5, <1>6

\* A loop of N turns on the members of U: turn n takes what is in fam[n - 1] to what
\* is in fam[n].
IsLoop(N, U, fam, start, turn) ==
    /\ N \in Nat
    /\ \A n \in 0 .. N : fam[n] \subseteq U
    /\ start \in fam[0]
    /\ \A n \in 1 .. N : \A x \in fam[n - 1] : turn[n][x] \in fam[n]

\* What it has after each turn
IsRun(N, fam, start, turn, m) ==
    \A n \in 0 .. N :
       /\ m[n] \in fam[n]
       /\ m[n] = IF n = 0 THEN start ELSE turn[n][m[n - 1]]

\* A loop can be run.
LEMMA LoopRuns ==
    ASSUME NEW N, NEW U, NEW fam, NEW start, NEW turn, IsLoop(N, U, fam, start, turn)
    PROVE  \E m \in [0 .. N -> U] : IsRun(N, fam, start, turn, m)
<1> USE DEF IsLoop
<1> DEFINE Run(m, n) == IsRun(n, fam, start, turn, m)
           Upto == {n \in 0 .. N : \E m \in [0 .. n -> U] : Run(m, n)}
<1>1. 0 \in Upto
  <2> DEFINE m == [k \in 0 .. 0 |-> start]
  <2>1. m \in [0 .. 0 -> U] /\ Run(m, 0)
    BY DEF IsRun
  <2> HIDE DEF m, Run
  <2>2. QED
    BY <2>1
<1>2. ASSUME NEW n \in Upto, n < N PROVE n + 1 \in Upto
  <2>1. PICK m \in [0 .. n -> U] : Run(m, n)
    OBVIOUS
  <2>2. n \in Nat /\ n + 1 \in 1 .. N /\ n + 1 \in 0 .. N /\ (n + 1) - 1 = n
    BY <1>2
  <2> DEFINE next == turn[n + 1][m[n]]
             more == [k \in 0 .. n + 1 |-> IF k <= n THEN m[k] ELSE next]
  <2>3. m[n] \in fam[n]
    BY <2>1, <2>2 DEF IsRun
  <2>4. next \in fam[n + 1] /\ next \in U
    BY <2>2, <2>3
  <2> HIDE DEF next
  <2>5. more \in [0 .. n + 1 -> U]
    BY <2>2, <2>4
  <2>6. ASSUME NEW k \in 0 .. n + 1
        PROVE  /\ more[k] \in fam[k]
               /\ more[k] = IF k = 0 THEN start ELSE turn[k][more[k - 1]]
    <3>1. CASE k \in 0 .. n
      <4>1. more[k] = m[k] /\ (k # 0 => more[k - 1] = m[k - 1])
        BY <2>2, <3>1
      <4> HIDE DEF more
      <4>2. QED
        BY <2>1, <3>1, <4>1 DEF IsRun
    <3>2. CASE k = n + 1
      <4>1. more[k] = next /\ more[k - 1] = m[n] /\ k # 0
        BY <2>2, <3>2
      <4> HIDE DEF more
      <4>2. QED
        BY <2>4, <3>2, <4>1 DEF next
    <3>3. QED
      BY <2>2, <3>1, <3>2
  <2>7. Run(more, n + 1)
    BY <2>6 DEF IsRun
  <2> HIDE DEF more, Run
  <2>8. QED
    BY <2>2, <2>5, <2>7
<1>3. Upto = 0 .. N
  <2> HIDE DEF Upto
  <2>1. Upto \in SUBSET (0 .. N)
    BY DEF Upto
  <2>2. QED
    BY <1>1, <1>2, <2>1, InductionUpTo
<1>4. N \in Upto
  <2> HIDE DEF Upto
  <2>1. QED
    BY <1>3
<1>5. QED
  BY <1>4

\* What is added to a queue is its last message, the others keep their place.
LEMMA Added ==
    ASSUME NEW S, NEW q \in Seq(S), NEW e \in S
    PROVE  /\ Append(q, e) \in Seq(S)
           /\ Append(q, e) # <<>>
           /\ q # <<>> => Head(Append(q, e)) = Head(q)
           /\ Len(q) \in Nat
           /\ DOMAIN q = 1 .. Len(q)
           /\ DOMAIN Append(q, e) = 1 .. Len(q) + 1
           /\ \A i \in DOMAIN q : Append(q, e)[i] = q[i] /\ q[i] \in S
           /\ Append(q, e)[Len(q) + 1] = e
<1>1. Append(q, e) \in Seq(S) /\ Len(Append(q, e)) = Len(q) + 1
  BY AppendProperties
<1>2. DOMAIN Append(q, e) = 1 .. Len(Append(q, e))
  BY <1>1, LenProperties
<1>3. DOMAIN q = 1 .. Len(q) /\ \A i \in DOMAIN q : q[i] \in S
  BY LenProperties
<1>4. QED
  BY <1>1, <1>2, <1>3, AppendProperties, LenProperties, HeadTailAppend

\* What is taken from a queue is its first message, the others go up.
LEMMA Taken ==
    ASSUME NEW S, NEW q \in Seq(S), q # <<>>
    PROVE  /\ Tail(q) \in Seq(S)
           /\ Head(q) \in S
           /\ Head(q) = q[1]
           /\ 1 \in DOMAIN q
           /\ Len(q) \in Nat \ {0}
           /\ DOMAIN q = 1 .. Len(q)
           /\ DOMAIN Tail(q) = 1 .. Len(q) - 1
           /\ \A i \in DOMAIN Tail(q) : /\ i \in Nat /\ i + 1 \in DOMAIN q
                                        /\ Tail(q)[i] = q[i + 1]
<1>1. Tail(q) \in Seq(S) /\ Len(Tail(q)) = Len(q) - 1
  BY HeadTailProperties
<1>2. DOMAIN Tail(q) = 1 .. Len(Tail(q))
  BY <1>1, LenProperties
<1>3. Len(q) \in Nat \ {0} /\ DOMAIN q = 1 .. Len(q)
  BY LenProperties, EmptySeq
<1>4. QED
  BY <1>1, <1>2, <1>3, HeadTailProperties

=============================================================================
