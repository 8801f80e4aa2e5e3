---------------------------- MODULE TripFeeds_proofs ----------------------------
(***************************************************************************)
(* What is proved of TripFeeds, for any trip, any feeds of the three       *)
(* connectors and any sequence of them: every event navitia is told of has *)
(* a time and a delay, the stops it is told can be driven, the same feed   *)
(* again is no news, the delays account for the times, and the database    *)
(* has what the feed says.                                                 *)
(***************************************************************************)
EXTENDS TripFeeds, DataLemmas, TLAPS

-----------------------------------------------------------------------------
(***************************************************************************)
(* Sequences                                                               *)
(***************************************************************************)

\* What the loop has kept after each of its turns
OnlyRun(S, s, I, f) ==
    /\ s \in Seq(S) /\ f \in [0 .. Len(s) -> Seq(S)]
    /\ f[0] = <<>>
    /\ \A n \in 1 .. Len(s) : f[n] = IF n \in I THEN Append(f[n - 1], s[n]) ELSE f[n - 1]
    /\ Only(s, I) = f[Len(s)]

LEMMA OnlyRuns ==
    ASSUME NEW S, NEW s \in Seq(S), NEW I
    PROVE  \E f : OnlyRun(S, s, I, f)
<1> DEFINE N == Len(s)
           Body(m, n) == CASE n = 0 -> <<>>
                           [] n > 0 /\ n \in I -> Append(m[n - 1], s[n])
                           [] OTHER -> m[n - 1]
           fam == [n \in 0 .. N |-> Seq(S)]
           turn == [n \in 1 .. N |-> [x \in Seq(S) |-> IF n \in I THEN Append(x, s[n]) ELSE x]]
<1>1. N \in Nat /\ DOMAIN s = 1 .. N /\ \A n \in 1 .. N : s[n] \in S
  BY LenProperties
<1>2. IsLoop(N, Seq(S), fam, <<>>, turn)
  <2>1. ASSUME NEW n \in 1 .. N, NEW x \in Seq(S)
        PROVE  (IF n \in I THEN Append(x, s[n]) ELSE x) \in Seq(S)
    BY <1>1, AppendProperties
  <2>2. \A n \in 0 .. N : fam[n] = Seq(S)
    OBVIOUS
  <2>3. \A n \in 1 .. N : n - 1 \in 0 .. N
    BY <1>1
  <2>4. \A n \in 1 .. N : \A x \in Seq(S) :
           turn[n][x] = IF n \in I THEN Append(x, s[n]) ELSE x
    OBVIOUS
  <2>5. 0 \in 0 .. N /\ <<>> \in Seq(S) /\ \A n \in 1 .. N : n \in 0 .. N
    BY <1>1
  <2> HIDE DEF N, fam, turn
  <2>6. \A n \in 1 .. N : \A x \in fam[n - 1] : turn[n][x] \in fam[n]
    <3>1. ASSUME NEW n \in 1 .. N, NEW x \in fam[n - 1] PROVE turn[n][x] \in fam[n]
      <4>1. x \in Seq(S)
        BY <2>2, <2>3
      <4>2. turn[n][x] = IF n \in I THEN Append(x, s[n]) ELSE x
        BY <2>4, <4>1
      <4>3. turn[n][x] \in Seq(S)
        BY <2>1, <4>1, <4>2
      <4>4. fam[n] = Seq(S)
        BY <2>2, <2>5
      <4>5. QED
        BY <4>3, <4>4
    <3>2. QED
      BY <3>1
  <2>7. QED
    BY <1>1, <2>2, <2>5, <2>6 DEF IsLoop
<1>3. PICK m \in [0 .. N -> Seq(S)] : IsRun(N, fam, <<>>, turn, m)
  <2> HIDE DEF N, fam, turn
  <2>1. QED
    BY <1>2, LoopRuns
<1>4. /\ m[0] = <<>>
      /\ \A n \in 1 .. N : m[n] = IF n \in I THEN Append(m[n - 1], s[n]) ELSE m[n - 1]
  <2>1. \A n \in 1 .. N : n - 1 \in 0 .. N /\ n \in 0 .. N /\ n # 0
    BY <1>1
  <2>2. \A n \in 1 .. N : \A x \in Seq(S) :
           turn[n][x] = IF n \in I THEN Append(x, s[n]) ELSE x
    OBVIOUS
  <2> HIDE DEF N, fam, turn
  <2>3. \A n \in 1 .. N : m[n] = turn[n][m[n - 1]] /\ m[n - 1] \in Seq(S)
    BY <1>3, <2>1 DEF IsRun
  <2>4. m[0] = <<>>
    <3>1. 0 \in 0 .. N
      BY <1>1
    <3>2. QED
      BY <1>3, <3>1 DEF IsRun
  <2>5. QED
    BY <2>2, <2>3, <2>4
<1>5. \A n \in 0 .. N : m[n] = Body(m, n)
  <2> HIDE DEF N, fam, turn
  <2>1. ASSUME NEW n \in 0 .. N PROVE m[n] = Body(m, n)
    <3>1. CASE n = 0
      BY <1>4, <3>1
    <3>2. CASE n # 0
      <4>1. n \in 1 .. N /\ n > 0
        BY <1>1, <3>2
      <4>2. QED
        BY <1>4, <3>2, <4>1
    <3>3. QED
      BY <3>1, <3>2
  <2>2. QED
    BY <2>1
<1>6. m = [n \in 0 .. N |-> Body(m, n)]
  BY <1>5
<1> DEFINE Kept == CHOOSE f : f = [n \in 0 .. N |-> Body(f, n)]
<1>7. Kept = [n \in 0 .. N |-> Body(Kept, n)]
  BY <1>6
<1>8. Only(s, I) = Kept[N]
  BY DEF Only
<1>9. /\ Kept[0] = <<>>
      /\ \A n \in 1 .. N : Kept[n] = IF n \in I THEN Append(Kept[n - 1], s[n]) ELSE Kept[n - 1]
  <2> HIDE DEF Kept
  <2>1. ASSUME NEW n \in 0 .. N PROVE Kept[n] = Body(Kept, n)
    BY <1>7
  <2>2. QED
    BY <1>1, <2>1
<1> DEFINE Same == {n \in 0 .. N : Kept[n] = m[n]}
<1>10. Same = 0 .. N
  <2>1. 0 \in Same
    BY <1>1, <1>4, <1>9
  <2>2. ASSUME NEW n \in Same, n < N PROVE n + 1 \in Same
    <3>1. n + 1 \in 1 .. N /\ (n + 1) - 1 = n
      BY <1>1, <2>2
    <3> HIDE DEF N, Kept
    <3>2. Kept[n + 1] = m[n + 1]
      BY <1>4, <1>9, <3>1
    <3>3. QED
      BY <1>1, <3>1, <3>2
  <2>3. Same \in SUBSET (0 .. N)
    OBVIOUS
  <2> HIDE DEF Same, N
  <2>4. QED
    BY <1>1, <2>1, <2>2, <2>3, InductionUpTo
<1>11. Only(s, I) = m[N]
  <2>1. N \in 0 .. N
    BY <1>1
  <2>2. N \in Same
    <3> HIDE DEF Same, N
    <3>1. QED
      BY <1>10, <2>1
  <2>3. QED
    BY <1>8, <2>2
<1>12. QED
  <2> HIDE DEF N
  <2>1. OnlyRun(S, s, I, m)
    BY <1>3, <1>4, <1>11 DEF OnlyRun, N
  <2>2. QED
    BY <2>1

\* What a loop keeps of a sequence is members of it, at the places it does not pass.
LEMMA OnlyTakes ==
    ASSUME NEW S, NEW s \in Seq(S), NEW I
    PROVE  Only(s, I) \in Seq({s[i] : i \in I \cap DOMAIN s})
<1> DEFINE N == Len(s)
           T == {s[i] : i \in I \cap DOMAIN s}
<1>1. N \in Nat /\ DOMAIN s = 1 .. N
  BY LenProperties
<1>2. PICK f : OnlyRun(S, s, I, f)
  BY OnlyRuns
<1> DEFINE Typed == {n \in 0 .. N : f[n] \in Seq(T)}
<1>3. 0 \in Typed
  BY <1>1, <1>2 DEF OnlyRun
<1>4. ASSUME NEW n \in Typed, n < N PROVE n + 1 \in Typed
  <2>1. n + 1 \in 1 .. N /\ (n + 1) - 1 = n /\ n + 1 \in DOMAIN s /\ n + 1 \in 0 .. N
    BY <1>1, <1>4
  <2>2. f[n + 1] = IF n + 1 \in I THEN Append(f[n], s[n + 1]) ELSE f[n]
    BY <1>2, <2>1 DEF OnlyRun
  <2>3. n + 1 \in I => s[n + 1] \in T
    BY <2>1
  <2> HIDE DEF T
  <2>4. f[n + 1] \in Seq(T)
    BY <1>4, <2>2, <2>3, AppendProperties
  <2>5. QED
    BY <2>1, <2>4
<1>5. Typed = 0 .. N
  <2> HIDE DEF Typed, N
  <2>1. Typed \in SUBSET (0 .. N)
    BY DEF Typed
  <2>2. QED
    BY <1>1, <1>3, <1>4, <2>1, InductionUpTo
<1>6. N \in Typed
  BY <1>1, <1>5
<1>7. QED
  BY <1>2, <1>6 DEF OnlyRun

\* What the loop keeps early is the beginning of what it keeps.
LEMMA OnlyBegins ==
    ASSUME NEW S, NEW s, NEW I, NEW f, OnlyRun(S, s, I, f), NEW n \in 0 .. Len(s)
    PROVE  /\ Len(f[n]) \in 0 .. Len(Only(s, I))
           /\ \A k \in 1 .. Len(f[n]) : f[n][k] = Only(s, I)[k]
<1> DEFINE N == Len(s)
           Begins(t) == Len(f[n]) <= Len(t) /\ \A k \in 1 .. Len(f[n]) : f[n][k] = t[k]
           T == {m \in 0 .. N : m < n \/ Begins(f[m])}
<1>1. /\ N \in Nat /\ DOMAIN s = 1 .. N /\ Len(f[n]) \in Nat
      /\ s \in Seq(S) /\ f \in [0 .. N -> Seq(S)]
  BY LenProperties DEF OnlyRun
<1>2. \A m \in 0 .. N : m = n => m \in T
  BY <1>1
<1>3. ASSUME NEW m \in T, m < N PROVE m + 1 \in T
  <2>1. /\ m + 1 \in 1 .. N /\ m + 1 \in 0 .. N /\ (m + 1) - 1 = m
        /\ m \in 0 .. N /\ m + 1 \in DOMAIN s
    BY <1>1, <1>3
  <2>2. CASE m < n
    <3>1. m + 1 < n \/ m + 1 = n
      BY <1>1, <2>1, <2>2
    <3>2. QED
      BY <1>2, <2>1, <3>1
  <2>3. CASE Begins(f[m])
    <3>1. f[m + 1] = IF m + 1 \in I THEN Append(f[m], s[m + 1]) ELSE f[m]
      BY <2>1 DEF OnlyRun
    <3>2. f[m] \in Seq(S) /\ s[m + 1] \in S /\ Len(f[m]) \in Nat
      BY <1>1, <2>1, LenProperties, ElementOfSeq
    <3>3. CASE m + 1 \in I
      <4>1. /\ Len(f[m + 1]) = Len(f[m]) + 1
            /\ \A k \in 1 .. Len(f[m]) : f[m + 1][k] = f[m][k]
        BY <3>1, <3>2, <3>3, AppendProperties
      <4>2. \A k \in 1 .. Len(f[n]) : k \in 1 .. Len(f[m])
        BY <1>1, <2>3, <3>2
      <4>3. Begins(f[m + 1])
        BY <1>1, <2>3, <3>2, <4>1, <4>2
      <4>4. QED
        BY <2>1, <4>3
    <3>4. CASE m + 1 \notin I
      BY <2>1, <2>3, <3>1, <3>4
    <3>5. QED
      BY <3>3, <3>4
  <2>4. QED
    BY <2>2, <2>3, <1>3
<1>4. 0 \in T
  BY <1>1, <1>2
<1>5. T = 0 .. N
  <2>1. T \in SUBSET (0 .. N)
    OBVIOUS
  <2> HIDE DEF T, N
  <2>2. QED
    BY <1>1, <1>3, <1>4, <2>1, InductionUpTo
<1>6. N \in T /\ ~(N < n)
  BY <1>1, <1>5
<1>7. Begins(Only(s, I))
  BY <1>6 DEF OnlyRun
<1>8. Len(Only(s, I)) \in Nat
  <2>1. Only(s, I) \in Seq(S)
    BY <1>1 DEF OnlyRun
  <2>2. QED
    BY <2>1, LenProperties
<1>9. QED
  BY <1>1, <1>7, <1>8

\* Of what a loop keeps of s, a second one keeps the members in K.
KeepsTwice(S, s, I, K, t, J, H) ==
    /\ s \in Seq(S) /\ t = Only(s, I)
    /\ J = {k \in DOMAIN t : t[k] \in K}
    /\ H = {i \in I \cap DOMAIN s : s[i] \in K}

\* To go through what a loop has kept and pass over more is to pass over both at once.
LEMMA OnlyOnly ==
    ASSUME NEW S, NEW s, NEW I, NEW K, NEW t, NEW J, NEW H, KeepsTwice(S, s, I, K, t, J, H)
    PROVE  Only(t, J) = Only(s, H)
<1> DEFINE N == Len(s)
<1>0. /\ s \in Seq(S) /\ t = Only(s, I)
      /\ J = {k \in DOMAIN t : t[k] \in K}
      /\ H = {i \in I \cap DOMAIN s : s[i] \in K}
  BY DEF KeepsTwice
<1>1. N \in Nat /\ DOMAIN s = 1 .. N
  BY <1>0, LenProperties
<1>2. PICK f : OnlyRun(S, s, I, f)
  BY <1>0, OnlyRuns
<1>3. t \in Seq(S) /\ Len(t) \in Nat /\ DOMAIN t = 1 .. Len(t)
  <2>1. t \in Seq(S)
    BY <1>0, <1>1, <1>2 DEF OnlyRun
  <2>2. QED
    BY <2>1, LenProperties
<1>4. PICK g : OnlyRun(S, t, J, g)
  BY <1>3, OnlyRuns
<1>5. PICK h : OnlyRun(S, s, H, h)
  BY <1>0, OnlyRuns
<1> DEFINE T == {n \in 0 .. N : h[n] = g[Len(f[n])]}
<1>6. 0 \in T
  BY <1>1, <1>2, <1>4, <1>5, EmptySeq DEF OnlyRun
<1>7. ASSUME NEW n \in T, n < N PROVE n + 1 \in T
  <2>1. /\ n + 1 \in 1 .. N /\ n + 1 \in 0 .. N /\ (n + 1) - 1 = n
        /\ n \in 0 .. N /\ n + 1 \in DOMAIN s
    BY <1>1, <1>7
  <2>2. f[n] \in Seq(S) /\ s[n + 1] \in S /\ Len(f[n]) \in Nat /\ f[n + 1] \in Seq(S)
    BY <1>2, <2>1, LenProperties, ElementOfSeq DEF OnlyRun
  <2>3. f[n + 1] = IF n + 1 \in I THEN Append(f[n], s[n + 1]) ELSE f[n]
    BY <1>2, <2>1 DEF OnlyRun
  <2>4. h[n + 1] = IF n + 1 \in H THEN Append(h[n], s[n + 1]) ELSE h[n]
    BY <1>5, <2>1 DEF OnlyRun
  <2>5. CASE n + 1 \in I
    <3>1. PICK l : l = Len(f[n]) + 1
      OBVIOUS
    <3>2. Len(f[n + 1]) = l /\ f[n + 1][l] = s[n + 1] /\ l \in Nat /\ l > 0 /\ l - 1 = Len(f[n])
      BY <2>2, <2>3, <2>5, <3>1, AppendProperties
    <3>3. l \in 1 .. Len(t) /\ t[l] = s[n + 1]
      <4>1. PICK j \in 0 .. Len(s) : j = n + 1
        BY <2>1
      <4>2. OnlyRun(S, s, I, f) /\ j \in 0 .. Len(s)
        BY <1>2
      <4>3. Len(f[j]) \in 0 .. Len(Only(s, I)) /\ \A k \in 1 .. Len(f[j]) : f[j][k] = Only(s, I)[k]
        BY ONLY <4>2, OnlyBegins
      <4>4. l \in 0 .. Len(t) /\ \A k \in 1 .. l : f[j][k] = t[k]
        BY <1>0, <3>2, <4>1, <4>3
      <4>5. l \in 1 .. l /\ l \in 1 .. Len(t)
        BY <1>3, <3>2, <4>4
      <4>6. QED
        BY <3>2, <4>1, <4>4, <4>5
    <3>4. l \in J <=> n + 1 \in H
      BY <1>0, <1>3, <2>1, <2>5, <3>3
    <3>5. g[l] = IF l \in J THEN Append(g[l - 1], t[l]) ELSE g[l - 1]
      BY <1>4, <3>3 DEF OnlyRun
    <3>6. h[n] = g[l - 1]
      BY <3>2
    <3>7. h[n + 1] = g[l]
      BY <2>4, <3>3, <3>4, <3>5, <3>6
    <3>8. QED
      BY <2>1, <3>2, <3>7
  <2>6. CASE n + 1 \notin I
    <3>1. n + 1 \notin H
      BY <1>0, <2>6
    <3>2. h[n + 1] = h[n] /\ f[n + 1] = f[n]
      BY <2>3, <2>4, <2>6, <3>1
    <3>3. QED
      BY <2>1, <3>2
  <2>7. QED
    BY <2>5, <2>6
<1>8. T = 0 .. N
  <2>1. T \in SUBSET (0 .. N)
    OBVIOUS
  <2> HIDE DEF T, N
  <2>2. QED
    BY <1>1, <1>6, <1>7, <2>1, InductionUpTo
<1>9. N \in T
  BY <1>1, <1>8
<1>10. h[N] = g[Len(f[N])]
  BY <1>9
<1>11. f[N] = t /\ g[Len(t)] = Only(t, J) /\ h[N] = Only(s, H)
  BY <1>0, <1>2, <1>4, <1>5 DEF OnlyRun
<1>12. QED
  BY <1>10, <1>11

\* A nonempty set of places has a first one and a last one.
LEMMA MinIs ==
    ASSUME NEW T \in SUBSET Nat, T # {}
    PROVE  Min(T) \in T /\ \A x \in T : Min(T) <= x
<1>1. PICK n \in T : \A m \in T : n <= m
  BY LeastNatural
<1>2. QED
  BY <1>1 DEF Min

LEMMA MaxIs ==
    ASSUME NEW N \in Nat, NEW T \in SUBSET (1 .. N), T # {}
    PROVE  Max(T) \in T /\ \A x \in T : x <= Max(T)
<1> DEFINE R == {n \in 0 .. N : \E x \in T : n + x = N}
<1>1. R \in SUBSET Nat /\ R # {}
  <2>1. PICK x \in T : x \in 1 .. N
    OBVIOUS
  <2>2. x \in 1 .. N /\ N - x \in 0 .. N /\ (N - x) + x = N
    BY <2>1
  <2>3. N - x \in R
    BY <2>2
  <2>4. R \in SUBSET Nat
    OBVIOUS
  <2> HIDE DEF R
  <2>5. QED
    BY <2>3, <2>4
<1>2. PICK n \in R : \A m \in R : n <= m
  <2> HIDE DEF R
  <2>1. QED
    BY <1>1, LeastNatural
<1>3. PICK x \in T : n + x = N
  BY <1>2
<1>4. ASSUME NEW y \in T PROVE y <= x
  <2>1. y \in 1 .. N /\ N - y \in R /\ n \in Nat /\ x \in 1 .. N
    BY <1>2
  <2>2. n <= N - y
    BY <1>2, <2>1
  <2>3. QED
    BY <1>3, <2>1, <2>2
<1>5. \A y \in T : x >= y
  BY <1>4
<1>6. Max(T) \in T /\ \A y \in T : Max(T) >= y
  BY <1>5 DEF Max
<1>7. QED
  BY <1>6

\* find_stop() finds a stop of the id, and the one of the order if there is one.
LEMMA FindStopFinds ==
    ASSUME NEW stops, DOMAIN stops \subseteq Nat, NEW id, NEW order,
           NEW i \in DOMAIN stops, stops[i].id = id
    PROVE  \E j \in DOMAIN stops :
              /\ FindStop(stops, id, order) = stops[j] /\ stops[j].id = id
              /\ stops[i].order = order => stops[j].order = order
<1> DEFINE exact == {k \in DOMAIN stops : stops[k].id = id /\ stops[k].order = order}
           same == {k \in DOMAIN stops : stops[k].id = id}
           found == IF exact # {} THEN exact ELSE same
<1>1. FindStop(stops, id, order) = stops[Min(found)]
  <2>1. same # {}
    OBVIOUS
  <2>2. QED
    BY <2>1 DEF FindStop
<1>2. found \in SUBSET Nat /\ found # {}
  OBVIOUS
<1>3. Min(found) \in found
  <2> HIDE DEF found
  <2>1. QED
    BY <1>2, MinIs
<1>4. QED
  BY <1>1, <1>3

\* What find_stop() returns is nothing, or a stop of the id.
LEMMA FindStopIs ==
    ASSUME NEW stops, DOMAIN stops \subseteq Nat, NEW id, NEW order
    PROVE  \/ FindStop(stops, id, order) = None
           \/ \E j \in DOMAIN stops : /\ FindStop(stops, id, order) = stops[j]
                                      /\ stops[j].id = id
<1>1. CASE \E i \in DOMAIN stops : stops[i].id = id
  <2>1. PICK i \in DOMAIN stops : stops[i].id = id
    BY <1>1
  <2>2. PICK j \in DOMAIN stops : /\ FindStop(stops, id, order) = stops[j]
                                  /\ stops[j].id = id
    BY <2>1, FindStopFinds
  <2>3. QED
    BY <2>2
<1>2. CASE ~\E i \in DOMAIN stops : stops[i].id = id
  BY <1>2 DEF FindStop
<1>3. QED
  BY <1>1, <1>2

-----------------------------------------------------------------------------
(***************************************************************************)
(* The TripUpdates that the builders make                                  *)
(***************************************************************************)

Times == OrNone(Int)
Stus == StopTimeUpdates(Times)

LEMMA BaseIs ==
    ASSUME TripMergeAssumption
    PROVE  /\ Base \in Seq([id : STRING, time : [Events -> Int]])
           /\ DOMAIN Base = DOMAIN Trip
<1>1. Trip \in Seq([id : STRING, date : [Events -> Int]]) /\ Day \in Nat \ {0}
  BY DEF TripMergeAssumption
<1>2. DOMAIN Trip = 1 .. Len(Trip) /\ Len(Trip) \in Nat
  BY <1>1, LenProperties
<1>3. ASSUME NEW i \in DOMAIN Trip
      PROVE  Base[i] \in [id : STRING, time : [Events -> Int]]
  <2>1. Trip[i] \in [id : STRING, date : [Events -> Int]]
    BY <1>1, <1>2, ElementOfSeq
  <2>2. \A e \in Events : Trip[i].date[e] % Day \in Int
    BY <1>1, <2>1
  <2>3. QED
    BY <2>1, <2>2 DEF Base
<1>4. QED
  BY <1>2, <1>3 DEF Base

\* What a stop of a TripUpdate is
StopIsWellMade(stu, i) ==
    /\ stu \in Stus
    /\ stu.order = i - 1
    /\ \A e \in Events : stu.status[e] = "update" => stu.delay[e] # None

\* A GTFS-RT feed makes the same TripUpdate of every journey.
LEMMA GtfsIsMade ==
    ASSUME TripFeedsAssumption,
           NEW feed \in GtfsFeeds, NEW k \in DOMAIN Gtfs!MakeTripUpdates(feed)
    PROVE  Gtfs!MakeTripUpdates(feed)[k] =
              [complete |-> FALSE, cancel |-> FALSE,
               stops |-> [i \in DOMAIN Base |-> Gtfs!MakeStopTimeUpdate(feed, Base, i)]]
<1> DEFINE vjs == Gtfs!Vjs(feed)
           I == {n \in DOMAIN vjs : Gtfs!IsEnding(feed, vjs[n])}
<1>1. vjs \in Seq({Base})
  BY DEF Gtfs!Vjs, TripFeedsAssumption
<1>2. Gtfs!Only(vjs, I) = Only(vjs, I)
  BY DEF Gtfs!Only, Only
<1>3. Only(vjs, I) \in Seq({vjs[i] : i \in I \cap DOMAIN vjs})
  <2> HIDE DEF vjs, I
  <2>1. QED
    BY <1>1, OnlyTakes
<1>4. \A i \in DOMAIN Only(vjs, I) : Only(vjs, I)[i] = Base
  <2> HIDE DEF vjs, I
  <2>1. {vjs[i] : i \in I \cap DOMAIN vjs} \subseteq {Base}
    BY <1>1
  <2>2. QED
    BY <1>3, <2>1
<1>5. QED
  BY <1>2, <1>4 DEF Gtfs!MakeTripUpdates

LEMMA GtfsIsWellMade ==
    ASSUME TripMergeAssumption, TripFeedsAssumption,
           NEW feed \in GtfsFeeds, NEW k \in DOMAIN Gtfs!MakeTripUpdates(feed)
    PROVE  IsWellMade(Gtfs!MakeTripUpdates(feed)[k])
<1> DEFINE made == [i \in DOMAIN Base |-> Gtfs!MakeStopTimeUpdate(feed, Base, i)]
<1>1. feed.stops \in Seq(Gtfs!Stops)
  BY DEF TripFeedsAssumption
<1>2. Gtfs!MakeTripUpdates(feed)[k] = [complete |-> FALSE, cancel |-> FALSE, stops |-> made]
  BY GtfsIsMade
<1>3. /\ DOMAIN Base = 1 .. Len(Base) /\ Len(Base) \in Nat
      /\ DOMAIN feed.stops = 1 .. Len(feed.stops) /\ Len(feed.stops) \in Nat
  BY <1>1, BaseIs, LenProperties
<1>4. ASSUME NEW i \in DOMAIN Base
      PROVE  StopIsWellMade(made[i], i) /\ made[i].id = Base[i].id
  <2>1. ASSUME NEW e \in Events PROVE Gtfs!StopDelay(feed, Base, i, e) \in Times
    <3>1. CASE Gtfs!Place(feed, Base, i) < 1
      BY <3>1 DEF Gtfs!StopDelay, Times, OrNone
    <3>2. CASE ~(Gtfs!Place(feed, Base, i) < 1)
      <4>1. Gtfs!Place(feed, Base, i) \in DOMAIN feed.stops
        BY <1>3, <3>2 DEF Gtfs!Place
      <4> DEFINE p == Gtfs!Place(feed, Base, i)
      <4>2. feed.stops[p] \in Gtfs!Stops
        <5> HIDE DEF p
        <5>1. QED
          BY <1>1, <4>1, ElementOfSeq DEF p
      <4>3. feed.stops[p].delay[e] \in Int
        BY <4>2 DEF Gtfs!Stops, Events, Gtfs!Events
      <4>4. QED
        BY <3>2, <4>3 DEF Gtfs!StopDelay, Times, OrNone
    <3>3. QED
      BY <3>1, <3>2
  <2>2. Base[i].id \in STRING /\ i - 1 \in Nat
    <3>1. Base[i] \in [id : STRING, time : [Events -> Int]]
      BY BaseIs, <1>3, ElementOfSeq
    <3>2. QED
      BY <1>3, <3>1
  <2>3. made[i] = [id     |-> Base[i].id,
                   order  |-> i - 1,
                   time   |-> [e \in Events |-> None],
                   delay  |-> [e \in Events |-> Gtfs!StopDelay(feed, Base, i, e)],
                   status |-> [e \in Events |->
                       IF Gtfs!StopDelay(feed, Base, i, e) = None THEN "none" ELSE "update"]]
    BY DEF Gtfs!MakeStopTimeUpdate, Gtfs!Events, Events
  <2>4. QED
    BY <2>1, <2>2, <2>3 DEF StopIsWellMade, Stus, StopTimeUpdates, Statuses, Times, OrNone
<1> HIDE DEF made
<1>5. made \in Seq(Stus) /\ DOMAIN made = DOMAIN Base
  <2>1. DOMAIN made = DOMAIN Base /\ made = [i \in DOMAIN Base |-> made[i]]
    BY DEF made
  <2>2. QED
    BY <1>3, <1>4, <2>1 DEF StopIsWellMade
<1>6. QED
  BY <1>2, <1>4, <1>5 DEF IsWellMade, StopIsWellMade, Stus, Times

LEMMA PivIsWellMade ==
    ASSUME TripFeedsAssumption,
           NEW feed \in PivFeeds, NEW k \in DOMAIN Piv!MakeTripUpdates(feed)
    PROVE  IsWellMade(Piv!MakeTripUpdates(feed)[k])
<1> DEFINE stops == Piv!InterestingStops(feed.stops)
           known == Piv!KnownStops(stops)
           made == [i \in DOMAIN known |-> Piv!MakeStopTimeUpdate(known[i], i)]
           Given == {feed.stops[i] : i \in DOMAIN feed.stops}
           Named == {stop \in Given : stop.id # None}
           new == [complete |-> TRUE, cancel |-> Piv!IsCancelled(feed),
                   stops |-> IF Piv!IsCancelled(feed) THEN <<>> ELSE made]
<1>0. Piv!CanBeMade(feed, known) /\ Piv!MakeTripUpdates(feed)[k] = new
  <2> DEFINE makes == /\ Piv!IsSupported(feed) /\ Len(stops) >= 2
                      /\ Piv!HasVj(feed, stops) /\ Piv!CanBeMade(feed, known)
  <2>1. Piv!MakeTripUpdate(feed, known) = new
    BY DEF Piv!MakeTripUpdate
  <2>2. Piv!MakeTripUpdates(feed) = IF makes THEN <<Piv!MakeTripUpdate(feed, known)>>
                                    ELSE <<>>
    BY DEF Piv!MakeTripUpdates
  <2>3. Piv!MakeTripUpdates(feed) = IF makes THEN <<new>> ELSE <<>>
    BY <2>1, <2>2
  <2> HIDE DEF new
  <2>4. makes => Piv!CanBeMade(feed, known)
    OBVIOUS
  <2> HIDE DEF makes
  <2>5. QED
    BY <2>3, <2>4
<1>1. feed.stops \in Seq(Piv!Stops)
  BY DEF TripFeedsAssumption
<1>2. stops \in Seq(Given)
  <2> DEFINE I == {i \in DOMAIN feed.stops :
                     /\ \E e \in Piv!Events : Piv!Has(feed.stops[i], e)
                     /\ \E j \in 1 .. i : Piv!Has(feed.stops[j], "departure")
                     /\ \E j \in i .. Len(feed.stops) : Piv!Has(feed.stops[j], "arrival")}
  <2>1. stops = Only(feed.stops, I)
    BY DEF Piv!InterestingStops, Piv!Only, Only
  <2> HIDE DEF I, stops
  <2>2. Only(feed.stops, I) \in Seq({feed.stops[i] : i \in I \cap DOMAIN feed.stops})
    BY <1>1, OnlyTakes
  <2>3. {feed.stops[i] : i \in I \cap DOMAIN feed.stops} \subseteq Given
    OBVIOUS
  <2> HIDE DEF Given
  <2>4. QED
    BY <2>1, <2>2, <2>3
<1>3. known \in Seq(Named)
  <2> DEFINE I == {i \in DOMAIN stops : stops[i].id # None}
  <2>1. known = Only(stops, I)
    BY DEF Piv!KnownStops, Piv!Only, Only
  <2> HIDE DEF I, known, stops, Given
  <2>2. Only(stops, I) \in Seq({stops[i] : i \in I \cap DOMAIN stops})
    BY <1>2, OnlyTakes
  <2>3. \A i \in DOMAIN stops : stops[i] \in Given
    BY <1>2
  <2>4. {stops[i] : i \in I \cap DOMAIN stops} \subseteq Named
    BY <2>3 DEF I
  <2> HIDE DEF Named
  <2>5. QED
    BY <2>1, <2>2, <2>4
<1> HIDE DEF known, stops, Named
<1>4. DOMAIN known = 1 .. Len(known) /\ Len(known) \in Nat
  BY <1>3, LenProperties
<1>5. ASSUME Piv!CanBeMade(feed, known), ~Piv!IsCancelled(feed), NEW i \in DOMAIN known
      PROVE  StopIsWellMade(made[i], i)
  <2>1. known[i] \in Named
    BY <1>3, <1>4, ElementOfSeq
  <2>2. PICK j \in DOMAIN feed.stops : known[i] = feed.stops[j] /\ known[i].id # None
    BY <2>1 DEF Named
  <2>3. known[i] \in Piv!Stops
    BY <1>1, <2>2
  <2>4. known[i].id \in STRING /\ i - 1 \in Nat
    BY <1>4, <2>2, <2>3 DEF Piv!Stops, Piv!OrNone
  <2>5. ASSUME NEW e \in Events
        PROVE  LET event == known[i].event[e] IN
               /\ Piv!TimeOf(event) \in Times
               /\ (IF event = None THEN None ELSE event.delay) \in Times
               /\ Piv!StatusOf(event) \in Statuses
               /\ Piv!StatusOf(event) = "update" => event # None /\ event.delay # None
    <3> DEFINE event == known[i].event[e]
    <3>1. event \in Piv!OrNone(Piv!StopEvents)
      BY <2>3 DEF Piv!Stops, Piv!Events, Events
    <3>2. CASE event = None
      BY <3>2 DEF Piv!TimeOf, Piv!StatusOf, Statuses, Times, OrNone
    <3>3. CASE event # None
      <4>1. event \in Piv!StopEvents
        BY <3>1, <3>3 DEF Piv!OrNone
      <4>2. event.time \in Times /\ event.delay \in Times
        <5> HIDE DEF event
        <5>1. QED
          BY <4>1 DEF Piv!StopEvents, Piv!OrNone, Times, OrNone
      <4>3. \E s \in DOMAIN Piv!Statuses : event.status \in Piv!Statuses[s]
        BY <1>5, <3>3 DEF Piv!CanBeMade, Piv!IsManaged, Piv!Events, Events
      <4>4. DOMAIN Piv!Statuses = Statuses
        BY DEF Piv!Statuses, Statuses
      <4>5. /\ Piv!StatusOf(event) \in DOMAIN Piv!Statuses
            /\ event.status \in Piv!Statuses[Piv!StatusOf(event)]
        <5> HIDE DEF event
        <5>1. QED
          BY <3>3, <4>3 DEF Piv!StatusOf
      <4>6. Piv!StatusOf(event) = "update" => event.delay # None
        BY <2>2, <3>3, <4>5 DEF TripFeedsAssumption
      <4> HIDE DEF event
      <4>7. QED
        BY <3>3, <4>2, <4>4, <4>5, <4>6 DEF Piv!TimeOf, event
    <3>4. QED
      BY <3>2, <3>3
  <2>6. made[i] = [id     |-> known[i].id,
                   order  |-> i - 1,
                   time   |-> [e \in Events |-> Piv!TimeOf(known[i].event[e])],
                   delay  |-> [e \in Events |-> IF known[i].event[e] = None THEN None
                                                ELSE known[i].event[e].delay],
                   status |-> [e \in Events |-> Piv!StatusOf(known[i].event[e])]]
    BY DEF Piv!MakeStopTimeUpdate, Piv!Events, Events
  <2>7. QED
    BY <2>4, <2>5, <2>6 DEF StopIsWellMade, Stus, StopTimeUpdates, Statuses, Times, OrNone
<1> HIDE DEF made
<1>6. Piv!CanBeMade(feed, known) /\ ~Piv!IsCancelled(feed) =>
         made \in Seq(Stus) /\ DOMAIN made = DOMAIN known
  <2>1. DOMAIN made = DOMAIN known /\ made = [i \in DOMAIN known |-> made[i]]
    BY DEF made
  <2>2. QED
    BY <1>4, <1>5, <2>1 DEF StopIsWellMade
<1>7. /\ Piv!MakeTripUpdates(feed)[k].complete = TRUE
      /\ Piv!MakeTripUpdates(feed)[k].cancel = Piv!IsCancelled(feed)
      /\ Piv!MakeTripUpdates(feed)[k].stops = IF Piv!IsCancelled(feed) THEN <<>> ELSE made
  BY <1>0
<1>8. Piv!IsCancelled(feed) \in BOOLEAN
  BY DEF Piv!IsCancelled
<1>9. CASE Piv!IsCancelled(feed)
  <2>1. Piv!MakeTripUpdates(feed)[k].stops = <<>>
    BY <1>7, <1>9
  <2>2. <<>> \in Seq(StopTimeUpdates(OrNone(Int))) /\ DOMAIN <<>> = {}
    BY EmptySeq
  <2>3. QED
    BY <1>7, <1>8, <2>1, <2>2 DEF IsWellMade
<1>10. CASE ~Piv!IsCancelled(feed)
  BY <1>0, <1>5, <1>6, <1>7, <1>8, <1>10 DEF IsWellMade, StopIsWellMade, Stus, Times
<1>11. QED
  BY <1>9, <1>10

\* What a builder makes of a feed can be merged.
LEMMA BuiltIsWellMade ==
    ASSUME TripMergeAssumption, TripFeedsAssumption,
           NEW feed \in Feeds, NEW update \in Range(TripUpdates[feed])
    PROVE  IsWellMade(update)
<1>1. PICK k \in DOMAIN TripUpdates[feed] : update = TripUpdates[feed][k]
  BY DEF Range
<1>2. CASE feed \in GtfsFeeds
  <2>1. TripUpdates[feed] = Gtfs!MakeTripUpdates(feed)
    BY <1>2 DEF TripUpdates, TripFeedsAssumption
  <2>2. QED
    BY <1>1, <1>2, <2>1, GtfsIsWellMade
<1>3. CASE feed \notin GtfsFeeds /\ feed \in PivFeeds
  <2>1. TripUpdates[feed] = Piv!MakeTripUpdates(feed)
    BY <1>3 DEF TripUpdates, TripFeedsAssumption
  <2>2. QED
    BY <1>1, <1>3, <2>1, PivIsWellMade
<1>4. CASE feed \notin GtfsFeeds /\ feed \notin PivFeeds
  <2>0. /\ feed \in CotsFeeds
        /\ TripUpdates[feed] = IF IsConsistent(feed.update.stops) THEN <<feed.update>> ELSE <<>>
    BY <1>4 DEF TripUpdates, Feeds
  <2>1. update = feed.update /\ feed \in CotsFeeds
    BY <1>1, <2>0
  <2>2. QED
    BY <2>1 DEF TripFeedsAssumption
<1>5. QED
  BY <1>2, <1>3, <1>4

-----------------------------------------------------------------------------
(***************************************************************************)
(* One turn of merge()                                                     *)
(***************************************************************************)

NoneIsApart == None \notin Int /\ None \notin Stus

LEMMA NoneIs == ASSUME TripMergeAssumption PROVE NoneIsApart
  BY DEF TripMergeAssumption, NoneIsApart, Stus, Times

\* The stops of the feed that merge() goes through have a time of day.
LEMMA FeedStopIs ==
    ASSUME TripMergeAssumption, NEW db \in OrNone(StoredTrips), NEW new, IsWellMade(new),
           NEW i \in DOMAIN new.stops, FeedStops(db, new)[i] # None,
           \A e \in Events : FeedStops(db, new)[i].time[e] # None
    PROVE  /\ FeedStops(db, new)[i].order \in Nat
           /\ FeedStops(db, new)[i].id = new.stops[i].id
           /\ \A e \in Events : FeedStops(db, new)[i].time[e] \in Int
<1> DEFINE InBase == {k \in DOMAIN Base : Base[k].id = new.stops[i].id}
           dbStu == FindInDb(db, new.stops[i].id, i - 1)
           time == IF InBase # {} THEN Base[Min(InBase)].time ELSE FakeTime(dbStu, new.stops[i])
           stop == [order |-> i - 1, id |-> new.stops[i].id, time |-> time]
<1>1. new.stops \in Seq(Stus) /\ DOMAIN new.stops = 1 .. Len(new.stops)
  BY LenProperties DEF IsWellMade, Stus, Times
<1>2. new.stops[i] \in Stus /\ i - 1 \in Nat
  BY <1>1, ElementOfSeq
<1>3. FeedStops(db, new)[i] = stop
  BY DEF FeedStops
<1> HIDE DEF dbStu
<1>4. CASE InBase # {}
  <2>1. DOMAIN Base = 1 .. Len(Base) /\ Base \in Seq([id : STRING, time : [Events -> Int]])
    BY BaseIs, LenProperties
  <2>2. InBase \in SUBSET Nat
    BY <2>1
  <2>3. Min(InBase) \in InBase
    <3> HIDE DEF InBase
    <3>1. PICK n \in InBase : \A m \in InBase : n <= m
      BY <1>4, <2>2, LeastNatural
    <3>2. QED
      BY <3>1 DEF Min
  <2>4. Base[Min(InBase)] \in [id : STRING, time : [Events -> Int]]
    <3>1. Min(InBase) \in 1 .. Len(Base)
      BY <2>1, <2>3
    <3> HIDE DEF InBase
    <3>2. QED
      BY <2>1, <3>1, ElementOfSeq
  <2>5. time \in [Events -> Int]
    <3> HIDE DEF InBase
    <3>1. QED
      BY <1>4, <2>4
  <2> HIDE DEF time
  <2>6. QED
    BY <1>2, <1>3, <2>5
<1>5. CASE InBase = {}
  <2> DEFINE a == new.stops[i].time["arrival"]
             d == new.stops[i].time["departure"]
             ofDb == dbStu # None /\ a = None /\ d = None
             dated == IF ofDb THEN dbStu.time
                      ELSE [e \in Events |-> Plus(OrElse(new.stops[i].time[e], OrElse(a, d)),
                                                  new.stops[i].delay[e])]
  <2>1. time = [e \in Events |-> IF dated[e] = None THEN None ELSE dated[e] % Day]
    BY <1>5 DEF FakeTime
  <2>2. dbStu # None => dbStu \in Stus
    <3>1. CASE db = None
      BY <3>1 DEF dbStu, FindInDb
    <3>2. CASE db # None
      <4>1. db.stops \in Seq(Stus)
        BY <3>2 DEF OrNone, StoredTrips, Stus, Times
      <4>2. dbStu = FindStop(db.stops, new.stops[i].id, i - 1)
        BY <3>2 DEF dbStu, FindInDb
      <4>3. \A j \in DOMAIN db.stops : db.stops[j] \in Stus
        BY <4>1, ElementOfSeq, LenProperties
      <4>4. QED
        BY <4>1, <4>2, <4>3, FindStopIs
    <3>3. QED
      BY <3>1, <3>2
  <2>3. ASSUME NEW e \in Events PROVE dated[e] \in Times
    <3>1. CASE ofDb
      BY <2>2, <3>1 DEF Stus, StopTimeUpdates
    <3>2. CASE ~ofDb
      <4>1. /\ new.stops[i].time[e] \in Times /\ new.stops[i].delay[e] \in Times
            /\ a \in Times /\ d \in Times
        BY <1>2 DEF Stus, StopTimeUpdates, Events
      <4>2. Plus(OrElse(new.stops[i].time[e], OrElse(a, d)), new.stops[i].delay[e]) \in Times
        <5> HIDE DEF a, d
        <5>1. QED
          BY <4>1 DEF Plus, OrElse, Times, OrNone
      <4>3. QED
        BY <3>2, <4>2
    <3>3. QED
      BY <3>1, <3>2
  <2> HIDE DEF dated
  <2>4. ASSUME NEW e \in Events PROVE time[e] \in Int
    <3>1. time[e] # None
      <4> HIDE DEF time
      <4>1. FeedStops(db, new)[i].time = time
        BY <1>3
      <4>2. QED
        BY <4>1
    <3>2. time[e] = IF dated[e] = None THEN None ELSE dated[e] % Day
      BY <2>1
    <3>3. dated[e] # None
      BY <3>1, <3>2
    <3>4. dated[e] \in Int
      BY <2>3, <3>3 DEF Times, OrNone
    <3>5. time[e] = dated[e] % Day
      BY <3>2, <3>3
    <3> HIDE DEF time
    <3>6. QED
      BY <3>4, <3>5 DEF TripMergeAssumption
  <2> HIDE DEF time
  <2>5. QED
    BY <1>2, <1>3, <2>4
<1>6. QED
  BY <1>4, <1>5

\* What merge() goes through has a time of day, and is a stop of the feed.
LEMMA NextStopIs ==
    ASSUME TripMergeAssumption, NEW db \in OrNone(StoredTrips), NEW new, IsWellMade(new),
           ~Raises(NextStops(db, new)),
           NEW i \in DOMAIN NextStops(db, new), NextStops(db, new)[i] # None
    PROVE  LET stop == NextStops(db, new)[i] IN
           /\ stop.order \in Nat
           /\ \A e \in Events : stop.time[e] \in Int
           /\ \E j \in DOMAIN new.stops : new.stops[j].id = stop.id
<1>1. \A e \in Events : NextStops(db, new)[i].time[e] # None
  BY DEF Raises
<1>2. CASE new.complete
  <2>1. i \in DOMAIN new.stops /\ NextStops(db, new) = FeedStops(db, new)
    BY <1>2 DEF NextStops, FeedStops
  <2>2. QED
    BY <1>1, <2>1, FeedStopIs
<1>3. CASE ~new.complete
  <2>1. NextStops(db, new)[i] = [order |-> i - 1, id |-> Base[i].id, time |-> Base[i].time]
    BY <1>3 DEF NextStops, BaseStops
  <2>2. i \in DOMAIN Base /\ i \in DOMAIN new.stops /\ new.stops[i].id = Base[i].id
    BY <1>3 DEF NextStops, BaseStops, IsWellMade
  <2>3. DOMAIN Base = 1 .. Len(Base) /\ Base \in Seq([id : STRING, time : [Events -> Int]])
    BY BaseIs, LenProperties
  <2>4. i - 1 \in Nat /\ i \in 1 .. Len(Base)
    BY <2>2, <2>3, LenProperties
  <2>5. Base[i] \in [id : STRING, time : [Events -> Int]]
    BY <2>3, <2>4, ElementOfSeq
  <2>6. QED
    BY <2>1, <2>2, <2>4, <2>5
<1>4. QED
  BY <1>2, <1>3

\* Navitia is told of times that exist: there are none before the first one known,
\* and they do not go back.
IsDriven(stu, lastDep) ==
    LET arr == stu.time["arrival"]
        dep == stu.time["departure"]
    IN  /\ arr = None <=> dep = None
        /\ lastDep # None => arr # None /\ lastDep <= arr
        /\ arr # None => arr <= dep

\* What merge() stores: the delays are all there.
DelayedStus == {stu \in Stus : \A e \in Events : stu.delay[e] \in Int}

LEMMA MadeIsDriven ==
    ASSUME NoneIsApart, NEW new \in Stus,
           \A e \in Events : new.status[e] = "update" => new.delay[e] # None,
           NEW base \in [Events -> Times],
           \A e \in Events : ~IsDeleted(new, e) => base[e] \in Int,
           NEW lastDep \in Times, NEW stop, stop.id \in STRING, stop.order \in Nat
    PROVE  LET made == MakeStopTimeUpdate(base, lastDep, new, stop) IN
           made \in DelayedStus /\ IsDriven(made, lastDep)
<1> USE DEF NoneIsApart
<1>1. "arrival" \in Events /\ "departure" \in Events /\ Events = {"arrival", "departure"}
  BY DEF Events
<1>2. ASSUME NEW e \in Events
      PROVE  /\ new.status[e] \in Statuses
             /\ new.time[e] \in Times /\ new.delay[e] \in Times
  BY DEF Stus, StopTimeUpdates
<1>3. ASSUME NEW e \in Events PROVE EventTime(base[e], new, e) \in Times
  <2>1. CASE new.status[e] = "update"
    BY <1>2, <2>1 DEF EventTime, IsAdded, IsDeleted, Plus, Times, OrNone
  <2>2. CASE IsDeleted(new, e)
    BY <1>2, <2>2 DEF EventTime, IsAdded, IsDeleted, Plus, Times, OrNone
  <2>3. CASE IsAdded(new, e)
    BY <1>2, <2>3 DEF EventTime, IsAdded, IsDeleted, Plus, Times, OrNone
  <2>4. CASE new.status[e] = "none"
    BY <1>2, <2>4 DEF EventTime, IsAdded, IsDeleted, Plus, Times, OrNone
  <2>5. QED
    BY <1>2, <2>1, <2>2, <2>3, <2>4 DEF Statuses, IsAdded, IsDeleted
<1>4. ASSUME NEW e \in Events PROVE EventDelay(new, e) \in Int
  BY <1>2 DEF EventDelay, Times, OrNone
<1> DEFINE d == EventTime(base["departure"], new, "departure")
           arr0 == OrElse(EventTime(base["arrival"], new, "arrival"), OrElse(d, lastDep))
           dep0 == OrElse(d, arr0)
           late == IF lastDep # None /\ lastDep > arr0 THEN lastDep - arr0 ELSE 0
           arr  == Plus(arr0, late)
           wait == IF arr # None /\ arr > dep0 THEN arr - dep0 ELSE 0
           dep  == Plus(dep0, wait)
           made == MakeStopTimeUpdate(base, lastDep, new, stop)
<1>5. made = [id     |-> stop.id,
              order  |-> stop.order,
              status |-> new.status,
              time   |-> [e \in Events |-> IF e = "arrival" THEN arr ELSE dep],
              delay  |-> [e \in Events |-> EventDelay(new, e) +
                                           (IF e = "arrival" THEN late ELSE wait)]]
  BY DEF MakeStopTimeUpdate, PushedUpdate
<1>6. /\ arr0 \in Times /\ dep0 \in Times
      /\ arr0 = None <=> dep0 = None
      /\ lastDep # None => arr0 # None
  <2>1. d \in Times /\ EventTime(base["arrival"], new, "arrival") \in Times
    BY <1>1, <1>3
  <2> HIDE DEF d
  <2>2. QED
    BY <2>1 DEF OrElse
<1> HIDE DEF arr0, dep0
<1>7. /\ late \in Int /\ arr \in Times
      /\ arr = None <=> arr0 = None
      /\ lastDep # None => lastDep <= arr
  BY <1>6 DEF Plus, Times, OrNone
<1> HIDE DEF late, arr
<1>8. /\ wait \in Int /\ dep \in Times
      /\ dep = None <=> dep0 = None
      /\ arr # None => arr <= dep
  BY <1>6, <1>7 DEF Plus, Times, OrNone
<1> HIDE DEF wait, dep, made
<1>9. made.time["arrival"] = arr /\ made.time["departure"] = dep
  BY <1>1, <1>5
<1>10. IsDriven(made, lastDep)
  BY <1>6, <1>7, <1>8, <1>9 DEF IsDriven
<1>11. made \in DelayedStus
  <2>1. new.status \in [Events -> Statuses]
    BY DEF Stus, StopTimeUpdates
  <2>2. \A e \in Events : made.delay[e] \in Int /\ made.time[e] \in Times
    BY <1>4, <1>5, <1>7, <1>8
  <2>3. made \in Stus
    BY <1>5, <2>1, <2>2 DEF Stus, StopTimeUpdates, Times, OrNone
  <2>4. QED
    BY <2>2, <2>3 DEF DelayedStus
<1>12. QED
  BY <1>10, <1>11 DEF made

-----------------------------------------------------------------------------
(***************************************************************************)
(* The loop of merge()                                                     *)
(***************************************************************************)

\* The stops can be driven, one after the other.
AreDriven(stops) ==
    \A j \in DOMAIN stops :
       /\ IsDriven(stops[j], None)
       /\ \A i \in 1 .. j - 1 : IsDriven(stops[j], stops[i].time["departure"])

\* What the loop carries on: the last departure is not before any other.
Accs ==
    {acc \in [clock : [day : Int, time : Times, delay : Times], lastDep : Times,
              changes : BOOLEAN, stops : Seq(DelayedStus)] :
        /\ AreDriven(acc.stops)
        /\ \A i \in DOMAIN acc.stops :
              LET dep == acc.stops[i].time["departure"] IN
              dep # None => acc.lastDep # None /\ dep <= acc.lastDep}

LEMMA BeginsInOrder == BeforeMerge \in Accs
<1>1. <<>> \in Seq(DelayedStus) /\ DOMAIN <<>> = {}
  BY EmptySeq
<1>2. BeforeMerge.stops = <<>>
  BY DEF BeforeMerge
<1>3. None \in Times
  BY DEF Times, OrNone
<1>4. BeforeMerge \in [clock : [day : Int, time : Times, delay : Times], lastDep : Times,
                       changes : BOOLEAN, stops : Seq(DelayedStus)]
  BY <1>1, <1>3 DEF BeforeMerge
<1>5. AreDriven(<<>>)
  BY <1>1 DEF AreDriven
<1>6. QED
  BY <1>1, <1>2, <1>4, <1>5 DEF Accs

LEMMA TickIs ==
    ASSUME NoneIsApart, NEW clock \in [day : Int, time : Times, delay : Times],
           NEW served, NEW e \in Events, NEW stop, stop.time[e] \in Int, NEW newStu \in Stus
    PROVE  Tick(clock, served, e, stop, newStu) \in [day : Int, time : Times, delay : Times]
<1> DEFINE delay == IF newStu = None THEN 0 ELSE OrElse(newStu.delay[e], 0)
           past == IsPastMidnight(clock, stop.time[e], delay)
<1>1. delay \in Times
  BY DEF Stus, StopTimeUpdates, OrElse, Times, OrNone
<1>2. (IF past THEN clock.day + 1 ELSE clock.day) \in Int
  <2> HIDE DEF past
  <2>1. QED
    OBVIOUS
<1>3. stop.time[e] \in Times
  BY DEF Times, OrNone
<1>4. Tick(clock, served, e, stop, newStu) =
         IF served THEN [day |-> IF past THEN clock.day + 1 ELSE clock.day,
                         time |-> stop.time[e], delay |-> delay]
                   ELSE clock
  BY DEF Tick
<1> HIDE DEF past, delay
<1>5. CASE served
  BY <1>1, <1>2, <1>3, <1>4, <1>5
<1>6. CASE ~served
  BY <1>4, <1>6
<1>7. QED
  BY <1>5, <1>6

\* A stop that comes after all the others keeps them in order.
LEMMA KeptInOrder ==
    ASSUME NoneIsApart, NEW acc \in Accs, NEW kept \in DelayedStus,
           IsDriven(kept, acc.lastDep),
           NEW clock \in [day : Int, time : Times, delay : Times], NEW changes \in BOOLEAN
    PROVE  [clock |-> clock, lastDep |-> kept.time["departure"], changes |-> changes,
            stops |-> Append(acc.stops, kept)] \in Accs
<1> USE DEF NoneIsApart
<1> DEFINE stops == Append(acc.stops, kept)
           n == Len(acc.stops)
           next == [clock |-> clock, lastDep |-> kept.time["departure"], changes |-> changes,
                    stops |-> stops]
           Dep(i) == acc.stops[i].time["departure"]
<1>1. /\ acc.stops \in Seq(DelayedStus) /\ acc.lastDep \in Times
      /\ AreDriven(acc.stops)
      /\ \A i \in DOMAIN acc.stops :
            Dep(i) # None => acc.lastDep # None /\ Dep(i) <= acc.lastDep
  BY DEF Accs
<1>2. /\ stops \in Seq(DelayedStus)
      /\ n \in Nat /\ DOMAIN acc.stops = 1 .. n /\ DOMAIN stops = 1 .. n + 1
      /\ \A i \in 1 .. n : stops[i] = acc.stops[i] /\ acc.stops[i] \in DelayedStus
      /\ stops[n + 1] = kept
  BY <1>1, Added
<1>3. ASSUME NEW stu \in DelayedStus
      PROVE  stu.time["arrival"] \in Times /\ stu.time["departure"] \in Times
  BY DEF DelayedStus, Stus, StopTimeUpdates, Events
<1> HIDE DEF stops, n
<1>4. IsDriven(kept, None)
  BY DEF IsDriven
<1>5. ASSUME NEW i \in 1 .. n PROVE IsDriven(kept, Dep(i))
  <2>1. Dep(i) \in Times
    BY <1>2, <1>3
  <2>2. Dep(i) # None => acc.lastDep # None /\ Dep(i) <= acc.lastDep
    BY <1>1, <1>2
  <2>3. kept.time["arrival"] \in Times /\ kept.time["departure"] \in Times
    BY <1>3
  <2> HIDE DEF Dep
  <2>4. QED
    BY <1>1, <2>1, <2>2, <2>3 DEF IsDriven, Times, OrNone
<1>6. AreDriven(stops)
  <2> SUFFICES ASSUME NEW j \in 1 .. n + 1
               PROVE  /\ IsDriven(stops[j], None)
                      /\ \A i \in 1 .. j - 1 : IsDriven(stops[j], stops[i].time["departure"])
    BY <1>2 DEF AreDriven
  <2>1. CASE j \in 1 .. n
    <3>1. /\ IsDriven(acc.stops[j], None)
          /\ \A i \in 1 .. j - 1 : IsDriven(acc.stops[j], Dep(i))
      BY <1>1, <1>2, <2>1 DEF AreDriven
    <3>2. \A i \in 1 .. j - 1 : i \in 1 .. n
      BY <1>2, <2>1
    <3>3. QED
      BY <1>2, <2>1, <3>1, <3>2
  <2>2. CASE j = n + 1
    <3>1. \A i \in 1 .. j - 1 : i \in 1 .. n
      BY <1>2, <2>2
    <3>2. QED
      BY <1>2, <1>4, <1>5, <2>2, <3>1
  <2>3. QED
    BY <1>2, <2>1, <2>2
<1>7. ASSUME NEW i \in 1 .. n + 1, stops[i].time["departure"] # None
      PROVE  /\ kept.time["departure"] # None
             /\ stops[i].time["departure"] <= kept.time["departure"]
  <2>1. kept.time["arrival"] \in Times /\ kept.time["departure"] \in Times
    BY <1>3
  <2>2. CASE i \in 1 .. n
    <3>1. Dep(i) \in Times /\ Dep(i) # None /\ stops[i].time["departure"] = Dep(i)
      BY <1>2, <1>3, <1>7, <2>2
    <3>2. IsDriven(kept, Dep(i))
      BY <1>5, <2>2
    <3> HIDE DEF Dep
    <3>3. QED
      BY <2>1, <3>1, <3>2 DEF IsDriven, Times, OrNone
  <2>3. CASE i = n + 1
    BY <1>2, <1>7, <2>1, <2>3 DEF Times, OrNone
  <2>4. QED
    BY <1>2, <2>2, <2>3
<1>8. next \in [clock : [day : Int, time : Times, delay : Times], lastDep : Times,
                changes : BOOLEAN, stops : Seq(DelayedStus)]
  BY <1>2, <1>3
<1>9. next.stops = stops /\ next.lastDep = kept.time["departure"]
  OBVIOUS
<1> HIDE DEF next
<1>10. next \in Accs
  BY <1>2, <1>6, <1>7, <1>8, <1>9 DEF Accs
<1>11. QED
  BY <1>10 DEF next, stops

\* merge() keeps what it has made of the stop, changed or not.
LEMMA MergeStopInOrder ==
    ASSUME NoneIsApart, NEW acc \in Accs, NEW dbStu, NEW newStu \in Stus,
           \A e \in Events : newStu.status[e] = "update" => newStu.delay[e] # None,
           NEW stop, stop.id \in STRING, stop.order \in Nat,
           \A e \in Events : stop.time[e] \in Int
    PROVE  MergeStop(acc, stop, dbStu, newStu) \in Accs
<1> DEFINE served == [e \in Events |-> IsServed(e, TRUE, dbStu, newStu)]
           clockA == Tick(acc.clock, served["arrival"], "arrival", stop, newStu)
           clockD == Tick(clockA, served["departure"], "departure", stop, newStu)
           base == [e \in Events |-> Dated(IF e = "arrival" THEN clockA ELSE clockD,
                                           served[e], stop, e)]
           fresh == MakeStopTimeUpdate(base, acc.lastDep, newStu, stop)
           changes == acc.changes \/ IsNews(fresh, dbStu)
<1>1. newStu # None
  BY DEF NoneIsApart
<1>2. "arrival" \in Events /\ "departure" \in Events
  BY DEF Events
<1>3. /\ acc.clock \in [day : Int, time : Times, delay : Times]
      /\ acc.lastDep \in Times /\ acc.changes \in BOOLEAN
  BY DEF Accs
<1>4. \A e \in Events : served[e] = ~IsDeleted(newStu, e)
  BY <1>1 DEF IsServed
<1> HIDE DEF served
<1>5. clockA \in [day : Int, time : Times, delay : Times]
  BY <1>2, <1>3, TickIs
<1> HIDE DEF clockA
<1>6. clockD \in [day : Int, time : Times, delay : Times]
  BY <1>2, <1>5, TickIs
<1> HIDE DEF clockD
<1>7. ASSUME NEW e \in Events
      PROVE  base[e] \in Times /\ (~IsDeleted(newStu, e) => base[e] \in Int)
  <2> DEFINE clock == IF e = "arrival" THEN clockA ELSE clockD
  <2>1. clock.day \in Int
    BY <1>5, <1>6
  <2>2. base[e] = Dated(clock, served[e], stop, e)
    OBVIOUS
  <2> HIDE DEF clock, base
  <2>3. clock.day * Day + stop.time[e] \in Int
    BY <2>1, TripMergeAssumption DEF TripMergeAssumption
  <2>4. QED
    BY <1>4, <2>2, <2>3 DEF Dated, IsDeleted, Times, OrNone
<1>8. base \in [Events -> Times]
  BY <1>7
<1> HIDE DEF base
<1>9. fresh \in DelayedStus /\ IsDriven(fresh, acc.lastDep)
  BY <1>3, <1>7, <1>8, MadeIsDriven
<1>10. MergeStop(acc, stop, dbStu, newStu) = Keep(acc, clockD, fresh, dbStu)
  BY <1>1 DEF MergeStop, served, clockA, clockD, base
<1> HIDE DEF fresh
<1>11. (IF changes THEN fresh ELSE dbStu) = fresh
  BY DEF IsNews
<1>12. MergeStop(acc, stop, dbStu, newStu) =
          [clock |-> clockD, lastDep |-> fresh.time["departure"], changes |-> changes,
           stops |-> Append(acc.stops, fresh)]
  BY <1>10, <1>11 DEF Keep
<1>13. changes \in BOOLEAN
  BY <1>3 DEF IsNews
<1> HIDE DEF changes
<1>14. QED
  BY <1>6, <1>9, <1>12, <1>13, KeptInOrder

\* The stops merge() goes through are a sequence.
LEMMA NextStopsAre ==
    ASSUME TripMergeAssumption, NEW db, NEW new, IsWellMade(new)
    PROVE  /\ Len(NextStops(db, new)) \in Nat
           /\ DOMAIN NextStops(db, new) = 1 .. Len(NextStops(db, new))
<1>1. Len(Base) \in Nat /\ DOMAIN Base = 1 .. Len(Base)
  BY BaseIs, LenProperties
<1>2. Len(new.stops) \in Nat /\ DOMAIN new.stops = 1 .. Len(new.stops)
  BY LenProperties DEF IsWellMade
<1> DEFINE next == NextStops(db, new)
           S == {next[i] : i \in DOMAIN next}
<1>3. \E n \in Nat : DOMAIN next = 1 .. n /\ next = [i \in 1 .. n |-> next[i]]
  <2>1. CASE new.complete
    BY <1>2, <2>1 DEF NextStops, FeedStops
  <2>2. CASE ~new.complete
    BY <1>1, <2>2 DEF NextStops, BaseStops
  <2>3. QED
    BY <2>1, <2>2
<1> HIDE DEF next
<1>4. PICK n \in Nat : DOMAIN next = 1 .. n /\ next = [i \in 1 .. n |-> next[i]]
  BY <1>3
<1>5. \A i \in 1 .. n : next[i] \in S
  BY <1>4
<1> HIDE DEF S
<1>6. next \in [1 .. n -> S]
  BY <1>4, <1>5
<1>7. next \in Seq(S)
  BY <1>6
<1>8. QED
  BY <1>7, LenProperties DEF next

LEMMA MergeNextInOrder ==
    ASSUME TripMergeAssumption, NEW db \in OrNone(StoredTrips), NEW new, IsWellMade(new),
           ~Raises(NextStops(db, new)),
           NEW i \in DOMAIN NextStops(db, new), NEW acc \in Accs
    PROVE  MergeNext(acc, db, new, NextStops(db, new)[i]) \in Accs
<1>0. PICK stop : stop = NextStops(db, new)[i]
  OBVIOUS
<1> DEFINE dbStu == FindInDb(db, stop.id, stop.order)
           newStu == FindStop(new.stops, stop.id, stop.order)
<1>1. CASE stop = None
  BY <1>0, <1>1 DEF MergeNext
<1>2. CASE stop # None
  <2>1. /\ stop.order \in Nat
        /\ \A e \in Events : stop.time[e] \in Int
    BY <1>0, <1>2, NextStopIs
  <2>2. PICK j \in DOMAIN new.stops : new.stops[j].id = stop.id
    BY <1>0, <1>2, NextStopIs
  <2>3. MergeNext(acc, db, new, stop) = MergeStop(acc, stop, dbStu, newStu)
    BY <1>2 DEF MergeNext
  <2>4. new.stops \in Seq(Stus) /\ DOMAIN new.stops = 1 .. Len(new.stops)
    BY LenProperties DEF IsWellMade, Stus, Times
  <2>5. PICK k \in DOMAIN new.stops : newStu = new.stops[k] /\ new.stops[k].id = stop.id
    <3> HIDE DEF newStu
    <3>1. PICK stus, id, order : stus = new.stops /\ id = stop.id /\ order = stop.order
      OBVIOUS
    <3>2. DOMAIN stus \subseteq Nat /\ \E n \in DOMAIN stus : stus[n].id = id
      BY <2>2, <2>4, <3>1
    <3>3. \E k \in DOMAIN stus : FindStop(stus, id, order) = stus[k] /\ stus[k].id = id
      BY <3>2, FindStopFinds
    <3>4. QED
      BY <3>1, <3>3 DEF newStu
  <2>6. newStu \in Stus
    BY <2>4, <2>5, ElementOfSeq
  <2>7. stop.id \in STRING
    BY <2>5, <2>6 DEF Stus, StopTimeUpdates
  <2>8. \A e \in Events : newStu.status[e] = "update" => newStu.delay[e] # None
    BY <2>5 DEF IsWellMade
  <2> HIDE DEF dbStu, newStu
  <2>9. MergeStop(acc, stop, dbStu, newStu) \in Accs
    BY <2>1, <2>6, <2>7, <2>8, NoneIs, MergeStopInOrder
  <2>10. QED
    BY <1>0, <2>3, <2>9
<1>3. QED
  BY <1>1, <1>2

\* What the loop has after each of its turns
LEMMA TurnsAre ==
    ASSUME TripMergeAssumption, NEW db \in OrNone(StoredTrips), NEW new, IsWellMade(new),
           ~Raises(NextStops(db, new))
    PROVE  LET next == NextStops(db, new)
               turns == Turns(db, new)
           IN  /\ Merged(db, new) = turns[Len(next)]
               /\ turns[0] = BeforeMerge
               /\ \A n \in 1 .. Len(next) :
                     turns[n] = MergeNext(turns[n - 1], db, new, next[n])
               /\ \A n \in 0 .. Len(next) : turns[n] \in Accs
<1> DEFINE next == NextStops(db, new)
           N == Len(next)
           Body(F, n) == IF n = 0 THEN BeforeMerge ELSE MergeNext(F[n - 1], db, new, next[n])
           Loop == CHOOSE F : F = [n \in 0 .. N |-> Body(F, n)]
<1>1. N \in Nat /\ DOMAIN next = 1 .. N
  BY NextStopsAre
<1>2. ASSUME NEW acc \in Accs, NEW n \in 1 .. N
      PROVE  MergeNext(acc, db, new, next[n]) \in Accs
  BY <1>1, MergeNextInOrder
<1>3. Turns(db, new) = Loop /\ Merged(db, new) = Turns(db, new)[N]
  BY DEF Merged, Turns
<1> HIDE DEF next, N
<1>4. PICK turn : turn = [n \in 1 .. N |-> [acc \in Accs |-> MergeNext(acc, db, new, next[n])]]
  OBVIOUS
<1>5. PICK m \in [0 .. N -> Accs] : \A n \in 0 .. N :
         m[n] = IF n = 0 THEN BeforeMerge ELSE turn[n][m[n - 1]]
  <2>1. PICK M, A, start, fam : /\ M = N /\ A = Accs /\ start = BeforeMerge
                                /\ fam = [n \in 0 .. M |-> A]
    OBVIOUS
  <2>2. IsLoop(M, A, fam, start, turn)
    BY <1>1, <1>2, <1>4, <2>1, BeginsInOrder DEF IsLoop
  <2>3. \E m \in [0 .. M -> A] : IsRun(M, fam, start, turn, m)
    BY <2>2, LoopRuns
  <2>4. QED
    BY <2>1, <2>3 DEF IsRun
<1>6. m = [n \in 0 .. N |-> Body(m, n)]
  <2>1. ASSUME NEW n \in 0 .. N PROVE m[n] = Body(m, n)
    <3>1. CASE n = 0
      BY <1>5, <3>1
    <3>2. CASE n # 0
      <4>1. n \in 1 .. N /\ n - 1 \in 0 .. N
        BY <1>1, <3>2
      <4>2. turn[n][m[n - 1]] = MergeNext(m[n - 1], db, new, next[n])
        BY <1>4, <1>5, <4>1
      <4>3. QED
        BY <1>5, <3>2, <4>2
    <3>3. QED
      BY <3>1, <3>2
  <2> HIDE DEF Body
  <2>2. QED
    BY <2>1
<1>7. Loop = [n \in 0 .. N |-> Body(Loop, n)]
  <2> HIDE DEF Body
  <2>1. QED
    BY <1>6
<1> HIDE DEF Loop
<1> DEFINE T == {n \in 0 .. N : Loop[n] \in Accs}
<1>8. 0 \in T
  BY <1>1, <1>7, BeginsInOrder
<1>9. ASSUME NEW n \in T, n < N PROVE n + 1 \in T
  <2>1. n + 1 \in 0 .. N /\ n + 1 \in 1 .. N /\ n + 1 # 0 /\ (n + 1) - 1 = n
    BY <1>1, <1>9
  <2>2. Loop[n + 1] = MergeNext(Loop[n], db, new, next[n + 1])
    BY <1>7, <2>1
  <2>3. QED
    BY <1>2, <2>1, <2>2
<1>10. T = 0 .. N
  <2> HIDE DEF T
  <2>1. T \in SUBSET (0 .. N)
    BY DEF T
  <2>2. QED
    BY <1>1, <1>8, <1>9, <2>1, InductionUpTo
<1>11. \A n \in 0 .. N : Loop[n] \in Accs
  BY <1>10
<1>12. /\ Loop[0] = BeforeMerge
       /\ \A n \in 1 .. N : Loop[n] = MergeNext(Loop[n - 1], db, new, next[n])
  <2>1. ASSUME NEW n \in 0 .. N PROVE Loop[n] = Body(Loop, n)
    <3> HIDE DEF Body
    <3>1. QED
      BY <1>7, <2>1
  <2>2. 0 \in 0 .. N /\ \A n \in 1 .. N : n \in 0 .. N /\ n # 0
    BY <1>1
  <2>3. QED
    BY <2>1, <2>2
<1>13. QED
  BY <1>3, <1>11, <1>12 DEF next, N

\* What merge() leaves can be driven.
LEMMA MergedInOrder ==
    ASSUME TripMergeAssumption, NEW db \in OrNone(StoredTrips), NEW new, IsWellMade(new),
           ~Raises(NextStops(db, new))
    PROVE  Merged(db, new) \in Accs
<1>1. Len(NextStops(db, new)) \in 0 .. Len(NextStops(db, new))
  BY NextStopsAre
<1>2. QED
  BY <1>1, TurnsAre

-----------------------------------------------------------------------------
(***************************************************************************)
(* manage_consistency() of what merge() leaves changes no time: either the *)
(* stops are accepted as they are, or the rest of them is left alone.      *)
(***************************************************************************)

\* The first n stops are accepted.
AreAccepted(stops, n) ==
    \A i \in 1 .. n : stops[i].order = i - 1 /\ stops[i].time["arrival"] # None

\* What the loop has after n of the stops
Adjusteds(stops, n) ==
    {acc \in [ok : BOOLEAN, before : [time : Times, delay : Times], stops : Seq(DelayedStus)] :
        /\ Len(acc.stops) = n
        /\ \A i \in 1 .. n : acc.stops[i] = stops[i]
        /\ acc.ok =>
              /\ AreAccepted(stops, n)
              /\ acc.before.time # None =>
                    n > 0 /\ acc.before.time <= stops[n].time["departure"]}

\* There is nothing to fill in.
LEMMA FilledIsSame ==
    ASSUME NoneIsApart, NEW stu \in DelayedStus, NEW before,
           \A e \in Events : stu.time[e] # None
    PROVE  FillIn(stu, before) = stu
<1> USE DEF NoneIsApart
<1> DEFINE a0 == stu.time["arrival"]
           a == OrElse(a0, OrElse(stu.time["departure"], before.time))
           d == OrElse(stu.time["departure"], a)
           From(e) == OrElse(stu.delay[e], 0)
           time == [e \in Events |-> IF e = "arrival" THEN a ELSE d]
           delay == [e \in Events |->
              CASE e = "arrival" /\ a0 = None /\ From(e) = 0 -> From("departure")
                [] e = "departure" /\ stu.time[e] = None /\ From(e) = 0 ->
                      IF a0 = None /\ From("arrival") = 0 THEN From("departure")
                                                          ELSE From("arrival")
                [] OTHER -> From(e)]
<1>1. FillIn(stu, before) = [stu EXCEPT !.time = time, !.delay = delay]
  BY DEF FillIn
<1>2. /\ stu.time \in [Events -> Times] /\ stu.delay \in [Events -> Times]
      /\ \A e \in Events : stu.delay[e] \in Int
      /\ stu \in Stus
  BY DEF DelayedStus, Stus, StopTimeUpdates, Times
<1>3. "arrival" \in Events /\ "departure" \in Events /\ Events = {"arrival", "departure"}
  BY DEF Events
<1>4. a = a0 /\ d = stu.time["departure"]
  BY <1>3 DEF OrElse
<1>5. \A e \in Events : time[e] = stu.time[e]
  BY <1>3, <1>4
<1>6. \A e \in Events : From(e) = stu.delay[e]
  BY <1>2 DEF OrElse
<1>7. \A e \in Events : delay[e] = stu.delay[e]
  <2> HIDE DEF From
  <2>1. ASSUME NEW e \in Events PROVE delay[e] = stu.delay[e]
    <3>1. ~(e = "arrival" /\ a0 = None /\ From(e) = 0)
      BY <1>3
    <3>2. ~(e = "departure" /\ stu.time[e] = None /\ From(e) = 0)
      OBVIOUS
    <3>3. delay[e] = From(e)
      BY <3>1, <3>2
    <3>4. QED
      BY <1>6, <3>3
  <2>2. QED
    BY <2>1
<1>8. DOMAIN time = Events /\ DOMAIN delay = Events
  OBVIOUS
<1>9. time = [e \in Events |-> time[e]] /\ delay = [e \in Events |-> delay[e]]
  OBVIOUS
<1> HIDE DEF time, delay
<1>10. time = stu.time /\ delay = stu.delay
  BY <1>2, <1>5, <1>7, <1>9
<1>11. QED
  BY <1>1, <1>2, <1>10 DEF Stus, StopTimeUpdates

\* A stop without a time is the first one, and is refused.
LEMMA AdjustStopKeeps ==
    ASSUME NoneIsApart, NEW stops \in Seq(DelayedStus), AreDriven(stops),
           NEW n \in 1 .. Len(stops), NEW acc \in Adjusteds(stops, n - 1)
    PROVE  AdjustStop(acc, stops[n]) \in Adjusteds(stops, n)
<1> USE DEF NoneIsApart
<1>0. PICK stu : stu = stops[n]
  OBVIOUS
<1> DEFINE filled == FillIn(stu, acc.before)
           added == Append(acc.stops, stu)
<1>1. n \in Nat \ {0} /\ n - 1 \in Nat /\ DOMAIN stops = 1 .. Len(stops) /\ Len(stops) \in Nat
  BY LenProperties
<1>2. /\ acc \in [ok : BOOLEAN, before : [time : Times, delay : Times],
                  stops : Seq(DelayedStus)]
      /\ acc.stops \in Seq(DelayedStus) /\ Len(acc.stops) = n - 1 /\ acc.ok \in BOOLEAN
      /\ acc.before \in [time : Times, delay : Times]
      /\ \A i \in 1 .. n - 1 : acc.stops[i] = stops[i]
      /\ acc.ok =>
            /\ AreAccepted(stops, n - 1)
            /\ acc.before.time # None =>
                  n - 1 > 0 /\ acc.before.time <= stops[n - 1].time["departure"]
  BY DEF Adjusteds
<1>3. /\ stu \in DelayedStus /\ stu \in Stus
      /\ stu.time["arrival"] \in Times /\ stu.time["departure"] \in Times
      /\ stu.delay["arrival"] \in Times /\ stu.delay["departure"] \in Times
  <2>1. stu \in DelayedStus
    BY <1>0, <1>1, ElementOfSeq
  <2>2. QED
    BY <2>1 DEF DelayedStus, Stus, StopTimeUpdates, Events
<1>4. /\ added \in Seq(DelayedStus) /\ Len(added) = n
      /\ \A i \in 1 .. n : added[i] = stops[i]
  <2>1. /\ added \in Seq(DelayedStus) /\ DOMAIN added = 1 .. Len(acc.stops) + 1
        /\ DOMAIN acc.stops = 1 .. Len(acc.stops)
        /\ \A i \in DOMAIN acc.stops : added[i] = acc.stops[i]
        /\ added[Len(acc.stops) + 1] = stu
    BY <1>2, <1>3, Added
  <2>2. Len(added) \in Nat /\ DOMAIN added = 1 .. Len(added)
    BY <2>1, LenProperties
  <2> HIDE DEF added
  <2>3. Len(added) = n
    BY <1>1, <1>2, <2>1, <2>2
  <2>4. ASSUME NEW i \in 1 .. n PROVE added[i] = stops[i]
    <3>1. CASE i \in 1 .. n - 1
      BY <1>1, <1>2, <2>1, <3>1
    <3>2. CASE i = n
      BY <1>0, <1>1, <1>2, <2>1, <3>2
    <3>3. QED
      BY <1>1, <3>1, <3>2
  <2>5. QED
    BY <2>1, <2>3, <2>4
<1>5. /\ stu.time["arrival"] = None <=> stu.time["departure"] = None
      /\ stu.time["arrival"] # None => stu.time["arrival"] <= stu.time["departure"]
  BY <1>0, <1>1 DEF AreDriven, IsDriven
<1>6. ASSUME n - 1 > 0
      PROVE  IsDriven(stu, stops[n - 1].time["departure"])
  BY <1>0, <1>1, <1>6 DEF AreDriven
<1>7. ASSUME n - 1 > 0, acc.ok
      PROVE  stops[n - 1].time["departure"] \in Int
  <2>1. n - 1 \in 1 .. Len(stops) /\ n - 1 \in 1 .. n - 1
    BY <1>1, <1>7
  <2>2. stops[n - 1].time["arrival"] # None
    BY <1>2, <1>7, <2>1 DEF AreAccepted
  <2>3. stops[n - 1].time["departure"] # None
    BY <1>1, <2>1, <2>2 DEF AreDriven, IsDriven
  <2>4. stops[n - 1] \in DelayedStus
    BY <2>1, ElementOfSeq
  <2>5. stops[n - 1].time["departure"] \in Times
    BY <2>4 DEF DelayedStus, Stus, StopTimeUpdates, Events
  <2>6. QED
    BY <2>3, <2>5 DEF Times, OrNone
<1> DEFINE refused == ~acc.ok \/ IsRefused(stu, Len(acc.stops), filled.time["arrival"])
<1>8. CASE refused
  <2>1. AdjustStop(acc, stu) = [acc EXCEPT !.ok = FALSE, !.stops = added]
    BY <1>8 DEF AdjustStop
  <2> HIDE DEF added, refused
  <2>2. /\ AdjustStop(acc, stu) \in [ok : BOOLEAN, before : [time : Times, delay : Times],
                                     stops : Seq(DelayedStus)]
        /\ AdjustStop(acc, stu).stops = added
        /\ AdjustStop(acc, stu).ok = FALSE
    BY <1>2, <1>4, <2>1
  <2>3. QED
    BY <1>0, <1>4, <2>2 DEF Adjusteds
<1>9. CASE ~refused
  <2> DEFINE afterA == Latest(stu, acc.before, "arrival")
             afterD == Latest(stu, afterA, "departure")
  <2>1. acc.ok /\ stu.order = n - 1 /\ filled.time["arrival"] # None
    BY <1>2, <1>9 DEF IsRefused
  <2>2. stu.time["arrival"] # None
    <3>1. SUFFICES ASSUME stu.time["arrival"] = None PROVE FALSE
      OBVIOUS
    <3>2. ~(n - 1 > 0)
      <4>1. SUFFICES ASSUME n - 1 > 0 PROVE FALSE
        OBVIOUS
      <4>2. stops[n - 1].time["departure"] \in Int /\ IsDriven(stu, stops[n - 1].time["departure"])
        BY <1>6, <1>7, <2>1, <4>1
      <4>3. stops[n - 1].time["departure"] # None
        BY <4>2
      <4>4. QED
        BY <3>1, <4>2, <4>3 DEF IsDriven
    <3>3. acc.before.time = None
      BY <1>2, <2>1, <3>2
    <3>4. filled.time["arrival"] = None
      BY <1>3, <1>5, <3>1, <3>3 DEF FillIn, OrElse, Events, Stus, StopTimeUpdates
    <3>5. QED
      BY <2>1, <3>4
  <2>3. \A e \in Events : stu.time[e] # None /\ stu.time[e] \in Int
    BY <1>3, <1>5, <2>2 DEF Events, Times, OrNone
  <2>4. filled = stu
    BY <1>3, <2>3, FilledIsSame
  <2>5. acc.before.time # None =>
           acc.before.time \in Int /\ acc.before.time <= stu.time["arrival"]
    <3>1. SUFFICES ASSUME acc.before.time # None
                   PROVE  acc.before.time \in Int /\ acc.before.time <= stu.time["arrival"]
      OBVIOUS
    <3>2. n - 1 > 0 /\ acc.before.time <= stops[n - 1].time["departure"]
      BY <1>2, <2>1, <3>1
    <3>3. stops[n - 1].time["departure"] \in Int /\ IsDriven(stu, stops[n - 1].time["departure"])
      BY <1>6, <1>7, <2>1, <3>2
    <3>4. stops[n - 1].time["departure"] <= stu.time["arrival"]
      BY <3>3 DEF IsDriven
    <3>5. acc.before.time \in Int
      BY <1>2, <3>1 DEF Times, OrNone
    <3>6. stu.time["arrival"] \in Int
      BY <2>3 DEF Events
    <3>7. QED
      BY <3>2, <3>3, <3>4, <3>5, <3>6
  <2>6. /\ stu.time["arrival"] \in Int /\ stu.time["departure"] \in Int
        /\ stu.time["arrival"] <= stu.time["departure"]
    BY <1>5, <2>2, <2>3 DEF Events
  <2>7. Push(stu, acc.before, "arrival") = stu
    BY <2>5, <2>6 DEF Push
  <2>8. /\ afterA \in [time : Times, delay : Times]
        /\ afterA.time # None => afterA.time \in Int /\ afterA.time <= stu.time["departure"]
    BY <1>2, <1>3, <2>5, <2>6 DEF Latest
  <2> HIDE DEF afterA
  <2>9. Push(stu, afterA, "departure") = stu
    BY <2>6, <2>8 DEF Push
  <2>10. /\ afterD \in [time : Times, delay : Times]
         /\ afterD.time # None => afterD.time <= stu.time["departure"]
    BY <1>3, <2>6, <2>8 DEF Latest
  <2> HIDE DEF afterD
  <2>11. AdjustStop(acc, stu) = [ok |-> TRUE, before |-> afterD, stops |-> added]
    <3>1. AdjustStop(acc, stu) = Adjusted(acc, stu)
      BY <1>9, <2>4 DEF AdjustStop
    <3>2. QED
      BY <2>7, <2>9, <3>1 DEF Adjusted, afterA, afterD
  <2> HIDE DEF added, refused, filled
  <2>12. AreAccepted(stops, n)
    <3>1. ASSUME NEW i \in 1 .. n
          PROVE  stops[i].order = i - 1 /\ stops[i].time["arrival"] # None
      <4>1. CASE i \in 1 .. n - 1
        BY <1>2, <2>1, <4>1 DEF AreAccepted
      <4>2. CASE i = n
        BY <1>0, <2>1, <2>2, <4>2
      <4>3. QED
        BY <1>1, <4>1, <4>2
    <3>2. QED
      BY <3>1 DEF AreAccepted
  <2>13. /\ AdjustStop(acc, stu) \in [ok : BOOLEAN, before : [time : Times, delay : Times],
                                      stops : Seq(DelayedStus)]
         /\ AdjustStop(acc, stu).stops = added
         /\ AdjustStop(acc, stu).before = afterD
    BY <1>4, <2>10, <2>11
  <2>14. QED
    BY <1>0, <1>1, <1>4, <2>10, <2>12, <2>13 DEF Adjusteds
<1>10. QED
  BY <1>0, <1>8, <1>9

\* manage_consistency() accepts what merge() leaves, or refuses it, and changes no time.
LEMMA ManagedIsSame ==
    ASSUME NoneIsApart, NEW stops \in Seq(DelayedStus), AreDriven(stops)
    PROVE  /\ ManageConsistency(stops).stops = stops
           /\ ManageConsistency(stops).ok => AreAccepted(stops, Len(stops))
<1> DEFINE N == Len(stops)
           Body(F, n) == IF n = 0 THEN BeforeAdjust ELSE AdjustStop(F[n - 1], stops[n])
           Loop == CHOOSE F : F = [n \in 0 .. N |-> Body(F, n)]
           All == [ok : BOOLEAN, before : [time : Times, delay : Times],
                   stops : Seq(DelayedStus)]
<1>1. N \in Nat /\ DOMAIN stops = 1 .. N
  BY LenProperties
<1>2. ManageConsistency(stops) = Loop[N]
  BY DEF ManageConsistency, Adjusting
<1>3. BeforeAdjust \in Adjusteds(stops, 0)
  <2>1. <<>> \in Seq(DelayedStus) /\ Len(<<>>) = 0 /\ None \in Times
    BY EmptySeq DEF Times, OrNone
  <2>2. BeforeAdjust \in All
    BY <2>1 DEF BeforeAdjust
  <2>3. AreAccepted(stops, 0)
    BY DEF AreAccepted
  <2>4. QED
    BY <2>1, <2>2, <2>3 DEF BeforeAdjust, Adjusteds
<1>4. ASSUME NEW n \in 1 .. N, NEW acc \in Adjusteds(stops, n - 1)
      PROVE  AdjustStop(acc, stops[n]) \in Adjusteds(stops, n)
  BY AdjustStopKeeps
<1>5. \A n : Adjusteds(stops, n) \subseteq All
  BY DEF Adjusteds
<1> HIDE DEF N, All
<1>6. PICK turn : turn = [n \in 1 .. N |->
                            [acc \in Adjusteds(stops, n - 1) |-> AdjustStop(acc, stops[n])]]
  OBVIOUS
<1>7. PICK m \in [0 .. N -> All] : \A n \in 0 .. N :
         /\ m[n] \in Adjusteds(stops, n)
         /\ m[n] = IF n = 0 THEN BeforeAdjust ELSE turn[n][m[n - 1]]
  <2>1. PICK M, A, start, fam : /\ M = N /\ A = All /\ start = BeforeAdjust
                                /\ fam = [n \in 0 .. M |-> Adjusteds(stops, n)]
    OBVIOUS
  <2>2. IsLoop(M, A, fam, start, turn)
    BY <1>1, <1>3, <1>4, <1>5, <1>6, <2>1 DEF IsLoop
  <2>3. \E m \in [0 .. M -> A] : IsRun(M, fam, start, turn, m)
    BY <2>2, LoopRuns
  <2>4. QED
    BY <2>1, <2>3 DEF IsRun
<1>8. m = [n \in 0 .. N |-> Body(m, n)]
  <2>1. ASSUME NEW n \in 0 .. N PROVE m[n] = Body(m, n)
    <3>1. CASE n = 0
      BY <1>7, <3>1
    <3>2. CASE n # 0
      <4>1. n \in 1 .. N /\ n - 1 \in 0 .. N
        BY <1>1, <3>2
      <4>2. turn[n][m[n - 1]] = AdjustStop(m[n - 1], stops[n])
        BY <1>6, <1>7, <4>1
      <4>3. QED
        BY <1>7, <3>2, <4>2
    <3>3. QED
      BY <3>1, <3>2
  <2> HIDE DEF Body
  <2>2. QED
    BY <2>1
<1>9. Loop = [n \in 0 .. N |-> Body(Loop, n)]
  <2> HIDE DEF Body
  <2>1. QED
    BY <1>8
<1> HIDE DEF Loop
<1> DEFINE T == {n \in 0 .. N : Loop[n] \in Adjusteds(stops, n)}
<1>10. 0 \in T
  BY <1>1, <1>3, <1>9
<1>11. ASSUME NEW n \in T, n < N PROVE n + 1 \in T
  <2>1. n + 1 \in 0 .. N /\ n + 1 \in 1 .. N /\ n + 1 # 0 /\ (n + 1) - 1 = n
    BY <1>1, <1>11
  <2>2. Loop[n + 1] = AdjustStop(Loop[n], stops[n + 1])
    BY <1>9, <2>1
  <2>3. QED
    BY <1>4, <2>1, <2>2
<1>12. T = 0 .. N
  <2> HIDE DEF T
  <2>1. T \in SUBSET (0 .. N)
    BY DEF T
  <2>2. QED
    BY <1>1, <1>10, <1>11, <2>1, InductionUpTo
<1>13. N \in T
  <2> HIDE DEF T
  <2>1. QED
    BY <1>1, <1>12
<1>14. PICK managed : managed = ManageConsistency(stops)
  OBVIOUS
<1>15. managed \in Adjusteds(stops, N)
  BY <1>2, <1>13, <1>14
<1>16. /\ managed.stops \in Seq(DelayedStus) /\ Len(managed.stops) = N
       /\ \A i \in 1 .. N : managed.stops[i] = stops[i]
       /\ managed.ok => AreAccepted(stops, N)
  BY <1>15 DEF Adjusteds
<1>17. managed.stops = stops
  <2>1. PICK made : made = managed.stops
    OBVIOUS
  <2>2. made \in Seq(DelayedStus) /\ Len(made) = Len(stops)
    BY <1>16, <2>1 DEF N
  <2>3. \A i \in 1 .. Len(made) : made[i] = stops[i]
    BY <1>16, <2>1, <2>2 DEF N
  <2>4. QED
    BY <2>1, <2>2, <2>3, SeqEqual
<1>18. QED
  BY <1>14, <1>16, <1>17 DEF N

-----------------------------------------------------------------------------
(***************************************************************************)
(* The inductive invariant                                                 *)
(***************************************************************************)

\* What navitia holds was accepted, and can be driven.
ToldIsDriven ==
    /\ AreDriven(told)
    /\ AreAccepted(told, Len(told))

Inv == TypeOK /\ ToldIsDriven

\* What is made of a TripUpdate fits the database and, if it is sent, navitia.
LEMMA HandledIs ==
    ASSUME TripMergeAssumption, NEW db \in OrNone(StoredTrips), NEW new, IsWellMade(new)
    PROVE  LET result == Handled(db, new) IN
           /\ result.stored \in OrNone(StoredTrips)
           /\ result.verdict \in {"sent", "nothing", "rejected", "failed"}
           /\ result.verdict = "sent" =>
                 /\ result.stored.stops \in Seq(StopTimeUpdates(Int))
                 /\ AreDriven(result.stored.stops)
                 /\ AreAccepted(result.stored.stops, Len(result.stored.stops))
<1>1. NoneIsApart
  BY NoneIs
<1>2. StoredTrips = [cancel : BOOLEAN, stops : Seq(Stus)]
  BY DEF StoredTrips, Stus, Times
<1>3. /\ None \in OrNone(StoredTrips)
      /\ db # None => db \in StoredTrips /\ db.stops \in Seq(Stus)
  BY <1>2 DEF OrNone
<1>4. PICK result : result = Handled(db, new)
  OBVIOUS
<1>5. CASE new.cancel
  <2>1. result = [stored |-> [cancel |-> TRUE, stops |-> <<>>], verdict |-> "sent"]
    BY <1>4, <1>5 DEF Handled
  <2>2. /\ <<>> \in Seq(Stus) /\ <<>> \in Seq(StopTimeUpdates(Int))
        /\ DOMAIN <<>> = {} /\ Len(<<>>) = 0
    BY EmptySeq
  <2>3. AreDriven(<<>>) /\ AreAccepted(<<>>, 0)
    BY <2>2 DEF AreDriven, AreAccepted
  <2>4. [cancel |-> TRUE, stops |-> <<>>] \in StoredTrips
    BY <1>2, <2>2
  <2>5. /\ result.verdict = "sent"
        /\ result.stored = [cancel |-> TRUE, stops |-> <<>>]
    BY <2>1
  <2>6. result.stored.stops = <<>>
    BY <2>5
  <2>7. QED
    BY <1>4, <2>2, <2>3, <2>4, <2>5, <2>6 DEF OrNone
<1>6. CASE ~new.cancel /\ Raises(NextStops(db, new))
  <2>1. result = [stored |-> IF db = None THEN None ELSE [db EXCEPT !.cancel = FALSE],
                  verdict |-> "failed"]
    BY <1>4, <1>6 DEF Handled
  <2>2. db # None => [db EXCEPT !.cancel = FALSE] \in StoredTrips
    BY <1>2, <1>3
  <2>3. QED
    BY <1>4, <2>1, <2>2 DEF OrNone
<1>7. CASE ~new.cancel /\ ~Raises(NextStops(db, new))
  <2>1. PICK merged : merged = Merged(db, new)
    OBVIOUS
  <2>2. PICK managed : managed = ManageConsistency(merged.stops)
    OBVIOUS
  <2>3. PICK stops : stops = merged.stops
    OBVIOUS
  <2>4. stops \in Seq(DelayedStus) /\ AreDriven(stops) /\ merged.changes \in BOOLEAN
    BY <1>7, <2>1, <2>3, MergedInOrder DEF Accs
  <2>5. managed.stops = stops /\ (managed.ok => AreAccepted(stops, Len(stops)))
    BY <1>1, <2>2, <2>3, <2>4, ManagedIsSame
  <2>6. result = Outcome(db, merged.changes, managed)
    BY <1>4, <1>7, <2>1, <2>2 DEF Handled, MergedOutcome
  <2>7. stops \in Seq(Stus) /\ [cancel |-> FALSE, stops |-> stops] \in StoredTrips
    <3>1. DelayedStus \subseteq Stus
      BY DEF DelayedStus
    <3>2. stops \in Seq(Stus)
      BY <2>4, <3>1
    <3>3. QED
      BY <1>2, <3>2
  <2>8. db # None => [cancel |-> FALSE, stops |-> db.stops] \in StoredTrips
    BY <1>2, <1>3
  <2>9. CASE ~merged.changes
    <3>1. result = [stored |-> IF db = None THEN None
                               ELSE [cancel |-> FALSE, stops |-> db.stops],
                    verdict |-> "nothing"]
      BY <2>6, <2>9 DEF Outcome
    <3>2. QED
      BY <1>3, <1>4, <2>8, <3>1 DEF OrNone
  <2>10. CASE merged.changes /\ ~managed.ok
    <3>1. result = [stored |-> IF db = None THEN None ELSE [cancel |-> FALSE, stops |-> stops],
                    verdict |-> "rejected"]
      BY <2>5, <2>6, <2>10 DEF Outcome
    <3>2. QED
      BY <1>3, <1>4, <2>7, <3>1 DEF OrNone
  <2>11. CASE merged.changes /\ managed.ok
    <3>1. result = [stored |-> [cancel |-> FALSE, stops |-> stops], verdict |-> "sent"]
      BY <2>5, <2>6, <2>11 DEF Outcome
    <3>2. stops \in Seq(StopTimeUpdates(Int))
      <4>1. DOMAIN stops = 1 .. Len(stops) /\ Len(stops) \in Nat
        BY <2>4, LenProperties
      <4>2. ASSUME NEW i \in 1 .. Len(stops) PROVE stops[i] \in StopTimeUpdates(Int)
        <5>1. stops[i] \in DelayedStus
          BY <2>4, <4>2, ElementOfSeq
        <5>2. stops[i].time["arrival"] # None /\ stops[i].time["departure"] # None
          BY <2>4, <2>5, <2>11, <4>1 DEF AreAccepted, AreDriven, IsDriven
        <5>3. PICK stu : stu = stops[i]
          OBVIOUS
        <5>4. \A e \in Events : stu.time[e] \in Int /\ stu.delay[e] \in Int
          BY <5>1, <5>2, <5>3 DEF DelayedStus, Stus, StopTimeUpdates, Times, OrNone, Events
        <5>5. stu \in StopTimeUpdates(Int)
          BY <5>1, <5>3, <5>4 DEF DelayedStus, Stus, StopTimeUpdates
        <5>6. QED
          BY <5>3, <5>5
      <4>3. QED
        BY <4>1, <4>2, <2>4
    <3>3. QED
      BY <1>4, <2>4, <2>5, <2>7, <2>11, <3>1, <3>2 DEF OrNone
  <2>12. QED
    BY <2>4, <2>9, <2>10, <2>11
<1>8. QED
  BY <1>5, <1>6, <1>7

LEMMA InitInv == ASSUME Init PROVE Inv
<1>1. <<>> \in Seq(StopTimeUpdates(Int)) /\ DOMAIN <<>> = {} /\ Len(<<>>) = 0
  BY EmptySeq
<1>2. TypeOK
  BY <1>1 DEF Init, TypeOK, OrNone
<1>3. ToldIsDriven
  BY <1>1 DEF Init, ToldIsDriven, AreDriven, AreAccepted
<1>4. QED
  BY <1>2, <1>3 DEF Inv

LEMMA HandleKeepsInv ==
    ASSUME TripMergeAssumption, TripFeedsAssumption, Inv,
           NEW feed \in Feeds, NEW update \in Range(TripUpdates[feed]), Handle(feed, update)
    PROVE  Inv'
<1>1. PICK result : /\ result = Handled(stored, update)
                    /\ stored' = result.stored
                    /\ verdict' = result.verdict
                    /\ told' = IF result.verdict = "sent" THEN result.stored.stops ELSE told
                    /\ last' = feed
  BY DEF Handle
<1>2. stored \in OrNone(StoredTrips) /\ told \in Seq(StopTimeUpdates(Int)) /\ ToldIsDriven
  BY DEF Inv, TypeOK
<1>3. IsWellMade(update)
  BY BuiltIsWellMade
<1>4. /\ result.stored \in OrNone(StoredTrips)
      /\ result.verdict \in {"sent", "nothing", "rejected", "failed"}
      /\ result.verdict = "sent" =>
            /\ result.stored.stops \in Seq(StopTimeUpdates(Int))
            /\ AreDriven(result.stored.stops)
            /\ AreAccepted(result.stored.stops, Len(result.stored.stops))
  BY <1>1, <1>2, <1>3, HandledIs
<1>5. TypeOK'
  BY <1>1, <1>2, <1>4 DEF TypeOK, OrNone
<1>6. ToldIsDriven'
  <2>1. CASE result.verdict = "sent"
    BY <1>1, <1>4, <2>1 DEF ToldIsDriven
  <2>2. CASE result.verdict # "sent"
    BY <1>1, <1>2, <2>2 DEF ToldIsDriven
  <2>3. QED
    BY <2>1, <2>2
<1>7. QED
  BY <1>5, <1>6 DEF Inv

\* The inductive invariant of TripFeeds.
THEOREM FeedsInvariant == Spec => []Inv
<1>1. Inv /\ [Next]_vars => Inv'
  <2> SUFFICES ASSUME Inv, [Next]_vars PROVE Inv'
    OBVIOUS
  <2>1. CASE UNCHANGED vars
    BY <2>1 DEF vars, Inv, TypeOK, ToldIsDriven
  <2>2. ASSUME NEW feed \in Feeds, HandleFeed(feed) PROVE Inv'
    BY <2>2, TripMergeAssumption, TripFeedsAssumption, HandleKeepsInv DEF HandleFeed
  <2>3. ASSUME NEW feed \in Feeds, RefuseFeed(feed) PROVE Inv'
    BY <2>3 DEF RefuseFeed, Inv, TypeOK, ToldIsDriven, OrNone
  <2>4. QED
    BY <2>1, <2>2, <2>3 DEF Next
<1>2. QED
  BY <1>1, InitInv, PTL DEF Spec

\* Every event navitia is told of has a time and a delay, for any trip and any
\* sequence of feeds, refused ones included.
THEOREM TypesAreKept == Spec => []TypeOK
<1>1. Inv => TypeOK
  BY DEF Inv
<1>2. QED
  BY <1>1, FeedsInvariant, PTL

\* The stops navitia is told of can be driven, whatever the feeds say: they come in
\* their order, and no served event is before another that the vehicle meets first.
THEOREM ToldCanBeDriven == Spec => []TripCanBeDriven
<1>1. Inv => TripCanBeDriven
  <2> SUFFICES ASSUME Inv, NEW k \in DOMAIN told
               PROVE  /\ told[k].order = k - 1
                      /\ \A e \in Events :
                            \A m \in MetBefore(told, k, e) :
                               told[m[1]].time[m[2]] <= told[k].time[e]
    BY DEF TripCanBeDriven
  <2>1. told \in Seq(StopTimeUpdates(Int)) /\ AreDriven(told) /\ AreAccepted(told, Len(told))
    BY DEF Inv, TypeOK, ToldIsDriven
  <2>2. DOMAIN told = 1 .. Len(told) /\ Len(told) \in Nat
    BY <2>1, LenProperties
  <2>3. told[k].order = k - 1
    BY <2>1, <2>2 DEF AreAccepted
  <2>4. ASSUME NEW i \in 1 .. Len(told)
        PROVE  /\ told[i].time["arrival"] \in Int /\ told[i].time["departure"] \in Int
               /\ told[i].time["arrival"] <= told[i].time["departure"]
    <3>1. told[i] \in StopTimeUpdates(Int)
      BY <2>1, <2>4, ElementOfSeq
    <3>2. told[i].time["arrival"] \in Int /\ told[i].time["departure"] \in Int
      BY <3>1 DEF StopTimeUpdates, Events
    <3>3. told[i].time["arrival"] # None
      BY <2>1, <2>4 DEF AreAccepted
    <3>4. QED
      BY <2>1, <2>2, <3>2, <3>3 DEF AreDriven, IsDriven
  <2>5. ASSUME NEW i \in 1 .. k - 1
        PROVE  i \in 1 .. Len(told) /\ told[i].time["departure"] <= told[k].time["arrival"]
    <3>1. i \in 1 .. Len(told)
      BY <2>2
    <3>2. told[i].time["departure"] # None
      BY <2>4, <3>1, TripMergeAssumption DEF TripMergeAssumption
    <3>3. QED
      BY <2>1, <3>1, <3>2 DEF AreDriven, IsDriven
  <2>6. ASSUME NEW e \in Events, NEW m \in MetBefore(told, k, e)
        PROVE  told[m[1]].time[m[2]] <= told[k].time[e]
    <3>1. PICK i, f : i = m[1] /\ f = m[2]
      OBVIOUS
    <3>2. i \in 1 .. k /\ f \in Events /\ (i = k /\ e = "arrival" => f = "arrival")
      BY <3>1 DEF MetBefore
    <3>3. k \in 1 .. Len(told) /\ i \in 1 .. Len(told)
      BY <2>2, <3>2
    <3>4. CASE i = k
      BY <2>4, <3>1, <3>2, <3>3, <3>4 DEF Events
    <3>5. CASE i # k
      <4>1. i \in 1 .. k - 1
        BY <2>2, <3>2, <3>5
      <4>2. told[i].time["departure"] <= told[k].time["arrival"]
        BY <2>5, <4>1
      <4>3. PICK a, b, c, d : /\ a = told[i].time["arrival"] /\ b = told[i].time["departure"]
                              /\ c = told[k].time["arrival"] /\ d = told[k].time["departure"]
        OBVIOUS
      <4>4. a \in Int /\ b \in Int /\ a <= b /\ c \in Int /\ d \in Int /\ c <= d /\ b <= c
        BY <2>4, <3>3, <4>2, <4>3
      <4>5. told[i].time[f] \in {a, b} /\ told[k].time[e] \in {c, d}
        BY <3>2, <4>3 DEF Events
      <4>6. told[i].time[f] <= told[k].time[e]
        BY <4>4, <4>5
      <4>7. QED
        BY <3>1, <4>6
    <3>6. QED
      BY <3>4, <3>5
  <2>7. QED
    BY <2>3, <2>6
<1>2. QED
  BY <1>1, FeedsInvariant, PTL

-----------------------------------------------------------------------------
(***************************************************************************)
(* A turn of merge() on a stop of the feed: only the times of the events   *)
(* that are served matter, and the stop in database only for the changes.  *)
(***************************************************************************)

ClockOfArrival(clock, stop, newStu) ==
    Tick(clock, ~IsDeleted(newStu, "arrival"), "arrival", stop, newStu)

ClockAfter(clock, stop, newStu) ==
    Tick(ClockOfArrival(clock, stop, newStu), ~IsDeleted(newStu, "departure"), "departure",
         stop, newStu)

\* The stop made anew
Fresh(clock, lastDep, stop, newStu) ==
    MakeStopTimeUpdate(
       [e \in Events |-> Dated(IF e = "arrival" THEN ClockOfArrival(clock, stop, newStu)
                                                ELSE ClockAfter(clock, stop, newStu),
                               ~IsDeleted(newStu, e), stop, e)],
       lastDep, newStu, stop)

LEMMA MergeStopIs ==
    ASSUME NEW acc, NEW dbStu, NEW newStu, newStu # None, NEW stop,
           NEW fresh, fresh = Fresh(acc.clock, acc.lastDep, stop, newStu)
    PROVE  LET next == MergeStop(acc, stop, dbStu, newStu) IN
           /\ next.clock = ClockAfter(acc.clock, stop, newStu)
           /\ next.lastDep = fresh.time["departure"]
           /\ next.changes = (acc.changes \/ fresh # dbStu)
           /\ next.stops = Append(acc.stops, fresh)
<1> DEFINE served == [e \in Events |-> IsServed(e, TRUE, dbStu, newStu)]
           clockA == Tick(acc.clock, served["arrival"], "arrival", stop, newStu)
           clockD == Tick(clockA, served["departure"], "departure", stop, newStu)
           base == [e \in Events |-> Dated(IF e = "arrival" THEN clockA ELSE clockD,
                                           served[e], stop, e)]
           made == MakeStopTimeUpdate(base, acc.lastDep, newStu, stop)
           changes == acc.changes \/ fresh # dbStu
<1>1. \A e \in Events : served[e] = ~IsDeleted(newStu, e)
  BY DEF IsServed
<1>2. MergeStop(acc, stop, dbStu, newStu) = Keep(acc, clockD, made, dbStu)
  BY DEF MergeStop
<1> HIDE DEF served
<1>3. clockA = ClockOfArrival(acc.clock, stop, newStu)
  BY <1>1 DEF ClockOfArrival, Events
<1>4. clockD = ClockAfter(acc.clock, stop, newStu)
  BY <1>1, <1>3 DEF ClockAfter, Events
<1> HIDE DEF clockA, clockD
<1>5. base = [e \in Events |-> Dated(IF e = "arrival" THEN clockA ELSE clockD,
                                     ~IsDeleted(newStu, e), stop, e)]
  BY <1>1
<1> HIDE DEF base
<1>6. made = fresh
  BY <1>3, <1>4, <1>5 DEF Fresh
<1> HIDE DEF made
<1>7. (IF changes THEN fresh ELSE dbStu) = fresh
  OBVIOUS
<1>8. changes = (acc.changes \/ IsNews(fresh, dbStu))
  BY DEF IsNews
<1> HIDE DEF changes
<1>9. Keep(acc, clockD, fresh, dbStu) =
         [clock |-> clockD, lastDep |-> fresh.time["departure"], changes |-> changes,
          stops |-> Append(acc.stops, fresh)]
  BY <1>7, <1>8 DEF Keep
<1>10. QED
  BY <1>2, <1>4, <1>6, <1>9 DEF changes

\* It has the identity, the order and the statuses of the stop of the feed.
LEMMA FreshIs ==
    ASSUME NEW clock, NEW lastDep, NEW stop, NEW newStu
    PROVE  LET fresh == Fresh(clock, lastDep, stop, newStu) IN
           fresh.id = stop.id /\ fresh.order = stop.order /\ fresh.status = newStu.status
BY DEF Fresh, MakeStopTimeUpdate, PushedUpdate

\* The times of the events that are not served are of no account.
LEMMA SameFresh ==
    ASSUME NEW clock, NEW lastDep, NEW newStu, NEW s, NEW t,
           s.id = t.id, s.order = t.order,
           \A e \in Events : ~IsDeleted(newStu, e) => s.time[e] = t.time[e]
    PROVE  /\ Fresh(clock, lastDep, s, newStu) = Fresh(clock, lastDep, t, newStu)
           /\ ClockAfter(clock, s, newStu) = ClockAfter(clock, t, newStu)
<1>1. "arrival" \in Events /\ "departure" \in Events
  BY DEF Events
<1>2. ClockOfArrival(clock, s, newStu) = ClockOfArrival(clock, t, newStu)
  BY <1>1 DEF ClockOfArrival, Tick
<1>3. ClockAfter(clock, s, newStu) = ClockAfter(clock, t, newStu)
  BY <1>1, <1>2 DEF ClockAfter, Tick
<1> DEFINE Base1(stop, e) == Dated(IF e = "arrival" THEN ClockOfArrival(clock, stop, newStu)
                                                   ELSE ClockAfter(clock, stop, newStu),
                                  ~IsDeleted(newStu, e), stop, e)
<1>4. ASSUME NEW e \in Events PROVE Base1(s, e) = Base1(t, e)
  BY <1>2, <1>3 DEF Dated
<1>5. [e \in Events |-> Base1(s, e)] = [e \in Events |-> Base1(t, e)]
  <2> HIDE DEF Base1
  <2>1. QED
    BY <1>4
<1>6. PICK base : base = [e \in Events |-> Base1(s, e)]
  OBVIOUS
<1>7. MakeStopTimeUpdate(base, lastDep, newStu, s) = MakeStopTimeUpdate(base, lastDep, newStu, t)
  BY DEF MakeStopTimeUpdate, PushedUpdate
<1>8. /\ Fresh(clock, lastDep, s, newStu) = MakeStopTimeUpdate(base, lastDep, newStu, s)
      /\ Fresh(clock, lastDep, t, newStu) = MakeStopTimeUpdate(base, lastDep, newStu, t)
  BY <1>5, <1>6 DEF Fresh
<1>9. QED
  BY <1>3, <1>7, <1>8

-----------------------------------------------------------------------------
\* A stop that merge() goes through is the one at its place in the feed.
LEMMA NextStopIsAt ==
    ASSUME TripMergeAssumption, NEW db, NEW new, IsWellMade(new),
           NEW i \in DOMAIN NextStops(db, new), NextStops(db, new)[i] # None
    PROVE  /\ i \in DOMAIN new.stops
           /\ NextStops(db, new)[i].id = new.stops[i].id
           /\ NextStops(db, new)[i].order = i - 1
<1>1. CASE new.complete
  <2>1. i \in DOMAIN new.stops /\ NextStops(db, new)[i] = FeedStops(db, new)[i]
    BY <1>1 DEF NextStops, FeedStops
  <2>2. FeedStops(db, new)[i].id = new.stops[i].id /\ FeedStops(db, new)[i].order = i - 1
    BY <1>1, <2>1 DEF FeedStops
  <2>3. QED
    BY <2>1, <2>2
<1>2. CASE ~new.complete
  <2>1. i \in DOMAIN Base /\ i \in DOMAIN new.stops /\ new.stops[i].id = Base[i].id
    BY <1>2 DEF NextStops, BaseStops, IsWellMade
  <2>2. NextStops(db, new)[i] = [order |-> i - 1, id |-> Base[i].id, time |-> Base[i].time]
    BY <1>2 DEF NextStops, BaseStops
  <2>3. QED
    BY <2>1, <2>2
<1>3. QED
  BY <1>1, <1>2

\* The stop of an order is the only one.
LEMMA FindStopAt ==
    ASSUME NEW stops, DOMAIN stops \subseteq Nat, NEW id, NEW order, NEW stu,
           \E i \in DOMAIN stops : stops[i] = stu, stu.id = id, stu.order = order,
           \A i \in DOMAIN stops : stops[i].id = id /\ stops[i].order = order => stops[i] = stu
    PROVE  FindStop(stops, id, order) = stu
<1>1. PICK i \in DOMAIN stops : stops[i] = stu
  OBVIOUS
<1>2. stops[i].id = id /\ stops[i].order = order
  BY <1>1
<1>3. \E j \in DOMAIN stops :
         /\ FindStop(stops, id, order) = stops[j] /\ stops[j].id = id
         /\ stops[i].order = order => stops[j].order = order
  BY <1>2, FindStopFinds
<1>4. QED
  BY <1>2, <1>3

LEMMA NewStuIs ==
    ASSUME NEW new, IsWellMade(new), NEW i \in DOMAIN new.stops
    PROVE  FindStop(new.stops, new.stops[i].id, i - 1) = new.stops[i]
<1>1. PICK stops : stops = new.stops
  OBVIOUS
<1>2. stops \in Seq(Stus) /\ DOMAIN stops = 1 .. Len(stops) /\ Len(stops) \in Nat
  BY <1>1, LenProperties DEF IsWellMade, Stus, Times
<1>3. \A j \in DOMAIN stops : stops[j].order = j - 1
  BY <1>1 DEF IsWellMade
<1>4. PICK stu, id, order : stu = stops[i] /\ id = stops[i].id /\ order = i - 1
  OBVIOUS
<1>5. ASSUME NEW j \in DOMAIN stops, stops[j].order = order PROVE stops[j] = stu
  BY <1>1, <1>2, <1>3, <1>4, <1>5
<1>6. /\ DOMAIN stops \subseteq Nat /\ \E j \in DOMAIN stops : stops[j] = stu
      /\ stu.id = id /\ stu.order = order
  BY <1>1, <1>2, <1>3, <1>4
<1>7. FindStop(stops, id, order) = stu
  BY <1>5, <1>6, FindStopAt
<1>8. QED
  BY <1>1, <1>4, <1>7

\* So a turn of the loop is about the stop of the feed at the same place.
LEMMA MergeNextIs ==
    ASSUME TripMergeAssumption, NEW db, NEW new, IsWellMade(new),
           NEW i \in DOMAIN NextStops(db, new), NEW acc,
           NEW stop, stop = NextStops(db, new)[i], stop # None,
           NEW newStu, newStu = new.stops[i],
           NEW fresh, fresh = Fresh(acc.clock, acc.lastDep, stop, newStu)
    PROVE  LET next == MergeNext(acc, db, new, stop) IN
           /\ next.clock = ClockAfter(acc.clock, stop, newStu)
           /\ next.lastDep = fresh.time["departure"]
           /\ next.changes = (acc.changes \/ fresh # FindInDb(db, newStu.id, i - 1))
           /\ next.stops = Append(acc.stops, fresh)
<1>2. i \in DOMAIN new.stops /\ stop.id = newStu.id /\ stop.order = i - 1
  BY NextStopIsAt
<1>3. FindStop(new.stops, newStu.id, i - 1) = newStu
  BY <1>2, NewStuIs
<1>4. newStu # None
  <2>1. new.stops \in Seq(Stus) /\ i \in 1 .. Len(new.stops)
    BY <1>2, LenProperties DEF IsWellMade, Stus, Times
  <2>2. newStu \in Stus
    BY <2>1, ElementOfSeq
  <2>3. QED
    BY <2>2, NoneIs DEF NoneIsApart
<1>5. PICK dbStu : dbStu = FindInDb(db, newStu.id, i - 1)
  OBVIOUS
<1>6. MergeNext(acc, db, new, stop) = MergeStop(acc, stop, dbStu, newStu)
  BY <1>2, <1>3, <1>5 DEF MergeNext
<1>7. fresh = Fresh(acc.clock, acc.lastDep, stop, newStu)
  OBVIOUS
<1>8. QED
  BY ONLY <1>4, <1>5, <1>6, <1>7, MergeStopIs

-----------------------------------------------------------------------------
(***************************************************************************)
(* What merge() leaves, stop by stop                                       *)
(***************************************************************************)

\* The places of the feed that the first n turns of the loop do not pass over
Kept(db, new, n) == {k \in 1 .. n : NextStops(db, new)[k] # None}

\* What is made of the stop at place k
MadeAt(db, new, k) ==
    Fresh(Turns(db, new)[k - 1].clock, Turns(db, new)[k - 1].lastDep,
          NextStops(db, new)[k], new.stops[k])

\* The members of a sequence
Members(stops) == {stops[i] : i \in DOMAIN stops}

LEMMA MembersOfAppend ==
    ASSUME NEW S, NEW stops \in Seq(S), NEW stu \in S
    PROVE  Members(Append(stops, stu)) = Members(stops) \cup {stu}
<1> DEFINE more == Append(stops, stu)
           n == Len(stops)
<1>1. /\ n \in Nat /\ DOMAIN stops = 1 .. n
      /\ more \in Seq(S) /\ Len(more) = n + 1
      /\ \A i \in 1 .. n : more[i] = stops[i]
      /\ more[n + 1] = stu
  BY AppendProperties, LenProperties
<1>2. DOMAIN more = 1 .. n + 1
  BY <1>1, LenProperties
<1> HIDE DEF more, n
<1>3. 1 .. n + 1 = 1 .. n \cup {n + 1} /\ n + 1 \notin 1 .. n
  BY <1>1
<1>4. QED
  BY <1>1, <1>2, <1>3 DEF Members, more

LEMMA MergedStopsAre ==
    ASSUME TripMergeAssumption, NEW db \in OrNone(StoredTrips), NEW new, IsWellMade(new),
           ~Raises(NextStops(db, new))
    PROVE  Members(Merged(db, new).stops) =
              {MadeAt(db, new, k) : k \in Kept(db, new, Len(NextStops(db, new)))}
<1> DEFINE next == NextStops(db, new)
           N == Len(next)
           turns == Turns(db, new)
           AllMade(n) == {MadeAt(db, new, k) : k \in Kept(db, new, n)}
           T == {n \in 0 .. N : Members(turns[n].stops) = AllMade(n)}
<1>1. N \in Nat /\ DOMAIN next = 1 .. N
  BY NextStopsAre
<1>2. /\ Merged(db, new) = turns[N]
      /\ turns[0] = BeforeMerge
      /\ \A n \in 1 .. N : turns[n] = MergeNext(turns[n - 1], db, new, next[n])
      /\ \A n \in 0 .. N : turns[n] \in Accs
  BY TurnsAre
<1>3. 0 \in T
  <2>1. DOMAIN <<>> = {}
    OBVIOUS
  <2>2. Members(turns[0].stops) = {}
    BY <1>2, <2>1 DEF Members, BeforeMerge
  <2>3. AllMade(0) = {}
    BY DEF Kept
  <2>4. QED
    BY <1>1, <2>2, <2>3
<1> HIDE DEF N, turns
<1>4. ASSUME NEW n \in T, n < N PROVE n + 1 \in T
  <2>1. n \in 0 .. N /\ n + 1 \in 0 .. N /\ n + 1 \in 1 .. N /\ (n + 1) - 1 = n
    BY <1>1, <1>4
  <2>2. PICK acc, stop : acc = turns[n] /\ stop = next[n + 1]
    OBVIOUS
  <2>3. turns[n + 1] = MergeNext(acc, db, new, stop)
    BY <1>2, <2>1, <2>2
  <2>4. acc.stops \in Seq(DelayedStus) /\ Members(acc.stops) = AllMade(n)
    BY <1>2, <2>1, <2>2 DEF Accs
  <2>5. CASE stop = None
    <3>1. turns[n + 1] = acc
      BY <2>3, <2>5 DEF MergeNext
    <3>2. Kept(db, new, n + 1) = Kept(db, new, n)
      <4>1. 1 .. n + 1 = 1 .. n \cup {n + 1}
        BY <1>1, <2>1
      <4>2. NextStops(db, new)[n + 1] = None
        BY <2>2, <2>5
      <4>3. QED
        BY <4>1, <4>2 DEF Kept
    <3>3. QED
      BY <2>1, <2>4, <3>1, <3>2
  <2>6. CASE stop # None
    <3>1. PICK fresh : fresh = MadeAt(db, new, n + 1)
      OBVIOUS
    <3>2. fresh = Fresh(acc.clock, acc.lastDep, stop, new.stops[n + 1])
      BY <2>1, <2>2, <3>1 DEF MadeAt, turns
    <3>3. turns[n + 1].stops = Append(acc.stops, fresh)
      <4>1. /\ n + 1 \in DOMAIN NextStops(db, new)
            /\ stop = NextStops(db, new)[n + 1] /\ NextStops(db, new)[n + 1] # None
        BY <1>1, <2>1, <2>2, <2>6
      <4>2. PICK newStu, place : newStu = new.stops[n + 1] /\ place = n + 1
        OBVIOUS
      <4>3. MergeNext(acc, db, new, stop).stops = Append(acc.stops, fresh)
        BY <3>2, <4>1, <4>2, MergeNextIs
      <4>4. QED
        BY <2>3, <4>3
    <3>4. fresh \in DelayedStus
      <4>1. turns[n + 1].stops \in Seq(DelayedStus)
        BY <1>2, <2>1 DEF Accs
      <4>2. PICK made : made = turns[n + 1].stops
        OBVIOUS
      <4>3. Len(acc.stops) + 1 \in 1 .. Len(made) /\ made[Len(acc.stops) + 1] = fresh
        <5>1. Len(acc.stops) \in Nat
          BY <2>4, LenProperties
        <5>2. /\ Len(Append(acc.stops, fresh)) = Len(acc.stops) + 1
              /\ Append(acc.stops, fresh)[Len(acc.stops) + 1] = fresh
          BY <5>1
        <5>3. QED
          BY <3>3, <4>2, <5>1, <5>2
      <4>4. QED
        BY <4>1, <4>2, <4>3, ElementOfSeq
    <3>5. Members(turns[n + 1].stops) = Members(acc.stops) \cup {fresh}
      BY <2>4, <3>3, <3>4, MembersOfAppend
    <3>6. Kept(db, new, n + 1) = Kept(db, new, n) \cup {n + 1}
      BY <2>1, <2>2, <2>6 DEF Kept
    <3>7. AllMade(n + 1) = AllMade(n) \cup {fresh}
      BY <3>1, <3>6
    <3>8. QED
      BY <2>1, <2>4, <3>5, <3>7
  <2>7. QED
    BY <2>5, <2>6
<1>5. T = 0 .. N
  <2> HIDE DEF T
  <2>1. T \in SUBSET (0 .. N)
    BY DEF T
  <2>2. QED
    BY <1>1, <1>3, <1>4, <2>1, InductionUpTo
<1>6. Members(turns[N].stops) = AllMade(N)
  <2>1. N \in 0 .. N
    BY <1>1
  <2>2. QED
    BY <1>5, <2>1
<1>7. QED
  BY <1>2, <1>6 DEF N, turns

LEMMA MadeIsStu ==
    ASSUME TripMergeAssumption, NEW db \in OrNone(StoredTrips), NEW new, IsWellMade(new),
           ~Raises(NextStops(db, new)),
           NEW k \in DOMAIN NextStops(db, new), NextStops(db, new)[k] # None
    PROVE  MadeAt(db, new, k) \in DelayedStus
<1>1. PICK stops : stops = Merged(db, new).stops
  OBVIOUS
<1>2. k \in Kept(db, new, Len(NextStops(db, new)))
  BY NextStopsAre DEF Kept
<1>3. MadeAt(db, new, k) \in Members(stops)
  BY <1>1, <1>2, MergedStopsAre
<1>4. stops \in Seq(DelayedStus)
  BY <1>1, MergedInOrder DEF Accs
<1>5. \A i \in DOMAIN stops : stops[i] \in DelayedStus
  BY <1>4, ElementOfSeq, LenProperties
<1>6. QED
  BY <1>3, <1>5 DEF Members

\* The stop of each of these places is found again.
LEMMA MadeIsFound ==
    ASSUME TripMergeAssumption, NEW db \in OrNone(StoredTrips), NEW new, IsWellMade(new),
           ~Raises(NextStops(db, new)),
           NEW k \in DOMAIN NextStops(db, new), NextStops(db, new)[k] # None
    PROVE  FindStop(Merged(db, new).stops, new.stops[k].id, k - 1) = MadeAt(db, new, k)
<1> DEFINE N == Len(NextStops(db, new))
<1>1. N \in Nat /\ DOMAIN NextStops(db, new) = 1 .. N
  BY NextStopsAre
<1>2. PICK stops : stops = Merged(db, new).stops
  OBVIOUS
<1>3. Members(stops) = {MadeAt(db, new, j) : j \in Kept(db, new, N)}
  BY <1>2, MergedStopsAre
<1>4. stops \in Seq(DelayedStus)
  BY <1>2, MergedInOrder DEF Accs
<1>5. DOMAIN stops \subseteq Nat
  BY <1>4, LenProperties
<1>6. ASSUME NEW j \in Kept(db, new, N)
      PROVE  MadeAt(db, new, j).id = new.stops[j].id /\ MadeAt(db, new, j).order = j - 1
  BY <1>1, <1>6, FreshIs, NextStopIsAt DEF Kept, MadeAt
<1>7. k \in Kept(db, new, N)
  BY <1>1 DEF Kept
<1>8. PICK stu, id, order : /\ stu = MadeAt(db, new, k) /\ id = new.stops[k].id
                            /\ order = k - 1
  OBVIOUS
<1>9. stu.id = id /\ stu.order = order /\ \E i \in DOMAIN stops : stops[i] = stu
  BY <1>3, <1>6, <1>7, <1>8 DEF Members
<1>10. ASSUME NEW i \in DOMAIN stops, stops[i].order = order PROVE stops[i] = stu
  <2>1. PICK j \in Kept(db, new, N) : stops[i] = MadeAt(db, new, j)
    BY <1>3 DEF Members
  <2>2. j - 1 = k - 1 /\ j \in Int /\ k \in Int
    BY <1>1, <1>6, <1>8, <1>10, <2>1 DEF Kept
  <2>3. QED
    BY <1>8, <2>1, <2>2
<1>11. FindStop(stops, id, order) = stu
  BY <1>5, <1>9, <1>10, FindStopAt
<1>12. QED
  BY <1>2, <1>8, <1>11

-----------------------------------------------------------------------------
(***************************************************************************)
(* The same feed again                                                     *)
(***************************************************************************)

\* A stop that the schedule does not have
IsForeign(id) == \A k \in DOMAIN Base : Base[k].id # id

AddedOrGone(stu) ==
    \/ \A e \in Events : IsDeleted(stu, e)
    \/ \E e \in Events : IsAdded(stu, e)

\* The feed gives no stop of the database another name.
RenamesNone(db, new) == \A i \in DOMAIN new.stops : ~IsRenamed(db, new.stops[i], i - 1)

\* So merge() does not pass over a stop that the database has.
LEMMA ForeignIsValid ==
    ASSUME NEW db, NEW new, RenamesNone(db, new), NEW i \in DOMAIN new.stops,
           NEW stu, stu = new.stops[i], NEW dbStu, dbStu = FindInDb(db, stu.id, i - 1),
           dbStu # None, IsForeign(stu.id)
    PROVE  \E e \in Events : IsNewEventValid(e, dbStu, stu)
<1>1. PICK e \in Events : \/ dbStu.status[e] = stu.status[e]
                         \/ ~(IsAdded(stu, e) <=> ~IsDeleted(dbStu, e))
  BY DEF RenamesNone, IsRenamed, IsForeign
<1>2. IsServed(e, FALSE, dbStu, None) = ~IsDeleted(dbStu, e)
  BY DEF IsServed
<1>3. QED
  BY <1>1, <1>2 DEF IsNewEventValid

\* What the database has of a stop
LEMMA FindInDbIs ==
    ASSUME NEW db \in OrNone(StoredTrips), NEW id, NEW order
    PROVE  LET dbStu == FindInDb(db, id, order) IN
           dbStu # None => /\ dbStu \in Stus /\ db # None /\ dbStu.id = id
                           /\ dbStu \in Members(db.stops)
<1>1. CASE db = None
  BY <1>1 DEF FindInDb
<1>2. CASE db # None
  <2>1. PICK stops : stops = db.stops
    OBVIOUS
  <2>2. stops \in Seq(Stus)
    BY <1>2, <2>1 DEF OrNone, StoredTrips, Stus, Times
  <2>3. DOMAIN stops \subseteq Nat /\ \A j \in DOMAIN stops : stops[j] \in Stus
    BY <2>2, ElementOfSeq, LenProperties
  <2>4. PICK dbStu : dbStu = FindInDb(db, id, order) /\ dbStu = FindStop(stops, id, order)
    BY <1>2, <2>1 DEF FindInDb
  <2>5. dbStu # None => \E j \in DOMAIN stops : dbStu = stops[j] /\ stops[j].id = id
    BY <2>3, <2>4, FindStopIs
  <2>6. QED
    BY <1>2, <2>1, <2>3, <2>4, <2>5 DEF Members
<1>3. QED
  BY <1>1, <1>2

\* A stop that the feed adds, or that it deletes, is one to go through.
LEMMA FakeTimeIs ==
    ASSUME TripMergeAssumption, NEW dbStu, dbStu # None => dbStu \in Stus, NEW newStu \in Stus
    PROVE  FakeTime(dbStu, newStu) \in [Events -> Times]
<1> DEFINE a == newStu.time["arrival"]
           d == newStu.time["departure"]
           dated == IF dbStu # None /\ a = None /\ d = None
                    THEN dbStu.time
                    ELSE [e \in Events |-> Plus(OrElse(newStu.time[e], OrElse(a, d)),
                                                newStu.delay[e])]
<1>1. FakeTime(dbStu, newStu) = [e \in Events |-> IF dated[e] = None THEN None ELSE dated[e] % Day]
  BY DEF FakeTime
<1>2. ASSUME NEW e \in Events PROVE dated[e] \in Times
  <2>1. CASE dbStu # None /\ a = None /\ d = None
    BY <2>1 DEF Stus, StopTimeUpdates
  <2>2. CASE ~(dbStu # None /\ a = None /\ d = None)
    <3>1. /\ newStu.time[e] \in Times /\ newStu.delay[e] \in Times
          /\ a \in Times /\ d \in Times
      BY DEF Stus, StopTimeUpdates, Events
    <3>2. Plus(OrElse(newStu.time[e], OrElse(a, d)), newStu.delay[e]) \in Times
      <4> HIDE DEF a, d
      <4>1. QED
        BY <3>1 DEF Plus, OrElse, Times, OrNone
    <3>3. QED
      BY <2>2, <3>2
  <2>3. QED
    BY <2>1, <2>2
<1> HIDE DEF dated
<1>3. ASSUME NEW e \in Events PROVE (IF dated[e] = None THEN None ELSE dated[e] % Day) \in Times
  BY <1>2 DEF Times, OrNone, TripMergeAssumption
<1>4. QED
  BY <1>1, <1>3

LEMMA IsStopTime ==
    ASSUME TripMergeAssumption, NEW i \in Nat, NEW newStu \in Stus,
           NEW dbStu, dbStu # None => dbStu \in Stus
    PROVE  LET InBase == {k \in DOMAIN Base : Base[k].id = newStu.id} IN
           [order |-> i, id |-> newStu.id,
            time |-> IF InBase # {} THEN Base[Min(InBase)].time ELSE FakeTime(dbStu, newStu)]
              # None
<1> DEFINE InBase == {k \in DOMAIN Base : Base[k].id = newStu.id}
           time == IF InBase # {} THEN Base[Min(InBase)].time ELSE FakeTime(dbStu, newStu)
<1>1. ASSUME InBase # {} PROVE Base[Min(InBase)].time \in [Events -> Times]
  <2>1. DOMAIN Base = 1 .. Len(Base) /\ Base \in Seq([id : STRING, time : [Events -> Int]])
    BY BaseIs, LenProperties
  <2>2. InBase \in SUBSET Nat /\ InBase \subseteq 1 .. Len(Base)
    BY <2>1
  <2> HIDE DEF InBase
  <2>3. Min(InBase) \in InBase
    BY <1>1, <2>2, MinIs
  <2>4. Base[Min(InBase)] \in [id : STRING, time : [Events -> Int]]
    BY <2>1, <2>2, <2>3, ElementOfSeq
  <2>5. Base[Min(InBase)].time \in [Events -> Times]
    BY <2>4 DEF Times, OrNone
  <2>6. QED
    BY <2>5
<1>2. FakeTime(dbStu, newStu) \in [Events -> Times]
  BY FakeTimeIs
<1>3. time \in [Events -> Times]
  <2> HIDE DEF InBase
  <2>1. QED
    BY <1>1, <1>2
<1>4. newStu.id \in STRING
  BY DEF Stus, StopTimeUpdates
<1> HIDE DEF time
<1>5. [order |-> i, id |-> newStu.id, time |-> time] \in StopTimes
  BY <1>3, <1>4 DEF StopTimes, Times
<1>6. QED
  BY <1>5 DEF TripMergeAssumption, time

\* merge() goes through the same stops again.
LEMMA SameStopsAgain ==
    ASSUME TripMergeAssumption, NEW db \in OrNone(StoredTrips), NEW new, IsWellMade(new),
           ~Raises(NextStops(db, new)), AddsOrDeletes(new), RenamesNone(db, new),
           NEW again \in StoredTrips, again.stops = Merged(db, new).stops,
           NEW i \in DOMAIN NextStops(db, new)
    PROVE  LET before == NextStops(db, new)[i]
               now == NextStops(again, new)[i]
           IN  /\ now = None <=> before = None
               /\ before # None =>
                     \A e \in Events : ~IsDeleted(new.stops[i], e) => now.time[e] = before.time[e]
<1>1. CASE ~new.complete
  BY <1>1 DEF NextStops
<1>2. CASE new.complete
  <2>1. /\ NextStops(db, new) = FeedStops(db, new) /\ NextStops(again, new) = FeedStops(again, new)
        /\ i \in DOMAIN new.stops
    BY <1>2 DEF NextStops, FeedStops
  <2>2. PICK stu, old, made : /\ stu = new.stops[i]
                              /\ old = FindInDb(db, stu.id, i - 1)
                              /\ made = FindInDb(again, stu.id, i - 1)
    OBVIOUS
  <2> DEFINE InBase == {k \in DOMAIN Base : Base[k].id = stu.id}
             Stop(dbStu) == [order |-> i - 1, id |-> stu.id,
                             time |-> IF InBase # {} THEN Base[Min(InBase)].time
                                                     ELSE FakeTime(dbStu, stu)]
             IsKept(dbStu) == InBase # {} \/ \E e \in Events : IsNewEventValid(e, dbStu, stu)
  <2>3. /\ FeedStops(db, new)[i] = IF IsKept(old) THEN Stop(old) ELSE None
        /\ FeedStops(again, new)[i] = IF IsKept(made) THEN Stop(made) ELSE None
    BY <2>1, <2>2 DEF FeedStops
  <2>4. stu \in Stus /\ i - 1 \in Nat
    <3>1. new.stops \in Seq(Stus) /\ DOMAIN new.stops = 1 .. Len(new.stops)
      BY LenProperties DEF IsWellMade, Stus, Times
    <3>2. QED
      BY <2>1, <2>2, <3>1, ElementOfSeq
  <2>5. /\ old # None => old \in Stus /\ db # None /\ old.id = stu.id /\ old \in Members(db.stops)
        /\ made # None => made \in Stus /\ made.id = stu.id /\ made \in Members(again.stops)
    BY <2>2, FindInDbIs DEF OrNone
  <2>6. Stop(old) # None /\ Stop(made) # None
    BY <2>4, <2>5, IsStopTime
  <2> HIDE DEF Stop
  <2>7. IsKept(old) => InBase # {} \/ (made # None /\ made.status = stu.status)
    <3>1. SUFFICES ASSUME IsKept(old), InBase = {} PROVE made # None /\ made.status = stu.status
      OBVIOUS
    <3>2. NextStops(db, new)[i] # None
      BY <2>1, <2>3, <2>6, <3>1
    <3>3. PICK fresh : fresh = MadeAt(db, new, i)
      OBVIOUS
    <3>4. FindStop(Merged(db, new).stops, stu.id, i - 1) = fresh
      BY <2>2, <3>2, <3>3, MadeIsFound
    <3>5. again # None
      BY DEF TripMergeAssumption
    <3>6. made = fresh
      BY <2>2, <3>4, <3>5 DEF FindInDb
    <3>7. fresh.status = stu.status
      BY <2>2, <3>3, FreshIs DEF MadeAt
    <3>8. fresh # None
      BY <2>1, <3>2, <3>3, MadeIsStu, NoneIs DEF NoneIsApart, DelayedStus
    <3>9. QED
      BY <3>6, <3>7, <3>8
  <2>8. IsForeign(stu.id) /\ ~IsKept(old) => old = None /\ made = None
    <3>1. SUFFICES ASSUME IsForeign(stu.id), ~IsKept(old) PROVE old = None /\ made = None
      OBVIOUS
    <3>2. old = None
      <4>1. SUFFICES ASSUME old # None PROVE FALSE
        OBVIOUS
      <4>2. \E e \in Events : IsNewEventValid(e, old, stu)
        BY <2>1, <2>2, <3>1, <4>1, ForeignIsValid
      <4>3. QED
        BY <3>1, <4>2
    <3>3. made = None
      <4>1. SUFFICES ASSUME made # None PROVE FALSE
        OBVIOUS
      <4>2. made \in Members(Merged(db, new).stops) /\ made.id = stu.id
        BY <2>5, <4>1
      <4>3. PICK j \in Kept(db, new, Len(NextStops(db, new))) : made = MadeAt(db, new, j)
        <5>1. PICK all : all = Members(Merged(db, new).stops)
          OBVIOUS
        <5>2. all = {MadeAt(db, new, k) : k \in Kept(db, new, Len(NextStops(db, new)))}
          BY <5>1, MergedStopsAre
        <5>3. QED
          BY <4>2, <5>1, <5>2
      <4>4. j \in DOMAIN NextStops(db, new) /\ NextStops(db, new)[j] # None
        BY <4>3, NextStopsAre DEF Kept
      <4>5. j \in DOMAIN new.stops /\ made.id = new.stops[j].id
        BY <4>3, <4>4, NextStopIsAt, FreshIs DEF MadeAt
      <4>6. j # i
        BY <2>1, <2>3, <3>1, <4>4
      <4>7. QED
        BY <2>1, <2>2, <3>1, <4>2, <4>5, <4>6 DEF AddsOrDeletes, IsForeign
    <3>4. QED
      BY <3>2, <3>3
  <2>9. IsForeign(stu.id) <=> InBase = {}
    BY DEF IsForeign
  <2>10. IsKept(made) <=> IsKept(old)
    <3>1. ASSUME made # None, made.status = stu.status PROVE IsKept(made)
      BY <3>1 DEF IsNewEventValid, Events
    <3> HIDE DEF InBase
    <3>2. CASE IsKept(old)
      BY <2>7, <3>1, <3>2
    <3>3. CASE ~IsKept(old)
      BY <2>8, <2>9, <3>3
    <3>4. QED
      BY <3>2, <3>3
  <2>11. ASSUME NEW e \in Events, ~IsDeleted(stu, e) PROVE Stop(made).time[e] = Stop(old).time[e]
    <3>1. CASE InBase # {}
      BY <3>1 DEF Stop
    <3>2. CASE InBase = {}
      <4>1. stu.time["arrival"] # None \/ stu.time["departure"] # None
        BY <2>1, <2>2, <2>9, <2>11, <3>2 DEF AddsOrDeletes, IsForeign, Events
      <4>2. FakeTime(made, stu) = FakeTime(old, stu)
        BY <4>1 DEF FakeTime
      <4>3. QED
        BY <3>2, <4>2 DEF Stop
    <3>3. QED
      BY <3>1, <3>2
  <2> HIDE DEF IsKept, InBase
  <2>12. QED
    BY <2>1, <2>2, <2>3, <2>6, <2>10, <2>11
<1>3. QED
  BY <1>1, <1>2

\* So the second time there are no changes.
LEMMA NoChangesAgain ==
    ASSUME TripMergeAssumption, NEW db \in OrNone(StoredTrips), NEW new, IsWellMade(new),
           ~Raises(NextStops(db, new)), AddsOrDeletes(new), RenamesNone(db, new),
           NEW again \in StoredTrips, again.stops = Merged(db, new).stops,
           ~Raises(NextStops(again, new))
    PROVE  ~Merged(again, new).changes
<1> DEFINE next == NextStops(db, new)
           nextAgain == NextStops(again, new)
           N == Len(next)
           turns == Turns(db, new)
           turnsAgain == Turns(again, new)
           Follows(n) == /\ turnsAgain[n].clock = turns[n].clock
                         /\ turnsAgain[n].lastDep = turns[n].lastDep
                         /\ turnsAgain[n].changes = FALSE
           T == {n \in 0 .. N : Follows(n)}
<1>1. N \in Nat /\ DOMAIN next = 1 .. N
  BY NextStopsAre
<1>2. DOMAIN nextAgain = 1 .. N /\ Len(nextAgain) = N
  <2>1. DOMAIN nextAgain = DOMAIN next
    BY DEF NextStops, FeedStops
  <2>2. Len(nextAgain) \in Nat /\ DOMAIN nextAgain = 1 .. Len(nextAgain)
    BY NextStopsAre
  <2>3. QED
    BY <1>1, <2>1, <2>2
<1>3. /\ turns[0] = BeforeMerge
      /\ \A n \in 1 .. N : turns[n] = MergeNext(turns[n - 1], db, new, next[n])
  BY TurnsAre
<1>4. /\ Merged(again, new) = turnsAgain[N]
      /\ turnsAgain[0] = BeforeMerge
      /\ \A n \in 1 .. N : turnsAgain[n] = MergeNext(turnsAgain[n - 1], again, new, nextAgain[n])
  <2>1. again \in OrNone(StoredTrips)
    BY DEF OrNone
  <2>2. QED
    BY <1>2, <2>1, TurnsAre
<1>5. 0 \in T
  BY <1>1, <1>3, <1>4 DEF BeforeMerge
<1> HIDE DEF N, turns, turnsAgain
<1>6. ASSUME NEW n \in T, n < N PROVE n + 1 \in T
  <2>1. n + 1 \in 0 .. N /\ n + 1 \in 1 .. N
    BY <1>1, <1>6
  <2>2. PICK k : k = n + 1 /\ k - 1 = n /\ k \in 1 .. N
    BY <1>1, <1>6
  <2>3. PICK acc, accAgain, stop, stopAgain, newStu :
           /\ acc = turns[n] /\ accAgain = turnsAgain[n]
           /\ stop = next[k] /\ stopAgain = nextAgain[k] /\ newStu = new.stops[k]
    OBVIOUS
  <2>4. /\ turns[k] = MergeNext(acc, db, new, stop)
        /\ turnsAgain[k] = MergeNext(accAgain, again, new, stopAgain)
        /\ accAgain.clock = acc.clock /\ accAgain.lastDep = acc.lastDep
        /\ accAgain.changes = FALSE
    BY <1>3, <1>4, <2>2, <2>3
  <2>5. /\ stopAgain = None <=> stop = None
        /\ stop # None =>
              \A e \in Events : ~IsDeleted(newStu, e) => stopAgain.time[e] = stop.time[e]
    <3>1. k \in DOMAIN NextStops(db, new)
      BY <1>1, <2>2
    <3>2. /\ NextStops(again, new)[k] = None <=> NextStops(db, new)[k] = None
          /\ NextStops(db, new)[k] # None =>
                \A e \in Events : ~IsDeleted(new.stops[k], e) =>
                   NextStops(again, new)[k].time[e] = NextStops(db, new)[k].time[e]
      BY <3>1, SameStopsAgain
    <3>3. QED
      BY <2>3, <3>2
  <2>6. CASE stop = None
    <3>1. turns[k] = acc /\ turnsAgain[k] = accAgain
      BY <2>4, <2>5, <2>6 DEF MergeNext
    <3>2. QED
      BY <2>1, <2>2, <2>4, <3>1
  <2>7. CASE stop # None
    <3>1. PICK fresh, freshAgain :
             /\ fresh = Fresh(acc.clock, acc.lastDep, stop, newStu)
             /\ freshAgain = Fresh(accAgain.clock, accAgain.lastDep, stopAgain, newStu)
      OBVIOUS
    <3>2. /\ stop.id = newStu.id /\ stop.order = k - 1
          /\ stopAgain.id = newStu.id /\ stopAgain.order = k - 1
      BY <1>1, <1>2, <2>2, <2>3, <2>5, <2>7, NextStopIsAt
    <3>3. PICK clock, lastDep : clock = acc.clock /\ lastDep = acc.lastDep
      OBVIOUS
    <3>4. /\ Fresh(clock, lastDep, stop, newStu) = Fresh(clock, lastDep, stopAgain, newStu)
          /\ ClockAfter(clock, stop, newStu) = ClockAfter(clock, stopAgain, newStu)
      BY <2>5, <2>7, <3>2, SameFresh
    <3>5. freshAgain = fresh /\ ClockAfter(accAgain.clock, stopAgain, newStu)
                                   = ClockAfter(acc.clock, stop, newStu)
      BY <2>4, <3>1, <3>3, <3>4
    <3>6. FindInDb(again, newStu.id, k - 1) = fresh
      <4>1. FindStop(Merged(db, new).stops, newStu.id, k - 1) = MadeAt(db, new, k)
        BY <1>1, <2>2, <2>3, <2>7, MadeIsFound
      <4>2. MadeAt(db, new, k) = fresh
        BY <2>2, <2>3, <3>1 DEF MadeAt, turns
      <4>3. again # None
        BY DEF TripMergeAssumption
      <4>4. QED
        BY <4>1, <4>2, <4>3 DEF FindInDb
    <3>7. /\ turns[k].clock = ClockAfter(acc.clock, stop, newStu)
          /\ turns[k].lastDep = fresh.time["departure"]
      <4>1. k \in DOMAIN NextStops(db, new) /\ NextStops(db, new)[k] # None
        BY <1>1, <2>2, <2>3, <2>7
      <4>2. QED
        BY <2>3, <2>4, <2>7, <3>1, <4>1, MergeNextIs
    <3>8. /\ turnsAgain[k].clock = ClockAfter(accAgain.clock, stopAgain, newStu)
          /\ turnsAgain[k].lastDep = freshAgain.time["departure"]
          /\ turnsAgain[k].changes = (accAgain.changes \/ freshAgain # fresh)
      <4>1. k \in DOMAIN NextStops(again, new) /\ NextStops(again, new)[k] # None
        BY <1>2, <2>2, <2>3, <2>5, <2>7
      <4>2. stopAgain # None
        BY <2>5, <2>7
      <4>3. QED
        BY <2>3, <2>4, <3>1, <3>6, <4>1, <4>2, MergeNextIs
    <3>9. QED
      BY <2>1, <2>2, <2>4, <3>5, <3>7, <3>8
  <2>8. QED
    BY <2>6, <2>7
<1>7. T = 0 .. N
  <2> HIDE DEF T
  <2>1. T \in SUBSET (0 .. N)
    BY DEF T
  <2>2. QED
    BY <1>1, <1>5, <1>6, <2>1, InductionUpTo
<1>8. Follows(N)
  <2>1. N \in 0 .. N
    BY <1>1
  <2>2. QED
    BY <1>7, <2>1
<1>9. QED
  BY <1>4, <1>8

\* A feed that changed the stored trip has nothing to add to it.
LEMMA MergedIsSettled ==
    ASSUME TripMergeAssumption, NEW db \in OrNone(StoredTrips), NEW new, IsWellMade(new),
           ~new.cancel, ~Raises(NextStops(db, new)), AddsOrDeletes(new),
           RenamesNone(db, new),
           NEW again, again = [cancel |-> FALSE, stops |-> Merged(db, new).stops]
    PROVE  Handled(again, new).verdict # "sent" /\ Handled(again, new).stored = again
<1>1. PICK stops : stops = Merged(db, new).stops
  OBVIOUS
<1>2. again = [cancel |-> FALSE, stops |-> stops]
  BY <1>1
<1>3. again.cancel = FALSE /\ again.stops = stops
  BY <1>2
<1>4. again \in StoredTrips /\ again # None
  <2>1. stops \in Seq(DelayedStus)
    BY <1>1, MergedInOrder DEF Accs
  <2>2. stops \in Seq(StopTimeUpdates(OrNone(Int)))
    BY <2>1 DEF DelayedStus, Stus, Times
  <2>3. again \in StoredTrips
    BY <1>2, <2>2 DEF StoredTrips
  <2>4. QED
    BY <2>3 DEF TripMergeAssumption
<1>5. CASE Raises(NextStops(again, new))
  <2>1. PICK failed : failed = [again EXCEPT !.cancel = FALSE]
    OBVIOUS
  <2>2. failed = again
    BY <1>3, <1>4, <2>1 DEF StoredTrips
  <2>3. Handled(again, new) = [stored |-> failed, verdict |-> "failed"]
    BY <1>4, <1>5, <2>1 DEF Handled
  <2>4. Handled(again, new).stored = failed /\ Handled(again, new).verdict = "failed"
    BY <2>3
  <2>5. QED
    BY <2>2, <2>4
<1>6. CASE ~Raises(NextStops(again, new))
  <2>1. PICK merged, managed :
           merged = Merged(again, new) /\ managed = ManageConsistency(merged.stops)
    OBVIOUS
  <2>2. ~merged.changes
    BY <1>1, <1>3, <1>4, <1>6, <2>1, NoChangesAgain
  <2>3. Handled(again, new) = Outcome(again, merged.changes, managed)
    BY <1>6, <2>1 DEF Handled, MergedOutcome
  <2>4. Handled(again, new) = [stored |-> again, verdict |-> "nothing"]
    BY <1>2, <1>3, <1>4, <2>2, <2>3 DEF Outcome
  <2>5. Handled(again, new).stored = again /\ Handled(again, new).verdict = "nothing"
    <3>1. PICK stored2 : stored2 = again
      OBVIOUS
    <3>2. Handled(again, new) = [stored |-> stored2, verdict |-> "nothing"]
      BY <2>4, <3>1
    <3>3. QED
      BY ONLY <3>1, <3>2
  <2>6. QED
    BY <2>5
<1>7. QED
  BY <1>5, <1>6

\* merge() looks at the stored stops only.
LEMMA SameStopsSameTurns ==
    ASSUME TripMergeAssumption, NEW db \in StoredTrips, NEW again \in StoredTrips,
           again.stops = db.stops, NEW new, IsWellMade(new)
    PROVE  /\ NextStops(again, new) = NextStops(db, new)
           /\ ~Raises(NextStops(db, new)) => Merged(again, new) = Merged(db, new)
<1>1. db # None /\ again # None
  BY DEF TripMergeAssumption
<1>2. ASSUME NEW id, NEW order PROVE FindInDb(again, id, order) = FindInDb(db, id, order)
  BY <1>1 DEF FindInDb
<1>3. NextStops(again, new) = NextStops(db, new)
  <2>1. ASSUME NEW i \in DOMAIN new.stops PROVE FeedStops(again, new)[i] = FeedStops(db, new)[i]
    BY <1>2 DEF FeedStops
  <2>2. FeedStops(again, new) = FeedStops(db, new)
    <3>1. /\ FeedStops(again, new) = [i \in DOMAIN new.stops |-> FeedStops(again, new)[i]]
          /\ FeedStops(db, new) = [i \in DOMAIN new.stops |-> FeedStops(db, new)[i]]
      BY DEF FeedStops
    <3>2. QED
      BY <2>1, <3>1
  <2>3. QED
    BY <2>2 DEF NextStops
<1>4. ASSUME ~Raises(NextStops(db, new)) PROVE Merged(again, new) = Merged(db, new)
  <2> DEFINE next == NextStops(db, new)
             N == Len(next)
             turns == Turns(db, new)
             turnsAgain == Turns(again, new)
             T == {n \in 0 .. N : turnsAgain[n] = turns[n]}
  <2>1. N \in Nat
    BY NextStopsAre
  <2>2. db \in OrNone(StoredTrips) /\ again \in OrNone(StoredTrips)
    BY DEF OrNone
  <2>3. /\ Merged(db, new) = turns[N] /\ turns[0] = BeforeMerge
        /\ \A n \in 1 .. N : turns[n] = MergeNext(turns[n - 1], db, new, next[n])
    BY <1>4, <2>2, TurnsAre
  <2>4. /\ Merged(again, new) = turnsAgain[N] /\ turnsAgain[0] = BeforeMerge
        /\ \A n \in 1 .. N : turnsAgain[n] = MergeNext(turnsAgain[n - 1], again, new, next[n])
    BY <1>3, <1>4, <2>2, TurnsAre
  <2>5. ASSUME NEW acc, NEW stop
        PROVE  MergeNext(acc, again, new, stop) = MergeNext(acc, db, new, stop)
    BY <1>2 DEF MergeNext
  <2> HIDE DEF N, turns, turnsAgain, next
  <2>6. 0 \in T
    BY <2>1, <2>3, <2>4
  <2>7. ASSUME NEW n \in T, n < N PROVE n + 1 \in T
    <3>1. n + 1 \in 0 .. N /\ n + 1 \in 1 .. N /\ (n + 1) - 1 = n
      BY <2>1, <2>7
    <3>2. QED
      BY <2>3, <2>4, <2>5, <3>1
  <2>8. T = 0 .. N
    <3> HIDE DEF T
    <3>1. T \in SUBSET (0 .. N)
      BY DEF T
    <3>2. QED
      BY <2>1, <2>6, <2>7, <3>1, InductionUpTo
  <2>9. N \in 0 .. N
    BY <2>1
  <2>10. QED
    BY <2>3, <2>4, <2>8, <2>9
<1>5. QED
  BY <1>3, <1>4

\* A feed that is handled is no news when it comes again.
LEMMA HandledIsSettled ==
    ASSUME TripMergeAssumption, NEW db \in OrNone(StoredTrips), NEW new, IsWellMade(new),
           ~new.cancel, AddsOrDeletes(new), RenamesNone(db, new),
           NEW again, again = Handled(db, new).stored
    PROVE  Handled(again, new).verdict # "sent" /\ Handled(again, new).stored = again
<1>1. CASE Raises(NextStops(db, new))
  <2>1. Handled(db, new) = [stored |-> IF db = None THEN None ELSE [db EXCEPT !.cancel = FALSE],
                            verdict |-> "failed"]
    BY <1>1 DEF Handled
  <2>2. CASE db = None
    BY <2>1, <2>2
  <2>3. CASE db # None
    <3>1. db \in StoredTrips /\ again = [db EXCEPT !.cancel = FALSE]
      BY <2>1, <2>3 DEF OrNone
    <3>2. again \in StoredTrips /\ again.stops = db.stops /\ again.cancel = FALSE
      BY <3>1 DEF StoredTrips
    <3>3. Raises(NextStops(again, new)) /\ again # None
      BY <1>1, <3>1, <3>2, SameStopsSameTurns DEF TripMergeAssumption
    <3>4. Handled(again, new) = [stored |-> [again EXCEPT !.cancel = FALSE], verdict |-> "failed"]
      BY <3>3 DEF Handled
    <3>5. [again EXCEPT !.cancel = FALSE] = again
      BY <3>1, <3>2 DEF StoredTrips
    <3>6. QED
      BY <3>4, <3>5
  <2>4. QED
    BY <2>2, <2>3
<1>2. CASE ~Raises(NextStops(db, new))
  <2>1. PICK merged, managed : merged = Merged(db, new) /\ managed = ManageConsistency(merged.stops)
    OBVIOUS
  <2>2. Handled(db, new) = Outcome(db, merged.changes, managed)
    BY <1>2, <2>1 DEF Handled, MergedOutcome
  <2>3. managed.stops = merged.stops
    <3>1. PICK stops : stops = merged.stops
      OBVIOUS
    <3>2. stops \in Seq(DelayedStus) /\ AreDriven(stops)
      BY <1>2, <2>1, <3>1, MergedInOrder DEF Accs
    <3>3. QED
      BY <2>1, <3>1, <3>2, NoneIs, ManagedIsSame
  <2>4. merged.changes \in BOOLEAN
    BY <1>2, <2>1, MergedInOrder DEF Accs
  <2>5. CASE merged.changes /\ (managed.ok \/ db # None)
    <3>1. again = [cancel |-> FALSE, stops |-> merged.stops]
      BY <2>2, <2>3, <2>5 DEF Outcome
    <3>2. QED
      BY <1>2, <2>1, <3>1, MergedIsSettled
  <2>6. CASE merged.changes /\ ~managed.ok /\ db = None
    <3>1. Handled(db, new) = [stored |-> None, verdict |-> "rejected"]
      BY <2>2, <2>6 DEF Outcome
    <3>2. QED
      BY <2>6, <3>1
  <2>7. CASE ~merged.changes /\ db = None
    <3>1. Handled(db, new) = [stored |-> None, verdict |-> "nothing"]
      BY <2>2, <2>7 DEF Outcome
    <3>2. QED
      BY <2>7, <3>1
  <2>8. CASE ~merged.changes /\ db # None
    <3>1. db \in StoredTrips /\ again = [cancel |-> FALSE, stops |-> db.stops]
      BY <2>2, <2>8 DEF Outcome, OrNone
    <3>2. again.stops = db.stops /\ again \in StoredTrips
      BY <3>1 DEF StoredTrips
    <3>3. again # None
      BY <3>2 DEF TripMergeAssumption
    <3>4. ~Raises(NextStops(again, new)) /\ Merged(again, new) = merged
      BY <1>2, <2>1, <3>1, <3>2, SameStopsSameTurns
    <3>5. Handled(again, new) = Outcome(again, merged.changes, managed)
      BY <2>1, <3>4 DEF Handled, MergedOutcome
    <3>6. Handled(again, new) = [stored |-> [cancel |-> FALSE, stops |-> again.stops],
                                 verdict |-> "nothing"]
      BY <2>8, <3>3, <3>5 DEF Outcome
    <3>7. [cancel |-> FALSE, stops |-> again.stops] = again
      BY <3>1, <3>2
    <3>8. Handled(again, new) = [stored |-> again, verdict |-> "nothing"]
      BY <3>6, <3>7
    <3>9. QED
      BY <3>8
  <2>9. QED
    BY <2>4, <2>5, <2>6, <2>7, <2>8
<1>3. QED
  BY <1>1, <1>2

-----------------------------------------------------------------------------
\* A feed has one TripUpdate at most, or the same one for several journeys.
LEMMA UpdatesAreOne ==
    ASSUME TripMergeAssumption, TripFeedsAssumption, NEW feed \in Feeds,
           NEW a \in Range(TripUpdates[feed]), NEW b \in Range(TripUpdates[feed])
    PROVE  a = b /\ (a.cancel => IsCancellation(feed))
<1>1. PICK k \in DOMAIN TripUpdates[feed], l \in DOMAIN TripUpdates[feed] :
         a = TripUpdates[feed][k] /\ b = TripUpdates[feed][l]
  BY DEF Range
<1>2. CASE feed \in GtfsFeeds
  <2>1. TripUpdates[feed] = Gtfs!MakeTripUpdates(feed)
    BY <1>2 DEF TripUpdates, TripFeedsAssumption
  <2> DEFINE made == [complete |-> FALSE, cancel |-> FALSE,
                      stops |-> [i \in DOMAIN Base |-> Gtfs!MakeStopTimeUpdate(feed, Base, i)]]
  <2>2. ASSUME NEW n \in DOMAIN Gtfs!MakeTripUpdates(feed)
        PROVE  Gtfs!MakeTripUpdates(feed)[n] = made
    BY <1>2, <2>2, GtfsIsMade
  <2>3. a = made /\ b = made
    BY <1>1, <2>1, <2>2
  <2>4. made.cancel = FALSE
    OBVIOUS
  <2> HIDE DEF made
  <2>5. QED
    BY <2>3, <2>4
<1>3. CASE feed \notin GtfsFeeds /\ feed \in PivFeeds
  <2>1. TripUpdates[feed] = Piv!MakeTripUpdates(feed)
    BY <1>3 DEF TripUpdates, TripFeedsAssumption
  <2>2. PICK made : made = Piv!MakeTripUpdate(feed,
                              Piv!KnownStops(Piv!InterestingStops(feed.stops)))
    OBVIOUS
  <2>3. Piv!MakeTripUpdates(feed) \in {<<made>>, <<>>}
    BY <2>2 DEF Piv!MakeTripUpdates
  <2>4. a = made /\ b = made
    BY <1>1, <2>1, <2>3
  <2>5. made.cancel = Piv!IsCancelled(feed)
    BY <2>2 DEF Piv!MakeTripUpdate
  <2>6. QED
    BY <1>3, <2>4, <2>5 DEF IsCancellation
<1>4. CASE feed \notin GtfsFeeds /\ feed \notin PivFeeds
  <2>1. /\ feed \in CotsFeeds
        /\ TripUpdates[feed] = IF IsConsistent(feed.update.stops) THEN <<feed.update>> ELSE <<>>
    BY <1>4 DEF TripUpdates, Feeds
  <2>2. a = feed.update /\ b = feed.update
    BY <1>1, <2>1
  <2>3. QED
    BY <2>1, <2>2 DEF IsCancellation
<1>5. QED
  BY <1>2, <1>3, <1>4

LEMMA HandleIsRepeated ==
    ASSUME TripMergeAssumption, TripFeedsAssumption, FeedsAddOrDelete, Inv,
           NEW feed \in Feeds, NEW update \in Range(TripUpdates[feed]),
           ~Renames(stored, feed)
    PROVE  IsSettled(Handled(stored, update).stored, feed)
<1>1. PICK again : again = Handled(stored, update).stored
  OBVIOUS
<1>2. stored \in OrNone(StoredTrips) /\ IsWellMade(update) /\ AddsOrDeletes(update)
  BY BuiltIsWellMade DEF Inv, TypeOK, FeedsAddOrDelete
<1>3. RenamesNone(stored, update)
  BY DEF Renames, RenamesNone
<1>4. SUFFICES ASSUME ~IsCancellation(feed), NEW other \in Range(TripUpdates[feed])
               PROVE  /\ Handled(again, other).verdict # "sent"
                      /\ Handled(again, other).stored = again
  BY <1>1 DEF IsSettled
<1>5. other = update /\ ~update.cancel
  BY <1>4, UpdatesAreOne
<1>6. Handled(again, update).verdict # "sent" /\ Handled(again, update).stored = again
  BY <1>1, <1>2, <1>3, <1>5, HandledIsSettled
<1>7. QED
  BY <1>5, <1>6

\* A feed that comes again neither changes what is stored of the trip nor has it sent
\* again, whatever the feeds before it: for any trip and any feeds that add, with a time,
\* or delete the stops that the schedule does not have, each once, but for a feed that
\* gives such a stop of the database another name.
THEOREM RepeatsAreNoNews ==
    ASSUME FeedsAddOrDelete PROVE Spec => RepeatIsNoNews
<1>1. ASSUME Inv, [Next]_vars
      PROVE  [\A db \in {stored'}, feed \in {last'} :
                 ~Renames(stored, feed) => IsSettled(db, feed)]_vars
  <2>1. CASE UNCHANGED vars
    BY <2>1
  <2>2. ASSUME NEW feed \in Feeds, NEW update \in Range(TripUpdates[feed]), Handle(feed, update),
               ~Renames(stored, feed)
        PROVE  IsSettled(stored', feed) /\ last' = feed
    <3>1. PICK db : db = Handled(stored, update).stored
      OBVIOUS
    <3>2. stored' = db /\ last' = feed
      BY <2>2, <3>1 DEF Handle
    <3>3. IsSettled(db, feed)
      BY <1>1, <2>2, <3>1, TripMergeAssumption, TripFeedsAssumption, HandleIsRepeated
    <3>4. QED
      BY <3>2, <3>3
  <2>3. ASSUME NEW feed \in Feeds, RefuseFeed(feed) PROVE IsSettled(stored', feed) /\ last' = feed
    <3>1. TripUpdates[feed] = <<>> /\ last' = feed
      BY <2>3 DEF RefuseFeed
    <3>2. Range(TripUpdates[feed]) = {}
      BY <3>1, EmptySeq DEF Range
    <3>3. QED
      BY <3>1, <3>2 DEF IsSettled
  <2>4. ASSUME NEW feed \in Feeds, HandleFeed(feed) \/ RefuseFeed(feed), ~Renames(stored, last')
        PROVE  IsSettled(stored', last')
    <3>1. CASE RefuseFeed(feed)
      BY <2>3, <3>1
    <3>2. CASE HandleFeed(feed)
      <4>1. PICK update \in Range(TripUpdates[feed]) : Handle(feed, update)
        BY <3>2 DEF HandleFeed
      <4>2. last' = feed
        BY <4>1 DEF Handle
      <4>3. QED
        BY <2>2, <2>4, <4>1, <4>2
    <3>3. QED
      BY <2>4, <3>1, <3>2
  <2>5. QED
    BY <1>1, <2>1, <2>4 DEF Next
<1>2. QED
  BY <1>1, FeedsInvariant, PTL DEF Spec, RepeatIsNoNews

-----------------------------------------------------------------------------
(***************************************************************************)
(* What is in database after a feed                                        *)
(***************************************************************************)

\* A feed without news: each stop that merge() makes is the one of the database.
LEMMA UnchangedIsFound ==
    ASSUME TripMergeAssumption, NEW db \in OrNone(StoredTrips), NEW new, IsWellMade(new),
           ~Raises(NextStops(db, new)), ~Merged(db, new).changes,
           NEW i \in DOMAIN NextStops(db, new), NextStops(db, new)[i] # None
    PROVE  MadeAt(db, new, i) = FindInDb(db, new.stops[i].id, i - 1)
<1>1. PICK N \in Nat : N = Len(NextStops(db, new)) /\ DOMAIN NextStops(db, new) = 1 .. N
  BY NextStopsAre
<1>2. PICK turns, next : turns = Turns(db, new) /\ next = NextStops(db, new)
  OBVIOUS
<1>3. /\ ~turns[N].changes
      /\ \A k \in 1 .. N : turns[k] = MergeNext(turns[k - 1], db, new, next[k])
  BY <1>1, <1>2, TurnsAre
<1>4. ASSUME NEW k \in 1 .. N, next[k] # None
      PROVE  turns[k].changes = (turns[k - 1].changes
                                   \/ MadeAt(db, new, k) # FindInDb(db, new.stops[k].id, k - 1))
  <2>1. PICK acc, stop, newStu, fresh :
           /\ acc = turns[k - 1] /\ stop = next[k] /\ newStu = new.stops[k]
           /\ fresh = Fresh(acc.clock, acc.lastDep, stop, newStu)
    OBVIOUS
  <2>2. k \in DOMAIN NextStops(db, new) /\ stop = NextStops(db, new)[k] /\ stop # None
    BY <1>1, <1>2, <1>4, <2>1
  <2>3. MergeNext(acc, db, new, stop).changes =
           (acc.changes \/ fresh # FindInDb(db, newStu.id, k - 1))
    BY <2>1, <2>2, MergeNextIs
  <2>4. turns[k] = MergeNext(acc, db, new, stop) /\ fresh = MadeAt(db, new, k)
    BY <1>2, <1>3, <2>1 DEF MadeAt
  <2>5. QED
    BY <2>1, <2>3, <2>4
<1>5. i \in 1 .. N
  BY <1>1
<1>6. SUFFICES ASSUME MadeAt(db, new, i) # FindInDb(db, new.stops[i].id, i - 1) PROVE FALSE
  OBVIOUS
<1> DEFINE T == {k \in 0 .. N : k < i \/ turns[k].changes}
<1>7. 0 \in T
  BY <1>5
<1>8. ASSUME NEW k \in T, k < N PROVE k + 1 \in T
  <2>1. PICK j : j = k + 1 /\ j \in 1 .. N /\ j - 1 = k /\ j \in 0 .. N
    BY <1>1, <1>8
  <2>2. j < i \/ turns[j].changes
    <3>1. CASE j < i
      BY <3>1
    <3>2. CASE j = i
      BY <1>2, <1>4, <1>5, <1>6, <3>2
    <3>3. CASE j > i
      <4>1. turns[j - 1].changes
        BY <1>5, <1>8, <2>1, <3>3
      <4>2. CASE next[j] = None
        BY <1>3, <2>1, <4>1, <4>2 DEF MergeNext
      <4>3. CASE next[j] # None
        BY <1>4, <2>1, <4>1, <4>3
      <4>4. QED
        BY <4>2, <4>3
    <3>4. QED
      BY <1>5, <2>1, <3>1, <3>2, <3>3
  <2>3. QED
    BY <2>1, <2>2
<1>9. T = 0 .. N
  <2>1. T \in SUBSET (0 .. N)
    OBVIOUS
  <2> HIDE DEF T
  <2>2. QED
    BY <1>1, <1>7, <1>8, <2>1, InductionUpTo
<1>10. N \in T /\ ~(N < i)
  BY <1>1, <1>5, <1>9
<1>11. QED
  BY <1>3, <1>10

\* What is sent is in database.
LEMMA SentIsStored ==
    ASSUME TripMergeAssumption, NEW db \in OrNone(StoredTrips), NEW new, IsWellMade(new),
           ~new.cancel, Handled(db, new).verdict = "sent"
    PROVE  Handled(db, new).stored # None
<1>1. PICK stops : Handled(db, new).stored = [cancel |-> FALSE, stops |-> stops]
  BY DEF Handled, MergedOutcome, Outcome
<1>2. stops \in Seq(StopTimeUpdates(Int))
  <2>1. Handled(db, new).stored.stops \in Seq(StopTimeUpdates(Int))
    BY HandledIs
  <2>2. QED
    BY <1>1, <2>1
<1>3. StopTimeUpdates(Int) \subseteq Stus
  BY DEF StopTimeUpdates, Stus, Times, OrNone
<1>4. stops \in Seq(Stus)
  BY <1>2, <1>3
<1>5. [cancel |-> FALSE, stops |-> stops] \in StoredTrips
  BY <1>4 DEF StoredTrips, Stus, Times
<1>6. QED
  BY <1>1, <1>5 DEF TripMergeAssumption

\* What is in database after a feed that is accepted, or that has no news
IsHandled(db, new, stops) ==
    LET result == Handled(db, new) IN
    /\ result.stored # None /\ stops = result.stored.stops
    /\ \/ result.verdict = "sent"
       \/ result.verdict = "nothing" /\ AreAccepted(stops, Len(stops))

LEMMA HandledHasMade ==
    ASSUME TripMergeAssumption, NEW db \in OrNone(StoredTrips), NEW new, IsWellMade(new),
           ~new.cancel, NEW stops, IsHandled(db, new, stops)
    PROVE  /\ ~Raises(NextStops(db, new))
           /\ stops \in Seq(Stus) /\ AreAccepted(stops, Len(stops))
           /\ \A k \in DOMAIN NextStops(db, new) :
                 NextStops(db, new)[k] # None => MadeAt(db, new, k) \in Members(stops)
           /\ \/ Members(stops) = {MadeAt(db, new, k) :
                                     k \in Kept(db, new, Len(NextStops(db, new)))}
              \/ Handled(db, new).verdict = "nothing" /\ db # None /\ stops = db.stops
<1>1. PICK result : result = Handled(db, new)
  OBVIOUS
<1>2. /\ result.stored # None /\ stops = result.stored.stops
      /\ \/ result.verdict = "sent"
         \/ result.verdict = "nothing" /\ AreAccepted(stops, Len(stops))
  BY <1>1 DEF IsHandled
<1>3. ~Raises(NextStops(db, new))
  BY <1>1, <1>2 DEF Handled
<1>4. PICK merged, managed : merged = Merged(db, new) /\ managed = ManageConsistency(merged.stops)
  OBVIOUS
<1>5. result = Outcome(db, merged.changes, managed)
  BY <1>1, <1>3, <1>4 DEF Handled, MergedOutcome
<1>6. merged.stops \in Seq(DelayedStus) /\ AreDriven(merged.stops) /\ merged.changes \in BOOLEAN
  BY <1>3, <1>4, MergedInOrder DEF Accs
<1>7. stops \in Seq(Stus)
  <2>1. result.stored \in OrNone(StoredTrips)
    BY <1>1, HandledIs
  <2>2. QED
    BY <1>2, <2>1 DEF OrNone, StoredTrips, Stus, Times
<1>8. PICK N \in Nat : N = Len(NextStops(db, new)) /\ DOMAIN NextStops(db, new) = 1 .. N
  BY NextStopsAre
<1>9. CASE result.verdict = "sent"
  <2>1. managed.stops = merged.stops
    <3>1. PICK all : all = merged.stops
      OBVIOUS
    <3>2. all \in Seq(DelayedStus) /\ AreDriven(all)
      BY <1>6, <3>1
    <3>3. QED
      BY <1>4, <3>1, <3>2, NoneIs, ManagedIsSame
  <2>2. stops = merged.stops
    <3>1. result = [stored |-> [cancel |-> FALSE, stops |-> merged.stops], verdict |-> "sent"]
      BY <1>5, <1>6, <1>9, <2>1 DEF Outcome
    <3>2. QED
      BY <1>2, <3>1
  <2>3. AreAccepted(stops, Len(stops))
    BY <1>1, <1>2, <1>9, HandledIs
  <2>4. Members(stops) = {MadeAt(db, new, k) : k \in Kept(db, new, Len(NextStops(db, new)))}
    <3>1. stops = Merged(db, new).stops
      BY <1>4, <2>2
    <3>2. QED
      BY <1>3, <3>1, MergedStopsAre
  <2>5. \A k \in DOMAIN NextStops(db, new) :
           NextStops(db, new)[k] # None => MadeAt(db, new, k) \in Members(stops)
    BY <1>8, <2>4 DEF Kept
  <2>6. QED
    BY <1>3, <1>7, <2>3, <2>4, <2>5
<1>10. CASE result.verdict = "nothing"
  <2>1. ~merged.changes
    BY <1>5, <1>6, <1>10 DEF Outcome
  <2>2. result.stored = IF db = None THEN None ELSE [cancel |-> FALSE, stops |-> db.stops]
    BY <1>5, <2>1 DEF Outcome
  <2>3. db # None /\ stops = db.stops
    BY <1>2, <2>2
  <2>4. ASSUME NEW k \in DOMAIN NextStops(db, new), NextStops(db, new)[k] # None
        PROVE  MadeAt(db, new, k) \in Members(stops)
    <3>1. PICK dbStu : dbStu = FindInDb(db, new.stops[k].id, k - 1)
      OBVIOUS
    <3>2. MadeAt(db, new, k) = dbStu
      BY <1>3, <1>4, <2>1, <2>4, <3>1, UnchangedIsFound
    <3>3. dbStu # None
      <4>1. MadeAt(db, new, k) \in Stus
        BY <1>3, <2>4, MadeIsStu DEF DelayedStus
      <4>2. QED
        BY <3>2, <4>1, NoneIs DEF NoneIsApart
    <3>4. dbStu \in Members(db.stops)
      BY <3>1, <3>3, FindInDbIs
    <3>5. QED
      BY <2>3, <3>2, <3>4
  <2>5. QED
    BY <1>1, <1>2, <1>3, <1>7, <1>10, <2>3, <2>4
<1>11. QED
  BY <1>2, <1>9, <1>10

\* A stop of the feed is in database at its place, or is passed over.
LEMMA MadeIsStored ==
    ASSUME TripMergeAssumption, NEW db \in OrNone(StoredTrips), NEW new, IsWellMade(new),
           ~new.cancel, NEW stops, IsHandled(db, new, stops),
           NEW k \in DOMAIN NextStops(db, new), NextStops(db, new)[k] # None
    PROVE  /\ k \in DOMAIN stops /\ stops[k] = MadeAt(db, new, k)
           /\ stops[k].id = new.stops[k].id /\ stops[k].status = new.stops[k].status
           /\ stops[k].time["arrival"] # None
<1>1. PICK made, next, stu : /\ made = MadeAt(db, new, k) /\ next = NextStops(db, new)[k]
                             /\ stu = new.stops[k]
  OBVIOUS
<1>2. /\ stops \in Seq(Stus) /\ AreAccepted(stops, Len(stops))
      /\ made \in Members(stops)
  BY <1>1, HandledHasMade
<1>3. DOMAIN stops = 1 .. Len(stops) /\ Len(stops) \in Nat
  BY <1>2, LenProperties
<1>4. made.id = next.id /\ made.order = next.order /\ made.status = stu.status
  BY <1>1, FreshIs DEF MadeAt
<1>5. next.id = stu.id /\ next.order = k - 1
  BY <1>1, NextStopIsAt
<1>6. PICK j \in 1 .. Len(stops) : made = stops[j]
  BY <1>2, <1>3 DEF Members
<1>7. stops[j].order = j - 1 /\ stops[j].time["arrival"] # None
  BY <1>2 DEF AreAccepted
<1>8. k \in Int
  BY NextStopsAre
<1>9. j = k
  BY <1>3, <1>4, <1>5, <1>6, <1>7, <1>8
<1>10. QED
  BY <1>1, <1>3, <1>4, <1>5, <1>6, <1>7, <1>9

-----------------------------------------------------------------------------
(***************************************************************************)
(* The dates merge() guesses                                               *)
(***************************************************************************)

LEMMA Euclid ==
    ASSUME NEW d \in Nat, d > 0, NEW x \in Int
    PROVE  /\ x = d * (x \div d) + (x % d)
           /\ x \div d \in Int
           /\ x % d \in 0 .. d - 1
<1>1. x = d * (x \div d) + (x % d)
  BY SMTT(30)
<1>2. x \div d \in Int
  OBVIOUS
<1>3. x % d \in 0 .. d - 1
  OBVIOUS
<1>4. QED
  BY <1>1, <1>2, <1>3

LEMMA SmallRemainder ==
    ASSUME NEW d \in Nat, d > 0, NEW x \in 0 .. d - 1 PROVE x % d = x
BY SMTT(30)

\* From a time of day to another less than a day later, with and without the delays, it is
\* the next day if midnight is passed as the times of day tell.
LEMMA NextDayIs ==
    ASSUME NEW d \in Nat, d > 0, NEW p \in 0 .. d - 1, NEW q \in 0 .. d - 1,
           NEW day \in Int, NEW k \in Int, NEW before \in Int, NEW after \in Int,
           NEW gap \in 0 .. d - 1, gap = (k - day) * d + (q - p), gap + after - before < d
    PROVE  k = IF p > q /\ p + before > q + after THEN day + 1 ELSE day
<1>1. PICK n, a \in Int : n = k - day /\ a = n * d
  OBVIOUS
<1>2. a + (q - p) = gap
  BY <1>1
<1>3. n \in {0, 1}
  <2>1. CASE n <= -1
    <3>1. n * d <= -1 * d
      BY <2>1
    <3>2. QED
      BY <1>1, <1>2, <3>1
  <2>2. CASE n >= 2
    <3>1. n * d >= 2 * d
      BY <2>2
    <3>2. QED
      BY <1>1, <1>2, <3>1
  <2>3. QED
    BY <1>1, <2>1, <2>2
<1>4. CASE n = 0
  <2>1. a = 0 /\ k = day
    BY <1>1, <1>4
  <2>2. QED
    BY <1>2, <2>1
<1>5. CASE n = 1
  <2>1. a = d /\ k = day + 1
    BY <1>1, <1>5
  <2>2. p > q /\ p + before > q + after
    BY <1>2, <2>1
  <2>3. QED
    BY <2>1, <2>2
<1>6. QED
  BY <1>3, <1>4, <1>5

\* A feed's event is dated, in seconds: was for the one before it, is for its own.
NextDates(was, is, day, before, after, p, q) ==
    /\ was \in Int /\ is \in Int /\ day \in Int /\ before \in Int /\ after \in Int
    /\ p = was % Day /\ q = is % Day
    /\ day * Day + p = was
    /\ is - was \in 0 .. Day - 1
    /\ (is - was) + after - before < Day

LEMMA NextDateIs ==
    ASSUME Day \in Nat \ {0},
           NEW was, NEW is, NEW day, NEW before, NEW after, NEW p, NEW q,
           NextDates(was, is, day, before, after, p, q)
    PROVE  (IF p > q /\ p + before > q + after THEN day + 1 ELSE day) * Day + q = is
<1> USE DEF NextDates
<1>1. PICK d \in Nat : d = Day /\ d > 0
  OBVIOUS
<1>2. p \in 0 .. d - 1 /\ q \in 0 .. d - 1
  BY <1>1, Euclid
<1>3. PICK k \in Int : is = d * k + q
  BY <1>1, Euclid
<1>4. PICK gap : gap = is - was
  OBVIOUS
<1>5. gap \in 0 .. d - 1 /\ gap + after - before < d
  BY <1>1, <1>4
<1>6. gap = (k - day) * d + (q - p)
  <2>1. was = day * d + p
    BY <1>1
  <2>2. PICK a, b \in Int : a = day * d /\ b = d * k /\ (k - day) * d = b - a
    <3>1. day * d \in Int /\ d * k \in Int /\ (k - day) * d = d * k - day * d
      BY ONLY d \in Nat, k \in Int, day \in Int
    <3>2. QED
      BY <3>1
  <2>3. is = b + q /\ was = a + p
    BY <1>3, <2>1, <2>2
  <2>4. QED
    BY <1>2, <1>4, <2>2, <2>3
<1>7. PICK next : next = IF p > q /\ p + before > q + after THEN day + 1 ELSE day
  OBVIOUS
<1>8. k = next
  BY <1>1, <1>2, <1>5, <1>6, <1>7, NextDayIs
<1>9. next * d + q = is
  <2>1. next * d = d * k
    BY ONLY <1>8, d \in Nat, k \in Int
  <2>2. QED
    BY <1>3, <2>1
<1>10. QED
  BY <1>1, <1>7, <1>9

\* The time of day of a stop is the one of its date.
LEMMA TimeIsExpected ==
    ASSUME TripMergeAssumption, NEW db, NEW new, IsWellMade(new), AddsEachEvent(new),
           ~new.complete => EachStopOnce,
           NEW i \in DOMAIN NextStops(db, new), NextStops(db, new)[i] # None,
           NEW e \in Events, ~IsDeleted(new.stops[i], e)
    PROVE  /\ ExpectedDate(new, <<i, e>>) \in Int
           /\ NextStops(db, new)[i].time[e] = ExpectedDate(new, <<i, e>>) % Day
           /\ PlannedDate(new.stops[i].id, e) # None =>
                 ExpectedDate(new, <<i, e>>) = PlannedDate(new.stops[i].id, e)
<1> DEFINE stu == new.stops[i]
           visits == {k \in DOMAIN Trip : Trip[k].id = stu.id}
<1>1. i \in DOMAIN new.stops /\ stu \in Stus
  <2>1. new.stops \in Seq(Stus) /\ DOMAIN new.stops = 1 .. Len(new.stops)
    BY LenProperties DEF IsWellMade, Stus, Times
  <2>2. i \in DOMAIN new.stops
    BY NextStopIsAt
  <2>3. QED
    BY <2>1, <2>2, ElementOfSeq
<1>2. ExpectedDate(new, <<i, e>>) = OrElse(PlannedDate(stu.id, e), Plus(stu.time[e], stu.delay[e]))
  BY DEF ExpectedDate
<1>3. /\ DOMAIN Base = DOMAIN Trip /\ DOMAIN Trip = 1 .. Len(Trip) /\ Len(Trip) \in Nat
      /\ \A k \in DOMAIN Trip : /\ Base[k].id = Trip[k].id
                                /\ Base[k].time[e] = Trip[k].date[e] % Day
                                /\ Trip[k].date[e] \in Int
  <2>1. Trip \in Seq([id : STRING, date : [Events -> Int]])
    BY DEF TripMergeAssumption
  <2>2. DOMAIN Trip = 1 .. Len(Trip) /\ Len(Trip) \in Nat
    BY <2>1, LenProperties
  <2>3. \A k \in DOMAIN Trip : Trip[k] \in [id : STRING, date : [Events -> Int]]
    BY <2>1, <2>2, ElementOfSeq
  <2>4. \A k \in DOMAIN Trip : Trip[k].date[e] \in Int
    BY <2>3
  <2>5. QED
    BY <2>2, <2>4 DEF Base
<1>4. {k \in DOMAIN Base : Base[k].id = stu.id} = visits
  BY <1>3
<1>5. ASSUME visits # {} PROVE Min(visits) \in visits
  <2>1. visits \in SUBSET Nat
    BY <1>3
  <2> HIDE DEF visits
  <2>2. QED
    BY <1>5, <2>1, MinIs
<1>6. PlannedDate(stu.id, e) = IF visits = {} THEN None ELSE Trip[Min(visits)].date[e]
  BY DEF PlannedDate
<1>7. CASE visits # {}
  <2>1. PICK n : n = Min(visits)
    OBVIOUS
  <2>2. n \in DOMAIN Trip /\ PlannedDate(stu.id, e) = Trip[n].date[e]
    BY <1>5, <1>6, <1>7, <2>1
  <2>3. PlannedDate(stu.id, e) \in Int /\ PlannedDate(stu.id, e) # None
    BY <1>3, <2>2 DEF TripMergeAssumption
  <2>4. ExpectedDate(new, <<i, e>>) = Trip[n].date[e]
    BY <1>2, <2>2, <2>3 DEF OrElse
  <2>5. NextStops(db, new)[i].time[e] = Base[n].time[e]
    <3>1. CASE new.complete
      BY <1>1, <1>4, <1>7, <2>1, <3>1 DEF NextStops, FeedStops
    <3>2. CASE ~new.complete
      <4>1. i \in DOMAIN Base /\ stu.id = Base[i].id /\ NextStops(db, new)[i].time = Base[i].time
        BY <3>2 DEF NextStops, BaseStops, IsWellMade
      <4>2. i \in visits /\ n \in visits
        BY <1>3, <1>5, <1>7, <2>1, <4>1
      <4>3. n = i
        BY <3>2, <4>2 DEF EachStopOnce
      <4>4. QED
        BY <4>1, <4>3
    <3>3. QED
      BY <3>1, <3>2
  <2>6. QED
    BY <1>3, <2>2, <2>3, <2>4, <2>5
<1>8. CASE visits = {}
  <2>1. PlannedDate(stu.id, e) = None
    BY <1>6, <1>8
  <2>2. \A k \in DOMAIN Base : Base[k].id # stu.id
    BY <1>4, <1>8
  <2>3. stu.time[e] # None
    BY <1>1, <2>2 DEF AddsEachEvent
  <2>4. new.complete
    <3>1. ~new.complete => i \in DOMAIN Base /\ stu.id = Base[i].id
      BY DEF NextStops, BaseStops, IsWellMade
    <3>2. QED
      BY <2>2, <3>1
  <2>5. PICK dbStu : NextStops(db, new)[i].time = FakeTime(dbStu, stu)
    BY <1>1, <1>4, <1>8, <2>4 DEF NextStops, FeedStops
  <2>6. PICK date : date = Plus(stu.time[e], stu.delay[e])
    OBVIOUS
  <2>7. date \in Int
    <3>1. stu.time[e] \in Int /\ (stu.delay[e] # None => stu.delay[e] \in Int)
      BY <1>1, <2>3 DEF Stus, StopTimeUpdates, Times, OrNone
    <3>2. QED
      BY <2>3, <2>6, <3>1 DEF Plus
  <2>8. FakeTime(dbStu, stu)[e] = date % Day
    <3>1. stu.time["arrival"] # None \/ stu.time["departure"] # None
      BY <2>3 DEF Events
    <3>2. OrElse(stu.time[e], OrElse(stu.time["arrival"], stu.time["departure"])) = stu.time[e]
      BY <2>3 DEF OrElse
    <3>3. date # None
      BY <2>7 DEF TripMergeAssumption
    <3>4. QED
      BY <2>6, <3>1, <3>2, <3>3 DEF FakeTime
  <2>9. QED
    BY <1>2, <2>1, <2>5, <2>6, <2>7, <2>8 DEF OrElse
<1>9. QED
  BY <1>7, <1>8

\* Before the event n the clock is at the last event served before it.
ClockIsAt(clock, new, n) ==
    /\ clock.day \in Int
    /\ \/ /\ clock.day = 0 /\ clock.time = None
          /\ \A m \in ServedEvents(new) : ~ComesBefore(m, n)
       \/ \E m \in ServedEvents(new) :
             /\ LastBefore(new, m, n)
             /\ ExpectedDate(new, m) \in Int
             /\ clock.time = ExpectedDate(new, m) % Day
             /\ clock.day * Day + clock.time = ExpectedDate(new, m)
             /\ clock.delay = DelayOf(new, m)

\* n is the event of the trip before next.
IsNextTo(n, next) ==
    \A i \in Nat : \A f \in Events :
       ComesBefore(<<i, f>>, next) <=> ComesBefore(<<i, f>>, n) \/ <<i, f>> = n

LEMMA EventsInTurn ==
    ASSUME NEW i \in Nat
    PROVE  IsNextTo(<<i, "arrival">>, <<i, "departure">>)
           /\ IsNextTo(<<i, "departure">>, <<i + 1, "arrival">>)
BY DEF IsNextTo, ComesBefore, Events

\* The clock at the event n of the feed's i-th stop, and after it.
TicksFrom(new, i, e, n, next, clock, stop, stu, after) ==
    /\ i \in DOMAIN new.stops /\ e \in Events
    /\ n = <<i, e>> /\ IsNextTo(n, next)
    /\ ClockIsAt(clock, new, n)
    /\ stu = new.stops[i]
    /\ ~IsDeleted(stu, e) => /\ ExpectedDate(new, n) \in Int
                             /\ stop.time[e] = ExpectedDate(new, n) % Day
    /\ IsDeleted(stu, e) => after = clock
    /\ ~IsDeleted(stu, e) => after = Tick(clock, TRUE, e, stop, stu)

LEMMA TickIsDated ==
    ASSUME TripMergeAssumption, NEW new, IsWellMade(new), LessThanADayApart(new),
           \E m \in ServedEvents(new) : m[1] = 1,
           NEW i, NEW e, NEW n, NEW next, NEW clock, NEW stop, NEW stu, NEW after,
           TicksFrom(new, i, e, n, next, clock, stop, stu, after)
    PROVE  /\ ClockIsAt(after, new, next)
           /\ ~IsDeleted(stu, e) => after.day * Day + stop.time[e] = ExpectedDate(new, n)
<1>1. /\ i \in DOMAIN new.stops /\ e \in Events
      /\ n = <<i, e>> /\ IsNextTo(n, next)
      /\ ClockIsAt(clock, new, n)
      /\ stu = new.stops[i]
      /\ ~IsDeleted(stu, e) => /\ ExpectedDate(new, n) \in Int
                               /\ stop.time[e] = ExpectedDate(new, n) % Day
      /\ IsDeleted(stu, e) => after = clock
      /\ ~IsDeleted(stu, e) => after = Tick(clock, TRUE, e, stop, stu)
  BY DEF TicksFrom
<1> USE <1>1
<1>2. \A m \in ServedEvents(new) : ComesBefore(m, next) <=> ComesBefore(m, <<i, e>>) \/ m = <<i, e>>
  <2>1. new.stops \in Seq(Stus)
    BY DEF IsWellMade, Stus, Times
  <2>2. DOMAIN new.stops \subseteq Nat
    BY <2>1, LenProperties
  <2>3. ASSUME NEW m \in ServedEvents(new)
        PROVE  ComesBefore(m, next) <=> ComesBefore(m, <<i, e>>) \/ m = <<i, e>>
    <3>1. m \in Nat \X Events
      BY <2>2 DEF ServedEvents
    <3>2. PICK j \in Nat, f \in Events : m = <<j, f>>
      BY <3>1
    <3>3. QED
      BY <3>2 DEF IsNextTo
  <2>4. QED
    BY <2>3
<1>3. CASE IsDeleted(new.stops[i], e)
  <2>1. after = clock
    BY <1>3
  <2>2. <<i, e>> \notin ServedEvents(new)
    BY <1>3 DEF ServedEvents
  <2>3. \A m \in ServedEvents(new) : ComesBefore(m, next) <=> ComesBefore(m, <<i, e>>)
    BY <1>2, <2>2
  <2>4. \A m \in ServedEvents(new) : LastBefore(new, m, <<i, e>>) => LastBefore(new, m, next)
    BY <2>3 DEF LastBefore
  <2>5. ClockIsAt(clock, new, next)
    BY <2>3, <2>4 DEF ClockIsAt
  <2>6. QED
    BY <1>3, <2>1, <2>5
<1>4. CASE ~IsDeleted(new.stops[i], e)
  <2>1. n = <<i, e>>
    OBVIOUS
  <2>2. n \in ServedEvents(new)
    BY <1>4, <2>1 DEF ServedEvents
  <2>3. PICK is, q, delay : /\ is = ExpectedDate(new, n) /\ q = stop.time[e]
                            /\ delay = DelayOf(new, n)
    OBVIOUS
  <2>4. is \in Int /\ q = is % Day /\ q \in 0 .. Day - 1
    <3>1. is \in Int /\ q = is % Day
      BY <1>4, <2>1, <2>3
    <3>2. Day \in Nat /\ Day > 0
      BY DEF TripMergeAssumption
    <3>3. QED
      BY <3>1, <3>2, Euclid
  <2>5. delay \in Int
    <3>1. new.stops \in Seq(Stus) /\ DOMAIN new.stops = 1 .. Len(new.stops)
      BY LenProperties DEF IsWellMade, Stus, Times
    <3>2. new.stops[i] \in Stus
      BY <3>1, ElementOfSeq
    <3>3. new.stops[i].delay[e] \in Times
      BY <3>2 DEF Stus, StopTimeUpdates
    <3>4. delay = OrElse(new.stops[i].delay[e], 0)
      BY <2>1, <2>3 DEF DelayOf
    <3>5. QED
      BY <3>3, <3>4 DEF OrElse, Times, OrNone
  <2>6. PICK past : past = IsPastMidnight(clock, q, delay)
    OBVIOUS
  <2>7. after = [day |-> IF past THEN clock.day + 1 ELSE clock.day, time |-> q, delay |-> delay]
    <3>1. new.stops[i] # None
      BY NoneIs, LenProperties, ElementOfSeq DEF NoneIsApart, IsWellMade, Stus, Times
    <3>2. delay = OrElse(new.stops[i].delay[e], 0)
      BY <2>1, <2>3 DEF DelayOf
    <3>3. QED
      BY <1>4, <2>3, <2>6, <3>1, <3>2 DEF Tick
  <2>8. /\ after.day = IF past THEN clock.day + 1 ELSE clock.day
        /\ after.time = q /\ after.delay = delay
    BY <2>7
  <2>9. after.day * Day + q = is
    <3>1. ClockIsAt(clock, new, n)
      BY <2>1
    <3>2. CASE \A m \in ServedEvents(new) : ~ComesBefore(m, n)
      <4>1. clock.time = None /\ clock.day = 0
        BY <3>1, <3>2 DEF ClockIsAt, LastBefore
      <4>2. ~past
        BY <2>6, <4>1 DEF IsPastMidnight
      <4>3. is \in 0 .. Day - 1
        BY <2>2, <2>3, <3>2 DEF LessThanADayApart
      <4>4. after.day = 0
        BY <2>8, <4>1, <4>2
      <4>5. is % Day = is
        <5>1. Day \in Nat /\ Day > 0
          BY DEF TripMergeAssumption
        <5>2. QED
          BY <4>3, <5>1, SmallRemainder
      <4>6. 0 * Day = 0
        BY DEF TripMergeAssumption
      <4>7. QED
        BY <2>4, <4>4, <4>5, <4>6
    <3>3. CASE \E m \in ServedEvents(new) : ComesBefore(m, n)
      <4>1. PICK m \in ServedEvents(new) :
               /\ LastBefore(new, m, n)
               /\ ExpectedDate(new, m) \in Int
               /\ clock.time = ExpectedDate(new, m) % Day
               /\ clock.day * Day + clock.time = ExpectedDate(new, m)
               /\ clock.delay = DelayOf(new, m)
        BY <3>1, <3>3 DEF ClockIsAt
      <4>2. PICK was, p, before, day : /\ was = ExpectedDate(new, m) /\ p = clock.time
                                       /\ before = clock.delay /\ day = clock.day
        OBVIOUS
      <4>3. LET gap == is - was IN gap \in 0 .. Day - 1 /\ gap + delay - before < Day
        BY <2>2, <2>3, <4>1, <4>2 DEF LessThanADayApart
      <4>4. was \in Int /\ p = was % Day /\ day * Day + p = was /\ day \in Int
        BY <3>1, <4>1, <4>2 DEF ClockIsAt
      <4>5. before \in Int
        <5>1. new.stops \in Seq(Stus) /\ DOMAIN new.stops = 1 .. Len(new.stops)
          BY LenProperties DEF IsWellMade, Stus, Times
        <5>2. m[1] \in DOMAIN new.stops /\ m[2] \in Events
          BY DEF ServedEvents
        <5>3. new.stops[m[1]] \in Stus
          BY <5>1, <5>2, ElementOfSeq
        <5>4. new.stops[m[1]].delay[m[2]] \in Times
          BY <5>2, <5>3 DEF Stus, StopTimeUpdates
        <5>5. QED
          BY <4>1, <4>2, <5>4 DEF DelayOf, OrElse, Times, OrNone
      <4>6. p # None
        <5>1. p \in Int
          <6>1. Day \in Nat /\ Day > 0
            BY DEF TripMergeAssumption
          <6>2. QED
            BY <4>4, <6>1, Euclid
        <5>2. QED
          BY <5>1 DEF TripMergeAssumption
      <4>7. past <=> p > q /\ p + before > q + delay
        BY <2>6, <4>2, <4>6 DEF IsPastMidnight
      <4>8. Day \in Nat \ {0}
        BY DEF TripMergeAssumption
      <4>9. (IF p > q /\ p + before > q + delay THEN day + 1 ELSE day) * Day + q = is
        <5>1. NextDates(was, is, day, before, delay, p, q)
          BY <2>4, <2>5, <4>3, <4>4, <4>5 DEF NextDates
        <5>2. QED
          BY <4>8, <5>1, NextDateIs
      <4>10. after.day = IF p > q /\ p + before > q + delay THEN day + 1 ELSE day
        BY <2>8, <4>2, <4>7
      <4>11. QED
        BY <4>9, <4>10
    <3>4. QED
      BY <3>2, <3>3
  <2>10. ClockIsAt(after, new, next)
    <3>1. LastBefore(new, n, next)
      BY <1>2, <2>1, <2>2 DEF LastBefore
    <3>2. after.day \in Int
      BY <2>8 DEF ClockIsAt
    <3>3. QED
      BY <2>2, <2>3, <2>4, <2>8, <2>9, <3>1, <3>2 DEF ClockIsAt
  <2>11. QED
    BY <2>1, <2>3, <2>9, <2>10
<1>5. QED
  BY <1>3, <1>4

\* The places merge() goes through are those of the feed.
LEMMA NextPlacesAre ==
    ASSUME TripMergeAssumption, NEW db, NEW new, IsWellMade(new)
    PROVE  DOMAIN NextStops(db, new) = DOMAIN new.stops
BY DEF NextStops, FeedStops, BaseStops, IsWellMade

\* The clock before each stop, as long as merge() passes over those only that the feed
\* deletes.
LEMMA ClockIsDated ==
    ASSUME TripMergeAssumption, NEW db \in OrNone(StoredTrips), NEW new, IsWellMade(new),
           ~Raises(NextStops(db, new)), LessThanADayApart(new), AddsEachEvent(new),
           ~new.complete => EachStopOnce, \E m \in ServedEvents(new) : m[1] = 1,
           NEW end \in 0 .. Len(NextStops(db, new)),
           \A i \in 1 .. end : \/ NextStops(db, new)[i] # None
                               \/ \A e \in Events : IsDeleted(new.stops[i], e),
           NEW i \in 1 .. end, NEW e \in Events, ~IsDeleted(new.stops[i], e)
    PROVE  LET acc == Turns(db, new)[i - 1]
               stop == NextStops(db, new)[i]
               clock == IF e = "arrival" THEN ClockOfArrival(acc.clock, stop, new.stops[i])
                                         ELSE ClockAfter(acc.clock, stop, new.stops[i])
           IN  clock.day * Day + stop.time[e] = ExpectedDate(new, <<i, e>>)
<1> DEFINE next == NextStops(db, new)
           N == Len(next)
           turns == Turns(db, new)
           T == {n \in 0 .. end : ClockIsAt(turns[n].clock, new, <<n + 1, "arrival">>)}
<1>1. N \in Nat /\ DOMAIN next = 1 .. N /\ end \in Nat
  BY NextStopsAre
<1>2. /\ turns[0] = BeforeMerge
      /\ \A n \in 1 .. N : turns[n] = MergeNext(turns[n - 1], db, new, next[n])
  BY TurnsAre
<1>3. ASSUME NEW n \in T, n < end
      PROVE  LET stop == next[n + 1]
                 stu == new.stops[n + 1]
                 arrival == ClockOfArrival(turns[n].clock, stop, stu)
                 departure == ClockAfter(turns[n].clock, stop, stu)
             IN  /\ ClockIsAt(departure, new, <<n + 2, "arrival">>)
                 /\ ~IsDeleted(stu, "arrival") =>
                       arrival.day * Day + stop.time["arrival"]
                          = ExpectedDate(new, <<n + 1, "arrival">>)
                 /\ ~IsDeleted(stu, "departure") =>
                       departure.day * Day + stop.time["departure"]
                          = ExpectedDate(new, <<n + 1, "departure">>)
  <2>1. PICK k \in 1 .. end : k = n + 1 /\ k + 1 = n + 2
    BY <1>1, <1>3
  <2>2. k \in DOMAIN next /\ (next[k] # None \/ \A f \in Events : IsDeleted(new.stops[k], f))
    BY <1>1, <2>1
  <2>3. k \in DOMAIN new.stops /\ k \in Nat
    BY <1>1, <2>1, <2>2, NextPlacesAre
  <2>4. PICK clock, stop, stu, arrival, departure :
           /\ clock = turns[n].clock /\ stop = next[k] /\ stu = new.stops[k]
           /\ arrival = ClockOfArrival(clock, stop, stu)
           /\ departure = ClockAfter(clock, stop, stu)
    OBVIOUS
  <2>5. ClockIsAt(clock, new, <<k, "arrival">>)
    BY <1>3, <2>1, <2>4
  <2>6. ASSUME NEW f \in Events, ~IsDeleted(new.stops[k], f)
        PROVE  /\ ExpectedDate(new, <<k, f>>) \in Int
               /\ stop.time[f] = ExpectedDate(new, <<k, f>>) % Day
    BY <2>2, <2>4, <2>6, TimeIsExpected
  <2>7. IsNextTo(<<k, "arrival">>, <<k, "departure">>)
        /\ IsNextTo(<<k, "departure">>, <<k + 1, "arrival">>)
    BY <2>3, EventsInTurn
  <2>8. "arrival" \in Events /\ "departure" \in Events
    BY DEF Events
  <2>9. ASSUME NEW f \in Events, NEW n2, n2 = <<k, f>>, NEW next2, IsNextTo(n2, next2),
               NEW c, ClockIsAt(c, new, n2),
               NEW after, after = Tick(c, ~IsDeleted(stu, f), f, stop, stu)
        PROVE  /\ ClockIsAt(after, new, next2)
               /\ ~IsDeleted(stu, f) => after.day * Day + stop.time[f] = ExpectedDate(new, n2)
    <3>1. ~IsDeleted(stu, f) => /\ ExpectedDate(new, n2) \in Int
                                /\ stop.time[f] = ExpectedDate(new, n2) % Day
      BY <2>4, <2>6, <2>9
    <3>2. stu = new.stops[k] /\ k \in DOMAIN new.stops
      BY <2>3, <2>4
    <3>3. IsDeleted(stu, f) => after = c
      BY <2>9 DEF Tick
    <3>4. ~IsDeleted(stu, f) => after = Tick(c, TRUE, f, stop, stu)
      BY <2>9
    <3>5. TicksFrom(new, k, f, n2, next2, c, stop, stu, after)
      BY <2>9, <3>1, <3>2, <3>3, <3>4 DEF TicksFrom
    <3>6. QED
      BY <3>5, TickIsDated
  <2>10. PICK a, d, b : /\ a = <<k, "arrival">> /\ d = <<k, "departure">>
                        /\ b = <<k + 1, "arrival">>
    OBVIOUS
  <2>11. IsNextTo(a, d) /\ IsNextTo(d, b) /\ ClockIsAt(clock, new, a)
    BY <2>5, <2>7, <2>10
  <2>12. /\ ClockIsAt(arrival, new, d)
         /\ ~IsDeleted(stu, "arrival") =>
               arrival.day * Day + stop.time["arrival"] = ExpectedDate(new, a)
    <3>1. arrival = Tick(clock, ~IsDeleted(stu, "arrival"), "arrival", stop, stu)
      BY <2>4 DEF ClockOfArrival
    <3>2. QED
      BY <2>8, <2>9, <2>10, <2>11, <3>1
  <2>13. /\ ClockIsAt(departure, new, b)
         /\ ~IsDeleted(stu, "departure") =>
               departure.day * Day + stop.time["departure"] = ExpectedDate(new, d)
    <3>1. departure = Tick(arrival, ~IsDeleted(stu, "departure"), "departure", stop, stu)
      BY <2>4 DEF ClockAfter
    <3>2. QED
      BY <2>8, <2>9, <2>10, <2>11, <2>12, <3>1
  <2>14. QED
    BY <2>1, <2>4, <2>10, <2>12, <2>13
<1>4. 0 \in T
  <2>1. turns[0].clock = [day |-> 0, time |-> None, delay |-> None]
    BY <1>2 DEF BeforeMerge
  <2>2. PICK clock : clock = turns[0].clock
    OBVIOUS
  <2>3. clock.day = 0 /\ clock.time = None
    BY <2>1, <2>2
  <2>4. ASSUME NEW m \in ServedEvents(new) PROVE ~ComesBefore(m, <<1, "arrival">>)
    <3>1. new.stops \in Seq(Stus)
      BY DEF IsWellMade, Stus, Times
    <3>2. DOMAIN new.stops = 1 .. Len(new.stops) /\ Len(new.stops) \in Nat
      BY <3>1, LenProperties
    <3>3. m[1] \in 1 .. Len(new.stops)
      BY <3>2 DEF ServedEvents
    <3>4. QED
      BY <3>2, <3>3 DEF ComesBefore
  <2>5. ClockIsAt(clock, new, <<1, "arrival">>)
    BY <2>3, <2>4 DEF ClockIsAt
  <2>6. QED
    BY <1>1, <2>2, <2>5
<1>5. ASSUME NEW n \in T, n < end PROVE n + 1 \in T
  <2>1. n + 1 \in 1 .. end /\ n + 1 \in 1 .. N /\ (n + 1) - 1 = n /\ n + 1 \in 0 .. end
        /\ (n + 1) + 1 = n + 2
    BY <1>1, <1>5
  <2>2. PICK acc, stop, stu : acc = turns[n] /\ stop = next[n + 1] /\ stu = new.stops[n + 1]
    OBVIOUS
  <2>3. /\ turns[n + 1] = MergeNext(acc, db, new, stop)
        /\ stop # None \/ \A f \in Events : IsDeleted(stu, f)
    BY <1>2, <2>1, <2>2
  <2>4. MergeNext(acc, db, new, stop).clock = ClockAfter(acc.clock, stop, stu)
    <3>1. CASE stop # None
      <4>1. PICK fresh : fresh = Fresh(acc.clock, acc.lastDep, stop, stu)
        OBVIOUS
      <4>2. n + 1 \in DOMAIN NextStops(db, new) /\ stop = NextStops(db, new)[n + 1]
        BY <1>1, <2>1, <2>2
      <4>3. QED
        BY <2>2, <3>1, <4>1, <4>2, MergeNextIs
    <3>2. CASE stop = None
      <4>1. IsDeleted(stu, "arrival") /\ IsDeleted(stu, "departure")
        BY <2>3, <3>2 DEF Events
      <4>2. ClockAfter(acc.clock, stop, stu) = acc.clock
        BY <4>1 DEF ClockAfter, ClockOfArrival, Tick
      <4>3. QED
        BY <3>2, <4>2 DEF MergeNext
    <3>3. QED
      BY <3>1, <3>2
  <2>5. ClockIsAt(ClockAfter(acc.clock, stop, stu), new, <<n + 2, "arrival">>)
    BY <1>3, <1>5, <2>2
  <2>6. ClockIsAt(turns[n + 1].clock, new, <<(n + 1) + 1, "arrival">>)
    BY <2>1, <2>3, <2>4, <2>5
  <2>7. QED
    BY <2>1, <2>6
<1>6. T = 0 .. end
  <2> HIDE DEF T
  <2>1. T \in SUBSET (0 .. end)
    BY DEF T
  <2>2. QED
    BY <1>1, <1>4, <1>5, <2>1, InductionUpTo
<1>7. PICK n : n = i - 1 /\ n \in 0 .. end /\ n < end /\ n + 1 = i
  BY <1>1
<1>8. n \in T
  BY <1>6, <1>7
<1>9. e \in {"arrival", "departure"}
  BY DEF Events
<1> HIDE DEF T, next, turns
<1>10. QED
  BY <1>3, <1>7, <1>8, <1>9 DEF next, turns

\* A planned event has a date.
LEMMA PlannedIs ==
    ASSUME TripMergeAssumption, NEW id, ~IsForeign(id), NEW e \in Events
    PROVE  PlannedDate(id, e) \in Int
<1>1. PICK k \in DOMAIN Trip : Trip[k].id = id
  BY DEF IsForeign, Base
<1>2. Trip \in Seq([id : STRING, date : [Events -> Int]])
  BY DEF TripMergeAssumption
<1>3. DOMAIN Trip = 1 .. Len(Trip) /\ Len(Trip) \in Nat
  BY <1>2, LenProperties
<1> DEFINE visits == {j \in DOMAIN Trip : Trip[j].id = id}
<1>4. visits \in SUBSET Nat /\ visits # {} /\ visits \subseteq 1 .. Len(Trip)
  BY <1>1, <1>3
<1>5. PlannedDate(id, e) = Trip[Min(visits)].date[e]
  BY <1>4 DEF PlannedDate
<1> HIDE DEF visits
<1>6. PICK n : n = Min(visits) /\ n \in visits
  BY <1>4, MinIs
<1>7. Trip[n] \in [id : STRING, date : [Events -> Int]]
  BY <1>2, <1>3, <1>4, <1>6, ElementOfSeq
<1>8. Trip[n].date[e] \in Int
  BY <1>7
<1>9. QED
  BY <1>5, <1>6, <1>8

\* The events served, as dates: those of the schedule where it has them
HasDates(base, stu) ==
    \A f \in Events :
       ~IsDeleted(stu, f) => /\ base[f] \in Int
                             /\ PlannedDate(stu.id, f) # None => base[f] = PlannedDate(stu.id, f)

IsMadeOfDates(db, new, i) ==
    \E base \in [Events -> Times] :
       /\ MadeAt(db, new, i) = MakeStopTimeUpdate(base, Turns(db, new)[i - 1].lastDep,
                                                  new.stops[i], NextStops(db, new)[i])
       /\ HasDates(base, new.stops[i])

\* merge() passes over no stop that is served.
PassesNoneServed(db, new, end) ==
    \A k \in 1 .. end :
       NextStops(db, new)[k] # None \/ \A e \in Events : IsDeleted(new.stops[k], e)

\* What merge() makes of a stop, from the dates it tells from the times of day
LEMMA MadeOfDates ==
    ASSUME TripMergeAssumption, NEW db \in OrNone(StoredTrips), NEW new, IsWellMade(new),
           ~Raises(NextStops(db, new)), LessThanADayApart(new), AddsEachEvent(new),
           ~new.complete => EachStopOnce, \E m \in ServedEvents(new) : m[1] = 1,
           NEW end \in 0 .. Len(NextStops(db, new)),
           PassesNoneServed(db, new, end), NEW i \in 1 .. end, NextStops(db, new)[i] # None
    PROVE  IsMadeOfDates(db, new, i)
<1> DEFINE next == NextStops(db, new)
<1>1. PICK acc, stop, stu : acc = Turns(db, new)[i - 1] /\ stop = next[i] /\ stu = new.stops[i]
  OBVIOUS
<1> DEFINE Clock(f) == IF f = "arrival" THEN ClockOfArrival(acc.clock, stop, stu)
                                        ELSE ClockAfter(acc.clock, stop, stu)
           base == [f \in Events |-> Dated(Clock(f), ~IsDeleted(stu, f), stop, f)]
<1>2. MadeAt(db, new, i) = MakeStopTimeUpdate(base, acc.lastDep, stu, stop)
  BY <1>1 DEF MadeAt, Fresh
<1>3. i \in DOMAIN next
  BY NextStopsAre
<1>4. ASSUME NEW f \in Events, ~IsDeleted(stu, f)
      PROVE  /\ base[f] \in Int
             /\ PlannedDate(stu.id, f) # None => base[f] = PlannedDate(stu.id, f)
  <2>1. Clock(f).day * Day + stop.time[f] = ExpectedDate(new, <<i, f>>)
    <3>1. ~IsDeleted(new.stops[i], f)
      BY <1>1, <1>4
    <3>2. LET clock == IF f = "arrival"
                       THEN ClockOfArrival(Turns(db, new)[i - 1].clock, NextStops(db, new)[i],
                                           new.stops[i])
                       ELSE ClockAfter(Turns(db, new)[i - 1].clock, NextStops(db, new)[i],
                                       new.stops[i])
          IN  clock.day * Day + NextStops(db, new)[i].time[f] = ExpectedDate(new, <<i, f>>)
      BY <3>1, ClockIsDated DEF PassesNoneServed
    <3>3. QED
      BY <1>1, <3>2
  <2>2. base[f] = Clock(f).day * Day + stop.time[f]
    BY <1>4 DEF Dated
  <2>3. /\ ExpectedDate(new, <<i, f>>) \in Int
        /\ PlannedDate(stu.id, f) # None => ExpectedDate(new, <<i, f>>) = PlannedDate(stu.id, f)
    BY <1>1, <1>3, <1>4, TimeIsExpected
  <2> HIDE DEF base, Clock
  <2>4. QED
    BY <2>1, <2>2, <2>3
<1>5. base \in [Events -> Times]
  <2>1. ASSUME NEW f \in Events PROVE base[f] \in Times
    <3>1. CASE IsDeleted(stu, f)
      BY <3>1 DEF Dated, Times, OrNone
    <3>2. CASE ~IsDeleted(stu, f)
      <4>1. base[f] \in Int
        BY <1>4, <3>2
      <4>2. QED
        BY <4>1 DEF Times, OrNone
    <3>3. QED
      BY <3>1, <3>2
  <2>2. QED
    BY <2>1
<1> HIDE DEF base
<1>6. HasDates(base, stu)
  BY <1>4 DEF HasDates
<1>7. QED
  BY <1>1, <1>2, <1>5, <1>6 DEF IsMadeOfDates

\* What is pushed has its delay pushed with it.
LEMMA MadeExplains ==
    ASSUME NoneIsApart, NEW new \in Stus,
           \A e \in Events : new.status[e] = "update" => new.delay[e] # None,
           NEW base \in [Events -> Times],
           \A e \in Events : ~IsDeleted(new, e) => base[e] \in Int,
           NEW lastDep \in Times, NEW stop,
           NEW made, made = MakeStopTimeUpdate(base, lastDep, new, stop),
           NEW e \in Events, new.status[e] \in {"none", "update"}
    PROVE  made.time[e] - made.delay[e] = base[e]
<1> USE DEF NoneIsApart
<1>1. "arrival" \in Events /\ "departure" \in Events /\ Events = {"arrival", "departure"}
  BY DEF Events
<1>2. ASSUME NEW f \in Events
      PROVE  /\ new.status[f] \in Statuses
             /\ new.time[f] \in Times /\ new.delay[f] \in Times
  BY DEF Stus, StopTimeUpdates
<1>3. /\ EventTime(base[e], new, e) \in Int /\ EventDelay(new, e) \in Int
      /\ EventTime(base[e], new, e) - EventDelay(new, e) = base[e]
  <2>1. CASE new.status[e] = "update"
    BY <1>2, <2>1 DEF EventTime, IsAdded, IsDeleted, EventDelay, Plus, Times, OrNone
  <2>2. CASE new.status[e] = "none"
    BY <1>2, <2>2 DEF EventTime, IsAdded, IsDeleted, EventDelay
  <2>3. QED
    BY <2>1, <2>2
<1>4. ASSUME NEW f \in Events PROVE EventTime(base[f], new, f) \in Times
  <2>1. CASE new.status[f] = "update"
    BY <1>2, <2>1 DEF EventTime, IsAdded, IsDeleted, Plus, Times, OrNone
  <2>2. CASE IsDeleted(new, f)
    BY <1>2, <2>2 DEF EventTime, IsAdded, IsDeleted, Plus, Times, OrNone
  <2>3. CASE IsAdded(new, f)
    BY <1>2, <2>3 DEF EventTime, IsAdded, IsDeleted, Plus, Times, OrNone
  <2>4. CASE new.status[f] = "none"
    BY <1>2, <2>4 DEF EventTime, IsAdded, IsDeleted, Plus, Times, OrNone
  <2>5. QED
    BY <1>2, <2>1, <2>2, <2>3, <2>4 DEF Statuses, IsAdded, IsDeleted
<1> DEFINE d == EventTime(base["departure"], new, "departure")
           a == EventTime(base["arrival"], new, "arrival")
           arr0 == OrElse(a, OrElse(d, lastDep))
           dep0 == OrElse(d, arr0)
           late == IF lastDep # None /\ lastDep > arr0 THEN lastDep - arr0 ELSE 0
           arr  == Plus(arr0, late)
           wait == IF arr # None /\ arr > dep0 THEN arr - dep0 ELSE 0
           dep  == Plus(dep0, wait)
<1>5. made = [id     |-> stop.id,
              order  |-> stop.order,
              status |-> new.status,
              time   |-> [f \in Events |-> IF f = "arrival" THEN arr ELSE dep],
              delay  |-> [f \in Events |-> EventDelay(new, f) +
                                           (IF f = "arrival" THEN late ELSE wait)]]
  BY DEF MakeStopTimeUpdate, PushedUpdate
<1>6. d \in Times /\ a \in Times
  BY <1>1, <1>4
<1>7. CASE e = "arrival"
  <2>1. a \in Int /\ a - EventDelay(new, e) = base[e]
    BY <1>3, <1>7
  <2> HIDE DEF a, d
  <2>2. arr0 = a
    BY <2>1 DEF OrElse
  <2> HIDE DEF arr0
  <2>3. late \in Int /\ arr = a + late
    BY <2>1, <2>2 DEF Plus, Times, OrNone
  <2> HIDE DEF late, arr, dep, wait
  <2>4. made.time[e] = arr /\ made.delay[e] = EventDelay(new, e) + late
    BY <1>1, <1>5, <1>7
  <2>5. QED
    BY <1>3, <2>1, <2>3, <2>4
<1>8. CASE e = "departure"
  <2>1. d \in Int /\ d - EventDelay(new, e) = base[e]
    BY <1>3, <1>8
  <2> HIDE DEF a, d
  <2>2. dep0 = d /\ arr0 \in Int
    BY <1>6, <2>1 DEF OrElse, Times, OrNone
  <2> HIDE DEF arr0, dep0
  <2>3. late \in Int /\ arr \in Int
    BY <2>1, <2>2 DEF Plus, Times, OrNone
  <2> HIDE DEF late, arr
  <2>4. wait \in Int /\ dep = d + wait
    BY <2>1, <2>2, <2>3 DEF Plus
  <2> HIDE DEF dep, wait
  <2>5. made.time[e] = dep /\ made.delay[e] = EventDelay(new, e) + wait
    BY <1>1, <1>5, <1>8
  <2>6. QED
    BY <1>3, <2>1, <2>4, <2>5
<1>9. QED
  BY <1>1, <1>7, <1>8

\* The stops that are sent are those of the feed, none passed over.
LEMMA SentIsMade ==
    ASSUME TripMergeAssumption, NEW db \in OrNone(StoredTrips), NEW new, IsWellMade(new),
           Handled(db, new).verdict = "sent", ~new.cancel,
           NEW stops, stops = Handled(db, new).stored.stops
    PROVE  /\ ~Raises(NextStops(db, new))
           /\ Len(stops) \in 0 .. Len(NextStops(db, new)) /\ DOMAIN stops = 1 .. Len(stops)
           /\ \A i \in 1 .. Len(stops) :
                 /\ NextStops(db, new)[i] # None
                 /\ stops[i] = MadeAt(db, new, i)
                 /\ stops[i].time["arrival"] # None
<1>1. IsHandled(db, new, stops)
  BY SentIsStored DEF IsHandled
<1>2. /\ ~Raises(NextStops(db, new))
      /\ stops \in Seq(Stus) /\ AreAccepted(stops, Len(stops))
      /\ Members(stops) = {MadeAt(db, new, k) : k \in Kept(db, new, Len(NextStops(db, new)))}
  BY <1>1, HandledHasMade
<1>3. Len(stops) \in Nat /\ DOMAIN stops = 1 .. Len(stops)
  BY <1>2, LenProperties
<1>4. PICK N \in Nat : N = Len(NextStops(db, new)) /\ DOMAIN NextStops(db, new) = 1 .. N
  BY NextStopsAre
<1>5. ASSUME NEW i \in 1 .. Len(stops)
      PROVE  i \in 1 .. N /\ NextStops(db, new)[i] # None /\ stops[i] = MadeAt(db, new, i)
  <2>1. stops[i] \in Members(stops)
    BY <1>3 DEF Members
  <2>2. PICK k \in 1 .. N : stops[i] = MadeAt(db, new, k) /\ NextStops(db, new)[k] # None
    BY <1>2, <1>4, <2>1 DEF Kept
  <2>3. k \in 1 .. Len(stops) /\ stops[k] = stops[i]
    BY <1>1, <1>3, <1>4, <2>2, MadeIsStored
  <2>4. i - 1 = k - 1 /\ i \in Int /\ k \in Int
    BY <1>2, <2>3 DEF AreAccepted
  <2>5. QED
    BY <2>2, <2>4
<1>6. Len(stops) <= N
  <2>1. Len(stops) > 0 => Len(stops) \in 1 .. N
    BY <1>3, <1>5
  <2>2. QED
    BY <1>3, <1>4, <2>1
<1>7. QED
  BY <1>2, <1>3, <1>4, <1>5, <1>6 DEF AreAccepted

\* The first stop has a time of its own, or the feed is refused.
LEMMA MadeAlone ==
    ASSUME NEW clock, NEW stop, NEW stu, NEW made,
           made = Fresh(clock, None, stop, stu), made.time["arrival"] # None
    PROVE  \E e \in Events : ~IsDeleted(stu, e)
<1>1. SUFFICES ASSUME \A e \in Events : IsDeleted(stu, e) PROVE made.time["arrival"] = None
  OBVIOUS
<1>2. "arrival" \in Events /\ "departure" \in Events
  BY DEF Events
<1>3. \A x : EventTime(x, stu, "arrival") = None /\ EventTime(x, stu, "departure") = None
  BY <1>1, <1>2 DEF IsDeleted, IsAdded, EventTime
<1>4. PICK base : made = MakeStopTimeUpdate(base, None, stu, stop)
  BY DEF Fresh
<1>5. PICK dep0 : made = PushedUpdate(None, dep0, None, stu, stop)
  BY <1>3, <1>4 DEF MakeStopTimeUpdate, OrElse
<1>6. QED
  BY <1>2, <1>5 DEF PushedUpdate, Plus

LEMMA FirstIsServed ==
    ASSUME TripMergeAssumption, NEW db \in OrNone(StoredTrips), NEW new, IsWellMade(new),
           ~Raises(NextStops(db, new)), 1 \in DOMAIN new.stops,
           MadeAt(db, new, 1).time["arrival"] # None
    PROVE  \E m \in ServedEvents(new) : m[1] = 1
<1>1. PICK made, clock, stop, stu :
         /\ made = MadeAt(db, new, 1) /\ clock = BeforeMerge.clock
         /\ stop = NextStops(db, new)[1] /\ stu = new.stops[1]
  OBVIOUS
<1>2. made = Fresh(clock, None, stop, stu)
  <2>1. Turns(db, new)[0] = BeforeMerge
    BY TurnsAre
  <2>2. 1 - 1 = 0 /\ BeforeMerge.lastDep = None
    BY DEF BeforeMerge
  <2>3. QED
    BY <1>1, <2>1, <2>2 DEF MadeAt
<1>3. made.time["arrival"] # None
  BY <1>1
<1>4. PICK f \in Events : ~IsDeleted(stu, f)
  BY ONLY <1>2, <1>3, MadeAlone
<1>5. <<1, f>> \in ServedEvents(new)
  BY <1>1, <1>4 DEF ServedEvents
<1>6. QED
  BY <1>5

LEMMA SentExplains ==
    ASSUME TripMergeAssumption, NEW db \in OrNone(StoredTrips), NEW new, IsWellMade(new),
           Handled(db, new).verdict = "sent", ~new.cancel,
           LessThanADayApart(new), AddsEachEvent(new), ~new.complete => EachStopOnce,
           NEW stops, stops = Handled(db, new).stored.stops,
           NEW i \in DOMAIN stops, NEW e \in Events,
           stops[i].status[e] \in {"none", "update"}
    PROVE  stops[i].time[e] - stops[i].delay[e] = PlannedDate(stops[i].id, e)
<1> DEFINE next == NextStops(db, new)
           turns == Turns(db, new)
<1>1. /\ ~Raises(next)
      /\ Len(stops) \in 0 .. Len(next) /\ DOMAIN stops = 1 .. Len(stops)
      /\ \A k \in 1 .. Len(stops) : /\ next[k] # None /\ stops[k] = MadeAt(db, new, k)
                                    /\ stops[k].time["arrival"] # None
  BY SentIsMade
<1>2. /\ Len(next) \in Nat /\ DOMAIN next = 1 .. Len(next)
      /\ turns[0] = BeforeMerge /\ \A n \in 0 .. Len(next) : turns[n] \in Accs
  BY <1>1, NextStopsAre, TurnsAre
<1>3. new.stops \in Seq(Stus) /\ DOMAIN new.stops = 1 .. Len(new.stops)
  BY LenProperties DEF IsWellMade, Stus, Times
<1> HIDE DEF turns
<1>4. \E m \in ServedEvents(new) : m[1] = 1
  <2>1. 1 \in 1 .. Len(stops) /\ 1 \in DOMAIN next /\ next[1] # None
    BY <1>1, <1>2
  <2>2. 1 \in DOMAIN new.stops
    BY <2>1, NextStopIsAt
  <2>3. MadeAt(db, new, 1).time["arrival"] # None
    BY <1>1, <2>1
  <2>4. QED
    BY <1>1, <2>2, <2>3, FirstIsServed
<1>5. i \in 1 .. Len(stops) /\ i \in DOMAIN next /\ next[i] # None /\ i \in DOMAIN new.stops
  BY <1>1, <1>2, NextStopIsAt
<1>6. PICK lastDep, stop, stu, made :
         /\ lastDep = Turns(db, new)[i - 1].lastDep /\ stop = NextStops(db, new)[i]
         /\ stu = new.stops[i] /\ made = MadeAt(db, new, i) /\ made = stops[i]
  BY <1>1, <1>5
<1>7. stu \in Stus /\ \A f \in Events : stu.status[f] = "update" => stu.delay[f] # None
  <2>1. stu \in Stus
    BY <1>3, <1>5, <1>6, ElementOfSeq
  <2>2. QED
    BY <1>5, <1>6, <2>1 DEF IsWellMade
<1>8. made.id = stu.id /\ made.status = stu.status
  <2>1. PICK clock : clock = Turns(db, new)[i - 1].clock
    OBVIOUS
  <2>2. made = Fresh(clock, lastDep, stop, stu)
    BY <1>6, <2>1 DEF MadeAt
  <2>3. made.id = stop.id /\ made.status = stu.status
    BY <2>2, FreshIs
  <2>4. i \in DOMAIN NextStops(db, new) /\ NextStops(db, new)[i] # None
    BY <1>5
  <2>5. NextStops(db, new)[i].id = new.stops[i].id
    BY <2>4, NextStopIsAt
  <2>6. QED
    BY <1>6, <2>3, <2>5
<1>9. PICK base \in [Events -> Times] :
         made = MakeStopTimeUpdate(base, lastDep, stu, stop) /\ HasDates(base, stu)
  <2>1. PICK end \in 0 .. Len(NextStops(db, new)) :
           end = Len(stops) /\ i \in 1 .. end /\ NextStops(db, new)[i] # None
    BY <1>1, <1>5
  <2>2. ~Raises(NextStops(db, new)) /\ PassesNoneServed(db, new, end)
    BY <1>1, <2>1 DEF PassesNoneServed
  <2>3. IsMadeOfDates(db, new, i)
    BY <1>4, <2>1, <2>2, MadeOfDates
  <2>4. QED
    BY <1>6, <2>3 DEF IsMadeOfDates
<1>10. lastDep \in Times
  <2>1. i - 1 \in 0 .. Len(next)
    BY <1>2, <1>5
  <2>2. turns[i - 1] \in Accs
    BY <1>2, <2>1
  <2>3. QED
    BY <1>6, <2>2 DEF Accs, turns
<1>11. stu.status[e] \in {"none", "update"} /\ ~IsDeleted(stu, e) /\ ~IsAdded(stu, e)
  BY <1>6, <1>8 DEF IsDeleted, IsAdded
<1>12. made.time[e] - made.delay[e] = base[e]
  <2>1. \A f \in Events : ~IsDeleted(stu, f) => base[f] \in Int
    BY <1>9 DEF HasDates
  <2>2. QED
    BY <1>7, <1>9, <1>10, <1>11, <2>1, NoneIs, MadeExplains
<1>13. PlannedDate(stu.id, e) # None
  <2>1. ~IsForeign(stu.id)
    BY <1>5, <1>6, <1>11 DEF AddsEachEvent, IsForeign
  <2>2. QED
    BY <2>1, PlannedIs DEF TripMergeAssumption
<1>14. QED
  BY <1>6, <1>8, <1>9, <1>11, <1>12, <1>13 DEF HasDates

\* The delays travellers are shown account for the times, those that merge() pushes
\* included: for any trip and any feeds whose served events are less than a day apart,
\* one after the other, and that add each event of a stop the schedule does not have.
THEOREM DelaysAreExplained ==
    ASSUME FeedsAreDated PROVE Spec => []DelaysExplainTimes
<1>1. Init => DelaysExplainTimes
  BY EmptySeq DEF Init, DelaysExplainTimes
<1>2. Inv /\ DelaysExplainTimes /\ [Next]_vars => DelaysExplainTimes'
  <2> SUFFICES ASSUME Inv, DelaysExplainTimes, [Next]_vars PROVE DelaysExplainTimes'
    OBVIOUS
  <2>1. CASE UNCHANGED vars
    BY <2>1 DEF vars, DelaysExplainTimes
  <2>2. ASSUME NEW feed \in Feeds, NEW update \in Range(TripUpdates[feed]), Handle(feed, update)
        PROVE  DelaysExplainTimes'
    <3>1. PICK stops : stops = Handled(stored, update).stored.stops
      OBVIOUS
    <3>2. told' = IF Handled(stored, update).verdict = "sent" THEN stops ELSE told
      BY <2>2, <3>1 DEF Handle
    <3>3. /\ stored \in OrNone(StoredTrips) /\ IsWellMade(update)
          /\ LessThanADayApart(update) /\ AddsEachEvent(update)
          /\ ~update.complete => EachStopOnce
      BY BuiltIsWellMade, TripMergeAssumption, TripFeedsAssumption DEF Inv, TypeOK, FeedsAreDated
    <3>4. CASE Handled(stored, update).verdict # "sent"
      BY <3>2, <3>4 DEF DelaysExplainTimes
    <3>5. CASE Handled(stored, update).verdict = "sent" /\ update.cancel
      <4>1. Handled(stored, update) = [stored |-> [cancel |-> TRUE, stops |-> <<>>],
                                       verdict |-> "sent"]
        BY <3>5 DEF Handled
      <4>2. stops = <<>>
        BY <3>1, <4>1
      <4>3. QED
        BY <3>2, <3>5, <4>2, EmptySeq DEF DelaysExplainTimes
    <3>6. CASE Handled(stored, update).verdict = "sent" /\ ~update.cancel
      <4>1. \A k \in DOMAIN stops : \A e \in Events :
               stops[k].status[e] \in {"none", "update"} =>
                  stops[k].time[e] - stops[k].delay[e] = PlannedDate(stops[k].id, e)
        BY <3>1, <3>3, <3>6, SentExplains, TripMergeAssumption
      <4>2. QED
        BY <3>2, <3>6, <4>1 DEF DelaysExplainTimes
    <3>7. QED
      BY <3>4, <3>5, <3>6
  <2>3. ASSUME NEW feed \in Feeds, RefuseFeed(feed) PROVE DelaysExplainTimes'
    BY <2>3 DEF RefuseFeed, DelaysExplainTimes
  <2>4. QED
    BY <2>1, <2>2, <2>3 DEF Next, HandleFeed
<1>3. QED
  BY <1>1, <1>2, FeedsInvariant, PTL DEF Spec

-----------------------------------------------------------------------------
(***************************************************************************)
(* What a feed says of an event                                            *)
(***************************************************************************)

\* When a feed has an event, by what it says of the trip.
Announced(new, m) ==
    LET stop == new.stops[m[1]] IN
    IF IsAdded(stop, m[2]) THEN stop.time[m[2]]
    ELSE Plus(PlannedDate(stop.id, m[2]), OrElse(stop.delay[m[2]], 0))

\* What is asked of a feed
IsSound(new) ==
    /\ IsWellMade(new) /\ AddsOrDeletes(new) /\ AddsEachEvent(new) /\ AgreesWithPlan(new)
    /\ LessThanADayApart(new)
    /\ ~new.complete => EachStopOnce

\* Of a served event: what the feed says of it.
LEMMA AnnouncedIs ==
    ASSUME TripMergeAssumption, NEW new, IsSound(new), NEW i \in DOMAIN new.stops,
           NEW e \in Events, ~IsDeleted(new.stops[i], e),
           NEW date, date \in Int,
           PlannedDate(new.stops[i].id, e) # None => date = PlannedDate(new.stops[i].id, e)
    PROVE  /\ Announced(new, <<i, e>>) \in Int
           /\ EventTime(date, new.stops[i], e) = Announced(new, <<i, e>>)
           /\ new.stops[i].time[e] # None => new.stops[i].time[e] = Announced(new, <<i, e>>)
<1>1. PICK stu : stu = new.stops[i]
  OBVIOUS
<1>2. new.stops \in Seq(Stus) /\ DOMAIN new.stops = 1 .. Len(new.stops)
  BY LenProperties DEF IsSound, IsWellMade, Stus, Times
<1>3. stu \in Stus
  BY <1>1, <1>2, ElementOfSeq
<1>4. /\ stu.status[e] \in Statuses
      /\ stu.time[e] \in Times /\ stu.delay[e] \in Times
  BY <1>3 DEF Stus, StopTimeUpdates
<1>5. None \notin Int
  BY DEF TripMergeAssumption
<1>6. PICK delay : delay = OrElse(stu.delay[e], 0) /\ delay \in Int
  BY <1>4 DEF OrElse, Times, OrNone
<1>7. /\ IsAdded(stu, e) => stu.time[e] # None /\ delay = 0
      /\ stu.status[e] = "none" => delay = 0
      /\ stu.status[e] \in {"none", "update"} /\ stu.time[e] # None =>
            stu.time[e] = Plus(PlannedDate(stu.id, e), delay)
  BY <1>1, <1>6 DEF IsSound, AgreesWithPlan
<1>8. stu.status[e] = "update" => stu.delay[e] # None
  BY <1>1 DEF IsSound, IsWellMade
<1>9. Announced(new, <<i, e>>) = IF IsAdded(stu, e) THEN stu.time[e]
                                ELSE Plus(PlannedDate(stu.id, e), delay)
  BY <1>1, <1>6 DEF Announced
<1>10. CASE IsAdded(stu, e)
  <2>1. stu.time[e] \in Int /\ delay = 0
    BY <1>4, <1>7, <1>10 DEF Times, OrNone
  <2>2. EventTime(date, stu, e) = Plus(stu.time[e], stu.delay[e])
    BY <1>10 DEF EventTime, IsAdded, IsDeleted
  <2>3. Plus(stu.time[e], stu.delay[e]) = stu.time[e]
    BY <1>4, <1>5, <1>6, <2>1 DEF Plus, OrElse
  <2>4. QED
    BY <1>1, <1>9, <1>10, <2>1, <2>2, <2>3
<1>11. CASE ~IsAdded(stu, e)
  <2>1. stu.status[e] \in {"none", "update"}
    BY <1>1, <1>4, <1>11 DEF Statuses, IsAdded, IsDeleted
  <2>2. ~IsForeign(stu.id)
    BY <1>1, <1>11 DEF IsSound, AddsEachEvent, IsForeign
  <2>3. PICK planned \in Int : planned = PlannedDate(stu.id, e)
    BY <2>2, PlannedIs
  <2>4. date = planned /\ Plus(planned, delay) = planned + delay
    BY <1>1, <1>5, <1>6, <2>3 DEF Plus
  <2>5. EventTime(date, stu, e) = planned + delay
    <3>1. CASE stu.status[e] = "update"
      <4>1. stu.delay[e] = delay /\ stu.delay[e] # None
        BY <1>6, <1>8, <3>1 DEF OrElse
      <4>2. QED
        BY <1>5, <2>4, <3>1, <4>1 DEF EventTime, IsAdded, IsDeleted, Plus
    <3>2. CASE stu.status[e] = "none"
      BY <1>7, <2>4, <3>2 DEF EventTime, IsAdded, IsDeleted
    <3>3. QED
      BY <2>1, <3>1, <3>2
  <2>6. Announced(new, <<i, e>>) = planned + delay /\ planned + delay \in Int
    BY <1>6, <1>9, <1>11, <2>3, <2>4
  <2>7. stu.time[e] # None => stu.time[e] = planned + delay
    BY <1>7, <2>1, <2>3, <2>4
  <2>8. QED
    BY <1>1, <2>5, <2>6, <2>7
<1>12. QED
  BY <1>10, <1>11

-----------------------------------------------------------------------------
(***************************************************************************)
(* The stops that are passed over                                          *)
(***************************************************************************)

\* merge() passes over no stop but one that the feed deletes, and that neither the
\* schedule nor the database has.
LEMMA PassedIsGone ==
    ASSUME TripMergeAssumption, NEW db \in OrNone(StoredTrips), NEW new, IsWellMade(new),
           AddsOrDeletes(new), RenamesNone(db, new),
           NEW i \in DOMAIN NextStops(db, new), NextStops(db, new)[i] = None
    PROVE  /\ IsForeign(new.stops[i].id)
           /\ \A e \in Events : IsDeleted(new.stops[i], e)
           /\ db # None => \A stop \in Members(db.stops) : stop.id # new.stops[i].id
<1>1. PICK stu, dbStu : stu = new.stops[i] /\ dbStu = FindInDb(db, stu.id, i - 1)
  OBVIOUS
<1>2. new.stops \in Seq(Stus) /\ DOMAIN new.stops = 1 .. Len(new.stops)
  BY LenProperties DEF IsWellMade, Stus, Times
<1>3. i \in DOMAIN new.stops /\ i - 1 \in Nat
  BY <1>2, NextPlacesAre
<1>4. stu \in Stus
  BY <1>1, <1>2, <1>3, ElementOfSeq
<1>5. dbStu # None => /\ dbStu \in Stus /\ db # None /\ dbStu.id = stu.id
                      /\ dbStu \in Members(db.stops)
  BY <1>1, FindInDbIs
<1>6. new.complete
  <2>1. SUFFICES ASSUME ~new.complete PROVE FALSE
    OBVIOUS
  <2>2. i \in DOMAIN Base /\ NextStops(db, new)[i] = [order |-> i - 1, id |-> Base[i].id,
                                                     time |-> Base[i].time]
    BY <2>1 DEF NextStops, BaseStops
  <2>3. PICK b : b = Base[i] /\ b \in [id : STRING, time : [Events -> Int]]
    <3>1. DOMAIN Base = 1 .. Len(Base)
      BY BaseIs, LenProperties
    <3>2. QED
      BY <2>2, <3>1, BaseIs, ElementOfSeq
  <2>4. [order |-> i - 1, id |-> b.id, time |-> b.time] \in StopTimes
    BY <1>3, <2>3 DEF StopTimes, OrNone
  <2>5. QED
    BY <2>2, <2>3, <2>4 DEF TripMergeAssumption
<1>7. /\ {k \in DOMAIN Base : Base[k].id = stu.id} = {}
      /\ ~\E e \in Events : IsNewEventValid(e, dbStu, stu)
  <2> DEFINE InBase == {k \in DOMAIN Base : Base[k].id = stu.id}
             isKept == InBase # {} \/ \E e \in Events : IsNewEventValid(e, dbStu, stu)
             stop == [order |-> i - 1, id |-> stu.id,
                      time |-> IF InBase # {} THEN Base[Min(InBase)].time
                                              ELSE FakeTime(dbStu, stu)]
  <2>1. NextStops(db, new)[i] = IF isKept THEN stop ELSE None
    BY <1>1, <1>3, <1>6 DEF NextStops, FeedStops
  <2>2. stop # None
    BY <1>3, <1>4, <1>5, IsStopTime
  <2>3. QED
    BY <2>1, <2>2
<1>8. IsForeign(stu.id)
  BY <1>7 DEF IsForeign
<1>9. AddedOrGone(stu)
  BY <1>1, <1>3, <1>8 DEF AddsOrDeletes, AddedOrGone, IsForeign
<1>10. dbStu = None
  <2>1. SUFFICES ASSUME dbStu # None PROVE FALSE
    OBVIOUS
  <2>2. QED
    BY <1>1, <1>3, <1>7, <1>8, <2>1, ForeignIsValid
<1>11. \A e \in Events : IsDeleted(stu, e)
  <2>1. \A e \in Events : ~IsAdded(stu, e)
    BY <1>7, <1>10 DEF IsNewEventValid, IsServed
  <2>2. QED
    BY <1>9, <2>1 DEF AddedOrGone
<1>12. ASSUME db # None, NEW stop \in Members(db.stops), stop.id = stu.id PROVE FALSE
  <2>1. PICK stops : stops = db.stops
    OBVIOUS
  <2>2. stops \in Seq(Stus)
    BY <1>12, <2>1 DEF OrNone, StoredTrips, Stus, Times
  <2>3. DOMAIN stops \subseteq Nat /\ \A j \in DOMAIN stops : stops[j] \in Stus
    BY <2>2, ElementOfSeq, LenProperties
  <2>4. PICK k \in DOMAIN stops : stops[k].id = stu.id
    BY <1>12, <2>1 DEF Members
  <2>5. \E j \in DOMAIN stops : FindStop(stops, stu.id, i - 1) = stops[j]
    <3>1. PICK id, order : id = stu.id /\ order = i - 1
      OBVIOUS
    <3>2. \E j \in DOMAIN stops : FindStop(stops, id, order) = stops[j]
      BY ONLY <2>3, <2>4, <3>1, FindStopFinds
    <3>3. QED
      BY <3>1, <3>2
  <2>6. FindStop(stops, stu.id, i - 1) = dbStu
    BY <1>1, <1>12, <2>1 DEF FindInDb
  <2>7. dbStu \in Stus
    BY <2>3, <2>5, <2>6
  <2>8. QED
    BY <1>10, <2>7, NoneIs DEF NoneIsApart
<1>13. QED
  BY <1>1, <1>8, <1>11, <1>12

-----------------------------------------------------------------------------
(***************************************************************************)
(* The time of an event is the latest that the feed has until then         *)
(***************************************************************************)

IsLatest(x, times) ==
    \/ times = {} /\ x = None
    \/ x \in times /\ \A t \in times : t <= x

\* A stop is pushed to the latest of the times before it and its own.
LEMMA MadeIsLatest ==
    ASSUME NoneIsApart, NEW new, NEW base, NEW lastDep, NEW stop,
           NEW made, made = MakeStopTimeUpdate(base, lastDep, new, stop),
           NEW times \in SUBSET Int, IsLatest(lastDep, times),
           NEW a \in Times, a = EventTime(base["arrival"], new, "arrival"),
           NEW d \in Times, d = EventTime(base["departure"], new, "departure")
    PROVE  /\ a # None => IsLatest(made.time["arrival"], times \cup {a})
           /\ IsLatest(made.time["departure"], times \cup ({a, d} \ {None}))
<1> DEFINE arr0 == OrElse(a, OrElse(d, lastDep))
           dep0 == OrElse(d, arr0)
           late == IF lastDep # None /\ lastDep > arr0 THEN lastDep - arr0 ELSE 0
           arr  == Plus(arr0, late)
           wait == IF arr # None /\ arr > dep0 THEN arr - dep0 ELSE 0
           dep  == Plus(dep0, wait)
<1>1. made = [id     |-> stop.id,
              order  |-> stop.order,
              status |-> new.status,
              time   |-> [f \in Events |-> IF f = "arrival" THEN arr ELSE dep],
              delay  |-> [f \in Events |-> EventDelay(new, f) +
                                           (IF f = "arrival" THEN late ELSE wait)]]
  BY DEF MakeStopTimeUpdate, PushedUpdate
<1>2. made.time["arrival"] = arr /\ made.time["departure"] = dep
  <2> HIDE DEF arr, dep, late, wait
  <2>1. made.time = [f \in Events |-> IF f = "arrival" THEN arr ELSE dep]
    BY <1>1
  <2>2. QED
    BY <2>1 DEF Events
<1>3. None \notin Int /\ a \in Int \cup {None} /\ d \in Int \cup {None}
  BY DEF NoneIsApart, Times, OrNone
<1>4. \/ times = {} /\ lastDep = None
      \/ lastDep \in Int /\ lastDep \in times /\ \A t \in times : t \in Int /\ t <= lastDep
  BY DEF IsLatest
<1> HIDE DEF arr0, dep0, late, arr, wait, dep
<1>5. arr0 = IF a # None THEN a ELSE IF d # None THEN d ELSE lastDep
  BY DEF arr0, OrElse
<1>6. dep0 = IF d # None THEN d ELSE arr0
  BY DEF dep0, OrElse
<1>7. arr0 \in Int \/ (arr0 = None /\ a = None /\ d = None /\ times = {} /\ lastDep = None)
  BY <1>3, <1>4, <1>5
<1>8. CASE arr0 = None
  <2>1. /\ a = None /\ d = None /\ times = {} /\ lastDep = None /\ dep0 = None
    BY <1>3, <1>6, <1>7, <1>8
  <2>2. late = 0 /\ arr = None
    BY <1>8, <2>1 DEF late, arr, Plus
  <2>3. wait = 0 /\ dep = None
    BY <2>1, <2>2 DEF wait, dep, Plus
  <2>4. times \cup ({a, d} \ {None}) = {}
    BY <2>1
  <2>5. QED
    BY <1>2, <2>1, <2>3, <2>4 DEF IsLatest
<1>9. CASE arr0 \in Int
  <2>1. dep0 \in Int
    BY <1>3, <1>6, <1>9
  <2>2. arr = IF lastDep # None /\ lastDep > arr0 THEN lastDep ELSE arr0
    <3>1. late \in Int /\ arr = arr0 + late
      BY <1>3, <1>4, <1>9 DEF late, arr, Plus
    <3>2. QED
      BY <1>3, <1>4, <1>9, <3>1 DEF late
  <2>3. arr \in Int
    BY <1>3, <1>4, <1>9, <2>2
  <2>4. dep = IF arr > dep0 THEN arr ELSE dep0
    <3>1. wait \in Int /\ dep = dep0 + wait
      BY <1>3, <2>1, <2>3 DEF wait, dep, Plus
    <3>2. QED
      BY <1>3, <2>1, <2>3, <3>1 DEF wait
  <2>5. a # None => IsLatest(arr, times \cup {a})
    BY <1>3, <1>4, <1>5, <2>2, <2>3 DEF IsLatest
  <2>6. dep \in times \cup ({a, d} \ {None})
    BY <1>3, <1>4, <1>5, <1>6, <1>9, <2>1, <2>2, <2>3, <2>4
  <2>7. ASSUME NEW t \in times \cup ({a, d} \ {None}) PROVE t <= dep
    BY <1>3, <1>4, <1>5, <1>6, <1>9, <2>1, <2>2, <2>3, <2>4
  <2>8. QED
    BY <1>2, <2>5, <2>6, <2>7 DEF IsLatest
<1>10. QED
  BY <1>7, <1>8, <1>9

\* The times that a feed has until an event
MetTimes(new, k, e) == {Announced(new, m) : m \in MetBefore(new.stops, k, e)}

\* The time of an event, if it is served
OwnTime(new, i, e) == IF IsDeleted(new.stops[i], e) THEN {} ELSE {Announced(new, <<i, e>>)}

LEMMA MetTimesAre ==
    ASSUME NEW new, NEW i \in Nat \ {0}
    PROVE  /\ MetTimes(new, 0, "departure") = {}
           /\ MetTimes(new, i, "arrival") =
                 MetTimes(new, i - 1, "departure") \cup OwnTime(new, i, "arrival")
           /\ MetTimes(new, i, "departure") =
                 MetTimes(new, i - 1, "departure")
                    \cup OwnTime(new, i, "arrival") \cup OwnTime(new, i, "departure")
<1>1. MetBefore(new.stops, 0, "departure") = {}
  BY DEF MetBefore
<1>2. ASSUME NEW m
      PROVE  /\ m \in MetBefore(new.stops, i - 1, "departure")
                   <=> \E k \in 1 .. i - 1 : \E f \in Events :
                          m = <<k, f>> /\ ~IsDeleted(new.stops[k], f)
             /\ m \in MetBefore(new.stops, i, "departure")
                   <=> \E k \in 1 .. i : \E f \in Events :
                          m = <<k, f>> /\ ~IsDeleted(new.stops[k], f)
             /\ m \in MetBefore(new.stops, i, "arrival")
                   <=> \E k \in 1 .. i : \E f \in Events :
                          /\ m = <<k, f>> /\ ~IsDeleted(new.stops[k], f)
                          /\ k = i => f = "arrival"
  <2>1. "departure" # "arrival"
    OBVIOUS
  <2>2. QED
    BY <2>1 DEF MetBefore
<1>3. \A k : k \in 1 .. i <=> k \in 1 .. i - 1 \/ k = i
  OBVIOUS
<1>4. \A k \in 1 .. i - 1 : k # i
  OBVIOUS
<1> DEFINE Own(f) == {m \in {<<i, f>>} : ~IsDeleted(new.stops[i], f)}
<1>5. /\ MetBefore(new.stops, i, "arrival") = MetBefore(new.stops, i - 1, "departure")
                                                 \cup Own("arrival")
      /\ MetBefore(new.stops, i, "departure") = MetBefore(new.stops, i - 1, "departure")
                                                   \cup Own("arrival") \cup Own("departure")
  <2>1. ASSUME NEW m
        PROVE  /\ m \in MetBefore(new.stops, i, "arrival")
                     <=> m \in MetBefore(new.stops, i - 1, "departure") \/ m \in Own("arrival")
               /\ m \in MetBefore(new.stops, i, "departure")
                     <=> \/ m \in MetBefore(new.stops, i - 1, "departure")
                         \/ m \in Own("arrival") \/ m \in Own("departure")
    BY <1>2, <1>3, <1>4 DEF Events
  <2> HIDE DEF Own
  <2>2. QED
    BY <2>1
<1>6. \A f : OwnTime(new, i, f) = {Announced(new, m) : m \in Own(f)}
  BY DEF OwnTime
<1> HIDE DEF Own
<1>7. QED
  BY <1>1, <1>5, <1>6 DEF MetTimes

\* What merge() makes of a stop has the latest of the feed's times.
LEMMA MadeIsMet ==
    ASSUME TripMergeAssumption, NEW db \in OrNone(StoredTrips), NEW new, IsSound(new),
           ~Raises(NextStops(db, new)), \E m \in ServedEvents(new) : m[1] = 1,
           \A k \in 1 .. Len(NextStops(db, new)) :
              NextStops(db, new)[k] # None \/ \A e \in Events : IsDeleted(new.stops[k], e),
           NEW i \in DOMAIN NextStops(db, new), NextStops(db, new)[i] # None,
           MetTimes(new, i - 1, "departure") \subseteq Int,
           IsLatest(Turns(db, new)[i - 1].lastDep, MetTimes(new, i - 1, "departure"))
    PROVE  /\ MetTimes(new, i, "departure") \subseteq Int
           /\ IsLatest(MadeAt(db, new, i).time["departure"], MetTimes(new, i, "departure"))
           /\ ~IsDeleted(new.stops[i], "arrival") =>
                 IsLatest(MadeAt(db, new, i).time["arrival"], MetTimes(new, i, "arrival"))
<1>1. PICK lastDep, stop, stu, made, times :
         /\ lastDep = Turns(db, new)[i - 1].lastDep /\ stop = NextStops(db, new)[i]
         /\ stu = new.stops[i] /\ made = MadeAt(db, new, i)
         /\ times = MetTimes(new, i - 1, "departure")
  OBVIOUS
<1>2. PICK end \in Nat : end = Len(NextStops(db, new)) /\ DOMAIN NextStops(db, new) = 1 .. end
  BY NextStopsAre DEF IsSound
<1>3. i \in 1 .. end /\ i \in DOMAIN new.stops /\ i \in Nat \ {0}
  BY <1>2, NextPlacesAre DEF IsSound
<1>4. PICK base \in [Events -> Times] :
         made = MakeStopTimeUpdate(base, lastDep, stu, stop) /\ HasDates(base, stu)
  <2>1. end \in 0 .. Len(NextStops(db, new)) /\ i \in 1 .. end
    BY <1>2, <1>3
  <2>2. PassesNoneServed(db, new, end)
    BY <1>2 DEF PassesNoneServed
  <2>3. IsMadeOfDates(db, new, i)
    BY <2>1, <2>2, MadeOfDates DEF IsSound
  <2>4. QED
    BY <1>1, <2>3 DEF IsMadeOfDates
<1>5. ASSUME NEW f \in Events
      PROVE  /\ IsDeleted(stu, f) => EventTime(base[f], stu, f) = None
             /\ ~IsDeleted(stu, f) => /\ Announced(new, <<i, f>>) \in Int
                                      /\ EventTime(base[f], stu, f) = Announced(new, <<i, f>>)
  <2>1. CASE IsDeleted(stu, f)
    BY <2>1 DEF IsDeleted, IsAdded, EventTime
  <2>2. CASE ~IsDeleted(stu, f)
    <3>1. PICK date \in Int :
             /\ date = base[f]
             /\ PlannedDate(stu.id, f) # None => date = PlannedDate(stu.id, f)
      BY <1>4, <2>2 DEF HasDates
    <3>2. QED
      BY <1>1, <1>3, <2>2, <3>1, AnnouncedIs
  <2>3. QED
    BY <2>1, <2>2
<1>6. PICK a, d : a = EventTime(base["arrival"], stu, "arrival")
                  /\ d = EventTime(base["departure"], stu, "departure")
  OBVIOUS
<1>7. /\ a \in Times /\ d \in Times /\ None \notin Int
      /\ {a} \ {None} = OwnTime(new, i, "arrival") /\ {a} \ {None} \subseteq Int
      /\ {d} \ {None} = OwnTime(new, i, "departure") /\ {d} \ {None} \subseteq Int
      /\ a # None <=> ~IsDeleted(stu, "arrival")
  <2>1. ASSUME NEW f \in Events, NEW x, x = EventTime(base[f], stu, f)
        PROVE  /\ x \in Times /\ {x} \ {None} = OwnTime(new, i, f) /\ {x} \ {None} \subseteq Int
               /\ x # None <=> ~IsDeleted(stu, f)
    <3>1. None \notin Int
      BY DEF TripMergeAssumption
    <3>2. CASE IsDeleted(stu, f)
      BY <1>1, <1>5, <2>1, <3>2 DEF OwnTime, Times, OrNone
    <3>3. CASE ~IsDeleted(stu, f)
      <4>1. x \in Int /\ x # None /\ OwnTime(new, i, f) = {x}
        BY <1>1, <1>5, <2>1, <3>1, <3>3 DEF OwnTime
      <4>2. QED
        BY <3>3, <4>1 DEF Times, OrNone
    <3>4. QED
      BY <3>2, <3>3
  <2>2. "arrival" \in Events /\ "departure" \in Events /\ None \notin Int
    BY DEF Events, TripMergeAssumption
  <2>3. QED
    BY <1>6, <2>1, <2>2
<1>8. /\ MetTimes(new, i, "arrival") = times \cup ({a} \ {None})
      /\ MetTimes(new, i, "departure") = times \cup ({a, d} \ {None})
  <2>1. /\ MetTimes(new, i, "arrival") = times \cup OwnTime(new, i, "arrival")
        /\ MetTimes(new, i, "departure") = times \cup OwnTime(new, i, "arrival")
                                                \cup OwnTime(new, i, "departure")
    BY <1>1, <1>3, MetTimesAre
  <2>2. QED
    BY <1>7, <2>1
<1>9. /\ a # None => IsLatest(made.time["arrival"], times \cup {a})
      /\ IsLatest(made.time["departure"], times \cup ({a, d} \ {None}))
  <2>1. times \in SUBSET Int /\ IsLatest(lastDep, times)
    BY <1>1
  <2>2. NoneIsApart
    BY NoneIs
  <2>3. QED
    BY ONLY <1>4, <1>6, <1>7, <2>1, <2>2, MadeIsLatest
<1>10. MetTimes(new, i, "departure") \subseteq Int
  BY <1>1, <1>7, <1>8
<1>11. a # None => {a} \ {None} = {a}
  OBVIOUS
<1>12. QED
  BY <1>1, <1>7, <1>8, <1>9, <1>10, <1>11

\* Through the loop, the stops passed over included
LEMMA LastDepIsLatest ==
    ASSUME TripMergeAssumption, NEW db \in OrNone(StoredTrips), NEW new, IsSound(new),
           ~Raises(NextStops(db, new)), \E m \in ServedEvents(new) : m[1] = 1,
           \A k \in 1 .. Len(NextStops(db, new)) :
              NextStops(db, new)[k] # None \/ \A e \in Events : IsDeleted(new.stops[k], e),
           NEW n \in 0 .. Len(NextStops(db, new))
    PROVE  /\ MetTimes(new, n, "departure") \subseteq Int
           /\ IsLatest(Turns(db, new)[n].lastDep, MetTimes(new, n, "departure"))
<1>1. PICK N \in Nat : N = Len(NextStops(db, new)) /\ DOMAIN NextStops(db, new) = 1 .. N
  BY NextStopsAre DEF IsSound
<1>2. PICK turns, next : turns = Turns(db, new) /\ next = NextStops(db, new)
  OBVIOUS
<1>3. /\ turns[0] = BeforeMerge
      /\ \A k \in 1 .. N : turns[k] = MergeNext(turns[k - 1], db, new, next[k])
  BY <1>1, <1>2, TurnsAre DEF IsSound
<1> DEFINE T == {k \in 0 .. N : /\ MetTimes(new, k, "departure") \subseteq Int
                                /\ IsLatest(turns[k].lastDep, MetTimes(new, k, "departure"))}
<1>4. 0 \in T
  <2>1. turns[0].lastDep = None
    BY <1>3 DEF BeforeMerge
  <2>2. MetTimes(new, 0, "departure") = {}
    BY 1 \in Nat \ {0}, MetTimesAre
  <2>3. QED
    BY <1>1, <2>1, <2>2 DEF IsLatest
<1>5. ASSUME NEW k \in T, k < N PROVE k + 1 \in T
  <2>1. PICK i : i = k + 1 /\ i \in 1 .. N /\ i - 1 = k /\ i \in DOMAIN next /\ i \in 0 .. N
                 /\ i \in Nat \ {0}
    BY <1>1, <1>2, <1>5
  <2>2. /\ MetTimes(new, i - 1, "departure") \subseteq Int
        /\ IsLatest(turns[i - 1].lastDep, MetTimes(new, i - 1, "departure"))
    BY <1>5, <2>1
  <2>3. turns[i] = MergeNext(turns[i - 1], db, new, next[i])
    BY <1>3, <2>1
  <2>4. CASE next[i] = None
    <3>1. turns[i] = turns[i - 1]
      BY <2>3, <2>4 DEF MergeNext
    <3>2. \A e \in Events : IsDeleted(new.stops[i], e)
      BY <1>1, <1>2, <2>1, <2>4
    <3>3. OwnTime(new, i, "arrival") = {} /\ OwnTime(new, i, "departure") = {}
      BY <3>2 DEF OwnTime, Events
    <3>4. MetTimes(new, i, "departure") = MetTimes(new, i - 1, "departure")
      <4>1. MetTimes(new, i, "departure") =
               MetTimes(new, i - 1, "departure")
                  \cup OwnTime(new, i, "arrival") \cup OwnTime(new, i, "departure")
        BY <2>1, MetTimesAre
      <4>2. QED
        BY <3>3, <4>1
    <3>5. QED
      BY <2>1, <2>2, <3>1, <3>4
  <2>5. CASE next[i] # None
    <3>1. /\ MetTimes(new, i, "departure") \subseteq Int
          /\ IsLatest(MadeAt(db, new, i).time["departure"], MetTimes(new, i, "departure"))
      BY <1>2, <2>1, <2>2, <2>5, MadeIsMet
    <3>2. turns[i].lastDep = MadeAt(db, new, i).time["departure"]
      <4>1. PICK acc, stop, newStu, fresh :
               /\ acc = turns[i - 1] /\ stop = next[i] /\ newStu = new.stops[i]
               /\ fresh = Fresh(acc.clock, acc.lastDep, stop, newStu)
        OBVIOUS
      <4>2. MergeNext(acc, db, new, stop).lastDep = fresh.time["departure"]
        BY <1>2, <2>1, <2>5, <4>1, MergeNextIs DEF IsSound
      <4>3. QED
        BY <1>2, <2>3, <4>1, <4>2 DEF MadeAt
    <3>3. QED
      BY <2>1, <3>1, <3>2
  <2>6. QED
    BY <2>4, <2>5
<1>6. T = 0 .. N
  <2>1. T \in SUBSET (0 .. N)
    OBVIOUS
  <2> HIDE DEF T
  <2>2. QED
    BY <1>1, <1>4, <1>5, <2>1, InductionUpTo
<1>7. QED
  BY <1>1, <1>2, <1>6

-----------------------------------------------------------------------------
(***************************************************************************)
(* The stops of a feed in database                                         *)
(***************************************************************************)

\* A stop that is passed over is not in database afterwards.
LEMMA PassedIsLeftOut ==
    ASSUME TripMergeAssumption, NEW db \in OrNone(StoredTrips), NEW new, IsWellMade(new),
           AddsOrDeletes(new), RenamesNone(db, new),
           ~new.cancel, NEW stops, IsHandled(db, new, stops),
           NEW k \in DOMAIN NextStops(db, new), NextStops(db, new)[k] = None,
           NEW stop \in Members(stops)
    PROVE  stop.id # new.stops[k].id
<1>1. /\ IsForeign(new.stops[k].id)
      /\ db # None => \A s \in Members(db.stops) : s.id # new.stops[k].id
  BY PassedIsGone
<1>2. CASE db # None /\ stops = db.stops
  BY <1>1, <1>2
<1>3. CASE Members(stops) = {MadeAt(db, new, j) : j \in Kept(db, new, Len(NextStops(db, new)))}
  <2>1. PICK j \in Kept(db, new, Len(NextStops(db, new))) : stop = MadeAt(db, new, j)
    BY <1>3
  <2>2. j \in DOMAIN NextStops(db, new) /\ NextStops(db, new)[j] # None
    BY NextStopsAre DEF Kept
  <2>3. stop.id = new.stops[j].id
    BY <2>1, <2>2, FreshIs, NextStopIsAt DEF MadeAt
  <2>4. j \in DOMAIN new.stops /\ k \in DOMAIN new.stops /\ j # k
    BY <2>2, NextPlacesAre
  <2>5. QED
    BY <1>1, <2>3, <2>4 DEF AddsOrDeletes, IsForeign
<1>4. QED
  BY <1>2, <1>3, HandledHasMade

\* The first stop of the feed is served.
LEMMA FirstIsMet ==
    ASSUME TripMergeAssumption, NEW db \in OrNone(StoredTrips), NEW new, IsSound(new),
           RenamesNone(db, new), ~new.cancel, NEW stops, IsHandled(db, new, stops),
           NEW k \in DOMAIN new.stops
    PROVE  \E m \in ServedEvents(new) : m[1] = 1
<1>1. IsWellMade(new) /\ AddsOrDeletes(new) /\ AgreesWithPlan(new)
  BY DEF IsSound
<1>2. PICK next : next = NextStops(db, new)
  OBVIOUS
<1>3. 1 \in DOMAIN next /\ 1 \in DOMAIN new.stops
  <2>1. DOMAIN next = DOMAIN new.stops /\ DOMAIN next = 1 .. Len(next) /\ Len(next) \in Nat
    BY <1>1, <1>2, NextPlacesAre, NextStopsAre
  <2>2. QED
    BY <2>1
<1>4. next[1] # None
  <2>1. SUFFICES ASSUME next[1] = None PROVE FALSE
    OBVIOUS
  <2>2. IsForeign(new.stops[1].id) /\ \A e \in Events : IsDeleted(new.stops[1], e)
    BY <1>1, <1>2, <1>3, <2>1, PassedIsGone
  <2>3. \/ \E j \in DOMAIN Base : Base[j].id = new.stops[1].id
        \/ \E e \in Events : ~IsDeleted(new.stops[1], e)
    BY <1>1, <1>3 DEF AgreesWithPlan
  <2>4. QED
    BY <2>2, <2>3 DEF IsForeign
<1>5. MadeAt(db, new, 1).time["arrival"] # None /\ ~Raises(NextStops(db, new))
  BY <1>1, <1>2, <1>3, <1>4, MadeIsStored, HandledHasMade
<1>6. QED
  BY <1>1, <1>3, <1>5, FirstIsServed

\* What the database has of the stops of a feed after it
IsHonoured(stops, new, k) ==
    \/ /\ k \in DOMAIN stops
       /\ stops[k].id = new.stops[k].id
       /\ stops[k].status = new.stops[k].status
       /\ \A e \in Events :
             ~IsDeleted(new.stops[k], e) =>
                /\ stops[k].time[e] \in MetTimes(new, k, e)
                /\ \A t \in MetTimes(new, k, e) : t <= stops[k].time[e]
    \/ /\ IsForeign(new.stops[k].id)
       /\ \A e \in Events : IsDeleted(new.stops[k], e)
       /\ \A stop \in Members(stops) : stop.id # new.stops[k].id

LEMMA HandledIsHonoured ==
    ASSUME TripMergeAssumption, NEW db \in OrNone(StoredTrips), NEW new, IsSound(new),
           RenamesNone(db, new), ~new.cancel, NEW stops, IsHandled(db, new, stops),
           NEW k \in DOMAIN new.stops
    PROVE  IsHonoured(stops, new, k)
<1>1. IsWellMade(new) /\ AddsOrDeletes(new)
  BY DEF IsSound
<1>2. PICK next, N : /\ next = NextStops(db, new) /\ N = Len(next) /\ N \in Nat
                     /\ DOMAIN next = 1 .. N
  BY <1>1, NextStopsAre
<1>3. k \in DOMAIN next /\ k - 1 \in 0 .. N /\ k \in Nat \ {0}
  BY <1>1, <1>2, NextPlacesAre
<1>4. CASE next[k] = None
  <2>1. /\ IsForeign(new.stops[k].id)
        /\ \A e \in Events : IsDeleted(new.stops[k], e)
    BY <1>1, <1>2, <1>3, <1>4, PassedIsGone
  <2>2. \A stop \in Members(stops) : stop.id # new.stops[k].id
    BY <1>1, <1>2, <1>3, <1>4, PassedIsLeftOut
  <2>3. QED
    BY <2>1, <2>2 DEF IsHonoured
<1>5. CASE next[k] # None
  <2>1. /\ k \in DOMAIN stops /\ stops[k] = MadeAt(db, new, k)
        /\ stops[k].id = new.stops[k].id /\ stops[k].status = new.stops[k].status
    BY <1>1, <1>2, <1>3, <1>5, MadeIsStored
  <2>2. ~Raises(NextStops(db, new))
    BY <1>1, HandledHasMade
  <2>3. \E m \in ServedEvents(new) : m[1] = 1
    BY FirstIsMet
  <2>4. \A j \in 1 .. Len(NextStops(db, new)) :
           NextStops(db, new)[j] # None \/ \A e \in Events : IsDeleted(new.stops[j], e)
    BY <1>1, <1>2, PassedIsGone
  <2>5. /\ MetTimes(new, k - 1, "departure") \subseteq Int
        /\ IsLatest(Turns(db, new)[k - 1].lastDep, MetTimes(new, k - 1, "departure"))
    <3>1. k - 1 \in 0 .. Len(NextStops(db, new))
      BY <1>2, <1>3
    <3>2. QED
      BY <2>2, <2>3, <2>4, <3>1, LastDepIsLatest
  <2>6. /\ IsLatest(stops[k].time["departure"], MetTimes(new, k, "departure"))
        /\ ~IsDeleted(new.stops[k], "arrival") =>
              IsLatest(stops[k].time["arrival"], MetTimes(new, k, "arrival"))
    <3>1. k \in DOMAIN NextStops(db, new) /\ NextStops(db, new)[k] # None
      BY <1>2, <1>3, <1>5
    <3>2. QED
      BY <2>1, <2>2, <2>3, <2>4, <2>5, <3>1, MadeIsMet
  <2>7. ASSUME NEW e \in Events, ~IsDeleted(new.stops[k], e)
        PROVE  /\ stops[k].time[e] \in MetTimes(new, k, e)
               /\ \A t \in MetTimes(new, k, e) : t <= stops[k].time[e]
    <3>1. IsLatest(stops[k].time[e], MetTimes(new, k, e))
      BY <2>6, <2>7 DEF Events
    <3>2. MetTimes(new, k, e) # {}
      <4>1. <<k, e>> \in MetBefore(new.stops, k, e)
        BY <1>3, <2>7 DEF MetBefore
      <4>2. QED
        BY <4>1 DEF MetTimes
    <3>3. QED
      BY <3>1, <3>2 DEF IsLatest
  <2>8. QED
    BY <2>1, <2>7 DEF IsHonoured
<1>6. QED
  BY <1>4, <1>5

-----------------------------------------------------------------------------
(***************************************************************************)
(* A TripUpdate has what the feed says                                     *)
(***************************************************************************)

HasWhatIsSaid(new, says) ==
    /\ DOMAIN says = DOMAIN new.stops
    /\ \A k \in DOMAIN says :
          /\ says[k].id = new.stops[k].id /\ says[k].status = new.stops[k].status
          /\ \A e \in Events :
                ~IsDeleted(new.stops[k], e) => says[k].time[e] = Announced(new, <<k, e>>)

\* A date that a TripUpdate has is the one it announces.
LEMMA TimeIsAnnounced ==
    ASSUME NEW new, IsSound(new), NEW i \in DOMAIN new.stops, NEW e \in Events,
           ~IsDeleted(new.stops[i], e)
    PROVE  /\ IsAdded(new.stops[i], e) => new.stops[i].time[e] # None
           /\ new.stops[i].time[e] # None => new.stops[i].time[e] = Announced(new, <<i, e>>)
<1>1. PICK stu : stu = new.stops[i]
  OBVIOUS
<1>2. stu.status[e] \in Statuses
  <2>1. new.stops \in Seq(Stus) /\ DOMAIN new.stops = 1 .. Len(new.stops)
    BY LenProperties DEF IsSound, IsWellMade, Stus, Times
  <2>2. stu \in Stus
    BY <1>1, <2>1, ElementOfSeq
  <2>3. QED
    BY <2>2 DEF Stus, StopTimeUpdates
<1>3. IsAdded(stu, e) \/ stu.status[e] \in {"none", "update"}
  BY <1>1, <1>2 DEF Statuses, IsAdded, IsDeleted
<1>4. /\ IsAdded(stu, e) => stu.time[e] # None
      /\ stu.status[e] \in {"none", "update"} /\ stu.time[e] # None =>
            stu.time[e] = Plus(PlannedDate(stu.id, e), OrElse(stu.delay[e], 0))
  BY <1>1 DEF IsSound, AgreesWithPlan
<1>5. Announced(new, <<i, e>>) =
         IF IsAdded(stu, e) THEN stu.time[e]
         ELSE Plus(PlannedDate(stu.id, e), OrElse(stu.delay[e], 0))
  BY <1>1 DEF Announced
<1>6. QED
  BY <1>1, <1>3, <1>4, <1>5

LEMMA CotsHasWhatIsSaid ==
    ASSUME NEW feed, feed.update.stops \in Seq(Stus)
    PROVE  HasWhatIsSaid(feed.update, CotsSays(feed))
<1>1. PICK new : new = feed.update
  OBVIOUS
<1> DEFINE Time(stop, e) == IF IsAdded(stop, e) THEN stop.time[e]
                            ELSE Plus(PlannedDate(stop.id, e), OrElse(stop.delay[e], 0))
<1>2. CotsSays(feed) = [i \in DOMAIN new.stops |->
                          Said(new.stops[i].id, new.stops[i].status,
                               [e \in Events |-> Time(new.stops[i], e)])]
  BY <1>1 DEF CotsSays
<1>3. \A i : \A e : Announced(new, <<i, e>>) = Time(new.stops[i], e)
  BY DEF Announced
<1> HIDE DEF Time
<1>4. QED
  BY <1>1, <1>2, <1>3 DEF HasWhatIsSaid, Said

LEMMA GtfsHasWhatIsSaid ==
    ASSUME TripMergeAssumption, TripFeedsAssumption, EachStopOnce,
           NEW feed \in GtfsFeeds,
           NEW new, new = [complete |-> FALSE, cancel |-> FALSE,
                           stops |-> [i \in DOMAIN Base |->
                                        Gtfs!MakeStopTimeUpdate(feed, Base, i)]]
    PROVE  HasWhatIsSaid(new, GtfsSays(feed))
<1> DEFINE before == Len(Trip) - Len(feed.stops)
           Delay(i, e) == IF i <= before THEN 0 ELSE feed.stops[i - before].delay[e]
<1>1. /\ DOMAIN Base = DOMAIN Trip /\ DOMAIN Trip = 1 .. Len(Trip) /\ Len(Trip) \in Nat
      /\ Len(Base) = Len(Trip)
      /\ DOMAIN feed.stops = 1 .. Len(feed.stops) /\ Len(feed.stops) \in Nat
      /\ \A i \in DOMAIN feed.stops : feed.stops[i] \in Gtfs!Stops
      /\ \A i \in DOMAIN Trip : /\ Base[i].id = Trip[i].id
                                /\ Trip[i] \in [id : STRING, date : [Events -> Int]]
  <2>1. Trip \in Seq([id : STRING, date : [Events -> Int]])
    BY DEF TripMergeAssumption
  <2>2. feed.stops \in Seq(Gtfs!Stops)
    BY DEF TripFeedsAssumption
  <2>3. /\ DOMAIN Trip = 1 .. Len(Trip) /\ Len(Trip) \in Nat
        /\ DOMAIN Base = 1 .. Len(Base) /\ Len(Base) \in Nat
        /\ DOMAIN feed.stops = 1 .. Len(feed.stops) /\ Len(feed.stops) \in Nat
    BY <2>1, <2>2, BaseIs, LenProperties
  <2>4. DOMAIN Base = DOMAIN Trip /\ \A i \in DOMAIN Trip : Base[i].id = Trip[i].id
    BY DEF Base
  <2>5. Len(Base) = Len(Trip)
    <3>1. PICK m \in Nat, n \in Nat : m = Len(Base) /\ n = Len(Trip) /\ 1 .. m = 1 .. n
      BY <2>3, <2>4
    <3>2. (m > 0 => m \in 1 .. n) /\ (n > 0 => n \in 1 .. m)
      BY <3>1
    <3>3. QED
      BY <3>1, <3>2
  <2>6. /\ \A i \in DOMAIN feed.stops : feed.stops[i] \in Gtfs!Stops
        /\ \A i \in DOMAIN Trip : Trip[i] \in [id : STRING, date : [Events -> Int]]
    BY <2>1, <2>2, <2>3, ElementOfSeq
  <2>7. QED
    BY <2>3, <2>4, <2>5, <2>6
<1>2. None \notin Int
  BY DEF TripMergeAssumption
<1>3. ASSUME NEW i \in DOMAIN Trip, NEW e \in Events
      PROVE  /\ Delay(i, e) \in Int
             /\ Gtfs!StopDelay(feed, Base, i, e) = IF Delay(i, e) = 0 THEN None ELSE Delay(i, e)
  <2>1. PICK p : p = i - before /\ p \in Int
    BY <1>1
  <2>2. Gtfs!Place(feed, Base, i) = p
    BY <1>1, <2>1 DEF Gtfs!Place
  <2>3. i <= before <=> p < 1
    BY <1>1, <2>1
  <2>4. CASE p < 1
    BY <2>2, <2>3, <2>4 DEF Gtfs!StopDelay
  <2>5. CASE ~(p < 1)
    <3>1. p \in DOMAIN feed.stops
      BY <1>1, <2>1, <2>5
    <3>2. PICK delay : delay = feed.stops[p].delay[e] /\ delay \in Int
      <4>1. feed.stops[p] \in Gtfs!Stops
        BY <1>1, <3>1
      <4>2. QED
        BY <4>1 DEF Gtfs!Stops, Gtfs!Events, Events
    <3>3. Delay(i, e) = delay
      BY <2>1, <2>3, <2>5, <3>2
    <3>4. Gtfs!StopDelay(feed, Base, i, e) = IF delay = 0 THEN None ELSE delay
      BY <2>2, <2>5, <3>2 DEF Gtfs!StopDelay
    <3> HIDE DEF Delay
    <3>5. QED
      BY <3>2, <3>3, <3>4
  <2>6. QED
    BY <2>1, <2>4, <2>5
<1>4. GtfsSays(feed) = [i \in DOMAIN Trip |->
                          Said(Trip[i].id,
                               [e \in Events |-> IF Delay(i, e) = 0 THEN "none" ELSE "update"],
                               [e \in Events |-> Trip[i].date[e] + Delay(i, e)])]
  BY DEF GtfsSays
<1> HIDE DEF Delay, before
<1>5. ASSUME NEW i \in DOMAIN Trip
      PROVE  /\ new.stops[i].id = Trip[i].id
             /\ \A e \in Events :
                   /\ new.stops[i].delay[e] = (IF Delay(i, e) = 0 THEN None ELSE Delay(i, e))
                   /\ new.stops[i].status[e] = (IF Delay(i, e) = 0 THEN "none" ELSE "update")
             /\ new.stops[i].status =
                   [e \in Events |-> IF Delay(i, e) = 0 THEN "none" ELSE "update"]
  <2>1. PICK made : made = Gtfs!MakeStopTimeUpdate(feed, Base, i) /\ new.stops[i] = made
    BY <1>1
  <2> DEFINE delay == [e \in Events |-> IF Delay(i, e) = 0 THEN None ELSE Delay(i, e)]
  <2>2. [e \in Events |-> Gtfs!StopDelay(feed, Base, i, e)] = delay
    BY <1>3
  <2>3. made = [id     |-> Base[i].id,
                order  |-> i - 1,
                time   |-> [e \in Events |-> None],
                delay  |-> delay,
                status |-> [e \in Events |-> IF delay[e] = None THEN "none" ELSE "update"]]
    BY <2>1, <2>2 DEF Gtfs!MakeStopTimeUpdate, Gtfs!Events, Events
  <2>4. \A e \in Events : delay[e] = None <=> Delay(i, e) = 0
    BY <1>2, <1>3
  <2>5. [e \in Events |-> IF delay[e] = None THEN "none" ELSE "update"] =
        [e \in Events |-> IF Delay(i, e) = 0 THEN "none" ELSE "update"]
    BY <2>4
  <2>6. made.delay = delay
    <3> HIDE DEF delay
    <3>1. QED
      BY <2>3
  <2>7. made.status = [e \in Events |-> IF Delay(i, e) = 0 THEN "none" ELSE "update"]
    <3> HIDE DEF delay
    <3>1. QED
      BY <2>3, <2>5
  <2>8. made.id = Trip[i].id
    <3> HIDE DEF delay
    <3>1. QED
      BY <1>1, <2>3
  <2>9. ASSUME NEW e \in Events
        PROVE  /\ delay[e] = (IF Delay(i, e) = 0 THEN None ELSE Delay(i, e))
               /\ made.status[e] = (IF Delay(i, e) = 0 THEN "none" ELSE "update")
    BY <2>7
  <2> HIDE DEF delay
  <2>10. QED
    BY <2>1, <2>6, <2>7, <2>8, <2>9
<1>6. ASSUME NEW i \in DOMAIN Trip, NEW e \in Events
      PROVE  Announced(new, <<i, e>>) = Trip[i].date[e] + Delay(i, e)
  <2>1. {k \in DOMAIN Trip : Trip[k].id = Trip[i].id} = {i}
    BY DEF EachStopOnce
  <2>2. Min({i}) = i
    <3>1. \A x \in {i} : x = i /\ \A y \in {i} : x <= y
      BY <1>1
    <3>2. QED
      BY <3>1 DEF Min
  <2>3. PlannedDate(Trip[i].id, e) = Trip[i].date[e]
    BY <2>1, <2>2 DEF PlannedDate
  <2> DEFINE stop == new.stops[i]
             date == Trip[i].date[e]
             delay == Delay(i, e)
  <2>4. /\ date \in Int /\ delay \in Int /\ stop.id = Trip[i].id
        /\ stop.delay[e] = (IF delay = 0 THEN None ELSE delay)
        /\ stop.status[e] = (IF delay = 0 THEN "none" ELSE "update")
    BY <1>1, <1>3, <1>5
  <2>9. Announced(new, <<i, e>>) = IF IsAdded(stop, e) THEN stop.time[e]
                                  ELSE Plus(PlannedDate(stop.id, e), OrElse(stop.delay[e], 0))
    BY DEF Announced
  <2> HIDE DEF stop, date, delay
  <2>5. ~IsAdded(stop, e)
    BY <2>4 DEF IsAdded
  <2>6. OrElse(stop.delay[e], 0) = delay
    BY <1>2, <2>4 DEF OrElse
  <2>7. Announced(new, <<i, e>>) = Plus(date, delay)
    <3>1. PlannedDate(stop.id, e) = date
      BY <2>3, <2>4 DEF date
    <3>2. QED
      BY <2>5, <2>6, <2>9, <3>1
  <2>8. QED
    BY <1>2, <2>4, <2>7 DEF Plus, date, delay
<1>7. DOMAIN new.stops = DOMAIN Trip
  BY <1>1
<1>8. PICK says : says = GtfsSays(feed)
  OBVIOUS
<1>9. DOMAIN says = DOMAIN Trip
  BY <1>4, <1>8
<1>10. ASSUME NEW i \in DOMAIN Trip
       PROVE  /\ says[i].id = new.stops[i].id /\ says[i].status = new.stops[i].status
              /\ \A e \in Events : says[i].time[e] = Announced(new, <<i, e>>)
  <2>1. says[i] = Said(Trip[i].id,
                       [e \in Events |-> IF Delay(i, e) = 0 THEN "none" ELSE "update"],
                       [e \in Events |-> Trip[i].date[e] + Delay(i, e)])
    BY <1>4, <1>8
  <2>2. /\ says[i].id = Trip[i].id
        /\ says[i].status = [e \in Events |-> IF Delay(i, e) = 0 THEN "none" ELSE "update"]
        /\ says[i].time = [e \in Events |-> Trip[i].date[e] + Delay(i, e)]
    BY <2>1 DEF Said
  <2>3. says[i].id = new.stops[i].id /\ says[i].status = new.stops[i].status
    BY <1>5, <2>2
  <2>4. ASSUME NEW e \in Events PROVE says[i].time[e] = Announced(new, <<i, e>>)
    BY <1>6, <2>2
  <2>5. QED
    BY <2>3, <2>4
<1>11. QED
  BY <1>7, <1>8, <1>9, <1>10 DEF HasWhatIsSaid

\* What PIV says of its stops, and the stops that its builder keeps
HeardStops(feed) ==
    LET Open(e) == {i \in DOMAIN feed.stops : Piv!Has(feed.stops[i], e)}
    IN  Only(feed.stops, {i \in Open("arrival") \cup Open("departure") :
                            /\ i \in Min(Open("departure")) .. Max(Open("arrival"))
                            /\ feed.stops[i].id # None})

LEMMA HeardIsKnown ==
    ASSUME TripFeedsAssumption, NEW feed \in PivFeeds,
           Len(Piv!InterestingStops(feed.stops)) >= 2
    PROVE  Piv!KnownStops(Piv!InterestingStops(feed.stops)) = HeardStops(feed)
<1>1. PICK s : s = feed.stops
  OBVIOUS
<1> DEFINE N == Len(s)
           Open(e) == {i \in DOMAIN s : Piv!Has(s[i], e)}
           I == {i \in DOMAIN s : /\ \E e \in Piv!Events : Piv!Has(s[i], e)
                                  /\ \E j \in 1 .. i : Piv!Has(s[j], "departure")
                                  /\ \E j \in i .. Len(s) : Piv!Has(s[j], "arrival")}
           K == {stop \in Piv!Stops : stop.id # None}
<1>2. /\ s \in Seq(Piv!Stops) /\ N \in Nat /\ DOMAIN s = 1 .. N
      /\ \A i \in DOMAIN s : s[i] \in Piv!Stops
  <2>1. s \in Seq(Piv!Stops)
    BY <1>1 DEF TripFeedsAssumption
  <2>2. QED
    BY <2>1, LenProperties, ElementOfSeq
<1>3. PICK t : t = Only(s, I) /\ t = Piv!InterestingStops(s)
  BY DEF Piv!InterestingStops, Piv!Only, Only
<1>4. t \in Seq({s[i] : i \in I \cap DOMAIN s})
  <2> HIDE DEF I
  <2>1. QED
    BY <1>2, <1>3, OnlyTakes
<1>5. /\ DOMAIN t = 1 .. Len(t) /\ Len(t) \in Nat
      /\ \A k \in DOMAIN t : t[k] \in {s[i] : i \in I \cap DOMAIN s}
  <2> HIDE DEF I
  <2>1. QED
    BY <1>4, LenProperties, ElementOfSeq
<1>6. PICK k \in I : TRUE
  <2>1. 1 \in DOMAIN t
    BY <1>1, <1>3, <1>5
  <2>2. QED
    BY <1>5, <2>1
<1>7. /\ Open("departure") # {} /\ Open("departure") \in SUBSET Nat
      /\ Open("arrival") # {} /\ Open("arrival") \in SUBSET (1 .. N)
  <2>1. k \in 1 .. N
    BY <1>2, <1>6
  <2>2. PICK i \in 1 .. k : Piv!Has(s[i], "departure")
    BY <1>6
  <2>3. PICK j \in k .. N : Piv!Has(s[j], "arrival")
    BY <1>6
  <2>4. i \in Open("departure") /\ j \in Open("arrival")
    BY <1>2, <2>1, <2>2, <2>3
  <2>5. QED
    BY <1>2, <2>4
<1>8. PICK from, to : /\ from = Min(Open("departure")) /\ to = Max(Open("arrival"))
                      /\ from \in Open("departure") /\ \A x \in Open("departure") : from <= x
                      /\ to \in Open("arrival") /\ \A x \in Open("arrival") : x <= to
  <2> HIDE DEF Open
  <2>1. QED
    BY <1>2, <1>7, MinIs, MaxIs
<1>9. ASSUME NEW i \in DOMAIN s
      PROVE  i \in I <=> i \in Open("arrival") \cup Open("departure") /\ i \in from .. to
  <2>1. i \in 1 .. N /\ from \in 1 .. N /\ to \in 1 .. N
    BY <1>2, <1>8
  <2>2. (\E e \in Piv!Events : Piv!Has(s[i], e)) <=> i \in Open("arrival") \cup Open("departure")
    BY DEF Piv!Events
  <2>3. (\E j \in 1 .. i : Piv!Has(s[j], "departure")) <=> from <= i
    <3>1. ASSUME NEW j \in 1 .. i, Piv!Has(s[j], "departure") PROVE from <= i
      <4>1. j \in Open("departure")
        BY <1>2, <2>1, <3>1
      <4>2. from <= j /\ j \in Int
        BY <1>8, <4>1
      <4>3. QED
        BY <2>1, <4>2
    <3>2. ASSUME from <= i PROVE \E j \in 1 .. i : Piv!Has(s[j], "departure")
      <4>1. from \in 1 .. i /\ Piv!Has(s[from], "departure")
        BY <1>8, <2>1, <3>2
      <4>2. QED
        BY <4>1
    <3>3. QED
      BY <3>1, <3>2
  <2>4. (\E j \in i .. Len(s) : Piv!Has(s[j], "arrival")) <=> i <= to
    <3>1. ASSUME NEW j \in i .. Len(s), Piv!Has(s[j], "arrival") PROVE i <= to
      <4>1. j \in Open("arrival")
        BY <1>2, <2>1, <3>1
      <4>2. j <= to /\ j \in Int
        BY <1>8, <4>1
      <4>3. QED
        BY <2>1, <4>2
    <3>2. ASSUME i <= to PROVE \E j \in i .. Len(s) : Piv!Has(s[j], "arrival")
      <4>1. to \in i .. Len(s) /\ Piv!Has(s[to], "arrival")
        BY <1>8, <2>1, <3>2
      <4>2. QED
        BY <4>1
    <3>3. QED
      BY <3>1, <3>2
  <2>5. i \in from .. to <=> from <= i /\ i <= to
    BY <2>1
  <2>6. QED
    BY <2>2, <2>3, <2>4, <2>5
<1> DEFINE H == {i \in Open("arrival") \cup Open("departure") :
                   i \in Min(Open("departure")) .. Max(Open("arrival")) /\ s[i].id # None}
<1>10. {i \in I \cap DOMAIN s : s[i] \in K} = H
  <2>1. \A i \in DOMAIN s : s[i] \in K <=> s[i].id # None
    BY <1>2
  <2>2. Open("arrival") \cup Open("departure") \subseteq DOMAIN s /\ I \subseteq DOMAIN s
    OBVIOUS
  <2>3. H = {i \in Open("arrival") \cup Open("departure") : i \in from .. to /\ s[i].id # None}
    BY <1>8
  <2> HIDE DEF I, K, Open, H
  <2>4. QED
    BY <1>9, <2>1, <2>2, <2>3
<1>11. {j \in DOMAIN t : t[j] \in K} = {j \in DOMAIN t : t[j].id # None}
  <2>1. \A j \in DOMAIN t : t[j] \in Piv!Stops
    BY <1>2, <1>5
  <2>2. QED
    BY <2>1
<1>12. Only(t, {j \in DOMAIN t : t[j] \in K}) = Only(s, {i \in I \cap DOMAIN s : s[i] \in K})
  <2> HIDE DEF I, K
  <2>1. PICK J, M : /\ J = {j \in DOMAIN t : t[j] \in K}
                    /\ M = {i \in I \cap DOMAIN s : s[i] \in K}
    OBVIOUS
  <2>2. KeepsTwice(Piv!Stops, s, I, K, t, J, M)
    BY <1>2, <1>3, <2>1 DEF KeepsTwice
  <2>3. Only(t, J) = Only(s, M)
    BY ONLY <2>2, OnlyOnly
  <2>4. QED
    BY <2>1, <2>3
<1>13. Piv!KnownStops(t) = Only(t, {j \in DOMAIN t : t[j].id # None})
  BY DEF Piv!KnownStops, Piv!Only, Only
<1>14. HeardStops(feed) = Only(s, H)
  BY <1>1 DEF HeardStops
<1> HIDE DEF I, K, H
<1>15. QED
  BY <1>1, <1>3, <1>10, <1>11, <1>12, <1>13, <1>14

LEMMA PivHasWhatIsSaid ==
    ASSUME TripMergeAssumption, TripFeedsAssumption, NEW feed \in PivFeeds,
           NEW new, new \in Range(Piv!MakeTripUpdates(feed)), ~new.cancel, IsSound(new)
    PROVE  HasWhatIsSaid(new, PivSays(feed))
<1>1. PICK stops, known : /\ stops = Piv!InterestingStops(feed.stops)
                          /\ known = Piv!KnownStops(stops)
  OBVIOUS
<1>2. Len(stops) >= 2 /\ new = Piv!MakeTripUpdate(feed, known)
  <2>1. PICK made : made = Piv!MakeTripUpdate(feed, known)
    OBVIOUS
  <2>2. Piv!MakeTripUpdates(feed) = IF /\ Piv!IsSupported(feed) /\ Len(stops) >= 2
                                       /\ Piv!HasVj(feed, stops) /\ Piv!CanBeMade(feed, known)
                                    THEN <<made>> ELSE <<>>
    BY <1>1, <2>1 DEF Piv!MakeTripUpdates
  <2>3. PICK k \in DOMAIN Piv!MakeTripUpdates(feed) : new = Piv!MakeTripUpdates(feed)[k]
    BY DEF Range
  <2>4. CASE Piv!MakeTripUpdates(feed) = <<>>
    BY <2>3, <2>4, EmptySeq
  <2>5. CASE Piv!MakeTripUpdates(feed) = <<made>> /\ Len(stops) >= 2
    BY <2>1, <2>3, <2>5
  <2>6. QED
    BY <2>2, <2>4, <2>5
<1>3. known = HeardStops(feed)
  BY <1>1, <1>2, HeardIsKnown
<1>4. /\ DOMAIN new.stops = DOMAIN known
      /\ \A k \in DOMAIN known :
            /\ new.stops[k].id = known[k].id
            /\ new.stops[k].status = [e \in Events |-> Piv!StatusOf(known[k].event[e])]
            /\ \A e \in Events :
                  LET event == known[k].event[e] IN
                  /\ new.stops[k].time[e] = Piv!TimeOf(event)
                  /\ new.stops[k].delay[e] = (IF event = None THEN None ELSE event.delay)
  <2>1. new.stops = [i \in DOMAIN known |-> Piv!MakeStopTimeUpdate(known[i], i)]
    BY <1>2 DEF Piv!MakeTripUpdate
  <2>2. ASSUME NEW k \in DOMAIN known
        PROVE  new.stops[k] = [id     |-> known[k].id,
                               order  |-> k - 1,
                               time   |-> [e \in Events |-> Piv!TimeOf(known[k].event[e])],
                               delay  |-> [e \in Events |-> IF known[k].event[e] = None THEN None
                                                            ELSE known[k].event[e].delay],
                               status |-> [e \in Events |-> Piv!StatusOf(known[k].event[e])]]
    BY <2>1 DEF Piv!MakeStopTimeUpdate, Piv!Events, Events
  <2>3. QED
    BY <2>1, <2>2
<1> DEFINE Delay(event) == IF event = None THEN 0 ELSE OrElse(event.delay, 0)
           Time(stop, e) == OrElse(Piv!TimeOf(stop.event[e]),
                                   Plus(PlannedDate(stop.id, e), Delay(stop.event[e])))
<1>5. PICK says : /\ says = PivSays(feed)
                  /\ says = [k \in DOMAIN known |->
                               Said(known[k].id,
                                    [e \in Events |-> Piv!StatusOf(known[k].event[e])],
                                    [e \in Events |-> Time(known[k], e)])]
  BY <1>3 DEF PivSays, HeardStops
<1>6. ASSUME NEW k \in DOMAIN known, NEW e \in Events, ~IsDeleted(new.stops[k], e)
      PROVE  Time(known[k], e) = Announced(new, <<k, e>>)
  <2>1. PICK stop, event, stu : stop = known[k] /\ event = stop.event[e] /\ stu = new.stops[k]
    OBVIOUS
  <2>2. /\ stu.id = stop.id /\ stu.time[e] = Piv!TimeOf(event)
        /\ stu.delay[e] = (IF event = None THEN None ELSE event.delay)
    BY <1>4, <2>1
  <2>3. Delay(event) = OrElse(stu.delay[e], 0)
    BY <2>2 DEF OrElse
  <2>4. /\ IsAdded(stu, e) => stu.time[e] # None
        /\ stu.time[e] # None => stu.time[e] = Announced(new, <<k, e>>)
    BY <1>4, <1>6, <2>1, TimeIsAnnounced
  <2>5. Time(stop, e) = OrElse(stu.time[e], Plus(PlannedDate(stu.id, e), OrElse(stu.delay[e], 0)))
    <3>1. Time(stop, e) = OrElse(Piv!TimeOf(event), Plus(PlannedDate(stop.id, e), Delay(event)))
      BY <2>1
    <3> HIDE DEF Time, Delay
    <3>2. QED
      BY <2>2, <2>3, <3>1
  <2>6. Announced(new, <<k, e>>) =
           IF IsAdded(stu, e) THEN stu.time[e]
           ELSE Plus(PlannedDate(stu.id, e), OrElse(stu.delay[e], 0))
    BY <2>1 DEF Announced
  <2> HIDE DEF Time, Delay
  <2>7. QED
    BY <2>1, <2>4, <2>5, <2>6 DEF OrElse
<1>7. ASSUME NEW k \in DOMAIN known
      PROVE  /\ says[k].id = new.stops[k].id /\ says[k].status = new.stops[k].status
             /\ \A e \in Events :
                   ~IsDeleted(new.stops[k], e) => says[k].time[e] = Announced(new, <<k, e>>)
  <2>1. /\ says[k].id = known[k].id
        /\ says[k].status = [e \in Events |-> Piv!StatusOf(known[k].event[e])]
        /\ says[k].time = [e \in Events |-> Time(known[k], e)]
    <3> HIDE DEF Time
    <3>1. says[k] = Said(known[k].id, [e \in Events |-> Piv!StatusOf(known[k].event[e])],
                         [e \in Events |-> Time(known[k], e)])
      BY <1>5
    <3>2. QED
      BY <3>1 DEF Said
  <2>2. \A e \in Events : says[k].time[e] = Time(known[k], e)
    BY <2>1
  <2> HIDE DEF Time
  <2>3. QED
    BY <1>4, <1>6, <2>1, <2>2
<1>8. DOMAIN says = DOMAIN known
  BY <1>5
<1>9. QED
  BY <1>4, <1>5, <1>7, <1>8 DEF HasWhatIsSaid

LEMMA FeedHasWhatIsSaid ==
    ASSUME TripMergeAssumption, TripFeedsAssumption, NEW feed \in Feeds,
           NEW new, new \in Range(TripUpdates[feed]), ~new.cancel, IsSound(new)
    PROVE  HasWhatIsSaid(new, Says(feed))
<1>1. PICK k \in DOMAIN TripUpdates[feed] : new = TripUpdates[feed][k]
  BY DEF Range
<1>2. CASE feed \in GtfsFeeds
  <2>1. TripUpdates[feed] = Gtfs!MakeTripUpdates(feed) /\ Says(feed) = GtfsSays(feed)
    BY <1>2 DEF TripUpdates, Says, TripFeedsAssumption
  <2>2. PICK made : made = [complete |-> FALSE, cancel |-> FALSE,
                            stops |-> [i \in DOMAIN Base |->
                                         Gtfs!MakeStopTimeUpdate(feed, Base, i)]]
    OBVIOUS
  <2>3. new = made
    BY <1>1, <1>2, <2>1, <2>2, GtfsIsMade
  <2>4. EachStopOnce
    <3>1. new.complete = FALSE
      BY <2>2, <2>3
    <3>2. QED
      BY <3>1 DEF IsSound
  <2>5. HasWhatIsSaid(made, GtfsSays(feed))
    BY <1>2, <2>2, <2>4, GtfsHasWhatIsSaid
  <2>6. QED
    BY <2>1, <2>3, <2>5
<1>3. CASE feed \notin GtfsFeeds /\ feed \in PivFeeds
  <2>1. TripUpdates[feed] = Piv!MakeTripUpdates(feed) /\ Says(feed) = PivSays(feed)
    BY <1>3 DEF TripUpdates, Says, TripFeedsAssumption
  <2>2. new \in Range(Piv!MakeTripUpdates(feed))
    BY <2>1
  <2>3. QED
    BY <1>3, <2>1, <2>2, PivHasWhatIsSaid
<1>4. CASE feed \notin GtfsFeeds /\ feed \notin PivFeeds
  <2>1. /\ feed \in CotsFeeds /\ Says(feed) = CotsSays(feed)
        /\ TripUpdates[feed] = IF IsConsistent(feed.update.stops) THEN <<feed.update>> ELSE <<>>
    BY <1>4 DEF TripUpdates, Feeds, Says
  <2>2. new = feed.update
    BY <1>1, <2>1
  <2>3. feed.update.stops \in Seq(Stus)
    BY <2>2 DEF IsSound, IsWellMade, Stus, Times
  <2>4. HasWhatIsSaid(feed.update, CotsSays(feed))
    BY <2>3, CotsHasWhatIsSaid
  <2>5. QED
    BY <2>1, <2>2, <2>4
<1>5. QED
  BY <1>2, <1>3, <1>4

LEMMA SaidIsHonoured ==
    ASSUME NEW new, new.stops \in Seq(Stus), NEW says, HasWhatIsSaid(new, says),
           NEW k \in DOMAIN says, NEW stops, IsHonoured(stops, new, k)
    PROVE  \/ /\ k \in DOMAIN stops
              /\ stops[k].id = says[k].id
              /\ stops[k].status = says[k].status
              /\ \A e \in Events :
                    ~IsDeleted(says[k], e) =>
                       LET met == {says[m[1]].time[m[2]] : m \in MetBefore(says, k, e)}
                       IN  stops[k].time[e] \in met /\ \A t \in met : t <= stops[k].time[e]
           \/ /\ \A e \in Events : IsDeleted(says[k], e)
              /\ \A stop \in Range(Trip) \cup Range(stops) : stop.id # says[k].id
<1>1. /\ DOMAIN says = DOMAIN new.stops /\ DOMAIN says = 1 .. Len(new.stops)
      /\ Len(new.stops) \in Nat
  BY LenProperties DEF HasWhatIsSaid
<1>2. ASSUME NEW j \in DOMAIN says
      PROVE  /\ says[j].id = new.stops[j].id /\ says[j].status = new.stops[j].status
             /\ \A e \in Events :
                   /\ IsDeleted(says[j], e) <=> IsDeleted(new.stops[j], e)
                   /\ ~IsDeleted(says[j], e) => says[j].time[e] = Announced(new, <<j, e>>)
  BY DEF HasWhatIsSaid, IsDeleted
<1>3. 1 .. k \subseteq DOMAIN says
  BY <1>1
<1>4. ASSUME NEW e \in Events
      PROVE  {says[m[1]].time[m[2]] : m \in MetBefore(says, k, e)} = MetTimes(new, k, e)
  <2>1. MetBefore(says, k, e) = MetBefore(new.stops, k, e)
    <3>1. \A m \in (1 .. k) \X Events :
             IsDeleted(says[m[1]], m[2]) <=> IsDeleted(new.stops[m[1]], m[2])
      BY <1>2, <1>3
    <3>2. QED
      BY <3>1 DEF MetBefore
  <2>2. ASSUME NEW m \in MetBefore(says, k, e)
        PROVE  says[m[1]].time[m[2]] = Announced(new, m)
    <3>1. /\ m[1] \in DOMAIN says /\ m[2] \in Events /\ m = <<m[1], m[2]>>
          /\ ~IsDeleted(says[m[1]], m[2])
      BY <1>3 DEF MetBefore
    <3>2. QED
      BY <1>2, <3>1
  <2>3. QED
    BY <2>1, <2>2 DEF MetTimes
<1>5. /\ says[k].id = new.stops[k].id /\ says[k].status = new.stops[k].status
      /\ \A e \in Events : IsDeleted(says[k], e) <=> IsDeleted(new.stops[k], e)
  BY <1>2
<1>6. CASE /\ k \in DOMAIN stops
           /\ stops[k].id = new.stops[k].id
           /\ stops[k].status = new.stops[k].status
           /\ \A e \in Events :
                 ~IsDeleted(new.stops[k], e) =>
                    /\ stops[k].time[e] \in MetTimes(new, k, e)
                    /\ \A t \in MetTimes(new, k, e) : t <= stops[k].time[e]
  BY <1>4, <1>5, <1>6
<1>7. CASE /\ IsForeign(new.stops[k].id)
           /\ \A e \in Events : IsDeleted(new.stops[k], e)
           /\ \A stop \in Members(stops) : stop.id # new.stops[k].id
  <2>1. \A stop \in Range(Trip) : stop.id # says[k].id
    BY <1>5, <1>7 DEF IsForeign, Base, Range
  <2>2. \A stop \in Range(stops) : stop.id # says[k].id
    BY <1>5, <1>7 DEF Members, Range
  <2>3. QED
    BY <1>5, <1>7, <2>1, <2>2
<1>8. QED
  BY <1>6, <1>7 DEF IsHonoured

LEMMA HandledHonoursFeed ==
    ASSUME TripMergeAssumption, TripFeedsAssumption,
           NEW feed \in Feeds, NEW new, new \in Range(TripUpdates[feed]), ~new.cancel, IsSound(new),
           NEW db \in OrNone(StoredTrips), RenamesNone(db, new),
           NEW stops, IsHandled(db, new, stops)
    PROVE  HonoursFeed(stops, feed)
<1>1. PICK says : says = Says(feed)
  OBVIOUS
<1>2. HasWhatIsSaid(new, says) /\ DOMAIN says = DOMAIN new.stops
  BY <1>1, FeedHasWhatIsSaid DEF HasWhatIsSaid
<1>3. new.stops \in Seq(Stus)
  BY DEF IsSound, IsWellMade, Stus, Times
<1>4. \A k \in DOMAIN says : IsHonoured(stops, new, k)
  BY <1>2, HandledIsHonoured
<1>5. QED
  BY <1>1, <1>2, <1>3, <1>4, SaidIsHonoured DEF HonoursFeed

LEMMA HandleHonours ==
    ASSUME TripMergeAssumption, TripFeedsAssumption, Inv,
           NEW feed \in Feeds, NEW update \in Range(TripUpdates[feed]), IsSound(update),
           ~Renames(stored, feed), NEW result, result = Handled(stored, update),
           NEW sent, sent = IF result.verdict = "sent" THEN result.stored.stops ELSE told
    PROVE  IsLastWord(result.stored, sent, result.verdict, feed)
<1>1. SUFFICES ASSUME ~IsCancellation(feed),
                      \/ result.verdict = "sent"
                      \/ result.verdict = "nothing" /\ result.stored # None
                                                    /\ result.stored.stops = told
               PROVE  HonoursFeed(result.stored.stops, feed)
  BY DEF IsLastWord
<1>2. ~update.cancel
  BY <1>1, UpdatesAreOne
<1>3. stored \in OrNone(StoredTrips) /\ IsWellMade(update)
  BY DEF Inv, TypeOK, IsSound
<1>4. RenamesNone(stored, update)
  BY DEF Renames, RenamesNone
<1>5. IsHandled(stored, update, result.stored.stops)
  <2>1. CASE result.verdict = "sent"
    BY <1>2, <1>3, <2>1, SentIsStored DEF IsHandled
  <2>2. CASE /\ result.verdict = "nothing" /\ result.stored # None
             /\ result.stored.stops = told
    BY <2>2 DEF IsHandled, Inv, ToldIsDriven
  <2>3. QED
    BY <1>1, <2>1, <2>2
<1>6. QED
  BY <1>2, <1>3, <1>4, <1>5, HandledHonoursFeed

\* After a feed the database has the stops of the feed, each event at the time the feed
\* says or at the latest it says before: for any trip, any feeds of the three connectors
\* and any sequence of them, refused ones included, if the dates of the feeds can be told
\* from times of day, agree with the schedule, and a stop outside the schedule is added or
\* deleted by the feed that has it; but for a feed that gives such a stop of the database
\* another name.
THEOREM FeedsAreHonoured ==
    ASSUME FeedsAddOrDelete, FeedsAreDated, FeedsAgreeWithPlan
    PROVE  Spec => FeedIsHonoured
<1> USE TripMergeAssumption, TripFeedsAssumption
<1>1. ASSUME Inv, [Next]_vars
      PROVE  [\A db \in {stored'}, sent \in {told'}, feed \in {last'} :
                 ~Renames(stored, feed) => IsLastWord(db, sent, verdict', feed)]_vars
  <2>1. CASE UNCHANGED vars
    BY <2>1
  <2>2. ASSUME NEW feed \in Feeds, NEW update \in Range(TripUpdates[feed]), Handle(feed, update),
               ~Renames(stored, feed)
        PROVE  IsLastWord(stored', told', verdict', feed)
    <3>1. PICK result, sent :
             /\ result = Handled(stored, update)
             /\ sent = IF result.verdict = "sent" THEN result.stored.stops ELSE told
      OBVIOUS
    <3>2. stored' = result.stored /\ verdict' = result.verdict /\ told' = sent
      BY <2>2, <3>1 DEF Handle
    <3>3. IsSound(update)
      BY BuiltIsWellMade DEF FeedsAddOrDelete, FeedsAreDated, FeedsAgreeWithPlan, IsSound
    <3>4. IsLastWord(result.stored, sent, result.verdict, feed)
      BY <1>1, <2>2, <3>1, <3>3, HandleHonours
    <3>5. QED
      BY <3>2, <3>4
  <2>3. ASSUME NEW feed \in Feeds, HandleFeed(feed) \/ RefuseFeed(feed), ~Renames(stored, last')
        PROVE  IsLastWord(stored', told', verdict', last')
    <3>1. CASE RefuseFeed(feed)
      BY <3>1 DEF RefuseFeed, IsLastWord
    <3>2. CASE HandleFeed(feed)
      <4>1. PICK update \in Range(TripUpdates[feed]) : Handle(feed, update)
        BY <3>2 DEF HandleFeed
      <4>2. last' = feed
        BY <4>1 DEF Handle
      <4>3. QED
        BY <2>2, <2>3, <4>1, <4>2
    <3>3. QED
      BY <2>3, <3>1, <3>2
  <2>4. QED
    BY <1>1, <2>1, <2>3 DEF Next
<1>2. QED
  BY <1>1, FeedsInvariant, PTL DEF Spec, FeedIsHonoured

=============================================================================
