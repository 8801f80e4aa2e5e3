------------------------ MODULE RealtimeReload_proofs ------------------------
(***************************************************************************)
(* Proofs about RealtimeReload, for any processes, trips and periods: its  *)
(* types are kept; of a trip whose feeds were handled one after the other  *)
(* what is on its way to a kraken ends with what is stored, and a kraken   *)
(* that was answered lags behind the database on it only while it is on    *)
(* its way or if it was never published.                                   *)
(***************************************************************************)
EXTENDS RealtimeReload, DataLemmas, TLAPS

-----------------------------------------------------------------------------
(***************************************************************************)
(* The inductive invariant                                                 *)
(***************************************************************************)

\* A process alone with a trip: what is stored is of the feed it handles.
IsAlone(w, t) ==
    /\ stored[t] = feed[w]
    /\ \A v \in Workers : t \in linked[v] => v = w
    /\ pc[w] = "read" => outgoing[w][t] = stored[t]

\* Nothing is left to an idle handler; a busy one is alone with its trips, those
\* that another feed changed meanwhile excepted.
Handled ==
    /\ \A w \in Workers : pc[w] = "idle" => linked[w] = {}
    /\ \A w \in Workers : pc[w] # "idle" => feed[w] \in 1 .. MaxFeeds
    /\ \A w \in Workers : \A t \in linked[w] \ raced : IsAlone(w, t)

\* A request names the load it was made for, and the period of that load.
Asked ==
    /\ kraken = "down" => exchange = <<>> /\ requests = <<>>
    /\ \A i \in DOMAIN requests :
          /\ requests[i].load <= loads
          /\ requests[i].load = loads => requests[i].period = period

IsLinked(t) == \E w \in Workers : t \in linked[w]

\* The positions of the exchange that are about a trip
PositionsOf(t) == {i \in DOMAIN exchange : t \in DOMAIN exchange[i]}

\* What was last sent of it is what is stored.
EndsStored(t) ==
    \E i \in PositionsOf(t) :
       exchange[i][t] = stored[t] /\ \A j \in PositionsOf(t) : j <= i

LastIsStored ==
    \A t \in Trips \ raced :
       ~IsLinked(t) /\ stored[t] \notin lost /\ PositionsOf(t) # {} => EndsStored(t)

ContentIn(s, t) == IF t \in DOMAIN s THEN s[t] ELSE 0

\* A kraken that takes the snapshot for the truth of the period, and then applies
\* what is in flight, misses nothing but what was never published,
\* and trips of which two feeds were handled at once.
Suffices(s, p) ==
    \A t \in Trips \ (InFlight \cup raced) :
       IsIn(p, t) => ContentIn(s, t) = stored[t] \/ stored[t] \in lost

\* The full feed that is read for the present load, the one that is sent, and what
\* the kraken has made of them
NothingFallsThrough ==
    /\ reading # None /\ kraken = "loading" /\ requests[1].load = loads =>
          Suffices(reading, period)
    /\ kraken = "loading" /\ answer # None => Suffices(answer, period)
    /\ kraken = "up" => Suffices(known, period)

Inv ==
    /\ TypeOK
    /\ Handled
    /\ Asked
    /\ LastIsStored
    /\ NothingFallsThrough

-----------------------------------------------------------------------------
(***************************************************************************)
(* Snapshots                                                               *)
(***************************************************************************)

USE RealtimeReloadAssumption DEF RealtimeReloadAssumption

Requests == [load : 1 .. MaxLoads, period : Periods]

\* A snapshot gives a content to some of the trips.
LEMMA SnapshotIs ==
    ASSUME NEW D \in SUBSET Trips, NEW s \in [D -> Content]
    PROVE  s \in Snapshot
  BY DEF Snapshot

LEMMA InSnapshot ==
    ASSUME NEW s \in Snapshot
    PROVE  /\ DOMAIN s \subseteq Trips
           /\ \A t \in DOMAIN s : s[t] \in Content
  BY DEF Snapshot

-----------------------------------------------------------------------------
(***************************************************************************)
(* Types                                                                   *)
(***************************************************************************)

LEMMA InitTypes == Init => TypeOK
<1> SUFFICES ASSUME Init PROVE TypeOK
  OBVIOUS
<1>1. Nothing \in Snapshot /\ DOMAIN Nothing = {}
  <2>1. Nothing \in [{} -> Content]
    BY DEF Nothing
  <2>2. QED
    BY <2>1, SnapshotIs DEF Nothing
<1>2. 0 \in Content
  BY DEF Content
<1>3. QED
  BY <1>1, <1>2 DEF Init, TypeOK

LEMMA CommitTypes ==
    ASSUME TypeOK, NEW w \in Workers, Commit(w)
    PROVE  TypeOK'
<1>1. PICK ts \in SUBSET Trips :
         /\ linked' = [linked EXCEPT ![w] = ts]
         /\ outgoing' = [outgoing EXCEPT ![w] = [t \in ts |-> 0]]
         /\ stored' = [t \in Trips |-> IF t \in ts THEN received + 1 ELSE stored[t]]
         /\ raced' = (raced \ ts) \cup {t \in ts : \E v \in Workers : t \in linked[v]}
  BY DEF Commit
<1>2. received + 1 \in Content /\ 0 \in Content
  BY DEF Commit, TypeOK, Content
<1>3. received' \in Content /\ stored' \in [Trips -> Content]
  BY <1>1, <1>2 DEF Commit, TypeOK
<1>4. [t \in ts |-> 0] \in Snapshot
  <2>1. [t \in ts |-> 0] \in [ts -> Content]
    BY <1>2
  <2>2. QED
    BY <2>1, SnapshotIs
<1>5. /\ outgoing' \in [Workers -> Snapshot]
      /\ \A v \in Workers : DOMAIN outgoing'[v] = linked'[v]
  BY <1>1, <1>4 DEF TypeOK
<1>6. /\ pc' \in [Workers -> {"idle", "committed", "read"}]
      /\ feed' \in [Workers -> Content]
      /\ linked' \in [Workers -> SUBSET Trips]
      /\ raced' \in SUBSET Trips
  BY <1>1, <1>2 DEF Commit, TypeOK
<1>7. QED
  BY <1>3, <1>5, <1>6 DEF Commit, TypeOK, reloader, navitia

LEMMA ReadBackTypes ==
    ASSUME TypeOK, NEW w \in Workers, ReadBack(w)
    PROVE  TypeOK'
<1>1. [t \in linked[w] |-> stored[t]] \in Snapshot
  <2>1. [t \in linked[w] |-> stored[t]] \in [linked[w] -> Content]
    BY DEF TypeOK
  <2>2. QED
    BY <2>1, SnapshotIs DEF TypeOK
<1>2. /\ outgoing' \in [Workers -> Snapshot]
      /\ \A v \in Workers : DOMAIN outgoing'[v] = linked'[v]
  BY <1>1 DEF ReadBack, TypeOK
<1>3. pc' \in [Workers -> {"idle", "committed", "read"}]
  BY DEF ReadBack, TypeOK
<1>4. QED
  BY <1>2, <1>3 DEF ReadBack, TypeOK, reloader, navitia

LEMMA LeaveTypes ==
    ASSUME TypeOK, NEW w \in Workers, Leave(w)
    PROVE  /\ pc' \in [Workers -> {"idle", "committed", "read"}]
           /\ feed' \in [Workers -> Content]
           /\ linked' \in [Workers -> SUBSET Trips]
           /\ outgoing' \in [Workers -> Snapshot]
           /\ \A v \in Workers : DOMAIN outgoing'[v] = linked'[v]
<1>1. Nothing \in Snapshot /\ DOMAIN Nothing = {}
  <2>1. Nothing \in [{} -> Content]
    BY DEF Nothing
  <2>2. QED
    BY <2>1, SnapshotIs DEF Nothing
<1>2. 0 \in Content
  BY DEF Content
<1>3. QED
  BY <1>1, <1>2 DEF Leave, TypeOK

LEMMA PublishTypes ==
    ASSUME TypeOK, Handled, NEW w \in Workers, Publish(w) \/ PublishFails(w)
    PROVE  TypeOK'
<1>1. Leave(w)
  BY DEF Publish, PublishFails
<1>2. CASE Publish(w)
  <2>1. exchange' \in Seq(Snapshot)
    BY <1>2, Added DEF Publish, TypeOK
  <2>2. QED
    BY <1>1, <1>2, <2>1, LeaveTypes DEF Publish, TypeOK, reloader, navitia
<1>3. CASE PublishFails(w)
  <2>1. lost' \in SUBSET (1 .. MaxFeeds)
    <3>1. feed[w] \in 1 .. MaxFeeds
      BY <1>3 DEF PublishFails, Handled
    <3>2. QED
      BY <1>3, <3>1 DEF PublishFails, TypeOK
  <2>2. faults' \in 0 .. MaxFaults
    BY <1>3 DEF PublishFails, TypeOK
  <2>3. QED
    BY <1>1, <1>3, <2>1, <2>2, LeaveTypes DEF PublishFails, TypeOK, reloader, navitia
<1>4. QED
  BY <1>2, <1>3

LEMMA KrakenTypes ==
    ASSUME TypeOK, KrakenStarts \/ KrakenLoads \/ KrakenApplies
    PROVE  TypeOK'
<1>1. CASE KrakenStarts
  <2>1. PICK p \in Periods :
           /\ period' = p
           /\ requests' = Append(requests, [load |-> loads + 1, period |-> p])
    BY <1>1 DEF KrakenStarts
  <2>2. loads' \in 0 .. MaxLoads /\ [load |-> loads + 1, period |-> p] \in Requests
    BY <1>1 DEF KrakenStarts, TypeOK, Requests
  <2>3. requests' \in Seq(Requests) /\ requests' # <<>>
    <3>1. requests \in Seq(Requests)
      BY DEF TypeOK, Requests
    <3> DEFINE r == [load |-> loads + 1, period |-> p]
    <3>2. r \in Requests /\ requests' = Append(requests, r)
      BY <2>1, <2>2
    <3> HIDE DEF r
    <3>3. Append(requests, r) \in Seq(Requests) /\ Append(requests, r) # <<>>
      BY <3>1, <3>2, Added
    <3>4. QED
      BY <3>2, <3>3
  <2>4. exchange' \in Seq(Snapshot)
    BY <1>1 DEF KrakenStarts
  <2>5. known' \in [Trips -> Content]
    BY <1>1 DEF KrakenStarts, Content
  <2>6. QED
    BY <1>1, <2>1, <2>2, <2>3, <2>4, <2>5
    DEF KrakenStarts, TypeOK, Requests, handlers
<1>2. CASE KrakenLoads
  <2>1. known' \in [Trips -> Content]
    <3>1. answer \in Snapshot
      BY <1>2 DEF KrakenLoads, TypeOK
    <3>2. \A t \in Trips : (IF t \in DOMAIN answer THEN answer[t] ELSE 0) \in Content
      BY <3>1, InSnapshot DEF Content
    <3>3. QED
      BY <1>2, <3>2 DEF KrakenLoads
  <2>2. QED
    BY <1>2, <2>1 DEF KrakenLoads, TypeOK, handlers
<1>3. CASE KrakenApplies
  <2>1. exchange' \in Seq(Snapshot) /\ Head(exchange) \in Snapshot
    BY <1>3, Taken DEF KrakenApplies, TypeOK
  <2>2. known' \in [Trips -> Content]
    <3>1. \A t \in Trips : (IF t \in DOMAIN Head(exchange) THEN Head(exchange)[t]
                                                         ELSE known[t]) \in Content
      BY <2>1, InSnapshot DEF TypeOK
    <3>2. QED
      BY <1>3, <3>1 DEF KrakenApplies
  <2>3. QED
    BY <1>3, <2>1, <2>2 DEF KrakenApplies, TypeOK, handlers, reloader
<1>4. QED
  BY <1>1, <1>2, <1>3

LEMMA ReloaderTypes ==
    ASSUME TypeOK, ReadFull \/ SendFull \/ SendFullFails
    PROVE  TypeOK'
<1>1. CASE ReadFull
  <2> DEFINE p == requests[1].period
  <2>1. [t \in Found(p) |-> stored[t]] \in [Found(p) -> Content]
    BY DEF Found, TypeOK
  <2>2. reading' \in Snapshot
    BY <1>1, <2>1, SnapshotIs DEF ReadFull, Found
  <2>3. QED
    BY <1>1, <2>2 DEF ReadFull, TypeOK, handlers, navitia
<1>2. CASE SendFull
  <2>1. requests' \in Seq(Requests)
    BY <1>2, HeadTailProperties DEF SendFull, TypeOK, Requests
  <2>2. QED
    BY <1>2, <2>1 DEF SendFull, TypeOK, Requests, handlers, navitia
<1>3. CASE SendFullFails
  BY <1>3 DEF SendFullFails, TypeOK, handlers, navitia
<1>4. QED
  BY <1>1, <1>2, <1>3

\* No step leaves the types.
LEMMA NextTypes ==
    ASSUME TypeOK, Handled, [Next]_vars
    PROVE  TypeOK'
<1>1. CASE UNCHANGED vars
  BY <1>1 DEF vars, TypeOK
<1>2. CASE Quiet
  BY <1>1, <1>2 DEF Quiet
<1>3. QED
  BY <1>1, <1>2, CommitTypes, ReadBackTypes, PublishTypes, KrakenTypes, ReloaderTypes DEF Next

-----------------------------------------------------------------------------
(***************************************************************************)
(* The handlers and the requests                                           *)
(***************************************************************************)

\* A commit that finds another process with one of its trips makes it a raced one.
LEMMA NextHandled ==
    ASSUME TypeOK, Handled, [Next]_vars
    PROVE  Handled'
<1>1. ASSUME NEW w \in Workers, Commit(w) PROVE Handled'
  <2>1. PICK ts \in SUBSET Trips :
           /\ linked' = [linked EXCEPT ![w] = ts]
           /\ outgoing' = [outgoing EXCEPT ![w] = [t \in ts |-> 0]]
           /\ stored' = [t \in Trips |-> IF t \in ts THEN received + 1 ELSE stored[t]]
           /\ raced' = (raced \ ts) \cup {t \in ts : \E v \in Workers : t \in linked[v]}
    BY <1>1 DEF Commit
  <2>2. /\ pc' = [pc EXCEPT ![w] = "committed"]
        /\ feed' = [feed EXCEPT ![w] = received + 1]
        /\ received + 1 \in 1 .. MaxFeeds
        /\ linked[w] = {}
    BY <1>1 DEF Commit, TypeOK, Content, Handled
  <2>3. /\ \A v \in Workers : linked'[v] = IF v = w THEN ts ELSE linked[v]
        /\ \A v \in Workers : feed'[v] = IF v = w THEN received + 1 ELSE feed[v]
        /\ \A v \in Workers : pc'[v] = IF v = w THEN "committed" ELSE pc[v]
        /\ \A v \in Workers : v # w => outgoing'[v] = outgoing[v]
    BY <2>1, <2>2 DEF TypeOK
  <2>4. \A v \in Workers : pc'[v] = "idle" => linked'[v] = {}
    BY <2>3 DEF Handled
  <2>5. \A v \in Workers : pc'[v] # "idle" => feed'[v] \in 1 .. MaxFeeds
    BY <2>2, <2>3 DEF Handled
  <2>6. ASSUME NEW v \in Workers, NEW t \in linked'[v] \ raced'
        PROVE  IsAlone(v, t)'
    <3>1. CASE t \in ts
      <4>1. \A u \in Workers : t \notin linked[u]
        BY <2>1, <2>6, <3>1
      <4>2. v = w /\ \A u \in Workers : t \in linked'[u] => u = w
        BY <2>3, <2>6, <4>1
      <4>3. stored'[t] = received + 1
        BY <2>1, <3>1
      <4>4. QED
        BY <2>3, <4>2, <4>3 DEF IsAlone
    <3>2. CASE t \notin ts
      <4>1. v # w /\ t \in linked[v] \ raced /\ t \in Trips
        BY <2>1, <2>3, <2>6, <3>2 DEF TypeOK
      <4>2. IsAlone(v, t)
        BY <4>1 DEF Handled
      <4>3. stored'[t] = stored[t]
        BY <2>1, <3>2, <4>1
      <4>4. \A u \in Workers : t \in linked'[u] => u = v
        BY <2>3, <3>2, <4>2 DEF IsAlone
      <4>5. QED
        BY <2>3, <4>1, <4>2, <4>3, <4>4 DEF IsAlone
    <3>3. QED
      BY <3>1, <3>2
  <2>7. QED
    BY <2>4, <2>5, <2>6 DEF Handled
<1>2. ASSUME NEW w \in Workers, ReadBack(w) PROVE Handled'
  <2>1. /\ outgoing' = [outgoing EXCEPT ![w] = [t \in linked[w] |-> stored[t]]]
        /\ pc' = [pc EXCEPT ![w] = "read"]
        /\ pc[w] = "committed"
        /\ UNCHANGED <<stored, feed, linked, raced>>
    BY <1>2 DEF ReadBack
  <2>2. /\ \A v \in Workers : pc'[v] = IF v = w THEN "read" ELSE pc[v]
        /\ outgoing'[w] = [t \in linked[w] |-> stored[t]]
        /\ \A v \in Workers : v # w => outgoing'[v] = outgoing[v]
    BY <2>1 DEF TypeOK
  <2>3. ASSUME NEW v \in Workers, NEW t \in linked'[v] \ raced'
        PROVE  IsAlone(v, t)'
    <3>1. t \in linked[v] \ raced /\ IsAlone(v, t)
      BY <2>1, <2>3 DEF Handled
    <3>2. pc'[v] = "read" => outgoing'[v][t] = stored'[t]
      BY <2>1, <2>2, <3>1 DEF IsAlone
    <3>3. QED
      BY <2>1, <3>1, <3>2 DEF IsAlone
  <2>4. \A v \in Workers : /\ pc'[v] = "idle" => linked'[v] = {}
                           /\ pc'[v] # "idle" => feed'[v] \in 1 .. MaxFeeds
    BY <2>1, <2>2 DEF Handled
  <2>5. QED
    BY <2>3, <2>4 DEF Handled
<1>3. ASSUME NEW w \in Workers, Publish(w) \/ PublishFails(w) PROVE Handled'
  <2>1. /\ pc' = [pc EXCEPT ![w] = "idle"]
        /\ feed' = [feed EXCEPT ![w] = 0]
        /\ linked' = [linked EXCEPT ![w] = {}]
        /\ outgoing' = [outgoing EXCEPT ![w] = Nothing]
        /\ UNCHANGED <<stored, raced>>
    BY <1>3 DEF Publish, PublishFails, Leave
  <2>2. /\ \A v \in Workers : linked'[v] = IF v = w THEN {} ELSE linked[v]
        /\ \A v \in Workers : pc'[v] = IF v = w THEN "idle" ELSE pc[v]
        /\ \A v \in Workers : v # w => feed'[v] = feed[v] /\ outgoing'[v] = outgoing[v]
    BY <2>1 DEF TypeOK
  <2>3. ASSUME NEW v \in Workers, NEW t \in linked'[v] \ raced'
        PROVE  IsAlone(v, t)'
    <3>1. v # w /\ t \in linked[v] \ raced
      BY <2>1, <2>2, <2>3
    <3>2. IsAlone(v, t)
      BY <3>1 DEF Handled
    <3>3. QED
      BY <2>1, <2>2, <3>1, <3>2 DEF IsAlone
  <2>4. \A v \in Workers : /\ pc'[v] = "idle" => linked'[v] = {}
                           /\ pc'[v] # "idle" => feed'[v] \in 1 .. MaxFeeds
    BY <2>2 DEF Handled
  <2>5. QED
    BY <2>3, <2>4 DEF Handled
<1>4. CASE UNCHANGED handlers
  BY <1>4 DEF Handled, IsAlone, handlers
<1>5. QED
  BY <1>1, <1>2, <1>3, <1>4
  DEF Next, KrakenStarts, KrakenLoads, KrakenApplies, ReadFull, SendFull, SendFullFails,
      Quiet, vars, handlers

\* A new load asks after the others, under a name of its own.
LEMMA NextAsked ==
    ASSUME TypeOK, Asked, [Next]_vars
    PROVE  Asked'
<1>1. CASE KrakenStarts
  <2>1. PICK p \in Periods :
           /\ period' = p
           /\ requests' = Append(requests, [load |-> loads + 1, period |-> p])
    BY <1>1 DEF KrakenStarts
  <2>2. [load |-> loads + 1, period |-> p] \in Requests /\ loads \in Nat /\ loads' = loads + 1
    BY <1>1 DEF KrakenStarts, TypeOK, Requests
  <2>3. requests \in Seq(Requests)
    BY DEF TypeOK, Requests
  <2>4. /\ DOMAIN requests' = 1 .. Len(requests) + 1
        /\ DOMAIN requests = 1 .. Len(requests)
        /\ \A i \in DOMAIN requests : requests'[i] = requests[i]
        /\ requests'[Len(requests) + 1] = [load |-> loads + 1, period |-> p]
        /\ Len(requests) \in Nat
    BY <2>1, <2>2, <2>3, Added
  <2>5. ASSUME NEW i \in DOMAIN requests'
        PROVE  /\ requests'[i].load <= loads'
               /\ requests'[i].load = loads' => requests'[i].period = period'
    <3>1. CASE i = Len(requests) + 1
      BY <2>1, <2>2, <2>4, <3>1
    <3>2. CASE i \in DOMAIN requests
      <4>1. requests[i] \in Requests
        BY <3>2, <2>3, <2>4, ElementOfSeq
      <4>2. requests[i].load <= loads /\ requests[i].load \in Nat
        BY <3>2, <4>1 DEF Asked, Requests
      <4>3. QED
        BY <2>2, <2>4, <3>2, <4>2
    <3>3. QED
      BY <2>4, <3>1, <3>2
  <2>6. kraken' # "down"
    BY <1>1 DEF KrakenStarts
  <2>7. QED
    BY <2>5, <2>6 DEF Asked
<1>2. CASE SendFull
  <2>1. requests \in Seq(Requests) /\ requests # <<>>
    BY <1>2 DEF SendFull, TypeOK, Requests
  <2>2. \A i \in DOMAIN requests' : i + 1 \in DOMAIN requests /\ requests'[i] = requests[i + 1]
    BY <1>2, <2>1, Taken DEF SendFull
  <2>3. kraken' # "down"
    BY <1>2, <2>1 DEF Asked, SendFull, navitia
  <2>4. QED
    BY <1>2, <2>2, <2>3 DEF Asked, SendFull, navitia
<1>3. CASE KrakenLoads \/ KrakenApplies \/ ReadFull \/ SendFullFails \/ UNCHANGED vars
  BY <1>3 DEF KrakenLoads, KrakenApplies, ReadFull, SendFullFails, vars, Asked, navitia,
              reloader
<1>4. ASSUME NEW w \in Workers, Commit(w) \/ ReadBack(w) \/ Publish(w) \/ PublishFails(w)
      PROVE  Asked'
  BY <1>4 DEF Commit, ReadBack, Publish, PublishFails, Asked, navitia, reloader
<1>5. QED
  BY <1>1, <1>2, <1>3, <1>4 DEF Next, Quiet

-----------------------------------------------------------------------------
(***************************************************************************)
(* What is on its way                                                      *)
(***************************************************************************)

\* A commit of other trips is nothing to a trip.
LEMMA CommitIsOfLinked ==
    ASSUME TypeOK, Handled, NEW w \in Workers, Commit(w),
           NEW t \in Trips, ~IsLinked(t)'
    PROVE  ~IsLinked(t) /\ stored'[t] = stored[t] /\ (t \in raced' <=> t \in raced)
<1>1. PICK ts \in SUBSET Trips :
         /\ linked' = [linked EXCEPT ![w] = ts]
         /\ stored' = [u \in Trips |-> IF u \in ts THEN received + 1 ELSE stored[u]]
         /\ raced' = (raced \ ts) \cup {u \in ts : \E v \in Workers : u \in linked[v]}
  BY DEF Commit
<1>2. \A v \in Workers : linked'[v] = IF v = w THEN ts ELSE linked[v]
  BY <1>1 DEF TypeOK
<1>3. linked[w] = {}
  BY DEF Commit, Handled
<1>4. t \notin ts /\ \A v \in Workers : t \notin linked[v]
  BY <1>2, <1>3 DEF IsLinked
<1>5. QED
  BY <1>1, <1>4 DEF IsLinked

\* A handler that leaves frees the trips of its feed and no others.
LEMMA LeavesItsTrips ==
    ASSUME TypeOK, Handled, NEW w \in Workers, Leave(w),
           NEW t \in Trips, ~IsLinked(t)', t \notin linked[w]
    PROVE  ~IsLinked(t)
<1>1. \A v \in Workers : v # w => linked'[v] = linked[v]
  BY DEF Leave, TypeOK
<1>2. QED
  BY <1>1 DEF IsLinked

LEMMA SameTrail ==
    ASSUME UNCHANGED exchange, NEW t, stored'[t] = stored[t]
    PROVE  /\ PositionsOf(t)' = PositionsOf(t)
           /\ EndsStored(t) => EndsStored(t)'
<1>1. PositionsOf(t)' = PositionsOf(t)
  BY DEF PositionsOf
<1>2. QED
  BY <1>1 DEF EndsStored

\* A publication is about the trips of its feed, and puts them last.
LEMMA PublishedIsLast ==
    ASSUME TypeOK, Handled, NEW w \in Workers, Publish(w), kraken # "down",
           NEW t \in Trips
    PROVE  /\ t \in linked[w] \ raced => EndsStored(t)'
           /\ t \in linked[w] => PositionsOf(t)' # {}
           /\ t \notin linked[w] => /\ PositionsOf(t)' = PositionsOf(t)
                                    /\ EndsStored(t) => EndsStored(t)'
<1> DEFINE n == Len(exchange)
<1>1. exchange' = Append(exchange, outgoing[w]) /\ stored' = stored /\ pc[w] = "read"
  BY DEF Publish
<1>2. exchange \in Seq(Snapshot) /\ outgoing[w] \in Snapshot /\ DOMAIN outgoing[w] = linked[w]
  BY DEF TypeOK
<1>3. /\ n \in Nat
      /\ DOMAIN exchange = 1 .. n
      /\ DOMAIN exchange' = 1 .. n + 1
      /\ \A i \in 1 .. n : exchange'[i] = exchange[i]
      /\ exchange'[n + 1] = outgoing[w]
  BY <1>1, <1>2, Added
<1>4. ASSUME t \in linked[w] \ raced PROVE EndsStored(t)'
  <2>1. n + 1 \in PositionsOf(t)'
    BY <1>2, <1>3, <1>4 DEF PositionsOf
  <2>2. exchange'[n + 1][t] = stored'[t]
    BY <1>1, <1>3, <1>4 DEF Handled, IsAlone
  <2>3. \A j \in PositionsOf(t)' : j <= n + 1
    BY <1>3 DEF PositionsOf
  <2>4. QED
    BY <2>1, <2>2, <2>3 DEF EndsStored
<1>5. ASSUME t \notin linked[w]
      PROVE  PositionsOf(t)' = PositionsOf(t) /\ (EndsStored(t) => EndsStored(t)')
  <2>1. \A i \in DOMAIN exchange' :
           t \in DOMAIN exchange'[i] <=> i \in DOMAIN exchange /\ t \in DOMAIN exchange[i]
    <3>1. ~(t \in DOMAIN exchange'[n + 1])
      BY <1>2, <1>3, <1>5
    <3>2. \A i \in 1 .. n + 1 : i = n + 1 \/ i \in 1 .. n
      BY <1>3
    <3>3. n + 1 \notin 1 .. n
      BY <1>3
    <3>4. QED
      BY <1>3, <3>1, <3>2, <3>3
  <2>2. DOMAIN exchange \subseteq DOMAIN exchange'
    BY <1>3
  <2>3. PositionsOf(t)' = PositionsOf(t)
    BY <2>1, <2>2 DEF PositionsOf
  <2>4. \A i \in PositionsOf(t) : exchange'[i] = exchange[i]
    BY <1>3 DEF PositionsOf
  <2>5. QED
    BY <1>1, <2>3, <2>4 DEF EndsStored
<1>6. t \in linked[w] => PositionsOf(t)' # {}
  BY <1>2, <1>3 DEF PositionsOf
<1>7. QED
  BY <1>4, <1>5, <1>6

\* Nothing comes after the last one because the first one is taken.
LEMMA AppliedIsFirst ==
    ASSUME TypeOK, KrakenApplies, NEW t \in Trips
    PROVE  /\ PositionsOf(t) = {i + 1 : i \in PositionsOf(t)'}
                                  \cup (IF t \in DOMAIN Head(exchange) THEN {1} ELSE {})
           /\ PositionsOf(t)' # {} /\ EndsStored(t) => EndsStored(t)'
           /\ PositionsOf(t)' = {} /\ EndsStored(t) =>
                 t \in DOMAIN Head(exchange) /\ Head(exchange)[t] = stored[t]
<1> DEFINE n == Len(exchange)
<1>1. exchange' = Tail(exchange) /\ exchange # <<>> /\ stored' = stored
  BY DEF KrakenApplies, handlers
<1>2. exchange \in Seq(Snapshot)
  BY DEF TypeOK
<1>3. /\ n \in Nat \ {0}
      /\ DOMAIN exchange = 1 .. n
      /\ DOMAIN exchange' = 1 .. n - 1
      /\ \A i \in 1 .. n - 1 : exchange'[i] = exchange[i + 1]
      /\ Head(exchange) = exchange[1]
  BY <1>1, <1>2, Taken
<1>4. \A i \in PositionsOf(t) : i = 1 \/ (i - 1) \in PositionsOf(t)'
  <2> SUFFICES ASSUME NEW i \in PositionsOf(t), i # 1 PROVE (i - 1) \in PositionsOf(t)'
    OBVIOUS
  <2>1. i \in 1 .. n /\ t \in DOMAIN exchange[i]
    BY <1>3 DEF PositionsOf
  <2>2. i - 1 \in 1 .. n - 1 /\ (i - 1) + 1 = i
    BY <1>3, <2>1
  <2>3. exchange'[i - 1] = exchange[i]
    BY <1>3, <2>2
  <2>4. QED
    BY <1>3, <2>1, <2>2, <2>3 DEF PositionsOf
<1>5. \A i \in PositionsOf(t)' : /\ i \in Nat /\ i + 1 \in PositionsOf(t)
                                 /\ exchange'[i] = exchange[i + 1]
  <2> SUFFICES ASSUME NEW i \in PositionsOf(t)'
               PROVE  i \in Nat /\ i + 1 \in PositionsOf(t) /\ exchange'[i] = exchange[i + 1]
    OBVIOUS
  <2>1. i \in 1 .. n - 1 /\ t \in DOMAIN exchange'[i]
    BY <1>3 DEF PositionsOf
  <2>2. i + 1 \in 1 .. n /\ exchange'[i] = exchange[i + 1]
    BY <1>3, <2>1
  <2>3. QED
    BY <1>3, <2>1, <2>2 DEF PositionsOf
<1>6. 1 \in PositionsOf(t) <=> t \in DOMAIN Head(exchange)
  BY <1>3 DEF PositionsOf
<1>7. \A i \in PositionsOf(t) : i \in Nat
  BY <1>3 DEF PositionsOf
<1>8. PositionsOf(t) = {i + 1 : i \in PositionsOf(t)'}
                          \cup (IF t \in DOMAIN Head(exchange) THEN {1} ELSE {})
  <2>1. ASSUME NEW i \in PositionsOf(t)
        PROVE  i \in {j + 1 : j \in PositionsOf(t)'}
                       \cup (IF t \in DOMAIN Head(exchange) THEN {1} ELSE {})
    <3>1. CASE i = 1
      BY <1>6, <3>1
    <3>2. CASE i # 1
      <4>1. (i - 1) \in PositionsOf(t)' /\ (i - 1) + 1 = i
        BY <1>4, <1>7, <3>2
      <4>2. QED
        BY <4>1
    <3>3. QED
      BY <3>1, <3>2
  <2>2. QED
    BY <1>5, <1>6, <2>1
<1>9. ASSUME PositionsOf(t)' # {}, EndsStored(t) PROVE EndsStored(t)'
  <2>1. PICK i \in PositionsOf(t) :
           exchange[i][t] = stored[t] /\ \A j \in PositionsOf(t) : j <= i
    BY <1>9 DEF EndsStored
  <2>2. PICK k \in PositionsOf(t)' : TRUE
    BY <1>9
  <2>3. k + 1 <= i /\ k \in Nat /\ k # 0
    BY <1>3, <1>5, <2>1, <2>2 DEF PositionsOf
  <2>4. i # 1 /\ (i - 1) \in PositionsOf(t)' /\ (i - 1) + 1 = i
    BY <1>4, <1>7, <2>1, <2>3
  <2>5. exchange'[i - 1][t] = stored'[t]
    BY <1>1, <1>5, <2>1, <2>4
  <2>6. \A j \in PositionsOf(t)' : j <= i - 1
    <3>1. \A j \in PositionsOf(t)' : j \in Nat /\ j + 1 <= i
      BY <1>5, <2>1
    <3>2. QED
      BY <3>1, <1>7, <2>1
  <2>7. QED
    BY <2>4, <2>5, <2>6 DEF EndsStored
<1>10. ASSUME PositionsOf(t)' = {}, EndsStored(t)
       PROVE  t \in DOMAIN Head(exchange) /\ Head(exchange)[t] = stored[t]
  <2>1. PICK i \in PositionsOf(t) : exchange[i][t] = stored[t]
    BY <1>10 DEF EndsStored
  <2>2. i = 1
    BY <1>4, <1>10, <2>1
  <2>3. QED
    BY <1>3, <1>6, <2>1, <2>2
<1>11. QED
  BY <1>8, <1>9, <1>10

LEMMA NextLastIsStored ==
    ASSUME TypeOK, Handled, Asked, LastIsStored, [Next]_vars
    PROVE  LastIsStored'
<1> SUFFICES ASSUME NEW t \in Trips, t \notin raced', ~IsLinked(t)', (stored[t] \notin lost)',
                    (PositionsOf(t) # {})'
             PROVE  EndsStored(t)'
  BY DEF LastIsStored
<1>1. ASSUME NEW w \in Workers, Commit(w) PROVE EndsStored(t)'
  <2>1. ~IsLinked(t) /\ stored'[t] = stored[t] /\ t \notin raced
    BY <1>1, CommitIsOfLinked
  <2>2. UNCHANGED <<exchange, lost>>
    BY <1>1 DEF Commit
  <2>3. QED
    BY <2>1, <2>2, SameTrail DEF LastIsStored
<1>2. ASSUME NEW w \in Workers, Publish(w) PROVE EndsStored(t)'
  <2>1. Leave(w) /\ UNCHANGED <<stored, lost, raced>>
    BY <1>2 DEF Publish
  <2>2. CASE kraken = "down"
    <3>1. exchange' = <<>>
      BY <1>2, <2>2 DEF Publish, Asked
    <3>2. QED
      BY <3>1 DEF PositionsOf
  <2>3. CASE kraken # "down" /\ t \in linked[w]
    BY <1>2, <2>1, <2>3, PublishedIsLast
  <2>4. CASE kraken # "down" /\ t \notin linked[w]
    <3>1. ~IsLinked(t)
      BY <2>1, <2>4, LeavesItsTrips
    <3>2. PositionsOf(t)' = PositionsOf(t) /\ (EndsStored(t) => EndsStored(t)')
      BY <1>2, <2>4, PublishedIsLast
    <3>3. QED
      BY <2>1, <3>1, <3>2 DEF LastIsStored
  <2>5. QED
    BY <2>2, <2>3, <2>4
<1>3. ASSUME NEW w \in Workers, PublishFails(w) PROVE EndsStored(t)'
  <2>1. Leave(w) /\ UNCHANGED <<stored, exchange, raced>>
    BY <1>3 DEF PublishFails
  <2>2. lost' = lost \cup {feed[w]}
    BY <1>3 DEF PublishFails
  <2>3. t \notin linked[w] /\ stored[t] \notin lost
    BY <2>1, <2>2 DEF Handled, IsAlone
  <2>4. ~IsLinked(t)
    BY <2>1, <2>3, LeavesItsTrips
  <2>5. QED
    BY <2>1, <2>3, <2>4, SameTrail DEF LastIsStored
<1>4. CASE KrakenStarts
  <2>1. exchange' = <<>>
    BY <1>4 DEF KrakenStarts
  <2>2. QED
    BY <2>1 DEF PositionsOf
<1>5. CASE KrakenApplies
  <2>1. UNCHANGED <<stored, linked, lost, raced>>
    BY <1>5 DEF KrakenApplies, handlers
  <2>2. ~IsLinked(t) /\ stored[t] \notin lost
    BY <2>1 DEF IsLinked
  <2>3. PositionsOf(t) # {}
    <3>1. PICK i \in PositionsOf(t)' : TRUE
      OBVIOUS
    <3>2. i + 1 \in PositionsOf(t)
      BY <1>5, <3>1, AppliedIsFirst
    <3>3. QED
      BY <3>2
  <2>4. QED
    BY <1>5, <2>1, <2>2, <2>3, AppliedIsFirst DEF LastIsStored
<1>6. CASE UNCHANGED <<stored, linked, lost, exchange, raced>>
  <2>1. ~IsLinked(t) /\ stored[t] \notin lost
    BY <1>6 DEF IsLinked
  <2>2. QED
    BY <1>6, <2>1, SameTrail DEF LastIsStored
<1>7. QED
  BY <1>1, <1>2, <1>3, <1>4, <1>5, <1>6
  DEF Next, ReadBack, KrakenLoads, ReadFull, SendFull, SendFullFails, Quiet, vars, handlers

-----------------------------------------------------------------------------
(***************************************************************************)
(* What the kraken has                                                     *)
(***************************************************************************)

\* A trip that is not in flight is in no feed being handled, nor in the queue.
LEMMA InFlightIs ==
    ASSUME NEW t \in Trips
    PROVE  t \in InFlight <=> IsLinked(t) \/ PositionsOf(t) # {}
  BY DEF InFlight, IsLinked, PositionsOf

\* A snapshot that suffices goes on doing so whatever the handlers do: what they
\* change is in flight, unless it is never published.
LEMMA HandlersSuffice ==
    ASSUME TypeOK, Handled, NEW w \in Workers,
           Commit(w) \/ ReadBack(w) \/ Publish(w) \/ PublishFails(w),
           kraken # "down", NEW s, NEW p, Suffices(s, p)
    PROVE  Suffices(s, p)'
<1> SUFFICES ASSUME NEW t \in Trips, (t \notin InFlight)', t \notin raced', IsIn(p, t)
             PROVE  ContentIn(s, t) = stored'[t] \/ stored'[t] \in lost'
  BY DEF Suffices, IsIn, ContentIn
<1>1. ~IsLinked(t)' /\ PositionsOf(t)' = {}
  BY InFlightIs DEF InFlight, IsLinked, PositionsOf
<1>2. ASSUME ~IsLinked(t), PositionsOf(t) = {}, t \notin raced,
             stored'[t] = stored[t], lost \subseteq lost'
      PROVE  ContentIn(s, t) = stored'[t] \/ stored'[t] \in lost'
  BY <1>2, InFlightIs DEF Suffices
<1>3. CASE Commit(w)
  <2>1. ~IsLinked(t) /\ stored'[t] = stored[t] /\ t \notin raced
    BY <1>1, <1>3, CommitIsOfLinked
  <2>2. UNCHANGED <<exchange, lost>>
    BY <1>3 DEF Commit
  <2>3. PositionsOf(t)' = PositionsOf(t)
    BY <2>1, <2>2, SameTrail
  <2>4. QED
    BY <1>1, <1>2, <2>1, <2>2, <2>3
<1>4. CASE ReadBack(w)
  <2>1. UNCHANGED <<stored, linked, exchange, lost, raced>>
    BY <1>4 DEF ReadBack
  <2>2. ~IsLinked(t) /\ PositionsOf(t) = {}
    BY <1>1, <2>1 DEF IsLinked, PositionsOf
  <2>3. QED
    BY <1>2, <2>1, <2>2
<1>5. CASE Publish(w)
  <2>1. Leave(w) /\ UNCHANGED <<stored, lost, raced>>
    BY <1>5 DEF Publish
  <2>2. t \notin linked[w]
    BY <1>1, <1>5, PublishedIsLast
  <2>3. ~IsLinked(t)
    BY <1>1, <2>1, <2>2, LeavesItsTrips
  <2>4. PositionsOf(t) = {}
    BY <1>1, <1>5, <2>2, PublishedIsLast
  <2>5. QED
    BY <1>2, <2>1, <2>3, <2>4
<1>6. CASE PublishFails(w)
  <2>1. Leave(w) /\ UNCHANGED <<stored, exchange, raced>>
    BY <1>6 DEF PublishFails
  <2>2. lost' = lost \cup {feed[w]}
    BY <1>6 DEF PublishFails
  <2>3. CASE t \in linked[w]
    BY <2>1, <2>2, <2>3 DEF Handled, IsAlone
  <2>4. CASE t \notin linked[w]
    <3>1. ~IsLinked(t)
      BY <1>1, <2>1, <2>4, LeavesItsTrips
    <3>2. PositionsOf(t) = {}
      BY <1>1, <2>1, SameTrail
    <3>3. QED
      BY <1>2, <2>1, <2>2, <3>1, <3>2
  <2>5. QED
    BY <2>3, <2>4
<1>7. QED
  BY <1>3, <1>4, <1>5, <1>6

\* What was read and what was sent still suffice if nothing happens to the trips.
LEMMA StillSuffices ==
    ASSUME UNCHANGED <<stored, linked, lost, exchange, raced>>, NEW s, NEW p, Suffices(s, p)
    PROVE  Suffices(s, p)'
  BY DEF Suffices, InFlight, IsIn, ContentIn

\* What the kraken takes from its queue is the last of it, or leaves the trip as it is.
LEMMA AppliesSuffices ==
    ASSUME TypeOK, LastIsStored, KrakenApplies, Suffices(known, period)
    PROVE  Suffices(known, period)'
<1>1. /\ known' = [t \in Trips |-> IF t \in DOMAIN Head(exchange) THEN Head(exchange)[t]
                                                                ELSE known[t]]
      /\ UNCHANGED <<stored, linked, lost, period, raced>>
  BY DEF KrakenApplies, handlers
<1>2. DOMAIN known = Trips
  BY DEF TypeOK
<1>3. ASSUME NEW t \in Trips \ raced, ~IsLinked(t)', PositionsOf(t)' = {}, IsIn(period, t)
      PROVE  known'[t] = stored[t] \/ stored[t] \in lost
  <2>1. ~IsLinked(t)
    BY <1>1, <1>3 DEF IsLinked
  <2>2. CASE t \in DOMAIN Head(exchange)
    <3>1. PositionsOf(t) # {}
      BY <2>2, AppliedIsFirst
    <3>2. stored[t] \notin lost => EndsStored(t)
      BY <2>1, <3>1 DEF LastIsStored
    <3>3. QED
      BY <1>1, <1>3, <2>2, <3>2, AppliedIsFirst
  <2>3. CASE t \notin DOMAIN Head(exchange)
    <3>1. PositionsOf(t) = {}
      BY <1>3, <2>3, AppliedIsFirst
    <3>2. t \notin InFlight
      BY <2>1, <3>1, InFlightIs
    <3>3. QED
      BY <1>1, <1>2, <1>3, <2>3, <3>2 DEF Suffices, ContentIn
  <2>4. QED
    BY <2>2, <2>3
<1>4. \A t \in Trips : (t \notin InFlight)' => ~IsLinked(t)' /\ PositionsOf(t)' = {}
  BY InFlightIs DEF InFlight, IsLinked, PositionsOf
<1>5. QED
  BY <1>1, <1>3, <1>4 DEF Suffices, ContentIn, IsIn

LEMMA NextNothingFallsThrough ==
    ASSUME TypeOK, Handled, Asked, LastIsStored, NothingFallsThrough, [Next]_vars
    PROVE  NothingFallsThrough'
<1>1. ASSUME NEW w \in Workers,
             Commit(w) \/ ReadBack(w) \/ Publish(w) \/ PublishFails(w)
      PROVE  NothingFallsThrough'
  <2>1. UNCHANGED <<requests, reading, answer, kraken, loads, period, known>>
    BY <1>1 DEF Commit, ReadBack, Publish, PublishFails, reloader, navitia
  <2>2. CASE kraken = "down"
    BY <2>1, <2>2 DEF NothingFallsThrough
  <2>3. CASE kraken # "down"
    <3>1. Suffices(reading, period) => Suffices(reading, period)'
      BY <1>1, <2>1, <2>3, HandlersSuffice
    <3>2. Suffices(answer, period) => Suffices(answer, period)'
      BY <1>1, <2>1, <2>3, HandlersSuffice
    <3>3. Suffices(known, period) => Suffices(known, period)'
      BY <1>1, <2>1, <2>3, HandlersSuffice
    <3>4. QED
      BY <2>1, <3>1, <3>2, <3>3 DEF NothingFallsThrough
  <2>4. QED
    BY <2>2, <2>3
<1>2. CASE KrakenStarts
  <2>1. kraken' = "loading" /\ answer' = None /\ reading' = reading /\ loads' = loads + 1
    BY <1>2 DEF KrakenStarts
  <2>2. ASSUME reading # None PROVE requests'[1].load # loads'
    <3>1. requests \in Seq(Requests) /\ requests # <<>> /\ loads \in Nat /\ loads < MaxLoads
      BY <1>2, <2>2 DEF TypeOK, Requests, KrakenStarts
    <3>2. PICK p \in Periods :
             requests' = Append(requests, [load |-> loads + 1, period |-> p])
      BY <1>2 DEF KrakenStarts
    <3>3. [load |-> loads + 1, period |-> p] \in Requests
      BY <3>1 DEF Requests
    <3>4. 1 \in DOMAIN requests /\ requests[1] \in Requests /\ requests'[1] = requests[1]
      BY <3>1, <3>2, <3>3, Added, Taken
    <3>5. requests[1].load <= loads /\ requests[1].load \in Nat
      BY <3>4 DEF Asked, Requests
    <3>6. QED
      BY <2>1, <3>1, <3>4, <3>5
  <2>3. QED
    BY <2>1, <2>2 DEF NothingFallsThrough
<1>3. CASE KrakenLoads
  <2>1. /\ known' = [t \in Trips |-> IF t \in DOMAIN answer THEN answer[t] ELSE 0]
        /\ kraken' = "up" /\ Suffices(answer, period)
        /\ UNCHANGED <<stored, linked, lost, exchange, period, raced>>
    BY <1>3 DEF KrakenLoads, NothingFallsThrough, handlers
  <2>2. Suffices(known, period)'
    BY <2>1 DEF Suffices, ContentIn, InFlight, IsIn
  <2>3. QED
    BY <2>1, <2>2 DEF NothingFallsThrough
<1>4. CASE KrakenApplies
  <2>1. kraken = "up" /\ kraken' = "up" /\ Suffices(known, period) /\ period' = period
    BY <1>4 DEF KrakenApplies, NothingFallsThrough
  <2>2. QED
    BY <1>4, <2>1, AppliesSuffices DEF NothingFallsThrough
<1>5. CASE ReadFull
  <2>1. /\ reading' = [t \in Found(requests[1].period) |-> stored[t]]
        /\ UNCHANGED <<stored, linked, lost, exchange, requests, answer, kraken, loads, period,
                       known, raced>>
    BY <1>5 DEF ReadFull, handlers, navitia
  <2>2. requests[1].load = loads => requests[1].period = period
    BY <1>5, Taken DEF ReadFull, Asked, TypeOK
  <2>3. Suffices([t \in Found(period) |-> stored[t]], period)
    BY DEF Suffices, ContentIn, Found
  <2>4. requests[1].load = loads => Suffices(reading', period)
    BY <2>1, <2>2, <2>3
  <2>5. requests[1].load = loads => Suffices(reading, period)'
    BY <2>1, <2>4 DEF Suffices, ContentIn, InFlight, IsIn
  <2>6. kraken = "loading" /\ answer # None => Suffices(answer, period)'
    BY <2>1, StillSuffices DEF NothingFallsThrough
  <2>7. kraken = "up" => Suffices(known, period)'
    BY <2>1, StillSuffices DEF NothingFallsThrough
  <2>8. QED
    BY <2>1, <2>5, <2>6, <2>7 DEF NothingFallsThrough
<1>6. CASE SendFull
  <2>1. /\ answer' = IF requests[1].load = loads /\ kraken = "loading" THEN reading ELSE answer
        /\ reading # None /\ reading' = None
        /\ UNCHANGED <<stored, linked, lost, exchange, kraken, loads, period, known, raced>>
    BY <1>6 DEF SendFull, handlers, navitia
  <2>2. kraken = "loading" /\ answer' # None => Suffices(answer', period)
    BY <2>1 DEF NothingFallsThrough
  <2>3. kraken = "loading" /\ answer' # None => Suffices(answer, period)'
    BY <2>1, <2>2 DEF Suffices, ContentIn, InFlight, IsIn
  <2>4. kraken = "up" => Suffices(known, period)'
    BY <2>1, StillSuffices DEF NothingFallsThrough
  <2>5. QED
    BY <2>1, <2>3, <2>4 DEF NothingFallsThrough
<1>7. CASE SendFullFails \/ UNCHANGED vars
  <2>1. /\ reading' = None \/ reading' = reading
        /\ UNCHANGED <<stored, linked, lost, exchange, requests, answer, kraken, loads, period,
                       known, raced>>
    BY <1>7 DEF SendFullFails, vars, handlers, navitia
  <2>2. \A s : Suffices(s, period) => Suffices(s, period)'
    BY <2>1, StillSuffices
  <2>3. QED
    BY <2>1, <2>2 DEF NothingFallsThrough
<1>8. QED
  BY <1>1, <1>2, <1>3, <1>4, <1>5, <1>6, <1>7 DEF Next, Quiet

-----------------------------------------------------------------------------
(***************************************************************************)
(* The theorems                                                            *)
(***************************************************************************)

LEMMA InitInv == Init => Inv
<1> SUFFICES ASSUME Init PROVE Inv
  OBVIOUS
<1>1. TypeOK
  BY InitTypes
<1>2. Handled
  BY DEF Init, Handled
<1>3. Asked
  BY DEF Init, Asked
<1>4. \A t : PositionsOf(t) = {}
  BY DEF Init, PositionsOf
<1>5. LastIsStored
  BY <1>4 DEF LastIsStored
<1>6. NothingFallsThrough
  BY DEF Init, NothingFallsThrough
<1>7. QED
  BY <1>1, <1>2, <1>3, <1>5, <1>6 DEF Inv

\* Inv is inductive: the handlers, the reloader and the kraken keep it, whatever
\* their order and whatever fails.
THEOREM ReloadInvariant == Spec => []Inv
<1>1. Inv /\ [Next]_vars => Inv'
  BY NextTypes, NextHandled, NextAsked, NextLastIsStored, NextNothingFallsThrough DEF Inv
<1>2. QED
  BY <1>1, InitInv, PTL DEF Spec

\* Every queue holds what its readers expect, and only one request is served at a time.
THEOREM TypesAreKept == Spec => []TypeOK
<1>1. Inv => TypeOK
  BY DEF Inv
<1>2. QED
  BY <1>1, ReloadInvariant, PTL

\* The last content of a trip on its way to a kraken is the stored one, unless the
\* feed that stored it was never published, or was committed while another one of
\* the trip was not yet published.
THEOREM TheLastFeedIsLast == Spec => []LastOnTheWayIsStored
<1>1. Inv => LastOnTheWayIsStored
  BY DEF Inv, LastIsStored, EndsStored, PositionsOf, IsLinked, LastOnTheWayIsStored
<1>2. QED
  BY <1>1, ReloadInvariant, PTL

\* A kraken that has loaded the trips of a period lags behind the database only on
\* trips whose last feed is on its way, was never published or was handled at the
\* same time as another one, for any number of processes, trips, feeds, loads and
\* faults.
THEOREM TheKrakenCatchesUp == Spec => []KrakenCatchesUp
<1>1. Inv => KrakenCatchesUp
  BY DEF Inv, TypeOK, NothingFallsThrough, Suffices, ContentIn, KrakenCatchesUp
<1>2. QED
  BY <1>1, ReloadInvariant, PTL

=============================================================================
