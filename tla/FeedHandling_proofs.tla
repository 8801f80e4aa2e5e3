------------------------- MODULE FeedHandling_proofs -------------------------
(***************************************************************************)
(* Proofs about FeedHandling, for any number of processes, trips and feeds.*)
(***************************************************************************)
EXTENDS FeedHandling, FiniteSetTheorems, TLAPS

USE FeedHandlingAssumption

-----------------------------------------------------------------------------
(***************************************************************************)
(* What the operators return.                                              *)
(***************************************************************************)

\* A feed only lists trips, each with a well-formed entry.
LEMMA EntryType ==
    ASSUME NEW p \in Payloads \cup {Nothing}, NEW t \in DOMAIN p.entries
    PROVE  t \in Trips /\ p.entries[t] \in Entry
<1>1. CASE p = Nothing
  BY <1>1 DEF Nothing
<1>2. CASE p \in Payloads
  <2>1. p \in Payload
    BY <1>2 DEF FeedHandlingAssumption
  <2>2. PICK D \in SUBSET Trips : p.entries \in [D -> Entry]
    BY <2>1 DEF Payload
  <2>3. QED
    BY <2>2
<1>3. QED
  BY <1>1, <1>2

\* The rows a feed inserts belong to it.
LEMMA RowsOfType ==
    ASSUME NEW f \in Feeds, NEW S \in SUBSET StopLists
    PROVE  RowsOf(f, S) \in SUBSET Row
BY DEF RowsOf, Row

\* A stored trip reads as a content.
LEMMA ContentType ==
    ASSUME TypeOK, NEW t \in Trips, tripRow[t] # NoTrip
    PROVE  ContentOf(t) \in Content
<1>1. {r.stops : r \in stopRows[t]} \in SUBSET StopLists
  BY DEF TypeOK, Row
<1>2. tripRow[t] \in Heads
  BY DEF TypeOK
<1>3. QED
  BY <1>1, <1>2 DEF ContentOf, Content

\* The merge of a trip gives a well-formed change.
LEMMA MergeTripType ==
    ASSUME TypeOK, NEW w \in Workers, NEW t \in Mentioned(w), NEW u \in BOOLEAN,
           feed[w] \in Feeds
    PROVE  t \in Trips /\ MergeTrip(w, t, u) \in Change
<1> DEFINE e == payload[w].entries[t]
<1>1. t \in Trips /\ e \in Entry
  BY EntryType DEF Mentioned, TypeOK
<1>2. e.head \in Heads /\ e.stops \in SUBSET StopLists
  BY <1>1 DEF Entry
<1>3. RowsOf(feed[w], e.stops) \in SUBSET Row
  BY <1>2, RowsOfType
<1>4. FirstTime(w, e) \in Change
  BY <1>2, <1>3 DEF FirstTime, Change, NoChange
<1>5. stopRows[t] \in SUBSET Row /\ tripRow[t] \in Heads \cup {NoTrip}
  BY <1>1 DEF TypeOK
<1>6. Again(w, t, e, u) \in Change
  <2>1. (~u /\ Consistent(e)) \in BOOLEAN
    BY DEF Consistent
  <2>2. QED
    BY <1>2, <1>3, <1>5, <2>1 DEF Again, Change
<1>7. QED
  BY <1>1, <1>4, <1>6 DEF MergeTrip

\* A merge that goes to its end and one that raises leave merged trips to be written.
Merges(w) == FindAndMerge(w) \/ FindAndMergeFails(w)

LEMMA MergesAre ==
    ASSUME NEW w \in Workers, Merges(w)
    PROVE  \E trips \in SUBSET Mentioned(w), unchanged \in SUBSET Mentioned(w) :
              pending' = [pending EXCEPT ![w] = MergedTrips(w, trips, unchanged)]
<1>1. CASE FindAndMerge(w)
  BY <1>1 DEF FindAndMerge
<1>2. CASE FindAndMergeFails(w)
  <2>1. PICK at \in Mentioned(w), done \in SUBSET Mentioned(w), unchanged \in SUBSET Mentioned(w) :
           pending' = [pending EXCEPT ![w] =
              MergedTrips(w, done \cup {t \in {at} : tripRow[t] # NoTrip}, unchanged \cup {at})]
    BY <1>2 DEF FindAndMergeFails
  <2>2. /\ done \cup {t \in {at} : tripRow[t] # NoTrip} \in SUBSET Mentioned(w)
        /\ unchanged \cup {at} \in SUBSET Mentioned(w)
    OBVIOUS
  <2>3. QED
    BY <2>1, <2>2
<1>3. QED
  BY <1>1, <1>2 DEF Merges

\* A process that leaves its feed is well-formed and idle.
LEMMA LeaveFeedType ==
    ASSUME TypeOK, NEW w \in Workers, NEW s \in {"usable", "failed"},
           LeaveFeed(w, s), UNCHANGED received
    PROVE  /\ pc' \in [Workers -> Steps]
           /\ feed' \in [Workers -> 0 .. MaxFeeds]
           /\ \A v \in Workers : pc'[v] # "idle" => feed'[v] \in 1 .. received'
           /\ payload' \in [Workers -> Payloads \cup {Nothing}]
           /\ pending' \in [Workers -> [Trips -> Change]]
           /\ outgoing' \in [Workers -> [Trips -> Content \cup {NoTrip}]]
           /\ session' \in [Workers -> {"usable", "failed"}]
<1>1. [t \in Trips |-> NoChange] \in [Trips -> Change]
  BY DEF NoChange, Change
<1>2. [t \in Trips |-> NoTrip] \in [Trips -> Content \cup {NoTrip}]
  OBVIOUS
<1>3. QED
  BY <1>1, <1>2 DEF LeaveFeed, TypeOK, Steps, FeedHandlingAssumption

\* What a commit writes is well-formed.
LEMMA CommitType ==
    ASSUME TypeOK, NEW w \in Workers, feed[w] \in Feeds
    PROVE  /\ \A t \in Trips : NewHead(w, t) \in Heads \cup {NoTrip}
           /\ \A t \in Trips : NewRows(w, t) \in SUBSET Row
           /\ CommittedRtu(w) \in RealTimeUpdate
<1>1. ASSUME NEW t \in Trips
      PROVE  pending[w][t] \in Change
  BY DEF TypeOK
<1>2. ASSUME NEW t \in Trips
      PROVE  NewHead(w, t) \in Heads \cup {NoTrip}
  BY <1>1 DEF NewHead, TypeOK, Change
<1>3. ASSUME NEW t \in Trips
      PROVE  NewRows(w, t) \in SUBSET Row
  BY <1>1 DEF NewRows, TypeOK, Change
<1>4. CommittedRtu(w) \in RealTimeUpdate
  BY DEF CommittedRtu, RealTimeUpdate
<1>5. QED
  BY <1>2, <1>3, <1>4

LEMMA FlushType ==
    ASSUME TypeOK, NEW w \in Workers, feed[w] \in Feeds, Flush(w)
    PROVE  /\ tripRow' \in [Trips -> Heads \cup {NoTrip}]
           /\ stopRows' \in [Trips -> SUBSET Row]
           /\ past' \in [Trips -> SUBSET Content]
           /\ writer' \in [Trips -> 0 .. MaxFeeds]
<1>1. /\ tripRow' \in [Trips -> Heads \cup {NoTrip}]
      /\ stopRows' \in [Trips -> SUBSET Row]
  BY CommitType DEF Flush
<1>2. ASSUME NEW t \in Trips, NewHead(w, t) # NoTrip
      PROVE  ContentOf(t)' \in Content
  <2>1. {r.stops : r \in stopRows'[t]} \in SUBSET StopLists
    BY <1>1 DEF Row
  <2>2. tripRow'[t] \in Heads
    BY <1>1, <1>2 DEF Flush
  <2>3. QED
    BY <2>1, <2>2 DEF ContentOf, Content
<1>3. past' \in [Trips -> SUBSET Content]
  BY <1>2 DEF Flush, TypeOK
<1>4. writer' \in [Trips -> 0 .. MaxFeeds]
  BY DEF Flush, TypeOK, Feeds, FeedHandlingAssumption
<1>5. QED
  BY <1>1, <1>3, <1>4

\* The steps that write what a session holds.
Flushes(w) == Commit(w) \/ CommitBroken(w)

LEMMA FlushesAre ==
    ASSUME NEW w \in Workers, Flushes(w)
    PROVE  Flush(w) /\ pc[w] \in {"commit", "broken"} /\ UNCHANGED <<navitia, received, sent>>
BY DEF Flushes, Commit, CommitBroken, Goto

\* The steps that end the handling of a feed, or of none, and write no trip.
Leaves(w) ==
    CommitFails(w) \/ Finish(w) \/ SetKo(w) \/ DatabaseFails(w) \/ Crash(w)

LEMMA LeavesAre ==
    ASSUME NEW w \in Workers, Leaves(w)
    PROVE  /\ UNCHANGED <<tripRow, stopRows, navitia, received, sent, past, writer>>
           /\ \E s \in {"usable", "failed"} : LeaveFeed(w, s)
<1>1. AfterError(w) \in {"usable", "failed"}
  BY DEF AfterError
<1>2. CASE CommitFails(w) \/ DatabaseFails(w)
  BY <1>1, <1>2 DEF CommitFails, DatabaseFails, dbVars
<1>3. CASE Finish(w) \/ SetKo(w) \/ Crash(w)
  BY <1>3 DEF Finish, SetKo, Crash, dbVars
<1>4. QED
  BY <1>2, <1>3 DEF Leaves

\* A process at work on a feed has one of the feeds received.
LEMMA FeedOfBusy ==
    ASSUME TypeOK, NEW w \in Workers, pc[w] # "idle"
    PROVE  feed[w] \in Feeds /\ feed[w] \in 1 .. received
BY DEF TypeOK, Feeds, FeedHandlingAssumption

LEMMA InitTypeOK == Init => TypeOK
<1> SUFFICES ASSUME Init PROVE TypeOK
  OBVIOUS
<1>1. NoRtu \in RealTimeUpdate
  BY DEF NoRtu, RealTimeUpdate
<1>2. NoChange \in Change
  BY DEF NoChange, Change
<1>3. QED
  BY <1>1, <1>2 DEF Init, TypeOK, Steps, Fates, Feeds, FeedHandlingAssumption

LEMMA NextTypeOK == TypeOK /\ LinkedIsStored /\ [Next]_vars => TypeOK'
<1> SUFFICES ASSUME TypeOK, LinkedIsStored, [Next]_vars PROVE TypeOK'
  OBVIOUS
<1> USE DEF Feeds, Fates
<1>1. ASSUME NEW w \in Workers, BuildRtUpdate(w) PROVE TypeOK'
  <2>1. NoRtu \in RealTimeUpdate
    BY DEF NoRtu, RealTimeUpdate
  <2>2. received' \in 1 .. MaxFeeds /\ received' = received + 1
    BY <1>1 DEF BuildRtUpdate, TypeOK, FeedHandlingAssumption
  <2>3. \A v \in Workers : pc'[v] # "idle" => feed'[v] \in 1 .. received'
    BY <1>1, <2>2 DEF BuildRtUpdate, Goto, TypeOK, FeedHandlingAssumption
  <2>4. QED
    BY <1>1, <2>1, <2>2, <2>3
    DEF BuildRtUpdate, Goto, TypeOK, Steps, FeedHandlingAssumption
<1>2. ASSUME NEW w \in Workers, BuildRtUpdateFails(w) \/ ReceiveOnFailedSession(w) PROVE TypeOK'
  <2>1. received' \in 0 .. MaxFeeds /\ received' = received + 1 /\ received + 1 \in Feeds
    BY <1>2 DEF BuildRtUpdateFails, ReceiveOnFailedSession, TypeOK, FeedHandlingAssumption
  <2>2. /\ UNCHANGED <<rtu, tripRow, stopRows, navitia, pc, feed, payload, pending, outgoing,
                       sent, past, writer>>
        /\ wiped' \in SUBSET Feeds /\ fate' \in [Feeds -> Fates]
    BY <1>2, <2>1 DEF BuildRtUpdateFails, ReceiveOnFailedSession, TypeOK, dbVars, localVars
  <2>3. session' \in [Workers -> {"usable", "failed"}]
    BY <1>2 DEF BuildRtUpdateFails, AfterError, ReceiveOnFailedSession, TypeOK, localVars
  <2>4. \A v \in Workers : pc'[v] # "idle" => feed'[v] \in 1 .. received'
    BY <2>1, <2>2 DEF TypeOK, FeedHandlingAssumption
  <2>5. QED
    BY <2>1, <2>2, <2>3, <2>4 DEF TypeOK
<1>3. ASSUME NEW w \in Workers, BuildTripUpdates(w) PROVE TypeOK'
  BY <1>3 DEF BuildTripUpdates, Goto, TypeOK, Steps, dbVars, historyVars
<1>4. ASSUME NEW w \in Workers, BuildTripUpdatesFails(w) PROVE TypeOK'
  BY <1>4 DEF BuildTripUpdatesFails, Goto, TypeOK, Steps, dbVars, historyVars
<1>5. ASSUME NEW w \in Workers, Merges(w) PROVE TypeOK'
  <2>1. feed[w] \in Feeds
    BY <1>5 DEF Merges, FindAndMerge, FindAndMergeFails, Goto, TypeOK, FeedHandlingAssumption
  <2>2. PICK trips \in SUBSET Mentioned(w), U \in SUBSET Mentioned(w) :
           pending' = [pending EXCEPT ![w] = MergedTrips(w, trips, U)]
    BY <1>5, MergesAre
  <2>3. ASSUME NEW t \in trips
        PROVE  MergeTrip(w, t, t \in U) \in Change
    <3>1. (t \in U) \in BOOLEAN
      OBVIOUS
    <3>2. QED
      BY <2>1, <3>1, MergeTripType
  <2>4. NoChange \in Change
    BY DEF NoChange, Change
  <2>5. MergedTrips(w, trips, U) \in [Trips -> Change]
    BY <2>3, <2>4 DEF MergedTrips
  <2>6. pending' \in [Workers -> [Trips -> Change]]
    BY <2>2, <2>5 DEF TypeOK
  <2>7. /\ pc' \in [Workers -> Steps]
        /\ \A v \in Workers : pc'[v] # "idle" => pc[v] # "idle"
        /\ UNCHANGED <<rtu, tripRow, stopRows, navitia, received, feed, payload, outgoing,
                       session, fate, sent, wiped, past, writer>>
    BY <1>5 DEF Merges, FindAndMerge, FindAndMergeFails, Goto, TypeOK, Steps, dbVars, historyVars
  <2>8. QED
    BY <2>6, <2>7 DEF TypeOK
<1>6. ASSUME NEW w \in Workers, Flushes(w) PROVE TypeOK'
  <2>1. feed[w] \in Feeds
    BY <1>6, FlushesAre, FeedOfBusy
  <2>2. /\ tripRow' \in [Trips -> Heads \cup {NoTrip}]
        /\ stopRows' \in [Trips -> SUBSET Row]
        /\ past' \in [Trips -> SUBSET Content]
        /\ writer' \in [Trips -> 0 .. MaxFeeds]
    BY <1>6, <2>1, FlushType, FlushesAre
  <2>3. CASE Commit(w)
    <3>1. rtu' \in [Feeds -> RealTimeUpdate]
      BY <2>1, <2>3, CommitType DEF Commit, TypeOK
    <3>2. QED
      BY <2>2, <2>3, <3>1 DEF Commit, Goto, TypeOK, Steps
  <2>4. CASE CommitBroken(w)
    <3>1. Ko(CommittedRtu(w), "failed") \in RealTimeUpdate
      BY <2>1, CommitType DEF Ko, RealTimeUpdate
    <3>2. /\ rtu' \in [Feeds -> RealTimeUpdate]
          /\ fate' \in [Feeds -> Fates] /\ wiped' \in SUBSET Feeds
      BY <2>1, <2>4, <3>1 DEF CommitBroken, TypeOK
    <3>3. LeaveFeed(w, "usable") /\ UNCHANGED <<navitia, received, sent>>
      BY <2>4 DEF CommitBroken
    <3>4. QED
      BY <2>2, <3>2, <3>3, LeaveFeedType DEF TypeOK
  <2>5. QED
    BY <1>6, <2>3, <2>4 DEF Flushes
<1>7. ASSUME NEW w \in Workers, Leaves(w) PROVE TypeOK'
  <2>1. PICK s \in {"usable", "failed"} : LeaveFeed(w, s)
    BY <1>7, LeavesAre
  <2>2. UNCHANGED <<tripRow, stopRows, navitia, received, sent, past, writer>>
    BY <1>7, LeavesAre
  <2>3. fate' \in [Feeds -> Fates]
    BY <1>7 DEF Leaves, CommitFails, Finish, SetKo, DatabaseFails, Crash, TypeOK
  <2>4. ~Crash(w) => feed[w] \in Feeds
    <3>1. ~Crash(w) => pc[w] # "idle"
      BY <1>7 DEF Leaves, CommitFails, Finish, SetKo, DatabaseFails
    <3>2. CASE pc[w] # "idle"
      BY <3>2, FeedOfBusy
    <3>3. QED
      BY <3>1, <3>2
  <2>5. wiped' \in SUBSET Feeds
    <3>1. CASE Crash(w)
      BY <3>1 DEF Crash, TypeOK
    <3>2. CASE ~Crash(w)
      <4>1. wiped' = wiped \/ wiped' = wiped \cup {feed[w]}
        BY <1>7, <3>2 DEF Leaves, CommitFails, Finish, SetKo, DatabaseFails
      <4>2. QED
        BY <2>4, <3>2, <4>1 DEF TypeOK
    <3>3. QED
      BY <3>1, <3>2
  <2>6. rtu' \in [Feeds -> RealTimeUpdate]
    <3>1. CASE CommitFails(w) \/ DatabaseFails(w) \/ Crash(w)
      BY <3>1 DEF CommitFails, DatabaseFails, Crash, TypeOK, dbVars
    <3>2. CASE Finish(w) \/ SetKo(w)
      <4>1. feed[w] \in Feeds
        BY <3>2 DEF Finish, SetKo, TypeOK, FeedHandlingAssumption
      <4>2. rtu[feed[w]] \in RealTimeUpdate
        BY <4>1 DEF TypeOK
      <4>3. \A e \in {"noNew", "invalid", "failed"} : Ko(rtu[feed[w]], e) \in RealTimeUpdate
        BY <4>2 DEF Ko, RealTimeUpdate
      <4>4. CASE Finish(w)
        BY <4>1, <4>3, <4>4 DEF Finish, TypeOK
      <4>5. CASE SetKo(w)
        <5>1. Ko(rtu[feed[w]], pc[w]) \in RealTimeUpdate
          BY <4>3, <4>5 DEF SetKo
        <5>2. QED
          BY <4>1, <4>5, <5>1 DEF SetKo, TypeOK
      <4>6. QED
        BY <3>2, <4>4, <4>5
    <3>3. QED
      BY <1>7, <3>1, <3>2 DEF Leaves
  <2>7. QED
    BY <2>1, <2>2, <2>3, <2>5, <2>6, LeaveFeedType DEF TypeOK
<1>8. ASSUME NEW w \in Workers, ReadBack(w) PROVE TypeOK'
  <2>1. feed[w] \in Feeds
    BY <1>8 DEF ReadBack, Goto, TypeOK, FeedHandlingAssumption
  <2>2. ASSUME NEW t \in Trips, t \in rtu[feed[w]].links
        PROVE  ContentOf(t) \in Content
    BY <2>1, <2>2, ContentType DEF LinkedIsStored
  <2>3. outgoing' \in [Workers -> [Trips -> Content \cup {NoTrip}]]
    BY <1>8, <2>2 DEF ReadBack, TypeOK
  <2>4. QED
    BY <1>8, <2>3 DEF ReadBack, Goto, TypeOK, Steps, dbVars, historyVars
<1>9. ASSUME NEW w \in Workers, Publish(w) \/ PublishFails(w) PROVE TypeOK'
  <2>1. feed[w] \in Feeds
    BY <1>9 DEF Publish, PublishFails, Goto, TypeOK, FeedHandlingAssumption
  <2>2. Deliver(w) \/ UNCHANGED <<navitia, sent>>
    BY <1>9 DEF Publish, PublishFails
  <2>3. /\ navitia' \in [Trips -> Content \cup {NoTrip}]
        /\ sent' \in SUBSET Feeds
    <3>1. ASSUME NEW t \in Trips
          PROVE  /\ navitia[t] \in Content \cup {NoTrip}
                 /\ outgoing[w][t] \in Content \cup {NoTrip}
      BY DEF TypeOK
    <3>2. QED
      BY <2>1, <2>2, <3>1 DEF Deliver, TypeOK
  <2>4. QED
    BY <1>9, <2>3 DEF Publish, PublishFails, Goto, TypeOK, Steps, dbVars
<1>10. CASE AllReceived \/ UNCHANGED vars
  BY <1>10 DEF AllReceived, vars, TypeOK
<1>11. QED
  BY <1>1, <1>2, <1>3, <1>4, <1>5, <1>6, <1>7, <1>8, <1>9, <1>10
  DEF Next, Advance, Merges, Flushes, Leaves

-----------------------------------------------------------------------------
(***************************************************************************)
(* DeliveryInv, from which TypeOK and NavitiaHoldsCommittedTrip follow.    *)
(***************************************************************************)

LEMMA MergedTripsFit ==
    ASSUME TypeOK, NEW w \in Workers, NEW trips \in SUBSET Mentioned(w), NEW U,
           NEW t \in Trips
    PROVE  Fits(MergedTrips(w, trips, U)[t], t)
<1>1. Fits(NoChange, t)
  BY DEF Fits, NoChange
<1>2. CASE t \in trips
  <2> DEFINE e == payload[w].entries[t]
  <2>1. e.head \in Heads
    BY <1>2, EntryType DEF Mentioned, TypeOK, Entry
  <2>2. e.head # NoTrip
    BY <2>1 DEF FeedHandlingAssumption
  <2>3. CASE tripRow[t] = NoTrip
    BY <1>1, <1>2, <2>2, <2>3 DEF MergedTrips, MergeTrip, FirstTime, Fits
  <2>4. CASE tripRow[t] # NoTrip
    BY <1>2, <2>2, <2>4 DEF MergedTrips, MergeTrip, Again, Fits
  <2>5. QED
    BY <2>3, <2>4
<1>3. CASE t \notin trips
  BY <1>1, <1>3 DEF MergedTrips
<1>4. QED
  BY <1>2, <1>3

\* A stored trip stays stored, and a commit stores what it links.
LEMMA CommitStores ==
    ASSUME TypeOK, PendingFits, NEW w \in Workers, Flush(w), NEW t \in Trips
    PROVE  /\ tripRow[t] # NoTrip => tripRow'[t] # NoTrip
           /\ pending[w][t].link => tripRow'[t] # NoTrip
<1>1. Fits(pending[w][t], t)
  BY DEF PendingFits
<1>2. pending[w][t].kind \in {"none", "insert", "update"}
  BY DEF TypeOK, Change
<1>3. tripRow'[t] = NewHead(w, t)
  BY DEF Flush
<1>4. QED
  BY <1>1, <1>2, <1>3 DEF Fits, NewHead

LEMMA InitDeliveryInv == Init => DeliveryInv
<1> SUFFICES ASSUME Init PROVE DeliveryInv
  OBVIOUS
<1>1. PendingFits
  BY DEF Init, PendingFits, Fits, NoChange
<1>2. LinkedIsStored /\ StoredIsPast
  BY DEF Init, LinkedIsStored, StoredIsPast, NoRtu
<1>3. NavitiaHoldsCommittedTrip
  BY DEF Init, NavitiaHoldsCommittedTrip
<1>4. QED
  BY <1>1, <1>2, <1>3, InitTypeOK DEF DeliveryInv

LEMMA NextPendingFits ==
    TypeOK /\ PendingFits /\ [Next]_vars => PendingFits'
<1> SUFFICES ASSUME TypeOK, PendingFits, [Next]_vars,
                    NEW v \in Workers, NEW t \in Trips
             PROVE  Fits(pending[v][t], t)'
  BY DEF PendingFits
<1>1. Fits(pending[v][t], t)
  BY DEF PendingFits
<1>2. ASSUME NEW w \in Workers, Merges(w)
      PROVE  Fits(pending[v][t], t)'
  <2>1. tripRow' = tripRow
    BY <1>2 DEF Merges, FindAndMerge, FindAndMergeFails, dbVars
  <2>2. PICK trips \in SUBSET Mentioned(w), U \in SUBSET Mentioned(w) :
           pending' = [pending EXCEPT ![w] = MergedTrips(w, trips, U)]
    BY <1>2, MergesAre
  <2>3. Fits(MergedTrips(w, trips, U)[t], t)
    BY MergedTripsFit
  <2>4. pending'[v][t] = IF v = w THEN MergedTrips(w, trips, U)[t] ELSE pending[v][t]
    BY <2>2 DEF TypeOK
  <2>5. QED
    BY <1>1, <2>1, <2>3, <2>4 DEF Fits
<1>3. ASSUME NEW w \in Workers, NEW s, LeaveFeed(w, s),
             tripRow[t] # NoTrip => tripRow'[t] # NoTrip
      PROVE  Fits(pending[v][t], t)'
  <2>1. pending'[v][t] = IF v = w THEN NoChange ELSE pending[v][t]
    BY <1>3 DEF LeaveFeed, TypeOK
  <2>2. QED
    BY <1>1, <1>3, <2>1 DEF Fits, NoChange
<1>4. ASSUME NEW w \in Workers, Flushes(w)
      PROVE  Fits(pending[v][t], t)'
  <2>1. tripRow[t] # NoTrip => tripRow'[t] # NoTrip
    BY <1>4, FlushesAre, CommitStores
  <2>2. CASE Commit(w)
    BY <1>1, <2>1, <2>2 DEF Fits, Commit
  <2>3. CASE CommitBroken(w)
    BY <1>3, <2>1, <2>3 DEF CommitBroken
  <2>4. QED
    BY <1>4, <2>2, <2>3 DEF Flushes
<1>5. ASSUME NEW w \in Workers, Leaves(w)
      PROVE  Fits(pending[v][t], t)'
  BY <1>3, <1>5, LeavesAre
<1>6. CASE UNCHANGED <<pending, tripRow>>
  BY <1>1, <1>6 DEF Fits
<1>7. QED
  BY <1>2, <1>4, <1>5, <1>6
  DEF Next, Advance, BuildRtUpdate, BuildRtUpdateFails, ReceiveOnFailedSession,
      BuildTripUpdates, BuildTripUpdatesFails, ReadBack, Publish, PublishFails,
      Merges, Flushes, Leaves, AllReceived, vars, dbVars, localVars

LEMMA NextLinkedIsStored ==
    TypeOK /\ PendingFits /\ LinkedIsStored /\ [Next]_vars => LinkedIsStored'
<1> SUFFICES ASSUME TypeOK, PendingFits, LinkedIsStored, [Next]_vars,
                    NEW f \in Feeds, NEW t \in rtu'[f].links
             PROVE  tripRow'[t] # NoTrip
  BY DEF LinkedIsStored
<1>1. ASSUME t \in rtu[f].links
      PROVE  t \in Trips /\ tripRow[t] # NoTrip
  BY <1>1 DEF LinkedIsStored, TypeOK, RealTimeUpdate
<1>2. ASSUME NEW w \in Workers, BuildRtUpdate(w)
      PROVE  tripRow'[t] # NoTrip
  <2>1. t \in rtu[f].links
    BY <1>2 DEF BuildRtUpdate, NoRtu, TypeOK
  <2>2. QED
    BY <1>1, <1>2, <2>1 DEF BuildRtUpdate
<1>3. ASSUME NEW w \in Workers, Flushes(w)
      PROVE  tripRow'[t] # NoTrip
  <2>1. CommittedRtu(w).links = {u \in Trips : pending[w][u].link}
    BY DEF CommittedRtu
  <2>2. Ko(CommittedRtu(w), "failed").links = CommittedRtu(w).links
    BY DEF Ko, CommittedRtu
  <2>3. PICK r : rtu' = [rtu EXCEPT ![feed[w]] = r] /\ r.links = CommittedRtu(w).links
    BY <1>3, <2>2 DEF Flushes, Commit, CommitBroken
  <2>4. CASE t \in rtu[f].links
    BY <1>1, <1>3, <2>4, CommitStores, FlushesAre
  <2>5. CASE t \in CommittedRtu(w).links
    BY <1>3, <2>1, <2>5, CommitStores, FlushesAre
  <2>6. QED
    BY <2>3, <2>4, <2>5 DEF TypeOK
<1>4. ASSUME NEW w \in Workers, Finish(w) \/ SetKo(w)
      PROVE  tripRow'[t] # NoTrip
  <2>1. t \in rtu[f].links
    <3>1. ASSUME NEW e, NEW g \in Feeds
          PROVE  Ko(rtu[g], e).links = rtu[g].links
      <4>1. rtu[g] \in RealTimeUpdate
        BY DEF TypeOK
      <4>2. QED
        BY <4>1 DEF Ko, RealTimeUpdate
    <3>2. feed[w] \in Feeds
      BY <1>4, FeedOfBusy DEF Finish, SetKo
    <3>3. PICK e : \/ rtu' = rtu
                   \/ rtu' = [rtu EXCEPT ![feed[w]] = Ko(rtu[feed[w]], e)]
      BY <1>4 DEF Finish, SetKo
    <3>4. CASE rtu' = rtu
      BY <1>4, <3>4
    <3>5. CASE rtu' = [rtu EXCEPT ![feed[w]] = Ko(rtu[feed[w]], e)]
      <4>1. rtu'[f] = IF f = feed[w] THEN Ko(rtu[f], e) ELSE rtu[f]
        BY <3>5 DEF TypeOK
      <4>2. rtu'[f].links = rtu[f].links
        BY <3>1, <4>1
      <4>3. QED
        BY <4>2
    <3>6. QED
      BY <3>3, <3>4, <3>5
  <2>2. QED
    BY <1>1, <1>4, <2>1 DEF Finish, SetKo
<1>5. CASE UNCHANGED <<rtu, tripRow>>
  BY <1>1, <1>5
<1>6. QED
  BY <1>2, <1>3, <1>4, <1>5
  DEF Next, Advance, BuildRtUpdateFails, ReceiveOnFailedSession, BuildTripUpdates,
      BuildTripUpdatesFails, FindAndMerge, FindAndMergeFails, Flushes, CommitFails, ReadBack,
      Publish, PublishFails, DatabaseFails, Crash, AllReceived, vars, dbVars

\* What was ever stored remains on record, what is stored is on record.
LEMMA NextStoredIsPast ==
    TypeOK /\ StoredIsPast /\ [Next]_vars
       => StoredIsPast' /\ \A t \in Trips : past[t] \subseteq past'[t]
<1> SUFFICES ASSUME TypeOK, StoredIsPast, [Next]_vars
             PROVE  StoredIsPast' /\ \A t \in Trips : past[t] \subseteq past'[t]
  OBVIOUS
<1>1. ASSUME NEW w \in Workers, Flush(w)
      PROVE  StoredIsPast' /\ \A t \in Trips : past[t] \subseteq past'[t]
  BY <1>1 DEF Flush, StoredIsPast, TypeOK
<1>2. CASE UNCHANGED <<tripRow, stopRows, past>>
  BY <1>2 DEF StoredIsPast, ContentOf
<1>3. QED
  BY <1>1, <1>2, LeavesAre
  DEF Next, Advance, BuildRtUpdate, BuildRtUpdateFails, ReceiveOnFailedSession,
      BuildTripUpdates, BuildTripUpdatesFails, FindAndMerge, FindAndMergeFails, Commit,
      CommitBroken, ReadBack, Publish, PublishFails, Leaves, AllReceived, vars, dbVars,
      historyVars

LEMMA NextNavitiaHoldsCommittedTrip ==
    DeliveryInv /\ [Next]_vars => NavitiaHoldsCommittedTrip'
<1> SUFFICES ASSUME DeliveryInv, [Next]_vars, NEW t \in Trips, NEW v \in Workers
             PROVE  /\ navitia'[t] \in past'[t] \cup {NoTrip}
                    /\ outgoing'[v][t] \in past'[t] \cup {NoTrip}
  <2>1. ASSUME Workers = {}
        PROVE  DeliveryInv /\ [Next]_vars => NavitiaHoldsCommittedTrip'
    BY <2>1 DEF Next, AllReceived, vars, DeliveryInv, NavitiaHoldsCommittedTrip
  <2>2. QED
    BY <2>1 DEF NavitiaHoldsCommittedTrip
<1>1. past[t] \subseteq past'[t]
  BY NextStoredIsPast DEF DeliveryInv
<1>2. /\ navitia[t] \in past[t] \cup {NoTrip}
      /\ \A w \in Workers : outgoing[w][t] \in past[t] \cup {NoTrip}
  BY DEF DeliveryInv, NavitiaHoldsCommittedTrip
<1> USE DEF DeliveryInv, TypeOK
<1>3. ASSUME NEW w \in Workers, ReadBack(w)
      PROVE  /\ navitia'[t] \in past'[t] \cup {NoTrip}
             /\ outgoing'[v][t] \in past'[t] \cup {NoTrip}
  <2>1. feed[w] \in Feeds
    BY <1>3 DEF ReadBack, Goto, Feeds, FeedHandlingAssumption
  <2>2. t \in rtu[feed[w]].links => ContentOf(t) \in past[t]
    BY <2>1 DEF LinkedIsStored, StoredIsPast
  <2>3. outgoing'[v][t] =
          IF v # w THEN outgoing[v][t]
          ELSE IF t \in rtu[feed[w]].links THEN ContentOf(t) ELSE NoTrip
    BY <1>3 DEF ReadBack
  <2>4. QED
    BY <1>1, <1>2, <1>3, <2>2, <2>3 DEF ReadBack
<1>4. ASSUME NEW w \in Workers, Publish(w) \/ PublishFails(w)
      PROVE  /\ navitia'[t] \in past'[t] \cup {NoTrip}
             /\ outgoing'[v][t] \in past'[t] \cup {NoTrip}
  BY <1>1, <1>2, <1>4 DEF Publish, PublishFails, Deliver
<1>5. ASSUME NEW w \in Workers, NEW s, LeaveFeed(w, s), UNCHANGED navitia
      PROVE  /\ navitia'[t] \in past'[t] \cup {NoTrip}
             /\ outgoing'[v][t] \in past'[t] \cup {NoTrip}
  BY <1>1, <1>2, <1>5 DEF LeaveFeed
<1>6. CASE UNCHANGED <<navitia, outgoing>>
  BY <1>1, <1>2, <1>6
<1>7. QED
  BY <1>3, <1>4, <1>5, <1>6, LeavesAre
  DEF Next, Advance, BuildRtUpdate, BuildRtUpdateFails, ReceiveOnFailedSession,
      BuildTripUpdates, BuildTripUpdatesFails, FindAndMerge, FindAndMergeFails, Commit,
      CommitBroken, Leaves, AllReceived, vars, localVars

\* DeliveryInv is inductive.
THEOREM DeliveryInvariant == Spec => []DeliveryInv
<1>1. DeliveryInv /\ [Next]_vars => DeliveryInv'
  BY NextTypeOK, NextPendingFits, NextLinkedIsStored, NextStoredIsPast,
     NextNavitiaHoldsCommittedTrip
  DEF DeliveryInv
<1>2. QED
  BY <1>1, InitDeliveryInv, PTL DEF Spec

\* Every variable keeps its type, whatever the interleaving and the failures.
THEOREM TypeCorrect == Spec => []TypeOK
<1>1. DeliveryInv => TypeOK
  BY DEF DeliveryInv
<1>2. QED
  BY <1>1, DeliveryInvariant, PTL

\* Whatever processes interleave, fail or die, navitia is never given a content
\* that the database did not hold.
THEOREM NavitiaOnlyGetsCommittedTrips == Spec => []NavitiaHoldsCommittedTrip
<1>1. DeliveryInv => NavitiaHoldsCommittedTrip
  BY DEF DeliveryInv
<1>2. QED
  BY <1>1, DeliveryInvariant, PTL

-----------------------------------------------------------------------------
(***************************************************************************)
(* HandlingInv, from which VerdictMatchesDelivery and                      *)
(* FailedCommitLeavesNothing follow.                                       *)
(***************************************************************************)

\* A merge only links trips the feed lists, and only inserts rows of the feed.
LEMMA MergedTripsAreOwn ==
    ASSUME NEW w \in Workers, NEW t \in Trips, NEW trips \in SUBSET Mentioned(w), NEW U,
           NEW c, c = MergedTrips(w, trips, U)[t]
    PROVE  /\ c.link => t \in Mentioned(w)
           /\ \A r \in c.added : r.feed = feed[w]
<1>1. CASE t \in trips
  <2> DEFINE u == t \in U
  <2>1. c = MergeTrip(w, t, u)
    BY <1>1 DEF MergedTrips
  <2> HIDE DEF u
  <2>2. \A r \in c.added : r.feed = feed[w]
    BY <2>1 DEF MergeTrip, FirstTime, Again, NoChange, RowsOf
  <2>3. QED
    BY <1>1, <2>2
<1>2. CASE t \notin trips
  BY <1>2 DEF MergedTrips, NoChange
<1>3. QED
  BY <1>1, <1>2

LEMMA InitHandlingInv == Init => HandlingInv
<1> SUFFICES ASSUME Init PROVE HandlingInv
  OBVIOUS
<1>1. PendingIsOwn
  BY DEF Init, PendingIsOwn, NoChange
<1>2. \A f \in Feeds : NoTrace(f)
  BY DEF Init, NoTrace, NoRtu
<1>3. FreshFeeds
  BY <1>2 DEF Init, FreshFeeds
<1>4. \A w \in Workers : Handling(w)
  BY DEF Init, Handling
<1>5. VerdictMatchesDelivery /\ FailedCommitLeavesNothing
  BY DEF Init, VerdictMatchesDelivery, FailedCommitLeavesNothing
<1>6. QED
  BY <1>1, <1>3, <1>4, <1>5, InitDeliveryInv DEF HandlingInv

LEMMA NextPendingIsOwn ==
    TypeOK /\ PendingIsOwn /\ [Next]_vars => PendingIsOwn'
<1> DEFINE Own(w) ==
             /\ pc[w] = "idle" => feed[w] = 0
             /\ \A t \in Trips :
                   /\ pc[w] \in {"idle", "parse", "merge"} => pending[w][t] = NoChange
                   /\ pending[w][t].link => t \in Mentioned(w)
                   /\ \A r \in pending[w][t].added : r.feed = feed[w]
<1> SUFFICES ASSUME TypeOK, PendingIsOwn, [Next]_vars, NEW v \in Workers
             PROVE  Own(v)'
  BY DEF PendingIsOwn
<1>0. ~NoChange.link /\ NoChange.added = {}
  BY DEF NoChange
<1>1. Own(v)
  BY DEF PendingIsOwn
<1>2. ASSUME NEW w \in Workers, BuildRtUpdate(w)
      PROVE  Own(v)'
  <2>1. CASE v = w
    <3>1. \A t \in Trips : pending'[v][t] = NoChange
      BY <1>1, <1>2, <2>1 DEF BuildRtUpdate, Goto
    <3>2. pc'[v] = "parse"
      BY <1>2, <2>1 DEF BuildRtUpdate, Goto, TypeOK
    <3>3. QED
      BY <1>0, <3>1, <3>2
  <2>2. CASE v # w
    BY <1>1, <1>2, <2>2 DEF BuildRtUpdate, Goto, TypeOK, Mentioned
  <2>3. QED
    BY <2>1, <2>2
<1>3. ASSUME NEW w \in Workers, BuildTripUpdates(w)
      PROVE  Own(v)'
  <2>1. CASE v = w
    <3>1. \A t \in Trips : pending'[v][t] = NoChange
      BY <1>1, <1>3, <2>1 DEF BuildTripUpdates, Goto
    <3>2. pc'[v] = "merge"
      BY <1>3, <2>1 DEF BuildTripUpdates, Goto, TypeOK
    <3>3. QED
      BY <1>0, <3>1, <3>2
  <2>2. CASE v # w
    BY <1>1, <1>3, <2>2 DEF BuildTripUpdates, Goto, TypeOK, Mentioned
  <2>3. QED
    BY <2>1, <2>2
<1>4. ASSUME NEW w \in Workers, Merges(w)
      PROVE  Own(v)'
  <2>0. /\ pc' \in {[pc EXCEPT ![w] = "commit"], [pc EXCEPT ![w] = "broken"]}
        /\ UNCHANGED <<payload, feed>>
    BY <1>4 DEF Merges, FindAndMerge, FindAndMergeFails, Goto
  <2>1. CASE v = w
    <3>1. PICK trips \in SUBSET Mentioned(w), U \in SUBSET Mentioned(w) :
             pending' = [pending EXCEPT ![w] = MergedTrips(w, trips, U)]
      BY <1>4, MergesAre
    <3>2. pending'[v] = MergedTrips(w, trips, U)
      BY <1>1, <2>1, <3>1 DEF TypeOK
    <3>3. pc'[v] \in {"commit", "broken"}
      BY <2>0, <2>1 DEF TypeOK
    <3>4. ASSUME NEW t \in Trips
          PROVE  /\ pending'[v][t].link => t \in Mentioned(w)
                 /\ \A r \in pending'[v][t].added : r.feed = feed[w]
      BY <3>2, MergedTripsAreOwn
    <3>5. QED
      BY <2>0, <2>1, <3>3, <3>4 DEF Mentioned
  <2>2. CASE v # w
    <3>1. pending'[v] = pending[v]
      <4>1. PICK P : pending' = [pending EXCEPT ![w] = P]
        BY <1>4, MergesAre
      <4>2. QED
        BY <2>2, <4>1 DEF TypeOK
    <3>2. pc'[v] = pc[v]
      BY <2>0, <2>2 DEF TypeOK
    <3>3. QED
      BY <1>1, <2>0, <3>1, <3>2 DEF Mentioned
  <2>3. QED
    BY <2>1, <2>2
<1>5. ASSUME NEW w \in Workers, NEW s, LeaveFeed(w, s)
      PROVE  Own(v)'
  <2>1. CASE v = w
    <3>1. \A t \in Trips : pending'[v][t] = NoChange
      BY <1>5, <2>1 DEF LeaveFeed, TypeOK
    <3>2. feed'[v] = 0
      BY <1>5, <2>1 DEF LeaveFeed, TypeOK
    <3>3. QED
      BY <1>0, <3>1, <3>2
  <2>2. CASE v # w
    BY <1>1, <1>5, <2>2 DEF LeaveFeed, TypeOK, Mentioned
  <2>3. QED
    BY <2>1, <2>2
<1>6. ASSUME NEW w \in Workers,
             \/ BuildTripUpdatesFails(w) \/ Commit(w) \/ ReadBack(w)
             \/ Publish(w) \/ PublishFails(w)
      PROVE  Own(v)'
  <2>1. UNCHANGED <<pending, payload, feed>>
    BY <1>6 DEF BuildTripUpdatesFails, Commit, ReadBack, Publish, PublishFails
  <2>2. pc' = pc \/ pc'[v] = pc[v] \/ pc'[v] \notin {"idle", "parse", "merge"}
    BY <1>6 DEF BuildTripUpdatesFails, Commit, ReadBack, Publish, PublishFails,
                Goto, TypeOK
  <2>3. QED
    BY <1>1, <2>1, <2>2 DEF Mentioned
<1>7. CASE UNCHANGED <<pc, pending, payload, feed>>
  BY <1>1, <1>7 DEF Mentioned
<1>8. ASSUME NEW w \in Workers, Leaves(w) \/ CommitBroken(w)
      PROVE  Own(v)'
  <2>1. PICK s : LeaveFeed(w, s)
    BY <1>8, LeavesAre DEF CommitBroken
  <2>2. QED
    BY <1>5, <2>1
<1>9. CASE \E w \in Workers : Advance(w) \/ Crash(w)
  BY <1>3, <1>4, <1>6, <1>8, <1>9 DEF Advance, Merges, Leaves
<1>10. QED
  BY <1>2, <1>7, <1>9
  DEF Next, BuildRtUpdateFails, ReceiveOnFailedSession, AllReceived, vars, localVars

\* A process touches nothing of the feeds it does not handle.
LEMMA OtherFeedsUntouched ==
    ASSUME TypeOK, PendingIsOwn, NEW w \in Workers, Advance(w) \/ Crash(w),
           NEW f \in Feeds, f # feed[w]
    PROVE  /\ rtu'[f] = rtu[f]
           /\ fate'[f] = fate[f]
           /\ f \in sent' <=> f \in sent
           /\ f \in wiped' <=> f \in wiped
           /\ NoTrace(f) => NoTrace(f)'
<1>1. CASE Flushes(w)
  <2>1. rtu'[f] = rtu[f] /\ fate'[f] = fate[f] /\ (f \in wiped' <=> f \in wiped)
    BY <1>1 DEF Flushes, Commit, CommitBroken, TypeOK
  <2>2. ASSUME NoTrace(f), NEW t \in Trips, NEW r \in stopRows'[t]
        PROVE  r.feed # f
    <3>1. r \in NewRows(w, t)
      BY <1>1, <2>2, FlushesAre DEF Flush
    <3>2. QED
      BY <2>2, <3>1 DEF NewRows, NoTrace, PendingIsOwn
  <2>3. QED
    BY <1>1, <2>1, <2>2, FlushesAre DEF NoTrace
<1>2. CASE Publish(w) \/ PublishFails(w)
  BY <1>2 DEF Publish, PublishFails, Deliver, NoTrace, dbVars
<1>3. CASE Finish(w) \/ SetKo(w)
  BY <1>3 DEF Finish, SetKo, NoTrace, TypeOK
<1>4. CASE CommitFails(w) \/ DatabaseFails(w) \/ Crash(w)
  BY <1>4 DEF CommitFails, DatabaseFails, Crash, NoTrace, TypeOK, dbVars
<1>5. CASE UNCHANGED <<rtu, stopRows, fate, sent, wiped>>
  BY <1>5 DEF NoTrace
<1>6. QED
  BY <1>1, <1>2, <1>3, <1>4, <1>5
  DEF Advance, BuildTripUpdates, BuildTripUpdatesFails, FindAndMerge, FindAndMergeFails,
      ReadBack, Flushes, dbVars, historyVars

\* An idle process has none.
LEMMA FeedOfIdle ==
    ASSUME PendingIsOwn, NEW w \in Workers, pc[w] = "idle"
    PROVE  feed[w] \notin Feeds
BY DEF PendingIsOwn, Feeds

\* The steps that take a feed, or lose it at once.
Takes(w) == BuildRtUpdate(w) \/ BuildRtUpdateFails(w) \/ ReceiveOnFailedSession(w)

\* What a feed that is taken leaves of the others, and of itself.
LEMMA NewFeed ==
    ASSUME TypeOK, FreshFeeds, NEW w \in Workers, Takes(w), NEW g, g = received + 1
    PROVE  /\ g \in Feeds /\ received' = g
           /\ fate[g] = "none" /\ NoTrace(g)'
           /\ UNCHANGED <<stopRows, sent>>
           /\ \A f \in Feeds \ {g} : /\ rtu'[f] = rtu[f] /\ fate'[f] = fate[f]
                                     /\ f \in wiped' <=> f \in wiped
<1>1. g \in Feeds /\ received' = g /\ g > received
  BY DEF Takes, BuildRtUpdate, BuildRtUpdateFails, ReceiveOnFailedSession, TypeOK,
         FeedHandlingAssumption
<1>2. fate[g] = "none" /\ NoTrace(g)
  BY <1>1 DEF FreshFeeds
<1>3. UNCHANGED <<stopRows, sent>>
  BY DEF Takes, BuildRtUpdate, BuildRtUpdateFails, ReceiveOnFailedSession, dbVars
<1>4. rtu'[g].links = {}
  BY <1>1, <1>2
  DEF Takes, BuildRtUpdate, BuildRtUpdateFails, ReceiveOnFailedSession, NoRtu, NoTrace,
      TypeOK, dbVars
<1>5. ASSUME NEW f \in Feeds \ {g}
      PROVE  /\ rtu'[f] = rtu[f] /\ fate'[f] = fate[f]
             /\ f \in wiped' <=> f \in wiped
  BY <1>1
  DEF Takes, BuildRtUpdate, BuildRtUpdateFails, ReceiveOnFailedSession, TypeOK, dbVars
<1>6. QED
  BY <1>1, <1>2, <1>3, <1>4, <1>5 DEF NoTrace

LEMMA NextFreshFeeds ==
    TypeOK /\ PendingIsOwn /\ FreshFeeds /\ [Next]_vars => FreshFeeds'
<1> SUFFICES ASSUME TypeOK, PendingIsOwn, FreshFeeds, [Next]_vars,
                    NEW f \in Feeds, f > received'
             PROVE  fate'[f] = "none" /\ NoTrace(f)'
  BY DEF FreshFeeds
<1>1. received \in Nat /\ received <= MaxFeeds
  BY DEF TypeOK, FeedHandlingAssumption
<1>2. ASSUME NEW w \in Workers, Takes(w)
      PROVE  fate'[f] = "none" /\ NoTrace(f)'
  <2>1. /\ f # received + 1
        /\ rtu'[f] = rtu[f] /\ fate'[f] = fate[f]
        /\ UNCHANGED <<stopRows, sent>>
    BY <1>1, <1>2, NewFeed DEF Feeds
  <2>2. f > received
    BY <1>1, <1>2, NewFeed DEF Feeds
  <2>3. QED
    BY <2>1, <2>2 DEF FreshFeeds, NoTrace
<1>3. ASSUME NEW w \in Workers, Advance(w) \/ Crash(w)
      PROVE  fate'[f] = "none" /\ NoTrace(f)'
  <2>1. received' = received
    BY <1>3, LeavesAre, FlushesAre
    DEF Advance, Leaves, Flushes, BuildTripUpdates, BuildTripUpdatesFails, FindAndMerge,
        FindAndMergeFails, ReadBack, Publish, PublishFails
  <2>2. feed[w] # f
    <3>1. CASE pc[w] = "idle"
      BY <3>1, FeedOfIdle
    <3>2. CASE pc[w] # "idle"
      BY <1>1, <2>1, <3>2, FeedOfBusy DEF Feeds
    <3>3. QED
      BY <3>1, <3>2
  <2>3. QED
    BY <1>3, <2>1, <2>2, OtherFeedsUntouched DEF FreshFeeds
<1>4. CASE AllReceived \/ UNCHANGED vars
  BY <1>4 DEF AllReceived, vars, FreshFeeds, NoTrace
<1>5. QED
  BY <1>2, <1>3, <1>4 DEF Next, Takes

\* A busy process that does nothing keeps its feed to itself: no step of another
\* one takes that feed or touches what is known of it.
LEMMA NextHandling ==
    HandlingInv /\ [Next]_vars => \A w \in Workers : Handling(w)'
<1> SUFFICES ASSUME HandlingInv, [Next]_vars, NEW v \in Workers, pc'[v] # "idle"
             PROVE  Handling(v)'
  BY DEF Handling
<1>1. TypeOK /\ PendingIsOwn /\ FreshFeeds
  BY DEF HandlingInv, DeliveryInv
<1>2. \A w \in Workers : Handling(w)
  BY DEF HandlingInv
<1>3. \A w \in Workers : pc[w] # "idle" => feed[w] \in Feeds /\ feed[w] \in 1 .. received
  BY <1>1, FeedOfBusy
<1>4. received \in Nat
  BY <1>1 DEF TypeOK
<1>5. ASSUME NEW w \in Workers, BuildRtUpdate(w)
      PROVE  Handling(v)'
  <2>0. PICK g : g = received + 1
    OBVIOUS
  <2>1. /\ g \in Feeds /\ NoTrace(g)' /\ UNCHANGED sent
        /\ \A f \in Feeds \ {g} : rtu'[f] = rtu[f] /\ fate'[f] = fate[f]
        /\ UNCHANGED stopRows
    BY <1>1, <1>5, <2>0, NewFeed DEF Takes
  <2>2. /\ pc' = [pc EXCEPT ![w] = "parse"] /\ feed' = [feed EXCEPT ![w] = g]
        /\ rtu' = [rtu EXCEPT ![g] = NoRtu] /\ fate' = [fate EXCEPT ![g] = "running"]
        /\ pc[w] = "idle"
    BY <1>5, <2>0 DEF BuildRtUpdate, Goto
  <2>3. \A u \in Workers : pc[u] # "idle" => feed[u] # g
    BY <1>3, <1>4, <2>0
  <2>4. CASE v = w
    <3>1. pc'[v] = "parse" /\ feed'[v] = g /\ fate'[g] = "running"
      BY <1>1, <2>1, <2>2, <2>4 DEF TypeOK
    <3>2. rtu'[g].links = {}
      BY <2>1 DEF NoTrace
    <3>3. \A u \in Workers : pc'[u] # "idle" /\ feed'[u] = g => u = v
      BY <1>1, <2>2, <2>3, <2>4 DEF TypeOK
    <3>4. QED
      BY <2>1, <3>1, <3>2, <3>3 DEF Handling
  <2>5. CASE v # w
    <3>1. pc'[v] = pc[v] /\ feed'[v] = feed[v]
      BY <1>1, <2>2, <2>5 DEF TypeOK
    <3>2. feed[v] \in Feeds \ {g}
      BY <1>3, <2>3, <3>1
    <3>3. rtu'[feed[v]] = rtu[feed[v]] /\ fate'[feed[v]] = fate[feed[v]]
      BY <2>1, <3>2
    <3>4. NoTrace(feed[v]) => NoTrace(feed[v])'
      BY <2>1, <3>1, <3>3 DEF NoTrace
    <3>5. \A u \in Workers : pc'[u] # "idle" /\ feed'[u] = feed[v] => u = v
      BY <1>1, <1>2, <2>2, <3>1, <3>2 DEF TypeOK, Handling
    <3>6. QED
      BY <1>2, <2>1, <3>1, <3>3, <3>4, <3>5 DEF Handling
  <2>6. QED
    BY <2>4, <2>5
<1>6. ASSUME NEW w \in Workers, BuildRtUpdateFails(w) \/ ReceiveOnFailedSession(w)
      PROVE  Handling(v)'
  <2>1. UNCHANGED <<pc, feed, rtu, stopRows, sent>>
    BY <1>6 DEF BuildRtUpdateFails, ReceiveOnFailedSession, dbVars, localVars
  <2>2. fate'[feed[v]] = fate[feed[v]]
    BY <1>1, <1>3, <1>4, <1>6, <2>1, NewFeed DEF Takes
  <2>3. QED
    BY <1>2, <2>1, <2>2 DEF Handling, NoTrace
<1>7. ASSUME NEW w \in Workers, Advance(w) \/ Crash(w)
      PROVE  Handling(v)'
  <2>1. /\ \A u \in Workers \ {w} : pc'[u] = pc[u] /\ feed'[u] = feed[u]
        /\ pc'[w] = "idle" \/ (pc[w] # "idle" /\ feed'[w] = feed[w])
    <3>1. CASE Leaves(w) \/ CommitBroken(w)
      <4>1. PICK s : LeaveFeed(w, s)
        BY <3>1, LeavesAre DEF CommitBroken
      <4>2. QED
        BY <1>1, <4>1 DEF LeaveFeed, TypeOK
    <3>2. CASE ~(Leaves(w) \/ CommitBroken(w))
      BY <1>1, <1>7, <3>2
      DEF Advance, Leaves, BuildTripUpdates, BuildTripUpdatesFails, FindAndMerge,
          FindAndMergeFails, Commit, ReadBack, Publish, PublishFails, Goto, TypeOK
    <3>3. QED
      BY <3>1, <3>2
  <2>2. \A u \in Workers : pc'[u] # "idle" => pc[u] # "idle" /\ feed'[u] = feed[u]
    BY <2>1
  <2>3. \A u \in Workers : pc'[u] # "idle" /\ feed'[u] = feed'[v] => u = v
    BY <1>2, <2>2 DEF Handling
  <2>4. CASE v # w
    <3>1. pc'[v] = pc[v] /\ feed'[v] = feed[v] /\ feed[v] \in Feeds
      BY <1>3, <2>1, <2>4
    <3>2. feed[v] # feed[w]
      <4>1. CASE pc[w] = "idle"
        BY <1>1, <3>1, <4>1, FeedOfIdle
      <4>2. CASE pc[w] # "idle"
        BY <1>2, <2>4, <3>1, <4>2 DEF Handling
      <4>3. QED
        BY <4>1, <4>2
    <3>3. /\ rtu'[feed[v]] = rtu[feed[v]]
          /\ fate'[feed[v]] = fate[feed[v]]
          /\ feed[v] \in sent' <=> feed[v] \in sent
          /\ NoTrace(feed[v]) => NoTrace(feed[v])'
      BY <1>1, <1>7, <3>1, <3>2, OtherFeedsUntouched
    <3>4. QED
      BY <1>2, <2>3, <3>1, <3>3 DEF Handling, NoTrace
  <2>5. CASE v = w
    <3>1. feed'[w] = feed[w] /\ pc[w] # "idle" /\ feed[w] \in Feeds
      BY <1>3, <2>2, <2>5
    <3>2. Handling(w)
      BY <1>2
    <3>3. CASE Commit(w)
      <4>1. rtu'[feed[w]] = CommittedRtu(w)
        BY <1>1, <3>1, <3>3 DEF Commit, TypeOK
      <4>2. CommittedRtu(w).status = "KO" => CommittedRtu(w).links = {}
        BY <1>1 DEF CommittedRtu, PendingIsOwn
      <4>3. pc'[w] = "readback" /\ UNCHANGED fate
        BY <1>1, <3>3 DEF Commit, Goto, TypeOK
      <4>4. QED
        BY <2>3, <2>5, <3>1, <3>2, <4>1, <4>2, <4>3 DEF Handling
    <3>4. CASE Publish(w) \/ PublishFails(w)
      <4>1. UNCHANGED <<rtu, fate>>
        BY <3>4 DEF Publish, PublishFails, dbVars
      <4>2. \/ pc'[w] = "finish" /\ feed[w] \in sent'
            \/ pc'[w] = "failed"
        BY <1>1, <3>4 DEF Publish, PublishFails, Deliver, Goto, TypeOK
      <4>3. QED
        BY <2>3, <2>5, <3>1, <3>2, <4>1, <4>2 DEF Handling
    <3>5. CASE \/ BuildTripUpdates(w) \/ BuildTripUpdatesFails(w)
               \/ FindAndMerge(w) \/ FindAndMergeFails(w) \/ ReadBack(w)
      <4>1. UNCHANGED <<rtu, fate, stopRows, sent>>
        BY <3>5 DEF BuildTripUpdates, BuildTripUpdatesFails, FindAndMerge,
                    FindAndMergeFails, ReadBack, dbVars, historyVars
      <4>2. \/ pc'[w] \in {"failed", "publish"}
            \/ pc[w] \in {"parse", "merge"} /\ pc'[w] # "finish"
        BY <1>1, <3>5 DEF BuildTripUpdates, BuildTripUpdatesFails, FindAndMerge,
                          FindAndMergeFails, ReadBack, Goto, TypeOK
      <4>3. QED
        BY <2>3, <2>5, <3>1, <3>2, <4>1, <4>2 DEF Handling, NoTrace
    <3>6. CASE Leaves(w) \/ CommitBroken(w)
      <4>1. PICK s : LeaveFeed(w, s)
        BY <3>6, LeavesAre DEF CommitBroken
      <4>2. QED
        BY <1>1, <2>5, <4>1 DEF LeaveFeed, TypeOK
    <3>7. QED
      BY <1>7, <3>3, <3>4, <3>5, <3>6 DEF Advance, Leaves
  <2>6. QED
    BY <2>4, <2>5
<1>8. CASE AllReceived \/ UNCHANGED vars
  BY <1>2, <1>8 DEF AllReceived, vars, Handling, NoTrace
<1>9. QED
  BY <1>5, <1>6, <1>7, <1>8 DEF Next

\* What a step makes of the feed its process handles.
LEMMA OwnFeed ==
    ASSUME HandlingInv, NEW w \in Workers, Advance(w) \/ Crash(w), feed[w] \in Feeds
    PROVE  /\ fate'[feed[w]] = "ended" => Finish(w) \/ SetKo(w) \/ CommitBroken(w)
           /\ fate'[feed[w]] = "lost" => CommitFails(w)
<1>1. TypeOK /\ PendingIsOwn
  BY DEF HandlingInv, DeliveryInv
<1>2. pc[w] # "idle"
  BY <1>1, FeedOfIdle
<1>3. fate[feed[w]] = "running"
  BY <1>2 DEF HandlingInv, Handling
<1>4. Crash(w) => fate'[feed[w]] = "crashed"
  BY DEF Crash
<1>5. CASE UNCHANGED fate
  BY <1>3, <1>5
<1>6. QED
  BY <1>1, <1>3, <1>4, <1>5
  DEF Advance, BuildTripUpdates, BuildTripUpdatesFails, FindAndMerge, FindAndMergeFails,
      Commit, CommitBroken, ReadBack, Publish, PublishFails, historyVars, Finish, SetKo,
      CommitFails, DatabaseFails, TypeOK

LEMMA NextVerdictMatchesDelivery ==
    HandlingInv /\ [Next]_vars => VerdictMatchesDelivery'
<1> SUFFICES ASSUME HandlingInv, [Next]_vars, NEW f \in Feeds, fate'[f] = "ended"
             PROVE  /\ rtu'[f].status = "OK" => rtu'[f].links # {} /\ f \in sent'
                    /\ rtu'[f].status = "KO" /\ rtu'[f].links # {} => f \in wiped'
  BY DEF VerdictMatchesDelivery
<1>1. TypeOK /\ PendingIsOwn /\ FreshFeeds
  BY DEF HandlingInv, DeliveryInv
<1>2. fate[f] = "ended" =>
        /\ rtu[f].status = "OK" => rtu[f].links # {} /\ f \in sent
        /\ rtu[f].status = "KO" /\ rtu[f].links # {} => f \in wiped
  BY DEF HandlingInv, VerdictMatchesDelivery
<1>3. ASSUME NEW w \in Workers, Takes(w)
      PROVE  /\ f # received + 1
             /\ rtu'[f] = rtu[f] /\ fate'[f] = fate[f] /\ UNCHANGED sent
             /\ f \in wiped' <=> f \in wiped
  <2>1. PICK g : g = received + 1
    OBVIOUS
  <2>2. fate'[g] # "ended"
    BY <1>1, <1>3, <2>1, NewFeed
    DEF Takes, BuildRtUpdate, BuildRtUpdateFails, ReceiveOnFailedSession, TypeOK
  <2>3. QED
    BY <1>1, <1>3, <2>1, <2>2, NewFeed
<1>4. ASSUME NEW w \in Workers, Advance(w) \/ Crash(w), f # feed[w]
      PROVE  /\ rtu'[f] = rtu[f] /\ fate'[f] = fate[f]
             /\ f \in sent' <=> f \in sent
             /\ f \in wiped' <=> f \in wiped
  BY <1>1, <1>4, OtherFeedsUntouched
<1>5. ASSUME NEW w \in Workers, Advance(w) \/ Crash(w), f = feed[w]
      PROVE  /\ rtu'[f].status = "OK" => rtu'[f].links # {} /\ f \in sent'
             /\ rtu'[f].status = "KO" /\ rtu'[f].links # {} => f \in wiped'
  <2>1. Handling(w) /\ pc[w] # "idle"
    BY <1>1, <1>5, FeedOfIdle DEF HandlingInv
  <2>2. rtu[f] \in RealTimeUpdate
    BY <1>1 DEF TypeOK
  <2>3. CASE Finish(w)
    <3>1. f \in sent /\ sent' = sent
      BY <1>5, <2>1, <2>3 DEF Finish, Handling
    <3>2. CASE rtu[f].links = {} /\ rtu[f].status = "OK"
      <4>1. rtu'[f] = Ko(rtu[f], "noNew")
        BY <1>1, <1>5, <2>3, <3>2 DEF Finish, TypeOK
      <4>2. QED
        BY <2>2, <3>2, <4>1 DEF Ko, RealTimeUpdate
    <3>3. CASE ~(rtu[f].links = {} /\ rtu[f].status = "OK")
      <4>1. rtu'[f] = rtu[f]
        BY <1>5, <2>3, <3>3 DEF Finish
      <4>2. rtu[f].status = "KO" => rtu[f].links = {}
        BY <1>5, <2>1 DEF Handling
      <4>3. QED
        BY <3>1, <3>3, <4>1, <4>2
    <3>4. QED
      BY <3>2, <3>3
  <2>4. CASE SetKo(w)
    <3>1. rtu'[f] = Ko(rtu[f], pc[w])
      BY <1>1, <1>5, <2>4 DEF SetKo, TypeOK
    <3>2. rtu'[f].status = "KO" /\ rtu'[f].links = rtu[f].links
      BY <2>2, <3>1 DEF Ko, RealTimeUpdate
    <3>3. CASE pc[w] = "failed"
      BY <1>5, <2>4, <3>2, <3>3 DEF SetKo
    <3>4. CASE pc[w] = "invalid"
      BY <1>5, <2>1, <3>2, <3>4 DEF Handling, NoTrace
    <3>5. QED
      BY <2>4, <3>3, <3>4 DEF SetKo
  <2>5. CASE CommitBroken(w)
    <3>1. rtu'[f] = Ko(CommittedRtu(w), "failed") /\ f \in wiped'
      BY <1>1, <1>5, <2>5 DEF CommitBroken, TypeOK
    <3>2. rtu'[f].status = "KO"
      BY <3>1 DEF Ko, CommittedRtu
    <3>3. QED
      BY <3>1, <3>2
  <2>6. QED
    BY <1>5, <2>3, <2>4, <2>5, OwnFeed
<1>6. CASE AllReceived \/ UNCHANGED vars
  BY <1>2, <1>6 DEF AllReceived, vars
<1>7. QED
  BY <1>2, <1>3, <1>4, <1>5, <1>6 DEF Next, Takes

LEMMA NextFailedCommitLeavesNothing ==
    HandlingInv /\ [Next]_vars => FailedCommitLeavesNothing'
<1> SUFFICES ASSUME HandlingInv, [Next]_vars, NEW f \in Feeds, fate'[f] = "lost"
             PROVE  NoTrace(f)'
  BY DEF FailedCommitLeavesNothing, NoTrace
<1>1. TypeOK /\ PendingIsOwn /\ FreshFeeds
  BY DEF HandlingInv, DeliveryInv
<1>2. fate[f] = "lost" => NoTrace(f)
  BY DEF HandlingInv, FailedCommitLeavesNothing, NoTrace
<1>3. ASSUME NEW w \in Workers, Takes(w)
      PROVE  NoTrace(f)'
  BY <1>1, <1>2, <1>3, NewFeed DEF NoTrace
<1>4. ASSUME NEW w \in Workers, Advance(w) \/ Crash(w)
      PROVE  NoTrace(f)'
  <2>1. CASE f # feed[w]
    BY <1>1, <1>2, <1>4, <2>1, OtherFeedsUntouched
  <2>2. CASE f = feed[w]
    <3>1. CommitFails(w)
      BY <1>4, <2>2, OwnFeed
    <3>2. NoTrace(f)
      BY <2>2, <3>1 DEF CommitFails, HandlingInv, Handling
    <3>3. QED
      BY <3>1, <3>2 DEF CommitFails, NoTrace, dbVars
  <2>3. QED
    BY <2>1, <2>2
<1>5. CASE AllReceived \/ UNCHANGED vars
  BY <1>2, <1>5 DEF AllReceived, vars, NoTrace
<1>6. QED
  BY <1>3, <1>4, <1>5 DEF Next, Takes

LEMMA NextHandlingInv == HandlingInv /\ [Next]_vars => HandlingInv'
<1>1. HandlingInv /\ [Next]_vars => DeliveryInv'
  BY NextTypeOK, NextPendingFits, NextLinkedIsStored, NextStoredIsPast,
     NextNavitiaHoldsCommittedTrip
  DEF HandlingInv, DeliveryInv
<1>2. HandlingInv => TypeOK /\ PendingIsOwn /\ FreshFeeds
  BY DEF HandlingInv, DeliveryInv
<1>3. HandlingInv /\ [Next]_vars => PendingIsOwn' /\ FreshFeeds'
  BY <1>2, NextPendingIsOwn, NextFreshFeeds
<1>4. QED
  BY <1>1, <1>3, NextHandling, NextVerdictMatchesDelivery, NextFailedCommitLeavesNothing
  DEF HandlingInv

\* HandlingInv is inductive.
THEOREM HandlingInvariant == Spec => []HandlingInv
<1>1. HandlingInv /\ [Next]_vars => HandlingInv'
  BY NextHandlingInv
<1>2. QED
  BY <1>1, InitHandlingInv, PTL DEF Spec

\* The verdict Kirin leaves on a feed agrees with what it did with it, for any
\* number of processes that interleave, fail or die.
THEOREM VerdictsAreRight == Spec => []VerdictMatchesDelivery
<1>1. HandlingInv => VerdictMatchesDelivery
  BY DEF HandlingInv
<1>2. QED
  BY <1>1, HandlingInvariant, PTL

\* A feed whose commit failed has left nothing, in the database or with navitia.
THEOREM LostFeedsLeaveNothing == Spec => []FailedCommitLeavesNothing
<1>1. HandlingInv => FailedCommitLeavesNothing
  BY DEF HandlingInv
<1>2. QED
  BY <1>1, HandlingInvariant, PTL

-----------------------------------------------------------------------------
(***************************************************************************)
(* A process that is alone keeps the contract with navitia.                *)
(***************************************************************************)

AloneInv == DeliveryInv /\ OutgoingIsStored

LEMMA NextOutgoingIsStored ==
    ASSUME \A v, w \in Workers : v = w
    PROVE  AloneInv /\ [Next]_vars => OutgoingIsStored'
<1> SUFFICES ASSUME AloneInv, [Next]_vars, NEW v \in Workers, NEW t \in Trips,
                    pc'[v] = "publish", outgoing'[v][t] # NoTrip
             PROVE  tripRow'[t] # NoTrip /\ outgoing'[v][t] = ContentOf(t)'
  BY DEF OutgoingIsStored
<1>1. TypeOK /\ LinkedIsStored
  BY DEF AloneInv, DeliveryInv
<1>2. pc[v] = "publish" /\ outgoing[v][t] # NoTrip =>
        tripRow[t] # NoTrip /\ outgoing[v][t] = ContentOf(t)
  BY DEF AloneInv, OutgoingIsStored
<1>3. CASE ReadBack(v)
  <2>1. feed[v] \in Feeds
    BY <1>1, <1>3, FeedOfBusy DEF ReadBack, Goto
  <2>2. t \in rtu[feed[v]].links /\ outgoing'[v][t] = ContentOf(t)
    BY <1>1, <1>3 DEF ReadBack, TypeOK
  <2>3. UNCHANGED <<tripRow, stopRows>>
    BY <1>3 DEF ReadBack, dbVars
  <2>4. QED
    BY <1>1, <2>1, <2>2, <2>3 DEF LinkedIsStored, ContentOf
<1>4. CASE \/ BuildRtUpdate(v) \/ BuildTripUpdates(v) \/ BuildTripUpdatesFails(v)
           \/ FindAndMerge(v) \/ FindAndMergeFails(v) \/ Commit(v) \/ Publish(v)
           \/ PublishFails(v)
  BY <1>1, <1>4
  DEF BuildRtUpdate, BuildTripUpdates, BuildTripUpdatesFails, FindAndMerge,
      FindAndMergeFails, Commit, Publish, PublishFails, Goto, TypeOK
<1>5. CASE Leaves(v) \/ CommitBroken(v)
  <2>1. PICK s : LeaveFeed(v, s)
    BY <1>5, LeavesAre DEF CommitBroken
  <2>2. QED
    BY <1>1, <2>1 DEF LeaveFeed, TypeOK
<1>6. CASE UNCHANGED <<pc, outgoing, tripRow, stopRows>>
  BY <1>2, <1>6 DEF ContentOf
<1>7. QED
  BY <1>3, <1>4, <1>5, <1>6
  DEF Next, Advance, Leaves, BuildRtUpdateFails, ReceiveOnFailedSession, AllReceived, vars,
      dbVars, localVars

\* A step of Kirin is a step of the contract: a commit stores, a publication sends,
\* the others change nothing it speaks of.
LEMMA NextIsContractStep ==
    ASSUME \A v, w \in Workers : v = w, AloneInv, AloneInv', [Next]_vars
    PROVE  [Contract!Next]_<<StoredTrips, navitia>>
<1>1. TypeOK /\ TypeOK' /\ PendingFits
  BY DEF AloneInv, DeliveryInv
<1>2. ASSUME NEW w \in Workers, Flushes(w)
      PROVE  Contract!Store
  <2>0. Flush(w) /\ UNCHANGED navitia
    BY <1>2, FlushesAre
  <2>1. ASSUME NEW t \in Trips, tripRow'[t] # NoTrip
        PROVE  ContentOf(t)' \in Content
    <3>1. {r.stops : r \in stopRows'[t]} \in SUBSET StopLists
      BY <1>1 DEF TypeOK, Row
    <3>2. tripRow'[t] \in Heads
      BY <1>1, <2>1 DEF TypeOK
    <3>3. QED
      BY <3>1, <3>2 DEF ContentOf, Content
  <2>2. ASSUME NEW t \in Trips, StoredTrips[t] # NoTrip
        PROVE  StoredTrips'[t] # NoTrip
    <3>1. tripRow'[t] # NoTrip
      BY <1>1, <2>0, <2>2, CommitStores DEF StoredTrips
    <3>2. QED
      BY <2>1, <3>1 DEF StoredTrips, FeedHandlingAssumption
  <2>3. StoredTrips' \in [Trips -> Content \cup {NoTrip}]
    BY <2>1 DEF StoredTrips
  <2>4. QED
    BY <2>0, <2>2, <2>3 DEF Contract!Store
<1>3. ASSUME NEW w \in Workers, Publish(w) \/ PublishFails(w)
      PROVE  Contract!Send \/ UNCHANGED <<StoredTrips, navitia>>
  <2> DEFINE S == {t \in Trips : outgoing[w][t] # NoTrip}
  <2>1. UNCHANGED StoredTrips
    BY <1>3 DEF Publish, PublishFails, dbVars, StoredTrips, ContentOf
  <2>2. \/ navitia' = [t \in Trips |-> IF t \in S THEN outgoing[w][t] ELSE navitia[t]]
        \/ navitia' = navitia
    BY <1>3 DEF Publish, PublishFails, Deliver
  <2>3. \A t \in S : StoredTrips[t] = outgoing[w][t] /\ StoredTrips[t] # NoTrip
    BY <1>3 DEF AloneInv, OutgoingIsStored, StoredTrips, Publish, PublishFails, Goto
  <2>4. S \in SUBSET {t \in Trips : StoredTrips[t] # NoTrip}
    BY <2>3
  <2>5. QED
    BY <2>1, <2>2, <2>3, <2>4 DEF Contract!Send
<1>4. CASE UNCHANGED <<tripRow, stopRows, navitia>>
  BY <1>4 DEF StoredTrips, ContentOf
<1>5. ASSUME NEW w \in Workers, Leaves(w)
      PROVE  UNCHANGED <<tripRow, stopRows, navitia>>
  BY <1>5, LeavesAre
<1>6. QED
  BY <1>2, <1>3, <1>4, <1>5
  DEF Next, Advance, Flushes, Leaves, BuildRtUpdate, BuildRtUpdateFails,
      ReceiveOnFailedSession, BuildTripUpdates, BuildTripUpdatesFails, FindAndMerge,
      FindAndMergeFails, ReadBack, AllReceived, vars, dbVars, Contract!Next

\* Feeds handled one at a time keep the contract with navitia, through every
\* failure: what navitia knows of a trip changes only to what the database holds of
\* it at that time.
THEOREM KeepsContract ==
    ASSUME \A v, w \in Workers : v = w
    PROVE  Spec => ImplementsContract
<1>1. Init => Contract!Init
  BY DEF Init, Contract!Init, StoredTrips
<1>2. Init => AloneInv
  BY InitDeliveryInv DEF Init, AloneInv, OutgoingIsStored
<1>3. AloneInv /\ [Next]_vars => AloneInv'
  BY NextTypeOK, NextPendingFits, NextLinkedIsStored, NextStoredIsPast,
     NextNavitiaHoldsCommittedTrip, NextOutgoingIsStored
  DEF AloneInv, DeliveryInv
<1>4. AloneInv /\ AloneInv' /\ [Next]_vars => [Contract!Next]_<<StoredTrips, navitia>>
  BY NextIsContractStep
<1>5. QED
  BY <1>1, <1>2, <1>3, <1>4, PTL DEF Spec, ImplementsContract, Contract!Spec

-----------------------------------------------------------------------------
(***************************************************************************)
(* A process that is alone leaves each trip in one version, and navitia    *)
(* with its stops.                                                         *)
(***************************************************************************)

AtMostOne(S) == \A r, q \in S : r = q

\* What a process that is alone is about to commit for a trip: nothing without a
\* change; for a new trip, its first rows; rows of one version in any case; and
\* where the trip is not linked the rows it has, or a list that was refused.
Ready(w, t) ==
    /\ pending[w][t].kind = "none" => NewRows(w, t) = stopRows[t]
    /\ pending[w][t].kind = "insert" => pending[w][t].link
    /\ AtMostOne(NewRows(w, t))
    /\ \/ pending[w][t].link
       \/ NewRows(w, t) = stopRows[t]
       \/ \E r \in NewRows(w, t) : r.stops \in Rejected

OneVersion ==
    /\ \A t \in Trips : tripRow[t] = NoTrip => stopRows[t] = {}
    /\ \A t \in Trips : AtMostOne(stopRows[t])
    /\ \A w \in Workers : pc[w] \in {"commit", "broken"} => \A t \in Trips : Ready(w, t)

\* The writer of the stops of a stored trip is a feed that was received, and none
\* that is not committed yet.
WriterIsKnown ==
    /\ \A t \in Trips : writer[t] \in 0 .. received
    /\ \A t \in Trips : tripRow[t] # NoTrip => writer[t] # 0
    /\ \A w \in Workers : pc[w] \in {"parse", "merge", "commit", "broken", "invalid"} =>
          \A t \in Trips : writer[t] # feed[w]

\* Why navitia may have other stops than the database once all is at rest.
Explained(t) ==
    \/ navitia[t] # NoTrip /\ navitia[t].stops = ContentOf(t).stops
    \/ rtu[writer[t]].status = "KO"
    \/ fate[writer[t]] \in {"crashed", "unmarked"}
    \/ ContentOf(t).stops \cap Rejected # {}

\* The process that wrote the stops of a trip is about to send them, or to set its
\* feed KO.
Due(w, t) ==
    /\ writer[t] = feed[w]
    /\ \/ pc[w] = "readback" /\ t \in rtu[feed[w]].links
       \/ pc[w] = "publish" /\ outgoing[w][t] # NoTrip
       \/ pc[w] = "failed"

ExplainedOrDue ==
    \A t \in Trips : tripRow[t] # NoTrip =>
       Explained(t) \/ \E w \in Workers : Due(w, t)

\* The inductive invariant behind TripIsOneVersion and StalenessIsExplained.
SerialInv ==
    /\ HandlingInv
    /\ OutgoingIsStored
    /\ OneVersion
    /\ WriterIsKnown
    /\ ExplainedOrDue

\* The rows of a feed are of one version.
LEMMA RowsOfAreOne ==
    ASSUME NEW f, NEW e \in Entry
    PROVE  /\ AtMostOne(RowsOf(f, e.stops))
           /\ ~Consistent(e) => \E r \in RowsOf(f, e.stops) : r.stops \in Rejected
<1>1. e.stops \in {{}} \cup {{s} : s \in StopLists}
  BY DEF Entry
<1>2. CASE e.stops = {}
  BY <1>2 DEF AtMostOne, RowsOf, Consistent
<1>3. CASE \E s \in StopLists : e.stops = {s}
  <2>1. PICK s \in StopLists : e.stops = {s}
    BY <1>3
  <2>2. RowsOf(f, e.stops) = {[feed |-> f, stops |-> s]}
    BY <2>1 DEF RowsOf
  <2>3. ~Consistent(e) => s \in Rejected
    BY <2>1 DEF Consistent
  <2>4. QED
    BY <2>2, <2>3 DEF AtMostOne
<1>4. QED
  BY <1>1, <1>2, <1>3

\* What merge() makes of a trip is ready to be committed.
LEMMA MergedIsReady ==
    ASSUME TypeOK, OneVersion, NEW w \in Workers, NEW t \in Trips, NEW u \in BOOLEAN,
           NEW c, c = NoChange \/ (t \in Mentioned(w) /\ c = MergeTrip(w, t, u)),
           NEW rows, rows = (stopRows[t] \ c.removed) \cup c.added
    PROVE  /\ c.kind = "none" => rows = stopRows[t]
           /\ c.kind = "insert" => c.link
           /\ AtMostOne(rows)
           /\ c.link \/ rows = stopRows[t] \/ \E r \in rows : r.stops \in Rejected
<1> DEFINE e == payload[w].entries[t]
           new == RowsOf(feed[w], e.stops)
<1>1. AtMostOne(stopRows[t]) /\ (tripRow[t] = NoTrip => stopRows[t] = {})
  BY DEF OneVersion
<1>2. CASE c = NoChange
  <2>1. rows = stopRows[t] /\ c.kind = "none"
    BY <1>2 DEF NoChange
  <2>2. QED
    BY <1>1, <2>1
<1>3. CASE c # NoChange
  <2>1. t \in Mentioned(w) /\ c = MergeTrip(w, t, u)
    BY <1>3
  <2>2. e \in Entry
    BY <2>1, EntryType DEF Mentioned, TypeOK
  <2>3. AtMostOne(new) /\ (~Consistent(e) => \E r \in new : r.stops \in Rejected)
    BY <2>2, RowsOfAreOne
  <2>4. CASE tripRow[t] = NoTrip
    <3>1. c = FirstTime(w, e)
      BY <2>1, <2>4 DEF MergeTrip
    <3>2. c = [kind |-> "insert", seen |-> NoTrip, head |-> e.head, removed |-> {},
               added |-> new, link |-> TRUE]
      BY <1>3, <3>1 DEF FirstTime
    <3>3. c.kind = "insert" /\ c.link /\ c.removed = {} /\ c.added = new
      BY <3>2
    <3> HIDE DEF new
    <3>4. rows = new
      BY <1>1, <2>4, <3>3
    <3>5. QED
      BY <2>3, <3>3, <3>4
  <2>5. CASE tripRow[t] # NoTrip
    <3>1. c = [kind    |-> "update", seen |-> tripRow[t], head |-> e.head,
               removed |-> IF u THEN {} ELSE stopRows[t],
               added   |-> IF u THEN {} ELSE new,
               link    |-> ~u /\ Consistent(e)]
      BY <2>1, <2>5 DEF MergeTrip, Again
    <3>2. /\ c.kind = "update" /\ c.link = (~u /\ Consistent(e))
          /\ c.removed = IF u THEN {} ELSE stopRows[t]
          /\ c.added = IF u THEN {} ELSE new
      BY <3>1
    <3>3. CASE u
      <4>1. rows = stopRows[t]
        BY <3>2, <3>3
      <4>2. QED
        BY <1>1, <3>2, <4>1
    <3>4. CASE ~u
      <4>1. /\ c.removed = stopRows[t] /\ c.added = new
            /\ Consistent(e) => c.link
        BY <3>2, <3>4
      <4> HIDE DEF new
      <4>2. rows = new
        BY <4>1
      <4>3. QED
        BY <2>3, <3>2, <4>1, <4>2
    <3>5. QED
      BY <3>3, <3>4
  <2>6. QED
    BY <2>4, <2>5
<1>4. QED
  BY <1>2, <1>3

\* The steps that bear on the versions of a trip.
LEMMA KeepsVersions ==
    ASSUME TypeOK, [Next]_vars
    PROVE  \/ \E w \in Workers : Merges(w) \/ Flushes(w)
           \/ /\ UNCHANGED <<tripRow, stopRows>>
              /\ \A v \in Workers : pc'[v] \in {"commit", "broken"} =>
                    pc[v] \in {"commit", "broken"} /\ pending'[v] = pending[v]
<1> DEFINE Kept == /\ UNCHANGED <<tripRow, stopRows>>
                   /\ \A v \in Workers : pc'[v] \in {"commit", "broken"} =>
                         pc[v] \in {"commit", "broken"} /\ pending'[v] = pending[v]
<1>1. ASSUME NEW w \in Workers,
             BuildRtUpdate(w) \/ BuildTripUpdates(w) \/ BuildTripUpdatesFails(w)
      PROVE  Kept
  BY <1>1 DEF BuildRtUpdate, BuildTripUpdates, BuildTripUpdatesFails, Goto, TypeOK, dbVars
<1>2. ASSUME NEW w \in Workers, ReadBack(w) \/ Publish(w) \/ PublishFails(w)
      PROVE  Kept
  BY <1>2 DEF ReadBack, Publish, PublishFails, Goto, TypeOK, dbVars
<1>3. ASSUME NEW w \in Workers, Leaves(w)
      PROVE  Kept
  <2>1. UNCHANGED <<tripRow, stopRows>>
    BY <1>3, LeavesAre
  <2>2. PICK s : LeaveFeed(w, s)
    BY <1>3, LeavesAre
  <2>3. \A v \in Workers : IF v = w THEN pc'[v] = "idle"
                                    ELSE pc'[v] = pc[v] /\ pending'[v] = pending[v]
    BY <2>2 DEF LeaveFeed, TypeOK
  <2>4. QED
    BY <2>1, <2>3
<1>4. ASSUME \/ \E w \in Workers : BuildRtUpdateFails(w) \/ ReceiveOnFailedSession(w)
             \/ AllReceived \/ UNCHANGED vars
      PROVE  Kept
  BY <1>4
  DEF BuildRtUpdateFails, ReceiveOnFailedSession, AllReceived, vars, dbVars, localVars
<1> HIDE DEF Kept
<1>5. (\E w \in Workers : Merges(w) \/ Flushes(w)) \/ Kept
  <2>1. CASE \E w \in Workers : BuildRtUpdate(w) \/ Advance(w) \/ Crash(w)
    <3>1. PICK w \in Workers : BuildRtUpdate(w) \/ Advance(w) \/ Crash(w)
      BY <2>1
    <3>2. QED
      BY <1>1, <1>2, <1>3, <3>1 DEF Advance, Merges, Flushes, Leaves
  <2>2. CASE \E w \in Workers : BuildRtUpdateFails(w) \/ ReceiveOnFailedSession(w)
    BY <1>4, <2>2
  <2>3. CASE AllReceived \/ UNCHANGED vars
    BY <1>4, <2>3
  <2>4. QED
    BY <2>1, <2>2, <2>3 DEF Next
<1>6. QED
  BY <1>5 DEF Kept

LEMMA NextOneVersion ==
    ASSUME \A v, w \in Workers : v = w, HandlingInv, OneVersion, [Next]_vars
    PROVE  OneVersion'
<1>1. TypeOK /\ PendingFits
  BY DEF HandlingInv, DeliveryInv
<1>2. ASSUME NEW w \in Workers, Merges(w) PROVE OneVersion'
  <2>1. PICK trips \in SUBSET Mentioned(w), U \in SUBSET Mentioned(w) :
           pending' = [pending EXCEPT ![w] = MergedTrips(w, trips, U)]
    BY <1>2, MergesAre
  <2>2. UNCHANGED <<tripRow, stopRows>>
    BY <1>2 DEF Merges, FindAndMerge, FindAndMergeFails, dbVars
  <2>3. ASSUME NEW t \in Trips PROVE Ready(w, t)'
    <3> DEFINE u == t \in U
               c == pending'[w][t]
               rows == (stopRows[t] \ c.removed) \cup c.added
    <3>1. c = NoChange \/ (t \in Mentioned(w) /\ c = MergeTrip(w, t, u))
      <4>1. pending'[w] = MergedTrips(w, trips, U)
        BY <1>1, <2>1 DEF TypeOK
      <4>2. QED
        BY <4>1 DEF MergedTrips
    <3>2. u \in BOOLEAN
      OBVIOUS
    <3> HIDE DEF u
    <3>3. NewRows(w, t)' = rows /\ stopRows'[t] = stopRows[t]
      BY <2>2 DEF NewRows
    <3>4. /\ c.kind = "none" => rows = stopRows[t]
          /\ c.kind = "insert" => c.link
          /\ AtMostOne(rows)
          /\ c.link \/ rows = stopRows[t] \/ \E r \in rows : r.stops \in Rejected
      <4> HIDE DEF c
      <4>1. QED
        BY <1>1, <3>1, <3>2, MergedIsReady
    <3> HIDE DEF rows
    <3>5. QED
      BY <3>3, <3>4 DEF Ready
  <2>4. QED
    BY <2>2, <2>3 DEF OneVersion
<1>3. ASSUME NEW w \in Workers, Flushes(w) PROVE OneVersion'
  <2>0. Flush(w) /\ pc[w] \in {"commit", "broken"}
    BY <1>3, FlushesAre
  <2>1. /\ \A t \in Trips : tripRow'[t] = NewHead(w, t) /\ stopRows'[t] = NewRows(w, t)
        /\ \A t \in Trips : Ready(w, t)
    BY <2>0 DEF Flush, OneVersion
  <2>2. \A v \in Workers : pc'[v] \notin {"commit", "broken"}
    BY <1>1, <1>3 DEF Flushes, Commit, CommitBroken, LeaveFeed, Goto, TypeOK
  <2>3. ASSUME NEW t \in Trips, tripRow'[t] = NoTrip PROVE stopRows'[t] = {}
    <3>1. Fits(pending[w][t], t) /\ pending[w][t] \in Change
      BY <1>1 DEF PendingFits, TypeOK
    <3>2. NewHead(w, t) = NoTrip
      BY <2>1, <2>3
    <3>3. pending[w][t].kind = "none" /\ tripRow[t] = NoTrip
      BY <3>1, <3>2 DEF NewHead, Fits, Change
    <3>4. QED
      BY <2>1, <3>3 DEF Ready, OneVersion
  <2>4. \A t \in Trips : AtMostOne(stopRows'[t])
    BY <2>1 DEF Ready
  <2>5. QED
    BY <2>2, <2>3, <2>4 DEF OneVersion
<1>4. ASSUME UNCHANGED <<tripRow, stopRows>>,
             \A v \in Workers : pc'[v] \in {"commit", "broken"} =>
                pc[v] \in {"commit", "broken"} /\ pending'[v] = pending[v]
      PROVE  OneVersion'
  <2>1. ASSUME NEW v \in Workers, pc'[v] \in {"commit", "broken"}, NEW t \in Trips PROVE Ready(v, t)'
    <3>1. Ready(v, t) /\ pending'[v][t] = pending[v][t]
      BY <1>4, <2>1 DEF OneVersion
    <3>2. NewRows(v, t)' = NewRows(v, t)
      BY <1>4, <3>1 DEF NewRows
    <3>3. QED
      BY <1>4, <3>1, <3>2 DEF Ready
  <2>2. QED
    BY <1>4, <2>1 DEF OneVersion
<1>5. QED
  BY <1>1, <1>2, <1>3, <1>4, KeepsVersions

\* Steps at which a process has committed nothing of its feed.
BeforeCommit == {"parse", "merge", "commit", "broken", "invalid"}

\* The steps that bear on the writers.
LEMMA KeepsWriters ==
    ASSUME TypeOK, [Next]_vars
    PROVE  \/ \E w \in Workers : BuildRtUpdate(w) \/ Flushes(w)
           \/ /\ UNCHANGED <<writer, tripRow>>
              /\ received' = received \/ received' = received + 1
              /\ \A v \in Workers : pc'[v] \in BeforeCommit =>
                    pc[v] \in BeforeCommit /\ feed'[v] = feed[v]
<1> DEFINE Kept == /\ UNCHANGED <<writer, tripRow>>
                   /\ received' = received \/ received' = received + 1
                   /\ \A v \in Workers : pc'[v] \in BeforeCommit =>
                         pc[v] \in BeforeCommit /\ feed'[v] = feed[v]
<1>1. ASSUME NEW w \in Workers,
             BuildTripUpdates(w) \/ BuildTripUpdatesFails(w) \/ FindAndMerge(w)
             \/ FindAndMergeFails(w)
      PROVE  Kept
  BY <1>1 DEF BuildTripUpdates, BuildTripUpdatesFails, FindAndMerge, FindAndMergeFails, Goto,
              TypeOK, dbVars, historyVars, BeforeCommit
<1>2. ASSUME NEW w \in Workers, ReadBack(w) \/ Publish(w) \/ PublishFails(w)
      PROVE  Kept
  BY <1>2 DEF ReadBack, Publish, PublishFails, Goto, TypeOK, dbVars, historyVars, BeforeCommit
<1>3. ASSUME NEW w \in Workers, Leaves(w)
      PROVE  Kept
  <2>1. UNCHANGED <<writer, tripRow, received>>
    BY <1>3, LeavesAre
  <2>2. PICK s : LeaveFeed(w, s)
    BY <1>3, LeavesAre
  <2>3. \A v \in Workers : IF v = w THEN pc'[v] = "idle"
                                    ELSE pc'[v] = pc[v] /\ feed'[v] = feed[v]
    BY <2>2 DEF LeaveFeed, TypeOK
  <2>4. QED
    BY <2>1, <2>3 DEF BeforeCommit
<1>4. ASSUME \/ \E w \in Workers : BuildRtUpdateFails(w) \/ ReceiveOnFailedSession(w)
             \/ AllReceived \/ UNCHANGED vars
      PROVE  Kept
  BY <1>4
  DEF BuildRtUpdateFails, ReceiveOnFailedSession, AllReceived, vars, dbVars, localVars
<1> HIDE DEF Kept
<1>5. (\E w \in Workers : BuildRtUpdate(w) \/ Flushes(w)) \/ Kept
  <2>1. CASE \E w \in Workers : BuildRtUpdate(w) \/ Advance(w) \/ Crash(w)
    <3>1. PICK w \in Workers : BuildRtUpdate(w) \/ Advance(w) \/ Crash(w)
      BY <2>1
    <3>2. QED
      BY <1>1, <1>2, <1>3, <3>1 DEF Advance, Flushes, Leaves
  <2>2. CASE \E w \in Workers : BuildRtUpdateFails(w) \/ ReceiveOnFailedSession(w)
    BY <1>4, <2>2
  <2>3. CASE AllReceived \/ UNCHANGED vars
    BY <1>4, <2>3
  <2>4. QED
    BY <2>1, <2>2, <2>3 DEF Next
<1>6. QED
  BY <1>5 DEF Kept

\* A trip a commit stores for the first time has its stops from that commit.
LEMMA InsertedIsWritten ==
    ASSUME TypeOK, PendingFits, OneVersion, NEW w \in Workers, Flush(w),
           pc[w] \in {"commit", "broken"},
           NEW t \in Trips, tripRow[t] = NoTrip, tripRow'[t] # NoTrip
    PROVE  pending[w][t].link
<1>1. Fits(pending[w][t], t) /\ pending[w][t] \in Change
  BY DEF PendingFits, TypeOK
<1>2. NewHead(w, t) # NoTrip
  BY DEF Flush
<1>3. pending[w][t].kind = "insert"
  BY <1>1, <1>2 DEF NewHead, Fits, Change
<1>4. QED
  BY <1>3 DEF OneVersion, Ready

LEMMA NextWriterIsKnown ==
    ASSUME \A v, w \in Workers : v = w, HandlingInv, OneVersion, WriterIsKnown, [Next]_vars
    PROVE  WriterIsKnown'
<1>1. TypeOK /\ PendingFits
  BY DEF HandlingInv, DeliveryInv
<1>2. received \in Nat
  BY <1>1 DEF TypeOK
<1>3. ASSUME NEW w \in Workers, BuildRtUpdate(w) PROVE WriterIsKnown'
  <2>1. /\ received' = received + 1 /\ UNCHANGED <<writer, tripRow>>
        /\ feed' = [feed EXCEPT ![w] = received + 1]
    BY <1>3 DEF BuildRtUpdate
  <2>2. feed'[w] = received + 1
    BY <1>1, <2>1 DEF TypeOK
  <2>3. \A t \in Trips : writer'[t] \in 0 .. received' /\ writer'[t] # feed'[w]
    BY <1>2, <2>1, <2>2 DEF WriterIsKnown
  <2>4. QED
    BY <2>1, <2>3 DEF WriterIsKnown
<1>4. ASSUME NEW w \in Workers, Flushes(w) PROVE WriterIsKnown'
  <2>0. Flush(w) /\ pc[w] \in {"commit", "broken"} /\ received' = received
    BY <1>4, FlushesAre
  <2>1. feed[w] \in 1 .. received
    BY <1>1, <2>0, FeedOfBusy
  <2>2. /\ \A t \in Trips : writer'[t] = IF WritesStops(w, t) THEN feed[w] ELSE writer[t]
        /\ \A v \in Workers : pc'[v] \in {"readback", "idle"}
    BY <1>1, <1>4, <2>0 DEF Flushes, Flush, Commit, CommitBroken, LeaveFeed, Goto, TypeOK
  <2>3. ASSUME NEW t \in Trips, tripRow'[t] # NoTrip PROVE writer'[t] # 0
    <3>1. tripRow[t] = NoTrip => WritesStops(w, t)
      BY <1>1, <2>0, <2>3, InsertedIsWritten DEF WritesStops
    <3>2. QED
      BY <2>1, <2>2, <3>1 DEF WriterIsKnown
  <2>4. QED
    BY <1>2, <2>0, <2>1, <2>2, <2>3 DEF WriterIsKnown
<1>5. ASSUME UNCHANGED <<writer, tripRow>>, received' = received \/ received' = received + 1,
             \A v \in Workers : pc'[v] \in BeforeCommit =>
                pc[v] \in BeforeCommit /\ feed'[v] = feed[v]
      PROVE  WriterIsKnown'
  BY <1>2, <1>5 DEF WriterIsKnown, BeforeCommit
<1>6. QED
  BY <1>1, <1>3, <1>4, <1>5, KeepsWriters

\* A trip stays explained as long as its stops and their writer stay, navitia gets
\* its stops or nothing, and the verdict on its writer stays.
LEMMA StaysExplained ==
    ASSUME NEW t \in Trips, Explained(t), UNCHANGED stopRows, writer'[t] = writer[t],
           navitia'[t] = navitia[t]
              \/ (navitia'[t] # NoTrip /\ navitia'[t].stops = ContentOf(t).stops),
           rtu[writer[t]].status = "KO" => rtu'[writer[t]].status = "KO",
           fate[writer[t]] \in {"crashed", "unmarked"} => fate'[writer[t]] \in {"crashed", "unmarked"}
    PROVE  Explained(t)'
<1>1. ContentOf(t)'.stops = ContentOf(t).stops
  BY DEF ContentOf
<1>2. QED
  BY <1>1 DEF Explained

\* No step but a commit changes the verdict on the writer of a stored trip, unless
\* it becomes KO, or the process or the database failed.
LEMMA VerdictStays ==
    ASSUME HandlingInv, WriterIsKnown, NEW t \in Trips, tripRow[t] # NoTrip, [Next]_vars,
           \A w \in Workers : ~Flushes(w)
    PROVE  /\ rtu[writer[t]].status = "KO" => rtu'[writer[t]].status = "KO"
           /\ fate[writer[t]] \in {"crashed", "unmarked"} => fate'[writer[t]] \in {"crashed", "unmarked"}
<1> DEFINE g == writer[t]
<1>1. TypeOK /\ \A w \in Workers : Handling(w)
  BY DEF HandlingInv, DeliveryInv
<1>2. g \in 1 .. received /\ g \in Feeds /\ received \in Nat
  BY <1>1 DEF WriterIsKnown, TypeOK, Feeds, FeedHandlingAssumption
<1>3. g # received + 1
  BY <1>2
<1> HIDE DEF g
<1> DEFINE Stays == /\ rtu[g].status = "KO" => rtu'[g].status = "KO"
                    /\ fate[g] \in {"crashed", "unmarked"} => fate'[g] \in {"crashed", "unmarked"}
<1>4. ASSUME NEW w \in Workers, Takes(w)
      PROVE  Stays
  BY <1>1, <1>2, <1>3, <1>4
  DEF Takes, BuildRtUpdate, BuildRtUpdateFails, ReceiveOnFailedSession, TypeOK, dbVars
<1>5. ASSUME NEW w \in Workers, Finish(w) \/ SetKo(w) PROVE Stays
  <2>1. feed[w] \in Feeds /\ fate[feed[w]] = "running"
    BY <1>1, <1>5, FeedOfBusy DEF Finish, SetKo, Handling
  <2>2. fate' = [fate EXCEPT ![feed[w]] = "ended"]
    BY <1>5 DEF Finish, SetKo
  <2>3. \E e : rtu' = [rtu EXCEPT ![feed[w]] = Ko(rtu[feed[w]], e)] \/ rtu' = rtu
    BY <1>5 DEF Finish, SetKo
  <2>4. rtu[feed[w]] \in RealTimeUpdate /\ rtu[g] \in RealTimeUpdate
    BY <1>1, <1>2, <2>1 DEF TypeOK
  <2>5. \A e : Ko(rtu[feed[w]], e).status = "KO"
    BY <2>4 DEF Ko, RealTimeUpdate
  <2>6. rtu[g].status = "KO" => rtu'[g].status = "KO"
    <3>1. CASE rtu' = rtu
      BY <3>1
    <3>2. CASE \E e : rtu' = [rtu EXCEPT ![feed[w]] = Ko(rtu[feed[w]], e)]
      <4>1. PICK e : rtu' = [rtu EXCEPT ![feed[w]] = Ko(rtu[feed[w]], e)]
        BY <3>2
      <4>2. rtu'[g] = IF g = feed[w] THEN Ko(rtu[feed[w]], e) ELSE rtu[g]
        BY <1>1, <1>2, <4>1 DEF TypeOK
      <4>3. QED
        BY <2>5, <4>2
    <3>3. QED
      BY <2>3, <3>1, <3>2
  <2>7. fate[g] \in {"crashed", "unmarked"} => fate'[g] \in {"crashed", "unmarked"}
    BY <1>1, <1>2, <2>1, <2>2 DEF TypeOK
  <2>8. QED
    BY <2>6, <2>7
<1>6. ASSUME NEW w \in Workers, CommitFails(w) PROVE Stays
  <2>1. feed[w] \in Feeds /\ fate[feed[w]] = "running"
    BY <1>1, <1>6, FeedOfBusy DEF CommitFails, Handling
  <2>2. fate' = [fate EXCEPT ![feed[w]] = "lost"] /\ rtu' = rtu
    BY <1>6 DEF CommitFails, dbVars
  <2>3. QED
    BY <1>1, <1>2, <2>1, <2>2 DEF TypeOK
<1>7. ASSUME NEW w \in Workers, Crash(w) \/ DatabaseFails(w) PROVE Stays
  BY <1>1, <1>2, <1>7 DEF Crash, DatabaseFails, dbVars, TypeOK
<1>8. ASSUME UNCHANGED <<rtu, fate>> PROVE Stays
  BY <1>8
<1>9. Stays
  <2> HIDE DEF Stays
  <2>1. CASE \E w \in Workers : Takes(w) \/ Crash(w)
    BY <1>4, <1>7, <2>1
  <2>2. CASE \E w \in Workers : Advance(w)
    <3>1. PICK w \in Workers : Advance(w)
      BY <2>2
    <3>2. CASE Finish(w) \/ SetKo(w) \/ CommitFails(w) \/ DatabaseFails(w)
      BY <1>5, <1>6, <1>7, <3>2
    <3>3. CASE BuildTripUpdates(w) \/ BuildTripUpdatesFails(w) \/ Merges(w)
               \/ ReadBack(w) \/ Publish(w) \/ PublishFails(w)
      BY <1>8, <3>3 DEF BuildTripUpdates, BuildTripUpdatesFails, Merges, FindAndMerge,
                        FindAndMergeFails, ReadBack, Publish, PublishFails, dbVars,
                        historyVars
    <3>4. QED
      BY <3>1, <3>2, <3>3 DEF Advance, Merges, Flushes
  <2>3. CASE AllReceived \/ UNCHANGED vars
    BY <1>8, <2>3 DEF AllReceived, vars
  <2>4. QED
    BY <2>1, <2>2, <2>3 DEF Next, Takes
<1>10. QED
  BY <1>9 DEF g

\* A trip that is written without a link stays explained.
LEMMA UnlinkedIsExplained ==
    ASSUME \A v, w \in Workers : v = w, SerialInv,
           NEW w \in Workers, Flushes(w), NEW t \in Trips, tripRow'[t] # NoTrip,
           ~pending[w][t].link
    PROVE  Explained(t)'
<1>1. TypeOK /\ PendingFits /\ PendingIsOwn /\ OneVersion /\ WriterIsKnown
  BY DEF SerialInv, HandlingInv, DeliveryInv
<1>2. Flush(w) /\ pc[w] \in {"commit", "broken"} /\ navitia' = navitia
  BY FlushesAre
<1>3. feed[w] \in Feeds
  BY <1>1, <1>2, FeedOfBusy
<1>4. /\ stopRows'[t] = NewRows(w, t)
      /\ writer'[t] = IF WritesStops(w, t) THEN feed[w] ELSE writer[t]
  BY <1>2 DEF Flush
<1>5. ASSUME NEW g \in Feeds, g # feed[w]
      PROVE  rtu'[g] = rtu[g] /\ fate'[g] = fate[g]
  BY <1>1, <1>5 DEF Flushes, Commit, CommitBroken, TypeOK
<1>6. Ready(w, t)
  BY <1>1, <1>2 DEF OneVersion
<1>7. CASE \E r \in NewRows(w, t) : r.stops \in Rejected
  <2>1. ContentOf(t)'.stops = {r.stops : r \in NewRows(w, t)}
    BY <1>4 DEF ContentOf
  <2>2. ContentOf(t)'.stops \cap Rejected # {}
    BY <1>7, <2>1
  <2>3. QED
    BY <2>2 DEF Explained
<1>8. CASE NewRows(w, t) = stopRows[t] /\ ~\E r \in NewRows(w, t) : r.stops \in Rejected
  <2>1. tripRow[t] # NoTrip
    BY <1>1, <1>2, InsertedIsWritten
  <2>2. Explained(t)
    <3>1. ~\E v \in Workers : Due(v, t)
      BY <1>2 DEF Due
    <3>2. QED
      BY <2>1, <3>1 DEF SerialInv, ExplainedOrDue
  <2>3. ContentOf(t)'.stops = ContentOf(t).stops
    BY <1>4, <1>8 DEF ContentOf
  <2>4. ContentOf(t).stops \cap Rejected = {}
    BY <1>8 DEF ContentOf
  <2>5. CASE navitia[t] # NoTrip /\ navitia[t].stops = ContentOf(t).stops
    BY <1>2, <2>3, <2>5 DEF Explained
  <2>6. CASE rtu[writer[t]].status = "KO" \/ fate[writer[t]] \in {"crashed", "unmarked"}
    <3>1. writer[t] \in Feeds /\ writer[t] # feed[w]
      BY <1>1, <1>2, <2>1 DEF WriterIsKnown, TypeOK, Feeds, FeedHandlingAssumption
    <3>2. rtu'[writer[t]] = rtu[writer[t]] /\ fate'[writer[t]] = fate[writer[t]]
      BY <1>5, <3>1
    <3>3. pending[w][t].added = {}
      \* what is added belongs to the feed, and the rows are those there were
      <4>1. ASSUME NEW r \in pending[w][t].added PROVE FALSE
        <5>1. r \in stopRows[t] /\ r.feed = feed[w]
          BY <1>1, <1>8, <4>1 DEF NewRows, PendingIsOwn
        <5>2. NoTrace(feed[w])
          BY <1>2 DEF SerialInv, HandlingInv, Handling
        <5>3. QED
          BY <5>1, <5>2 DEF NoTrace
      <4>2. QED
        BY <4>1
    <3>4. writer'[t] = writer[t]
      BY <1>4, <3>3 DEF WritesStops
    <3>5. QED
      BY <2>6, <3>2, <3>4 DEF Explained
  <2>7. QED
    BY <2>2, <2>4, <2>5, <2>6 DEF Explained
<1>9. QED
  BY <1>6, <1>7, <1>8 DEF Ready

\* A commit leaves a trip explained, or its process due to send it.
LEMMA FlushExplains ==
    ASSUME \A v, w \in Workers : v = w, SerialInv,
           NEW w \in Workers, Flushes(w), NEW t \in Trips, tripRow'[t] # NoTrip
    PROVE  Explained(t)' \/ Due(w, t)'
<1>1. TypeOK
  BY DEF SerialInv, HandlingInv, DeliveryInv
<1>2. Flush(w) /\ feed[w] \in Feeds
  BY <1>1, FlushesAre, FeedOfBusy
<1>3. CASE ~pending[w][t].link
  BY <1>3, UnlinkedIsExplained
<1>4. CASE pending[w][t].link
  <2>1. writer'[t] = feed[w]
    BY <1>2, <1>4 DEF Flush, WritesStops
  <2>2. CASE Commit(w)
    <3>1. rtu'[feed[w]] = CommittedRtu(w) /\ feed' = feed /\ pc'[w] = "readback"
      BY <1>1, <1>2, <2>2 DEF Commit, Goto, TypeOK
    <3>2. rtu'[feed[w]].links = {u \in Trips : pending[w][u].link}
      BY <3>1 DEF CommittedRtu
    <3>3. QED
      BY <1>4, <2>1, <3>1, <3>2 DEF Due
  <2>3. CASE CommitBroken(w)
    <3>1. rtu'[feed[w]] = Ko(CommittedRtu(w), "failed")
      BY <1>1, <1>2, <2>3 DEF CommitBroken, TypeOK
    <3>2. rtu'[feed[w]].status = "KO"
      BY <3>1 DEF Ko, CommittedRtu
    <3>3. QED
      BY <2>1, <3>2 DEF Explained
  <2>4. QED
    BY <2>2, <2>3 DEF Flushes
<1>5. QED
  BY <1>3, <1>4

\* The steps of a process that is due to send a trip, or to set its feed KO.
LEMMA DueIsDone ==
    ASSUME \A v, w \in Workers : v = w, SerialInv, NEW w \in Workers,
           NEW t \in Trips, tripRow[t] # NoTrip, Due(w, t), Advance(w) \/ Crash(w)
    PROVE  Explained(t)' \/ Due(w, t)'
<1>1. TypeOK /\ LinkedIsStored
  BY DEF SerialInv, HandlingInv, DeliveryInv
<1>2. feed[w] \in Feeds /\ pc[w] \in {"readback", "publish", "failed"} /\ writer[t] = feed[w]
  BY <1>1, FeedOfBusy DEF Due
<1>3. CASE ReadBack(w)
  <2>1. t \in rtu[feed[w]].links
    BY <1>3 DEF Due, ReadBack, Goto
  <2>2. outgoing'[w][t] = ContentOf(t)
    BY <1>1, <1>3, <2>1 DEF ReadBack, TypeOK
  <2>3. outgoing'[w][t] # NoTrip
    BY <1>1, <2>2, ContentType DEF FeedHandlingAssumption
  <2>4. pc'[w] = "publish" /\ writer' = writer /\ feed' = feed
    BY <1>1, <1>3 DEF ReadBack, Goto, TypeOK, historyVars
  <2>5. QED
    BY <1>2, <2>3, <2>4 DEF Due
<1>4. CASE Publish(w) \/ PublishFails(w)
  <2>1. outgoing[w][t] # NoTrip /\ pc[w] = "publish"
    BY <1>4 DEF Due, Publish, PublishFails, Goto
  <2>2. outgoing[w][t] = ContentOf(t)
    BY <2>1 DEF SerialInv, OutgoingIsStored
  <2>3. UNCHANGED <<stopRows, writer, feed>>
    BY <1>4 DEF Publish, PublishFails, dbVars
  <2>4. CASE Deliver(w)
    <3>1. navitia'[t] # NoTrip /\ navitia'[t].stops = ContentOf(t).stops
      BY <2>1, <2>2, <2>4 DEF Deliver
    <3>2. ContentOf(t)'.stops = ContentOf(t).stops
      BY <2>3 DEF ContentOf
    <3>3. QED
      BY <3>1, <3>2 DEF Explained
  <2>5. CASE ~Deliver(w)
    <3>1. pc'[w] = "failed"
      BY <1>1, <1>4, <2>5 DEF Publish, PublishFails, Goto, TypeOK
    <3>2. QED
      BY <1>2, <2>3, <3>1 DEF Due
  <2>6. QED
    BY <2>4, <2>5
<1>5. CASE SetKo(w)
  <2>1. rtu'[feed[w]] = Ko(rtu[feed[w]], pc[w]) /\ writer' = writer
    BY <1>1, <1>2, <1>5 DEF SetKo, TypeOK
  <2>2. rtu[feed[w]] \in RealTimeUpdate
    BY <1>1, <1>2 DEF TypeOK
  <2>3. rtu'[feed[w]].status = "KO"
    BY <2>1, <2>2 DEF Ko, RealTimeUpdate
  <2>4. QED
    BY <1>2, <2>1, <2>3 DEF Explained
<1>6. CASE Crash(w) \/ DatabaseFails(w)
  BY <1>1, <1>2, <1>6 DEF Crash, DatabaseFails, Explained, TypeOK
<1>7. QED
  BY <1>2, <1>3, <1>4, <1>5, <1>6
  DEF Advance, BuildTripUpdates, BuildTripUpdatesFails, FindAndMerge, FindAndMergeFails,
      Commit, CommitBroken, CommitFails, Finish, Goto

LEMMA NextExplainedOrDue ==
    ASSUME \A v, w \in Workers : v = w, SerialInv, [Next]_vars
    PROVE  ExplainedOrDue'
<1> SUFFICES ASSUME NEW t \in Trips, tripRow'[t] # NoTrip
             PROVE  Explained(t)' \/ \E w \in Workers : Due(w, t)'
  BY DEF ExplainedOrDue
<1>1. TypeOK /\ HandlingInv /\ WriterIsKnown
  BY DEF SerialInv, HandlingInv, DeliveryInv
<1>2. ASSUME NEW w \in Workers, Flushes(w)
      PROVE  Explained(t)' \/ \E v \in Workers : Due(v, t)'
  BY <1>2, FlushExplains
<1>3. ASSUME \A w \in Workers : ~Flushes(w)
      PROVE  Explained(t)' \/ \E v \in Workers : Due(v, t)'
  <2>1. UNCHANGED <<tripRow, stopRows, writer>>
    BY <1>3, LeavesAre
    DEF Next, Leaves, Flushes, BuildRtUpdate, BuildRtUpdateFails, ReceiveOnFailedSession,
        Advance, BuildTripUpdates, BuildTripUpdatesFails, FindAndMerge, FindAndMergeFails,
        ReadBack, Publish, PublishFails, AllReceived, vars, dbVars, historyVars
  <2>2. tripRow[t] # NoTrip
    BY <2>1
  <2>3. ASSUME Explained(t) PROVE Explained(t)'
    <3>1. \/ navitia'[t] = navitia[t]
          \/ navitia'[t] # NoTrip /\ navitia'[t].stops = ContentOf(t).stops
      <4>1. ASSUME NEW w \in Workers, Deliver(w), pc[w] = "publish"
            PROVE  \/ navitia'[t] = navitia[t]
                   \/ navitia'[t] # NoTrip /\ navitia'[t].stops = ContentOf(t).stops
        <5>1. outgoing[w][t] # NoTrip => outgoing[w][t] = ContentOf(t)
          BY <4>1 DEF SerialInv, OutgoingIsStored
        <5>2. QED
          BY <4>1, <5>1 DEF Deliver
      <4>2. \/ navitia' = navitia
            \/ \E w \in Workers : Deliver(w) /\ pc[w] = "publish"
        BY <1>3, LeavesAre
        DEF Next, Leaves, Flushes, BuildRtUpdate, BuildRtUpdateFails,
            ReceiveOnFailedSession, Advance, BuildTripUpdates, BuildTripUpdatesFails,
            FindAndMerge, FindAndMergeFails, ReadBack, Publish, PublishFails, AllReceived,
            vars, Goto
      <4>3. QED
        BY <4>1, <4>2
    <3>2. /\ rtu[writer[t]].status = "KO" => rtu'[writer[t]].status = "KO"
          /\ fate[writer[t]] \in {"crashed", "unmarked"} => fate'[writer[t]] \in {"crashed", "unmarked"}
      BY <1>1, <1>3, <2>2, VerdictStays
    <3>3. QED
      BY <2>1, <2>3, <3>1, <3>2, StaysExplained
  <2>4. ASSUME NEW w \in Workers, Due(w, t)
        PROVE  Explained(t)' \/ \E v \in Workers : Due(v, t)'
    <3>1. pc[w] # "idle"
      BY <2>4 DEF Due
    <3>2. CASE Advance(w) \/ Crash(w)
      BY <2>2, <2>4, <3>2, DueIsDone
    <3>3. CASE UNCHANGED vars
      <4>1. Due(w, t)'
        BY <2>4, <3>3 DEF Due, vars
      <4>2. QED
        BY <4>1
    <3>4. QED
      BY <3>1, <3>2, <3>3
      DEF Next, BuildRtUpdate, BuildRtUpdateFails, ReceiveOnFailedSession, AllReceived, Goto
  <2>5. QED
    BY <2>2, <2>3, <2>4 DEF SerialInv, ExplainedOrDue
<1>4. QED
  BY <1>2, <1>3

LEMMA InitSerialInv == Init => SerialInv
<1> SUFFICES ASSUME Init PROVE SerialInv
  OBVIOUS
<1>1. OneVersion
  BY DEF Init, OneVersion, AtMostOne
<1>2. WriterIsKnown
  BY DEF Init, WriterIsKnown
<1>3. ExplainedOrDue /\ OutgoingIsStored
  BY DEF Init, ExplainedOrDue, OutgoingIsStored
<1>4. QED
  BY <1>1, <1>2, <1>3, InitHandlingInv DEF SerialInv

\* SerialInv is inductive where feeds are handled one at a time.
THEOREM SerialInvariant ==
    ASSUME \A v, w \in Workers : v = w
    PROVE  Spec => []SerialInv
<1>1. HandlingInv /\ [Next]_vars => HandlingInv'
  BY NextHandlingInv
<1>2. SerialInv /\ [Next]_vars => OutgoingIsStored'
  BY NextOutgoingIsStored DEF SerialInv, HandlingInv, AloneInv
<1>3. SerialInv /\ [Next]_vars => OneVersion' /\ WriterIsKnown'
  BY NextOneVersion, NextWriterIsKnown DEF SerialInv
<1>4. SerialInv /\ [Next]_vars => ExplainedOrDue'
  BY NextExplainedOrDue
<1>5. SerialInv /\ [Next]_vars => SerialInv'
  BY <1>1, <1>2, <1>3, <1>4 DEF SerialInv
<1>6. QED
  BY <1>5, InitSerialInv, PTL DEF Spec

\* Feeds handled one at a time leave each trip with the stops of a single feed,
\* whatever fails, and whatever the feeds hold.
THEOREM TripsAreOneVersion ==
    ASSUME \A v, w \in Workers : v = w
    PROVE  Spec => []TripIsOneVersion
<1>1. ASSUME NEW S, AtMostOne(S) PROVE Cardinality(S) <= 1
  <2>1. CASE S = {}
    BY <2>1, FS_EmptySet
  <2>2. CASE S # {}
    <3>1. PICK r : S = {r}
      BY <1>1, <2>2 DEF AtMostOne
    <3>2. QED
      BY <3>1, FS_Singleton
  <2>3. QED
    BY <2>1, <2>2
<1>2. SerialInv => TripIsOneVersion
  BY <1>1 DEF SerialInv, OneVersion, TripIsOneVersion
<1>3. QED
  BY <1>2, SerialInvariant, PTL

\* Between two feeds handled one at a time, navitia has the stops of every stored
\* trip, unless their feed was set KO, its process or the database failed, or they were
\* refused.
THEOREM StalenessHasAReason ==
    ASSUME \A v, w \in Workers : v = w
    PROVE  Spec => []StalenessIsExplained
<1>1. SerialInv => StalenessIsExplained
  <2> SUFFICES ASSUME SerialInv, AtRest, NEW t \in Trips, tripRow[t] # NoTrip
               PROVE  Explained(t)
    BY DEF StalenessIsExplained, Explained
  <2>1. \A w \in Workers : ~Due(w, t)
    BY DEF AtRest, Due
  <2>2. QED
    BY <2>1 DEF SerialInv, ExplainedOrDue
<1>2. QED
  BY <1>1, SerialInvariant, PTL

=============================================================================
