------------------------------ MODULE Purge_proofs ------------------------------
(***************************************************************************)
(* Proofs about Purge, for any number of trips, feeds and days.            *)
(***************************************************************************)
EXTENDS Purge, TLAPS

USE PurgeAssumption DEF PurgeAssumption

Links == Feeds \X Trips

FeedStates ==
    {NotReceived, Ended}
    \cup [at : {"merging"}, trips : SUBSET Trips, loaded : SUBSET Trips]

PurgeStates ==
    [on : BOOLEAN, todo : SUBSET Trips, at : SUBSET Trips, unlinked : SUBSET Links,
     doomed : SUBSET (Trips \cup Feeds), flushed : SUBSET (Trips \cup Feeds),
     before : SUBSET Links]

\* The types of what TypeOK leaves open.
StatesOK ==
    /\ handling \in [Feeds -> FeedStates]
    /\ purge \in PurgeStates
    /\ \A t, u \in purge.at : t = u

\* A feed that was not handled to its end has no trip yet, now and before the purge,
\* and no purge takes it along.
UnhandledIsAlone ==
    \A f \in Feeds :
       handling[f] # Ended =>
          /\ f \notin purge.doomed
          /\ \A l \in links \cup purge.before : l[1] # f

\* What a purge works on while it works: old trips, and associations that last
\* until it commits.
PurgeWorks ==
    /\ ~purge.on => purge = Idle
    /\ purge.at \subseteq purge.todo
    /\ \A t \in purge.todo : IsOld(t)
    /\ purge.before \subseteq links

\* The associations that a purge deletes are those of trips it deletes, all there were
\* when it began.
UnlinkedIsDoomed ==
    /\ \A l \in purge.unlinked : l[2] \in purge.at \cup purge.doomed
    /\ \A l \in purge.before : l[2] \in purge.at => l \in purge.unlinked

\* A feed that is deleted takes all its trips along.
DoomedIsClosed ==
    \A l \in links \ purge.unlinked : l[1] \in purge.doomed => l[2] \in purge.doomed

\* Without a new feed on an old trip the purge deletes old trips, and nothing else.
DoomedIsOld ==
    \/ purge.doomed \subseteq {t \in Trips : IsOld(t)}
    \/ \E l \in links \ purge.before : IsOld(l[2])

PurgeInv ==
    /\ TypeOK /\ StatesOK
    /\ TripRestsOnFeeds
    /\ UnhandledIsAlone
    /\ PurgeWorks /\ UnlinkedIsDoomed /\ DoomedIsClosed /\ DoomedIsOld

-----------------------------------------------------------------------------
(***************************************************************************)
(* What the operators return.                                              *)
(***************************************************************************)

\* The associations of a trip are those that have it in the second place.
LEMMA LinksOfTrip ==
    ASSUME NEW ls \in SUBSET Links, NEW t \in Trips
    PROVE  LinksOf(ls, t) = {l \in ls : l[2] = t}
<1>1. \A l \in ls : l[1] \in Feeds /\ l[1] # t
  BY DEF Links
<1>2. \A l \in ls : t \in {l[1], l[2]} <=> l[2] = t
  BY <1>1
<1>3. QED
  BY <1>2 DEF LinksOf

\* The cascade takes the row it begins with, and only rows.
LEMMA ReachedRows ==
    ASSUME NEW ls, NEW x \in Trips \cup Feeds
    PROVE  x \in Reached(ls, x) /\ Reached(ls, x) \subseteq Trips \cup Feeds
BY DEF Reached

\* The cascade takes both ends of an association or none.
LEMMA ReachedClosed ==
    ASSUME NEW ls \in SUBSET Links, NEW x \in Trips \cup Feeds, NEW l \in ls
    PROVE  l[1] \in Reached(ls, x) <=> l[2] \in Reached(ls, x)
BY DEF Reached, Links

\* A row that no association reaches is not taken along with another one.
LEMMA ReachedLinked ==
    ASSUME NEW ls \in SUBSET Links, NEW x \in Trips \cup Feeds,
           NEW y \in Trips \cup Feeds, y # x,
           \A l \in ls : l[1] # y /\ l[2] # y
    PROVE  y \notin Reached(ls, x)
<1> DEFINE s == (Trips \cup Feeds) \ {y}
<1>1. s \in SUBSET (Trips \cup Feeds) /\ x \in s /\ y \notin s
  OBVIOUS
<1>2. \A l \in ls : l[1] \in s /\ l[2] \in s
  BY DEF Links
<1>3. QED
  BY <1>1, <1>2 DEF Reached

\* A trip without associations goes alone.
LEMMA ReachedAlone ==
    ASSUME NEW ls \in SUBSET Links, NEW t \in Trips, \A l \in ls : l[2] # t
    PROVE  Reached(ls, t) = {t}
<1>1. {t} \in SUBSET (Trips \cup Feeds)
  OBVIOUS
<1>2. \A l \in ls : l[1] \notin {t} /\ l[2] \notin {t}
  BY DEF Links
<1>3. \A y \in Reached(ls, t) : y \in {t}
  <2>1. t \in {t} /\ \A l \in ls : l[1] \in {t} <=> l[2] \in {t}
    BY <1>2
  <2>2. QED
    BY <1>1, <2>1 DEF Reached
<1>4. QED
  BY <1>3, ReachedRows

\* A feed that is merged has its trips.
LEMMA MergingTrips ==
    ASSUME StatesOK, NEW f \in Feeds, handling[f].at = "merging"
    PROVE  /\ handling[f].trips \subseteq Trips
           /\ handling[f] # Ended
BY DEF StatesOK, FeedStates, NotReceived, Ended

-----------------------------------------------------------------------------
(***************************************************************************)
(* Every step preserves the invariant, conjunct by conjunct.               *)
(***************************************************************************)

\* A purge begins with nothing to delete, and leaves nothing.
LEMMA ResetsDoomed ==
    ASSUME PurgeWorks, LoadTrips \/ CommitPurge \/ PurgeFails \/ NextDay
    PROVE  purge'.doomed = {}
<1>1. CASE LoadTrips
  BY <1>1 DEF LoadTrips, Idle
<1>2. CASE CommitPurge \/ PurgeFails
  <2>1. purge' = Idle
    BY <1>2 DEF CommitPurge, PurgeFails
  <2>2. QED
    BY <2>1 DEF Idle
<1>3. CASE NextDay
  <2>1. purge' = Idle
    BY <1>3 DEF NextDay, PurgeWorks
  <2>2. QED
    BY <2>1 DEF Idle
<1>4. QED
  BY <1>1, <1>2, <1>3

LEMMA InitPurgeInv == Init => PurgeInv
BY DEF Init, PurgeInv, TypeOK, StatesOK, FeedStates, PurgeStates, Idle, NotReceived, Links,
       TripRestsOnFeeds, UnhandledIsAlone, PurgeWorks, UnlinkedIsDoomed, DoomedIsClosed,
       DoomedIsOld, Ids, Ended

LEMMA NextStatesOK ==
    ASSUME PurgeInv, [Next]_vars
    PROVE  StatesOK'
<1> USE DEF PurgeInv
<1>1. ASSUME NEW f \in Feeds, Receive(f) PROVE StatesOK'
  <2>1. PICK ts \in SUBSET Trips :
           handling' = [handling EXCEPT ![f] = [at |-> "merging", trips |-> ts,
                                                loaded |-> ts \cap trips]]
    BY <1>1 DEF Receive
  <2>2. [at |-> "merging", trips |-> ts, loaded |-> ts \cap trips] \in FeedStates
    BY DEF FeedStates
  <2>3. QED
    BY <1>1, <2>1, <2>2 DEF Receive, StatesOK
<1>2. ASSUME NEW f \in Feeds, CommitFeed(f) \/ DropFeed(f) PROVE StatesOK'
  <2>1. Ended \in FeedStates
    BY DEF FeedStates
  <2>2. QED
    BY <1>2, <2>1 DEF CommitFeed, DropFeed, StatesOK
<1>3. CASE LoadTrips
  <2>1. OldTrips \subseteq Trips /\ links \subseteq Links
    BY DEF OldTrips, TypeOK, Ids, Links
  <2>2. QED
    BY <1>3, <2>1 DEF LoadTrips, StatesOK, PurgeStates, Idle
<1>4. ASSUME NEW t \in Trips, UnlinkTrip(t) PROVE StatesOK'
  <2>1. LinksOf(links, t) \subseteq Links
    BY DEF LinksOf, TypeOK, Ids, Links
  <2>2. QED
    BY <1>4, <2>1 DEF UnlinkTrip, StatesOK, PurgeStates
<1>5. CASE DeleteTrip
  <2>1. PICK t \in purge.at :
           purge' = [purge EXCEPT !.at = {}, !.todo = @ \ {t},
                                  !.doomed = @ \cup Reached(links \ purge.unlinked, t)]
    BY <1>5 DEF DeleteTrip
  <2>2. t \in Trips
    BY DEF StatesOK, PurgeStates
  <2>3. Reached(links \ purge.unlinked, t) \subseteq Trips \cup Feeds
    BY <2>2, ReachedRows
  <2>4. QED
    BY <1>5, <2>1, <2>3 DEF DeleteTrip, StatesOK, PurgeStates
<1>6. CASE CommitPurge \/ PurgeFails
  <2>1. Idle \in PurgeStates
    BY DEF Idle, PurgeStates
  <2>2. purge' = Idle
    BY <1>6 DEF CommitPurge, PurgeFails
  <2>3. handling' = handling
    BY <1>6 DEF CommitPurge, PurgeFails
  <2>4. QED
    BY <2>1, <2>2, <2>3 DEF StatesOK, Idle
<1>7. CASE NextDay \/ PurgeFeeds \/ Deactivate \/ PurgeContributor \/ UNCHANGED vars
  BY <1>7 DEF NextDay, PurgeFeeds, Deactivate, PurgeContributor, vars, StatesOK
<1>8. QED
  BY <1>1, <1>2, <1>3, <1>4, <1>5, <1>6, <1>7 DEF Next

LEMMA NextTypeOK ==
    ASSUME PurgeInv, [Next]_vars
    PROVE  TypeOK'
<1> USE DEF PurgeInv
<1>1. StatesOK'
  BY NextStatesOK
<1>2. ASSUME NEW f \in Feeds, Receive(f) PROVE TypeOK'
  <2>1. today \in 0 .. MaxDay /\ feeds' = feeds \cup {[id |-> f, day |-> today]}
    BY <1>2 DEF Receive, TypeOK
  <2>2. feeds' \subseteq [id : Feeds, day : 0 .. MaxDay]
    BY <2>1 DEF TypeOK
  <2>3. Ids \subseteq Ids'
    BY <2>1 DEF Ids
  <2>4. QED
    BY <1>2, <2>2, <2>3 DEF Receive, TypeOK
<1>3. ASSUME NEW f \in Feeds, CommitFeed(f) PROVE TypeOK'
  <2>1. handling[f].trips \subseteq Trips
    BY <1>3, MergingTrips DEF CommitFeed
  <2>2. CASE CanCommit(f) /\ trips' = trips \cup handling[f].trips
                          /\ links' = links \cup ({f} \X handling[f].trips)
    <3>1. f \in Ids /\ Ids' = Ids
      BY <1>3, <2>2 DEF CanCommit, CommitFeed, Ids
    <3>2. links' \subseteq Ids' \X trips'
      BY <2>2, <3>1 DEF TypeOK
    <3>3. feeds # {}
      BY <3>1 DEF Ids
    <3>4. QED
      BY <1>3, <2>1, <2>2, <3>2, <3>3 DEF CommitFeed, TypeOK
  <2>3. CASE UNCHANGED <<trips, links>>
    BY <1>3, <2>3 DEF CommitFeed, TypeOK, Ids
  <2>4. QED
    BY <1>3, <2>2, <2>3 DEF CommitFeed
<1>4. CASE CommitPurge
  <2>1. links' \subseteq Ids' \X trips'
    <3>1. SUFFICES ASSUME NEW l \in links' PROVE l \in Ids' \X trips'
      OBVIOUS
    <3>2. l \in links /\ {l[1], l[2]} \cap purge.doomed = {}
      BY <1>4 DEF CommitPurge
    <3>3. l \in Ids \X trips
      BY <3>2 DEF TypeOK
    <3>4. PICK row \in feeds : row.id = l[1]
      BY <3>3 DEF Ids
    <3>5. row \in feeds'
      BY <1>4, <3>2, <3>4 DEF CommitPurge
    <3>6. l[1] \in Ids'
      BY <3>4, <3>5 DEF Ids
    <3>7. l[2] \in trips'
      BY <1>4, <3>2, <3>3 DEF CommitPurge
    <3>8. QED
      BY <3>3, <3>6, <3>7
  <2>2. QED
    BY <1>1, <1>4, <2>1 DEF CommitPurge, TypeOK, StatesOK, PurgeStates
<1>5. CASE PurgeFeeds
  <2>1. links \subseteq Ids' \X trips
    <3>1. SUFFICES ASSUME NEW l \in links PROVE l \in Ids' \X trips
      OBVIOUS
    <3>2. PICK row \in feeds : row.id = l[1]
      BY DEF TypeOK, Ids
    <3>3. l \in LinksOf(links, row.id)
      BY <3>2 DEF LinksOf
    <3>4. row \in feeds'
      BY <1>5, <3>3 DEF PurgeFeeds, OldFeeds
    <3>5. QED
      BY <3>2, <3>4 DEF Ids, TypeOK
  <2>2. QED
    BY <1>5, <2>1 DEF PurgeFeeds, TypeOK
<1>6. CASE LoadTrips \/ DeleteTrip \/ PurgeFails \/ (\E t \in Trips : UnlinkTrip(t))
  <2>1. purge'.todo \subseteq Trips /\ purge'.doomed \subseteq Trips \cup Feeds
    BY <1>1 DEF StatesOK, PurgeStates
  <2>2. UNCHANGED <<today, contributor, trips, feeds, links>>
    BY <1>6 DEF LoadTrips, DeleteTrip, PurgeFails, UnlinkTrip
  <2>3. due' \subseteq {"trips", "feeds"}
    BY <1>6 DEF LoadTrips, DeleteTrip, PurgeFails, UnlinkTrip, TypeOK
  <2>4. faults' \in 0 .. MaxFaults
    <3>1. CASE PurgeFails
      BY <3>1 DEF PurgeFails, TypeOK
    <3>2. CASE UNCHANGED faults
      BY <3>2 DEF TypeOK
    <3>3. QED
      BY <1>6, <3>1, <3>2 DEF LoadTrips, DeleteTrip, UnlinkTrip
  <2>5. QED
    BY <2>1, <2>2, <2>3, <2>4 DEF TypeOK, Ids
<1>7. CASE NextDay \/ Deactivate \/ PurgeContributor \/ (\E f \in Feeds : DropFeed(f))
           \/ UNCHANGED vars
  <2>1. CASE NextDay
    BY <2>1 DEF NextDay, TypeOK, Ids
  <2>2. CASE Deactivate \/ PurgeContributor
    BY <2>2 DEF Deactivate, PurgeContributor, TypeOK, Ids
  <2>3. CASE (\E f \in Feeds : DropFeed(f)) \/ UNCHANGED vars
    BY <2>3 DEF DropFeed, vars, TypeOK, Ids
  <2>4. QED
    BY <1>7, <2>1, <2>2, <2>3
<1>8. QED
  BY <1>2, <1>3, <1>4, <1>5, <1>6, <1>7 DEF Next

LEMMA NextTripRestsOnFeeds ==
    ASSUME PurgeInv, [Next]_vars
    PROVE  TripRestsOnFeeds'
<1> USE DEF PurgeInv
<1>1. TypeOK' /\ links \subseteq Links /\ links' \subseteq Links /\ trips' \subseteq Trips
  BY NextTypeOK DEF TypeOK, Ids, Links
<1>2. SUFFICES ASSUME NEW t \in trips'
               PROVE  \E l \in links' : l[2] = t
  <2>1. \A t \in trips' : LinksOf(links', t) = {l \in links' : l[2] = t}
    BY <1>1, LinksOfTrip
  <2>2. QED
    BY <2>1 DEF TripRestsOnFeeds
<1>3. t \in trips => \E l \in links : l[2] = t
  BY <1>1, LinksOfTrip DEF TripRestsOnFeeds
<1>4. ASSUME NEW f \in Feeds, CommitFeed(f) PROVE \E l \in links' : l[2] = t
  <2>1. CASE links' = links \cup ({f} \X handling[f].trips) /\ t \in handling[f].trips
    <3>1. <<f, t>> \in links'
      BY <2>1
    <3>2. QED
      BY <3>1
  <2>2. QED
    BY <1>3, <1>4, <2>1 DEF CommitFeed
<1>5. CASE CommitPurge
  <2>1. t \in trips /\ t \notin purge.doomed /\ purge.at = {}
    BY <1>5 DEF CommitPurge, PurgeWorks
  <2>2. PICK l \in links : l[2] = t
    BY <1>3, <2>1
  <2>3. l \notin purge.unlinked
    BY <2>1, <2>2 DEF UnlinkedIsDoomed
  <2>4. l[1] \notin purge.doomed
    BY <2>1, <2>2, <2>3 DEF DoomedIsClosed
  <2>5. l \in links'
    BY <1>5, <2>1, <2>2, <2>3, <2>4 DEF CommitPurge
  <2>6. QED
    BY <2>2, <2>5
<1>6. CASE UNCHANGED <<trips, links>>
  BY <1>3, <1>6
<1>7. QED
  BY <1>4, <1>5, <1>6
  DEF Next, vars, Receive, DropFeed, NextDay, LoadTrips, UnlinkTrip, DeleteTrip, PurgeFails,
      PurgeFeeds, Deactivate, PurgeContributor

LEMMA NextUnhandledIsAlone ==
    ASSUME PurgeInv, [Next]_vars
    PROVE  UnhandledIsAlone'
<1> USE DEF PurgeInv
<1>1. SUFFICES ASSUME NEW g \in Feeds, handling'[g] # Ended
               PROVE  /\ g \notin purge'.doomed
                      /\ \A l \in links' \cup purge'.before : l[1] # g
  BY DEF UnhandledIsAlone
<1>2. links \subseteq Links
  BY DEF TypeOK, Ids, Links
<1>3. handling[g] # Ended => /\ g \notin purge.doomed
                             /\ \A l \in links \cup purge.before : l[1] # g
  BY DEF UnhandledIsAlone
<1>4. handling[g] # Ended
  <2>1. ASSUME NEW f \in Feeds, CommitFeed(f) \/ DropFeed(f) PROVE handling[g] # Ended
    BY <1>1, <2>1 DEF CommitFeed, DropFeed, StatesOK
  <2>2. ASSUME NEW f \in Feeds, Receive(f) PROVE handling[g] # Ended
    BY <1>1, <2>2 DEF Receive, StatesOK, NotReceived, Ended
  <2>3. CASE UNCHANGED handling
    BY <1>1, <2>3
  <2>4. QED
    BY <2>1, <2>2, <2>3
    DEF Next, vars, NextDay, LoadTrips, UnlinkTrip, DeleteTrip, CommitPurge, PurgeFails,
        PurgeFeeds, Deactivate, PurgeContributor
<1>5. ASSUME NEW f \in Feeds, CommitFeed(f)
      PROVE  purge' = purge /\ \A l \in links' : l[1] # g
  <2>1. f # g
    BY <1>1, <1>5 DEF CommitFeed, StatesOK
  <2>2. links' \subseteq links \cup ({f} \X handling[f].trips)
    BY <1>5 DEF CommitFeed
  <2>3. QED
    BY <1>3, <1>4, <1>5, <2>1, <2>2 DEF CommitFeed
<1>6. CASE DeleteTrip
  <2>1. PICK t \in purge.at :
           purge' = [purge EXCEPT !.at = {}, !.todo = @ \ {t},
                                  !.doomed = @ \cup Reached(links \ purge.unlinked, t)]
    BY <1>6 DEF DeleteTrip
  <2>2. t \in Trips /\ t # g
    BY DEF StatesOK, PurgeStates
  <2>3. \A l \in links \ purge.unlinked : l[1] # g /\ l[2] # g
    BY <1>2, <1>3, <1>4 DEF Links
  <2>4. g \notin Reached(links \ purge.unlinked, t)
    BY <1>2, <2>2, <2>3, ReachedLinked
  <2>5. purge'.doomed = purge.doomed \cup Reached(links \ purge.unlinked, t)
        /\ purge'.before = purge.before
    BY <2>1 DEF StatesOK, PurgeStates
  <2>6. links' = links
    BY <1>6 DEF DeleteTrip
  <2>7. QED
    BY <1>3, <1>4, <2>4, <2>5, <2>6
<1>7. CASE LoadTrips \/ (\E t \in Trips : UnlinkTrip(t))
  <2>1. purge'.doomed \subseteq purge.doomed /\ purge'.before \subseteq links \cup purge.before
    BY <1>7 DEF LoadTrips, UnlinkTrip, Idle, StatesOK, PurgeStates
  <2>2. links' = links
    BY <1>7 DEF LoadTrips, UnlinkTrip
  <2>3. QED
    BY <1>3, <1>4, <2>1, <2>2
<1>8. CASE CommitPurge \/ PurgeFails
  <2>1. purge'.doomed = {} /\ purge'.before = {}
    BY <1>8 DEF CommitPurge, PurgeFails, Idle
  <2>2. links' \subseteq links
    BY <1>8 DEF CommitPurge, PurgeFails
  <2>3. QED
    BY <1>3, <1>4, <2>1, <2>2
<1>9. CASE UNCHANGED <<links, purge>>
  BY <1>3, <1>4, <1>9
<1>10. QED
  BY <1>3, <1>4, <1>5, <1>6, <1>7, <1>8, <1>9
  DEF Next, vars, Receive, DropFeed, NextDay, PurgeFeeds, Deactivate, PurgeContributor

LEMMA NextPurgeWorks ==
    ASSUME PurgeInv, [Next]_vars
    PROVE  PurgeWorks'
<1> USE DEF PurgeInv
<1>1. CASE LoadTrips
  <2>1. purge'.on /\ purge'.at = {} /\ purge'.todo = OldTrips /\ purge'.before = links
    BY <1>1 DEF LoadTrips, Idle
  <2>2. links' = links /\ today' = today
    BY <1>1 DEF LoadTrips
  <2>3. QED
    BY <2>1, <2>2 DEF PurgeWorks, OldTrips, IsOld
<1>2. ASSUME NEW t \in Trips, UnlinkTrip(t) PROVE PurgeWorks'
  <2>1. purge'.on = purge.on /\ purge'.at = {t} /\ purge'.todo = purge.todo
        /\ purge'.before = purge.before
    BY <1>2 DEF UnlinkTrip, StatesOK, PurgeStates
  <2>2. purge.on
    BY <1>2 DEF UnlinkTrip, PurgeWorks, Idle
  <2>3. UNCHANGED <<links, today>> /\ t \in purge.todo
    BY <1>2 DEF UnlinkTrip
  <2>4. QED
    BY <2>1, <2>2, <2>3 DEF PurgeWorks, IsOld
<1>3. CASE DeleteTrip
  <2>1. PICK t \in purge.at :
           purge' = [purge EXCEPT !.at = {}, !.todo = @ \ {t},
                                  !.doomed = @ \cup Reached(links \ purge.unlinked, t)]
    BY <1>3 DEF DeleteTrip
  <2>2. purge'.on = purge.on /\ purge'.at = {} /\ purge'.todo \subseteq purge.todo
        /\ purge'.before = purge.before
    BY <2>1 DEF StatesOK, PurgeStates
  <2>3. purge.on
    BY <2>1 DEF PurgeWorks, Idle
  <2>4. UNCHANGED <<links, today>>
    BY <1>3 DEF DeleteTrip
  <2>5. QED
    BY <2>2, <2>3, <2>4 DEF PurgeWorks, IsOld
<1>4. CASE CommitPurge \/ PurgeFails
  BY <1>4 DEF CommitPurge, PurgeFails, PurgeWorks, Idle
<1>5. CASE NextDay
  BY <1>5 DEF NextDay, PurgeWorks, Idle
<1>6. CASE UNCHANGED <<today, purge>> /\ links \subseteq links'
  BY <1>6 DEF PurgeWorks, IsOld
<1>7. \A f \in Feeds : CommitFeed(f) => links \subseteq links' /\ UNCHANGED <<today, purge>>
  BY DEF CommitFeed
<1>8. QED
  BY <1>1, <1>2, <1>3, <1>4, <1>5, <1>6, <1>7
  DEF Next, vars, Receive, DropFeed, PurgeFeeds, Deactivate, PurgeContributor

LEMMA NextUnlinkedIsDoomed ==
    ASSUME PurgeInv, [Next]_vars
    PROVE  UnlinkedIsDoomed'
<1> USE DEF PurgeInv
<1>1. links \subseteq Links
  BY DEF TypeOK, Ids, Links
<1>2. CASE LoadTrips
  BY <1>2 DEF LoadTrips, Idle, UnlinkedIsDoomed
<1>3. ASSUME NEW t \in Trips, UnlinkTrip(t) PROVE UnlinkedIsDoomed'
  <2>1. purge.at = {}
    BY <1>3 DEF UnlinkTrip
  <2>2. purge' = [purge EXCEPT !.at = {t}, !.unlinked = @ \cup LinksOf(links, t),
                               !.flushed = @ \cup purge.doomed]
    BY <1>3 DEF UnlinkTrip
  <2>3. /\ purge'.at = {t}
        /\ purge'.unlinked = purge.unlinked \cup LinksOf(links, t)
        /\ purge'.doomed = purge.doomed
        /\ purge'.before = purge.before
    BY <2>2 DEF StatesOK, PurgeStates
  <2>4. LinksOf(links, t) = {l \in links : l[2] = t}
    BY <1>1, LinksOfTrip
  <2>5. purge.before \subseteq links
    BY DEF PurgeWorks
  <2>6. QED
    BY <2>1, <2>3, <2>4, <2>5 DEF UnlinkedIsDoomed
<1>4. CASE DeleteTrip
  <2>1. PICK t \in purge.at :
           purge' = [purge EXCEPT !.at = {}, !.todo = @ \ {t},
                                  !.doomed = @ \cup Reached(links \ purge.unlinked, t)]
    BY <1>4 DEF DeleteTrip
  <2>2. purge.at = {t}
    BY DEF StatesOK
  <2>3. t \in Reached(links \ purge.unlinked, t)
    BY ReachedRows DEF StatesOK, PurgeStates
  <2>4. QED
    BY <2>1, <2>2, <2>3 DEF UnlinkedIsDoomed, StatesOK, PurgeStates
<1>5. CASE CommitPurge \/ PurgeFails
  BY <1>5 DEF CommitPurge, PurgeFails, Idle, UnlinkedIsDoomed
<1>6. CASE UNCHANGED purge
  BY <1>6 DEF UnlinkedIsDoomed
<1>7. QED
  BY <1>2, <1>3, <1>4, <1>5, <1>6
  DEF Next, vars, Receive, CommitFeed, DropFeed, NextDay, PurgeFeeds, Deactivate,
      PurgeContributor

LEMMA NextDoomedIsClosed ==
    ASSUME PurgeInv, [Next]_vars
    PROVE  DoomedIsClosed'
<1> USE DEF PurgeInv
<1>1. links \subseteq Links
  BY DEF TypeOK, Ids, Links
<1>2. ASSUME NEW f \in Feeds, CommitFeed(f) PROVE DoomedIsClosed'
  <2>1. handling[f] # Ended
    BY <1>2, MergingTrips DEF CommitFeed
  <2>2. f \notin purge.doomed
    BY <2>1 DEF UnhandledIsAlone
  <2>3. links' \subseteq links \cup ({f} \X handling[f].trips) /\ purge' = purge
    BY <1>2 DEF CommitFeed
  <2>4. QED
    BY <2>2, <2>3 DEF DoomedIsClosed
<1>3. ASSUME NEW t \in Trips, UnlinkTrip(t) PROVE DoomedIsClosed'
  <2>1. purge' = [purge EXCEPT !.at = {t}, !.unlinked = @ \cup LinksOf(links, t),
                               !.flushed = @ \cup purge.doomed]
        /\ links' = links
    BY <1>3 DEF UnlinkTrip
  <2>2. purge.unlinked \subseteq purge'.unlinked /\ purge'.doomed = purge.doomed
    BY <2>1 DEF StatesOK, PurgeStates
  <2>3. QED
    BY <2>1, <2>2 DEF DoomedIsClosed
<1>4. CASE DeleteTrip
  <2>1. PICK t \in purge.at :
           purge' = [purge EXCEPT !.at = {}, !.todo = @ \ {t},
                                  !.doomed = @ \cup Reached(links \ purge.unlinked, t)]
    BY <1>4 DEF DeleteTrip
  <2>2. t \in Trips
    BY DEF StatesOK, PurgeStates
  <2>3. \A l \in links \ purge.unlinked :
           l[1] \in Reached(links \ purge.unlinked, t)
              <=> l[2] \in Reached(links \ purge.unlinked, t)
    BY <1>1, <2>2, ReachedClosed
  <2>4. /\ purge'.doomed = purge.doomed \cup Reached(links \ purge.unlinked, t)
        /\ purge'.unlinked = purge.unlinked
    BY <2>1 DEF StatesOK, PurgeStates
  <2>5. links' = links
    BY <1>4 DEF DeleteTrip
  <2>6. QED
    BY <2>3, <2>4, <2>5 DEF DoomedIsClosed
<1>5. CASE LoadTrips \/ CommitPurge \/ PurgeFails
  <2>1. purge'.doomed = {}
    BY <1>5, ResetsDoomed
  <2>2. QED
    BY <2>1 DEF DoomedIsClosed
<1>6. CASE UNCHANGED <<links, purge>>
  BY <1>6 DEF DoomedIsClosed
<1>7. QED
  BY <1>2, <1>3, <1>4, <1>5, <1>6
  DEF Next, vars, Receive, DropFeed, NextDay, PurgeFeeds, Deactivate, PurgeContributor

LEMMA NextDoomedIsOld ==
    ASSUME PurgeInv, [Next]_vars
    PROVE  DoomedIsOld'
<1> USE DEF PurgeInv
<1>1. links \subseteq Links
  BY DEF TypeOK, Ids, Links
<1>2. CASE DeleteTrip
  <2>1. PICK t \in purge.at :
           purge' = [purge EXCEPT !.at = {}, !.todo = @ \ {t},
                                  !.doomed = @ \cup Reached(links \ purge.unlinked, t)]
    BY <1>2 DEF DeleteTrip
  <2>2. t \in Trips /\ IsOld(t)
    BY DEF StatesOK, PurgeStates, PurgeWorks
  <2>3. /\ purge'.doomed = purge.doomed \cup Reached(links \ purge.unlinked, t)
        /\ purge'.before = purge.before
        /\ UNCHANGED <<links, today>>
    BY <1>2, <2>1 DEF DeleteTrip, StatesOK, PurgeStates
  <2>4. CASE \A l \in links \ purge.unlinked : l[2] # t
    <3>1. Reached(links \ purge.unlinked, t) = {t}
      BY <1>1, <2>2, <2>4, ReachedAlone
    <3>2. QED
      BY <2>2, <2>3, <3>1 DEF DoomedIsOld, IsOld
  <2>5. ASSUME NEW l \in links \ purge.unlinked, l[2] = t PROVE DoomedIsOld'
    <3>1. l \notin purge.before
      BY <2>1, <2>5 DEF UnlinkedIsDoomed
    <3>2. l \in links' \ purge'.before /\ IsOld(l[2])'
      BY <2>2, <2>3, <2>5, <3>1 DEF IsOld
    <3>3. QED
      BY <3>2 DEF DoomedIsOld
  <2>6. QED
    BY <2>4, <2>5
<1>3. CASE LoadTrips \/ CommitPurge \/ PurgeFails \/ NextDay
  <2>1. purge'.doomed = {}
    BY <1>3, ResetsDoomed
  <2>2. QED
    BY <2>1 DEF DoomedIsOld
<1>4. ASSUME NEW t \in Trips, UnlinkTrip(t) PROVE DoomedIsOld'
  <2>1. /\ purge'.doomed = purge.doomed /\ purge'.before = purge.before
        /\ UNCHANGED <<links, today>>
    BY <1>4 DEF UnlinkTrip, StatesOK, PurgeStates
  <2>2. QED
    BY <2>1 DEF DoomedIsOld, IsOld
<1>5. CASE links \subseteq links' /\ UNCHANGED <<today, purge>>
  BY <1>5 DEF DoomedIsOld, IsOld
<1>6. \A f \in Feeds : CommitFeed(f) => links \subseteq links' /\ UNCHANGED <<today, purge>>
  BY DEF CommitFeed
<1>7. QED
  BY <1>2, <1>3, <1>4, <1>5, <1>6
  DEF Next, vars, Receive, DropFeed, PurgeFeeds, Deactivate, PurgeContributor

-----------------------------------------------------------------------------
(***************************************************************************)
(* The theorems                                                            *)
(***************************************************************************)

\* PurgeInv is inductive: handling and purging keep it, whatever their order.
THEOREM PurgeInvariant == Spec => []PurgeInv
<1>1. PurgeInv /\ [Next]_vars => PurgeInv'
  BY NextStatesOK, NextTypeOK, NextTripRestsOnFeeds, NextUnhandledIsAlone, NextPurgeWorks,
     NextUnlinkedIsDoomed, NextDoomedIsClosed, NextDoomedIsOld
  DEF PurgeInv
<1>2. QED
  BY <1>1, InitPurgeInv, PTL DEF Spec

\* What refers to a row has it, whatever purges and handlings do to each other.
THEOREM ReferencesHold == Spec => []TypeOK
<1>1. PurgeInv => TypeOK
  BY DEF PurgeInv
<1>2. QED
  BY <1>1, PurgeInvariant, PTL

\* No purge, complete or not, leaves a trip without the feeds it comes from.
THEOREM TripsKeepTheirFeeds == Spec => []TripRestsOnFeeds
<1>1. PurgeInv => TripRestsOnFeeds
  BY DEF PurgeInv
<1>2. QED
  BY <1>1, PurgeInvariant, PTL

\* The purge of trips takes old trips and leaves the feeds, unless a feed on an old trip
\* was committed while it worked.
THEOREM PurgeIsOfOldTrips == Spec => PurgeTakesOldTrips
<1> DEFINE Takes ==
       purge.on /\ ~purge'.on =>
          \/ (\A t \in trips \ trips' : IsOld(t)) /\ feeds' = feeds
          \/ \E l \in links \ purge.before : IsOld(l[2])
<1>1. PurgeInv /\ [Next]_vars => [Takes]_vars
  <2> SUFFICES ASSUME PurgeInv, Next, purge.on, ~purge'.on
                 PROVE  Takes
    OBVIOUS
  <2> USE DEF PurgeInv
  <2>2. CASE CommitPurge
    <3>1. CASE purge.doomed \subseteq {t \in Trips : IsOld(t)}
      <4>1. \A t \in trips \ trips' : IsOld(t)
        BY <2>2, <3>1 DEF CommitPurge
      <4>2. \A row \in feeds : row.id \in Feeds
        BY DEF TypeOK
      <4>3. feeds' = feeds
        BY <2>2, <3>1, <4>2 DEF CommitPurge
      <4>4. QED
        BY <4>1, <4>3
    <3>2. QED
      BY <3>1 DEF DoomedIsOld
  <2>3. CASE PurgeFails
    BY <2>3 DEF PurgeFails
  <2>4. purge' # purge
    OBVIOUS
  <2>5. CASE LoadTrips \/ DeleteTrip \/ (\E t \in Trips : UnlinkTrip(t))
    BY <2>5 DEF LoadTrips, DeleteTrip, UnlinkTrip, Idle, StatesOK, PurgeStates
  <2>6. QED
    BY <2>2, <2>3, <2>4, <2>5
    DEF Next, Receive, CommitFeed, DropFeed, NextDay, PurgeFeeds, Deactivate, PurgeContributor
<1>2. QED
  BY <1>1, PurgeInvariant, PTL DEF Spec, PurgeTakesOldTrips

=============================================================================
