--------------------------------- MODULE Purge ---------------------------------
(***************************************************************************)
(* The daily purges of tasks.py against the handling of feeds: the trips   *)
(* and the feeds of one contributor, the association between them, and the *)
(* deletion of the contributor (command/purge_rt.py).                      *)
(*                                                                         *)
(* The purge of trips is one transaction of several statements.  Deleting a*)
(* trip with the session deletes what its relationships cascade to, in both*)
(* directions: the feeds still associated to it, and the trips of these.   *)
(***************************************************************************)
EXTENDS Integers

CONSTANTS
    Trips, Feeds,
    StartDay,    \* the day each trip starts
    KeepTrips,   \* nb_days_to_keep_trip_update
    KeepFeeds,   \* nb_days_to_keep_rt_update
    MaxDay,      \* the days after this one are all alike
    MaxFaults    \* failures of the purges

PurgeAssumption ==
    /\ Trips \cap Feeds = {}
    /\ StartDay \in [Trips -> Nat]
    /\ KeepTrips \in Int /\ KeepFeeds \in Int
    /\ MaxDay \in Nat /\ MaxFaults \in Nat

ASSUME PurgeAssumption

VARIABLES
    today,
    due,           \* the purges that celery has in its queue
    contributor,   \* "active", "inactive" or "gone"
    trips,         \* the trips in database
    feeds,         \* the feeds in database, a set of [id, day]
    links,         \* the association, pairs of a feed and a trip
    handling,      \* how far each feed is
    purge,         \* the purge of trips: see Idle
    faults

vars == <<today, due, contributor, trips, feeds, links, handling, purge, faults>>

NotReceived == [at |-> "new"]
Ended == [at |-> "ended"]

\* todo: the trips to remove; at: the one whose associations are deleted; unlinked,
\* doomed: what the transaction deletes; flushed: of it, the trips whose rows it holds.
\* `before' are the links there were at its beginning, of which only properties speak.
Idle == [on |-> FALSE, todo |-> {}, at |-> {}, unlinked |-> {},
         doomed |-> {}, flushed |-> {}, before |-> {}]

Ids == {row.id : row \in feeds}

LinksOf(ls, x) == {l \in ls : x \in {l[1], l[2]}}

Init ==
    /\ today = 0
    /\ due = {}
    /\ contributor = "active"
    /\ trips = {} /\ feeds = {} /\ links = {}
    /\ handling = [f \in Feeds |-> NotReceived]
    /\ purge = Idle
    /\ faults = 0

-----------------------------------------------------------------------------
(***************************************************************************)
(* A process handles a feed: FeedHandling, as far as the rows go.          *)
(***************************************************************************)

\* The raw feed is committed; then the trips in database are loaded.  Bound: a feed is
\* received so early that it grows old.
Receive(f) ==
    /\ contributor = "active"
    /\ today + KeepFeeds < MaxDay
    /\ handling[f] = NotReceived
    /\ \E ts \in SUBSET Trips \ {{}} :
          handling' = [handling EXCEPT ![f] = [at |-> "merging", trips |-> ts,
                                               loaded |-> ts \cap trips]]
    /\ feeds' = feeds \cup {[id |-> f, day |-> today]}
    /\ UNCHANGED <<today, due, contributor, trips, links, purge, faults>>

\* Seeded fault: nothing refers to the rows in database.
CanCommitAnyway(f) == TRUE

\* Its rows must still be there, and the trips it inserts not be.
CanCommit(f) ==
    /\ f \in Ids
    /\ handling[f].trips \cap trips = handling[f].loaded

\* A commit on trips that the purge has deleted and not yet committed waits for it.
CommitFeed(f) ==
    /\ handling[f].at = "merging"
    /\ handling[f].trips \cap purge.flushed = {}
    /\ handling' = [handling EXCEPT ![f] = Ended]
    /\ \/ /\ CanCommit(f)
          /\ trips' = trips \cup handling[f].trips
          /\ links' = links \cup ({f} \X handling[f].trips)
       \/ /\ ~CanCommit(f)
          /\ UNCHANGED <<trips, links>>
    /\ UNCHANGED <<today, due, contributor, feeds, purge, faults>>

\* The feed changes nothing, or its handling fails.
DropFeed(f) ==
    /\ handling[f].at = "merging"
    /\ handling' = [handling EXCEPT ![f] = Ended]
    /\ UNCHANGED <<today, due, contributor, trips, feeds, links, purge, faults>>

-----------------------------------------------------------------------------
(***************************************************************************)
(* The purges.  The lock of a purge that died has expired the next day.    *)
(***************************************************************************)

\* Celery queues both purges every night; they expire within an hour, so what was not
\* done in the day is not done.
NextDay ==
    /\ ~purge.on
    /\ today' = IF today < MaxDay THEN today + 1 ELSE today
    /\ due' = {"trips", "feeds"}
    /\ UNCHANGED <<contributor, trips, feeds, links, handling, purge, faults>>

\* Seeded fault: the day itself is taken too.
OldTripsAndTheDay == {t \in trips : StartDay[t] <= today - KeepTrips}

\* find_by_contributor_period(), until the day computed by the task
OldTrips == {t \in trips : StartDay[t] < today - KeepTrips}

\* Seeded fault: the contributors that are deactivated are left out.
LoadTripsOfActive ==
    /\ "trips" \in due
    /\ contributor = "active"
    /\ due' = due \ {"trips"}
    /\ purge' = [Idle EXCEPT !.on = TRUE, !.todo = OldTrips, !.before = links]
    /\ UNCHANGED <<today, contributor, trips, feeds, links, handling, faults>>

LoadTrips ==
    /\ "trips" \in due
    /\ due' = due \ {"trips"}
    /\ purge' = [Idle EXCEPT !.on = TRUE, !.todo = OldTrips, !.before = links]
    /\ UNCHANGED <<today, contributor, trips, feeds, links, handling, faults>>

\* Seeded fault: the deletion of the associations is committed at once.
UnlinkTripCommitted(t) ==
    /\ purge.at = {} /\ t \in purge.todo
    /\ links' = links \ LinksOf(links, t)
    /\ purge' = [purge EXCEPT !.at = {t}, !.flushed = @ \cup purge.doomed]
    /\ UNCHANGED <<today, due, contributor, trips, feeds, handling, faults>>

\* remove_by_contributors_and_period() deletes the associations of a trip, and the
\* query flushes what the session had to delete.
UnlinkTrip(t) ==
    /\ purge.at = {} /\ t \in purge.todo
    /\ purge' = [purge EXCEPT !.at = {t}, !.unlinked = @ \cup LinksOf(links, t),
                              !.flushed = @ \cup purge.doomed]
    /\ UNCHANGED <<today, due, contributor, trips, feeds, links, handling, faults>>

\* What the links lead to from x, trips and feeds, through any number of them.
Reached(ls, x) ==
    LET rows == Trips \cup Feeds
        Leads(s) == x \in s /\ \A l \in ls : l[1] \in s <=> l[2] \in s
    IN  {y \in rows : \A s \in SUBSET rows : Leads(s) => y \in s}

\* session.delete(): the associations that are there now, committed since, are loaded,
\* and the deletion cascades along them.
DeleteTrip ==
    /\ \E t \in purge.at :
          purge' = [purge EXCEPT !.at = {}, !.todo = @ \ {t},
                                 !.doomed = @ \cup Reached(links \ purge.unlinked, t)]
    /\ UNCHANGED <<today, due, contributor, trips, feeds, links, handling, faults>>

\* The rows go, and by the foreign keys the associations to them.
CommitPurge ==
    /\ purge.on /\ purge.todo = {}
    /\ trips' = trips \ purge.doomed
    /\ feeds' = {row \in feeds : row.id \notin purge.doomed}
    /\ links' = {l \in links \ purge.unlinked : {l[1], l[2]} \cap purge.doomed = {}}
    /\ purge' = Idle
    /\ UNCHANGED <<today, due, contributor, handling, faults>>

\* The database fails or the process dies: the transaction is rolled back.
PurgeFails ==
    /\ purge.on
    /\ faults < MaxFaults
    /\ faults' = faults + 1
    /\ purge' = Idle
    /\ UNCHANGED <<today, due, contributor, trips, feeds, links, handling>>

\* remove_by_contributors_until(): those that no trip rests on, in one statement
OldFeeds == {row \in feeds : row.day < today - KeepFeeds /\ LinksOf(links, row.id) = {}}

PurgeFeeds ==
    /\ "feeds" \in due
    /\ due' = due \ {"feeds"}
    /\ feeds' = feeds \ OldFeeds
    /\ UNCHANGED <<today, contributor, trips, links, handling, purge, faults>>

-----------------------------------------------------------------------------

Deactivate ==
    /\ contributor = "active"
    /\ contributor' = "inactive"
    /\ UNCHANGED <<today, due, trips, feeds, links, handling, purge, faults>>

\* purge_contributor(): the foreign keys refuse it while there are rows left.
PurgeContributor ==
    /\ contributor = "inactive"
    /\ trips = {} /\ feeds = {}
    /\ contributor' = "gone"
    /\ UNCHANGED <<today, due, trips, feeds, links, handling, purge, faults>>

Next ==
    \/ \E f \in Feeds : Receive(f) \/ CommitFeed(f) \/ DropFeed(f)
    \/ NextDay \/ LoadTrips \/ DeleteTrip \/ CommitPurge \/ PurgeFails \/ PurgeFeeds
    \/ \E t \in Trips : UnlinkTrip(t)
    \/ Deactivate \/ PurgeContributor

PurgeStep == LoadTrips \/ (\E t \in Trips : UnlinkTrip(t)) \/ DeleteTrip \/ CommitPurge

\* Celery runs what it queues before the hour is over, day after day, but for the faults;
\* feeds that are received are handled.
Fairness ==
    /\ WF_vars(NextDay) /\ SF_vars(LoadTrips) /\ SF_vars(PurgeFeeds)
    /\ WF_vars(PurgeStep)
    /\ \A f \in Feeds : WF_vars(CommitFeed(f) \/ DropFeed(f))

Spec == Init /\ [][Next]_vars /\ Fairness

-----------------------------------------------------------------------------
(***************************************************************************)
(* Properties                                                              *)
(***************************************************************************)

IsOld(t) == StartDay[t] < today - KeepTrips

\* What refers to a row has it: the association has its feed and its trip, and what is
\* left of a contributor that is gone is nothing.
TypeOK ==
    /\ today \in 0 .. MaxDay /\ faults \in 0 .. MaxFaults
    /\ due \subseteq {"trips", "feeds"}
    /\ contributor \in {"active", "inactive", "gone"}
    /\ feeds \subseteq [id : Feeds, day : 0 .. MaxDay]
    /\ trips \subseteq Trips
    /\ links \subseteq Ids \X trips
    /\ purge.todo \subseteq Trips /\ purge.doomed \subseteq Trips \cup Feeds
    /\ contributor = "gone" => trips = {} /\ feeds = {}

\* A trip in database has the feeds that made it what it is: a purge that stops midway,
\* or that a handling overtakes, does not leave it without.
TripRestsOnFeeds == \A t \in trips : LinksOf(links, t) # {}

\* The purge of trips removes trips that are old, and keeps the feeds "so that we can
\* replay" them (tasks.py:134), unless a feed on an old trip was committed between the
\* statements of the purge: only then does the session cascade, to this feed and to
\* trips of today.
PurgeTakesOldTrips ==
    [][purge.on /\ ~purge'.on =>
          \/ (\A t \in trips \ trips' : IsOld(t)) /\ feeds' = feeds
          \/ \E l \in links \ purge.before : IsOld(l[2])]_vars

\* A contributor that was deactivated can be deleted in the end: night after night the
\* purges remove its trips, then its feeds, in spite of failures.
ContributorCanGo == contributor = "inactive" ~> trips = {} /\ feeds = {}

=============================================================================
