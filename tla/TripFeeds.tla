------------------------------- MODULE TripFeeds -------------------------------
(***************************************************************************)
(* The feeds of the three connectors on one trip: each builder makes a     *)
(* TripUpdate of its feed, or refuses it, and handle() merges it into what *)
(* the feeds before have left (TripMerge).                                 *)
(***************************************************************************)
EXTENDS TripMerge, SequencesExt

CONSTANTS
    GtfsFeeds,   \* feeds of GtfsBuilder, about this trip
    PivFeeds,    \* feeds of PivBuilder, about this trip
    CotsFeeds    \* TripUpdates that the COTS builder makes of this trip

Gtfs == INSTANCE GtfsBuilder
Piv == INSTANCE PivBuilder

\* A feed is of one connector, and about this trip: navitia answers the one of GTFS-RT
\* with its base schedule, and an update of PIV or COTS comes with its delay.
TripFeedsAssumption ==
    /\ GtfsFeeds \cap PivFeeds = {} /\ (GtfsFeeds \cup PivFeeds) \cap CotsFeeds = {}
    /\ \A feed \in GtfsFeeds :
          feed.found \in Seq({Base}) /\ feed.stops \in Seq(Gtfs!Stops)
    /\ \A feed \in PivFeeds :
          /\ feed.stops \in Seq(Piv!Stops)
          /\ \A i \in DOMAIN feed.stops : \A e \in Events :
                LET event == feed.stops[i].event[e] IN
                event # None /\ event.status \in Piv!Statuses["update"] => event.delay # None
    /\ \A feed \in CotsFeeds : feed.update.complete /\ IsWellMade(feed.update)

ASSUME TripFeedsAssumption

\* When the trip plans an event of a stop, None if it does not.
PlannedDate(id, e) ==
    LET visits == {i \in DOMAIN Trip : Trip[i].id = id}
    IN  IF visits = {} THEN None ELSE Trip[Min(visits)].date[e]

-----------------------------------------------------------------------------

\* _check_stop_time_consistency() of COTS, on the times the feed projects
IsConsistent(stops) ==
    LET Projected(s, e) ==
            CASE IsDeleted(s, e) -> None
              [] IsAdded(s, e) -> Plus(s.time[e], s.delay[e])
              [] OTHER -> Plus(PlannedDate(s.id, e), s.delay[e])
        LastLeft(i) == IF i = 1 THEN 0 ELSE OrElse(Projected(stops[i - 1], "departure"), 0)
    IN  \A i \in DOMAIN stops :
           LET arr == OrElse(Projected(stops[i], "arrival"), LastLeft(i))
               dep == OrElse(Projected(stops[i], "departure"), arr)
           IN  dep >= arr /\ arr >= LastLeft(i)

Feeds == GtfsFeeds \cup PivFeeds \cup CotsFeeds

\* build_trip_updates() of the builder of a feed: its TripUpdate, or none
TripUpdates ==
    [feed \in Feeds |->
        CASE feed \in GtfsFeeds -> Gtfs!MakeTripUpdates(feed)
          [] feed \in PivFeeds -> Piv!MakeTripUpdates(feed)
          [] feed \in CotsFeeds ->
                IF IsConsistent(feed.update.stops) THEN <<feed.update>> ELSE <<>>]

HandleFeed(feed) == \E update \in Range(TripUpdates[feed]) : Handle(feed, update)

\* A feed without a TripUpdate leaves everything as it was: the builder raises, or the
\* feed is set KO.
RefuseFeed(feed) ==
    /\ TripUpdates[feed] = <<>>
    /\ last' = feed
    /\ verdict' = "refused"
    /\ UNCHANGED <<stored, told>>

Next == \E feed \in Feeds : HandleFeed(feed) \/ RefuseFeed(feed)

Spec == Init /\ [][Next]_vars

-----------------------------------------------------------------------------
(***************************************************************************)
(* What a feed says of the trip, whatever builds it: the stops, and for    *)
(* each event whether the trip serves it and when.                         *)
(***************************************************************************)

Said(id, status, time) ==
    [id |-> id, status |-> status, time |-> time]

\* GTFS-RT: delays, for the stops from a certain one on.
GtfsSays(feed) ==
    LET before == Len(Trip) - Len(feed.stops)
        Delay(i, e) == IF i <= before THEN 0 ELSE feed.stops[i - before].delay[e]
    IN  [i \in DOMAIN Trip |->
           Said(Trip[i].id,
                [e \in Events |-> IF Delay(i, e) = 0 THEN "none" ELSE "update"],
                [e \in Events |-> Trip[i].date[e] + Delay(i, e)])]

\* PIV: dates, from the first stop where travellers hop on to the last where they hop
\* off.  An event without a date is late by its delay, and the trip keeps those that the
\* feed does not have.
PivSays(feed) ==
    LET Open(e) == {i \in DOMAIN feed.stops : Piv!Has(feed.stops[i], e)}
        heard == Only(feed.stops,
                      {i \in Open("arrival") \cup Open("departure") :
                          /\ i \in Min(Open("departure")) .. Max(Open("arrival"))
                          /\ feed.stops[i].id # None})
        Delay(event) == IF event = None THEN 0 ELSE OrElse(event.delay, 0)
        Time(stop, e) == OrElse(Piv!TimeOf(stop.event[e]),
                                Plus(PlannedDate(stop.id, e), Delay(stop.event[e])))
    IN  [k \in DOMAIN heard |->
           Said(heard[k].id,
                [e \in Events |-> Piv!StatusOf(heard[k].event[e])],
                [e \in Events |-> Time(heard[k], e)])]

\* COTS: dates of the stops it adds, delays of those it changes.
CotsSays(feed) ==
    LET Time(stop, e) == IF IsAdded(stop, e) THEN stop.time[e]
                         ELSE Plus(PlannedDate(stop.id, e), OrElse(stop.delay[e], 0))
    IN  [i \in DOMAIN feed.update.stops |->
           LET stop == feed.update.stops[i] IN
           Said(stop.id, stop.status, [e \in Events |-> Time(stop, e)])]

Says(feed) ==
    CASE feed \in GtfsFeeds -> GtfsSays(feed)
      [] feed \in PivFeeds -> PivSays(feed)
      [] feed \in CotsFeeds -> CotsSays(feed)

IsCancellation(feed) ==
    \/ feed \in CotsFeeds /\ feed.update.cancel
    \/ feed \in PivFeeds /\ Piv!IsCancelled(feed)

-----------------------------------------------------------------------------
(***************************************************************************)
(* Properties                                                              *)
(***************************************************************************)

\* Navitia is sent a time and a delay for every event; the database may lack some,
\* after a refused feed.
TypeOK ==
    /\ stored \in OrNone(StoredTrips)
    /\ told \in Seq(StopTimeUpdates(Int))
    /\ last \in OrNone(Feeds)
    /\ verdict \in {"refused", "sent", "nothing", "rejected", "failed"}

\* The events of a sequence of stops in the order the vehicle meets them, as
\* <<stop, event>>, deleted ones left out.
MetBefore(stops, k, e) ==
    {m \in (1 .. k) \X Events :
        /\ m[1] = k /\ e = "arrival" => m[2] = "arrival"
        /\ ~IsDeleted(stops[m[1]], m[2])}

\* What navitia receives can be driven: the stops come in their order, each is
\* reached after the one before it is left and left after it is reached.  merge()
\* and manage_consistency() push late events for that, after dates were guessed
\* from times of day.
TripCanBeDriven ==
    \A k \in DOMAIN told :
       /\ told[k].order = k - 1
       /\ \A e \in Events :
             ~IsDeleted(told[k], e) =>
                \A m \in MetBefore(told, k, e) :
                   told[m[1]].time[m[2]] <= told[k].time[e]

\* A sequence of stops has those of a feed, each event at the time the feed says, or at
\* the latest time it says before that when that is later.  Only a stop that the feed
\* deletes and that neither the schedule nor the sequence has may be left out.
HonoursFeed(stops, feed) ==
    LET says == Says(feed) IN
    \A k \in DOMAIN says :
       \/ /\ k \in DOMAIN stops
          /\ stops[k].id = says[k].id
          /\ stops[k].status = says[k].status
          /\ \A e \in Events :
                ~IsDeleted(says[k], e) =>
                   LET met == {says[m[1]].time[m[2]] : m \in MetBefore(says, k, e)}
                   IN  stops[k].time[e] \in met /\ \A t \in met : t <= stops[k].time[e]
       \/ /\ \A e \in Events : IsDeleted(says[k], e)
          /\ \A stop \in Range(Trip) \cup Range(stops) : stop.id # says[k].id

\* After a feed is sent on, or has no news for navitia, the database honours it.
IsLastWord(db, sent, became, feed) ==
    /\ ~IsCancellation(feed)
    /\ \/ became = "sent"
       \/ became = "nothing" /\ db # None /\ db.stops = sent
    => HonoursFeed(db.stops, feed)

\* The database has a stop outside the schedule as a feed wants it, served or not, under
\* other status names: it was added, and is now added for a detour.  merge() takes each
\* name for a change of its own, finds nothing to change, and passes over the stop.
IsRenamed(db, stop, order) ==
    LET was == FindInDb(db, stop.id, order) IN
    /\ was # None
    /\ \A k \in DOMAIN Base : Base[k].id # stop.id
    /\ \A e \in Events :
          was.status[e] # stop.status[e] /\ (IsAdded(stop, e) <=> ~IsDeleted(was, e))

Renames(db, feed) ==
    \E update \in Range(TripUpdates[feed]) : \E i \in DOMAIN update.stops :
       IsRenamed(db, update.stops[i], i - 1)

\* The last word on the trip is kept: whatever the connector, the midnights passed, the
\* stops added or deleted, and the feeds, refused ones included, handled before.  A feed
\* that renames a stop is excepted: the stop may get lost.
FeedIsHonoured ==
    [][\A db \in {stored'}, sent \in {told'}, feed \in {last'} :
          ~Renames(stored, feed) => IsLastWord(db, sent, verdict', feed)]_vars

\* The same without the exception, where no feed renames a stop
LastIsHonoured == last # None => IsLastWord(stored, told, verdict, last)

\* Time less delay is the planned time of every event of the base schedule: the
\* delays travellers are shown account for the times, the pushed ones included.
DelaysExplainTimes ==
    \A k \in DOMAIN told : \A e \in Events :
       told[k].status[e] \in {"none", "update"} =>
          told[k].time[e] - told[k].delay[e] = PlannedDate(told[k].id, e)

\* The events that the trip serves, by a feed: m is met before n.
ServedEvents(new) ==
    {m \in (DOMAIN new.stops) \X Events : ~IsDeleted(new.stops[m[1]], m[2])}

ComesBefore(m, n) ==
    m[1] < n[1] \/ (m[1] = n[1] /\ m[2] = "arrival" /\ n[2] = "departure")

LastBefore(new, m, n) ==
    /\ ComesBefore(m, n)
    /\ \A l \in ServedEvents(new) : ComesBefore(l, n) => l = m \/ ComesBefore(l, m)

\* The date of such an event without the delay the feed has for it: as the trip plans
\* it, or as the feed adds it.
ExpectedDate(new, m) ==
    LET stop == new.stops[m[1]] IN
    OrElse(PlannedDate(stop.id, m[2]), Plus(stop.time[m[2]], stop.delay[m[2]]))

DelayOf(new, m) == OrElse(new.stops[m[1]].delay[m[2]], 0)

\* From one served event to the next is less than a day, with and without the delays,
\* and the first is on the day the trip starts.  Of a feed that does not serve its first
\* stop nothing is asked.
LessThanADayApart(new) ==
    (\E m \in ServedEvents(new) : m[1] = 1) =>
       \A n \in ServedEvents(new) :
          /\ \/ ExpectedDate(new, n) \in 0 .. Day - 1
             \/ \E m \in ServedEvents(new) : ComesBefore(m, n)
          /\ \A m \in ServedEvents(new) :
                LastBefore(new, m, n) =>
                   LET gap == ExpectedDate(new, n) - ExpectedDate(new, m) IN
                   gap \in 0 .. Day - 1 /\ gap + DelayOf(new, n) - DelayOf(new, m) < Day

\* The events of a stop that the schedule does not have are added, each with a time, or
\* deleted.
AddsEachEvent(new) ==
    \A i \in DOMAIN new.stops : \A e \in Events :
       LET stop == new.stops[i] IN
       (\A k \in DOMAIN Base : Base[k].id # stop.id) =>
          IsDeleted(stop, e) \/ (IsAdded(stop, e) /\ stop.time[e] # None)

EachStopOnce == \A i, j \in DOMAIN Trip : Trip[i].id = Trip[j].id => i = j

\* Feeds whose dates can be told from times of day
FeedsAreDated ==
    \A feed \in Feeds : \A update \in Range(TripUpdates[feed]) :
       /\ LessThanADayApart(update) /\ AddsEachEvent(update)
       /\ ~update.complete => EachStopOnce

\* The dates a feed has are the planned ones and its delays, which tell how late an event
\* is; an event that is added has a date and no delay.  A feed does not begin by deleting
\* a stop that the schedule does not have.
AgreesWithPlan(new) ==
    \A i \in DOMAIN new.stops :
       /\ \A e \in Events :
             LET stop == new.stops[i]
                 delay == OrElse(stop.delay[e], 0)
             IN  /\ IsAdded(stop, e) => stop.time[e] # None /\ delay = 0
                 /\ stop.status[e] = "none" => delay = 0
                 /\ stop.status[e] \in {"none", "update"} /\ stop.time[e] # None =>
                       stop.time[e] = Plus(PlannedDate(stop.id, e), delay)
       /\ i = 1 => \/ \E k \in DOMAIN Base : Base[k].id = new.stops[i].id
                   \/ \E e \in Events : ~IsDeleted(new.stops[i], e)

FeedsAgreeWithPlan ==
    \A feed \in Feeds : \A update \in Range(TripUpdates[feed]) : AgreesWithPlan(update)

\* A stop that the schedule does not have is in a feed once, and the feed adds it, with a
\* time, or deletes it.
AddsOrDeletes(new) ==
    \A i \in DOMAIN new.stops :
       LET stop == new.stops[i] IN
       (\A k \in DOMAIN Base : Base[k].id # stop.id) =>
          /\ \/ \A e \in Events : IsDeleted(stop, e)
             \/ (\E e \in Events : IsAdded(stop, e)) /\ (\E e \in Events : stop.time[e] # None)
          /\ \A j \in DOMAIN new.stops \ {i} : new.stops[j].id # stop.id

FeedsAddOrDelete ==
    \A feed \in Feeds : \A update \in Range(TripUpdates[feed]) : AddsOrDeletes(update)

\* The same feed again is no news: handling it once more would neither write nor
\* send anything.  A cancellation always is sent again.
IsSettled(db, feed) ==
    ~IsCancellation(feed) =>
       \A update \in Range(TripUpdates[feed]) :
          LET again == Handled(db, update) IN again.verdict # "sent" /\ again.stored = db

\* A feed is settled once it is handled.  One that renames a stop is excepted: the stop
\* may get lost, and the repeat adds it.
RepeatIsNoNews ==
    [][\A db \in {stored'}, feed \in {last'} :
          ~Renames(stored, feed) => IsSettled(db, feed)]_vars

=============================================================================
