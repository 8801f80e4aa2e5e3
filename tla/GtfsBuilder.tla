------------------------------ MODULE GtfsBuilder ------------------------------
(***************************************************************************)
(* gtfs_rt/model_maker.py: what the builder makes of an entity of a        *)
(* GTFS-RT feed.  A feed has delays only, for the last stops of a trip     *)
(* that is known by its code; the day it speaks of is guessed from the     *)
(* time the feed was made.                                                 *)
(***************************************************************************)
EXTENDS Circulation

\* A feed: [at, found, stops].  `at' is its timestamp, `stops' its stop_time_updates,
\* [id, delay] with a delay by event (0 if the feed has none), and `found' what navitia
\* answers for the code of the trip: a sequence of journeys.

Stops == [id : STRING, delay : [Events -> Int]]

\* period_filter_tolerance, in hours
Tolerance == 3

\* The feed is floored to the hour, which is the unit of time.
Since(feed) == feed.at - Tolerance
Until(feed) == feed.at + Tolerance + 1

\* _make_db_vj(): a journey, if it is the only one and starts within the period.
Vjs(feed) ==
    IF Len(feed.found) = 1 /\ Start(feed.found[1], Since(feed)) <= Until(feed)
    THEN feed.found
    ELSE <<>>

\* The place in the feed of the i-th stop of the journey: they are matched from the
\* end, and are not there for the first ones if the feed has less than the journey.
Place(feed, journey, i) == i + Len(feed.stops) - Len(journey)

IsEnding(feed, journey) ==
    /\ Len(feed.stops) <= Len(journey)
    /\ \A i \in DOMAIN journey :
          Place(feed, journey, i) >= 1 => feed.stops[Place(feed, journey, i)].id = journey[i].id

\* Seeded fault: the stops are matched from the beginning.
StopDelayFromStart(feed, journey, i, e) ==
    IF i > Len(feed.stops) THEN None
    ELSE IF feed.stops[i].delay[e] = 0 THEN None ELSE feed.stops[i].delay[e]

\* read_delay(), and _init_stop_update() for the stops before the first of the feed:
\* no delay, and a delay of 0, are None.
StopDelay(feed, journey, i, e) ==
    IF Place(feed, journey, i) < 1 THEN None
    ELSE LET delay == feed.stops[Place(feed, journey, i)].delay[e]
         IN  IF delay = 0 THEN None ELSE delay

\* _make_stoptime_update()
MakeStopTimeUpdate(feed, journey, i) ==
    LET delay == [e \in Events |-> StopDelay(feed, journey, i, e)]
    IN  [id     |-> journey[i].id,
         order  |-> i - 1,
         time   |-> [e \in Events |-> None],
         delay  |-> delay,
         status |-> [e \in Events |-> IF delay[e] = None THEN "none" ELSE "update"]]

\* _make_trip_updates(): the TripUpdates of the journeys whose last stops the feed has.
MakeTripUpdates(feed) ==
    LET Made(journey) ==
           [complete |-> FALSE, cancel |-> FALSE,
            stops |-> [i \in DOMAIN journey |-> MakeStopTimeUpdate(feed, journey, i)]]
        ending == Only(Vjs(feed), {k \in DOMAIN Vjs(feed) : IsEnding(feed, Vjs(feed)[k])})
    IN  [k \in DOMAIN ending |-> Made(ending[k])]

=============================================================================
