------------------------------- MODULE TripMerge -------------------------------
(***************************************************************************)
(* What a feed makes of one trip: merge() of core/merge_utils.py, then     *)
(* manage_consistency() of core/build_wrapper.py, on the stops of the trip.*)
(* Navitia's base schedule gives times of day without a date; the stored   *)
(* trip and the feed give dated times and delays.                          *)
(*                                                                         *)
(* Times are small numbers: a dated time counts from midnight of the day   *)
(* the trip starts, a time of day is its remainder by Day.  TripFeeds has  *)
(* the feeds, and what is checked.                                         *)
(***************************************************************************)
EXTENDS Circulation

CONSTANT Trip   \* the trip as it is planned: a sequence of [id, date], first to last

Statuses == {"none", "update", "delete", "deleted_for_detour", "add", "added_for_detour"}

\* A StopTimeUpdate has its times, delays and statuses by event.
StopTimeUpdates(times) ==
    [id : STRING, order : Nat, status : [Events -> Statuses],
     time : [Events -> times], delay : [Events -> times]]

StoredTrips == [cancel : BOOLEAN, stops : Seq(StopTimeUpdates(OrNone(Int)))]

\* A stop that merge() goes through, with its times of day
StopTimes == [order : Nat, id : STRING, time : [Events -> OrNone(Int)]]

TripMergeAssumption ==
    /\ Day \in Nat \ {0}
    /\ None \notin Int \cup StopTimeUpdates(OrNone(Int)) \cup StoredTrips \cup StopTimes
    /\ Trip \in Seq([id : STRING, date : [Events -> Int]])
    /\ \A i \in DOMAIN Trip : Trip[i].date["arrival"] <= Trip[i].date["departure"]
    /\ \A i \in DOMAIN Trip \ {1} :
          Trip[i].date["arrival"] \in
             Trip[i - 1].date["departure"] .. Trip[i - 1].date["departure"] + Day - 1
    /\ Trip[1].date["arrival"] \in 0 .. Day - 1

ASSUME TripMergeAssumption

\* Navitia's stop_times have times of day only.
Base == [i \in DOMAIN Trip |->
           [id   |-> Trip[i].id,
            time |-> [e \in Events |-> Trip[i].date[e] % Day]]]

\* A TripUpdate that a builder made: [complete, cancel, stops].  Those of COTS and PIV
\* are complete; those of GTFS-RT are not, and have the stops of the base schedule.
IsWellMade(new) ==
    /\ new.complete \in BOOLEAN /\ new.cancel \in BOOLEAN
    /\ new.stops \in Seq(StopTimeUpdates(OrNone(Int)))
    /\ \A i \in DOMAIN new.stops :
          /\ new.stops[i].order = i - 1
          /\ \A e \in Events : new.stops[i].status[e] = "update" =>
                new.stops[i].delay[e] # None
    /\ ~new.complete =>
          /\ DOMAIN new.stops = DOMAIN Base
          /\ \A i \in DOMAIN Base : new.stops[i].id = Base[i].id

VARIABLES
    stored,   \* the TripUpdate in database, or None
    told,     \* the stops navitia last received of it
    last,     \* the feed received last, or None
    verdict   \* what became of it: "refused" by the builder, "sent", "nothing",
              \* "rejected", "failed"

vars == <<stored, told, last, verdict>>

-----------------------------------------------------------------------------

OrElse(x, y) == IF x # None THEN x ELSE y

Plus(time, delay) == IF time = None \/ delay = None THEN time ELSE time + delay

IsAdded(stu, e) == stu.status[e] \in {"add", "added_for_detour"}
IsDeleted(stu, e) == stu.status[e] \in {"delete", "deleted_for_detour"}

\* TripUpdate.find_stop(): by id and order, else by id alone.
FindStop(stops, id, order) ==
    LET exact == {i \in DOMAIN stops : stops[i].id = id /\ stops[i].order = order}
        same  == {i \in DOMAIN stops : stops[i].id = id}
        found == IF exact # {} THEN exact ELSE same
    IN  IF same = {} THEN None ELSE stops[Min(found)]

\* The same in the stored trip, if there is one.
FindInDb(db, id, order) ==
    IF db = None THEN None ELSE FindStop(db.stops, id, order)

\* is_stop_event_served(): the feed decides, else the database, else navitia.
IsServed(e, hasTime, dbStu, newStu) ==
    CASE newStu # None -> ~IsDeleted(newStu, e)
      [] newStu = None /\ dbStu # None -> ~IsDeleted(dbStu, e)
      [] OTHER -> hasTime

\* is_new_stop_event_valid() of a stop that navitia does not have: the same status by name,
\* an addition of what is not served, or a change of what is.
IsNewEventValid(e, dbStu, newStu) ==
    \/ dbStu # None /\ dbStu.status[e] = newStu.status[e]
    \/ IsAdded(newStu, e) # IsServed(e, FALSE, dbStu, None)

-----------------------------------------------------------------------------
(***************************************************************************)
(* The stops merge() goes through, None where it passes over one.          *)
(***************************************************************************)

\* make_fake_realtime_stop_time(): the time of day of an added stop, None where the
\* code has no time to take it of, and raises.
FakeTime(dbStu, newStu) ==
    LET a == newStu.time["arrival"]
        d == newStu.time["departure"]
        dated == IF dbStu # None /\ a = None /\ d = None
                 THEN dbStu.time
                 ELSE [e \in Events |-> Plus(OrElse(newStu.time[e], OrElse(a, d)),
                                             newStu.delay[e])]
    IN  [e \in Events |-> IF dated[e] = None THEN None ELSE dated[e] % Day]

BaseStops ==
    [i \in DOMAIN Base |-> [order |-> i - 1, id |-> Base[i].id, time |-> Base[i].time]]

\* A complete feed decides on the stops; one that is neither in navitia nor a
\* valid addition is passed over, its order with it.
FeedStops(db, new) ==
    LET InBase(i) == {k \in DOMAIN Base : Base[k].id = new.stops[i].id}
        InDb(i) == FindInDb(db, new.stops[i].id, i - 1)
        IsKept(i) == \/ InBase(i) # {}
                     \/ \E e \in Events : IsNewEventValid(e, InDb(i), new.stops[i])
        Stop(i) == [order |-> i - 1,
                    id    |-> new.stops[i].id,
                    time  |-> IF InBase(i) # {} THEN Base[Min(InBase(i))].time
                                                ELSE FakeTime(InDb(i), new.stops[i])]
    IN  [i \in DOMAIN new.stops |-> IF IsKept(i) THEN Stop(i) ELSE None]

NextStops(db, new) == IF new.complete THEN FeedStops(db, new) ELSE BaseStops

Raises(stops) ==
    \E i \in DOMAIN stops :
       stops[i] # None /\ \E e \in Events : stops[i].time[e] = None

-----------------------------------------------------------------------------
(***************************************************************************)
(* The dates of a stop, given the event before.  `clock' is the date so far*)
(* and the time of day and delay of the event before.                      *)
(***************************************************************************)

IsPastMidnight(clock, time, delay) ==
    /\ clock.time # None
    /\ clock.time > time
    /\ clock.time + clock.delay > time + delay

Tick(clock, served, e, stop, newStu) ==
    LET delay == IF newStu = None THEN 0 ELSE OrElse(newStu.delay[e], 0)
        past  == IsPastMidnight(clock, stop.time[e], delay)
    IN  IF served
        THEN [day   |-> IF past THEN clock.day + 1 ELSE clock.day,
              time  |-> stop.time[e],
              delay |-> delay]
        ELSE clock

\* The date of a served event, None for the others.
Dated(clock, served, stop, e) ==
    IF served THEN clock.day * Day + stop.time[e] ELSE None

\* _get_update_info_of_stop_event(): time and delay of one event.
EventTime(base, new, e) ==
    CASE new.status[e] = "update" -> Plus(base, new.delay[e])
      [] IsDeleted(new, e)        -> None
      [] IsAdded(new, e)          -> Plus(new.time[e], new.delay[e])
      [] new.status[e] = "none"   -> base

\* Seeded fault: the arrival delay is read for both events.
EventDelayOfArrival(new, e) ==
    IF new.status[e] = "update" THEN OrElse(new.delay["arrival"], 0) ELSE 0

EventDelay(new, e) == IF new.status[e] = "update" THEN new.delay[e] ELSE 0

\* The arrival is pushed after the last departure, the departure after the arrival.
PushedUpdate(arr0, dep0, lastDep, new, stop) ==
    LET late == IF lastDep # None /\ lastDep > arr0 THEN lastDep - arr0 ELSE 0
        arr  == Plus(arr0, late)
        wait == IF arr # None /\ arr > dep0 THEN arr - dep0 ELSE 0
    IN  [id     |-> stop.id,
         order  |-> stop.order,
         status |-> new.status,
         time   |-> [e \in Events |-> IF e = "arrival" THEN arr ELSE Plus(dep0, wait)],
         delay  |-> [e \in Events |-> EventDelay(new, e) +
                                      (IF e = "arrival" THEN late ELSE wait)]]

\* _make_stop_time_update(): first, missing times are filled in.
MakeStopTimeUpdate(base, lastDep, new, stop) ==
    LET d == EventTime(base["departure"], new, "departure")
        arr0 == OrElse(EventTime(base["arrival"], new, "arrival"), OrElse(d, lastDep))
    IN  PushedUpdate(arr0, OrElse(d, arr0), lastDep, new, stop)

\* The stop as in the base schedule
BaseStopTimeUpdate(base, stop) ==
    [id |-> stop.id, order |-> stop.order, time |-> base,
     delay |-> [e \in Events |-> None], status |-> [e \in Events |-> "none"]]

-----------------------------------------------------------------------------
(***************************************************************************)
(* merge()                                                                 *)
(***************************************************************************)

\* Seeded fault: the objects are compared, not what they hold.
IsNewsAlways(fresh, dbStu) == TRUE

\* StopTimeUpdate.is_not_equal(), and a stop the database does not have
IsNews(fresh, dbStu) == fresh # dbStu

\* The stop kept, and what the loop carries on to the next one.
Keep(acc, clock, fresh, dbStu) ==
    LET changes == acc.changes \/ IsNews(fresh, dbStu)
        kept    == IF changes THEN fresh ELSE dbStu
    IN  [clock   |-> clock,
         lastDep |-> kept.time["departure"],
         changes |-> changes,
         stops   |-> Append(acc.stops, kept)]

\* What is made of a stop that is found in the database and in the feed.
MergeStop(acc, stop, dbStu, newStu) ==
    LET served == [e \in Events |-> IsServed(e, TRUE, dbStu, newStu)]
        clockA == Tick(acc.clock, served["arrival"], "arrival", stop, newStu)
        clockD == Tick(clockA, served["departure"], "departure", stop, newStu)
        base   == [e \in Events |-> Dated(IF e = "arrival" THEN clockA ELSE clockD,
                                          served[e], stop, e)]
        fresh  == IF newStu # None
                  THEN MakeStopTimeUpdate(base, acc.lastDep, newStu, stop)
                  ELSE OrElse(dbStu, BaseStopTimeUpdate(base, stop))
    IN  Keep(acc, clockD, fresh, dbStu)

BeforeMerge ==
    [clock   |-> [day |-> 0, time |-> None, delay |-> None],
     lastDep |-> None,
     changes |-> FALSE,
     stops   |-> <<>>]

MergeNext(acc, db, new, stop) ==
    IF stop = None THEN acc
    ELSE MergeStop(acc, stop, FindInDb(db, stop.id, stop.order),
                   FindStop(new.stops, stop.id, stop.order))

\* The loop, after each of its turns
Turns(db, new) ==
    LET next == NextStops(db, new)
        Turn[n \in 0 .. Len(next)] ==
           IF n = 0 THEN BeforeMerge ELSE MergeNext(Turn[n - 1], db, new, next[n])
    IN  Turn

Merged(db, new) == Turns(db, new)[Len(NextStops(db, new))]

-----------------------------------------------------------------------------
(***************************************************************************)
(* manage_consistency()                                                    *)
(***************************************************************************)

\* A missing time is the one of the other event, else the time before; a missing
\* delay follows it, else there is none.
FillIn(stu, before) ==
    LET a0 == stu.time["arrival"]
        a == OrElse(a0, OrElse(stu.time["departure"], before.time))
        d == OrElse(stu.time["departure"], a)
        From(e) == OrElse(stu.delay[e], 0)
    IN  [stu EXCEPT
           !.time  = [e \in Events |-> IF e = "arrival" THEN a ELSE d],
           !.delay = [e \in Events |->
              CASE e = "arrival" /\ a0 = None /\ From(e) = 0 -> From("departure")
                [] e = "departure" /\ stu.time[e] = None /\ From(e) = 0 ->
                      IF a0 = None /\ From("arrival") = 0 THEN From("departure")
                                                          ELSE From("arrival")
                [] OTHER -> From(e)]]

\* A served event before the one before it gets that one's delay.
Push(stu, before, e) ==
    IF ~IsDeleted(stu, e) /\ before.time # None /\ before.time > stu.time[e]
    THEN [stu EXCEPT !.time[e] = @ + before.delay - stu.delay[e],
                     !.delay[e] = before.delay]
    ELSE stu

Latest(stu, before, e) ==
    IF IsDeleted(stu, e) THEN before ELSE [time |-> stu.time[e], delay |-> stu.delay[e]]

\* Seeded fault: gaps in the order are let through.
IsRefusedNoOrder(stu, rank, arrival) == arrival = None

\* Seeded fault: stops without a time are let through.
IsRefusedNoTime(stu, rank, arrival) == stu.order # rank

IsRefused(stu, rank, arrival) == stu.order # rank \/ arrival = None

Adjusted(acc, filled) ==
    LET a == Push(filled, acc.before, "arrival")
        afterA == Latest(a, acc.before, "arrival")
        d == Push(a, afterA, "departure")
    IN  [ok     |-> TRUE,
         before |-> Latest(d, afterA, "departure"),
         stops  |-> Append(acc.stops, d)]

\* Once a stop is refused, the ones after it stay as they are.
AdjustStop(acc, stu) ==
    LET filled == FillIn(stu, acc.before)
    IN  IF ~acc.ok \/ IsRefused(stu, Len(acc.stops), filled.time["arrival"])
        THEN [acc EXCEPT !.ok = FALSE, !.stops = Append(@, stu)]
        ELSE Adjusted(acc, filled)

BeforeAdjust ==
    [ok |-> TRUE, before |-> [time |-> None, delay |-> None], stops |-> <<>>]

\* The loop, after each of its turns
Adjusting(stops) ==
    LET Turn[n \in 0 .. Len(stops)] ==
           IF n = 0 THEN BeforeAdjust ELSE AdjustStop(Turn[n - 1], stops[n])
    IN  Turn

ManageConsistency(stops) == Adjusting(stops)[Len(stops)]

-----------------------------------------------------------------------------
(***************************************************************************)
(* handle(), for this trip                                                 *)
(***************************************************************************)

\* [stored, verdict]: what the database holds afterwards, and whether the trip
\* is sent.  A trip in the database is written whatever the verdict; a new one
\* only if it is accepted.
Outcome(db, changes, managed) ==
    LET Written(stops) == IF db = None THEN None ELSE [cancel |-> FALSE, stops |-> stops]
    IN  CASE ~changes -> [stored |-> Written(db.stops), verdict |-> "nothing"]
          [] changes /\ ~managed.ok ->
                [stored |-> Written(managed.stops), verdict |-> "rejected"]
          [] OTHER -> [stored  |-> [cancel |-> FALSE, stops |-> managed.stops],
                       verdict |-> "sent"]

MergedOutcome(db, merged) ==
    Outcome(db, merged.changes, ManageConsistency(merged.stops))

\* When merge() raises it has changed the head only, which the error path commits.
Handled(db, new) ==
    CASE new.cancel ->
            [stored |-> [cancel |-> TRUE, stops |-> <<>>], verdict |-> "sent"]
      [] ~new.cancel /\ Raises(NextStops(db, new)) ->
            [stored  |-> IF db = None THEN None ELSE [db EXCEPT !.cancel = FALSE],
             verdict |-> "failed"]
      [] OTHER -> MergedOutcome(db, Merged(db, new))

Init ==
    /\ stored = None
    /\ told = <<>>
    /\ last = None
    /\ verdict = "nothing"

\* handle() of the TripUpdate built from a feed
Handle(feed, new) ==
    /\ \E result \in {Handled(stored, new)} :
          /\ stored' = result.stored
          /\ verdict' = result.verdict
          /\ told' = IF result.verdict = "sent" THEN result.stored.stops ELSE told
    /\ last' = feed

=============================================================================
