------------------------------- MODULE CotsTrip -------------------------------
(***************************************************************************)
(* The life of the trips COTS speaks of: added, changed, cancelled, added  *)
(* again.  cots/model_maker.py decides what a feed does to a trip from what*)
(* the database and navitia hold when it reads them; handle() then merges  *)
(* it with what the database holds by that time.  Several processes serve  *)
(* POST requests at once.                                                  *)
(*                                                                         *)
(* Two steps per feed: Build, up to the end of build_trip_updates(), and   *)
(* Handle, up to the publication, whose own interleavings are those of     *)
(* FeedHandling; HandleFails where merge() raises.  Times are hours.       *)
(* Messages, companies and delays are left out: what merge() makes of the  *)
(* times of a stop is in TripMerge, and here two stops are the same if     *)
(* their place, times and statuses are.                                    *)
(***************************************************************************)
EXTENDS Integers, Sequences, SequencesExt, FiniteSetsExt

CONSTANTS
    Workers,   \* processes serving requests
    Feeds,     \* the feeds COTS may send
    Headsigns, \* headsigns(): by train number as written, those it stands for
    TrainId,   \* TRAIN_ID_FORMAT of a train number as written
    BaseTrips, \* navitia's schedule: [id, headsigns, start, end, stops]
    Stops,     \* stop points, those of the feeds
    Known,     \* the stop points navitia knows
    Margin,    \* SNCF_SEARCH_MARGIN
    LastTime,  \* bound: the latest time of a feed or of the schedule
    None       \* Python's None

\* A point of a feed: [stop, station, arrival, departure], the events being None
\* or [at, status].  A feed: [number, status, sound, points]; it is not sound if
\* a time goes back at a stop navitia knows, a status is unknown or a delay is
\* ambiguous.
EventStatuses == {"none", "update", "add", "delete", "added_for_detour",
                  "deleted_for_detour"}

Time == 0 .. LastTime

Event == [at : Time, status : EventStatuses] \cup {None}

PointsDeParcours ==
    [stop : Stops, station : BOOLEAN, arrival : Event, departure : Event]

\* The id of the trip Kirin makes for a train navitia does not have, and of those
\* it has.
AddedIds == UNION {Headsigns[n] : n \in DOMAIN Headsigns}
BaseIds == {b.id : b \in BaseTrips}

CotsTripAssumption ==
    /\ Margin \in Nat
    /\ LastTime \in Nat
    /\ \A f \in Feeds :
          /\ f.status \in {"AJOUTEE", "SUPPRIMEE", "PERTURBEE"}
          /\ f.sound \in BOOLEAN
          /\ f.number \in DOMAIN Headsigns \cap DOMAIN TrainId
          /\ f.points \in Seq(PointsDeParcours)
    /\ None \notin Feeds
    /\ AddedIds \cap BaseIds = {}
    /\ \A b \in BaseTrips : b.start \in Time /\ b.end \in Time /\ b.start <= b.end

ASSUME CotsTripAssumption

Keys == (AddedIds \cup BaseIds) \X Time

VARIABLES
    stored,    \* trip_update rows, by trip id and start
    told,      \* what navitia received of each
    pc,        \* "idle" or "built", by process
    feed,      \* the feed it handles
    plan,      \* the trips its TripUpdates are about
    action,    \* the ActionOnTrip it chose
    overtaken, \* history: another feed was handled since it read the database
    origin,    \* history: the feed that made the row of an added trip
    unsent     \* history: the trips of a feed that failed, stored and not sent

vars == <<stored, told, pc, feed, plan, action, overtaken, origin, unsent>>

Actions == {"NOT_ADDED", "FIRST_TIME_ADDED", "PREVIOUSLY_ADDED"}

-----------------------------------------------------------------------------
(***************************************************************************)
(* Reading the feed                                                        *)
(***************************************************************************)

\* _retrieve_interesting_pdp(): stations, from the first one the train leaves, as
\* long as travellers can get off at it or after it.
InterestingPoints(f) ==
    LET IsBoarding(i) == f.points[i].station /\ f.points[i].departure # None
        IsAlighting(i) == f.points[i].station /\ f.points[i].arrival # None
    IN  {i \in 1 .. Len(f.points) :
            /\ \E j \in 1 .. i : IsBoarding(j)
            /\ IsBoarding(i) \/ IsAlighting(i)
            /\ \E j \in i .. Len(f.points) : IsAlighting(j)}

\* "less than 2 valid stop_times"
IsTooShort(f) == ~\E i, j \in InterestingPoints(f) : i # j

\* _is_fully_added_pdp()
IsFullyAdded(p) ==
    \A e \in {p.arrival, p.departure} \ {None} : e.status = "add"

\* The points the period of the trip is taken from: the base schedule has no added
\* stop, but an added trip has no other.
Dating(f, skipAdded) ==
    {i \in InterestingPoints(f) : skipAdded => ~IsFullyAdded(f.points[i])}

FirstPoint(f, skipAdded) == f.points[Min(Dating(f, skipAdded))]
LastPoint(f, skipAdded) == f.points[Max(Dating(f, skipAdded))]

\* _get_first_stop_datetime() raises where the first stop has no departure, or the
\* last one no arrival.
HasPeriod(f, skipAdded) ==
    Dating(f, skipAdded) # {} =>
       FirstPoint(f, skipAdded).departure # None /\ LastPoint(f, skipAdded).arrival # None

Since(f, skipAdded) == FirstPoint(f, skipAdded).departure.at
Until(f, skipAdded) == LastPoint(f, skipAdded).arrival.at

\* The period, SNCF_SEARCH_MARGIN included, that trips are searched in.
Period(f, skipAdded) ==
    Since(f, skipAdded) - Margin .. Until(f, skipAdded) + Margin

-----------------------------------------------------------------------------
(***************************************************************************)
(* _get_action_on_trip() and _get_navitia_vjs()                            *)
(***************************************************************************)

\* find_vj_by_period() with the number as it is written; it keeps any of them.
AddedRows(f) ==
    {k \in Keys : /\ stored[k] # None
                  /\ k[1] = TrainId[f.number]
                  /\ k[2] \in Period(f, FALSE)}

\* Seeded fault: a trip may be added again while it runs.
IsForbiddenButAddition(f, row) == f.status # "AJOUTEE" /\ row.status = "delete"

\* "No addition multiple times.  No update or delete on trip already deleted."
IsForbidden(f, row) ==
    \/ f.status = "AJOUTEE" /\ row.status = "add"
    \/ f.status # "AJOUTEE" /\ row.status = "delete"

ActionOnTrip(f, row) ==
    CASE row = None /\ f.status = "AJOUTEE" -> "FIRST_TIME_ADDED"
      [] row # None /\ f.status = "AJOUTEE" /\ row.status = "delete" -> "FIRST_TIME_ADDED"
      [] row # None /\ row.status = "add" -> "PREVIOUSLY_ADDED"
      [] OTHER -> "NOT_ADDED"

\* navitia.vehicle_journeys(): those of the headsigns running in the period
NavitiaVjs(f, skipAdded) ==
    {b \in BaseTrips : /\ b.headsigns \cap Headsigns[f.number] # {}
                       /\ \E t \in Period(f, skipAdded) : b.start <= t /\ t <= b.end}

\* A VehicleJourney is dated by its first stop after the start of the period; one
\* that would start after its end is left out.
DatedVjs(f) == {<<b.id, b.start>> : b \in {n \in NavitiaVjs(f, TRUE) :
                                             n.start \in Period(f, TRUE)}}

\* Seeded fault: navitia is not asked whether it has the trip to add.
IsPresentUnasked(f, a) == FALSE

\* "Invalid action, trip already present in navitia"
IsPresent(f, a) == a = "FIRST_TIME_ADDED" /\ NavitiaVjs(f, FALSE) # {}

\* make_navitia_empty_vj(): one trip per headsign, starting as the feed says
AddedVjs(f) == {<<h, Since(f, FALSE)>> : h \in Headsigns[f.number]}

Vjs(f, a) ==
    CASE a # "NOT_ADDED" -> AddedVjs(f)
      [] a = "NOT_ADDED" /\ Dating(f, TRUE) = {} -> {}
      [] OTHER -> DatedVjs(f)

\* "no train found"
IsNotFound(f, a) == a = "NOT_ADDED" /\ Dating(f, TRUE) # {} /\ DatedVjs(f) = {}

-----------------------------------------------------------------------------
(***************************************************************************)
(* _make_trip_update()                                                     *)
(***************************************************************************)

\* get_modification_type_order(), the highest last
Rank(status) ==
    CASE status = "none" -> 0
      [] status = "update" -> 1
      [] status = "add" -> 2
      [] status = "delete" -> 3
      [] status = "added_for_detour" -> 4
      [] status = "deleted_for_detour" -> 5

Statuses(stops) ==
    UNION {{e.status : e \in {stops[i].arrival, stops[i].departure} \ {None}} :
           i \in DOMAIN stops}

\* get_effect_by_stop_time_status() of the highest status among the stops
EffectOf(stops) ==
    LET rank == Max({Rank(s) : s \in Statuses(stops)} \cup {0})
    IN  <<"UNKNOWN_EFFECT", "SIGNIFICANT_DELAYS", "MODIFIED_SERVICE",
          "REDUCED_SERVICE", "DETOUR", "DETOUR">>[rank + 1]

\* The stops of the TripUpdate: the interesting points navitia knows, in order.
KnownStops[f \in Feeds] ==
    LET order == SetToSortSeq({i \in InterestingPoints(f) : f.points[i].stop \in Known}, <)
    IN  [k \in DOMAIN order |-> f.points[order[k]]]

\* Seeded fault: whether the trip is an added one is asked first.
MakeTripUpdateAddedFirst(f, a) ==
    IF a # "NOT_ADDED"
    THEN [status |-> "add", effect |-> "ADDITIONAL_SERVICE",
          stops |-> KnownStops[f], described |-> TRUE]
    ELSE [status |-> "delete", effect |-> "NO_SERVICE", stops |-> <<>>,
          described |-> FALSE]

\* `described': the row has a headsign and a physical mode, without which navitia
\* cannot make a trip of it.
MakeTripUpdate(f, a) ==
    CASE f.status = "SUPPRIMEE" ->
            [status |-> "delete", effect |-> "NO_SERVICE", stops |-> <<>>,
             described |-> FALSE]
      [] f.status # "SUPPRIMEE" /\ a # "NOT_ADDED" ->
            [status |-> "add", effect |-> "ADDITIONAL_SERVICE",
             stops |-> KnownStops[f], described |-> TRUE]
      [] OTHER ->
            [status |-> "update", effect |-> EffectOf(KnownStops[f]),
             stops |-> KnownStops[f], described |-> FALSE]

-----------------------------------------------------------------------------

\* The stops of a row, by their order, counted from 1: those of a feed, or those of
\* them that merge() does not pass over.
Selections(f) ==
    {Restrict(KnownStops[f], kept) : kept \in SUBSET DOMAIN KnownStops[f]}

Rows ==
    [status    : {"add", "delete", "update"},
     effect    : {"NO_SERVICE", "ADDITIONAL_SERVICE"} \cup
                    {EffectOf(KnownStops[f]) : f \in Feeds},
     stops     : UNION {Selections(f) : f \in Feeds},
     described : BOOLEAN]

ASSUME RowsAssumption == None \notin Rows

TypeOK ==
    /\ stored \in [Keys -> Rows \cup {None}]
    /\ told \in [Keys -> Rows \cup {None}]
    /\ pc \in [Workers -> {"idle", "built"}]
    /\ feed \in [Workers -> Feeds \cup {None}]
    /\ plan \in [Workers -> SUBSET Keys]
    /\ action \in [Workers -> Actions]
    /\ overtaken \in [Workers -> BOOLEAN]
    /\ origin \in [Keys -> Feeds \cup {None}]
    /\ unsent \subseteq Keys

Init ==
    /\ stored = [k \in Keys |-> None]
    /\ told = [k \in Keys |-> None]
    /\ pc = [w \in Workers |-> "idle"]
    /\ feed = [w \in Workers |-> None]
    /\ plan = [w \in Workers |-> {}]
    /\ action = [w \in Workers |-> "NOT_ADDED"]
    /\ overtaken = [w \in Workers |-> FALSE]
    /\ origin = [k \in Keys |-> None]
    /\ unsent = {}

\* The row find_vj_by_period() may return: None if there is none.
RowsFound(f) ==
    IF AddedRows(f) = {} THEN {None} ELSE {stored[k] : k \in AddedRows(f)}

\* The builder refuses the feed: nothing comes of it.
IsRefused(f, row) ==
    LET a == ActionOnTrip(f, row) IN
    \/ row # None /\ IsForbidden(f, row)
    \/ ~HasPeriod(f, a = "NOT_ADDED")
    \/ IsPresent(f, a)
    \/ IsNotFound(f, a)
    \/ ~f.sound /\ f.status # "SUPPRIMEE"

\* build_trip_updates(), in a request of its own
Build(w, f) ==
    /\ pc[w] = "idle"
    /\ ~IsTooShort(f)
    /\ \E row \in RowsFound(f) :
          /\ ~IsRefused(f, row)
          /\ action' = [action EXCEPT ![w] = ActionOnTrip(f, row)]
          /\ plan' = [plan EXCEPT ![w] = Vjs(f, ActionOnTrip(f, row))]
    /\ feed' = [feed EXCEPT ![w] = f]
    /\ pc' = [pc EXCEPT ![w] = "built"]
    /\ overtaken' = [overtaken EXCEPT ![w] = FALSE]
    /\ UNCHANGED <<stored, told, origin, unsent>>

-----------------------------------------------------------------------------
(***************************************************************************)
(* handle(): merge() and manage_consistency()                              *)
(***************************************************************************)

New(w) == MakeTripUpdate(feed[w], action[w])

OldStops(k) == IF stored[k] = None THEN <<>> ELSE stored[k].stops

\* The stop points navitia has of a trip: none of a trip that COTS adds.
Scheduled(k) == UNION {b.stops : b \in {n \in BaseTrips : <<n.id, n.start>> = k}}

Events == {"arrival", "departure"}
StatusOf(p, e) == IF p[e] = None THEN "none" ELSE p[e].status
IsAdded(p, e) == StatusOf(p, e) \in {"add", "added_for_detour"}
IsDeleted(p, e) == StatusOf(p, e) \in {"delete", "deleted_for_detour"}

\* find_stop(): the order of the stored stop at this place and order, else of the first
\* one at this place; a set of one, or of none.
FindStop(stops, p, i) ==
    LET same == {j \in DOMAIN stops : stops[j].stop = p.stop}
    IN  {j \in same : IF i \in same THEN j = i ELSE \A n \in same : j <= n}

\* is_new_stop_event_valid(), of a stop navitia does not have: a status sent again,
\* an addition of what is not served, a change of what is.
IsNewEventValid(found, p, e) ==
    \/ \E old \in found : StatusOf(old, e) = StatusOf(p, e)
    \/ IsAdded(p, e) # \E old \in found : ~IsDeleted(old, e)

\* merge() passes over a stop that is not in the schedule and no valid change.
IsKept(w, k, i) ==
    LET p == New(w).stops[i] IN
    \/ p.stop \in Scheduled(k)
    \/ \E e \in Events :
          IsNewEventValid({OldStops(k)[j] : j \in FindStop(OldStops(k), p, i)}, p, e)

Merged(w, k) ==
    Restrict(New(w).stops, {i \in DOMAIN New(w).stops : IsKept(w, k, i)})

\* A stop both events of which are deleted has the time of the stop before it.
IsWhollyDeleted(p) == \A e \in Events : IsDeleted(p, e)

HasTime(stops, i) == \E j \in DOMAIN stops : j <= i /\ ~IsWhollyDeleted(stops[j])

\* manage_consistency(): no stop is missing and the first one has a time.
IsAccepted(stops) ==
    \A i \in DOMAIN stops : /\ 1 .. i \subseteq DOMAIN stops
                            /\ i = 1 => ~IsWhollyDeleted(stops[i])

\* make_fake_realtime_stop_time() takes the times of a stop that is not an addition
\* from the database, where a refused row may have none.
Raises(w, k) ==
    \E i \in DOMAIN New(w).stops :
       LET p == New(w).stops[i] IN
       /\ p.stop \notin Scheduled(k) /\ IsKept(w, k, i)
       /\ \A e \in Events : ~IsAdded(p, e)
       /\ \E j \in FindStop(OldStops(k), p, i) : ~HasTime(OldStops(k), j)

\* Stored stops after those of the feed are no news.
IsNews(w, k) ==
    \/ New(w).status = "delete"
    \/ \E i \in DOMAIN Merged(w, k) :
          i \notin DOMAIN OldStops(k) \/ OldStops(k)[i] # Merged(w, k)[i]

\* Seeded fault: the rows are sent whether they changed or not.
IsSentAlways(w, k) == TRUE

\* Seeded fault: a cancellation is stored and not sent.
IsSentUnlessCancelled(w, k) ==
    IsNews(w, k) /\ IsAccepted(Merged(w, k)) /\ New(w).status # "delete"

\* The row is linked to the RealTimeUpdate, and so published.
IsSent(w, k) == IsNews(w, k) /\ IsAccepted(Merged(w, k))

\* Seeded fault: the stops are added to the stored ones.
MergedRowAppended(w, k) ==
    IF stored[k] = None THEN [New(w) EXCEPT !.stops = Merged(w, k)]
    ELSE [New(w) EXCEPT !.stops = stored[k].stops \o @,
                        !.described = stored[k].described]

\* A stored row is written even if it is not sent, and keeps its headsign and mode;
\* a new one is stored only if it is sent.
MergedRow(w, k) ==
    CASE stored[k] = None ->
            IF IsSent(w, k) THEN [New(w) EXCEPT !.stops = Merged(w, k)] ELSE None
      [] OTHER ->
            [New(w) EXCEPT !.stops = IF IsNews(w, k) THEN Merged(w, k) ELSE stored[k].stops,
                           !.described = stored[k].described]

\* The row of which merge() raised: its status and effect are those of the feed.
BrokenRow(w, k) ==
    IF stored[k] = None THEN None
    ELSE [stored[k] EXCEPT !.status = New(w).status, !.effect = New(w).effect]

\* The request ends, and others that read the database before were overtaken.
Finish(w) ==
    /\ overtaken' = [v \in Workers |-> v # w /\ (overtaken[v] \/ pc[v] = "built")]
    /\ pc' = [pc EXCEPT ![w] = "idle"]
    /\ feed' = [feed EXCEPT ![w] = None]
    /\ plan' = [plan EXCEPT ![w] = {}]
    /\ action' = [action EXCEPT ![w] = "NOT_ADDED"]
    /\ origin' = [k \in Keys |-> IF k[1] \in AddedIds /\ stored[k] = None /\ stored'[k] # None
                                 THEN feed[w] ELSE origin[k]]

\* handle(): the rows are read again, merged, committed and published.
Handle(w) ==
    /\ pc[w] = "built"
    /\ \A k \in plan[w] : ~Raises(w, k)
    /\ stored' = [k \in Keys |-> IF k \in plan[w] THEN MergedRow(w, k) ELSE stored[k]]
    /\ told' = [k \in Keys |-> IF k \in plan[w] /\ IsSent(w, k) THEN MergedRow(w, k)
                                                               ELSE told[k]]
    /\ unsent' = {k \in unsent : k \notin plan[w] \/ ~IsSent(w, k)}
    /\ Finish(w)

\* merge() raises at one trip: the rows merged before it are committed by the error
\* path of wrap_build() and not published.
HandleFails(w) ==
    /\ pc[w] = "built"
    /\ \E broken \in plan[w], done \in SUBSET plan[w] :
          /\ Raises(w, broken)
          /\ \A k \in done : ~Raises(w, k)
          /\ stored' = [k \in Keys |-> CASE k \in done -> MergedRow(w, k)
                                         [] k = broken -> BrokenRow(w, k)
                                         [] OTHER -> stored[k]]
          /\ unsent' = unsent \cup done
    /\ told' = told
    /\ Finish(w)

Next ==
    \E w \in Workers :
       \/ \E f \in Feeds : Build(w, f)
       \/ Handle(w)
       \/ HandleFails(w)

Spec == Init /\ [][Next]_vars

-----------------------------------------------------------------------------
(***************************************************************************)
(* Properties                                                              *)
(***************************************************************************)

Handles(w) == pc[w] = "built" /\ pc'[w] = "idle"

\* The added trips a feed is about: those of its train, in its period.
OfTrain(f, k) == k[1] \in Headsigns[f.number] /\ k[2] \in Period(f, FALSE)

\* No addition of a trip that runs already, no change of an added trip that was
\* cancelled (the comment of _get_action_on_trip()), as long as no other feed is
\* handled between the query of the builder and that of handle(): of the stored
\* trips the feed may be about, one lets it do so.
ForbiddenIsRefused ==
    [][\A w \in Workers :
          Handles(w) /\ ~overtaken[w] /\ AddedRows(feed[w]) # {} =>
             \E k \in AddedRows(feed[w]) :
                stored[k].status # (IF feed[w].status = "AJOUTEE" THEN "add" ELSE "delete")]_vars

\* Once a cancellation is accepted, and unless another feed came in between,
\* navitia runs no trip of the train in its period: neither the one a feed added,
\* if its number is written the way it is stored and the feed does not move its
\* start, nor, if the train was not an added one, those of the schedule that start
\* in the period.
SuppressedIsGone ==
    [][\A w \in Workers :
          Handles(w) /\ ~overtaken[w] /\ feed[w].status = "SUPPRIMEE" =>
             /\ (/\ Headsigns[feed[w].number] = {TrainId[feed[w].number]}
                 /\ \A k \in AddedRows(feed[w]) : k[2] = Since(feed[w], FALSE))
                => \A k \in Keys : OfTrain(feed[w], k) /\ told'[k] # None =>
                      told'[k].status = "delete"
             /\ action[w] = "NOT_ADDED" /\ Dating(feed[w], TRUE) # {} =>
                   \A b \in BaseTrips :
                      (/\ b.headsigns \cap Headsigns[feed[w].number] # {}
                       /\ b.start \in Period(feed[w], TRUE))
                      => /\ told'[<<b.id, b.start>>] # None
                         /\ told'[<<b.id, b.start>>].status = "delete"]_vars

\* A train runs once: navitia is not given, under the headsign of a trip its
\* schedule has at that time, an added trip whose row an addition made.  (One whose
\* row another feed made, by moving the start of an added trip, may be such.)
AddedIsNew ==
    \A k \in Keys :
       (/\ told[k] # None /\ told[k].status = "add"
        /\ origin[k].status = "AJOUTEE"
        /\ k[2] \in Period(origin[k], FALSE))
       => \A b \in BaseTrips : k[1] \in b.headsigns => ~(b.start <= k[2] /\ k[2] <= b.end)

\* `stops' are the first ones of a feed, and the schedule has none of the others.
AreFirstOf(f, stops, k) ==
    /\ DOMAIN stops \subseteq DOMAIN KnownStops[f]
    /\ stops = Restrict(KnownStops[f], DOMAIN stops)
    /\ \A i \in DOMAIN stops : 1 .. i \subseteq DOMAIN stops
    /\ \A i \in DOMAIN KnownStops[f] \ DOMAIN stops : KnownStops[f][i].stop \notin Scheduled(k)

\* What navitia receives of a trip is of a piece: the effect is the one of the
\* stops sent with it, and of the last ones of the feed that merge() passed over,
\* none of which the schedule has; an added trip has what it takes to be created,
\* unless its row was made by a cancellation, and is no trip of the schedule; a
\* cancelled one has no stop left.
ToldIsOfAPiece ==
    \A k \in Keys : told[k] # None =>
       CASE told[k].status = "delete" ->
               told[k].effect = "NO_SERVICE" /\ told[k].stops = <<>>
         [] told[k].status = "add" ->
               /\ told[k].effect = "ADDITIONAL_SERVICE" /\ k[1] \in AddedIds
               /\ told[k].described \/ origin[k].status = "SUPPRIMEE"
         [] told[k].status = "update" ->
               /\ k[1] \in BaseIds
               /\ \E f \in Feeds : /\ told[k].effect = EffectOf(KnownStops[f])
                                   /\ AreFirstOf(f, told[k].stops, k)

\* Navitia and the database agree on whether a trip runs and where it stops, unless
\* manage_consistency() refuses the stored stops or the feed that stored them
\* failed, and but for a cancelled trip that a feed brings back with no stop
\* navitia knows.
ToldIsStored ==
    \A k \in Keys : stored[k] # None /\ IsAccepted(stored[k].stops) /\ k \notin unsent =>
       /\ told[k] # None
       /\ told[k].stops = stored[k].stops
       /\ \/ told[k].status = stored[k].status
          \/ told[k].status = "delete" /\ stored[k].stops = <<>>

\* "No addition multiple times" (cots/model_maker.py, _get_action_on_trip()),
\* whatever the train number is written like.
NoAdditionTwice ==
    [][\A w \in Workers : Handles(w) /\ feed[w].status = "AJOUTEE" =>
          \A k \in plan[w] : stored[k] # None => stored[k].status # "add"]_vars

=============================================================================
