------------------------------ MODULE PivBuilder ------------------------------
(***************************************************************************)
(* piv/model_maker.py: what the builder makes of a PIV feed.  A feed has   *)
(* the whole trip, with dates; it is the last word on it.                  *)
(***************************************************************************)
EXTENDS Circulation

\* A feed: [events, source, found, stops].  `events' are the types of the disruptions
\* of the trip, `source' its planTransportSource or None, `found' the journeys that
\* navitia has for it, `stops' its "arrets desserte" by rank: [id, event, barred], with
\* for `id' None if navitia has no such stop.  An event of a stop is None (the vehicle
\* does not arrive, or leave), or [base, time, delay, status, source]: its date in the
\* base schedule and its date now, the delay and the type of its disruption (None if
\* it has none), and its planTransportSource.

StopEvents ==
    [base : OrNone(Int), time : OrNone(Int), delay : OrNone(Int),
     status : OrNone(STRING), source : OrNone(STRING)]

Stops ==
    [id : OrNone(STRING), event : [Events -> OrNone(StopEvents)],
     barred : [Events -> BOOLEAN]]

ManagedEvents ==
    {"RETARD", "SUPPRESSION", "MODIFICATION_DESSERTE_SUPPRIMEE", "MODIFICATION_LIMITATION",
     "MODIFICATION_DESSERTE_AJOUTEE", "MODIFICATION_PROLONGATION",
     "MODIFICATION_DETOURNEMENT", "NORMAL"}

AddedSources == {"OPE", "PTP"}

\* build_trip_updates(): a disruption it knows, or else a known source.
IsSupported(feed) ==
    IF feed.events # {} THEN feed.events \cap ManagedEvents # {}
                        ELSE feed.source \in AddedSources

\* trip_effect_order: the suppression of the trip goes before the other disruptions,
\* which only tell on the effect and the message.
IsCancelled(feed) == "SUPPRESSION" \in feed.events

-----------------------------------------------------------------------------

\* _has_departure(), _has_arrival()
Has(stop, e) == stop.event[e] # None /\ ~stop.barred[e]

\* Seeded fault: the stops before the first departure are kept.
InterestingStopsFromStart(stops) ==
    Only(stops, {i \in DOMAIN stops :
                   /\ \E e \in Events : Has(stops[i], e)
                   /\ \E j \in i .. Len(stops) : Has(stops[j], "arrival")})

\* _retrieve_interesting_stops(): where travellers hop on or off, from the first stop
\* they may hop on to the last they may hop off.
InterestingStops(stops) ==
    Only(stops, {i \in DOMAIN stops :
                   /\ \E e \in Events : Has(stops[i], e)
                   /\ \E j \in 1 .. i : Has(stops[j], "departure")
                   /\ \E j \in i .. Len(stops) : Has(stops[j], "arrival")})

IsFullyAdded(stop) ==
    \A e \in Events : stop.event[e] # None => stop.event[e].source \in AddedSources

\* _get_first_stop_base_datetime(): the departure in the base schedule of the first stop
\* that has one.  It fails where the code finds none, or the stop has no departure.
BaseStart(stops) ==
    LET planned == {i \in DOMAIN stops : ~IsFullyAdded(stops[i])}
    IN  IF planned = {} \/ stops[Min(planned)].event["departure"] = None THEN None
        ELSE stops[Min(planned)].event["departure"].base

\* base_vs_rt_error_margin, in hours
Margin == 1

\* _get_navitia_vj(): one journey at most, that starts when the feed says.  A trip that
\* navitia does not have is an empty one.
HasVj(feed, stops) ==
    LET start == BaseStart(stops)
    IN  /\ start # None
        /\ Len(feed.found) <= 1
        /\ \A k \in DOMAIN feed.found :
              Start(feed.found[k], start - Margin) <= start + Margin

-----------------------------------------------------------------------------

Statuses ==
    [update             |-> {"RETARD_OBSERVE", "RETARD_PROJETE"},
     delete             |-> {"SUPPRESSION_PARTIELLE"},
     deleted_for_detour |-> {"SUPPRESSION_DETOURNEMENT"},
     add                |-> {"CREATION"},
     added_for_detour   |-> {"CREATION_DETOURNEMENT"},
     none               |-> {"NORMAL", None}]

IsManaged(stop) ==
    \A e \in Events :
       stop.event[e] # None =>
          \E s \in DOMAIN Statuses : stop.event[e].status \in Statuses[s]

StatusOf(event) ==
    IF event = None THEN "none"
    ELSE CHOOSE s \in DOMAIN Statuses : event.status \in Statuses[s]

TimeOf(event) == IF event = None THEN None ELSE event.time

MakeStopTimeUpdate(stop, i) ==
    [id     |-> stop.id,
     order  |-> i - 1,
     time   |-> [e \in Events |-> TimeOf(stop.event[e])],
     delay  |-> [e \in Events |-> IF stop.event[e] = None THEN None ELSE stop.event[e].delay],
     status |-> [e \in Events |-> StatusOf(stop.event[e])]]

\* _check_stop_time_consistency(): the deleted events count, and a stop that is not left
\* lets the next one be at any time.
IsConsistent(stops) ==
    LET Or(time, other) == IF time # None THEN time ELSE other
        Left(i) == IF i = 1 THEN None ELSE TimeOf(stops[i - 1].event["departure"])
    IN  \A i \in DOMAIN stops :
           LET arr == Or(TimeOf(stops[i].event["arrival"]), Left(i))
               dep == Or(TimeOf(stops[i].event["departure"]), arr)
           IN  /\ Left(i) # None => Left(i) <= arr
               /\ arr # None => arr <= dep

\* _get_navitia_stop_point(): the stops that navitia does not have are skipped.
KnownStops(stops) == Only(stops, {i \in DOMAIN stops : stops[i].id # None})

CanBeMade(feed, known) ==
    IsCancelled(feed) \/ ((\A i \in DOMAIN known : IsManaged(known[i])) /\ IsConsistent(known))

\* _make_trip_update()
MakeTripUpdate(feed, known) ==
    [complete |-> TRUE,
     cancel   |-> IsCancelled(feed),
     stops    |-> IF IsCancelled(feed) THEN <<>>
                  ELSE [i \in DOMAIN known |-> MakeStopTimeUpdate(known[i], i)]]

\* build_trip_updates(): one TripUpdate, or none if the feed is refused.
MakeTripUpdates(feed) ==
    LET stops == InterestingStops(feed.stops)
        known == KnownStops(stops)
    IN  IF IsSupported(feed) /\ Len(stops) >= 2 /\ HasVj(feed, stops) /\ CanBeMade(feed, known)
        THEN <<MakeTripUpdate(feed, known)>>
        ELSE <<>>

=============================================================================
