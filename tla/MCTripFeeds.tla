------------------------------ MODULE MCTripFeeds ------------------------------
(***************************************************************************)
(* TripFeeds on a trip of three stops that passes midnight on its way.     *)
(***************************************************************************)
EXTENDS TripFeeds

CONSTANTS MaxLate   \* the longest delay feeds announce

MCDay == 24

Both(x) == [e \in Events |-> x]
At(arr, dep) == [e \in Events |-> IF e = "arrival" THEN arr ELSE dep]

Overnight == <<[id |-> "s1", date |-> At(20, 20)],
               [id |-> "s2", date |-> At(22, 23)],
               [id |-> "s3", date |-> At(25, 25)]>>

-----------------------------------------------------------------------------
\* GTFS-RT: every stop, on time, late or early, or the last ones only.

GtfsStop(i, arr, dep) == [id |-> Trip[i].id, delay |-> At(arr, dep)]

GtfsFeed(at, found, stops) == [at |-> at, found |-> found, stops |-> stops]

MCGtfsFeeds ==
    LET whole == {<<GtfsStop(1, 0, 0), b, GtfsStop(3, -1, -1)>> :
                     b \in {GtfsStop(2, -1, -2), GtfsStop(2, MaxLate, 1)}}
                 \cup {<<GtfsStop(1, 1, MaxLate), GtfsStop(2, MaxLate, 1), GtfsStop(3, 0, 0)>>}
        ends == {<<GtfsStop(3, 2, 2)>>, <<GtfsStop(2, 0, 3), GtfsStop(3, 0, 0)>>}
    IN  {GtfsFeed(22, <<Base>>, stops) : stops \in whole \cup ends}
        \cup {GtfsFeed(at, <<Base>>, <<GtfsStop(3, 1, 1)>>) : at \in {15, 16, 23, 24}}
        \cup {GtfsFeed(22, found, <<GtfsStop(3, 1, 1)>>) : found \in {<<>>, <<Base, Base>>}}
        \cup {GtfsFeed(22, <<Base>>, <<GtfsStop(2, 1, 1)>>)}

-----------------------------------------------------------------------------
\* COTS: which stops are made, and stops of its own.

Stop(i, status, delay) ==
    [id |-> Trip[i].id, time |-> Both(None), delay |-> delay, status |-> status]

Late(i, arr, dep) == Stop(i, Both("update"), At(arr, dep))
Dropped(i) == Stop(i, Both("delete"), Both(None))
NotLeft(i) == Stop(i, At("none", "delete"), Both(None))
NotReached(i) == Stop(i, At("delete", "none"), Both(None))

\* A stop the trip does not plan: added at a time, or deleted after it was added.
Extra(id, arr, dep) ==
    [id |-> id, time |-> At(arr, dep), delay |-> Both(None), status |-> Both("add")]
ExtraDropped(id) == [Extra(id, None, None) EXCEPT !.status = Both("delete")]
ForDetour(stop) ==
    [stop EXCEPT !.status = Both(IF IsAdded(stop, "arrival") THEN "added_for_detour"
                                                            ELSE "deleted_for_detour")]

Ranked(stops) ==
    [i \in DOMAIN stops |->
        [f \in DOMAIN stops[i] \cup {"order"} |->
            IF f = "order" THEN i - 1 ELSE stops[i][f]]]

Cots(cancel, stops) ==
    [update |-> [complete |-> TRUE, cancel |-> cancel, stops |-> Ranked(stops)]]

MCCotsFeeds ==
    LET onTime == <<Stop(3, Both("none"), Both(None))>>
        ends == {onTime, <<Extra("y", 24, 24), Late(3, MaxLate, MaxLate)>>,
                 <<NotReached(3), Extra("y", 26, 27)>>}
    IN  {Cots(FALSE, <<NotLeft(1)>> \o x \o <<b>> \o c) :
            x \in {<<>>, <<Extra("x", 21, 21)>>}, b \in {Late(2, 1, 1), Dropped(2)}, c \in ends}
        \cup {Cots(FALSE, <<Dropped(1), ExtraDropped("x"), Late(2, 1, 1)>> \o onTime),
              Cots(FALSE, <<NotLeft(1), Late(2, 1, 1), Late(3, 1, 1), ExtraDropped("y")>>),
              Cots(FALSE, <<NotLeft(1), Late(2, 1, 1), NotReached(3),
                            ForDetour(Extra("y", 26, 27))>>),
              Cots(FALSE, <<NotLeft(1), ForDetour(ExtraDropped("x")),
                            ForDetour(Dropped(2))>> \o onTime),
              Cots(TRUE, <<>>)}

-----------------------------------------------------------------------------
\* PIV: the whole trip, with the dates of its events; the first stop has no arrival and
\* the last no departure.

PivEvent(base, delay, status, source) ==
    [base |-> base, time |-> base + OrElse(delay, 0), delay |-> delay,
     status |-> status, source |-> source]

PivStop(id, arr, dep) == [id |-> id, event |-> At(arr, dep), barred |-> Both(FALSE)]

\* A planned stop, late if the delay is not None.
PivPlanned(i, late, status) ==
    LET Event(e) == IF <<i, e>> \in {<<1, "arrival">>, <<Len(Trip), "departure">>} THEN None
                    ELSE PivEvent(Trip[i].date[e], late, status, None)
    IN  PivStop(Trip[i].id, Event("arrival"), Event("departure"))

PivExtra(id, base, late, status) ==
    PivStop(id, PivEvent(base, late, status, "OPE"), PivEvent(base, late, status, "OPE"))

\* Stops that navitia has no use for: one where the train only arrives before travellers
\* hop on, one where they may not, and one it does not know.
Depot == PivStop("w", PivEvent(19, None, None, None), None)
Shunting == [PivExtra("w", 24, None, None) EXCEPT !.barred = Both(TRUE)]
Unknown == PivExtra(None, 24, None, None)

Piv0 == [events |-> {"NORMAL"}, source |-> None, found |-> <<Base>>,
         stops |-> [i \in DOMAIN Trip |-> PivPlanned(i, None, None)]]

PivStops ==
    {<<Depot>> \o <<PivPlanned(1, None, None), PivPlanned(2, None, None)>>
        \o <<Shunting, PivPlanned(3, None, None)>>,
     <<PivPlanned(1, MaxLate, "RETARD_PROJETE"), PivPlanned(2, MaxLate, "RETARD_OBSERVE"),
       Unknown, PivPlanned(3, 2, "RETARD_PROJETE")>>,
     <<PivPlanned(1, None, None), PivExtra("x", 21, None, "CREATION"),
       PivPlanned(2, None, "SUPPRESSION_PARTIELLE"), PivPlanned(3, 0, "RETARD_PROJETE")>>,
     <<PivPlanned(1, None, None), PivExtra("x", 21, None, "SUPPRESSION_PARTIELLE"),
       PivPlanned(2, 1, "RETARD_PROJETE"), PivExtra("y", 24, None, "CREATION_DETOURNEMENT"),
       PivPlanned(3, None, None)>>}

\* Without a disruption, or with several; and feeds that are refused.
MCPivFeeds ==
    {[Piv0 EXCEPT !.stops = stops, !.events = {"RETARD", "MODIFICATION_LIMITATION"}] :
        stops \in PivStops}
    \cup {[Piv0 EXCEPT !.events = {}, !.source = "PTP"],
          [Piv0 EXCEPT !.events = {"SUPPRESSION", "RETARD", "CREATION"}]}
    \cup {[Piv0 EXCEPT !.events = {"CREATION"}],
          [Piv0 EXCEPT !.events = {}],
          [Piv0 EXCEPT !.found = <<Base, Base>>],
          [Piv0 EXCEPT !.stops = <<PivPlanned(1, None, None), Depot>>],
          [Piv0 EXCEPT !.stops[2] = [PivPlanned(2, 3, "RETARD_PROJETE")
                                        EXCEPT !.event["departure"].time = None]],
          [Piv0 EXCEPT !.stops[2] = PivPlanned(2, None, "ARRET_SUPPLEMENTAIRE")]}

\* Stops that PIV adds, late from the beginning or afterwards
MCLatePivFeeds ==
    {[Piv0 EXCEPT !.stops = <<PivPlanned(1, None, None), extra, PivPlanned(2, 1, "RETARD_PROJETE"),
                              PivPlanned(3, None, None)>>] :
        extra \in {PivExtra("x", 21, None, "CREATION"),
                   PivExtra("x", 21, 1, "CREATION"),
                   PivExtra("x", 21, 1, "RETARD_PROJETE")}}

NoFeeds == {}

\* The feeds of trip_merge are among those that the theorems are about.
ASSUME PivFeeds = MCPivFeeds => FeedsAddOrDelete /\ FeedsAreDated /\ FeedsAgreeWithPlan

=============================================================================
