---------------------------- MODULE FeedHandling ----------------------------
(***************************************************************************)
(* How one real-time feed is handled: core/build_wrapper.py (wrap_build    *)
(* and handle), the tables of core/model.py it writes, and what navitia    *)
(* ends up knowing.  Several processes run it at the same time on one      *)
(* PostgreSQL database: HTTP workers (POST on a connector), celery workers *)
(* (the pollers) and the PIV worker.                                       *)
(*                                                                         *)
(* One action per interaction of the handler with something shared: a      *)
(* query, a commit, a publication.  What happens between two of them is    *)
(* local to the process and belongs to the action before.                  *)
(*                                                                         *)
(* The content of a trip is abstracted to a head (status, effect and       *)
(* message of the trip_update row) and to the lists of stops its           *)
(* stop_time_update rows amount to.  A list is inserted and removed as one *)
(* unit; which stop of it changed is the business of TripMerge.            *)
(***************************************************************************)
EXTENDS Naturals, FiniteSets

CONSTANTS
    Workers,    \* processes that may handle a feed
    LongLived,  \* those whose SQLAlchemy session outlives a feed (PIV worker)
    Trips,      \* (navitia_trip_id, start_timestamp) of vehicle journeys
    Heads,      \* values of (status, effect, message)
    StopLists,  \* values of a complete list of stops
    Rejected,   \* those of them manage_consistency() refuses
    Payloads,   \* what build_trip_updates() may make of a feed
    MaxFeeds,   \* bound: number of feeds received
    Faults,     \* which of "parse", "merge", "publish", "db", "crash" may happen
    NoTrip      \* no row, or nothing known

Feeds == 1 .. MaxFeeds

\* One stop_time_update list in the table: its value and the feed that inserted it.
Row == [feed : Feeds, stops : StopLists]

\* A TripUpdate as built from a feed: one list of stops, or none for a trip that
\* is cancelled.
Entry == [head : Heads, stops : {{}} \cup {{s} : s \in StopLists}]

\* A trip as navitia or a reader of the database sees it.
Content == [head : Heads, stops : SUBSET StopLists]

\* `entries': the trips of the feed; `twice': trips it lists two times, alike
\* (GTFS-RT matches a trip_id to the journey running now, whatever its date).
Payload == [entries : UNION {[D -> Entry] : D \in SUBSET Trips},
            twice   : SUBSET Trips]

\* What the session holds for a trip between the merge and the commit.
Change == [kind    : {"none", "insert", "update"},
           seen    : Heads \cup {NoTrip},
           head    : Heads \cup {NoTrip},
           removed : SUBSET Row,
           added   : SUBSET Row,
           link    : BOOLEAN]

NoChange == [kind |-> "none", seen |-> NoTrip, head |-> NoTrip,
             removed |-> {}, added |-> {}, link |-> FALSE]

FeedHandlingAssumption ==
    /\ LongLived \subseteq Workers
    /\ Rejected \subseteq StopLists
    /\ Payloads \subseteq Payload
    /\ MaxFeeds \in Nat
    /\ NoTrip \notin Heads
    /\ NoTrip \notin Content

ASSUME FeedHandlingAssumption

VARIABLES
    rtu,       \* table real_time_update and the rows that associate it to trips
    tripRow,   \* table trip_update (and vehicle_journey, same life): the head
    stopRows,  \* table stop_time_update, by trip
    navitia,   \* what navitia last received of each trip
    received,  \* number of feeds received so far
    pc,        \* where each process stands in wrap_build()
    feed,      \* the feed it handles
    payload,   \* the TripUpdates it built
    pending,   \* what its session will flush at the next commit
    outgoing,  \* the FULL content it read back and is about to publish
    session,   \* its session: usable, or failed and never rolled back
    \* What follows records history; no action reads it.
    fate,      \* of each feed: how its handling ended
    sent,      \* feeds whose publication reached the exchange
    wiped,     \* feeds whose failure made Kirin forget the ETag
    past,      \* every content a trip has had in the database
    writer     \* the feed that last wrote the stops of a trip

dbVars == <<rtu, tripRow, stopRows>>
localVars == <<pc, feed, payload, pending, outgoing, session>>
historyVars == <<fate, sent, wiped, past, writer>>
vars == <<rtu, tripRow, stopRows, navitia, received,
          pc, feed, payload, pending, outgoing, session,
          fate, sent, wiped, past, writer>>

Steps == {"idle", "parse", "merge", "commit", "broken", "readback", "publish",
          "finish", "invalid", "failed"}

Fates == {"none", "running", "ended", "lost", "unmarked", "crashed"}

RealTimeUpdate == [status : {"OK", "KO"},
                   error  : {"none", "invalid", "failed", "noInfo", "noNew"},
                   links  : SUBSET Trips]

NoRtu == [status |-> "OK", error |-> "none", links |-> {}]

Nothing == [entries |-> [t \in {} |-> NoTrip], twice |-> {}]

\* The rows of a trip, read as one TripUpdate.
ContentOf(t) == [head |-> tripRow[t], stops |-> {r.stops : r \in stopRows[t]}]

TypeOK ==
    /\ rtu \in [Feeds -> RealTimeUpdate]
    /\ tripRow \in [Trips -> Heads \cup {NoTrip}]
    /\ stopRows \in [Trips -> SUBSET Row]
    /\ navitia \in [Trips -> Content \cup {NoTrip}]
    /\ received \in 0 .. MaxFeeds
    /\ pc \in [Workers -> Steps]
    /\ feed \in [Workers -> 0 .. MaxFeeds]
    /\ \A w \in Workers : pc[w] # "idle" => feed[w] \in 1 .. received
    /\ payload \in [Workers -> Payloads \cup {Nothing}]
    /\ pending \in [Workers -> [Trips -> Change]]
    /\ outgoing \in [Workers -> [Trips -> Content \cup {NoTrip}]]
    /\ session \in [Workers -> {"usable", "failed"}]
    /\ fate \in [Feeds -> Fates]
    /\ sent \in SUBSET Feeds
    /\ wiped \in SUBSET Feeds
    /\ past \in [Trips -> SUBSET Content]
    /\ writer \in [Trips -> 0 .. MaxFeeds]

Init ==
    /\ rtu = [f \in Feeds |-> NoRtu]
    /\ tripRow = [t \in Trips |-> NoTrip]
    /\ stopRows = [t \in Trips |-> {}]
    /\ navitia = [t \in Trips |-> NoTrip]
    /\ received = 0
    /\ pc = [w \in Workers |-> "idle"]
    /\ feed = [w \in Workers |-> 0]
    /\ payload = [w \in Workers |-> Nothing]
    /\ pending = [w \in Workers |-> [t \in Trips |-> NoChange]]
    /\ outgoing = [w \in Workers |-> [t \in Trips |-> NoTrip]]
    /\ session = [w \in Workers |-> "usable"]
    /\ fate = [f \in Feeds |-> "none"]
    /\ sent = {}
    /\ wiped = {}
    /\ past = [t \in Trips |-> {}]
    /\ writer = [t \in Trips |-> 0]

-----------------------------------------------------------------------------

Goto(w, from, to) ==
    /\ pc[w] = from
    /\ pc' = [pc EXCEPT ![w] = to]

\* build_rt_update(): the raw feed is saved, status "OK", before it is read.
BuildRtUpdate(w) ==
    LET f == received + 1 IN
    /\ f \in Feeds
    /\ session[w] = "usable"
    /\ Goto(w, "idle", "parse")
    /\ received' = f
    /\ feed' = [feed EXCEPT ![w] = f]
    /\ rtu' = [rtu EXCEPT ![f] = NoRtu]
    /\ fate' = [fate EXCEPT ![f] = "running"]
    /\ UNCHANGED <<tripRow, stopRows, navitia, payload, pending, outgoing,
                   session, sent, wiped, past, writer>>

\* A database error leaves the session failed, until it is thrown away at the end of
\* the request or of the task, and only there.
AfterError(w) == IF w \in LongLived THEN "failed" ELSE "usable"

\* The raw feed is not saved.  The error path asks for the id of the contributor, to
\* forget the ETag, and may not get it from the failed session.
BuildRtUpdateFails(w) ==
    LET f == received + 1 IN
    /\ "db" \in Faults
    /\ f \in Feeds
    /\ pc[w] = "idle"
    /\ session[w] = "usable"
    /\ received' = f
    /\ fate' = [fate EXCEPT ![f] = "lost"]
    /\ wiped' \in {wiped, wiped \cup {f}}
    /\ session' = [session EXCEPT ![w] = AfterError(w)]
    /\ UNCHANGED <<dbVars, navitia, pc, feed, payload, pending, outgoing, sent, past,
                   writer>>

\* On a session nobody rolled back, even reading the contributor raises:
\* nothing is saved, and the message is acknowledged all the same.
ReceiveOnFailedSession(w) ==
    LET f == received + 1 IN
    /\ f \in Feeds
    /\ pc[w] = "idle"
    /\ session[w] = "failed"
    /\ received' = f
    /\ fate' = [fate EXCEPT ![f] = "lost"]
    /\ UNCHANGED <<dbVars, navitia, localVars, sent, wiped, past,
                   writer>>

\* build_trip_updates() makes TripUpdates of the feed...
BuildTripUpdates(w) ==
    /\ Goto(w, "parse", "merge")
    /\ \E p \in Payloads : payload' = [payload EXCEPT ![w] = p]
    /\ UNCHANGED <<dbVars, navitia, received, feed, pending, outgoing, session,
                   historyVars>>

\* ... or raises: InvalidArguments, or anything else (navitia unreachable).
BuildTripUpdatesFails(w) ==
    /\ "parse" \in Faults
    /\ \/ Goto(w, "parse", "invalid")
       \/ Goto(w, "parse", "failed")
    /\ UNCHANGED <<dbVars, navitia, received, feed, payload, pending, outgoing,
                   session, historyVars>>

-----------------------------------------------------------------------------

Mentioned(w) == DOMAIN payload[w].entries

RowsOf(f, stops) == {[feed |-> f, stops |-> s] : s \in stops}

\* merge() compares each stop with the first stored row that fits it.  When two
\* feeds left their rows in the table either may be that first one.
MayLookUnchanged(t, e) == \E r \in stopRows[t] : e.stops = {r.stops}
MayLookChanged(t, e) ==
    \/ e.stops = {}
    \/ stopRows[t] = {}
    \/ \E r \in stopRows[t] : e.stops # {r.stops}

Consistent(e) == e.stops \cap Rejected = {}

\* A trip seen for the first time: a new object, which joins the session only
\* through its link to the RealTimeUpdate.
FirstTime(w, e) ==
    IF Consistent(e)
    THEN [kind |-> "insert", seen |-> NoTrip, head |-> e.head, removed |-> {},
          added |-> RowsOf(feed[w], e.stops), link |-> TRUE]
    ELSE NoChange

\* Seeded fault: a cancellation is not linked, so it is never sent.
AgainCancelNotLinked(w, t, e, unchanged) ==
    [kind    |-> "update",
     seen    |-> tripRow[t],
     head    |-> e.head,
     removed |-> IF unchanged THEN {} ELSE stopRows[t],
     added   |-> IF unchanged THEN {} ELSE RowsOf(feed[w], e.stops),
     link    |-> e.stops # {} /\ ~unchanged /\ Consistent(e)]

\* A trip already stored: merge() writes the head of the stored object at once,
\* and its stops if they changed, whether the result is kept or not.
Again(w, t, e, unchanged) ==
    [kind    |-> "update",
     seen    |-> tripRow[t],
     head    |-> e.head,
     removed |-> IF unchanged THEN {} ELSE stopRows[t],
     added   |-> IF unchanged THEN {} ELSE RowsOf(feed[w], e.stops),
     link    |-> ~unchanged /\ Consistent(e)]

MergeTrip(w, t, unchanged) ==
    LET e == payload[w].entries[t]
    IN  IF tripRow[t] = NoTrip THEN FirstTime(w, e) ELSE Again(w, t, e, unchanged)

MergedTrips(w, trips, unchanged) ==
    [t \in Trips |-> IF t \in trips THEN MergeTrip(w, t, t \in unchanged) ELSE NoChange]

\* `unchanged' are those of the stored trips that merge() finds no news of.
MayLook(w, trips, unchanged) ==
    \A t \in trips : tripRow[t] # NoTrip =>
       IF t \in unchanged THEN MayLookUnchanged(t, payload[w].entries[t])
                          ELSE MayLookChanged(t, payload[w].entries[t])

\* handle(), up to the commit: one query for the stored trips, then the merge.
FindAndMerge(w) ==
    /\ Goto(w, "merge", "commit")
    /\ \E unchanged \in SUBSET Mentioned(w) :
          /\ MayLook(w, Mentioned(w), unchanged)
          /\ pending' = [pending EXCEPT ![w] = MergedTrips(w, Mentioned(w), unchanged)]
    /\ UNCHANGED <<dbVars, navitia, received, feed, payload, outgoing, session,
                   historyVars>>

\* merge() raises at one trip that is not cancelled, of which a stored object has its
\* new head by then; the trips before it are merged, and linked.
FindAndMergeFails(w) ==
    /\ "merge" \in Faults
    /\ Goto(w, "merge", "broken")
    /\ \E at \in Mentioned(w), done \in SUBSET Mentioned(w) :
       \E unchanged \in SUBSET done :
          /\ payload[w].entries[at].stops # {}
          /\ at \notin done
          /\ MayLook(w, done, unchanged)
          /\ pending' = [pending EXCEPT ![w] =
                MergedTrips(w, done \cup {t \in {at} : tripRow[t] # NoTrip},
                            unchanged \cup {at})]
    /\ UNCHANGED <<dbVars, navitia, received, feed, payload, outgoing, session,
                   historyVars>>

-----------------------------------------------------------------------------

Inserted(w) == {t \in Trips : pending[w][t].kind = "insert"}

\* vehicle_journey is unique by trip and start: an insertion fails if another
\* process stored the trip first, or if the feed lists it twice.
Conflict(w) ==
    \E t \in Inserted(w) : tripRow[t] # NoTrip \/ t \in payload[w].twice

\* An UPDATE carries only the columns that changed since they were loaded.
NewHead(w, t) ==
    IF pending[w][t].head = pending[w][t].seen THEN tripRow[t]
                                               ELSE pending[w][t].head

\* Seeded fault: the replaced rows are not deleted.
NewRowsNoDelete(w, t) == stopRows[t] \cup pending[w][t].added

\* A DELETE names the rows that were loaded: rows another process inserted
\* since then stay.
NewRows(w, t) == (stopRows[t] \ pending[w][t].removed) \cup pending[w][t].added

WritesStops(w, t) == pending[w][t].link \/ pending[w][t].added # {}

\* An empty feed was set KO by build_trip_updates(), saved by this commit only.
CommittedRtu(w) ==
    LET empty == Mentioned(w) = {} IN
    [status |-> IF empty THEN "KO" ELSE "OK",
     error  |-> IF empty THEN "noInfo" ELSE "none",
     links  |-> {t \in Trips : pending[w][t].link}]

\* What the session holds of the trips is written.
Flush(w) ==
    /\ ~Conflict(w)
    /\ tripRow' = [t \in Trips |-> NewHead(w, t)]
    /\ stopRows' = [t \in Trips |-> NewRows(w, t)]
    /\ past' = [t \in Trips |-> IF NewHead(w, t) = NoTrip THEN past[t]
                                ELSE past[t] \cup {ContentOf(t)'}]
    /\ writer' = [t \in Trips |-> IF WritesStops(w, t) THEN feed[w] ELSE writer[t]]

\* db_commit(real_time_update)
Commit(w) ==
    /\ Goto(w, "commit", "readback")
    /\ Flush(w)
    /\ rtu' = [rtu EXCEPT ![feed[w]] = CommittedRtu(w)]
    /\ UNCHANGED <<navitia, received, feed, payload, pending, outgoing, session,
                   fate, sent, wiped>>

\* The process forgets the feed; `s' is what its session becomes.
LeaveFeed(w, s) ==
    /\ pc' = [pc EXCEPT ![w] = "idle"]
    /\ feed' = [feed EXCEPT ![w] = 0]
    /\ payload' = [payload EXCEPT ![w] = Nothing]
    /\ pending' = [pending EXCEPT ![w] = [t \in Trips |-> NoChange]]
    /\ outgoing' = [outgoing EXCEPT ![w] = [t \in Trips |-> NoTrip]]
    /\ session' = [session EXCEPT ![w] = s]

\* Seeded fault: one commit per trip, the trips before the conflict stay stored.
CommitFailsPartly(w) ==
    /\ pc[w] = "commit"
    /\ Conflict(w)
    /\ stopRows' = [t \in Trips |-> IF t \in Inserted(w) /\ tripRow[t] # NoTrip
                                    THEN stopRows[t] ELSE NewRows(w, t)]
    /\ LeaveFeed(w, AfterError(w))
    /\ fate' = [fate EXCEPT ![feed[w]] = "lost"]
    /\ UNCHANGED <<rtu, tripRow, navitia, received, sent, wiped, past, writer>>

\* The flush fails, and with it the session: the error path of wrap_build()
\* raises as soon as it touches the RealTimeUpdate, whose row stays "OK".  If it is
\* this path that commits, the ETag is forgotten already.
CommitFails(w) ==
    /\ pc[w] \in {"commit", "broken"}
    /\ Conflict(w) \/ "db" \in Faults
    /\ wiped' = IF pc[w] = "broken" THEN wiped \cup {feed[w]} ELSE wiped
    /\ LeaveFeed(w, AfterError(w))
    /\ fate' = [fate EXCEPT ![feed[w]] = "lost"]
    /\ UNCHANGED <<dbVars, navitia, received, sent, past, writer>>

\* Seeded fault: the merged objects are published as they are in memory.
ReadBackFromMemory(w) ==
    /\ Goto(w, "readback", "publish")
    /\ outgoing' = [outgoing EXCEPT ![w] = [t \in Trips |->
          IF t \in rtu[feed[w]].links
          THEN [head |-> pending[w][t].head,
                stops |-> {r.stops : r \in pending[w][t].added}]
          ELSE NoTrip]]
    /\ UNCHANGED <<dbVars, navitia, received, feed, payload, pending, session,
                   historyVars>>

\* Seeded fault: the trip_update row is not read again after the commit.
ReadBackOldHead(w) ==
    /\ Goto(w, "readback", "publish")
    /\ outgoing' = [outgoing EXCEPT ![w] = [t \in Trips |->
          IF t \in rtu[feed[w]].links
          THEN [ContentOf(t) EXCEPT !.head = pending[w][t].seen]
          ELSE NoTrip]]
    /\ UNCHANGED <<dbVars, navitia, received, feed, payload, pending, session,
                   historyVars>>

\* convert_to_gtfsrt(real_time_update.trip_updates): a commit expires what was
\* loaded, so the linked trips are read again.
ReadBack(w) ==
    /\ Goto(w, "readback", "publish")
    /\ outgoing' = [outgoing EXCEPT ![w] =
          [t \in Trips |-> IF t \in rtu[feed[w]].links THEN ContentOf(t) ELSE NoTrip]]
    /\ UNCHANGED <<dbVars, navitia, received, feed, payload, pending, session,
                   historyVars>>

\* A trip of the feed replaces what navitia knew of that trip.
Deliver(w) ==
    /\ navitia' = [t \in Trips |-> IF outgoing[w][t] = NoTrip THEN navitia[t]
                                                              ELSE outgoing[w][t]]
    /\ sent' = sent \cup {feed[w]}

Publish(w) ==
    /\ Goto(w, "publish", "finish")
    /\ Deliver(w)
    /\ UNCHANGED <<dbVars, received, feed, payload, pending, outgoing, session,
                   fate, wiped, past, writer>>

\* Three attempts failed.  Without publisher confirms one may have got through.
PublishFails(w) ==
    /\ "publish" \in Faults
    /\ Goto(w, "publish", "failed")
    /\ \/ Deliver(w)
       \/ UNCHANGED <<navitia, sent>>
    /\ UNCHANGED <<dbVars, received, feed, payload, pending, outgoing, session,
                   fate, wiped, past, writer>>

\* set_rtu_status_ko(), but for the ETag
Ko(r, e) == [r EXCEPT !.status = "KO", !.error = e]

\* A feed that contributed to no trip is set KO, to be processed no more.
Finish(w) ==
    LET f == feed[w] IN
    /\ pc[w] = "finish"
    /\ rtu' = IF rtu[f].links = {} /\ rtu[f].status = "OK"
              THEN [rtu EXCEPT ![f] = Ko(rtu[f], "noNew")]
              ELSE rtu
    /\ fate' = [fate EXCEPT ![f] = "ended"]
    /\ LeaveFeed(w, "usable")
    /\ UNCHANGED <<tripRow, stopRows, navitia, received, sent, wiped, past,
                   writer>>

\* The error path after merge() raised commits what was merged, and sends none of it.
CommitBroken(w) ==
    /\ pc[w] = "broken"
    /\ Flush(w)
    /\ rtu' = [rtu EXCEPT ![feed[w]] = Ko(CommittedRtu(w), "failed")]
    /\ wiped' = wiped \cup {feed[w]}
    /\ fate' = [fate EXCEPT ![feed[w]] = "ended"]
    /\ LeaveFeed(w, "usable")
    /\ UNCHANGED <<navitia, received, sent>>

\* Seeded fault: the error path uses the poller's transient status.
SetKoPending(w) ==
    /\ pc[w] \in {"invalid", "failed"}
    /\ rtu' = [rtu EXCEPT ![feed[w]].status = "pending"]
    /\ fate' = [fate EXCEPT ![feed[w]] = "ended"]
    /\ LeaveFeed(w, "usable")
    /\ UNCHANGED <<tripRow, stopRows, navitia, received, sent, wiped, past, writer>>

\* Seeded fault: the ETag is remembered whatever the error.
SetKoKeepingETag(w) ==
    /\ pc[w] \in {"invalid", "failed"}
    /\ rtu' = [rtu EXCEPT ![feed[w]].status = "KO"]
    /\ fate' = [fate EXCEPT ![feed[w]] = "ended"]
    /\ LeaveFeed(w, "usable")
    /\ UNCHANGED <<tripRow, stopRows, navitia, received, sent, wiped, past, writer>>

\* Seeded fault: after an error the same feed is handled again at once.
SetKoRetrying(w) ==
    /\ pc[w] \in {"invalid", "failed"}
    /\ pc' = [pc EXCEPT ![w] = "parse"]
    /\ UNCHANGED <<dbVars, navitia, received, feed, payload, pending, outgoing,
                   session, historyVars>>

\* The error path of wrap_build(): KO, and unless the feed itself is wrong the
\* ETag is forgotten so that the same feed is processed again.
SetKo(w) ==
    LET f == feed[w] IN
    /\ pc[w] \in {"invalid", "failed"}
    /\ rtu' = [rtu EXCEPT ![f] = Ko(rtu[f], pc[w])]
    /\ wiped' = IF pc[w] = "failed" THEN wiped \cup {f} ELSE wiped
    /\ fate' = [fate EXCEPT ![f] = "ended"]
    /\ LeaveFeed(w, "usable")
    /\ UNCHANGED <<tripRow, stopRows, navitia, received, sent, past, writer>>

\* A query fails, or the commit of the verdict: the row stays "OK", and the ETag is
\* forgotten if the error path still had the RealTimeUpdate.
DatabaseFails(w) ==
    LET f == feed[w] IN
    /\ "db" \in Faults
    /\ \/ pc[w] \in {"parse", "merge", "readback", "invalid", "failed"}
       \/ pc[w] = "finish" /\ rtu[f].links = {} /\ rtu[f].status = "OK"
    /\ \/ wiped' = wiped
       \/ pc[w] # "invalid" /\ wiped' = wiped \cup {f}
    /\ fate' = [fate EXCEPT ![f] = "unmarked"]
    /\ LeaveFeed(w, AfterError(w))
    /\ UNCHANGED <<dbVars, navitia, received, sent, past, writer>>

\* The process dies, and is started again by its supervisor.
Crash(w) ==
    /\ "crash" \in Faults
    /\ pc[w] # "idle" \/ session[w] = "failed"
    /\ fate' = [f \in Feeds |-> IF f = feed[w] THEN "crashed" ELSE fate[f]]
    /\ LeaveFeed(w, "usable")
    /\ UNCHANGED <<dbVars, navitia, received, sent, wiped, past,
                   writer>>

-----------------------------------------------------------------------------

\* What the process does next, once it has a feed.
Advance(w) ==
    \/ BuildTripUpdates(w)
    \/ BuildTripUpdatesFails(w)
    \/ FindAndMerge(w)
    \/ FindAndMergeFails(w)
    \/ Commit(w)
    \/ CommitBroken(w)
    \/ CommitFails(w)
    \/ ReadBack(w)
    \/ Publish(w)
    \/ PublishFails(w)
    \/ Finish(w)
    \/ SetKo(w)
    \/ DatabaseFails(w)

\* Every feed of the bounded input was dealt with.
AllReceived ==
    /\ received = MaxFeeds
    /\ \A w \in Workers : pc[w] = "idle"
    /\ UNCHANGED vars

Next ==
    \/ \E w \in Workers :
          \/ BuildRtUpdate(w)
          \/ BuildRtUpdateFails(w)
          \/ ReceiveOnFailedSession(w)
          \/ Advance(w)
          \/ Crash(w)
    \/ AllReceived

\* A process that has a feed is not suspended for ever: it waits for the
\* database and for navitia with timeouts, and for nothing else.
Fairness == \A w \in Workers : WF_vars(Advance(w))

Spec == Init /\ [][Next]_vars
FairSpec == Spec /\ Fairness

-----------------------------------------------------------------------------
(***************************************************************************)
(* Properties, whatever the number of processes.                           *)
(***************************************************************************)

\* Navitia is only ever given contents the trip really had in the database,
\* even when other processes write it between this process's commit and its
\* publication (handle() publishes what it reads back, not what it merged).
NavitiaHoldsCommittedTrip ==
    \A t \in Trips :
       /\ navitia[t] \in past[t] \cup {NoTrip}
       /\ \A w \in Workers : outgoing[w][t] \in past[t] \cup {NoTrip}

\* The verdict left on a RealTimeUpdate whose handling ran to its end is right:
\* OK means that it changed a trip and that navitia was told; KO although it
\* changed a trip means that the same feed will be accepted again.
VerdictMatchesDelivery ==
    \A f \in Feeds : fate[f] = "ended" =>
       /\ rtu[f].status = "OK" => rtu[f].links # {} /\ f \in sent
       /\ rtu[f].status = "KO" /\ rtu[f].links # {} => f \in wiped

\* A feed is stored whole or not at all: one whose commit failed left no row,
\* linked no trip and told navitia nothing.
FailedCommitLeavesNothing ==
    \A f \in Feeds : fate[f] = "lost" =>
       /\ rtu[f].links = {}
       /\ f \notin sent
       /\ \A t \in Trips : \A r \in stopRows[t] : r.feed # f

\* A process that took a feed gets to the end of wrap_build(), whatever fails
\* on the way: no feed blocks the ones behind it.
EveryHandlingEnds == \A w \in Workers : pc[w] # "idle" ~> pc[w] = "idle"

(***************************************************************************)
(* What the steps rely on from one to the next.                            *)
(***************************************************************************)

\* A change made ready for a trip fits its row at any later time: rows are
\* never removed here, and only an insertion has no row behind it.
Fits(c, t) ==
    /\ c.kind = "none" => c.head = NoTrip /\ c.seen = NoTrip /\ ~c.link
    /\ c.kind = "insert" => c.head # NoTrip /\ c.seen = NoTrip
    /\ c.kind = "update" => c.head # NoTrip /\ c.seen # NoTrip /\ tripRow[t] # NoTrip

PendingFits == \A w \in Workers, t \in Trips : Fits(pending[w][t], t)

\* A RealTimeUpdate is linked to stored trips only.
LinkedIsStored == \A f \in Feeds : \A t \in rtu[f].links : tripRow[t] # NoTrip

StoredIsPast ==
    \A t \in Trips : tripRow[t] # NoTrip => ContentOf(t) \in past[t]

\* The inductive invariant behind TypeOK and NavitiaHoldsCommittedTrip.
DeliveryInv ==
    /\ TypeOK
    /\ PendingFits
    /\ LinkedIsStored
    /\ StoredIsPast
    /\ NavitiaHoldsCommittedTrip

\* Nothing of feed f shows outside the process that handles it.
NoTrace(f) ==
    /\ rtu[f].links = {}
    /\ f \notin sent
    /\ \A t \in Trips : \A r \in stopRows[t] : r.feed # f

\* A feed being handled is handled by one process, which has shown nothing of it
\* until its commit, and has sent it when it comes to the verdict.
Handling(w) ==
    pc[w] # "idle" =>
       /\ fate[feed[w]] = "running"
       /\ \A v \in Workers : pc[v] # "idle" /\ feed[v] = feed[w] => v = w
       /\ pc[w] \in {"parse", "merge", "commit", "broken", "invalid"} => NoTrace(feed[w])
       /\ rtu[feed[w]].status = "KO" => rtu[feed[w]].links = {}
       /\ pc[w] = "finish" => feed[w] \in sent

\* What a session is about to flush belongs to the feed; before the merge it has
\* nothing to flush, between two feeds it has no feed.
PendingIsOwn ==
    \A w \in Workers :
       /\ pc[w] = "idle" => feed[w] = 0
       /\ \A t \in Trips :
             /\ pc[w] \in {"idle", "parse", "merge"} => pending[w][t] = NoChange
             /\ pending[w][t].link => t \in Mentioned(w)
             /\ \A r \in pending[w][t].added : r.feed = feed[w]

\* A feed that was not received yet shows nowhere.
FreshFeeds == \A f \in Feeds : f > received => fate[f] = "none" /\ NoTrace(f)

\* The inductive invariant behind VerdictMatchesDelivery and
\* FailedCommitLeavesNothing.
HandlingInv ==
    /\ DeliveryInv
    /\ PendingIsOwn
    /\ FreshFeeds
    /\ \A w \in Workers : Handling(w)
    /\ VerdictMatchesDelivery
    /\ FailedCommitLeavesNothing

(***************************************************************************)
(* Properties of a single process, feeds being handled one after another.  *)
(***************************************************************************)

AtRest == \A w \in Workers : pc[w] = "idle"

\* The stored stops of a trip are those of one feed, not of several
\* (core/model.py: a TripUpdate is a COMPLETE trip).
TripIsOneVersion == \A t \in Trips : Cardinality(stopRows[t]) <= 1

\* Between two feeds navitia has the stops the database has, except where the
\* feed that last wrote them was set KO with or after its commit, or its process or
\* the database failed before that, or manage_consistency() refused what had been
\* stored.
StalenessIsExplained ==
    AtRest => \A t \in Trips : tripRow[t] # NoTrip =>
       \/ navitia[t] # NoTrip /\ navitia[t].stops = ContentOf(t).stops
       \/ rtu[writer[t]].status = "KO"
       \/ fate[writer[t]] \in {"crashed", "unmarked"}
       \/ ContentOf(t).stops \cap Rejected # {}

StoredTrips == [t \in Trips |-> IF tripRow[t] = NoTrip THEN NoTrip ELSE ContentOf(t)]

\* Handled one after another, feeds keep the promise of NavitiaContract: what
\* navitia knows of a trip changes only to what the database holds of it then.
Contract == INSTANCE NavitiaContract
    WITH Contents <- Content,
         Unknown  <- NoTrip,
         stored   <- StoredTrips,
         known    <- navitia

ImplementsContract == Contract!Spec

\* What a lone process is about to publish is what the database holds.
OutgoingIsStored ==
    \A w \in Workers, t \in Trips :
       pc[w] = "publish" /\ outgoing[w][t] # NoTrip =>
          tripRow[t] # NoTrip /\ outgoing[w][t] = ContentOf(t)

=============================================================================
