# A verification of Kirin in TLA+

Kirin receives real-time information on trips from contributors (feeds), merges
it with the base schedule of navitia and with what it already knows, stores the
result in PostgreSQL and publishes it on RabbitMQ, where the krakens of navitia
read it. This directory specifies that program: TLA+ modules translated from
the Python source, configurations with which TLC explores small instances of
them, and theorems that TLAPS proves for every instance. Line numbers are those
of the commit this directory stands beside.

- [Inventory](#inventory): the parts of Kirin, their state, what is hard in them
- [Modules](#modules): what each module models, and how
- [Runs](#runs): what is model-checked, within which bounds, under which fairness
- [Disagreements](#disagreements): where the code does not do what its documents say
- [Proofs](#proofs): what is proved, from what, along which argument
- [Plan](#plan): what comes next
- [Not modelled](#not-modelled)

## Inventory

| Component | State | Operations | Hard behaviours | What makes it correct |
|---|---|---|---|---|
| Feed handling, `core/build_wrapper.py` | rows of the database, the SQLAlchemy session | `wrap_build`, `handle`, `publish` | several processes on one trip; failure between commit, publication and verdict; a failed session | navitia gets committed trips, the verdict (OK/KO) is right, a failed feed leaves nothing |
| Trip merge, `core/merge_utils.py`, `manage_consistency` | the stored trip | `merge`, `manage_consistency` | dates guessed from times of day, added and deleted stops, refused feeds, repeats | times never go back, are those announced, delays account for them; a repeat is no news |
| GTFS-RT poller, `gtfs_rt/tasks.py`, `utils.py` | redis lock, last call, ETag; `real_time_update` rows | `gtfs_poller`, error rows, pokes | lock expiry, ETag stored before handling, HEAD/GET race, redis failure and retry, crash | one poll at a time, no feed skipped untreated, no old feed over a new one, true rows |
| GTFS-RT builder, `gtfs_rt/model_maker.py` | none (queries navitia) | `build_rt_update`, `build_trip_updates` | the day is guessed from the time of the feed, stops are matched from the end | a delay falls on the stop and the day it is of |
| COTS builder, `cots/model_maker.py` | reads the stored trips | `build_trip_updates` | action on a trip chosen from the database, then merged | only legal changes of a trip's life |
| COTS cause messages, `cots/message_handler.py` | token, cache, circuit breaker | `get_message` | expiry, failures, staleness | a feed never waits or fails for a message |
| PIV builder, `piv/model_maker.py` | none (queries navitia) | `build_trip_updates` | stops filtered at both ends, a date and a delay of each event | what is merged is what the feed says |
| PIV worker, `command/piv_worker.py` | AMQP connection, copy of its settings, long-lived session | `process_message`, `on_iteration` | a session nobody rolls back, contributor changed meanwhile | each message handled or known lost |
| Publication, `rabbitmq_handler.py`, `core/populate_pb.py` | AMQP connection | `publish`, full reload (`RTReloader`) | lost or doubled publication, full feed against incremental ones | navitia ends with what is stored |
| Periodic tasks and purges, `tasks.py`, `command/` | redis locks, one transaction | pollers, `purge_trip_update`, `purge_rt_update`, `purge_contributor` | a purge while a feed is merged, cascades of the session, a purge that dies; order of the two purges | old trips go and no others, trips keep their feeds, a contributor can go |
| Contributors, `resources/contributors.py` | table `contributor` | GET, POST, PUT, DELETE | change while a poll uses it | a deactivated contributor is not polled |
| Status, health, index, `resources/` | none | GET | none | `/status` tells the truth |
| Application set-up | configuration | start-up | none | - |

Feeds reach `wrap_build` along three paths: HTTP POST on a connector (COTS, PIV,
GTFS-RT), celery pollers (GTFS-RT) and the PIV worker. All of them share the
database; nothing locks a trip. The poller alone is serialised, by contributor,
through a redis lock. After `wrap_build` the only link with navitia is the
RabbitMQ exchange, in one direction.

`PROJECT.json` lists, under `hazards`, each place where the code can go wrong in
a way that tests hardly reach, with the properties that watch it.

## Modules

### FeedHandling (with NavitiaContract)

The core. Processes (`Workers`) take feeds and run `wrap_build()`; one action per
interaction with something shared. The order of the actions is the order of the
calls in the code:

| Step (`pc`) | Action | Code |
|---|---|---|
| idle | `BuildRtUpdate`, `BuildRtUpdateFails` | `builder.build_rt_update()`: the raw feed is committed, status OK |
| idle | `ReceiveOnFailedSession` | the PIV worker takes a message on a session that was never rolled back |
| parse | `BuildTripUpdates`, `BuildTripUpdatesFails` | `builder.build_trip_updates()` |
| merge | `FindAndMerge`, `FindAndMergeFails` | `handle()`: `find_by_dated_vjs`, `merge`, `manage_consistency`, the links; `merge` may raise at one of the trips |
| commit | `Commit`, `CommitFails` | `db_commit(real_time_update)` |
| broken | `CommitBroken`, `CommitFails` | the `except` branch of `wrap_build()` after `merge` raised: one commit for the verdict KO and for what was merged (`Flush`) |
| readback | `ReadBack` | `convert_to_gtfsrt`: the session was expired by the commit, the trips are read again |
| publish | `Publish`, `PublishFails` | `publish()`, the three attempts of the handler |
| finish | `Finish` | the end of `handle()`: no trip linked, KO |
| invalid, failed | `SetKo` | the `except` branch of `wrap_build()` |
| any but commit, broken | `DatabaseFails` | a query, or the commit of a verdict, fails: the row stays OK |
| any | `Crash` | the process dies and is started again |

`Faults` says which of the failures may happen: "parse", "merge" (`merge` raises),
"publish", "db" (any query or commit) and "crash".

State: `rtu` (table `real_time_update` and its association table), `tripRow`
(`trip_update` with `vehicle_journey`), `stopRows` (`stop_time_update`),
`navitia` (what the krakens received of each trip), and for each process its
position, feed, parsed payload, pending changes, content about to be published
and the state of its session. A database error leaves the session of a `LongLived`
process failed (`AfterError`); those of the others are thrown away at the end of the
request. `fate`, `sent`, `wiped`, `past`, `writer` are
history variables that no action reads.

Abstractions: the content of a trip is a head (status, effect, message) and a
complete list of stops as one value; a TripUpdate has one list of stops, or none
(`Entry`), and only the rows of a trip can come to hold two. SQLAlchemy writes what it knows to have
changed: an UPDATE carries changed columns only (`NewHead`), a DELETE names the
rows that were loaded (`NewRows`), an INSERT is checked by the unique constraint
(`Conflict`). A process whose session outlives the feed (`LongLived`, the PIV
worker) keeps a failed session: no code of Kirin calls `rollback()`.

`NavitiaContract` is the abstract specification, from
`documentation/kirin2nav.md:12-14`: known trips change only to what is stored at
that moment, all of it, and the trips not mentioned stay. `FeedHandling` refines
it when feeds are handled one at a time (the mapping is `Contract`, the property
`ImplementsContract`). With several processes it does not, since a trip may be
stored again between the read-back and the publication: that case has the weaker
`NavitiaHoldsCommittedTrip`.

### GtfsPoller

`gtfs_poller()` for one contributor, run by several celery processes. Redis holds
the lock, the date of the last poll (a boolean: less than an interval ago) and the
ETag; PostgreSQL the rows of `real_time_update`. One action per request to the
provider, to redis, to navitia, or commit. The feed handling is reduced to its outcomes
(`HandleChanges`, `HandleNothing`, `HandleFails`, `HandleLost`). Faults: an HTTP
error of the provider, navitia failing when the constructor of the builder asks for its
publication date, a failing handling, a commit that fails and takes the error
path with it (`conflict`), redis or the database failing on one request, a crash.
The constructor (gtfs_rt/tasks.py:174) stands between the ETag and `wrap_build()`, outside
of any `try`: when navitia fails there, the poll ends with the ETag in redis and no row
(`AskPublicationDateFails`). That feed joins those given up, as the one of a task that
died there does.
The fault `slow` (a poll longer than the lock, by default 5 minutes) may be given
to the model but is not among the assumptions of the run: with it the lock excludes
nothing, which is what an expiring lock means.

### TripMerge, TripFeeds, Circulation, GtfsBuilder, PivBuilder

From a feed to the stored trip, for one trip and the feeds of all connectors.

- `Circulation` is a journey of navitia, which has times of day only, on a day
  (`VehicleJourney.__init__`).
- `GtfsBuilder` makes a TripUpdate of an entity of a GTFS-RT feed: the journey and the
  day it speaks of are guessed from the timestamp (`Vjs`), its stops matched from the end
  (`IsEnding`, `Place`).
- `PivBuilder` does it for a PIV feed: supported or not, the stops between the first
  where travellers hop on and the last where they hop off (`InterestingStops`), the
  journey within an hour of the start (`HasVj`), the status, time and delay of each event,
  the order of the times (`IsConsistent`, which lets a stop that is not left be followed
  by one at any time), unknown stops skipped.
- `TripMerge` is `merge()` and `manage_consistency()` as operators on sequences, and
  `Handle`, what `handle()` does of it with the trip: `stored` (in database), `told`
  (what navitia received), `verdict`. Dates are numbers, times of day their remainder
  by `Day`; navitia's base schedule is `Trip` less its dates, so that the code has to
  guess them back (`IsPastMidnight`, `Tick`). Each of the two loops is a function of the
  number of turns done (`Turns`, `Adjusting`); a stop that merge() passes over is None.
- `TripFeeds` is the state machine: any feed of any connector, built, then handled
  (`HandleFeed`), or refused by its builder (`RefuseFeed`). The feeds of COTS come built
  (see CotsTrip) but for `IsConsistent`, the check of the COTS builder that the feed's own
  times do not go back.

`Says` states what a feed says, from the feed alone: `FeedIsHonoured` compares the
stored trip with it (`HonoursFeed`), and `DelaysExplainTimes` with the true dates of the
schedule, which the code does not have. A stop that the feed deletes and that neither the
schedule nor the database has may be missing: merge() passes over it, and if it is the last
of the feed nothing shows it. Messages, companies and the effect of the trip are left out.

A status is one of six. `added_for_detour` and `deleted_for_detour` say the same of a stop as
`add` and `delete` do (`IsAdded`, `IsDeleted`), but `is_new_stop_event_valid()` compares the
names: a stop outside the schedule that is served because a feed added it, and that comes as
added for a detour, is no change of what is served and no status sent again, so it is passed
over. `IsRenamed` is this case. Two properties except the step of a feed that renames a stop
(`Renames`) and no other, which makes them properties of steps: `FeedIsHonoured` and
`RepeatIsNoNews`. The feeds of `trip_merge` do rename stops, and the next feeds meet what
became of it. `LastIsHonoured` is `FeedIsHonoured` without the exception, of which
`piv_added_late` shows that it fails for another reason, with feeds that rename none.

### CotsTrip

What a COTS feed does to the life of a train. A feed is handled in two steps,
because two requests may come between each other's: `Build(w, f)` is
`build_trip_updates()` (the stored row is looked up, the action chosen or refused,
navitia queried, the stops filtered), `Handle(w)` is `handle()` (the rows found by
their exact key are merged, committed and published), or `HandleFails(w)` where
`merge()` raises. `stored` and `told` are the
rows and what navitia has, by trip id and start; `plan` and `action` what the
process decided at `Build`. Three variables are history: `overtaken` (another feed was
handled since the process read the database), `origin` (the feed that made the row
of an added trip) and `unsent` (the trips of a feed that failed at another trip: the
error path commits them and sends nothing). A feed may move the start of an added train; its row is then found
by the period, and another one is made for the new start. The properties say for which
feeds this does no harm, and `origin` tells those rows apart.

| Operator | Code |
|---|---|
| `InterestingPoints`, `Dating`, `HasPeriod` | the filter of the points and the period of the train |
| `ActionOnTrip`, `IsForbidden` | `_get_action_on_trip()` |
| `NavitiaVjs`, `DatedVjs`, `IsPresent`, `AddedVjs`, `IsNotFound` | `_get_navitia_vjs()` |
| `MakeTripUpdate`, `Statuses`, `EffectOf` | `_make_trip_update()` and the effects of `core/types.py` |
| `FindStop`, `IsNewEventValid`, `IsKept`, `Merged` | the stops `merge()` passes over: `find_stop()`, `is_new_stop_event_valid()` |
| `IsAccepted` | `manage_consistency()`: no gap in the order, a first stop with times |
| `Raises`, `BrokenRow` | where `merge()` asks for times the stored stop does not have |
| `IsNews`, `IsSent`, `MergedRow` | what `merge()` and `handle()` store and link |

A stop that navitia does not have goes through `is_new_stop_event_valid()`, and a trip that
COTS adds has no other. One that is passed over leaves a gap in the orders of the rest
(a row has its stops by their order), which `manage_consistency()` refuses unless it was the
last: the row is committed, for the session knows it, and is not linked, hence not sent
(`IsSent`). A row that is not linked is kept only if it was there (`MergedRow`). Stored stops
behind those of the feed do not count as news (merge_utils.py:471-475): `IsNews` compares
prefixes, and a feed that is one leaves the stops as they are. Left out: the JSON, messages
and companies, the times that `merge()` computes (in TripMerge), failures of commit and
publication (in FeedHandling).

### RealtimeReload

How a kraken catches up. `RTReloader` answers requests for a FULL feed from a queue
with prefetch 1 and late acknowledgement: `ReadFull` reads the database, `SendFull`
publishes on the queue the request names, `SendFullFails` is the exhausted retry or
the death of the process, after which the request comes again. The feed handlers of
FeedHandling are reduced to `Commit`, `ReadBack`, `Publish` and `PublishFails`, one
feed at a time in each process; nothing keeps two processes off one trip. The content of a
trip is the number of the feed that wrote it. Two feeds that are handled at once may be
published in the other order than they were committed, and then a kraken stays on the older
content until the next feed of the trip: `raced` has the trips this may have happened to
(the last feed of the trip was committed while another one that changed it was not
published), and the two safety properties except them. They are about what is left, the
full feed against the incremental ones. The kraken (`KrakenStarts`, `KrakenLoads`, `KrakenApplies`) is external: it
binds its queue to the exchange, asks, loads the answer, and then reads its queue.

### PivWorker

`piv_worker()` and `PivWorker`, with the API that changes its contributor. The state
of the process is its step `pc`, the local variables `chosen` (contributor) and
`listed` (contributors), what its session has loaded of them (`cached`), whether that
session is `failed`, the settings it was built with (`held`), `due`, `stop` and the
connection (`alive`). One action per call: `Starts`/`Refuses`/`NoContributor`/
`ReadFails` are one turn of the loop, `Enter` and `EnterFails` are `__enter__()`,
`ChecksConfig` and `CheckFails` are `on_iteration()`, `TakesMessage`,
`HandlesMessage`, `HandlingFails` and `Ack` are `process_message()`; `Ends` is the
`finally` of the loop. `Post`, `Put` and `Delete` are the API. The loop of kombu
(`NoMessage`, `Stops`, `LosesConnection`, `Reconnects`) and RabbitMQ are external:
`on_iteration()` is called before each wait for a message, and not at all while a lost
connection is sought.

### Purge

The nightly tasks of `tasks.py` on the rows of one contributor, against processes that
handle feeds. The purge of trips is one transaction of many statements, each an action:
`LoadTrips` (`find_by_contributor_period`), then for each trip `UnlinkTrip` (the
associations are deleted) and `DeleteTrip` (`session.delete`), at last `CommitPurge`, or
`PurgeFails` at any point. `PurgeFeeds` is one statement. `NextDay` is celery beat, and
`Deactivate` and `PurgeContributor` are the end of a contributor. A feed is reduced to
`Receive` (the raw feed committed, the trips loaded), `CommitFeed` and `DropFeed`.

Both relationships between trips and feeds have `cascade="all"` (core/model.py:440, 442),
so `session.delete()` of a trip deletes the feeds still associated to it and their trips:
`Reached`. The associations that the purge found are gone by then, its own statement
deleted them; one that a feed committed in between is not. The deletions are sent to the
database by the query of the next trip (autoflush) or the commit; from then on a handling
that touches these rows waits for the purge (`flushed`). Two purges of one kind exclude
one another: the lock of one that died has expired by the next night. Days after `MaxDay`
are all alike, and feeds are received so early that they grow old (bounds).

## Runs

| Run | Question | Result |
|---|---|---|
| `feed_serial` | One long-lived process, three feeds among ten, all failures: whole trips, explained staleness, refinement of the contract, every handling ends | holds |
| `feed_concurrent` | Two processes on two trips, three feeds, merges that raise, publication and database failures and crashes: navitia holds committed trips, verdicts, nothing left by failed commits | holds |
| `feed_two_versions` | Are stored trips those of one feed, with two processes? | violated |
| `gtfs_poller` | Two tasks, three versions of the feed, any two faults, navitia failing among them: exclusion, interval, nothing skipped, true rows, progress | holds |
| `gtfs_reprocess` | Is a feed whose handling failed polled again? | violated |
| `trip_merge` | Feeds of GTFS-RT, PIV and COTS in any order on a trip that passes midnight, detours among them: times in order and those the feeds say, delays that account for them, repeats without effect | holds |
| `piv_added_late` | Is a stop that PIV adds told at the time the feed says? | violated |
| `cots_trip` | Two requests at once on a train of the schedule and an added one: forbidden actions, cancellation, what navitia is told, stops that are passed over | holds |
| `cots_padded` | Is a train added once, whatever its number is written like? | violated |
| `realtime_reload` | A kraken that starts twice while two processes publish, one fault: it is answered and misses nothing but what two feeds of a trip handled at once get out of order | holds |
| `piv_worker` | Two contributors, two brokers, two changes by the API, one fault: order, no message lost unexplained, the settings in force | holds |
| `purge` | Two trips and two feeds, one of the trips still running when the other is old, five nights, a purge that fails: no dangling row, no trip without feeds, only old trips go, the contributor can go | holds |

**Bounds.** `MaxFeeds = 3` in FeedHandling: the shortest known ways to break its
properties need two feeds (store, then change; two inserts of one trip) and a third one
shows what the damage does to the next. Two trips show partial effects of one feed; two
heads and two accepted stop lists tell "changed" from "unchanged", a third list is one
`manage_consistency` refuses. In GtfsPoller two tasks suffice for a lock; three
versions let the feed change between HEAD and GET and again later, the second being no
protobuf; two faults meet in one poll or in two (`MaxFaults`). In TripFeeds a trip of
three stops has a first, a middle and a last one, midnight falls between the second and
third, and the delays and added stops are chosen to cross one another and midnight; the
feeds of each connector take the branches of its builder, refusals included; the set of
stored trips is closed under the feeds, so sequences of any length are explored. The same
stop comes as added, deleted, added for a detour and deleted for a detour, as the last one
and as one in the middle, from COTS and from PIV. Two
things are kept out of `trip_merge`: a stop that PIV adds with a delay, which has its
own run, and a trip that serves a stop twice (below). CotsTrip is finite without a
bound on the number of feeds: fifteen feeds, chosen for the branches of the builder
(first, changed, filtered, added and unknown stops, no period, refused, not sound, a
start that moves) and of the merge (a stop added for a detour after it was added, a first
stop of an added train deleted, a deleted last stop the schedule does not have), on a train
that has two numbers and runs from 3 to 5, and one that
the schedule has from 0 to 1 and COTS adds at other times. In RealtimeReload three
feeds let a trip change before, during and after a load, two loads leave a request of a
kraken that is gone at the head of the queue, and one fault falls on either path. In
PivWorker two changes move the contributor away and back, or replace it by another; two
messages can be in the wrong order; one fault is a failed session, a broker that goes
or a crash. Two faults together (a failed session, then the crash that cures it) are
left to a larger instance. In Purge the second trip starts a day after the first, so
that a purge of the one may meet feeds on both; two feeds are the least for a cascade
from feed to trip; `KeepFeeds` is longer than `KeepTrips`, as in the default settings,
and five days let both pass after the last feed.

**Fairness.** A process that has a feed goes on with it (`WF_vars(Advance(w))`): its
waits on database, navitia and RabbitMQ have time-outs. It is not assumed that feeds
arrive, that publications succeed or that a process does not crash. In GtfsPoller
celery beat starts a poll every second (`WF` of each task), time passes (the interval,
the expiry of the lock), and the number of faults is bounded: `LatestIsSettled` says
that after the last of them the poller recovers. In RealtimeReload handlers that
committed go on, the reloader serves its queue and the kraken its own. In PivWorker the
process goes on and is started again when it died, and the reload interval passes; a
broker that went need not come back, which is why `SettlesOnConfig` excepts it. In Purge
celery runs the tasks it has queued before they expire, though not each night at once
(`SF` of `LoadTrips` and `PurgeFeeds`, which the end of a day disables), a purge goes on,
and a received feed is handled or fails.

## Disagreements

Four runs end in a counterexample of a sentence the repository says of itself.

- `feed_two_versions` - core/model.py:284 says a stored trip is COMPLETE. Two
  processes that update it at once leave the stops of both feeds.
- `gtfs_reprocess` - gtfs_rt_test.py:1911 expects an external error to be forgotten
  so that the feed is processed again. When the commit fails the ETag stays. (For the
  same reason the row keeps the status OK, and `/status` reports it as the last valid
  update, which readme.md:354 says "managed to update navitia data properly".)
- `cots_padded` - cots/model_maker.py:293 refuses to add a train twice. A number
  written with leading zeros (or with two parities, like 2038/12) is looked up as it is
  written and stored under its headsigns, so the row is not found. Such a train cannot
  be updated or cancelled either.
- `piv_added_late` - piv_test.py:92 puts the delay into the date of an event. The builder
  sends both, and the merge of an added stop adds them up: the stop is told later than it
  is, and the stops behind it may be moved to the next day. COTS leaves the delay out for
  this reason (cots/model_maker.py:526). For the same reason a later update of a stop
  that an earlier feed added counts from the stored time.

Met on the way, without a run:

- build_wrapper.py:213 sets KO "if there is no new information destined to navitia". A new
  message on unchanged stops is stored, and neither counted as news (merge_utils.py:327)
  nor sent.
- A trip that serves a stop twice: `find_stop()` finds the first visit for both
  (merge_utils.py:49, 305), so the second one is given the time of the first, a day later.
- tasks.py:133 says that the purge removes only trips and that feeds are kept. When a feed
  on an old trip is committed between two statements of the purge, the session deletes the
  feed too, with every other trip it is on: that is the exception of
  `PurgeTakesOldTrips`.
- A COTS feed that moves the start of an added train finds its row by a period
  (cots/model_maker.py:287), is merged by the exact start, and stores a second row. A
  deletion then cancels the second one and the first keeps running: `SuppressedIsGone`
  excepts such feeds. Nor is navitia asked whether its schedule has the train at the new
  start (`AddedIsNew` excepts the row), and a row that a cancellation makes in this way
  has no headsign and no physical mode when a later feed runs it (`ToldIsOfAPiece`).
- A cancelled trip that a feed brings back without any stop navitia knows is stored as
  running and is not sent (`ToldIsStored`): merge() counts stops as news, and there are
  none. For the same reason the new effect of a feed that is a prefix of what is stored
  stays in the database.
- A stop outside the schedule that is served, and comes as added under the other name
  (`add`, then `added_for_detour`), is passed over by `is_new_stop_event_valid()`
  (merge_utils.py:105, which compares names) as already served; so is one that is deleted
  and comes as deleted under the other name. The docstring of `merge()` (merge_utils.py:312) has a
  complete feed "erase and replace" the stored trip. What
  becomes of it: in the middle of a feed `manage_consistency()` refuses the gap, and the
  stored trip has lost the stop while navitia keeps it; at the end the trip is sent without
  it; and the same feed adds it when it comes again. In `trip_merge` these are the steps that
  `Renames`, in `cots_trip` (train 9: `Created`, then `CreatedLate`) the rows that
  `IsAccepted` takes out of `ToldIsStored`.
- A stop that PIV added, then reports late, then reports as added again is passed over for
  the same reason: `update` is not `add`. The feeds of `trip_merge` have no stop outside the
  schedule that is only late (`FeedsAddOrDelete`), whose delay would be added to the stored
  time each time the feed comes.
- COTS deletes the first stop of a train it added: the row is stored, refused for its first
  stop without times, and not sent. Another feed that deletes the stop makes `merge()` raise
  on the times that the stored stop does not have (`HandleFails`), and the trips merged
  before it are committed without being published (`unsent`).
- `merge()` raises at one trip of a feed: the error path of `wrap_build()`
  (build_wrapper.py:252-262) sets the feed KO and commits, in the same transaction, the trips
  merged before it and their links, and the new head of the trip it raised at. None is
  published, and when the feed comes again those trips are no news (`CommitBroken`;
  `StalenessIsExplained` has them under the feeds set KO).
- A database error on the way to a verdict, or on the verdict itself, leaves the feed OK, as
  the error path raises in turn (`DatabaseFails`, fate "unmarked"); `VerdictMatchesDelivery`
  speaks of the feeds whose handling ended.
- Two processes on one trip may publish in the other order than they committed
  (build_wrapper.py:200-204), and navitia stays on the older content until the next feed of
  the trip. `NavitiaHoldsCommittedTrip` allows for it, and `raced` of RealtimeReload names
  the trips it may happen to. `NavitiaContract` needs one process.
- When navitia fails in the constructor of the GTFS-RT builder (gtfs_rt/tasks.py:174) the
  ETag of the feed is in redis already (tasks.py:88) and nothing takes it out: the feed is
  polled again only after it changed, though gtfs_rt_test.py:1911 has an external error
  forget the ETag, and no row says so. `SkippedIsSettled` counts it among the feeds given up.
- The journey of a GTFS-RT entity is the one that starts between three hours before the
  feed and four after it (gtfs_rt/model_maker.py:253): a feed on a trip that started earlier
  finds none, and one that is most of a day late finds that of the next day. `GtfsBuilder`
  takes the day the code takes, and no property asks whether it is the one meant, which the
  feed does not say.
- The number of days to keep is not checked: with 0 the trips that run over midnight are
  removed under way.
- `purge_contributor()` leaves the session as it is after a refused deletion, without
  `rollback()`.
- A PIV train of which every stop is added is refused, since it has no start in the base
  schedule (`BaseStart`).
- `command/purge_rt.py:49` calls a method that the model does not have.
- `merge()` raises on an added stop whose stored times are missing after a refused
  feed (the verdict `failed` of TripMerge).
- `PUT /contributors` does not ask, as `POST` does (contributors.py:122), for all three
  broker settings or none. The worker then refuses its contributor (`Refuses`).
- The PIV worker whose session is failed stops consuming at its next look at the
  configuration, and then never works again, since every query of its loop fails until
  the process is restarted (`ReadFails`, `SickWorkerStops`, `IsStuck`).
- Without a contributor to begin with, the `finally` of `piv_worker()` reads a local
  variable that is not bound, and the process dies where it meant to wait (`Ends`).
- A kraken may go back for a moment: an incremental feed older than the full one it
  loaded is read after it. `LastOnTheWayIsStored` shows that the newest one follows,
  unless it was never published.

## Proofs

`FeedHandling_proofs` proves, for any processes, trips, feeds, heads, stop lists and
number of feeds that satisfy `FeedHandlingAssumption` (a feed is well-formed, the
long-lived processes are processes, `NoTrip` is no content):

| Theorem | Says | By |
|---|---|---|
| `DeliveryInvariant` | `DeliveryInv` holds always | induction |
| `TypeCorrect` | `TypeOK` | `DeliveryInv` |
| `NavitiaOnlyGetsCommittedTrips` | `NavitiaHoldsCommittedTrip` | `DeliveryInv` |
| `HandlingInvariant` | `HandlingInv` holds always | induction, on top of `DeliveryInv` |
| `VerdictsAreRight` | `VerdictMatchesDelivery` | `HandlingInv` |
| `LostFeedsLeaveNothing` | `FailedCommitLeavesNothing` | `HandlingInv` |
| `KeepsContract` | one process: `ImplementsContract` | `AloneInv`, step by step |
| `SerialInvariant` | one process: `SerialInv` holds always | induction, on top of `HandlingInv` |
| `TripsAreOneVersion` | one process: `TripIsOneVersion` | `SerialInv` |
| `StalenessHasAReason` | one process: `StalenessIsExplained` | `SerialInv` |

*Why the types are not inductive.* `ReadBack` reads the content of every linked trip,
and the content of a trip that is not stored has no type. So `TypeOK` needs
`LinkedIsStored` (the trips of a feed have rows), which a commit keeps only if
`PendingFits`: a change waiting in a session is an insertion or applies to a stored
trip, and nothing but an insertion links a trip that was not there. Since rows are
never removed in this module, changes of other processes do not disturb it.
`StoredIsPast` and `NavitiaHoldsCommittedTrip` complete `DeliveryInv`: what is stored
is on record when it is committed, what is read back is stored, what is sent was read.

*Verdicts.* `HandlingInv` adds that a feed belongs to one process (`PendingIsOwn`,
`Handling`), that feeds not yet received left no trace (`FreshFeeds`), and where a feed
stands at each step of its process: not linked before the commit, linked and not sent
before the publication, sent or without links at the end. The lemma
`OtherFeedsUntouched` says that a step of one process leaves the feeds of the others
as they are, so each action is examined for its own feed only.

*Contract.* `KeepsContract` takes the assumption that two workers are the same worker.
`OutgoingIsStored` (what is about to be published is what is stored) is inductive under
it, and makes `Publish` a step of the contract; all other steps leave the variables of
the contract as they are, or are one of its own changes of the stored trips.

*One version, and why navitia may lag.* With one process, too, the rows a commit will
leave of each trip are those of one version (`OneVersion`): a merge replaces the rows it
loaded, which are all there are as long as no other process inserts some. The two runs
`feed_serial` and `feed_two_versions` show both sides of this provision.
`StalenessIsExplained` speaks of the time between two feeds; `ExplainedOrDue` carries it
through a handling: a trip whose stops navitia lacks has a reason on record, or its last
writer is the feed under way, and its process is about to send it or to set it KO
(`Due`). For this the writer must be known (`WriterIsKnown`), and what is about to be
sent must still be what is stored (`OutgoingIsStored`).

*Failures.* Some steps share what the proofs need of them: `Flushes` (`Commit` and
`CommitBroken` write the rows in the same way), `Merges` (both merges leave changes of a
subset of the trips of the feed) and `Leaves` (the ends of a handling that write no trip);
`FlushesAre`, `MergesAre` and `LeavesAre` say what, and the cases of the lemmas follow them.
`CommitBroken` writes and links trips and sends none, but sets the feed KO at the same
time, which is a reason on record (`UnlinkedIsExplained`, `FlushExplains`); so is the fate
"unmarked" of a feed whose verdict the database did not take.

`Purge_proofs` proves, for any trips, feeds, start days, days to keep and failures that
satisfy `PurgeAssumption` (trips and feeds are different rows; the days to keep may be
any integers):

| Theorem | Says | By |
|---|---|---|
| `PurgeInvariant` | `PurgeInv` holds always | induction |
| `ReferencesHold` | `TypeOK` | `PurgeInv` |
| `TripsKeepTheirFeeds` | `TripRestsOnFeeds` | `PurgeInv` |
| `PurgeIsOfOldTrips` | `PurgeTakesOldTrips` | `PurgeInv`, for the step that ends a purge |

*Why `PurgeInv` is needed.* A commit removes what earlier statements decided, while feeds
were committed. A surviving trip keeps a feed because the associations a purge has deleted
are of trips it deletes (`UnlinkedIsDoomed`) and because a feed it deletes takes all its
trips along (`DoomedIsClosed`). The latter holds when the cascade is computed, by
`ReachedClosed`, and stays, because a feed that is committed later was on no trip before
and is not among those deleted (`UnhandledIsAlone`, with `ReachedLinked`). Only old trips
are deleted (`DoomedIsOld`) as the cascade from a trip without associations goes nowhere
(`ReachedAlone`), and a trip that has one at its deletion got it after the purge began.

`GtfsPoller_proofs` proves, for any tasks, versions, undecodable feeds and number of
faults that satisfy `GtfsPollerAssumption`, and provided that no poll outlives its lock
(`"slow" \notin Faults`):

| Theorem | Says | By |
|---|---|---|
| `PollInvariant` | `PollInv` holds always | induction |
| `PollTypes` | `TypeOK` | `PollInv` |
| `OneTask` | `OneTaskAtATime` | `LockIsHeld` |
| `SkippedFeeds` | `SkippedIsSettled` | `ETagIsKept` |
| `RowsAreTrue` | `RowsTellTheTruth` | `RowsAreKept` |
| `FeedsGoForward` | `FeedNeverGoesBack` | `ReadInOrder` |
| `IntervalsAreRespected` | `IntervalIsRespected` | `IntervalHasPassed` |

*Why `PollInv` is needed.* The properties speak of a contributor at rest or of one step;
what leads there takes a dozen steps of the task that polls. `LockIsHeld` says that this
task has the lock, so the others are idle and each action is examined for its own task
(`ETagOfOne`, `RowOfOneBefore`, `RowOfOneAfter`). The ETag is stored before its feed is
read: `ETagIsKept` says that it is harmless (none, handled, given up, or older than what
is published) except while the task is about to ask navitia for the builder, to handle its
feed, or to forget the ETag, and for this it needs that the feed was read after its ETag (`ReadInOrder`). A row says OK before
its feed is stored: `RowsAreKept` says that a row which is not true has a task that will
set it, and that the status a poke puts back is the one it found. `ErrorIsFound` and
`RowIsThere` say what each step can rely on. Without the provision the lock excludes
nothing and none of this holds.

`CotsTrip_proofs` proves, for any processes, feeds, train numbers, schedules and margin
that satisfy `CotsTripAssumption` (feeds are well-formed, ids that Kirin makes are not
those of navitia, a trip ends after it starts) and `RowsAssumption` (`None` is no row):

| Theorem | Says | By |
|---|---|---|
| `CotsInvariant` | `Inv` holds always | induction |
| `TypesAreKept` | `TypeOK` | `Inv` |
| `NavitiaHoldsWhatIsStored` | `ToldIsStored` | `Inv` |
| `EachTripIsOfAPiece` | `ToldIsOfAPiece` | `Inv` |
| `AddedTripsAreNew` | `AddedIsNew` | `OriginIsNew` |
| `ForbiddenFeedsAreRefused` | `ForbiddenIsRefused` | `StillStands` |
| `SuppressedTrainsAreGone` | `SuppressedIsGone` | `StillStands`, `RowsFit` |

`ToldIsStored` says what it does not speak of: rows that manage_consistency() refuses
(`IsAccepted` is false of the stored stops themselves, so this is a condition on the row and
not a memory of the feed) and those of feeds that failed (`unsent`, which stays empty in the
run: its feeds that raise are about one trip). `ToldIsOfAPiece` has the stops sent be the
first ones of the feed, none of the others in the schedule (`AcceptedAreFirst`), and the
effect that of the whole feed.

*Why `Inv` is needed.* What a feed does is decided at `Build` and done at `Handle`, and
any feed may be handled between. `OneKind` is what stays true of a plan whatever comes
between: it is about trips that COTS makes or about trips of the schedule, as its action
says, so that each kind of row has its own statuses (`RowsFit`) and a merge cannot turn
one into the other. `Searched` keeps that an addition was looked for in navitia, whose
schedule does not change; `OriginIsNew` carries this to the row. `Described` follows the
headsign and mode of a row to the feed that made it. `StillStands` says that a process
which was not overtaken would decide again as it did: the action properties are read off
it. `HandleTakesEachTrip` splits a handling into what it may do to one trip, so that
each part of `Inv` is shown for one trip at a time; `FailureTakesEachTrip` does so for
one that fails, and `FeedTakesEachTrip` is what the two have in common.

`RealtimeReload_proofs` proves, for any processes, trips, periods and numbers of
feeds, loads and faults:

| Theorem | Says | By |
|---|---|---|
| `ReloadInvariant` | `Inv` holds always | induction |
| `TypesAreKept` | `TypeOK` | `Inv` |
| `TheLastFeedIsLast` | `LastOnTheWayIsStored` | `LastIsStored` |
| `TheKrakenCatchesUp` | `KrakenCatchesUp` | `NothingFallsThrough` |

*Why `Inv` is needed.* `KrakenCatchesUp` speaks of a kraken that has read all. Before
that, a snapshot read by the reloader is older than the database, and what is missing in
it must be on its way: `Suffices(s, p)` says that a kraken which takes `s` for the truth
of period `p`, and then applies what is handled or queued, misses nothing that was
published. `NothingFallsThrough` follows it from the reading to the answer to the
kraken, for the present load only, which a request names (`Asked`). An old feed read
after the full one is made up for because the last one about a trip is what is stored
(`LastIsStored`). That is shown of the trips that are not `raced`: a process that is to
publish such a trip is alone with it (`IsAlone`), what it read back is not committed over
in between (`Handled`), and a feed that commits the trip while no other process has it
to publish takes it out of `raced` again. Without that exception both are false.

`PivWorker_proofs` proves, for any contributors, settings, brokers and numbers of
messages, changes and faults:

| Theorem | Says | By |
|---|---|---|
| `WorkerInvariant` | `Inv` holds always | induction |
| `TypesAreKept` | `TypeOK` | `Inv` |
| `NoMessageIsDropped` | `AckedIsDealtWith` | `HandledFirst` |
| `MessagesAreTakenInOrder` | `TakenInOrder` | `InOrder` |

*Why `Inv` is needed.* A message is acknowledged by its place at the head of a queue. That
it is the one that was handled (`Serves`) depends on the settings the worker holds, on
the contributor in the database, and on the queue being declared, whatever the API
changes meanwhile. `InOrder` relates what is in a queue with what was last taken from it:
a message whose worker died is taken again, and is then the same one, not an older one.
The types are split by who changes them (`ApiTypes`, `RabbitTypes`, `LoopTypes`,
`OutcomeTypes`), and `KeepsApi`, `KeepsRabbit` and `KeepsOutcome` say which steps leave
each of them alone.

`TripFeeds_proofs` proves, for any trip, any feeds of the three connectors and any
sequence of them:

| Theorem | Says | By |
|---|---|---|
| `FeedsInvariant` | `Inv` holds always | induction |
| `TypesAreKept` | `TypeOK` | `Inv` |
| `ToldCanBeDriven` | `TripCanBeDriven` | `ToldIsDriven` |
| `RepeatsAreNoNews` | `RepeatIsNoNews`, if `FeedsAddOrDelete` | `HandledIsSettled` |
| `DelaysAreExplained` | `DelaysExplainTimes`, if `FeedsAreDated` | `ClockIsDated`, `MadeExplains` |
| `FeedsAreHonoured` | `FeedIsHonoured`, if all three hypotheses hold: `FeedsAddOrDelete`, `FeedsAreDated`, `FeedsAgreeWithPlan` | `HandledIsHonoured`, `FeedHasWhatIsSaid` |

It assumes `TripMergeAssumption` (`None` is no number, stop, time of a stop or trip, the
schedule goes forward, its arrivals less than a day after the departure before) and
`TripFeedsAssumption`: a feed is of one connector; navitia answers a GTFS-RT feed with
journeys that have the stops of the trip; and an event that PIV or COTS says is late comes
with its delay. The last is what the providers send, and more than the code asks for: PIV
reads the status from `statutModification` but the delay from `evenement`
(piv/model_maker.py:401-412), and without the latter merge() stores no delay, or raises on
adding to it.

*Why `Inv` is needed, and what it is about.* The state between two feeds says little; the
work is in the loops of one handling. What a builder makes is well-formed
(`BuiltIsWellMade`), so each stop that merge() goes through has a time of day
(`NextStopIs`), and each turn of the loop keeps `Accs` (`MergeNextInOrder`): the stops so
far can be driven, and the last departure carried on is the latest time of all. A stop is
pushed after it, whatever date was guessed for it, and a stop that is kept as the database
has it equals what was just made (`KeptInOrder`), so that nothing is needed of the stored
times, which a refused feed may have left incomplete. `LoopRuns` carries this to the end
(`MergedInOrder`). Then manage_consistency() finds nothing left to do (`FilledIsSame`,
`ManagedIsSame`): it accepts what merge() leaves or refuses it, for a gap in the order or a
first stop without times, and never changes a time or a delay of it. So what is sent is
what merge() made.

*Why a repeat is no news, and of which feeds.* Each place of the feed that merge() does
not pass over makes one stop, with the identity, order and statuses the feed gives it
(`MergedStopsAre`, `FreshIs`), and the next merge() finds it there (`MadeIsFound`). The
dates depend on the clock of the loop and on the times of day of the events served
(`SameFresh`), not on the database; so the second merge() goes turn by turn through what
the first one did (`NoChangesAgain`), provided that it passes over the same stops and
gives them the same times of day (`SameStopsAgain`). For the stops of the schedule that is
so. A stop outside the schedule is passed over, or given its time, by what is in
database, and there it takes `FeedsAddOrDelete`: such a stop is in a feed once, and the
feed adds it, with a time, or deletes it. It takes, too, that the feed does not rename a
stop of the database, which the property excepts (`RenamesNone`): then one that the database
has is never passed over (`ForeignIsValid`). Without the hypothesis the property is false:
a delay alone on an added stop counts from its stored time, once more each time the feed
comes. Without the exception it is false too: of a stop stored as `add` that comes as
`added_for_detour` the first feed loses the row, so the second one adds it.

*Why the delays explain the times, and of which feeds.* Time less delay is the date that
merge() guessed, whatever was pushed (`MadeExplains`). The guess is right as long as the
clock of the loop is at the last event served (`ClockIsAt`), which each event keeps
(`TickIsDated`): a step of less than a day passes midnight just when the time of day goes
back, with and without the delays (`NextDayIs`). `FeedsAreDated` asks for such steps
(`LessThanADayApart`), for a first event on the day the trip starts, for stops outside the
schedule that are added with their times, and of GTFS-RT, which has no dates of its own,
that the trip serves each stop once. Navitia's times have no date, so the code cannot do
without: a feed that listed only the stops after midnight would have their dates a day
early. That the stops sent are the first ones of the feed, none passed over, is
manage_consistency()'s doing (`SentIsMade`), and so is that the first of them has a time
(`FirstIsServed`).

*Why a feed is honoured, and which one.* Two arguments meet in the TripUpdate. The first is
about the builders: its stops are those the feed speaks of, in that order, with the
statuses it gives, and what it announces of an event (`Announced`: the date of an addition,
else the planned date and the delay) is what the feed says (`FeedHasWhatIsSaid`, one lemma
for each connector). For GTFS-RT that is where the stops of the entity fall on the
schedule, for PIV which stops are left between the first boarding and the last alighting.
The second is about merge() and the feeds before, and says where each stop of the
TripUpdate is in database (`HandledIsHonoured`). What was sent is what merge() made, and if
nothing changed the database already had it (`UnchangedIsFound`). What merge() makes of
a stop has the date of its event (`MadeOfDates`), pushed to the departure carried on, which
is the latest time announced so far, through the stops passed over too (`LastDepIsLatest`,
`MadeIsLatest`). And what merge() passes over is a deletion of a stop that neither the
schedule nor the database has (`PassedIsGone`), so it is not there afterwards
(`PassedIsLeftOut`); here `RenamesNone` is needed again, for what other feeds left, and the
property excepts again the step of a feed that renames a stop.

`FeedsAgreeWithPlan` is what a feed must not contradict: PIV and COTS give a date and a
delay, merge() adds the delay to the planned date or takes the date, and the two agree only
if the date is the planned one plus the delay, an event on time has no delay and an added one
has a date and no delay (the run `piv_added_late` shows what becomes of an added one that
has). Nor may a feed begin by deleting a stop the schedule does not have: with that one
passed over, the clock of the loop starts at a later stop of the feed, for which
`FeedsAreDated` asks no date (`FirstIsMet`). `MCTripFeeds` assumes the three hypotheses of the
feeds of `trip_merge`, and TLC evaluates them.

`DataLemmas` has what these proofs need of numbers and sequences. Induction over numbers
is stated for sets (`LeastNatural`, `InductionUpTo`) and follows from the
well-foundedness of the natural numbers: a set that holds 0 and the successor of each of
its members holds all. `LoopRuns` says that a loop which takes each family of values to the
next has a value after each of its turns, which is in its family; without it the
prover knows nothing of a recursive function.

Every safety invariant that a run checks is stated by a theorem. Only model-checked:
liveness (`EveryHandlingEnds`, `LatestIsSettled`, `LoadIsAnswered`, `SickWorkerStops`,
`SettlesOnConfig`, `BacklogIsConsumed`, `ContributorCanGo`), which needs fairness and
ENABLED, out of the provers' reach. The three hypotheses of TripFeeds are about the feeds,
which are constants of the model: those of `trip_merge` satisfy all of them, those of
`piv_added_late` break the third.

## Plan

| Module | Composes | State |
|---|---|---|
| FeedHandling, NavitiaContract, FeedHandling_proofs | FeedHandling refines NavitiaContract | proved |
| GtfsPoller, GtfsPoller_proofs | outcomes of FeedHandling | proved |
| Circulation, GtfsBuilder, PivBuilder, TripMerge, TripFeeds, TripFeeds_proofs | builders and merge, in TripFeeds | proved |
| CotsTrip, CotsTrip_proofs | merge of rows | proved |
| RealtimeReload, RealtimeReload_proofs | handlers of FeedHandling | proved |
| PivWorker, PivWorker_proofs | API and worker | proved |
| Purge, Purge_proofs | handlers of FeedHandling, reduced to their rows | proved |
| DataLemmas | - | proved |

("Proved" is said of the safety properties; liveness is model-checked.)

Abstract specifications worth stating: besides NavitiaContract, a mutual exclusion with
expiry for the redis lock of GtfsPoller and Purge, and the life of a train (absent,
running, cancelled) that CotsTrip should refine when feeds come one at a time.

Theorems worth proving next: that the hypotheses of `FeedsAreHonoured` follow from what one
asks of the feeds themselves, connector by connector, rather than of the TripUpdates built
from them; and that one stored trip for each mission (CotsTrip) is what TripFeeds assumes.

## Not modelled

- `cots/message_handler.py`: a cache, a token and a circuit breaker of libraries around a
  service that gives texts. Its failures leave a message empty; no model has messages.
- `command/purge_rt.py` but for `purge_contributor()`: it calls a method that does not exist.
- `/status`, `/health`, index, GET on contributors: they change nothing. Formatting.
- Parsing (JSON, protobuf, dates), wording of messages and of errors, logging, New
  Relic, heartbeats of AMQP connections, start-up, database migrations.
- The services around Kirin (PostgreSQL, redis, RabbitMQ, navitia, kraken, providers),
  except for what the source relies on; `PROJECT.json` marks those definitions external.
