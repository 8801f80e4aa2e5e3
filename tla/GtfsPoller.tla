------------------------------ MODULE GtfsPoller ------------------------------
(***************************************************************************)
(* The polling of one GTFS-RT contributor: gtfs_rt/tasks.py (gtfs_poller)  *)
(* and the helpers of utils.py it calls.  Celery starts a poll every       *)
(* second, in any of its processes; redis holds a lock that expires, the   *)
(* date of the last poll and the ETag of the last feed seen; PostgreSQL    *)
(* holds one real_time_update row per feed or error.                       *)
(*                                                                         *)
(* One action per request to the provider, to redis, or commit.  A feed is *)
(* a version number; FeedHandling has the steps of its handling, of which  *)
(* only the outcome is kept here.                                          *)
(***************************************************************************)
EXTENDS Naturals, Sequences

CONSTANTS
    Tasks,       \* celery processes that run gtfs_poller()
    MaxVersion,  \* bound: versions of the feed the provider publishes
    Undecodable, \* those of them that are no protobuf
    Faults,      \* which of "http", "navitia", "handle", "conflict", "redis",
                 \* "db", "crash", "slow" may happen
    MaxFaults,   \* bound: how many of them happen ("slow" apart)
    NoTask       \* nobody holds the lock

Versions == 1 .. MaxVersion

GtfsPollerAssumption ==
    /\ MaxVersion \in Nat \ {0}
    /\ MaxFaults \in Nat
    /\ Undecodable \subseteq Versions
    /\ NoTask \notin Tasks

ASSUME GtfsPollerAssumption

VARIABLES
    served,    \* the version the provider publishes
    lock,      \* redis: the task holding the lock of the contributor
    recent,    \* redis: the last poll is less than retrieval_interval ago
    etag,      \* redis: the version whose ETag is remembered, or 0
    rows,      \* real_time_update, oldest first
    stored,    \* the version that the trips in database come from
    pc,        \* where each task stands
    head,      \* the version whose ETag its HEAD request returned, or 0
    got,       \* the version its GET request returned, or 0
    row,       \* the row it works on, or 0
    saved,     \* the status poke_updated_at() puts back
    error,     \* the error it is about to report
    faults,    \* number of faults so far
    \* What follows records history; no action reads it.
    everStored, \* versions stored at some time
    settled,    \* versions handled to the end, wrong feeds included
    excused,    \* versions given up: the task died, or lost redis, a commit or
                \* navitia
    torn        \* rows left behind in such a way

taskVars == <<pc, head, got, row, saved, error>>
historyVars == <<everStored, settled, excused, torn>>
vars == <<served, lock, recent, etag, rows, stored, pc, head, got, row, saved,
          error, faults, everStored, settled, excused, torn>>

Status == {"OK", "KO", "pending"}
Errors == {"none", "http", "protobuf", "failed", "noNew"}
RealTimeUpdate == [data : 0 .. MaxVersion, status : Status, error : Errors]

Steps == {"idle", "readLastCall", "storeLastCall", "head", "compare", "noNew",
          "get", "builder", "error", "save", "handle", "flip", "back", "wipe", "ko",
          "release"}

TypeOK ==
    /\ served \in Versions
    /\ lock \in Tasks \cup {NoTask}
    /\ recent \in BOOLEAN
    /\ etag \in 0 .. MaxVersion
    /\ rows \in Seq(RealTimeUpdate)
    /\ stored \in 0 .. MaxVersion
    /\ pc \in [Tasks -> Steps]
    /\ head \in [Tasks -> 0 .. MaxVersion]
    /\ got \in [Tasks -> 0 .. MaxVersion]
    /\ row \in [Tasks -> Nat]
    /\ \A t \in Tasks : row[t] \in 0 .. Len(rows)
    /\ saved \in [Tasks -> Status]
    /\ error \in [Tasks -> Errors]
    /\ faults \in 0 .. MaxFaults
    /\ everStored \in SUBSET Versions
    /\ settled \in SUBSET Versions
    /\ excused \in SUBSET Versions
    /\ torn \in SUBSET (DOMAIN rows)

Init ==
    /\ served = 1
    /\ lock = NoTask
    /\ recent = FALSE
    /\ etag = 0
    /\ rows = <<>>
    /\ stored = 0
    /\ pc = [t \in Tasks |-> "idle"]
    /\ head = [t \in Tasks |-> 0]
    /\ got = [t \in Tasks |-> 0]
    /\ row = [t \in Tasks |-> 0]
    /\ saved = [t \in Tasks |-> "OK"]
    /\ error = [t \in Tasks |-> "none"]
    /\ faults = 0
    /\ everStored = {}
    /\ settled = {}
    /\ excused = {}
    /\ torn = {}

-----------------------------------------------------------------------------
(***************************************************************************)
(* The world around a task.                                                *)
(***************************************************************************)

Publish ==
    /\ served < MaxVersion
    /\ served' = served + 1
    /\ UNCHANGED <<lock, recent, etag, rows, stored, taskVars, faults, historyVars>>

IntervalPasses ==
    /\ recent
    /\ recent' = FALSE
    /\ UNCHANGED <<served, lock, etag, rows, stored, taskVars, faults, historyVars>>

\* REDIS_LOCK_TIMEOUT_POLLER after it was taken the lock is free again.  Unless
\* a poll may be slower than that, its holder has ended by then.
LockExpires ==
    /\ lock \in Tasks
    /\ "slow" \in Faults \/ pc[lock] = "idle"
    /\ lock' = NoTask
    /\ UNCHANGED <<served, recent, etag, rows, stored, taskVars, faults,
                   historyVars>>

Fault(kind) ==
    /\ kind \in Faults
    /\ faults < MaxFaults
    /\ faults' = faults + 1

Goto(t, from, to) ==
    /\ pc[t] = from
    /\ pc' = [pc EXCEPT ![t] = to]

-----------------------------------------------------------------------------
(***************************************************************************)
(* gtfs_poller(): is there anything to do?                                 *)
(***************************************************************************)

\* Seeded fault: the answer of get_lock() is not looked at.
TakeLockAnyway(t) ==
    /\ lock' = IF lock = NoTask THEN t ELSE lock
    /\ Goto(t, "idle", "readLastCall")
    /\ UNCHANGED <<served, recent, etag, rows, stored, head, got, row, saved,
                   error, faults, historyVars>>

\* get_lock(), non-blocking: a task that does not get it ends at once.
TakeLock(t) ==
    /\ lock = NoTask
    /\ lock' = t
    /\ Goto(t, "idle", "readLastCall")
    /\ UNCHANGED <<served, recent, etag, rows, stored, head, got, row, saved,
                   error, faults, historyVars>>

\* Seeded fault: the date of the last poll is not looked at.
ReadLastCallIgnored(t) ==
    /\ Goto(t, "readLastCall", "storeLastCall")
    /\ UNCHANGED <<served, lock, recent, etag, rows, stored, head, got, row,
                   saved, error, faults, historyVars>>

\* _is_last_call_too_recent()
ReadLastCall(t) ==
    /\ Goto(t, "readLastCall", IF recent THEN "release" ELSE "storeLastCall")
    /\ UNCHANGED <<served, lock, recent, etag, rows, stored, head, got, row,
                   saved, error, faults, historyVars>>

StoreLastCall(t) ==
    /\ Goto(t, "storeLastCall", "head")
    /\ recent' = TRUE
    /\ UNCHANGED <<served, lock, etag, rows, stored, head, got, row, saved,
                   error, faults, historyVars>>

\* _is_newer(): ask the provider, ...
AskETag(t) ==
    /\ Goto(t, "head", "compare")
    /\ head' = [head EXCEPT ![t] = served]
    /\ UNCHANGED <<served, lock, recent, etag, rows, stored, got, row, saved,
                   error, faults, historyVars>>

\* ... compare with redis, and remember the ETag before the feed is even read.
CompareETag(t) ==
    /\ IF etag = head[t]
       THEN Goto(t, "compare", "noNew") /\ UNCHANGED etag
       ELSE Goto(t, "compare", "get") /\ etag' = head[t]
    /\ UNCHANGED <<served, lock, recent, rows, stored, head, got, row, saved,
                   error, faults, historyVars>>

\* No ETag, no answer, or no redis: the feed is polled anyway.
IsNewerFails(t) ==
    /\ \/ Fault("http") /\ Goto(t, "head", "get")
       \/ Fault("redis") /\ Goto(t, "compare", "get")
    /\ UNCHANGED <<served, lock, recent, etag, rows, stored, head, got, row,
                   saved, error, historyVars>>

Get(t) ==
    /\ Goto(t, "get", "builder")
    /\ got' = [got EXCEPT ![t] = served]
    /\ UNCHANGED <<served, lock, recent, etag, rows, stored, head, row, saved,
                   error, faults, historyVars>>

GetFails(t) ==
    /\ Fault("http")
    /\ Goto(t, "get", "error")
    /\ error' = [error EXCEPT ![t] = "http"]
    /\ UNCHANGED <<served, lock, recent, etag, rows, stored, head, got, row,
                   saved, historyVars>>

\* The constructor of KirinModelBuilder asks navitia for the date of its data.
AskPublicationDate(t) ==
    /\ Goto(t, "builder", IF got[t] \in Undecodable THEN "error" ELSE "save")
    /\ error' = [error EXCEPT ![t] = IF got[t] \in Undecodable THEN "protobuf"
                                                               ELSE "none"]
    /\ UNCHANGED <<served, lock, recent, etag, rows, stored, head, got, row, saved,
                   faults, historyVars>>

-----------------------------------------------------------------------------
(***************************************************************************)
(* manage_db_no_new() and manage_db_error()                                *)
(***************************************************************************)

\* get_last_rtu(), and the status as it is now
FindLast(t) ==
    /\ row' = [row EXCEPT ![t] = Len(rows)]
    /\ saved' = [saved EXCEPT ![t] = rows[Len(rows)].status]

NoNew(t) ==
    /\ IF rows = <<>>
       THEN Goto(t, "noNew", "release") /\ UNCHANGED <<row, saved>>
       ELSE Goto(t, "noNew", "flip") /\ FindLast(t)
    /\ UNCHANGED <<served, lock, recent, etag, rows, stored, head, got, error,
                   faults, historyVars>>

\* What the row of the error would be: it has the raw feed, if one was read.
ErrorRow(t) ==
    [data   |-> IF error[t] = "protobuf" THEN got[t] ELSE 0,
     status |-> "KO",
     error  |-> error[t]]

SameAsLast(t) == rows # <<>> /\ rows[Len(rows)] = ErrorRow(t)

\* The error is the one of the last row: that row is poked...
PokeError(t) ==
    /\ SameAsLast(t)
    /\ Goto(t, "error", "flip")
    /\ FindLast(t)
    /\ UNCHANGED <<served, lock, recent, etag, rows, stored, head, got, error,
                   faults, historyVars>>

\* ... otherwise it gets a row, saved "OK" (make_rt_update) and KO right after.
SaveError(t) ==
    /\ ~SameAsLast(t)
    /\ Goto(t, "error", IF error[t] = "http" THEN "wipe" ELSE "ko")
    /\ rows' = Append(rows, [data |-> ErrorRow(t).data, status |-> "OK", error |-> "none"])
    /\ row' = [row EXCEPT ![t] = Len(rows')]
    /\ UNCHANGED <<served, lock, recent, etag, stored, head, got, saved, error,
                   faults, historyVars>>

\* poke_updated_at(): another status and back, in two commits
PokeFlip(t) ==
    /\ Goto(t, "flip", "back")
    /\ rows' = [rows EXCEPT ![row[t]] =
                   [@ EXCEPT !.status = IF saved[t] = "pending" THEN "OK" ELSE "pending"]]
    /\ UNCHANGED <<served, lock, recent, etag, stored, head, got, row, saved,
                   error, faults, historyVars>>

\* Seeded fault: the row is left OK, whatever it was.
PokeBackOK(t) ==
    /\ Goto(t, "back", "release")
    /\ rows' = [rows EXCEPT ![row[t]] = [@ EXCEPT !.status = "OK"]]
    /\ UNCHANGED <<served, lock, recent, etag, stored, head, got, row, saved,
                   error, faults, historyVars>>

\* After the poke, an Http Error is forgotten from redis; an invalid protobuf
\* goes on to the error path of wrap_build().
PokeBack(t) ==
    /\ Goto(t, "back", CASE error[t] = "http"     -> "wipe"
                         [] error[t] = "protobuf" -> "ko"
                         [] OTHER                 -> "release")
    /\ rows' = [rows EXCEPT ![row[t]] = [@ EXCEPT !.status = saved[t]]]
    /\ UNCHANGED <<served, lock, recent, etag, stored, head, got, row, saved,
                   error, faults, historyVars>>

-----------------------------------------------------------------------------
(***************************************************************************)
(* wrap_build()                                                            *)
(***************************************************************************)

\* Seeded fault: the task works on the row after the one it saved.
BuildRtUpdateNextRow(t) ==
    /\ Goto(t, "save", "handle")
    /\ rows' = Append(rows, [data |-> got[t], status |-> "OK", error |-> "none"])
    /\ row' = [row EXCEPT ![t] = Len(rows') + 1]
    /\ UNCHANGED <<served, lock, recent, etag, stored, head, got, saved, error,
                   faults, historyVars>>

\* The feed is saved, status "OK", before it is handled.
BuildRtUpdate(t) ==
    /\ Goto(t, "save", "handle")
    /\ rows' = Append(rows, [data |-> got[t], status |-> "OK", error |-> "none"])
    /\ row' = [row EXCEPT ![t] = Len(rows')]
    /\ UNCHANGED <<served, lock, recent, etag, stored, head, got, saved, error,
                   faults, historyVars>>

Settle(t) == settled' = settled \cup {got[t]}

\* The feed is stored and published.
HandleChanges(t) ==
    /\ got[t] # stored
    /\ Goto(t, "handle", "release")
    /\ stored' = got[t]
    /\ everStored' = everStored \cup {got[t]}
    /\ Settle(t)
    /\ UNCHANGED <<served, lock, recent, etag, rows, head, got, row, saved,
                   error, faults, excused, torn>>

\* None of its trips is known to navitia, or none changes.
HandleNothing(t) ==
    /\ Goto(t, "handle", "ko")
    /\ error' = [error EXCEPT ![t] = "noNew"]
    /\ UNCHANGED <<served, lock, recent, etag, rows, stored, head, got, row,
                   saved, faults, historyVars>>

\* Navitia or RabbitMQ does not answer, before or after the feed is stored.
HandleFails(t) ==
    /\ Fault("handle")
    /\ Goto(t, "handle", "wipe")
    /\ error' = [error EXCEPT ![t] = "failed"]
    /\ stored' \in {stored, got[t]}
    /\ everStored' = everStored \cup ({stored'} \ {0})
    /\ UNCHANGED <<served, lock, recent, etag, rows, head, got, row, saved,
                   settled, excused, torn>>

\* What a task leaves undone when it stops short.
GiveUp(t) ==
    /\ excused' = excused \cup ({head[t], got[t]} \ {0})
    /\ torn' = torn \cup ({row[t]} \ {0})

\* The constructor of the builder raises outside the try of wrap_build(): the task
\* ends, no row is saved and the ETag stays.
AskPublicationDateFails(t) ==
    /\ Fault("navitia")
    /\ Goto(t, "builder", "release")
    /\ GiveUp(t)
    /\ UNCHANGED <<served, lock, recent, etag, rows, stored, head, got, row,
                   saved, error, everStored, settled>>

\* The commit of the feed fails, and the error path fails in turn on the broken
\* session, before it forgets the ETag.
HandleLost(t) ==
    /\ Fault("conflict")
    /\ Goto(t, "handle", "release")
    /\ GiveUp(t)
    /\ UNCHANGED <<served, lock, recent, etag, rows, stored, head, got, row,
                   saved, error, everStored, settled>>

\* Does the error leave a row to be set KO?  A poked one is KO already, and
\* there is none when the feed could not be saved.
HasRowToSet(t) == row[t] # 0 /\ rows[row[t]].status = "OK"

\* Seeded fault: the ETag is kept.
WipeNothing(t) ==
    /\ Goto(t, "wipe", IF HasRowToSet(t) THEN "ko" ELSE "release")
    /\ UNCHANGED <<served, lock, recent, etag, rows, stored, head, got, row,
                   saved, error, faults, historyVars>>

\* allow_reprocess_same_data()
Wipe(t) ==
    /\ Goto(t, "wipe", IF HasRowToSet(t) THEN "ko" ELSE "release")
    /\ etag' = 0
    /\ UNCHANGED <<served, lock, recent, rows, stored, head, got, row, saved,
                   error, faults, historyVars>>

\* set_rtu_status_ko() and its commit.  A failed handling is not settled: it is
\* to be done again.
SetKo(t) ==
    /\ Goto(t, "ko", "release")
    /\ rows' = [rows EXCEPT ![row[t]] = [@ EXCEPT !.status = "KO", !.error = error[t]]]
    /\ IF error[t] \in {"noNew", "protobuf"} THEN Settle(t) ELSE UNCHANGED settled
    /\ UNCHANGED <<served, lock, recent, etag, stored, head, got, row, saved,
                   error, faults, everStored, excused, torn>>

-----------------------------------------------------------------------------

Forget(t) ==
    /\ head' = [head EXCEPT ![t] = 0]
    /\ got' = [got EXCEPT ![t] = 0]
    /\ row' = [row EXCEPT ![t] = 0]
    /\ saved' = [saved EXCEPT ![t] = "OK"]
    /\ error' = [error EXCEPT ![t] = "none"]

\* The lock is released if it still is this task's.
Release(t) ==
    /\ Goto(t, "release", "idle")
    /\ lock' = IF lock = t THEN NoTask ELSE lock
    /\ Forget(t)
    /\ UNCHANGED <<served, recent, etag, rows, stored, faults, historyVars>>

\* A request to redis raises ConnectionError: the lock is released, if redis is
\* back, and the task starts over (@retry).
RedisFails(t) ==
    /\ Fault("redis")
    /\ pc[t] \in {"readLastCall", "storeLastCall", "wipe", "release"}
    /\ pc' = [pc EXCEPT ![t] = IF pc[t] = "release" THEN "idle" ELSE "release"]
    /\ IF pc[t] = "wipe" THEN GiveUp(t) ELSE UNCHANGED <<excused, torn>>
    /\ IF pc[t] = "release" THEN Forget(t)
                            ELSE UNCHANGED <<head, got, row, saved, error>>
    /\ UNCHANGED <<served, lock, recent, etag, rows, stored, everStored, settled>>

\* A query or a commit fails.  Only a feed that was not saved yet has its ETag
\* forgotten.
DatabaseFails(t) ==
    /\ Fault("db")
    /\ \/ Goto(t, "save", "wipe") /\ UNCHANGED <<excused, torn>>
       \/ /\ \E s \in {"noNew", "flip", "back", "error", "ko"} :
                Goto(t, s, "release")
          /\ GiveUp(t)
    /\ UNCHANGED <<served, lock, recent, etag, rows, stored, head, got, row,
                   saved, error, everStored, settled>>

\* The process dies: the lock stays until it expires.
Crash(t) ==
    /\ Fault("crash")
    /\ pc[t] # "idle"
    /\ pc' = [pc EXCEPT ![t] = "idle"]
    /\ GiveUp(t)
    /\ Forget(t)
    /\ UNCHANGED <<served, lock, recent, etag, rows, stored, everStored, settled>>

Advance(t) ==
    \/ TakeLock(t)
    \/ ReadLastCall(t)
    \/ StoreLastCall(t)
    \/ AskETag(t)
    \/ CompareETag(t)
    \/ IsNewerFails(t)
    \/ Get(t)
    \/ GetFails(t)
    \/ AskPublicationDate(t)
    \/ AskPublicationDateFails(t)
    \/ NoNew(t)
    \/ PokeError(t)
    \/ SaveError(t)
    \/ PokeFlip(t)
    \/ PokeBack(t)
    \/ BuildRtUpdate(t)
    \/ HandleChanges(t)
    \/ HandleNothing(t)
    \/ HandleFails(t)
    \/ HandleLost(t)
    \/ Wipe(t)
    \/ SetKo(t)
    \/ Release(t)
    \/ RedisFails(t)
    \/ DatabaseFails(t)

Next ==
    \/ \E t \in Tasks : Advance(t) \/ Crash(t)
    \/ Publish
    \/ IntervalPasses
    \/ LockExpires

\* Celery beat starts a poll every second; time passes.
Fairness ==
    /\ \A t \in Tasks : WF_vars(Advance(t))
    /\ WF_vars(IntervalPasses)
    /\ WF_vars(LockExpires)

Spec == Init /\ [][Next]_vars
FairSpec == Spec /\ Fairness

-----------------------------------------------------------------------------

AtRest == \A t \in Tasks : pc[t] = "idle"

\* The lock does its work as long as no poll outlives it: two tasks never poll
\* the contributor at the same time, whatever dies or fails.
OneTaskAtATime ==
    \A t, u \in Tasks : pc[t] # "idle" /\ pc[u] # "idle" => t = u

\* A feed is skipped only if it was dealt with: when the next HEAD would find
\* the ETag redis remembers, the feed behind it was handled to its end, or was
\* given up for a reason on record.
SkippedIsSettled ==
    AtRest /\ etag = served => served \in settled \cup excused

\* The rows tell what happened: none is left pending by a poke, one that says OK
\* was stored, one that says KO has its reason.
RowsTellTheTruth ==
    AtRest => \A i \in DOMAIN rows \ torn :
       CASE rows[i].status = "OK"      -> rows[i].data \in everStored
         [] rows[i].status = "KO"      -> rows[i].error # "none"
         [] rows[i].status = "pending" -> FALSE

\* A feed read earlier is never stored over one read later.
FeedNeverGoesBack == [][stored' >= stored]_vars

\* retrieval_interval is a minimum: no poll starts before the interval of the
\* one before it has passed.
IntervalIsRespected ==
    [][\A t \in Tasks : pc[t] = "storeLastCall" /\ pc'[t] = "head" => ~recent]_vars

\* Whatever fails on the way, the version the provider ends with is dealt with:
\* after the last failure a poll finds it, and nothing holds the lock for ever.
LatestIsSettled == []<>(served \in settled \cup excused)

(***************************************************************************)
(* A claim the code does not keep.                                         *)
(***************************************************************************)

\* "external error: forget it was processed and allow reprocess" against "error
\* in feed: remember it's processed" (tests/integration/gtfs_rt_test.py): only a
\* feed that was handled, or is wrong, is skipped afterwards.
FailureIsReprocessed == AtRest /\ etag = served => served \in settled

=============================================================================
