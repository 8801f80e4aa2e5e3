---------------------------- MODULE RealtimeReload ----------------------------
(***************************************************************************)
(* How a kraken of navitia gets and keeps the real-time trips.  A starting *)
(* kraken asks for everything; RTReloader (rabbitmq_handler.py), a process *)
(* of its own, reads it in the database and answers on a queue of that     *)
(* kraken only, while the feed handlers go on committing trips and         *)
(* publishing them on the exchange.  The two paths are not ordered.        *)
(*                                                                         *)
(* A content of a trip is the number of the feed that wrote it, 0 if there *)
(* is none.  A handler is reduced to its commit, its reading back and its  *)
(* publication; nothing keeps two of them from changing a trip at once.    *)
(* The kraken and RabbitMQ are not part of this repository: they are       *)
(* modelled as Kirin relies on them.  A kraken binds its queue to the      *)
(* exchange before it asks, and reads that queue once it has its answer.   *)
(***************************************************************************)
EXTENDS Naturals, Sequences

CONSTANTS
    Workers,   \* the processes that handle feeds, each one at a time
    Trips,
    StartDay,  \* the day a trip starts
    Periods,   \* the [begin, end] a kraken may ask for, 0 if not given
    MaxFeeds,  \* bound: number of feeds
    MaxLoads,  \* bound: number of starts of the kraken
    MaxFaults, \* bound: number of failed publications and crashes
    None

Content == 0 .. MaxFeeds

RealtimeReloadAssumption ==
    /\ StartDay \in [Trips -> Nat \ {0}]
    /\ \A p \in Periods : p.begin \in Nat /\ p.end \in Nat
    /\ None \notin Periods
    /\ MaxFeeds \in Nat /\ MaxLoads \in Nat /\ MaxFaults \in Nat

ASSUME RealtimeReloadAssumption

VARIABLES
    stored,    \* the trips in database
    received,  \* number of feeds received
    pc,        \* where each handler is: "idle", "committed", "read"
    feed,      \* the feed it handles, 0 if none
    linked,    \* the trips its feed changed
    outgoing,  \* what it read back of them
    exchange,  \* the kraken's queue on the exchange, oldest first
    requests,  \* the queue of LOAD_REALTIME tasks, oldest first
    reading,   \* the FULL feed RTReloader has read and not sent, or None
    answer,    \* the queue of the answers to the kraken, or None
    kraken,    \* "down", "loading" or "up"
    loads,     \* number of starts of the kraken, the name of its answer queue
    period,    \* what it loads
    known,     \* the trips it has
    faults,    \* number of faults so far
    lost,      \* history: feeds committed and not published
    raced      \* history: trips whose last feed was committed while another one
               \* that changed them was not yet published

handlers == <<stored, received, pc, feed, linked, outgoing, lost, raced>>
reloader == <<requests, reading, answer>>
navitia == <<kraken, loads, period, known>>
vars == <<stored, received, pc, feed, linked, outgoing, exchange, requests, reading,
          answer, kraken, loads, period, known, faults, lost, raced>>

Snapshot == UNION {[D -> Content] : D \in SUBSET Trips}

TypeOK ==
    /\ stored \in [Trips -> Content]
    /\ received \in Content
    /\ pc \in [Workers -> {"idle", "committed", "read"}]
    /\ feed \in [Workers -> Content]
    /\ linked \in [Workers -> SUBSET Trips]
    /\ outgoing \in [Workers -> Snapshot]
    /\ \A w \in Workers : DOMAIN outgoing[w] = linked[w]
    /\ exchange \in Seq(Snapshot)
    /\ requests \in Seq([load : 1 .. MaxLoads, period : Periods])
    /\ reading = None \/ reading \in Snapshot
    /\ answer = None \/ answer \in Snapshot
    /\ reading # None => requests # <<>>
    /\ kraken \in {"down", "loading", "up"}
    /\ kraken # "loading" => answer = None
    /\ loads \in 0 .. MaxLoads
    /\ period \in Periods \cup {None}
    /\ known \in [Trips -> Content]
    /\ faults \in 0 .. MaxFaults
    /\ lost \in SUBSET (1 .. MaxFeeds)
    /\ raced \in SUBSET Trips

Nothing == [t \in {} |-> 0]

Init ==
    /\ stored = [t \in Trips |-> 0]
    /\ received = 0
    /\ pc = [w \in Workers |-> "idle"]
    /\ feed = [w \in Workers |-> 0]
    /\ linked = [w \in Workers |-> {}]
    /\ outgoing = [w \in Workers |-> Nothing]
    /\ exchange = <<>>
    /\ requests = <<>>
    /\ reading = None
    /\ answer = None
    /\ kraken = "down"
    /\ loads = 0
    /\ period = None
    /\ known = [t \in Trips |-> 0]
    /\ faults = 0
    /\ lost = {}
    /\ raced = {}

-----------------------------------------------------------------------------
(***************************************************************************)
(* The feed handlers                                                       *)
(***************************************************************************)

\* handle() commits the trips of a feed that changed.
Commit(w) ==
    /\ pc[w] = "idle"
    /\ received < MaxFeeds
    /\ received' = received + 1
    /\ feed' = [feed EXCEPT ![w] = received + 1]
    /\ \E ts \in SUBSET Trips \ {{}} :
          /\ linked' = [linked EXCEPT ![w] = ts]
          /\ outgoing' = [outgoing EXCEPT ![w] = [t \in ts |-> 0]]
          /\ stored' = [t \in Trips |-> IF t \in ts THEN received + 1 ELSE stored[t]]
          /\ raced' = (raced \ ts) \cup {t \in ts : \E v \in Workers : t \in linked[v]}
    /\ pc' = [pc EXCEPT ![w] = "committed"]
    /\ UNCHANGED <<exchange, reloader, navitia, faults, lost>>

\* convert_to_gtfsrt() of the trips of the RealTimeUpdate
ReadBack(w) ==
    /\ pc[w] = "committed"
    /\ outgoing' = [outgoing EXCEPT ![w] = [t \in linked[w] |-> stored[t]]]
    /\ pc' = [pc EXCEPT ![w] = "read"]
    /\ UNCHANGED <<stored, received, feed, linked, exchange, reloader, navitia, faults, lost,
                   raced>>

Leave(w) ==
    /\ pc' = [pc EXCEPT ![w] = "idle"]
    /\ feed' = [feed EXCEPT ![w] = 0]
    /\ linked' = [linked EXCEPT ![w] = {}]
    /\ outgoing' = [outgoing EXCEPT ![w] = Nothing]

\* Seeded fault: the feed is sent before its trips are read back.
PublishUnread(w) ==
    /\ pc[w] # "idle"
    /\ exchange' = IF kraken = "down" THEN exchange ELSE Append(exchange, outgoing[w])
    /\ Leave(w)
    /\ UNCHANGED <<stored, received, reloader, navitia, faults, lost, raced>>

\* RabbitMQHandler.publish(): the exchange keeps nothing for a kraken that is down.
Publish(w) ==
    /\ pc[w] = "read"
    /\ exchange' = IF kraken = "down" THEN exchange ELSE Append(exchange, outgoing[w])
    /\ Leave(w)
    /\ UNCHANGED <<stored, received, reloader, navitia, faults, lost, raced>>

\* The publication fails three times, or the process dies after its commit.
PublishFails(w) ==
    /\ pc[w] # "idle"
    /\ faults < MaxFaults
    /\ faults' = faults + 1
    /\ lost' = lost \cup {feed[w]}
    /\ Leave(w)
    /\ UNCHANGED <<stored, received, exchange, reloader, navitia, raced>>

-----------------------------------------------------------------------------
(***************************************************************************)
(* The kraken                                                              *)
(***************************************************************************)

\* It starts, or starts again, with an empty queue and nothing known, and asks.
KrakenStarts ==
    /\ loads < MaxLoads
    /\ loads' = loads + 1
    /\ kraken' = "loading"
    /\ \E p \in Periods :
          /\ period' = p
          /\ requests' = Append(requests, [load |-> loads + 1, period |-> p])
    /\ known' = [t \in Trips |-> 0]
    /\ exchange' = <<>>
    /\ answer' = None
    /\ UNCHANGED <<handlers, reading, faults>>

KrakenLoads ==
    /\ kraken = "loading"
    /\ answer # None
    /\ known' = [t \in Trips |-> IF t \in DOMAIN answer THEN answer[t] ELSE 0]
    /\ answer' = None
    /\ kraken' = "up"
    /\ UNCHANGED <<handlers, exchange, requests, reading, loads, period, faults>>

KrakenApplies ==
    /\ kraken = "up"
    /\ exchange # <<>>
    /\ known' = [t \in Trips |-> IF t \in DOMAIN Head(exchange) THEN Head(exchange)[t]
                                                               ELSE known[t]]
    /\ exchange' = Tail(exchange)
    /\ UNCHANGED <<handlers, reloader, kraken, loads, period, faults>>

-----------------------------------------------------------------------------
(***************************************************************************)
(* RTReloader                                                              *)
(***************************************************************************)

IsIn(p, t) ==
    /\ p.begin # 0 => StartDay[t] >= p.begin
    /\ p.end # 0 => StartDay[t] < p.end

\* Seeded fault: the first day is left out.
FoundAfterBegin(p) ==
    {t \in Trips : stored[t] # 0 /\ IsIn(p, t) /\ StartDay[t] # p.begin}

\* find_by_contributor_period(), for all the contributors
Found(p) == {t \in Trips : stored[t] # 0 /\ IsIn(p, t)}

\* Seeded fault: the request is acknowledged as it is received.
ReadFullAcked ==
    /\ requests # <<>>
    /\ reading = None
    /\ reading' = [t \in Found(requests[1].period) |-> stored[t]]
    /\ requests' = Tail(requests)
    /\ UNCHANGED <<handlers, exchange, answer, navitia, faults>>

\* _on_request(): the trips of the period, as they are stored.  prefetch_count is
\* 1: the request stays at the head of the queue until it is acknowledged.
ReadFull ==
    /\ requests # <<>>
    /\ reading = None
    /\ reading' = [t \in Found(requests[1].period) |-> stored[t]]
    /\ UNCHANGED <<handlers, exchange, requests, answer, navitia, faults>>

\* The answer goes to the queue the request names, which may be gone.
SendFull ==
    /\ reading # None
    /\ answer' = IF requests[1].load = loads /\ kraken = "loading" THEN reading ELSE answer
    /\ reading' = None
    /\ requests' = Tail(requests)
    /\ UNCHANGED <<handlers, exchange, navitia, faults>>

\* Seeded fault: the request is acknowledged before it is answered.
SendFullFailsAcked ==
    /\ reading # None
    /\ faults < MaxFaults
    /\ faults' = faults + 1
    /\ reading' = None
    /\ requests' = Tail(requests)
    /\ UNCHANGED <<handlers, exchange, answer, navitia>>

\* Every retry failed, or the process dies: started again, it gets the request
\* that was not acknowledged once more.
SendFullFails ==
    /\ reading # None
    /\ faults < MaxFaults
    /\ faults' = faults + 1
    /\ reading' = None
    /\ UNCHANGED <<handlers, exchange, requests, answer, navitia>>

-----------------------------------------------------------------------------

\* Everything the bounds allow has happened.
Quiet ==
    /\ received = MaxFeeds
    /\ \A w \in Workers : pc[w] = "idle"
    /\ loads = MaxLoads
    /\ kraken = "up"
    /\ exchange = <<>>
    /\ requests = <<>>
    /\ UNCHANGED vars

Next ==
    \/ \E w \in Workers : Commit(w) \/ ReadBack(w) \/ Publish(w) \/ PublishFails(w)
    \/ KrakenStarts
    \/ KrakenLoads
    \/ KrakenApplies
    \/ ReadFull
    \/ SendFull
    \/ SendFullFails
    \/ Quiet

\* A handler that has committed goes on, the reloader serves its queue, and the
\* kraken its two queues.
Fairness ==
    /\ \A w \in Workers : WF_vars(ReadBack(w)) /\ WF_vars(Publish(w))
    /\ WF_vars(ReadFull)
    /\ WF_vars(SendFull)
    /\ WF_vars(KrakenLoads)
    /\ WF_vars(KrakenApplies)

Spec == Init /\ [][Next]_vars
FairSpec == Spec /\ Fairness

-----------------------------------------------------------------------------
(***************************************************************************)
(* Properties                                                              *)
(***************************************************************************)

InFlight == {t \in Trips : \/ \E w \in Workers : t \in linked[w]
                           \/ \E i \in DOMAIN exchange : t \in DOMAIN exchange[i]}

\* A kraken that was answered lags behind the database only on trips that are still
\* on their way, whose last feed was never published or was committed while another
\* feed of the trip was being handled: between the full feed and the incremental
\* ones no trip falls through, however they overlap.
KrakenCatchesUp ==
    kraken = "up" =>
       \A t \in Trips \ (InFlight \cup raced) : IsIn(period, t) =>
          known[t] = stored[t] \/ stored[t] \in lost

\* What is in flight is not late: the last content of a trip on its way to the
\* kraken is the stored one, so it cannot end with an older content, unless two
\* feeds of the trip were handled at once.
LastOnTheWayIsStored ==
    kraken # "down" => \A t \in Trips \ raced :
       LET at == {i \in DOMAIN exchange : t \in DOMAIN exchange[i]}
       IN  at # {} /\ (\A w \in Workers : t \notin linked[w]) /\ stored[t] \notin lost =>
              \E i \in at : exchange[i][t] = stored[t] /\ \A j \in at : j <= i

\* A kraken that asks is answered, though the reloader fails and is started again,
\* and requests of krakens that are gone are before it in the queue.
LoadIsAnswered == kraken = "loading" ~> kraken = "up"

=============================================================================
