------------------------------- MODULE PivWorker -------------------------------
(***************************************************************************)
(* The PIV worker (command/piv_worker.py): one process that consumes the   *)
(* messages of the queue its contributor names, while the contributors are *)
(* created, changed and deactivated through the API                        *)
(* (resources/contributors.py).  The handling of a message is FeedHandling; *)
(* here it is stored or lost.                                              *)
(*                                                                         *)
(* The process has one SQLAlchemy session for its life.  The session keeps *)
(* the attributes of the contributors it has loaded (cached) until they are *)
(* expired, and is of no use once a request failed in a transaction        *)
(* (failed), for nothing rolls it back.                                    *)
(*                                                                         *)
(* RabbitMQ and the loop of kombu that calls on_iteration() are not part of *)
(* this repository: they are modelled as the worker uses them.  A connection *)
(* that is lost is sought again for ever, without a call of on_iteration(). *)
(***************************************************************************)
EXTENDS Naturals, Sequences

CONSTANTS
    Ids,         \* the identifiers of PIV contributors
    Settings,    \* [broker, queue, navitia]: broker_url, (exchange_name, queue_name),
                 \* (navitia_coverage, navitia_token)
    Brokers,
    MaxChanges,  \* bound: requests to the API after the first
    MaxMessages, \* bound: messages
    MaxFaults,   \* bound: database failures, broker outages and crashes
    None

Names == {s.queue : s \in Settings} \ {None}
Queues == Brokers \X Names
QueueOf(s) == <<s.broker, s.queue>>
Messages == 1 .. MaxMessages

PivWorkerAssumption ==
    /\ \A s \in Settings : s.broker \in Brokers \cup {None}
    /\ None \notin Ids \cup Brokers \cup Settings
    /\ MaxChanges \in Nat /\ MaxMessages \in Nat /\ MaxFaults \in Nat

ASSUME PivWorkerAssumption

Row == [active : BOOLEAN, conf : Settings]

VARIABLES
    rows,      \* table contributor: a row or None
    changes,   \* number of requests to the API
    up,        \* the brokers that answer
    queue,     \* the queues that exist, with their messages, oldest first, the one
               \* being handled included
    published, \* number of messages published
    pc,        \* where the process is
    chosen,    \* the local variable contributor of piv_worker(), None if not bound
    listed,    \* its local variable contributors
    cached,    \* what the session has loaded of the contributors
    failed,    \* the session is failed
    held,      \* the settings the worker was built with
    due,       \* CONF_RELOAD_INTERVAL has passed since the last check
    stop,      \* should_stop
    alive,     \* the connection is good
    current,   \* the message being handled
    stored,    \* the messages stored in real_time_update
    faults,    \* number of faults so far
    acked,     \* history: the messages acknowledged
    lost,      \* history: the messages that could not be stored
    latest     \* history: the last message taken from each queue

api == <<rows, changes>>
rabbit == <<up, queue, published>>
loop == <<chosen, listed>>
worker == <<held, due, stop>>
outcome == <<stored, acked, lost, latest>>
elsewhere == <<api, rabbit, outcome>>
process == <<pc, loop, cached, failed, worker, alive, current>>
vars == <<api, rabbit, process, outcome, faults>>

Running == {"iterate", "drain", "handling", "ack", "reconnect"}

TypeOK ==
    /\ rows \in [Ids -> Row \cup {None}]
    /\ changes \in 0 .. MaxChanges
    /\ up \subseteq Brokers
    /\ DOMAIN queue \subseteq Queues
    /\ \A q \in DOMAIN queue : queue[q] \in Seq(Messages)
    /\ published \in 0 .. MaxMessages
    /\ pc \in {"start", "sleep", "enter", "dead"} \cup Running
    /\ chosen \in Ids \cup {None}
    /\ listed \subseteq Ids
    /\ cached \in [Ids -> Row \cup {None}]
    /\ held \in Settings \cup {None}
    /\ failed \in BOOLEAN /\ due \in BOOLEAN /\ stop \in BOOLEAN /\ alive \in BOOLEAN
    /\ pc = "enter" => chosen # None /\ QueueOf(held) \in Queues
    /\ pc \in Running => chosen # None /\ QueueOf(held) \in DOMAIN queue
    /\ pc \in {"handling", "ack"} => current = Head(queue[QueueOf(held)])
    /\ stored \subseteq Messages /\ lost \subseteq Messages
    /\ faults \in 0 .. MaxFaults
    /\ acked \subseteq Queues \X Messages
    /\ latest \in [Queues -> 0 .. MaxMessages]

Unloaded == [i \in Ids |-> None]

Init ==
    /\ \E i \in Ids, s \in Settings :
          rows = [Unloaded EXCEPT ![i] = [active |-> TRUE, conf |-> s]]
    /\ changes = 0
    /\ up = Brokers
    /\ queue = [q \in {} |-> <<>>]
    /\ published = 0
    /\ pc = "start"
    /\ chosen = None
    /\ listed = {}
    /\ cached = Unloaded
    /\ failed = FALSE
    /\ held = None
    /\ due = FALSE
    /\ stop = FALSE
    /\ alive = FALSE
    /\ current = 0
    /\ stored = {}
    /\ faults = 0
    /\ acked = {}
    /\ lost = {}
    /\ latest = [q \in Queues |-> 0]

-----------------------------------------------------------------------------
(***************************************************************************)
(* The contributors, by the API                                            *)
(***************************************************************************)

Request ==
    /\ changes < MaxChanges
    /\ changes' = changes + 1
    /\ UNCHANGED <<rabbit, process, outcome, faults>>

IsWhole(s) == s.broker # None <=> s.queue # None

\* A contributor that exists already is refused by the primary key.
Post(i) ==
    /\ Request
    /\ rows[i] = None
    /\ \E s \in Settings, a \in BOOLEAN :
          /\ IsWhole(s)
          /\ rows' = [rows EXCEPT ![i] = [active |-> a, conf |-> s]]

\* put() checks the types of the fields and nothing else.
Put(i) ==
    /\ Request
    /\ rows[i] # None
    /\ \E s \in Settings, a \in BOOLEAN :
          rows' = [rows EXCEPT ![i] = [active |-> a, conf |-> s]]

Delete(i) ==
    /\ Request
    /\ rows[i] # None
    /\ rows[i].active
    /\ rows' = [rows EXCEPT ![i] = [@ EXCEPT !.active = FALSE]]

-----------------------------------------------------------------------------
(***************************************************************************)
(* RabbitMQ                                                                *)
(***************************************************************************)

Fault ==
    /\ faults < MaxFaults
    /\ faults' = faults + 1

\* The exchange is a fanout.
ProviderPublishes(b) ==
    /\ published < MaxMessages
    /\ b \in up
    /\ published' = published + 1
    /\ queue' = [q \in DOMAIN queue |-> IF q[1] = b THEN Append(queue[q], published + 1)
                                                    ELSE queue[q]]
    /\ UNCHANGED <<api, up, process, outcome, faults>>

BrokerGoes(b) ==
    /\ b \in up
    /\ Fault
    /\ up' = up \ {b}
    /\ alive' = (alive /\ held.broker # b)
    /\ UNCHANGED <<api, queue, published, pc, loop, cached, failed, worker, current, outcome>>

BrokerComesBack(b) ==
    /\ b \notin up
    /\ up' = up \cup {b}
    /\ UNCHANGED <<api, queue, published, process, outcome, faults>>

-----------------------------------------------------------------------------
(***************************************************************************)
(* The loop of piv_worker()                                                *)
(***************************************************************************)

Active == {i \in Ids : rows[i] # None /\ rows[i].active}

\* A query of the active contributors: what the session has loaded and not expired
\* is not loaded again; it keeps what the process refers to.
Query(c, referred) ==
    [i \in Ids |-> IF i \notin referred THEN None
                   ELSE IF i \in Active /\ c[i] = None THEN rows[i] ELSE c[i]]

\* Seeded fault: the contributor is not expired.
EndsUnexpired(i, wait, c) ==
    /\ pc' = IF i = None THEN "dead" ELSE IF wait THEN "sleep" ELSE "start"
    /\ cached' = c

\* The finally of piv_worker(): it expires the contributor, which is not bound if
\* none was ever found, and the process dies.
Ends(i, wait, c) ==
    /\ pc' = IF i = None THEN "dead" ELSE IF wait THEN "sleep" ELSE "start"
    /\ cached' = IF i = None THEN c ELSE [c EXCEPT ![i] = None]

NoContributor ==
    /\ pc = "start"
    /\ ~failed
    /\ Active = {}
    /\ listed' = {}
    /\ Ends(chosen, TRUE, Query(cached, {chosen}))
    /\ UNCHANGED <<elsewhere, chosen, failed, worker, alive, current, faults>>

\* Seeded fault: only the URL of the broker is asked for.
IsUsableByUrl(s) == s.broker # None

\* The checks of PivWorker.__init__()
IsUsable(s) == s.broker # None /\ s.queue # None

\* The contributors come in any order.
Choose(i) ==
    /\ pc = "start"
    /\ ~failed
    /\ i \in Active
    /\ chosen' = i
    /\ listed' = Active
    /\ UNCHANGED <<elsewhere, failed, alive, current, faults>>

Starts(i) ==
    /\ Choose(i)
    /\ cached' = Query(cached, Active \cup {chosen})
    /\ IsUsable(cached'[i].conf)
    /\ held' = cached'[i].conf
    /\ due' = FALSE
    /\ stop' = FALSE
    /\ pc' = "enter"

Refuses(i) ==
    /\ Choose(i)
    /\ LET c == Query(cached, Active \cup {chosen})
       IN  ~IsUsable(c[i].conf) /\ Ends(i, TRUE, c)
    /\ UNCHANGED worker

\* The database fails, or the session had failed before.
DatabaseFails ==
    \/ failed /\ UNCHANGED <<failed, faults>>
    \/ ~failed /\ Fault /\ failed' \in BOOLEAN

ReadFails ==
    /\ pc = "start"
    /\ DatabaseFails
    /\ Ends(chosen, TRUE, cached)
    /\ UNCHANGED <<elsewhere, loop, worker, alive, current>>

\* A step of the worker that leaves the rest as it is
Goto(step) ==
    /\ pc' = step
    /\ UNCHANGED <<elsewhere, loop, cached, failed, worker, current, faults>>

WakesUp == pc = "sleep" /\ Goto("start") /\ UNCHANGED alive

\* __enter__(): the queue is declared and bound to the exchange.
Enter ==
    /\ pc = "enter"
    /\ held.broker \in up
    /\ queue' = [q \in DOMAIN queue \cup {QueueOf(held)} |->
                   IF q \in DOMAIN queue THEN queue[q] ELSE <<>>]
    /\ alive' = TRUE
    /\ pc' = "iterate"
    /\ UNCHANGED <<api, up, published, loop, cached, failed, worker, current, outcome, faults>>

EnterFails ==
    /\ pc = "enter"
    /\ held.broker \notin up
    /\ Ends(chosen, TRUE, cached)
    /\ UNCHANGED <<elsewhere, loop, failed, worker, alive, current, faults>>

-----------------------------------------------------------------------------
(***************************************************************************)
(* PivWorker.run()                                                         *)
(***************************************************************************)

IntervalPasses ==
    /\ pc \in Running
    /\ ~due
    /\ due' = TRUE
    /\ UNCHANGED <<elsewhere, pc, loop, cached, failed, held, stop, alive, current, faults>>

Stops ==
    /\ pc = "iterate"
    /\ stop
    /\ alive' = FALSE
    /\ Ends(chosen, FALSE, cached)
    /\ UNCHANGED <<elsewhere, loop, failed, worker, current, faults>>

NotDue == pc = "iterate" /\ ~stop /\ ~due /\ Goto("drain") /\ UNCHANGED alive

\* Seeded fault: a contributor that is not active any more goes unnoticed.
HasChangedIfActive(row) == row.conf # held

HasChanged(row) == ~row.active \/ row.conf # held

\* on_iteration(): the contributor is expired, so it is read again.
ChecksConfig ==
    /\ pc = "iterate"
    /\ ~stop
    /\ due
    /\ ~failed
    /\ due' = FALSE
    /\ stop' = HasChanged(rows[chosen])
    /\ cached' = Query([cached EXCEPT ![chosen] = rows[chosen]], listed \cup {chosen})
    /\ pc' = "drain"
    /\ UNCHANGED <<elsewhere, loop, failed, held, alive, current, faults>>

\* Seeded fault: the exception is caught in on_iteration().
CheckFailsLogged ==
    /\ pc = "iterate"
    /\ ~stop
    /\ due
    /\ DatabaseFails
    /\ due' = FALSE
    /\ pc' = "drain"
    /\ UNCHANGED <<elsewhere, loop, cached, held, stop, alive, current>>

\* The exception leaves run(), and the worker.
CheckFails ==
    /\ pc = "iterate"
    /\ ~stop
    /\ due
    /\ DatabaseFails
    /\ alive' = FALSE
    /\ Ends(chosen, FALSE, cached)
    /\ UNCHANGED <<elsewhere, loop, worker, current>>

Take ==
    /\ pc = "drain"
    /\ alive
    /\ queue[QueueOf(held)] # <<>>
    /\ current' = Head(queue[QueueOf(held)])
    /\ latest' = [latest EXCEPT ![QueueOf(held)] = current']
    /\ pc' = "handling"
    /\ UNCHANGED <<api, rabbit, loop, cached, failed, worker, alive, stored, faults, lost>>

\* Seeded fault: the message is acknowledged as it is received.
TakesMessageAcked ==
    /\ Take
    /\ acked' = acked \cup {<<QueueOf(held), current'>>}

\* prefetch_count is 1: the message stays at the head of the queue until its ack.
TakesMessage == Take /\ UNCHANGED acked

NoMessage ==
    /\ pc = "drain"
    /\ alive
    /\ queue[QueueOf(held)] = <<>>
    /\ Goto("iterate")
    /\ UNCHANGED alive

\* wrap_build(): every commit expires what the session has loaded.
HandlesMessage ==
    /\ pc = "handling"
    /\ ~failed
    /\ stored' = stored \cup {current}
    /\ cached' = Unloaded
    /\ pc' = "ack"
    /\ UNCHANGED <<api, rabbit, loop, failed, worker, alive, current, faults, acked, lost,
                   latest>>

\* A commit fails, the one of the message or a later one, or the session had failed.
HandlingFails ==
    /\ pc = "handling"
    /\ DatabaseFails
    /\ failed'
    /\ \/ lost' = lost \cup {current} /\ UNCHANGED <<stored, cached>>
       \/ /\ ~failed
          /\ stored' = stored \cup {current}
          /\ cached' = Unloaded
          /\ UNCHANGED lost
    /\ pc' = "ack"
    /\ UNCHANGED <<api, rabbit, loop, worker, alive, current, acked, latest>>

AfterHandling ==
    /\ pc = "ack"
    /\ alive
    /\ pc' = "iterate"
    /\ UNCHANGED <<api, up, published, loop, cached, failed, worker, alive, current, stored,
                   faults, lost, latest>>

\* Seeded fault: a message that was not stored goes to the end of the queue.
AckIfStored ==
    /\ AfterHandling
    /\ LET q == QueueOf(held) rest == Tail(queue[q])
       IN  IF current \in stored
           THEN queue' = [queue EXCEPT ![q] = rest] /\ acked' = acked \cup {<<q, current>>}
           ELSE queue' = [queue EXCEPT ![q] = Append(rest, current)] /\ UNCHANGED acked

\* The finally of process_message()
Ack ==
    /\ AfterHandling
    /\ queue' = [queue EXCEPT ![QueueOf(held)] = Tail(@)]
    /\ acked' = acked \cup {<<QueueOf(held), current>>}

LosesConnection ==
    /\ pc \in {"drain", "ack"}
    /\ ~alive
    /\ IF stop THEN Ends(chosen, FALSE, cached)
               ELSE pc' = "reconnect" /\ UNCHANGED cached
    /\ UNCHANGED <<elsewhere, loop, failed, worker, alive, current, faults>>

Reconnects ==
    /\ pc = "reconnect"
    /\ held.broker \in up
    /\ alive' = TRUE
    /\ Goto("iterate")

Crash ==
    /\ pc # "dead"
    /\ Fault
    /\ pc' = "dead"
    /\ alive' = FALSE
    /\ UNCHANGED <<elsewhere, loop, cached, failed, worker, current>>

Restart ==
    /\ pc = "dead"
    /\ pc' = "start"
    /\ chosen' = None
    /\ listed' = {}
    /\ cached' = Unloaded
    /\ failed' = FALSE
    /\ UNCHANGED <<elsewhere, worker, alive, current, faults>>

-----------------------------------------------------------------------------

Advance ==
    \/ NoContributor \/ (\E i \in Ids : Starts(i) \/ Refuses(i)) \/ (failed /\ ReadFails)
    \/ WakesUp \/ Enter \/ EnterFails
    \/ Stops \/ NotDue \/ ChecksConfig \/ (failed /\ CheckFails)
    \/ TakesMessage \/ NoMessage \/ HandlesMessage \/ (failed /\ HandlingFails) \/ Ack
    \/ LosesConnection \/ Reconnects \/ Restart

Next ==
    \/ \E i \in Ids : Post(i) \/ Put(i) \/ Delete(i)
    \/ \E b \in Brokers : ProviderPublishes(b) \/ BrokerGoes(b) \/ BrokerComesBack(b)
    \/ \E i \in Ids : Starts(i) \/ Refuses(i)
    \/ NoContributor \/ ReadFails \/ WakesUp \/ Enter \/ EnterFails
    \/ IntervalPasses \/ Stops \/ NotDue \/ ChecksConfig \/ CheckFails
    \/ TakesMessage \/ NoMessage \/ HandlesMessage \/ HandlingFails \/ Ack
    \/ LosesConnection \/ Reconnects \/ Crash \/ Restart

\* The process runs, and is started again when it died; time passes.  A broker
\* need not come back.
Fairness == WF_vars(Advance) /\ WF_vars(IntervalPasses)

Spec == Init /\ [][Next]_vars
FairSpec == Spec /\ Fairness

-----------------------------------------------------------------------------
(***************************************************************************)
(* Properties                                                              *)
(***************************************************************************)

\* No message is taken after a later one of its queue (the comment of
\* process_message() wants this of the messages of a train), though one may be
\* taken again when the process died or the connection was lost before its ack.
TakenInOrder == [][\A q \in Queues : latest'[q] >= latest[q]]_vars

\* A message that left its queue is stored, or its handling met a failed session:
\* crashes and lost connections lose none.
AckedIsDealtWith == \A a \in acked : a[2] \in stored \cup lost

\* A worker whose session is failed loses messages until it looks at its
\* configuration, and then takes no more: those that follow wait in the queue.
SickWorkerStops == failed ~> pc \in {"start", "sleep", "dead"}

IsStuck == failed \/ (pc = "reconnect" /\ held.broker \notin up)

\* Once the contributors are left alone the worker ends with the settings of one
\* that is active, whatever it had loaded or was connected to before; unless
\* its session is failed, or it seeks a broker that is gone.
SettlesOnConfig ==
    <>[](\/ IsStuck
         \/ pc \in {"iterate", "drain", "handling", "ack"} =>
               rows[chosen].active /\ rows[chosen].conf = held)

\* With a contributor that can be used and its broker up, the worker empties its
\* queue.  (Of several active contributors it may have chosen another.)
CanWork ==
    /\ ~IsStuck
    /\ Active # {}
    /\ \A i \in Active : IsWhole(rows[i].conf) /\ rows[i].conf.broker \in up

BacklogIsConsumed ==
    <>[](CanWork => /\ pc \in {"iterate", "drain"}
                    /\ queue[QueueOf(held)] = <<>>)

=============================================================================
