--------------------------- MODULE PivWorker_proofs ---------------------------
(***************************************************************************)
(* Proofs about PivWorker, for any contributors, settings and brokers: its *)
(* types are kept, a message is acknowledged only once it is dealt with,   *)
(* and the messages of a queue are taken in their order.                   *)
(***************************************************************************)
EXTENDS PivWorker, DataLemmas, TLAPS

-----------------------------------------------------------------------------
(***************************************************************************)
(* The inductive invariant                                                 *)
(***************************************************************************)

\* The types, by part of the state, so that a step is confronted with those of what
\* it changes only
ApiTypes ==
    /\ rows \in [Ids -> Row \cup {None}]
    /\ changes \in 0 .. MaxChanges

RabbitTypes ==
    /\ up \subseteq Brokers
    /\ DOMAIN queue \subseteq Queues
    /\ \A q \in DOMAIN queue : queue[q] \in Seq(Messages)
    /\ published \in 0 .. MaxMessages

LoopTypes ==
    /\ pc \in {"start", "sleep", "enter", "dead"} \cup Running
    /\ chosen \in Ids \cup {None}
    /\ listed \subseteq Ids
    /\ cached \in [Ids -> Row \cup {None}]
    /\ held \in Settings \cup {None}
    /\ failed \in BOOLEAN /\ due \in BOOLEAN /\ stop \in BOOLEAN /\ alive \in BOOLEAN

OutcomeTypes ==
    /\ stored \subseteq Messages /\ lost \subseteq Messages
    /\ faults \in 0 .. MaxFaults
    /\ acked \subseteq Queues \X Messages
    /\ latest \in [Queues -> 0 .. MaxMessages]

\* A worker that has entered serves the queue its contributor names, and handles the
\* message at its head.
Serves ==
    /\ pc \in Running \cup {"enter"} => chosen # None /\ QueueOf(held) \in Queues
    /\ pc \in Running => QueueOf(held) \in DOMAIN queue
    /\ pc \in {"handling", "ack"} => /\ queue[QueueOf(held)] # <<>>
                                     /\ current = Head(queue[QueueOf(held)])

\* The finally of process_message() comes after the handling.
HandledFirst ==
    /\ pc = "ack" => current \in stored \cup lost
    /\ AckedIsDealtWith

\* The messages are in the queues in the order of their publication, and no queue
\* goes back behind what was taken from it.
InOrder ==
    /\ \A q \in DOMAIN queue : \A i, j \in DOMAIN queue[q] :
          i < j => queue[q][i] < queue[q][j]
    /\ \A q \in DOMAIN queue : \A i \in DOMAIN queue[q] :
          latest[q] <= queue[q][i] /\ queue[q][i] <= published
    /\ \A q \in Queues : latest[q] <= published

Inv ==
    /\ ApiTypes
    /\ RabbitTypes
    /\ LoopTypes
    /\ OutcomeTypes
    /\ Serves
    /\ HandledFirst
    /\ InOrder

USE PivWorkerAssumption DEF PivWorkerAssumption

LEMMA TypesAre == TypeOK <=> /\ ApiTypes /\ RabbitTypes /\ LoopTypes /\ OutcomeTypes
                             /\ pc = "enter" => chosen # None /\ QueueOf(held) \in Queues
                             /\ pc \in Running => /\ chosen # None
                                                  /\ QueueOf(held) \in DOMAIN queue
                             /\ pc \in {"handling", "ack"} =>
                                   current = Head(queue[QueueOf(held)])
  BY DEF TypeOK, ApiTypes, RabbitTypes, LoopTypes, OutcomeTypes

-----------------------------------------------------------------------------
(***************************************************************************)
(* The initial states                                                      *)
(***************************************************************************)

LEMMA InitInv == Init => Inv
<1> SUFFICES ASSUME Init PROVE Inv
  OBVIOUS
<1>1. ApiTypes
  <2>1. PICK i \in Ids, c \in Settings :
           rows = [Unloaded EXCEPT ![i] = [active |-> TRUE, conf |-> c]]
    BY DEF Init
  <2>2. [active |-> TRUE, conf |-> c] \in Row
    BY DEF Row
  <2>3. rows \in [Ids -> Row \cup {None}]
    BY <2>1, <2>2 DEF Unloaded
  <2>4. QED
    BY <2>3 DEF Init, ApiTypes
<1>2. RabbitTypes
  BY DEF Init, RabbitTypes
<1>3. LoopTypes
  BY DEF Init, LoopTypes, Unloaded
<1>4. OutcomeTypes
  BY DEF Init, OutcomeTypes
<1>5. Serves /\ HandledFirst
  BY DEF Init, Serves, HandledFirst, Running, AckedIsDealtWith
<1>6. InOrder
  BY DEF Init, InOrder
<1>7. QED
  BY <1>1, <1>2, <1>3, <1>4, <1>5, <1>6 DEF Inv

-----------------------------------------------------------------------------
(***************************************************************************)
(* What the steps leave alone                                              *)
(***************************************************************************)

\* The contributors are changed by the API only.
LEMMA KeepsApi ==
    ASSUME [Next]_vars
    PROVE  UNCHANGED api \/ \E i \in Ids : Post(i) \/ Put(i) \/ Delete(i)
  BY DEF Next, vars, process, elsewhere, outcome, ProviderPublishes, BrokerGoes,
         BrokerComesBack, Starts, Refuses, Choose, NoContributor, ReadFails, WakesUp, Goto,
         Enter, EnterFails, IntervalPasses, Stops, NotDue, ChecksConfig, CheckFails,
         TakesMessage, Take, NoMessage, HandlesMessage, HandlingFails, Ack, AfterHandling,
         LosesConnection, Reconnects, Crash, Restart

\* The queues are changed by the providers, by the worker that declares its own and
\* by its acknowledgements.
LEMMA KeepsRabbit ==
    ASSUME [Next]_vars
    PROVE  \/ UNCHANGED rabbit
           \/ \E b \in Brokers : ProviderPublishes(b) \/ BrokerGoes(b) \/ BrokerComesBack(b)
           \/ Enter
           \/ Ack
  BY DEF Next, vars, process, elsewhere, outcome, rabbit, Request, Post, Put, Delete,
         Starts, Refuses, Choose, NoContributor, ReadFails, WakesUp, Goto,
         EnterFails, IntervalPasses, Stops, NotDue, ChecksConfig, CheckFails,
         TakesMessage, Take, NoMessage, HandlesMessage, HandlingFails,
         LosesConnection, Reconnects, Crash, Restart

\* What became of the messages is changed by their handling.
LEMMA KeepsOutcome ==
    ASSUME [Next]_vars
    PROVE  UNCHANGED outcome \/ TakesMessage \/ HandlesMessage \/ HandlingFails \/ Ack
  BY DEF Next, vars, process, elsewhere, outcome, Request, Post, Put, Delete,
         ProviderPublishes, BrokerGoes, BrokerComesBack, Enter,
         Starts, Refuses, Choose, NoContributor, ReadFails, WakesUp, Goto,
         EnterFails, IntervalPasses, Stops, NotDue, ChecksConfig, CheckFails,
         NoMessage, LosesConnection, Reconnects, Crash, Restart

-----------------------------------------------------------------------------
(***************************************************************************)
(* Types                                                                   *)
(***************************************************************************)

LEMMA NextApiTypes ==
    ASSUME ApiTypes, [Next]_vars
    PROVE  ApiTypes'
<1>1. CASE UNCHANGED api
  BY <1>1 DEF api, ApiTypes
<1>2. ASSUME NEW i \in Ids, Post(i) \/ Put(i) PROVE ApiTypes'
  <2>1. PICK c \in Settings, a \in BOOLEAN :
           rows' = [rows EXCEPT ![i] = [active |-> a, conf |-> c]]
    BY <1>2 DEF Post, Put
  <2>2. [active |-> a, conf |-> c] \in Row
    BY DEF Row
  <2>3. changes' \in 0 .. MaxChanges
    BY <1>2 DEF Post, Put, Request, ApiTypes
  <2>4. QED
    BY <2>1, <2>2, <2>3 DEF ApiTypes
<1>3. ASSUME NEW i \in Ids, Delete(i) PROVE ApiTypes'
  <2>1. rows[i] \in Row
    BY <1>3 DEF Delete, ApiTypes
  <2>2. [rows[i] EXCEPT !.active = FALSE] \in Row
    BY <2>1 DEF Row
  <2>3. changes' \in 0 .. MaxChanges
    BY <1>3 DEF Delete, Request, ApiTypes
  <2>4. QED
    BY <1>3, <2>2, <2>3 DEF Delete, ApiTypes
<1>4. QED
  BY <1>1, <1>2, <1>3, KeepsApi

LEMMA NextRabbitTypes ==
    ASSUME RabbitTypes, Serves, [Next]_vars
    PROVE  RabbitTypes'
<1>1. CASE UNCHANGED rabbit
  BY <1>1 DEF rabbit, RabbitTypes
<1>2. ASSUME NEW b \in Brokers, ProviderPublishes(b) PROVE RabbitTypes'
  <2>1. /\ queue' = [q \in DOMAIN queue |-> IF q[1] = b THEN Append(queue[q], published + 1)
                                                        ELSE queue[q]]
        /\ up' = up /\ published' = published + 1
        /\ published + 1 \in Messages
    BY <1>2 DEF ProviderPublishes, RabbitTypes, Messages
  <2>2. \A q \in DOMAIN queue' : queue'[q] \in Seq(Messages)
    BY <2>1, Added DEF RabbitTypes
  <2>3. QED
    BY <2>1, <2>2 DEF RabbitTypes, Messages
<1>3. ASSUME NEW b \in Brokers, BrokerGoes(b) \/ BrokerComesBack(b) PROVE RabbitTypes'
  BY <1>3 DEF BrokerGoes, BrokerComesBack, RabbitTypes
<1>4. CASE Enter
  <2>1. /\ queue' = [q \in DOMAIN queue \cup {QueueOf(held)} |->
                       IF q \in DOMAIN queue THEN queue[q] ELSE <<>>]
        /\ UNCHANGED <<up, published>>
        /\ QueueOf(held) \in Queues
    BY <1>4 DEF Enter, Serves
  <2>2. \A q \in DOMAIN queue' : queue'[q] \in Seq(Messages)
    BY <2>1 DEF RabbitTypes
  <2>3. QED
    BY <2>1, <2>2 DEF RabbitTypes
<1>5. CASE Ack
  <2>1. /\ queue' = [queue EXCEPT ![QueueOf(held)] = Tail(@)]
        /\ UNCHANGED <<up, published>>
        /\ QueueOf(held) \in DOMAIN queue
        /\ queue[QueueOf(held)] # <<>>
    BY <1>5 DEF Ack, AfterHandling, Serves, Running
  <2>2. \A q \in DOMAIN queue' : queue'[q] \in Seq(Messages)
    BY <2>1, Taken DEF RabbitTypes
  <2>3. QED
    BY <2>1, <2>2 DEF RabbitTypes
<1>6. QED
  BY <1>1, <1>2, <1>3, <1>4, <1>5, KeepsRabbit

\* What a session may hold after a query is what the rows are or what it held.
LEMMA QueryTypes ==
    ASSUME ApiTypes, NEW c \in [Ids -> Row \cup {None}], NEW referred
    PROVE  /\ Query(c, referred) \in [Ids -> Row \cup {None}]
           /\ \A i \in Active : i \in referred => Query(c, referred)[i] \in Row
<1>1. \A i \in Active : rows[i] \in Row /\ i \in Ids
  BY DEF Active, ApiTypes
<1>2. QED
  BY <1>1 DEF Query

LEMMA EndsTypes ==
    ASSUME NEW i \in Ids \cup {None}, NEW wait \in BOOLEAN,
           NEW c \in [Ids -> Row \cup {None}], Ends(i, wait, c)
    PROVE  pc' \in {"start", "sleep", "dead"} /\ cached' \in [Ids -> Row \cup {None}]
  BY DEF Ends

\* The settings a worker is built with name a queue.
LEMMA StartsTypes ==
    ASSUME ApiTypes, LoopTypes, NEW i \in Ids, Starts(i)
    PROVE  /\ LoopTypes'
           /\ pc' = "enter" /\ chosen' = i
           /\ QueueOf(held') \in Queues
<1> DEFINE c == Query(cached, Active \cup {chosen})
<1>1. c \in [Ids -> Row \cup {None}] /\ c[i] \in Row
  BY QueryTypes DEF Starts, Choose, LoopTypes
<1>2. /\ cached' = c /\ held' = c[i].conf /\ IsUsable(c[i].conf)
      /\ pc' = "enter" /\ chosen' = i /\ listed' = Active /\ due' = FALSE /\ stop' = FALSE
      /\ UNCHANGED <<failed, alive>>
  BY DEF Starts, Choose
<1>3. held' \in Settings
  BY <1>1, <1>2 DEF Row
<1>4. held'.broker \in Brokers /\ held'.queue \in Names
  BY <1>2, <1>3 DEF IsUsable, Names
<1>5. QueueOf(held') \in Queues
  BY <1>4 DEF QueueOf, Queues
<1>6. Active \subseteq Ids
  BY DEF Active
<1>7. QED
  BY <1>1, <1>2, <1>3, <1>5, <1>6 DEF LoopTypes

\* ChecksConfig: what the session holds of the contributor is what its row is.
LEMMA ChecksTypes ==
    ASSUME ApiTypes, LoopTypes, ChecksConfig
    PROVE  LoopTypes'
<1> DEFINE c == [cached EXCEPT ![chosen] = rows[chosen]]
<1>1. c \in [Ids -> Row \cup {None}]
  BY DEF ApiTypes, LoopTypes
<1>2. cached' \in [Ids -> Row \cup {None}]
  BY <1>1, QueryTypes DEF ChecksConfig
<1>3. stop' \in BOOLEAN
  BY DEF ChecksConfig, HasChanged
<1>4. QED
  BY <1>2, <1>3 DEF ChecksConfig, LoopTypes, Running, loop

\* The steps that end the work with a contributor
EndsWork ==
    \/ NoContributor \/ (\E i \in Ids : Refuses(i)) \/ ReadFails \/ EnterFails \/ Stops
    \/ CheckFails
    \/ stop /\ LosesConnection

LEMMA EndsWorkTypes ==
    ASSUME ApiTypes, LoopTypes, EndsWork
    PROVE  LoopTypes' /\ pc' \in {"start", "sleep", "dead"}
<1>1. CASE NoContributor
  <2>1. Query(cached, {chosen}) \in [Ids -> Row \cup {None}]
    BY QueryTypes DEF LoopTypes
  <2>2. pc' \in {"start", "sleep", "dead"} /\ cached' \in [Ids -> Row \cup {None}]
    BY <1>1, <2>1, EndsTypes DEF NoContributor, LoopTypes
  <2>3. QED
    BY <1>1, <2>2 DEF NoContributor, LoopTypes, worker
<1>2. ASSUME NEW i \in Ids, Refuses(i)
      PROVE  LoopTypes' /\ pc' \in {"start", "sleep", "dead"}
  <2>1. Query(cached, Active \cup {chosen}) \in [Ids -> Row \cup {None}]
    BY QueryTypes DEF LoopTypes
  <2>2. pc' \in {"start", "sleep", "dead"} /\ cached' \in [Ids -> Row \cup {None}]
    BY <1>2, <2>1, EndsTypes DEF Refuses
  <2>3. chosen' = i /\ listed' \subseteq Ids /\ UNCHANGED <<held, failed, due, stop, alive>>
    BY <1>2 DEF Refuses, Choose, Active, worker
  <2>4. QED
    BY <2>2, <2>3 DEF LoopTypes
<1>3. CASE ReadFails \/ EnterFails \/ Stops \/ CheckFails \/ (stop /\ LosesConnection)
  <2>1. \E wait \in BOOLEAN : Ends(chosen, wait, cached)
    BY <1>3 DEF ReadFails, EnterFails, Stops, CheckFails, LosesConnection
  <2>2. pc' \in {"start", "sleep", "dead"} /\ cached' \in [Ids -> Row \cup {None}]
    BY <2>1, EndsTypes DEF LoopTypes
  <2>3. failed' \in BOOLEAN
    BY <1>3 DEF ReadFails, EnterFails, Stops, CheckFails, LosesConnection, DatabaseFails,
                LoopTypes
  <2>4. alive' \in BOOLEAN
    BY <1>3 DEF ReadFails, EnterFails, Stops, CheckFails, LosesConnection, LoopTypes
  <2>5. UNCHANGED <<chosen, listed, held, due, stop>>
    BY <1>3 DEF ReadFails, EnterFails, Stops, CheckFails, LosesConnection, loop, worker
  <2>6. QED
    BY <2>2, <2>3, <2>4, <2>5 DEF LoopTypes
<1>4. QED
  BY <1>1, <1>2, <1>3 DEF EndsWork

LEMMA NextLoopTypes ==
    ASSUME ApiTypes, LoopTypes, [Next]_vars
    PROVE  LoopTypes'
<1> USE DEF LoopTypes, Running
<1>1. ASSUME NEW i \in Ids, Post(i) \/ Put(i) \/ Delete(i) PROVE LoopTypes'
  BY <1>1 DEF Post, Put, Delete, Request, process, loop, worker
<1>2. ASSUME NEW b \in Brokers, ProviderPublishes(b) \/ BrokerComesBack(b) PROVE LoopTypes'
  BY <1>2 DEF ProviderPublishes, BrokerComesBack, process, loop, worker
<1>3. ASSUME NEW b \in Brokers, BrokerGoes(b) PROVE LoopTypes'
  <2>1. alive' \in BOOLEAN
    BY <1>3 DEF BrokerGoes
  <2>2. UNCHANGED <<pc, chosen, listed, cached, held, failed, due, stop>>
    BY <1>3 DEF BrokerGoes, loop, worker
  <2>3. QED
    BY <2>1, <2>2
<1>4. CASE EndsWork
  BY <1>4, EndsWorkTypes
<1>5. CASE \E i \in Ids : Starts(i)
  BY <1>5, StartsTypes
<1>6. CASE WakesUp \/ NotDue \/ NoMessage \/ Reconnects
  BY <1>6 DEF WakesUp, NotDue, NoMessage, Reconnects, Goto, loop, worker
<1>7. CASE Enter \/ IntervalPasses
  BY <1>7 DEF Enter, IntervalPasses, loop, worker
<1>8. CASE ChecksConfig
  BY <1>8, ChecksTypes
<1>9. CASE TakesMessage \/ Ack
  BY <1>9 DEF TakesMessage, Take, Ack, AfterHandling, loop, worker
<1>10. CASE HandlesMessage \/ HandlingFails
  <2>1. cached' \in [Ids -> Row \cup {None}]
    BY <1>10 DEF HandlesMessage, HandlingFails, Unloaded
  <2>2. failed' \in BOOLEAN
    BY <1>10 DEF HandlesMessage, HandlingFails, DatabaseFails
  <2>3. pc' = "ack" /\ UNCHANGED <<chosen, listed, held, due, stop, alive>>
    BY <1>10 DEF HandlesMessage, HandlingFails, loop, worker
  <2>4. QED
    BY <2>1, <2>2, <2>3
<1>11. CASE ~stop /\ LosesConnection
  BY <1>11 DEF LosesConnection, loop, worker
<1>12. CASE Crash
  BY <1>12 DEF Crash, loop, worker
<1>13. CASE Restart
  BY <1>13 DEF Restart, Unloaded, worker
<1>14. CASE UNCHANGED vars
  BY <1>14 DEF vars, process, loop, worker
<1>15. QED
  BY <1>1, <1>2, <1>3, <1>4, <1>5, <1>6, <1>7, <1>8, <1>9, <1>10, <1>11, <1>12, <1>13, <1>14
  DEF Next, EndsWork

\* The message that is handled is one of its queue.
LEMMA CurrentIs ==
    ASSUME RabbitTypes, Serves, pc \in {"handling", "ack"}
    PROVE  /\ QueueOf(held) \in DOMAIN queue
           /\ queue[QueueOf(held)] \in Seq(Messages)
           /\ queue[QueueOf(held)] # <<>>
           /\ current = Head(queue[QueueOf(held)])
           /\ current \in Messages
<1>1. QueueOf(held) \in DOMAIN queue
  BY DEF Serves, Running
<1>2. QED
  BY <1>1, Taken DEF Serves, RabbitTypes

LEMMA NextOutcomeTypes ==
    ASSUME RabbitTypes, OutcomeTypes, Serves, [Next]_vars
    PROVE  OutcomeTypes'
<1>1. faults' \in 0 .. MaxFaults
  <2>1. faults' = faults \/ Fault
    BY DEF Next, vars, process, elsewhere, outcome, rabbit, api, loop, worker, Request, Post,
           Put, Delete, ProviderPublishes, BrokerGoes, BrokerComesBack,
           Starts, Refuses, Choose, NoContributor, ReadFails, WakesUp, Goto, Enter,
           EnterFails, IntervalPasses, Stops, NotDue, ChecksConfig, CheckFails,
           TakesMessage, Take, NoMessage, HandlesMessage, HandlingFails, Ack, AfterHandling,
           LosesConnection, Reconnects, Crash, Restart, DatabaseFails
  <2>2. QED
    BY <2>1 DEF Fault, OutcomeTypes
<1>2. CASE UNCHANGED outcome
  BY <1>1, <1>2 DEF outcome, OutcomeTypes
<1>3. CASE TakesMessage
  <2>1. pc = "drain" /\ queue[QueueOf(held)] # <<>> /\ current' = Head(queue[QueueOf(held)])
    BY <1>3 DEF TakesMessage, Take
  <2>2. QueueOf(held) \in DOMAIN queue
    BY <2>1 DEF Serves, Running
  <2>3. current' \in Messages
    BY <2>1, <2>2, Taken DEF RabbitTypes
  <2>4. latest' = [latest EXCEPT ![QueueOf(held)] = current']
    BY <1>3 DEF TakesMessage, Take
  <2>5. latest' \in [Queues -> 0 .. MaxMessages]
    <3>1. current' \in 0 .. MaxMessages
      BY <2>3 DEF Messages
    <3>2. QED
      BY <2>4, <3>1 DEF OutcomeTypes
  <2>6. UNCHANGED <<stored, lost, acked>>
    BY <1>3 DEF TakesMessage, Take
  <2>7. QED
    BY <1>1, <2>5, <2>6 DEF OutcomeTypes
<1>4. CASE HandlesMessage \/ HandlingFails
  <2>1. current \in Messages
    BY <1>4, CurrentIs DEF HandlesMessage, HandlingFails
  <2>2. /\ stored' = stored \/ stored' = stored \cup {current}
        /\ lost' = lost \/ lost' = lost \cup {current}
        /\ UNCHANGED <<acked, latest>>
    BY <1>4 DEF HandlesMessage, HandlingFails
  <2>3. QED
    BY <1>1, <2>1, <2>2 DEF OutcomeTypes
<1>5. CASE Ack
  <2>1. current \in Messages /\ QueueOf(held) \in Queues
    BY <1>5, CurrentIs DEF Ack, AfterHandling, RabbitTypes
  <2>2. QED
    BY <1>1, <1>5, <2>1 DEF Ack, AfterHandling, OutcomeTypes
<1>6. QED
  BY <1>2, <1>3, <1>4, <1>5, KeepsOutcome

-----------------------------------------------------------------------------
(***************************************************************************)
(* The worker and its queue                                                *)
(***************************************************************************)

\* A queue keeps its place, and its head as long as it is not acknowledged.
LEMMA QueuesStay ==
    ASSUME RabbitTypes, Serves, [Next]_vars, ~Ack
    PROVE  /\ DOMAIN queue \subseteq DOMAIN queue'
           /\ \A q \in DOMAIN queue : queue[q] # <<>> => /\ queue'[q] # <<>>
                                                         /\ Head(queue'[q]) = Head(queue[q])
<1>1. CASE UNCHANGED queue
  BY <1>1
<1>2. ASSUME NEW b \in Brokers, ProviderPublishes(b)
      PROVE  /\ DOMAIN queue \subseteq DOMAIN queue'
             /\ \A q \in DOMAIN queue : queue[q] # <<>> => /\ queue'[q] # <<>>
                                                           /\ Head(queue'[q]) = Head(queue[q])
  <2>1. /\ queue' = [q \in DOMAIN queue |-> IF q[1] = b THEN Append(queue[q], published + 1)
                                                        ELSE queue[q]]
        /\ published + 1 \in Messages
    BY <1>2 DEF ProviderPublishes, RabbitTypes, Messages
  <2>2. QED
    BY <2>1, Added DEF RabbitTypes
<1>3. CASE Enter
  BY <1>3 DEF Enter
<1>4. CASE \E b \in Brokers : BrokerGoes(b) \/ BrokerComesBack(b)
  BY <1>4 DEF BrokerGoes, BrokerComesBack
<1>5. QED
  BY <1>1, <1>2, <1>3, <1>4, KeepsRabbit DEF rabbit

\* What a step of the process does to its place
LEMMA Moves ==
    ASSUME [Next]_vars
    PROVE  \/ UNCHANGED <<pc, chosen, held, current>>
           \/ \E i \in Ids : Starts(i)
           \/ pc' \in {"start", "sleep", "dead"}
           \/ Enter
           \/ TakesMessage
           \/ /\ pc \in {"handling", "ack"} /\ pc' = "ack"
              /\ UNCHANGED <<chosen, held, current>>
           \/ /\ pc \in Running /\ pc' \in Running \ {"handling", "ack"}
              /\ UNCHANGED <<chosen, held>>
           \/ EndsWork
  BY DEF Next, vars, process, elsewhere, outcome, rabbit, api, loop, worker, Request, Post,
         Put, Delete, ProviderPublishes, BrokerGoes, BrokerComesBack,
         WakesUp, Goto, IntervalPasses, NotDue, ChecksConfig, Running,
         NoMessage, HandlesMessage, HandlingFails, Ack, AfterHandling,
         LosesConnection, Reconnects, Crash, Restart, EndsWork

LEMMA NextServes ==
    ASSUME ApiTypes, RabbitTypes, LoopTypes, Serves, [Next]_vars
    PROVE  Serves'
<1>1. CASE UNCHANGED <<pc, chosen, held, current>> /\ ~Ack
  <2>1. DOMAIN queue \subseteq DOMAIN queue'
    BY <1>1, QueuesStay
  <2>2. pc \in {"handling", "ack"} =>
           /\ queue'[QueueOf(held)] # <<>> /\ current = Head(queue'[QueueOf(held)])
    BY <1>1, CurrentIs, QueuesStay
  <2>3. QED
    BY <1>1, <2>1, <2>2 DEF Serves, QueueOf
<1>2. ASSUME NEW i \in Ids, Starts(i) PROVE Serves'
  BY <1>2, StartsTypes DEF Serves, Running, QueueOf
<1>3. CASE pc' \in {"start", "sleep", "dead"} \/ EndsWork
  BY <1>3, EndsWorkTypes DEF Serves, Running
<1>4. CASE Enter
  <2>1. /\ QueueOf(held) \in DOMAIN queue' /\ QueueOf(held) \in Queues
        /\ pc' = "iterate" /\ chosen # None /\ UNCHANGED <<chosen, held>>
    BY <1>4 DEF Enter, Serves, loop, worker
  <2>2. QED
    BY <2>1 DEF Serves, Running, QueueOf
<1>5. CASE TakesMessage
  <2>1. /\ pc = "drain" /\ pc' = "handling"
        /\ queue[QueueOf(held)] # <<>> /\ current' = Head(queue[QueueOf(held)])
        /\ UNCHANGED <<queue, chosen, held>>
    BY <1>5 DEF TakesMessage, Take, rabbit, loop, worker
  <2>2. QED
    BY <2>1 DEF Serves, Running, QueueOf
<1>6. CASE pc \in {"handling", "ack"} /\ pc' = "ack" /\ UNCHANGED <<chosen, held, current>>
  <2>1. ~Ack
    BY <1>6 DEF Ack, AfterHandling
  <2>2. QED
    BY <1>6, <2>1, CurrentIs, QueuesStay DEF Serves, Running, QueueOf
<1>7. CASE pc \in Running /\ pc' \in Running \ {"handling", "ack"} /\ UNCHANGED <<chosen, held>>
  <2>1. DOMAIN queue \subseteq DOMAIN queue'
    <3>1. CASE Ack
      BY <3>1 DEF Ack
    <3>2. CASE ~Ack
      BY <3>2, QueuesStay
    <3>3. QED
      BY <3>1, <3>2
  <2>2. QED
    BY <1>7, <2>1 DEF Serves, QueueOf
<1>8. Ack => pc = "ack" /\ pc' = "iterate"
  BY DEF Ack, AfterHandling
<1>9. QED
  BY <1>1, <1>2, <1>3, <1>4, <1>5, <1>6, <1>7, <1>8, Moves

-----------------------------------------------------------------------------
(***************************************************************************)
(* What becomes of the messages                                            *)
(***************************************************************************)

LEMMA NextHandledFirst ==
    ASSUME OutcomeTypes, HandledFirst, [Next]_vars
    PROVE  HandledFirst'
<1>1. /\ stored \subseteq stored' /\ lost \subseteq lost'
      /\ \/ UNCHANGED acked
         \/ Ack
  <2>1. TakesMessage \/ HandlesMessage \/ HandlingFails \/ Ack =>
           /\ stored \subseteq stored' /\ lost \subseteq lost'
           /\ UNCHANGED acked \/ Ack
    BY DEF TakesMessage, Take, HandlesMessage, HandlingFails, Ack, AfterHandling
  <2>2. QED
    BY <2>1, KeepsOutcome DEF outcome
<1>2. AckedIsDealtWith'
  <2>1. CASE UNCHANGED acked
    BY <1>1, <2>1 DEF HandledFirst, AckedIsDealtWith
  <2>2. CASE Ack
    <3>1. acked' = acked \cup {<<QueueOf(held), current>>} /\ current \in stored \cup lost
      BY <2>2 DEF Ack, AfterHandling, HandledFirst
    <3>2. QED
      BY <1>1, <3>1 DEF HandledFirst, AckedIsDealtWith
  <2>3. QED
    BY <1>1, <2>1, <2>2
<1>3. ASSUME pc' = "ack" PROVE current' \in stored' \cup lost'
  <2>1. CASE HandlesMessage \/ HandlingFails
    BY <2>1 DEF HandlesMessage, HandlingFails
  <2>2. CASE UNCHANGED <<pc, current>>
    BY <1>1, <1>3, <2>2 DEF HandledFirst
  <2>3. \/ HandlesMessage \/ HandlingFails
        \/ UNCHANGED <<pc, current>>
    BY <1>3
    DEF Next, vars, process, elsewhere, outcome, rabbit, api, loop, worker, Request, Post,
        Put, Delete, ProviderPublishes, BrokerGoes, BrokerComesBack,
        Starts, Refuses, Choose, Ends, NoContributor, ReadFails, WakesUp, Goto, Enter,
        EnterFails, IntervalPasses, Stops, NotDue, ChecksConfig, CheckFails,
        TakesMessage, Take, NoMessage, Ack, AfterHandling,
        LosesConnection, Reconnects, Crash, Restart
  <2>4. QED
    BY <2>1, <2>2, <2>3
<1>4. QED
  BY <1>2, <1>3 DEF HandledFirst

-----------------------------------------------------------------------------
(***************************************************************************)
(* The order of the messages                                               *)
(***************************************************************************)

\* InOrder is about each queue by itself: its messages go up, from what was taken
\* from it to what was published.
IsInOrder(s, from, to) ==
    /\ \A i, j \in DOMAIN s : i < j => s[i] < s[j]
    /\ \A i \in DOMAIN s : from <= s[i] /\ s[i] <= to

LEMMA InOrderIs == InOrder <=> /\ \A q \in DOMAIN queue :
                                     IsInOrder(queue[q], latest[q], published)
                               /\ \A q \in Queues : latest[q] <= published
  BY DEF InOrder, IsInOrder

LEMMA AddedInOrder ==
    ASSUME NEW s \in Seq(Messages), NEW from \in Nat, NEW to \in Nat,
           IsInOrder(s, from, to), from <= to, to + 1 \in Messages
    PROVE  IsInOrder(Append(s, to + 1), from, to + 1) /\ IsInOrder(s, from, to + 1)
<1>1. \A i \in DOMAIN s : s[i] \in Nat /\ from <= s[i] /\ s[i] <= to /\ s[i] <= to + 1
  BY Added DEF IsInOrder, Messages
<1>2. IsInOrder(s, from, to + 1)
  BY <1>1 DEF IsInOrder
<1>3. /\ DOMAIN s = 1 .. Len(s) /\ Len(s) \in Nat
      /\ DOMAIN Append(s, to + 1) = 1 .. Len(s) + 1
      /\ \A i \in DOMAIN s : Append(s, to + 1)[i] = s[i]
      /\ Append(s, to + 1)[Len(s) + 1] = to + 1
  BY Added
<1>4. ASSUME NEW i \in 1 .. Len(s) + 1, NEW j \in 1 .. Len(s) + 1, i < j
      PROVE  Append(s, to + 1)[i] < Append(s, to + 1)[j]
  <2>1. i \in DOMAIN s
    BY <1>3, <1>4
  <2>2. CASE j = Len(s) + 1
    BY <1>1, <1>3, <2>1, <2>2
  <2>3. CASE j \in DOMAIN s
    BY <1>3, <1>4, <2>1, <2>3 DEF IsInOrder
  <2>4. QED
    BY <1>3, <2>2, <2>3
<1>5. ASSUME NEW i \in 1 .. Len(s) + 1
      PROVE  from <= Append(s, to + 1)[i] /\ Append(s, to + 1)[i] <= to + 1
  <2>1. CASE i = Len(s) + 1
    BY <1>3, <2>1
  <2>2. CASE i \in DOMAIN s
    BY <1>1, <1>3, <2>2
  <2>3. QED
    BY <1>3, <2>1, <2>2
<1>6. QED
  BY <1>2, <1>3, <1>4, <1>5 DEF IsInOrder

\* The head of a queue comes before the rest of it.
LEMMA TakenInOrderOf ==
    ASSUME NEW s \in Seq(Messages), s # <<>>, NEW from \in Nat, NEW to \in Nat,
           IsInOrder(s, from, to)
    PROVE  /\ IsInOrder(Tail(s), from, to)
           /\ IsInOrder(s, Head(s), to)
           /\ from <= Head(s) /\ Head(s) <= to
<1>1. /\ Head(s) = s[1] /\ 1 \in DOMAIN s
      /\ DOMAIN s = 1 .. Len(s)
      /\ \A i \in DOMAIN Tail(s) : /\ i \in Nat /\ i + 1 \in DOMAIN s
                                   /\ Tail(s)[i] = s[i + 1]
  BY Taken
<1>2. from <= Head(s) /\ Head(s) <= to
  BY <1>1 DEF IsInOrder
<1>3. \A i \in DOMAIN s : s[1] <= s[i]
  <2> SUFFICES ASSUME NEW i \in DOMAIN s PROVE s[1] <= s[i]
    OBVIOUS
  <2>1. s[1] \in Nat /\ s[i] \in Nat
    BY <1>1, Added DEF Messages
  <2>2. CASE i = 1
    BY <2>1, <2>2
  <2>3. CASE 1 < i
    BY <1>1, <2>1, <2>3 DEF IsInOrder
  <2>4. QED
    BY <1>1, <2>2, <2>3
<1>4. IsInOrder(s, Head(s), to)
  BY <1>1, <1>3 DEF IsInOrder
<1>5. \A i, j \in DOMAIN Tail(s) : i < j => Tail(s)[i] < Tail(s)[j]
  <2> SUFFICES ASSUME NEW i \in DOMAIN Tail(s), NEW j \in DOMAIN Tail(s), i < j
               PROVE  Tail(s)[i] < Tail(s)[j]
    OBVIOUS
  <2>1. i + 1 \in DOMAIN s /\ j + 1 \in DOMAIN s /\ i + 1 < j + 1
    BY <1>1
  <2>2. QED
    BY <1>1, <2>1 DEF IsInOrder
<1>6. QED
  BY <1>1, <1>2, <1>4, <1>5 DEF IsInOrder

\* A message is taken after those that were taken before it.
LEMMA TakesInOrder ==
    ASSUME RabbitTypes, OutcomeTypes, Serves, InOrder, TakesMessage
    PROVE  /\ QueueOf(held) \in DOMAIN queue
           /\ latest' = [latest EXCEPT ![QueueOf(held)] = Head(queue[QueueOf(held)])]
           /\ latest[QueueOf(held)] <= Head(queue[QueueOf(held)])
           /\ Head(queue[QueueOf(held)]) <= published
           /\ IsInOrder(queue[QueueOf(held)], Head(queue[QueueOf(held)]), published)
<1>1. QueueOf(held) \in DOMAIN queue /\ queue[QueueOf(held)] # <<>>
  BY DEF TakesMessage, Take, Serves, Running
<1>2. queue[QueueOf(held)] \in Seq(Messages)
  BY <1>1 DEF RabbitTypes
<1>3. IsInOrder(queue[QueueOf(held)], latest[QueueOf(held)], published)
  BY <1>1, InOrderIs
<1>4. latest[QueueOf(held)] \in Nat /\ published \in Nat
  BY <1>1 DEF RabbitTypes, OutcomeTypes
<1>5. QED
  BY <1>1, <1>2, <1>3, <1>4, TakenInOrderOf DEF TakesMessage, Take

LEMMA NextInOrder ==
    ASSUME RabbitTypes, OutcomeTypes, Serves, InOrder, [Next]_vars
    PROVE  InOrder'
<1>1. /\ published \in Nat
      /\ \A q \in Queues : latest[q] \in Nat /\ latest[q] <= published
      /\ \A q \in DOMAIN queue : /\ q \in Queues
                                 /\ queue[q] \in Seq(Messages)
                                 /\ IsInOrder(queue[q], latest[q], published)
  BY InOrderIs DEF RabbitTypes, OutcomeTypes
<1>2. ASSUME NEW b \in Brokers, ProviderPublishes(b) PROVE InOrder'
  <2>1. /\ queue' = [q \in DOMAIN queue |-> IF q[1] = b THEN Append(queue[q], published + 1)
                                                        ELSE queue[q]]
        /\ published' = published + 1 /\ published + 1 \in Messages
        /\ latest' = latest
    BY <1>2 DEF ProviderPublishes, RabbitTypes, Messages, outcome
  <2>2. \A q \in DOMAIN queue' : IsInOrder(queue'[q], latest'[q], published')
    BY <1>1, <2>1, AddedInOrder
  <2>3. \A q \in Queues : latest'[q] <= published'
    BY <1>1, <2>1
  <2>4. QED
    BY <2>2, <2>3 DEF InOrder, IsInOrder
<1>3. CASE Enter
  <2>1. /\ queue' = [q \in DOMAIN queue \cup {QueueOf(held)} |->
                       IF q \in DOMAIN queue THEN queue[q] ELSE <<>>]
        /\ UNCHANGED <<published, latest>>
    BY <1>3 DEF Enter, outcome
  <2>2. \A q \in DOMAIN queue' : IsInOrder(queue'[q], latest'[q], published')
    BY <1>1, <2>1 DEF IsInOrder
  <2>3. QED
    BY <1>1, <2>1, <2>2 DEF InOrder, IsInOrder
<1>4. CASE Ack
  <2>1. /\ queue' = [queue EXCEPT ![QueueOf(held)] = Tail(@)]
        /\ UNCHANGED <<published, latest>>
        /\ queue[QueueOf(held)] # <<>>
    BY <1>4, CurrentIs DEF Ack, AfterHandling
  <2>2. \A q \in DOMAIN queue' : IsInOrder(queue'[q], latest'[q], published')
    BY <1>1, <2>1, TakenInOrderOf
  <2>3. QED
    BY <1>1, <2>1, <2>2 DEF InOrder, IsInOrder
<1>5. CASE TakesMessage
  <2>1. UNCHANGED <<queue, published>>
    BY <1>5 DEF TakesMessage, Take, rabbit
  <2>2. \A q \in DOMAIN queue' : IsInOrder(queue'[q], latest'[q], published')
    BY <1>1, <1>5, <2>1, TakesInOrder DEF OutcomeTypes
  <2>3. \A q \in Queues : latest'[q] <= published'
    BY <1>1, <1>5, <2>1, TakesInOrder DEF OutcomeTypes
  <2>4. QED
    BY <2>2, <2>3 DEF InOrder, IsInOrder
<1>6. CASE UNCHANGED <<queue, published, latest>>
  BY <1>6 DEF InOrder
<1>7. ASSUME NEW b \in Brokers, BrokerGoes(b) \/ BrokerComesBack(b)
      PROVE  UNCHANGED <<queue, published, latest>>
  BY <1>7 DEF BrokerGoes, BrokerComesBack, outcome
<1>8. HandlesMessage \/ HandlingFails => UNCHANGED latest
  BY DEF HandlesMessage, HandlingFails
<1>9. QED
  BY <1>2, <1>3, <1>4, <1>5, <1>6, <1>7, <1>8, KeepsRabbit, KeepsOutcome DEF rabbit, outcome

-----------------------------------------------------------------------------
(***************************************************************************)
(* The theorems                                                            *)
(***************************************************************************)

\* Inv is inductive: the worker, the API, the providers and the faults keep it.
THEOREM WorkerInvariant == Spec => []Inv
<1>1. Inv /\ [Next]_vars => Inv'
  BY NextApiTypes, NextRabbitTypes, NextLoopTypes, NextOutcomeTypes, NextServes,
     NextHandledFirst, NextInOrder
  DEF Inv
<1>2. QED
  BY <1>1, InitInv, PTL DEF Spec

\* A worker serves a queue that exists, and handles the message at its head.
THEOREM TypesAreKept == Spec => []TypeOK
<1>1. Inv => TypeOK
  BY TypesAre DEF Inv, Serves, Running
<1>2. QED
  BY <1>1, WorkerInvariant, PTL

\* No message leaves its queue before it is stored, or its handling met a failed
\* session, whatever crashes and whatever connection is lost.
THEOREM NoMessageIsDropped == Spec => []AckedIsDealtWith
<1>1. Inv => AckedIsDealtWith
  BY DEF Inv, HandledFirst
<1>2. QED
  BY <1>1, WorkerInvariant, PTL

\* The messages of a queue are taken in the order of their publication, through
\* crashes, reconnections and changes of the contributor's settings.
THEOREM MessagesAreTakenInOrder == Spec => TakenInOrder
<1>1. Inv /\ [Next]_vars => [\A q \in Queues : latest'[q] >= latest[q]]_vars
  <2> SUFFICES ASSUME Inv, Next, NEW q \in Queues PROVE latest'[q] >= latest[q]
    OBVIOUS
  <2> USE DEF Inv
  <2>1. latest[q] \in Nat
    BY DEF OutcomeTypes
  <2>2. CASE TakesMessage
    BY <2>1, <2>2, TakesInOrder DEF OutcomeTypes
  <2>3. CASE UNCHANGED latest
    BY <2>1, <2>3
  <2>4. HandlesMessage \/ HandlingFails \/ Ack => UNCHANGED latest
    BY DEF HandlesMessage, HandlingFails, Ack, AfterHandling
  <2>5. QED
    BY <2>2, <2>3, <2>4, KeepsOutcome DEF outcome
<1>2. QED
  BY <1>1, WorkerInvariant, PTL DEF Spec, TakenInOrder

=============================================================================
