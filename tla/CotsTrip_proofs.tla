---------------------------- MODULE CotsTrip_proofs ----------------------------
(***************************************************************************)
(* What is proved of CotsTrip, for any processes, feeds, trains and        *)
(* schedules: the trips that COTS makes and the trips of the schedule never*)
(* mix, whatever feeds come in between; what navitia holds of each is of a *)
(* piece and, but for one case, what the database holds; an addition is of *)
(* a train the schedule does not have; and, unless another feed came in    *)
(* between, nothing forbidden is done and what is cancelled is gone.       *)
(***************************************************************************)
EXTENDS CotsTrip, DataLemmas, TLAPS

-----------------------------------------------------------------------------
(***************************************************************************)
(* The inductive invariant                                                 *)
(***************************************************************************)

\* A process that has built TripUpdates holds a feed, and its TripUpdates are
\* about trips made by COTS or about trips of the schedule, as its action says.
OneKind ==
    \A w \in Workers : pc[w] = "built" =>
       /\ feed[w] \in Feeds
       /\ \A k \in plan[w] :
             k[1] \in (IF action[w] = "NOT_ADDED" THEN BaseIds ELSE AddedIds)

\* What handle() will merge for an addition was searched for in navitia.
Searched ==
    \A w \in Workers :
       pc[w] = "built" /\ action[w] # "NOT_ADDED" /\ feed[w].status = "AJOUTEE" =>
          /\ NavitiaVjs(feed[w], FALSE) = {}
          /\ plan[w] \subseteq AddedVjs(feed[w])

\* AddedRows() and RowsFound() in the rows `rows'.
AddedIn(rows, f) ==
    {k \in Keys : /\ rows[k] # None
                  /\ k[1] = TrainId[f.number]
                  /\ k[2] \in Period(f, FALSE)}
FoundIn(rows, f) ==
    IF AddedIn(rows, f) = {} THEN {None} ELSE {rows[k] : k \in AddedIn(rows, f)}

\* As long as no other feed is handled, the builder would still do what it did.
StillStands ==
    \A w \in Workers : pc[w] = "built" /\ ~overtaken[w] =>
       \E row \in FoundIn(stored, feed[w]) :
          /\ ~IsRefused(feed[w], row)
          /\ action[w] = ActionOnTrip(feed[w], row)
          /\ plan[w] = Vjs(feed[w], ActionOnTrip(feed[w], row))

\* The rows of the trips of each kind: those made by COTS are added or cancelled,
\* those of the schedule changed or cancelled; a cancelled one has no stop.
RowsFit ==
    \A k \in Keys : stored[k] # None =>
       /\ stored[k].status = "delete" => stored[k].stops = <<>>
       /\ stored[k].status # "delete" =>
             stored[k].status = (IF k[1] \in AddedIds THEN "add" ELSE "update")

\* Navitia is told of no trip that is not stored.
OnlyStoredIsTold == \A k \in Keys : told[k] # None => stored[k] # None

\* The row of an added trip has the description of the feed that made it.
Described ==
    \A k \in Keys : k[1] \in AddedIds =>
       /\ stored[k] # None <=> origin[k] # None
       /\ stored[k] # None => stored[k].described \/ origin[k].status = "SUPPRIMEE"

\* A trip whose row an addition made is not one of the schedule.
OriginIsNew ==
    \A k \in Keys :
       (/\ k[1] \in AddedIds /\ origin[k] # None
        /\ origin[k].status = "AJOUTEE"
        /\ k[2] \in Period(origin[k], FALSE))
       => \A b \in BaseTrips : k[1] \in b.headsigns => ~(b.start <= k[2] /\ k[2] <= b.end)

Inv ==
    /\ TypeOK
    /\ OneKind
    /\ Searched
    /\ StillStands
    /\ RowsFit
    /\ OnlyStoredIsTold
    /\ ToldIsStored
    /\ ToldIsOfAPiece
    /\ Described
    /\ OriginIsNew

-----------------------------------------------------------------------------
(***************************************************************************)
(* The operators                                                           *)
(***************************************************************************)

\* The first of the points a train is dated from is one of the feed.
LEMMA FirstIsAPoint ==
    ASSUME CotsTripAssumption, NEW f \in Feeds, NEW skip \in BOOLEAN,
           Dating(f, skip) # {}
    PROVE  FirstPoint(f, skip) \in PointsDeParcours
<1> DEFINE S == Dating(f, skip)
<1>1. f.points \in Seq(PointsDeParcours) /\ Len(f.points) \in Nat
  BY DEF CotsTripAssumption
<1>2. S \subseteq 1 .. Len(f.points)
  BY DEF Dating, InterestingPoints
<1>3. S \in SUBSET Nat
  BY <1>1, <1>2
<1> HIDE DEF S
<1>4. PICK n \in S : \A m \in S : n <= m
  BY <1>3, LeastNatural DEF S
<1>5. Min(S) \in S
  BY <1>4 DEF Min
<1>6. Min(S) \in 1 .. Len(f.points)
  BY <1>2, <1>5
<1>7. QED
  BY <1>1, <1>6 DEF FirstPoint, S

\* An added trip starts at a time of the feed.
LEMMA SinceIsATime ==
    ASSUME CotsTripAssumption, NEW f \in Feeds, ~IsTooShort(f), HasPeriod(f, FALSE)
    PROVE  Since(f, FALSE) \in Time
<1>1. Dating(f, FALSE) # {}
  BY DEF IsTooShort, Dating
<1>2. FirstPoint(f, FALSE) \in PointsDeParcours
  BY <1>1, FirstIsAPoint
<1>3. FirstPoint(f, FALSE).departure # None
  BY <1>1 DEF HasPeriod
<1>4. FirstPoint(f, FALSE).departure \in [at : Time, status : EventStatuses]
  BY <1>2, <1>3 DEF PointsDeParcours, Event
<1>5. QED
  BY <1>4 DEF Since

\* The trips a feed is about have keys, and are of one kind.
LEMMA VjsAreOfOneKind ==
    ASSUME CotsTripAssumption, NEW f \in Feeds, NEW a \in Actions,
           ~IsTooShort(f), HasPeriod(f, a = "NOT_ADDED")
    PROVE  /\ Vjs(f, a) \subseteq Keys
           /\ \A k \in Vjs(f, a) :
                 k[1] \in (IF a = "NOT_ADDED" THEN BaseIds ELSE AddedIds)
<1>1. CASE a # "NOT_ADDED"
  <2>1. Since(f, FALSE) \in Time
    BY <1>1, SinceIsATime
  <2>2. Headsigns[f.number] \subseteq AddedIds
    BY DEF CotsTripAssumption, AddedIds
  <2>3. Vjs(f, a) = {<<h, Since(f, FALSE)>> : h \in Headsigns[f.number]}
    BY <1>1 DEF Vjs, AddedVjs
  <2>4. \A k \in Vjs(f, a) : k[1] \in AddedIds /\ k \in AddedIds \X Time
    <3>1. TAKE k \in Vjs(f, a)
    <3>2. PICK h \in Headsigns[f.number] : k = <<h, Since(f, FALSE)>>
      BY <2>3
    <3>3. h \in AddedIds
      BY <2>2
    <3>4. QED
      BY <2>1, <3>2, <3>3
  <2>5. QED
    BY <1>1, <2>4 DEF Keys
<1>2. CASE a = "NOT_ADDED"
  <2>1. \A b \in BaseTrips : b.start \in Time /\ b.id \in BaseIds
    BY DEF CotsTripAssumption, BaseIds
  <2>2. \A k \in DatedVjs(f) : k[1] \in BaseIds /\ k \in BaseIds \X Time
    <3>1. TAKE k \in DatedVjs(f)
    <3>2. PICK b \in BaseTrips : k = <<b.id, b.start>>
      BY DEF DatedVjs, NavitiaVjs
    <3>3. QED
      BY <2>1, <3>2
  <2>3. Vjs(f, a) \subseteq DatedVjs(f)
    BY <1>2 DEF Vjs
  <2>4. QED
    BY <1>2, <2>2, <2>3 DEF Keys
<1>3. QED
  BY <1>1, <1>2

\* The stops of a feed are a function of their order.
LEMMA KnownAreAFunction ==
    \A f \in Feeds : KnownStops[f] = Restrict(KnownStops[f], DOMAIN KnownStops[f])
<1> DEFINE Order(f) == SetToSortSeq({i \in InterestingPoints(f) : f.points[i].stop \in Known}, <)
<1>1. KnownStops = [f \in Feeds |-> [k \in DOMAIN Order(f) |-> f.points[Order(f)[k]]]]
  BY DEF KnownStops
<1> HIDE DEF Order
<1>2. QED
  BY <1>1 DEF Restrict

\* A row may have no stop at all.
LEMMA NoStopIsASelection ==
    ASSUME NEW f \in Feeds
    PROVE  <<>> \in UNION {Selections(g) : g \in Feeds}
<1>1. Restrict(KnownStops[f], {}) = <<>>
  <2>1. Restrict(KnownStops[f], {}) = [i \in {} |-> KnownStops[f][i]]
    BY DEF Restrict
  <2>2. QED
    BY <2>1
<1>2. {} \in SUBSET DOMAIN KnownStops[f]
  OBVIOUS
<1>3. <<>> \in Selections(f)
  BY <1>1, <1>2 DEF Selections
<1>4. QED
  BY <1>3

\* The TripUpdate of a feed is of a piece.
LEMMA TripUpdateIsOfAPiece ==
    ASSUME CotsTripAssumption, NEW f \in Feeds, NEW a \in Actions
    PROVE  LET new == MakeTripUpdate(f, a) IN
           /\ new \in Rows
           /\ f.status = "SUPPRIMEE" =>
                 /\ new.status = "delete"
                 /\ new.effect = "NO_SERVICE" /\ new.stops = <<>>
           /\ f.status # "SUPPRIMEE" /\ a # "NOT_ADDED" =>
                 /\ new.status = "add"
                 /\ new.effect = "ADDITIONAL_SERVICE" /\ new.described
           /\ f.status # "SUPPRIMEE" /\ a = "NOT_ADDED" =>
                 /\ new.status = "update"
                 /\ new.effect = EffectOf(KnownStops[f]) /\ new.stops = KnownStops[f]
           /\ new.stops \in {KnownStops[f], <<>>}
<1> DEFINE effect == EffectOf(KnownStops[f])
           stops == KnownStops[f]
<1>1. /\ effect \in {EffectOf(KnownStops[g]) : g \in Feeds}
      /\ stops \in UNION {Selections(g) : g \in Feeds}
  <2>1. KnownStops[f] = Restrict(KnownStops[f], DOMAIN KnownStops[f])
    BY KnownAreAFunction
  <2>2. KnownStops[f] \in Selections(f)
    BY <2>1 DEF Selections
  <2>3. QED
    BY <2>2
<1>2. effect = EffectOf(KnownStops[f]) /\ stops = KnownStops[f]
  OBVIOUS
<1>3. MakeTripUpdate(f, a) =
        CASE f.status = "SUPPRIMEE" ->
                [status |-> "delete", effect |-> "NO_SERVICE", stops |-> <<>>,
                 described |-> FALSE]
          [] f.status # "SUPPRIMEE" /\ a # "NOT_ADDED" ->
                [status |-> "add", effect |-> "ADDITIONAL_SERVICE", stops |-> stops,
                 described |-> TRUE]
          [] OTHER ->
                [status |-> "update", effect |-> effect, stops |-> stops,
                 described |-> FALSE]
  BY DEF MakeTripUpdate
<1> HIDE DEF effect, stops
<1>4. CASE f.status = "SUPPRIMEE"
  <2>1. MakeTripUpdate(f, a) =
          [status |-> "delete", effect |-> "NO_SERVICE", stops |-> <<>>, described |-> FALSE]
    BY <1>3, <1>4
  <2>2. <<>> \in UNION {Selections(g) : g \in Feeds}
    BY NoStopIsASelection
  <2>3. MakeTripUpdate(f, a) \in Rows
    BY <2>1, <2>2 DEF Rows
  <2>4. QED
    BY <1>4, <2>1, <2>3
<1>5. CASE f.status # "SUPPRIMEE" /\ a # "NOT_ADDED"
  BY <1>1, <1>2, <1>3, <1>5 DEF Rows
<1>6. CASE f.status # "SUPPRIMEE" /\ a = "NOT_ADDED"
  <2>1. MakeTripUpdate(f, a) =
          [status |-> "update", effect |-> effect, stops |-> stops, described |-> FALSE]
    BY <1>3, <1>6
  <2>2. MakeTripUpdate(f, a) \in Rows
    BY <1>1, <2>1 DEF Rows
  <2>3. QED
    BY <1>2, <1>6, <2>1, <2>2
<1>7. QED
  BY <1>4, <1>5, <1>6

-----------------------------------------------------------------------------
(***************************************************************************)
(* The invariant holds, step by step                                       *)
(***************************************************************************)

LEMMA InitHasInv == ASSUME CotsTripAssumption, Init PROVE Inv
<1>1. TypeOK
  BY DEF Init, TypeOK, Actions
<1>2. OneKind /\ Searched /\ StillStands
  BY DEF Init, OneKind, Searched, StillStands
<1>3. RowsFit /\ OnlyStoredIsTold /\ ToldIsStored
  BY DEF Init, RowsFit, OnlyStoredIsTold, ToldIsStored
<1>4. ToldIsOfAPiece /\ Described /\ OriginIsNew
  BY DEF Init, ToldIsOfAPiece, Described, OriginIsNew
<1>5. QED
  BY <1>1, <1>2, <1>3, <1>4 DEF Inv

LEMMA FoundIsRowsFound ==
    \A f : RowsFound(f) = FoundIn(stored, f) /\ AddedRows(f) = AddedIn(stored, f)
BY DEF RowsFound, AddedRows, FoundIn, AddedIn

LEMMA BuildKeepsInv ==
    ASSUME CotsTripAssumption, Inv, NEW w \in Workers, NEW f \in Feeds, Build(w, f)
    PROVE  Inv'
<1>1. PICK row \in RowsFound(f) :
         /\ ~IsRefused(f, row)
         /\ action' = [action EXCEPT ![w] = ActionOnTrip(f, row)]
         /\ plan' = [plan EXCEPT ![w] = Vjs(f, ActionOnTrip(f, row))]
  BY DEF Build
<1>2. /\ ~IsTooShort(f)
      /\ feed' = [feed EXCEPT ![w] = f]
      /\ pc' = [pc EXCEPT ![w] = "built"]
      /\ overtaken' = [overtaken EXCEPT ![w] = FALSE]
      /\ stored' = stored /\ told' = told /\ origin' = origin /\ unsent' = unsent
  BY DEF Build
<1>3. TypeOK
  BY DEF Inv
<1> DEFINE a == ActionOnTrip(f, row)
<1>4. a \in Actions
  BY DEF ActionOnTrip, Actions
<1>5. /\ HasPeriod(f, a = "NOT_ADDED")
      /\ ~IsPresent(f, a)
      /\ row # None => ~IsForbidden(f, row)
  BY <1>1 DEF IsRefused
<1>6. a # "NOT_ADDED" /\ f.status = "AJOUTEE" => a = "FIRST_TIME_ADDED"
  BY <1>5 DEF ActionOnTrip, IsForbidden
<1>7. a # "NOT_ADDED" => Vjs(f, a) = AddedVjs(f)
  BY DEF Vjs
<1> HIDE DEF a
<1>8. /\ Vjs(f, a) \subseteq Keys
      /\ \A k \in Vjs(f, a) :
            k[1] \in (IF a = "NOT_ADDED" THEN BaseIds ELSE AddedIds)
  BY <1>2, <1>4, <1>5, VjsAreOfOneKind
<1>9. action' = [action EXCEPT ![w] = a] /\ plan' = [plan EXCEPT ![w] = Vjs(f, a)]
  BY <1>1 DEF a
<1>10. TypeOK'
  <2>1. action' \in [Workers -> Actions] /\ plan' \in [Workers -> SUBSET Keys]
    BY <1>3, <1>4, <1>8, <1>9 DEF TypeOK
  <2>2. feed' \in [Workers -> Feeds \cup {None}] /\ pc' \in [Workers -> {"idle", "built"}]
    BY <1>2, <1>3 DEF TypeOK
  <2>3. overtaken' \in [Workers -> BOOLEAN]
    BY <1>2, <1>3 DEF TypeOK
  <2>4. QED
    BY <1>2, <1>3, <2>1, <2>2, <2>3 DEF TypeOK
<1>11. \A v \in Workers :
          IF v = w
          THEN /\ feed'[v] = f /\ action'[v] = a /\ plan'[v] = Vjs(f, a)
          ELSE /\ feed'[v] = feed[v] /\ action'[v] = action[v] /\ plan'[v] = plan[v]
               /\ pc'[v] = pc[v] /\ overtaken'[v] = overtaken[v]
  BY <1>2, <1>3, <1>9 DEF TypeOK
<1>12. OneKind'
  BY <1>8, <1>11 DEF OneKind, Inv
<1>13. Searched'
  <2> SUFFICES ASSUME NEW v \in Workers, pc'[v] = "built", action'[v] # "NOT_ADDED",
                      feed'[v].status = "AJOUTEE"
               PROVE  /\ NavitiaVjs(feed'[v], FALSE) = {}
                      /\ plan'[v] \subseteq AddedVjs(feed'[v])
    BY DEF Searched
  <2>1. CASE v = w
    <3>1. feed'[v] = f /\ action'[v] = a /\ plan'[v] = Vjs(f, a)
      BY <1>11, <2>1
    <3>2. NavitiaVjs(f, FALSE) = {}
      BY <1>5, <1>6, <3>1 DEF IsPresent
    <3>3. QED
      BY <1>7, <3>1, <3>2 DEF a
  <2>2. CASE v # w
    BY <1>11, <2>2 DEF Searched, Inv
  <2>3. QED
    BY <2>1, <2>2
<1>14. StillStands'
  <2> SUFFICES ASSUME NEW v \in Workers, pc'[v] = "built", ~overtaken'[v]
               PROVE  \E r \in FoundIn(stored', feed'[v]) :
                         /\ ~IsRefused(feed'[v], r)
                         /\ action'[v] = ActionOnTrip(feed'[v], r)
                         /\ plan'[v] = Vjs(feed'[v], ActionOnTrip(feed'[v], r))
    BY DEF StillStands
  <2>1. CASE v = w
    <3>1. feed'[v] = f /\ action'[v] = a /\ plan'[v] = Vjs(f, a)
      BY <1>11, <2>1
    <3>2. row \in FoundIn(stored', f)
      BY <1>2, FoundIsRowsFound
    <3>3. QED
      BY <1>1, <3>1, <3>2 DEF a
  <2>2. CASE v # w
    <3>1. feed'[v] = feed[v] /\ action'[v] = action[v] /\ plan'[v] = plan[v]
          /\ pc[v] = "built" /\ ~overtaken[v]
      BY <1>11, <2>2
    <3>2. QED
      BY <1>2, <3>1 DEF StillStands, Inv
  <2>3. QED
    BY <2>1, <2>2
<1>15. RowsFit' /\ OnlyStoredIsTold' /\ ToldIsStored'
  BY <1>2 DEF RowsFit, OnlyStoredIsTold, ToldIsStored, Inv
<1>16. ToldIsOfAPiece' /\ Described' /\ OriginIsNew'
  BY <1>2 DEF ToldIsOfAPiece, Described, OriginIsNew, Inv
<1>17. QED
  BY <1>10, <1>12, <1>13, <1>14, <1>15, <1>16 DEF Inv

\* What a feed comes to makes of a trip: nothing; a change, stored and told; a change
\* of the status and the effect only, or one that is refused or left unpublished,
\* stored and not told.
Takes(w) == Handle(w) \/ HandleFails(w)

Untouched(w, k) ==
    /\ k \notin plan[w] \/ New(w).status # "delete"
    /\ stored'[k] = stored[k] /\ told'[k] = told[k] /\ origin'[k] = origin[k]
    /\ k \in unsent => k \in unsent'

HasMerged(w, k) ==
    /\ k \in plan[w]
    /\ stored'[k] \in Rows
    /\ stored'[k].status = New(w).status
    /\ stored'[k].effect = New(w).effect
    /\ stored'[k].stops = Merged(w, k)
    /\ stored'[k].described =
          (IF stored[k] = None THEN New(w).described ELSE stored[k].described)
    /\ origin'[k] =
          (IF k[1] \in AddedIds /\ stored[k] = None THEN feed[w] ELSE origin[k])

StoredAndTold(w, k) ==
    /\ HasMerged(w, k)
    /\ told'[k] = stored'[k]
    /\ IsAccepted(stored'[k].stops)

StoredUntold(w, k) ==
    /\ HasMerged(w, k)
    /\ New(w).status # "delete"
    /\ told'[k] = told[k]
    /\ k \in unsent' \/ ~IsAccepted(stored'[k].stops)

HeadOnly(w, k) ==
    /\ k \in plan[w]
    /\ New(w).status # "delete"
    /\ stored[k] \in Rows /\ stored'[k] \in Rows
    /\ stored'[k].status = New(w).status
    /\ stored'[k].stops = stored[k].stops
    /\ stored'[k].described = stored[k].described
    /\ told'[k] = told[k] /\ origin'[k] = origin[k]
    /\ k \in unsent => k \in unsent'

\* The stops that merge() keeps are stops a row may have.
LEMMA MergedAreStops ==
    ASSUME CotsTripAssumption, NEW w \in Workers, feed[w] \in Feeds, action[w] \in Actions,
           NEW k
    PROVE  /\ Merged(w, k) \in UNION {Selections(f) : f \in Feeds}
           /\ New(w).stops = <<>> => Merged(w, k) = <<>>
           /\ DOMAIN Merged(w, k) \subseteq DOMAIN New(w).stops
<1> DEFINE kept == {i \in DOMAIN New(w).stops : IsKept(w, k, i)}
<1>1. kept \in SUBSET DOMAIN New(w).stops /\ Merged(w, k) = Restrict(New(w).stops, kept)
  BY DEF Merged
<1> HIDE DEF kept
<1>2. ASSUME New(w).stops = <<>> PROVE Merged(w, k) = <<>>
  <2>1. kept = {}
    BY <1>1, <1>2
  <2>2. Merged(w, k) = [i \in {} |-> New(w).stops[i]]
    BY <1>1, <2>1 DEF Restrict
  <2>3. QED
    BY <2>2
<1>3. New(w).stops \in {KnownStops[feed[w]], <<>>}
  BY TripUpdateIsOfAPiece DEF New
<1>4. ASSUME New(w).stops = KnownStops[feed[w]] PROVE Merged(w, k) \in Selections(feed[w])
  BY <1>1, <1>4 DEF Selections
<1>5. DOMAIN Merged(w, k) = kept
  BY <1>1 DEF Restrict
<1>6. Merged(w, k) \in UNION {Selections(f) : f \in Feeds}
  <2>1. CASE New(w).stops = KnownStops[feed[w]]
    <3>1. Merged(w, k) \in Selections(feed[w])
      BY <1>4, <2>1
    <3>2. QED
      BY <3>1
  <2>2. CASE New(w).stops = <<>>
    <3>1. Merged(w, k) = <<>>
      BY <1>2, <2>2
    <3>2. QED
      BY <3>1, NoStopIsASelection
  <2>3. QED
    BY <1>3, <2>1, <2>2
<1>7. QED
  BY <1>1, <1>2, <1>5, <1>6

\* A row that is merged and written: with the stops kept if they are news, with its
\* own if not.
LEMMA MergedRowIs ==
    ASSUME CotsTripAssumption, RowsAssumption, Inv, NEW w \in Workers, pc[w] = "built",
           NEW k \in Keys
    PROVE  /\ stored[k] = None =>
                 /\ ~IsSent(w, k) => MergedRow(w, k) = None
                 /\ IsSent(w, k) =>
                       /\ MergedRow(w, k) \in Rows
                       /\ MergedRow(w, k).status = New(w).status
                       /\ MergedRow(w, k).effect = New(w).effect
                       /\ MergedRow(w, k).stops = Merged(w, k)
                       /\ MergedRow(w, k).described = New(w).described
           /\ stored[k] # None =>
                 /\ stored[k] \in Rows /\ MergedRow(w, k) \in Rows
                 /\ MergedRow(w, k).status = New(w).status
                 /\ MergedRow(w, k).effect = New(w).effect
                 /\ MergedRow(w, k).stops =
                       (IF IsNews(w, k) THEN Merged(w, k) ELSE stored[k].stops)
                 /\ MergedRow(w, k).described = stored[k].described
<1>1. feed[w] \in Feeds /\ action[w] \in Actions
  BY DEF Inv, OneKind, TypeOK
<1>2. New(w) \in Rows
  BY <1>1, TripUpdateIsOfAPiece DEF New
<1>3. PICK s, e, q, d : New(w) = [status |-> s, effect |-> e, stops |-> q, described |-> d]
  BY <1>2 DEF Rows
<1>4. Merged(w, k) \in UNION {Selections(f) : f \in Feeds}
  BY <1>1, MergedAreStops
<1>5. CASE stored[k] = None
  <2>1. MergedRow(w, k) =
           IF IsSent(w, k) THEN [New(w) EXCEPT !.stops = Merged(w, k)] ELSE None
    BY <1>5 DEF MergedRow
  <2> DEFINE m == [status |-> New(w).status, effect |-> New(w).effect,
                   stops |-> Merged(w, k), described |-> New(w).described]
  <2>2. [New(w) EXCEPT !.stops = Merged(w, k)] = m
    BY <1>3
  <2>3. m \in Rows
    BY <1>2, <1>4 DEF Rows
  <2>4. QED
    BY <1>5, <2>1, <2>2, <2>3
<1>6. CASE stored[k] # None
  <2>1. stored[k] \in Rows
    BY <1>6 DEF Inv, TypeOK
  <2> DEFINE stops == IF IsNews(w, k) THEN Merged(w, k) ELSE stored[k].stops
             m == [status |-> New(w).status, effect |-> New(w).effect,
                   stops |-> stops, described |-> stored[k].described]
  <2>2. MergedRow(w, k) =
           [New(w) EXCEPT !.stops = stops, !.described = stored[k].described]
    BY <1>6 DEF MergedRow
  <2>3. stops \in UNION {Selections(f) : f \in Feeds}
    BY <1>4, <2>1 DEF Rows
  <2> HIDE DEF stops
  <2>4. MergedRow(w, k) = m
    BY <1>3, <2>2
  <2>5. m \in Rows
    BY <1>2, <2>1, <2>3 DEF Rows
  <2>6. QED
    BY <1>6, <2>1, <2>4, <2>5 DEF stops
<1>7. QED
  BY <1>5, <1>6

LEMMA HandleTakesEachTrip ==
    ASSUME CotsTripAssumption, RowsAssumption, Inv,
           NEW w \in Workers, Handle(w), NEW k \in Keys
    PROVE  \/ Untouched(w, k) \/ StoredAndTold(w, k)
           \/ StoredUntold(w, k) \/ HeadOnly(w, k)
<1>1. /\ pc[w] = "built"
      /\ stored'[k] = (IF k \in plan[w] THEN MergedRow(w, k) ELSE stored[k])
      /\ told'[k] = (IF k \in plan[w] /\ IsSent(w, k) THEN MergedRow(w, k) ELSE told[k])
      /\ origin'[k] = (IF k[1] \in AddedIds /\ stored[k] = None /\ stored'[k] # None
                       THEN feed[w] ELSE origin[k])
      /\ k \in unsent => k \in unsent' \/ (k \in plan[w] /\ IsSent(w, k))
  BY DEF Handle, Finish
<1>2. None \notin Rows
  BY DEF RowsAssumption
<1>3. feed[w] \in Feeds /\ action[w] \in Actions
  BY <1>1 DEF Inv, OneKind, TypeOK
<1>4. New(w).status = "delete" => IsNews(w, k) /\ IsAccepted(Merged(w, k))
  <2> SUFFICES ASSUME New(w).status = "delete" PROVE IsNews(w, k) /\ IsAccepted(Merged(w, k))
    OBVIOUS
  <2>1. New(w).stops = <<>>
    BY <1>3, TripUpdateIsOfAPiece DEF New
  <2>2. Merged(w, k) = <<>>
    BY <1>3, <2>1, MergedAreStops
  <2>3. QED
    BY <2>2 DEF IsNews, IsAccepted
<1>5. IsSent(w, k) <=> IsNews(w, k) /\ IsAccepted(Merged(w, k))
  BY DEF IsSent
<1> DEFINE row == MergedRow(w, k)
<1>6. /\ stored[k] = None =>
            /\ ~IsSent(w, k) => row = None
            /\ IsSent(w, k) =>
                  /\ row \in Rows
                  /\ row.status = New(w).status /\ row.effect = New(w).effect
                  /\ row.stops = Merged(w, k) /\ row.described = New(w).described
      /\ stored[k] # None =>
            /\ stored[k] \in Rows /\ row \in Rows
            /\ row.status = New(w).status /\ row.effect = New(w).effect
            /\ row.stops = (IF IsNews(w, k) THEN Merged(w, k) ELSE stored[k].stops)
            /\ row.described = stored[k].described
  BY <1>1, MergedRowIs
<1> HIDE DEF row
<1>7. /\ k \in plan[w] => stored'[k] = row
      /\ k \in plan[w] /\ IsSent(w, k) => told'[k] = row
  BY <1>1 DEF row
<1>8. CASE k \notin plan[w]
  BY <1>1, <1>8 DEF Untouched
<1>9. CASE k \in plan[w] /\ IsSent(w, k)
  BY <1>1, <1>2, <1>5, <1>6, <1>7, <1>9 DEF StoredAndTold, HasMerged
<1>10. CASE k \in plan[w] /\ ~IsSent(w, k) /\ stored[k] = None
  BY <1>1, <1>4, <1>5, <1>6, <1>7, <1>10 DEF Untouched
<1>11. CASE k \in plan[w] /\ ~IsSent(w, k) /\ stored[k] # None /\ IsNews(w, k)
  BY <1>1, <1>4, <1>5, <1>6, <1>7, <1>11 DEF StoredUntold, HasMerged
<1>12. CASE k \in plan[w] /\ ~IsSent(w, k) /\ stored[k] # None /\ ~IsNews(w, k)
  BY <1>1, <1>4, <1>5, <1>6, <1>7, <1>12 DEF HeadOnly
<1>13. QED
  BY <1>8, <1>9, <1>10, <1>11, <1>12

\* Only of a feed with stops does merge() raise.
LEMMA FailureTakesEachTrip ==
    ASSUME CotsTripAssumption, RowsAssumption, Inv,
           NEW w \in Workers, HandleFails(w), NEW k \in Keys
    PROVE  /\ New(w).status # "delete"
           /\ Untouched(w, k) \/ StoredUntold(w, k) \/ HeadOnly(w, k)
<1>1. PICK broken \in plan[w], done \in SUBSET plan[w] :
         /\ Raises(w, broken)
         /\ stored' = [j \in Keys |-> CASE j \in done -> MergedRow(w, j)
                                        [] j = broken -> BrokenRow(w, j)
                                        [] OTHER -> stored[j]]
         /\ unsent' = unsent \cup done
         /\ \A j \in done : ~Raises(w, j)
  BY DEF HandleFails
<1>2. /\ pc[w] = "built" /\ told' = told
      /\ origin'[k] = (IF k[1] \in AddedIds /\ stored[k] = None /\ stored'[k] # None
                       THEN feed[w] ELSE origin[k])
  BY DEF HandleFails, Finish
<1>3. broken \notin done
  BY <1>1
<1>4. feed[w] \in Feeds /\ action[w] \in Actions /\ None \notin Rows
  BY <1>2 DEF Inv, OneKind, TypeOK, RowsAssumption
<1>5. New(w) \in Rows /\ New(w).status # "delete"
  <2>1. New(w) \in Rows /\ (New(w).status = "delete" => New(w).stops = <<>>)
    BY <1>4, TripUpdateIsOfAPiece DEF New
  <2>2. DOMAIN New(w).stops # {}
    BY <1>1 DEF Raises
  <2>3. QED
    BY <2>1, <2>2
<1> DEFINE row == MergedRow(w, k)
<1>6. /\ stored[k] = None =>
            /\ ~IsSent(w, k) => row = None
            /\ IsSent(w, k) =>
                  /\ row \in Rows
                  /\ row.status = New(w).status /\ row.effect = New(w).effect
                  /\ row.stops = Merged(w, k) /\ row.described = New(w).described
      /\ stored[k] # None =>
            /\ stored[k] \in Rows /\ row \in Rows
            /\ row.status = New(w).status /\ row.effect = New(w).effect
            /\ row.stops = (IF IsNews(w, k) THEN Merged(w, k) ELSE stored[k].stops)
            /\ row.described = stored[k].described
  BY <1>2, MergedRowIs
<1> HIDE DEF row
<1>7. /\ k \in done => stored'[k] = row
      /\ k = broken => stored'[k] = BrokenRow(w, k)
      /\ k \notin done /\ k # broken => stored'[k] = stored[k]
  BY <1>1, <1>3 DEF row
<1>8. CASE k \notin done /\ k # broken
  BY <1>1, <1>2, <1>5, <1>7, <1>8 DEF Untouched
<1>9. CASE k = broken
  <2>1. CASE stored[k] = None
    BY <1>1, <1>2, <1>5, <1>7, <1>9, <2>1 DEF Untouched, BrokenRow
  <2>2. CASE stored[k] # None
    <3>1. stored[k] \in Rows
      BY <1>6, <2>2
    <3>2. PICK s, e, q, d :
             stored[k] = [status |-> s, effect |-> e, stops |-> q, described |-> d]
      BY <3>1 DEF Rows
    <3>3. stored'[k] = [status |-> New(w).status, effect |-> New(w).effect,
                        stops |-> stored[k].stops, described |-> stored[k].described]
      BY <1>7, <1>9, <2>2, <3>2 DEF BrokenRow
    <3>4. stored'[k] \in Rows
      BY <1>5, <3>1, <3>3 DEF Rows
    <3>5. QED
      BY <1>1, <1>2, <1>5, <1>9, <2>2, <3>1, <3>3, <3>4 DEF HeadOnly
  <2>3. QED
    BY <2>1, <2>2
<1>10. CASE k \in done /\ stored[k] = None /\ ~IsSent(w, k)
  BY <1>1, <1>2, <1>5, <1>6, <1>7, <1>10 DEF Untouched
<1>11. CASE k \in done /\ stored[k] = None /\ IsSent(w, k)
  BY <1>1, <1>2, <1>4, <1>5, <1>6, <1>7, <1>11 DEF StoredUntold, HasMerged
<1>12. CASE k \in done /\ stored[k] # None /\ IsNews(w, k)
  BY <1>1, <1>2, <1>5, <1>6, <1>7, <1>12 DEF StoredUntold, HasMerged
<1>13. CASE k \in done /\ stored[k] # None /\ ~IsNews(w, k)
  BY <1>1, <1>2, <1>5, <1>6, <1>7, <1>13 DEF HeadOnly
<1>14. QED
  BY <1>5, <1>8, <1>9, <1>10, <1>11, <1>12, <1>13

LEMMA FeedTakesEachTrip ==
    ASSUME CotsTripAssumption, RowsAssumption, Inv,
           NEW w \in Workers, Takes(w), NEW k \in Keys
    PROVE  \/ Untouched(w, k) \/ StoredAndTold(w, k)
           \/ StoredUntold(w, k) \/ HeadOnly(w, k)
BY HandleTakesEachTrip, FailureTakesEachTrip DEF Takes

\* The TripUpdate fits the trip it is merged with.
LEMMA NewFits ==
    ASSUME CotsTripAssumption, Inv, NEW w \in Workers, pc[w] = "built"
    PROVE  /\ feed[w] \in Feeds /\ New(w) \in Rows
           /\ New(w).status = "delete" =>
                 New(w).effect = "NO_SERVICE" /\ New(w).stops = <<>>
           /\ New(w).status = "add" => New(w).effect = "ADDITIONAL_SERVICE"
           /\ New(w).status = "update" =>
                 /\ New(w).effect = EffectOf(KnownStops[feed[w]])
                 /\ New(w).stops = KnownStops[feed[w]]
           /\ feed[w].status = "SUPPRIMEE" => New(w).status = "delete"
           /\ feed[w].status = "SUPPRIMEE" \/ action[w] = "NOT_ADDED" \/ New(w).described
           /\ \A k \in plan[w] :
                 /\ k[1] \in AddedIds <=> action[w] # "NOT_ADDED"
                 /\ k[1] \in AddedIds \cup BaseIds
                 /\ New(w).status # "delete" =>
                       New(w).status = (IF k[1] \in AddedIds THEN "add" ELSE "update")
<1>1. feed[w] \in Feeds /\ action[w] \in Actions
  BY DEF Inv, OneKind, TypeOK
<1>2. \A k \in plan[w] : k[1] \in (IF action[w] = "NOT_ADDED" THEN BaseIds ELSE AddedIds)
  BY DEF Inv, OneKind
<1>3. AddedIds \cap BaseIds = {}
  BY DEF CotsTripAssumption
<1>4. \A k \in plan[w] : /\ k[1] \in AddedIds <=> action[w] # "NOT_ADDED"
                         /\ k[1] \in AddedIds \cup BaseIds
  BY <1>2, <1>3
<1>5. /\ New(w) \in Rows
      /\ feed[w].status = "SUPPRIMEE" =>
            /\ New(w).status = "delete"
            /\ New(w).effect = "NO_SERVICE" /\ New(w).stops = <<>>
      /\ feed[w].status # "SUPPRIMEE" /\ action[w] # "NOT_ADDED" =>
            /\ New(w).status = "add"
            /\ New(w).effect = "ADDITIONAL_SERVICE" /\ New(w).described
      /\ feed[w].status # "SUPPRIMEE" /\ action[w] = "NOT_ADDED" =>
            /\ New(w).status = "update"
            /\ New(w).effect = EffectOf(KnownStops[feed[w]])
            /\ New(w).stops = KnownStops[feed[w]]
  BY <1>1, TripUpdateIsOfAPiece DEF New
<1> HIDE DEF New
<1>6. QED
  BY <1>1, <1>4, <1>5

\* A trip whose row an accepted addition makes is not one of the schedule.
LEMMA AdditionIsNew ==
    ASSUME CotsTripAssumption, NEW f \in Feeds, NEW k \in AddedVjs(f),
           NavitiaVjs(f, FALSE) = {}, k[2] \in Period(f, FALSE),
           NEW b \in BaseTrips, k[1] \in b.headsigns
    PROVE  ~(b.start <= k[2] /\ k[2] <= b.end)
<1>1. k[1] \in Headsigns[f.number]
  <2>1. PICK h \in Headsigns[f.number] : k = <<h, Since(f, FALSE)>>
    BY DEF AddedVjs
  <2>2. QED
    BY <2>1
<1>2. b.headsigns \cap Headsigns[f.number] # {}
  BY <1>1
<1>3. QED
  BY <1>2 DEF NavitiaVjs

\* The stops that merge() keeps are the first ones of the feed, if manage_consistency()
\* accepts them, and the others are not in the schedule.
LEMMA AcceptedAreFirst ==
    ASSUME NEW w \in Workers, NEW k, IsAccepted(Merged(w, k)),
           New(w).stops = KnownStops[feed[w]]
    PROVE  AreFirstOf(feed[w], Merged(w, k), k)
<1> DEFINE kept == {i \in DOMAIN New(w).stops : IsKept(w, k, i)}
<1>1. Merged(w, k) = Restrict(KnownStops[feed[w]], kept)
  BY DEF Merged
<1>2. \A i \in DOMAIN KnownStops[feed[w]] \ kept :
         KnownStops[feed[w]][i].stop \notin Scheduled(k)
  BY DEF IsKept
<1> HIDE DEF kept
<1>3. DOMAIN Merged(w, k) = kept
  BY <1>1 DEF Restrict
<1>4. kept \subseteq DOMAIN KnownStops[feed[w]]
  BY DEF kept
<1>5. QED
  BY <1>1, <1>2, <1>3, <1>4 DEF AreFirstOf, IsAccepted

LEMMA FeedKeepsInv ==
    ASSUME CotsTripAssumption, RowsAssumption, Inv, NEW w \in Workers, Takes(w)
    PROVE  Inv'
<1>1. /\ pc[w] = "built" /\ pc' = [pc EXCEPT ![w] = "idle"]
      /\ feed' = [feed EXCEPT ![w] = None]
      /\ plan' = [plan EXCEPT ![w] = {}]
      /\ action' = [action EXCEPT ![w] = "NOT_ADDED"]
      /\ overtaken' = [v \in Workers |-> v # w /\ (overtaken[v] \/ pc[v] = "built")]
  BY DEF Takes, Handle, HandleFails, Finish
<1>2. /\ stored' = [k \in Keys |-> stored'[k]]
      /\ told' = [k \in Keys |-> told'[k]]
      /\ origin' = [k \in Keys |-> origin'[k]]
  <2>1. origin' = [k \in Keys |-> origin'[k]]
    BY DEF Takes, Handle, HandleFails, Finish
  <2>2. stored' = [k \in Keys |-> stored'[k]]
    BY DEF Takes, Handle, HandleFails
  <2>3. told' = [k \in Keys |-> told'[k]]
    BY DEF Takes, Handle, HandleFails, Inv, TypeOK
  <2>4. QED
    BY <2>1, <2>2, <2>3
<1>3. /\ TypeOK /\ OneKind /\ Searched /\ RowsFit /\ OnlyStoredIsTold
      /\ ToldIsStored /\ ToldIsOfAPiece /\ Described /\ OriginIsNew
  BY DEF Inv
<1>4. \A k \in Keys : \/ Untouched(w, k) \/ StoredAndTold(w, k)
                     \/ StoredUntold(w, k) \/ HeadOnly(w, k)
  BY FeedTakesEachTrip
<1>5. \A v \in Workers : pc'[v] = "built" =>
         /\ v # w /\ pc[v] = "built" /\ overtaken'[v]
         /\ feed'[v] = feed[v] /\ plan'[v] = plan[v] /\ action'[v] = action[v]
  BY <1>1, <1>3 DEF TypeOK
<1>6. None \notin Rows /\ None \notin Feeds
  BY DEF RowsAssumption, CotsTripAssumption
<1>7. \A k \in Keys : /\ stored[k] \in Rows \cup {None} /\ told[k] \in Rows \cup {None}
                      /\ origin[k] \in Feeds \cup {None}
  BY <1>3 DEF TypeOK
<1>8. feed[w] \in Feeds /\ New(w) \in Rows
  BY <1>1, NewFits
<1>9. TypeOK'
  <2>1. \A k \in Keys : /\ stored'[k] \in Rows \cup {None} /\ told'[k] \in Rows \cup {None}
                        /\ origin'[k] \in Feeds \cup {None}
    BY <1>4, <1>7, <1>8 DEF Untouched, StoredAndTold, StoredUntold, HasMerged, HeadOnly
  <2>2. /\ stored' \in [Keys -> Rows \cup {None}] /\ told' \in [Keys -> Rows \cup {None}]
        /\ origin' \in [Keys -> Feeds \cup {None}]
    BY <1>2, <2>1
  <2>3. /\ pc' \in [Workers -> {"idle", "built"}]
        /\ feed' \in [Workers -> Feeds \cup {None}]
        /\ plan' \in [Workers -> SUBSET Keys]
        /\ action' \in [Workers -> Actions]
    BY <1>1, <1>3 DEF TypeOK, Actions
  <2>4. overtaken' \in [Workers -> BOOLEAN]
    BY <1>1
  <2>5. unsent' \subseteq Keys
    BY <1>3 DEF TypeOK, Takes, Handle, HandleFails
  <2>6. QED
    BY <2>2, <2>3, <2>4, <2>5 DEF TypeOK
<1>10. OneKind' /\ Searched' /\ StillStands'
  BY <1>3, <1>5 DEF OneKind, Searched, StillStands
<1>11. RowsFit'
  <2> SUFFICES ASSUME NEW k \in Keys, stored'[k] # None
               PROVE  /\ stored'[k].status = "delete" => stored'[k].stops = <<>>
                      /\ stored'[k].status # "delete" =>
                            stored'[k].status = (IF k[1] \in AddedIds THEN "add" ELSE "update")
    BY DEF RowsFit
  <2>1. CASE Untouched(w, k)
    BY <1>3, <2>1 DEF RowsFit, Untouched
  <2>2. CASE HasMerged(w, k)
    <3>1. feed[w] \in Feeds /\ action[w] \in Actions
      BY <1>1, <1>3, NewFits DEF TypeOK
    <3>2. New(w).stops = <<>> => Merged(w, k) = <<>>
      BY <3>1, MergedAreStops
    <3>3. QED
      BY <1>1, <2>2, <3>2, NewFits DEF HasMerged
  <2>3. CASE HeadOnly(w, k)
    BY <1>1, <2>3, NewFits DEF HeadOnly
  <2>4. QED
    BY <1>4, <2>1, <2>2, <2>3 DEF StoredAndTold, StoredUntold
<1>12. OnlyStoredIsTold'
  <2> SUFFICES ASSUME NEW k \in Keys PROVE told'[k] # None => stored'[k] # None
    BY DEF OnlyStoredIsTold
  <2>1. told[k] # None => stored[k] # None
    BY <1>3 DEF OnlyStoredIsTold
  <2>2. QED
    BY <1>4, <1>6, <2>1 DEF Untouched, StoredAndTold, StoredUntold, HasMerged, HeadOnly
<1>13. ToldIsStored'
  <2> SUFFICES ASSUME NEW k \in Keys, stored'[k] # None,
                      IsAccepted(stored'[k].stops), k \notin unsent'
               PROVE  /\ told'[k] # None
                      /\ told'[k].stops = stored'[k].stops
                      /\ \/ told'[k].status = stored'[k].status
                         \/ told'[k].status = "delete" /\ stored'[k].stops = <<>>
    BY DEF ToldIsStored
  <2>1. CASE Untouched(w, k)
    BY <1>3, <2>1 DEF ToldIsStored, Untouched
  <2>2. CASE StoredAndTold(w, k)
    BY <2>2 DEF StoredAndTold
  <2>3. CASE HeadOnly(w, k)
    <3>1. stored[k] # None /\ IsAccepted(stored[k].stops) /\ k \notin unsent
      BY <1>6, <2>3 DEF HeadOnly
    <3>2. /\ told[k] # None /\ told[k].stops = stored[k].stops
          /\ \/ told[k].status = stored[k].status
             \/ told[k].status = "delete" /\ stored[k].stops = <<>>
      BY <1>3, <3>1 DEF ToldIsStored
    <3>3. /\ stored[k].status = "delete" => stored[k].stops = <<>>
          /\ stored[k].status # "delete" =>
                stored[k].status = (IF k[1] \in AddedIds THEN "add" ELSE "update")
      BY <1>3, <3>1 DEF RowsFit
    <3>4. stored'[k].status = (IF k[1] \in AddedIds THEN "add" ELSE "update")
      BY <1>1, <2>3, NewFits DEF HeadOnly
    <3>5. QED
      BY <2>3, <3>2, <3>3, <3>4 DEF HeadOnly
  <2>4. QED
    BY <1>4, <2>1, <2>2, <2>3 DEF StoredUntold
<1>14. Described'
  <2> SUFFICES ASSUME NEW k \in Keys, k[1] \in AddedIds
               PROVE  /\ stored'[k] # None <=> origin'[k] # None
                      /\ stored'[k] # None =>
                            stored'[k].described \/ origin'[k].status = "SUPPRIMEE"
    BY DEF Described
  <2>1. /\ stored[k] # None <=> origin[k] # None
        /\ stored[k] # None => stored[k].described \/ origin[k].status = "SUPPRIMEE"
    BY <1>3 DEF Described
  <2>2. CASE Untouched(w, k)
    BY <2>1, <2>2 DEF Untouched
  <2>3. CASE HasMerged(w, k) /\ stored[k] # None
    BY <1>6, <2>1, <2>3 DEF HasMerged
  <2>4. CASE HasMerged(w, k) /\ stored[k] = None
    <3>1. origin'[k] = feed[w] /\ k \in plan[w] /\ stored'[k] \in Rows
          /\ stored'[k].described = New(w).described
      BY <2>4 DEF HasMerged
    <3>2. feed[w].status = "SUPPRIMEE" \/ New(w).described
      BY <1>1, <3>1, NewFits
    <3>3. QED
      BY <1>6, <1>8, <3>1, <3>2
  <2>5. CASE HeadOnly(w, k)
    BY <1>6, <2>1, <2>5 DEF HeadOnly
  <2>6. QED
    BY <1>4, <2>2, <2>3, <2>4, <2>5 DEF StoredAndTold, StoredUntold
<1>15. OriginIsNew'
  <2> SUFFICES ASSUME NEW k \in Keys, k[1] \in AddedIds, origin'[k] # None,
                      origin'[k].status = "AJOUTEE", k[2] \in Period(origin'[k], FALSE),
                      NEW b \in BaseTrips, k[1] \in b.headsigns
               PROVE  ~(b.start <= k[2] /\ k[2] <= b.end)
    BY DEF OriginIsNew
  <2>1. CASE origin'[k] = origin[k]
    BY <1>3, <2>1 DEF OriginIsNew
  <2>2. CASE origin'[k] = feed[w] /\ k \in plan[w]
    <3>1. action[w] # "NOT_ADDED"
      BY <1>1, <2>2, NewFits
    <3>2. NavitiaVjs(feed[w], FALSE) = {} /\ k \in AddedVjs(feed[w])
      BY <1>1, <1>3, <2>2, <3>1 DEF Searched
    <3>3. k[2] \in Period(feed[w], FALSE)
      BY <2>2
    <3>4. QED
      BY <1>8, <3>2, <3>3, AdditionIsNew
  <2>3. QED
    BY <1>4, <2>1, <2>2 DEF Untouched, StoredAndTold, StoredUntold, HasMerged, HeadOnly
<1>16. ToldIsOfAPiece'
  <2> DEFINE Piece(row, org, k) ==
                CASE row.status = "delete" ->
                        row.effect = "NO_SERVICE" /\ row.stops = <<>>
                  [] row.status = "add" ->
                        /\ row.effect = "ADDITIONAL_SERVICE" /\ k[1] \in AddedIds
                        /\ row.described \/ org.status = "SUPPRIMEE"
                  [] row.status = "update" ->
                        /\ k[1] \in BaseIds
                        /\ \E f \in Feeds : /\ row.effect = EffectOf(KnownStops[f])
                                            /\ AreFirstOf(f, row.stops, k)
  <2> SUFFICES ASSUME NEW k \in Keys, told'[k] # None
               PROVE  Piece(told'[k], origin'[k], k)
    BY DEF ToldIsOfAPiece
  <2>1. CASE told'[k] = told[k] /\ (origin'[k] = origin[k] \/ stored[k] = None)
    <3>1. origin'[k] = origin[k]
      BY <1>3, <2>1 DEF OnlyStoredIsTold
    <3>2. QED
      BY <1>3, <2>1, <3>1 DEF ToldIsOfAPiece
  <2>2. CASE StoredAndTold(w, k)
    <3>1. /\ told'[k] = stored'[k] /\ k \in plan[w]
          /\ told'[k].status = New(w).status /\ told'[k].effect = New(w).effect
          /\ told'[k].stops = Merged(w, k) /\ IsAccepted(Merged(w, k))
      BY <2>2 DEF StoredAndTold, HasMerged
    <3>2. New(w).status \in {"add", "delete", "update"}
      BY <1>8 DEF Rows
    <3>3. k[1] \in AddedIds => told'[k].described \/ origin'[k].status = "SUPPRIMEE"
      BY <1>14, <3>1 DEF Described
    <3>4. CASE New(w).status = "delete"
      <4>1. New(w).effect = "NO_SERVICE" /\ New(w).stops = <<>>
        BY <1>1, <3>4, NewFits
      <4>2. Merged(w, k) = <<>>
        BY <1>3, <1>8, <4>1, MergedAreStops DEF TypeOK
      <4>3. QED
        BY <3>1, <3>4, <4>1, <4>2
    <3>5. CASE New(w).status = "add"
      <4>1. k[1] \in AddedIds /\ New(w).effect = "ADDITIONAL_SERVICE"
        BY <1>1, <3>1, <3>5, NewFits
      <4>2. QED
        BY <3>1, <3>3, <3>5, <4>1
    <3>6. CASE New(w).status = "update"
      <4>1. /\ k[1] \in BaseIds /\ New(w).effect = EffectOf(KnownStops[feed[w]])
            /\ New(w).stops = KnownStops[feed[w]]
        BY <1>1, <3>1, <3>6, NewFits
      <4>2. AreFirstOf(feed[w], Merged(w, k), k)
        BY <3>1, <4>1, AcceptedAreFirst
      <4>3. QED
        BY <1>8, <3>1, <3>6, <4>1, <4>2
    <3>7. QED
      BY <3>2, <3>4, <3>5, <3>6
  <2>3. QED
    BY <1>4, <2>1, <2>2 DEF Untouched, StoredUntold, HasMerged, HeadOnly
<1>17. QED
  BY <1>9, <1>10, <1>11, <1>12, <1>13, <1>14, <1>15, <1>16 DEF Inv

LEMMA StutterKeepsInv == ASSUME Inv, UNCHANGED vars PROVE Inv'
<1>1. TypeOK'
  BY DEF Inv, TypeOK, vars
<1>2. OneKind' /\ Searched' /\ StillStands'
  BY DEF Inv, OneKind, Searched, StillStands, vars
<1>3. RowsFit' /\ OnlyStoredIsTold' /\ ToldIsStored'
  BY DEF Inv, RowsFit, OnlyStoredIsTold, ToldIsStored, vars
<1>4. ToldIsOfAPiece' /\ Described' /\ OriginIsNew'
  BY DEF Inv, ToldIsOfAPiece, Described, OriginIsNew, vars
<1>5. QED
  BY <1>1, <1>2, <1>3, <1>4 DEF Inv

\* The inductive invariant holds in every reachable state.
THEOREM CotsInvariant == Spec => []Inv
<1>1. Init => Inv
  BY CotsTripAssumption, InitHasInv
<1>2. Inv /\ [Next]_vars => Inv'
  <2> SUFFICES ASSUME Inv, [Next]_vars PROVE Inv'
    OBVIOUS
  <2>1. CASE Next
    <3>1. PICK w \in Workers : Takes(w) \/ \E f \in Feeds : Build(w, f)
      BY <2>1 DEF Next, Takes
    <3>2. CASE Takes(w)
      BY <3>2, CotsTripAssumption, RowsAssumption, FeedKeepsInv
    <3>3. CASE \E f \in Feeds : Build(w, f)
      BY <3>3, CotsTripAssumption, BuildKeepsInv
    <3>4. QED
      BY <3>1, <3>2, <3>3
  <2>2. CASE UNCHANGED vars
    BY <2>2, StutterKeepsInv
  <2>3. QED
    BY <2>1, <2>2
<1>3. QED
  BY <1>1, <1>2, PTL DEF Spec

-----------------------------------------------------------------------------
(***************************************************************************)
(* The properties                                                          *)
(***************************************************************************)

\* Every variable of the life of COTS' trips keeps its type.
THEOREM TypesAreKept == Spec => []TypeOK
<1>1. Inv => TypeOK
  BY DEF Inv
<1>2. QED
  BY <1>1, CotsInvariant, PTL

\* What merge() makes of the rows of several feeds, and of those of which it tells
\* navitia nothing, is what navitia holds, but for a cancelled trip that a feed
\* brings back without any stop.
THEOREM NavitiaHoldsWhatIsStored == Spec => []ToldIsStored
<1>1. Inv => ToldIsStored
  BY DEF Inv
<1>2. QED
  BY <1>1, CotsInvariant, PTL

\* Whatever the feeds and the order they are merged in, each trip told to navitia
\* has the effect of its status and stops, and is of the kind of its status.
THEOREM EachTripIsOfAPiece == Spec => []ToldIsOfAPiece
<1>1. Inv => ToldIsOfAPiece
  BY DEF Inv
<1>2. QED
  BY <1>1, CotsInvariant, PTL

\* The search of _get_navitia_vjs() for a trip already present keeps navitia from
\* an added trip that doubles one of the schedule, although the two are read at
\* another moment than the addition is stored, and other feeds come in between.
THEOREM AddedTripsAreNew == Spec => []AddedIsNew
<1>1. Inv => AddedIsNew
  <2> SUFFICES ASSUME Inv, NEW k \in Keys, told[k] # None, told[k].status = "add",
                      origin[k].status = "AJOUTEE", k[2] \in Period(origin[k], FALSE),
                      NEW b \in BaseTrips, k[1] \in b.headsigns
               PROVE  ~(b.start <= k[2] /\ k[2] <= b.end)
    BY DEF AddedIsNew
  <2>1. k[1] \in AddedIds
    BY DEF Inv, ToldIsOfAPiece
  <2>2. stored[k] # None
    BY DEF Inv, OnlyStoredIsTold
  <2>3. origin[k] # None
    BY <2>1, <2>2 DEF Inv, Described
  <2>4. QED
    BY <2>1, <2>3 DEF Inv, OriginIsNew
<1>2. QED
  BY <1>1, CotsInvariant, PTL

-----------------------------------------------------------------------------
(***************************************************************************)
(* Feeds one at a time                                                     *)
(***************************************************************************)

\* A process becomes idle by handle() only, whether it succeeds or fails.
LEMMA OnlyHandleHandles ==
    ASSUME TypeOK, Next, NEW w \in Workers, Handles(w)
    PROVE  Takes(w)
<1>1. pc[w] = "built" /\ pc'[w] = "idle"
  BY DEF Handles
<1>2. ASSUME NEW v \in Workers, NEW f \in Feeds, Build(v, f) PROVE FALSE
  <2>1. pc' = [pc EXCEPT ![v] = "built"] /\ pc[v] = "idle"
    BY <1>2 DEF Build
  <2>2. QED
    BY <1>1, <2>1 DEF TypeOK
<1>3. ASSUME NEW v \in Workers, Takes(v), v # w PROVE FALSE
  <2>1. pc' = [pc EXCEPT ![v] = "idle"]
    BY <1>3 DEF Takes, Handle, HandleFails, Finish
  <2>2. QED
    BY <1>1, <1>3, <2>1 DEF TypeOK
<1>4. QED
  BY <1>2, <1>3 DEF Next, Takes

\* What the builder found still holds if no other feed was handled since.
LEMMA BuilderWasRight ==
    ASSUME Inv, NEW w \in Workers, pc[w] = "built", ~overtaken[w]
    PROVE  /\ plan[w] = Vjs(feed[w], action[w])
           /\ AddedRows(feed[w]) # {} =>
                 \E k \in AddedRows(feed[w]) :
                    /\ ~IsForbidden(feed[w], stored[k])
                    /\ action[w] = ActionOnTrip(feed[w], stored[k])
<1>1. PICK row \in RowsFound(feed[w]) :
         /\ ~IsRefused(feed[w], row)
         /\ action[w] = ActionOnTrip(feed[w], row)
         /\ plan[w] = Vjs(feed[w], ActionOnTrip(feed[w], row))
  BY FoundIsRowsFound DEF Inv, StillStands
<1>2. row # None => ~IsForbidden(feed[w], row)
  BY <1>1 DEF IsRefused
<1>3. AddedRows(feed[w]) # {} => \E k \in AddedRows(feed[w]) : row = stored[k]
  BY DEF RowsFound
<1>4. \A k \in AddedRows(feed[w]) : stored[k] # None
  BY DEF AddedRows
<1>5. QED
  BY <1>1, <1>2, <1>3, <1>4

\* "No addition multiple times.  No update or delete on trip already deleted":
\* between the query of _get_action_on_trip() and the one of handle(), only another
\* feed can make it untrue.
THEOREM ForbiddenFeedsAreRefused == Spec => ForbiddenIsRefused
<1>1. Inv /\ [Next]_vars =>
        [\A w \in Workers :
            Handles(w) /\ ~overtaken[w] /\ AddedRows(feed[w]) # {} =>
               \E k \in AddedRows(feed[w]) :
                  stored[k].status # (IF feed[w].status = "AJOUTEE" THEN "add"
                                                                    ELSE "delete")]_vars
  <2> SUFFICES ASSUME Inv, NEW w \in Workers, Handles(w), ~overtaken[w],
                      AddedRows(feed[w]) # {}
               PROVE  \E k \in AddedRows(feed[w]) :
                         stored[k].status # (IF feed[w].status = "AJOUTEE" THEN "add"
                                                                           ELSE "delete")
    OBVIOUS
  <2>1. PICK k \in AddedRows(feed[w]) : ~IsForbidden(feed[w], stored[k])
    BY BuilderWasRight DEF Handles
  <2>2. QED
    BY <2>1 DEF IsForbidden
<1>2. QED
  BY <1>1, CotsInvariant, PTL DEF Spec, ForbiddenIsRefused

\* A cancellation reaches the added trips of its train.
LEMMA AddedTripIsCancelled ==
    ASSUME CotsTripAssumption, RowsAssumption, Inv,
           NEW w \in Workers, Takes(w), ~overtaken[w], feed[w].status = "SUPPRIMEE",
           Headsigns[feed[w].number] = {TrainId[feed[w].number]},
           \A j \in AddedRows(feed[w]) : j[2] = Since(feed[w], FALSE),
           NEW k \in Keys, OfTrain(feed[w], k), told'[k] # None
    PROVE  told'[k].status = "delete"
<1> DEFINE f == feed[w]
<1>1. pc[w] = "built"
  BY DEF Takes, Handle, HandleFails
<1>2. f \in Feeds /\ New(w).status = "delete"
  BY <1>1, NewFits
<1>3. CASE StoredAndTold(w, k)
  BY <1>2, <1>3 DEF StoredAndTold, HasMerged
<1>4. CASE k \notin plan[w] /\ Untouched(w, k)
  <2>1. stored[k] # None
    BY <1>4 DEF Untouched, Inv, OnlyStoredIsTold
  <2>2. k \in AddedRows(f)
    BY <2>1 DEF OfTrain, AddedRows
  <2>3. PICK j \in AddedRows(f) :
           ~IsForbidden(f, stored[j]) /\ action[w] = ActionOnTrip(f, stored[j])
    BY <1>1, <2>2, BuilderWasRight
  <2>4. j \in Keys /\ stored[j] # None /\ j[1] \in Headsigns[f.number]
    BY <2>3 DEF AddedRows
  <2>5. j[1] \in AddedIds
    BY <1>2, <2>4 DEF CotsTripAssumption, AddedIds
  <2>6. stored[j].status = "add"
    BY <2>3, <2>4, <2>5 DEF IsForbidden, Inv, RowsFit
  <2>7. action[w] = "PREVIOUSLY_ADDED"
    BY <2>3, <2>4, <2>6 DEF ActionOnTrip
  <2>8. plan[w] = AddedVjs(f)
    BY <1>1, <2>7, BuilderWasRight DEF Vjs
  <2>9. k = <<TrainId[f.number], Since(f, FALSE)>>
    <3>1. k[1] = TrainId[f.number] /\ k[2] = Since(f, FALSE)
      BY <2>2 DEF AddedRows
    <3>2. k = <<k[1], k[2]>>
      BY DEF Keys
    <3>3. QED
      BY <3>1, <3>2
  <2>10. QED
    BY <1>4, <2>8, <2>9 DEF AddedVjs
<1>5. QED
  BY <1>2, <1>3, <1>4, FeedTakesEachTrip DEF Untouched, StoredUntold, HeadOnly

\* A cancellation reaches the trips of the schedule that start in its period.
LEMMA ScheduledTripIsCancelled ==
    ASSUME CotsTripAssumption, RowsAssumption, Inv,
           NEW w \in Workers, Takes(w), ~overtaken[w], feed[w].status = "SUPPRIMEE",
           action[w] = "NOT_ADDED", Dating(feed[w], TRUE) # {},
           NEW b \in BaseTrips, b.headsigns \cap Headsigns[feed[w].number] # {},
           b.start \in Period(feed[w], TRUE)
    PROVE  told'[<<b.id, b.start>>] # None /\ told'[<<b.id, b.start>>].status = "delete"
<1> DEFINE k == <<b.id, b.start>>
<1>1. pc[w] = "built"
  BY DEF Takes, Handle, HandleFails
<1>2. New(w).status = "delete"
  BY <1>1, NewFits
<1>3. b.start \in Nat /\ b.start <= b.end /\ k \in Keys
  BY DEF CotsTripAssumption, Keys, BaseIds, Time
<1>4. b \in NavitiaVjs(feed[w], TRUE)
  <2>1. b.start <= b.start /\ b.start <= b.end
    BY <1>3
  <2>2. \E t \in Period(feed[w], TRUE) : b.start <= t /\ t <= b.end
    BY <2>1
  <2>3. QED
    BY <2>2 DEF NavitiaVjs
<1>5. k \in DatedVjs(feed[w])
  BY <1>4 DEF DatedVjs
<1>6. k \in plan[w]
  BY <1>1, <1>5, BuilderWasRight DEF Vjs
<1> HIDE DEF k
<1>7. StoredAndTold(w, k)
  BY <1>2, <1>3, <1>6, FeedTakesEachTrip DEF Untouched, StoredUntold, HeadOnly
<1>8. told'[k] # None /\ told'[k].status = "delete"
  BY <1>2, <1>7 DEF StoredAndTold, HasMerged, RowsAssumption
<1>9. QED
  BY <1>8 DEF k

\* A cancellation that is accepted leaves no trip of its train running, unless
\* another feed came in between, the feed moves the start of the train or its
\* number is not the one the train is stored with.
THEOREM SuppressedTrainsAreGone == Spec => SuppressedIsGone
<1>1. Inv /\ [Next]_vars =>
        [\A w \in Workers :
            Handles(w) /\ ~overtaken[w] /\ feed[w].status = "SUPPRIMEE" =>
               /\ (/\ Headsigns[feed[w].number] = {TrainId[feed[w].number]}
                   /\ \A k \in AddedRows(feed[w]) : k[2] = Since(feed[w], FALSE))
                  => \A k \in Keys : OfTrain(feed[w], k) /\ told'[k] # None =>
                        told'[k].status = "delete"
               /\ action[w] = "NOT_ADDED" /\ Dating(feed[w], TRUE) # {} =>
                     \A b \in BaseTrips :
                        (/\ b.headsigns \cap Headsigns[feed[w].number] # {}
                         /\ b.start \in Period(feed[w], TRUE))
                        => /\ told'[<<b.id, b.start>>] # None
                           /\ told'[<<b.id, b.start>>].status = "delete"]_vars
  <2> SUFFICES ASSUME Inv, Next, NEW w \in Workers, Handles(w), ~overtaken[w],
                      feed[w].status = "SUPPRIMEE"
               PROVE  /\ (/\ Headsigns[feed[w].number] = {TrainId[feed[w].number]}
                          /\ \A k \in AddedRows(feed[w]) : k[2] = Since(feed[w], FALSE))
                         => \A k \in Keys : OfTrain(feed[w], k) /\ told'[k] # None =>
                               told'[k].status = "delete"
                      /\ action[w] = "NOT_ADDED" /\ Dating(feed[w], TRUE) # {} =>
                            \A b \in BaseTrips :
                               (/\ b.headsigns \cap Headsigns[feed[w].number] # {}
                                /\ b.start \in Period(feed[w], TRUE))
                               => /\ told'[<<b.id, b.start>>] # None
                                  /\ told'[<<b.id, b.start>>].status = "delete"
    OBVIOUS
  <2>1. Takes(w)
    BY OnlyHandleHandles DEF Inv
  <2>2. QED
    BY <2>1, CotsTripAssumption, RowsAssumption, AddedTripIsCancelled,
       ScheduledTripIsCancelled
<1>2. QED
  BY <1>1, CotsInvariant, PTL DEF Spec, SuppressedIsGone

=============================================================================
