--------------------------- MODULE GtfsPoller_proofs ---------------------------
(***************************************************************************)
(* Proofs about GtfsPoller, for any number of tasks, versions and faults,  *)
(* provided that no poll outlives its lock.                                *)
(***************************************************************************)
EXTENDS GtfsPoller, SequenceTheorems, TLAPS

USE GtfsPollerAssumption DEF GtfsPollerAssumption

\* A task that polls has the lock.
LockIsHeld == \A t \in Tasks : pc[t] # "idle" => lock = t

\* Where an error is about to be reported there is one, and before there is neither
\* an error nor a row.
ErrorIsFound ==
    \A t \in Tasks :
       /\ pc[t] \in {"idle", "readLastCall", "storeLastCall", "head", "compare", "noNew",
                     "get", "builder", "save", "handle"} => error[t] = "none"
       /\ pc[t] \in {"idle", "readLastCall", "storeLastCall", "head", "compare", "noNew",
                     "get", "builder", "error", "save"} => row[t] = 0
       /\ pc[t] = "error" => error[t] \in {"http", "protobuf"}
       /\ pc[t] \in {"flip", "back"} => error[t] \in {"none", "http", "protobuf"}
       /\ pc[t] = "wipe" => row[t] = 0 \/ error[t] # "none"
       /\ pc[t] = "ko" => error[t] # "none"

\* Where a row is about to be changed there is one.
RowIsThere == \A t \in Tasks : pc[t] \in {"handle", "flip", "back", "ko"} => row[t] # 0

\* A feed is read after its ETag, and after what is stored.
ReadInOrder ==
    /\ stored <= served
    /\ \A t \in Tasks :
          /\ head[t] <= served /\ got[t] <= served
          /\ pc[t] \in {"builder", "save", "handle"} \/ error[t] \in {"noNew", "protobuf"} =>
                got[t] # 0 /\ head[t] <= got[t]
          /\ pc[t] \in {"builder", "save", "handle"} => stored <= got[t]

\* A poll that goes on has found that the interval had passed.
IntervalHasPassed == \A t \in Tasks : pc[t] = "storeLastCall" => ~recent

\* The ETag in redis does not keep a feed from being handled.
ETagIsFine == etag = 0 \/ etag \in settled \cup excused \/ etag < served

\* The task is about to handle the feed behind the ETag it has stored, or to forget
\* that.
IsHandling(t) ==
    \/ pc[t] \in {"get", "builder", "error", "save", "handle", "wipe"}
    \/ pc[t] \in {"flip", "back"} /\ error[t] # "none"
    \/ pc[t] = "ko" /\ error[t] \in {"noNew", "protobuf"}

\* The ETag is fine all the time, except while a task is about to handle its feed.
ETagIsKept ==
    /\ AtRest => ETagIsFine
    /\ \A t \in Tasks :
          pc[t] # "idle" => ETagIsFine \/ (etag = head[t] /\ IsHandling(t))

\* With that status a row tells the truth about its feed or its error.
IsTrueOf(r, s) ==
    \/ s = "OK" /\ r.data \in everStored
    \/ s = "KO" /\ r.error # "none"

RowIsTrue(r) == IsTrueOf(r, r.status)

\* The task is on its way to make its row true: it stores the feed, reports the error
\* or puts the status back.
IsSettingRow(t) ==
    \/ pc[t] = "handle" /\ rows[row[t]].status = "OK" /\ rows[row[t]].data = got[t]
    \/ pc[t] = "wipe" /\ rows[row[t]].status = "OK"
    \/ pc[t] \in {"ko", "back"}

\* A row that is not true has a task that sets it, unless a task gave it up; the status
\* that is put back is the one the row had.
RowsAreKept ==
    /\ \A i \in DOMAIN rows \ torn :
          RowIsTrue(rows[i]) \/ \E t \in Tasks : row[t] = i /\ IsSettingRow(t)
    /\ \A t \in Tasks :
          /\ pc[t] = "flip" => saved[t] = rows[row[t]].status
          /\ pc[t] = "back" /\ row[t] \notin torn => IsTrueOf(rows[row[t]], saved[t])

PollInv ==
    /\ TypeOK
    /\ LockIsHeld /\ ErrorIsFound /\ RowIsThere /\ ReadInOrder /\ IntervalHasPassed
    /\ ETagIsKept /\ RowsAreKept

-----------------------------------------------------------------------------
(***************************************************************************)
(* Types                                                                   *)
(***************************************************************************)

LEMMA AppendedRows ==
    ASSUME rows \in Seq(RealTimeUpdate), NEW r \in RealTimeUpdate, rows' = Append(rows, r)
    PROVE  /\ rows' \in Seq(RealTimeUpdate)
           /\ Len(rows') = Len(rows) + 1
           /\ DOMAIN rows \subseteq DOMAIN rows'
           /\ DOMAIN rows' = DOMAIN rows \cup {Len(rows')}
           /\ rows'[Len(rows')] = r
           /\ \A i \in DOMAIN rows : rows'[i] = rows[i]
OBVIOUS

LEMMA EditedRows ==
    ASSUME rows \in Seq(RealTimeUpdate), NEW i \in DOMAIN rows, NEW r \in RealTimeUpdate,
           rows' = [rows EXCEPT ![i] = r]
    PROVE  /\ rows' \in Seq(RealTimeUpdate)
           /\ Len(rows') = Len(rows)
           /\ DOMAIN rows' = DOMAIN rows
           /\ rows'[i] = r
           /\ \A j \in DOMAIN rows \ {i} : rows'[j] = rows[j]
OBVIOUS

\* What a task that stops short leaves undone are versions and rows.
LEMMA GivenUpTypes ==
    ASSUME TypeOK, NEW t \in Tasks, GiveUp(t)
    PROVE  excused' \in SUBSET Versions /\ torn' \in SUBSET (DOMAIN rows)
<1>1. {head[t], got[t]} \ {0} \subseteq Versions
  <2>1. head[t] \in 0 .. MaxVersion /\ got[t] \in 0 .. MaxVersion
    BY DEF TypeOK
  <2>2. QED
    BY <2>1 DEF Versions
<1>2. {row[t]} \ {0} \subseteq DOMAIN rows
  <2>1. row[t] \in 0 .. Len(rows) /\ DOMAIN rows = 1 .. Len(rows) /\ Len(rows) \in Nat
    BY DEF TypeOK
  <2>2. QED
    BY <2>1
<1>3. excused \in SUBSET Versions /\ torn \in SUBSET (DOMAIN rows)
  BY DEF TypeOK
<1>4. QED
  BY <1>1, <1>2, <1>3 DEF GiveUp

\* The row a task works on is in the table.
LEMMA RowInTable ==
    ASSUME TypeOK, NEW t \in Tasks, row[t] # 0
    PROVE  row[t] \in DOMAIN rows /\ rows[row[t]] \in RealTimeUpdate
BY DEF TypeOK

LEMMA FoundTypes ==
    ASSUME TypeOK, NEW t \in Tasks, rows # <<>>, FindLast(t)
    PROVE  /\ row' \in [Tasks -> Nat]
           /\ \A u \in Tasks : row'[u] \in 0 .. Len(rows)
           /\ saved' \in [Tasks -> Status]
<1>1. Len(rows) \in DOMAIN rows
  <2>1. Len(rows) \in Nat /\ Len(rows) # 0 /\ DOMAIN rows = 1 .. Len(rows)
    BY EmptySeq DEF TypeOK
  <2>2. QED
    BY <2>1
<1>2. rows[Len(rows)].status \in Status
  <2>1. rows[Len(rows)] \in RealTimeUpdate
    BY <1>1 DEF TypeOK
  <2>2. QED
    BY <2>1 DEF RealTimeUpdate
<1>3. row \in [Tasks -> Nat] /\ saved \in [Tasks -> Status] /\ Len(rows) \in Nat
      /\ \A u \in Tasks : row[u] \in 0 .. Len(rows)
  BY DEF TypeOK
<1>4. row' = [row EXCEPT ![t] = Len(rows)]
      /\ saved' = [saved EXCEPT ![t] = rows[Len(rows)].status]
  BY DEF FindLast
<1>5. QED
  BY <1>2, <1>3, <1>4

\* A poll that is over has forgotten everything.
LEMMA ForgottenTypes ==
    ASSUME TypeOK, NEW t \in Tasks, Forget(t)
    PROVE  /\ head' \in [Tasks -> 0 .. MaxVersion] /\ got' \in [Tasks -> 0 .. MaxVersion]
           /\ row' \in [Tasks -> Nat] /\ \A u \in Tasks : row'[u] \in 0 .. Len(rows)
           /\ saved' \in [Tasks -> Status] /\ error' \in [Tasks -> Errors]
<1>1. head' \in [Tasks -> 0 .. MaxVersion] /\ got' \in [Tasks -> 0 .. MaxVersion]
  BY DEF TypeOK, Forget
<1>2. row' \in [Tasks -> Nat] /\ \A u \in Tasks : row'[u] \in 0 .. Len(rows)
  BY DEF TypeOK, Forget
<1>3. saved' \in [Tasks -> Status] /\ error' \in [Tasks -> Errors]
  BY DEF TypeOK, Forget, Status, Errors
<1>4. QED
  BY <1>1, <1>2, <1>3

\* A task that saved a row works on the last one.
LEMMA SavedTypes ==
    ASSUME TypeOK, NEW t \in Tasks, NEW r \in RealTimeUpdate,
           rows' = Append(rows, r), row' = [row EXCEPT ![t] = Len(rows')]
    PROVE  /\ rows' \in Seq(RealTimeUpdate)
           /\ row' \in [Tasks -> Nat]
           /\ \A u \in Tasks : row'[u] \in 0 .. Len(rows')
           /\ torn \in SUBSET (DOMAIN rows')
<1>1. /\ rows' \in Seq(RealTimeUpdate)
      /\ Len(rows') = Len(rows) + 1
      /\ DOMAIN rows \subseteq DOMAIN rows'
  BY AppendedRows DEF TypeOK
<1>2. Len(rows) \in Nat
  BY DEF TypeOK
<1>3. QED
  BY <1>1, <1>2 DEF TypeOK

\* A task changes its place and leaves the variables of the others.
LEMMA NextTypeOK ==
    ASSUME TypeOK, RowIsThere, ReadInOrder, [Next]_vars
    PROVE  TypeOK'
<1>1. ASSUME NEW t \in Tasks, TakeLock(t) PROVE TypeOK'
  <2>1. pc' \in [Tasks -> Steps]
    BY <1>1 DEF TakeLock, Goto, TypeOK, Steps
  <2>2. QED
    BY <1>1, <2>1 DEF TakeLock, historyVars, TypeOK
<1>2. ASSUME NEW t \in Tasks, ReadLastCall(t) PROVE TypeOK'
  <2>1. pc' \in [Tasks -> Steps]
    BY <1>2 DEF ReadLastCall, Goto, TypeOK, Steps
  <2>2. QED
    BY <1>2, <2>1 DEF ReadLastCall, historyVars, TypeOK
<1>3. ASSUME NEW t \in Tasks, StoreLastCall(t) PROVE TypeOK'
  <2>1. pc' \in [Tasks -> Steps]
    BY <1>3 DEF StoreLastCall, Goto, TypeOK, Steps
  <2>2. QED
    BY <1>3, <2>1 DEF StoreLastCall, historyVars, TypeOK
<1>4. ASSUME NEW t \in Tasks, AskETag(t) PROVE TypeOK'
  <2>1. pc' \in [Tasks -> Steps]
    BY <1>4 DEF AskETag, Goto, TypeOK, Steps
  <2>2. head' \in [Tasks -> 0 .. MaxVersion]
    BY <1>4 DEF AskETag, TypeOK, Versions
  <2>3. QED
    BY <1>4, <2>1, <2>2 DEF AskETag, historyVars, TypeOK
<1>5. ASSUME NEW t \in Tasks, CompareETag(t) PROVE TypeOK'
  <2>1. pc' \in [Tasks -> Steps]
    BY <1>5 DEF CompareETag, Goto, TypeOK, Steps
  <2>2. QED
    BY <1>5, <2>1 DEF CompareETag, Goto, historyVars, TypeOK
<1>6. ASSUME NEW t \in Tasks, IsNewerFails(t) PROVE TypeOK'
  <2>1. pc' \in [Tasks -> Steps]
    BY <1>6 DEF IsNewerFails, Goto, TypeOK, Steps
  <2>2. QED
    BY <1>6, <2>1 DEF IsNewerFails, Fault, Goto, historyVars, TypeOK
<1>7. ASSUME NEW t \in Tasks, Get(t) PROVE TypeOK'
  <2>1. pc' \in [Tasks -> Steps]
    BY <1>7 DEF Get, Goto, TypeOK, Steps
  <2>2. got' \in [Tasks -> 0 .. MaxVersion]
    BY <1>7 DEF Get, TypeOK, Versions
  <2>3. QED
    BY <1>7, <2>1, <2>2 DEF Get, historyVars, TypeOK
<1>8. ASSUME NEW t \in Tasks, GetFails(t) PROVE TypeOK'
  <2>1. pc' \in [Tasks -> Steps]
    BY <1>8 DEF GetFails, Goto, TypeOK, Steps
  <2>2. error' \in [Tasks -> Errors] /\ faults' \in 0 .. MaxFaults
    BY <1>8 DEF GetFails, Fault, TypeOK, Errors
  <2>3. QED
    BY <1>8, <2>1, <2>2 DEF GetFails, historyVars, TypeOK
<1>9. ASSUME NEW t \in Tasks, NoNew(t) PROVE TypeOK'
  <2>1. CASE rows = <<>>
    BY <1>9, <2>1 DEF NoNew, historyVars, TypeOK, Steps, Goto
  <2>2. CASE rows # <<>>
    <3>1. FindLast(t) /\ Goto(t, "noNew", "flip")
      BY <1>9, <2>2 DEF NoNew
    <3>2. QED
      BY <1>9, <2>2, <3>1, FoundTypes DEF NoNew, historyVars, TypeOK, Steps, Goto
  <2>3. QED
    BY <2>1, <2>2
<1>10. ASSUME NEW t \in Tasks, PokeError(t) PROVE TypeOK'
  <2>1. rows # <<>> /\ FindLast(t)
    BY <1>10 DEF PokeError, SameAsLast
  <2>2. QED
    BY <1>10, <2>1, FoundTypes DEF PokeError, Goto, historyVars, TypeOK, Steps
<1>11. ASSUME NEW t \in Tasks, SaveError(t) PROVE TypeOK'
  <2>1. [data |-> ErrorRow(t).data, status |-> "OK", error |-> "none"] \in RealTimeUpdate
    <3>1. got[t] \in 0 .. MaxVersion
      BY DEF TypeOK
    <3>2. ErrorRow(t).data \in 0 .. MaxVersion
      BY <3>1 DEF ErrorRow
    <3>3. QED
      BY <3>2 DEF RealTimeUpdate, Status, Errors
  <2>2. /\ rows' \in Seq(RealTimeUpdate)
        /\ row' \in [Tasks -> Nat]
        /\ \A u \in Tasks : row'[u] \in 0 .. Len(rows')
        /\ torn \in SUBSET (DOMAIN rows')
    BY <1>11, <2>1, SavedTypes DEF SaveError
  <2>3. QED
    BY <1>11, <2>2 DEF SaveError, Goto, historyVars, TypeOK, Steps
<1>12. ASSUME NEW t \in Tasks, PokeFlip(t) PROVE TypeOK'
  <2>1. row[t] \in DOMAIN rows /\ rows[row[t]] \in RealTimeUpdate
    BY <1>12, RowInTable DEF PokeFlip, Goto, RowIsThere
  <2>2. [rows[row[t]] EXCEPT !.status = IF saved[t] = "pending" THEN "OK" ELSE "pending"] \in RealTimeUpdate
    BY <2>1 DEF RealTimeUpdate, Status
  <2>3. /\ rows' \in Seq(RealTimeUpdate)
        /\ Len(rows') = Len(rows)
        /\ DOMAIN rows' = DOMAIN rows
    BY <1>12, <2>1, <2>2, EditedRows DEF PokeFlip, TypeOK
  <2>4. QED
    BY <1>12, <2>3 DEF PokeFlip, Goto, historyVars, TypeOK, Steps
<1>13. ASSUME NEW t \in Tasks, PokeBack(t) PROVE TypeOK'
  <2>1. row[t] \in DOMAIN rows /\ rows[row[t]] \in RealTimeUpdate
    BY <1>13, RowInTable DEF PokeBack, Goto, RowIsThere
  <2>2. [rows[row[t]] EXCEPT !.status = saved[t]] \in RealTimeUpdate
    BY <2>1 DEF RealTimeUpdate, TypeOK
  <2>3. /\ rows' \in Seq(RealTimeUpdate)
        /\ Len(rows') = Len(rows)
        /\ DOMAIN rows' = DOMAIN rows
    BY <1>13, <2>1, <2>2, EditedRows DEF PokeBack, TypeOK
  <2>4. QED
    BY <1>13, <2>3 DEF PokeBack, Goto, historyVars, TypeOK, Steps
<1>14. ASSUME NEW t \in Tasks, BuildRtUpdate(t) PROVE TypeOK'
  <2>1. [data |-> got[t], status |-> "OK", error |-> "none"] \in RealTimeUpdate
    BY DEF RealTimeUpdate, Status, Errors, TypeOK
  <2>2. /\ rows' \in Seq(RealTimeUpdate)
        /\ row' \in [Tasks -> Nat]
        /\ \A u \in Tasks : row'[u] \in 0 .. Len(rows')
        /\ torn \in SUBSET (DOMAIN rows')
    BY <1>14, <2>1, SavedTypes DEF BuildRtUpdate
  <2>3. QED
    BY <1>14, <2>2 DEF BuildRtUpdate, Goto, historyVars, TypeOK, Steps
<1>15. ASSUME NEW t \in Tasks, HandleChanges(t) PROVE TypeOK'
  <2>1. got[t] \in Versions
    BY <1>15 DEF HandleChanges, Goto, ReadInOrder, TypeOK, Versions
  <2>2. QED
    BY <1>15, <2>1 DEF HandleChanges, Settle, Goto, historyVars, TypeOK, Steps
<1>16. ASSUME NEW t \in Tasks, HandleNothing(t) PROVE TypeOK'
  <2>1. pc' \in [Tasks -> Steps]
    BY <1>16 DEF HandleNothing, Goto, TypeOK, Steps
  <2>2. QED
    BY <1>16, <2>1 DEF HandleNothing, historyVars, TypeOK, Errors
<1>17. ASSUME NEW t \in Tasks, HandleFails(t) PROVE TypeOK'
  <2>1. got[t] \in 0 .. MaxVersion /\ stored \in 0 .. MaxVersion
    BY DEF TypeOK
  <2>2. stored' \in 0 .. MaxVersion
    BY <1>17, <2>1 DEF HandleFails
  <2>3. everStored' \in SUBSET Versions
    BY <1>17, <2>2 DEF HandleFails, TypeOK, Versions
  <2>4. QED
    BY <1>17, <2>2, <2>3 DEF HandleFails, Fault, Goto, historyVars, TypeOK, Steps, Errors
<1>18. ASSUME NEW t \in Tasks, HandleLost(t) PROVE TypeOK'
  <2>1. excused' \in SUBSET Versions /\ torn' \in SUBSET (DOMAIN rows)
    BY <1>18, GivenUpTypes DEF HandleLost
  <2>2. QED
    BY <1>18, <2>1 DEF HandleLost, Fault, Goto, historyVars, TypeOK, Steps
<1>19. ASSUME NEW t \in Tasks, Wipe(t) PROVE TypeOK'
  <2>1. pc' \in [Tasks -> Steps]
    BY <1>19 DEF Wipe, Goto, TypeOK, Steps
  <2>2. QED
    BY <1>19, <2>1 DEF Wipe, historyVars, TypeOK
<1>20. ASSUME NEW t \in Tasks, SetKo(t) PROVE TypeOK'
  <2>1. row[t] \in DOMAIN rows /\ rows[row[t]] \in RealTimeUpdate
    BY <1>20, RowInTable DEF SetKo, Goto, RowIsThere
  <2>2. [rows[row[t]] EXCEPT !.status = "KO", !.error = error[t]] \in RealTimeUpdate
    BY <2>1 DEF RealTimeUpdate, Status, TypeOK
  <2>3. /\ rows' \in Seq(RealTimeUpdate)
        /\ Len(rows') = Len(rows)
        /\ DOMAIN rows' = DOMAIN rows
    BY <1>20, <2>1, <2>2, EditedRows DEF SetKo, TypeOK
  <2>4. settled' \in SUBSET Versions
    <3>1. error[t] \in {"noNew", "protobuf"} => got[t] \in Versions
      BY DEF ReadInOrder, TypeOK, Versions
    <3>2. QED
      BY <1>20, <3>1 DEF SetKo, Settle, TypeOK
  <2>5. QED
    BY <1>20, <2>3, <2>4 DEF SetKo, Goto, historyVars, TypeOK, Steps
<1>21. ASSUME NEW t \in Tasks, Release(t) PROVE TypeOK'
  <2>1. pc' \in [Tasks -> Steps]
    BY <1>21 DEF Release, Goto, TypeOK, Steps
  <2>2. /\ head' \in [Tasks -> 0 .. MaxVersion] /\ got' \in [Tasks -> 0 .. MaxVersion]
        /\ row' \in [Tasks -> Nat] /\ \A u \in Tasks : row'[u] \in 0 .. Len(rows)
        /\ saved' \in [Tasks -> Status] /\ error' \in [Tasks -> Errors]
    BY <1>21, ForgottenTypes DEF Release
  <2>3. QED
    BY <1>21, <2>1, <2>2 DEF Release, historyVars, TypeOK
<1>22. ASSUME NEW t \in Tasks, RedisFails(t) PROVE TypeOK'
  <2>1. excused' \in SUBSET Versions /\ torn' \in SUBSET (DOMAIN rows)
    BY <1>22, GivenUpTypes DEF RedisFails, TypeOK
  <2>2. /\ head' \in [Tasks -> 0 .. MaxVersion] /\ got' \in [Tasks -> 0 .. MaxVersion]
        /\ row' \in [Tasks -> Nat] /\ \A u \in Tasks : row'[u] \in 0 .. Len(rows)
        /\ saved' \in [Tasks -> Status] /\ error' \in [Tasks -> Errors]
    <3>1. CASE pc[t] = "release"
      BY <1>22, <3>1, ForgottenTypes DEF RedisFails
    <3>2. CASE pc[t] # "release"
      BY <1>22, <3>2 DEF RedisFails, TypeOK
    <3>3. QED
      BY <3>1, <3>2
  <2>3. pc' \in [Tasks -> Steps]
    BY <1>22 DEF RedisFails, TypeOK, Steps
  <2>4. faults' \in 0 .. MaxFaults
    BY <1>22 DEF RedisFails, Fault, TypeOK
  <2>5. QED
    BY <1>22, <2>1, <2>2, <2>3, <2>4 DEF RedisFails, TypeOK
<1>23. ASSUME NEW t \in Tasks, DatabaseFails(t) PROVE TypeOK'
  <2>1. excused' \in SUBSET Versions /\ torn' \in SUBSET (DOMAIN rows)
    BY <1>23, GivenUpTypes DEF DatabaseFails, TypeOK
  <2>2. QED
    <3>1. pc' \in [Tasks -> Steps]
      BY <1>23 DEF DatabaseFails, Goto, TypeOK, Steps
    <3>2. faults' \in 0 .. MaxFaults
      BY <1>23 DEF DatabaseFails, Fault, TypeOK
    <3>3. UNCHANGED <<served, lock, recent, etag, rows, stored, head, got, row, saved,
                      error, everStored, settled>>
      BY <1>23 DEF DatabaseFails
    <3>4. QED
      BY <2>1, <3>1, <3>2, <3>3 DEF TypeOK
<1>24. ASSUME NEW t \in Tasks, Crash(t) PROVE TypeOK'
  <2>1. excused' \in SUBSET Versions /\ torn' \in SUBSET (DOMAIN rows)
    BY <1>24, GivenUpTypes DEF Crash
  <2>2. QED
    <3>1. pc' \in [Tasks -> Steps]
      BY <1>24 DEF Crash, TypeOK, Steps
    <3>2. faults' \in 0 .. MaxFaults
      BY <1>24 DEF Crash, Fault, TypeOK
    <3>3. /\ head' \in [Tasks -> 0 .. MaxVersion] /\ got' \in [Tasks -> 0 .. MaxVersion]
          /\ row' \in [Tasks -> Nat] /\ \A u \in Tasks : row'[u] \in 0 .. Len(rows)
          /\ saved' \in [Tasks -> Status] /\ error' \in [Tasks -> Errors]
      BY <1>24, ForgottenTypes DEF Crash
    <3>4. QED
      BY <1>24, <2>1, <3>1, <3>2, <3>3 DEF Crash, TypeOK
<1>25. CASE Publish
  BY <1>25 DEF Publish, taskVars, historyVars, TypeOK, Versions
<1>26. CASE IntervalPasses
  BY <1>26 DEF IntervalPasses, taskVars, historyVars, TypeOK, Versions
<1>27. CASE LockExpires
  BY <1>27 DEF LockExpires, taskVars, historyVars, TypeOK, Versions
<1>28. CASE UNCHANGED vars
  BY <1>28 DEF vars, TypeOK, Versions
<1>29. ASSUME NEW t \in Tasks, AskPublicationDate(t) PROVE TypeOK'
  <2>1. pc' \in [Tasks -> Steps]
    BY <1>29 DEF AskPublicationDate, Goto, TypeOK, Steps
  <2>2. error' \in [Tasks -> Errors]
    BY <1>29 DEF AskPublicationDate, TypeOK, Errors
  <2>3. QED
    BY <1>29, <2>1, <2>2 DEF AskPublicationDate, historyVars, TypeOK
<1>30. ASSUME NEW t \in Tasks, AskPublicationDateFails(t) PROVE TypeOK'
  <2>1. excused' \in SUBSET Versions /\ torn' \in SUBSET (DOMAIN rows)
    BY <1>30, GivenUpTypes DEF AskPublicationDateFails
  <2>2. QED
    BY <1>30, <2>1 DEF AskPublicationDateFails, Fault, Goto, historyVars, TypeOK, Steps
<1>31. QED
  BY <1>1, <1>2, <1>3, <1>4, <1>5, <1>6, <1>7, <1>8, <1>9, <1>10, <1>11, <1>12,
     <1>13, <1>14, <1>15, <1>16, <1>17, <1>18, <1>19, <1>20, <1>21, <1>22, <1>23,
     <1>24, <1>25, <1>26, <1>27, <1>28, <1>29, <1>30 DEF Next, Advance

-----------------------------------------------------------------------------
(***************************************************************************)
(* The lock                                                                *)
(***************************************************************************)

\* What the rest needs to know of the types.
TaskTypes ==
    /\ pc \in [Tasks -> Steps]
    /\ head \in [Tasks -> 0 .. MaxVersion] /\ got \in [Tasks -> 0 .. MaxVersion]
    /\ row \in [Tasks -> Nat] /\ saved \in [Tasks -> Status] /\ error \in [Tasks -> Errors]
    /\ served \in Nat \ {0} /\ stored \in Nat /\ etag \in Nat

LEMMA TypesOfTasks == TypeOK => TaskTypes
BY DEF TypeOK, TaskTypes, Versions

\* Only the holder of the lock moves, and a lock expires only when its holder has
\* ended.
LEMMA NextLockIsHeld ==
    ASSUME TaskTypes, LockIsHeld, "slow" \notin Faults, [Next]_vars
    PROVE  LockIsHeld'
<1>1. ASSUME NEW t \in Tasks, TakeLock(t) PROVE LockIsHeld'
  BY <1>1 DEF TakeLock, Goto, LockIsHeld, TaskTypes
<1>2. ASSUME NEW t \in Tasks, ReadLastCall(t) PROVE LockIsHeld'
  BY <1>2 DEF ReadLastCall, Goto, LockIsHeld, TaskTypes
<1>3. ASSUME NEW t \in Tasks, StoreLastCall(t) PROVE LockIsHeld'
  BY <1>3 DEF StoreLastCall, Goto, LockIsHeld, TaskTypes
<1>4. ASSUME NEW t \in Tasks, AskETag(t) PROVE LockIsHeld'
  BY <1>4 DEF AskETag, Goto, LockIsHeld, TaskTypes
<1>5. ASSUME NEW t \in Tasks, CompareETag(t) PROVE LockIsHeld'
  BY <1>5 DEF CompareETag, Goto, LockIsHeld, TaskTypes
<1>6. ASSUME NEW t \in Tasks, IsNewerFails(t) PROVE LockIsHeld'
  BY <1>6 DEF IsNewerFails, Goto, LockIsHeld, TaskTypes
<1>7. ASSUME NEW t \in Tasks, Get(t) PROVE LockIsHeld'
  BY <1>7 DEF Get, Goto, LockIsHeld, TaskTypes
<1>8. ASSUME NEW t \in Tasks, GetFails(t) PROVE LockIsHeld'
  BY <1>8 DEF GetFails, Goto, LockIsHeld, TaskTypes
<1>9. ASSUME NEW t \in Tasks, NoNew(t) PROVE LockIsHeld'
  BY <1>9 DEF NoNew, Goto, LockIsHeld, TaskTypes
<1>10. ASSUME NEW t \in Tasks, PokeError(t) PROVE LockIsHeld'
  BY <1>10 DEF PokeError, Goto, LockIsHeld, TaskTypes
<1>11. ASSUME NEW t \in Tasks, SaveError(t) PROVE LockIsHeld'
  BY <1>11 DEF SaveError, Goto, LockIsHeld, TaskTypes
<1>12. ASSUME NEW t \in Tasks, PokeFlip(t) PROVE LockIsHeld'
  BY <1>12 DEF PokeFlip, Goto, LockIsHeld, TaskTypes
<1>13. ASSUME NEW t \in Tasks, PokeBack(t) PROVE LockIsHeld'
  BY <1>13 DEF PokeBack, Goto, LockIsHeld, TaskTypes
<1>14. ASSUME NEW t \in Tasks, BuildRtUpdate(t) PROVE LockIsHeld'
  BY <1>14 DEF BuildRtUpdate, Goto, LockIsHeld, TaskTypes
<1>15. ASSUME NEW t \in Tasks, HandleChanges(t) PROVE LockIsHeld'
  BY <1>15 DEF HandleChanges, Goto, LockIsHeld, TaskTypes
<1>16. ASSUME NEW t \in Tasks, HandleNothing(t) PROVE LockIsHeld'
  BY <1>16 DEF HandleNothing, Goto, LockIsHeld, TaskTypes
<1>17. ASSUME NEW t \in Tasks, HandleFails(t) PROVE LockIsHeld'
  BY <1>17 DEF HandleFails, Goto, LockIsHeld, TaskTypes
<1>18. ASSUME NEW t \in Tasks, HandleLost(t) PROVE LockIsHeld'
  BY <1>18 DEF HandleLost, Goto, LockIsHeld, TaskTypes
<1>19. ASSUME NEW t \in Tasks, Wipe(t) PROVE LockIsHeld'
  BY <1>19 DEF Wipe, Goto, LockIsHeld, TaskTypes
<1>20. ASSUME NEW t \in Tasks, SetKo(t) PROVE LockIsHeld'
  BY <1>20 DEF SetKo, Goto, LockIsHeld, TaskTypes
<1>21. ASSUME NEW t \in Tasks, Release(t) PROVE LockIsHeld'
  BY <1>21 DEF Release, Goto, LockIsHeld, TaskTypes
<1>22. ASSUME NEW t \in Tasks, RedisFails(t) PROVE LockIsHeld'
  BY <1>22 DEF RedisFails, LockIsHeld, TaskTypes
<1>23. ASSUME NEW t \in Tasks, DatabaseFails(t) PROVE LockIsHeld'
  BY <1>23 DEF DatabaseFails, Goto, LockIsHeld, TaskTypes
<1>24. ASSUME NEW t \in Tasks, Crash(t) PROVE LockIsHeld'
  BY <1>24 DEF Crash, LockIsHeld, TaskTypes
<1>25. CASE Publish
  BY <1>25 DEF Publish, taskVars, historyVars, LockIsHeld, TaskTypes
<1>26. CASE IntervalPasses
  BY <1>26 DEF IntervalPasses, taskVars, historyVars, LockIsHeld, TaskTypes
<1>27. CASE LockExpires
  BY <1>27 DEF LockExpires, taskVars, historyVars, LockIsHeld, TaskTypes
<1>28. CASE UNCHANGED vars
  BY <1>28 DEF vars, taskVars, historyVars, LockIsHeld, TaskTypes
<1>29. ASSUME NEW t \in Tasks, AskPublicationDate(t) PROVE LockIsHeld'
  BY <1>29 DEF AskPublicationDate, Goto, LockIsHeld, TaskTypes
<1>30. ASSUME NEW t \in Tasks, AskPublicationDateFails(t) PROVE LockIsHeld'
  BY <1>30 DEF AskPublicationDateFails, Goto, LockIsHeld, TaskTypes
<1>31. QED
  BY <1>1, <1>2, <1>3, <1>4, <1>5, <1>6, <1>7, <1>8, <1>9, <1>10, <1>11, <1>12,
     <1>13, <1>14, <1>15, <1>16, <1>17, <1>18, <1>19, <1>20, <1>21, <1>22, <1>23,
     <1>24, <1>25, <1>26, <1>27, <1>28, <1>29, <1>30 DEF Next, Advance

\* While a task polls the others are idle.
LEMMA OthersAreIdle ==
    ASSUME LockIsHeld, NEW t \in Tasks, pc[t] # "idle"
    PROVE  \A u \in Tasks : u # t => pc[u] = "idle"
BY DEF LockIsHeld

-----------------------------------------------------------------------------
(***************************************************************************)
(* What a task knows                                                       *)
(***************************************************************************)

\* An error is reported where it was found, and forgotten with the poll.
LEMMA NextErrorIsFound ==
    ASSUME TaskTypes, ErrorIsFound, [Next]_vars
    PROVE  ErrorIsFound'
<1>1. ASSUME NEW t \in Tasks, TakeLock(t) PROVE ErrorIsFound'
  BY <1>1 DEF TakeLock, Goto, ErrorIsFound, TaskTypes
<1>2. ASSUME NEW t \in Tasks, ReadLastCall(t) PROVE ErrorIsFound'
  BY <1>2 DEF ReadLastCall, Goto, ErrorIsFound, TaskTypes
<1>3. ASSUME NEW t \in Tasks, StoreLastCall(t) PROVE ErrorIsFound'
  BY <1>3 DEF StoreLastCall, Goto, ErrorIsFound, TaskTypes
<1>4. ASSUME NEW t \in Tasks, AskETag(t) PROVE ErrorIsFound'
  BY <1>4 DEF AskETag, Goto, ErrorIsFound, TaskTypes
<1>5. ASSUME NEW t \in Tasks, CompareETag(t) PROVE ErrorIsFound'
  BY <1>5 DEF CompareETag, Goto, ErrorIsFound, TaskTypes
<1>6. ASSUME NEW t \in Tasks, IsNewerFails(t) PROVE ErrorIsFound'
  BY <1>6 DEF IsNewerFails, Goto, ErrorIsFound, TaskTypes
<1>7. ASSUME NEW t \in Tasks, Get(t) PROVE ErrorIsFound'
  BY <1>7 DEF Get, Goto, ErrorIsFound, TaskTypes
<1>8. ASSUME NEW t \in Tasks, GetFails(t) PROVE ErrorIsFound'
  BY <1>8 DEF GetFails, Goto, ErrorIsFound, TaskTypes
<1>9. ASSUME NEW t \in Tasks, NoNew(t) PROVE ErrorIsFound'
  BY <1>9 DEF NoNew, FindLast, Goto, ErrorIsFound, TaskTypes
<1>10. ASSUME NEW t \in Tasks, PokeError(t) PROVE ErrorIsFound'
  BY <1>10 DEF PokeError, FindLast, Goto, ErrorIsFound, TaskTypes
<1>11. ASSUME NEW t \in Tasks, SaveError(t) PROVE ErrorIsFound'
  BY <1>11 DEF SaveError, Goto, ErrorIsFound, TaskTypes
<1>12. ASSUME NEW t \in Tasks, PokeFlip(t) PROVE ErrorIsFound'
  BY <1>12 DEF PokeFlip, Goto, ErrorIsFound, TaskTypes
<1>13. ASSUME NEW t \in Tasks, PokeBack(t) PROVE ErrorIsFound'
  BY <1>13 DEF PokeBack, Goto, ErrorIsFound, TaskTypes
<1>14. ASSUME NEW t \in Tasks, BuildRtUpdate(t) PROVE ErrorIsFound'
  BY <1>14 DEF BuildRtUpdate, Goto, ErrorIsFound, TaskTypes
<1>15. ASSUME NEW t \in Tasks, HandleChanges(t) PROVE ErrorIsFound'
  BY <1>15 DEF HandleChanges, Goto, ErrorIsFound, TaskTypes
<1>16. ASSUME NEW t \in Tasks, HandleNothing(t) PROVE ErrorIsFound'
  BY <1>16 DEF HandleNothing, Goto, ErrorIsFound, TaskTypes
<1>17. ASSUME NEW t \in Tasks, HandleFails(t) PROVE ErrorIsFound'
  BY <1>17 DEF HandleFails, Goto, ErrorIsFound, TaskTypes
<1>18. ASSUME NEW t \in Tasks, HandleLost(t) PROVE ErrorIsFound'
  BY <1>18 DEF HandleLost, Goto, ErrorIsFound, TaskTypes
<1>19. ASSUME NEW t \in Tasks, Wipe(t) PROVE ErrorIsFound'
  BY <1>19 DEF Wipe, HasRowToSet, Goto, ErrorIsFound, TaskTypes
<1>20. ASSUME NEW t \in Tasks, SetKo(t) PROVE ErrorIsFound'
  BY <1>20 DEF SetKo, Goto, ErrorIsFound, TaskTypes
<1>21. ASSUME NEW t \in Tasks, Release(t) PROVE ErrorIsFound'
  BY <1>21 DEF Release, Forget, Goto, ErrorIsFound, TaskTypes
<1>22. ASSUME NEW t \in Tasks, RedisFails(t) PROVE ErrorIsFound'
  BY <1>22 DEF RedisFails, Forget, ErrorIsFound, TaskTypes
<1>23. ASSUME NEW t \in Tasks, DatabaseFails(t) PROVE ErrorIsFound'
  BY <1>23 DEF DatabaseFails, Goto, ErrorIsFound, TaskTypes
<1>24. ASSUME NEW t \in Tasks, Crash(t) PROVE ErrorIsFound'
  BY <1>24 DEF Crash, Forget, ErrorIsFound, TaskTypes
<1>25. CASE Publish
  BY <1>25 DEF Publish, taskVars, historyVars, ErrorIsFound, TaskTypes
<1>26. CASE IntervalPasses
  BY <1>26 DEF IntervalPasses, taskVars, historyVars, ErrorIsFound, TaskTypes
<1>27. CASE LockExpires
  BY <1>27 DEF LockExpires, taskVars, historyVars, ErrorIsFound, TaskTypes
<1>28. CASE UNCHANGED vars
  BY <1>28 DEF vars, taskVars, historyVars, ErrorIsFound, TaskTypes
<1>29. ASSUME NEW t \in Tasks, AskPublicationDate(t) PROVE ErrorIsFound'
  BY <1>29 DEF AskPublicationDate, Goto, ErrorIsFound, TaskTypes
<1>30. ASSUME NEW t \in Tasks, AskPublicationDateFails(t) PROVE ErrorIsFound'
  BY <1>30 DEF AskPublicationDateFails, Goto, ErrorIsFound, TaskTypes
<1>31. QED
  BY <1>1, <1>2, <1>3, <1>4, <1>5, <1>6, <1>7, <1>8, <1>9, <1>10, <1>11, <1>12,
     <1>13, <1>14, <1>15, <1>16, <1>17, <1>18, <1>19, <1>20, <1>21, <1>22, <1>23,
     <1>24, <1>25, <1>26, <1>27, <1>28, <1>29, <1>30 DEF Next, Advance

\* A task works on the row it found or saved.
LEMMA NextRowIsThere ==
    ASSUME TypeOK, TaskTypes, RowIsThere, [Next]_vars
    PROVE  RowIsThere'
<1>1. ASSUME NEW t \in Tasks, TakeLock(t) PROVE RowIsThere'
  BY <1>1 DEF TakeLock, Goto, RowIsThere, TaskTypes
<1>2. ASSUME NEW t \in Tasks, ReadLastCall(t) PROVE RowIsThere'
  BY <1>2 DEF ReadLastCall, Goto, RowIsThere, TaskTypes
<1>3. ASSUME NEW t \in Tasks, StoreLastCall(t) PROVE RowIsThere'
  BY <1>3 DEF StoreLastCall, Goto, RowIsThere, TaskTypes
<1>4. ASSUME NEW t \in Tasks, AskETag(t) PROVE RowIsThere'
  BY <1>4 DEF AskETag, Goto, RowIsThere, TaskTypes
<1>5. ASSUME NEW t \in Tasks, CompareETag(t) PROVE RowIsThere'
  BY <1>5 DEF CompareETag, Goto, RowIsThere, TaskTypes
<1>6. ASSUME NEW t \in Tasks, IsNewerFails(t) PROVE RowIsThere'
  BY <1>6 DEF IsNewerFails, Goto, RowIsThere, TaskTypes
<1>7. ASSUME NEW t \in Tasks, Get(t) PROVE RowIsThere'
  BY <1>7 DEF Get, Goto, RowIsThere, TaskTypes
<1>8. ASSUME NEW t \in Tasks, GetFails(t) PROVE RowIsThere'
  BY <1>8 DEF GetFails, Goto, RowIsThere, TaskTypes
<1>9. ASSUME NEW t \in Tasks, NoNew(t) PROVE RowIsThere'
  <2>1. rows # <<>> => Len(rows) # 0
    BY EmptySeq DEF TypeOK
  <2>2. QED
    BY <1>9, <2>1 DEF NoNew, FindLast, Goto, RowIsThere, TaskTypes
<1>10. ASSUME NEW t \in Tasks, PokeError(t) PROVE RowIsThere'
  <2>1. rows # <<>> => Len(rows) # 0
    BY EmptySeq DEF TypeOK
  <2>2. QED
    BY <1>10, <2>1 DEF PokeError, SameAsLast, FindLast, Goto, RowIsThere, TaskTypes
<1>11. ASSUME NEW t \in Tasks, SaveError(t) PROVE RowIsThere'
  <2>1. Len(rows') = Len(rows) + 1 /\ Len(rows) \in Nat
    BY <1>11 DEF SaveError, TypeOK
  <2>2. QED
    BY <1>11, <2>1 DEF SaveError, Goto, RowIsThere, TaskTypes
<1>12. ASSUME NEW t \in Tasks, PokeFlip(t) PROVE RowIsThere'
  BY <1>12 DEF PokeFlip, Goto, RowIsThere, TaskTypes
<1>13. ASSUME NEW t \in Tasks, PokeBack(t) PROVE RowIsThere'
  BY <1>13 DEF PokeBack, Goto, RowIsThere, TaskTypes
<1>14. ASSUME NEW t \in Tasks, BuildRtUpdate(t) PROVE RowIsThere'
  <2>1. Len(rows') = Len(rows) + 1 /\ Len(rows) \in Nat
    BY <1>14 DEF BuildRtUpdate, TypeOK
  <2>2. QED
    BY <1>14, <2>1 DEF BuildRtUpdate, Goto, RowIsThere, TaskTypes
<1>15. ASSUME NEW t \in Tasks, HandleChanges(t) PROVE RowIsThere'
  BY <1>15 DEF HandleChanges, Goto, RowIsThere, TaskTypes
<1>16. ASSUME NEW t \in Tasks, HandleNothing(t) PROVE RowIsThere'
  BY <1>16 DEF HandleNothing, Goto, RowIsThere, TaskTypes
<1>17. ASSUME NEW t \in Tasks, HandleFails(t) PROVE RowIsThere'
  BY <1>17 DEF HandleFails, Goto, RowIsThere, TaskTypes
<1>18. ASSUME NEW t \in Tasks, HandleLost(t) PROVE RowIsThere'
  BY <1>18 DEF HandleLost, Goto, RowIsThere, TaskTypes
<1>19. ASSUME NEW t \in Tasks, Wipe(t) PROVE RowIsThere'
  BY <1>19 DEF Wipe, HasRowToSet, Goto, RowIsThere, TaskTypes
<1>20. ASSUME NEW t \in Tasks, SetKo(t) PROVE RowIsThere'
  BY <1>20 DEF SetKo, Goto, RowIsThere, TaskTypes
<1>21. ASSUME NEW t \in Tasks, Release(t) PROVE RowIsThere'
  BY <1>21 DEF Release, Forget, Goto, RowIsThere, TaskTypes
<1>22. ASSUME NEW t \in Tasks, RedisFails(t) PROVE RowIsThere'
  BY <1>22 DEF RedisFails, Forget, RowIsThere, TaskTypes
<1>23. ASSUME NEW t \in Tasks, DatabaseFails(t) PROVE RowIsThere'
  BY <1>23 DEF DatabaseFails, Goto, RowIsThere, TaskTypes
<1>24. ASSUME NEW t \in Tasks, Crash(t) PROVE RowIsThere'
  BY <1>24 DEF Crash, Forget, RowIsThere, TaskTypes
<1>25. CASE Publish
  BY <1>25 DEF Publish, taskVars, historyVars, RowIsThere, TaskTypes
<1>26. CASE IntervalPasses
  BY <1>26 DEF IntervalPasses, taskVars, historyVars, RowIsThere, TaskTypes
<1>27. CASE LockExpires
  BY <1>27 DEF LockExpires, taskVars, historyVars, RowIsThere, TaskTypes
<1>28. CASE UNCHANGED vars
  BY <1>28 DEF vars, taskVars, historyVars, RowIsThere, TaskTypes
<1>29. ASSUME NEW t \in Tasks, AskPublicationDate(t) PROVE RowIsThere'
  BY <1>29 DEF AskPublicationDate, Goto, RowIsThere, TaskTypes
<1>30. ASSUME NEW t \in Tasks, AskPublicationDateFails(t) PROVE RowIsThere'
  BY <1>30 DEF AskPublicationDateFails, Goto, RowIsThere, TaskTypes
<1>31. QED
  BY <1>1, <1>2, <1>3, <1>4, <1>5, <1>6, <1>7, <1>8, <1>9, <1>10, <1>11, <1>12,
     <1>13, <1>14, <1>15, <1>16, <1>17, <1>18, <1>19, <1>20, <1>21, <1>22, <1>23,
     <1>24, <1>25, <1>26, <1>27, <1>28, <1>29, <1>30 DEF Next, Advance

\* The versions are read one after the other, and nobody stores in between.
LEMMA NextReadInOrder ==
    ASSUME TaskTypes, LockIsHeld, ErrorIsFound, ReadInOrder, [Next]_vars
    PROVE  ReadInOrder'
<1>1. ASSUME NEW t \in Tasks, TakeLock(t) PROVE ReadInOrder'
  BY <1>1 DEF TakeLock, Goto, ReadInOrder, LockIsHeld, ErrorIsFound, TaskTypes
<1>2. ASSUME NEW t \in Tasks, ReadLastCall(t) PROVE ReadInOrder'
  BY <1>2 DEF ReadLastCall, Goto, ReadInOrder, LockIsHeld, ErrorIsFound, TaskTypes
<1>3. ASSUME NEW t \in Tasks, StoreLastCall(t) PROVE ReadInOrder'
  BY <1>3 DEF StoreLastCall, Goto, ReadInOrder, LockIsHeld, ErrorIsFound, TaskTypes
<1>4. ASSUME NEW t \in Tasks, AskETag(t) PROVE ReadInOrder'
  BY <1>4 DEF AskETag, Goto, ReadInOrder, LockIsHeld, ErrorIsFound, TaskTypes
<1>5. ASSUME NEW t \in Tasks, CompareETag(t) PROVE ReadInOrder'
  BY <1>5 DEF CompareETag, Goto, ReadInOrder, LockIsHeld, ErrorIsFound, TaskTypes
<1>6. ASSUME NEW t \in Tasks, IsNewerFails(t) PROVE ReadInOrder'
  BY <1>6 DEF IsNewerFails, Goto, ReadInOrder, LockIsHeld, ErrorIsFound, TaskTypes
<1>7. ASSUME NEW t \in Tasks, Get(t) PROVE ReadInOrder'
  <2>1. /\ pc' = [pc EXCEPT ![t] = "builder"]
        /\ got' = [got EXCEPT ![t] = served]
        /\ UNCHANGED <<served, stored, head, error>>
    BY <1>7 DEF Get, Goto
  <2>2. head[t] <= served /\ stored <= served /\ served # 0
    BY DEF ReadInOrder, TaskTypes
  <2>3. ASSUME NEW u \in Tasks, u # t
        PROVE  pc'[u] = pc[u] /\ got'[u] = got[u] /\ error'[u] = error[u]
    BY <2>1, <2>3 DEF TaskTypes
  <2>4. got'[t] = served
    BY <2>1 DEF TaskTypes
  <2>5. QED
    BY <2>1, <2>2, <2>3, <2>4 DEF ReadInOrder, TaskTypes
<1>8. ASSUME NEW t \in Tasks, GetFails(t) PROVE ReadInOrder'
  BY <1>8 DEF GetFails, Goto, ReadInOrder, LockIsHeld, ErrorIsFound, TaskTypes
<1>9. ASSUME NEW t \in Tasks, NoNew(t) PROVE ReadInOrder'
  BY <1>9 DEF NoNew, Goto, ReadInOrder, LockIsHeld, ErrorIsFound, TaskTypes
<1>10. ASSUME NEW t \in Tasks, PokeError(t) PROVE ReadInOrder'
  BY <1>10 DEF PokeError, Goto, ReadInOrder, LockIsHeld, ErrorIsFound, TaskTypes
<1>11. ASSUME NEW t \in Tasks, SaveError(t) PROVE ReadInOrder'
  BY <1>11 DEF SaveError, Goto, ReadInOrder, LockIsHeld, ErrorIsFound, TaskTypes
<1>12. ASSUME NEW t \in Tasks, PokeFlip(t) PROVE ReadInOrder'
  BY <1>12 DEF PokeFlip, Goto, ReadInOrder, LockIsHeld, ErrorIsFound, TaskTypes
<1>13. ASSUME NEW t \in Tasks, PokeBack(t) PROVE ReadInOrder'
  BY <1>13 DEF PokeBack, Goto, ReadInOrder, LockIsHeld, ErrorIsFound, TaskTypes
<1>14. ASSUME NEW t \in Tasks, BuildRtUpdate(t) PROVE ReadInOrder'
  BY <1>14 DEF BuildRtUpdate, Goto, ReadInOrder, LockIsHeld, ErrorIsFound, TaskTypes
<1>15. ASSUME NEW t \in Tasks, HandleChanges(t) PROVE ReadInOrder'
  BY <1>15 DEF HandleChanges, Goto, ReadInOrder, LockIsHeld, ErrorIsFound, TaskTypes
<1>16. ASSUME NEW t \in Tasks, HandleNothing(t) PROVE ReadInOrder'
  BY <1>16 DEF HandleNothing, Goto, ReadInOrder, LockIsHeld, ErrorIsFound, TaskTypes
<1>17. ASSUME NEW t \in Tasks, HandleFails(t) PROVE ReadInOrder'
  BY <1>17 DEF HandleFails, Goto, ReadInOrder, LockIsHeld, ErrorIsFound, TaskTypes
<1>18. ASSUME NEW t \in Tasks, HandleLost(t) PROVE ReadInOrder'
  BY <1>18 DEF HandleLost, Goto, ReadInOrder, LockIsHeld, ErrorIsFound, TaskTypes
<1>19. ASSUME NEW t \in Tasks, Wipe(t) PROVE ReadInOrder'
  BY <1>19 DEF Wipe, Goto, ReadInOrder, LockIsHeld, ErrorIsFound, TaskTypes
<1>20. ASSUME NEW t \in Tasks, SetKo(t) PROVE ReadInOrder'
  BY <1>20 DEF SetKo, Goto, ReadInOrder, LockIsHeld, ErrorIsFound, TaskTypes
<1>21. ASSUME NEW t \in Tasks, Release(t) PROVE ReadInOrder'
  BY <1>21 DEF Release, Forget, Goto, ReadInOrder, LockIsHeld, ErrorIsFound, TaskTypes
<1>22. ASSUME NEW t \in Tasks, RedisFails(t) PROVE ReadInOrder'
  BY <1>22 DEF RedisFails, Forget, ReadInOrder, LockIsHeld, ErrorIsFound, TaskTypes
<1>23. ASSUME NEW t \in Tasks, DatabaseFails(t) PROVE ReadInOrder'
  BY <1>23 DEF DatabaseFails, Goto, ReadInOrder, LockIsHeld, ErrorIsFound, TaskTypes
<1>24. ASSUME NEW t \in Tasks, Crash(t) PROVE ReadInOrder'
  BY <1>24 DEF Crash, Forget, ReadInOrder, LockIsHeld, ErrorIsFound, TaskTypes
<1>25. CASE Publish
  BY <1>25 DEF Publish, taskVars, historyVars, ReadInOrder, LockIsHeld, ErrorIsFound,
       TaskTypes
<1>26. CASE IntervalPasses
  BY <1>26 DEF IntervalPasses, taskVars, historyVars, ReadInOrder, LockIsHeld,
       ErrorIsFound, TaskTypes
<1>27. CASE LockExpires
  BY <1>27 DEF LockExpires, taskVars, historyVars, ReadInOrder, LockIsHeld,
       ErrorIsFound, TaskTypes
<1>28. CASE UNCHANGED vars
  BY <1>28 DEF vars, taskVars, historyVars, ReadInOrder, LockIsHeld, ErrorIsFound,
       TaskTypes
<1>29. ASSUME NEW t \in Tasks, AskPublicationDate(t) PROVE ReadInOrder'
  BY <1>29 DEF AskPublicationDate, Goto, ReadInOrder, LockIsHeld,
              ErrorIsFound, TaskTypes
<1>30. ASSUME NEW t \in Tasks, AskPublicationDateFails(t) PROVE ReadInOrder'
  BY <1>30 DEF AskPublicationDateFails, Goto, ReadInOrder, LockIsHeld,
              ErrorIsFound, TaskTypes
<1>31. QED
  BY <1>1, <1>2, <1>3, <1>4, <1>5, <1>6, <1>7, <1>8, <1>9, <1>10, <1>11, <1>12,
     <1>13, <1>14, <1>15, <1>16, <1>17, <1>18, <1>19, <1>20, <1>21, <1>22, <1>23,
     <1>24, <1>25, <1>26, <1>27, <1>28, <1>29, <1>30 DEF Next, Advance

\* Nobody stores the date of a poll between the reading of the last one and the storing
\* of the next.
LEMMA NextIntervalHasPassed ==
    ASSUME TaskTypes, LockIsHeld, IntervalHasPassed, [Next]_vars
    PROVE  IntervalHasPassed'
<1>1. ASSUME NEW t \in Tasks, TakeLock(t) PROVE IntervalHasPassed'
  BY <1>1 DEF TakeLock, Goto, IntervalHasPassed, LockIsHeld, TaskTypes
<1>2. ASSUME NEW t \in Tasks, ReadLastCall(t) PROVE IntervalHasPassed'
  BY <1>2 DEF ReadLastCall, Goto, IntervalHasPassed, LockIsHeld, TaskTypes
<1>3. ASSUME NEW t \in Tasks, StoreLastCall(t) PROVE IntervalHasPassed'
  BY <1>3 DEF StoreLastCall, Goto, IntervalHasPassed, LockIsHeld, TaskTypes
<1>4. ASSUME NEW t \in Tasks, AskETag(t) PROVE IntervalHasPassed'
  BY <1>4 DEF AskETag, Goto, IntervalHasPassed, LockIsHeld, TaskTypes
<1>5. ASSUME NEW t \in Tasks, CompareETag(t) PROVE IntervalHasPassed'
  BY <1>5 DEF CompareETag, Goto, IntervalHasPassed, LockIsHeld, TaskTypes
<1>6. ASSUME NEW t \in Tasks, IsNewerFails(t) PROVE IntervalHasPassed'
  BY <1>6 DEF IsNewerFails, Goto, IntervalHasPassed, LockIsHeld, TaskTypes
<1>7. ASSUME NEW t \in Tasks, Get(t) PROVE IntervalHasPassed'
  BY <1>7 DEF Get, Goto, IntervalHasPassed, LockIsHeld, TaskTypes
<1>8. ASSUME NEW t \in Tasks, GetFails(t) PROVE IntervalHasPassed'
  BY <1>8 DEF GetFails, Goto, IntervalHasPassed, LockIsHeld, TaskTypes
<1>9. ASSUME NEW t \in Tasks, NoNew(t) PROVE IntervalHasPassed'
  BY <1>9 DEF NoNew, Goto, IntervalHasPassed, LockIsHeld, TaskTypes
<1>10. ASSUME NEW t \in Tasks, PokeError(t) PROVE IntervalHasPassed'
  BY <1>10 DEF PokeError, Goto, IntervalHasPassed, LockIsHeld, TaskTypes
<1>11. ASSUME NEW t \in Tasks, SaveError(t) PROVE IntervalHasPassed'
  BY <1>11 DEF SaveError, Goto, IntervalHasPassed, LockIsHeld, TaskTypes
<1>12. ASSUME NEW t \in Tasks, PokeFlip(t) PROVE IntervalHasPassed'
  BY <1>12 DEF PokeFlip, Goto, IntervalHasPassed, LockIsHeld, TaskTypes
<1>13. ASSUME NEW t \in Tasks, PokeBack(t) PROVE IntervalHasPassed'
  BY <1>13 DEF PokeBack, Goto, IntervalHasPassed, LockIsHeld, TaskTypes
<1>14. ASSUME NEW t \in Tasks, BuildRtUpdate(t) PROVE IntervalHasPassed'
  BY <1>14 DEF BuildRtUpdate, Goto, IntervalHasPassed, LockIsHeld, TaskTypes
<1>15. ASSUME NEW t \in Tasks, HandleChanges(t) PROVE IntervalHasPassed'
  BY <1>15 DEF HandleChanges, Goto, IntervalHasPassed, LockIsHeld, TaskTypes
<1>16. ASSUME NEW t \in Tasks, HandleNothing(t) PROVE IntervalHasPassed'
  BY <1>16 DEF HandleNothing, Goto, IntervalHasPassed, LockIsHeld, TaskTypes
<1>17. ASSUME NEW t \in Tasks, HandleFails(t) PROVE IntervalHasPassed'
  BY <1>17 DEF HandleFails, Goto, IntervalHasPassed, LockIsHeld, TaskTypes
<1>18. ASSUME NEW t \in Tasks, HandleLost(t) PROVE IntervalHasPassed'
  BY <1>18 DEF HandleLost, Goto, IntervalHasPassed, LockIsHeld, TaskTypes
<1>19. ASSUME NEW t \in Tasks, Wipe(t) PROVE IntervalHasPassed'
  BY <1>19 DEF Wipe, Goto, IntervalHasPassed, LockIsHeld, TaskTypes
<1>20. ASSUME NEW t \in Tasks, SetKo(t) PROVE IntervalHasPassed'
  BY <1>20 DEF SetKo, Goto, IntervalHasPassed, LockIsHeld, TaskTypes
<1>21. ASSUME NEW t \in Tasks, Release(t) PROVE IntervalHasPassed'
  BY <1>21 DEF Release, Goto, IntervalHasPassed, LockIsHeld, TaskTypes
<1>22. ASSUME NEW t \in Tasks, RedisFails(t) PROVE IntervalHasPassed'
  BY <1>22 DEF RedisFails, IntervalHasPassed, LockIsHeld, TaskTypes
<1>23. ASSUME NEW t \in Tasks, DatabaseFails(t) PROVE IntervalHasPassed'
  BY <1>23 DEF DatabaseFails, Goto, IntervalHasPassed, LockIsHeld, TaskTypes
<1>24. ASSUME NEW t \in Tasks, Crash(t) PROVE IntervalHasPassed'
  BY <1>24 DEF Crash, IntervalHasPassed, LockIsHeld, TaskTypes
<1>25. CASE Publish
  BY <1>25 DEF Publish, taskVars, historyVars, IntervalHasPassed, LockIsHeld, TaskTypes
<1>26. CASE IntervalPasses
  BY <1>26 DEF IntervalPasses, taskVars, historyVars, IntervalHasPassed, LockIsHeld,
       TaskTypes
<1>27. CASE LockExpires
  BY <1>27 DEF LockExpires, taskVars, historyVars, IntervalHasPassed, LockIsHeld,
       TaskTypes
<1>28. CASE UNCHANGED vars
  BY <1>28 DEF vars, taskVars, historyVars, IntervalHasPassed, LockIsHeld, TaskTypes
<1>29. ASSUME NEW t \in Tasks, AskPublicationDate(t) PROVE IntervalHasPassed'
  BY <1>29 DEF AskPublicationDate, Goto, IntervalHasPassed,
              LockIsHeld, TaskTypes
<1>30. ASSUME NEW t \in Tasks, AskPublicationDateFails(t) PROVE IntervalHasPassed'
  BY <1>30 DEF AskPublicationDateFails, Goto, IntervalHasPassed,
              LockIsHeld, TaskTypes
<1>31. QED
  BY <1>1, <1>2, <1>3, <1>4, <1>5, <1>6, <1>7, <1>8, <1>9, <1>10, <1>11, <1>12,
     <1>13, <1>14, <1>15, <1>16, <1>17, <1>18, <1>19, <1>20, <1>21, <1>22, <1>23,
     <1>24, <1>25, <1>26, <1>27, <1>28, <1>29, <1>30 DEF Next, Advance

-----------------------------------------------------------------------------
(***************************************************************************)
(* The ETag                                                                *)
(***************************************************************************)

\* When only t polls, the others have no part in it.
LEMMA ETagOfOne ==
    ASSUME NEW t \in Tasks,
           \A u \in Tasks : u # t => pc'[u] = "idle",
           ETagIsFine' \/ (pc'[t] # "idle" /\ etag' = head'[t] /\ IsHandling(t)')
    PROVE  ETagIsKept'
<1>1. AtRest' => ETagIsFine'
  BY DEF AtRest
<1>2. ASSUME NEW u \in Tasks, pc'[u] # "idle"
      PROVE  ETagIsFine' \/ (etag' = head'[u] /\ IsHandling(u)')
  <2>1. u = t
    BY <1>2
  <2>2. QED
    BY <2>1
<1>3. QED
  BY <1>1, <1>2 DEF ETagIsKept

\* A task that stops short of handling its feed forgets the ETag, or is excused.
LEMMA NextETagIsKept ==
    ASSUME TaskTypes, LockIsHeld, ErrorIsFound, ReadInOrder, ETagIsKept, [Next]_vars
    PROVE  ETagIsKept'
<1>1. ASSUME NEW t \in Tasks, TakeLock(t) PROVE ETagIsKept'
  <2>1. \A u \in Tasks : u # t => pc'[u] = "idle"
    BY <1>1 DEF TakeLock, Goto, LockIsHeld, TaskTypes
  <2>2. ETagIsFine' \/ (pc'[t] # "idle" /\ etag' = head'[t] /\ IsHandling(t)')
    BY <1>1 DEF TakeLock, Goto, historyVars, AtRest, LockIsHeld, ETagIsKept, ETagIsFine,
         IsHandling, TaskTypes
  <2>3. QED
    BY <2>1, <2>2, ETagOfOne
<1>2. ASSUME NEW t \in Tasks, ReadLastCall(t) PROVE ETagIsKept'
  <2>1. \A u \in Tasks : u # t => pc'[u] = "idle"
    BY <1>2 DEF ReadLastCall, Goto, LockIsHeld, TaskTypes
  <2>2. ETagIsFine' \/ (pc'[t] # "idle" /\ etag' = head'[t] /\ IsHandling(t)')
    BY <1>2 DEF ReadLastCall, Goto, historyVars, ETagIsKept, ETagIsFine, IsHandling,
         TaskTypes
  <2>3. QED
    BY <2>1, <2>2, ETagOfOne
<1>3. ASSUME NEW t \in Tasks, StoreLastCall(t) PROVE ETagIsKept'
  <2>1. \A u \in Tasks : u # t => pc'[u] = "idle"
    BY <1>3 DEF StoreLastCall, Goto, LockIsHeld, TaskTypes
  <2>2. ETagIsFine' \/ (pc'[t] # "idle" /\ etag' = head'[t] /\ IsHandling(t)')
    BY <1>3 DEF StoreLastCall, Goto, historyVars, ETagIsKept, ETagIsFine, IsHandling,
         TaskTypes
  <2>3. QED
    BY <2>1, <2>2, ETagOfOne
<1>4. ASSUME NEW t \in Tasks, AskETag(t) PROVE ETagIsKept'
  <2>1. \A u \in Tasks : u # t => pc'[u] = "idle"
    BY <1>4 DEF AskETag, Goto, LockIsHeld, TaskTypes
  <2>2. ETagIsFine' \/ (pc'[t] # "idle" /\ etag' = head'[t] /\ IsHandling(t)')
    BY <1>4 DEF AskETag, Goto, historyVars, ETagIsKept, ETagIsFine, IsHandling,
         TaskTypes
  <2>3. QED
    BY <2>1, <2>2, ETagOfOne
<1>5. ASSUME NEW t \in Tasks, CompareETag(t) PROVE ETagIsKept'
  <2>1. \A u \in Tasks : u # t => pc'[u] = "idle"
    BY <1>5 DEF CompareETag, Goto, LockIsHeld, TaskTypes
  <2>2. ETagIsFine' \/ (pc'[t] # "idle" /\ etag' = head'[t] /\ IsHandling(t)')
    BY <1>5 DEF CompareETag, Goto, historyVars, ETagIsKept, ETagIsFine, IsHandling,
         TaskTypes
  <2>3. QED
    BY <2>1, <2>2, ETagOfOne
<1>6. ASSUME NEW t \in Tasks, IsNewerFails(t) PROVE ETagIsKept'
  <2>1. \A u \in Tasks : u # t => pc'[u] = "idle"
    BY <1>6 DEF IsNewerFails, Goto, LockIsHeld, TaskTypes
  <2>2. ETagIsFine' \/ (pc'[t] # "idle" /\ etag' = head'[t] /\ IsHandling(t)')
    BY <1>6 DEF IsNewerFails, Goto, historyVars, ETagIsKept, ETagIsFine, IsHandling,
         TaskTypes
  <2>3. QED
    BY <2>1, <2>2, ETagOfOne
<1>7. ASSUME NEW t \in Tasks, Get(t) PROVE ETagIsKept'
  <2>1. \A u \in Tasks : u # t => pc'[u] = "idle"
    BY <1>7 DEF Get, Goto, LockIsHeld, TaskTypes
  <2>2. ETagIsFine' \/ (pc'[t] # "idle" /\ etag' = head'[t] /\ IsHandling(t)')
    BY <1>7 DEF Get, Goto, historyVars, ETagIsKept, ETagIsFine, IsHandling, TaskTypes
  <2>3. QED
    BY <2>1, <2>2, ETagOfOne
<1>8. ASSUME NEW t \in Tasks, GetFails(t) PROVE ETagIsKept'
  <2>1. \A u \in Tasks : u # t => pc'[u] = "idle"
    BY <1>8 DEF GetFails, Goto, LockIsHeld, TaskTypes
  <2>2. ETagIsFine' \/ (pc'[t] # "idle" /\ etag' = head'[t] /\ IsHandling(t)')
    BY <1>8 DEF GetFails, Goto, historyVars, ETagIsKept, ETagIsFine, IsHandling,
         TaskTypes
  <2>3. QED
    BY <2>1, <2>2, ETagOfOne
<1>9. ASSUME NEW t \in Tasks, NoNew(t) PROVE ETagIsKept'
  <2>1. \A u \in Tasks : u # t => pc'[u] = "idle"
    BY <1>9 DEF NoNew, Goto, LockIsHeld, TaskTypes
  <2>2. ETagIsFine' \/ (pc'[t] # "idle" /\ etag' = head'[t] /\ IsHandling(t)')
    BY <1>9 DEF NoNew, Goto, historyVars, ErrorIsFound, ETagIsKept, ETagIsFine,
         IsHandling, TaskTypes
  <2>3. QED
    BY <2>1, <2>2, ETagOfOne
<1>10. ASSUME NEW t \in Tasks, PokeError(t) PROVE ETagIsKept'
  <2>1. \A u \in Tasks : u # t => pc'[u] = "idle"
    BY <1>10 DEF PokeError, Goto, LockIsHeld, TaskTypes
  <2>2. ETagIsFine' \/ (pc'[t] # "idle" /\ etag' = head'[t] /\ IsHandling(t)')
    BY <1>10 DEF PokeError, Goto, historyVars, ErrorIsFound, ETagIsKept, ETagIsFine,
         IsHandling, TaskTypes
  <2>3. QED
    BY <2>1, <2>2, ETagOfOne
<1>11. ASSUME NEW t \in Tasks, SaveError(t) PROVE ETagIsKept'
  <2>1. \A u \in Tasks : u # t => pc'[u] = "idle"
    BY <1>11 DEF SaveError, Goto, LockIsHeld, TaskTypes
  <2>2. ETagIsFine' \/ (pc'[t] # "idle" /\ etag' = head'[t] /\ IsHandling(t)')
    BY <1>11 DEF SaveError, Goto, historyVars, ErrorIsFound, ETagIsKept, ETagIsFine,
         IsHandling, TaskTypes
  <2>3. QED
    BY <2>1, <2>2, ETagOfOne
<1>12. ASSUME NEW t \in Tasks, PokeFlip(t) PROVE ETagIsKept'
  <2>1. \A u \in Tasks : u # t => pc'[u] = "idle"
    BY <1>12 DEF PokeFlip, Goto, LockIsHeld, TaskTypes
  <2>2. ETagIsFine' \/ (pc'[t] # "idle" /\ etag' = head'[t] /\ IsHandling(t)')
    BY <1>12 DEF PokeFlip, Goto, historyVars, ETagIsKept, ETagIsFine, IsHandling,
         TaskTypes
  <2>3. QED
    BY <2>1, <2>2, ETagOfOne
<1>13. ASSUME NEW t \in Tasks, PokeBack(t) PROVE ETagIsKept'
  <2>1. \A u \in Tasks : u # t => pc'[u] = "idle"
    BY <1>13 DEF PokeBack, Goto, LockIsHeld, TaskTypes
  <2>2. ETagIsFine' \/ (pc'[t] # "idle" /\ etag' = head'[t] /\ IsHandling(t)')
    BY <1>13 DEF PokeBack, Goto, historyVars, ErrorIsFound, ETagIsKept, ETagIsFine,
         IsHandling, TaskTypes
  <2>3. QED
    BY <2>1, <2>2, ETagOfOne
<1>14. ASSUME NEW t \in Tasks, BuildRtUpdate(t) PROVE ETagIsKept'
  <2>1. \A u \in Tasks : u # t => pc'[u] = "idle"
    BY <1>14 DEF BuildRtUpdate, Goto, LockIsHeld, TaskTypes
  <2>2. ETagIsFine' \/ (pc'[t] # "idle" /\ etag' = head'[t] /\ IsHandling(t)')
    BY <1>14 DEF BuildRtUpdate, Goto, historyVars, ETagIsKept, ETagIsFine, IsHandling,
         TaskTypes
  <2>3. QED
    BY <2>1, <2>2, ETagOfOne
<1>15. ASSUME NEW t \in Tasks, HandleChanges(t) PROVE ETagIsKept'
  <2>1. \A u \in Tasks : u # t => pc'[u] = "idle"
    BY <1>15 DEF HandleChanges, Goto, LockIsHeld, TaskTypes
  <2>2. ETagIsFine' \/ (pc'[t] # "idle" /\ etag' = head'[t] /\ IsHandling(t)')
    BY <1>15 DEF HandleChanges, Settle, Goto, historyVars, ReadInOrder, ETagIsKept,
         ETagIsFine, IsHandling, TaskTypes
  <2>3. QED
    BY <2>1, <2>2, ETagOfOne
<1>16. ASSUME NEW t \in Tasks, HandleNothing(t) PROVE ETagIsKept'
  <2>1. \A u \in Tasks : u # t => pc'[u] = "idle"
    BY <1>16 DEF HandleNothing, Goto, LockIsHeld, TaskTypes
  <2>2. ETagIsFine' \/ (pc'[t] # "idle" /\ etag' = head'[t] /\ IsHandling(t)')
    BY <1>16 DEF HandleNothing, Goto, historyVars, ETagIsKept, ETagIsFine, IsHandling,
         TaskTypes
  <2>3. QED
    BY <2>1, <2>2, ETagOfOne
<1>17. ASSUME NEW t \in Tasks, HandleFails(t) PROVE ETagIsKept'
  <2>1. \A u \in Tasks : u # t => pc'[u] = "idle"
    BY <1>17 DEF HandleFails, Goto, LockIsHeld, TaskTypes
  <2>2. ETagIsFine' \/ (pc'[t] # "idle" /\ etag' = head'[t] /\ IsHandling(t)')
    BY <1>17 DEF HandleFails, Goto, historyVars, ETagIsKept, ETagIsFine, IsHandling,
         TaskTypes
  <2>3. QED
    BY <2>1, <2>2, ETagOfOne
<1>18. ASSUME NEW t \in Tasks, HandleLost(t) PROVE ETagIsKept'
  <2>1. \A u \in Tasks : u # t => pc'[u] = "idle"
    BY <1>18 DEF HandleLost, Goto, LockIsHeld, TaskTypes
  <2>2. ETagIsFine' \/ (pc'[t] # "idle" /\ etag' = head'[t] /\ IsHandling(t)')
    BY <1>18 DEF HandleLost, GiveUp, Goto, historyVars, ETagIsKept, ETagIsFine,
         IsHandling, TaskTypes
  <2>3. QED
    BY <2>1, <2>2, ETagOfOne
<1>19. ASSUME NEW t \in Tasks, Wipe(t) PROVE ETagIsKept'
  <2>1. \A u \in Tasks : u # t => pc'[u] = "idle"
    BY <1>19 DEF Wipe, Goto, LockIsHeld, TaskTypes
  <2>2. ETagIsFine' \/ (pc'[t] # "idle" /\ etag' = head'[t] /\ IsHandling(t)')
    BY <1>19 DEF Wipe, Goto, historyVars, ETagIsKept, ETagIsFine, IsHandling, TaskTypes
  <2>3. QED
    BY <2>1, <2>2, ETagOfOne
<1>20. ASSUME NEW t \in Tasks, SetKo(t) PROVE ETagIsKept'
  <2>1. \A u \in Tasks : u # t => pc'[u] = "idle"
    BY <1>20 DEF SetKo, Goto, LockIsHeld, TaskTypes
  <2>2. ETagIsFine' \/ (pc'[t] # "idle" /\ etag' = head'[t] /\ IsHandling(t)')
    BY <1>20 DEF SetKo, Settle, Goto, historyVars, ReadInOrder, ETagIsKept, ETagIsFine,
         IsHandling, TaskTypes
  <2>3. QED
    BY <2>1, <2>2, ETagOfOne
<1>21. ASSUME NEW t \in Tasks, Release(t) PROVE ETagIsKept'
  <2>1. \A u \in Tasks : u # t => pc'[u] = "idle"
    BY <1>21 DEF Release, Goto, LockIsHeld, TaskTypes
  <2>2. ETagIsFine' \/ (pc'[t] # "idle" /\ etag' = head'[t] /\ IsHandling(t)')
    BY <1>21 DEF Release, Forget, Goto, historyVars, ETagIsKept, ETagIsFine, IsHandling,
         TaskTypes
  <2>3. QED
    BY <2>1, <2>2, ETagOfOne
<1>22. ASSUME NEW t \in Tasks, RedisFails(t) PROVE ETagIsKept'
  <2>1. \A u \in Tasks : u # t => pc'[u] = "idle"
    BY <1>22 DEF RedisFails, LockIsHeld, TaskTypes
  <2>2. ETagIsFine' \/ (pc'[t] # "idle" /\ etag' = head'[t] /\ IsHandling(t)')
    BY <1>22 DEF RedisFails, GiveUp, Forget, historyVars, ETagIsKept, ETagIsFine,
         IsHandling, TaskTypes
  <2>3. QED
    BY <2>1, <2>2, ETagOfOne
<1>23. ASSUME NEW t \in Tasks, DatabaseFails(t) PROVE ETagIsKept'
  <2>1. \A u \in Tasks : u # t => pc'[u] = "idle"
    BY <1>23 DEF DatabaseFails, Goto, LockIsHeld, TaskTypes
  <2>2. ETagIsFine' \/ (pc'[t] # "idle" /\ etag' = head'[t] /\ IsHandling(t)')
    BY <1>23 DEF DatabaseFails, GiveUp, Goto, historyVars, ETagIsKept, ETagIsFine,
         IsHandling, TaskTypes
  <2>3. QED
    BY <2>1, <2>2, ETagOfOne
<1>24. ASSUME NEW t \in Tasks, Crash(t) PROVE ETagIsKept'
  <2>1. \A u \in Tasks : u # t => pc'[u] = "idle"
    BY <1>24 DEF Crash, LockIsHeld, TaskTypes
  <2>2. ETagIsFine' \/ (pc'[t] # "idle" /\ etag' = head'[t] /\ IsHandling(t)')
    BY <1>24 DEF Crash, GiveUp, Forget, historyVars, ETagIsKept, ETagIsFine, IsHandling,
         TaskTypes
  <2>3. QED
    BY <2>1, <2>2, ETagOfOne
<1>25. CASE Publish
  BY <1>25 DEF Publish, taskVars, historyVars, ETagIsKept, ETagIsFine, IsHandling,
       AtRest, TaskTypes
<1>26. CASE IntervalPasses
  BY <1>26 DEF IntervalPasses, taskVars, historyVars, ETagIsKept, ETagIsFine,
       IsHandling, AtRest, TaskTypes
<1>27. CASE LockExpires
  BY <1>27 DEF LockExpires, taskVars, historyVars, ETagIsKept, ETagIsFine, IsHandling,
       AtRest, TaskTypes
<1>28. CASE UNCHANGED vars
  BY <1>28 DEF vars, taskVars, historyVars, ETagIsKept, ETagIsFine, IsHandling, AtRest,
       TaskTypes
<1>29. ASSUME NEW t \in Tasks, AskPublicationDate(t) PROVE ETagIsKept'
  <2>1. \A u \in Tasks : u # t => pc'[u] = "idle"
    BY <1>29 DEF AskPublicationDate, Goto, LockIsHeld, TaskTypes
  <2>2. ETagIsFine' \/ (pc'[t] # "idle" /\ etag' = head'[t] /\ IsHandling(t)')
    BY <1>29 DEF AskPublicationDate, Goto, historyVars, ETagIsKept,
         ETagIsFine, IsHandling, TaskTypes
  <2>3. QED
    BY <2>1, <2>2, ETagOfOne
<1>30. ASSUME NEW t \in Tasks, AskPublicationDateFails(t) PROVE ETagIsKept'
  <2>1. \A u \in Tasks : u # t => pc'[u] = "idle"
    BY <1>30 DEF AskPublicationDateFails, Goto, LockIsHeld, TaskTypes
  <2>2. ETagIsFine' \/ (pc'[t] # "idle" /\ etag' = head'[t] /\ IsHandling(t)')
    BY <1>30 DEF AskPublicationDateFails, GiveUp, Goto, historyVars, ETagIsKept,
         ETagIsFine, IsHandling, TaskTypes
  <2>3. QED
    BY <2>1, <2>2, ETagOfOne
<1>31. QED
  BY <1>1, <1>2, <1>3, <1>4, <1>5, <1>6, <1>7, <1>8, <1>9, <1>10, <1>11, <1>12,
     <1>13, <1>14, <1>15, <1>16, <1>17, <1>18, <1>19, <1>20, <1>21, <1>22, <1>23,
     <1>24, <1>25, <1>26, <1>27, <1>28, <1>29, <1>30 DEF Next, Advance

-----------------------------------------------------------------------------
(***************************************************************************)
(* The rows                                                                *)
(***************************************************************************)

\* When only t polls, a row that is not true is the one it sets...
LEMMA RowOfOneBefore ==
    ASSUME RowsAreKept, NEW t \in Tasks, \A u \in Tasks : u # t => pc[u] = "idle"
    PROVE  \A i \in DOMAIN rows \ torn :
              RowIsTrue(rows[i]) \/ (row[t] = i /\ IsSettingRow(t))
<1>1. \A u \in Tasks : u # t => ~IsSettingRow(u)
  BY DEF IsSettingRow
<1>2. QED
  BY <1>1 DEF RowsAreKept

\* What a task gives up is not in the way.
LEMMA RowsGivenUp ==
    ASSUME TypeOK, NEW t \in Tasks, GiveUp(t)
    PROVE  \A i \in DOMAIN rows \ torn' : i \notin torn /\ row[t] # i
<1>1. \A i \in DOMAIN rows : i # 0
  BY DEF TypeOK
<1>2. QED
  BY <1>1 DEF GiveUp

\* ... and that is all there is to show afterwards.
LEMMA RowOfOneAfter ==
    ASSUME NEW t \in Tasks,
           \A u \in Tasks : u # t => pc'[u] = "idle",
           \A i \in DOMAIN rows' \ torn' :
              RowIsTrue(rows[i])' \/ (row'[t] = i /\ IsSettingRow(t)'),
           pc'[t] = "flip" => saved'[t] = rows'[row'[t]].status,
           pc'[t] = "back" /\ row'[t] \notin torn' => IsTrueOf(rows[row[t]], saved[t])'
    PROVE  RowsAreKept'
<1>1. \A u \in Tasks : pc'[u] \in {"flip", "back"} => u = t
  OBVIOUS
<1>2. QED
  BY <1>1 DEF RowsAreKept

\* A task makes its row true, or gives it up.
LEMMA NextRowsAreKept ==
    ASSUME TypeOK, TaskTypes, LockIsHeld, ErrorIsFound, RowIsThere, RowsAreKept, [Next]_vars
    PROVE  RowsAreKept'
<1>1. ASSUME NEW t \in Tasks, TakeLock(t) PROVE RowsAreKept'
  <2>1. \A u \in Tasks : u # t => pc[u] = "idle" /\ pc'[u] = "idle"
    BY <1>1 DEF TakeLock, Goto, LockIsHeld, TaskTypes
  <2>2. \A i \in DOMAIN rows \ torn : RowIsTrue(rows[i]) \/ (row[t] = i /\ IsSettingRow(t))
    BY <2>1, RowOfOneBefore
  <2>3. \A i \in DOMAIN rows' \ torn' :
           RowIsTrue(rows[i])' \/ (row'[t] = i /\ IsSettingRow(t)')
    BY <1>1, <2>2 DEF TakeLock, Goto, historyVars, RowIsTrue, IsTrueOf, IsSettingRow,
         TaskTypes
  <2>4. pc'[t] = "flip" => saved'[t] = rows'[row'[t]].status
    BY <1>1 DEF TakeLock, Goto, TaskTypes
  <2>5. pc'[t] # "back"
    BY <1>1 DEF TakeLock, Goto, TaskTypes
  <2>6. QED
    BY <2>1, <2>3, <2>4, <2>5, RowOfOneAfter
<1>2. ASSUME NEW t \in Tasks, ReadLastCall(t) PROVE RowsAreKept'
  <2>1. \A u \in Tasks : u # t => pc[u] = "idle" /\ pc'[u] = "idle"
    BY <1>2 DEF ReadLastCall, Goto, LockIsHeld, TaskTypes
  <2>2. \A i \in DOMAIN rows \ torn : RowIsTrue(rows[i]) \/ (row[t] = i /\ IsSettingRow(t))
    BY <2>1, RowOfOneBefore
  <2>3. \A i \in DOMAIN rows' \ torn' :
           RowIsTrue(rows[i])' \/ (row'[t] = i /\ IsSettingRow(t)')
    BY <1>2, <2>2 DEF ReadLastCall, Goto, historyVars, RowIsTrue, IsTrueOf,
         IsSettingRow, TaskTypes
  <2>4. pc'[t] = "flip" => saved'[t] = rows'[row'[t]].status
    BY <1>2 DEF ReadLastCall, Goto, TaskTypes
  <2>5. pc'[t] # "back"
    BY <1>2 DEF ReadLastCall, Goto, TaskTypes
  <2>6. QED
    BY <2>1, <2>3, <2>4, <2>5, RowOfOneAfter
<1>3. ASSUME NEW t \in Tasks, StoreLastCall(t) PROVE RowsAreKept'
  <2>1. \A u \in Tasks : u # t => pc[u] = "idle" /\ pc'[u] = "idle"
    BY <1>3 DEF StoreLastCall, Goto, LockIsHeld, TaskTypes
  <2>2. \A i \in DOMAIN rows \ torn : RowIsTrue(rows[i]) \/ (row[t] = i /\ IsSettingRow(t))
    BY <2>1, RowOfOneBefore
  <2>3. \A i \in DOMAIN rows' \ torn' :
           RowIsTrue(rows[i])' \/ (row'[t] = i /\ IsSettingRow(t)')
    BY <1>3, <2>2 DEF StoreLastCall, Goto, historyVars, RowIsTrue, IsTrueOf,
         IsSettingRow, TaskTypes
  <2>4. pc'[t] = "flip" => saved'[t] = rows'[row'[t]].status
    BY <1>3 DEF StoreLastCall, Goto, TaskTypes
  <2>5. pc'[t] # "back"
    BY <1>3 DEF StoreLastCall, Goto, TaskTypes
  <2>6. QED
    BY <2>1, <2>3, <2>4, <2>5, RowOfOneAfter
<1>4. ASSUME NEW t \in Tasks, AskETag(t) PROVE RowsAreKept'
  <2>1. \A u \in Tasks : u # t => pc[u] = "idle" /\ pc'[u] = "idle"
    BY <1>4 DEF AskETag, Goto, LockIsHeld, TaskTypes
  <2>2. \A i \in DOMAIN rows \ torn : RowIsTrue(rows[i]) \/ (row[t] = i /\ IsSettingRow(t))
    BY <2>1, RowOfOneBefore
  <2>3. \A i \in DOMAIN rows' \ torn' :
           RowIsTrue(rows[i])' \/ (row'[t] = i /\ IsSettingRow(t)')
    BY <1>4, <2>2 DEF AskETag, Goto, historyVars, RowIsTrue, IsTrueOf, IsSettingRow,
         TaskTypes
  <2>4. pc'[t] = "flip" => saved'[t] = rows'[row'[t]].status
    BY <1>4 DEF AskETag, Goto, TaskTypes
  <2>5. pc'[t] # "back"
    BY <1>4 DEF AskETag, Goto, TaskTypes
  <2>6. QED
    BY <2>1, <2>3, <2>4, <2>5, RowOfOneAfter
<1>5. ASSUME NEW t \in Tasks, CompareETag(t) PROVE RowsAreKept'
  <2>1. \A u \in Tasks : u # t => pc[u] = "idle" /\ pc'[u] = "idle"
    BY <1>5 DEF CompareETag, Goto, LockIsHeld, TaskTypes
  <2>2. \A i \in DOMAIN rows \ torn : RowIsTrue(rows[i]) \/ (row[t] = i /\ IsSettingRow(t))
    BY <2>1, RowOfOneBefore
  <2>3. \A i \in DOMAIN rows' \ torn' :
           RowIsTrue(rows[i])' \/ (row'[t] = i /\ IsSettingRow(t)')
    BY <1>5, <2>2 DEF CompareETag, Goto, historyVars, RowIsTrue, IsTrueOf, IsSettingRow,
         TaskTypes
  <2>4. pc'[t] = "flip" => saved'[t] = rows'[row'[t]].status
    BY <1>5 DEF CompareETag, Goto, TaskTypes
  <2>5. pc'[t] # "back"
    BY <1>5 DEF CompareETag, Goto, TaskTypes
  <2>6. QED
    BY <2>1, <2>3, <2>4, <2>5, RowOfOneAfter
<1>6. ASSUME NEW t \in Tasks, IsNewerFails(t) PROVE RowsAreKept'
  <2>1. \A u \in Tasks : u # t => pc[u] = "idle" /\ pc'[u] = "idle"
    BY <1>6 DEF IsNewerFails, Goto, LockIsHeld, TaskTypes
  <2>2. \A i \in DOMAIN rows \ torn : RowIsTrue(rows[i]) \/ (row[t] = i /\ IsSettingRow(t))
    BY <2>1, RowOfOneBefore
  <2>3. \A i \in DOMAIN rows' \ torn' :
           RowIsTrue(rows[i])' \/ (row'[t] = i /\ IsSettingRow(t)')
    BY <1>6, <2>2 DEF IsNewerFails, Goto, historyVars, RowIsTrue, IsTrueOf,
         IsSettingRow, TaskTypes
  <2>4. pc'[t] = "flip" => saved'[t] = rows'[row'[t]].status
    BY <1>6 DEF IsNewerFails, Goto, TaskTypes
  <2>5. pc'[t] # "back"
    BY <1>6 DEF IsNewerFails, Goto, TaskTypes
  <2>6. QED
    BY <2>1, <2>3, <2>4, <2>5, RowOfOneAfter
<1>7. ASSUME NEW t \in Tasks, Get(t) PROVE RowsAreKept'
  <2>1. \A u \in Tasks : u # t => pc[u] = "idle" /\ pc'[u] = "idle"
    BY <1>7 DEF Get, Goto, LockIsHeld, TaskTypes
  <2>2. \A i \in DOMAIN rows \ torn : RowIsTrue(rows[i]) \/ (row[t] = i /\ IsSettingRow(t))
    BY <2>1, RowOfOneBefore
  <2>3. \A i \in DOMAIN rows' \ torn' :
           RowIsTrue(rows[i])' \/ (row'[t] = i /\ IsSettingRow(t)')
    BY <1>7, <2>2 DEF Get, Goto, historyVars, RowIsTrue, IsTrueOf, IsSettingRow,
         TaskTypes
  <2>4. pc'[t] = "flip" => saved'[t] = rows'[row'[t]].status
    BY <1>7 DEF Get, Goto, TaskTypes
  <2>5. pc'[t] # "back"
    BY <1>7 DEF Get, Goto, TaskTypes
  <2>6. QED
    BY <2>1, <2>3, <2>4, <2>5, RowOfOneAfter
<1>8. ASSUME NEW t \in Tasks, GetFails(t) PROVE RowsAreKept'
  <2>1. \A u \in Tasks : u # t => pc[u] = "idle" /\ pc'[u] = "idle"
    BY <1>8 DEF GetFails, Goto, LockIsHeld, TaskTypes
  <2>2. \A i \in DOMAIN rows \ torn : RowIsTrue(rows[i]) \/ (row[t] = i /\ IsSettingRow(t))
    BY <2>1, RowOfOneBefore
  <2>3. \A i \in DOMAIN rows' \ torn' :
           RowIsTrue(rows[i])' \/ (row'[t] = i /\ IsSettingRow(t)')
    BY <1>8, <2>2 DEF GetFails, Goto, historyVars, RowIsTrue, IsTrueOf, IsSettingRow,
         TaskTypes
  <2>4. pc'[t] = "flip" => saved'[t] = rows'[row'[t]].status
    BY <1>8 DEF GetFails, Goto, TaskTypes
  <2>5. pc'[t] # "back"
    BY <1>8 DEF GetFails, Goto, TaskTypes
  <2>6. QED
    BY <2>1, <2>3, <2>4, <2>5, RowOfOneAfter
<1>9. ASSUME NEW t \in Tasks, NoNew(t) PROVE RowsAreKept'
  <2>1. \A u \in Tasks : u # t => pc[u] = "idle" /\ pc'[u] = "idle"
    BY <1>9 DEF NoNew, Goto, LockIsHeld, TaskTypes
  <2>2. \A i \in DOMAIN rows \ torn : RowIsTrue(rows[i]) \/ (row[t] = i /\ IsSettingRow(t))
    BY <2>1, RowOfOneBefore
  <2>3. \A i \in DOMAIN rows' \ torn' :
           RowIsTrue(rows[i])' \/ (row'[t] = i /\ IsSettingRow(t)')
    BY <1>9, <2>2 DEF NoNew, FindLast, Goto, historyVars, RowIsTrue, IsTrueOf,
         IsSettingRow, TaskTypes
  <2>4. pc'[t] = "flip" => saved'[t] = rows'[row'[t]].status
    BY <1>9 DEF NoNew, FindLast, Goto, TaskTypes
  <2>5. pc'[t] # "back"
    BY <1>9 DEF NoNew, Goto, TaskTypes
  <2>6. QED
    BY <2>1, <2>3, <2>4, <2>5, RowOfOneAfter
<1>10. ASSUME NEW t \in Tasks, PokeError(t) PROVE RowsAreKept'
  <2>1. \A u \in Tasks : u # t => pc[u] = "idle" /\ pc'[u] = "idle"
    BY <1>10 DEF PokeError, Goto, LockIsHeld, TaskTypes
  <2>2. \A i \in DOMAIN rows \ torn : RowIsTrue(rows[i]) \/ (row[t] = i /\ IsSettingRow(t))
    BY <2>1, RowOfOneBefore
  <2>3. \A i \in DOMAIN rows' \ torn' :
           RowIsTrue(rows[i])' \/ (row'[t] = i /\ IsSettingRow(t)')
    BY <1>10, <2>2 DEF PokeError, FindLast, Goto, historyVars, RowIsTrue, IsTrueOf,
         IsSettingRow, TaskTypes
  <2>4. pc'[t] = "flip" => saved'[t] = rows'[row'[t]].status
    BY <1>10 DEF PokeError, FindLast, Goto, TaskTypes
  <2>5. pc'[t] # "back"
    BY <1>10 DEF PokeError, Goto, TaskTypes
  <2>6. QED
    BY <2>1, <2>3, <2>4, <2>5, RowOfOneAfter
<1>11. ASSUME NEW t \in Tasks, SaveError(t) PROVE RowsAreKept'
  <2>1. \A u \in Tasks : u # t => pc[u] = "idle" /\ pc'[u] = "idle"
    BY <1>11 DEF SaveError, Goto, LockIsHeld, TaskTypes
  <2>2. \A i \in DOMAIN rows \ torn : RowIsTrue(rows[i]) \/ (row[t] = i /\ IsSettingRow(t))
    BY <2>1, RowOfOneBefore
  <2>3. \A i \in DOMAIN rows' \ torn' :
           RowIsTrue(rows[i])' \/ (row'[t] = i /\ IsSettingRow(t)')
    <3>1. /\ DOMAIN rows' = DOMAIN rows \cup {Len(rows')}
          /\ rows'[Len(rows')].status = "OK"
          /\ \A i \in DOMAIN rows : rows'[i] = rows[i]
      <4>1. [data |-> ErrorRow(t).data, status |-> "OK", error |-> "none"] \in RealTimeUpdate
        BY DEF ErrorRow, RealTimeUpdate, Status, Errors, TypeOK
      <4>2. QED
        BY <1>11, <4>1, AppendedRows DEF SaveError, TypeOK
    <3>2. /\ pc[t] = "error" /\ pc'[t] \in {"wipe", "ko"} /\ error[t] # "none"
          /\ row'[t] = Len(rows') /\ UNCHANGED <<error, everStored, torn>>
      BY <1>11 DEF SaveError, Goto, historyVars, ErrorIsFound, TaskTypes
    <3>3. \A i \in DOMAIN rows \ torn : RowIsTrue(rows[i])'
      BY <2>2, <3>1, <3>2 DEF IsSettingRow, RowIsTrue, IsTrueOf
    <3>4. IsSettingRow(t)'
      BY <3>1, <3>2 DEF IsSettingRow
    <3>5. QED
      BY <3>1, <3>2, <3>3, <3>4
  <2>4. pc'[t] = "flip" => saved'[t] = rows'[row'[t]].status
    BY <1>11 DEF SaveError, Goto, TaskTypes
  <2>5. pc'[t] # "back"
    BY <1>11 DEF SaveError, Goto, TaskTypes
  <2>6. QED
    BY <2>1, <2>3, <2>4, <2>5, RowOfOneAfter
<1>12. ASSUME NEW t \in Tasks, PokeFlip(t) PROVE RowsAreKept'
  <2>1. \A u \in Tasks : u # t => pc[u] = "idle" /\ pc'[u] = "idle"
    BY <1>12 DEF PokeFlip, Goto, LockIsHeld, TaskTypes
  <2>2. \A i \in DOMAIN rows \ torn : RowIsTrue(rows[i]) \/ (row[t] = i /\ IsSettingRow(t))
    BY <2>1, RowOfOneBefore
  <2>3. \A i \in DOMAIN rows' \ torn' :
           RowIsTrue(rows[i])' \/ (row'[t] = i /\ IsSettingRow(t)')
    <3>1. row[t] \in DOMAIN rows /\ rows[row[t]] \in RealTimeUpdate
      BY <1>12, RowInTable DEF PokeFlip, Goto, RowIsThere
    <3>2. [rows[row[t]] EXCEPT !.status = IF saved[t] = "pending" THEN "OK" ELSE "pending"] \in RealTimeUpdate
      BY <3>1 DEF RealTimeUpdate, Status, TypeOK
    <3>3. /\ DOMAIN rows' = DOMAIN rows
          /\ rows'[row[t]] = [rows[row[t]] EXCEPT !.status = IF saved[t] = "pending" THEN "OK" ELSE "pending"]
          /\ \A i \in DOMAIN rows \ {row[t]} : rows'[i] = rows[i]
      BY <1>12, <3>1, <3>2, EditedRows DEF PokeFlip, TypeOK
    <3>4. UNCHANGED <<everStored, torn, row, saved, error>>
      BY <1>12 DEF PokeFlip, historyVars
    <3>5. \A i \in DOMAIN rows \ (torn \cup {row[t]}) : RowIsTrue(rows[i])'
      BY <2>2, <3>3, <3>4 DEF RowIsTrue, IsTrueOf
    <3>6. pc'[t] = "back"
      BY <1>12 DEF PokeFlip, Goto, TaskTypes
    <3>7. QED
      BY <3>3, <3>4, <3>5, <3>6 DEF IsSettingRow
  <2>4. pc'[t] = "flip" => saved'[t] = rows'[row'[t]].status
    BY <1>12 DEF PokeFlip, Goto, TaskTypes
  <2>5. pc'[t] = "back" /\ row'[t] \notin torn' => IsTrueOf(rows[row[t]], saved[t])'
    <3>1. row[t] \in DOMAIN rows /\ rows[row[t]] \in RealTimeUpdate
      BY <1>12, RowInTable DEF PokeFlip, Goto, RowIsThere
    <3>2. row[t] \notin torn => IsTrueOf(rows[row[t]], saved[t])
      BY <1>12, <2>2, <3>1 DEF PokeFlip, Goto, RowsAreKept, RowIsTrue, IsSettingRow
    <3>3. /\ rows'[row[t]].data = rows[row[t]].data
          /\ rows'[row[t]].error = rows[row[t]].error
      BY <1>12, <3>1 DEF PokeFlip, RealTimeUpdate
    <3>4. QED
      BY <1>12, <3>2, <3>3 DEF PokeFlip, historyVars, IsTrueOf
  <2>6. QED
    BY <2>1, <2>3, <2>4, <2>5, RowOfOneAfter
<1>13. ASSUME NEW t \in Tasks, PokeBack(t) PROVE RowsAreKept'
  <2>1. \A u \in Tasks : u # t => pc[u] = "idle" /\ pc'[u] = "idle"
    BY <1>13 DEF PokeBack, Goto, LockIsHeld, TaskTypes
  <2>2. \A i \in DOMAIN rows \ torn : RowIsTrue(rows[i]) \/ (row[t] = i /\ IsSettingRow(t))
    BY <2>1, RowOfOneBefore
  <2>3. \A i \in DOMAIN rows' \ torn' :
           RowIsTrue(rows[i])' \/ (row'[t] = i /\ IsSettingRow(t)')
    <3>1. row[t] \in DOMAIN rows /\ rows[row[t]] \in RealTimeUpdate
      BY <1>13, RowInTable DEF PokeBack, Goto, RowIsThere
    <3>2. [rows[row[t]] EXCEPT !.status = saved[t]] \in RealTimeUpdate
      BY <3>1 DEF RealTimeUpdate, Status, TypeOK
    <3>3. /\ DOMAIN rows' = DOMAIN rows
          /\ rows'[row[t]] = [rows[row[t]] EXCEPT !.status = saved[t]]
          /\ \A i \in DOMAIN rows \ {row[t]} : rows'[i] = rows[i]
      BY <1>13, <3>1, <3>2, EditedRows DEF PokeBack, TypeOK
    <3>4. UNCHANGED <<everStored, torn, row, saved, error>>
      BY <1>13 DEF PokeBack, historyVars
    <3>5. \A i \in DOMAIN rows \ (torn \cup {row[t]}) : RowIsTrue(rows[i])'
      BY <2>2, <3>3, <3>4 DEF RowIsTrue, IsTrueOf
    <3>6. row[t] \notin torn => RowIsTrue(rows[row[t]])'
      <4>1. row[t] \notin torn => IsTrueOf(rows[row[t]], saved[t])
        BY <1>13 DEF PokeBack, Goto, RowsAreKept
      <4>2. /\ rows'[row[t]].data = rows[row[t]].data
            /\ rows'[row[t]].error = rows[row[t]].error
            /\ rows'[row[t]].status = saved[t]
        BY <3>1, <3>3 DEF RealTimeUpdate
      <4>3. QED
        BY <3>4, <4>1, <4>2 DEF RowIsTrue, IsTrueOf
    <3>7. QED
      BY <3>3, <3>4, <3>5, <3>6
  <2>4. pc'[t] = "flip" => saved'[t] = rows'[row'[t]].status
    BY <1>13 DEF PokeBack, Goto, TaskTypes
  <2>5. pc'[t] # "back"
    BY <1>13 DEF PokeBack, Goto, TaskTypes
  <2>6. QED
    BY <2>1, <2>3, <2>4, <2>5, RowOfOneAfter
<1>14. ASSUME NEW t \in Tasks, BuildRtUpdate(t) PROVE RowsAreKept'
  <2>1. \A u \in Tasks : u # t => pc[u] = "idle" /\ pc'[u] = "idle"
    BY <1>14 DEF BuildRtUpdate, Goto, LockIsHeld, TaskTypes
  <2>2. \A i \in DOMAIN rows \ torn : RowIsTrue(rows[i]) \/ (row[t] = i /\ IsSettingRow(t))
    BY <2>1, RowOfOneBefore
  <2>3. \A i \in DOMAIN rows' \ torn' :
           RowIsTrue(rows[i])' \/ (row'[t] = i /\ IsSettingRow(t)')
    BY <1>14, <2>2 DEF BuildRtUpdate, Goto, historyVars, RowIsTrue, IsTrueOf,
         IsSettingRow, TaskTypes
  <2>4. pc'[t] = "flip" => saved'[t] = rows'[row'[t]].status
    BY <1>14 DEF BuildRtUpdate, Goto, TaskTypes
  <2>5. pc'[t] # "back"
    BY <1>14 DEF BuildRtUpdate, Goto, TaskTypes
  <2>6. QED
    BY <2>1, <2>3, <2>4, <2>5, RowOfOneAfter
<1>15. ASSUME NEW t \in Tasks, HandleChanges(t) PROVE RowsAreKept'
  <2>1. \A u \in Tasks : u # t => pc[u] = "idle" /\ pc'[u] = "idle"
    BY <1>15 DEF HandleChanges, Goto, LockIsHeld, TaskTypes
  <2>2. \A i \in DOMAIN rows \ torn : RowIsTrue(rows[i]) \/ (row[t] = i /\ IsSettingRow(t))
    BY <2>1, RowOfOneBefore
  <2>3. \A i \in DOMAIN rows' \ torn' :
           RowIsTrue(rows[i])' \/ (row'[t] = i /\ IsSettingRow(t)')
    BY <1>15, <2>2 DEF HandleChanges, Goto, historyVars, RowIsTrue, IsTrueOf,
         IsSettingRow, TaskTypes
  <2>4. pc'[t] = "flip" => saved'[t] = rows'[row'[t]].status
    BY <1>15 DEF HandleChanges, Goto, TaskTypes
  <2>5. pc'[t] # "back"
    BY <1>15 DEF HandleChanges, Goto, TaskTypes
  <2>6. QED
    BY <2>1, <2>3, <2>4, <2>5, RowOfOneAfter
<1>16. ASSUME NEW t \in Tasks, HandleNothing(t) PROVE RowsAreKept'
  <2>1. \A u \in Tasks : u # t => pc[u] = "idle" /\ pc'[u] = "idle"
    BY <1>16 DEF HandleNothing, Goto, LockIsHeld, TaskTypes
  <2>2. \A i \in DOMAIN rows \ torn : RowIsTrue(rows[i]) \/ (row[t] = i /\ IsSettingRow(t))
    BY <2>1, RowOfOneBefore
  <2>3. \A i \in DOMAIN rows' \ torn' :
           RowIsTrue(rows[i])' \/ (row'[t] = i /\ IsSettingRow(t)')
    BY <1>16, <2>2 DEF HandleNothing, Goto, historyVars, RowIsTrue, IsTrueOf,
         IsSettingRow, TaskTypes
  <2>4. pc'[t] = "flip" => saved'[t] = rows'[row'[t]].status
    BY <1>16 DEF HandleNothing, Goto, TaskTypes
  <2>5. pc'[t] # "back"
    BY <1>16 DEF HandleNothing, Goto, TaskTypes
  <2>6. QED
    BY <2>1, <2>3, <2>4, <2>5, RowOfOneAfter
<1>17. ASSUME NEW t \in Tasks, HandleFails(t) PROVE RowsAreKept'
  <2>1. \A u \in Tasks : u # t => pc[u] = "idle" /\ pc'[u] = "idle"
    BY <1>17 DEF HandleFails, Goto, LockIsHeld, TaskTypes
  <2>2. \A i \in DOMAIN rows \ torn : RowIsTrue(rows[i]) \/ (row[t] = i /\ IsSettingRow(t))
    BY <2>1, RowOfOneBefore
  <2>3. \A i \in DOMAIN rows' \ torn' :
           RowIsTrue(rows[i])' \/ (row'[t] = i /\ IsSettingRow(t)')
    BY <1>17, <2>2 DEF HandleFails, Goto, historyVars, RowIsTrue, IsTrueOf, IsSettingRow,
         TaskTypes
  <2>4. pc'[t] = "flip" => saved'[t] = rows'[row'[t]].status
    BY <1>17 DEF HandleFails, Goto, TaskTypes
  <2>5. pc'[t] # "back"
    BY <1>17 DEF HandleFails, Goto, TaskTypes
  <2>6. QED
    BY <2>1, <2>3, <2>4, <2>5, RowOfOneAfter
<1>18. ASSUME NEW t \in Tasks, HandleLost(t) PROVE RowsAreKept'
  <2>1. \A u \in Tasks : u # t => pc[u] = "idle" /\ pc'[u] = "idle"
    BY <1>18 DEF HandleLost, Goto, LockIsHeld, TaskTypes
  <2>2. \A i \in DOMAIN rows \ torn : RowIsTrue(rows[i]) \/ (row[t] = i /\ IsSettingRow(t))
    BY <2>1, RowOfOneBefore
  <2>3. \A i \in DOMAIN rows' \ torn' :
           RowIsTrue(rows[i])' \/ (row'[t] = i /\ IsSettingRow(t)')
    <3>1. \A i \in DOMAIN rows \ torn' : RowIsTrue(rows[i])
      BY <1>18, <2>2, RowsGivenUp DEF HandleLost
    <3>2. QED
      BY <1>18, <3>1 DEF HandleLost, RowIsTrue, IsTrueOf
  <2>4. pc'[t] = "flip" => saved'[t] = rows'[row'[t]].status
    BY <1>18 DEF HandleLost, Goto, TaskTypes
  <2>5. pc'[t] # "back"
    BY <1>18 DEF HandleLost, Goto, TaskTypes
  <2>6. QED
    BY <2>1, <2>3, <2>4, <2>5, RowOfOneAfter
<1>19. ASSUME NEW t \in Tasks, Wipe(t) PROVE RowsAreKept'
  <2>1. \A u \in Tasks : u # t => pc[u] = "idle" /\ pc'[u] = "idle"
    BY <1>19 DEF Wipe, Goto, LockIsHeld, TaskTypes
  <2>2. \A i \in DOMAIN rows \ torn : RowIsTrue(rows[i]) \/ (row[t] = i /\ IsSettingRow(t))
    BY <2>1, RowOfOneBefore
  <2>3. \A i \in DOMAIN rows' \ torn' :
           RowIsTrue(rows[i])' \/ (row'[t] = i /\ IsSettingRow(t)')
    <3>1. ASSUME NEW i \in DOMAIN rows \ torn, ~RowIsTrue(rows[i])
          PROVE  row[t] = i /\ pc'[t] = "ko"
      <4>1. row[t] = i /\ i # 0 /\ rows[i].status = "OK"
        BY <1>19, <2>2, <3>1 DEF Wipe, Goto, IsSettingRow, TypeOK
      <4>2. QED
        BY <1>19, <4>1 DEF Wipe, Goto, HasRowToSet, TaskTypes
    <3>2. QED
      BY <1>19, <3>1 DEF Wipe, historyVars, RowIsTrue, IsTrueOf, IsSettingRow
  <2>4. pc'[t] = "flip" => saved'[t] = rows'[row'[t]].status
    BY <1>19 DEF Wipe, Goto, TaskTypes
  <2>5. pc'[t] # "back"
    BY <1>19 DEF Wipe, Goto, TaskTypes
  <2>6. QED
    BY <2>1, <2>3, <2>4, <2>5, RowOfOneAfter
<1>20. ASSUME NEW t \in Tasks, SetKo(t) PROVE RowsAreKept'
  <2>1. \A u \in Tasks : u # t => pc[u] = "idle" /\ pc'[u] = "idle"
    BY <1>20 DEF SetKo, Goto, LockIsHeld, TaskTypes
  <2>2. \A i \in DOMAIN rows \ torn : RowIsTrue(rows[i]) \/ (row[t] = i /\ IsSettingRow(t))
    BY <2>1, RowOfOneBefore
  <2>3. \A i \in DOMAIN rows' \ torn' :
           RowIsTrue(rows[i])' \/ (row'[t] = i /\ IsSettingRow(t)')
    <3>1. row[t] \in DOMAIN rows /\ rows[row[t]] \in RealTimeUpdate
      BY <1>20, RowInTable DEF SetKo, Goto, RowIsThere
    <3>2. [rows[row[t]] EXCEPT !.status = "KO", !.error = error[t]] \in RealTimeUpdate
      BY <3>1 DEF RealTimeUpdate, Status, TypeOK
    <3>3. /\ DOMAIN rows' = DOMAIN rows
          /\ rows'[row[t]] = [rows[row[t]] EXCEPT !.status = "KO", !.error = error[t]]
          /\ \A i \in DOMAIN rows \ {row[t]} : rows'[i] = rows[i]
      BY <1>20, <3>1, <3>2, EditedRows DEF SetKo, TypeOK
    <3>4. UNCHANGED <<everStored, torn, row, saved, error>>
      BY <1>20 DEF SetKo, historyVars
    <3>5. \A i \in DOMAIN rows \ (torn \cup {row[t]}) : RowIsTrue(rows[i])'
      BY <2>2, <3>3, <3>4 DEF RowIsTrue, IsTrueOf
    <3>6. RowIsTrue(rows[row[t]])'
      <4>1. error[t] # "none"
        BY <1>20 DEF SetKo, Goto, ErrorIsFound
      <4>2. rows'[row[t]].status = "KO" /\ rows'[row[t]].error = error[t]
        BY <3>1, <3>3 DEF RealTimeUpdate
      <4>3. QED
        BY <3>4, <4>1, <4>2 DEF RowIsTrue, IsTrueOf
    <3>7. QED
      BY <3>3, <3>4, <3>5, <3>6
  <2>4. pc'[t] = "flip" => saved'[t] = rows'[row'[t]].status
    BY <1>20 DEF SetKo, Goto, TaskTypes
  <2>5. pc'[t] # "back"
    BY <1>20 DEF SetKo, Goto, TaskTypes
  <2>6. QED
    BY <2>1, <2>3, <2>4, <2>5, RowOfOneAfter
<1>21. ASSUME NEW t \in Tasks, Release(t) PROVE RowsAreKept'
  <2>1. \A u \in Tasks : u # t => pc[u] = "idle" /\ pc'[u] = "idle"
    BY <1>21 DEF Release, Goto, LockIsHeld, TaskTypes
  <2>2. \A i \in DOMAIN rows \ torn : RowIsTrue(rows[i]) \/ (row[t] = i /\ IsSettingRow(t))
    BY <2>1, RowOfOneBefore
  <2>3. \A i \in DOMAIN rows' \ torn' :
           RowIsTrue(rows[i])' \/ (row'[t] = i /\ IsSettingRow(t)')
    BY <1>21, <2>2 DEF Release, Forget, Goto, historyVars, RowIsTrue, IsTrueOf,
         IsSettingRow, TaskTypes
  <2>4. pc'[t] = "flip" => saved'[t] = rows'[row'[t]].status
    BY <1>21 DEF Release, Forget, Goto, TaskTypes
  <2>5. pc'[t] # "back"
    BY <1>21 DEF Release, Goto, TaskTypes
  <2>6. QED
    BY <2>1, <2>3, <2>4, <2>5, RowOfOneAfter
<1>22. ASSUME NEW t \in Tasks, RedisFails(t) PROVE RowsAreKept'
  <2>1. \A u \in Tasks : u # t => pc[u] = "idle" /\ pc'[u] = "idle"
    BY <1>22 DEF RedisFails, LockIsHeld, TaskTypes
  <2>2. \A i \in DOMAIN rows \ torn : RowIsTrue(rows[i]) \/ (row[t] = i /\ IsSettingRow(t))
    BY <2>1, RowOfOneBefore
  <2>3. \A i \in DOMAIN rows' \ torn' :
           RowIsTrue(rows[i])' \/ (row'[t] = i /\ IsSettingRow(t)')
    <3>1. CASE pc[t] = "wipe"
      <4>1. \A i \in DOMAIN rows \ torn' : RowIsTrue(rows[i])
        BY <1>22, <2>2, <3>1, RowsGivenUp DEF RedisFails
      <4>2. QED
        BY <1>22, <4>1 DEF RedisFails, RowIsTrue, IsTrueOf
    <3>2. CASE pc[t] # "wipe"
      <4>1. \A i \in DOMAIN rows \ torn' : RowIsTrue(rows[i])
        BY <1>22, <2>2, <3>2 DEF RedisFails, IsSettingRow
      <4>2. QED
        BY <1>22, <4>1 DEF RedisFails, RowIsTrue, IsTrueOf
    <3>3. QED
      BY <3>1, <3>2
  <2>4. pc'[t] = "flip" => saved'[t] = rows'[row'[t]].status
    BY <1>22 DEF RedisFails, Forget, TaskTypes
  <2>5. pc'[t] # "back"
    BY <1>22 DEF RedisFails, ErrorIsFound, TaskTypes
  <2>6. QED
    BY <2>1, <2>3, <2>4, <2>5, RowOfOneAfter
<1>23. ASSUME NEW t \in Tasks, DatabaseFails(t) PROVE RowsAreKept'
  <2>1. \A u \in Tasks : u # t => pc[u] = "idle" /\ pc'[u] = "idle"
    BY <1>23 DEF DatabaseFails, Goto, LockIsHeld, TaskTypes
  <2>2. \A i \in DOMAIN rows \ torn : RowIsTrue(rows[i]) \/ (row[t] = i /\ IsSettingRow(t))
    BY <2>1, RowOfOneBefore
  <2>3. \A i \in DOMAIN rows' \ torn' :
           RowIsTrue(rows[i])' \/ (row'[t] = i /\ IsSettingRow(t)')
    <3>1. \A i \in DOMAIN rows \ torn' : RowIsTrue(rows[i])
      <4>1. CASE pc[t] = "save" /\ UNCHANGED torn
        BY <2>2, <4>1 DEF IsSettingRow
      <4>2. CASE GiveUp(t)
        BY <2>2, <4>2, RowsGivenUp
      <4>3. QED
        BY <1>23, <4>1, <4>2 DEF DatabaseFails, Goto
    <3>2. QED
      BY <1>23, <3>1 DEF DatabaseFails, RowIsTrue, IsTrueOf
  <2>4. pc'[t] = "flip" => saved'[t] = rows'[row'[t]].status
    BY <1>23 DEF DatabaseFails, Goto, TaskTypes
  <2>5. pc'[t] # "back"
    BY <1>23 DEF DatabaseFails, Goto, TaskTypes
  <2>6. QED
    BY <2>1, <2>3, <2>4, <2>5, RowOfOneAfter
<1>24. ASSUME NEW t \in Tasks, Crash(t) PROVE RowsAreKept'
  <2>1. \A u \in Tasks : u # t => pc[u] = "idle" /\ pc'[u] = "idle"
    BY <1>24 DEF Crash, LockIsHeld, TaskTypes
  <2>2. \A i \in DOMAIN rows \ torn : RowIsTrue(rows[i]) \/ (row[t] = i /\ IsSettingRow(t))
    BY <2>1, RowOfOneBefore
  <2>3. \A i \in DOMAIN rows' \ torn' :
           RowIsTrue(rows[i])' \/ (row'[t] = i /\ IsSettingRow(t)')
    <3>1. \A i \in DOMAIN rows \ torn' : RowIsTrue(rows[i])
      BY <1>24, <2>2, RowsGivenUp DEF Crash
    <3>2. QED
      BY <1>24, <3>1 DEF Crash, RowIsTrue, IsTrueOf
  <2>4. pc'[t] = "flip" => saved'[t] = rows'[row'[t]].status
    BY <1>24 DEF Crash, TaskTypes
  <2>5. pc'[t] # "back"
    BY <1>24 DEF Crash, TaskTypes
  <2>6. QED
    BY <2>1, <2>3, <2>4, <2>5, RowOfOneAfter
<1>25. CASE Publish
  BY <1>25 DEF Publish, taskVars, historyVars, RowsAreKept, RowIsTrue, IsTrueOf,
       IsSettingRow, TaskTypes
<1>26. CASE IntervalPasses
  BY <1>26 DEF IntervalPasses, taskVars, historyVars, RowsAreKept, RowIsTrue, IsTrueOf,
       IsSettingRow, TaskTypes
<1>27. CASE LockExpires
  BY <1>27 DEF LockExpires, taskVars, historyVars, RowsAreKept, RowIsTrue, IsTrueOf,
       IsSettingRow, TaskTypes
<1>28. CASE UNCHANGED vars
  BY <1>28 DEF vars, taskVars, historyVars, RowsAreKept, RowIsTrue, IsTrueOf,
       IsSettingRow, TaskTypes
<1>29. ASSUME NEW t \in Tasks, AskPublicationDate(t) PROVE RowsAreKept'
  <2>1. \A u \in Tasks : u # t => pc[u] = "idle" /\ pc'[u] = "idle"
    BY <1>29 DEF AskPublicationDate, Goto, LockIsHeld, TaskTypes
  <2>2. \A i \in DOMAIN rows \ torn : RowIsTrue(rows[i]) \/ (row[t] = i /\ IsSettingRow(t))
    BY <2>1, RowOfOneBefore
  <2>3. \A i \in DOMAIN rows' \ torn' :
           RowIsTrue(rows[i])' \/ (row'[t] = i /\ IsSettingRow(t)')
    BY <1>29, <2>2 DEF AskPublicationDate, Goto, historyVars, RowIsTrue, IsTrueOf,
         IsSettingRow, TaskTypes
  <2>4. pc'[t] = "flip" => saved'[t] = rows'[row'[t]].status
    BY <1>29 DEF AskPublicationDate, Goto, TaskTypes
  <2>5. pc'[t] # "back"
    BY <1>29 DEF AskPublicationDate, Goto, TaskTypes
  <2>6. QED
    BY <2>1, <2>3, <2>4, <2>5, RowOfOneAfter
<1>30. ASSUME NEW t \in Tasks, AskPublicationDateFails(t) PROVE RowsAreKept'
  <2>1. \A u \in Tasks : u # t => pc[u] = "idle" /\ pc'[u] = "idle"
    BY <1>30 DEF AskPublicationDateFails, Goto, LockIsHeld, TaskTypes
  <2>2. \A i \in DOMAIN rows \ torn : RowIsTrue(rows[i]) \/ (row[t] = i /\ IsSettingRow(t))
    BY <2>1, RowOfOneBefore
  <2>3. \A i \in DOMAIN rows' \ torn' :
           RowIsTrue(rows[i])' \/ (row'[t] = i /\ IsSettingRow(t)')
    <3>1. \A i \in DOMAIN rows \ torn' : RowIsTrue(rows[i])
      BY <1>30, <2>2, RowsGivenUp DEF AskPublicationDateFails
    <3>2. QED
      BY <1>30, <3>1 DEF AskPublicationDateFails, RowIsTrue, IsTrueOf
  <2>4. pc'[t] = "flip" => saved'[t] = rows'[row'[t]].status
    BY <1>30 DEF AskPublicationDateFails, Goto, TaskTypes
  <2>5. pc'[t] # "back"
    BY <1>30 DEF AskPublicationDateFails, Goto, TaskTypes
  <2>6. QED
    BY <2>1, <2>3, <2>4, <2>5, RowOfOneAfter
<1>31. QED
  BY <1>1, <1>2, <1>3, <1>4, <1>5, <1>6, <1>7, <1>8, <1>9, <1>10, <1>11, <1>12,
     <1>13, <1>14, <1>15, <1>16, <1>17, <1>18, <1>19, <1>20, <1>21, <1>22, <1>23,
     <1>24, <1>25, <1>26, <1>27, <1>28, <1>29, <1>30 DEF Next, Advance

-----------------------------------------------------------------------------
(***************************************************************************)
(* The theorems                                                            *)
(***************************************************************************)

LEMMA InitPollInv == Init => PollInv
<1> SUFFICES ASSUME Init PROVE PollInv
  OBVIOUS
<1>1. TypeOK
  <2>1. rows = <<>> /\ rows \in Seq(RealTimeUpdate) /\ Len(rows) = 0
    BY EmptySeq DEF Init
  <2>2. /\ pc \in [Tasks -> Steps] /\ saved \in [Tasks -> Status] /\ error \in [Tasks -> Errors]
        /\ head \in [Tasks -> 0 .. MaxVersion] /\ got \in [Tasks -> 0 .. MaxVersion]
    BY DEF Init, Steps, Status, Errors
  <2>3. row \in [Tasks -> Nat] /\ \A t \in Tasks : row[t] \in 0 .. Len(rows)
    BY <2>1 DEF Init
  <2>4. /\ served \in Versions /\ everStored \in SUBSET Versions /\ settled \in SUBSET Versions
        /\ excused \in SUBSET Versions /\ torn \in SUBSET (DOMAIN rows)
    BY DEF Init, Versions
  <2>5. etag \in 0 .. MaxVersion /\ stored \in 0 .. MaxVersion /\ faults \in 0 .. MaxFaults
    BY DEF Init
  <2>6. lock \in Tasks \cup {NoTask} /\ recent \in BOOLEAN
    BY Zenon DEF Init
  <2>7. QED
    BY <2>1, <2>2, <2>3, <2>4, <2>5, <2>6 DEF TypeOK
<1>2. LockIsHeld /\ ErrorIsFound /\ RowIsThere /\ ReadInOrder /\ IntervalHasPassed
  BY DEF Init, LockIsHeld, ErrorIsFound, RowIsThere, ReadInOrder, IntervalHasPassed
<1>3. ETagIsKept /\ RowsAreKept
  BY DEF Init, ETagIsKept, ETagIsFine, RowsAreKept
<1>4. QED
  BY <1>1, <1>2, <1>3 DEF PollInv

LEMMA NextPollInv ==
    ASSUME PollInv, "slow" \notin Faults, [Next]_vars
    PROVE  PollInv'
<1>1. TypeOK'
  BY NextTypeOK DEF PollInv
<1>2. TaskTypes
  BY TypesOfTasks DEF PollInv
<1>3. LockIsHeld' /\ ErrorIsFound'
  BY <1>2, NextLockIsHeld, NextErrorIsFound DEF PollInv
<1>4. RowIsThere' /\ ReadInOrder' /\ IntervalHasPassed'
  BY <1>2, NextRowIsThere, NextReadInOrder, NextIntervalHasPassed DEF PollInv
<1>5. ETagIsKept' /\ RowsAreKept'
  BY <1>2, NextETagIsKept, NextRowsAreKept DEF PollInv
<1>6. QED
  BY <1>1, <1>3, <1>4, <1>5 DEF PollInv

\* As long as no poll outlives its lock, whatever else fails, what a task knows is
\* true and the ETag in redis is that of a feed which is dealt with.
THEOREM PollInvariant ==
    ASSUME "slow" \notin Faults
    PROVE  Spec => []PollInv
<1>1. Init => PollInv
  BY InitPollInv
<1>2. PollInv /\ [Next]_vars => PollInv'
  BY NextPollInv
<1>3. QED
  BY <1>1, <1>2, PTL DEF Spec

\* Every variable keeps its type; the rows a task works on are in the table.
THEOREM PollTypes ==
    ASSUME "slow" \notin Faults
    PROVE  Spec => []TypeOK
<1>1. PollInv => TypeOK
  BY DEF PollInv
<1>2. QED
  BY <1>1, PollInvariant, PTL

\* Two tasks never poll the contributor at the same time, however many there are.
THEOREM OneTask ==
    ASSUME "slow" \notin Faults
    PROVE  Spec => []OneTaskAtATime
<1>1. PollInv => OneTaskAtATime
  BY DEF PollInv, LockIsHeld, OneTaskAtATime
<1>2. QED
  BY <1>1, PollInvariant, PTL

\* No poll skips a feed by its ETag, unless that feed was handled to its end or
\* given up by a task that died, or lost redis, a commit or navitia.
THEOREM SkippedFeeds ==
    ASSUME "slow" \notin Faults
    PROVE  Spec => []SkippedIsSettled
<1>1. PollInv => SkippedIsSettled
  <2>1. PollInv => served \in Nat \ {0}
    BY TypesOfTasks DEF PollInv, TaskTypes
  <2>2. QED
    BY <2>1 DEF PollInv, ETagIsKept, ETagIsFine, SkippedIsSettled
<1>2. QED
  BY <1>1, PollInvariant, PTL

\* Between two polls the rows tell what happened, those of the tasks that gave up apart.
THEOREM RowsAreTrue ==
    ASSUME "slow" \notin Faults
    PROVE  Spec => []RowsTellTheTruth
<1>1. PollInv => RowsTellTheTruth
  <2>1. AtRest => \A t \in Tasks : ~IsSettingRow(t)
    BY DEF AtRest, IsSettingRow
  <2>2. PollInv /\ AtRest => \A i \in DOMAIN rows \ torn : RowIsTrue(rows[i])
    BY <2>1 DEF PollInv, RowsAreKept
  <2>3. QED
    BY <2>2 DEF RowsTellTheTruth, RowIsTrue, IsTrueOf
<1>2. QED
  BY <1>1, PollInvariant, PTL

\* A feed read earlier is never stored over one read later: the one that is handled
\* was read after everything that is stored.
THEOREM FeedsGoForward ==
    ASSUME "slow" \notin Faults
    PROVE  Spec => FeedNeverGoesBack
<1>1. ASSUME PollInv, [Next]_vars
      PROVE  stored' >= stored
  <2>1. TaskTypes
    BY <1>1, TypesOfTasks DEF PollInv
  <2>2. ASSUME NEW t \in Tasks, pc[t] = "handle", stored' \in {stored, got[t]}
        PROVE  stored' >= stored
    BY <1>1, <2>1, <2>2 DEF PollInv, ReadInOrder, TaskTypes
  <2>3. ASSUME NEW t \in Tasks, HandleChanges(t) \/ HandleFails(t)
        PROVE  stored' >= stored
    BY <2>2, <2>3 DEF HandleChanges, HandleFails, Goto
  <2>4. ASSUME UNCHANGED stored PROVE stored' >= stored
    BY <2>1, <2>4 DEF TaskTypes
  <2>5. ASSUME NEW t \in Tasks, Advance(t) \/ Crash(t), ~HandleChanges(t), ~HandleFails(t)
        PROVE  UNCHANGED stored
    BY <2>5 DEF Advance, TakeLock, ReadLastCall, StoreLastCall, AskETag, CompareETag,
         IsNewerFails, Get, GetFails, AskPublicationDate, AskPublicationDateFails, NoNew,
         PokeError, SaveError, PokeFlip, PokeBack, BuildRtUpdate, HandleNothing, HandleLost, Wipe, SetKo, Release, RedisFails,
         DatabaseFails, Crash
  <2>6. ASSUME Publish \/ IntervalPasses \/ LockExpires \/ UNCHANGED vars
        PROVE  UNCHANGED stored
    BY <2>6 DEF Publish, IntervalPasses, LockExpires, vars
  <2>7. QED
    BY <1>1, <2>3, <2>4, <2>5, <2>6 DEF Next
<1>2. PollInv /\ [Next]_vars => [stored' >= stored]_vars
  BY <1>1
<1>3. QED
  BY <1>2, PollInvariant, PTL DEF Spec, FeedNeverGoesBack

\* No poll starts before the interval of the one before it has passed.
THEOREM IntervalsAreRespected ==
    ASSUME "slow" \notin Faults
    PROVE  Spec => IntervalIsRespected
<1>1. PollInv /\ [Next]_vars =>
         [\A t \in Tasks : pc[t] = "storeLastCall" /\ pc'[t] = "head" => ~recent]_vars
  BY DEF PollInv, IntervalHasPassed
<1>2. QED
  BY <1>1, PollInvariant, PTL DEF Spec, IntervalIsRespected

===============================================================================
