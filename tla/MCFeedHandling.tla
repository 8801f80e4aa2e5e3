--------------------------- MODULE MCFeedHandling ---------------------------
(***************************************************************************)
(* Instances of FeedHandling for TLC: the feeds that may arrive.           *)
(***************************************************************************)
EXTENDS FeedHandling, TLC

CONSTANTS t1, t2, h1, h2, s1, s2, bad

Feed(entries, twice) == [entries |-> entries, twice |-> twice]
NoEntries == [t \in {} |-> [head |-> h1, stops |-> {}]]

Update(h, s) == [head |-> h, stops |-> {s}]
Cancel(h) == [head |-> h, stops |-> {}]

\* One trip: delays, a new message on the same delays, a cancellation, a list
\* that manage_consistency() refuses, a trip listed twice, an empty feed.
OneTripFeeds ==
    {Feed(t1 :> e, {}) : e \in {Update(h1, s1), Update(h1, s2), Update(h2, s1),
                                Cancel(h2), Update(h1, bad)}}
    \cup {Feed(t1 :> Update(h1, s1), {t1}), Feed(NoEntries, {})}

\* Two trips, in one feed or in two.
TwoTripFeeds ==
    {Feed((t1 :> Update(h1, s1)) @@ (t2 :> Update(h1, s1)), {}),
     Feed((t1 :> Update(h2, s2)) @@ (t2 :> Update(h1, bad)), {}),
     Feed(t2 :> Update(h1, s1), {})}

SerialFeeds == OneTripFeeds \cup TwoTripFeeds

\* Two processes: enough to have them write over one another.
ConcurrentFeeds ==
    {Feed(t1 :> Update(h1, s1), {}),
     Feed(t1 :> Update(h2, s2), {}),
     Feed(t1 :> Cancel(h2), {}),
     Feed((t1 :> Update(h1, s2)) @@ (t2 :> Update(h1, s1)), {})}

=============================================================================
