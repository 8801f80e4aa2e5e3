------------------------------ MODULE Circulation ------------------------------
(***************************************************************************)
(* model.VehicleJourney: a journey of navitia, which has times of day only,*)
(* on a given day.  Dated times are counted in hours from the midnight     *)
(* before the trip of TripMerge starts.                                    *)
(***************************************************************************)
EXTENDS Integers, Sequences, FiniteSetsExt

CONSTANTS
    Day,    \* length of a day
    None    \* Python's None

Events == {"arrival", "departure"}

OrNone(S) == S \cup {None}

\* What a loop over a sequence keeps that passes over all but some of its places
Only(seq, places) ==
    LET Kept[n \in 0 .. Len(seq)] ==
           CASE n = 0 -> <<>>
             [] n > 0 /\ n \in places -> Append(Kept[n - 1], seq[n])
             [] OTHER -> Kept[n - 1]
    IN  Kept[Len(seq)]

\* A journey: the sequence of its stops, [id, time], with a time of day by event.

\* VehicleJourney(): the first start after the beginning of the period.
Start(journey, since) ==
    LET today == (since \div Day) * Day + journey[1].time["arrival"]
    IN  IF today < since THEN today + Day ELSE today

=============================================================================
