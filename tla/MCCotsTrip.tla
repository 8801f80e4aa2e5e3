------------------------------ MODULE MCCotsTrip ------------------------------
(***************************************************************************)
(* Small instances of CotsTrip.  Train 7 is in navitia's schedule from 3 to*)
(* 5 and goes by two numbers, 7 and 8; train 9 is from 0 to 1, is added    *)
(* later, and has a number that may be written with a zero before it.      *)
(***************************************************************************)
EXTENDS CotsTrip

CONSTANTS w1, w2

MCHeadsigns == [n \in {"7", "7/8", "9", "09"} |->
                  CASE n = "7" -> {"7"}
                    [] n = "7/8" -> {"7", "8"}
                    [] n \in {"9", "09"} -> {"9"}]

\* The format is left out: the id is the number itself.
MCTrainId == [n \in DOMAIN MCHeadsigns |-> n]

MCBaseTrips == {[id |-> "base", headsigns |-> {"7", "8"}, start |-> 3, end |-> 5,
                 stops |-> {"A", "B", "C"}],
                [id |-> "base9", headsigns |-> {"9"}, start |-> 0, end |-> 1,
                 stops |-> {"A", "C"}]}

MCKnown == {"A", "B", "C", "D"}
MCStops == MCKnown \cup {"Z"}

At(t, s) == [at |-> t, status |-> s]
Point(stop, arr, dep) == [stop |-> stop, station |-> TRUE, arrival |-> arr, departure |-> dep]

Start(stop, t, s) == Point(stop, None, At(t, s))
End(stop, t, s) == Point(stop, At(t, s), None)
Middle(stop, t, s) == Point(stop, At(t, s), At(t, s))

\* A point travellers cannot use, and a stop navitia does not know.
Junction == [Middle("D", 3, "none") EXCEPT !.station = FALSE]
Unknown == Middle("Z", 4, "none")

FeedOf(number, status, points) ==
    [number |-> number, status |-> status, sound |-> TRUE, points |-> points]

Normal == <<Junction, Start("A", 3, "none"), Middle("B", 4, "none"), End("C", 5, "none")>>
Shortened == <<Start("A", 3, "none"), Middle("B", 4, "none")>>
SkipsEnd == <<Start("A", 3, "none"), Middle("B", 4, "none"), End("C", 5, "delete")>>
EndsAway == <<Start("A", 3, "update"), Unknown, Middle("B", 4, "update"), End("D", 5, "delete")>>
StartAdded == <<Start("D", 2, "add"), Middle("A", 3, "none"), End("C", 5, "none")>>
Created == <<Start("A", 3, "add"), Middle("B", 4, "add"), End("C", 5, "add")>>
CreatedLate == <<Start("A", 3, "add"), Middle("B", 4, "added_for_detour"), End("C", 6, "add")>>
StartCut == <<Middle("A", 3, "delete"), Middle("B", 4, "add"), End("C", 5, "add")>>
Earlier == <<Start("A", 1, "add"), Middle("B", 2, "add"), End("C", 4, "add")>>
Nowhere == <<Start("Z", 3, "none"), End("Z", 5, "none")>>
Pointless == <<Junction, Start("A", 3, "none"), Start("B", 4, "none")>>

PlainFeeds ==
    {FeedOf("7/8", "PERTURBEE", ps) :
        ps \in {Shortened, SkipsEnd, EndsAway, StartAdded, Nowhere, Pointless}}
    \cup {[FeedOf("7", "PERTURBEE", EndsAway) EXCEPT !.sound = FALSE],
          FeedOf("7", "SUPPRIMEE", Normal),
          FeedOf("7", "AJOUTEE", Created),
          FeedOf("9", "AJOUTEE", Created),
          FeedOf("9", "PERTURBEE", Created),
          FeedOf("9", "PERTURBEE", CreatedLate),
          FeedOf("9", "PERTURBEE", StartCut),
          FeedOf("9", "SUPPRIMEE", Created),
          FeedOf("9", "PERTURBEE", Earlier)}

PaddedFeeds ==
    {FeedOf(n, s, Created) : n \in {"9", "09"}, s \in {"AJOUTEE", "SUPPRIMEE", "PERTURBEE"}}
    \cup {FeedOf("09", "PERTURBEE", CreatedLate)}

=============================================================================
