--------------------------- MODULE NavitiaContract ---------------------------
(***************************************************************************)
(* What Kirin promises navitia about a trip (documentation/kirin2nav.md):  *)
(* a feed carries complete trips, each overwriting what was known of that  *)
(* trip, and a trip that is not mentioned stays as it is.  Kirin changes   *)
(* what it has stored on its own, and now and then sends some trips as     *)
(* they are stored.                                                        *)
(***************************************************************************)
CONSTANTS Trips, Contents, Unknown

VARIABLES stored, known

TypeOK ==
    /\ stored \in [Trips -> Contents \cup {Unknown}]
    /\ known \in [Trips -> Contents \cup {Unknown}]

Init ==
    /\ stored = [t \in Trips |-> Unknown]
    /\ known = [t \in Trips |-> Unknown]

\* Any number of trips change at once; none is forgotten.
Store ==
    /\ stored' \in [Trips -> Contents \cup {Unknown}]
    /\ \A t \in Trips : stored[t] # Unknown => stored'[t] # Unknown
    /\ UNCHANGED known

\* Some trips, all as they are stored now.
Send ==
    /\ \E S \in SUBSET {t \in Trips : stored[t] # Unknown} :
          known' = [t \in Trips |-> IF t \in S THEN stored[t] ELSE known[t]]
    /\ UNCHANGED stored

Next == Store \/ Send

Spec == Init /\ [][Next]_<<stored, known>>

=============================================================================
