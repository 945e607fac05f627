-------------------------- MODULE ConsentWorkflow --------------------------
(***************************************************************************)
(* What the owner-consent workflow promises about each incident, as a      *)
(* client who only looks at the saved state sees it: the owner decides     *)
(* once; an allowed incident never has a takedown case; a refused one has  *)
(* its case as soon as the refusal is seen; an incident is closed only     *)
(* after a refusal; nothing is ever taken back.                            *)
(*                                                                         *)
(* One look may find that an incident has moved by several stages, because *)
(* a save that failed is made up for by the next one.                      *)
(***************************************************************************)
CONSTANT Incident

VARIABLES
    phase,   \* phase[i]: the stage incident i has reached
    filed    \* filed[i]: a takedown case exists for incident i

Phase == {"absent", "pending_owner_review", "allowed_by_owner",
          "removal_requested", "closed"}

Undecided == {"absent", "pending_owner_review"}

Init ==
    /\ phase = [i \in Incident |-> "absent"]
    /\ filed = [i \in Incident |-> FALSE]

Moves(i, from, to, withCase) ==
    /\ phase[i] \in from
    /\ phase'[i] = to
    /\ filed'[i] = withCase

Opens(i)   == Moves(i, {"absent"}, "pending_owner_review", FALSE)
Allows(i)  == Moves(i, Undecided, "allowed_by_owner", FALSE)
Refuses(i) == Moves(i, Undecided, "removal_requested", TRUE)
Closes(i)  == Moves(i, Undecided \cup {"removal_requested"}, "closed", TRUE)
Stays(i)   == phase'[i] = phase[i] /\ filed'[i] = filed[i]

Next ==
    /\ phase' \in [Incident -> Phase]
    /\ filed' \in [Incident -> BOOLEAN]
    /\ \A i \in Incident :
          Opens(i) \/ Allows(i) \/ Refuses(i) \/ Closes(i) \/ Stays(i)

Spec == Init /\ [][Next]_<<phase, filed>>
=============================================================================
