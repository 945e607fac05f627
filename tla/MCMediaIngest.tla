--------------------------- MODULE MCMediaIngest ----------------------------
(***************************************************************************)
(* Instances of MediaIngest for TLC.                                       *)
(***************************************************************************)
EXTENDS MediaIngest

CONSTANTS m1, c1, c2

OneUpload == <<m1>>

(* One delivery is signed, with events of both connectors and one without  *)
(* a medium; another one is not what its signature says.                   *)
Event(c, m) == [conn |-> c, content |-> m]

MCDeliveries ==
    {[signature |-> "valid", secret |-> "none",
      events |-> <<Event(c1, None), Event(c1, m1),
                   Event(c2, m1), Event(c1, m1)>>],
     [signature |-> "invalid", secret |-> "valid",
      events |-> <<Event(c1, m1)>>]}

(* The run goes on only from states in which a delivery is alone but for   *)
(* connectors that come and go: no other request ingests, no authorization *)
(* is under way, no submission was repeated and the process has not        *)
(* restarted.  With the rest beside it the graph is too large for a run.   *)
Apart ==
    Busy(Loop) => /\ \A t \in Pool : ~Busy(t)
                  /\ flow = {} /\ aged = {}
                  /\ run[Loop].attempt = 1
                  /\ restarts = 0

Symmetry == Permutations(Pool) \cup Permutations(Provider)
=============================================================================
