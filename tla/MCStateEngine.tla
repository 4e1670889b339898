---------------------------- MODULE MCStateEngine ----------------------------
(***************************************************************************)
(* Two scenarios of the state engine in one run.  In "guard" nobody        *)
(* subscribes, panes have two occupants and clients read runs; in "queue"  *)
(* one client subscribes, occupants do not change and nobody reads runs.   *)
(***************************************************************************)
EXTENDS TopicRefinement, TLC

VARIABLE scenario

MCSymmetry == Permutations(Panes) \cup Permutations(Occupants)

OneOccupant(topo) == \A p, q \in DOMAIN topo : topo[p].occ = topo[q].occ

MCInit ==
    /\ Init
    /\ scenario \in {"guard", "queue"}
    /\ scenario = "queue" => OneOccupant(herdr)

MCNext ==
    /\ Next
    /\ scenario = "guard" => fwd' = fwd
    /\ scenario = "queue" => held' = held /\ OneOccupant(herdr')
    /\ UNCHANGED scenario

MCSpec == MCInit /\ [][MCNext]_<<vars, scenario>>

=============================================================================
