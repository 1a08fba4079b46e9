---------------------------- MODULE MCSourceSave ----------------------------
(***************************************************************************)
(* Three files, the second under a path that moves: one is created, others *)
(* are replaced.  A save or a change begins with the files as they were    *)
(* read, or one of them differs.  Other programs may write the old text,   *)
(* the new text or nothing.                                                *)
(***************************************************************************)
EXTENDS PathChange

CONSTANTS old, new

MCInit == /\ PathInit
          /\ \A f \in File : wanted[f] = new /\ expected[f] # new
          /\ step = "stage" => \A f \in File : expected[f] # None
          /\ \E g \in File : \A f \in File \ {g} : start[f] = expected[f]

MCMoved == {2}
MCSpec == MCInit /\ [][PathNext]_allVars
=============================================================================
