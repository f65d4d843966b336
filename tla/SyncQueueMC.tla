---------------------------- MODULE SyncQueueMC ----------------------------
(***************************************************************************)
(* SyncQueue for TLC: what the configurations need to give the constants.  *)
(***************************************************************************)
EXTENDS SyncQueue, TLC

TabSymmetry == Permutations(Tabs)

(* Bound: what does not belong to the drain, a dispatch that throws, a     *)
(* browser that goes offline and a tab that is closed, happens before it   *)
(* and to one dispatch.                                                    *)
FewFaults ==
  issued' > 1 \/ connects' > 0 =>
    /\ closes' = 0 /\ online'
    /\ \A t \in Tabs : preBatchSnapshot'[t] # NoSnapshot => queue'[t] # {}
=============================================================================
