----------------------- MODULE MCPortalNotifications -----------------------
(***************************************************************************)
(* Instances of PortalNotifications for TLC.                               *)
(***************************************************************************)
EXTENDS PortalNotifications, TLC

(* Invocations, keys, batches, addresses and notices have no order.        *)
PortalSymmetry ==
  Permutations(Senders) \cup Permutations(Keys) \cup Permutations(Batches) \cup Permutations(Contacts)
    \cup Permutations(Notices)

(* State constraint of the run about batches: the batch tables exist,      *)
(* every notice is of a grant, and at most one of them loses its authority *)
(* at a time, once its batch is sealed.  The run with one notice has no    *)
(* such bound.                                                             *)
OnlyStaged ==
  /\ staging
  /\ \A n \in Notices : out[n] # None => out[n].grant
  /\ \A n \in Notices : ~live[n] => item[n] # None /\ batch[item[n]].sealed
  /\ Cardinality({n \in Notices : ~live[n]}) <= 1
=============================================================================
