------------------------------ MODULE MCTransferQueue ------------------------------
(***************************************************************************)
(* Instances of TransferQueue for TLC.                                     *)
(***************************************************************************)
EXTENDS TransferQueue, TLC

(* One job has an output of its own; the others share theirs, and have no  *)
(* order.                                                                  *)
OwnJob == CHOOSE j \in Jobs : TRUE
OwnTarget == CHOOSE t \in Targets : TRUE
SharedTarget == [j \in Jobs |-> IF j = OwnJob THEN OwnTarget ELSE CHOOSE t \in Targets \ {OwnTarget} : TRUE]
SharedSymmetry == Permutations(Jobs \ {OwnJob})

(* All jobs download the same file to the same place.                      *)
OneTarget == [j \in Jobs |-> CHOOSE t \in Targets : TRUE]

(* Tests/TransferQueueTests.cs:113-114 cancels an active job and asserts,  *)
(* when CancelAsync has returned, that the job is Cancelled.  Without a    *)
(* storage fault, then, a cancel that returns leaves a finished job.       *)
CancelHonoured ==
  [][\A c \in Commands :
       At(c, "pending") /\ cmd[c].kind = "Cancelled" /\ cmd'[c] = None =>
         LET p == cmd[c].proc IN
           up'[p] = "open" /\ ~fault[p] => mem'[p][cmd[c].job].state \in Terminal]_vars
=============================================================================
