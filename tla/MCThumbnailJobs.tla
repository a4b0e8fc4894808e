-------------------------- MODULE MCThumbnailJobs --------------------------
(***************************************************************************)
(* Instances of ThumbnailJobs for TLC.                                     *)
(***************************************************************************)
EXTENDS ThumbnailJobs, TLC

(* What the invocations of each run are for.  Where there are two, the     *)
(* second one only finds orphans and works off the cleanup ledger.         *)
Drainer == CHOOSE w \in Workers : TRUE
Beside(roles) == [w \in Workers |-> IF w = Drainer /\ Workers # {w} THEN {"drain", "orphans"} ELSE roles]
Renders == Beside({"event", "consume"})
Replaces == Beside({"event", "remove", "consume", "expired", "transient"})
Repairs == Beside(AllRoles \ {"orphans"})

(* State constraint of the run about fencing.  The attempts at one row: an *)
(* image that the container refuses and fails in turn goes back and forth  *)
(* without a limit; a third number is given only by a retry beside the     *)
(* second invocation, and not claimed.  And what may happen beside a       *)
(* second content, which stays: one claim, one attempt of each cleanup, no *)
(* second invocation and no failure of the container.                      *)
FewTries ==
  /\ row # None /\ row.tries > 2 =>
       row.tries = 3 /\ row.st = "pending" /\ job[Drainer] # None
  /\ clock > 1 =>
       /\ row # None => row.tries <= 1 /\ row.err \in {"none", "nas", "source"}
       /\ \A v \in Versions : cleanup[v] # None => cleanup[v].tries <= 1
       /\ job[Drainer] = None
       /\ src.ver # 0

(* View of the run about fencing: no invocation of it handles dead         *)
(* letters, so nothing reads them.                                         *)
LettersUnread == <<env, row, object, cleanup, queue, job, slot, holder, faults>>
=============================================================================
