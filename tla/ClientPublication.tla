---------------------------- MODULE ClientPublication ----------------------------
(***************************************************************************)
(* The Client Worker's store of one target's workspace publications: the   *)
(* tables of migrations 0223 and 0225 and the handlers that write them.    *)
(*                                                                         *)
(* Each handler ends in one D1 batch (or one INSERT), which D1 serialises. *)
(* What a handler reads before its batch is a receipt or a tombstone; both *)
(* are immutable and cannot be deleted, and the batch's triggers check     *)
(* them again, so a handler is one step here: its verdict is the verdict   *)
(* of its batch.                                                           *)
(***************************************************************************)
EXTENDS Naturals, Sequences

CONSTANT Ops                        \* identities of publication operations

VARIABLES receipts,                 \* operations with a receipt row
          tombstones,               \* operations with a cancellation row
          history                   \* history[r]: the operation at revision r

clientVars == <<receipts, tombstones, history>>

ClientTypeOK ==
  /\ receipts \subseteq Ops
  /\ tombstones \subseteq Ops
  /\ history \in Seq(Ops)

ClientInit ==
  /\ receipts = {}
  /\ tombstones = {}
  /\ history = << >>

(* The head row's revision; 0 stands for "no head row".                    *)
HeadRevision == Len(history)

(* The head statement matches: it inserts the first head when the expected *)
(* revision is 0, and otherwise updates the row whose revision is expected.*)
HeadMatches(e) == HeadRevision = e

(* Fault: no trigger on the command row looks for a tombstone.             *)
TombstoneIgnored(o) == FALSE

(* A tombstone rejects the command row of a late publication.              *)
TombstoneRejects(o) == o \in tombstones

(* Fault: the command row is replaced and the head not compared.           *)
PublishAnyway(o, e) == ~TombstoneRejects(o)

(* The batch of consume: command, head, snapshot, history and receipt rows *)
(* together, or nothing.                                                   *)
PublishCommits(o, e) ==
  /\ o \notin receipts
  /\ ~TombstoneRejects(o)
  /\ HeadMatches(e)

(* Fault: a plain insert without the compare-and-set.                      *)
TombstonesAlways(o, e) == o \notin tombstones

(* The tombstone's compare-and-set: no command row of this operation, and  *)
(* the head still at the revision the operation expects.                   *)
CancelTombstones(o, e) ==
  /\ o \notin tombstones
  /\ o \notin receipts
  /\ HeadMatches(e)

(* consumeOperationsPortalWorkspacePublication behind publishWorkspace.    *)
PublishReply(o, e) ==
  CASE o \in receipts \/ PublishCommits(o, e) -> "receipt"
    [] o \notin receipts /\ TombstoneRejects(o) -> "cancelled"
    [] OTHER -> "conflict"

Publish(o, e) ==
  IF PublishCommits(o, e)
  THEN /\ receipts' = receipts \cup {o}
       /\ history' = Append(history, o)
       /\ UNCHANGED tombstones
  ELSE UNCHANGED clientVars

(* cancelOperationsPortalWorkspacePublication behind                       *)
(* cancelWorkspacePublication.                                             *)
CancelReply(o, e) ==
  CASE o \in receipts -> "receipt"
    [] o \notin receipts /\ (o \in tombstones \/ CancelTombstones(o, e)) -> "cancelled"
    [] OTHER -> "conflict"

Cancel(o, e) ==
  IF CancelTombstones(o, e)
  THEN /\ tombstones' = tombstones \cup {o}
       /\ UNCHANGED <<receipts, history>>
  ELSE UNCHANGED clientVars

(* The read-only disposition behind getPublicationStatus and               *)
(* getPublicationDisposition: a receipt wins over a tombstone.             *)
Disposition(o) ==
  CASE o \in receipts -> "receipt"
    [] o \notin receipts /\ o \in tombstones -> "cancelled"
    [] OTHER -> "not-found"
=============================================================================
