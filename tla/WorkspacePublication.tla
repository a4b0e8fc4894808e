--------------------------- MODULE WorkspacePublication ---------------------------
(***************************************************************************)
(* Publication of one Operations workspace target to the Client portal.    *)
(*                                                                         *)
(* Operations keeps an outbox row per publication operation (migration     *)
(* 0153), one-use invocations that record which manager asked for which    *)
(* action (0156) and cancellation receipts (0155).  A call is one run of   *)
(* dispatchOperationsPortalWorkspacePublication or of                      *)
(* cancelOperationsPortalWorkspacePublication in an Operations Worker; it  *)
(* claims the row for 60 seconds, talks to the Client over service-binding *)
(* RPCs that may time out and still run later, and writes the outcome.     *)
(*                                                                         *)
(* One step is one database statement or batch, or one RPC event, so every *)
(* await of the code is a point where the other calls, the Client, the     *)
(* clock and the managers may act.  Everything in the tables is keyed by   *)
(* target_id; the module describes one target.                             *)
(*                                                                         *)
(* Rows that a batch writes together are one variable: an operation has an *)
(* Operations receipt exactly when its row is acknowledged, and an         *)
(* Operations cancellation receipt exactly when its row is dead and was    *)
(* attempted.                                                              *)
(***************************************************************************)
EXTENDS ClientPublication

CONSTANTS Calls,      \* concurrent calls; a call's identity is its claim token
          Invs,       \* identities of invocations
          Unreadable, \* operations whose stored document a deployed Worker
                      \* version may fail to verify
          None        \* no claim token, no invocation, no job

ASSUME UnreadableAssumption == Unreadable \subseteq Ops

VARIABLES
  state,      \* outbox: state ("none" before the row exists)
  attempted,  \* outbox: remote_attempted
  claim,      \* outbox: claim_token
  lapsed,     \* outbox: claim_until has passed
  expected,   \* command: expected_revision
  standing,   \* the command in the current_checkpoints and live_commands views:
              \* "live" in both, "suspended" or, for good, "expired"
  head,       \* publication_revision of the target's head row, 0 without one
  latest,     \* latest_operation_id of the head row
  inv,        \* the invocation rows
  pc,         \* where each call is
  job,        \* what each call works on, and the row it read before claiming
  reply,      \* the RPC each call awaits: unsent, sent, or its answer
  late        \* RPCs whose caller is gone and that may still run

outboxVars == <<state, attempted, claim, lapsed>>
headVars   == <<head, latest>>
callVars   == <<pc, job, reply>>
vars == <<clientVars, outboxVars, headVars, standing, callVars, expected, inv, late>>

-----------------------------------------------------------------------------
InFlightStates == {"pending", "retry", "dispatching"}

States == InFlightStates \cup {"none", "acknowledged", "dead", "superseded"}

Actions == {"publish", "recover", "cancel"}

Writes == {"publish", "cancel"}     \* the RPCs that change the Client's tables

RpcPcs == {"status", "publish", "disposition", "cancel"}

Pcs == RpcPcs \cup {"idle", "precheck", "claim", "claimed", "mark", "resend", "ack", "tombstoned"}

Replies == {"none", "sent", "receipt", "cancelled", "not-found", "conflict", "failure"}

Jobs == [op: Ops, action: Actions, inv: Invs, attempted: BOOLEAN]

Invocations == [op: Ops, action: Actions, state: {"authorized", "claimed"}, valid: BOOLEAN]

(* None is nothing else.                                                   *)
ASSUME NoneAssumption == None \notin Calls \cup Ops \cup Jobs \cup Invocations

TypeOK ==
  /\ ClientTypeOK
  /\ state \in [Ops -> States]
  /\ attempted \in [Ops -> BOOLEAN]
  /\ claim \in [Ops -> Calls \cup {None}]
  /\ lapsed \in [Ops -> BOOLEAN]
  /\ expected \in [Ops -> Nat]
  /\ standing \in [Ops -> {"live", "suspended", "expired"}]
  /\ head \in Nat
  /\ latest \in Ops \cup {None}
  /\ inv \in [Invs -> Invocations \cup {None}]
  /\ pc \in [Calls -> Pcs]
  /\ job \in [Calls -> Jobs \cup {None}]
  /\ \A w \in Calls : pc[w] # "idle" => job[w] \in Jobs
  /\ reply \in [Calls -> Replies]
  /\ late \subseteq Writes \X Ops

Init ==
  /\ ClientInit
  /\ state = [o \in Ops |-> "none"]
  /\ attempted = [o \in Ops |-> FALSE]
  /\ claim = [o \in Ops |-> None]
  /\ lapsed = [o \in Ops |-> FALSE]
  /\ expected = [o \in Ops |-> 0]
  /\ standing = [o \in Ops |-> "expired"]
  /\ head = 0
  /\ latest = None
  /\ inv = [i \in Invs |-> None]
  /\ pc = [w \in Calls |-> "idle"]
  /\ job = [w \in Calls |-> None]
  /\ reply = [w \in Calls |-> "none"]
  /\ late = {}

-----------------------------------------------------------------------------
(* Views and row predicates.                                               *)

InFlight(o) == state[o] \in InFlightStates

(* In both views: the source rows are those of the checkpoint, and the     *)
(* manager who authorised the command still stands.                        *)
Publishable(o) == standing[o] = "live"

(* WHERE state='dispatching' AND claim_token=? of every write after a claim *)
Owned(w, o) == state[o] = "dispatching" /\ claim[o] = w

(* Fault: a dispatching row is never due again.                            *)
DueUnlessDispatching(o, action) ==
  /\ state[o] = "retry" \/ (state[o] = "pending" /\ action = "publish")
  /\ action = "publish" \/ attempted[o]

(* The row is due for this action: claimInvocation's dueState and          *)
(* remoteFence, with the retry time always due because it is set to now.   *)
ClaimDue(o, action) ==
  /\ \/ state[o] = "retry"
     \/ state[o] = "pending" /\ action = "publish"
     \/ state[o] = "dispatching" /\ lapsed[o]
  /\ action = "publish" \/ attempted[o]

(* The triggers on the claim batch: a row never attempted may leave        *)
(* pending or retry, and a publish invocation may be claimed, only while   *)
(* the command is publishable.                                             *)
ClaimAllowed(o, action) ==
  /\ state[o] \in {"pending", "retry"} => attempted[o] \/ Publishable(o)
  /\ action = "publish" => Publishable(o)

(* Fault: a claimed invocation passes.                                     *)
UsableAgain(i) == inv[i].valid

(* The invocation is unused and its manager's proof is the current one.    *)
InvocationUsable(i) == inv[i].state = "authorized" /\ inv[i].valid

-----------------------------------------------------------------------------
(* Managers and the environment.                                           *)

(* Fault: a row that waits for a retry does not block the target.          *)
FreeDespiteRetry == \A p \in Ops : state[p] \notin {"pending", "dispatching"}

(* The command guard: no row of the target is in flight.                   *)
TargetFree == \A p \in Ops : ~InFlight(p)

(* reserveOperationsPortalWorkspacePublication: the batch and its command  *)
(* guard.  A replay or a conflict changes nothing.                         *)
Reserve(o) ==
  /\ state[o] = "none"
  /\ TargetFree
  /\ state' = [state EXCEPT ![o] = "pending"]
  /\ expected' = [expected EXCEPT ![o] = head]
  /\ standing' = [standing EXCEPT ![o] = "live"]
  /\ UNCHANGED <<clientVars, attempted, claim, lapsed, headVars, callVars, inv, late>>

(* The guard of a new invocation row.                                      *)
InvocationAdmitted(o, action) ==
  IF action = "publish"
  THEN state[o] # "none" /\ Publishable(o)
  ELSE attempted[o] /\ state[o] \in {"retry", "dispatching"}

(* reserveOperationsPortalWorkspacePublicationInvocation                   *)
ReserveInvocation(i, o, action) ==
  /\ inv[i] = None
  /\ InvocationAdmitted(o, action)
  /\ inv' = [inv EXCEPT ![i] = [op |-> o, action |-> action, state |-> "authorized", valid |-> TRUE]]
  /\ UNCHANGED <<clientVars, outboxVars, headVars, standing, callVars, expected, late>>

(* The invoking manager's admission, profile or grant generation moves on, *)
(* or the verified session ends.                                           *)
InvokerChanges(i) ==
  /\ inv[i] # None
  /\ inv[i].valid
  /\ inv' = [inv EXCEPT ![i] = [@ EXCEPT !.valid = FALSE]]
  /\ UNCHANGED <<clientVars, outboxVars, headVars, standing, callVars, expected, late>>

(* A source row of the target or a permission of the authorising manager   *)
(* changes, away from what the command recorded or back to it, or          *)
(* authorized_verified_until passes, for good.                             *)
StandingChanges(o) ==
  /\ InFlight(o)
  /\ standing[o] # "expired"
  /\ \E v \in {"live", "suspended", "expired"} \ {standing[o]} :
       standing' = [standing EXCEPT ![o] = v]
  /\ UNCHANGED <<clientVars, outboxVars, headVars, callVars, expected, inv, late>>

(* claim_until passes.                                                     *)
LeaseLapses(o) ==
  /\ state[o] = "dispatching"
  /\ ~lapsed[o]
  /\ lapsed' = [lapsed EXCEPT ![o] = TRUE]
  /\ UNCHANGED <<clientVars, state, attempted, claim, headVars, standing, callVars, expected, inv, late>>

-----------------------------------------------------------------------------
(* The steps of a call.                                                    *)

Goto(w, label) ==
  /\ pc' = [pc EXCEPT ![w] = label]
  /\ reply' = [reply EXCEPT ![w] = IF label \in RpcPcs THEN "sent" ELSE "none"]
  /\ UNCHANGED job

End(w) ==
  /\ pc' = [pc EXCEPT ![w] = "idle"]
  /\ job' = [job EXCEPT ![w] = None]
  /\ reply' = [reply EXCEPT ![w] = "none"]

(* A write to the row that also drops the claim.                           *)
Settle(o, s) ==
  /\ state' = [state EXCEPT ![o] = s]
  /\ claim' = [claim EXCEPT ![o] = None]
  /\ lapsed' = [lapsed EXCEPT ![o] = FALSE]
  /\ UNCHANGED attempted

(* Fault: the write is not conditioned on the claim token.                 *)
RetryUnconditionally(w, o) == Settle(o, "retry")

(* finishFailure, and retry() of the cancellation: the row goes back to    *)
(* retry if this call still holds it, and is left alone otherwise.         *)
Retry(w, o) ==
  IF Owned(w, o) THEN Settle(o, "retry") ELSE UNCHANGED outboxVars

(* An RPC the caller stops waiting for may still run at the Client.        *)
Abandon(w) ==
  late' = IF reply[w] = "sent" /\ pc[w] \in Writes
          THEN late \cup {<<pc[w], job[w].op>>}
          ELSE late

(* dispatchOperationsPortalWorkspacePublication reads the stored row; the  *)
(* invocation is new or an exact replay and is looked at only by the claim.*)
(* A terminal row answers at once.  Only a row not seen dispatching is     *)
(* checked before the claim.  A call identity is a fresh claim token, so   *)
(* it starts again only when no row holds it.                              *)
BeginDispatch(w, i) ==
  /\ pc[w] = "idle"
  /\ \A o \in Ops : claim[o] # w
  /\ inv[i] # None
  /\ inv[i].action # "cancel"
  /\ InFlight(inv[i].op)
  /\ pc' = [pc EXCEPT ![w] = IF state[inv[i].op] = "dispatching" THEN "claim" ELSE "precheck"]
  /\ job' = [job EXCEPT ![w] = [op |-> inv[i].op, action |-> inv[i].action, inv |-> i,
                                attempted |-> attempted[inv[i].op]]]
  /\ UNCHANGED <<clientVars, outboxVars, headVars, standing, reply, expected, inv, late>>

(* cancelOperationsPortalWorkspacePublication up to its claim.             *)
BeginCancel(w, i) ==
  /\ pc[w] = "idle"
  /\ \A o \in Ops : claim[o] # w
  /\ inv[i] # None
  /\ inv[i].action = "cancel"
  /\ attempted[inv[i].op]
  /\ state[inv[i].op] \in {"retry", "dispatching"}
  /\ pc' = [pc EXCEPT ![w] = "claim"]
  /\ job' = [job EXCEPT ![w] = [op |-> inv[i].op, action |-> "cancel", inv |-> i, attempted |-> TRUE]]
  /\ UNCHANGED <<clientVars, outboxVars, headVars, standing, reply, expected, inv, late>>

(* Fault: the write does not look at remote_attempted.                     *)
SupersedesAnyIdle(o) == state[o] \in {"pending", "retry"}

(* WHERE of the superseding write before the claim, and its trigger.       *)
SupersedesIdle(o) ==
  state[o] \in {"pending", "retry"} /\ ~attempted[o]

(* Drift or lost authority seen before the claim supersedes a row that was *)
(* never sent.                                                             *)
Precheck(w) ==
  /\ pc[w] = "precheck"
  /\ LET o == job[w].op IN
       IF job[w].attempted \/ Publishable(o)
       THEN Goto(w, "claim") /\ UNCHANGED outboxVars
       ELSE /\ IF SupersedesIdle(o) THEN Settle(o, "superseded") ELSE UNCHANGED outboxVars
            /\ End(w)
  /\ UNCHANGED <<clientVars, headVars, standing, expected, inv, late>>

(* claimOperationsPortalWorkspacePublicationInvocation: the row, the       *)
(* invocation and the audit row change together, or the call is denied.    *)
Claim(w) ==
  /\ pc[w] = "claim"
  /\ LET o == job[w].op
         i == job[w].inv
     IN IF InvocationUsable(i) /\ ClaimDue(o, job[w].action) /\ ClaimAllowed(o, job[w].action)
        THEN /\ state' = [state EXCEPT ![o] = "dispatching"]
             /\ claim' = [claim EXCEPT ![o] = w]
             /\ lapsed' = [lapsed EXCEPT ![o] = FALSE]
             /\ inv' = [inv EXCEPT ![i] = [@ EXCEPT !.state = "claimed"]]
             /\ UNCHANGED attempted
             /\ Goto(w, "claimed")
        ELSE End(w) /\ UNCHANGED <<outboxVars, inv>>
  /\ UNCHANGED <<clientVars, headVars, standing, expected, late>>

(* The stored document does not verify: dead if the call believes it was   *)
(* never sent, and then only if it really was not; retry otherwise.        *)
RejectDocument(w) ==
  /\ pc[w] = "claimed"
  /\ job[w].op \in Unreadable
  /\ LET o == job[w].op IN
       IF job[w].attempted
       THEN Retry(w, o)
       ELSE IF Owned(w, o) /\ ~attempted[o] THEN Settle(o, "dead") ELSE UNCHANGED outboxVars
  /\ End(w)
  /\ UNCHANGED <<clientVars, headVars, standing, expected, inv, late>>

(* WHERE of the superseding write under the claim.                         *)
SupersedesOwned(w, o) == Owned(w, o) /\ ~attempted[o]

(* The verified document decides the next RPC by the row read before the   *)
(* claim.  A dispatch that saw no attempt checks both views once more.     *)
Proceed(w) ==
  /\ pc[w] = "claimed"
  /\ LET o == job[w].op IN
       CASE job[w].action = "cancel" -> Goto(w, "disposition") /\ UNCHANGED outboxVars
         [] job[w].action # "cancel" /\ job[w].attempted -> Goto(w, "status") /\ UNCHANGED outboxVars
         [] job[w].action = "recover" /\ ~job[w].attempted -> Retry(w, o) /\ End(w)
         [] job[w].action = "publish" /\ ~job[w].attempted ->
              IF Publishable(o)
              THEN Goto(w, "mark") /\ UNCHANGED outboxVars
              ELSE /\ IF SupersedesOwned(w, o) THEN Settle(o, "superseded") ELSE UNCHANGED outboxVars
                   /\ End(w)
  /\ UNCHANGED <<clientVars, headVars, standing, expected, inv, late>>

(* remote_attempted is stored before the first publishWorkspace leaves.    *)
(* The trigger on it checks both views; a row that is no longer this       *)
(* call's, or already marked, ends the call and stays as it is.            *)
Mark(w) ==
  /\ pc[w] = "mark"
  /\ LET o == job[w].op IN
       CASE Owned(w, o) /\ ~attempted[o] /\ Publishable(o) ->
              /\ attempted' = [attempted EXCEPT ![o] = TRUE]
              /\ UNCHANGED <<state, claim, lapsed>>
              /\ Goto(w, "publish")
         [] Owned(w, o) /\ ~attempted[o] /\ ~Publishable(o) -> Retry(w, o) /\ End(w)
         [] OTHER -> UNCHANGED outboxVars /\ End(w)
  /\ UNCHANGED <<clientVars, headVars, standing, expected, inv, late>>

(* getPublicationStatus answered.  Only an exact receipt acknowledges; a   *)
(* not-found lets a publish resend, never a recover.                       *)
StatusAnswered(w) ==
  /\ pc[w] = "status"
  /\ reply[w] \notin {"none", "sent"}
  /\ LET o == job[w].op IN
       CASE reply[w] = "receipt" -> Goto(w, "ack") /\ UNCHANGED outboxVars
         [] reply[w] = "not-found" /\ job[w].action = "publish" -> Goto(w, "resend") /\ UNCHANGED outboxVars
         [] OTHER -> Retry(w, o) /\ End(w)
  /\ UNCHANGED <<clientVars, headVars, standing, expected, inv, late>>

(* The views are read again before a resend; the claim is not.             *)
Resend(w) ==
  /\ pc[w] = "resend"
  /\ LET o == job[w].op IN
       IF Publishable(o)
       THEN Goto(w, "publish") /\ UNCHANGED outboxVars
       ELSE Retry(w, o) /\ End(w)
  /\ UNCHANGED <<clientVars, headVars, standing, expected, inv, late>>

(* publishWorkspace answered.  A tombstone is not a receipt.               *)
PublishAnswered(w) ==
  /\ pc[w] = "publish"
  /\ reply[w] \notin {"none", "sent"}
  /\ IF reply[w] = "receipt"
     THEN Goto(w, "ack") /\ UNCHANGED outboxVars
     ELSE Retry(w, job[w].op) /\ End(w)
  /\ UNCHANGED <<clientVars, headVars, standing, expected, inv, late>>

(* getPublicationDisposition answered to a cancel call.                    *)
DispositionAnswered(w) ==
  /\ pc[w] = "disposition"
  /\ reply[w] \notin {"none", "sent"}
  /\ CASE reply[w] = "receipt" -> Goto(w, "ack") /\ UNCHANGED outboxVars
       [] reply[w] = "cancelled" -> Goto(w, "tombstoned") /\ UNCHANGED outboxVars
       [] reply[w] = "not-found" -> Goto(w, "cancel") /\ UNCHANGED outboxVars
       [] OTHER -> Retry(w, job[w].op) /\ End(w)
  /\ UNCHANGED <<clientVars, headVars, standing, expected, inv, late>>

(* cancelWorkspacePublication answered.                                    *)
CancelAnswered(w) ==
  /\ pc[w] = "cancel"
  /\ reply[w] \notin {"none", "sent"}
  /\ CASE reply[w] = "receipt" -> Goto(w, "ack") /\ UNCHANGED outboxVars
       [] reply[w] = "cancelled" -> Goto(w, "tombstoned") /\ UNCHANGED outboxVars
       [] OTHER -> Retry(w, job[w].op) /\ End(w)
  /\ UNCHANGED <<clientVars, headVars, standing, expected, inv, late>>

(* Fault: no timer bounds the RPC.                                         *)
NeverThrows(w) == FALSE

(* boundedRpc: the RPC throws or its timer wins, and the outcome is        *)
(* ambiguous whatever the Client did or will do.                           *)
RpcThrows(w) ==
  /\ pc[w] \in RpcPcs
  /\ Abandon(w)
  /\ Retry(w, job[w].op)
  /\ End(w)
  /\ UNCHANGED <<clientVars, headVars, standing, expected, inv>>

(* Fault: the update of the head row leaves latest_operation_id behind.    *)
AdvanceRevisionOnly(o) == head' = expected[o] + 1 /\ UNCHANGED latest

(* The head statement of the receipt batch: insert when the command        *)
(* expects no head, update the row at the expected revision otherwise.     *)
AdvanceHead(o) ==
  /\ head' = expected[o] + 1
  /\ latest' = o

(* The receipt batch: receipt row, head and acknowledged row together.     *)
ReceiptBatchCommits(w, o) == Owned(w, o) /\ attempted[o] /\ head = expected[o]

(* A failed batch leaves a dispatch's row for its lease to run out; a      *)
(* cancel call gives the row back.                                         *)
Ack(w) ==
  /\ pc[w] = "ack"
  /\ LET o == job[w].op IN
       IF ReceiptBatchCommits(w, o)
       THEN Settle(o, "acknowledged") /\ AdvanceHead(o)
       ELSE /\ IF job[w].action = "cancel" THEN Retry(w, o) ELSE UNCHANGED outboxVars
            /\ UNCHANGED headVars
  /\ End(w)
  /\ UNCHANGED <<clientVars, standing, expected, inv, late>>

(* persistCancelled: cancellation receipt, audit row and dead row together.*)
PersistCancelled(w) ==
  /\ pc[w] = "tombstoned"
  /\ LET o == job[w].op IN
       IF Owned(w, o) /\ attempted[o] THEN Settle(o, "dead") ELSE Retry(w, o)
  /\ End(w)
  /\ UNCHANGED <<clientVars, headVars, standing, expected, inv, late>>

(* A database error at a write whose catch gives the row back: the mark of *)
(* a dispatch, and both terminal batches of a cancel call.  A write that   *)
(* throws although it was applied, or throws where nothing catches it, is  *)
(* that write followed by RpcThrows or Crash.                              *)
StatementFails(w) ==
  /\ pc[w] = "mark" \/ (pc[w] \in {"ack", "tombstoned"} /\ job[w].action = "cancel")
  /\ Retry(w, job[w].op)
  /\ End(w)
  /\ UNCHANGED <<clientVars, headVars, standing, expected, inv, late>>

(* The Worker running the call is evicted.                                 *)
Crash(w) ==
  /\ pc[w] # "idle"
  /\ Abandon(w)
  /\ End(w)
  /\ UNCHANGED <<clientVars, outboxVars, headVars, standing, expected, inv>>

(* The call goes on, or one of its awaits rejects.                         *)
Progress(w) ==
  \/ Precheck(w) \/ Claim(w) \/ RejectDocument(w) \/ Proceed(w) \/ Mark(w)
  \/ StatusAnswered(w) \/ Resend(w) \/ PublishAnswered(w)
  \/ DispositionAnswered(w) \/ CancelAnswered(w)
  \/ Ack(w) \/ PersistCancelled(w)

CallStep(w) == Progress(w) \/ RpcThrows(w) \/ StatementFails(w)

-----------------------------------------------------------------------------
(* The Client's end of the RPCs.                                           *)

Answer(w, r) == reply' = [reply EXCEPT ![w] = r]

ServesRead(w) ==
  /\ pc[w] \in {"status", "disposition"}
  /\ reply[w] = "sent"
  /\ Answer(w, Disposition(job[w].op))
  /\ UNCHANGED clientVars

ServesPublish(w) ==
  /\ pc[w] = "publish"
  /\ reply[w] = "sent"
  /\ LET o == job[w].op IN
       Answer(w, PublishReply(o, expected[o])) /\ Publish(o, expected[o])

ServesCancel(w) ==
  /\ pc[w] = "cancel"
  /\ reply[w] = "sent"
  /\ LET o == job[w].op IN
       Answer(w, CancelReply(o, expected[o])) /\ Cancel(o, expected[o])

(* The writer is disabled, or the database is unavailable.                 *)
Refuses(w) ==
  /\ pc[w] \in RpcPcs
  /\ reply[w] = "sent"
  /\ Answer(w, "failure")
  /\ UNCHANGED clientVars

ClientServes(w) ==
  /\ ServesRead(w) \/ ServesPublish(w) \/ ServesCancel(w) \/ Refuses(w)
  /\ UNCHANGED <<outboxVars, headVars, standing, pc, job, expected, inv, late>>

(* A request nobody waits for runs.  It stays in late: several calls may   *)
(* have abandoned the same request.                                        *)
RunsLate ==
  /\ \E m \in late :
       \/ m[1] = "publish" /\ Publish(m[2], expected[m[2]])
       \/ m[1] = "cancel" /\ Cancel(m[2], expected[m[2]])
  /\ UNCHANGED <<outboxVars, headVars, standing, callVars, expected, inv, late>>

-----------------------------------------------------------------------------
Environment ==
  \/ \E o \in Ops : Reserve(o) \/ StandingChanges(o) \/ LeaseLapses(o)
  \/ \E i \in Invs, o \in Ops, action \in Actions : ReserveInvocation(i, o, action)
  \/ \E i \in Invs : InvokerChanges(i)
  \/ RunsLate

Next ==
  \/ Environment
  \/ \E w \in Calls :
       \/ \E i \in Invs : BeginDispatch(w, i) \/ BeginCancel(w, i)
       \/ CallStep(w)
       \/ Crash(w)
       \/ ClientServes(w)

Spec == Init /\ [][Next]_vars
-----------------------------------------------------------------------------
(* Properties.                                                             *)

(* What became of an operation, as the abstract ledger sees it.  The       *)
(* Client's tables decide; a row never sent is decided by Operations.      *)
Outcome(o) ==
  CASE state[o] = "none" -> "unused"
    [] state[o] # "none" /\ o \in receipts -> "committed"
    [] state[o] # "none" /\ o \notin receipts
         /\ (o \in tombstones \/ state[o] \in {"dead", "superseded"}) -> "withdrawn"
    [] OTHER -> "open"

Ledger == INSTANCE PublicationLedger WITH outcome <- [o \in Ops |-> Outcome(o)]

(* The two databases, with every crash, timeout and late request, behave   *)
(* as one ledger: an operation is decided once and for ever, a withdrawn   *)
(* operation never enters the history, and no operation is reserved before *)
(* the one in doubt is decided.                                            *)
ImplementsLedger == Ledger!LedgerSpec

(* The Client serves every publication it gave a receipt for as one        *)
(* revision of its history, and serves nothing else, however often a       *)
(* request is sent again or runs late.                                     *)
CommittedOnce == Ledger!HistoryExact

(* Operations never disagrees with the Client about a finished operation:  *)
(* an acknowledged row has a Client receipt, a row that was sent and is    *)
(* dead has a Client tombstone, and a row that is superseded, or dead      *)
(* without the remote_attempted mark, left no trace at the Client and no   *)
(* request on its way to it.                                               *)
TerminalAgreement ==
  \A o \in Ops :
    /\ state[o] = "acknowledged" => o \in receipts
    /\ state[o] = "dead" /\ attempted[o] => o \in tombstones
    /\ state[o] = "superseded" \/ (state[o] = "dead" /\ ~attempted[o]) =>
         /\ o \notin receipts \cup tombstones
         /\ \A k \in Writes : <<k, o>> \notin late
         /\ \A w \in Calls : pc[w] = "publish" => job[w].op # o

(* The Client's head is the Operations head, or exactly one revision ahead *)
(* while the operation in flight is committed there and not acknowledged,  *)
(* and both sides name the same operation at the Operations head.          *)
HeadsAgree ==
  /\ HeadRevision = head
       + (IF \E o \in Ops : InFlight(o) /\ o \in receipts THEN 1 ELSE 0)
  /\ head > 0 => latest = history[head]

(* An operation in doubt can always be decided: the Client already holds   *)
(* its receipt or its tombstone, or its head is still at the revision that *)
(* both the publication and the tombstone compare with.  Otherwise every   *)
(* later publication of the target would conflict for ever.                *)
FenceResolvable ==
  \A o \in Ops :
    InFlight(o) /\ attempted[o] => o \in receipts \/ o \in tombstones \/ HeadMatches(expected[o])

(* A row leaves dispatching only by a step of the call that holds its      *)
(* claim token: a call whose lease was taken over, however late it wakes,  *)
(* changes nothing.                                                        *)
OnlyHolderSettles ==
  [][\A o \in Ops :
       state[o] = "dispatching" /\ state'[o] # "dispatching" =>
         claim[o] \in Calls /\ pc[claim[o]] # "idle" /\ job[claim[o]].op = o
           /\ pc'[claim[o]] = "idle"]_vars

(* Each claim of the row spends one unused invocation that a manager       *)
(* reserved for this operation, and an invocation is spent only by a claim:*)
(* two requests replaying the same invocation never both dispatch.         *)
ClaimsSpendInvocations ==
  [][/\ \A o \in Ops :
          claim'[o] # claim[o] /\ claim'[o] # None =>
            \E i \in Invs : /\ inv[i] # None /\ inv'[i] # None
                            /\ inv[i].op = o
                            /\ inv[i].state = "authorized" /\ inv'[i].state = "claimed"
     /\ \A i \in Invs :
          inv[i] # None /\ inv[i].state = "claimed" => inv'[i] # None /\ inv'[i].state = "claimed"]_vars

-----------------------------------------------------------------------------
(* The inductive invariant behind the properties, in named parts.          *)

SingleFlight == \A o, p \in Ops : InFlight(o) /\ InFlight(p) => o = p

(* A call works for the invocation it was started with.                    *)
JobsInvoked ==
  \A w \in Calls : pc[w] # "idle" =>
    /\ inv[job[w].inv] \in Invocations
    /\ inv[job[w].inv].op = job[w].op
    /\ inv[job[w].inv].action = job[w].action

(* Whatever may have reached the Client, or may still, is marked attempted *)
(* and no row so marked is pending or superseded.                          *)
SentPcs == RpcPcs \cup {"resend", "ack", "tombstoned"}

SentIsMarked ==
  /\ \A o \in Ops : attempted[o] => state[o] \notin {"none", "pending", "superseded"}
  /\ \A o \in receipts \cup tombstones : attempted[o]
  /\ \A m \in late : attempted[m[2]]
  /\ \A w \in Calls : pc[w] # "idle" =>
       /\ job[w].action = "cancel" => job[w].attempted
       /\ pc[w] \in SentPcs \/ job[w].attempted => attempted[job[w].op]

(* An answer the call holds is still true of the Client's tables.          *)
AnswersTrue ==
  \A w \in Calls :
    /\ pc[w] = "ack" \/ (pc[w] \in RpcPcs /\ reply[w] = "receipt") => job[w].op \in receipts
    /\ pc[w] = "tombstoned" \/ (pc[w] \in RpcPcs /\ reply[w] = "cancelled") => job[w].op \in tombstones

DecidedOnce ==
  /\ receipts \cap tombstones = {}
  /\ \A o \in Ops : state[o] = "acknowledged" => o \in receipts
  /\ \A o \in Ops : state[o] = "dead" /\ attempted[o] => o \in tombstones

HeadsInStep ==
  /\ \A o \in Ops : InFlight(o) => expected[o] = head
  /\ \A o \in Ops : InFlight(o) /\ o \in receipts => Len(history) = head + 1
  /\ (\A o \in Ops : InFlight(o) => o \notin receipts) => Len(history) = head

ReceiptsPlaced ==
  /\ \A o \in receipts : expected[o] + 1 \in 1..Len(history) /\ history[expected[o] + 1] = o
  /\ head > 0 => head <= Len(history) /\ latest = history[head]

(* The invariant every proof of this module's properties rests on.         *)
Consistent ==
  /\ TypeOK
  /\ SingleFlight
  /\ JobsInvoked
  /\ SentIsMarked
  /\ AnswersTrue
  /\ DecidedOnce
  /\ HeadsInStep
  /\ ReceiptsPlaced
=============================================================================
