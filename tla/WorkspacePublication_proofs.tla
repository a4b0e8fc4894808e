------------------------ MODULE WorkspacePublication_proofs ------------------------
(***************************************************************************)
(* Proofs of the safety properties of WorkspacePublication, for any sets   *)
(* of operations, calls and invocations.                                   *)
(*                                                                         *)
(* Everything rests on the inductive invariant Consistent.  Its proof does *)
(* not look at every step of a call once per conjunct: CallStepShape shows *)
(* once that each of them has one of a few shapes (RowStep, PcStep,        *)
(* RestStep), and the parts of the invariant follow from the shapes.       *)
(***************************************************************************)
EXTENDS WorkspacePublication, TLAPS

(* TypeOK by the groups of variables that the steps change together.       *)
RowsTyped ==
  /\ state \in [Ops -> States]
  /\ attempted \in [Ops -> BOOLEAN]
  /\ claim \in [Ops -> Calls \cup {None}]
  /\ lapsed \in [Ops -> BOOLEAN]

CallsTyped ==
  /\ pc \in [Calls -> Pcs]
  /\ job \in [Calls -> Jobs \cup {None}]
  /\ \A w \in Calls : pc[w] # "idle" => job[w] \in Jobs
  /\ reply \in [Calls -> Replies]

HeadTyped == head \in Nat /\ latest \in Ops \cup {None}

RestTyped ==
  /\ expected \in [Ops -> Nat]
  /\ standing \in [Ops -> {"live", "suspended", "expired"}]
  /\ inv \in [Invs -> Invocations \cup {None}]
  /\ late \subseteq Writes \X Ops

(* The type invariant is the conjunction of its parts.                     *)
LEMMA TypeParts ==
  TypeOK <=> ClientTypeOK /\ RowsTyped /\ CallsTyped /\ HeadTyped /\ RestTyped
  BY DEF TypeOK, RowsTyped, CallsTyped, HeadTyped, RestTyped

(* The same after a step.                                                  *)
LEMMA TypePartsNext ==
  ClientTypeOK' /\ RowsTyped' /\ CallsTyped' /\ HeadTyped' /\ RestTyped' => TypeOK'
  BY DEF TypeOK, RowsTyped, CallsTyped, HeadTyped, RestTyped

(* The empty tables and the idle calls are well typed.                     *)
LEMMA TypeInit == Init => TypeOK
  BY NoneAssumption DEF Init, TypeOK, ClientInit, ClientTypeOK, States, InFlightStates, Pcs, Replies

(* A write that drops the claim keeps the outbox rows well typed.          *)
LEMMA SettleTyped ==
  ASSUME RowsTyped, NEW o \in Ops, NEW s \in States, Settle(o, s)
  PROVE  RowsTyped'
  BY DEF RowsTyped, Settle

(* finishFailure keeps the outbox rows well typed, owned or not.           *)
LEMMA RetryTyped ==
  ASSUME RowsTyped, NEW o \in Ops, NEW w \in Calls, Retry(w, o)
  PROVE  RowsTyped'
  <1>1. CASE Owned(w, o)
    BY <1>1, SettleTyped, "retry" \in States DEF Retry, States, InFlightStates
  <1>2. CASE ~Owned(w, o)
    BY <1>2 DEF Retry, RowsTyped, outboxVars
  <1> QED BY <1>1, <1>2

(* A step that leaves the outbox alone keeps its rows well typed.          *)
LEMMA RowsKept == ASSUME RowsTyped, UNCHANGED outboxVars PROVE RowsTyped'
  BY DEF RowsTyped, outboxVars

(* A call that returns is well typed.                                      *)
LEMMA EndTyped ==
  ASSUME CallsTyped, NEW w \in Calls, End(w)
  PROVE  CallsTyped'
  BY DEF CallsTyped, End, Pcs, Replies

(* A running call that goes on is well typed.                              *)
LEMMA GotoTyped ==
  ASSUME CallsTyped, NEW w \in Calls, pc[w] # "idle", NEW label \in Pcs, Goto(w, label)
  PROVE  CallsTyped'
  BY DEF CallsTyped, Goto, Replies

(* Reservation, drift of the source rows and the lapse of a lease keep the *)
(* type invariant.                                                         *)
LEMMA TypeRows ==
  ASSUME TypeOK, NEW o \in Ops, Reserve(o) \/ StandingChanges(o) \/ LeaseLapses(o)
  PROVE  TypeOK'
  <1>1. CASE Reserve(o)
    BY <1>1 DEF Reserve, TargetFree, TypeOK, ClientTypeOK, States, InFlightStates, clientVars, headVars, callVars
  <1>2. CASE StandingChanges(o)
    BY <1>2 DEF StandingChanges, TypeOK, ClientTypeOK, clientVars, headVars, callVars, outboxVars
  <1>3. CASE LeaseLapses(o)
    BY <1>3 DEF LeaseLapses, TypeOK, ClientTypeOK, clientVars, headVars, callVars
  <1> QED BY <1>1, <1>2, <1>3

(* An invocation is reserved, or its manager loses standing.               *)
InvocationStep(i) ==
  InvokerChanges(i) \/ \E o \in Ops, action \in Actions : ReserveInvocation(i, o, action)

(* Changes of the invocation rows keep the type invariant.                 *)
LEMMA TypeInvocations ==
  ASSUME TypeOK, NEW i \in Invs, InvocationStep(i)
  PROVE  TypeOK'
  <1>1. CASE InvokerChanges(i)
    BY <1>1 DEF InvokerChanges, TypeOK, ClientTypeOK, clientVars, headVars, callVars, outboxVars, Invocations
  <1>2. ASSUME NEW o \in Ops, NEW action \in Actions, ReserveInvocation(i, o, action)
        PROVE  TypeOK'
    BY <1>2 DEF ReserveInvocation, TypeOK, ClientTypeOK, clientVars, headVars, callVars, outboxVars, Invocations
  <1> QED BY <1>1, <1>2 DEF InvocationStep

(* Every step of a dispatch or cancel call, and its crash, keeps the type  *)
(* invariant.                                                              *)
LEMMA TypeCalls ==
  ASSUME TypeOK, JobsInvoked, NEW w \in Calls, CallStep(w) \/ Crash(w)
  PROVE  TypeOK'
  <1> DEFINE o == job[w].op
  <1>a. ClientTypeOK /\ RowsTyped /\ CallsTyped /\ HeadTyped /\ RestTyped
    BY TypeParts
  <1>b. pc[w] # "idle" => o \in Ops
    BY <1>a DEF CallsTyped, Jobs
  <1>c. UNCHANGED clientVars => ClientTypeOK'
    BY <1>a DEF ClientTypeOK, clientVars
  <1>d. UNCHANGED headVars => HeadTyped'
    BY <1>a DEF HeadTyped, headVars
  <1>e. UNCHANGED <<expected, standing, inv, late>> => RestTyped'
    BY <1>a DEF RestTyped
  <1>f. pc[w] # "idle" /\ Abandon(w) /\ UNCHANGED <<expected, standing, inv>> => RestTyped'
    BY <1>a, <1>b DEF RestTyped, Abandon, Writes
  <1>p. {"superseded", "dead", "retry", "acknowledged", "dispatching"} \subseteq States
    BY DEF States, InFlightStates
  <1>q. {"claim", "claimed", "mark", "publish", "status", "disposition", "cancel", "resend", "ack", "tombstoned"} \subseteq Pcs
    BY DEF Pcs, RpcPcs
  <1> USE <1>a, <1>b, <1>c, <1>d, <1>e, <1>p, <1>q, TypePartsNext, RowsKept, SettleTyped, RetryTyped, EndTyped, GotoTyped
  <1>1. CASE Precheck(w)
    BY <1>1 DEF Precheck
  <1>2. CASE Claim(w)
    <2>1. RowsTyped'
      BY <1>2 DEF Claim, RowsTyped
    <2>2. CallsTyped'
      BY <1>2 DEF Claim
    <2>3. RestTyped'
      BY <1>2 DEF Claim, RestTyped, JobsInvoked, Invocations, CallsTyped, Jobs
    <2> QED BY <1>2, <2>1, <2>2, <2>3 DEF Claim
  <1>3. CASE RejectDocument(w)
    BY <1>3 DEF RejectDocument
  <1>4. CASE Proceed(w)
    <2>1. RowsTyped'
      BY <1>4 DEF Proceed, CallsTyped, Jobs, Actions
    <2>2. CallsTyped'
      BY <1>4 DEF Proceed, CallsTyped, Jobs, Actions
    <2> QED BY <1>4, <2>1, <2>2 DEF Proceed
  <1>5. CASE Mark(w)
    <2>1. RowsTyped'
      BY <1>5 DEF Mark, RowsTyped
    <2> QED BY <1>5, <2>1 DEF Mark
  <1>6. CASE StatusAnswered(w)
    BY <1>6 DEF StatusAnswered
  <1>7. CASE Resend(w)
    BY <1>7 DEF Resend
  <1>8. CASE PublishAnswered(w)
    BY <1>8 DEF PublishAnswered
  <1>9. CASE DispositionAnswered(w)
    BY <1>9 DEF DispositionAnswered
  <1>10. CASE CancelAnswered(w)
    BY <1>10 DEF CancelAnswered
  <1>11. CASE RpcThrows(w)
    BY <1>11, <1>f DEF RpcThrows, RpcPcs
  <1>15. CASE StatementFails(w)
    BY <1>15 DEF StatementFails
  <1>12. CASE Ack(w)
    <2>1. HeadTyped'
      BY <1>12 DEF Ack, AdvanceHead, HeadTyped, RestTyped
    <2>2. RowsTyped'
      BY <1>12 DEF Ack
    <2> QED BY <1>12, <2>1, <2>2 DEF Ack
  <1>13. CASE PersistCancelled(w)
    BY <1>13 DEF PersistCancelled
  <1>14. CASE Crash(w)
    BY <1>14, <1>f DEF Crash
  <1> QED
    BY <1>1, <1>2, <1>3, <1>4, <1>5, <1>6, <1>7, <1>8, <1>9, <1>10, <1>11, <1>12, <1>13, <1>14, <1>15 DEF CallStep, Progress

(* The start of a call keeps the type invariant.                           *)
LEMMA TypeBegin ==
  ASSUME TypeOK, NEW w \in Calls, NEW i \in Invs, BeginDispatch(w, i) \/ BeginCancel(w, i)
  PROVE  TypeOK'
  <1>a. inv[i] \in Invocations
    BY DEF TypeOK, BeginDispatch, BeginCancel
  <1>1. CASE BeginDispatch(w, i)
    BY <1>1, <1>a DEF BeginDispatch, TypeOK, ClientTypeOK, clientVars, outboxVars, headVars, Jobs, Invocations, Pcs
  <1>2. CASE BeginCancel(w, i)
    BY <1>2, <1>a DEF BeginCancel, TypeOK, ClientTypeOK, clientVars, outboxVars, headVars, Jobs, Invocations, Pcs
  <1> QED BY <1>1, <1>2

(* The Client's consume batch keeps its tables well typed.                 *)
LEMMA PublishTyped ==
  ASSUME ClientTypeOK, NEW o \in Ops, NEW e, Publish(o, e)
  PROVE  ClientTypeOK'
  BY DEF ClientTypeOK, Publish, clientVars

(* The Client's tombstone keeps its tables well typed.                     *)
LEMMA CancelTyped ==
  ASSUME ClientTypeOK, NEW o \in Ops, NEW e, Cancel(o, e)
  PROVE  ClientTypeOK'
  BY DEF ClientTypeOK, Cancel, clientVars

(* Whatever the Client answers is a reply the caller knows.                *)
LEMMA RepliesTyped ==
  ASSUME NEW o, NEW e
  PROVE  /\ Disposition(o) \in Replies
         /\ PublishReply(o, e) \in Replies
         /\ CancelReply(o, e) \in Replies
         /\ "failure" \in Replies
  BY DEF Disposition, PublishReply, CancelReply, Replies

(* An RPC served by the Client keeps the type invariant.                   *)
LEMMA TypeServes ==
  ASSUME TypeOK, NEW w \in Calls, ClientServes(w)
  PROVE  TypeOK'
  <1>a. ClientTypeOK /\ RowsTyped /\ CallsTyped /\ HeadTyped /\ RestTyped
    BY TypeParts
  <1>b. pc[w] # "idle" => job[w].op \in Ops
    BY <1>a DEF CallsTyped, Jobs
  <1>1. \E r \in Replies : reply' = [reply EXCEPT ![w] = r]
    BY RepliesTyped DEF ClientServes, ServesRead, ServesPublish, ServesCancel, Refuses, Answer
  <1>2. CallsTyped'
    BY <1>a, <1>1 DEF CallsTyped, ClientServes
  <1>3. ClientTypeOK'
    BY <1>a, <1>b, PublishTyped, CancelTyped
    DEF ClientServes, ServesRead, ServesPublish, ServesCancel, Refuses, ClientTypeOK, clientVars, RpcPcs
  <1>4. RowsTyped' /\ HeadTyped' /\ RestTyped'
    BY <1>a DEF ClientServes, RowsTyped, HeadTyped, RestTyped, outboxVars, headVars
  <1> QED BY <1>2, <1>3, <1>4, TypePartsNext

(* A request that runs after its caller left keeps the type invariant.     *)
LEMMA TypeLate ==
  ASSUME TypeOK, RunsLate
  PROVE  TypeOK'
  <1>a. ClientTypeOK /\ RowsTyped /\ CallsTyped /\ HeadTyped /\ RestTyped
    BY TypeParts
  <1>1. PICK m \in late :
          \/ m[1] = "publish" /\ Publish(m[2], expected[m[2]])
          \/ m[1] = "cancel" /\ Cancel(m[2], expected[m[2]])
    BY DEF RunsLate
  <1>2. m[2] \in Ops
    BY <1>a DEF RestTyped
  <1>3. ClientTypeOK'
    BY <1>a, <1>1, <1>2, PublishTyped, CancelTyped
  <1>4. RowsTyped' /\ CallsTyped' /\ HeadTyped' /\ RestTyped'
    BY <1>a DEF RunsLate, RowsTyped, CallsTyped, HeadTyped, RestTyped, outboxVars, headVars, callVars
  <1> QED BY <1>3, <1>4, TypePartsNext

-----------------------------------------------------------------------------
(* What any step of a call can do, in three parts.  Every invariant below  *)
(* follows from these shapes and not from the actions one by one.          *)

(* The row: nothing; still in flight; given up without ever being sent;    *)
(* dead by a tombstone; or acknowledged by a receipt with the head.        *)
RowStep(o) ==
  /\ \A p \in Ops \ {o} : state'[p] = state[p] /\ attempted'[p] = attempted[p]
  /\ attempted[o] => attempted'[o]
  /\ \/ state'[o] = state[o] /\ attempted'[o] = attempted[o] /\ UNCHANGED headVars
     \/ InFlight(o) /\ state'[o] \in {"retry", "dispatching"} /\ UNCHANGED headVars
     \/ InFlight(o) /\ state'[o] \in {"superseded", "dead"} /\ ~attempted'[o] /\ UNCHANGED headVars
     \/ InFlight(o) /\ state'[o] = "dead" /\ o \in tombstones /\ UNCHANGED headVars
     \/ InFlight(o) /\ state'[o] = "acknowledged" /\ o \in receipts /\ AdvanceHead(o)

(* The call: it ends, or goes on with the same job; what it sends is       *)
(* marked, and what it is about to record is true at the Client.           *)
PcStep(w) ==
  /\ \A v \in Calls \ {w} : pc'[v] = pc[v] /\ job'[v] = job[v] /\ reply'[v] = reply[v]
  /\ \/ pc'[w] = "idle"
     \/ /\ pc[w] # "idle" /\ job'[w] = job[w]
        /\ pc'[w] \in SentPcs => attempted'[job[w].op]
        /\ pc'[w] = "ack" => job[w].op \in receipts
        /\ pc'[w] = "tombstoned" => job[w].op \in tombstones
        /\ pc'[w] \in RpcPcs => reply'[w] = "sent"

(* The rest: the Client and the command stay, an abandoned request was     *)
(* marked, and invocations keep their meaning.                             *)
RestStep(o) ==
  /\ UNCHANGED <<clientVars, expected>>
  /\ late' \subseteq late \cup {m \in Writes \X {o} : attempted[o]}
  /\ \A i \in Invs : inv[i] \in Invocations =>
       inv'[i] \in Invocations /\ inv'[i].op = inv[i].op /\ inv'[i].action = inv[i].action

(* What a claim-dropping write does to the row, and to no other row.       *)
LEMMA SettleRow ==
  ASSUME RowsTyped, NEW o \in Ops, NEW s \in States, Settle(o, s)
  PROVE  /\ state'[o] = s
         /\ \A p \in Ops \ {o} : state'[p] = state[p]
         /\ \A p \in Ops : attempted'[p] = attempted[p]
  BY DEF RowsTyped, Settle

(* finishFailure moves the row of its own call back to retry, or nothing.  *)
LEMMA RetryRow ==
  ASSUME RowsTyped, NEW o \in Ops, NEW w \in Calls, Retry(w, o), UNCHANGED headVars
  PROVE  RowStep(o)
  <1>1. CASE Owned(w, o)
    <2>1. Settle(o, "retry") /\ "retry" \in States /\ InFlight(o)
      BY <1>1 DEF Retry, States, InFlightStates, Owned, InFlight
    <2> QED BY <2>1, SettleRow DEF RowStep
  <1>2. CASE ~Owned(w, o)
    BY <1>2 DEF Retry, RowStep, outboxVars
  <1> QED BY <1>1, <1>2

(* Leaving outbox and head alone is one of the row shapes.                 *)
LEMMA RowKept ==
  ASSUME NEW o, UNCHANGED outboxVars, UNCHANGED headVars
  PROVE  RowStep(o)
  BY DEF RowStep, outboxVars

(* Returning is one of the call shapes.                                    *)
LEMMA EndPc ==
  ASSUME CallsTyped, NEW w \in Calls, End(w)
  PROVE  PcStep(w)
  BY DEF CallsTyped, End, PcStep

(* Going on is one of the call shapes, if what is sent is marked and what  *)
(* is recorded is true.                                                    *)
LEMMA GotoPc ==
  ASSUME CallsTyped, NEW w \in Calls, pc[w] # "idle", NEW label \in Pcs, Goto(w, label),
         label \in SentPcs => attempted'[job[w].op],
         label = "ack" => job[w].op \in receipts,
         label = "tombstoned" => job[w].op \in tombstones
  PROVE  PcStep(w)
  BY DEF CallsTyped, Goto, PcStep

(* Every step of a call has the three shapes.                              *)
LEMMA CallStepShape ==
  ASSUME Consistent, NEW w \in Calls, CallStep(w) \/ Crash(w)
  PROVE  pc[w] # "idle" /\ RowStep(job[w].op) /\ PcStep(w) /\ RestStep(job[w].op)
  <1> DEFINE o == job[w].op
  <1>a. ClientTypeOK /\ RowsTyped /\ CallsTyped /\ HeadTyped /\ RestTyped
    BY TypeParts DEF Consistent
  <1>b. pc[w] # "idle"
    BY DEF CallStep, Progress, StatementFails, Crash, Precheck, Claim, RejectDocument, Proceed, Mark, StatusAnswered, Resend,
           PublishAnswered, DispositionAnswered, CancelAnswered, RpcThrows, Ack, PersistCancelled, RpcPcs
  <1>c. o \in Ops /\ job[w] \in Jobs
    BY <1>a, <1>b DEF CallsTyped, Jobs
  <1>d. UNCHANGED <<clientVars, expected, inv, late>> => RestStep(o)
    BY DEF RestStep
  <1>e. pc[w] \in SentPcs \/ job[w].attempted => attempted[o]
    BY <1>b DEF Consistent, SentIsMarked
  <1>f. UNCHANGED <<clientVars, expected, inv>> /\ Abandon(w) => RestStep(o)
    BY <1>c, <1>e DEF RestStep, Abandon, Writes, SentPcs, RpcPcs
  <1>g. UNCHANGED outboxVars => attempted'[o] = attempted[o]
    BY DEF outboxVars
  <1>p. {"superseded", "dead", "retry", "acknowledged", "dispatching"} \subseteq States
    BY DEF States, InFlightStates
  <1>q. {"claim", "claimed", "mark", "publish", "status", "disposition", "cancel", "resend", "ack", "tombstoned"} \subseteq Pcs
    BY DEF Pcs, RpcPcs
  <1>r. {"claim", "claimed", "mark"} \cap SentPcs = {} /\ {"claim", "claimed", "mark"} \cap RpcPcs = {}
    BY DEF SentPcs, RpcPcs
  <1> USE <1>a, <1>b, <1>c, <1>d, <1>g, <1>p, <1>q, <1>r, RowKept, RetryRow, EndPc, GotoPc
  <1>1. CASE Precheck(w)
    <2>1. RowStep(o)
      BY <1>1, SettleRow DEF Precheck, SupersedesIdle, RowStep, InFlight, InFlightStates
    <2> QED BY <1>1, <2>1 DEF Precheck
  <1>2. CASE Claim(w)
    <2>1. RowStep(o)
      BY <1>2 DEF Claim, ClaimDue, RowStep, InFlight, InFlightStates, RowsTyped
    <2>2. RestStep(o)
      BY <1>2 DEF Claim, RestStep, RestTyped, Invocations, Jobs
    <2> QED BY <1>2, <2>1, <2>2 DEF Claim
  <1>3. CASE RejectDocument(w)
    <2>1. RowStep(o)
      BY <1>3, SettleRow DEF RejectDocument, Owned, RowStep, InFlight, InFlightStates
    <2> QED BY <1>3, <2>1 DEF RejectDocument
  <1>4. CASE Proceed(w)
    <2>1. \/ UNCHANGED outboxVars
          \/ Retry(w, o)
          \/ Owned(w, o) /\ ~attempted[o] /\ Settle(o, "superseded")
      BY <1>4 DEF Proceed, SupersedesOwned, Jobs, Actions
    <2>2. UNCHANGED headVars
      BY <1>4 DEF Proceed
    <2>3. RowStep(o)
      BY <2>1, <2>2, SettleRow DEF Owned, RowStep, InFlight, InFlightStates
    <2>4. PcStep(w)
      BY <1>4, <1>e DEF Proceed, Consistent, SentIsMarked, Jobs, Actions
    <2> QED BY <1>4, <2>3, <2>4 DEF Proceed
  <1>5. CASE Mark(w)
    <2>1. RowStep(o)
      BY <1>5 DEF Mark, Owned, RowStep, InFlight, InFlightStates, RowsTyped
    <2>2. PcStep(w)
      BY <1>5 DEF Mark, RowsTyped
    <2> QED BY <1>5, <2>1, <2>2 DEF Mark
  <1>6. CASE StatusAnswered(w)
    <2>1. reply[w] = "receipt" => o \in receipts
      BY <1>6 DEF StatusAnswered, Consistent, AnswersTrue, RpcPcs
    <2> QED BY <1>6, <1>e, <2>1 DEF StatusAnswered, SentPcs, RpcPcs
  <1>7. CASE Resend(w)
    BY <1>7, <1>e DEF Resend, SentPcs
  <1>8. CASE PublishAnswered(w)
    <2>1. reply[w] = "receipt" => o \in receipts
      BY <1>8 DEF PublishAnswered, Consistent, AnswersTrue, RpcPcs
    <2> QED BY <1>8, <1>e, <2>1 DEF PublishAnswered, SentPcs, RpcPcs
  <1>9. CASE DispositionAnswered(w)
    <2>1. (reply[w] = "receipt" => o \in receipts) /\ (reply[w] = "cancelled" => o \in tombstones)
      BY <1>9 DEF DispositionAnswered, Consistent, AnswersTrue, RpcPcs
    <2> QED BY <1>9, <1>e, <2>1 DEF DispositionAnswered, SentPcs, RpcPcs
  <1>10. CASE CancelAnswered(w)
    <2>1. (reply[w] = "receipt" => o \in receipts) /\ (reply[w] = "cancelled" => o \in tombstones)
      BY <1>10 DEF CancelAnswered, Consistent, AnswersTrue, RpcPcs
    <2> QED BY <1>10, <1>e, <2>1 DEF CancelAnswered, SentPcs, RpcPcs
  <1>11. CASE RpcThrows(w)
    BY <1>11, <1>f DEF RpcThrows
  <1>15. CASE StatementFails(w)
    BY <1>15 DEF StatementFails
  <1>12. CASE Ack(w)
    <2>1. o \in receipts
      BY <1>12 DEF Ack, Consistent, AnswersTrue
    <2>2. RowStep(o)
      BY <1>12, <2>1, SettleRow DEF Ack, ReceiptBatchCommits, Owned, RowStep, InFlight, InFlightStates
    <2> QED BY <1>12, <2>2 DEF Ack
  <1>13. CASE PersistCancelled(w)
    <2>1. o \in tombstones
      BY <1>13 DEF PersistCancelled, Consistent, AnswersTrue
    <2>2. RowStep(o)
      BY <1>13, <2>1, SettleRow DEF PersistCancelled, Owned, RowStep, InFlight, InFlightStates
    <2> QED BY <1>13, <2>2 DEF PersistCancelled
  <1>14. CASE Crash(w)
    BY <1>14, <1>f DEF Crash
  <1> QED
    BY <1>1, <1>2, <1>3, <1>4, <1>5, <1>6, <1>7, <1>8, <1>9, <1>10, <1>11, <1>12, <1>13, <1>14, <1>15 DEF CallStep, Progress

(* The steps of calls and their crashes keep the invariant.                *)
LEMMA CallsPreserve ==
  ASSUME Consistent, NEW w \in Calls, CallStep(w) \/ Crash(w)
  PROVE  Consistent'
  <1> DEFINE o == job[w].op
  <1>1. TypeOK /\ TypeOK'
    BY TypeCalls DEF Consistent
  <1>2. pc[w] # "idle" /\ RowStep(o) /\ PcStep(w) /\ RestStep(o)
    BY CallStepShape
  <1>3. o \in Ops
    BY <1>1, <1>2 DEF TypeOK, Jobs
  <1>4. receipts' = receipts /\ tombstones' = tombstones /\ history' = history /\ expected' = expected
    BY <1>2 DEF RestStep, clientVars
  <1>5. \A p \in Ops : (InFlight(p))' => InFlight(p)
    BY <1>2, <1>3 DEF RowStep, InFlight, InFlightStates
  <1>6. SingleFlight'
    BY <1>5 DEF SingleFlight, Consistent
  <1>7. JobsInvoked'
    BY <1>1, <1>2 DEF JobsInvoked, Consistent, PcStep, RestStep, TypeOK, Jobs
  <1>8. SentIsMarked'
    <2>1. \A p \in Ops : attempted[p] => attempted'[p]
      BY <1>2 DEF RowStep
    <2>2. \A p \in Ops : attempted'[p] => state'[p] \notin {"none", "pending", "superseded"}
      BY <1>2, <1>3 DEF RowStep, SentIsMarked, Consistent
    <2>3. \A p \in receipts' \cup tombstones' : attempted'[p]
      BY <1>1, <1>4, <2>1 DEF SentIsMarked, Consistent, TypeOK, ClientTypeOK
    <2>4. \A m \in late' : attempted'[m[2]]
      BY <1>1, <1>2, <1>3, <2>1 DEF RestStep, SentIsMarked, Consistent, TypeOK
    <2>5. \A v \in Calls : pc'[v] # "idle" =>
            /\ job'[v].action = "cancel" => job'[v].attempted
            /\ pc'[v] \in SentPcs \/ job'[v].attempted => attempted'[job'[v].op]
      BY <1>1, <1>2, <2>1 DEF PcStep, SentIsMarked, Consistent, TypeOK, Jobs
    <2> QED BY <2>2, <2>3, <2>4, <2>5 DEF SentIsMarked
  <1>9. AnswersTrue'
    BY <1>2, <1>4 DEF AnswersTrue, Consistent, PcStep, RpcPcs
  <1>10. DecidedOnce'
    BY <1>2, <1>3, <1>4 DEF DecidedOnce, Consistent, RowStep
  <1>11. HeadsInStep' /\ ReceiptsPlaced'
    <2>1. CASE UNCHANGED headVars
      <3>1. \A p \in Ops : InFlight(p) /\ p \in receipts => (InFlight(p))'
        BY <1>2, <1>3, <2>1 DEF RowStep, InFlight, InFlightStates, Consistent, DecidedOnce, SentIsMarked,
                                SingleFlight, HeadsInStep, AdvanceHead, headVars, TypeOK
      <3> QED BY <1>4, <1>5, <2>1, <3>1 DEF HeadsInStep, ReceiptsPlaced, Consistent, headVars
    <2>2. CASE InFlight(o) /\ state'[o] = "acknowledged" /\ o \in receipts /\ AdvanceHead(o)
      <3>1. expected[o] = head /\ Len(history) = head + 1 /\ head \in Nat
        BY <1>1, <1>3, <2>2 DEF Consistent, HeadsInStep, TypeOK
      <3>2. \A p \in Ops : ~(InFlight(p))'
        BY <1>3, <1>5, <2>2 DEF InFlight, InFlightStates, Consistent, SingleFlight
      <3> QED BY <1>4, <2>2, <3>1, <3>2 DEF HeadsInStep, ReceiptsPlaced, Consistent, AdvanceHead
    <2> QED BY <1>2, <2>1, <2>2 DEF RowStep
  <1> QED
    BY <1>1, <1>6, <1>7, <1>8, <1>9, <1>10, <1>11 DEF Consistent

-----------------------------------------------------------------------------
(* A reservation keeps the invariant: the command guard admits no second   *)
(* operation in flight.                                                    *)
LEMMA ReservePreserves ==
  ASSUME Consistent, NEW o \in Ops, Reserve(o)
  PROVE  Consistent'
  <1>1. TypeOK /\ TypeOK'
    BY TypeRows DEF Consistent
  <1>2. /\ ~attempted[o] /\ o \notin receipts /\ o \notin tombstones
        /\ \A p \in Ops : ~InFlight(p)
        /\ state'[o] = "pending" /\ expected'[o] = head
        /\ \A p \in Ops \ {o} : state'[p] = state[p] /\ expected'[p] = expected[p]
        /\ UNCHANGED <<receipts, tombstones, history, attempted, head, latest, pc, job, reply, inv, late>>
    BY <1>1 DEF Reserve, TargetFree, Consistent, SentIsMarked, TypeOK, clientVars, headVars, callVars
  <1>3. \A p \in Ops : (InFlight(p))' <=> p = o
    BY <1>1, <1>2 DEF InFlight, InFlightStates
  <1>4. SingleFlight'
    BY <1>3 DEF SingleFlight
  <1>5. JobsInvoked' /\ AnswersTrue'
    BY <1>2 DEF JobsInvoked, AnswersTrue, Consistent
  <1>6. SentIsMarked'
    BY <1>2 DEF SentIsMarked, Consistent
  <1>7. DecidedOnce'
    BY <1>2 DEF DecidedOnce, Consistent
  <1>8. Len(history) = head
    BY <1>2 DEF HeadsInStep, Consistent
  <1>9. HeadsInStep'
    BY <1>2, <1>3, <1>8 DEF HeadsInStep
  <1>10. ReceiptsPlaced'
    BY <1>1, <1>2 DEF ReceiptsPlaced, Consistent, TypeOK, ClientTypeOK
  <1> QED
    BY <1>1, <1>4, <1>5, <1>6, <1>7, <1>9, <1>10 DEF Consistent

(* Standing, leases and invocations move without touching what Consistent  *)
(* speaks of, except that an invocation keeps its operation and action.    *)
LEMMA AsidePreserves ==
  ASSUME Consistent, TypeOK',
         UNCHANGED <<receipts, tombstones, history, state, attempted, expected, head, latest, pc, job, reply, late>>,
         \A j \in Invs : inv[j] \in Invocations =>
           inv'[j] \in Invocations /\ inv'[j].op = inv[j].op /\ inv'[j].action = inv[j].action
  PROVE  Consistent'
  <1>1. JobsInvoked'
    BY DEF JobsInvoked, Consistent, TypeOK, Jobs
  <1>2. SingleFlight' /\ SentIsMarked' /\ AnswersTrue' /\ DecidedOnce' /\ HeadsInStep' /\ ReceiptsPlaced'
    BY DEF Consistent, SingleFlight, SentIsMarked, AnswersTrue, DecidedOnce, HeadsInStep, ReceiptsPlaced, InFlight
  <1> QED
    BY <1>1, <1>2 DEF Consistent

(* Drift of the source rows and the lapse of a lease keep the invariant.   *)
LEMMA RowsPreserve ==
  ASSUME Consistent, NEW o \in Ops, StandingChanges(o) \/ LeaseLapses(o)
  PROVE  Consistent'
  <1>1. TypeOK'
    BY TypeRows DEF Consistent
  <1> QED
    BY <1>1, AsidePreserves DEF StandingChanges, LeaseLapses, clientVars, outboxVars, headVars, callVars

(* Changes of the invocation rows keep the invariant.                      *)
LEMMA InvocationsPreserve ==
  ASSUME Consistent, NEW i \in Invs, InvocationStep(i)
  PROVE  Consistent'
  <1>1. TypeOK /\ TypeOK'
    BY TypeInvocations DEF Consistent
  <1>2. UNCHANGED <<receipts, tombstones, history, state, attempted, expected, head, latest, pc, job, reply, late>>
    BY DEF InvocationStep, ReserveInvocation, InvokerChanges, clientVars, outboxVars, headVars, callVars
  <1>3. \A j \in Invs : inv[j] \in Invocations =>
          inv'[j] \in Invocations /\ inv'[j].op = inv[j].op /\ inv'[j].action = inv[j].action
    <2>1. CASE InvokerChanges(i)
      BY <1>1, <2>1 DEF InvokerChanges, Invocations, TypeOK
    <2>2. ASSUME NEW o \in Ops, NEW action \in Actions, ReserveInvocation(i, o, action)
          PROVE  \A j \in Invs : inv[j] \in Invocations => inv'[j] = inv[j]
      BY <1>1, <2>2, NoneAssumption DEF ReserveInvocation, TypeOK
    <2> QED BY <2>1, <2>2 DEF InvocationStep
  <1> QED
    BY <1>1, <1>2, <1>3, AsidePreserves

(* The start of a call keeps the invariant.                                *)
LEMMA BeginPreserves ==
  ASSUME Consistent, NEW w \in Calls, NEW i \in Invs, BeginDispatch(w, i) \/ BeginCancel(w, i)
  PROVE  Consistent'
  <1>1. TypeOK /\ TypeOK'
    BY TypeBegin DEF Consistent
  <1>2. UNCHANGED <<receipts, tombstones, history, state, attempted, expected, head, latest, reply, inv, late>>
    BY DEF BeginDispatch, BeginCancel, clientVars, outboxVars, headVars
  <1>3. inv[i] \in Invocations
    BY <1>1 DEF TypeOK, BeginDispatch, BeginCancel
  <1>4. /\ \A v \in Calls \ {w} : pc'[v] = pc[v] /\ job'[v] = job[v]
        /\ pc'[w] \in {"precheck", "claim"}
        /\ job'[w].inv = i /\ job'[w].op = inv[i].op /\ job'[w].action = inv[i].action
        /\ job'[w].attempted => attempted[inv[i].op]
        /\ job'[w].action = "cancel" => job'[w].attempted
    BY <1>1, <1>3 DEF BeginDispatch, BeginCancel, TypeOK, Invocations
  <1>5. JobsInvoked'
    BY <1>1, <1>2, <1>3, <1>4 DEF JobsInvoked, Consistent
  <1>6. SentIsMarked'
    BY <1>2, <1>4 DEF SentIsMarked, Consistent, SentPcs, RpcPcs
  <1>7. AnswersTrue'
    BY <1>2, <1>4 DEF AnswersTrue, Consistent, RpcPcs
  <1>8. SingleFlight' /\ DecidedOnce' /\ HeadsInStep' /\ ReceiptsPlaced'
    BY <1>2 DEF Consistent, SingleFlight, DecidedOnce, HeadsInStep, ReceiptsPlaced, InFlight
  <1> QED
    BY <1>1, <1>5, <1>6, <1>7, <1>8 DEF Consistent

-----------------------------------------------------------------------------
(* The Client's tables grow by one decision of a marked operation.         *)

(* A publication appended to the history is its last entry and moves no    *)
(* earlier one.                                                            *)
LEMMA AppendFacts ==
  ASSUME NEW S, NEW s \in Seq(S), NEW e \in S
  PROVE  /\ Len(Append(s, e)) = Len(s) + 1
         /\ \A r \in 1..Len(s) : Append(s, e)[r] = s[r]
         /\ Append(s, e)[Len(s) + 1] = e
  OBVIOUS

(* The Client's consume batch, run for a call or late, keeps the           *)
(* invariant.                                                              *)
LEMMA PublishPreserves ==
  ASSUME Consistent, TypeOK', NEW o \in Ops, attempted[o], Publish(o, expected[o]),
         UNCHANGED <<state, attempted, expected, head, latest, inv, late>>
  PROVE  /\ SingleFlight' /\ DecidedOnce' /\ HeadsInStep' /\ ReceiptsPlaced'
         /\ receipts \subseteq receipts' /\ tombstones \subseteq tombstones'
         /\ \A p \in receipts' \cup tombstones' : attempted[p]
  <1>1. CASE PublishCommits(o, expected[o])
    <2>1. /\ receipts' = receipts \cup {o} /\ tombstones' = tombstones /\ history' = Append(history, o)
          /\ o \notin receipts /\ o \notin tombstones /\ Len(history) = expected[o]
      BY <1>1 DEF Publish, PublishCommits, TombstoneRejects, HeadMatches, HeadRevision
    <2>2. InFlight(o)
      BY <2>1 DEF Consistent, SentIsMarked, DecidedOnce, TypeOK, States, InFlight
    <2>3. expected[o] = head /\ head \in Nat
      BY <2>2 DEF Consistent, HeadsInStep, TypeOK
    <2>4. /\ Len(history') = head + 1
          /\ \A r \in 1..Len(history) : history'[r] = history[r]
          /\ history'[head + 1] = o
      <3>1. history \in Seq(Ops)
        BY DEF Consistent, TypeOK, ClientTypeOK
      <3> QED BY <2>1, <2>3, <3>1, AppendFacts
    <2>5. HeadsInStep'
      BY <2>1, <2>2, <2>3, <2>4 DEF HeadsInStep, InFlight, Consistent
    <2>6. ReceiptsPlaced'
      <3>1. \A p \in receipts' : expected'[p] + 1 \in 1..Len(history') /\ history'[expected'[p] + 1] = p
        BY <2>1, <2>3, <2>4 DEF ReceiptsPlaced, Consistent, TypeOK, ClientTypeOK
      <3>2. head' > 0 => head' <= Len(history') /\ latest' = history'[head']
        BY <2>1, <2>3, <2>4 DEF ReceiptsPlaced, Consistent
      <3> QED BY <3>1, <3>2 DEF ReceiptsPlaced
    <2>7. SingleFlight' /\ DecidedOnce' /\ (\A p \in receipts' \cup tombstones' : attempted[p])
      BY <2>1 DEF Consistent, SingleFlight, DecidedOnce, SentIsMarked, InFlight
    <2> QED BY <2>1, <2>5, <2>6, <2>7
  <1>2. CASE ~PublishCommits(o, expected[o])
    BY <1>2 DEF Publish, clientVars, Consistent, SingleFlight, DecidedOnce, HeadsInStep, ReceiptsPlaced, SentIsMarked, InFlight
  <1> QED BY <1>1, <1>2

(* The Client's tombstone, written for a call or late, keeps the           *)
(* invariant.                                                              *)
LEMMA CancelPreserves ==
  ASSUME Consistent, TypeOK', NEW o \in Ops, attempted[o], Cancel(o, expected[o]),
         UNCHANGED <<state, attempted, expected, head, latest, inv, late>>
  PROVE  /\ SingleFlight' /\ DecidedOnce' /\ HeadsInStep' /\ ReceiptsPlaced'
         /\ receipts \subseteq receipts' /\ tombstones \subseteq tombstones'
         /\ \A p \in receipts' \cup tombstones' : attempted[p]
  <1>1. receipts' = receipts /\ history' = history
    BY DEF Cancel, clientVars
  <1>2. tombstones' = tombstones \/ (tombstones' = tombstones \cup {o} /\ o \notin receipts)
    BY DEF Cancel, CancelTombstones, clientVars
  <1> QED
    BY <1>1, <1>2 DEF Consistent, SingleFlight, DecidedOnce, HeadsInStep, ReceiptsPlaced, SentIsMarked, InFlight

(* An RPC served by the Client keeps the invariant, and its answer is      *)
(* true.                                                                   *)
LEMMA ServesPreserve ==
  ASSUME Consistent, NEW w \in Calls, ClientServes(w)
  PROVE  Consistent'
  <1> DEFINE o == job[w].op
  <1>1. TypeOK /\ TypeOK'
    BY TypeServes DEF Consistent
  <1>2. UNCHANGED <<state, attempted, expected, head, latest, inv, late, pc, job>>
    BY DEF ClientServes, outboxVars, headVars
  <1>3. pc[w] \in RpcPcs /\ o \in Ops /\ attempted[o]
    BY <1>1 DEF ClientServes, ServesRead, ServesPublish, ServesCancel, Refuses, RpcPcs, TypeOK, Jobs,
                Consistent, SentIsMarked, SentPcs
  <1>4. /\ SingleFlight' /\ DecidedOnce' /\ HeadsInStep' /\ ReceiptsPlaced'
        /\ receipts \subseteq receipts' /\ tombstones \subseteq tombstones'
        /\ \A p \in receipts' \cup tombstones' : attempted[p]
    <2>1. CASE ServesPublish(w)
      BY <1>1, <1>2, <1>3, <2>1, PublishPreserves DEF ServesPublish
    <2>2. CASE ServesCancel(w)
      BY <1>1, <1>2, <1>3, <2>2, CancelPreserves DEF ServesCancel
    <2>3. CASE UNCHANGED clientVars
      BY <1>2, <2>3 DEF clientVars, Consistent, SingleFlight, DecidedOnce, HeadsInStep, ReceiptsPlaced, SentIsMarked, InFlight
    <2> QED BY <2>1, <2>2, <2>3 DEF ClientServes, ServesRead, Refuses
  <1>5. /\ \A v \in Calls \ {w} : reply'[v] = reply[v]
        /\ reply'[w] = "receipt" => o \in receipts'
        /\ reply'[w] = "cancelled" => o \in tombstones'
    <2>1. CASE ServesRead(w)
      BY <1>1, <2>1 DEF ServesRead, Answer, Disposition, clientVars, TypeOK
    <2>2. CASE ServesPublish(w)
      BY <1>1, <2>2 DEF ServesPublish, Answer, PublishReply, Publish, TombstoneRejects, PublishCommits, clientVars, TypeOK
    <2>3. CASE ServesCancel(w)
      BY <1>1, <2>3 DEF ServesCancel, Answer, CancelReply, Cancel, CancelTombstones, clientVars, TypeOK
    <2>4. CASE Refuses(w)
      BY <1>1, <2>4 DEF Refuses, Answer, clientVars, TypeOK
    <2> QED BY <2>1, <2>2, <2>3, <2>4 DEF ClientServes
  <1>6. AnswersTrue'
    BY <1>2, <1>3, <1>4, <1>5 DEF AnswersTrue, Consistent, RpcPcs
  <1>7. SentIsMarked' /\ JobsInvoked'
    BY <1>2, <1>4 DEF SentIsMarked, JobsInvoked, Consistent
  <1> QED
    BY <1>1, <1>4, <1>6, <1>7 DEF Consistent

(* A request that runs after its caller left keeps the invariant.          *)
LEMMA LatePreserves ==
  ASSUME Consistent, RunsLate
  PROVE  Consistent'
  <1>1. TypeOK /\ TypeOK'
    BY TypeLate DEF Consistent
  <1>2. UNCHANGED <<state, attempted, expected, head, latest, inv, late, pc, job, reply>>
    BY DEF RunsLate, outboxVars, headVars, callVars
  <1>3. PICK m \in late :
          \/ m[1] = "publish" /\ Publish(m[2], expected[m[2]])
          \/ m[1] = "cancel" /\ Cancel(m[2], expected[m[2]])
    BY DEF RunsLate
  <1>4. m[2] \in Ops /\ attempted[m[2]]
    BY <1>1 DEF TypeOK, Consistent, SentIsMarked
  <1>5. /\ SingleFlight' /\ DecidedOnce' /\ HeadsInStep' /\ ReceiptsPlaced'
        /\ receipts \subseteq receipts' /\ tombstones \subseteq tombstones'
        /\ \A p \in receipts' \cup tombstones' : attempted[p]
    BY <1>1, <1>2, <1>3, <1>4, PublishPreserves, CancelPreserves
  <1>6. AnswersTrue' /\ SentIsMarked' /\ JobsInvoked'
    BY <1>2, <1>5 DEF AnswersTrue, SentIsMarked, JobsInvoked, Consistent
  <1> QED
    BY <1>1, <1>5, <1>6 DEF Consistent

-----------------------------------------------------------------------------
(* The initial state satisfies the invariant.                              *)
LEMMA InitConsistent == Init => Consistent
  <1> SUFFICES ASSUME Init PROVE Consistent
    OBVIOUS
  <1>1. TypeOK
    BY TypeInit
  <1>2. SingleFlight /\ SentIsMarked /\ DecidedOnce /\ HeadsInStep /\ ReceiptsPlaced
    BY DEF Init, ClientInit, SingleFlight, SentIsMarked, DecidedOnce, HeadsInStep, ReceiptsPlaced, InFlight, InFlightStates
  <1>3. JobsInvoked /\ AnswersTrue
    BY DEF Init, JobsInvoked, AnswersTrue, RpcPcs
  <1> QED
    BY <1>1, <1>2, <1>3 DEF Consistent

(* Every step keeps the invariant.                                         *)
LEMMA NextConsistent == Consistent /\ [Next]_vars => Consistent'
  <1> SUFFICES ASSUME Consistent, [Next]_vars PROVE Consistent'
    OBVIOUS
  <1>1. ASSUME NEW o \in Ops, Reserve(o) PROVE Consistent'
    BY <1>1, ReservePreserves
  <1>2. ASSUME NEW o \in Ops, StandingChanges(o) \/ LeaseLapses(o) PROVE Consistent'
    BY <1>2, RowsPreserve
  <1>3. ASSUME NEW i \in Invs, InvocationStep(i) PROVE Consistent'
    BY <1>3, InvocationsPreserve
  <1>4. ASSUME NEW w \in Calls, NEW i \in Invs, BeginDispatch(w, i) \/ BeginCancel(w, i) PROVE Consistent'
    BY <1>4, BeginPreserves
  <1>5. ASSUME NEW w \in Calls, CallStep(w) \/ Crash(w) PROVE Consistent'
    BY <1>5, CallsPreserve
  <1>6. ASSUME NEW w \in Calls, ClientServes(w) PROVE Consistent'
    BY <1>6, ServesPreserve
  <1>7. CASE RunsLate
    BY <1>7, LatePreserves
  <1>8. CASE UNCHANGED vars
    BY <1>8 DEF vars, clientVars, outboxVars, headVars, callVars, Consistent, TypeOK, ClientTypeOK, SingleFlight,
                JobsInvoked, SentIsMarked, AnswersTrue, DecidedOnce, HeadsInStep, ReceiptsPlaced, InFlight
  <1>9. CASE Environment
    BY <1>1, <1>2, <1>3, <1>7, <1>9 DEF Environment, InvocationStep
  <1> QED
    BY <1>4, <1>5, <1>6, <1>8, <1>9 DEF Next

(* The inductive invariant holds in every reachable state: single flight   *)
(* per target, remote_attempted stored before anything is sent, answers    *)
(* that stay true, receipts and tombstones that exclude each other.        *)
THEOREM ConsistentAlways == Spec => []Consistent
  BY InitConsistent, NextConsistent, PTL DEF Spec

(* Every row, call and message stays in its domain; in particular a        *)
(* running call always has the job it read before its claim.               *)
THEOREM TypeCorrect == Spec => []TypeOK
  <1>1. Consistent => TypeOK
    BY DEF Consistent
  <1> QED BY <1>1, ConsistentAlways, PTL

(* Operations and the Client never disagree about a finished operation:    *)
(* acknowledged, dead and superseded rows match the receipts, tombstones   *)
(* and absence of both in the other database.                              *)
THEOREM TerminalAgreementHolds == Spec => []TerminalAgreement
  <1>1. Consistent => TerminalAgreement
    <2> SUFFICES ASSUME Consistent, NEW o \in Ops
        PROVE  /\ state[o] = "acknowledged" => o \in receipts
               /\ state[o] = "dead" /\ attempted[o] => o \in tombstones
               /\ state[o] = "superseded" \/ (state[o] = "dead" /\ ~attempted[o]) =>
                    /\ o \notin receipts \cup tombstones
                    /\ \A k \in Writes : <<k, o>> \notin late
                    /\ \A w \in Calls : pc[w] = "publish" => job[w].op # o
      BY DEF TerminalAgreement
    <2>1. \A k \in Writes : <<k, o>> \in late => attempted[o]
      BY DEF Consistent, SentIsMarked
    <2>2. \A w \in Calls : pc[w] = "publish" => attempted[job[w].op]
      BY DEF Consistent, SentIsMarked, SentPcs, RpcPcs
    <2> QED BY <2>1, <2>2 DEF Consistent, DecidedOnce, SentIsMarked
  <1> QED BY <1>1, ConsistentAlways, PTL

(* The head rows of the two databases agree, up to the one operation that  *)
(* is in flight, committed at the Client and not yet acknowledged.         *)
THEOREM HeadsAgreeHolds == Spec => []HeadsAgree
  <1>1. Consistent => HeadsAgree
    BY DEF Consistent, HeadsInStep, ReceiptsPlaced, HeadsAgree, HeadRevision, TypeOK
  <1> QED BY <1>1, ConsistentAlways, PTL

(* The single-flight fence can always be resolved at the Client: neither   *)
(* head ever moves past the revision an attempted operation expects.       *)
THEOREM FenceResolvableHolds == Spec => []FenceResolvable
  <1>1. Consistent => FenceResolvable
    BY DEF Consistent, SingleFlight, HeadsInStep, FenceResolvable, HeadMatches, HeadRevision
  <1> QED BY <1>1, ConsistentAlways, PTL

-----------------------------------------------------------------------------
(* A claim-dropping write changes the state of its own row only.           *)
LEMMA SettleOnlyMoves ==
  ASSUME RowsTyped, NEW o \in Ops, NEW s \in States, NEW p \in Ops, Settle(o, s), state'[p] # state[p]
  PROVE  p = o
  BY DEF RowsTyped, Settle

(* A call moves a row out of dispatching only as its holder, and ends.     *)
LEMMA HolderSettles ==
  ASSUME Consistent, NEW w \in Calls, CallStep(w) \/ Crash(w),
         NEW p \in Ops, state[p] = "dispatching", state'[p] # "dispatching"
  PROVE  p = job[w].op /\ claim[p] = w /\ pc[w] # "idle" /\ pc'[w] = "idle"
  <1> DEFINE o == job[w].op
  <1>a. RowsTyped /\ CallsTyped
    BY TypeParts DEF Consistent
  <1>b. pc[w] # "idle" /\ o \in Ops /\ job[w] \in Jobs
    BY CallStepShape, <1>a DEF CallsTyped, Jobs
  <1>c. {"superseded", "dead", "retry", "acknowledged"} \subseteq States
    BY DEF States, InFlightStates
  <1>d. ~UNCHANGED outboxVars
    BY DEF outboxVars
  <1>e. Retry(w, o) => Owned(w, o) /\ Settle(o, "retry")
    BY <1>d DEF Retry
  <1>f. End(w) => pc'[w] = "idle"
    BY <1>a DEF End, CallsTyped
  <1> USE <1>a, <1>b, <1>c, <1>d, <1>e, <1>f, SettleOnlyMoves
  <1>1. CASE Precheck(w)
    BY <1>1 DEF Precheck, SupersedesIdle
  <1>2. CASE Claim(w)
    BY <1>2 DEF Claim, RowsTyped
  <1>3. CASE RejectDocument(w)
    BY <1>3 DEF RejectDocument, Owned
  <1>4. CASE Proceed(w)
    BY <1>4 DEF Proceed, SupersedesOwned, Owned, Jobs, Actions
  <1>5. CASE Mark(w)
    BY <1>5 DEF Mark, Owned
  <1>6. CASE StatusAnswered(w)
    BY <1>6 DEF StatusAnswered, Owned
  <1>7. CASE Resend(w)
    BY <1>7 DEF Resend, Owned
  <1>8. CASE PublishAnswered(w)
    BY <1>8 DEF PublishAnswered, Owned
  <1>9. CASE DispositionAnswered(w)
    BY <1>9 DEF DispositionAnswered, Owned
  <1>10. CASE CancelAnswered(w)
    BY <1>10 DEF CancelAnswered, Owned
  <1>11. CASE RpcThrows(w)
    BY <1>11 DEF RpcThrows, Owned
  <1>15. CASE StatementFails(w)
    BY <1>15 DEF StatementFails, Owned
  <1>12. CASE Ack(w)
    BY <1>12 DEF Ack, ReceiptBatchCommits, Owned
  <1>13. CASE PersistCancelled(w)
    BY <1>13 DEF PersistCancelled, Owned
  <1>14. CASE Crash(w)
    BY <1>14 DEF Crash
  <1> QED
    BY <1>1, <1>2, <1>3, <1>4, <1>5, <1>6, <1>7, <1>8, <1>9, <1>10, <1>11, <1>12, <1>13, <1>14, <1>15 DEF CallStep, Progress

(* A dispatch or cancel call whose lease was taken over never moves the    *)
(* row again: every write is conditioned on the claim token.               *)
THEOREM OnlyHolderSettlesHolds == Spec => OnlyHolderSettles
  <1> DEFINE A == \A o \in Ops :
                    state[o] = "dispatching" /\ state'[o] # "dispatching" =>
                      claim[o] \in Calls /\ pc[claim[o]] # "idle" /\ job[claim[o]].op = o /\ pc'[claim[o]] = "idle"
  <1>1. Consistent /\ [Next]_vars => [A]_vars
    <2> SUFFICES ASSUME Consistent, Next, NEW o \in Ops, state[o] = "dispatching", state'[o] # "dispatching"
        PROVE  claim[o] \in Calls /\ pc[claim[o]] # "idle" /\ job[claim[o]].op = o /\ pc'[claim[o]] = "idle"
      OBVIOUS
    <2>1. ASSUME NEW w \in Calls, CallStep(w) \/ Crash(w)
          PROVE  claim[o] \in Calls /\ pc[claim[o]] # "idle" /\ job[claim[o]].op = o /\ pc'[claim[o]] = "idle"
      BY <2>1, HolderSettles
    <2>2. ASSUME NEW w \in Calls, NEW i \in Invs, BeginDispatch(w, i) \/ BeginCancel(w, i) PROVE FALSE
      BY <2>2 DEF BeginDispatch, BeginCancel, outboxVars
    <2>3. ASSUME NEW w \in Calls, ClientServes(w) PROVE FALSE
      BY <2>3 DEF ClientServes, outboxVars
    <2>4. CASE Environment
      BY <2>4 DEF Environment, Reserve, TargetFree, StandingChanges, LeaseLapses, ReserveInvocation, InvokerChanges, RunsLate,
                  outboxVars, Consistent, TypeOK
    <2> QED BY <2>1, <2>2, <2>3, <2>4 DEF Next
  <1> QED
    BY <1>1, ConsistentAlways, PTL DEF Spec, OnlyHolderSettles

(* A claim-dropping write hands no claim to anyone.                        *)
LEMMA SettleDrops ==
  ASSUME RowsTyped, NEW o \in Ops, NEW s, NEW p \in Ops, Settle(o, s), claim'[p] # None
  PROVE  claim'[p] = claim[p]
  BY DEF RowsTyped, Settle

(* Only the claim batch hands out a claim token, and it spends the job's   *)
(* invocation.                                                             *)
LEMMA ClaimSpends ==
  ASSUME Consistent, NEW w \in Calls, CallStep(w) \/ Crash(w)
  PROVE  /\ \A p \in Ops : claim'[p] # claim[p] /\ claim'[p] # None =>
              \E i \in Invs : /\ inv[i] # None /\ inv'[i] # None
                              /\ inv[i].op = p
                              /\ inv[i].state = "authorized" /\ inv'[i].state = "claimed"
         /\ \A i \in Invs :
              inv[i] # None /\ inv[i].state = "claimed" => inv'[i] # None /\ inv'[i].state = "claimed"
  <1> DEFINE o == job[w].op
  <1>a. RowsTyped /\ CallsTyped /\ RestTyped
    BY TypeParts DEF Consistent
  <1>b. pc[w] # "idle" /\ o \in Ops /\ job[w] \in Jobs
    BY CallStepShape, <1>a DEF CallsTyped, Jobs
  <1>1. CASE Claim(w)
    <2>1. CASE UNCHANGED <<outboxVars, inv>>
      BY <2>1 DEF outboxVars
    <2>2. CASE ~UNCHANGED <<outboxVars, inv>>
      <3>1. PICK i \in Invs : i = job[w].inv
        BY <1>b DEF Jobs
      <3>2. /\ inv[i] \in Invocations /\ inv[i].op = o
            /\ inv[i].state = "authorized"
            /\ claim' = [claim EXCEPT ![o] = w]
            /\ inv' = [inv EXCEPT ![i] = [inv[i] EXCEPT !.state = "claimed"]]
        BY <1>1, <1>b, <2>2, <3>1 DEF Claim, InvocationUsable, Consistent, JobsInvoked
      <3>3. inv'[i] \in Invocations /\ inv'[i].state = "claimed" /\ \A j \in Invs \ {i} : inv'[j] = inv[j]
        BY <1>a, <3>2 DEF RestTyped, Invocations
      <3>4. \A p \in Ops \ {o} : claim'[p] = claim[p]
        BY <1>a, <3>2 DEF RowsTyped
      <3> QED BY <3>2, <3>3, <3>4, NoneAssumption
    <2> QED BY <2>1, <2>2
  <1>2. CASE ~Claim(w)
    <2>1. UNCHANGED inv
      BY <1>2 DEF CallStep, Progress, StatementFails, Crash, Precheck, RejectDocument, Proceed, Mark, StatusAnswered, Resend, PublishAnswered,
                  DispositionAnswered, CancelAnswered, RpcThrows, Ack, PersistCancelled
    <2>2. ASSUME NEW p \in Ops, claim'[p] # None PROVE claim'[p] = claim[p]
      <3>1. UNCHANGED outboxVars => claim'[p] = claim[p]
        BY DEF outboxVars
      <3>2. \A s : Settle(o, s) => claim'[p] = claim[p]
        BY <1>a, <1>b, <2>2, SettleDrops
      <3>3. Retry(w, o) => claim'[p] = claim[p]
        BY <3>1, <3>2 DEF Retry
      <3> QED
        BY <1>2, <1>b, <3>1, <3>2, <3>3
        DEF CallStep, Progress, StatementFails, Crash, Precheck, RejectDocument, Proceed, Mark, StatusAnswered, Resend, PublishAnswered,
            DispositionAnswered, CancelAnswered, RpcThrows, Ack, PersistCancelled, Jobs, Actions
    <2> QED BY <2>1, <2>2
  <1> QED BY <1>1, <1>2

(* The claim batch spends one unused invocation of its operation, for      *)
(* good, so a replayed request never dispatches twice.                     *)
THEOREM ClaimsSpendInvocationsHolds == Spec => ClaimsSpendInvocations
  <1> DEFINE A ==
        /\ \A o \in Ops : claim'[o] # claim[o] /\ claim'[o] # None =>
             \E i \in Invs : /\ inv[i] # None /\ inv'[i] # None
                             /\ inv[i].op = o
                             /\ inv[i].state = "authorized" /\ inv'[i].state = "claimed"
        /\ \A i \in Invs :
             inv[i] # None /\ inv[i].state = "claimed" => inv'[i] # None /\ inv'[i].state = "claimed"
  <1>1. Consistent /\ [Next]_vars => [A]_vars
    <2> SUFFICES ASSUME Consistent, Next PROVE A
      OBVIOUS
    <2>1. ASSUME NEW w \in Calls, CallStep(w) \/ Crash(w) PROVE A
      BY <2>1, ClaimSpends
    <2>2. UNCHANGED <<claim, inv>> => A
      OBVIOUS
    <2>3. ASSUME NEW w \in Calls, NEW i \in Invs, BeginDispatch(w, i) \/ BeginCancel(w, i) PROVE A
      BY <2>2, <2>3 DEF BeginDispatch, BeginCancel, outboxVars
    <2>4. ASSUME NEW w \in Calls, ClientServes(w) PROVE A
      BY <2>2, <2>4 DEF ClientServes, outboxVars
    <2>5. ASSUME NEW i \in Invs, InvokerChanges(i) PROVE A
      <3>1. inv[i] \in Invocations /\ UNCHANGED claim
        BY <2>5 DEF InvokerChanges, outboxVars, Consistent, TypeOK
      <3>2. /\ \A j \in Invs \ {i} : inv'[j] = inv[j]
            /\ inv'[i] \in Invocations /\ inv'[i].state = inv[i].state
        BY <2>5, <3>1 DEF InvokerChanges, Consistent, TypeOK, Invocations
      <3> QED BY <3>1, <3>2, NoneAssumption
    <2>6. ASSUME NEW i \in Invs, NEW o \in Ops, NEW action \in Actions, ReserveInvocation(i, o, action) PROVE A
      <3>1. UNCHANGED claim /\ \A j \in Invs : inv[j] # None => inv'[j] = inv[j]
        BY <2>6 DEF ReserveInvocation, outboxVars, Consistent, TypeOK
      <3> QED BY <3>1
    <2>7. CASE Environment
      BY <2>2, <2>5, <2>6, <2>7 DEF Environment, Reserve, TargetFree, StandingChanges, LeaseLapses, RunsLate, outboxVars
    <2> QED BY <2>1, <2>3, <2>4, <2>7 DEF Next
  <1> QED
    BY <1>1, ConsistentAlways, PTL DEF Spec, ClaimsSpendInvocations

-----------------------------------------------------------------------------
(* The refinement: what each step does to the outcomes and the history.    *)

(* An operation is open in the ledger while it is in flight and the Client *)
(* holds neither its receipt nor its tombstone.                            *)
LEMMA OutcomeOpen ==
  ASSUME Consistent, NEW o \in Ops
  PROVE  Outcome(o) = "open" <=> InFlight(o) /\ o \notin receipts /\ o \notin tombstones
  BY DEF Outcome, InFlight, InFlightStates, Consistent, TypeOK, States, DecidedOnce

(* A reservation opens the operation in the ledger.                        *)
LEMMA LedgerReserve ==
  ASSUME Consistent, NEW o \in Ops, Reserve(o)
  PROVE  Ledger!Open(o)
  <1>1. /\ state[o] = "none" /\ state'[o] = "pending" /\ o \notin receipts /\ o \notin tombstones
        /\ \A p \in Ops : ~InFlight(p)
        /\ \A p \in Ops \ {o} : state'[p] = state[p]
        /\ UNCHANGED <<receipts, tombstones, history>>
    BY DEF Reserve, TargetFree, Consistent, TypeOK, SentIsMarked, clientVars
  <1>2. Outcome(o) = "unused" /\ \A p \in Ops : Outcome(p) # "open"
    BY <1>1, OutcomeOpen DEF Outcome
  <1>3. (Outcome(o))' = "open" /\ \A p \in Ops \ {o} : (Outcome(p))' = Outcome(p)
    BY <1>1 DEF Outcome
  <1> QED BY <1>1, <1>2, <1>3 DEF Ledger!Open

(* A step of a call withdraws an operation that was never sent, or does    *)
(* nothing to the ledger.                                                  *)
LEMMA LedgerCall ==
  ASSUME Consistent, NEW w \in Calls, CallStep(w) \/ Crash(w), NEW o \in Ops, o = job[w].op
  PROVE  Ledger!Withdraw(o) \/ UNCHANGED Ledger!ledgerVars
  <1>1. pc[w] # "idle" /\ RowStep(o) /\ RestStep(o)
    BY CallStepShape
  <1>3. UNCHANGED <<receipts, tombstones, history>>
    BY <1>1 DEF RestStep, clientVars
  <1>4. \A p \in Ops \ {o} : (Outcome(p))' = Outcome(p)
    BY <1>1, <1>3 DEF RowStep, Outcome
  <1>5. CASE InFlight(o) /\ state'[o] \in {"superseded", "dead"} /\ ~attempted'[o]
    <2>1. o \notin receipts /\ o \notin tombstones
      BY <1>1, <1>5 DEF RowStep, Consistent, SentIsMarked
    <2>2. Outcome(o) = "open" /\ (Outcome(o))' = "withdrawn"
      BY <1>3, <1>5, <2>1, OutcomeOpen DEF Outcome
    <2> QED BY <1>3, <1>4, <2>2 DEF Ledger!Withdraw
  <1>6. CASE ~(InFlight(o) /\ state'[o] \in {"superseded", "dead"} /\ ~attempted'[o])
    <2>1. (Outcome(o))' = Outcome(o)
      BY <1>1, <1>3, <1>6 DEF RowStep, Outcome, InFlight, InFlightStates
    <2> QED BY <1>3, <1>4, <2>1 DEF Ledger!ledgerVars
  <1> QED BY <1>5, <1>6

(* The Client's consume batch commits the open operation, or does nothing  *)
(* to the ledger.                                                          *)
LEMMA LedgerPublish ==
  ASSUME Consistent, NEW o \in Ops, attempted[o], Publish(o, expected[o]), UNCHANGED state
  PROVE  Ledger!Commit(o) \/ UNCHANGED Ledger!ledgerVars
  <1>1. CASE PublishCommits(o, expected[o])
    <2>1. /\ receipts' = receipts \cup {o} /\ tombstones' = tombstones /\ history' = Append(history, o)
          /\ o \notin receipts /\ o \notin tombstones
      BY <1>1 DEF Publish, PublishCommits, TombstoneRejects
    <2>2. InFlight(o)
      BY <2>1 DEF Consistent, SentIsMarked, DecidedOnce, TypeOK, States, InFlight
    <2>3. Outcome(o) = "open"
      BY <2>1, <2>2, OutcomeOpen
    <2>4. (Outcome(o))' = "committed" /\ \A p \in Ops \ {o} : (Outcome(p))' = Outcome(p)
      BY <2>1, <2>2 DEF Outcome, InFlight, InFlightStates
    <2> QED BY <2>1, <2>3, <2>4 DEF Ledger!Commit
  <1>2. CASE ~PublishCommits(o, expected[o])
    BY <1>2 DEF Publish, clientVars, Ledger!ledgerVars, Outcome
  <1> QED BY <1>1, <1>2

(* The Client's tombstone withdraws the open operation, or does nothing to *)
(* the ledger.                                                             *)
LEMMA LedgerCancel ==
  ASSUME Consistent, NEW o \in Ops, attempted[o], Cancel(o, expected[o]), UNCHANGED state
  PROVE  Ledger!Withdraw(o) \/ UNCHANGED Ledger!ledgerVars
  <1>1. CASE CancelTombstones(o, expected[o])
    <2>1. /\ receipts' = receipts /\ tombstones' = tombstones \cup {o} /\ history' = history
          /\ o \notin receipts /\ o \notin tombstones
      BY <1>1 DEF Cancel, CancelTombstones
    <2>2. InFlight(o)
      BY <2>1 DEF Consistent, SentIsMarked, DecidedOnce, TypeOK, States, InFlight
    <2>3. Outcome(o) = "open"
      BY <2>1, <2>2, OutcomeOpen
    <2>4. (Outcome(o))' = "withdrawn" /\ \A p \in Ops \ {o} : (Outcome(p))' = Outcome(p)
      BY <2>1, <2>2 DEF Outcome, InFlight, InFlightStates
    <2> QED BY <2>1, <2>3, <2>4 DEF Ledger!Withdraw
  <1>2. CASE ~CancelTombstones(o, expected[o])
    BY <1>2 DEF Cancel, clientVars, Ledger!ledgerVars, Outcome
  <1> QED BY <1>1, <1>2

(* The outbox, its calls and the Client's tables implement the ledger:     *)
(* an operation is decided once, in one history, one operation at a time.  *)
THEOREM Refinement == Spec => ImplementsLedger
  <1>1. Init => Ledger!LedgerInit
    BY DEF Init, ClientInit, Ledger!LedgerInit, Outcome
  <1>2. Consistent /\ [Next]_vars => [Ledger!LedgerNext]_Ledger!ledgerVars
    <2> SUFFICES ASSUME Consistent, [Next]_vars
        PROVE  (\E o \in Ops : Ledger!Open(o) \/ Ledger!Commit(o) \/ Ledger!Withdraw(o)) \/ UNCHANGED Ledger!ledgerVars
      BY DEF Ledger!LedgerNext
    <2>a. UNCHANGED <<receipts, tombstones, history, state>> => UNCHANGED Ledger!ledgerVars
      BY DEF Ledger!ledgerVars, Outcome
    <2>1. ASSUME NEW o \in Ops, Reserve(o) PROVE \E p \in Ops : Ledger!Open(p)
      BY <2>1, LedgerReserve
    <2>2. ASSUME NEW w \in Calls, CallStep(w) \/ Crash(w)
          PROVE  (\E p \in Ops : Ledger!Withdraw(p)) \/ UNCHANGED Ledger!ledgerVars
      <3>1. job[w].op \in Ops
        BY <2>2, CallStepShape DEF Consistent, TypeOK, Jobs
      <3> QED BY <2>2, <3>1, LedgerCall
    <2>3. ASSUME NEW w \in Calls, ClientServes(w)
          PROVE  (\E p \in Ops : Ledger!Commit(p) \/ Ledger!Withdraw(p)) \/ UNCHANGED Ledger!ledgerVars
      <3>1. pc[w] \in RpcPcs /\ UNCHANGED state
        BY <2>3 DEF ClientServes, ServesRead, ServesPublish, ServesCancel, Refuses, RpcPcs, outboxVars
      <3>2. job[w].op \in Ops /\ attempted[job[w].op]
        BY <3>1 DEF RpcPcs, Consistent, TypeOK, Jobs, SentIsMarked, SentPcs
      <3>3. CASE ServesPublish(w)
        BY <3>1, <3>2, <3>3, LedgerPublish DEF ServesPublish
      <3>4. CASE ServesCancel(w)
        BY <3>1, <3>2, <3>4, LedgerCancel DEF ServesCancel
      <3>5. CASE UNCHANGED clientVars
        BY <2>a, <3>1, <3>5 DEF clientVars
      <3> QED BY <2>3, <3>3, <3>4, <3>5 DEF ClientServes, ServesRead, Refuses
    <2>4. CASE RunsLate
      <3>1. PICK m \in late :
              \/ m[1] = "publish" /\ Publish(m[2], expected[m[2]])
              \/ m[1] = "cancel" /\ Cancel(m[2], expected[m[2]])
        BY <2>4 DEF RunsLate
      <3>2. m[2] \in Ops /\ attempted[m[2]] /\ UNCHANGED state
        BY <2>4 DEF Consistent, TypeOK, SentIsMarked, RunsLate, outboxVars
      <3> QED BY <3>1, <3>2, LedgerPublish, LedgerCancel
    <2>5. ASSUME NEW w \in Calls, NEW i \in Invs, BeginDispatch(w, i) \/ BeginCancel(w, i)
          PROVE  UNCHANGED Ledger!ledgerVars
      BY <2>a, <2>5 DEF BeginDispatch, BeginCancel, clientVars, outboxVars
    <2>6. CASE Environment
      BY <2>a, <2>1, <2>4, <2>6 DEF Environment, StandingChanges, LeaseLapses, ReserveInvocation, InvokerChanges,
                                   clientVars, outboxVars
    <2>7. CASE UNCHANGED vars
      BY <2>a, <2>7 DEF vars, clientVars, outboxVars
    <2> QED BY <2>2, <2>3, <2>5, <2>6, <2>7 DEF Next
  <1> QED
    BY <1>1, <1>2, ConsistentAlways, PTL DEF Spec, ImplementsLedger, Ledger!LedgerSpec

(* What is proved of the ledger, for the operations of the two databases.  *)
LedgerFacts == INSTANCE PublicationLedger_proofs WITH outcome <- [o \in Ops |-> Outcome(o)]

(* The two databases implement the ledger those facts are about.           *)
LEMMA LedgerFactsApply == Spec => LedgerFacts!LedgerSpec
  <1>1. Ledger!LedgerInit => LedgerFacts!LedgerInit
    BY DEF Ledger!LedgerInit, LedgerFacts!LedgerInit
  <1>2. [Ledger!LedgerNext]_Ledger!ledgerVars => [LedgerFacts!LedgerNext]_LedgerFacts!ledgerVars
    BY DEF Ledger!LedgerNext, LedgerFacts!LedgerNext, Ledger!ledgerVars, LedgerFacts!ledgerVars, Ledger!Open, LedgerFacts!Open,
           Ledger!Commit, LedgerFacts!Commit, Ledger!Withdraw, LedgerFacts!Withdraw
  <1> QED BY <1>1, <1>2, Refinement, PTL DEF ImplementsLedger, Ledger!LedgerSpec, LedgerFacts!LedgerSpec

(* A publication is one revision of the Client's history if the Client has *)
(* its receipt, and none otherwise: that the ledger keeps this, and that   *)
(* the two databases implement the ledger, shows it.                       *)
THEOREM CommittedOnceHolds == Spec => []CommittedOnce
  <1>1. LedgerFacts!HistoryExact => CommittedOnce
    BY DEF LedgerFacts!HistoryExact, CommittedOnce, Ledger!HistoryExact
  <1>2. LedgerFacts!LedgerSpec => []LedgerFacts!HistoryExact
    BY LedgerFacts!HistoryExactAlways
  <1> QED BY <1>1, <1>2, LedgerFactsApply, PTL

(* The Client never takes back a decision or a revision it has served.     *)
THEOREM DecisionsKept == Spec => [][Ledger!Kept]_Ledger!ledgerVars
  <1>1. [LedgerFacts!Kept]_LedgerFacts!ledgerVars => [Ledger!Kept]_Ledger!ledgerVars
    BY DEF LedgerFacts!Kept, Ledger!Kept, LedgerFacts!ledgerVars, Ledger!ledgerVars
  <1>2. LedgerFacts!LedgerSpec => [][LedgerFacts!Kept]_LedgerFacts!ledgerVars
    BY LedgerFacts!KeptAlways
  <1> QED BY <1>1, <1>2, LedgerFactsApply, PTL
=============================================================================
