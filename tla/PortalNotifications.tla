------------------------ MODULE PortalNotifications ------------------------
(***************************************************************************)
(* Mail about portal deliveries to one recipient of one folder.  A notice  *)
(* is a row of project_alpha_delivery_portal_notification_outbox.  The     *)
(* direct lane mails it by itself (notifications.ts); the staged lane      *)
(* adopts an untouched "granted" notice into a batch, which is mailed once *)
(* for all its notices and which staff may send at once or cancel          *)
(* (portal-delivery-notification-batches.ts and                            *)
(* native-delivery-notification-center.ts).                                *)
(*                                                                         *)
(* One step is one D1 statement or batch, or one call of the provider.     *)
(* "due" stands for the clock: next_attempt_at or eligible_at of a pending *)
(* row, or lease_expires_at of one in processing, has passed.              *)
(***************************************************************************)
EXTENDS Naturals, FiniteSets

CONSTANTS Notices,
          Batches,      \* bound: identities of batches
          Keys,         \* mutation keys of staff requests
          Contacts,     \* mail addresses the recipient may have
          Senders,      \* concurrent scheduled invocations
          MaxAttempts,
          MaxItems,     \* a batch this large is sealed
          None

ASSUME PortalAssumption ==
  /\ Notices \cap Batches = {}
  /\ MaxAttempts \in Nat \ {0} /\ MaxItems \in Nat \ {0}

VARIABLES staging,  \* the batch tables exist
          contact,  \* the recipient's address
          live,     \* live[n]: source, owner, binding and grant stand behind n
          out,      \* the outbox
          item,     \* item[n]: the batch n was staged in
          batch,    \* the batches
          control,  \* control[k]: the staff request admitted under k
          sender,   \* the invocations
          mails,    \* history: how often the provider accepted it
          carried,  \* history: what the accepted mails of a batch said
          late      \* history: batches whose lease ran out under a sender

env == <<staging, contact, live>>
lanes == <<out, item, batch>>
history == <<mails, carried, late>>
vars == <<env, lanes, control, sender, history>>

Ends == {"sent", "cancelled", "suppressed", "failed"}
Status == Ends \cup {"pending", "processing"}

(* What a mail of a batch says: the address, and the notices in it.        *)
Messages == Contacts \X SUBSET Notices

(* A notice is of a grant or of a revocation.                              *)
Rows == [grant: BOOLEAN, status: Status, attempts: 0..MaxAttempts, due: BOOLEAN]
BatchRows ==
  [status: Status, attempts: 0..MaxAttempts, due: BOOLEAN, sealed: BOOLEAN, revision: Nat,
   token: 1..MaxAttempts \cup {None}, print: Messages \cup {None}]
Requests == [on: Batches, action: {"send-now", "cancel"}, expected: Nat, done: BOOLEAN]
Held == {"resolve", "publish", "mail", "sent", "suppress", "error"}
SenderStates ==
  [on: Notices \cup Batches, at: Held \cup {"look", "drop", "claim"}, strict: BOOLEAN, seen: Nat,
   attempt: 0..MaxAttempts, print: Messages \cup {None}]

ASSUME PortalNoneAssumption ==
  None \notin Notices \cup Batches \cup Rows \cup BatchRows \cup Requests \cup SenderStates
              \cup Messages \cup 1..MaxAttempts

TypeOK ==
  /\ staging \in BOOLEAN
  /\ contact \in Contacts
  /\ live \in [Notices -> BOOLEAN]
  /\ out \in [Notices -> Rows \cup {None}]
  /\ item \in [Notices -> Batches \cup {None}]
  /\ batch \in [Batches -> BatchRows \cup {None}]
  /\ control \in [Keys -> Requests \cup {None}]
  /\ sender \in [Senders -> SenderStates \cup {None}]
  /\ mails \in [Notices \cup Batches -> 0..MaxAttempts]
  /\ carried \in [Batches -> SUBSET Messages]
  /\ late \subseteq Batches

Init ==
  /\ staging \in BOOLEAN
  /\ contact \in Contacts
  /\ live = [n \in Notices |-> TRUE]
  /\ out = [n \in Notices |-> None]
  /\ item = [n \in Notices |-> None]
  /\ batch = [b \in Batches |-> None]
  /\ control = [k \in Keys |-> None]
  /\ sender = [s \in Senders |-> None]
  /\ mails = [i \in Notices \cup Batches |-> 0]
  /\ carried = [b \in Batches |-> {}]
  /\ late = {}

-----------------------------------------------------------------------------
(* The world around the outbox.                                            *)

Migrate ==
  /\ ~staging
  /\ staging' = TRUE
  /\ UNCHANGED <<contact, live, lanes, control, sender, history>>

(* Grants end, sources are suspended and come back, addresses change.      *)
ChangeAuthority ==
  /\ \/ \E n \in Notices : live' = [live EXCEPT ![n] = ~@] /\ UNCHANGED contact
     \/ \E c \in Contacts \ {contact} : contact' = c /\ UNCHANGED live
  /\ UNCHANGED <<staging, lanes, control, sender, history>>

Job(i) == IF i \in Notices THEN out[i] ELSE batch[i]
Open(i) == Job(i) # None /\ Job(i).status \in {"pending", "processing"}
At(s, state) == sender[s] # None /\ sender[s].at = state

(* An invocation may outlive the lease it took.                            *)
AtWork(i) == \E s \in Senders, h \in Held : At(s, h) /\ sender[s].on = i

TimePasses(i) ==
  /\ Open(i) /\ ~Job(i).due
  /\ \/ i \in Notices /\ out' = [out EXCEPT ![i].due = TRUE] /\ UNCHANGED batch
     \/ i \in Batches /\ batch' = [batch EXCEPT ![i].due = TRUE] /\ UNCHANGED out
  /\ late' = IF i \in Batches /\ Job(i).status = "processing" /\ AtWork(i) THEN late \cup {i} ELSE late
  /\ UNCHANGED <<env, item, control, sender, mails, carried>>

-----------------------------------------------------------------------------
(* Staging, in the transaction of the intent or by adoption.               *)

Members(b) == {n \in Notices : item[n] = b}

Fresh(grant) == [grant |-> grant, status |-> "pending", attempts |-> 0, due |-> TRUE]
FreshBatch ==
  [status |-> "pending", attempts |-> 0, due |-> FALSE, sealed |-> FALSE, revision |-> 1,
   token |-> None, print |-> None]

(* Mutant: sealed batches are still open.                                  *)
AcceptingSealed == {b \in Batches : batch[b] # None /\ batch[b].status = "pending"}

Accepting == {b \in Batches : batch[b] # None /\ batch[b].status = "pending" /\ ~batch[b].sealed}

Full == {b \in Accepting : Cardinality(Members(b)) >= MaxItems}

(* A full batch is sealed; the notice joins the open batch or founds one.  *)
Stage(n) ==
  \E b \in Batches :
    /\ IF Accepting \ Full # {} THEN b \in Accepting \ Full ELSE batch[b] = None
    /\ LET joined == IF batch[b] = None THEN FreshBatch ELSE batch[b] IN
         batch' = [x \in Batches |->
                     IF x \in Full THEN [batch[x] EXCEPT !.sealed = TRUE, !.revision = @ + 1]
                     ELSE IF x = b THEN [joined EXCEPT !.due = FALSE, !.revision = @ + 1] ELSE batch[x]]
    /\ item' = [item EXCEPT ![n] = b]
    /\ out' = [out EXCEPT ![n] = [(IF @ = None THEN Fresh(TRUE) ELSE @) EXCEPT !.status = "suppressed"]]

Intent(n, grant) ==
  /\ out[n] = None
  /\ IF staging /\ grant
       THEN Stage(n)
       ELSE out' = [out EXCEPT ![n] = Fresh(grant)] /\ UNCHANGED <<item, batch>>
  /\ UNCHANGED <<env, control, sender, history>>

(* Mutant: a notice that was attempted and given back is adopted, too.     *)
UntouchedOrRetried(n) == out[n].grant /\ out[n].status = "pending"

Untouched(n) == out[n].grant /\ out[n].status = "pending" /\ out[n].attempts = 0

Adopt(n) ==
  /\ staging
  /\ out[n] # None /\ Untouched(n) /\ item[n] = None
  /\ Stage(n)
  /\ UNCHANGED <<env, control, sender, history>>

-----------------------------------------------------------------------------
(* Staff requests.  A request whose displayed revision is out of date is   *)
(* refused, and a repeated key is answered from its receipt: neither       *)
(* changes anything.                                                       *)

Alive(b) == {n \in Members(b) : live[n]}

Message(b) == <<contact, Alive(b)>>

Request(k, b) ==
  /\ control[k] = None
  /\ batch[b] # None /\ batch[b].status = "pending"
  /\ \E action \in {"send-now", "cancel"} :
       /\ action = "send-now" => Alive(b) # {}
       /\ control' = [control EXCEPT ![k] =
            [on |-> b, action |-> action, expected |-> batch[b].revision, done |-> FALSE]]
  /\ UNCHANGED <<env, lanes, sender, history>>

Controlled(b, action) ==
  [batch[b] EXCEPT !.status = IF action = "cancel" THEN "cancelled" ELSE "pending",
                   !.revision = @ + 1, !.sealed = TRUE, !.due = @ \/ action = "send-now"]

(* Mutants: the revision is not compared; nor whether the batch is pending. *)
ApplicableAnyRevision(k) ==
  batch[control[k].on].status = "pending" /\ (control[k].action = "send-now" => Alive(control[k].on) # {})
ApplicableInFlight(k) == Open(control[k].on)

(* Status, receipt and audit in one batch.                                 *)
Applicable(k) ==
  LET r == control[k] IN
    /\ batch[r.on].status = "pending" /\ batch[r.on].revision = r.expected
    /\ r.action = "send-now" => Alive(r.on) # {}

Apply(k) ==
  /\ control[k] # None /\ ~control[k].done
  /\ Applicable(k)
  /\ batch' = [batch EXCEPT ![control[k].on] = Controlled(control[k].on, control[k].action)]
  /\ control' = [control EXCEPT ![k].done = TRUE]
  /\ UNCHANGED <<env, out, item, sender, history>>

-----------------------------------------------------------------------------
(* An invocation: the sweeps, then the batches, then the direct lane.      *)

(* Mutant: abandoned leases are not swept.                                 *)
ExhaustedPending(i) == Open(i) /\ Job(i).status = "pending" /\ Job(i).due /\ Job(i).attempts >= MaxAttempts

Exhausted(i) == Open(i) /\ Job(i).due /\ Job(i).attempts >= MaxAttempts

Sweep(i) ==
  /\ Exhausted(i)
  /\ \/ i \in Notices /\ out' = [out EXCEPT ![i].status = "failed"] /\ UNCHANGED batch
     \/ /\ i \in Batches
        /\ batch' = [batch EXCEPT ![i].status = "failed", ![i].revision = @ + 1, ![i].token = None]
        /\ UNCHANGED out
  /\ UNCHANGED <<env, item, control, sender, history>>

(* Mutant: no limit.                                                       *)
ClaimableUncapped(i) == Open(i) /\ Job(i).due

Claimable(i) == Open(i) /\ Job(i).due /\ Job(i).attempts < MaxAttempts

Goto(s, state) == sender' = [sender EXCEPT ![s].at = state]
Leave(s) == sender' = [sender EXCEPT ![s] = None]

(* A candidate: for a batch, the row as it is now.                         *)
SelectBatch(s, b) ==
  /\ sender[s] = None
  /\ staging /\ Claimable(b)
  /\ sender' = [sender EXCEPT ![s] =
       [on |-> b, at |-> "claim", strict |-> TRUE, seen |-> batch[b].revision,
        attempt |-> batch[b].attempts, print |-> batch[b].print]]
  /\ UNCHANGED <<env, lanes, control, history>>

(* The direct lane leaves untouched grants to adoption once the batch      *)
(* tables exist.                                                           *)
Direct(n, strict) == Claimable(n) /\ ~(strict /\ Untouched(n))

SelectNotice(s, n) ==
  /\ sender[s] = None
  /\ Direct(n, staging)
  /\ sender' = [sender EXCEPT ![s] =
       [on |-> n, at |-> "look", strict |-> staging, seen |-> 0, attempt |-> 0, print |-> None]]
  /\ UNCHANGED <<env, lanes, control, history>>

Look(s) ==
  /\ At(s, "look")
  /\ LET n == sender[s].on IN
       \/ /\ Direct(n, sender[s].strict) /\ live[n]
          /\ sender' = [sender EXCEPT ![s].at = "claim", ![s].seen = out[n].attempts, ![s].attempt = out[n].attempts]
       \/ ~(Direct(n, sender[s].strict) /\ live[n]) /\ Goto(s, "drop")
  /\ UNCHANGED <<env, lanes, control, history>>

Drop(s) ==
  /\ At(s, "drop")
  /\ IF Claimable(sender[s].on) THEN out' = [out EXCEPT ![sender[s].on].status = "suppressed"] ELSE UNCHANGED out
  /\ Leave(s)
  /\ UNCHANGED <<env, item, batch, control, history>>

(* The compare-and-set of a claim: the attempts of a notice, the revision  *)
(* of a batch.                                                             *)
Unchanged(i, seen) == seen = IF i \in Notices THEN out[i].attempts ELSE batch[i].revision

Take(i) ==
  \/ /\ i \in Notices
     /\ out' = [out EXCEPT ![i].status = "processing", ![i].attempts = @ + 1, ![i].due = FALSE]
     /\ UNCHANGED batch
  \/ /\ i \in Batches
     /\ batch' = [batch EXCEPT ![i] = [batch[i] EXCEPT
          !.status = "processing", !.attempts = @ + 1, !.due = FALSE, !.sealed = TRUE,
          !.revision = @ + 1, !.token = batch[i].attempts + 1]]
     /\ UNCHANGED out

Claim(s) ==
  /\ At(s, "claim")
  /\ LET i == sender[s].on IN
       IF Claimable(i) /\ Unchanged(i, sender[s].seen)
         THEN Take(i) /\ sender' = [sender EXCEPT ![s].at = "resolve", ![s].attempt = @ + 1]
         ELSE Leave(s) /\ UNCHANGED <<out, batch>>
  /\ UNCHANGED <<env, item, control, history>>

(* The recipient, and for a batch the message: the one its print names, or *)
(* the batch is suppressed.                                                *)
Resolved(s) ==
  LET i == sender[s].on IN
    \/ i \in Notices /\ Goto(s, "publish")
    \/ /\ i \in Batches /\ Alive(i) # {} /\ sender[s].print \in {None, Message(i)}
       /\ sender' = [sender EXCEPT ![s].at = "publish", ![s].print = Message(i)]

Resolve(s) ==
  /\ At(s, "resolve")
  /\ Resolved(s) \/ Goto(s, "suppress") \/ Goto(s, "error")
  /\ UNCHANGED <<env, lanes, control, history>>

(* Mutant: results are written without a fence.                            *)
HoldsAnyway(s) == TRUE

(* The lease of s on its job stands: by attempt and time for a notice, by  *)
(* token for a batch.                                                      *)
Holds(s) ==
  LET i == sender[s].on IN
    /\ Job(i).status = "processing"
    /\ IF i \in Notices THEN out[i].attempts = sender[s].attempt /\ ~out[i].due
                        ELSE batch[i].token = sender[s].attempt

(* Publication freezes what a batch says.                                  *)
Publishable(s) ==
  LET i == sender[s].on IN
    /\ Holds(s) /\ ~Job(i).due
    /\ IF i \in Notices THEN live[i]
                        ELSE batch[i].print \in {None, sender[s].print} /\ sender[s].print = Message(i)

(* Mutant: the message is checked but not frozen.                          *)
PublishUnfrozen(s) ==
  /\ At(s, "publish")
  /\ \/ /\ Publishable(s)
        /\ Goto(s, "mail")
     \/ ~Publishable(s) /\ Goto(s, "suppress")
  /\ UNCHANGED <<env, lanes, control, history>>

Publish(s) ==
  /\ At(s, "publish")
  /\ \/ /\ Publishable(s)
        /\ batch' = [b \in Batches |->
             IF b = sender[s].on THEN [batch[b] EXCEPT !.print = sender[s].print] ELSE batch[b]]
        /\ Goto(s, "mail")
     \/ ~Publishable(s) /\ Goto(s, "suppress") /\ UNCHANGED batch
  /\ UNCHANGED <<env, out, item, control, history>>

(* An error may come from a provider that has accepted the message.        *)
Mail(s) ==
  /\ At(s, "mail")
  /\ \/ /\ Goto(s, "sent") \/ Goto(s, "error")
        /\ mails' = [mails EXCEPT ![sender[s].on] = @ + 1]
        /\ carried' = [b \in Batches |-> IF b = sender[s].on THEN carried[b] \cup {sender[s].print} ELSE carried[b]]
     \/ Goto(s, "error") /\ UNCHANGED <<mails, carried>>
  /\ UNCHANGED <<env, lanes, control, late>>

Outcome(s) ==
  CASE At(s, "sent") -> "sent"
    [] At(s, "suppress") -> "suppressed"
    [] At(s, "error") -> IF sender[s].attempt >= MaxAttempts THEN "failed" ELSE "pending"

Finished(i, status) ==
  \/ i \in Notices /\ out' = [out EXCEPT ![i].status = status, ![i].due = FALSE] /\ UNCHANGED batch
  \/ /\ i \in Batches
     /\ batch' = [batch EXCEPT ![i].status = status, ![i].due = FALSE, ![i].revision = @ + 1, ![i].token = None]
     /\ UNCHANGED out

Finish(s) ==
  /\ At(s, "sent") \/ At(s, "suppress") \/ At(s, "error")
  /\ IF Holds(s) THEN Finished(sender[s].on, Outcome(s)) ELSE UNCHANGED <<out, batch>>
  /\ Leave(s)
  /\ UNCHANGED <<env, item, control, history>>

(* The invocation ends; before it has claimed a row this changes nothing.  *)
Crash(s) ==
  /\ \E h \in Held : At(s, h)
  /\ Leave(s)
  /\ UNCHANGED <<env, lanes, control, history>>

SendStep(s) == Look(s) \/ Drop(s) \/ Claim(s) \/ Resolve(s) \/ Publish(s) \/ Mail(s) \/ Finish(s)

Next ==
  \/ Migrate \/ ChangeAuthority
  \/ \E n \in Notices : Adopt(n) \/ \E grant \in BOOLEAN : Intent(n, grant)
  \/ \E i \in Notices \cup Batches : TimePasses(i) \/ Sweep(i)
  \/ \E k \in Keys : Apply(k) \/ \E b \in Batches : Request(k, b)
  \/ \E s \in Senders :
       \/ SendStep(s) \/ Crash(s)
       \/ \E b \in Batches : SelectBatch(s, b)
       \/ \E n \in Notices : SelectNotice(s, n)

Spec == Init /\ [][Next]_vars

(* The clock moves on and the schedule keeps starting invocations; each    *)
(* sweeps, adopts, and takes its candidates by age, sources in turn.       *)
Fairness ==
  /\ \A i \in Notices \cup Batches : WF_vars(TimePasses(i)) /\ WF_vars(Sweep(i))
  /\ \A n \in Notices : WF_vars(Adopt(n)) /\ SF_vars(\E s \in Senders : SelectNotice(s, n))
  /\ \A b \in Batches : SF_vars(\E s \in Senders : SelectBatch(s, b))
  /\ \A s \in Senders : WF_vars(SendStep(s))

FairSpec == Spec /\ Fairness

-----------------------------------------------------------------------------
Ended(i) == Job(i) # None /\ Job(i).status \in Ends

Phase(i) ==
  IF Job(i) = None THEN "absent"
  ELSE IF Ended(i) THEN "ended" ELSE IF Job(i).status = "pending" THEN "open" ELSE "held"

Attempts(i) == IF Job(i) = None THEN 0 ELSE Job(i).attempts

(* Notices and batches are jobs of an attempt ledger: at most three        *)
(* attempts each, at most one accepted mail for each attempt, and what was *)
(* sent, cancelled, suppressed or failed is never reopened, by a sender    *)
(* that lost its lease either.                                             *)
Ledger == INSTANCE AttemptLedger WITH
            Items <- Notices \cup Batches,
            phase <- [i \in Notices \cup Batches |-> Phase(i)],
            tries <- [i \in Notices \cup Batches |-> Attempts(i)]

IsLedger == Ledger!Spec

(* No notice is mailed by both lanes, though an invocation that began      *)
(* before the batch tables existed may still be at work on it.             *)
OneLane == \A n \in Notices : item[n] # None => mails[n] = 0

(* Every mail of a batch, retries by other invocations included, goes to   *)
(* one address and speaks of the same notices.                             *)
OneMessage == \A b \in Batches : Cardinality(carried[b]) <= 1

(* A batch that was claimed, filled or sent by hand takes no more notices. *)
SealedStays == [][\A b \in Batches : batch[b] # None /\ batch[b].sealed => Members(b)' = Members(b)]_vars

(* Receipts of staff requests agree with the batch: a batch cancelled on   *)
(* request stays so, and of the requests that saw one revision of a batch  *)
(* only one was applied.                                                   *)
ReceiptsTruthful ==
  \A k \in Keys : control[k] # None /\ control[k].done =>
    /\ control[k].action = "cancel" => batch[control[k].on].status = "cancelled"
    /\ \A j \in Keys \ {k} :
         control[j] # None /\ control[j].done /\ control[j].on = control[k].on =>
           control[j].expected # control[k].expected

(* Unless an invocation outlived its lease on it, a cancelled batch is not *)
(* mailed any more.                                                        *)
CancelStops ==
  [][\A b \in Batches \ late : Ended(b) /\ batch[b].status = "cancelled" => mails'[b] = mails[b]]_vars

(* The parts of the inductive invariant.  A staged notice was never        *)
(* attempted, and its own row is closed.                                   *)
Adopted ==
  \A n \in Notices : item[n] # None =>
    /\ batch[item[n]] # None /\ out[n] # None
    /\ out[n].attempts = 0 /\ out[n].status = "suppressed"

(* The attempts cover the mails, also those that senders may yet send.     *)
Unmailed(i) ==
  {s \in Senders : sender[s] # None /\ sender[s].on = i /\ sender[s].at \in {"resolve", "publish", "mail"}}
MailsCounted ==
  \A i \in Notices \cup Batches :
    IsFiniteSet(Unmailed(i)) /\ mails[i] + Cardinality(Unmailed(i)) <= Attempts(i)

(* A sender works on a job that exists.  If the revision it read of a      *)
(* batch is still the current one, so is all it read: publication, which   *)
(* does not count as a revision, is over when a batch can be selected.     *)
(* What is about to be mailed of a batch is frozen in its row.             *)
ClaimFits(s) ==
  LET i == sender[s].on IN
    IF i \in Notices THEN sender[s].attempt = sender[s].seen
    ELSE /\ sender[s].seen <= batch[i].revision
         /\ sender[s].seen = batch[i].revision =>
              batch[i].due /\ sender[s].attempt = batch[i].attempts /\ sender[s].print = batch[i].print
Fits(s) ==
  LET i == sender[s].on IN
    /\ Job(i) # None
    /\ sender[s].at \in {"look", "drop"} => i \in Notices
    /\ sender[s].at = "claim" => ClaimFits(s)
    /\ sender[s].at = "mail" /\ i \in Batches => sender[s].print # None /\ sender[s].print = batch[i].print
SendersFit == \A s \in Senders : sender[s] # None => Fits(s)

MailsFrozen == \A b \in Batches : \A m \in carried[b] : batch[b] # None /\ batch[b].print = m

(* A request that was applied has seen an earlier revision.                *)
RequestsFit ==
  \A k \in Keys : control[k] # None =>
    /\ batch[control[k].on] # None
    /\ control[k].done => control[k].expected < batch[control[k].on].revision

(* Unless a lease ran out under a sender, a batch at work has one sender,  *)
(* and its lease stands.                                                   *)
HeldBy(s, b) == sender[s] # None /\ sender[s].on = b /\ sender[s].at \in Held
LeaseExclusive ==
  \A b \in Batches \ late, s \in Senders : HeldBy(s, b) =>
    /\ batch[b].status = "processing" /\ ~batch[b].due
    /\ \A r \in Senders : HeldBy(r, b) => r = s

(* Rows, invocations, staff requests and mails fit together at every step, *)
(* in both lanes.                                                          *)
PortalSound ==
  /\ TypeOK /\ Adopted /\ MailsCounted /\ SendersFit /\ MailsFrozen /\ RequestsFit
  /\ LeaseExclusive /\ ReceiptsTruthful

(* Every notice is mailed, suppressed, cancelled or given up, by itself or *)
(* in its batch, however often invocations end midway.                     *)
EveryNoticeEnds ==
  \A n \in Notices : out[n] # None ~> Ended(n) /\ \A b \in Batches : item[n] = b => Ended(b)
=============================================================================
