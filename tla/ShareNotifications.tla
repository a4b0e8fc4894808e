------------------------- MODULE ShareNotifications -------------------------
(***************************************************************************)
(* Mail about one delivery share: the outbox delivery_notifications, the   *)
(* staff edits that rotate the share's bearer and suppress stale notices   *)
(* (delivery.ts), and processDeliveryNotifications (notifications.ts).     *)
(*                                                                         *)
(* One step is one D1 statement or batch, or one call of the provider.     *)
(* "due" stands for the clock: next_attempt_at of a queued row, or         *)
(* lease_until of a row being sent, has passed.                            *)
(***************************************************************************)
EXTENDS Naturals, FiniteSets

CONSTANTS Notices,     \* possible rows, one per dedupe key
          Senders,     \* concurrent scheduled invocations
          MaxAttempts,
          MaxVersion,  \* bound: versions of the share while it is open
          None

ASSUME ShareAssumption ==
  /\ MaxAttempts \in Nat \ {0}
  /\ MaxVersion \in Nat \ {0}

VARIABLES version,   \* share_version
          active,    \* the share is neither revoked nor expired
          owed,      \* owed[n]: version of an edit that has yet to insert n
          row,       \* the outbox
          log,       \* log[n]: audit entries about n
          sender,    \* the invocations
          mails,     \* history: how often the provider accepted n
          late       \* history: rows whose lease ran out under a sender

shareVars == <<version, active>>
history == <<mails, late>>
vars == <<shareVars, owed, row, log, sender, history>>

Errors == {"none", "rotated", "ineligible", "accepted", "transport"}
Versions == 1..MaxVersion + 1   \* revocation takes the last one
Rows == [status: {"queued", "sending", "sent", "failed"}, attempts: 0..MaxAttempts,
         due: BOOLEAN, version: Versions \cup {None}, error: Errors]
Entries == {"sent", "accepted", "suppressed", "retry", "failed"}
Held == {"materialize", "mail", "record", "accept", "suppress", "error", "audit"}
SenderStates == [at: Held \cup {"claim"}, on: Notices, attempt: 1..MaxAttempts, entry: Entries \cup {None}]

ASSUME ShareNoneAssumption == None \notin Versions \cup Rows \cup SenderStates \cup Entries

TypeOK ==
  /\ version \in Versions
  /\ active \in BOOLEAN
  /\ owed \in [Notices -> Versions \cup {None}]
  /\ row \in [Notices -> Rows \cup {None}]
  /\ log \in [Notices -> SUBSET Entries]
  /\ sender \in [Senders -> SenderStates \cup {None}]
  /\ mails \in [Notices -> 0..MaxAttempts]
  /\ late \subseteq Notices

-----------------------------------------------------------------------------
(* The outbox and the share.                                               *)

Fresh(v) == [status |-> "queued", attempts |-> 0, due |-> TRUE, version |-> v, error |-> "none"]

(* A share is created with its notice, if it has a recipient, in one batch. *)
Init ==
  /\ version = 1
  /\ active = TRUE
  /\ owed = [n \in Notices |-> None]
  /\ \E c \in Notices \cup {None} : row = [n \in Notices |-> IF n = c THEN Fresh(1) ELSE None]
  /\ log = [n \in Notices |-> {}]
  /\ sender = [s \in Senders |-> None]
  /\ mails = [n \in Notices |-> 0]
  /\ late = {}

(* Notices of kind share_created and share_updated carry the bearer of the *)
(* version they name; the other kinds name none.                           *)
Bearer(n) == row[n] # None /\ row[n].version # None

Unsent == {n \in Notices : row[n] = None /\ owed[n] = None}

Live(n) == row[n] # None /\ row[n].status \in {"queued", "sending"}

(* The rows that an edit to version v suppresses.                          *)
Stale(n, v) ==
  /\ Bearer(n)
  /\ row[n].status # "sent"
  /\ row[n].error # "accepted"
  /\ row[n].version # v

(* Mutants: a rotation leaves the older notices alone; or gives no reason. *)
NoneSuppressed(v) == row
SuppressedUnexplained(v) ==
  [n \in Notices |-> IF Stale(n, v) THEN [row[n] EXCEPT !.status = "failed", !.due = FALSE] ELSE row[n]]

Suppressed(v) ==
  [n \in Notices |->
     IF Stale(n, v) THEN [row[n] EXCEPT !.status = "failed", !.due = FALSE, !.error = "rotated"] ELSE row[n]]

(* An edit of the share: the version (which only an edit that keeps the    *)
(* bearer keeps) and the suppression in one batch, the notice in a second, *)
(* or none if the share is left without a recipient.                       *)
Edit(S) ==
  /\ active
  /\ S \subseteq Unsent
  /\ version' \in {version, version + 1} /\ version' <= MaxVersion
  /\ row' = Suppressed(version')
  /\ owed' = [n \in Notices |-> IF n \in S THEN version' ELSE owed[n]]
  /\ UNCHANGED <<active, log, sender, history>>

InsertNotice(n) ==
  /\ owed[n] # None
  /\ row' = [row EXCEPT ![n] = Fresh(owed[n])]
  /\ owed' = [owed EXCEPT ![n] = None]
  /\ UNCHANGED <<shareVars, log, sender, history>>

(* First access and expiry soon carry no bearer.                           *)
Enqueued(S) == [n \in Notices |-> IF n \in S THEN Fresh(None) ELSE row[n]]

Enqueue(n) ==
  /\ n \in Unsent
  /\ row' = Enqueued({n})
  /\ UNCHANGED <<shareVars, owed, log, sender, history>>

(* The share expires, or is revoked: a new version, no suppression, and    *)
(* the notices of the revocation in the same batch.                        *)
EndShare ==
  /\ active
  /\ active' = FALSE
  /\ \/ UNCHANGED <<version, row>>
     \/ version' = version + 1 /\ \E S \in SUBSET Unsent : row' = Enqueued(S)
  /\ UNCHANGED <<owed, log, sender, history>>

At(s, state) == sender[s] # None /\ sender[s].at = state

(* An invocation may outlive the lease it took.                            *)
AtWork(n) == \E s \in Senders, h \in Held : At(s, h) /\ sender[s].on = n

TimePasses(n) ==
  /\ Live(n) /\ ~row[n].due
  /\ row' = [row EXCEPT ![n].due = TRUE]
  /\ late' = IF row[n].status = "sending" /\ AtWork(n) THEN late \cup {n} ELSE late
  /\ UNCHANGED <<shareVars, owed, log, sender, mails>>

-----------------------------------------------------------------------------
(* processDeliveryNotifications, for one row.                              *)

(* Mutants: no limit; no recovery of an expired lease.                    *)
ClaimableUncapped(n) == Live(n) /\ row[n].due
ClaimableQueued(n) == Live(n) /\ row[n].status = "queued" /\ row[n].due /\ row[n].attempts < MaxAttempts

Claimable(n) == Live(n) /\ row[n].due /\ row[n].attempts < MaxAttempts

Goto(s, state) == sender' = [sender EXCEPT ![s].at = state]
Leave(s) == sender' = [sender EXCEPT ![s] = None]

Select(s, n) ==
  /\ sender[s] = None
  /\ Claimable(n)
  /\ sender' = [sender EXCEPT ![s] = [at |-> "claim", on |-> n, attempt |-> row[n].attempts + 1, entry |-> None]]
  /\ UNCHANGED <<shareVars, owed, row, log, history>>

(* The attempt the sender counts is the one it selected, which the claim   *)
(* does not compare.                                                       *)
Claim(s) ==
  /\ At(s, "claim")
  /\ LET n == sender[s].on IN
       \/ /\ Claimable(n)
          /\ row' = [row EXCEPT ![n].status = "sending", ![n].attempts = @ + 1, ![n].due = FALSE]
          /\ Goto(s, "materialize")
       \/ ~Claimable(n) /\ Leave(s) /\ UNCHANGED row
  /\ UNCHANGED <<shareVars, owed, log, history>>

(* The recipient's authority, then the bearer: a share that has moved on   *)
(* is an HTTPException, and so is a recipient who lost eligibility.        *)
Usable(n) == Bearer(n) => active /\ row[n].version = version

Materialize(s) ==
  /\ At(s, "materialize")
  /\ \/ Usable(sender[s].on) /\ Goto(s, "mail")
     \/ Goto(s, "suppress")
     \/ Usable(sender[s].on) /\ Goto(s, "error")
  /\ UNCHANGED <<shareVars, owed, row, log, history>>

(* An error may come from a provider that has accepted the message.        *)
Mail(s) ==
  /\ At(s, "mail")
  /\ \/ /\ Goto(s, "record") \/ Goto(s, "error")
        /\ mails' = [mails EXCEPT ![sender[s].on] = @ + 1]
     \/ Goto(s, "error") /\ UNCHANGED mails
  /\ UNCHANGED <<shareVars, owed, row, log, late>>

ToAudit(s, entry) == sender' = [sender EXCEPT ![s].at = "audit", ![s].entry = entry]

Write(n, status, error) == row' = [row EXCEPT ![n].status = status, ![n].due = FALSE, ![n].error = error]

(* Mutant: the acknowledgement does not look at the row.                  *)
RecordBlindly(s) ==
  /\ At(s, "record")
  /\ ToAudit(s, "sent")
  /\ IF row[sender[s].on].status = "sending" THEN Write(sender[s].on, "sent", "none") ELSE UNCHANGED row
  /\ UNCHANGED <<shareVars, owed, log, history>>

Record(s) ==
  /\ At(s, "record")
  /\ LET n == sender[s].on IN
       \/ row[n].status = "sending" /\ Write(n, "sent", row[n].error) /\ ToAudit(s, "sent")
       \/ row[n].status # "sending" /\ Goto(s, "accept") /\ UNCHANGED row
  /\ UNCHANGED <<shareVars, owed, log, history>>

(* The provider's outcome of a notice suppressed meanwhile.                *)
RecordAccepted(s) ==
  /\ At(s, "accept")
  /\ LET n == sender[s].on
         suppressed == row[n].status = "failed" /\ row[n].error \in {"rotated", "ineligible"} IN
       \/ suppressed /\ Write(n, "failed", "accepted") /\ ToAudit(s, "accepted")
       \/ ~suppressed /\ Leave(s) /\ UNCHANGED row
  /\ UNCHANGED <<shareVars, owed, log, history>>

(* Mutant: a late error is written to an ended row, too.                  *)
WriteAnyway(n, status, error) == Write(n, status, error)

(* The catch block: statements that only a row being sent obeys, whoever   *)
(* is sending it.                                                          *)
WriteIfSending(n, status, error) ==
  \/ row[n].status = "sending" /\ Write(n, status, error)
  \/ row[n].status # "sending" /\ UNCHANGED row

Suppress(s) ==
  /\ At(s, "suppress")
  /\ WriteIfSending(sender[s].on, "failed", "ineligible")
  /\ ToAudit(s, "suppressed")
  /\ UNCHANGED <<shareVars, owed, log, history>>

Retry(s) ==
  /\ At(s, "error")
  /\ LET terminal == sender[s].attempt >= MaxAttempts IN
       /\ WriteIfSending(sender[s].on, IF terminal THEN "failed" ELSE "queued", "transport")
       /\ ToAudit(s, IF terminal THEN "failed" ELSE "retry")
  /\ UNCHANGED <<shareVars, owed, log, history>>

Audit(s) ==
  /\ At(s, "audit")
  /\ log' = [log EXCEPT ![sender[s].on] = @ \cup {sender[s].entry}]
  /\ Leave(s)
  /\ UNCHANGED <<shareVars, owed, row, history>>

(* The invocation ends; before it has claimed a row this changes nothing.  *)
Crash(s) ==
  /\ \E h \in Held : At(s, h)
  /\ Leave(s)
  /\ UNCHANGED <<shareVars, owed, row, log, history>>

SendStep(s) ==
  \/ Claim(s) \/ Materialize(s) \/ Mail(s) \/ Record(s) \/ RecordAccepted(s)
  \/ Suppress(s) \/ Retry(s) \/ Audit(s)

Next ==
  \/ Edit({}) \/ (\E n \in Notices : Edit({n})) \/ EndShare
  \/ \E n \in Notices : InsertNotice(n) \/ Enqueue(n) \/ TimePasses(n)
  \/ \E s \in Senders : SendStep(s) \/ Crash(s) \/ \E n \in Notices : Select(s, n)

Spec == Init /\ [][Next]_vars

(* The clock moves on and the schedule keeps starting invocations, each of *)
(* which runs through the due rows in the order of their creation.         *)
Fairness ==
  /\ \A n \in Notices : WF_vars(TimePasses(n)) /\ SF_vars(\E s \in Senders : Select(s, n))
  /\ \A s \in Senders : WF_vars(SendStep(s))

FairSpec == Spec /\ Fairness

-----------------------------------------------------------------------------
Ended(n) == row[n] # None /\ row[n].status \in {"sent", "failed"}

Attempts(n) == IF row[n] = None THEN 0 ELSE row[n].attempts

Phase(n) ==
  IF row[n] = None THEN "absent"
  ELSE IF Ended(n) THEN "ended" ELSE IF row[n].status = "queued" THEN "open" ELSE "held"

(* The outbox is an attempt ledger: three attempts, at most one accepted   *)
(* mail for each, and a notice that was sent or failed is never reopened,  *)
(* by a rotation or by a sender that lost its lease either.                *)
Ledger == INSTANCE AttemptLedger WITH
            Items <- Notices,
            phase <- [n \in Notices |-> Phase(n)],
            tries <- [n \in Notices |-> Attempts(n)]

IsLedger == Ledger!Spec

(* While a share is open, a notice is marked sent only if the bearer it    *)
(* carries is still the share's: a rotation suppresses the rows it finds,  *)
(* and a row inserted too late for that is refused at materialisation.     *)
SentWasCurrent ==
  [][\A n \in Notices :
       Bearer(n) /\ row[n].status # "sent" /\ row'[n].status = "sent" =>
         ~active \/ row[n].version = version]_vars

(* Unless an invocation outlived its lease on a notice, the audit log      *)
(* agrees with the outbox about it: what it calls sent was sent, what it   *)
(* calls failed (and alerted the operators of) did fail.                   *)
AuditTruthful ==
  \A n \in Notices \ late :
    /\ "sent" \in log[n] => row[n].status = "sent"
    /\ log[n] \cap {"failed", "suppressed", "accepted"} # {} => row[n].status = "failed"

(* Unless an invocation outlived its lease on it, an acknowledgement finds *)
(* its row no longer being sent only because it was suppressed meanwhile,  *)
(* as the comment in the code has it: the outcome is then recorded there,  *)
(* and no accepted notice goes back to be mailed again.                    *)
MissedMeansSuppressed ==
  \A s \in Senders :
    At(s, "accept") /\ sender[s].on \notin late => row[sender[s].on].error \in {"rotated", "ineligible"}

(* The parts of the inductive invariant.  Nothing speaks of a notice that  *)
(* is not in the outbox, an accepted notice that was suppressed has        *)
(* failed, and the last version is the revoked one.                        *)
Linked ==
  /\ active => version <= MaxVersion
  /\ \A n \in Notices : row[n] # None => owed[n] = None
  /\ \A n \in Notices : row[n] = None => log[n] = {}
  /\ \A n \in Notices : row[n] # None /\ row[n].error = "accepted" => row[n].status = "failed"
  /\ \A s \in Senders : sender[s] # None => row[sender[s].on] # None
  /\ \A s \in Senders : At(s, "audit") => sender[s].entry # None

(* Every attempt was mailed once, is still to be mailed or was wasted.     *)
Unmailed(n) == {s \in Senders : (At(s, "materialize") \/ At(s, "mail")) /\ sender[s].on = n}
MailsCounted ==
  \A n \in Notices : IsFiniteSet(Unmailed(n)) /\ mails[n] + Cardinality(Unmailed(n)) <= Attempts(n)

(* A notice whose lease never ran out under a sender has one at most, and  *)
(* only a rotation takes it from that one.                                 *)
WorksOn(s, n) == sender[s] # None /\ sender[s].at \in Held \ {"audit"} /\ sender[s].on = n
LeaseExclusive ==
  \A n \in Notices \ late, s \in Senders : WorksOn(s, n) =>
    /\ ~row[n].due
    /\ \/ row[n].status = "sending" /\ ~At(s, "accept")
       \/ row[n].status = "failed" /\ row[n].error = "rotated"
    /\ \A t \in Senders : WorksOn(t, n) => t = s

(* What a sender is about to log is true, too.                             *)
AuditsTruthful ==
  \A s \in Senders : At(s, "audit") /\ sender[s].on \notin late =>
    /\ sender[s].entry = "sent" => row[sender[s].on].status = "sent"
    /\ sender[s].entry \in {"failed", "suppressed", "accepted"} => row[sender[s].on].status = "failed"

(* A mail under way carries the share's bearer, or its row was suppressed. *)
MailCurrent ==
  \A s \in Senders : (At(s, "mail") \/ At(s, "record")) /\ Bearer(sender[s].on) /\ Live(sender[s].on) =>
    ~active \/ row[sender[s].on].version = version

(* Attempts, leases and the audit log are accounted for, whatever senders  *)
(* that lost their lease still do.                                         *)
Accounted ==
  TypeOK /\ Linked /\ MailsCounted /\ LeaseExclusive /\ AuditsTruthful /\ AuditTruthful /\ MailCurrent

(* Every notice is sent or failed, or was abandoned in its last attempt.   *)
Abandoned(n) ==
  /\ row[n] # None /\ row[n].attempts = MaxAttempts /\ row[n].due
  /\ ~\E s \in Senders : sender[s] # None /\ sender[s].on = n

Settles == \A n \in Notices : row[n] # None ~> Ended(n) \/ Abandoned(n)
=============================================================================
