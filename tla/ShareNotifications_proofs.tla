---------------------- MODULE ShareNotifications_proofs ----------------------
(***************************************************************************)
(* Proofs of the safety properties of ShareNotifications, for any sets of  *)
(* notices and invocations, any number of attempts and of versions.        *)
(***************************************************************************)
EXTENDS ShareNotifications, Counting

(* The empty outbox, or the one with the first notice, is accounted for.   *)
LEMMA InitAccounted == Init => Accounted
  <1> SUFFICES ASSUME Init PROVE Accounted
    OBVIOUS
  <1>1. TypeOK
    BY ShareAssumption, ShareNoneAssumption DEF Init, TypeOK, Fresh, Rows, Versions, Errors
  <1>2. \A n \in Notices : Unmailed(n) = {}
    BY DEF Init, Unmailed, At
  <1>3. MailsCounted
    BY <1>1, <1>2, FS_EmptySet DEF Init, MailsCounted, Attempts, Fresh
  <1>4. Linked
    BY ShareAssumption, ShareNoneAssumption DEF Init, Linked, Fresh, At
  <1>5. LeaseExclusive /\ AuditsTruthful /\ AuditTruthful /\ MailCurrent
    BY DEF Init, LeaseExclusive, AuditsTruthful, AuditTruthful, MailCurrent, WorksOn, At
  <1> QED BY <1>1, <1>3, <1>4, <1>5 DEF Accounted

(* Steps of the staff, the share and the clock: no sender moves.           *)
LEMMA TypeOutbox ==
  ASSUME Accounted,
         \/ \E S \in SUBSET Notices : Edit(S)
         \/ EndShare
         \/ \E n \in Notices : InsertNotice(n) \/ Enqueue(n) \/ TimePasses(n)
  PROVE  TypeOK'
  <1> USE ShareAssumption, ShareNoneAssumption DEF Accounted
  <1>1. ASSUME NEW S \in SUBSET Notices, Edit(S) PROVE TypeOK'
    <2>1. version' \in Versions
      BY <1>1 DEF TypeOK, Edit, Versions
    <2>2. row' \in [Notices -> Rows \cup {None}]
      <3>1. ASSUME NEW n \in Notices PROVE Suppressed(version')[n] \in Rows \cup {None}
        <4>1. CASE Stale(n, version')
          <5>1. row[n] \in Rows
            BY <4>1 DEF TypeOK, Stale, Bearer
          <5> QED BY <4>1, <5>1 DEF Suppressed, Rows, Errors
        <4>2. CASE ~Stale(n, version')
          BY <4>2 DEF Suppressed, TypeOK
        <4> QED BY <4>1, <4>2
      <3>2. Suppressed(version') = [n \in Notices |-> Suppressed(version')[n]]
        BY DEF Suppressed
      <3> QED BY <1>1, <3>1, <3>2 DEF Edit
    <2>3. owed' \in [Notices -> Versions \cup {None}]
      BY <1>1, <2>1 DEF TypeOK, Edit
    <2> QED BY <1>1, <2>1, <2>2, <2>3 DEF TypeOK, Edit, history
  <1>2. CASE EndShare
    <2>1. version' \in Versions
      BY <1>2 DEF TypeOK, Linked, EndShare, Versions
    <2>2. row' \in [Notices -> Rows \cup {None}]
      <3>1. Fresh(None) \in Rows
        BY DEF Fresh, Rows, Errors
      <3> QED BY <1>2, <3>1 DEF TypeOK, EndShare, Enqueued
    <2> QED BY <1>2, <2>1, <2>2 DEF TypeOK, EndShare, history
  <1>3. ASSUME NEW n \in Notices, InsertNotice(n) PROVE TypeOK'
    BY <1>3 DEF TypeOK, InsertNotice, Fresh, Rows, Versions, Errors, history, shareVars
  <1>4. ASSUME NEW n \in Notices, Enqueue(n) PROVE TypeOK'
    BY <1>4 DEF TypeOK, Enqueue, Enqueued, Fresh, Rows, Versions, Errors, history, shareVars
  <1>5. ASSUME NEW n \in Notices, TimePasses(n) PROVE TypeOK'
    <2>1. row[n] \in Rows
      BY <1>5 DEF TypeOK, TimePasses, Live
    <2>2. [row[n] EXCEPT !.due = TRUE] \in Rows
      BY <2>1 DEF Rows
    <2> QED BY <1>5, <2>2 DEF TypeOK, TimePasses, shareVars
  <1> QED BY <1>1, <1>2, <1>3, <1>4, <1>5

(* Attempts that are not taken back, senders that do not begin to mail and *)
(* unchanged mails keep the count.                                         *)
LEMMA CountKept ==
  ASSUME TypeOK, TypeOK', MailsCounted, UNCHANGED mails,
         \A n \in Notices : Unmailed(n)' \subseteq Unmailed(n) /\ Attempts(n) <= Attempts(n)'
  PROVE  MailsCounted'
  <1> SUFFICES ASSUME NEW n \in Notices
      PROVE  IsFiniteSet(Unmailed(n)') /\ mails[n] + Cardinality(Unmailed(n)') <= Attempts(n)'
    BY DEF MailsCounted
  <1>1. IsFiniteSet(Unmailed(n)) /\ mails[n] + Cardinality(Unmailed(n)) <= Attempts(n)
    BY DEF MailsCounted
  <1>2. mails[n] \in Nat /\ Attempts(n) \in Nat /\ Attempts(n)' \in Nat
    BY ShareAssumption DEF TypeOK, Attempts, Rows
  <1>3. mails[n] + Cardinality(Unmailed(n)') <= Attempts(n) /\ IsFiniteSet(Unmailed(n)')
    BY <1>1, <1>2, FewerCounted
  <1>4. Cardinality(Unmailed(n)') \in Nat
    BY <1>3, FS_CardinalityType
  <1> QED BY <1>2, <1>3, <1>4

(* What the staff, the share and the clock may do to a row: enter it,      *)
(* suppress a stale one, or let its time pass, which is noted if a sender  *)
(* was at work on it.                                                      *)
OutboxMoves(n) ==
  \/ row'[n] = row[n]
  \/ row[n] = None /\ \E v \in Versions \cup {None} : row'[n] = Fresh(v)
  \/ /\ Stale(n, version')
     /\ row'[n] = [row[n] EXCEPT !.status = "failed", !.due = FALSE, !.error = "rotated"]
  \/ /\ Live(n)
     /\ row'[n] = [row[n] EXCEPT !.due = TRUE]
     /\ row[n].status = "sending" /\ AtWork(n) => n \in late'

OutboxStep ==
  /\ UNCHANGED <<log, sender, mails>>
  /\ late \subseteq late'
  /\ \A n \in Notices : OutboxMoves(n) /\ (row'[n] # None => owed'[n] = None)
  /\ active' => active /\ version' <= MaxVersion
  /\ active' => version' = version \/ \A n \in Notices : ~Stale(n, version') \/ row'[n].status = "failed"

(* The steps without a sender have that shape.                             *)
LEMMA OutboxShape ==
  ASSUME Accounted,
         \/ \E S \in SUBSET Notices : Edit(S)
         \/ EndShare
         \/ \E n \in Notices : InsertNotice(n) \/ Enqueue(n) \/ TimePasses(n)
  PROVE  OutboxStep
  <1> USE ShareAssumption, ShareNoneAssumption DEF Accounted
  <1>1. ASSUME NEW S \in SUBSET Notices, Edit(S) PROVE OutboxStep
    <2>1. \A n \in Notices : OutboxMoves(n)
      BY <1>1 DEF Edit, Suppressed, OutboxMoves
    <2>2. \A n \in Notices : row'[n] # None => owed'[n] = None
      BY <1>1 DEF Edit, Suppressed, Stale, Bearer, Unsent, Linked
    <2>3. \A n \in Notices : ~Stale(n, version') \/ row'[n].status = "failed"
      <3> SUFFICES ASSUME NEW n \in Notices, Stale(n, version') PROVE row'[n].status = "failed"
        OBVIOUS
      <3>1. row[n] \in Rows
        BY DEF TypeOK, Stale, Bearer
      <3> QED BY <1>1, <3>1 DEF Edit, Suppressed, Rows
    <2> QED BY <1>1, <2>1, <2>2, <2>3 DEF OutboxStep, Edit, history
  <1>2. CASE EndShare
    <2>1. \A n \in Notices : row'[n] = row[n] \/ (row[n] = None /\ owed[n] = None /\ row'[n] = Fresh(None))
      BY <1>2 DEF EndShare, Enqueued, Unsent, TypeOK
    <2> QED BY <1>2, <2>1 DEF EndShare, OutboxStep, OutboxMoves, Linked, history
  <1>3. ASSUME NEW n \in Notices, InsertNotice(n) PROVE OutboxStep
    BY <1>3 DEF InsertNotice, OutboxStep, OutboxMoves, Linked, TypeOK, history, shareVars
  <1>4. ASSUME NEW n \in Notices, Enqueue(n) PROVE OutboxStep
    BY <1>4 DEF Enqueue, Enqueued, Unsent, OutboxStep, OutboxMoves, Linked, history, shareVars
  <1>5. ASSUME NEW n \in Notices, TimePasses(n) PROVE OutboxStep
    BY <1>5 DEF TimePasses, Live, OutboxStep, OutboxMoves, Linked, TypeOK, shareVars
  <1> QED BY <1>1, <1>2, <1>3, <1>4, <1>5

(* What that shape means for the fields of a row.                          *)
LEMMA OutboxFields ==
  ASSUME TypeOK, NEW n \in Notices, OutboxMoves(n), row[n] # None
  PROVE  /\ row'[n] # None
         /\ row'[n].attempts = row[n].attempts /\ row'[n].version = row[n].version
         /\ \/ row'[n] = row[n]
            \/ /\ Stale(n, version')
               /\ row'[n].status = "failed" /\ ~row'[n].due /\ row'[n].error = "rotated"
            \/ /\ Live(n) /\ row'[n].status = row[n].status /\ row'[n].error = row[n].error
               /\ row[n].status = "sending" /\ AtWork(n) => n \in late'
  <1>1. row[n] \in Rows
    BY DEF TypeOK
  <1>2. [row[n] EXCEPT !.due = TRUE] \in Rows
    BY <1>1 DEF Rows
  <1>3. [row[n] EXCEPT !.status = "failed", !.due = FALSE, !.error = "rotated"] \in Rows
    BY <1>1 DEF Rows, Errors
  <1>4. CASE row'[n] = row[n]
    BY <1>4
  <1>5. CASE row'[n] = [row[n] EXCEPT !.due = TRUE]
    BY <1>1, <1>2, <1>5, ShareNoneAssumption DEF OutboxMoves, Rows
  <1>6. CASE row'[n] = [row[n] EXCEPT !.status = "failed", !.due = FALSE, !.error = "rotated"]
    BY <1>1, <1>3, <1>6, ShareNoneAssumption DEF OutboxMoves, Rows
  <1> QED BY <1>4, <1>5, <1>6 DEF OutboxMoves

(* They keep the accounts.                                                 *)
LEMMA OutboxPreserves ==
  ASSUME Accounted, OutboxStep, TypeOK'
  PROVE  Accounted'
  <1> USE DEF Accounted, OutboxStep
  <1>1. \A s \in Senders, l \in Held \cup {"claim"} : At(s, l)' <=> At(s, l)
    BY DEF At
  <1>2. \A n \in Notices : Unmailed(n)' = Unmailed(n)
    BY DEF Unmailed, At
  <1>3. MailsCounted'
    <2>1. \A n \in Notices : Attempts(n) <= Attempts(n)'
      <3> SUFFICES ASSUME NEW n \in Notices PROVE Attempts(n) <= Attempts(n)'
        OBVIOUS
      <3>1. CASE row[n] = None
        BY <3>1, ShareAssumption DEF Attempts, TypeOK, Rows
      <3>2. CASE row[n] # None
        BY <3>2, OutboxFields, ShareAssumption DEF Attempts, TypeOK, Rows
      <3> QED BY <3>1, <3>2
    <2> QED BY <1>2, <2>1, CountKept
  <1>4. Linked'
    <2>1. ASSUME NEW n \in Notices PROVE row[n] # None => row'[n] # None
      BY <2>1, OutboxFields
    <2>2. ASSUME NEW n \in Notices, row'[n] # None, row'[n].error = "accepted" PROVE row'[n].status = "failed"
      <3>1. CASE row[n] = None
        <4>1. \E v \in Versions \cup {None} : row'[n] = Fresh(v)
          BY <2>2, <3>1 DEF OutboxMoves, Stale, Bearer, Live
        <4> QED BY <2>2, <4>1 DEF Fresh
      <3>2. CASE row[n] # None
        BY <2>2, <3>2, OutboxFields DEF Linked
      <3> QED BY <3>1, <3>2
    <2> QED BY <2>1, <2>2 DEF Linked, TypeOK, SenderStates, At
  <1>5. LeaseExclusive'
    <2> SUFFICES ASSUME NEW n \in Notices \ late', NEW s \in Senders, WorksOn(s, n)
        PROVE  /\ ~row'[n].due
               /\ \/ row'[n].status = "sending" /\ ~At(s, "accept")
                  \/ row'[n].status = "failed" /\ row'[n].error = "rotated"
               /\ \A t \in Senders : WorksOn(t, n) => t = s
      BY DEF LeaseExclusive, WorksOn, At
    <2>1. n \notin late /\ row[n] # None /\ AtWork(n)
      BY DEF WorksOn, Linked, AtWork, At
    <2>2. /\ ~row[n].due
          /\ \/ row[n].status = "sending" /\ ~At(s, "accept")
             \/ row[n].status = "failed" /\ row[n].error = "rotated"
          /\ \A t \in Senders : WorksOn(t, n) => t = s
      BY <2>1 DEF LeaseExclusive
    <2> QED BY <2>1, <2>2, OutboxFields DEF Live
  <1>6. AuditsTruthful' /\ AuditTruthful'
    <2>1. ASSUME NEW n \in Notices, row[n] # None, row[n].status \in {"sent", "failed"}
          PROVE  row'[n].status = row[n].status
      BY <2>1, OutboxFields DEF Stale, Live
    <2>2. AuditsTruthful'
      BY <1>1, <2>1 DEF AuditsTruthful, Linked, TypeOK, SenderStates, Held, At
    <2>3. AuditTruthful'
      BY <2>1 DEF AuditTruthful, Linked
    <2> QED BY <2>2, <2>3
  <1>7. MailCurrent'
    <2> SUFFICES ASSUME NEW s \in Senders, At(s, "mail") \/ At(s, "record"),
                        Bearer(sender[s].on)', Live(sender[s].on)', active'
        PROVE  row'[sender[s].on].version = version'
      BY DEF MailCurrent, At
    <2> DEFINE n == sender[s].on
    <2>1. n \in Notices /\ row[n] # None /\ active
      BY DEF TypeOK, SenderStates, Linked, At
    <2>2. Bearer(n) /\ Live(n) /\ row'[n].version = row[n].version
      BY <2>1, OutboxFields DEF Bearer, Live, Stale
    <2>3. row[n].version = version
      BY <2>1, <2>2 DEF MailCurrent
    <2>4. row[n].status # "sent" /\ row[n].error # "accepted" /\ row'[n].status # "failed"
      BY <2>1, <2>2 DEF Live, Linked
    <2> QED BY <2>1, <2>2, <2>3, <2>4 DEF Stale
  <1> QED BY <1>3, <1>4, <1>5, <1>6, <1>7

-----------------------------------------------------------------------------
(* The shapes of a sender's steps.                                         *)

Alone(s) == sender' = [sender EXCEPT ![s] = sender'[s]]
Only(n) == row' = [row EXCEPT ![n] = row'[n]]
Stays(s) == sender[s] # None /\ sender'[s] \in SenderStates /\ sender'[s].on = sender[s].on

(* It starts, goes on or ends without a write to the outbox.               *)
QuietStep(s) ==
  /\ Alone(s)
  /\ UNCHANGED <<shareVars, owed, row, late>>
  /\ \/ sender'[s] = None
     \/ /\ sender[s] = None /\ sender'[s] \in SenderStates
        /\ sender'[s].at = "claim" /\ row[sender'[s].on] # None
     \/ /\ Stays(s) /\ WorksOn(s, sender[s].on)
        /\ sender'[s].at \in {"mail", "record", "accept", "suppress", "error"}
        /\ sender'[s].at = "accept" => row[sender[s].on].status # "sending"
        /\ sender'[s].at = "mail" => At(s, "materialize") /\ Usable(sender[s].on)
        /\ sender'[s].at = "record" => At(s, "mail")
  /\ \/ UNCHANGED log
     \/ /\ At(s, "audit") /\ sender'[s] = None
        /\ log' = [log EXCEPT ![sender[s].on] = @ \cup {sender[s].entry}]
  /\ \/ UNCHANGED mails
     \/ /\ At(s, "mail") /\ Stays(s) /\ sender'[s].at # "mail"
        /\ mails' = [mails EXCEPT ![sender[s].on] = @ + 1]

(* It claims its row.                                                      *)
ClaimStep(s) ==
  LET n == sender[s].on IN
  /\ Alone(s)
  /\ UNCHANGED <<shareVars, owed, log, history>>
  /\ At(s, "claim") /\ Stays(s) /\ sender'[s].at = "materialize"
  /\ Claimable(n)
  /\ Only(n)
  /\ row'[n] \in Rows
  /\ row'[n].status = "sending" /\ row'[n].attempts = row[n].attempts + 1 /\ ~row'[n].due
  /\ row'[n].version = row[n].version /\ row'[n].error = row[n].error

(* It records how the attempt ended, where the row still obeys.            *)
EndStep(s) ==
  LET n == sender[s].on
      e == sender'[s].entry IN
  /\ Alone(s)
  /\ UNCHANGED <<shareVars, owed, log, history>>
  /\ WorksOn(s, n) /\ Stays(s) /\ sender'[s].at = "audit" /\ e # None
  /\ Only(n)
  /\ row'[n] \in Rows
  /\ row'[n].attempts = row[n].attempts /\ row'[n].version = row[n].version
  /\ row'[n] # row[n] => ~row'[n].due
  /\ \/ row'[n] = row[n] /\ row[n].status # "sending"
     \/ row[n].status = "sending" /\ row'[n].status \in {"sent", "failed", "queued"} /\ row'[n].error # "accepted"
     \/ row[n].status = "failed" /\ row'[n].status = "failed"
  /\ row'[n].status = "sent" => row[n].status = "sent" \/ At(s, "record")
  /\ e = "sent" => row'[n].status = "sent"
  /\ e = "accepted" => row'[n].status = "failed"
  /\ e \in {"failed", "suppressed"} => row'[n] = row[n] \/ row'[n].status = "failed"

(* A claim writes one row and keeps it well formed.                        *)
LEMMA ClaimShape ==
  ASSUME Accounted, NEW s \in Senders, Claim(s)
  PROVE  ClaimStep(s) \/ QuietStep(s)
  <1> DEFINE n == sender[s].on
  <1>1. sender[s] \in SenderStates /\ n \in Notices /\ row[n] \in Rows
    BY DEF Accounted, TypeOK, Claim, At, SenderStates, Linked
  <1>2. CASE Claimable(n)
    <2>1. sender' = [sender EXCEPT ![s].at = "materialize"]
      BY <1>2 DEF Claim, Goto
    <2>2. Alone(s) /\ Stays(s) /\ sender'[s].at = "materialize"
      BY <1>1, <2>1, ShareNoneAssumption DEF Accounted, TypeOK, Alone, Stays, SenderStates, Held
    <2>3. row[n].attempts + 1 \in 0..MaxAttempts
      BY <1>1, <1>2, ShareAssumption DEF Claimable, Rows
    <2>4. row' = [row EXCEPT ![n].status = "sending", ![n].attempts = @ + 1, ![n].due = FALSE]
      BY <1>2 DEF Claim
    <2>5. row'[n] = [row[n] EXCEPT !.status = "sending", !.attempts = row[n].attempts + 1, !.due = FALSE]
      BY <1>1, <2>4 DEF Accounted, TypeOK, Rows
    <2>6. Only(n)
      BY <1>1, <2>4 DEF Accounted, TypeOK, Only
    <2> QED BY <1>1, <1>2, <2>2, <2>3, <2>5, <2>6 DEF ClaimStep, Claim, Rows
  <1>3. CASE ~Claimable(n)
    <2>1. sender' = [sender EXCEPT ![s] = None] /\ UNCHANGED row
      BY <1>3 DEF Claim, Leave
    <2> QED BY <2>1 DEF QuietStep, Alone, Claim, history, Accounted, TypeOK
  <1> QED BY <1>2, <1>3

(* Statements that end an attempt write one row and keep it well formed.   *)
LEMMA WriteFields ==
  ASSUME TypeOK, NEW n \in Notices, row[n] \in Rows,
         NEW st \in {"queued", "sending", "sent", "failed"}, NEW er \in Errors, Write(n, st, er)
  PROVE  /\ Only(n)
         /\ row'[n] \in Rows
         /\ row'[n].status = st /\ row'[n].error = er /\ ~row'[n].due
         /\ row'[n].attempts = row[n].attempts /\ row'[n].version = row[n].version
  <1>1. row'[n] = [row[n] EXCEPT !.status = st, !.due = FALSE, !.error = er]
    BY DEF Write, TypeOK
  <1>2. Only(n)
    BY DEF Write, TypeOK, Only
  <1> QED BY <1>1, <1>2 DEF Rows

(* A sender that goes on or turns to its audit entry.                      *)
LEMMA GotoFields ==
  ASSUME TypeOK, NEW s \in Senders, sender[s] # None, NEW l \in Held, Goto(s, l)
  PROVE  Alone(s) /\ Stays(s) /\ sender'[s].at = l
  BY ShareNoneAssumption DEF TypeOK, Goto, Alone, Stays, SenderStates

(* The same for the turn to the audit entry.                               *)
LEMMA AuditFields ==
  ASSUME TypeOK, NEW s \in Senders, sender[s] # None, NEW e \in Entries, ToAudit(s, e)
  PROVE  Alone(s) /\ Stays(s) /\ sender'[s].at = "audit" /\ sender'[s].entry = e /\ e # None
  BY ShareNoneAssumption DEF TypeOK, ToAudit, Alone, Stays, SenderStates, Held

(* An invocation that returns or dies.                                     *)
LEMMA LeaveFields ==
  ASSUME TypeOK, NEW s \in Senders, Leave(s)
  PROVE  Alone(s) /\ sender'[s] = None
  BY DEF TypeOK, Leave, Alone
(* Every step of a sender has one of the three shapes.                     *)
LEMMA SenderShape ==
  ASSUME Accounted, NEW s \in Senders,
         SendStep(s) \/ Crash(s) \/ \E n \in Notices : Select(s, n)
  PROVE  QuietStep(s) \/ ClaimStep(s) \/ EndStep(s)
  <1> DEFINE n == sender[s].on
  <1> USE DEF Accounted
  <1>a. ASSUME sender[s] # None PROVE sender[s] \in SenderStates /\ n \in Notices /\ row[n] \in Rows
    BY <1>a DEF TypeOK, SenderStates, Linked
  <1>1. ASSUME NEW m \in Notices, Select(s, m) PROVE QuietStep(s)
    <2>1. row[m] \in Rows
      BY <1>1 DEF Select, Claimable, Live, TypeOK
    <2>2. row[m].attempts + 1 \in 1..MaxAttempts
      BY <1>1, <2>1, ShareAssumption DEF Select, Claimable, Rows
    <2>3. sender'[s] = [at |-> "claim", on |-> m, attempt |-> row[m].attempts + 1, entry |-> None] /\ Alone(s)
      BY <1>1 DEF Select, TypeOK, Alone
    <2> QED BY <1>1, <2>1, <2>2, <2>3, ShareNoneAssumption DEF QuietStep, Select, SenderStates, history
  <1>2. CASE Claim(s)
    BY <1>2, ClaimShape
  <1>3. CASE Materialize(s)
    <2>1. sender[s] # None /\ WorksOn(s, n)
      BY <1>3 DEF Materialize, At, WorksOn, Held
    <2>2. \/ Goto(s, "mail") /\ Usable(n)
          \/ Goto(s, "suppress")
          \/ Goto(s, "error")
      BY <1>3 DEF Materialize
    <2> QED BY <1>3, <2>1, <2>2, GotoFields DEF Materialize, QuietStep, Held, history
  <1>4. CASE Mail(s)
    <2>1. sender[s] # None /\ WorksOn(s, n)
      BY <1>4 DEF Mail, At, WorksOn, Held
    <2>2. Goto(s, "record") \/ Goto(s, "error")
      BY <1>4 DEF Mail
    <2> QED BY <1>4, <2>1, <2>2, GotoFields DEF Mail, QuietStep, Held
  <1>5. CASE Record(s)
    <2>1. sender[s] # None /\ WorksOn(s, n)
      BY <1>5 DEF Record, At, WorksOn, Held
    <2>2. CASE row[n].status = "sending" /\ Write(n, "sent", row[n].error) /\ ToAudit(s, "sent")
      <3>1. row[n].error \in Errors /\ row[n].error # "accepted"
        BY <1>a, <2>1, <2>2 DEF Rows, Linked
      <3>2. "sent" \in Entries
        BY DEF Entries
      <3>3. Alone(s) /\ Stays(s) /\ sender'[s].at = "audit" /\ sender'[s].entry = "sent" /\ "sent" # None
        BY <2>1, <2>2, <3>2, AuditFields
      <3> QED BY <1>a, <1>5, <2>1, <2>2, <3>1, <3>3, WriteFields DEF Record, EndStep
    <2>3. CASE row[n].status # "sending" /\ Goto(s, "accept") /\ UNCHANGED row
      BY <1>5, <2>1, <2>3, GotoFields DEF Record, QuietStep, Held, history
    <2> QED BY <1>5, <2>2, <2>3 DEF Record
  <1>6. CASE RecordAccepted(s)
    <2>1. sender[s] # None /\ WorksOn(s, n)
      BY <1>6 DEF RecordAccepted, At, WorksOn, Held
    <2>2. CASE row[n].status = "failed" /\ Write(n, "failed", "accepted") /\ ToAudit(s, "accepted")
      <3>1. "accepted" \in Errors /\ "accepted" \in Entries
        BY DEF Entries, Errors
      <3>2. Alone(s) /\ Stays(s) /\ sender'[s].at = "audit" /\ sender'[s].entry = "accepted" /\ "accepted" # None
        BY <2>1, <2>2, <3>1, AuditFields
      <3> QED BY <1>a, <1>6, <2>1, <2>2, <3>1, <3>2, WriteFields DEF RecordAccepted, EndStep
    <2>3. CASE Leave(s) /\ UNCHANGED row
      BY <1>6, <2>3, LeaveFields DEF RecordAccepted, QuietStep, history
    <2> QED BY <1>6, <2>2, <2>3 DEF RecordAccepted
  <1>b. ASSUME NEW st \in {"queued", "failed"}, NEW er \in Errors \ {"accepted"}, NEW e \in {"suppressed", "retry", "failed"},
               WriteIfSending(n, st, er), ToAudit(s, e), e = "retry" \/ st = "failed",
               WorksOn(s, n), UNCHANGED <<shareVars, owed, log, history>>
        PROVE  EndStep(s)
    <2>1. Alone(s) /\ Stays(s) /\ sender'[s].at = "audit" /\ sender'[s].entry = e /\ e # None
      BY <1>b, AuditFields DEF Entries, WorksOn
    <2>2. row[n] \in Rows /\ n \in Notices
      BY <1>a, <1>b DEF WorksOn
    <2>3. CASE row[n].status = "sending" /\ Write(n, st, er)
      <3>1. /\ Only(n)
            /\ row'[n] \in Rows
            /\ row'[n].status = st /\ row'[n].error = er /\ ~row'[n].due
            /\ row'[n].attempts = row[n].attempts /\ row'[n].version = row[n].version
        BY <2>2, <2>3, WriteFields
      <3> QED BY <1>b, <2>1, <2>2, <2>3, <3>1 DEF EndStep
    <2>4. CASE row[n].status # "sending" /\ UNCHANGED row
      BY <1>b, <2>1, <2>2, <2>4 DEF EndStep, Only, TypeOK
    <2> QED BY <1>b, <2>3, <2>4 DEF WriteIfSending
  <1>7. CASE Suppress(s)
    BY <1>b, <1>7 DEF Suppress, WorksOn, At, Held, Errors
  <1>8. CASE Retry(s)
    <2>1. WorksOn(s, n)
      BY <1>8 DEF Retry, WorksOn, At, Held
    <2>2. CASE sender[s].attempt >= MaxAttempts
      BY <1>b, <1>8, <2>1, <2>2 DEF Retry, Errors
    <2>3. CASE ~(sender[s].attempt >= MaxAttempts)
      BY <1>b, <1>8, <2>1, <2>3 DEF Retry, Errors
    <2> QED BY <2>2, <2>3
  <1>9. CASE Audit(s)
    BY <1>9, LeaveFields DEF Audit, QuietStep, history
  <1>10. CASE Crash(s)
    BY <1>10, LeaveFields DEF Crash, QuietStep, history
  <1> QED BY <1>1, <1>2, <1>3, <1>4, <1>5, <1>6, <1>7, <1>8, <1>9, <1>10 DEF SendStep
(* A sender that is about to mail still has an attempt to spend.           *)
LEMMA MailAllowed ==
  ASSUME Accounted, NEW s \in Senders, At(s, "mail"), NEW n \in Notices, n = sender[s].on
  PROVE  /\ IsFiniteSet(Unmailed(n) \ {s})
         /\ (mails[n] + 1) + Cardinality(Unmailed(n) \ {s}) <= Attempts(n)
         /\ mails[n] + 1 \in 0..MaxAttempts
  <1>1. s \in Unmailed(n)
    BY DEF Unmailed, At
  <1>2. IsFiniteSet(Unmailed(n)) /\ mails[n] + Cardinality(Unmailed(n)) <= Attempts(n)
    BY DEF Accounted, MailsCounted
  <1>3. mails[n] \in Nat /\ Attempts(n) \in 0..MaxAttempts /\ Attempts(n) \in Nat
    BY ShareAssumption DEF Accounted, TypeOK, Attempts, Rows
  <1>4. /\ IsFiniteSet(Unmailed(n) \ {s}) /\ mails[n] + 1 <= Attempts(n)
        /\ (mails[n] + 1) + Cardinality(Unmailed(n) \ {s}) <= Attempts(n)
    BY <1>1, <1>2, <1>3, OneLessCounted
  <1> QED BY <1>3, <1>4, ShareAssumption

(* Moves without a write to the outbox keep the accounts.                  *)
LEMMA QuietPreserves ==
  ASSUME Accounted, NEW s \in Senders, QuietStep(s)
  PROVE  Accounted'
  <1> USE DEF Accounted
  <1>a. row' = row /\ late' = late /\ version' = version /\ active' = active /\ owed' = owed
    BY DEF QuietStep, shareVars
  <1>b. \A t \in Senders : t # s => sender'[t] = sender[t]
    BY DEF QuietStep, Alone, TypeOK
  <1>1. TypeOK'
    <2>1. sender' \in [Senders -> SenderStates \cup {None}]
      BY DEF QuietStep, Alone, Stays, TypeOK
    <2>2. log' \in [Notices -> SUBSET Entries]
      BY DEF QuietStep, TypeOK, SenderStates, At, Linked
    <2>3. mails' \in [Notices -> 0..MaxAttempts]
      <3>1. CASE UNCHANGED mails
        BY <3>1 DEF TypeOK
      <3>2. CASE At(s, "mail") /\ mails' = [mails EXCEPT ![sender[s].on] = @ + 1]
        <4>1. sender[s].on \in Notices
          BY <3>2 DEF At, TypeOK, SenderStates
        <4>2. mails[sender[s].on] + 1 \in 0..MaxAttempts
          BY <3>2, <4>1, MailAllowed
        <4> QED BY <3>2, <4>1, <4>2 DEF TypeOK
      <3> QED BY <3>1, <3>2 DEF QuietStep
    <2> QED BY <1>a, <2>1, <2>2, <2>3 DEF TypeOK
  <1>2. Linked'
    BY <1>a, <1>b DEF QuietStep, Stays, Linked, TypeOK, At, SenderStates
  <1>3. MailsCounted'
    <2>1. \A m \in Notices : Attempts(m)' = Attempts(m)
      BY <1>a DEF Attempts
    <2>2. \A m \in Notices : Unmailed(m)' \subseteq Unmailed(m)
      BY <1>b DEF Unmailed, At, QuietStep, Stays
    <2>3. CASE UNCHANGED mails
      BY <1>1, <2>1, <2>2, <2>3, CountKept, ShareAssumption DEF Attempts, TypeOK, Rows
    <2>4. CASE ~UNCHANGED mails
      <3> PICK n \in Notices : n = sender[s].on
        BY <2>4 DEF QuietStep, At, TypeOK, SenderStates
      <3>1. /\ At(s, "mail") /\ Stays(s) /\ sender'[s].at # "mail"
            /\ mails' = [mails EXCEPT ![n] = @ + 1]
        BY <2>4 DEF QuietStep
      <3>2. Unmailed(n)' \subseteq Unmailed(n) \ {s}
        BY <1>b, <3>1 DEF Unmailed, At, Stays, QuietStep, TypeOK, SenderStates
      <3>3. IsFiniteSet(Unmailed(n) \ {s}) /\ (mails[n] + 1) + Cardinality(Unmailed(n) \ {s}) <= Attempts(n)
        BY <3>1, MailAllowed
      <3> SUFFICES ASSUME NEW m \in Notices
          PROVE  IsFiniteSet(Unmailed(m)') /\ mails'[m] + Cardinality(Unmailed(m)') <= Attempts(m)
        BY <2>1 DEF MailsCounted
      <3>4. mails[m] \in Nat /\ Attempts(m) \in Nat
        BY ShareAssumption DEF TypeOK, Attempts, Rows
      <3>5. CASE m = n
        <4>1. mails'[m] = mails[m] + 1 /\ mails[m] + 1 \in Nat
          BY <3>1, <3>4, <3>5 DEF TypeOK
        <4> QED BY <3>2, <3>3, <3>4, <3>5, <4>1, FewerCounted
      <3>6. CASE m # n
        <4>1. mails'[m] = mails[m] /\ IsFiniteSet(Unmailed(m)) /\ mails[m] + Cardinality(Unmailed(m)) <= Attempts(m)
          BY <3>1, <3>6 DEF TypeOK, MailsCounted
        <4> QED BY <2>2, <3>4, <4>1, FewerCounted
      <3> QED BY <3>5, <3>6
    <2> QED BY <2>3, <2>4
  <1>4. LeaseExclusive'
    <2>1. \A t \in Senders, m \in Notices : WorksOn(t, m)' => WorksOn(t, m)
      BY <1>b DEF WorksOn, QuietStep, Stays, Held
    <2>2. \A t \in Senders, m \in Notices : WorksOn(t, m)' /\ At(t, "accept")' => At(t, "accept") \/ row[m].status # "sending"
      BY <1>b DEF WorksOn, At, QuietStep, Stays
    <2> QED BY <1>a, <2>1, <2>2 DEF LeaseExclusive
  <1>5. AuditsTruthful' /\ AuditTruthful'
    <2>1. \A t \in Senders : At(t, "audit")' => sender'[t] = sender[t]
      BY <1>b DEF At, QuietStep, Stays
    <2>2. AuditsTruthful'
      BY <1>a, <2>1 DEF AuditsTruthful, At
    <2>3. AuditTruthful'
      <3>1. CASE UNCHANGED log
        BY <1>a, <3>1 DEF AuditTruthful
      <3>2. CASE ~UNCHANGED log
        <4>1. At(s, "audit") /\ log' = [log EXCEPT ![sender[s].on] = @ \cup {sender[s].entry}]
          BY <3>2 DEF QuietStep
        <4> QED BY <1>a, <4>1 DEF AuditsTruthful, AuditTruthful, TypeOK, SenderStates, At
      <3> QED BY <3>1, <3>2
    <2> QED BY <2>2, <2>3
  <1>6. MailCurrent'
    <2>1. \A t \in Senders : At(t, "mail")' \/ At(t, "record")' =>
            \/ sender'[t] = sender[t]
            \/ sender'[t].on = sender[t].on /\ At(t, "mail")
            \/ sender'[t].on = sender[t].on /\ Usable(sender[t].on)
      BY <1>b DEF At, QuietStep, Stays
    <2> QED BY <1>a, <2>1 DEF MailCurrent, At, Bearer, Live, Usable
  <1> QED BY <1>1, <1>2, <1>3, <1>4, <1>5, <1>6
(* What a write to one row means for the rows.                             *)
LEMMA OnlyFields ==
  ASSUME TypeOK, NEW n \in Notices, Only(n), row'[n] \in Rows
  PROVE  row' \in [Notices -> Rows \cup {None}] /\ \A m \in Notices \ {n} : row'[m] = row[m]
  BY DEF TypeOK, Only

(* A claim keeps the accounts: it finds no sender at work unless the lease *)
(* of one has run out.                                                     *)
LEMMA ClaimPreserves ==
  ASSUME Accounted, NEW s \in Senders, ClaimStep(s)
  PROVE  Accounted'
  <1> USE DEF Accounted
  <1> PICK n \in Notices : n = sender[s].on
    BY DEF ClaimStep, At, TypeOK, SenderStates
  <1>a. /\ late' = late /\ version' = version /\ active' = active /\ owed' = owed /\ log' = log /\ mails' = mails
        /\ row[n] # None /\ Live(n) /\ row[n].due
        /\ row'[n] \in Rows /\ row'[n].status = "sending" /\ row'[n].attempts = row[n].attempts + 1 /\ ~row'[n].due
        /\ row'[n].version = row[n].version /\ row'[n].error = row[n].error
        /\ At(s, "claim") /\ sender'[s] \in SenderStates /\ sender'[s].on = n /\ sender'[s].at = "materialize"
    BY DEF ClaimStep, Stays, Claimable, Live, shareVars, history
  <1>b. \A t \in Senders : t # s => sender'[t] = sender[t]
    BY DEF ClaimStep, Alone, TypeOK
  <1>c. row' \in [Notices -> Rows \cup {None}] /\ \A m \in Notices \ {n} : row'[m] = row[m]
    BY <1>a, OnlyFields DEF ClaimStep
  <1>d. row'[n] # None
    BY <1>a, ShareNoneAssumption
  <1>1. TypeOK'
    <2>1. sender' \in [Senders -> SenderStates \cup {None}]
      BY <1>a DEF ClaimStep, Alone, TypeOK
    <2> QED BY <1>a, <1>c, <2>1 DEF TypeOK
  <1>2. Linked'
    <2>1. \A t \in Senders : sender'[t] # None => sender'[t].on = sender[t].on /\ (At(t, "audit")' => sender'[t] = sender[t])
      BY <1>a, <1>b DEF At
    <2>2. \A t \in Senders : sender'[t] # None => sender[t] # None /\ sender[t].on \in Notices
      BY <1>a, <1>b DEF At, TypeOK, SenderStates
    <2>3. \A t \in Senders : sender'[t] # None => row'[sender'[t].on] # None
      BY <1>c, <1>d, <2>1, <2>2 DEF Linked
    <2>4. \A t \in Senders : At(t, "audit")' => sender'[t].entry # None
      BY <2>1 DEF Linked, At
    <2>5. \A m \in Notices : row'[m] # None /\ row'[m].error = "accepted" => row'[m].status = "failed"
      BY <1>a, <1>c DEF Linked, Live
    <2> QED BY <1>a, <1>c, <1>d, <2>3, <2>4, <2>5 DEF Linked
  <1>3. MailsCounted'
    <2> SUFFICES ASSUME NEW m \in Notices
        PROVE  IsFiniteSet(Unmailed(m)') /\ mails[m] + Cardinality(Unmailed(m)') <= Attempts(m)'
      BY <1>a DEF MailsCounted
    <2>1. IsFiniteSet(Unmailed(m)) /\ mails[m] + Cardinality(Unmailed(m)) <= Attempts(m)
      BY DEF MailsCounted
    <2>2. mails[m] \in Nat /\ Attempts(m) \in Nat
      BY ShareAssumption DEF TypeOK, Attempts, Rows
    <2>3. CASE m = n
      <3>1. Unmailed(m)' = Unmailed(m) \cup {s} /\ s \notin Unmailed(m)
        BY <1>a, <1>b, <2>3, ShareNoneAssumption DEF Unmailed, At
      <3>2. Attempts(m)' = Attempts(m) + 1
        BY <1>a, <1>d, <2>3 DEF Attempts
      <3> QED BY <2>1, <2>2, <3>1, <3>2, OneMoreCounted
    <2>4. CASE m # n
      <3>1. Unmailed(m)' \subseteq Unmailed(m)
        BY <1>a, <1>b, <2>4 DEF Unmailed, At
      <3>2. Attempts(m)' = Attempts(m)
        BY <1>c, <2>4 DEF Attempts
      <3> QED BY <2>1, <2>2, <3>1, <3>2, FewerCounted
    <2> QED BY <2>3, <2>4
  <1>4. LeaseExclusive'
    <2>1. \A t \in Senders : n \notin late => ~WorksOn(t, n)
      BY <1>a DEF LeaseExclusive
    <2>2. \A t \in Senders, m \in Notices : WorksOn(t, m)' => WorksOn(t, m) \/ (t = s /\ m = n)
      BY <1>a, <1>b DEF WorksOn
    <2>3. \A t \in Senders : At(t, "accept")' => At(t, "accept")
      BY <1>a, <1>b DEF At
    <2>4. ~At(s, "accept")'
      BY <1>a DEF At
    <2> SUFFICES ASSUME NEW m \in Notices \ late, NEW t \in Senders, WorksOn(t, m)'
        PROVE  /\ ~row'[m].due
               /\ \/ row'[m].status = "sending" /\ ~At(t, "accept")'
                  \/ row'[m].status = "failed" /\ row'[m].error = "rotated"
               /\ \A u \in Senders : WorksOn(u, m)' => u = t
      BY <1>a DEF LeaseExclusive
    <2>5. CASE m = n
      BY <1>a, <2>1, <2>2, <2>4, <2>5
    <2>6. CASE m # n
      BY <1>c, <2>2, <2>3, <2>6 DEF LeaseExclusive
    <2> QED BY <2>5, <2>6
  <1>5. AuditsTruthful' /\ AuditTruthful'
    <2>1. \A t \in Senders : At(t, "audit")' => sender'[t] = sender[t] /\ At(t, "audit")
      BY <1>a, <1>b DEF At
    <2>2. \A m \in Notices : row[m].status \in {"sent", "failed"} => row'[m].status = row[m].status
      BY <1>a, <1>c DEF Live
    <2>3. AuditsTruthful'
      BY <1>a, <2>1, <2>2 DEF AuditsTruthful, TypeOK, SenderStates, At
    <2>4. AuditTruthful'
      BY <1>a, <2>2 DEF AuditTruthful
    <2> QED BY <2>3, <2>4
  <1>6. MailCurrent'
    <2>1. \A t \in Senders : At(t, "mail")' \/ At(t, "record")' =>
            sender'[t] = sender[t] /\ (At(t, "mail") \/ At(t, "record")) /\ sender[t].on \in Notices
      BY <1>a, <1>b DEF At, TypeOK, SenderStates
    <2>2. \A m \in Notices : Bearer(m)' /\ Live(m)' => Bearer(m) /\ Live(m) /\ row'[m].version = row[m].version
      BY <1>a, <1>c DEF Bearer, Live
    <2> QED BY <1>a, <2>1, <2>2 DEF MailCurrent
  <1> QED BY <1>1, <1>2, <1>3, <1>4, <1>5, <1>6
(* The end of an attempt keeps the accounts: what the sender will log is   *)
(* what it finds, or made, of its row.                                     *)
LEMMA EndPreserves ==
  ASSUME Accounted, NEW s \in Senders, EndStep(s)
  PROVE  Accounted'
  <1> USE DEF Accounted
  <1> PICK n \in Notices : n = sender[s].on
    BY DEF EndStep, WorksOn, TypeOK, SenderStates
  <1> DEFINE e == sender'[s].entry
  <1>a. /\ late' = late /\ version' = version /\ active' = active /\ owed' = owed /\ log' = log /\ mails' = mails
        /\ row'[n] \in Rows /\ row'[n].attempts = row[n].attempts /\ row'[n].version = row[n].version
        /\ WorksOn(s, n) /\ sender'[s] \in SenderStates /\ sender'[s].on = n /\ sender'[s].at = "audit" /\ e # None
    BY DEF EndStep, Stays, shareVars, history
  <1>b. \A t \in Senders : t # s => sender'[t] = sender[t]
    BY DEF EndStep, Alone, TypeOK
  <1>c. row' \in [Notices -> Rows \cup {None}] /\ \A m \in Notices \ {n} : row'[m] = row[m]
    BY <1>a, OnlyFields DEF EndStep
  <1>d. row[n] # None /\ row'[n] # None
    BY <1>a, ShareNoneAssumption DEF Linked, WorksOn
  <1>e. \/ row'[n] = row[n] /\ row[n].status # "sending"
        \/ row[n].status = "sending" /\ row'[n].status \in {"sent", "failed", "queued"} /\ row'[n].error # "accepted"
        \/ row[n].status = "failed" /\ row'[n].status = "failed"
    BY DEF EndStep
  <1>1. TypeOK'
    <2>1. sender' \in [Senders -> SenderStates \cup {None}]
      BY <1>a DEF EndStep, Alone, TypeOK
    <2> QED BY <1>a, <1>c, <2>1 DEF TypeOK
  <1>2. Linked'
    <2>1. \A t \in Senders : sender'[t] # None => sender[t] # None /\ sender'[t].on = sender[t].on /\ sender[t].on \in Notices
      BY <1>a, <1>b DEF WorksOn, TypeOK, SenderStates
    <2>2. \A t \in Senders : sender'[t] # None => row'[sender'[t].on] # None
      BY <1>c, <1>d, <2>1 DEF Linked
    <2>3. \A t \in Senders : At(t, "audit")' => sender'[t].entry # None
      BY <1>a, <1>b DEF Linked, At
    <2>4. \A m \in Notices : row'[m] # None /\ row'[m].error = "accepted" => row'[m].status = "failed"
      BY <1>c, <1>d, <1>e DEF Linked
    <2> QED BY <1>a, <1>c, <1>d, <2>2, <2>3, <2>4 DEF Linked
  <1>3. MailsCounted'
    <2>1. \A m \in Notices : Unmailed(m)' \subseteq Unmailed(m)
      BY <1>a, <1>b DEF Unmailed, At
    <2>2. \A m \in Notices : Attempts(m)' = Attempts(m) /\ Attempts(m) \in Nat
      BY <1>a, <1>c, <1>d, ShareAssumption DEF Attempts, TypeOK, Rows
    <2> QED BY <1>1, <1>a, <2>1, <2>2, CountKept
  <1>4. LeaseExclusive'
    <2>1. \A t \in Senders, m \in Notices : WorksOn(t, m)' => WorksOn(t, m) /\ t # s
      BY <1>a, <1>b DEF WorksOn
    <2>2. \A t \in Senders : At(t, "accept")' => At(t, "accept")
      BY <1>a, <1>b DEF At
    <2>3. \A t \in Senders : n \notin late => ~WorksOn(t, n)'
      BY <1>a, <2>1 DEF LeaseExclusive
    <2> QED BY <1>a, <1>c, <2>1, <2>2, <2>3 DEF LeaseExclusive
  <1>5. AuditsTruthful' /\ AuditTruthful'
    <2>1. \A m \in Notices : row[m].status \in {"sent", "failed"} => row'[m].status = row[m].status
      BY <1>c, <1>e
    <2>2. n \notin late => /\ e = "sent" => row'[n].status = "sent"
                           /\ e \in {"failed", "suppressed", "accepted"} => row'[n].status = "failed"
      <3>1. n \notin late => row[n].status \in {"sending", "failed"}
        BY <1>a DEF LeaseExclusive
      <3> QED BY <1>e, <3>1 DEF EndStep
    <2>3. AuditsTruthful'
      <3> SUFFICES ASSUME NEW t \in Senders, At(t, "audit")', sender'[t].on \notin late
          PROVE  /\ sender'[t].entry = "sent" => row'[sender'[t].on].status = "sent"
                 /\ sender'[t].entry \in {"failed", "suppressed", "accepted"} => row'[sender'[t].on].status = "failed"
        BY <1>a DEF AuditsTruthful
      <3>1. CASE t = s
        BY <1>a, <2>2, <3>1
      <3>2. CASE t # s
        BY <1>b, <2>1, <3>2 DEF AuditsTruthful, TypeOK, SenderStates, At
      <3> QED BY <3>1, <3>2
    <2>4. AuditTruthful'
      BY <1>a, <2>1 DEF AuditTruthful
    <2> QED BY <2>3, <2>4
  <1>6. MailCurrent'
    <2>1. \A t \in Senders : At(t, "mail")' \/ At(t, "record")' =>
            sender'[t] = sender[t] /\ (At(t, "mail") \/ At(t, "record")) /\ sender[t].on \in Notices
      BY <1>a, <1>b DEF At, TypeOK, SenderStates
    <2>2. \A m \in Notices : Bearer(m)' /\ Live(m)' => Bearer(m) /\ Live(m) /\ row'[m].version = row[m].version
      BY <1>a, <1>c, <1>d, <1>e DEF Bearer, Live
    <2> QED BY <1>a, <2>1, <2>2 DEF MailCurrent
  <1> QED BY <1>1, <1>2, <1>3, <1>4, <1>5, <1>6

-----------------------------------------------------------------------------
(* Every step has one of the four shapes.                                  *)
LEMMA NextShape ==
  ASSUME Accounted, Next
  PROVE  (OutboxStep /\ TypeOK') \/ \E s \in Senders : QuietStep(s) \/ ClaimStep(s) \/ EndStep(s)
  <1>1. {} \in SUBSET Notices /\ \A n \in Notices : {n} \in SUBSET Notices
    OBVIOUS
  <1>2. \/ \E S \in SUBSET Notices : Edit(S)
        \/ EndShare
        \/ \E n \in Notices : InsertNotice(n) \/ Enqueue(n) \/ TimePasses(n)
        \/ \E s \in Senders : SendStep(s) \/ Crash(s) \/ \E n \in Notices : Select(s, n)
    BY <1>1 DEF Next
  <1> QED BY <1>2, TypeOutbox, OutboxShape, SenderShape

(* Every step keeps the accounts.                                          *)
LEMMA NextAccounted == Accounted /\ [Next]_vars => Accounted'
  <1> SUFFICES ASSUME Accounted, [Next]_vars PROVE Accounted'
    OBVIOUS
  <1>1. CASE Next
    BY <1>1, NextShape, OutboxPreserves, QuietPreserves, ClaimPreserves, EndPreserves
  <1>2. CASE UNCHANGED vars
    <2>1. UNCHANGED <<version, active, owed, row, log, sender, mails, late>>
      BY <1>2 DEF vars, shareVars, history
    <2> QED BY <2>1 DEF Accounted, TypeOK, Linked, MailsCounted, LeaseExclusive, AuditsTruthful, AuditTruthful,
                        MailCurrent, Unmailed, Attempts, WorksOn, At, Bearer, Live
  <1> QED BY <1>1, <1>2

(* The accounts of the outbox are always in order: attempts against mails, *)
(* leases against senders, the audit log against the rows.                 *)
THEOREM AccountedAlways == Spec => []Accounted
  BY InitAccounted, NextAccounted, PTL DEF Spec

(* Every reachable state is well typed; in particular no notice is claimed *)
(* or mailed more than MaxAttempts times.                                  *)
THEOREM TypeCorrect == Spec => []TypeOK
  <1>1. Accounted => TypeOK
    BY DEF Accounted
  <1> QED BY <1>1, AccountedAlways, PTL

(* Where no invocation outlived its lease the audit log says what became   *)
(* of the notice.                                                          *)
THEOREM AuditTruthfulHolds == Spec => []AuditTruthful
  <1>1. Accounted => AuditTruthful
    BY DEF Accounted
  <1> QED BY <1>1, AccountedAlways, PTL

(* An acknowledgement that misses its row found it suppressed, unless the  *)
(* invocation outlived its lease.                                          *)
THEOREM MissedMeansSuppressedHolds == Spec => []MissedMeansSuppressed
  <1>1. Accounted => MissedMeansSuppressed
    <2> SUFFICES ASSUME Accounted, NEW s \in Senders, At(s, "accept"), sender[s].on \notin late
        PROVE  row[sender[s].on].error \in {"rotated", "ineligible"}
      BY DEF MissedMeansSuppressed
    <2>1. sender[s].on \in Notices /\ WorksOn(s, sender[s].on)
      BY DEF Accounted, TypeOK, SenderStates, WorksOn, At, Held
    <2> QED BY <2>1 DEF Accounted, LeaseExclusive
  <1> QED BY <1>1, AccountedAlways, PTL

(* No stale bearer is marked sent while the share is open: only an         *)
(* acknowledgement marks a row sent, and MailCurrent speaks of its row.    *)
THEOREM SentWasCurrentHolds == Spec => SentWasCurrent
  <1> DEFINE Step == \A n \in Notices :
                       Bearer(n) /\ row[n].status # "sent" /\ row'[n].status = "sent" =>
                         ~active \/ row[n].version = version
  <1>1. Accounted /\ [Next]_vars => Step
    <2> SUFFICES ASSUME Accounted, [Next]_vars, NEW n \in Notices,
                        Bearer(n), row[n].status # "sent", row'[n].status = "sent"
        PROVE  ~active \/ row[n].version = version
      OBVIOUS
    <2>a. row[n] # None /\ row'[n] # row[n]
      BY DEF Bearer
    <2>1. CASE OutboxStep
      BY <2>1, <2>a, OutboxFields DEF OutboxStep, Accounted, Live, OutboxMoves
    <2>2. ASSUME NEW s \in Senders, QuietStep(s) \/ ClaimStep(s) PROVE FALSE
      <3>1. CASE QuietStep(s)
        BY <3>1, <2>a DEF QuietStep
      <3>2. CASE ClaimStep(s)
        <4>1. sender[s].on \in Notices
          BY <3>2 DEF ClaimStep, At, Accounted, TypeOK, SenderStates
        <4> QED BY <3>2, <4>1, <2>a, OnlyFields DEF ClaimStep, Accounted
      <3> QED BY <2>2, <3>1, <3>2
    <2>3. ASSUME NEW s \in Senders, EndStep(s) PROVE ~active \/ row[n].version = version
      <3>1. sender[s].on \in Notices
        BY <2>3 DEF EndStep, WorksOn, Accounted, TypeOK, SenderStates
      <3>2. n = sender[s].on
        BY <2>3, <2>a, <3>1, OnlyFields DEF EndStep, Accounted
      <3>3. At(s, "record") /\ row[n].status = "sending"
        BY <2>3, <2>a, <3>2 DEF EndStep
      <3> QED BY <3>2, <3>3, <2>a DEF Accounted, MailCurrent, Live
    <2>4. CASE UNCHANGED vars
      BY <2>4, <2>a DEF vars
    <2> QED BY <2>1, <2>2, <2>3, <2>4, NextShape
  <1>2. Accounted /\ [Next]_vars => [Step]_vars
    BY <1>1
  <1> QED BY <1>2, AccountedAlways, PTL DEF Spec, SentWasCurrent
-----------------------------------------------------------------------------
(* The refinement.  The phases and attempts of the ledger are functions of *)
(* the rows alone.                                                         *)

(* Steps of the staff, the share and the clock move notices in the ledger: *)
(* they enter them or end them.                                            *)
LEMMA OutboxIsMove ==
  ASSUME Accounted, TypeOK', OutboxStep
  PROVE  Ledger!Move
  <1>1. ASSUME NEW n \in Notices
        PROVE  /\ Attempts(n)' = Attempts(n)
               /\ Phase(n)' \in Ledger!Phases
               /\ Phase(n)' = Phase(n) \/ <<Phase(n), Phase(n)'>> \in Ledger!Moves
    <2>a. OutboxMoves(n) /\ TypeOK
      BY DEF OutboxStep, Accounted
    <2>1. CASE row[n] # None
      <3>1. CASE row'[n] = row[n]
        BY <3>1 DEF Attempts, Phase, Ended, Ledger!Phases
      <3>2. CASE row'[n] # None /\ row'[n].status = "failed" /\ row'[n].attempts = row[n].attempts
        BY <2>1, <3>2 DEF Attempts, Phase, Ended, Ledger!Phases, Ledger!Moves
      <3>3. CASE row'[n] # None /\ row'[n].status = row[n].status /\ row'[n].attempts = row[n].attempts
        BY <2>1, <3>3 DEF Attempts, Phase, Ended, Ledger!Phases
      <3> QED BY <2>a, <2>1, <3>1, <3>2, <3>3, OutboxFields
    <2>2. CASE row[n] = None /\ row'[n] = None
      BY <2>2 DEF Attempts, Phase, Ledger!Phases
    <2>3. CASE row[n] = None /\ row'[n] # None
      <3>1. row'[n].status = "queued" /\ row'[n].attempts = 0
        <4>1. \E v \in Versions \cup {None} : row'[n] = Fresh(v)
          BY <2>a, <2>3 DEF OutboxMoves, Stale, Bearer, Live
        <4> QED BY <4>1 DEF Fresh
      <3> QED BY <2>3, <3>1 DEF Attempts, Phase, Ended, Ledger!Phases, Ledger!Moves
    <2> QED BY <2>1, <2>2, <2>3
  <1> QED BY <1>1 DEF Ledger!Move, OutboxStep

(* A sender's writes at the end of an attempt give the notice back or end  *)
(* it.                                                                     *)
LEMMA EndIsMove ==
  ASSUME Accounted, NEW s \in Senders, EndStep(s)
  PROVE  Ledger!Move
  <1> PICK n \in Notices : n = sender[s].on
    BY DEF EndStep, WorksOn, Accounted, TypeOK, SenderStates
  <1>a. /\ row'[n] \in Rows /\ \A m \in Notices \ {n} : row'[m] = row[m]
        /\ row[n] # None /\ row'[n] # None /\ row'[n].attempts = row[n].attempts
        /\ \/ row'[n] = row[n]
           \/ row[n].status = "sending" /\ row'[n].status \in {"sent", "failed", "queued"}
           \/ row[n].status = "failed" /\ row'[n].status = "failed"
    BY OnlyFields, ShareNoneAssumption DEF EndStep, Accounted, Linked, WorksOn
  <1>1. ASSUME NEW m \in Notices
        PROVE  /\ Attempts(m)' = Attempts(m)
               /\ Phase(m)' \in Ledger!Phases
               /\ Phase(m)' = Phase(m) \/ <<Phase(m), Phase(m)'>> \in Ledger!Moves
    <2>1. CASE row'[m] = row[m]
      BY <2>1 DEF Attempts, Phase, Ended, Ledger!Phases
    <2>2. CASE m = n
      BY <1>a, <2>2 DEF Attempts, Phase, Ended, Ledger!Phases, Ledger!Moves
    <2> QED BY <1>a, <2>1, <2>2
  <1> QED BY <1>1 DEF Ledger!Move, EndStep, history

(* A claim takes the notice.                                               *)
LEMMA ClaimIsTake ==
  ASSUME Accounted, NEW s \in Senders, ClaimStep(s)
  PROVE  \E n \in Notices : Ledger!Take(n)
  <1> PICK n \in Notices : n = sender[s].on
    BY DEF ClaimStep, At, Accounted, TypeOK, SenderStates
  <1>a. /\ row'[n] \in Rows /\ \A m \in Notices \ {n} : row'[m] = row[m]
        /\ Claimable(n) /\ row[n] # None /\ row'[n] # None
        /\ row'[n].attempts = row[n].attempts + 1 /\ row'[n].status = "sending" /\ UNCHANGED mails
    BY OnlyFields, ShareNoneAssumption DEF ClaimStep, Accounted, Claimable, Live, history
  <1>1. Phase(n) \in {"open", "held"} /\ Phase(n)' = "held"
    BY <1>a DEF Phase, Ended, Claimable, Live
  <1>2. Attempts(n) < MaxAttempts /\ Attempts(n)' = Attempts(n) + 1
    BY <1>a DEF Attempts, Claimable
  <1>3. \A m \in Notices \ {n} : Phase(m)' = Phase(m) /\ Attempts(m)' = Attempts(m)
    BY <1>a DEF Phase, Ended, Attempts
  <1> QED BY <1>a, <1>1, <1>2, <1>3 DEF Ledger!Take

(* Any other step of a sender is an accepted mail, or invisible.           *)
LEMMA QuietIsAccept ==
  ASSUME Accounted, NEW s \in Senders, QuietStep(s)
  PROVE  (\E n \in Notices : Ledger!Accept(n)) \/ UNCHANGED Ledger!ledgerVars
  <1>a. /\ [n \in Notices |-> Phase(n)]' = [n \in Notices |-> Phase(n)]
        /\ [n \in Notices |-> Attempts(n)]' = [n \in Notices |-> Attempts(n)]
    BY DEF QuietStep, Phase, Ended, Attempts
  <1>1. CASE UNCHANGED mails
    BY <1>a, <1>1 DEF Ledger!ledgerVars
  <1>2. CASE At(s, "mail") /\ mails' = [mails EXCEPT ![sender[s].on] = @ + 1]
    <2> PICK n \in Notices : n = sender[s].on
      BY <1>2 DEF At, Accounted, TypeOK, SenderStates
    <2>1. mails[n] < Attempts(n)
      <3>1. IsFiniteSet(Unmailed(n) \ {s}) /\ (mails[n] + 1) + Cardinality(Unmailed(n) \ {s}) <= Attempts(n)
        BY <1>2, MailAllowed
      <3>2. Cardinality(Unmailed(n) \ {s}) \in Nat /\ mails[n] \in Nat /\ Attempts(n) \in Nat
        BY <3>1, FS_CardinalityType, ShareAssumption DEF Accounted, TypeOK, Attempts, Rows
      <3> QED BY <3>1, <3>2
    <2> QED BY <1>a, <1>2, <2>1 DEF Ledger!Accept
  <1> QED BY <1>1, <1>2 DEF QuietStep

(* The outbox, its senders and the edits of the share implement the        *)
(* attempt ledger, for any number of notices, senders and attempts.        *)
THEOREM Refinement == Spec => IsLedger
  <1>1. Init => Ledger!Init
    <2> SUFFICES ASSUME Init PROVE Ledger!Init
      OBVIOUS
    <2>1. \A n \in Notices : Phase(n) \in {"absent", "open"} /\ Attempts(n) = 0
      BY DEF Init, Fresh, Phase, Ended, Attempts
    <2> QED BY <2>1 DEF Init, Ledger!Init
  <1>2. Accounted /\ [Next]_vars => [Ledger!Next]_Ledger!ledgerVars
    <2> SUFFICES ASSUME Accounted, [Next]_vars PROVE Ledger!Next \/ UNCHANGED Ledger!ledgerVars
      OBVIOUS
    <2>1. CASE Next
      BY <2>1, NextShape, OutboxIsMove, EndIsMove, ClaimIsTake, QuietIsAccept DEF Ledger!Next
    <2>2. CASE UNCHANGED vars
      BY <2>2 DEF vars, history, Ledger!ledgerVars, Phase, Ended, Attempts
    <2> QED BY <2>1, <2>2
  <1> QED BY <1>1, <1>2, AccountedAlways, PTL DEF Spec, IsLedger, Ledger!Spec
=============================================================================
