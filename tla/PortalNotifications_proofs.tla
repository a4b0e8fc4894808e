--------------------- MODULE PortalNotifications_proofs ---------------------
(***************************************************************************)
(* Proofs of the safety properties of PortalNotifications, for any sets of *)
(* notices, batches, keys, addresses and invocations, any number of        *)
(* attempts and any size of a batch.                                       *)
(*                                                                         *)
(* PortalSound is inductive.  Most of it follows from one fact about all   *)
(* steps, Forward: rows are never deleted, attempts and revisions never    *)
(* fall, a row that has ended and a print that is set never change, and a  *)
(* batch that is due changes only together with its revision.              *)
(***************************************************************************)
EXTENDS PortalNotifications, Counting

NoticeKept(n) ==
  out[n] # None =>
    /\ out'[n] # None /\ out[n].attempts <= out'[n].attempts
    /\ out[n].status \in Ends => out'[n] = out[n]

BatchKept(b) ==
  batch[b] # None =>
    /\ batch'[b] # None /\ batch[b].attempts <= batch'[b].attempts
    /\ batch[b].status \in Ends => batch'[b] = batch[b]
    /\ batch[b].print # None => batch'[b].print = batch[b].print
    /\ \/ batch[b].revision < batch'[b].revision
       \/ batch'[b].revision = batch[b].revision /\ (batch[b].due => batch'[b] = batch[b])

Forward == (\A n \in Notices : NoticeKept(n)) /\ (\A b \in Batches : BatchKept(b))

(* None is no row, request, sender, message or token.                      *)
LEMMA NoneApart ==
  /\ None \notin Notices /\ None \notin Batches /\ None \notin Rows /\ None \notin BatchRows
  /\ None \notin Requests /\ None \notin SenderStates /\ None \notin Messages /\ None \notin 1..MaxAttempts
  BY PortalNoneAssumption

(* The types of what exists.                                               *)
LEMMA Typed ==
  ASSUME TypeOK
  PROVE  /\ \A n \in Notices : out[n] # None => out[n] \in Rows
         /\ \A b \in Batches : batch[b] # None => batch[b] \in BatchRows
         /\ \A k \in Keys : control[k] # None => control[k] \in Requests
         /\ \A s \in Senders : sender[s] # None => sender[s] \in SenderStates
  BY DEF TypeOK

(* Attempts and revisions are counted.                                     *)
LEMMA Counted ==
  /\ \A r \in Rows : r.attempts \in Nat /\ r.attempts <= MaxAttempts
  /\ \A r \in BatchRows : r.attempts \in Nat /\ r.attempts <= MaxAttempts /\ r.revision \in Nat
  BY PortalAssumption DEF Rows, BatchRows

(* A job is a notice or a batch, never both.                               *)
LEMMA JobIs ==
  /\ \A n \in Notices : Job(n) = out[n] /\ n \notin Batches
  /\ \A b \in Batches : Job(b) = batch[b] /\ b \notin Notices
  BY PortalAssumption DEF Job

(* Before the first notice.                                                *)
LEMMA InitSound == Init => PortalSound
  <1> SUFFICES ASSUME Init PROVE PortalSound
    OBVIOUS
  <1>1. TypeOK
    BY PortalAssumption DEF Init, TypeOK
  <1>2. \A i \in Notices \cup Batches : Unmailed(i) = {} /\ Attempts(i) = 0
    BY DEF Init, Unmailed, Attempts, Job
  <1>3. MailsCounted
    BY <1>2, FS_EmptySet DEF Init, MailsCounted
  <1>4. Adopted /\ SendersFit /\ MailsFrozen /\ RequestsFit /\ LeaseExclusive /\ ReceiptsTruthful
    BY DEF Init, Adopted, SendersFit, MailsFrozen, RequestsFit, LeaseExclusive, HeldBy, ReceiptsTruthful
  <1> QED BY <1>1, <1>3, <1>4 DEF PortalSound

-----------------------------------------------------------------------------
(* What follows from Forward alone.                                        *)

(* Attempts only grow.                                                     *)
LEMMA AttemptsGrow ==
  ASSUME TypeOK, TypeOK', Forward, NEW i \in Notices \cup Batches
  PROVE  Attempts(i) \in Nat /\ Attempts(i)' \in Nat /\ Attempts(i) <= Attempts(i)'
  <1>1. CASE i \in Notices
    <2>1. (out[i] # None => out[i].attempts \in Nat) /\ (out'[i] # None => out'[i].attempts \in Nat)
      BY <1>1, PortalAssumption DEF TypeOK, Rows
    <2> QED BY <1>1, <2>1 DEF Attempts, Job, Forward, NoticeKept
  <1>2. CASE i \in Batches
    <2>1. (batch[i] # None => batch[i].attempts \in Nat) /\ (batch'[i] # None => batch'[i].attempts \in Nat)
      BY <1>2, PortalAssumption DEF TypeOK, BatchRows
    <2>2. i \notin Notices
      BY <1>2, PortalAssumption
    <2> QED BY <1>2, <2>1, <2>2 DEF Attempts, Job, Forward, BatchKept
  <1> QED BY <1>1, <1>2

(* The count holds if no sender begins to mail and none has mailed.        *)
LEMMA CountKept ==
  ASSUME TypeOK, TypeOK', Forward, MailsCounted, UNCHANGED mails,
         \A i \in Notices \cup Batches : Unmailed(i)' \subseteq Unmailed(i)
  PROVE  MailsCounted'
  <1> SUFFICES ASSUME NEW i \in Notices \cup Batches
      PROVE  IsFiniteSet(Unmailed(i)') /\ mails[i] + Cardinality(Unmailed(i)') <= Attempts(i)'
    BY DEF MailsCounted
  <1>1. IsFiniteSet(Unmailed(i)) /\ mails[i] + Cardinality(Unmailed(i)) <= Attempts(i)
    BY DEF MailsCounted
  <1>2. mails[i] \in Nat /\ Attempts(i) \in Nat /\ Attempts(i)' \in Nat /\ Attempts(i) <= Attempts(i)'
    BY PortalAssumption, AttemptsGrow DEF TypeOK
  <1>3. mails[i] + Cardinality(Unmailed(i)') <= Attempts(i) /\ IsFiniteSet(Unmailed(i)')
    BY <1>1, <1>2, FewerCounted
  <1>4. Cardinality(Unmailed(i)') \in Nat
    BY <1>3, FS_CardinalityType
  <1> QED BY <1>2, <1>3, <1>4

(* A sender that does not move still fits its job.                         *)
LEMMA UnmovedFits ==
  ASSUME TypeOK, TypeOK', Forward, SendersFit, NEW s \in Senders, sender'[s] = sender[s], sender[s] # None
  PROVE  Fits(s)'
  <1>0. sender[s] \in SenderStates /\ sender[s].on \in Notices \cup Batches /\ sender[s].seen \in Nat
    BY Typed DEF SenderStates
  <1>1. Fits(s)
    BY DEF SendersFit
  <1>2. CASE sender[s].on \in Notices
    BY <1>0, <1>1, <1>2, PortalAssumption DEF Fits, ClaimFits, Job, Forward, NoticeKept
  <1>3. CASE sender[s].on \in Batches
    <2> DEFINE b == sender[s].on
    <2>1. b \notin Notices /\ batch[b] # None /\ batch'[b] # None /\ BatchKept(b)
      BY <1>1, <1>3, PortalAssumption DEF Fits, Job, Forward, BatchKept
    <2>2. batch[b].revision \in Nat /\ batch'[b].revision \in Nat
      BY <1>3, <2>1 DEF TypeOK, BatchRows
    <2>3. ClaimFits(s) => ClaimFits(s)'
      BY <1>0, <2>1, <2>2 DEF ClaimFits, BatchKept
    <2> QED BY <1>1, <1>3, <2>1, <2>3 DEF Fits, Job, BatchKept
  <1> QED BY <1>0, <1>2, <1>3

(* What was mailed stays what the batch says.                              *)
LEMMA FrozenKept ==
  ASSUME TypeOK, Forward, MailsFrozen, UNCHANGED carried
  PROVE  MailsFrozen'
  <1>1. \A b \in Batches : \A m \in carried[b] : m # None
    BY NoneApart DEF TypeOK
  <1> QED BY <1>1 DEF MailsFrozen, Forward, BatchKept

(* Receipts stay true.                                                     *)
LEMMA ReceiptsKept ==
  ASSUME TypeOK, TypeOK', Forward, RequestsFit, ReceiptsTruthful, UNCHANGED control
  PROVE  RequestsFit' /\ ReceiptsTruthful'
  <1>1. ASSUME NEW k \in Keys, control[k] # None
        PROVE  /\ control[k].on \in Batches /\ control[k].expected \in Nat
               /\ batch[control[k].on] # None /\ BatchKept(control[k].on)
               /\ batch[control[k].on].revision \in Nat /\ batch'[control[k].on].revision \in Nat
    <2>1. control[k] \in Requests /\ batch[control[k].on] # None
      BY <1>1, Typed DEF RequestsFit
    <2>2. control[k].on \in Batches /\ control[k].expected \in Nat
      BY <2>1 DEF Requests
    <2>3. BatchKept(control[k].on) /\ batch'[control[k].on] # None
      BY <2>1, <2>2 DEF Forward, BatchKept
    <2> QED BY <2>1, <2>2, <2>3 DEF TypeOK, BatchRows
  <1>2. RequestsFit'
    BY <1>1 DEF RequestsFit, BatchKept
  <1>3. ReceiptsTruthful'
    BY <1>1 DEF ReceiptsTruthful, BatchKept, Ends
  <1> QED BY <1>2, <1>3

(* Notices that were staged stay so when none is staged.                   *)
LEMMA AdoptedKept ==
  ASSUME TypeOK, Forward, Adopted, UNCHANGED item
  PROVE  Adopted'
  BY DEF TypeOK, Adopted, Forward, NoticeKept, BatchKept, Ends

(* Leases stand when no sender begins to hold one and no batch that is     *)
(* held loses its lease.                                                   *)
LEMMA LeaseKept ==
  ASSUME LeaseExclusive, late \subseteq late',
         \A b \in Batches, s \in Senders : HeldBy(s, b)' => HeldBy(s, b),
         \A b \in Batches \ late', s \in Senders : HeldBy(s, b)' =>
           (batch[b].status = "processing" /\ ~batch[b].due => batch'[b].status = "processing" /\ ~batch'[b].due)
  PROVE  LeaseExclusive'
  BY DEF LeaseExclusive, HeldBy

-----------------------------------------------------------------------------
(* Steps that no sender takes.                                             *)

(* Such a step keeps the invariant if it moves the rows forward, and takes *)
(* no lease from a sender without noting it.                               *)
LEMMA RowStepSound ==
  ASSUME PortalSound, TypeOK', Forward, Adopted', RequestsFit', ReceiptsTruthful',
         UNCHANGED <<sender, mails, carried>>, late \subseteq late',
         \A b \in Batches \ late', s \in Senders : HeldBy(s, b) =>
           (batch[b].status = "processing" /\ ~batch[b].due => batch'[b].status = "processing" /\ ~batch'[b].due)
  PROVE  PortalSound'
  <1> USE DEF PortalSound
  <1>1. MailsCounted'
    <2>1. \A i \in Notices \cup Batches : Unmailed(i)' = Unmailed(i)
      BY DEF Unmailed
    <2> QED BY <2>1, CountKept
  <1>2. SendersFit'
    BY UnmovedFits DEF SendersFit
  <1>3. MailsFrozen'
    BY FrozenKept
  <1>4. LeaseExclusive'
    <2>1. \A b \in Batches, s \in Senders : HeldBy(s, b)' <=> HeldBy(s, b)
      BY DEF HeldBy
    <2> QED BY <2>1, LeaseKept
  <1> QED BY <1>1, <1>2, <1>3, <1>4

(* Nothing moves.                                                          *)
LEMMA RowsUnmoved ==
  ASSUME TypeOK, UNCHANGED <<out, batch>>
  PROVE  Forward
  <1>1. ASSUME NEW n \in Notices, out[n] # None PROVE out[n].attempts \in Nat
    BY <1>1, Typed, PortalAssumption DEF Rows
  <1>2. ASSUME NEW b \in Batches, batch[b] # None PROVE batch[b].attempts \in Nat /\ batch[b].revision \in Nat
    BY <1>2, Typed, PortalAssumption DEF BatchRows
  <1> QED BY <1>1, <1>2 DEF Forward, NoticeKept, BatchKept

(* One notice, which has not ended, moves forward.                         *)
LEMMA OneNotice ==
  ASSUME TypeOK, NEW n \in Notices, NEW new \in Rows, out' = [out EXCEPT ![n] = new], batch' = batch,
         out[n] # None => out[n].status \notin Ends /\ out[n].attempts <= new.attempts
  PROVE  /\ Forward /\ out' \in [Notices -> Rows \cup {None}]
         /\ out'[n] = new /\ \A m \in Notices : m # n => out'[m] = out[m]
  <1>1. /\ out' \in [Notices -> Rows \cup {None}] /\ out'[n] = new
        /\ \A m \in Notices : m # n => out'[m] = out[m]
    BY DEF TypeOK
  <1>2. new # None
    BY NoneApart
  <1>3. ASSUME NEW m \in Notices, out[m] # None PROVE out[m].attempts \in Nat
    BY <1>3, Typed, PortalAssumption DEF Rows
  <1>4. ASSUME NEW b \in Batches, batch[b] # None PROVE batch[b].attempts \in Nat /\ batch[b].revision \in Nat
    BY <1>4, Typed, PortalAssumption DEF BatchRows
  <1>5. \A m \in Notices : NoticeKept(m)
    BY <1>1, <1>2, <1>3 DEF NoticeKept
  <1>6. \A b \in Batches : BatchKept(b)
    BY <1>4 DEF BatchKept
  <1> QED BY <1>1, <1>5, <1>6 DEF Forward

(* One batch, which has not ended, moves forward.                          *)
LEMMA OneBatch ==
  ASSUME TypeOK, NEW b \in Batches, batch[b] \in BatchRows, NEW new \in BatchRows,
         batch' = [batch EXCEPT ![b] = new], out' = out,
         batch[b].status \notin Ends, batch[b].attempts <= new.attempts,
         batch[b].print # None => new.print = batch[b].print,
         batch[b].revision < new.revision \/ (new.revision = batch[b].revision /\ ~batch[b].due)
  PROVE  /\ Forward /\ batch' \in [Batches -> BatchRows \cup {None}]
         /\ batch'[b] = new /\ \A c \in Batches : c # b => batch'[c] = batch[c]
  <1>1. /\ batch' \in [Batches -> BatchRows \cup {None}] /\ batch'[b] = new
        /\ \A c \in Batches : c # b => batch'[c] = batch[c]
    BY DEF TypeOK
  <1>2. new # None
    BY NoneApart
  <1>3. ASSUME NEW m \in Notices, out[m] # None PROVE out[m].attempts \in Nat
    BY <1>3, Typed, PortalAssumption DEF Rows
  <1>4. ASSUME NEW c \in Batches, batch[c] # None PROVE batch[c].attempts \in Nat /\ batch[c].revision \in Nat
    BY <1>4, Typed, PortalAssumption DEF BatchRows
  <1>5. \A m \in Notices : NoticeKept(m)
    BY <1>3 DEF NoticeKept
  <1>6. \A c \in Batches : BatchKept(c)
    BY <1>1, <1>2, <1>4 DEF BatchKept
  <1> QED BY <1>1, <1>5, <1>6 DEF Forward

(* The world changes, not the rows.                                        *)
LEMMA WorldSound ==
  ASSUME PortalSound, Migrate \/ ChangeAuthority
  PROVE  PortalSound'
  <1> USE DEF PortalSound, lanes, history
  <1>1. UNCHANGED <<out, item, batch, control, sender, mails, carried, late>>
    BY DEF Migrate, ChangeAuthority
  <1>2. TypeOK'
    BY <1>1 DEF Migrate, ChangeAuthority, TypeOK
  <1>3. Forward
    BY <1>1, RowsUnmoved
  <1>4. Adopted' /\ RequestsFit' /\ ReceiptsTruthful'
    BY <1>1, <1>2, <1>3, AdoptedKept, ReceiptsKept
  <1> QED BY <1>1, <1>2, <1>3, <1>4, RowStepSound

(* The clock: a lease that runs out under a sender is noted.               *)
LEMMA TimePassesSound ==
  ASSUME PortalSound, NEW i \in Notices \cup Batches, TimePasses(i)
  PROVE  PortalSound'
  <1>0. TypeOK /\ UNCHANGED <<staging, contact, live, item, control, sender, mails, carried>> /\ late \subseteq late'
    BY DEF TimePasses, env, PortalSound
  <1>1. CASE i \in Notices
    <2> DEFINE new == [out[i] EXCEPT !.due = TRUE]
    <2>0. i \notin Batches /\ out[i] \in Rows /\ out[i].status \notin Ends
      BY <1>1, <1>0, JobIs, Typed DEF TimePasses, Open, Ends
    <2>1. new \in Rows /\ new.attempts = out[i].attempts /\ out[i].attempts \in Nat
      <3>1. new \in Rows /\ new.attempts = out[i].attempts
        BY <2>0 DEF Rows
      <3> QED BY <3>1, <2>0, Counted
    <2>2. out' = [out EXCEPT ![i] = new] /\ batch' = batch /\ late' = late
      BY <2>0 DEF TimePasses
    <2> HIDE DEF new
    <2>3. out[i].attempts <= new.attempts
      BY <2>1
    <2>4. Forward /\ out' \in [Notices -> Rows \cup {None}]
      BY <1>0, <1>1, <2>0, <2>1, <2>2, <2>3, OneNotice
    <2>5. TypeOK'
      BY <1>0, <2>2, <2>4 DEF TypeOK
    <2>6. Adopted' /\ RequestsFit' /\ ReceiptsTruthful'
      BY <1>0, <2>4, <2>5, AdoptedKept, ReceiptsKept DEF PortalSound
    <2> QED BY <1>0, <2>2, <2>4, <2>5, <2>6, RowStepSound
  <1>2. CASE i \in Batches
    <2> DEFINE new == [batch[i] EXCEPT !.due = TRUE]
    <2>0. i \notin Notices /\ batch[i] \in BatchRows /\ batch[i].status \notin Ends /\ ~batch[i].due
      BY <1>2, <1>0, JobIs, Typed DEF TimePasses, Open, Ends
    <2>1. /\ new \in BatchRows /\ new.attempts = batch[i].attempts /\ batch[i].attempts \in Nat
          /\ new.print = batch[i].print /\ new.revision = batch[i].revision
      <3>1. new \in BatchRows
        BY <2>0 DEF BatchRows
      <3>2. new.attempts = batch[i].attempts /\ new.print = batch[i].print /\ new.revision = batch[i].revision
        BY <2>0 DEF BatchRows
      <3> QED BY <3>1, <3>2, <2>0, Counted
    <2>2. batch' = [batch EXCEPT ![i] = new] /\ out' = out
      BY <2>0 DEF TimePasses
    <2>3. late' = IF batch[i].status = "processing" /\ AtWork(i) THEN late \cup {i} ELSE late
      BY <1>2, <2>0 DEF TimePasses, Job
    <2> HIDE DEF new
    <2>4. batch[i].attempts <= new.attempts
      BY <2>1
    <2>5. Forward /\ batch' \in [Batches -> BatchRows \cup {None}] /\ \A b \in Batches : b # i => batch'[b] = batch[b]
      BY <1>0, <1>2, <2>0, <2>1, <2>2, <2>4, OneBatch
    <2>6. TypeOK'
      BY <1>0, <1>2, <2>2, <2>3, <2>5 DEF TypeOK
    <2>7. Adopted' /\ RequestsFit' /\ ReceiptsTruthful'
      BY <1>0, <2>5, <2>6, AdoptedKept, ReceiptsKept DEF PortalSound
    <2>8. \A b \in Batches \ late', s \in Senders : HeldBy(s, b) =>
            (batch[b].status = "processing" /\ ~batch[b].due => batch'[b].status = "processing" /\ ~batch'[b].due)
      BY <2>3, <2>5 DEF HeldBy, AtWork, At
    <2> QED BY <1>0, <2>5, <2>6, <2>7, <2>8, RowStepSound
  <1> QED BY <1>1, <1>2

(* The sweep gives a job up once its last lease is over.                   *)
LEMMA SweepSound ==
  ASSUME PortalSound, NEW i \in Notices \cup Batches, Sweep(i)
  PROVE  PortalSound'
  <1>0. TypeOK /\ UNCHANGED <<staging, contact, live, item, control, sender, mails, carried, late>>
    BY DEF Sweep, env, history, PortalSound
  <1>1. CASE i \in Notices
    <2> DEFINE new == [out[i] EXCEPT !.status = "failed"]
    <2>0. i \notin Batches /\ out[i] \in Rows /\ out[i].status \notin Ends
      BY <1>1, <1>0, JobIs, Typed DEF Sweep, Exhausted, Open, Ends
    <2>1. new \in Rows /\ new.attempts = out[i].attempts /\ out[i].attempts \in Nat
      <3>1. new \in Rows /\ new.attempts = out[i].attempts
        BY <2>0 DEF Rows, Status, Ends
      <3> QED BY <3>1, <2>0, Counted
    <2>2. out' = [out EXCEPT ![i] = new] /\ batch' = batch
      BY <2>0 DEF Sweep
    <2> HIDE DEF new
    <2>3. out[i].attempts <= new.attempts
      BY <2>1
    <2>4. Forward /\ out' \in [Notices -> Rows \cup {None}]
      BY <1>0, <1>1, <2>0, <2>1, <2>2, <2>3, OneNotice
    <2>5. TypeOK'
      BY <1>0, <2>2, <2>4 DEF TypeOK
    <2>6. Adopted' /\ RequestsFit' /\ ReceiptsTruthful'
      BY <1>0, <2>4, <2>5, AdoptedKept, ReceiptsKept DEF PortalSound
    <2> QED BY <1>0, <2>2, <2>4, <2>5, <2>6, RowStepSound
  <1>2. CASE i \in Batches
    <2> DEFINE next == batch[i].revision + 1
               new == [batch[i] EXCEPT !.status = "failed", !.revision = next, !.token = None]
    <2>0. i \notin Notices /\ batch[i] \in BatchRows /\ batch[i].status \notin Ends /\ batch[i].due
      BY <1>2, <1>0, JobIs, Typed DEF Sweep, Exhausted, Open, Ends
    <2>a. next \in Nat /\ batch[i].revision < next
      BY <2>0, Counted
    <2>2. batch' = [batch EXCEPT ![i] = new] /\ out' = out
      BY <2>0 DEF Sweep, BatchRows
    <2> HIDE DEF next
    <2>1. /\ new \in BatchRows /\ new.attempts = batch[i].attempts /\ batch[i].attempts \in Nat
          /\ new.print = batch[i].print /\ batch[i].revision < new.revision
      <3>1. new \in BatchRows
        BY <2>0, <2>a DEF BatchRows, Status, Ends
      <3>2. new.attempts = batch[i].attempts /\ new.print = batch[i].print /\ new.revision = next
        BY <2>0 DEF BatchRows
      <3> HIDE DEF new
      <3> QED BY <3>1, <3>2, <2>0, <2>a, Counted
    <2> HIDE DEF new
    <2>3. batch[i].attempts <= new.attempts
      BY <2>1
    <2>4. Forward /\ batch' \in [Batches -> BatchRows \cup {None}] /\ \A b \in Batches : b # i => batch'[b] = batch[b]
      BY <1>0, <1>2, <2>0, <2>1, <2>2, <2>3, OneBatch
    <2>5. TypeOK'
      BY <1>0, <2>2, <2>4 DEF TypeOK
    <2>6. Adopted' /\ RequestsFit' /\ ReceiptsTruthful'
      BY <1>0, <2>4, <2>5, AdoptedKept, ReceiptsKept DEF PortalSound
    <2> QED BY <1>0, <2>0, <2>4, <2>5, <2>6, RowStepSound
  <1> QED BY <1>1, <1>2

(* A staff member asks.                                                    *)
LEMMA RequestSound ==
  ASSUME PortalSound, NEW k \in Keys, NEW b \in Batches, Request(k, b)
  PROVE  PortalSound'
  <1> USE DEF env, lanes, history
  <1>0. TypeOK /\ UNCHANGED <<staging, contact, live, out, item, batch, sender, mails, carried, late>>
    BY DEF Request, PortalSound
  <1>1. PICK action \in {"send-now", "cancel"} :
          control' = [control EXCEPT ![k] = [on |-> b, action |-> action, expected |-> batch[b].revision, done |-> FALSE]]
    BY DEF Request
  <1> DEFINE new == [on |-> b, action |-> action, expected |-> batch[b].revision, done |-> FALSE]
  <1>2. batch[b] # None /\ batch[b].revision \in Nat
    BY <1>0, Typed, Counted DEF Request
  <1>3. new \in Requests /\ new.on = b /\ ~new.done
    BY <1>2 DEF Requests
  <1>4. control' \in [Keys -> Requests \cup {None}] /\ control'[k] = new /\ \A j \in Keys : j # k => control'[j] = control[j]
    BY <1>0, <1>1, <1>3 DEF TypeOK
  <1> HIDE DEF new
  <1>5. TypeOK'
    BY <1>0, <1>4 DEF TypeOK
  <1>6. RequestsFit'
    BY <1>0, <1>2, <1>3, <1>4 DEF PortalSound, RequestsFit
  <1>7. ReceiptsTruthful'
    BY <1>0, <1>3, <1>4 DEF PortalSound, ReceiptsTruthful
  <1>8. Forward /\ Adopted'
    BY <1>0, RowsUnmoved, AdoptedKept DEF PortalSound
  <1> QED BY <1>0, <1>5, <1>6, <1>7, <1>8, RowStepSound

(* A request is applied to the revision it saw.                            *)
LEMMA ApplySound ==
  ASSUME PortalSound, NEW k \in Keys, Apply(k)
  PROVE  PortalSound'
  <1> USE DEF env, history
  <1> DEFINE b == control[k].on
             next == batch[b].revision + 1
             status == IF control[k].action = "cancel" THEN "cancelled" ELSE "pending"
             due == batch[b].due \/ control[k].action = "send-now"
             new == [batch[b] EXCEPT !.status = status, !.revision = next, !.sealed = TRUE, !.due = due]
             done == [control[k] EXCEPT !.done = TRUE]
  <1>0. TypeOK /\ UNCHANGED <<staging, contact, live, out, item, sender, mails, carried, late>>
    BY DEF Apply, PortalSound
  <1>1. /\ control[k] # None /\ control[k] \in Requests /\ ~control[k].done /\ b \in Batches
        /\ batch[b] # None /\ batch[b] \in BatchRows
        /\ batch[b].status = "pending" /\ batch[b].revision = control[k].expected
    BY <1>0, Typed DEF Apply, Applicable, Requests, PortalSound, RequestsFit
  <1>2. next \in Nat /\ batch[b].revision < next /\ batch[b].revision \in Nat
    BY <1>1, Counted
  <1>3. status \in Status /\ due \in BOOLEAN
    BY <1>1 DEF Status, Ends, BatchRows
  <1>4. batch' = [batch EXCEPT ![b] = new]
    BY <1>1 DEF Apply, Controlled, BatchRows
  <1> HIDE DEF next, status, due
  <1>5. new \in BatchRows
    BY <1>1, <1>2, <1>3 DEF BatchRows
  <1>6. new.attempts = batch[b].attempts /\ new.print = batch[b].print /\ new.revision = next /\ new.status = status
    BY <1>1 DEF BatchRows
  <1> HIDE DEF new
  <1>7. batch[b].attempts <= new.attempts /\ batch[b].status \notin Ends /\ batch[b].revision < new.revision
    BY <1>1, <1>2, <1>6, Counted DEF Ends
  <1>8. /\ Forward /\ batch' \in [Batches -> BatchRows \cup {None}]
        /\ batch'[b] = new /\ \A c \in Batches : c # b => batch'[c] = batch[c]
    BY <1>0, <1>1, <1>4, <1>5, <1>6, <1>7, OneBatch
  <1>9. /\ done \in Requests /\ done.on = b /\ done.action = control[k].action /\ done.expected = control[k].expected
        /\ done.done
    BY <1>1 DEF Requests
  <1>10. control' \in [Keys -> Requests \cup {None}] /\ control'[k] = done /\ \A j \in Keys : j # k => control'[j] = control[j]
    BY <1>0, <1>9 DEF Apply, TypeOK
  <1> HIDE DEF done
  <1>11. TypeOK'
    BY <1>0, <1>8, <1>10 DEF TypeOK
  <1>12. ASSUME NEW j \in Keys, j # k, control[j] # None
         PROVE  /\ control[j].on \in Batches /\ control[j].expected \in Nat /\ batch[control[j].on] # None
                /\ batch[control[j].on].revision \in Nat /\ batch'[control[j].on].revision \in Nat
                /\ BatchKept(control[j].on)
                /\ control[j].done => control[j].expected < batch[control[j].on].revision
    <2>1. /\ control[j] \in Requests /\ batch[control[j].on] # None
          /\ control[j].done => control[j].expected < batch[control[j].on].revision
      BY <1>0, <1>12, Typed DEF PortalSound, RequestsFit
    <2>2. control[j].on \in Batches /\ control[j].expected \in Nat
      BY <2>1 DEF Requests
    <2>3. BatchKept(control[j].on) /\ batch'[control[j].on] # None
      BY <1>8, <2>1, <2>2 DEF Forward, BatchKept
    <2>4. batch[control[j].on] \in BatchRows /\ batch'[control[j].on] \in BatchRows
      BY <2>1, <2>2, <2>3, <1>0, <1>8 DEF TypeOK
    <2> QED BY <2>1, <2>2, <2>3, <2>4, Counted
  <1>13. RequestsFit'
    <2>1. ASSUME NEW j \in Keys, control'[j] # None
          PROVE  batch'[control'[j].on] # None /\ (control'[j].done => control'[j].expected < batch'[control'[j].on].revision)
      <3>1. CASE j = k
        BY <3>1, <1>1, <1>2, <1>5, <1>6, <1>8, <1>9, <1>10, NoneApart
      <3>2. CASE j # k
        BY <3>2, <2>1, <1>10, <1>12 DEF BatchKept
      <3> QED BY <3>1, <3>2
    <2> QED BY <2>1 DEF RequestsFit
  <1>14. ReceiptsTruthful'
    <2>1. ASSUME NEW j \in Keys, control'[j] # None, control'[j].done, control'[j].action = "cancel"
          PROVE  batch'[control'[j].on].status = "cancelled"
      <3>1. CASE j = k
        BY <3>1, <2>1, <1>6, <1>8, <1>9, <1>10 DEF status
      <3>2. CASE j # k
        BY <3>2, <2>1, <1>10, <1>12 DEF PortalSound, ReceiptsTruthful, BatchKept, Ends
      <3> QED BY <3>1, <3>2
    <2>2. ASSUME NEW j \in Keys, j # k, control[j] # None, control[j].done, control[j].on = b
          PROVE  control[j].expected # control[k].expected
      BY <2>2, <1>1, <1>12
    <2>3. ASSUME NEW i \in Keys, NEW j \in Keys \ {i}, control'[i] # None, control'[i].done, control'[j] # None,
                 control'[j].done, control'[j].on = control'[i].on
          PROVE  control'[j].expected # control'[i].expected
      <3>1. CASE i = k
        BY <3>1, <2>2, <2>3, <1>9, <1>10
      <3>2. CASE j = k
        BY <3>2, <2>2, <2>3, <1>9, <1>10
      <3>3. CASE i # k /\ j # k
        BY <3>3, <2>3, <1>10 DEF PortalSound, ReceiptsTruthful
      <3> QED BY <3>1, <3>2, <3>3
    <2> QED BY <2>1, <2>3 DEF ReceiptsTruthful
  <1>15. Adopted'
    BY <1>0, <1>8, AdoptedKept DEF PortalSound
  <1> QED BY <1>0, <1>1, <1>8, <1>11, <1>13, <1>14, <1>15, RowStepSound

(* A notice of no attempt and no batch is staged: its row is closed, and a *)
(* batch that is neither sealed nor full, or is new, takes it.             *)
LEMMA StageShape ==
  ASSUME PortalSound, NEW n \in Notices, Stage(n), item[n] = None,
         out[n] # None => out[n].status = "pending" /\ out[n].attempts = 0
  PROVE  /\ out' \in [Notices -> Rows \cup {None}] /\ item' \in [Notices -> Batches \cup {None}]
         /\ batch' \in [Batches -> BatchRows \cup {None}]
         /\ Forward /\ Adopted'
         /\ \A b \in Batches : batch[b] # None /\ batch'[b] # batch[b] => batch[b].status = "pending"
         /\ \E b \in Batches : (batch[b] # None => ~batch[b].sealed) /\ item' = [item EXCEPT ![n] = b]
         /\ out'[n] # None /\ out'[n].status = "suppressed" /\ out'[n].attempts = 0
         /\ \A m \in Notices : m # n => out'[m] = out[m]
         /\ \A b \in Batches : batch[b] = None /\ batch'[b] # None => batch'[b].status = "pending" /\ batch'[b].attempts = 0
         /\ \A b \in Batches : batch[b] # None => batch'[b].status = batch[b].status /\ batch'[b].attempts = batch[b].attempts
  <1> DEFINE joined(b) == IF batch[b] = None THEN FreshBatch ELSE batch[b]
             sealed(x) == [batch[x] EXCEPT !.sealed = TRUE, !.revision = batch[x].revision + 1]
             grown(x) == [joined(x) EXCEPT !.due = FALSE, !.revision = joined(x).revision + 1]
             row == IF out[n] = None THEN Fresh(TRUE) ELSE out[n]
             new == [row EXCEPT !.status = "suppressed"]
  <1>0. TypeOK
    BY DEF PortalSound
  <1>1. PICK b \in Batches :
          /\ IF Accepting \ Full # {} THEN b \in Accepting \ Full ELSE batch[b] = None
          /\ batch' = [x \in Batches |-> IF x \in Full THEN sealed(x) ELSE IF x = b THEN grown(b) ELSE batch[x]]
          /\ item' = [item EXCEPT ![n] = b]
          /\ out' = [out EXCEPT ![n] = new]
    BY DEF Stage
  <1>2. row \in Rows /\ row.attempts = 0
    BY <1>0, PortalAssumption DEF TypeOK, Fresh, Rows, Status
  <1> HIDE DEF row
  <1>3. new \in Rows /\ new.attempts = 0 /\ new.status = "suppressed"
    BY <1>2 DEF Rows, Status, Ends
  <1> HIDE DEF new
  <1>4. new # None
    BY <1>3, NoneApart
  <1>5. /\ out' \in [Notices -> Rows \cup {None}] /\ out'[n] = new
        /\ \A m \in Notices : m # n => out'[m] = out[m]
    BY <1>0, <1>1, <1>3 DEF TypeOK
  <1>6. ASSUME NEW x \in Full
        PROVE  /\ x \in Batches /\ batch[x] # None /\ batch[x].status = "pending"
               /\ sealed(x) \in BatchRows /\ sealed(x) # None
               /\ sealed(x).attempts = batch[x].attempts /\ sealed(x).print = batch[x].print
               /\ sealed(x).revision = batch[x].revision + 1 /\ sealed(x).status = "pending"
    <2>1. x \in Batches /\ batch[x] # None /\ batch[x].status = "pending" /\ batch[x] \in BatchRows
      BY <1>0, Typed DEF Full, Accepting
    <2>2. batch[x].revision + 1 \in Nat
      BY <2>1, Counted
    <2>3. sealed(x) \in BatchRows
      BY <2>1, <2>2 DEF BatchRows
    <2>4. sealed(x) # None
      BY <2>3, NoneApart
    <2> QED BY <2>1, <2>3, <2>4 DEF BatchRows
  <1>7. /\ joined(b) \in BatchRows /\ joined(b).status = "pending" /\ ~joined(b).sealed
        /\ batch[b] = None => joined(b).attempts = 0
        /\ b \notin Full
    <2>1. CASE batch[b] = None
      <3>1. FreshBatch \in BatchRows
        BY PortalAssumption DEF FreshBatch, BatchRows, Status
      <3> QED BY <2>1, <3>1 DEF FreshBatch, Full, Accepting
    <2>2. CASE batch[b] # None
      BY <2>2, <1>0, <1>1, Typed DEF Full, Accepting
    <2> QED BY <2>1, <2>2
  <1> HIDE DEF joined
  <1>8. joined(b).revision + 1 \in Nat /\ joined(b).attempts \in Nat /\ joined(b).revision \in Nat
    BY <1>7, Counted
  <1>9. /\ grown(b) \in BatchRows /\ grown(b).status = "pending"
        /\ grown(b).attempts = joined(b).attempts /\ grown(b).print = joined(b).print
        /\ grown(b).revision = joined(b).revision + 1
    BY <1>7, <1>8 DEF BatchRows
  <1>10. grown(b) # None
    BY <1>9, NoneApart
  <1> HIDE DEF grown, sealed
  <1>11. /\ \A x \in Full : batch'[x] = sealed(x)
         /\ batch'[b] = grown(b)
         /\ \A x \in Batches : x \notin Full /\ x # b => batch'[x] = batch[x]
    BY <1>1, <1>6, <1>7
  <1>12. batch' \in [Batches -> BatchRows \cup {None}]
    BY <1>0, <1>1, <1>6, <1>9 DEF TypeOK
  <1>13. item' \in [Notices -> Batches \cup {None}] /\ item'[n] = b /\ \A m \in Notices : m # n => item'[m] = item[m]
    BY <1>0, <1>1 DEF TypeOK
  <1>14. batch[b] # None => joined(b) = batch[b]
    BY DEF joined
  <1>15. ASSUME NEW x \in Batches, batch[x] # None
         PROVE  /\ BatchKept(x) /\ batch'[x].status = batch[x].status /\ batch'[x].attempts = batch[x].attempts
                /\ batch'[x] # batch[x] => batch[x].status = "pending"
    <2>0. batch[x].attempts \in Nat /\ batch[x].revision \in Nat
      BY <1>0, <1>15, Typed, Counted
    <2>1. CASE x \in Full
      BY <2>0, <2>1, <1>6, <1>11 DEF BatchKept, Ends
    <2>2. CASE x = b
      BY <2>0, <2>2, <1>7, <1>8, <1>9, <1>10, <1>11, <1>14, <1>15 DEF BatchKept, Ends
    <2>3. CASE x \notin Full /\ x # b
      BY <2>0, <2>3, <1>11 DEF BatchKept
    <2> QED BY <2>1, <2>2, <2>3
  <1>16. \A m \in Notices : NoticeKept(m)
    <2>1. ASSUME NEW m \in Notices, out[m] # None PROVE out[m].attempts \in Nat
      BY <1>0, <2>1, Typed, Counted
    <2> QED BY <2>1, <1>3, <1>4, <1>5 DEF NoticeKept, Ends
  <1>17. Forward
    BY <1>15, <1>16 DEF Forward, BatchKept
  <1>18. Adopted'
    <2>1. ASSUME NEW m \in Notices, item'[m] # None
          PROVE  /\ batch'[item'[m]] # None /\ out'[m] # None
                 /\ out'[m].attempts = 0 /\ out'[m].status = "suppressed"
      <3>1. CASE m = n
        BY <3>1, <1>3, <1>4, <1>5, <1>10, <1>11, <1>13
      <3>2. CASE m # n
        <4>1. /\ item'[m] = item[m] /\ out'[m] = out[m] /\ item[m] # None /\ item[m] \in Batches
              /\ batch[item[m]] # None /\ out[m] # None /\ out[m].attempts = 0 /\ out[m].status = "suppressed"
          BY <2>1, <3>2, <1>0, <1>5, <1>13 DEF PortalSound, Adopted, TypeOK
        <4> QED BY <4>1, <1>15 DEF BatchKept
      <3> QED BY <3>1, <3>2
    <2> QED BY <2>1 DEF Adopted
  <1>19. ASSUME NEW x \in Batches, batch[x] = None, batch'[x] # None
         PROVE  batch'[x].status = "pending" /\ batch'[x].attempts = 0
    BY <1>19, <1>6, <1>7, <1>9, <1>11
  <1> QED BY <1>1, <1>3, <1>4, <1>5, <1>7, <1>12, <1>13, <1>14, <1>15, <1>17, <1>18, <1>19

(* A notice is staged.                                                     *)
LEMMA StageSound ==
  ASSUME PortalSound, NEW n \in Notices, Stage(n), item[n] = None,
         out[n] # None => out[n].status = "pending" /\ out[n].attempts = 0,
         UNCHANGED <<env, control, sender, history>>
  PROVE  PortalSound'
  <1>1. /\ out' \in [Notices -> Rows \cup {None}] /\ item' \in [Notices -> Batches \cup {None}]
        /\ batch' \in [Batches -> BatchRows \cup {None}]
        /\ Forward /\ Adopted'
        /\ \A b \in Batches : batch[b] # None /\ batch'[b] # batch[b] => batch[b].status = "pending"
    BY StageShape
  <1>2. TypeOK'
    BY <1>1 DEF PortalSound, TypeOK, env, history
  <1>3. RequestsFit' /\ ReceiptsTruthful'
    BY <1>1, <1>2, ReceiptsKept DEF PortalSound
  <1>4. \A b \in Batches, s \in Senders : HeldBy(s, b) => batch[b] # None
    BY JobIs DEF PortalSound, SendersFit, Fits, HeldBy
  <1> QED BY <1>1, <1>2, <1>3, <1>4, RowStepSound DEF history

(* A new notice, staged at once or left to the direct lane.                *)
LEMMA IntentSound ==
  ASSUME PortalSound, NEW n \in Notices, NEW grant \in BOOLEAN, Intent(n, grant)
  PROVE  PortalSound'
  <1>0. TypeOK /\ out[n] = None /\ item[n] = None /\ UNCHANGED <<env, control, sender, history>>
    BY DEF PortalSound, Adopted, Intent
  <1>1. CASE Stage(n)
    BY <1>0, <1>1, StageSound
  <1>2. CASE out' = [out EXCEPT ![n] = Fresh(grant)] /\ UNCHANGED <<item, batch>>
    <2>1. Fresh(grant) \in Rows
      BY PortalAssumption DEF Fresh, Rows, Status
    <2>2. Forward /\ out' \in [Notices -> Rows \cup {None}]
      BY <1>0, <1>2, <2>1, OneNotice
    <2>3. TypeOK'
      BY <1>0, <1>2, <2>2 DEF TypeOK, env, history
    <2>4. Adopted' /\ RequestsFit' /\ ReceiptsTruthful'
      BY <1>0, <1>2, <2>2, <2>3, AdoptedKept, ReceiptsKept DEF PortalSound
    <2> QED BY <1>0, <1>2, <2>2, <2>3, <2>4, RowStepSound DEF history
  <1> QED BY <1>1, <1>2 DEF Intent

(* An untouched notice is adopted.                                         *)
LEMMA AdoptSound ==
  ASSUME PortalSound, NEW n \in Notices, Adopt(n)
  PROVE  PortalSound'
  BY StageSound DEF Adopt, Untouched

-----------------------------------------------------------------------------
(* Steps of a sender.                                                      *)

Mailing == {"resolve", "publish", "mail"}

(* Only s moves; it stays on its job if it has one.                        *)
Alone(s) ==
  /\ sender' \in [Senders -> SenderStates \cup {None}]
  /\ \A r \in Senders : r # s => sender'[r] = sender[r]

(* A sender that takes no lease and sends no mail.                         *)
Quiet(s) ==
  sender'[s] # None =>
    /\ sender'[s].at \in Mailing => sender[s] # None /\ sender[s].on = sender'[s].on /\ sender[s].at \in Mailing
    /\ sender'[s].at \in Held => sender[s] # None /\ sender[s].on = sender'[s].on /\ sender[s].at \in Held

(* Such a step keeps the invariant if the sender fits its job afterwards   *)
(* and takes no lease from another.                                        *)
LEMMA QuietSound ==
  ASSUME PortalSound, NEW s \in Senders, Alone(s), Quiet(s), TypeOK', Forward,
         UNCHANGED <<item, control, mails, carried, late>>,
         sender'[s] # None => Fits(s)',
         \A b \in Batches \ late, r \in Senders : HeldBy(r, b)' =>
           (batch[b].status = "processing" /\ ~batch[b].due => batch'[b].status = "processing" /\ ~batch'[b].due)
  PROVE  PortalSound'
  <1> USE DEF PortalSound
  <1>1. MailsCounted'
    <2>1. \A i \in Notices \cup Batches : Unmailed(i)' \subseteq Unmailed(i)
      BY DEF Unmailed, Alone, Quiet, Mailing
    <2> QED BY <2>1, CountKept
  <1>2. SendersFit'
    BY UnmovedFits DEF SendersFit, Alone
  <1>3. MailsFrozen'
    BY FrozenKept
  <1>4. LeaseExclusive'
    <2>1. \A b \in Batches, r \in Senders : HeldBy(r, b)' => HeldBy(r, b)
      BY DEF HeldBy, Alone, Quiet
    <2> QED BY <2>1, LeaseKept
  <1>5. Adopted' /\ RequestsFit' /\ ReceiptsTruthful'
    BY AdoptedKept, ReceiptsKept
  <1> QED BY <1>1, <1>2, <1>3, <1>4, <1>5

(* A sender that goes on keeps what it knows.                              *)
LEMMA GotoMoves ==
  ASSUME TypeOK, NEW s \in Senders, sender[s] # None, NEW state \in Held \cup {"drop"}, Goto(s, state)
  PROVE  /\ Alone(s) /\ sender'[s] # None /\ sender'[s].at = state /\ sender'[s].on = sender[s].on
         /\ sender'[s].print = sender[s].print
  <1>1. sender[s] \in SenderStates
    BY Typed
  <1>2. [sender[s] EXCEPT !.at = state] \in SenderStates
    BY <1>1 DEF SenderStates
  <1>3. sender' = [sender EXCEPT ![s] = [sender[s] EXCEPT !.at = state]]
    BY DEF Goto
  <1>4. sender'[s] = [sender[s] EXCEPT !.at = state] /\ Alone(s)
    BY <1>2, <1>3 DEF TypeOK, Alone
  <1>5. sender'[s] # None
    BY <1>2, <1>4, NoneApart
  <1> QED BY <1>1, <1>4, <1>5 DEF SenderStates

(* A sender that leaves.                                                   *)
LEMMA LeaveEnds ==
  ASSUME TypeOK, NEW s \in Senders, Leave(s)
  PROVE  Alone(s) /\ Quiet(s) /\ sender'[s] = None
  BY DEF TypeOK, Leave, Alone, Quiet

(* A batch is chosen, with its row as it is.                               *)
LEMMA SelectBatchSound ==
  ASSUME PortalSound, NEW s \in Senders, NEW b \in Batches, SelectBatch(s, b)
  PROVE  PortalSound'
  <1> DEFINE new == [on |-> b, at |-> "claim", strict |-> TRUE, seen |-> batch[b].revision,
                     attempt |-> batch[b].attempts, print |-> batch[b].print]
  <1> USE DEF env, lanes, history
  <1>0. TypeOK /\ UNCHANGED <<staging, contact, live, out, item, batch, control, mails, carried, late>>
    BY DEF SelectBatch, PortalSound
  <1>1. batch[b] \in BatchRows /\ batch[b] # None /\ batch[b].due /\ b \notin Notices
    BY <1>0, JobIs, Typed DEF SelectBatch, Claimable, Open
  <1>2. new \in SenderStates
    BY <1>1 DEF SenderStates, BatchRows, Held
  <1>3. new # None
    BY <1>2, NoneApart
  <1>4. new.on = b /\ new.at = "claim" /\ new.seen = batch[b].revision /\ new.attempt = batch[b].attempts /\ new.print = batch[b].print
    OBVIOUS
  <1>5. sender' = [sender EXCEPT ![s] = new]
    BY DEF SelectBatch
  <1> HIDE DEF new
  <1>6. Alone(s) /\ sender'[s] = new
    BY <1>0, <1>2, <1>5 DEF TypeOK, Alone
  <1>7. Quiet(s)
    BY <1>4, <1>6 DEF Quiet, Mailing, Held
  <1>8. batch[b].revision <= batch[b].revision
    BY <1>1, Counted
  <1>9. Fits(s)'
    BY <1>0, <1>1, <1>4, <1>6, <1>8 DEF Fits, ClaimFits, Job
  <1>10. TypeOK'
    BY <1>0, <1>6 DEF TypeOK, Alone
  <1>11. Forward
    BY <1>0, RowsUnmoved
  <1> QED BY <1>0, <1>6, <1>7, <1>9, <1>10, <1>11, QuietSound

(* A notice is chosen.                                                     *)
LEMMA SelectNoticeSound ==
  ASSUME PortalSound, NEW s \in Senders, NEW n \in Notices, SelectNotice(s, n)
  PROVE  PortalSound'
  <1> DEFINE new == [on |-> n, at |-> "look", strict |-> staging, seen |-> 0, attempt |-> 0, print |-> None]
  <1> USE DEF env, lanes, history
  <1>0. TypeOK /\ UNCHANGED <<staging, contact, live, out, item, batch, control, mails, carried, late>>
    BY DEF SelectNotice, PortalSound
  <1>1. out[n] # None
    BY JobIs DEF SelectNotice, Direct, Claimable, Open
  <1>2. new \in SenderStates
    BY <1>0, PortalAssumption DEF SenderStates, TypeOK
  <1>3. new.on = n /\ new.at = "look"
    OBVIOUS
  <1>4. sender' = [sender EXCEPT ![s] = new]
    BY DEF SelectNotice
  <1> HIDE DEF new
  <1>5. Alone(s) /\ sender'[s] = new
    BY <1>0, <1>2, <1>4 DEF TypeOK, Alone
  <1>6. Quiet(s)
    BY <1>3, <1>5 DEF Quiet, Mailing, Held
  <1>7. Fits(s)'
    BY <1>0, <1>1, <1>3, <1>5 DEF Fits, Job
  <1>8. TypeOK'
    BY <1>0, <1>5 DEF TypeOK, Alone
  <1>9. Forward
    BY <1>0, RowsUnmoved
  <1> QED BY <1>0, <1>5, <1>6, <1>7, <1>8, <1>9, QuietSound

(* The notice is read again.                                               *)
LEMMA LookSound ==
  ASSUME PortalSound, NEW s \in Senders, Look(s)
  PROVE  PortalSound'
  <1> USE DEF env, lanes, history
  <1>0. /\ TypeOK /\ UNCHANGED <<staging, contact, live, out, item, batch, control, mails, carried, late>>
        /\ sender[s] # None /\ sender[s].at = "look"
    BY DEF Look, PortalSound, At
  <1>1. sender[s].on \in Notices /\ out[sender[s].on] # None /\ sender[s] \in SenderStates
    BY <1>0, JobIs, Typed DEF PortalSound, SendersFit, Fits
  <1>2. Forward
    BY <1>0, RowsUnmoved
  <1>3. CASE Goto(s, "drop")
    <2>1. Alone(s) /\ sender'[s] # None /\ sender'[s].at = "drop" /\ sender'[s].on = sender[s].on
      BY <1>0, <1>3, GotoMoves
    <2>2. Quiet(s) /\ TypeOK'
      BY <1>0, <2>1 DEF Quiet, Mailing, Held, TypeOK, Alone
    <2>3. Fits(s)'
      BY <1>0, <1>1, <2>1 DEF Fits, Job
    <2> QED BY <1>0, <1>2, <2>1, <2>2, <2>3, QuietSound
  <1>4. CASE sender' = [sender EXCEPT ![s].at = "claim", ![s].seen = out[sender[s].on].attempts, ![s].attempt = out[sender[s].on].attempts]
    <2> DEFINE a == out[sender[s].on].attempts
               new == [sender[s] EXCEPT !.at = "claim", !.seen = a, !.attempt = a]
    <2>1. a \in 0..MaxAttempts /\ a \in Nat
      BY <1>0, <1>1, Typed, Counted DEF Rows
    <2>2. sender' = [sender EXCEPT ![s] = new]
      BY <1>1, <1>4 DEF SenderStates
    <2> HIDE DEF a
    <2>3. new \in SenderStates
      BY <1>1, <2>1 DEF SenderStates, Held
    <2>4. new.on = sender[s].on /\ new.at = "claim" /\ new.seen = a /\ new.attempt = a
      BY <1>1 DEF SenderStates
    <2> HIDE DEF new
    <2>5. Alone(s) /\ sender'[s] = new
      BY <1>0, <2>2, <2>3 DEF TypeOK, Alone
    <2>6. Quiet(s) /\ TypeOK'
      BY <1>0, <2>4, <2>5 DEF Quiet, Mailing, Held, TypeOK, Alone
    <2>7. Fits(s)'
      BY <1>0, <1>1, <2>4, <2>5 DEF Fits, ClaimFits, Job
    <2> QED BY <1>0, <1>2, <2>5, <2>6, <2>7, QuietSound
  <1> QED BY <1>3, <1>4 DEF Look

(* An unauthorised notice is dropped.                                      *)
LEMMA DropSound ==
  ASSUME PortalSound, NEW s \in Senders, Drop(s)
  PROVE  PortalSound'
  <1> DEFINE n == sender[s].on
             new == [out[n] EXCEPT !.status = "suppressed"]
  <1> USE DEF env, history
  <1>0. /\ TypeOK /\ UNCHANGED <<staging, contact, live, item, batch, control, mails, carried, late>>
        /\ sender[s] # None /\ sender[s].at = "drop" /\ Leave(s)
    BY DEF Drop, PortalSound, At
  <1>1. n \in Notices /\ out[n] # None /\ out[n] \in Rows
    BY <1>0, JobIs, Typed DEF PortalSound, SendersFit, Fits
  <1>2. Alone(s) /\ Quiet(s) /\ sender'[s] = None
    BY <1>0, LeaveEnds
  <1>3. Forward /\ out' \in [Notices -> Rows \cup {None}]
    <2>1. CASE out' = out
      BY <1>0, <2>1, RowsUnmoved DEF TypeOK
    <2>2. CASE Claimable(n) /\ out' = [out EXCEPT ![n] = new]
      <3>1. new \in Rows /\ new.attempts = out[n].attempts
        BY <1>1 DEF Rows, Status, Ends
      <3>2. out[n].status \notin Ends
        BY <1>1, <2>2, JobIs DEF Claimable, Open, Ends
      <3> HIDE DEF new
      <3>3. out[n].attempts <= new.attempts
        BY <1>1, <3>1, Counted
      <3> QED BY <1>0, <1>1, <2>2, <3>1, <3>2, <3>3, OneNotice
    <2> QED BY <2>1, <2>2 DEF Drop
  <1>4. TypeOK'
    BY <1>0, <1>2, <1>3 DEF TypeOK, Alone
  <1> QED BY <1>0, <1>2, <1>3, <1>4, QuietSound

(* The invocation ends.                                                    *)
LEMMA CrashSound ==
  ASSUME PortalSound, NEW s \in Senders, Crash(s)
  PROVE  PortalSound'
  <1> USE DEF env, lanes, history
  <1>0. TypeOK /\ UNCHANGED <<staging, contact, live, out, item, batch, control, mails, carried, late>> /\ Leave(s)
    BY DEF Crash, PortalSound
  <1>1. Alone(s) /\ Quiet(s) /\ sender'[s] = None
    BY <1>0, LeaveEnds
  <1>2. TypeOK' /\ Forward
    BY <1>0, <1>1, RowsUnmoved DEF TypeOK, Alone
  <1> QED BY <1>0, <1>1, <1>2, QuietSound

(* What a sender in hold of something knows.                               *)
LEMMA HolderTyped ==
  ASSUME PortalSound, NEW s \in Senders, sender[s] # None
  PROVE  /\ sender[s] \in SenderStates /\ sender[s].on \in Notices \cup Batches
         /\ sender[s].on \in Notices => sender[s].on \notin Batches /\ out[sender[s].on] # None
         /\ sender[s].on \in Batches => sender[s].on \notin Notices /\ batch[sender[s].on] # None
  BY Typed, JobIs DEF PortalSound, SendersFit, Fits, SenderStates

(* A message is a message.                                                 *)
LEMMA MessageTyped ==
  ASSUME TypeOK, NEW b \in Batches
  PROVE  Message(b) \in Messages /\ Message(b) # None
  <1>1. Message(b) \in Messages
    BY DEF TypeOK, Message, Messages, Alive, Members
  <1> QED BY <1>1, NoneApart

(* The recipient and the message are resolved, or not.                     *)
LEMMA ResolveSound ==
  ASSUME PortalSound, NEW s \in Senders, Resolve(s)
  PROVE  PortalSound'
  <1> USE DEF env, lanes, history
  <1>0. /\ TypeOK /\ UNCHANGED <<staging, contact, live, out, item, batch, control, mails, carried, late>>
        /\ sender[s] # None /\ sender[s].at = "resolve"
    BY DEF Resolve, PortalSound, At
  <1>1. /\ sender[s] \in SenderStates /\ sender[s].on \in Notices \cup Batches
        /\ sender[s].on \in Notices => out[sender[s].on] # None
        /\ sender[s].on \in Batches => sender[s].on \notin Notices /\ batch[sender[s].on] # None
    BY <1>0, HolderTyped
  <1>2. Forward
    BY <1>0, RowsUnmoved
  <1>3. /\ Alone(s) /\ sender'[s] # None /\ sender'[s].on = sender[s].on
        /\ sender'[s].at \in {"publish", "suppress", "error"}
    <2>1. CASE \E state \in {"publish", "suppress", "error"} : Goto(s, state)
      <3>1. PICK state \in {"publish", "suppress", "error"} : Goto(s, state)
        BY <2>1
      <3>2. state \in Held \cup {"drop"}
        BY DEF Held
      <3> QED BY <1>0, <3>1, <3>2, GotoMoves
    <2>2. CASE sender[s].on \in Batches /\ sender' = [sender EXCEPT ![s].at = "publish", ![s].print = Message(sender[s].on)]
      <3> DEFINE m == Message(sender[s].on)
                 new == [sender[s] EXCEPT !.at = "publish", !.print = m]
      <3>1. m \in Messages
        BY <1>0, <2>2, MessageTyped
      <3>2. sender' = [sender EXCEPT ![s] = new]
        BY <1>1, <2>2 DEF SenderStates
      <3> HIDE DEF m
      <3>3. new \in SenderStates /\ new.on = sender[s].on /\ new.at = "publish"
        BY <1>1, <3>1 DEF SenderStates, Held
      <3> HIDE DEF new
      <3>4. new # None
        BY <3>3, NoneApart
      <3> QED BY <1>0, <3>2, <3>3, <3>4 DEF TypeOK, Alone
    <2> QED BY <2>1, <2>2 DEF Resolve, Resolved
  <1>4. Quiet(s) /\ TypeOK'
    BY <1>0, <1>3 DEF Quiet, Mailing, Held, TypeOK, Alone
  <1>5. Fits(s)'
    BY <1>0, <1>1, <1>3 DEF Fits, Job
  <1> QED BY <1>0, <1>2, <1>3, <1>4, <1>5, QuietSound

(* The message is frozen, or publication refused.                          *)
LEMMA PublishSound ==
  ASSUME PortalSound, NEW s \in Senders, Publish(s)
  PROVE  PortalSound'
  <1> USE DEF env, history
  <1> DEFINE i == sender[s].on
  <1>0. /\ TypeOK /\ UNCHANGED <<staging, contact, live, out, item, control, mails, carried, late>>
        /\ sender[s] # None /\ sender[s].at = "publish"
    BY DEF Publish, PortalSound, At
  <1>1. /\ sender[s] \in SenderStates /\ i \in Notices \cup Batches
        /\ i \in Notices => i \notin Batches /\ out[i] # None
        /\ i \in Batches => i \notin Notices /\ batch[i] # None
    BY <1>0, HolderTyped
  <1>2. CASE Goto(s, "suppress") /\ UNCHANGED batch
    <2>1. Alone(s) /\ sender'[s] # None /\ sender'[s].at = "suppress" /\ sender'[s].on = sender[s].on
      BY <1>0, <1>2, GotoMoves DEF Held
    <2>2. Quiet(s) /\ TypeOK'
      BY <1>0, <1>2, <2>1 DEF Quiet, Mailing, Held, TypeOK, Alone
    <2>3. Fits(s)'
      BY <1>0, <1>1, <1>2, <2>1 DEF Fits, Job
    <2>4. Forward
      BY <1>0, <1>2, RowsUnmoved
    <2> QED BY <1>0, <1>2, <2>1, <2>2, <2>3, <2>4, QuietSound
  <1>3. CASE /\ Publishable(s) /\ Goto(s, "mail")
             /\ batch' = [b \in Batches |-> IF b = i THEN [batch[b] EXCEPT !.print = sender[s].print] ELSE batch[b]]
    <2>1. /\ Alone(s) /\ sender'[s] # None /\ sender'[s].at = "mail" /\ sender'[s].on = i
          /\ sender'[s].print = sender[s].print
      BY <1>0, <1>3, GotoMoves DEF Held
    <2>2. Quiet(s)
      BY <1>0, <2>1 DEF Quiet, Mailing, Held
    <2>3. CASE i \in Notices
      <3>1. batch' = batch
        BY <1>0, <1>1, <1>3, <2>3 DEF TypeOK
      <3>2. Forward /\ TypeOK'
        BY <1>0, <2>1, <3>1, RowsUnmoved DEF TypeOK, Alone
      <3>3. Fits(s)'
        BY <1>0, <1>1, <2>1, <2>3 DEF Fits, Job
      <3> QED BY <1>0, <2>1, <2>2, <3>1, <3>2, <3>3, QuietSound
    <2>4. CASE i \in Batches
      <3> DEFINE new == [batch[i] EXCEPT !.print = sender[s].print]
      <3>1. batch[i] \in BatchRows /\ sender[s].print \in Messages /\ sender[s].print # None
        BY <1>0, <1>1, <1>3, <2>4, Typed, MessageTyped DEF Publishable
      <3>2. batch[i].status = "processing" /\ ~batch[i].due /\ batch[i].print \in {None, sender[s].print}
        BY <1>1, <1>3, <2>4, JobIs DEF Publishable, Holds
      <3>3. batch' = [batch EXCEPT ![i] = new]
        BY <1>0, <1>3, <2>4 DEF TypeOK
      <3>4. new \in BatchRows
        BY <3>1 DEF BatchRows
      <3>5. /\ new.attempts = batch[i].attempts /\ new.print = sender[s].print /\ new.revision = batch[i].revision
            /\ new.status = batch[i].status /\ new.due = batch[i].due
        BY <3>1 DEF BatchRows
      <3> HIDE DEF new
      <3>6. batch[i].attempts <= new.attempts /\ batch[i].status \notin Ends
        BY <3>1, <3>2, <3>5, Counted DEF Ends
      <3>7. /\ Forward /\ batch' \in [Batches -> BatchRows \cup {None}] /\ batch'[i] = new
            /\ \A b \in Batches : b # i => batch'[b] = batch[b]
        BY <1>0, <2>4, <3>1, <3>2, <3>3, <3>4, <3>5, <3>6, OneBatch
      <3>8. TypeOK'
        BY <1>0, <2>1, <3>7 DEF TypeOK, Alone
      <3>9. Fits(s)'
        BY <1>1, <2>1, <2>4, <3>1, <3>4, <3>5, <3>7, NoneApart DEF Fits, Job
      <3> QED BY <1>0, <2>1, <2>2, <3>2, <3>5, <3>7, <3>8, <3>9, QuietSound
    <2> QED BY <2>3, <2>4, <1>1
  <1> QED BY <1>2, <1>3 DEF Publish

(* What the sender at the end of its attempt writes.                       *)
LEMMA OutcomeIs ==
  ASSUME NEW s \in Senders, At(s, "sent") \/ At(s, "suppress") \/ At(s, "error")
  PROVE  Outcome(s) \in {"sent", "suppressed", "failed", "pending"}
  <1>1. CASE At(s, "sent")
    BY <1>1 DEF Outcome, At
  <1>2. CASE At(s, "suppress")
    BY <1>2 DEF Outcome, At
  <1>3. CASE At(s, "error")
    BY <1>3 DEF Outcome, At
  <1> QED BY <1>1, <1>2, <1>3

(* The result is written under the lease, or dropped.                      *)
LEMMA FinishSound ==
  ASSUME PortalSound, NEW s \in Senders, Finish(s)
  PROVE  PortalSound'
  <1> USE DEF env, history
  <1> DEFINE i == sender[s].on
             status == Outcome(s)
  <1>0. /\ TypeOK /\ UNCHANGED <<staging, contact, live, item, control, mails, carried, late>> /\ Leave(s)
        /\ sender[s] # None /\ sender[s].at \in {"sent", "suppress", "error"} /\ sender[s].at \in Held
    BY DEF Finish, PortalSound, At, Held
  <1>1. /\ i \in Notices \cup Batches
        /\ i \in Notices => i \notin Batches /\ out[i] # None
        /\ i \in Batches => i \notin Notices /\ batch[i] # None
    BY <1>0, HolderTyped
  <1>2. Alone(s) /\ Quiet(s) /\ sender'[s] = None
    BY <1>0, LeaveEnds
  <1>3. status \in Status
    BY OutcomeIs DEF Finish, Status, Ends
  <1> HIDE DEF status
  <1>4. CASE UNCHANGED <<out, batch>>
    <2>1. TypeOK' /\ Forward
      BY <1>0, <1>2, <1>4, RowsUnmoved DEF TypeOK, Alone
    <2> QED BY <1>0, <1>2, <1>4, <2>1, QuietSound
  <1>5. CASE Holds(s) /\ i \in Notices /\ UNCHANGED batch /\ out' = [out EXCEPT ![i].status = status, ![i].due = FALSE]
    <2> DEFINE new == [out[i] EXCEPT !.status = status, !.due = FALSE]
    <2>1. out[i] \in Rows /\ out[i].status \notin Ends
      BY <1>0, <1>1, <1>5, Typed, JobIs DEF Holds, Ends
    <2>2. out' = [out EXCEPT ![i] = new]
      BY <1>5, <2>1 DEF Rows
    <2>3. new \in Rows /\ new.attempts = out[i].attempts
      BY <1>3, <2>1 DEF Rows
    <2> HIDE DEF new
    <2>4. out[i].attempts <= new.attempts
      BY <2>1, <2>3, Counted
    <2>5. Forward /\ out' \in [Notices -> Rows \cup {None}]
      BY <1>0, <1>5, <2>1, <2>2, <2>3, <2>4, OneNotice
    <2>6. TypeOK'
      BY <1>0, <1>2, <1>5, <2>5 DEF TypeOK, Alone
    <2> QED BY <1>0, <1>2, <1>5, <2>5, <2>6, QuietSound
  <1>6. CASE /\ Holds(s) /\ i \in Batches /\ UNCHANGED out
             /\ batch' = [batch EXCEPT ![i].status = status, ![i].due = FALSE, ![i].revision = @ + 1, ![i].token = None]
    <2> DEFINE next == batch[i].revision + 1
               new == [batch[i] EXCEPT !.status = status, !.due = FALSE, !.revision = next, !.token = None]
    <2>1. batch[i] \in BatchRows /\ batch[i].status \notin Ends
      BY <1>0, <1>1, <1>6, Typed, JobIs DEF Holds, Ends
    <2>2. batch' = [batch EXCEPT ![i] = new]
      BY <1>6, <2>1 DEF BatchRows
    <2>3. next \in Nat /\ batch[i].revision < next
      BY <2>1, Counted
    <2> HIDE DEF next
    <2>4. new \in BatchRows
      BY <1>3, <2>1, <2>3 DEF BatchRows
    <2>5. new.attempts = batch[i].attempts /\ new.print = batch[i].print /\ new.revision = next
      BY <2>1 DEF BatchRows
    <2> HIDE DEF new
    <2>6. batch[i].attempts <= new.attempts /\ batch[i].revision < new.revision
      BY <2>1, <2>3, <2>5, Counted
    <2>7. /\ Forward /\ batch' \in [Batches -> BatchRows \cup {None}]
          /\ \A b \in Batches : b # i => batch'[b] = batch[b]
      BY <1>0, <1>6, <2>1, <2>2, <2>4, <2>5, <2>6, OneBatch
    <2>8. TypeOK'
      BY <1>0, <1>2, <1>6, <2>7 DEF TypeOK, Alone
    <2>9. ASSUME NEW b \in Batches \ late, NEW r \in Senders, HeldBy(r, b)' PROVE batch'[b] = batch[b]
      <3>1. r # s /\ sender'[r] = sender[r]
        BY <1>2, <2>9 DEF HeldBy, Alone
      <3>2. HeldBy(r, b)
        BY <2>9, <3>1 DEF HeldBy
      <3>3. b = i => HeldBy(s, b)
        BY <1>0 DEF HeldBy
      <3>4. b # i
        BY <3>1, <3>2, <3>3 DEF PortalSound, LeaseExclusive
      <3> QED BY <2>7, <3>4
    <2> QED BY <1>0, <1>2, <2>7, <2>8, <2>9, QuietSound
  <1> QED BY <1>4, <1>5, <1>6 DEF Finish, Finished, status

(* A claim: the attempts of the job and its senders grow by one.           *)
LEMMA ClaimCounts ==
  ASSUME TypeOK, TypeOK', Forward, MailsCounted, UNCHANGED mails,
         NEW s \in Senders, Alone(s), NEW i \in Notices \cup Batches,
         sender[s].at = "claim", sender'[s] # None, sender'[s].on = i,
         Attempts(i)' = Attempts(i) + 1
  PROVE  MailsCounted'
  <1> SUFFICES ASSUME NEW j \in Notices \cup Batches
      PROVE  IsFiniteSet(Unmailed(j)') /\ mails[j] + Cardinality(Unmailed(j)') <= Attempts(j)'
    BY DEF MailsCounted
  <1>1. IsFiniteSet(Unmailed(j)) /\ mails[j] + Cardinality(Unmailed(j)) <= Attempts(j)
    BY DEF MailsCounted
  <1>2. mails[j] \in Nat /\ Attempts(j) \in Nat /\ Attempts(j)' \in Nat /\ Attempts(j) <= Attempts(j)'
    BY PortalAssumption, AttemptsGrow DEF TypeOK
  <1>3. CASE j = i
    <2>1. s \notin Unmailed(j) /\ Unmailed(j)' \subseteq Unmailed(j) \cup {s}
      BY DEF Unmailed, Alone
    <2>2. IsFiniteSet(Unmailed(j) \cup {s}) /\ mails[j] + Cardinality(Unmailed(j) \cup {s}) <= Attempts(j) + 1
      BY <1>1, <1>2, <2>1, OneMoreCounted
    <2>3. IsFiniteSet(Unmailed(j) \cup {s}) /\ mails[j] + Cardinality(Unmailed(j) \cup {s}) <= Attempts(j)'
      BY <1>3, <2>2
    <2> QED BY <1>2, <2>1, <2>3, FewerCounted
  <1>4. CASE j # i
    <2>1. Unmailed(j)' \subseteq Unmailed(j)
      BY <1>4 DEF Unmailed, Alone
    <2>2. IsFiniteSet(Unmailed(j)') /\ mails[j] + Cardinality(Unmailed(j)') <= Attempts(j)
      BY <1>1, <1>2, <2>1, FewerCounted
    <2>3. Cardinality(Unmailed(j)') \in Nat
      BY <2>2, FS_CardinalityType
    <2> QED BY <1>2, <2>2, <2>3
  <1> QED BY <1>3, <1>4

(* A claim keeps the invariant if the job counts it, and if a batch that   *)
(* is claimed was held by nobody.                                          *)
LEMMA TakeSound ==
  ASSUME PortalSound, TypeOK', Forward, UNCHANGED <<item, control, mails, carried, late>>,
         NEW s \in Senders, Alone(s), NEW i \in Notices \cup Batches,
         sender[s] # None, sender[s].at = "claim", sender[s].on = i,
         sender'[s] # None, sender'[s].at = "resolve", sender'[s].on = i,
         Job(i)' # None, Attempts(i)' = Attempts(i) + 1,
         \A b \in Batches : b # i => batch'[b] = batch[b],
         i \in Batches => batch[i].due /\ batch'[i].status = "processing" /\ ~batch'[i].due
  PROVE  PortalSound'
  <1> USE DEF PortalSound
  <1>1. MailsCounted'
    BY ClaimCounts
  <1>2. SendersFit'
    <2>1. Fits(s)'
      BY DEF Fits
    <2> QED BY <2>1, UnmovedFits DEF SendersFit, Alone
  <1>3. MailsFrozen'
    BY FrozenKept
  <1>4. Adopted' /\ RequestsFit' /\ ReceiptsTruthful'
    BY AdoptedKept, ReceiptsKept
  <1>5. ASSUME NEW b \in Batches \ late, NEW r \in Senders, HeldBy(r, b)'
        PROVE  /\ batch'[b].status = "processing" /\ ~batch'[b].due
               /\ b = i => r = s
               /\ b # i => HeldBy(r, b)
    <2>1. r # s => HeldBy(r, b)
      BY <1>5 DEF HeldBy, Alone
    <2>2. CASE b = i
      BY <2>1, <2>2 DEF LeaseExclusive
    <2>3. CASE b # i
      <3>1. HeldBy(r, b)
        BY <1>5, <2>1, <2>3 DEF HeldBy
      <3> QED BY <2>3, <3>1 DEF LeaseExclusive
    <2> QED BY <2>2, <2>3
  <1>6. LeaseExclusive'
    BY <1>5 DEF LeaseExclusive
  <1> QED BY <1>1, <1>2, <1>3, <1>4, <1>6

(* A job is claimed as it was read, or the sender leaves.                  *)
LEMMA ClaimSound ==
  ASSUME PortalSound, NEW s \in Senders, Claim(s)
  PROVE  PortalSound'
  <1> USE DEF env, history
  <1>0. /\ TypeOK /\ UNCHANGED <<staging, contact, live, item, control, mails, carried, late>>
        /\ sender[s] # None /\ sender[s].at = "claim"
    BY DEF Claim, PortalSound, At
  <1>a. PICK i : i = sender[s].on
    OBVIOUS
  <1>1. /\ sender[s] \in SenderStates /\ i \in Notices \cup Batches
        /\ i \in Notices => i \notin Batches /\ out[i] # None
        /\ i \in Batches => i \notin Notices /\ batch[i] # None
    BY <1>0, <1>a, HolderTyped
  <1>2. ClaimFits(s)
    BY <1>0 DEF PortalSound, SendersFit, Fits
  <1>3. CASE Leave(s) /\ UNCHANGED <<out, batch>>
    <2>1. Alone(s) /\ Quiet(s) /\ sender'[s] = None
      BY <1>0, <1>3, LeaveEnds
    <2>2. TypeOK' /\ Forward
      BY <1>0, <1>3, <2>1, RowsUnmoved DEF TypeOK, Alone
    <2> QED BY <1>0, <1>3, <2>1, <2>2, QuietSound
  <1>4. CASE /\ Claimable(i) /\ Unchanged(i, sender[s].seen) /\ Take(i)
             /\ sender' = [sender EXCEPT ![s].at = "resolve", ![s].attempt = @ + 1]
    <2>1. /\ i \in Notices => sender[s].attempt = out[i].attempts
          /\ i \in Batches => sender[s].attempt = batch[i].attempts
      BY <1>1, <1>2, <1>4, <1>a DEF ClaimFits, Unchanged
    <2>2. sender[s].attempt + 1 \in 0..MaxAttempts /\ sender[s].attempt \in Nat
      <3>1. sender[s].attempt < MaxAttempts
        BY <1>1, <1>4, <2>1, JobIs DEF Claimable
      <3>2. sender[s].attempt \in 0..MaxAttempts
        BY <1>1 DEF SenderStates
      <3> QED BY <3>1, <3>2, PortalAssumption
    <2> DEFINE next == sender[s].attempt + 1
               moved == [sender[s] EXCEPT !.at = "resolve", !.attempt = next]
    <2>3. sender' = [sender EXCEPT ![s] = moved]
      BY <1>1, <1>4 DEF SenderStates
    <2> HIDE DEF next
    <2>4. moved \in SenderStates /\ moved.on = i /\ moved.at = "resolve"
      BY <1>1, <1>a, <2>2 DEF SenderStates, Held, next
    <2> HIDE DEF moved
    <2>5. moved # None
      BY <2>4, NoneApart
    <2>6. Alone(s) /\ sender'[s] # None /\ sender'[s].on = i /\ sender'[s].at = "resolve"
      BY <1>0, <2>3, <2>4, <2>5 DEF TypeOK, Alone
    <2>7. CASE i \in Notices
      <3> DEFINE new == [out[i] EXCEPT !.status = "processing", !.attempts = next, !.due = FALSE]
      <3>1. out[i] \in Rows /\ out[i].status \notin Ends
        BY <1>0, <1>1, <1>4, <2>7, JobIs, Typed DEF Claimable, Open, Ends
      <3>2. out' = [out EXCEPT ![i] = new] /\ batch' = batch
        BY <1>1, <1>4, <2>1, <2>7, <3>1 DEF Take, Rows, next
      <3>3. new \in Rows /\ new.attempts = next
        BY <2>2, <3>1 DEF Rows, Status, next
      <3> HIDE DEF new
      <3>4. out[i].attempts <= new.attempts /\ new # None
        BY <2>1, <2>2, <2>7, <3>3, NoneApart DEF next
      <3>5. Forward /\ out' \in [Notices -> Rows \cup {None}] /\ out'[i] = new
        BY <1>0, <2>7, <3>1, <3>2, <3>3, <3>4, OneNotice
      <3>6. TypeOK'
        BY <1>0, <2>6, <3>2, <3>5 DEF TypeOK, Alone
      <3>7. Job(i)' # None /\ Attempts(i)' = Attempts(i) + 1
        BY <1>1, <2>1, <2>7, <3>3, <3>4, <3>5 DEF Job, Attempts, next
      <3> QED BY <1>0, <1>1, <1>a, <2>6, <2>7, <3>2, <3>5, <3>6, <3>7, TakeSound
    <2>8. CASE i \in Batches
      <3> DEFINE later == batch[i].revision + 1
                 new == [batch[i] EXCEPT !.status = "processing", !.attempts = next, !.due = FALSE,
                                         !.sealed = TRUE, !.revision = later, !.token = next]
      <3>1. batch[i] \in BatchRows /\ batch[i].status \notin Ends /\ batch[i].due
        BY <1>0, <1>1, <1>4, <2>8, JobIs, Typed DEF Claimable, Open, Ends
      <3>a. /\ out' = out
            /\ batch' = [batch EXCEPT ![i] =
                 [batch[i] EXCEPT !.status = "processing", !.attempts = batch[i].attempts + 1, !.due = FALSE,
                                  !.sealed = TRUE, !.revision = batch[i].revision + 1, !.token = batch[i].attempts + 1]]
        BY <1>1, <1>4, <2>8, Zenon DEF Take
      <3>2. batch' = [batch EXCEPT ![i] = new] /\ out' = out
        BY <2>1, <2>8, <3>a DEF next
      <3>3. later \in Nat /\ batch[i].revision < later
        BY <3>1, Counted
      <3> HIDE DEF later
      <3>4. next \in 0..MaxAttempts /\ next \in 1..MaxAttempts
        BY <2>2, PortalAssumption DEF next
      <3>5. new \in BatchRows
        BY <3>1, <3>3, <3>4 DEF BatchRows, Status
      <3>6. /\ new.attempts = next /\ new.revision = later /\ new.print = batch[i].print
            /\ new.status = "processing" /\ ~new.due
        BY <3>1 DEF BatchRows
      <3> HIDE DEF new
      <3>7. batch[i].attempts <= new.attempts /\ new # None /\ batch[i].revision < new.revision
        BY <2>1, <2>2, <2>8, <3>3, <3>5, <3>6, NoneApart DEF next
      <3>8. /\ Forward /\ batch' \in [Batches -> BatchRows \cup {None}] /\ batch'[i] = new
            /\ \A b \in Batches : b # i => batch'[b] = batch[b]
        BY <1>0, <2>8, <3>1, <3>2, <3>5, <3>6, <3>7, OneBatch
      <3>9. TypeOK'
        BY <1>0, <2>6, <3>2, <3>8 DEF TypeOK, Alone
      <3>10. Job(i)' # None /\ Attempts(i)' = Attempts(i) + 1
        BY <1>1, <2>1, <2>8, <3>6, <3>7, <3>8 DEF Job, Attempts, next
      <3> QED BY <1>0, <1>1, <1>a, <2>6, <2>8, <3>1, <3>6, <3>8, <3>9, <3>10, TakeSound
    <2> QED BY <1>1, <2>7, <2>8
  <1> QED BY <1>3, <1>4, <1>a DEF Claim

(* The provider is called; an accepted mail says what the batch says.      *)
LEMMA MailSound ==
  ASSUME PortalSound, NEW s \in Senders, Mail(s)
  PROVE  PortalSound'
  <1> USE DEF env, lanes
  <1>0. /\ TypeOK /\ UNCHANGED <<staging, contact, live, out, item, batch, control, late>>
        /\ sender[s] # None /\ sender[s].at = "mail"
    BY DEF Mail, PortalSound, At
  <1>a. PICK i : i = sender[s].on
    OBVIOUS
  <1>1. /\ sender[s] \in SenderStates /\ i \in Notices \cup Batches
        /\ i \in Notices => i \notin Batches /\ out[i] # None
        /\ i \in Batches => i \notin Notices /\ batch[i] # None
    BY <1>0, <1>a, HolderTyped
  <1>2. Forward
    BY <1>0, RowsUnmoved
  <1>3. Alone(s) /\ sender'[s] # None /\ sender'[s].at \in {"sent", "error"} /\ sender'[s].on = i
    <2>1. PICK state \in {"sent", "error"} : Goto(s, state)
      BY DEF Mail
    <2>2. state \in Held \cup {"drop"}
      BY DEF Held
    <2> QED BY <1>0, <1>a, <2>1, <2>2, GotoMoves
  <1>4. Quiet(s) /\ sender' \in [Senders -> SenderStates \cup {None}]
    BY <1>0, <1>3, <1>a DEF Quiet, Mailing, Held, Alone
  <1>5. Fits(s)'
    BY <1>0, <1>1, <1>3 DEF Fits, Job
  <1>6. CASE UNCHANGED <<mails, carried>>
    <2>1. TypeOK'
      BY <1>0, <1>4, <1>6 DEF TypeOK
    <2> QED BY <1>0, <1>2, <1>3, <1>4, <1>5, <1>6, <2>1, QuietSound
  <1>7. CASE /\ mails' = [mails EXCEPT ![i] = @ + 1]
             /\ carried' = [b \in Batches |-> IF b = i THEN carried[b] \cup {sender[s].print} ELSE carried[b]]
    <2>1. \A j \in Notices \cup Batches : mails[j] \in Nat /\ Attempts(j) \in Nat /\ Attempts(j) <= MaxAttempts
      <3>1. \A j \in Notices \cup Batches : mails[j] \in Nat
        BY <1>0, PortalAssumption DEF TypeOK
      <3>2. \A j \in Notices : Attempts(j) \in Nat /\ Attempts(j) <= MaxAttempts
        BY <1>0, JobIs, Typed, Counted, PortalAssumption DEF Attempts
      <3>3. \A j \in Batches : Attempts(j) \in Nat /\ Attempts(j) <= MaxAttempts
        BY <1>0, JobIs, Typed, Counted, PortalAssumption DEF Attempts
      <3> QED BY <3>1, <3>2, <3>3
    <2>2. s \in Unmailed(i) /\ Unmailed(i)' \subseteq Unmailed(i) \ {s}
      BY <1>0, <1>3, <1>a DEF Unmailed, Alone
    <2>3. /\ IsFiniteSet(Unmailed(i) \ {s})
          /\ (mails[i] + 1) + Cardinality(Unmailed(i) \ {s}) <= Attempts(i) /\ mails[i] + 1 <= Attempts(i)
      <3>1. IsFiniteSet(Unmailed(i)) /\ mails[i] + Cardinality(Unmailed(i)) <= Attempts(i)
        BY <1>1 DEF PortalSound, MailsCounted
      <3> QED BY <1>1, <2>1, <2>2, <3>1, OneLessCounted
    <2>4. mails[i] + 1 \in 0..MaxAttempts /\ mails[i] + 1 \in Nat
      BY <1>1, <2>1, <2>3, PortalAssumption
    <2>5. /\ mails' \in [Notices \cup Batches -> 0..MaxAttempts] /\ mails'[i] = mails[i] + 1
          /\ \A j \in Notices \cup Batches : j # i => mails'[j] = mails[j]
      BY <1>0, <1>1, <1>7, <2>4 DEF TypeOK
    <2>6. i \in Batches => sender[s].print \in Messages /\ sender[s].print = batch[i].print
      BY <1>0, <1>1, <1>a DEF PortalSound, SendersFit, Fits, SenderStates
    <2>7. carried' \in [Batches -> SUBSET Messages]
      BY <1>0, <1>7, <2>6 DEF TypeOK
    <2>8. TypeOK'
      BY <1>0, <1>4, <2>5, <2>7 DEF TypeOK
    <2>9. MailsCounted'
      <3> SUFFICES ASSUME NEW j \in Notices \cup Batches
          PROVE  IsFiniteSet(Unmailed(j)') /\ mails'[j] + Cardinality(Unmailed(j)') <= Attempts(j)
        BY <1>0 DEF MailsCounted, Attempts, Job
      <3>1. CASE j = i
        BY <3>1, <2>1, <2>2, <2>3, <2>4, <2>5, FewerCounted
      <3>2. CASE j # i
        <4>1. Unmailed(j)' \subseteq Unmailed(j)
          BY <3>2, <1>3 DEF Unmailed, Alone
        <4>2. IsFiniteSet(Unmailed(j)) /\ mails[j] + Cardinality(Unmailed(j)) <= Attempts(j)
          BY DEF PortalSound, MailsCounted
        <4> QED BY <3>2, <4>1, <4>2, <2>1, <2>5, FewerCounted
      <3> QED BY <3>1, <3>2
    <2>10. MailsFrozen'
      BY <1>0, <1>1, <1>7, <2>6 DEF PortalSound, MailsFrozen, TypeOK
    <2>11. SendersFit'
      BY <1>0, <1>2, <1>3, <1>5, <2>8, UnmovedFits DEF PortalSound, SendersFit, Alone
    <2>12. LeaseExclusive'
      <3>1. \A b \in Batches, r \in Senders : HeldBy(r, b)' => HeldBy(r, b)
        BY <1>3, <1>4 DEF HeldBy, Alone, Quiet
      <3> QED BY <1>0, <3>1, LeaseKept DEF PortalSound
    <2>13. Adopted' /\ RequestsFit' /\ ReceiptsTruthful'
      BY <1>0, <1>2, <2>8, AdoptedKept, ReceiptsKept DEF PortalSound
    <2> QED BY <2>8, <2>9, <2>10, <2>11, <2>12, <2>13 DEF PortalSound
  <1> QED BY <1>6, <1>7, <1>a DEF Mail

(* Every step keeps the invariant.                                         *)
LEMMA NextSound == PortalSound /\ [Next]_vars => PortalSound'
  <1> SUFFICES ASSUME PortalSound, [Next]_vars PROVE PortalSound'
    OBVIOUS
  <1>1. CASE Migrate \/ ChangeAuthority
    BY <1>1, WorldSound
  <1>2. ASSUME NEW n \in Notices, Adopt(n) \/ \E grant \in BOOLEAN : Intent(n, grant) PROVE PortalSound'
    BY <1>2, AdoptSound, IntentSound
  <1>3. ASSUME NEW i \in Notices \cup Batches, TimePasses(i) \/ Sweep(i) PROVE PortalSound'
    BY <1>3, TimePassesSound, SweepSound
  <1>4. ASSUME NEW k \in Keys, Apply(k) \/ \E b \in Batches : Request(k, b) PROVE PortalSound'
    BY <1>4, ApplySound, RequestSound
  <1>5. ASSUME NEW s \in Senders, SendStep(s) \/ Crash(s) PROVE PortalSound'
    BY <1>5, LookSound, DropSound, ClaimSound, ResolveSound, PublishSound, MailSound, FinishSound, CrashSound
       DEF SendStep
  <1>6. ASSUME NEW s \in Senders, (\E b \in Batches : SelectBatch(s, b)) \/ \E n \in Notices : SelectNotice(s, n)
        PROVE  PortalSound'
    BY <1>6, SelectBatchSound, SelectNoticeSound
  <1>7. CASE UNCHANGED vars
    <2> USE DEF vars, env, lanes, history
    <2>1. TypeOK /\ TypeOK' /\ Forward
      BY <1>7, RowsUnmoved DEF PortalSound, TypeOK
    <2>2. Adopted' /\ RequestsFit' /\ ReceiptsTruthful'
      BY <1>7, <2>1, AdoptedKept, ReceiptsKept DEF PortalSound
    <2> QED BY <1>7, <2>1, <2>2, RowStepSound
  <1> QED BY <1>1, <1>2, <1>3, <1>4, <1>5, <1>6, <1>7 DEF Next

-----------------------------------------------------------------------------
(* Rows, invocations, staff requests and mails fit together at every step, *)
(* for any number of notices, batches, requests and invocations.           *)
THEOREM PortalSoundAlways == Spec => []PortalSound
  BY InitSound, NextSound, PTL DEF Spec

(* Every reachable state is well typed: no notice and no batch is claimed  *)
(* or mailed more than MaxAttempts times.                                  *)
THEOREM TypeCorrect == Spec => []TypeOK
  <1>1. PortalSound => TypeOK
    BY DEF PortalSound
  <1> QED BY <1>1, PortalSoundAlways, PTL

(* No notice that was staged in a batch is ever mailed by the direct lane: *)
(* adoption wants a row of no attempt, and attempts cover the mails.       *)
THEOREM OneLaneHolds == Spec => []OneLane
  <1>1. PortalSound => OneLane
    <2> SUFFICES ASSUME PortalSound, NEW n \in Notices, item[n] # None PROVE mails[n] = 0
      BY DEF OneLane
    <2>1. Attempts(n) = 0
      BY JobIs DEF PortalSound, Adopted, Attempts
    <2>2. mails[n] \in Nat /\ IsFiniteSet(Unmailed(n)) /\ mails[n] + Cardinality(Unmailed(n)) <= 0
      BY <2>1, PortalAssumption DEF PortalSound, TypeOK, MailsCounted
    <2>3. Cardinality(Unmailed(n)) \in Nat
      BY <2>2, FS_CardinalityType
    <2> QED BY <2>2, <2>3
  <1> QED BY <1>1, PortalSoundAlways, PTL

(* All accepted mails of a batch say the same: each said what its row      *)
(* holds, and a print that is set never changes.                           *)
THEOREM OneMessageHolds == Spec => []OneMessage
  <1>1. PortalSound => OneMessage
    <2> SUFFICES ASSUME PortalSound, NEW b \in Batches PROVE Cardinality(carried[b]) <= 1
      BY DEF OneMessage
    <2> DEFINE print == {batch[b].print}
    <2>1. carried[b] \subseteq print
      BY DEF PortalSound, MailsFrozen
    <2>2. IsFiniteSet(print) /\ Cardinality(print) = 1
      BY FS_Singleton
    <2> HIDE DEF print
    <2>3. Cardinality(carried[b]) <= Cardinality(print)
      BY <2>1, <2>2, FS_Subset
    <2> QED BY <2>2, <2>3
  <1> QED BY <1>1, PortalSoundAlways, PTL

(* A batch that staff cancelled stays cancelled, and no two requests that  *)
(* saw the same revision of a batch were both applied.                     *)
THEOREM ReceiptsTruthfulHolds == Spec => []ReceiptsTruthful
  <1>1. PortalSound => ReceiptsTruthful
    BY DEF PortalSound
  <1> QED BY <1>1, PortalSoundAlways, PTL

-----------------------------------------------------------------------------
(* Staging is the only step that moves a notice into a batch.              *)
LEMMA OnlyStageMoves ==
  ASSUME [Next]_vars
  PROVE  \/ UNCHANGED item
         \/ \E n \in Notices :
              /\ Stage(n) /\ UNCHANGED mails
              /\ out[n] = None \/ (out[n].status = "pending" /\ out[n].attempts = 0 /\ item[n] = None)
  <1> USE DEF vars, lanes, history
  <1>1. CASE Migrate \/ ChangeAuthority
    BY <1>1 DEF Migrate, ChangeAuthority
  <1>2. ASSUME NEW n \in Notices, Adopt(n) \/ \E grant \in BOOLEAN : Intent(n, grant)
        PROVE  UNCHANGED item \/ (/\ Stage(n) /\ UNCHANGED mails
                                  /\ out[n] = None \/ (out[n].status = "pending" /\ out[n].attempts = 0 /\ item[n] = None))
    BY <1>2 DEF Adopt, Intent, Untouched
  <1>3. CASE \E i \in Notices \cup Batches : TimePasses(i) \/ Sweep(i)
    BY <1>3 DEF TimePasses, Sweep
  <1>4. CASE \E k \in Keys : Apply(k) \/ \E b \in Batches : Request(k, b)
    BY <1>4 DEF Apply, Request
  <1>5. CASE \E s \in Senders : SendStep(s) \/ Crash(s)
    BY <1>5 DEF SendStep, Crash, Look, Drop, Claim, Resolve, Publish, Mail, Finish
  <1>6. CASE \E s \in Senders : (\E b \in Batches : SelectBatch(s, b)) \/ \E n \in Notices : SelectNotice(s, n)
    BY <1>6 DEF SelectBatch, SelectNotice
  <1> QED BY <1>1, <1>2, <1>3, <1>4, <1>5, <1>6 DEF Next

(* The provider is called by Mail alone.                                   *)
LEMMA OnlyMailMails ==
  ASSUME [Next]_vars
  PROVE  UNCHANGED mails \/ \E s \in Senders : Mail(s)
  <1> USE DEF vars, lanes, history
  <1>1. CASE Migrate \/ ChangeAuthority
    BY <1>1 DEF Migrate, ChangeAuthority
  <1>2. CASE \E n \in Notices : Adopt(n) \/ \E grant \in BOOLEAN : Intent(n, grant)
    BY <1>2 DEF Adopt, Intent
  <1>3. CASE \E i \in Notices \cup Batches : TimePasses(i) \/ Sweep(i)
    BY <1>3 DEF TimePasses, Sweep
  <1>4. CASE \E k \in Keys : Apply(k) \/ \E b \in Batches : Request(k, b)
    BY <1>4 DEF Apply, Request
  <1>5. CASE \E s \in Senders : SendStep(s) \/ Crash(s)
    BY <1>5 DEF SendStep, Crash, Look, Drop, Claim, Resolve, Publish, Finish
  <1>6. CASE \E s \in Senders : (\E b \in Batches : SelectBatch(s, b)) \/ \E n \in Notices : SelectNotice(s, n)
    BY <1>6 DEF SelectBatch, SelectNotice
  <1> QED BY <1>1, <1>2, <1>3, <1>4, <1>5, <1>6 DEF Next

(* A sealed batch neither gains nor loses a notice: a notice is staged     *)
(* once, and only in a batch that is open for more.                        *)
THEOREM SealedStaysHolds == Spec => SealedStays
  <1> DEFINE Step == \A b \in Batches : batch[b] # None /\ batch[b].sealed => Members(b)' = Members(b)
  <1>1. PortalSound /\ [Next]_vars => [Step]_vars
    <2> SUFFICES ASSUME PortalSound, [Next]_vars, NEW b \in Batches, batch[b] # None, batch[b].sealed
        PROVE  Members(b)' = Members(b)
      OBVIOUS
    <2>1. CASE UNCHANGED item
      BY <2>1 DEF Members
    <2>2. ASSUME NEW n \in Notices, Stage(n),
                 out[n] = None \/ (out[n].status = "pending" /\ out[n].attempts = 0 /\ item[n] = None)
          PROVE  Members(b)' = Members(b)
      <3>1. item[n] = None /\ (out[n] # None => out[n].status = "pending" /\ out[n].attempts = 0)
        BY <2>2 DEF PortalSound, Adopted
      <3>2. PICK c \in Batches : (batch[c] # None => ~batch[c].sealed) /\ item' = [item EXCEPT ![n] = c]
        BY <2>2, <3>1, StageShape
      <3>3. c # b /\ b # None
        BY <3>2, NoneApart
      <3> QED BY <3>1, <3>2, <3>3 DEF Members, PortalSound, TypeOK
    <2> QED BY <2>1, <2>2, OnlyStageMoves
  <1> QED BY <1>1, PortalSoundAlways, PTL DEF Spec, SealedStays

(* A batch cancelled by staff is not mailed any more, unless an invocation *)
(* outlived its lease: who mails holds a lease, which is in processing.    *)
THEOREM CancelStopsHolds == Spec => CancelStops
  <1> DEFINE Step == \A b \in Batches \ late : Ended(b) /\ batch[b].status = "cancelled" => mails'[b] = mails[b]
  <1>1. PortalSound /\ [Next]_vars => [Step]_vars
    <2> SUFFICES ASSUME PortalSound, [Next]_vars, NEW b \in Batches \ late, batch[b].status = "cancelled"
        PROVE  mails'[b] = mails[b]
      OBVIOUS
    <2>1. ASSUME NEW s \in Senders, Mail(s) PROVE mails'[b] = mails[b]
      <3>1. sender[s].on # b
        BY <2>1 DEF Mail, At, Held, HeldBy, PortalSound, LeaseExclusive
      <3> QED BY <2>1, <3>1 DEF Mail, PortalSound, TypeOK
    <2> QED BY <2>1, OnlyMailMails
  <1> QED BY <1>1, PortalSoundAlways, PTL DEF Spec, CancelStops

-----------------------------------------------------------------------------
(* The attempt ledger.  What a step that is no claim and no mail may do to *)
(* a job: nothing that shows, give it back, end it, or bring it about.     *)
JobStep(i) ==
  \/ Job(i)' = Job(i)
  \/ /\ Job(i) # None /\ Job(i)' # None /\ Job(i)'.attempts = Job(i).attempts
     /\ \/ Job(i)'.status = Job(i).status
        \/ Job(i).status \in {"pending", "processing"} /\ Job(i)'.status \in Ends
        \/ Job(i).status = "processing" /\ Job(i)'.status = "pending"
  \/ Job(i) = None /\ Job(i)' # None /\ Job(i)'.attempts = 0 /\ Job(i)'.status \in Ends \cup {"pending"}

Shown == UNCHANGED mails /\ \A i \in Notices \cup Batches : JobStep(i)

(* Such steps are moves of the ledger.                                     *)
LEMMA ShownIsMove ==
  ASSUME Shown
  PROVE  Ledger!Move
  <1>1. ASSUME NEW i \in Notices \cup Batches
        PROVE  /\ Attempts(i)' = Attempts(i)
               /\ Phase(i)' \in Ledger!Phases
               /\ Phase(i)' = Phase(i) \/ <<Phase(i), Phase(i)'>> \in Ledger!Moves
    <2>1. JobStep(i)
      BY DEF Shown
    <2>2. CASE Job(i)' = Job(i)
      BY <2>2 DEF Attempts, Phase, Ended, Ledger!Phases
    <2>3. CASE /\ Job(i) # None /\ Job(i)' # None /\ Job(i)'.attempts = Job(i).attempts
               /\ \/ Job(i)'.status = Job(i).status
                  \/ Job(i).status \in {"pending", "processing"} /\ Job(i)'.status \in Ends
                  \/ Job(i).status = "processing" /\ Job(i)'.status = "pending"
      BY <2>3 DEF Attempts, Phase, Ended, Ends, Ledger!Phases, Ledger!Moves
    <2>4. CASE Job(i) = None /\ Job(i)' # None /\ Job(i)'.attempts = 0 /\ Job(i)'.status \in Ends \cup {"pending"}
      BY <2>4 DEF Attempts, Phase, Ended, Ends, Ledger!Phases, Ledger!Moves
    <2> QED BY <2>1, <2>2, <2>3, <2>4 DEF JobStep
  <1> QED BY <1>1 DEF Ledger!Move, Shown

(* Nothing happens to the rows.                                            *)
LEMMA RowsStillShown ==
  ASSUME UNCHANGED <<out, batch, mails>>
  PROVE  Shown
  BY DEF Shown, JobStep, Job

(* One notice changes.                                                     *)
LEMMA NoticeShown ==
  ASSUME UNCHANGED <<batch, mails>>, NEW n \in Notices, JobStep(n),
         \A m \in Notices : m # n => out'[m] = out[m]
  PROVE  Shown
  BY JobIs DEF Shown, JobStep, Job

(* One batch changes.                                                      *)
LEMMA BatchShown ==
  ASSUME UNCHANGED <<out, mails>>, NEW b \in Batches, JobStep(b),
         \A c \in Batches : c # b => batch'[c] = batch[c]
  PROVE  Shown
  BY JobIs DEF Shown, JobStep, Job

(* The clock does not show.                                                *)
LEMMA TimeShown ==
  ASSUME PortalSound, NEW i \in Notices \cup Batches, TimePasses(i)
  PROVE  Shown
  <1>0. TypeOK /\ UNCHANGED mails
    BY DEF PortalSound, TimePasses
  <1>1. CASE i \in Notices /\ out' = [out EXCEPT ![i].due = TRUE] /\ UNCHANGED batch
    <2>1. out[i] \in Rows
      BY <1>0, <1>1, JobIs, Typed DEF TimePasses, Open
    <2>2. out'[i] # None /\ out[i] # None /\ out'[i].status = out[i].status /\ out'[i].attempts = out[i].attempts
      <3>1. out'[i] = [out[i] EXCEPT !.due = TRUE]
        BY <1>0, <1>1 DEF TypeOK
      <3>2. [out[i] EXCEPT !.due = TRUE] \in Rows
        BY <2>1 DEF Rows
      <3> QED BY <2>1, <3>1, <3>2, NoneApart DEF Rows
    <2>3. JobStep(i)
      BY <1>1, <2>2 DEF JobStep, Job
    <2> QED BY <1>0, <1>1, <2>3, NoticeShown DEF TypeOK
  <1>2. CASE i \in Batches /\ batch' = [batch EXCEPT ![i].due = TRUE] /\ UNCHANGED out
    <2>1. batch[i] \in BatchRows /\ i \notin Notices
      BY <1>0, <1>2, JobIs, Typed DEF TimePasses, Open
    <2>2. batch'[i] # None /\ batch[i] # None /\ batch'[i].status = batch[i].status /\ batch'[i].attempts = batch[i].attempts
      <3>1. batch'[i] = [batch[i] EXCEPT !.due = TRUE]
        BY <1>0, <1>2 DEF TypeOK
      <3>2. [batch[i] EXCEPT !.due = TRUE] \in BatchRows
        BY <2>1 DEF BatchRows
      <3> QED BY <2>1, <3>1, <3>2, NoneApart DEF BatchRows
    <2>3. JobStep(i)
      BY <2>1, <2>2 DEF JobStep, Job
    <2> QED BY <1>0, <1>2, <2>3, BatchShown DEF TypeOK
  <1> QED BY <1>1, <1>2 DEF TimePasses

(* The sweep ends what has used up its attempts.                           *)
LEMMA SweepShown ==
  ASSUME PortalSound, NEW i \in Notices \cup Batches, Sweep(i)
  PROVE  Shown
  <1>0. TypeOK /\ UNCHANGED mails
    BY DEF PortalSound, Sweep, history
  <1>1. CASE i \in Notices /\ out' = [out EXCEPT ![i].status = "failed"] /\ UNCHANGED batch
    <2>1. out[i] \in Rows /\ out[i] # None /\ out[i].status \in {"pending", "processing"}
      BY <1>0, <1>1, JobIs, Typed DEF Sweep, Exhausted, Open
    <2>2. out'[i] # None /\ out'[i].status = "failed" /\ out'[i].attempts = out[i].attempts
      <3>1. out'[i] = [out[i] EXCEPT !.status = "failed"]
        BY <1>0, <1>1 DEF TypeOK
      <3>2. [out[i] EXCEPT !.status = "failed"] \in Rows
        BY <2>1 DEF Rows, Status, Ends
      <3> QED BY <2>1, <3>1, <3>2, NoneApart DEF Rows
    <2>3. JobStep(i)
      BY <1>1, <2>1, <2>2 DEF JobStep, Job, Ends
    <2> QED BY <1>0, <1>1, <2>3, NoticeShown DEF TypeOK
  <1>2. CASE /\ i \in Batches /\ UNCHANGED out
             /\ batch' = [batch EXCEPT ![i].status = "failed", ![i].revision = @ + 1, ![i].token = None]
    <2>1. batch[i] \in BatchRows /\ batch[i] # None /\ i \notin Notices /\ batch[i].status \in {"pending", "processing"}
      BY <1>0, <1>2, JobIs, Typed DEF Sweep, Exhausted, Open
    <2>2. batch'[i] # None /\ batch'[i].status = "failed" /\ batch'[i].attempts = batch[i].attempts
      <3>1. PICK next \in Nat : next = batch[i].revision + 1
        BY <2>1, Counted
      <3>2. batch'[i] = [batch[i] EXCEPT !.status = "failed", !.revision = next, !.token = None]
        BY <1>0, <1>2, <2>1, <3>1 DEF TypeOK, BatchRows
      <3>3. [batch[i] EXCEPT !.status = "failed", !.revision = next, !.token = None] \in BatchRows
        BY <2>1, <3>1 DEF BatchRows, Status, Ends
      <3> QED BY <2>1, <3>2, <3>3, NoneApart DEF BatchRows
    <2>3. JobStep(i)
      BY <2>1, <2>2 DEF JobStep, Job, Ends
    <2> QED BY <1>0, <1>2, <2>3, BatchShown DEF TypeOK
  <1> QED BY <1>1, <1>2 DEF Sweep

(* Staging closes the notice and brings about a batch, or does not show of *)
(* the batch.                                                              *)
LEMMA StageShown ==
  ASSUME PortalSound, NEW n \in Notices, Stage(n), UNCHANGED mails,
         out[n] = None \/ (out[n].status = "pending" /\ out[n].attempts = 0 /\ item[n] = None)
  PROVE  Shown
  <1>1. item[n] = None /\ (out[n] # None => out[n].status = "pending" /\ out[n].attempts = 0)
    BY DEF PortalSound, Adopted
  <1>2. /\ Forward
        /\ out'[n] # None /\ out'[n].status = "suppressed" /\ out'[n].attempts = 0
        /\ \A m \in Notices : m # n => out'[m] = out[m]
        /\ \A b \in Batches : batch[b] = None /\ batch'[b] # None => batch'[b].status = "pending" /\ batch'[b].attempts = 0
        /\ \A b \in Batches : batch[b] # None => batch'[b].status = batch[b].status /\ batch'[b].attempts = batch[b].attempts
    BY <1>1, StageShape
  <1>3. \A m \in Notices : JobStep(m)
    BY <1>1, <1>2 DEF JobStep, Job, Ends
  <1>4. \A b \in Batches : JobStep(b)
    BY <1>2, JobIs DEF JobStep, Job, Forward, BatchKept
  <1> QED BY <1>3, <1>4 DEF Shown

(* A notice comes.                                                         *)
LEMMA IntentShown ==
  ASSUME PortalSound, NEW n \in Notices, NEW grant \in BOOLEAN, Intent(n, grant)
  PROVE  Shown
  <1>1. CASE Stage(n)
    BY <1>1, StageShown DEF Intent, history
  <1>2. CASE out' = [out EXCEPT ![n] = Fresh(grant)] /\ UNCHANGED <<item, batch>>
    <2>1. Fresh(grant) \in Rows
      BY PortalAssumption DEF Fresh, Rows, Status
    <2>2. Fresh(grant) # None /\ Fresh(grant).status = "pending" /\ Fresh(grant).attempts = 0
      BY <2>1, NoneApart DEF Fresh
    <2>3. out[n] = None /\ out'[n] = Fresh(grant) /\ \A m \in Notices : m # n => out'[m] = out[m]
      BY <1>2 DEF Intent, PortalSound, TypeOK
    <2>4. JobStep(n)
      BY <2>2, <2>3 DEF JobStep, Job
    <2> QED BY <1>2, <2>3, <2>4, NoticeShown DEF Intent, history
  <1> QED BY <1>1, <1>2 DEF Intent

(* A staff request ends the batch, or does not show.                       *)
LEMMA ApplyShown ==
  ASSUME PortalSound, NEW k \in Keys, Apply(k)
  PROVE  Shown
  <1>0. TypeOK /\ UNCHANGED <<out, mails>>
    BY DEF Apply, PortalSound, history
  <1>1. PICK b \in Batches : b = control[k].on /\ batch[b] # None /\ batch[b] \in BatchRows /\ batch[b].status = "pending"
    <2>1. control[k] \in Requests /\ batch[control[k].on] # None
      BY <1>0, Typed DEF Apply, PortalSound, RequestsFit
    <2>2. control[k].on \in Batches
      BY <2>1 DEF Requests
    <2> QED BY <1>0, <2>1, <2>2, Typed DEF Apply, Applicable
  <1> DEFINE status == IF control[k].action = "cancel" THEN "cancelled" ELSE "pending"
             due == batch[b].due \/ control[k].action = "send-now"
             next == batch[b].revision + 1
             new == [batch[b] EXCEPT !.status = status, !.revision = next, !.sealed = TRUE, !.due = due]
  <1>2. batch' = [batch EXCEPT ![b] = new]
    BY <1>1 DEF Apply, Controlled, BatchRows
  <1>3. next \in Nat /\ status \in Status /\ due \in BOOLEAN
    BY <1>1, Counted DEF Status, Ends, BatchRows
  <1> HIDE DEF next, due, status
  <1>4. new \in BatchRows /\ new.status = status /\ new.attempts = batch[b].attempts
    BY <1>1, <1>3 DEF BatchRows
  <1> HIDE DEF new
  <1>5. batch'[b] = new /\ new # None /\ \A c \in Batches : c # b => batch'[c] = batch[c]
    BY <1>0, <1>2, <1>4, NoneApart DEF TypeOK
  <1>6. JobStep(b)
    BY <1>1, <1>4, <1>5, JobIs DEF JobStep, Job, Ends, status
  <1> QED BY <1>0, <1>5, <1>6, BatchShown

(* A notice without authority is ended.                                    *)
LEMMA DropShown ==
  ASSUME PortalSound, NEW s \in Senders, Drop(s)
  PROVE  Shown
  <1>0. TypeOK /\ UNCHANGED <<batch, mails>>
    BY DEF Drop, PortalSound, history
  <1>1. PICK n \in Notices : n = sender[s].on /\ out[n] # None /\ out[n] \in Rows
    BY Typed, JobIs DEF Drop, At, PortalSound, SendersFit, Fits
  <1>2. CASE UNCHANGED out
    BY <1>0, <1>2, RowsStillShown
  <1>3. CASE Claimable(n) /\ out' = [out EXCEPT ![n].status = "suppressed"]
    <2> DEFINE new == [out[n] EXCEPT !.status = "suppressed"]
    <2>1. new \in Rows /\ new.status = "suppressed" /\ new.attempts = out[n].attempts
      BY <1>1 DEF Rows, Status, Ends
    <2>2. out' = [out EXCEPT ![n] = new]
      BY <1>3
    <2> HIDE DEF new
    <2>3. out'[n] = new /\ new # None /\ \A m \in Notices : m # n => out'[m] = out[m]
      BY <1>0, <2>1, <2>2, NoneApart DEF TypeOK
    <2>4. JobStep(n)
      BY <1>1, <1>3, <2>1, <2>3 DEF JobStep, Job, Claimable, Open, Ends
    <2> QED BY <1>0, <2>3, <2>4, NoticeShown
  <1> QED BY <1>1, <1>2, <1>3 DEF Drop

(* Publication does not show.                                              *)
LEMMA PublishShown ==
  ASSUME PortalSound, NEW s \in Senders, Publish(s)
  PROVE  Shown
  <1>0. TypeOK /\ UNCHANGED <<out, mails>>
    BY DEF Publish, PortalSound, history
  <1>1. CASE UNCHANGED batch
    BY <1>0, <1>1, RowsStillShown
  <1>2. CASE /\ Publishable(s)
             /\ batch' = [b \in Batches |-> IF b = sender[s].on THEN [batch[b] EXCEPT !.print = sender[s].print] ELSE batch[b]]
    <2>1. CASE sender[s].on \in Batches
      <3>1. PICK b \in Batches : b = sender[s].on
        BY <2>1
      <3>2. batch[b] # None /\ batch[b] \in BatchRows /\ sender[s].print \in Messages
        BY <1>0, <1>2, <3>1, HolderTyped, Typed, MessageTyped, JobIs DEF Publish, Publishable, At
      <3>3. batch'[b] = [batch[b] EXCEPT !.print = sender[s].print] /\ \A c \in Batches : c # b => batch'[c] = batch[c]
        BY <1>2, <3>1
      <3>4. [batch[b] EXCEPT !.print = sender[s].print] \in BatchRows
        BY <3>2 DEF BatchRows
      <3>5. batch'[b] # None /\ batch'[b].status = batch[b].status /\ batch'[b].attempts = batch[b].attempts
        BY <3>2, <3>3, <3>4, NoneApart DEF BatchRows
      <3>6. JobStep(b)
        BY <3>2, <3>5, JobIs DEF JobStep, Job
      <3> QED BY <1>0, <3>3, <3>6, BatchShown
    <2>2. CASE sender[s].on \notin Batches
      <3>1. batch' = batch
        BY <1>0, <1>2, <2>2 DEF TypeOK
      <3> QED BY <1>0, <3>1, RowsStillShown
    <2> QED BY <2>1, <2>2
  <1> QED BY <1>1, <1>2 DEF Publish

(* A result ends the job or gives it back.                                 *)
LEMMA FinishShown ==
  ASSUME PortalSound, NEW s \in Senders, Finish(s)
  PROVE  Shown
  <1>0. TypeOK /\ UNCHANGED mails /\ sender[s] # None
    BY DEF Finish, PortalSound, history, At
  <1>a. PICK i, status : i = sender[s].on /\ status = Outcome(s)
    OBVIOUS
  <1>1. status \in {"sent", "suppressed", "failed", "pending"} /\ status \in Status
    BY <1>a, OutcomeIs DEF Finish, Status, Ends
  <1>2. CASE UNCHANGED <<out, batch>>
    BY <1>0, <1>2, RowsStillShown
  <1>3. CASE Holds(s) /\ i \in Notices /\ UNCHANGED batch /\ out' = [out EXCEPT ![i].status = status, ![i].due = FALSE]
    <2> DEFINE new == [out[i] EXCEPT !.status = status, !.due = FALSE]
    <2>1. out[i] \in Rows /\ out[i] # None /\ out[i].status = "processing"
      BY <1>0, <1>3, <1>a, HolderTyped, Typed, JobIs DEF Holds
    <2>2. out' = [out EXCEPT ![i] = new]
      BY <1>3, <2>1 DEF Rows
    <2>3. new \in Rows /\ new.status = status /\ new.attempts = out[i].attempts
      BY <1>1, <2>1 DEF Rows
    <2> HIDE DEF new
    <2>4. out'[i] = new /\ new # None /\ \A m \in Notices : m # i => out'[m] = out[m]
      BY <1>0, <1>3, <2>2, <2>3, NoneApart DEF TypeOK
    <2>5. JobStep(i)
      BY <1>1, <1>3, <2>1, <2>3, <2>4 DEF JobStep, Job, Ends
    <2> QED BY <1>0, <1>3, <2>4, <2>5, NoticeShown
  <1>4. CASE /\ Holds(s) /\ i \in Batches /\ UNCHANGED out
             /\ batch' = [batch EXCEPT ![i].status = status, ![i].due = FALSE, ![i].revision = @ + 1, ![i].token = None]
    <2> DEFINE next == batch[i].revision + 1
               new == [batch[i] EXCEPT !.status = status, !.due = FALSE, !.revision = next, !.token = None]
    <2>1. batch[i] \in BatchRows /\ batch[i] # None /\ batch[i].status = "processing"
      BY <1>0, <1>4, <1>a, HolderTyped, Typed, JobIs DEF Holds
    <2>a. batch' = [batch EXCEPT ![i] = new]
      BY <1>4, <2>1 DEF BatchRows
    <2>2. batch' = [batch EXCEPT ![i] = new] /\ next \in Nat
      BY <2>1, <2>a, Counted
    <2> HIDE DEF next
    <2>3. new \in BatchRows /\ new.status = status /\ new.attempts = batch[i].attempts
      BY <1>1, <2>1, <2>2 DEF BatchRows
    <2> HIDE DEF new
    <2>4. batch'[i] = new /\ new # None /\ \A b \in Batches : b # i => batch'[b] = batch[b]
      BY <1>0, <1>4, <2>2, <2>3, NoneApart DEF TypeOK
    <2>5. JobStep(i)
      BY <1>1, <1>4, <2>1, <2>3, <2>4, JobIs DEF JobStep, Job, Ends
    <2> QED BY <1>0, <1>4, <2>4, <2>5, BatchShown
  <1> QED BY <1>2, <1>3, <1>4, <1>a DEF Finish, Finished

(* A claim takes the job; one that came too late does not show.            *)
LEMMA ClaimIsTake ==
  ASSUME PortalSound, NEW s \in Senders, Claim(s)
  PROVE  Shown \/ \E i \in Notices \cup Batches : Ledger!Take(i)
  <1>0. TypeOK /\ UNCHANGED mails /\ sender[s] # None
    BY DEF Claim, PortalSound, history, At
  <1>1. PICK i \in Notices \cup Batches : i = sender[s].on
    BY <1>0, HolderTyped
  <1>2. CASE UNCHANGED <<out, batch>>
    BY <1>0, <1>2, RowsStillShown
  <1>3. CASE Claimable(i) /\ Take(i)
    <2>1. /\ Job(i) # None /\ Job(i).status \in {"pending", "processing"} /\ Job(i).attempts < MaxAttempts
      BY <1>3 DEF Claimable, Open
    <2>2. /\ Job(i)' # None /\ Job(i)'.status = "processing" /\ Job(i)'.attempts = Job(i).attempts + 1
          /\ \A j \in Notices \cup Batches : j # i => Job(j)' = Job(j)
      <3>1. CASE i \in Notices
        <4>1. out[i] \in Rows /\ out[i].attempts + 1 \in 0..MaxAttempts
          BY <1>0, <2>1, <3>1, Typed, Counted, PortalAssumption DEF Job
        <4>2. PICK next \in 0..MaxAttempts : next = out[i].attempts + 1
          BY <4>1
        <4> DEFINE new == [out[i] EXCEPT !.status = "processing", !.attempts = next, !.due = FALSE]
        <4>3. out' = [out EXCEPT ![i] = new] /\ batch' = batch
          BY <1>3, <3>1, <4>1, <4>2, JobIs DEF Take, Rows
        <4>4. new \in Rows /\ new.status = "processing" /\ new.attempts = next
          BY <4>1 DEF Rows, Status
        <4> HIDE DEF new
        <4>5. out'[i] = new /\ new # None /\ \A m \in Notices : m # i => out'[m] = out[m]
          BY <1>0, <3>1, <4>3, <4>4, NoneApart DEF TypeOK
        <4> QED BY <3>1, <4>2, <4>3, <4>4, <4>5, JobIs DEF Job
      <3>2. CASE i \in Batches
        <4>1. i \notin Notices /\ batch[i] \in BatchRows
          BY <1>0, <2>1, <3>2, Typed, JobIs
        <4>a. batch[i].attempts + 1 \in 1..MaxAttempts /\ batch[i].revision + 1 \in Nat
          BY <2>1, <4>1, Counted, PortalAssumption DEF Job
        <4> DEFINE new == [batch[i] EXCEPT !.status = "processing", !.attempts = batch[i].attempts + 1, !.due = FALSE,
                             !.sealed = TRUE, !.revision = batch[i].revision + 1, !.token = batch[i].attempts + 1]
        <4>2. batch' = [batch EXCEPT ![i] = new] /\ out' = out
          BY <1>3, <4>1, Zenon DEF Take
        <4>3. new.status = "processing" /\ new.attempts = batch[i].attempts + 1
          BY <4>1 DEF BatchRows
        <4>4. new \in BatchRows
          <5>1. PICK next \in 1..MaxAttempts : next = batch[i].attempts + 1
            BY <4>a
          <5>2. PICK later \in Nat : later = batch[i].revision + 1
            BY <4>a
          <5>3. next \in 0..MaxAttempts
            BY PortalAssumption
          <5>4. [batch[i] EXCEPT !.status = "processing", !.attempts = next, !.due = FALSE,
                   !.sealed = TRUE, !.revision = later, !.token = next] \in BatchRows
            BY <4>1, <5>3 DEF BatchRows, Status
          <5> QED BY <5>1, <5>2, <5>4
        <4> HIDE DEF new
        <4>5. batch'[i] = new /\ new # None /\ \A b \in Batches : b # i => batch'[b] = batch[b]
          BY <1>0, <3>2, <4>2, <4>4, NoneApart DEF TypeOK
        <4> QED BY <3>2, <4>1, <4>2, <4>3, <4>5, JobIs DEF Job
      <3> QED BY <3>1, <3>2
    <2>3. Phase(i) \in {"open", "held"} /\ Phase(i)' = "held"
      BY <2>1, <2>2 DEF Phase, Ended, Ends
    <2>4. Attempts(i) < MaxAttempts /\ Attempts(i)' = Attempts(i) + 1
      BY <2>1, <2>2 DEF Attempts
    <2>5. \A j \in Notices \cup Batches : j # i => Phase(j)' = Phase(j) /\ Attempts(j)' = Attempts(j)
      BY <2>2 DEF Phase, Ended, Attempts
    <2> QED BY <1>0, <2>3, <2>4, <2>5 DEF Ledger!Take
  <1> QED BY <1>1, <1>2, <1>3 DEF Claim

(* A mail the provider accepted is accounted for by an attempt.            *)
LEMMA MailIsAccept ==
  ASSUME PortalSound, NEW s \in Senders, Mail(s)
  PROVE  Shown \/ \E i \in Notices \cup Batches : Ledger!Accept(i)
  <1>0. TypeOK /\ UNCHANGED <<out, batch>> /\ sender[s] # None /\ sender[s].at = "mail"
    BY DEF Mail, PortalSound, lanes, At
  <1>1. PICK i \in Notices \cup Batches : i = sender[s].on
    BY <1>0, HolderTyped
  <1>2. CASE UNCHANGED mails
    BY <1>0, <1>2, RowsStillShown
  <1>3. CASE mails' = [mails EXCEPT ![i] = @ + 1]
    <2>1. /\ [j \in Notices \cup Batches |-> Phase(j)]' = [j \in Notices \cup Batches |-> Phase(j)]
          /\ [j \in Notices \cup Batches |-> Attempts(j)]' = [j \in Notices \cup Batches |-> Attempts(j)]
      BY <1>0 DEF Phase, Ended, Attempts, Job
    <2>2. IsFiniteSet(Unmailed(i)) /\ mails[i] + Cardinality(Unmailed(i)) <= Attempts(i) /\ s \in Unmailed(i)
      BY <1>0, <1>1 DEF PortalSound, MailsCounted, Unmailed
    <2>3. mails[i] \in Nat /\ Attempts(i) \in Nat
      <3>1. (i \in Notices /\ out[i] # None => out[i].attempts \in Nat) /\ (i \in Batches /\ batch[i] # None => batch[i].attempts \in Nat)
        BY <1>0, Typed, Counted
      <3> QED BY <1>0, <3>1, PortalAssumption DEF TypeOK, Attempts, Job
    <2>4. mails[i] < Attempts(i)
      <3>1. mails[i] + 1 <= Attempts(i)
        BY <2>2, <2>3, OneLessCounted
      <3> QED BY <2>3, <3>1
    <2> QED BY <1>3, <2>1, <2>4 DEF Ledger!Accept
  <1> QED BY <1>1, <1>2, <1>3 DEF Mail

(* Both lanes, staging, staff requests and all invocations together        *)
(* implement the attempt ledger, for any number of notices, batches,       *)
(* invocations and attempts.                                               *)
THEOREM Refinement == Spec => IsLedger
  <1>1. Init => Ledger!Init
    <2> SUFFICES ASSUME Init PROVE Ledger!Init
      OBVIOUS
    <2>1. \A i \in Notices \cup Batches : Phase(i) = "absent" /\ Attempts(i) = 0
      BY DEF Init, Phase, Attempts, Job
    <2> QED BY <2>1 DEF Init, Ledger!Init
  <1>2. PortalSound /\ [Next]_vars => [Ledger!Next]_Ledger!ledgerVars
    <2> SUFFICES ASSUME PortalSound, [Next]_vars PROVE Ledger!Next
      OBVIOUS
    <2> USE DEF vars, lanes, history
    <2>1. CASE Migrate \/ ChangeAuthority
      BY <2>1, RowsStillShown, ShownIsMove DEF Migrate, ChangeAuthority, Ledger!Next
    <2>2. ASSUME NEW n \in Notices, Adopt(n) \/ \E grant \in BOOLEAN : Intent(n, grant) PROVE Ledger!Next
      <3>1. Adopt(n) => Shown
        BY StageShown DEF Adopt, Untouched
      <3> QED BY <2>2, <3>1, IntentShown, ShownIsMove DEF Ledger!Next
    <2>3. ASSUME NEW i \in Notices \cup Batches, TimePasses(i) \/ Sweep(i) PROVE Ledger!Next
      BY <2>3, TimeShown, SweepShown, ShownIsMove DEF Ledger!Next
    <2>4. ASSUME NEW k \in Keys, Apply(k) \/ \E b \in Batches : Request(k, b) PROVE Ledger!Next
      <3>1. ASSUME NEW b \in Batches, Request(k, b) PROVE Shown
        BY <3>1, RowsStillShown DEF Request
      <3> QED BY <2>4, <3>1, ApplyShown, ShownIsMove DEF Ledger!Next
    <2>5. ASSUME NEW s \in Senders, SendStep(s) \/ Crash(s) PROVE Ledger!Next
      <3>1. Look(s) \/ Resolve(s) \/ Crash(s) => Shown
        BY RowsStillShown DEF Look, Resolve, Crash
      <3>2. Drop(s) \/ Publish(s) \/ Finish(s) => Shown
        BY DropShown, PublishShown, FinishShown
      <3>3. Claim(s) \/ Mail(s) => Shown \/ \E i \in Notices \cup Batches : Ledger!Take(i) \/ Ledger!Accept(i)
        BY ClaimIsTake, MailIsAccept
      <3> QED BY <2>5, <3>1, <3>2, <3>3, ShownIsMove DEF SendStep, Ledger!Next
    <2>6. ASSUME NEW s \in Senders, (\E b \in Batches : SelectBatch(s, b)) \/ \E n \in Notices : SelectNotice(s, n)
          PROVE  Ledger!Next
      <3>1. UNCHANGED <<out, batch, mails>>
        BY <2>6 DEF SelectBatch, SelectNotice
      <3> QED BY <3>1, RowsStillShown, ShownIsMove DEF Ledger!Next
    <2>7. CASE UNCHANGED vars
      BY <2>7, RowsStillShown, ShownIsMove DEF Ledger!Next
    <2> QED BY <2>1, <2>2, <2>3, <2>4, <2>5, <2>6, <2>7 DEF Next
  <1> QED BY <1>1, <1>2, PortalSoundAlways, PTL DEF Spec, IsLedger, Ledger!Spec
=============================================================================
