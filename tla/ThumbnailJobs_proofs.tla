------------------------ MODULE ThumbnailJobs_proofs ------------------------
(***************************************************************************)
(* Proof that ThumbnailJobs is type correct, for any numbers of contents,  *)
(* slots and invocations, whatever they are started for, and any bounds.   *)
(*                                                                         *)
(* The part of it that is not obvious is the limit of the cleanup ledger:  *)
(* the cap is looked at when a cleanup is selected and not when it is      *)
(* claimed, so the attempts stay below the cap plus the number of          *)
(* concurrent invocations, and CleanupsCounted says why.                   *)
(***************************************************************************)
EXTENDS ThumbnailJobs, FiniteSetTheorems, TLAPS

(* None is no row, cleanup, invocation, slot or renderer.                  *)
LEMMA NoneApart ==
  /\ None \notin Rows /\ None \notin Cleanups /\ None \notin Jobs /\ None \notin SlotStates
  /\ None \notin Renderers
  BY ThumbnailNoneAssumption

(* The bounds are numbers, and versions are positive.                      *)
LEMMA Numbers ==
  /\ MaxDeliveries \in Nat \ {0} /\ MaxCleanups \in Nat \ {0} /\ MaxCopies \in Nat \ {0}
  /\ MaxUploads \in Nat /\ MaxFaults \in Nat
  /\ IsFiniteSet(Workers) /\ Cardinality(Workers) \in Nat
  /\ \A v \in Versions : v \in Nat /\ v # 0
  <1>1. IsFiniteSet(Workers) /\ Cardinality(Workers) \in Nat
    BY ThumbnailAssumption, FS_CardinalityType
  <1>2. Cardinality(Versions) \in Nat
    BY ThumbnailAssumption, FS_CardinalityType
  <1>3. \A v \in 1..Cardinality(Versions) : v \in Nat /\ v # 0
    BY <1>2
  <1> QED BY <1>1, <1>3, ThumbnailAssumption

(* The initial state.                                                      *)
LEMMA InitSound == Init => ThumbSound
  <1> SUFFICES ASSUME Init PROVE ThumbSound
    OBVIOUS
  <1>1. 0 \in Times
    BY Numbers DEF Times
  <1>2. TypeOK
    BY <1>1, Numbers DEF Init, TypeOK
  <1>3. JobsFit /\ CleanupsCounted
    BY DEF Init, JobsFit, CleanupsCounted
  <1> QED BY <1>2, <1>3 DEF ThumbSound

-----------------------------------------------------------------------------
(* The cleanup ledger.                                                     *)

(* Cleanups are never forgotten, and their attempts stay or start anew.    *)
LedgerKept ==
  /\ cleanup' \in [Versions -> Cleanups \cup {None}]
  /\ \A v \in Versions :
       /\ cleanup[v] # None => cleanup'[v] # None
       /\ cleanup'[v] # None =>
            cleanup'[v].tries = 0 \/ (cleanup[v] # None /\ cleanup'[v].tries = cleanup[v].tries)

(* Invocation w goes on, to anything but the claim of a cleanup.           *)
Onward(w) ==
  \E r \in Jobs \cup {None} :
    job' = [job EXCEPT ![w] = r] /\ (r # None => r.at # "take" /\ Fits(r))

(* The selected and unclaimed attempts of a cleanup are at most as many as *)
(* there are invocations.                                                  *)
LEMMA TakersFew ==
  ASSUME NEW v
  PROVE  /\ IsFiniteSet(Takers(v)) /\ Cardinality(Takers(v)) \in Nat
         /\ Cardinality(Takers(v)) <= Cardinality(Workers)
  <1>1. Takers(v) \subseteq Workers
    BY DEF Takers
  <1>2. IsFiniteSet(Takers(v)) /\ Cardinality(Takers(v)) <= Cardinality(Workers)
    BY <1>1, Numbers, FS_Subset
  <1> QED BY <1>2, FS_CardinalityType

(* Attempts are numbers.                                                   *)
LEMMA CleanupTyped ==
  ASSUME TypeOK
  PROVE  \A v \in Versions : cleanup[v] # None => cleanup[v] \in Cleanups /\ cleanup[v].tries \in Nat
  <1>1. \A c \in Cleanups : c.tries \in Nat
    BY Numbers DEF Cleanups
  <1> QED BY <1>1 DEF TypeOK

(* The count holds if nobody selects, and no attempt is added.             *)
LEMMA CountKept ==
  ASSUME TypeOK, CleanupsCounted, LedgerKept, \A v \in Versions : Takers(v)' \subseteq Takers(v)
  PROVE  CleanupsCounted'
  <1> SUFFICES ASSUME NEW v \in Versions, cleanup'[v] # None
      PROVE  cleanup'[v].tries + Cardinality(Takers(v)') < MaxCleanups + Cardinality(Workers)
    BY DEF CleanupsCounted
  <1>1. /\ Cardinality(Takers(v)') \in Nat /\ Cardinality(Takers(v)') <= Cardinality(Takers(v))
        /\ Cardinality(Takers(v)) \in Nat /\ Cardinality(Takers(v)) <= Cardinality(Workers)
    <2>1. IsFiniteSet(Takers(v)) /\ Cardinality(Takers(v)) \in Nat /\ Cardinality(Takers(v)) <= Cardinality(Workers)
      BY TakersFew
    <2>2. IsFiniteSet(Takers(v)') /\ Cardinality(Takers(v)') <= Cardinality(Takers(v))
      BY <2>1, FS_Subset
    <2> QED BY <2>1, <2>2, FS_CardinalityType
  <1>2. CASE cleanup'[v].tries = 0
    BY <1>1, <1>2, Numbers
  <1>3. CASE cleanup[v] # None /\ cleanup'[v].tries = cleanup[v].tries
    <2>1. cleanup[v].tries \in Nat /\ cleanup[v].tries + Cardinality(Takers(v)) < MaxCleanups + Cardinality(Workers)
      BY <1>3, CleanupTyped DEF CleanupsCounted
    <2> QED BY <1>1, <1>3, <2>1, Numbers
  <1> QED BY <1>2, <1>3 DEF LedgerKept

(* An invocation that goes on while the ledger is kept.                    *)
LEMMA OnwardSound ==
  ASSUME ThumbSound, NEW w \in Workers, Onward(w), LedgerKept
  PROVE  job' \in [Workers -> Jobs \cup {None}] /\ JobsFit' /\ CleanupsCounted'
  <1> USE DEF ThumbSound
  <1>1. PICK r \in Jobs \cup {None} : job' = [job EXCEPT ![w] = r] /\ (r # None => r.at # "take" /\ Fits(r))
    BY DEF Onward
  <1>2. /\ job' \in [Workers -> Jobs \cup {None}] /\ job'[w] = r
        /\ \A x \in Workers : x # w => job'[x] = job[x]
    BY <1>1 DEF TypeOK
  <1>4. JobsFit'
    BY <1>1, <1>2 DEF JobsFit, Fits, Filed, LedgerKept
  <1>5. \A v \in Versions : Takers(v)' \subseteq Takers(v)
    BY <1>1, <1>2 DEF Takers
  <1> QED BY <1>2, <1>4, <1>5, CountKept

(* Invocations that stand still while the ledger is kept.                  *)
LEMMA StillSound ==
  ASSUME ThumbSound, UNCHANGED job, LedgerKept
  PROVE  job' \in [Workers -> Jobs \cup {None}] /\ JobsFit' /\ CleanupsCounted'
  <1> USE DEF ThumbSound
  <1>1. JobsFit'
    BY DEF JobsFit, Fits, Filed, LedgerKept
  <1>2. \A v \in Versions : Takers(v)' \subseteq Takers(v)
    BY DEF Takers
  <1> QED BY <1>1, <1>2, CountKept DEF TypeOK

(* The ledger is untouched.                                                *)
LEMMA LedgerStill ==
  ASSUME TypeOK, UNCHANGED cleanup
  PROVE  LedgerKept
  BY DEF TypeOK, LedgerKept

(* One cleanup is scheduled, for the first time or again.                  *)
LEMMA OneCleanup ==
  ASSUME TypeOK, NEW v \in Versions, NEW c \in Cleanups, cleanup' = [cleanup EXCEPT ![v] = c],
         c.tries = 0 \/ (cleanup[v] # None /\ c.tries = cleanup[v].tries)
  PROVE  LedgerKept
  <1>1. c # None
    BY NoneApart
  <1>2. /\ cleanup' \in [Versions -> Cleanups \cup {None}] /\ cleanup'[v] = c
        /\ \A x \in Versions : x # v => cleanup'[x] = cleanup[x]
    BY DEF TypeOK
  <1> QED BY <1>1, <1>2 DEF LedgerKept

(* The triggers start a cleanup anew.                                      *)
LEMMA RetiredKept ==
  ASSUME TypeOK, NEW v \in Versions, NEW e \in Renderers \cup {None}, cleanup' = Retired(v, e)
  PROVE  LedgerKept
  <1> DEFINE c == [st |-> "due", etag |-> e, tries |-> 0]
  <1>1. 0 \in 0..MaxCleanups + Cardinality(Workers) - 1
    BY Numbers
  <1>2. c \in Cleanups /\ c.tries = 0
    BY <1>1 DEF Cleanups
  <1>3. cleanup' = [cleanup EXCEPT ![v] = c]
    BY DEF Retired
  <1> HIDE DEF c
  <1> QED BY <1>2, <1>3, OneCleanup

(* scheduleThumbnailCleanup keeps the number of attempts.                  *)
LEMMA ScheduledKept ==
  ASSUME TypeOK, NEW v \in Versions, NEW e \in Renderers \cup {None}, cleanup' = Scheduled(v, e)
  PROVE  LedgerKept
  <1> DEFINE n == IF cleanup[v] = None THEN 0 ELSE cleanup[v].tries
             c == [st |-> "due", etag |-> e, tries |-> n]
  <1>1. n \in 0..MaxCleanups + Cardinality(Workers) - 1
    BY Numbers DEF TypeOK, Cleanups
  <1>2. n = 0 \/ (cleanup[v] # None /\ n = cleanup[v].tries)
    OBVIOUS
  <1>3. cleanup' = [cleanup EXCEPT ![v] = c]
    BY DEF Scheduled
  <1> HIDE DEF n
  <1>4. c \in Cleanups /\ c.tries = n
    BY <1>1 DEF Cleanups
  <1> HIDE DEF c
  <1> QED BY <1>2, <1>3, <1>4, OneCleanup

(* A cleanup changes its state only.                                       *)
LEMMA StateKept ==
  ASSUME TypeOK, NEW v \in Versions, cleanup[v] # None, NEW st \in {"due", "live", "over", "done"},
         cleanup' = [cleanup EXCEPT ![v].st = st]
  PROVE  LedgerKept
  <1> DEFINE c == [cleanup[v] EXCEPT !.st = st]
  <1>1. cleanup[v] \in Cleanups
    BY CleanupTyped
  <1>2. c \in Cleanups /\ c.tries = cleanup[v].tries
    BY <1>1 DEF Cleanups
  <1>3. cleanup' = [cleanup EXCEPT ![v] = c]
    OBVIOUS
  <1> HIDE DEF c
  <1> QED BY <1>2, <1>3, OneCleanup

-----------------------------------------------------------------------------
(* Records.                                                                *)

(* The fields of a row.                                                    *)
LEMMA RowFields ==
  /\ \A r \in Rows : /\ r.ver \in Versions /\ r.tries \in Nat /\ r.thumb \in Renderers \cup {None}
                     /\ r.st \in {"pending", "processing", "ready", "failed"} /\ r.gate \in {"shut", "primary", "open"}
  /\ TypeOK /\ row # None => row \in Rows
  BY DEF Rows, TypeOK

(* What statements write to a row.                                         *)
LEMMA RowWrites ==
  ASSUME NEW r \in Rows
  PROVE  /\ \A b \in BOOLEAN : [r EXCEPT !.pub = b] \in Rows
         /\ \A t \in Times : [r EXCEPT !.at = t] \in Rows
         /\ \A l \in {"none", "live", "over"} : [r EXCEPT !.lease = l] \in Rows
         /\ \A e \in Errors : [r EXCEPT !.err = e] \in Rows
         /\ \A g \in {"shut", "primary", "open"} : [r EXCEPT !.gate = g] \in Rows
         /\ \A b \in BOOLEAN, g \in {"shut", "primary", "open"} : [r EXCEPT !.pub = b, !.gate = g] \in Rows
         /\ \A t \in Renderers \cup {None}, g \in {"shut", "primary", "open"} : [r EXCEPT !.thumb = t, !.gate = g] \in Rows
         /\ \A n \in Nat, b \in BOOLEAN, g \in {"shut", "primary", "open"} :
              [r EXCEPT !.tries = n, !.pub = b, !.gate = g] \in Rows
  BY DEF Rows

(* The statements that end, give back or take an attempt.                  *)
LEMMA RowOutcomes ==
  ASSUME row \in Rows
  PROVE  /\ \A e \in Errors : Pending(e) \in Rows /\ Failed(e) \in Rows /\ Pending(e).tries = row.tries
         /\ \A t \in Renderers \cup {None} : Ready(t) \in Rows
         /\ \A n \in Nat : Taken(n) \in Rows
  BY DEF Rows, Errors, Pending, Failed, Ready, Taken

(* The error codes.                                                        *)
LEMMA ErrorsAre ==
  {"none", "nas", "pixel", "permanent", "transfer", "code", "thrown", "publish",
   "source", "conflict", "race", "exhausted"} \subseteq Errors
  BY DEF Errors

(* Where an invocation stands when it is neither registering nor at work   *)
(* on a cleanup.                                                           *)
Plain == Places \ {"take", "register", "send", "mark", "referenced", "compare", "delete", "deleted", "regenerate", "tidy"}

(* The plain places.                                                       *)
LEMMA PlainAre ==
  /\ {"registered", "publish", "remove", "retire", "resurrect", "reregister", "discard", "drain", "look", "head",
      "claim", "bury", "render", "limit", "check", "adopt", "winner", "unadopted", "put", "final", "complete",
      "raced", "fail", "exhaust", "revive", "retry", "deregister"} \subseteq Plain
  /\ Plain \subseteq Places
  /\ {"register", "send", "mark", "take", "referenced", "compare", "delete", "deleted", "regenerate", "tidy"} \subseteq Places
  BY DEF Plain, Places

(* Who stands at a plain place fits.                                       *)
LEMMA PlainFits ==
  ASSUME NEW j, j.at \in Plain
  PROVE  j.at # "take" /\ Fits(j)
  BY DEF Fits, Filed, Plain

(* The fields of an invocation.                                            *)
LEMMA JobFields ==
  \A j \in Jobs :
    /\ j.at \in Places /\ j.ver \in Versions /\ j.n \in Nat /\ j.m \in 0..MaxDeliveries /\ j.ev \in 0..MaxUploads
    /\ j.key \in Versions \cup {0} /\ j.etag \in Renderers \cup {None} /\ j.err \in Errors
    /\ j.out \in {"ack", "failed", "retry"} /\ j.then \in {"end", "publish", "resurrect", "discard"}
  BY DEF Jobs

(* An invocation that has begun.                                           *)
LEMMA JobTyped ==
  ASSUME ThumbSound, NEW w \in Workers, job[w] # None
  PROVE  job[w] \in Jobs /\ Fits(job[w])
  BY DEF ThumbSound, TypeOK, JobsFit

(* What an invocation carries on with.                                     *)
LEMMA JobMoves ==
  ASSUME NEW j \in Jobs, NEW l \in Places, NEW t \in {"end", "publish", "resurrect", "discard"}
  PROVE  [j EXCEPT !.at = l, !.then = t] \in Jobs /\ [j EXCEPT !.at = l, !.then = t].at = l
  BY DEF Jobs

(* A claim notes its attempt.                                              *)
LEMMA JobNumbered ==
  ASSUME NEW j \in Jobs, NEW n \in Nat
  PROVE  [j EXCEPT !.n = n] \in Jobs
  BY DEF Jobs

(* An invocation that gives up, and one that discards an object as well.   *)
LEMMA FailingTyped ==
  ASSUME NEW j \in Jobs, NEW e \in Errors, NEW o \in {"ack", "failed", "retry"}
  PROVE  /\ Failing(j, e, o) \in Jobs /\ Failing(j, e, o).at = "fail"
         /\ \A t \in Renderers \cup {None} : Discarding(j, e, o, t) \in Jobs /\ Discarding(j, e, o, t).at = "fail"
  <1>1. "fail" \in Places
    BY DEF Places
  <1>2. Failing(j, e, o) \in Jobs /\ Failing(j, e, o).at = "fail"
    BY <1>1 DEF Jobs, Failing
  <1>3. \A t \in Renderers \cup {None} : Discarding(j, e, o, t) \in Jobs /\ Discarding(j, e, o, t).at = "fail"
    BY <1>2 DEF Jobs, Discarding
  <1> QED BY <1>2, <1>3

(* What invocations begin with.                                            *)
LEMMA StartTyped ==
  ASSUME NEW l \in Places, NEW v \in Versions
  PROVE  /\ Start(l, v) \in Jobs /\ Start(l, v).at = l
         /\ \A m \in 0..MaxDeliveries : [Start(l, v) EXCEPT !.m = m] \in Jobs /\ [Start(l, v) EXCEPT !.m = m].at = l
         /\ \A e \in Renderers \cup {None} : [Start(l, v) EXCEPT !.etag = e] \in Jobs /\ [Start(l, v) EXCEPT !.etag = e].at = l
         /\ [Start(l, v) EXCEPT !.via = "soft"] \in Jobs /\ [Start(l, v) EXCEPT !.via = "soft"].at = l
         /\ [Start(l, v) EXCEPT !.via = "soft"].via = "soft"
         /\ \A e \in Renderers \cup {None}, t \in {"end", "publish", "resurrect", "discard"} :
              /\ [Start(l, v) EXCEPT !.etag = e, !.then = t] \in Jobs
              /\ [Start(l, v) EXCEPT !.etag = e, !.then = t].at = l
  <1>1. 0 \in 0..MaxDeliveries /\ 0 \in 0..MaxUploads /\ "none" \in Errors
    BY Numbers DEF Errors
  <1>2. Start(l, v) \in Jobs /\ Start(l, v).at = l
    BY <1>1 DEF Start, Jobs
  <1> QED BY <1>2 DEF Jobs

(* A registration carries its time.                                        *)
LEMMA RegisteringTyped ==
  ASSUME TypeOK, NEW v \in Versions, NEW t \in Times
  PROVE  /\ Registering(v, t) \in Jobs /\ Registering(v, t).at = "register" /\ Registering(v, t).n = t
         /\ \A k \in 1..MaxUploads :
              /\ [Registering(v, t) EXCEPT !.ev = k] \in Jobs /\ [Registering(v, t) EXCEPT !.ev = k].at = "register"
              /\ [Registering(v, t) EXCEPT !.ev = k].n = t
  <1>1. RowVersion \in Versions \cup {0} /\ t \in Nat /\ "register" \in Places
    BY RowFields, Numbers, PlainAre DEF RowVersion, Times
  <1>2. Start("register", v) \in Jobs /\ Start("register", v).at = "register"
    BY <1>1, StartTyped
  <1>3. Registering(v, t) \in Jobs /\ Registering(v, t).at = "register" /\ Registering(v, t).n = t
    BY <1>1, <1>2 DEF Registering, Jobs
  <1>4. \A k \in 1..MaxUploads : k \in 0..MaxUploads
    BY Numbers
  <1> QED BY <1>3, <1>4 DEF Jobs

-----------------------------------------------------------------------------
(* The steps of invocations.                                               *)

MessagesTyped == queue \in [Versions \X (1..MaxDeliveries) -> 0..MaxCopies] /\ dead \subseteq Versions

(* A message more is within the bound.                                     *)
LEMMA AddedTyped ==
  ASSUME TypeOK, NEW v \in Versions, NEW m \in 1..MaxDeliveries
  PROVE  Added(v, m) \in [Versions \X (1..MaxDeliveries) -> 0..MaxCopies]
  <1>1. queue \in [Versions \X (1..MaxDeliveries) -> 0..MaxCopies] /\ <<v, m>> \in Versions \X (1..MaxDeliveries)
    BY DEF TypeOK
  <1>2. \A q \in 0..MaxCopies : (IF q < MaxCopies THEN q + 1 ELSE q) \in 0..MaxCopies
    BY Numbers
  <1> QED BY <1>1, <1>2 DEF Added

(* The queue takes a message back.                                         *)
LEMMA TakenBackTyped ==
  ASSUME TypeOK, NEW v \in Versions, NEW m \in 0..MaxDeliveries, TakenBack(v, m)
  PROVE  MessagesTyped'
  <1>1. dead' \subseteq Versions
    BY DEF TakenBack, TypeOK
  <1>2. CASE m < MaxDeliveries
    <2>1. m + 1 \in 1..MaxDeliveries
      BY <1>2, Numbers
    <2> QED BY <1>1, <1>2, <2>1, AddedTyped DEF TakenBack, MessagesTyped
  <1>3. CASE ~(m < MaxDeliveries)
    BY <1>1, <1>3 DEF TakenBack, TypeOK, MessagesTyped
  <1> QED BY <1>2, <1>3

(* A signal is sent.                                                       *)
LEMMA SentTyped ==
  ASSUME TypeOK, NEW v \in Versions, Sent(v)
  PROVE  MessagesTyped'
  <1>1. 1 \in 1..MaxDeliveries
    BY Numbers
  <1> QED BY <1>1, AddedTyped DEF Sent, TypeOK, MessagesTyped

(* No message moves.                                                       *)
LEMMA MessagesStill ==
  ASSUME TypeOK, UNCHANGED <<queue, dead>>
  PROVE  MessagesTyped'
  BY DEF TypeOK, MessagesTyped

(* An invocation goes to a plain place.                                    *)
LEMMA PlainOnward ==
  ASSUME NEW w \in Workers, NEW r \in Jobs, r.at \in Plain, GoTo(w, r)
  PROVE  Onward(w)
  <1>1. r.at # "take" /\ Fits(r)
    BY PlainFits
  <1> QED BY <1>1 DEF Onward, GoTo

(* The same with everything it carries.                                    *)
LEMMA GoOnward ==
  ASSUME ThumbSound, NEW w \in Workers, job[w] # None, NEW l \in Plain, Go(w, l)
  PROVE  Onward(w)
  <1> DEFINE r == [job[w] EXCEPT !.at = l]
  <1>1. job[w] \in Jobs /\ l \in Places
    BY JobTyped, PlainAre
  <1>2. r \in Jobs /\ r.at = l
    BY <1>1 DEF Jobs
  <1>3. GoTo(w, r)
    BY DEF Go, GoTo
  <1> HIDE DEF r
  <1> QED BY <1>2, <1>3, PlainOnward

(* An invocation at work on a cleanup stays with it.                       *)
LEMMA FiledOnward ==
  ASSUME ThumbSound, NEW w \in Workers, job[w] # None, Filed(job[w]),
         NEW l \in {"referenced", "compare", "delete", "deleted", "regenerate", "tidy"}, Go(w, l)
  PROVE  Onward(w)
  <1> DEFINE r == [job[w] EXCEPT !.at = l]
  <1>1. job[w] \in Jobs /\ Fits(job[w]) /\ l \in Places
    BY JobTyped, PlainAre
  <1>2. r \in Jobs /\ r.at = l /\ r.key = job[w].key
    BY <1>1 DEF Jobs
  <1>3. job' = [job EXCEPT ![w] = r]
    BY DEF Go
  <1> HIDE DEF r
  <1>4. r.at # "take" /\ Fits(r)
    BY <1>1, <1>2 DEF Fits
  <1> QED BY <1>2, <1>3, <1>4 DEF Onward

(* An invocation ends, and its message is acknowledged or taken back.      *)
LEMMA EndOnward ==
  ASSUME ThumbSound, NEW w \in Workers, job[w] # None, NEW out, End(w, out)
  PROVE  Onward(w) /\ MessagesTyped'
  <1>1. Onward(w)
    BY DEF End, GoTo, Onward
  <1>2. job[w].ver \in Versions /\ job[w].m \in 0..MaxDeliveries
    BY JobTyped, JobFields
  <1>3. TakenBack(job[w].ver, job[w].m) \/ UNCHANGED <<queue, dead>>
    BY DEF End
  <1> QED BY <1>1, <1>2, <1>3, TakenBackTyped, MessagesStill DEF ThumbSound

(* An invocation goes on with what it put off.                             *)
LEMMA ContinueOnward ==
  ASSUME ThumbSound, NEW w \in Workers, job[w] # None, Continue(w)
  PROVE  Onward(w) /\ MessagesTyped'
  <1>1. CASE job[w].then = "end"
    <2>1. End(w, job[w].out)
      BY <1>1 DEF Continue
    <2> QED BY <2>1, EndOnward
  <1>2. CASE job[w].then # "end"
    <2> DEFINE r == [job[w] EXCEPT !.at = job[w].then, !.then = "end"]
    <2>1. job[w] \in Jobs /\ job[w].then \in {"publish", "resurrect", "discard"}
      BY <1>2, JobTyped, JobFields
    <2>2. job[w].then \in Plain /\ job[w].then \in Places
      BY <2>1, PlainAre
    <2>3. r \in Jobs /\ r.at = job[w].then
      BY <2>1, <2>2, JobMoves
    <2>4. GoTo(w, r) /\ UNCHANGED <<queue, dead>>
      BY <1>2 DEF Continue
    <2> HIDE DEF r
    <2> QED BY <2>2, <2>3, <2>4, PlainOnward, MessagesStill DEF ThumbSound
  <1> QED BY <1>1, <1>2

(* An invocation begins at a plain place.                                  *)
LEMMA BeginOnward ==
  ASSUME NEW w \in Workers, NEW role, NEW r \in Jobs, r.at \in Plain, Begin(w, role, r)
  PROVE  Onward(w)
  <1>1. GoTo(w, r)
    BY DEF Begin, GoTo
  <1> QED BY <1>1, PlainOnward

(* What a step of an invocation leaves well typed.                         *)
RestTyped ==
  /\ UNCHANGED <<src, clock, slot>>
  /\ events' \subseteq 1..MaxUploads
  /\ row' \in Rows \cup {None}
  /\ object' \in [Versions -> Renderers \cup {None}]
  /\ holder' \subseteq Slots \cup Workers
  /\ faults' \in 0..MaxFaults

(* The common shape of the steps of an invocation.                         *)
LEMMA WorkerSound ==
  ASSUME ThumbSound, NEW w \in Workers, Onward(w), MessagesTyped', LedgerKept, RestTyped
  PROVE  ThumbSound'
  <1>1. job' \in [Workers -> Jobs \cup {None}] /\ JobsFit' /\ CleanupsCounted'
    BY OnwardSound
  <1>2. TypeOK'
    BY <1>1 DEF ThumbSound, TypeOK, RestTyped, LedgerKept, MessagesTyped
  <1> QED BY <1>1, <1>2 DEF ThumbSound

(* The frame of most of them.                                              *)
LEMMA RestStill ==
  ASSUME TypeOK, UNCHANGED <<env, object, slot, holder, faults>>, row' \in Rows \cup {None}
  PROVE  RestTyped
  BY DEF TypeOK, RestTyped, env

(* The same where the row is untouched as well.                            *)
LEMMA RowStill ==
  ASSUME TypeOK, UNCHANGED row
  PROVE  row' \in Rows \cup {None}
  BY DEF TypeOK

(* A step that changes neither row nor ledger.                             *)
LEMMA QuietSound ==
  ASSUME ThumbSound, NEW w \in Workers, Onward(w), MessagesTyped',
         UNCHANGED <<env, row, object, cleanup, slot, holder, faults>>
  PROVE  ThumbSound'
  BY WorkerSound, RestStill, RowStill, LedgerStill DEF ThumbSound

(* A step that changes the row only.                                       *)
LEMMA RowStepSound ==
  ASSUME ThumbSound, NEW w \in Workers, Onward(w), MessagesTyped', row' \in Rows \cup {None},
         UNCHANGED <<env, object, cleanup, slot, holder, faults>>
  PROVE  ThumbSound'
  BY WorkerSound, RestStill, LedgerStill DEF ThumbSound

(* A step that changes the ledger only.                                    *)
LEMMA LedgerStepSound ==
  ASSUME ThumbSound, NEW w \in Workers, Onward(w), MessagesTyped', LedgerKept,
         UNCHANGED <<env, row, object, slot, holder, faults>>
  PROVE  ThumbSound'
  BY WorkerSound, RestStill, RowStill DEF ThumbSound

(* Where an invocation stands.                                             *)
LEMMA Stands ==
  ASSUME ThumbSound, NEW w \in Workers, NEW l, At(w, l)
  PROVE  /\ job[w] # None /\ job[w].at = l /\ job[w] \in Jobs /\ Fits(job[w])
         /\ job[w].ver \in Versions /\ job[w].etag \in Renderers \cup {None}
  BY JobTyped, JobFields DEF At

(* An invocation goes where it fits.                                       *)
LEMMA FitOnward ==
  ASSUME NEW w \in Workers, NEW r \in Jobs, r.at # "take", Fits(r), GoTo(w, r)
  PROVE  Onward(w)
  BY DEF Onward, GoTo

(* A signal that is not for a cleanup may be sent at any time.             *)
LEMMA SendFits ==
  ASSUME NEW r, r.at = "send", r.via # "regenerate"
  PROVE  r.at # "take" /\ Fits(r)
  BY DEF Fits, Filed

(* A registration with a time fits.                                        *)
LEMMA RegisterFits ==
  ASSUME NEW r, r.at = "register", r.n \in Times
  PROVE  r.at # "take" /\ Fits(r)
  BY DEF Fits, Filed

(* Faults are counted.                                                     *)
LEMMA FaultTyped ==
  ASSUME TypeOK, Fault
  PROVE  faults' \in 0..MaxFaults
  BY Numbers DEF TypeOK, Fault

(* A file event whose handling failed comes again.                         *)
LEMMA UnhandledTyped ==
  ASSUME TypeOK, NEW j \in Jobs
  PROVE  Unhandled(j) \subseteq 1..MaxUploads
  <1>1. j.ev \in 0..MaxUploads
    BY JobFields
  <1>2. j.ev # 0 => j.ev \in 1..MaxUploads
    BY <1>1, Numbers
  <1> QED BY <1>2 DEF TypeOK, Unhandled

(* The marker of a signal.                                                 *)
LEMMA MarkedTyped ==
  ASSUME TypeOK, NEW v, NEW S
  PROVE  Marked(v, S) \in Rows \cup {None}
  <1>1. row # None => row \in Rows /\ [row EXCEPT !.pub = TRUE] \in Rows
    BY RowFields, RowWrites
  <1> QED BY <1>1 DEF Marked, RowIn, RowOf, TypeOK

-----------------------------------------------------------------------------
(* Registration, signals and removal.                                      *)

(* The row is written, and what it replaces is retired.                    *)
LEMMA RegisterSound ==
  ASSUME ThumbSound, NEW w \in Workers, Register(w)
  PROVE  ThumbSound'
  <1> DEFINE v == job[w].ver
             t == job[w].n
  <1>0. TypeOK
    BY DEF ThumbSound
  <1>1. /\ job[w] # None /\ v \in Versions /\ t \in Times
        /\ UNCHANGED <<env, object, queue, dead, slot, holder, faults>> /\ Go(w, "registered")
    <2>1. At(w, "register")
      BY DEF Register
    <2> QED BY <2>1, Stands DEF Register, Fits
  <1>2. Onward(w)
    BY <1>1, PlainAre, GoOnward
  <1>3. row' \in Rows \cup {None}
    <2>1. Registered(v, t) \in Rows
      BY <1>1 DEF Registered, Rows, Errors
    <2>2. row # None => [row EXCEPT !.at = t] \in Rows
      BY <1>0, <1>1, RowFields, RowWrites
    <2>3. row' \in {row, Registered(v, t)} \/ (row # None /\ row' = [row EXCEPT !.at = t])
      BY DEF Register, RowOf
    <2> QED BY <2>1, <2>2, <2>3, <1>0 DEF TypeOK
  <1>4. LedgerKept
    <2>1. CASE UNCHANGED cleanup
      BY <2>1, <1>0, LedgerStill
    <2>2. CASE row # None /\ cleanup' = Retired(row.ver, row.thumb)
      <3>1. row.ver \in Versions /\ row.thumb \in Renderers \cup {None}
        BY <2>2, <1>0, RowFields
      <3> QED BY <2>2, <3>1, <1>0, RetiredKept
    <2> QED BY <2>1, <2>2 DEF Register
  <1> QED BY <1>0, <1>1, <1>2, <1>3, <1>4, WorkerSound, RestStill, MessagesStill

(* A registration was refused, replaced another version, or applies.       *)
LEMMA AfterRegisterSound ==
  ASSUME ThumbSound, NEW w \in Workers, AfterRegister(w)
  PROVE  ThumbSound'
  <1> DEFINE j == job[w]
             r == [j EXCEPT !.at = "drain", !.then = "publish"]
  <1>0. TypeOK
    BY DEF ThumbSound
  <1>1. j # None /\ j \in Jobs /\ UNCHANGED <<env, row, object, slot, holder, faults>>
    <2>1. At(w, "registered")
      BY DEF AfterRegister
    <2> QED BY <2>1, Stands DEF AfterRegister
  <1>2. CASE End(w, "ack") /\ UNCHANGED cleanup
    BY <1>1, <1>2, EndOnward, QuietSound
  <1>3. CASE /\ j.key \notin {0, j.ver} /\ cleanup' = Scheduled(j.key, None) /\ GoTo(w, r)
             /\ UNCHANGED <<queue, dead>>
    <2>1. j.key \in Versions
      BY <1>1, <1>3, JobFields
    <2>2. LedgerKept
      BY <1>0, <1>3, <2>1, ScheduledKept
    <2>3. r \in Jobs /\ r.at \in Plain
      BY <1>1, PlainAre DEF Jobs
    <2>4. Onward(w)
      BY <2>3, <1>3, PlainOnward
    <2> QED BY <1>0, <1>1, <1>3, <2>2, <2>4, LedgerStepSound, MessagesStill
  <1>4. CASE Go(w, "publish") /\ UNCHANGED <<cleanup, queue, dead>>
    <2>1. Onward(w)
      BY <1>1, <1>4, PlainAre, GoOnward
    <2> QED BY <1>0, <1>1, <1>4, <2>1, QuietSound, MessagesStill
  <1> QED BY <1>2, <1>3, <1>4 DEF AfterRegister

(* A row that only its signal had failed is opened again.                  *)
LEMMA PublishSound ==
  ASSUME ThumbSound, NEW w \in Workers, Publish(w)
  PROVE  ThumbSound'
  <1> DEFINE r == [job[w] EXCEPT !.at = "send", !.via = "enqueue"]
  <1>0. TypeOK
    BY DEF ThumbSound
  <1>1. job[w] \in Jobs /\ GoTo(w, r) /\ UNCHANGED <<env, object, cleanup, queue, dead, slot, holder, faults>>
    <2>1. At(w, "publish")
      BY DEF Publish
    <2> QED BY <2>1, Stands DEF Publish
  <1>2. r \in Jobs /\ r.at = "send" /\ r.via = "enqueue"
    BY <1>1, PlainAre DEF Jobs
  <1>3. Onward(w)
    <2> HIDE DEF r
    <2>1. r.at # "take" /\ Fits(r)
      BY <1>2, SendFits
    <2> QED BY <2>1, <1>1, <1>2, FitOnward
  <1>4. row' \in Rows \cup {None}
    <2>1. row # None => Pending("none") \in Rows
      BY <1>0, RowFields, RowOutcomes, ErrorsAre
    <2> QED BY <2>1, <1>0 DEF Publish, RowIn, RowOf, TypeOK
  <1> QED BY <1>0, <1>1, <1>3, <1>4, RowStepSound, MessagesStill

(* Whom a signal is about.                                                 *)
LEMMA SubjectTyped ==
  ASSUME NEW j \in Jobs, Fits(j), j.at \in {"send", "mark"}
  PROVE  /\ Subject(j) \in Versions
         /\ j.via = "regenerate" => Filed(j) /\ j.key \in Versions /\ cleanup[j.key] # None
  BY JobFields DEF Subject, Fits, Filed

(* A signal is sent, or needless.                                          *)
LEMMA SendSound ==
  ASSUME ThumbSound, NEW w \in Workers, Send(w)
  PROVE  ThumbSound'
  <1> DEFINE r == [job[w] EXCEPT !.at = "mark"]
  <1>0. TypeOK
    BY DEF ThumbSound
  <1>1. /\ job[w] # None /\ job[w].at = "send" /\ job[w] \in Jobs /\ Fits(job[w])
        /\ UNCHANGED <<env, row, object, cleanup, slot, holder, faults>>
    <2>1. At(w, "send")
      BY DEF Send
    <2> QED BY <2>1, Stands DEF Send
  <1>2. CASE End(w, "ack")
    BY <1>1, <1>2, EndOnward, QuietSound
  <1>3. CASE Sent(Subject(job[w])) /\ Go(w, "mark")
    <2>1. MessagesTyped'
      BY <1>0, <1>1, <1>3, SubjectTyped, SentTyped
    <2>2. r \in Jobs /\ r.at = "mark" /\ r.via = job[w].via /\ r.key = job[w].key
      BY <1>1, PlainAre DEF Jobs
    <2>3. GoTo(w, r)
      BY <1>3 DEF Go, GoTo
    <2>4. Onward(w)
      <3> HIDE DEF r
      <3>1. r.at # "take" /\ Fits(r)
        BY <1>1, <2>2, SubjectTyped DEF Fits, Filed
      <3> QED BY <3>1, <2>2, <2>3, FitOnward
    <2> QED BY <1>1, <2>1, <2>4, QuietSound
  <1> QED BY <1>2, <1>3 DEF Send

(* A signal that cannot be sent.                                           *)
LEMMA SendFailsSound ==
  ASSUME ThumbSound, NEW w \in Workers, SendFails(w)
  PROVE  ThumbSound'
  <1> DEFINE j == job[w]
  <1>0. TypeOK
    BY DEF ThumbSound
  <1>1. /\ j # None /\ j.at = "send" /\ j \in Jobs /\ Fits(j)
        /\ Fault /\ Continue(w) /\ UNCHANGED <<src, clock, object, slot, holder>>
    <2>1. At(w, "send")
      BY DEF SendFails
    <2> QED BY <2>1, Stands DEF SendFails
  <1>2. Onward(w) /\ MessagesTyped'
    BY <1>1, ContinueOnward
  <1>3. row' \in Rows \cup {None}
    <2>1. row # None => Failed("publish") \in Rows
      BY <1>0, RowFields, RowOutcomes, ErrorsAre
    <2> QED BY <2>1, <1>0 DEF SendFails, RowIn, RowOf, TypeOK
  <1>4. LedgerKept
    <2>1. CASE j.via = "regenerate"
      <3>1. j.key \in Versions /\ cleanup[j.key] # None
        BY <1>1, <2>1, SubjectTyped
      <3>2. cleanup' = [cleanup EXCEPT ![j.key].st = "due"]
        BY <2>1 DEF SendFails
      <3> QED BY <3>1, <3>2, <1>0, StateKept
    <2>2. CASE j.via # "regenerate"
      BY <2>2, <1>0, LedgerStill DEF SendFails
    <2> QED BY <2>1, <2>2
  <1>5. RestTyped
    <2>1. events' \subseteq 1..MaxUploads
      BY <1>0, <1>1, UnhandledTyped DEF SendFails, TypeOK
    <2>2. faults' \in 0..MaxFaults
      BY <1>0, <1>1, FaultTyped
    <2> QED BY <1>0, <1>1, <1>3, <2>1, <2>2 DEF RestTyped, TypeOK
  <1> QED BY <1>2, <1>4, <1>5, WorkerSound

(* A signal is recorded.                                                   *)
LEMMA MarkSound ==
  ASSUME ThumbSound, NEW w \in Workers, Mark(w)
  PROVE  ThumbSound'
  <1>0. TypeOK
    BY DEF ThumbSound
  <1>1. /\ job[w] # None /\ job[w].at = "mark" /\ job[w] \in Jobs /\ Fits(job[w])
        /\ UNCHANGED <<env, object, cleanup, slot, holder, faults>>
    <2>1. At(w, "mark")
      BY DEF Mark
    <2> QED BY <2>1, Stands DEF Mark
  <1>2. row' \in Rows \cup {None}
    BY <1>0, MarkedTyped DEF Mark
  <1>3. CASE job[w].via = "regenerate" /\ Go(w, "tidy") /\ UNCHANGED <<queue, dead>>
    <2>1. Onward(w)
      BY <1>1, <1>3, SubjectTyped, FiledOnward
    <2> QED BY <1>0, <1>1, <1>2, <1>3, <2>1, RowStepSound, MessagesStill
  <1>4. CASE Continue(w)
    BY <1>1, <1>2, <1>4, ContinueOnward, RowStepSound
  <1> QED BY <1>3, <1>4 DEF Mark

(* The row of a removed source is deleted and its object retired.          *)
LEMMA RemoveSound ==
  ASSUME ThumbSound, NEW w \in Workers, Remove(w)
  PROVE  ThumbSound'
  <1>0. TypeOK
    BY DEF ThumbSound
  <1>1. job[w] # None /\ Go(w, "retire") /\ UNCHANGED <<env, object, queue, dead, slot, holder, faults>>
    BY DEF Remove, At
  <1>2. Onward(w)
    BY <1>1, PlainAre, GoOnward
  <1>3. CASE row # None /\ row' = None /\ cleanup' = Retired(row.ver, row.thumb)
    <2>1. row.ver \in Versions /\ row.thumb \in Renderers \cup {None}
      BY <1>0, <1>3, RowFields
    <2>2. LedgerKept
      BY <1>0, <1>3, <2>1, RetiredKept
    <2> QED BY <1>0, <1>1, <1>2, <1>3, <2>2, WorkerSound, RestStill, MessagesStill
  <1>4. CASE UNCHANGED <<row, cleanup>>
    BY <1>0, <1>1, <1>2, <1>4, QuietSound, MessagesStill
  <1> QED BY <1>3, <1>4 DEF Remove, RowOf

(* An object is retired once more.                                         *)
LEMMA RetireSound ==
  ASSUME ThumbSound, NEW w \in Workers, Retire(w)
  PROVE  ThumbSound'
  <1>0. TypeOK
    BY DEF ThumbSound
  <1>1. /\ job[w] # None /\ job[w].ver \in Versions /\ job[w].etag \in Renderers \cup {None}
        /\ cleanup' = Scheduled(job[w].ver, job[w].etag) /\ Go(w, "drain")
        /\ UNCHANGED <<env, row, object, queue, dead, slot, holder, faults>>
    <2>1. At(w, "retire") \/ At(w, "discard")
      BY DEF Retire
    <2> QED BY <2>1, Stands DEF Retire
  <1>2. Onward(w)
    BY <1>1, PlainAre, GoOnward
  <1>3. LedgerKept
    BY <1>0, <1>1, ScheduledKept
  <1> QED BY <1>0, <1>1, <1>2, <1>3, LedgerStepSound, MessagesStill

(* A source that is back is registered.                                    *)
LEMMA ResurrectSound ==
  ASSUME ThumbSound, NEW w \in Workers, Resurrect(w)
  PROVE  ThumbSound'
  <1> DEFINE t == IF job[w].at = "resurrect" THEN src.at ELSE Now
  <1>0. TypeOK
    BY DEF ThumbSound
  <1>1. job[w] # None /\ UNCHANGED <<env, row, object, cleanup, slot, holder, faults>>
    BY DEF Resurrect, At
  <1>2. CASE End(w, "ack")
    BY <1>1, <1>2, EndOnward, QuietSound
  <1>3. CASE src.ver # 0 /\ GoTo(w, Registering(src.ver, t)) /\ UNCHANGED <<queue, dead>>
    <2>1. t \in Times /\ src.ver \in Versions
      <3>1. src.at \in Times /\ src.ver \in Versions /\ clock \in 0..MaxUploads
        BY <1>0, <1>3 DEF TypeOK
      <3>2. Now \in Times
        BY <3>1, Numbers DEF Now, Times
      <3> QED BY <3>1, <3>2
    <2> HIDE DEF t
    <2> DEFINE r == Registering(src.ver, t)
    <2>2. r \in Jobs /\ r.at = "register" /\ r.n = t
      BY <1>0, <2>1, RegisteringTyped
    <2>3. GoTo(w, r)
      BY <1>3
    <2> HIDE DEF r
    <2>4. r.at # "take" /\ Fits(r)
      BY <2>1, <2>2, RegisterFits
    <2>5. Onward(w)
      BY <2>2, <2>3, <2>4, FitOnward
    <2> QED BY <1>0, <1>1, <1>3, <2>5, QuietSound, MessagesStill
  <1> QED BY <1>2, <1>3 DEF Resurrect

-----------------------------------------------------------------------------
(* The cleanup ledger at work.                                             *)

(* A cleanup is selected, below its cap, or there is none.                 *)
LEMMA SelectCleanupSound ==
  ASSUME ThumbSound, NEW w \in Workers, SelectCleanup(w)
  PROVE  ThumbSound'
  <1>0. TypeOK /\ JobsFit /\ CleanupsCounted
    BY DEF ThumbSound
  <1>1. job[w] # None /\ job[w] \in Jobs /\ UNCHANGED <<env, row, object, cleanup, slot, holder, faults>>
    <2>1. At(w, "drain")
      BY DEF SelectCleanup
    <2> QED BY <2>1, Stands DEF SelectCleanup
  <1>2. CASE Continue(w)
    BY <1>1, <1>2, ContinueOnward, QuietSound
  <1>3. ASSUME NEW v \in Versions, Due(v), UNCHANGED <<queue, dead>>,
               GoTo(w, [job[w] EXCEPT !.at = "take", !.key = v, !.etag = cleanup[v].etag])
        PROVE  ThumbSound'
    <2> DEFINE r == [job[w] EXCEPT !.at = "take", !.key = v, !.etag = cleanup[v].etag]
    <2>1. cleanup[v] # None /\ cleanup[v] \in Cleanups /\ cleanup[v].tries \in Nat /\ cleanup[v].tries < MaxCleanups
      BY <1>0, <1>3, CleanupTyped DEF Due
    <2>2. cleanup[v].etag \in Renderers \cup {None} /\ "take" \in Places
      BY <2>1, PlainAre DEF Cleanups
    <2>3. r \in Jobs /\ r.at = "take" /\ r.key = v
      BY <1>1, <2>2 DEF Jobs
    <2>4. job' = [job EXCEPT ![w] = r]
      BY <1>3 DEF GoTo
    <2> HIDE DEF r
    <2>5. /\ job' \in [Workers -> Jobs \cup {None}] /\ job'[w] = r
          /\ \A x \in Workers : x # w => job'[x] = job[x]
      BY <2>3, <2>4, <1>0 DEF TypeOK
    <2>6. JobsFit'
      <3>1. Fits(r)
        BY <2>1, <2>3 DEF Fits
      <3> QED BY <1>0, <1>1, <2>5, <3>1 DEF JobsFit, Fits, Filed
    <2>7. CleanupsCounted'
      <3> SUFFICES ASSUME NEW u \in Versions, cleanup'[u] # None
          PROVE  cleanup'[u].tries + Cardinality(Takers(u)') < MaxCleanups + Cardinality(Workers)
        BY DEF CleanupsCounted
      <3>1. CASE u = v
        <4>1. Takers(v)' \subseteq Workers
          BY DEF Takers
        <4>2. IsFiniteSet(Takers(v)') /\ Cardinality(Takers(v)') <= Cardinality(Workers)
          BY <4>1, Numbers, FS_Subset
        <4>3. Cardinality(Takers(v)') \in Nat
          BY <4>2, FS_CardinalityType
        <4> QED BY <1>1, <2>1, <3>1, <4>2, <4>3, Numbers
      <3>2. CASE u # v
        <4>1. Takers(u)' \subseteq Takers(u)
          BY <2>3, <2>5, <3>2 DEF Takers
        <4>2. IsFiniteSet(Takers(u)) /\ Cardinality(Takers(u)) \in Nat
          BY TakersFew
        <4>3. IsFiniteSet(Takers(u)') /\ Cardinality(Takers(u)') <= Cardinality(Takers(u))
          BY <4>1, <4>2, FS_Subset
        <4>4. Cardinality(Takers(u)') \in Nat
          BY <4>3, FS_CardinalityType
        <4>5. /\ cleanup'[u].tries \in Nat
              /\ cleanup'[u].tries + Cardinality(Takers(u)) < MaxCleanups + Cardinality(Workers)
          BY <1>0, <1>1, CleanupTyped DEF CleanupsCounted
        <4> QED BY <4>2, <4>3, <4>4, <4>5, Numbers
      <3> QED BY <3>1, <3>2
    <2>8. TypeOK'
      BY <1>0, <1>1, <1>3, <2>5 DEF TypeOK, env
    <2> QED BY <2>6, <2>7, <2>8 DEF ThumbSound
  <1> QED BY <1>2, <1>3 DEF SelectCleanup

(* The claim of a cleanup: an attempt more, and one less to come.          *)
LEMMA ClaimCleanupSound ==
  ASSUME ThumbSound, NEW w \in Workers, ClaimCleanup(w)
  PROVE  ThumbSound'
  <1>0. TypeOK /\ JobsFit /\ CleanupsCounted
    BY DEF ThumbSound
  <1>1. /\ job[w] # None /\ job[w].at = "take" /\ job[w] \in Jobs
        /\ job[w].key \in Versions /\ cleanup[job[w].key] # None
        /\ UNCHANGED <<env, row, object, slot, holder, faults>>
    <2>1. At(w, "take")
      BY DEF ClaimCleanup
    <2> QED BY <2>1, Stands DEF ClaimCleanup, Fits, Filed
  <1>5. PICK v \in Versions : v = job[w].key /\ cleanup[v] # None
    BY <1>1
  <1>2. CASE Continue(w) /\ UNCHANGED cleanup
    BY <1>1, <1>2, ContinueOnward, QuietSound
  <1>3. CASE /\ cleanup' = [cleanup EXCEPT ![v].st = "live", ![v].tries = @ + 1]
             /\ Go(w, "referenced") /\ UNCHANGED <<queue, dead>>
    <2> DEFINE r == [job[w] EXCEPT !.at = "referenced"]
               c == [cleanup[v] EXCEPT !.st = "live", !.tries = cleanup[v].tries + 1]
    <2>1. r \in Jobs /\ r.at = "referenced" /\ r.key = v
      BY <1>1, <1>5, PlainAre DEF Jobs
    <2>2. job' = [job EXCEPT ![w] = r]
      BY <1>3 DEF Go
    <2>3. cleanup' = [cleanup EXCEPT ![v] = c]
      BY <1>3
    <2>4. /\ cleanup[v] \in Cleanups /\ cleanup[v].tries \in Nat
          /\ cleanup[v].tries + Cardinality(Takers(v)) < MaxCleanups + Cardinality(Workers)
      BY <1>0, <1>5, CleanupTyped DEF CleanupsCounted
    <2> HIDE DEF r
    <2>5. /\ job' \in [Workers -> Jobs \cup {None}] /\ job'[w] = r
          /\ \A x \in Workers : x # w => job'[x] = job[x]
      BY <2>1, <2>2, <1>0 DEF TypeOK
    <2>6. /\ IsFiniteSet(Takers(v)) /\ Cardinality(Takers(v)) \in Nat /\ w \in Takers(v)
          /\ Takers(v)' \subseteq Takers(v) \ {w}
      <3>1. IsFiniteSet(Takers(v)) /\ Cardinality(Takers(v)) \in Nat
        BY TakersFew
      <3>2. w \in Takers(v)
        BY <1>1, <1>5 DEF Takers
      <3>3. Takers(v)' \subseteq Takers(v) \ {w}
        BY <2>1, <2>5 DEF Takers
      <3> QED BY <3>1, <3>2, <3>3
    <2>7. /\ Cardinality(Takers(v)') \in Nat
          /\ Cardinality(Takers(v)') + 1 <= Cardinality(Takers(v))
      <3>1. IsFiniteSet(Takers(v) \ {w}) /\ Cardinality(Takers(v) \ {w}) = Cardinality(Takers(v)) - 1
        BY <2>6, FS_RemoveElement
      <3>2. IsFiniteSet(Takers(v)') /\ Cardinality(Takers(v)') <= Cardinality(Takers(v) \ {w})
        BY <2>6, <3>1, FS_Subset
      <3> QED BY <2>6, <3>1, <3>2, FS_CardinalityType
    <2>8. c \in Cleanups /\ c.tries = cleanup[v].tries + 1
      <3>1. cleanup[v].tries + 1 \in 0..MaxCleanups + Cardinality(Workers) - 1
        BY <2>4, <2>6, <2>7, Numbers
      <3> QED BY <2>4, <3>1 DEF Cleanups
    <2> HIDE DEF c
    <2>9. /\ cleanup' \in [Versions -> Cleanups \cup {None}] /\ cleanup'[v] = c /\ c # None
          /\ \A u \in Versions : u # v => cleanup'[u] = cleanup[u]
      BY <1>0, <1>1, <2>3, <2>8, NoneApart DEF TypeOK
    <2>10. JobsFit'
      <3>1. \A u \in Versions : cleanup[u] # None => cleanup'[u] # None
        BY <2>9
      <3>2. r.key \in Versions /\ cleanup'[r.key] # None
        BY <1>1, <2>1, <2>9
      <3> QED BY <1>0, <2>1, <2>5, <3>1, <3>2 DEF JobsFit, Fits, Filed
    <2>11. CleanupsCounted'
      <3> SUFFICES ASSUME NEW u \in Versions, cleanup'[u] # None
          PROVE  cleanup'[u].tries + Cardinality(Takers(u)') < MaxCleanups + Cardinality(Workers)
        BY DEF CleanupsCounted
      <3>1. CASE u = v
        BY <3>1, <2>4, <2>6, <2>7, <2>8, <2>9, Numbers
      <3>2. CASE u # v
        <4>1. Takers(u)' \subseteq Takers(u)
          BY <2>1, <2>5, <3>2 DEF Takers
        <4>2. IsFiniteSet(Takers(u)) /\ Cardinality(Takers(u)) \in Nat
          BY TakersFew
        <4>3. IsFiniteSet(Takers(u)') /\ Cardinality(Takers(u)') <= Cardinality(Takers(u))
          BY <4>1, <4>2, FS_Subset
        <4>4. Cardinality(Takers(u)') \in Nat
          BY <4>3, FS_CardinalityType
        <4>5. /\ cleanup'[u].tries \in Nat
              /\ cleanup'[u].tries + Cardinality(Takers(u)) < MaxCleanups + Cardinality(Workers)
          BY <1>0, <2>9, <3>2, CleanupTyped DEF CleanupsCounted
        <4> QED BY <4>2, <4>3, <4>4, <4>5, Numbers
      <3> QED BY <3>1, <3>2
    <2>12. TypeOK'
      BY <1>0, <1>1, <1>3, <2>5, <2>9 DEF TypeOK, env
    <2> QED BY <2>10, <2>11, <2>12 DEF ThumbSound
  <1> QED BY <1>5, <1>2, <1>3 DEF ClaimCleanup

(* Work on a cleanup ends.                                                 *)
LEMMA SettledOnward ==
  ASSUME ThumbSound, NEW w \in Workers, job[w] # None, Filed(job[w]),
         NEW st \in {"due", "live", "over", "done"}, Settled(w, st)
  PROVE  Onward(w) /\ MessagesTyped' /\ LedgerKept
  <1>1. job[w].key \in Versions /\ cleanup[job[w].key] # None
    BY JobTyped DEF Fits
  <1>2. LedgerKept
    BY <1>1, StateKept DEF ThumbSound, Settled
  <1> QED BY <1>2, ContinueOnward DEF Settled

(* The checks before a deletion, the deletion and those after it.          *)
LEMMA CleaningSound ==
  ASSUME ThumbSound, NEW w \in Workers, Referenced(w) \/ Compare(w) \/ AfterDelete(w) \/ Tidy(w)
  PROVE  ThumbSound'
  <1>0. TypeOK
    BY DEF ThumbSound
  <1>1. job[w] # None /\ Filed(job[w]) /\ UNCHANGED <<env, row, object, slot, holder, faults>>
    BY DEF Referenced, Compare, AfterDelete, Tidy, At, Filed
  <1>2. CASE Settled(w, "done") \/ Settled(w, "due")
    BY <1>1, <1>2, SettledOnward, LedgerStepSound
  <1>3. ASSUME NEW l \in {"referenced", "compare", "delete", "deleted", "regenerate", "tidy"},
               Go(w, l), UNCHANGED <<cleanup, queue, dead>>
        PROVE  ThumbSound'
    BY <1>0, <1>1, <1>3, FiledOnward, QuietSound, MessagesStill
  <1>4. CASE Referenced(w)
    BY <1>2, <1>3, <1>4 DEF Referenced
  <1>5. CASE Compare(w)
    BY <1>2, <1>3, <1>5 DEF Compare
  <1>6. CASE AfterDelete(w)
    BY <1>2, <1>3, <1>6 DEF AfterDelete
  <1>7. CASE Tidy(w)
    BY <1>2, <1>7 DEF Tidy
  <1> QED BY <1>4, <1>5, <1>6, <1>7

(* The deletion of an object, or its failure.                              *)
LEMMA DeleteObjectSound ==
  ASSUME ThumbSound, NEW w \in Workers, DeleteObject(w)
  PROVE  ThumbSound'
  <1>0. TypeOK
    BY DEF ThumbSound
  <1>1. job[w] # None /\ Filed(job[w]) /\ UNCHANGED <<env, row, slot, holder>>
    BY DEF DeleteObject, At, Filed
  <1>2. CASE /\ object' = [object EXCEPT ![job[w].key] = None]
             /\ Go(w, "deleted") /\ UNCHANGED <<cleanup, queue, dead, faults>>
    <2>1. Onward(w)
      BY <1>1, <1>2, FiledOnward
    <2>2. object' \in [Versions -> Renderers \cup {None}]
      BY <1>0, <1>2 DEF TypeOK
    <2>3. RestTyped
      BY <1>0, <1>1, <1>2, <2>2 DEF RestTyped, TypeOK, env
    <2> QED BY <1>0, <1>2, <2>1, <2>3, WorkerSound, MessagesStill, LedgerStill
  <1>3. CASE Fault /\ Settled(w, "due") /\ UNCHANGED object
    <2>1. Onward(w) /\ MessagesTyped' /\ LedgerKept
      BY <1>1, <1>3, SettledOnward
    <2>2. faults' \in 0..MaxFaults
      BY <1>0, <1>3, FaultTyped
    <2>3. RestTyped
      BY <1>0, <1>1, <1>3, <2>2 DEF RestTyped, TypeOK, env
    <2> QED BY <2>1, <2>3, WorkerSound
  <1> QED BY <1>2, <1>3 DEF DeleteObject

(* A row whose object was deleted under it is opened again.                *)
LEMMA RegenerateSound ==
  ASSUME ThumbSound, NEW w \in Workers, Regenerate(w)
  PROVE  ThumbSound'
  <1> DEFINE r == [job[w] EXCEPT !.at = "send", !.via = "regenerate"]
  <1>0. TypeOK
    BY DEF ThumbSound
  <1>1. /\ job[w] # None /\ job[w] \in Jobs /\ job[w].key \in Versions /\ cleanup[job[w].key] # None
        /\ GoTo(w, r) /\ UNCHANGED <<env, object, cleanup, queue, dead, slot, holder, faults>>
    <2>1. At(w, "regenerate")
      BY DEF Regenerate
    <2> QED BY <2>1, Stands DEF Regenerate, Fits, Filed
  <1>2. r \in Jobs /\ r.at = "send" /\ r.key = job[w].key
    BY <1>1, PlainAre DEF Jobs
  <1>3. Onward(w)
    <2> HIDE DEF r
    <2>1. r.at # "take" /\ Fits(r)
      BY <1>1, <1>2 DEF Fits
    <2> QED BY <2>1, <1>1, <1>2, FitOnward
  <1>4. row' \in Rows \cup {None}
    <2>1. row # None => Pending("none") \in Rows
      BY <1>0, RowFields, RowOutcomes, ErrorsAre
    <2>2. row # None => [Pending("none") EXCEPT !.thumb = None, !.gate = "primary"] \in Rows
      BY <2>1, RowWrites
    <2> QED BY <2>2, <1>0 DEF Regenerate, Active, RowIn, RowOf, TypeOK
  <1> QED BY <1>0, <1>1, <1>3, <1>4, RowStepSound, MessagesStill

-----------------------------------------------------------------------------
(* The queue consumer.                                                     *)

(* A message is delivered.                                                 *)
LEMMA ReceiveSound ==
  ASSUME ThumbSound, NEW w \in Workers, NEW v \in Versions, NEW m \in 1..MaxDeliveries, Receive(w, v, m)
  PROVE  ThumbSound'
  <1> DEFINE r == [Start("look", v) EXCEPT !.m = m]
  <1>0. TypeOK
    BY DEF ThumbSound
  <1>1. m \in 0..MaxDeliveries /\ "look" \in Places /\ "look" \in Plain
    BY Numbers, PlainAre
  <1>2. r \in Jobs /\ r.at = "look"
    BY <1>1, StartTyped
  <1>3. Begin(w, "consume", r) /\ UNCHANGED <<env, row, object, cleanup, dead, slot, holder, faults>>
    BY DEF Receive
  <1> HIDE DEF r
  <1>4. Onward(w)
    BY <1>1, <1>2, <1>3, BeginOnward
  <1>5. MessagesTyped'
    <2>1. queue \in [Versions \X (1..MaxDeliveries) -> 0..MaxCopies] /\ <<v, m>> \in Versions \X (1..MaxDeliveries)
      BY <1>0 DEF TypeOK
    <2>2. queue[<<v, m>>] - 1 \in 0..MaxCopies
      BY <2>1, Numbers DEF Receive
    <2>3. queue' = [queue EXCEPT ![<<v, m>>] = queue[<<v, m>>] - 1]
      BY DEF Receive
    <2> QED BY <1>0, <1>3, <2>1, <2>2, <2>3 DEF MessagesTyped, TypeOK
  <1> QED BY <1>3, <1>4, <1>5, QuietSound

(* The row is looked at.                                                   *)
LEMMA LookSound ==
  ASSUME ThumbSound, NEW w \in Workers, Look(w)
  PROVE  ThumbSound'
  <1>1. job[w] # None /\ UNCHANGED <<env, row, object, cleanup, slot, holder, faults>>
    BY DEF Look, At
  <1>2. CASE End(w, "ack") \/ End(w, "retry")
    BY <1>1, <1>2, EndOnward, QuietSound
  <1>3. CASE Go(w, "head") /\ UNCHANGED <<queue, dead>>
    <2>1. Onward(w)
      BY <1>1, <1>3, PlainAre, GoOnward
    <2> QED BY <1>1, <1>3, <2>1, QuietSound, MessagesStill DEF ThumbSound
  <1> QED BY <1>2, <1>3 DEF Look

(* The source is looked at.                                                *)
LEMMA HeadSound ==
  ASSUME ThumbSound, NEW w \in Workers, Head(w)
  PROVE  ThumbSound'
  <1>1. /\ job[w] # None /\ job[w] \in Jobs
        /\ UNCHANGED <<env, row, object, cleanup, queue, dead, slot, holder, faults>>
    BY JobTyped DEF Head, At
  <1>2. CASE Go(w, "claim")
    <2>1. Onward(w)
      BY <1>1, <1>2, PlainAre, GoOnward
    <2> QED BY <1>1, <2>1, QuietSound, MessagesStill DEF ThumbSound
  <1>3. ASSUME NEW o \in {"failed", "ack"}, GoTo(w, [job[w] EXCEPT !.at = "bury", !.out = o])
        PROVE  ThumbSound'
    <2> DEFINE r == [job[w] EXCEPT !.at = "bury", !.out = o]
    <2>1. r \in Jobs /\ r.at \in Plain
      BY <1>1, PlainAre DEF Jobs
    <2>2. Onward(w)
      BY <1>3, <2>1, PlainOnward
    <2> QED BY <1>1, <2>2, QuietSound, MessagesStill DEF ThumbSound
  <1> QED BY <1>2, <1>3 DEF Head

(* An invocation gives up its attempt.                                     *)
LEMMA FailingOnward ==
  ASSUME NEW w \in Workers, NEW j \in Jobs, NEW e \in Errors, NEW o \in {"ack", "failed", "retry"},
         GoTo(w, Failing(j, e, o)) \/ \E t \in Renderers \cup {None} : GoTo(w, Discarding(j, e, o, t))
  PROVE  Onward(w)
  <1>1. \A r \in Jobs : r.at = "fail" /\ GoTo(w, r) => Onward(w)
    BY PlainAre, PlainOnward
  <1> QED BY <1>1, FailingTyped

(* A claim.                                                                *)
LEMMA ClaimSound ==
  ASSUME ThumbSound, NEW w \in Workers, Claim(w)
  PROVE  ThumbSound'
  <1> DEFINE j == job[w]
             k == [j EXCEPT !.n = row.tries + 1]
  <1>0. TypeOK
    BY DEF ThumbSound
  <1>1. j # None /\ j \in Jobs /\ UNCHANGED <<env, object, cleanup, slot, faults>>
    BY JobTyped DEF Claim, At
  <1>2. CASE (\E out \in {"ack", "retry"} : End(w, out)) /\ UNCHANGED <<row, holder>>
    BY <1>1, <1>2, EndOnward, QuietSound
  <1>3. CASE /\ row # None /\ row' = Taken(row.tries + 1) /\ holder' = {w} /\ UNCHANGED <<queue, dead>>
             /\ \/ GoTo(w, [k EXCEPT !.at = "render"])
                \/ GoTo(w, Failing(k, "source", j.out))
    <2>1. row \in Rows /\ row.tries + 1 \in Nat
      BY <1>0, <1>3, RowFields
    <2>2. Taken(row.tries + 1) \in Rows
      BY <2>1, RowOutcomes
    <2>3. k \in Jobs
      BY <1>1, <2>1, JobNumbered
    <2>4. j.out \in {"ack", "failed", "retry"} /\ "source" \in Errors
      BY <1>1, JobFields, ErrorsAre
    <2> HIDE DEF k
    <2>5. [k EXCEPT !.at = "render"] \in Jobs /\ [k EXCEPT !.at = "render"].at \in Plain
      BY <2>3, PlainAre DEF Jobs
    <2>6. Onward(w)
      BY <1>3, <2>3, <2>4, <2>5, PlainOnward, FailingOnward
    <2>7. RestTyped
      BY <1>0, <1>1, <1>3, <2>2 DEF RestTyped, TypeOK, env
    <2> QED BY <1>0, <1>1, <1>3, <2>6, <2>7, WorkerSound, MessagesStill, LedgerStill
  <1>4. CASE Claimable(j.ver)
    <2>1. row # None
      BY <1>4 DEF Claimable, RowIn, RowOf
    <2> QED BY <1>3, <1>4, <2>1 DEF Claim
  <1>5. CASE ~Claimable(j.ver)
    BY <1>2, <1>5 DEF Claim
  <1> QED BY <1>4, <1>5

(* Where failures leave a message.                                         *)
LEMMA TransientTyped ==
  ASSUME NEW j
  PROVE  Transient(j) \in {"ack", "failed", "retry"}
  BY DEF Transient

(* The container answers.                                                  *)
LEMMA RenderSound ==
  ASSUME ThumbSound, NEW w \in Workers, Render(w)
  PROVE  ThumbSound'
  <1> DEFINE j == job[w]
  <1>1. j # None /\ j \in Jobs /\ UNCHANGED <<env, row, object, cleanup, queue, dead, slot, holder, faults>>
    BY JobTyped DEF Render, At
  <1>2. Onward(w) => ThumbSound'
    BY <1>1, QuietSound, MessagesStill DEF ThumbSound
  <1>3. CASE src.ver # j.ver
    <2>1. GoTo(w, Failing(j, "source", "ack"))
      BY <1>3 DEF Render
    <2> QED BY <1>1, <1>2, <2>1, ErrorsAre, FailingOnward
  <1>4. CASE src.ver = j.ver
    <2>1. PICK o \in Outcomes :
            GoTo(w, CASE o = "ok" -> [j EXCEPT !.at = "check"]
                      [] o = "pixel" -> [j EXCEPT !.at = "limit"]
                      [] o \in {"permanent", "transfer"} -> Failing(j, o, "failed")
                      [] o = "code" -> Failing(j, o, Transient(j)))
      BY <1>4 DEF Render
    <2>2. CASE o = "ok"
      <3>1. Go(w, "check")
        BY <2>1, <2>2 DEF GoTo, Go
      <3> QED BY <1>1, <1>2, <3>1, PlainAre, GoOnward
    <2>3. CASE o = "pixel"
      <3>1. Go(w, "limit")
        BY <2>1, <2>3 DEF GoTo, Go
      <3> QED BY <1>1, <1>2, <3>1, PlainAre, GoOnward
    <2>4. CASE o \in {"permanent", "transfer"}
      <3>1. GoTo(w, Failing(j, o, "failed")) /\ o \in Errors
        BY <2>1, <2>4, ErrorsAre
      <3> QED BY <1>1, <1>2, <3>1, FailingOnward
    <2>5. CASE o = "code"
      <3>1. GoTo(w, Failing(j, o, Transient(j))) /\ o \in Errors
        BY <2>1, <2>5, ErrorsAre
      <3> QED BY <1>1, <1>2, <3>1, TransientTyped, FailingOnward
    <2> QED BY <2>2, <2>3, <2>4, <2>5, ThumbnailAssumption
  <1> QED BY <1>3, <1>4

(* A call throws while the claim is held.                                  *)
LEMMA ThrowSound ==
  ASSUME ThumbSound, NEW w \in Workers, Throw(w)
  PROVE  ThumbSound'
  <1>0. TypeOK
    BY DEF ThumbSound
  <1>1. /\ job[w] \in Jobs /\ Fault /\ GoTo(w, Failing(job[w], "thrown", Transient(job[w])))
        /\ UNCHANGED <<env, row, object, cleanup, queue, dead, slot, holder>>
    BY JobTyped DEF Throw
  <1>2. Onward(w)
    BY <1>1, ErrorsAre, TransientTyped, FailingOnward
  <1>3. faults' \in 0..MaxFaults
    BY <1>0, <1>1, FaultTyped
  <1>4. RestTyped
    BY <1>0, <1>1, <1>3 DEF RestTyped, TypeOK, env
  <1> QED BY <1>0, <1>1, <1>2, <1>4, WorkerSound, MessagesStill, LedgerStill

(* The row goes back to the slots.                                         *)
LEMMA LimitSound ==
  ASSUME ThumbSound, NEW w \in Workers, Limit(w)
  PROVE  ThumbSound'
  <1>0. TypeOK
    BY DEF ThumbSound
  <1>1. job[w] # None /\ End(w, "ack") /\ UNCHANGED <<env, object, cleanup, slot, holder, faults>>
    BY DEF Limit, At
  <1>2. row' \in Rows \cup {None}
    <2>1. row # None => Pending("pixel") \in Rows
      BY <1>0, RowFields, RowOutcomes, ErrorsAre
    <2>2. row # None => [Pending("pixel") EXCEPT !.pub = FALSE, !.gate = "primary"] \in Rows
      BY <2>1, RowWrites
    <2> QED BY <2>2, <1>0 DEF Limit, Holds, RowIn, RowOf, TypeOK
  <1> QED BY <1>1, <1>2, EndOnward, RowStepSound

(* Source and object are looked at again.                                  *)
LEMMA CheckSound ==
  ASSUME ThumbSound, NEW w \in Workers, Check(w)
  PROVE  ThumbSound'
  <1>1. job[w] # None /\ job[w] \in Jobs /\ UNCHANGED <<env, row, object, cleanup, queue, dead, slot, holder, faults>>
    BY JobTyped DEF Check, At
  <1>2. Onward(w) => ThumbSound'
    BY <1>1, QuietSound, MessagesStill DEF ThumbSound
  <1>3. CASE GoTo(w, Failing(job[w], "source", "ack"))
    BY <1>1, <1>2, <1>3, ErrorsAre, FailingOnward
  <1>4. CASE \E l \in {"put", "adopt", "unadopted"} : Go(w, l)
    BY <1>1, <1>2, <1>4, PlainAre, GoOnward
  <1> QED BY <1>3, <1>4 DEF Check

(* The object of another renderer is adopted, or not.                      *)
LEMMA AdoptSound ==
  ASSUME ThumbSound, NEW w \in Workers, Adopt(w)
  PROVE  ThumbSound'
  <1> DEFINE j == job[w]
  <1>0. TypeOK
    BY DEF ThumbSound
  <1>1. j # None /\ j \in Jobs /\ j.ver \in Versions /\ UNCHANGED <<env, object, cleanup, slot, holder, faults>>
    BY JobTyped, JobFields DEF Adopt, At
  <1>2. CASE row # None /\ row' = Ready(object[j.ver]) /\ End(w, "ack")
    <2>1. object[j.ver] \in Renderers \cup {None}
      BY <1>0, <1>1 DEF TypeOK
    <2>2. row' \in Rows
      BY <1>0, <1>2, <2>1, RowFields, RowOutcomes
    <2> QED BY <1>1, <1>2, <2>2, EndOnward, RowStepSound
  <1>3. CASE /\ UNCHANGED <<row, queue, dead>>
             /\ GoTo(w, [j EXCEPT !.at = "unadopted"]) \/ GoTo(w, Failing(j, "conflict", "failed"))
    <2>1. [j EXCEPT !.at = "unadopted"] \in Jobs /\ [j EXCEPT !.at = "unadopted"].at \in Plain
      BY <1>1, PlainAre DEF Jobs
    <2>2. Onward(w)
      BY <1>1, <1>3, <2>1, ErrorsAre, PlainOnward, FailingOnward
    <2> QED BY <1>0, <1>1, <1>3, <2>2, QuietSound, MessagesStill
  <1> QED BY <1>2, <1>3 DEF Adopt, Holds, RowIn, RowOf

(* The race for the row or its object is lost.                             *)
LEMMA UnadoptedSound ==
  ASSUME ThumbSound, NEW w \in Workers, Unadopted(w)
  PROVE  ThumbSound'
  <1>1. job[w] # None /\ job[w] \in Jobs /\ UNCHANGED <<env, row, object, cleanup, slot, holder, faults>>
    BY JobTyped DEF Unadopted, At
  <1>2. PICK e \in Errors, t \in Renderers \cup {None} : Lost(w, e, t)
    BY ErrorsAre DEF Unadopted, Renderers
  <1>3. CASE End(w, "ack")
    BY <1>1, <1>3, EndOnward, QuietSound
  <1>4. CASE GoTo(w, Discarding(job[w], e, "failed", t)) /\ UNCHANGED <<queue, dead>>
    <2>1. Onward(w)
      BY <1>1, <1>4, FailingOnward
    <2> QED BY <1>1, <1>4, <2>1, QuietSound, MessagesStill DEF ThumbSound
  <1> QED BY <1>2, <1>3, <1>4 DEF Lost

(* The object is stored if there is none.                                  *)
LEMMA PutSound ==
  ASSUME ThumbSound, NEW w \in Workers, Put(w)
  PROVE  ThumbSound'
  <1>0. TypeOK
    BY DEF ThumbSound
  <1>1. job[w] # None /\ UNCHANGED <<env, row, cleanup, queue, dead, slot, holder, faults>>
    BY DEF Put, At
  <1>2. Onward(w)
    BY <1>1, PlainAre, GoOnward DEF Put
  <1>3. object' \in [Versions -> Renderers \cup {None}]
    BY <1>0 DEF Put, TypeOK, Renderers
  <1>4. RestTyped
    BY <1>0, <1>1, <1>3 DEF RestTyped, TypeOK, env
  <1> QED BY <1>0, <1>1, <1>2, <1>4, WorkerSound, MessagesStill, LedgerStill

(* The source is looked at for the last time.                              *)
LEMMA FinalSound ==
  ASSUME ThumbSound, NEW w \in Workers, Final(w)
  PROVE  ThumbSound'
  <1>1. job[w] # None /\ job[w] \in Jobs /\ UNCHANGED <<env, row, object, cleanup, queue, dead, slot, holder, faults>>
    BY JobTyped DEF Final, At
  <1>2. [job[w] EXCEPT !.at = "complete"] \in Jobs /\ [job[w] EXCEPT !.at = "complete"].at \in Plain
    BY <1>1, PlainAre DEF Jobs
  <1>3. GoTo(w, [job[w] EXCEPT !.at = "complete"]) \/ GoTo(w, Discarding(job[w], "source", "ack", None))
    BY DEF Final
  <1>4. Onward(w)
    BY <1>1, <1>2, <1>3, ErrorsAre, PlainOnward, FailingOnward
  <1> QED BY <1>1, <1>4, QuietSound, MessagesStill DEF ThumbSound

(* completeJob.                                                            *)
LEMMA CompleteSound ==
  ASSUME ThumbSound, NEW w \in Workers, Complete(w)
  PROVE  ThumbSound'
  <1>0. TypeOK
    BY DEF ThumbSound
  <1>1. job[w] # None /\ UNCHANGED <<env, object, cleanup, slot, holder, faults>>
    BY DEF Complete, At
  <1>2. CASE row # None /\ row' = Ready("cf") /\ End(w, "ack")
    <2>1. row' \in Rows
      BY <1>0, <1>2, RowFields, RowOutcomes DEF Renderers
    <2> QED BY <1>1, <1>2, <2>1, EndOnward, RowStepSound
  <1>3. CASE Go(w, "raced") /\ UNCHANGED <<row, queue, dead>>
    <2>1. Onward(w)
      BY <1>1, <1>3, PlainAre, GoOnward
    <2> QED BY <1>0, <1>1, <1>3, <2>1, QuietSound, MessagesStill
  <1> QED BY <1>2, <1>3 DEF Complete, Holds, RowIn, RowOf

(* failJob.                                                                *)
LEMMA FailSound ==
  ASSUME ThumbSound, NEW w \in Workers, Fail(w)
  PROVE  ThumbSound'
  <1>0. TypeOK
    BY DEF ThumbSound
  <1>1. job[w] # None /\ job[w].err \in Errors /\ Continue(w) /\ UNCHANGED <<env, object, cleanup, slot, holder, faults>>
    BY JobTyped, JobFields DEF Fail, At
  <1>2. row' \in Rows \cup {None}
    <2>1. row # None => Pending(job[w].err) \in Rows /\ Failed(job[w].err) \in Rows
      BY <1>0, <1>1, RowFields, RowOutcomes
    <2> QED BY <2>1, <1>0 DEF Fail, Holds, RowIn, RowOf, TypeOK
  <1> QED BY <1>1, <1>2, ContinueOnward, RowStepSound

(* A dead letter is read.                                                  *)
LEMMA DeadLetterSound ==
  ASSUME ThumbSound, NEW w \in Workers, NEW v \in Versions, DeadLetter(w, v)
  PROVE  ThumbSound'
  <1> DEFINE r == [Start("discard", v) EXCEPT !.m = MaxDeliveries]
  <1>0. TypeOK
    BY DEF ThumbSound
  <1>1. MessagesTyped' /\ UNCHANGED <<env, row, object, cleanup, slot, holder, faults>>
    BY <1>0 DEF DeadLetter, MessagesTyped, TypeOK
  <1>2. CASE Begin(w, "deadletter", r)
    <2>1. MaxDeliveries \in 0..MaxDeliveries /\ "discard" \in Places /\ "discard" \in Plain
      BY Numbers, PlainAre
    <2>2. r \in Jobs /\ r.at = "discard"
      BY <2>1, StartTyped
    <2> HIDE DEF r
    <2>3. Onward(w)
      BY <1>2, <2>1, <2>2, BeginOnward
    <2> QED BY <1>1, <2>3, QuietSound
  <1>3. CASE job[w] = None /\ UNCHANGED job
    <2>1. job' = [job EXCEPT ![w] = None]
      BY <1>0, <1>3 DEF TypeOK
    <2>2. Onward(w)
      BY <2>1 DEF Onward
    <2> QED BY <1>1, <2>2, QuietSound
  <1> QED BY <1>2, <1>3 DEF DeadLetter

-----------------------------------------------------------------------------
(* The scheduler, and what starts invocations.                             *)

(* An invocation begins and nothing else changes.                          *)
LEMMA BeginSound ==
  ASSUME ThumbSound, NEW w \in Workers, NEW role, NEW r \in Jobs, r.at \in Plain, Begin(w, role, r),
         UNCHANGED <<env, row, object, cleanup, queue, dead, slot, holder, faults>>
  PROVE  ThumbSound'
  <1>1. Onward(w)
    BY BeginOnward
  <1> QED BY <1>1, QuietSound, MessagesStill DEF ThumbSound

(* What a removal begins with.                                             *)
LEMMA RemovingTyped ==
  ASSUME TypeOK, row # None, NEW t \in {"end", "publish", "resurrect", "discard"}
  PROVE  Removing(t) \in Jobs /\ Removing(t).at \in Plain
  <1>1. row.ver \in Versions /\ row.thumb \in Renderers \cup {None} /\ "remove" \in Places /\ "remove" \in Plain
    BY RowFields, PlainAre
  <1>2. Start("remove", row.ver) \in Jobs /\ Start("remove", row.ver).at = "remove"
    BY <1>1, StartTyped
  <1>3. Removing(t) \in Jobs /\ Removing(t).at = "remove"
    BY <1>1, <1>2 DEF Removing, Jobs
  <1> QED BY <1>1, <1>3

(* What a repair begins with.                                              *)
LEMMA StartPlain ==
  ASSUME NEW l \in Plain, NEW v \in Versions
  PROVE  /\ Start(l, v) \in Jobs /\ Start(l, v).at \in Plain
         /\ \A e \in Renderers \cup {None} :
              [Start(l, v) EXCEPT !.etag = e] \in Jobs /\ [Start(l, v) EXCEPT !.etag = e].at \in Plain
  <1>1. l \in Places
    BY PlainAre
  <1> QED BY <1>1, StartTyped

(* The repairs, the audit and the removal of a source begin.               *)
LEMMA RepairsBegin ==
  ASSUME ThumbSound, NEW w \in Workers,
         \/ RecoverExpired(w) \/ RecoverTransient(w) \/ Reconcile(w) \/ Drain(w) \/ RemovalArrives(w)
         \/ \E v \in Versions : Orphans(w, v)
  PROVE  ThumbSound'
  <1>0. TypeOK
    BY DEF ThumbSound
  <1>1. row # None => row.ver \in Versions /\ row.thumb \in Renderers \cup {None}
    BY <1>0, RowFields
  <1>2. CASE RecoverExpired(w)
    <2>1. row # None /\ UNCHANGED <<env, row, object, cleanup, queue, dead, slot, holder, faults>>
      BY <1>2 DEF RecoverExpired, Lapsed
    <2>2. PICK r \in {Removing("end"), Start("exhaust", row.ver), Start("revive", row.ver)} : Begin(w, "expired", r)
      BY <1>2 DEF RecoverExpired
    <2>3. r \in Jobs /\ r.at \in Plain
      BY <1>0, <1>1, <2>1, <2>2, RemovingTyped, StartPlain, PlainAre
    <2> QED BY <2>1, <2>2, <2>3, BeginSound
  <1>3. CASE RecoverTransient(w)
    <2>1. Start("retry", row.ver) \in Jobs /\ Start("retry", row.ver).at \in Plain
      BY <1>1, <1>3, StartPlain, PlainAre DEF RecoverTransient
    <2> QED BY <1>3, <2>1, BeginSound DEF RecoverTransient
  <1>4. CASE Reconcile(w)
    <2> DEFINE r == [Start("deregister", row.ver) EXCEPT !.etag = row.thumb]
    <2>1. r \in Jobs /\ r.at \in Plain
      BY <1>1, <1>4, StartPlain, PlainAre DEF Reconcile
    <2>2. /\ Begin(w, "reconcile", r)
          /\ UNCHANGED <<env, row, object, cleanup, queue, dead, slot, holder, faults>>
      BY <1>4 DEF Reconcile
    <2> HIDE DEF r
    <2> QED BY <2>1, <2>2, BeginSound
  <1>5. CASE Drain(w)
    <2>1. 1 \in Versions
      <3>1. Cardinality(Versions) \in Nat /\ Cardinality(Versions) # 0
        BY ThumbnailAssumption, FS_CardinalityType, FS_EmptySet
      <3> QED BY <3>1, ThumbnailAssumption
    <2>2. Start("drain", 1) \in Jobs /\ Start("drain", 1).at \in Plain
      BY <2>1, StartPlain, PlainAre
    <2> QED BY <1>5, <2>2, BeginSound DEF Drain
  <1>6. CASE RemovalArrives(w)
    <2>1. Removing("resurrect") \in Jobs /\ Removing("resurrect").at \in Plain
      BY <1>0, <1>6, RemovingTyped DEF RemovalArrives
    <2> QED BY <1>6, <2>1, BeginSound DEF RemovalArrives
  <1>7. ASSUME NEW v \in Versions, Orphans(w, v)
        PROVE  ThumbSound'
    <2> DEFINE r == [Start("discard", v) EXCEPT !.etag = object[v]]
    <2>1. object[v] \in Renderers \cup {None}
      BY <1>0 DEF TypeOK
    <2>2. r \in Jobs /\ r.at \in Plain
      BY <2>1, StartPlain, PlainAre
    <2>3. /\ Begin(w, "orphans", r)
          /\ UNCHANGED <<env, row, object, cleanup, queue, dead, slot, holder, faults>>
      BY <1>7 DEF Orphans
    <2> HIDE DEF r
    <2> QED BY <2>2, <2>3, BeginSound
  <1> QED BY <1>2, <1>3, <1>4, <1>5, <1>6, <1>7

(* A row without a signal is signalled again.                              *)
LEMMA RepublishSound ==
  ASSUME ThumbSound, NEW w \in Workers, Republish(w)
  PROVE  ThumbSound'
  <1> DEFINE r == [Start("send", row.ver) EXCEPT !.via = "soft"]
  <1>1. Begin(w, "republish", r) /\ UNCHANGED <<env, row, object, cleanup, queue, dead, slot, holder, faults>>
    BY DEF Republish
  <1>2. row.ver \in Versions /\ "send" \in Places
    BY RowFields, PlainAre DEF Republish, ThumbSound
  <1>3. r \in Jobs /\ r.at = "send" /\ r.via = "soft"
    BY <1>2, StartTyped
  <1> HIDE DEF r
  <1>4. r.at # "take" /\ Fits(r)
    BY <1>3, SendFits
  <1>5. GoTo(w, r)
    BY <1>1 DEF Begin, GoTo
  <1>6. Onward(w)
    BY <1>3, <1>4, <1>5, FitOnward
  <1> QED BY <1>1, <1>6, QuietSound, MessagesStill DEF ThumbSound

(* A file event starts a registration.                                     *)
LEMMA EventArrivesSound ==
  ASSUME ThumbSound, NEW w \in Workers, NEW k \in events, EventArrives(w, k)
  PROVE  ThumbSound'
  <1> DEFINE t == 2 * k
             r == [Registering(src.ver, t) EXCEPT !.ev = k]
  <1>0. TypeOK
    BY DEF ThumbSound
  <1>1. /\ src.ver \in Versions /\ k \in 1..MaxUploads
        /\ Begin(w, "event", r) /\ events' = events \ {k}
        /\ UNCHANGED <<src, clock, row, object, cleanup, queue, dead, slot, holder, faults>>
    BY <1>0 DEF EventArrives, TypeOK
  <1>2. t \in Times
    BY <1>1, Numbers DEF Times
  <1> HIDE DEF t
  <1>3. r \in Jobs /\ r.at = "register" /\ r.n = t
    BY <1>0, <1>1, <1>2, RegisteringTyped
  <1> HIDE DEF r
  <1>4. r.at # "take" /\ Fits(r)
    BY <1>2, <1>3, RegisterFits
  <1>5. GoTo(w, r)
    BY <1>1 DEF Begin, GoTo
  <1>6. Onward(w)
    BY <1>3, <1>4, <1>5, FitOnward
  <1>7. RestTyped
    BY <1>0, <1>1 DEF RestTyped, TypeOK
  <1> QED BY <1>0, <1>1, <1>6, <1>7, WorkerSound, MessagesStill, LedgerStill

(* A repaired row is to be signalled.                                      *)
LEMMA RepairingOnward ==
  ASSUME ThumbSound, NEW w \in Workers, job[w] # None, Repairing(w)
  PROVE  Onward(w) /\ MessagesTyped'
  <1> DEFINE r == [job[w] EXCEPT !.at = "send", !.via = "repair"]
  <1>1. job[w] \in Jobs /\ GoTo(w, r) /\ UNCHANGED <<queue, dead>>
    BY JobTyped DEF Repairing
  <1>2. r \in Jobs /\ r.at = "send" /\ r.via = "repair"
    BY <1>1, PlainAre DEF Jobs
  <1> HIDE DEF r
  <1>3. r.at # "take" /\ Fits(r)
    BY <1>2, SendFits
  <1> QED BY <1>1, <1>2, <1>3, FitOnward, MessagesStill DEF ThumbSound

(* A claimed row whose lease ran out is given up or opened again, and a    *)
(* failed one is opened again.                                             *)
LEMMA RecoverySound ==
  ASSUME ThumbSound, NEW w \in Workers, Exhaust(w) \/ Revive(w) \/ Retry(w)
  PROVE  ThumbSound'
  <1>0. TypeOK
    BY DEF ThumbSound
  <1>1. job[w] # None /\ UNCHANGED <<env, object, cleanup, slot, holder, faults>>
    BY DEF Exhaust, Revive, Retry, At
  <1>2. End(w, "ack") \/ Repairing(w)
    BY DEF Exhaust, Revive, Retry
  <1>3. Onward(w) /\ MessagesTyped'
    BY <1>1, <1>2, EndOnward, RepairingOnward
  <1>4. row' \in Rows \cup {None}
    <2>1. row # None => /\ row \in Rows /\ row.tries + 1 \in Nat /\ Pending("none").tries = row.tries
                        /\ Failed("exhausted") \in Rows /\ Pending("none") \in Rows
      BY <1>0, RowFields, RowOutcomes, ErrorsAre
    <2>2. row # None => /\ [Pending("none") EXCEPT !.pub = FALSE] \in Rows
                        /\ [Pending("none") EXCEPT !.tries = row.tries + 1, !.pub = FALSE, !.gate = "primary"] \in Rows
      BY <2>1, RowWrites
    <2>3. CASE Exhaust(w)
      BY <2>1, <2>3, <1>0 DEF Exhaust, RowOf, TypeOK
    <2>4. CASE Revive(w)
      BY <2>2, <2>4, <1>0 DEF Revive, RowOf, TypeOK
    <2>5. CASE Retry(w)
      <3>1. CASE Recoverable(job[w].ver)
        <4>1. row # None
          BY <3>1 DEF Recoverable, RowIn, RowOf
        <4>2. row' = [Pending("none") EXCEPT !.tries = row.tries + 1, !.pub = FALSE, !.gate = "primary"]
          BY <2>1, <2>5, <3>1, <4>1 DEF Retry
        <4> QED BY <2>2, <4>1, <4>2
      <3>2. CASE ~Recoverable(job[w].ver)
        BY <2>5, <3>2, <1>0 DEF Retry, TypeOK
      <3> QED BY <3>1, <3>2
    <2> QED BY <2>3, <2>4, <2>5
  <1> QED BY <1>1, <1>3, <1>4, RowStepSound

(* A ready row that the audit found wrong is deleted.                      *)
LEMMA DeregisterSound ==
  ASSUME ThumbSound, NEW w \in Workers, Deregister(w)
  PROVE  ThumbSound'
  <1>0. TypeOK
    BY DEF ThumbSound
  <1>1. job[w] # None /\ UNCHANGED <<env, object, slot, holder, faults>>
    BY DEF Deregister, At
  <1>2. CASE /\ row # None /\ row' = None /\ cleanup' = Retired(row.ver, row.thumb)
             /\ Go(w, "reregister") /\ UNCHANGED <<queue, dead>>
    <2>1. row.ver \in Versions /\ row.thumb \in Renderers \cup {None}
      BY <1>0, <1>2, RowFields
    <2>2. LedgerKept
      BY <1>0, <1>2, <2>1, RetiredKept
    <2>3. Onward(w)
      BY <1>1, <1>2, PlainAre, GoOnward
    <2> QED BY <1>0, <1>1, <1>2, <2>2, <2>3, WorkerSound, RestStill, MessagesStill
  <1>3. CASE End(w, "ack") /\ UNCHANGED <<row, cleanup>>
    BY <1>1, <1>3, EndOnward, QuietSound
  <1> QED BY <1>2, <1>3 DEF Deregister, RowOf

(* An invocation dies.                                                     *)
LEMMA CrashSound ==
  ASSUME ThumbSound, NEW w \in Workers, Crash(w)
  PROVE  ThumbSound'
  <1>0. TypeOK
    BY DEF ThumbSound
  <1>1. /\ job[w] \in Jobs /\ job[w].ver \in Versions /\ job[w].m \in 0..MaxDeliveries
        /\ Fault /\ GoTo(w, None) /\ events' = Unhandled(job[w])
        /\ UNCHANGED <<src, clock, row, object, cleanup, slot, holder>>
    BY JobTyped, JobFields DEF Crash
  <1>2. Onward(w)
    BY <1>1 DEF GoTo, Onward
  <1>3. MessagesTyped'
    BY <1>0, <1>1, TakenBackTyped, MessagesStill DEF Crash
  <1>4. faults' \in 0..MaxFaults /\ events' \subseteq 1..MaxUploads
    BY <1>0, <1>1, FaultTyped, UnhandledTyped
  <1>5. RestTyped
    BY <1>0, <1>1, <1>4 DEF RestTyped, TypeOK
  <1> QED BY <1>0, <1>1, <1>2, <1>3, <1>5, WorkerSound, LedgerStill

-----------------------------------------------------------------------------
(* Slots and the environment: no invocation moves.                         *)

(* The common shape of their steps.                                        *)
LEMMA OutsideSound ==
  ASSUME ThumbSound, UNCHANGED job, LedgerKept, MessagesTyped',
         src' \in [ver: Versions \cup {0}, at: Times], clock' \in 0..MaxUploads, events' \subseteq 1..MaxUploads,
         row' \in Rows \cup {None}, object' \in [Versions -> Renderers \cup {None}],
         slot' \in [Slots -> SlotStates \cup {None}], holder' \subseteq Slots \cup Workers, UNCHANGED faults
  PROVE  ThumbSound'
  <1>1. job' \in [Workers -> Jobs \cup {None}] /\ JobsFit' /\ CleanupsCounted'
    BY StillSound
  <1>2. TypeOK'
    BY <1>1 DEF ThumbSound, TypeOK, LedgerKept, MessagesTyped
  <1> QED BY <1>1, <1>2 DEF ThumbSound

(* Uploads, deletions and the clock.                                       *)
LEMMA EnvironmentSound ==
  ASSUME ThumbSound,
         \/ \E v \in Versions : Upload(v)
         \/ Delete \/ LeaseExpires \/ GateOpens
         \/ \E v \in Versions : CleanupExpires(v)
  PROVE  ThumbSound'
  <1>0. TypeOK
    BY DEF ThumbSound
  <1>1. ASSUME NEW v \in Versions, Upload(v)
        PROVE  ThumbSound'
    <2>1. clock' \in 0..MaxUploads /\ clock' \in 1..MaxUploads /\ 2 * clock' \in Times
      BY <1>0, <1>1, Numbers DEF Upload, TypeOK, Times
    <2>2. src' \in [ver: Versions \cup {0}, at: Times] /\ events' \subseteq 1..MaxUploads
      BY <1>0, <1>1, <2>1 DEF Upload, TypeOK
    <2>3. LedgerKept /\ MessagesTyped' /\ UNCHANGED <<row, object, slot, holder, faults, job>>
      BY <1>0, <1>1, LedgerStill, MessagesStill DEF Upload
    <2> QED BY <1>0, <2>1, <2>2, <2>3, OutsideSound DEF TypeOK
  <1>2. CASE Delete
    <2>1. src' \in [ver: Versions \cup {0}, at: Times]
      BY <1>2, Numbers DEF Delete, Times
    <2>2. LedgerKept /\ MessagesTyped' /\ UNCHANGED <<clock, events, row, object, slot, holder, faults, job>>
      BY <1>0, <1>2, LedgerStill, MessagesStill DEF Delete
    <2> QED BY <1>0, <2>1, <2>2, OutsideSound DEF TypeOK
  <1>3. CASE LeaseExpires \/ GateOpens
    <2>1. row \in Rows
      BY <1>0, <1>3, RowFields DEF LeaseExpires, GateOpens
    <2>2. row' \in Rows
      BY <1>3, <2>1, RowWrites DEF LeaseExpires, GateOpens
    <2>3. LedgerKept /\ MessagesTyped' /\ UNCHANGED <<src, clock, events, object, slot, holder, faults, job>>
      BY <1>0, <1>3, LedgerStill, MessagesStill DEF LeaseExpires, GateOpens, env
    <2> QED BY <1>0, <2>2, <2>3, OutsideSound DEF TypeOK
  <1>4. ASSUME NEW v \in Versions, CleanupExpires(v)
        PROVE  ThumbSound'
    <2>1. LedgerKept
      BY <1>0, <1>4, StateKept DEF CleanupExpires
    <2>2. MessagesTyped' /\ UNCHANGED <<src, clock, events, row, object, slot, holder, faults, job>>
      BY <1>0, <1>4, MessagesStill DEF CleanupExpires, env
    <2> QED BY <1>0, <2>1, <2>2, OutsideSound DEF TypeOK
  <1> QED BY <1>1, <1>2, <1>3, <1>4

(* A slot moves on or leaves.                                              *)
LEMMA SlotMoves ==
  ASSUME TypeOK, NEW s \in Slots, slot[s] # None
  PROVE  /\ slot[s] \in SlotStates /\ slot[s].ver \in Versions /\ slot[s].n \in Nat
         /\ \A l \in {"reject", "lease", "hold", "put", "uploaded", "finish", "signal", "mark"} :
              Move(s, l) => slot' \in [Slots -> SlotStates \cup {None}]
         /\ Leave(s) => slot' \in [Slots -> SlotStates \cup {None}]
  <1>1. slot[s] \in SlotStates /\ slot \in [Slots -> SlotStates \cup {None}]
    BY DEF TypeOK
  <1>2. ASSUME NEW l \in {"reject", "lease", "hold", "put", "uploaded", "finish", "signal", "mark"}, Move(s, l)
        PROVE  slot' \in [Slots -> SlotStates \cup {None}]
    <2> DEFINE r == [slot[s] EXCEPT !.at = l]
    <2>1. r \in SlotStates
      BY <1>1 DEF SlotStates
    <2>2. slot' = [slot EXCEPT ![s] = r]
      BY <1>2 DEF Move
    <2> HIDE DEF r
    <2> QED BY <1>1, <2>1, <2>2
  <1>3. Leave(s) => slot' \in [Slots -> SlotStates \cup {None}]
    BY <1>1 DEF Leave
  <1> QED BY <1>1, <1>2, <1>3 DEF SlotStates

(* What a slot may write to the row.                                       *)
LEMMA SlotWrites ==
  ASSUME TypeOK, row # None
  PROVE  /\ row \in Rows /\ row.ver \in Versions /\ row.tries + 1 \in Nat
         /\ Failed("source") \in Rows /\ Ready("nas") \in Rows
         /\ \A e \in {"nas", "pixel"} :
              Failed(e) \in Rows /\ [Pending(e) EXCEPT !.pub = FALSE, !.gate = "primary"] \in Rows
         /\ \A n \in Nat : [Taken(n) EXCEPT !.err = "none"] \in Rows
  <1>1. row \in Rows /\ row.ver \in Versions /\ row.tries + 1 \in Nat
    BY RowFields
  <1>2. /\ Failed("source") \in Rows /\ Ready("nas") \in Rows
        /\ \A e \in {"nas", "pixel"} : Failed(e) \in Rows /\ Pending(e) \in Rows
        /\ \A n \in Nat : Taken(n) \in Rows
    BY <1>1, RowOutcomes, ErrorsAre DEF Renderers
  <1>3. \A e \in {"nas", "pixel"} : [Pending(e) EXCEPT !.pub = FALSE, !.gate = "primary"] \in Rows
    BY <1>2, RowWrites
  <1>4. \A n \in Nat : [Taken(n) EXCEPT !.err = "none"] \in Rows
    BY <1>2, RowWrites, ErrorsAre
  <1> QED BY <1>1, <1>2, <1>3, <1>4

(* A slot's request reads a row, and takes or rejects it.                  *)
LEMMA SlotClaims ==
  ASSUME ThumbSound, NEW s \in Slots, NasRead(s) \/ NasReject(s) \/ NasLease(s)
  PROVE  ThumbSound'
  <1>0. TypeOK
    BY DEF ThumbSound
  <1>1. LedgerKept /\ MessagesTyped' /\ UNCHANGED <<src, clock, events, object, faults, job>>
    BY <1>0, LedgerStill, MessagesStill DEF NasRead, NasReject, NasLease, env
  <1>2. CASE NasRead(s)
    <2> DEFINE r == [at |-> IF src.ver = row.ver THEN "lease" ELSE "reject", ver |-> row.ver, n |-> row.tries + 1]
    <2>1. r \in SlotStates
      BY <1>0, <1>2, SlotWrites DEF NasRead, SlotStates
    <2>2. slot' = [slot EXCEPT ![s] = r] /\ UNCHANGED <<row, holder>>
      BY <1>2 DEF NasRead
    <2> HIDE DEF r
    <2>3. slot' \in [Slots -> SlotStates \cup {None}]
      BY <1>0, <2>1, <2>2 DEF TypeOK
    <2> QED BY <1>0, <1>1, <2>2, <2>3, OutsideSound DEF TypeOK
  <1>3. CASE NasReject(s)
    <2>1. row' \in Rows \cup {None}
      BY <1>0, <1>3, SlotWrites DEF NasReject, RowOf, TypeOK
    <2>2. slot' \in [Slots -> SlotStates \cup {None}] /\ UNCHANGED holder
      BY <1>0, <1>3, SlotMoves DEF NasReject, Busy
    <2> QED BY <1>0, <1>1, <2>1, <2>2, OutsideSound DEF TypeOK
  <1>4. CASE NasLease(s)
    <2>1. slot[s] # None
      BY <1>4 DEF NasLease, Busy
    <2>2. slot[s].n \in Nat
      BY <1>0, <2>1, SlotMoves
    <2>3. row' \in Rows \cup {None}
      BY <1>0, <1>4, <2>2, SlotWrites DEF NasLease, RowIn, RowOf, TypeOK
    <2>4. slot' \in [Slots -> SlotStates \cup {None}]
      BY <1>0, <1>4, <2>1, SlotMoves DEF NasLease
    <2>5. holder' \subseteq Slots \cup Workers
      BY <1>0, <1>4 DEF NasLease, TypeOK
    <2> QED BY <1>0, <1>1, <2>3, <2>4, <2>5, OutsideSound DEF TypeOK
  <1> QED BY <1>2, <1>3, <1>4

(* A slot uploads, completes, fails, signals or gives up.                  *)
LEMMA SlotAnswers ==
  ASSUME ThumbSound, NEW s \in Slots,
         \/ NasUpload(s) \/ NasPut(s) \/ NasVerify(s) \/ NasFinish(s)
         \/ \E e \in {"nas", "pixel"} : NasFail(s, e)
         \/ NasSignal(s) \/ NasMark(s) \/ NasAbandon(s)
  PROVE  ThumbSound'
  <1>0. TypeOK
    BY DEF ThumbSound
  <1>1. slot[s] # None /\ LedgerKept /\ UNCHANGED <<src, clock, events, holder, faults, job>>
    BY <1>0, LedgerStill
    DEF NasUpload, NasPut, NasVerify, NasFinish, NasFail, NasSignal, NasMark, NasAbandon, Busy, env
  <1>2. slot[s].ver \in Versions
    BY <1>0, <1>1, SlotMoves
  <1>3. slot' \in [Slots -> SlotStates \cup {None}]
    <2>1. Leave(s) \/ \E l \in {"put", "uploaded", "finish", "signal", "mark"} : Move(s, l)
      BY DEF NasUpload, NasPut, NasVerify, NasFinish, NasFail, NasSignal, NasMark, NasAbandon
    <2> QED BY <1>0, <1>1, <2>1, SlotMoves
  <1>4. MessagesTyped'
    <2>1. UNCHANGED <<queue, dead>> \/ Sent(slot[s].ver)
      BY DEF NasUpload, NasPut, NasVerify, NasFinish, NasFail, NasSignal, NasMark, NasAbandon
    <2> QED BY <1>0, <1>2, <2>1, SentTyped, MessagesStill
  <1>5. object' \in [Versions -> Renderers \cup {None}]
    <2>1. UNCHANGED object \/ object' = [object EXCEPT ![slot[s].ver] = "nas"]
      BY DEF NasUpload, NasPut, NasVerify, NasFinish, NasFail, NasSignal, NasMark, NasAbandon
    <2> QED BY <1>0, <2>1 DEF TypeOK, Renderers
  <1>6. row' \in Rows \cup {None}
    <2>1. CASE UNCHANGED row
      BY <1>0, <2>1, RowStill
    <2>2. CASE NasVerify(s) \/ NasFinish(s)
      BY <1>0, <2>2, SlotWrites DEF NasVerify, NasFinish, HoldsLease, Holds, RowIn, RowOf, TypeOK
    <2>3. ASSUME NEW e \in {"nas", "pixel"}, NasFail(s, e)
          PROVE  row' \in Rows \cup {None}
      BY <1>0, <2>3, SlotWrites DEF NasFail, HoldsLease, Holds, RowIn, RowOf, TypeOK
    <2>4. CASE NasMark(s)
      BY <1>0, <2>4, MarkedTyped DEF NasMark
    <2>5. CASE NasUpload(s) \/ NasPut(s) \/ NasSignal(s) \/ NasAbandon(s)
      BY <2>1, <2>5 DEF NasUpload, NasPut, NasSignal, NasAbandon
    <2> QED BY <2>2, <2>3, <2>4, <2>5
  <1> QED BY <1>0, <1>1, <1>3, <1>4, <1>5, <1>6, OutsideSound DEF TypeOK

-----------------------------------------------------------------------------
(* The theorems.                                                           *)

(* A step of an invocation.                                                *)
LEMMA StepSound ==
  ASSUME ThumbSound, NEW w \in Workers, Step(w)
  PROVE  ThumbSound'
  <1>1. CASE Register(w) \/ AfterRegister(w) \/ Publish(w) \/ Send(w) \/ Mark(w) \/ Remove(w) \/ Retire(w) \/ Resurrect(w)
    BY <1>1, RegisterSound, AfterRegisterSound, PublishSound, SendSound, MarkSound, RemoveSound, RetireSound, ResurrectSound
  <1>2. CASE \/ SelectCleanup(w) \/ ClaimCleanup(w) \/ Referenced(w) \/ Compare(w) \/ DeleteObject(w)
             \/ AfterDelete(w) \/ Regenerate(w) \/ Tidy(w)
    BY <1>2, SelectCleanupSound, ClaimCleanupSound, CleaningSound, DeleteObjectSound, RegenerateSound
  <1>3. CASE \/ Look(w) \/ Head(w) \/ Claim(w) \/ Render(w) \/ Limit(w) \/ Check(w) \/ Adopt(w) \/ Unadopted(w)
             \/ Put(w) \/ Final(w) \/ Complete(w) \/ Fail(w)
    BY <1>3, LookSound, HeadSound, ClaimSound, RenderSound, LimitSound, CheckSound, AdoptSound, UnadoptedSound,
       PutSound, FinalSound, CompleteSound, FailSound
  <1>4. CASE Exhaust(w) \/ Revive(w) \/ Retry(w) \/ Deregister(w)
    BY <1>4, RecoverySound, DeregisterSound
  <1> QED BY <1>1, <1>2, <1>3, <1>4 DEF Step

(* ThumbSound is inductive.                                                *)
LEMMA NextSound == ThumbSound /\ [Next]_vars => ThumbSound'
  <1> SUFFICES ASSUME ThumbSound, [Next]_vars PROVE ThumbSound'
    OBVIOUS
  <1>1. CASE UNCHANGED vars
    <2>1. TypeOK /\ UNCHANGED <<job, cleanup, queue, dead, src, clock, events, row, object, slot, holder, faults>>
      BY <1>1 DEF ThumbSound, vars
    <2> QED BY <2>1, LedgerStill, MessagesStill, OutsideSound DEF TypeOK
  <1>2. ASSUME NEW w \in Workers,
               Step(w) \/ Scheduler(w) \/ Crash(w) \/ Throw(w) \/ SendFails(w) \/ RemovalArrives(w)
        PROVE  ThumbSound'
    BY <1>2, StepSound, RepairsBegin, RepublishSound, CrashSound, ThrowSound, SendFailsSound DEF Scheduler
  <1>3. ASSUME NEW w \in Workers,
               \/ \E k \in events : EventArrives(w, k)
               \/ \E v \in Versions :
                    DeadLetter(w, v) \/ Orphans(w, v) \/ \E m \in 1..MaxDeliveries : Receive(w, v, m)
        PROVE  ThumbSound'
    BY <1>3, EventArrivesSound, DeadLetterSound, RepairsBegin, ReceiveSound
  <1>4. ASSUME NEW s \in Slots, NasStep(s)
        PROVE  ThumbSound'
    BY <1>4, SlotClaims, SlotAnswers DEF NasStep
  <1> QED BY <1>1, <1>2, <1>3, <1>4, EnvironmentSound DEF Next

(* The inductive invariant holds: whatever dies, throws or is overtaken,   *)
(* an invocation that works on a cleanup finds it in the ledger, and the   *)
(* attempts that were made or are under way stay below the cap plus the    *)
(* number of invocations.                                                  *)
THEOREM ThumbSoundAlways == Spec => []ThumbSound
  BY InitSound, NextSound, PTL DEF Spec

(* Every reachable state is well typed.  In particular the attempts of a   *)
(* cleanup exceed THUMBNAIL_CLEANUP_MAX_ATTEMPTS by less than the number   *)
(* of invocations that drain the ledger at the same time.                  *)
THEOREM TypeCorrect == Spec => []TypeOK
  <1>1. ThumbSound => TypeOK
    BY DEF ThumbSound
  <1> QED BY <1>1, ThumbSoundAlways, PTL
=============================================================================
