----------------------- MODULE ThumbnailFencing_proofs -----------------------
(***************************************************************************)
(* What fences the renderers of ThumbnailJobs, and what keeps a row that   *)
(* only the queue consumer may take from being stranded, for any numbers   *)
(* of contents, slots and invocations in any roles.                        *)
(*                                                                         *)
(* Neither holds of every behaviour.  The theorems name the steps that may *)
(* break them, SignalDropped and NumberReused, and say that these are all. *)
(***************************************************************************)
EXTENDS ThumbnailJobs_proofs

-----------------------------------------------------------------------------
(* Steps that concern neither: no message is lost, no row becomes one for  *)
(* the consumer only or gets a mark, nobody claims and nobody who holds a  *)
(* message before its claim moves.                                         *)

QueueKept == \A v \in Versions, m \in 1..MaxDeliveries : queue[<<v, m>>] > 0 => queue'[<<v, m>>] > 0

RowCalm ==
  ConsumerOnly' =>
    /\ ConsumerOnly /\ row'.ver = row.ver
    /\ row.gate = "open" => row'.gate = "open"
    /\ row'.pub => row.pub

Elsewhere(j) == j.at \notin Consuming \cup Rendering \cup {"fail", "mark"}

(* r is the same claim of w, elsewhere on its way.                         *)
SameClaim(w, r) ==
  /\ AnsweringJob(w) /\ r.at \in Rendering \cup {"fail"}
  /\ r.ver = job[w].ver /\ r.n = job[w].n /\ Handles(r)

Aside(w) ==
  /\ job[w] # None => job[w].at \notin Consuming
  /\ \E r \in Jobs \cup {None} :
       job' = [job EXCEPT ![w] = r] /\ (r # None => Elsewhere(r) \/ SameClaim(w, r))

Calm(w) == Aside(w) /\ QueueKept /\ RowCalm /\ UNCHANGED <<slot, holder>>

(* The places where no message is handled and nothing marked.              *)
LEMMA ElsewhereAre ==
  \A j : j.at \in {"register", "registered", "publish", "send", "remove", "retire", "resurrect", "reregister",
                   "discard", "drain", "take", "referenced", "compare", "delete", "deleted", "regenerate", "tidy",
                   "exhaust", "revive", "retry", "deregister"}
           => Elsewhere(j) /\ j.at \in Places
  BY DEF Elsewhere, Consuming, Rendering, Places

(* A message more is in the queue, and none is lost.                       *)
LEMMA AddedKept ==
  ASSUME TypeOK, NEW v \in Versions, NEW m \in 1..MaxDeliveries, queue' = Added(v, m)
  PROVE  QueueKept /\ queue'[<<v, m>>] > 0
  <1>1. queue \in [Versions \X (1..MaxDeliveries) -> 0..MaxCopies] /\ <<v, m>> \in Versions \X (1..MaxDeliveries)
    BY DEF TypeOK
  <1>2. queue[<<v, m>>] \in Nat /\ MaxCopies \in Nat \ {0}
    BY <1>1, Numbers
  <1>3. queue' = [queue EXCEPT ![<<v, m>>] = IF queue[<<v, m>>] < MaxCopies THEN queue[<<v, m>>] + 1 ELSE queue[<<v, m>>]]
    BY DEF Added
  <1>4. queue'[<<v, m>>] > 0
    BY <1>1, <1>2, <1>3
  <1>5. \A e \in Versions \X (1..MaxDeliveries) : e # <<v, m>> => queue'[e] = queue[e]
    BY <1>1, <1>3
  <1> QED BY <1>4, <1>5 DEF QueueKept

(* A message that the queue takes back is there again, except after its    *)
(* last delivery.                                                          *)
LEMMA TakenBackKept ==
  ASSUME TypeOK, NEW v \in Versions, NEW m \in 0..MaxDeliveries, TakenBack(v, m)
  PROVE  QueueKept /\ (m < MaxDeliveries => m + 1 \in 1..MaxDeliveries /\ queue'[<<v, m + 1>>] > 0)
  <1>1. CASE m < MaxDeliveries
    <2>1. m + 1 \in 1..MaxDeliveries
      BY <1>1, Numbers
    <2>2. queue' = Added(v, m + 1)
      BY <1>1 DEF TakenBack
    <2> QED BY <2>1, <2>2, AddedKept
  <1>2. CASE ~(m < MaxDeliveries)
    BY <1>2 DEF TakenBack, QueueKept
  <1> QED BY <1>1, <1>2

(* An invocation ends.                                                     *)
LEMMA EndKept ==
  ASSUME ThumbSound, NEW w \in Workers, job[w] # None, NEW out, End(w, out)
  PROVE  job' = [job EXCEPT ![w] = None] /\ QueueKept
  <1>1. TypeOK /\ job[w].ver \in Versions /\ job[w].m \in 0..MaxDeliveries
    BY JobTyped, JobFields DEF ThumbSound
  <1>2. TakenBack(job[w].ver, job[w].m) \/ UNCHANGED queue
    BY DEF End
  <1> QED BY <1>1, <1>2, TakenBackKept DEF End, GoTo, QueueKept

(* The same of one that handles no unclaimed message.                      *)
LEMMA EndAside ==
  ASSUME ThumbSound, NEW w \in Workers, job[w] # None, job[w].at \notin Consuming, NEW out, End(w, out)
  PROVE  Aside(w) /\ QueueKept
  BY EndKept DEF Aside

(* An invocation goes where no message is handled.                         *)
LEMMA GoToAside ==
  ASSUME NEW w \in Workers, job[w] # None => job[w].at \notin Consuming, NEW r \in Jobs, Elsewhere(r), GoTo(w, r)
  PROVE  Aside(w)
  BY DEF Aside, GoTo

(* The same with everything it carries.                                    *)
LEMMA GoAside ==
  ASSUME ThumbSound, NEW w \in Workers, job[w] # None, job[w].at \notin Consuming,
         NEW l \in {"registered", "publish", "retire", "reregister", "drain", "referenced", "compare", "delete",
                    "deleted", "regenerate", "tidy"}, Go(w, l)
  PROVE  Aside(w)
  <1> DEFINE r == [job[w] EXCEPT !.at = l]
  <1>1. job[w] \in Jobs /\ l \in Places
    BY JobTyped DEF Places
  <1>2. r \in Jobs /\ r.at = l
    BY <1>1 DEF Jobs
  <1>3. GoTo(w, r)
    BY DEF Go, GoTo
  <1> HIDE DEF r
  <1> QED BY <1>2, <1>3, ElsewhereAre, GoToAside

(* An invocation goes on with what it put off.                             *)
LEMMA ContinueAside ==
  ASSUME ThumbSound, NEW w \in Workers, job[w] # None, job[w].at \notin Consuming, Continue(w)
  PROVE  Aside(w) /\ QueueKept
  <1>1. CASE job[w].then = "end"
    BY <1>1, EndAside DEF Continue
  <1>2. CASE job[w].then # "end"
    <2> DEFINE r == [job[w] EXCEPT !.at = job[w].then, !.then = "end"]
    <2>1. job[w] \in Jobs /\ job[w].then \in {"publish", "resurrect", "discard"}
      BY <1>2, JobTyped, JobFields
    <2>2. job[w].then \in Places
      BY <2>1 DEF Places
    <2>3. r \in Jobs /\ r.at = job[w].then
      BY <2>1, <2>2, JobMoves
    <2>4. GoTo(w, r) /\ UNCHANGED queue
      BY <1>2 DEF Continue
    <2> HIDE DEF r
    <2>5. Elsewhere(r)
      BY <2>1, <2>3, ElsewhereAre
    <2> QED BY <2>3, <2>4, <2>5, GoToAside DEF QueueKept
  <1> QED BY <1>1, <1>2

(* The row stays, or becomes none that only the consumer may take.         *)
LEMMA CalmRow ==
  ASSUME \/ UNCHANGED row
         \/ row' = None \/ row'.st # "pending" \/ row'.err \in {"none", "pixel"}
  PROVE  RowCalm
  BY DEF RowCalm, ConsumerOnly

(* What is written to the row.                                             *)
LEMMA RowValues ==
  ASSUME row \in Rows
  PROVE  /\ \A e : Failed(e).st = "failed" /\ Pending(e).err = e
         /\ \A t : Ready(t).st = "ready"
         /\ \A n : Taken(n).st = "processing"
         /\ [Pending("none") EXCEPT !.pub = FALSE].err = "none"
         /\ [Pending("none") EXCEPT !.thumb = None, !.gate = "primary"].err = "none"
         /\ [Pending("none") EXCEPT !.tries = row.tries + 1, !.pub = FALSE, !.gate = "primary"].err = "none"
         /\ \A e : [Pending(e) EXCEPT !.pub = FALSE, !.gate = "primary"].err = e
         /\ \A n : [Taken(n) EXCEPT !.err = "none"].st = "processing"
  BY DEF Rows, Failed, Pending, Ready, Taken

-----------------------------------------------------------------------------
(* What such steps keep.                                                   *)

(* The place of a mark and its subject.                                    *)
LEMMA MarkingOf ==
  ASSUME NEW v, NEW w \in Workers, NEW r, job' = [job EXCEPT ![w] = r], job \in [Workers -> Jobs \cup {None}],
         r # None => r.at # "mark", UNCHANGED slot
  PROVE  Marking(v)' => Marking(v)
  <1>1. job'[w] = r /\ \A x \in Workers : x # w => job'[x] = job[x]
    OBVIOUS
  <1> QED BY <1>1 DEF Marking, At, Subject, Busy

(* Invocation w holds a message about v that will be answered.             *)
Bears(w, v) ==
  /\ job[w] # None /\ job[w].ver = v
  /\ \/ job[w].at = "look" /\ job[w].m < MaxDeliveries
     \/ job[w].at \in Consuming /\ row.gate = "open"

(* The messages of a row are still on their way, if the one who moves does *)
(* not lose his.                                                           *)
LEMMA CarriedOn ==
  ASSUME NEW v \in Versions, NEW w \in Workers, NEW r, job' = [job EXCEPT ![w] = r], job \in [Workers -> Jobs \cup {None}],
         Bears(w, v) => Carried(v)',
         UNCHANGED slot, QueueKept, row.gate = "open" => row'.gate = "open"
  PROVE  Carried(v) => Carried(v)'
  <1>1. \A x \in Workers : x # w => job'[x] = job[x]
    OBVIOUS
  <1>2. ASSUME NEW m \in 1..MaxDeliveries, queue[<<v, m>>] > 0
        PROVE  Carried(v)'
    BY <1>2 DEF QueueKept, Carried
  <1>3. ASSUME NEW x \in Workers, x # w, Bears(x, v)
        PROVE  Carried(v)'
    BY <1>1, <1>3 DEF Carried, Bears
  <1>4. ASSUME NEW s \in Slots, Busy(s, "signal"), slot[s].ver = v
        PROVE  Carried(v)'
    BY <1>4 DEF Carried, Busy
  <1> QED BY <1>2, <1>3, <1>4 DEF Carried, Bears

(* A calm step loses no signal.                                            *)
LEMMA CalmKept ==
  ASSUME ThumbSound, SignalsOut, NEW w \in Workers, Calm(w)
  PROVE  SignalsOut'
  <1>1. PICK r \in Jobs \cup {None} :
          job' = [job EXCEPT ![w] = r] /\ (r # None => Elsewhere(r) \/ SameClaim(w, r))
    BY DEF Calm, Aside
  <1>2. job \in [Workers -> Jobs \cup {None}]
    BY DEF ThumbSound, TypeOK
  <1>3. r # None => r.at # "mark"
    BY <1>1 DEF Elsewhere, SameClaim, Rendering
  <1> SUFFICES ASSUME ConsumerOnly' PROVE Carried(row.ver)' \/ (~row'.pub /\ ~Marking(row.ver)')
    BY DEF SignalsOut
  <1>4. ConsumerOnly /\ row'.ver = row.ver /\ (row.gate = "open" => row'.gate = "open") /\ (row'.pub => row.pub)
    BY DEF Calm, RowCalm
  <1>5. PICK v \in Versions : v = row.ver /\ v = row'.ver
    BY <1>4, RowFields DEF ThumbSound, ConsumerOnly
  <1>6. Carried(v) => Carried(v)'
    <2>1. ~Bears(w, v)
      BY DEF Calm, Aside, Bears, Consuming
    <2> QED BY <1>1, <1>2, <1>4, <2>1, CarriedOn DEF Calm
  <1>7. Marking(v)' => Marking(v)
    BY <1>1, <1>2, <1>3, MarkingOf DEF Calm
  <1>8. Carried(v) \/ (~row.pub /\ ~Marking(v))
    BY <1>4, <1>5 DEF SignalsOut
  <1>9. Carried(v)' \/ (~row'.pub /\ ~Marking(v)')
    BY <1>4, <1>6, <1>7, <1>8
  <1> QED BY <1>5, <1>9

(* Claims stay in order where nobody claims and no number is used again.   *)
LEMMA OrderKept ==
  ASSUME ThumbSound, ThumbSound', ClaimsInOrder, ~NumberReused, UNCHANGED holder,
         \A s \in Slots : AnsweringSlot(s)' => AnsweringSlot(s) /\ slot'[s].ver = slot[s].ver /\ slot'[s].n = slot[s].n,
         \A w \in Workers : AnsweringJob(w)' => AnsweringJob(w) /\ job'[w].ver = job[w].ver /\ job'[w].n = job[w].n
  PROVE  ClaimsInOrder'
  <1>1. /\ row # None => row.tries \in Nat
        /\ row' # None => row'.tries \in Nat
    BY RowFields DEF ThumbSound, TypeOK, Rows
  <1>2. ASSUME NEW s \in Slots, AnsweringSlot(s)', row' # None, row'.ver = slot'[s].ver
        PROVE  slot'[s].n <= row'.tries /\ (slot'[s].n = row'.tries => s \in holder')
    <2>1. AnsweringSlot(s) /\ slot'[s].ver = slot[s].ver /\ slot'[s].n = slot[s].n
      BY <1>2
    <2>2. slot[s].n \in Nat
      BY <2>1, SlotMoves DEF ThumbSound, AnsweringSlot
    <2>3. RowOf(row'.ver) /\ ~(row'.tries < row.tries)
      BY <1>2, <2>1 DEF NumberReused, Claimed
    <2>4. row # None /\ slot[s].n <= row.tries /\ (slot[s].n = row.tries => s \in holder)
      BY <1>2, <2>1, <2>3 DEF ClaimsInOrder, InOrder, RowOf
    <2> QED BY <1>1, <1>2, <2>1, <2>2, <2>3, <2>4
  <1>3. ASSUME NEW w \in Workers, AnsweringJob(w)', row' # None, row'.ver = job'[w].ver
        PROVE  job'[w].n <= row'.tries /\ (job'[w].n = row'.tries => w \in holder')
    <2>1. AnsweringJob(w) /\ job'[w].ver = job[w].ver /\ job'[w].n = job[w].n
      BY <1>3
    <2>2. job[w].n \in Nat
      BY <2>1, JobTyped, JobFields DEF AnsweringJob
    <2>3. RowOf(row'.ver) /\ ~(row'.tries < row.tries)
      BY <1>3, <2>1 DEF NumberReused, Claimed
    <2>4. row # None /\ job[w].n <= row.tries /\ (job[w].n = row.tries => w \in holder)
      BY <1>3, <2>1, <2>3 DEF ClaimsInOrder, InOrder, RowOf
    <2> QED BY <1>1, <1>3, <2>1, <2>2, <2>3, <2>4
  <1> QED BY <1>2, <1>3 DEF ClaimsInOrder, InOrder, RowOf

-----------------------------------------------------------------------------
(* Registration, removal and the ledger are calm.                          *)

(* A step of an invocation that holds no unclaimed message.                *)
LEMMA Idle ==
  ASSUME ThumbSound, NEW w \in Workers,
         NEW l \in {"register", "registered", "publish", "send", "mark", "remove", "retire", "resurrect", "reregister",
                    "discard", "drain", "take", "referenced", "compare", "delete", "deleted", "regenerate", "tidy",
                    "exhaust", "revive", "retry", "deregister"}, At(w, l)
  PROVE  job[w] # None /\ job[w] \in Jobs /\ job[w].at = l /\ job[w].at \notin Consuming
  BY JobTyped DEF At, Consuming

(* Registrations: what is new was not failed, what is kept keeps its state.*)
LEMMA RegisterCalm ==
  ASSUME ThumbSound, NEW w \in Workers, Register(w)
  PROVE  Calm(w)
  <1>1. job[w] # None /\ job[w].at \notin Consuming /\ Go(w, "registered") /\ UNCHANGED <<queue, slot, holder>>
    BY Idle DEF Register
  <1>2. Aside(w) /\ QueueKept
    BY <1>1, GoAside DEF QueueKept
  <1>3. RowCalm
    <2>1. CASE row' = Registered(job[w].ver, job[w].n)
      BY <2>1, CalmRow DEF Registered
    <2>2. CASE row # None /\ row' = [row EXCEPT !.at = job[w].n]
      <3>1. row \in Rows
        BY <2>2, RowFields DEF ThumbSound
      <3>2. row'.ver = row.ver /\ row'.st = row.st /\ row'.err = row.err /\ row'.gate = row.gate /\ row'.pub = row.pub
        BY <2>2, <3>1 DEF Rows
      <3> QED BY <2>2, <3>2 DEF RowCalm, ConsumerOnly
    <2>3. CASE UNCHANGED row
      BY <2>3, CalmRow
    <2> QED BY <2>1, <2>2, <2>3 DEF Register, RowOf
  <1> QED BY <1>1, <1>2, <1>3 DEF Calm

(* The steps after it.                                                     *)
LEMMA RegisteredCalm ==
  ASSUME ThumbSound, NEW w \in Workers, AfterRegister(w) \/ Publish(w)
  PROVE  Calm(w)
  <1>1. CASE AfterRegister(w)
    <2>1. job[w] # None /\ job[w] \in Jobs /\ job[w].at \notin Consuming /\ UNCHANGED <<row, slot, holder>>
      BY <1>1, Idle DEF AfterRegister
    <2>2. RowCalm
      BY <2>1, CalmRow
    <2>3. CASE End(w, "ack")
      BY <2>1, <2>2, <2>3, EndAside DEF Calm
    <2>4. CASE GoTo(w, [job[w] EXCEPT !.at = "drain", !.then = "publish"]) /\ UNCHANGED queue
      <3> DEFINE r == [job[w] EXCEPT !.at = "drain", !.then = "publish"]
      <3>1. r \in Jobs /\ r.at = "drain"
        BY <2>1, PlainAre DEF Jobs
      <3>2. GoTo(w, r)
        BY <2>4
      <3> HIDE DEF r
      <3>3. Aside(w)
        BY <2>1, <3>1, <3>2, ElsewhereAre, GoToAside
      <3> QED BY <2>1, <2>2, <2>4, <3>3 DEF Calm, QueueKept
    <2>5. CASE Go(w, "publish") /\ UNCHANGED queue
      BY <2>1, <2>2, <2>5, GoAside DEF Calm, QueueKept
    <2> QED BY <1>1, <2>3, <2>4, <2>5 DEF AfterRegister
  <1>2. CASE Publish(w)
    <2> DEFINE r == [job[w] EXCEPT !.at = "send", !.via = "enqueue"]
    <2>1. job[w] # None /\ job[w] \in Jobs /\ job[w].at \notin Consuming /\ UNCHANGED <<queue, slot, holder>> /\ GoTo(w, r)
      BY <1>2, Idle DEF Publish
    <2>2. r \in Jobs /\ r.at = "send"
      BY <2>1, PlainAre DEF Jobs
    <2> HIDE DEF r
    <2>3. Aside(w)
      BY <2>1, <2>2, ElsewhereAre, GoToAside
    <2>4. RowCalm
      <3>1. row # None => row \in Rows
        BY RowFields DEF ThumbSound
      <3> QED BY <1>2, <3>1, CalmRow, RowValues DEF Publish, RowIn, RowOf
    <2> QED BY <2>1, <2>3, <2>4 DEF Calm, QueueKept
  <1> QED BY <1>1, <1>2

(* A signal that cannot be sent fails the row.                             *)
LEMMA SendFailsCalm ==
  ASSUME ThumbSound, NEW w \in Workers, SendFails(w)
  PROVE  Calm(w)
  <1>1. job[w] # None /\ job[w].at \notin Consuming /\ Continue(w) /\ UNCHANGED <<slot, holder>>
    BY Idle DEF SendFails
  <1>2. RowCalm
    <2>1. row # None => row \in Rows
      BY RowFields DEF ThumbSound
    <2> QED BY <2>1, CalmRow, RowValues DEF SendFails, RowIn, RowOf
  <1> QED BY <1>1, <1>2, ContinueAside DEF Calm

(* Removal, and the registration of a source that is back.                 *)
LEMMA RemovalCalm ==
  ASSUME ThumbSound, NEW w \in Workers, Remove(w) \/ Retire(w) \/ Resurrect(w) \/ Deregister(w)
  PROVE  Calm(w)
  <1>1. job[w] # None /\ job[w] \in Jobs /\ job[w].at \notin Consuming /\ UNCHANGED <<slot, holder>>
    BY Idle DEF Remove, Retire, Resurrect, Deregister
  <1>2. RowCalm
    BY CalmRow DEF Remove, Retire, Resurrect, Deregister
  <1>3. CASE Remove(w) \/ Retire(w)
    <2>1. (Go(w, "retire") \/ Go(w, "drain")) /\ UNCHANGED queue
      BY <1>3 DEF Remove, Retire
    <2> QED BY <1>1, <1>2, <2>1, GoAside DEF Calm, QueueKept
  <1>4. CASE Resurrect(w)
    <2>1. CASE End(w, "ack")
      BY <1>1, <1>2, <2>1, EndAside DEF Calm
    <2>2. ASSUME src.ver # 0, NEW t \in {src.at, Now}, GoTo(w, Registering(src.ver, t)), UNCHANGED queue
          PROVE  Calm(w)
      <3>1. TypeOK /\ src.ver \in Versions /\ t \in Times
        <4>1. TypeOK
          BY DEF ThumbSound
        <4>2. src.ver \in Versions /\ src.at \in Times /\ clock \in 0..MaxUploads
          BY <4>1, <2>2 DEF TypeOK
        <4>3. Now \in Times
          BY <4>2, Numbers DEF Now, Times
        <4> QED BY <4>1, <4>2, <4>3, <2>2
      <3>2. Registering(src.ver, t) \in Jobs /\ Registering(src.ver, t).at = "register"
        BY <3>1, RegisteringTyped
      <3>3. Aside(w)
        BY <1>1, <2>2, <3>2, ElsewhereAre, GoToAside
      <3> QED BY <1>1, <1>2, <2>2, <3>3 DEF Calm, QueueKept
    <2> QED BY <1>4, <2>1, <2>2 DEF Resurrect
  <1>5. CASE Deregister(w)
    <2>1. End(w, "ack") \/ (Go(w, "reregister") /\ UNCHANGED queue)
      BY <1>5 DEF Deregister
    <2> QED BY <1>1, <1>2, <2>1, EndAside, GoAside DEF Calm, QueueKept
  <1> QED BY <1>3, <1>4, <1>5

(* The ledger.                                                             *)
LEMMA LedgerCalm ==
  ASSUME ThumbSound, NEW w \in Workers,
         \/ SelectCleanup(w) \/ ClaimCleanup(w) \/ Referenced(w) \/ Compare(w) \/ DeleteObject(w)
         \/ AfterDelete(w) \/ Tidy(w)
  PROVE  Calm(w)
  <1>1. job[w] # None /\ job[w] \in Jobs /\ job[w].at \notin Consuming /\ UNCHANGED <<row, slot, holder>>
    BY Idle DEF SelectCleanup, ClaimCleanup, Referenced, Compare, DeleteObject, AfterDelete, Tidy
  <1>2. RowCalm
    BY <1>1, CalmRow
  <1>3. CASE Continue(w)
    BY <1>1, <1>2, <1>3, ContinueAside DEF Calm
  <1>4. ASSUME NEW l \in {"referenced", "compare", "delete", "deleted", "regenerate", "tidy"}, Go(w, l), UNCHANGED queue
        PROVE  Calm(w)
    BY <1>1, <1>2, <1>4, GoAside DEF Calm, QueueKept
  <1>5. ASSUME NEW v \in Versions, cleanup[v] # None,
               GoTo(w, [job[w] EXCEPT !.at = "take", !.key = v, !.etag = cleanup[v].etag]), UNCHANGED queue
        PROVE  Calm(w)
    <2> DEFINE r == [job[w] EXCEPT !.at = "take", !.key = v, !.etag = cleanup[v].etag]
    <2>1. cleanup[v].etag \in Renderers \cup {None}
      BY <1>5 DEF ThumbSound, TypeOK, Cleanups
    <2>2. r \in Jobs /\ r.at = "take"
      BY <1>1, <2>1, PlainAre DEF Jobs
    <2>3. GoTo(w, r)
      BY <1>5
    <2> HIDE DEF r
    <2>4. Aside(w)
      BY <1>1, <2>2, <2>3, ElsewhereAre, GoToAside
    <2> QED BY <1>1, <1>2, <1>5, <2>4 DEF Calm, QueueKept
  <1>6. CASE SelectCleanup(w)
    BY <1>3, <1>5, <1>6 DEF SelectCleanup, Due
  <1>7. CASE ClaimCleanup(w) \/ Referenced(w) \/ Compare(w)
    BY <1>3, <1>4, <1>7 DEF ClaimCleanup, Referenced, Compare, Settled
  <1>8. CASE DeleteObject(w) \/ AfterDelete(w) \/ Tidy(w)
    BY <1>3, <1>4, <1>8 DEF DeleteObject, AfterDelete, Tidy, Settled
  <1> QED BY <1>6, <1>7, <1>8

(* A row whose object was deleted under it is open to everybody again.     *)
LEMMA RegenerateCalm ==
  ASSUME ThumbSound, NEW w \in Workers, Regenerate(w)
  PROVE  Calm(w)
  <1> DEFINE r == [job[w] EXCEPT !.at = "send", !.via = "regenerate"]
  <1>1. job[w] # None /\ job[w] \in Jobs /\ job[w].at \notin Consuming /\ UNCHANGED <<queue, slot, holder>> /\ GoTo(w, r)
    BY Idle DEF Regenerate
  <1>2. r \in Jobs /\ r.at = "send"
    BY <1>1, PlainAre DEF Jobs
  <1> HIDE DEF r
  <1>3. Aside(w)
    BY <1>1, <1>2, ElsewhereAre, GoToAside
  <1>4. RowCalm
    <2>1. row # None => row \in Rows
      BY RowFields DEF ThumbSound
    <2> QED BY <2>1, CalmRow, RowValues DEF Regenerate, Active, RowIn, RowOf
  <1> QED BY <1>1, <1>3, <1>4 DEF Calm, QueueKept

-----------------------------------------------------------------------------
(* What an invocation does with a claim is calm, except that its failure   *)
(* may give the row back.                                                  *)

(* Who renders has claimed, and holds a message to the end.                *)
LEMMA Renders ==
  ASSUME ThumbSound, MessagesHandled, NEW w \in Workers, job[w] # None, job[w].at \in Rendering
  PROVE  /\ job[w] \in Jobs /\ job[w].m # 0 /\ job[w].then = "end"
         /\ job[w].at \notin Consuming /\ AnsweringJob(w)
  BY JobTyped DEF MessagesHandled, Handles, AnsweringJob, Consuming, Rendering

(* A claim stays the same on its way.                                      *)
LEMMA ClaimAside ==
  ASSUME NEW w \in Workers, job[w].at \notin Consuming, NEW r \in Jobs, SameClaim(w, r), GoTo(w, r)
  PROVE  Aside(w)
  BY DEF Aside, GoTo

(* The next step of rendering.                                             *)
LEMMA RenderAside ==
  ASSUME ThumbSound, MessagesHandled, NEW w \in Workers, job[w] # None, job[w].at \in Rendering,
         NEW l \in Rendering, GoTo(w, [job[w] EXCEPT !.at = l])
  PROVE  Aside(w)
  <1> DEFINE r == [job[w] EXCEPT !.at = l]
  <1>1. job[w] \in Jobs /\ job[w].m # 0 /\ job[w].then = "end" /\ job[w].at \notin Consuming /\ AnsweringJob(w)
    BY Renders
  <1>2. l \in Places
    BY DEF Rendering, Places
  <1>3. r \in Jobs /\ r.at = l /\ r.ver = job[w].ver /\ r.n = job[w].n /\ r.m = job[w].m /\ r.then = job[w].then
    BY <1>1, <1>2 DEF Jobs
  <1> HIDE DEF r
  <1>4. Handles(r)
    BY <1>1, <1>3 DEF Handles, Rendering
  <1>5. SameClaim(w, r)
    BY <1>1, <1>3, <1>4 DEF SameClaim
  <1>6. GoTo(w, r)
    BY DEF r
  <1> QED BY <1>1, <1>3, <1>5, <1>6, ClaimAside

(* The same, as the actions say it.                                        *)
LEMMA RenderGoes ==
  ASSUME ThumbSound, MessagesHandled, NEW w \in Workers, job[w] # None, job[w].at \in Rendering,
         NEW l \in Rendering, Go(w, l)
  PROVE  Aside(w)
  BY RenderAside DEF Go, GoTo

(* What a failure carries.                                                 *)
LEMMA FailingFields ==
  ASSUME NEW j \in Jobs, NEW e \in Errors, NEW o \in {"ack", "failed", "retry"}
  PROVE  /\ Failing(j, e, o).out = o /\ Failing(j, e, o).ver = j.ver /\ Failing(j, e, o).n = j.n
         /\ Failing(j, e, o).m = j.m /\ Failing(j, e, o).then = j.then
         /\ \A t \in Renderers \cup {None} :
              /\ Discarding(j, e, o, t).out = o /\ Discarding(j, e, o, t).ver = j.ver
              /\ Discarding(j, e, o, t).n = j.n
  <1>1. /\ Failing(j, e, o).out = o /\ Failing(j, e, o).ver = j.ver /\ Failing(j, e, o).n = j.n
        /\ Failing(j, e, o).m = j.m /\ Failing(j, e, o).then = j.then
    BY DEF Jobs, Failing
  <1>2. Failing(j, e, o) \in Jobs
    BY FailingTyped
  <1>3. \A k \in Jobs, t \in Renderers \cup {None} :
          /\ [k EXCEPT !.then = "discard", !.etag = t].out = k.out
          /\ [k EXCEPT !.then = "discard", !.etag = t].ver = k.ver
          /\ [k EXCEPT !.then = "discard", !.etag = t].n = k.n
    BY DEF Jobs
  <1> QED BY <1>1, <1>2, <1>3 DEF Discarding

(* An attempt fails: a retry is left to a message that is delivered again. *)
LEMMA FailingAside ==
  ASSUME ThumbSound, MessagesHandled, NEW w \in Workers, job[w] # None, job[w].at \in Rendering,
         NEW e \in Errors, NEW o \in {"ack", "failed", "retry"}, o = "retry" => job[w].m # MaxDeliveries,
         GoTo(w, Failing(job[w], e, o))
  PROVE  Aside(w)
  <1> DEFINE r == Failing(job[w], e, o)
  <1>1. job[w] \in Jobs /\ job[w].m # 0 /\ job[w].then = "end" /\ job[w].at \notin Consuming /\ AnsweringJob(w)
    BY Renders
  <1>2. /\ r \in Jobs /\ r.at = "fail" /\ r.out = o /\ r.ver = job[w].ver /\ r.n = job[w].n
        /\ r.m = job[w].m /\ r.then = job[w].then
    BY <1>1, FailingTyped, FailingFields
  <1> HIDE DEF r
  <1>3. Handles(r)
    BY <1>1, <1>2 DEF Handles, Consuming, Rendering
  <1>4. SameClaim(w, r)
    BY <1>1, <1>2, <1>3 DEF SameClaim
  <1>5. GoTo(w, r)
    BY DEF r
  <1> QED BY <1>1, <1>2, <1>4, <1>5, ClaimAside

(* The same where an object is to be discarded: nothing is retried.        *)
LEMMA DiscardingAside ==
  ASSUME ThumbSound, MessagesHandled, NEW w \in Workers, job[w] # None, job[w].at \in Rendering,
         NEW e \in Errors, NEW o \in {"ack", "failed"}, NEW t \in Renderers \cup {None},
         GoTo(w, Discarding(job[w], e, o, t))
  PROVE  Aside(w)
  <1> DEFINE r == Discarding(job[w], e, o, t)
  <1>1. job[w] \in Jobs /\ job[w].at \notin Consuming /\ AnsweringJob(w)
    BY Renders
  <1>2. r \in Jobs /\ r.at = "fail" /\ r.out = o /\ r.ver = job[w].ver /\ r.n = job[w].n
    <2>1. o \in {"ack", "failed", "retry"}
      OBVIOUS
    <2>2. Discarding(job[w], e, o, t) \in Jobs /\ Discarding(job[w], e, o, t).at = "fail"
      BY <1>1, <2>1, FailingTyped
    <2>3. /\ Discarding(job[w], e, o, t).out = o /\ Discarding(job[w], e, o, t).ver = job[w].ver
          /\ Discarding(job[w], e, o, t).n = job[w].n
      BY <1>1, <2>1, FailingFields
    <2> QED BY <2>2, <2>3
  <1> HIDE DEF r
  <1>3. Handles(r)
    BY <1>2 DEF Handles, Consuming, Rendering
  <1>4. SameClaim(w, r)
    BY <1>1, <1>2, <1>3 DEF SameClaim
  <1>5. GoTo(w, r)
    BY DEF r
  <1> QED BY <1>1, <1>2, <1>4, <1>5, ClaimAside

(* Where failures leave a message.                                         *)
LEMMA TransientIs ==
  ASSUME NEW j
  PROVE  Transient(j) \in {"failed", "retry"} /\ (Transient(j) = "retry" => j.m # MaxDeliveries)
  BY DEF Transient

(* Rendering and what may go wrong in it.                                  *)
LEMMA RenderCalm ==
  ASSUME ThumbSound, MessagesHandled, NEW w \in Workers, Render(w) \/ Throw(w)
  PROVE  Calm(w)
  <1> DEFINE j == job[w]
  <1>1. j # None /\ j.at \in Rendering /\ UNCHANGED <<row, queue, slot, holder>>
    BY DEF Render, Throw, At, Rendering
  <1>2. RowCalm /\ QueueKept
    BY <1>1, CalmRow DEF QueueKept
  <1>3. ASSUME NEW e \in Errors, NEW o \in {"ack", "failed", "retry"}, o = "retry" => j.m # MaxDeliveries,
               GoTo(w, Failing(j, e, o))
        PROVE  Aside(w)
    BY <1>1, <1>3, FailingAside
  <1>4. CASE Throw(w)
    BY <1>1, <1>2, <1>3, <1>4, ErrorsAre, TransientIs DEF Throw, Calm
  <1>5. CASE Render(w) /\ src.ver # j.ver
    BY <1>1, <1>2, <1>3, <1>5, ErrorsAre DEF Render, Calm
  <1>6. CASE Render(w) /\ src.ver = j.ver
    <2>1. PICK o \in Outcomes :
            GoTo(w, CASE o = "ok" -> [j EXCEPT !.at = "check"]
                      [] o = "pixel" -> [j EXCEPT !.at = "limit"]
                      [] o \in {"permanent", "transfer"} -> Failing(j, o, "failed")
                      [] o = "code" -> Failing(j, o, Transient(j)))
      BY <1>6 DEF Render
    <2>2. o \in {"ok", "pixel", "permanent", "transfer", "code"}
      BY ThumbnailAssumption
    <2>3. "check" \in Rendering /\ "limit" \in Rendering
      BY DEF Rendering
    <2>4. CASE o = "ok"
      <3>1. GoTo(w, [j EXCEPT !.at = "check"])
        BY <2>1, <2>4
      <3> QED BY <3>1, <1>1, <1>2, <2>3, RenderAside DEF Calm
    <2>5. CASE o = "pixel"
      <3>1. GoTo(w, [j EXCEPT !.at = "limit"])
        BY <2>1, <2>5
      <3> QED BY <3>1, <1>1, <1>2, <2>3, RenderAside DEF Calm
    <2>6. CASE o \in {"permanent", "transfer"}
      <3>1. GoTo(w, Failing(j, o, "failed"))
        BY <2>1, <2>6
      <3> QED BY <3>1, <2>6, <1>1, <1>2, <1>3, ErrorsAre DEF Calm
    <2>7. CASE o = "code"
      <3>1. GoTo(w, Failing(j, "code", Transient(j)))
        BY <2>1, <2>7
      <3> QED BY <3>1, <1>1, <1>2, <1>3, ErrorsAre, TransientIs DEF Calm
    <2> QED BY <2>2, <2>4, <2>5, <2>6, <2>7
  <1> QED BY <1>4, <1>5, <1>6

(* The way of a rendering to its place and to the row.                     *)
LEMMA StoreCalm ==
  ASSUME ThumbSound, MessagesHandled, NEW w \in Workers,
         Limit(w) \/ Check(w) \/ Adopt(w) \/ Unadopted(w) \/ Put(w) \/ Final(w) \/ Complete(w)
  PROVE  Calm(w)
  <1> DEFINE j == job[w]
  <1>1. j # None /\ j.at \in Rendering /\ UNCHANGED <<slot, holder>>
    BY DEF Limit, Check, Adopt, Unadopted, Put, Final, Complete, At, Rendering
  <1>2. j.at \notin Consuming
    BY <1>1, Renders
  <1>3. RowCalm
    <2>1. row # None => row \in Rows
      BY RowFields DEF ThumbSound
    <2>2. CASE Limit(w)
      BY <2>1, <2>2, CalmRow, RowValues DEF Limit, Holds, RowIn, RowOf
    <2>3. CASE Adopt(w) \/ Complete(w)
      BY <2>1, <2>3, CalmRow, RowValues DEF Adopt, Complete, Holds, RowIn, RowOf
    <2>4. CASE Check(w) \/ Unadopted(w) \/ Put(w) \/ Final(w)
      BY <2>4, CalmRow DEF Check, Unadopted, Put, Final
    <2> QED BY <2>2, <2>3, <2>4
  <1>4. ASSUME NEW out, End(w, out)
        PROVE  Calm(w)
    BY <1>1, <1>2, <1>3, <1>4, EndAside DEF Calm
  <1>5. ASSUME NEW l \in Rendering, Go(w, l) \/ GoTo(w, [j EXCEPT !.at = l]), UNCHANGED queue
        PROVE  Calm(w)
    BY <1>1, <1>3, <1>5, RenderAside, RenderGoes DEF Calm, QueueKept
  <1>6. ASSUME NEW e \in Errors, NEW o \in {"ack", "failed"}, GoTo(w, Failing(j, e, o)), UNCHANGED queue
        PROVE  Calm(w)
    BY <1>1, <1>3, <1>6, FailingAside DEF Calm, QueueKept
  <1>7. ASSUME NEW e \in Errors, NEW o \in {"ack", "failed"}, NEW t \in Renderers \cup {None},
               GoTo(w, Discarding(j, e, o, t)), UNCHANGED queue
        PROVE  Calm(w)
    BY <1>1, <1>3, <1>7, DiscardingAside DEF Calm, QueueKept
  <1>8. {"put", "adopt", "unadopted", "winner", "final", "complete", "raced"} \subseteq Rendering
        /\ "source" \in Errors /\ "conflict" \in Errors /\ "race" \in Errors /\ "cf" \in Renderers
    BY DEF Rendering, Errors, Renderers
  <1>9. CASE Limit(w)
    BY <1>4, <1>9 DEF Limit
  <1>10. CASE Check(w)
    BY <1>5, <1>6, <1>8, <1>10 DEF Check
  <1>11. CASE Adopt(w)
    BY <1>4, <1>5, <1>6, <1>8, <1>11 DEF Adopt
  <1>12. CASE Unadopted(w)
    BY <1>4, <1>7, <1>8, <1>12 DEF Unadopted, Lost
  <1>13. CASE Put(w) \/ Complete(w)
    BY <1>4, <1>5, <1>8, <1>13 DEF Put, Complete
  <1>14. CASE Final(w)
    BY <1>5, <1>7, <1>8, <1>14 DEF Final
  <1> QED BY <1>9, <1>10, <1>11, <1>12, <1>13, <1>14

-----------------------------------------------------------------------------
(* Repairs and whatever else begins are calm.                              *)

(* An invocation begins where no message is handled.                       *)
LEMMA BeginAside ==
  ASSUME NEW w \in Workers, NEW role, NEW r \in Jobs, Elsewhere(r), Begin(w, role, r)
  PROVE  Aside(w)
  BY DEF Aside, Begin

(* What removals begin with.                                               *)
LEMMA RemovingElsewhere ==
  ASSUME TypeOK, row # None, NEW t \in {"end", "resurrect"}
  PROVE  Removing(t) \in Jobs /\ Elsewhere(Removing(t))
  <1>1. row.ver \in Versions /\ row.thumb \in Renderers \cup {None} /\ "remove" \in Places
    BY RowFields, PlainAre
  <1>2. Start("remove", row.ver) \in Jobs /\ Start("remove", row.ver).at = "remove"
    BY <1>1, StartTyped
  <1>3. Removing(t) \in Jobs /\ Removing(t).at = "remove"
    BY <1>1, <1>2 DEF Removing, Jobs
  <1> QED BY <1>3, ElsewhereAre

(* The scheduler's finds, file events and dead letters.                    *)
LEMMA BeginsCalm ==
  ASSUME ThumbSound, NEW w \in Workers,
         \/ Scheduler(w) \/ RemovalArrives(w) \/ (\E k \in events : EventArrives(w, k))
         \/ \E v \in Versions : DeadLetter(w, v) \/ Orphans(w, v)
  PROVE  Calm(w)
  <1>0. TypeOK
    BY DEF ThumbSound
  <1>1. UNCHANGED <<row, queue, slot, holder>>
    BY DEF Scheduler, RecoverExpired, RecoverTransient, Republish, Reconcile, Drain, RemovalArrives, EventArrives,
           DeadLetter, Orphans
  <1>2. RowCalm /\ QueueKept
    BY <1>1, CalmRow DEF QueueKept
  <1> SUFFICES Aside(w)
    BY <1>1, <1>2 DEF Calm
  <1>3. \A l \in {"exhaust", "revive", "retry", "drain"}, v \in Versions : Start(l, v) \in Jobs /\ Elsewhere(Start(l, v))
    <2> SUFFICES ASSUME NEW l \in {"exhaust", "revive", "retry", "drain"}, NEW v \in Versions
        PROVE  Start(l, v) \in Jobs /\ Elsewhere(Start(l, v))
      OBVIOUS
    <2>1. l \in Places
      BY DEF Places
    <2>2. Start(l, v) \in Jobs /\ Start(l, v).at = l
      BY <2>1, StartTyped
    <2> QED BY <2>2, ElsewhereAre
  <1>4. CASE RecoverExpired(w) \/ RemovalArrives(w)
    <2>1. row # None
      BY <1>4 DEF RecoverExpired, Lapsed, RemovalArrives
    <2>2. row.ver \in Versions
      BY <1>0, <2>1, RowFields
    <2> QED BY <1>0, <1>3, <1>4, <2>1, <2>2, RemovingElsewhere, BeginAside DEF RecoverExpired, RemovalArrives
  <1>5. CASE RecoverTransient(w) \/ Drain(w)
    <2>1. row # None => row.ver \in Versions
      BY <1>0, RowFields
    <2>2. Drain(w) => 1 \in Versions
      <3>1. Cardinality(Versions) \in Nat
        BY ThumbnailAssumption, FS_CardinalityType
      <3>2. Versions = 1..Cardinality(Versions) /\ Versions # {}
        BY ThumbnailAssumption
      <3> QED BY <3>1, <3>2
    <2> QED BY <1>3, <1>5, <2>1, <2>2, BeginAside DEF RecoverTransient, Drain
  <1>6. CASE Republish(w)
    <2> DEFINE r == [Start("send", row.ver) EXCEPT !.via = "soft"]
    <2>1. row.ver \in Versions /\ "send" \in Places
      BY <1>0, <1>6, RowFields, PlainAre DEF Republish
    <2>2. r \in Jobs /\ r.at = "send"
      BY <2>1, StartTyped
    <2>3. Begin(w, "republish", r)
      BY <1>6 DEF Republish
    <2> HIDE DEF r
    <2> QED BY <2>2, <2>3, ElsewhereAre, BeginAside
  <1>7. CASE Reconcile(w)
    <2> DEFINE r == [Start("deregister", row.ver) EXCEPT !.etag = row.thumb]
    <2>1. row.ver \in Versions /\ row.thumb \in Renderers \cup {None} /\ "deregister" \in Places
      BY <1>0, <1>7, RowFields, PlainAre DEF Reconcile
    <2>2. r \in Jobs /\ r.at = "deregister"
      BY <2>1, StartTyped
    <2>3. Begin(w, "reconcile", r)
      BY <1>7 DEF Reconcile
    <2> HIDE DEF r
    <2> QED BY <2>2, <2>3, ElsewhereAre, BeginAside
  <1>8. ASSUME NEW k \in events, EventArrives(w, k)
        PROVE  Aside(w)
    <2> DEFINE r == [Registering(src.ver, 2 * k) EXCEPT !.ev = k]
    <2>1. src.ver \in Versions /\ k \in 1..MaxUploads
      BY <1>0, <1>8 DEF EventArrives, TypeOK
    <2>2. 2 * k \in Times
      BY <2>1, Numbers DEF Times
    <2>3. r \in Jobs /\ r.at = "register"
      BY <1>0, <2>1, <2>2, RegisteringTyped
    <2>4. Begin(w, "event", r)
      BY <1>8 DEF EventArrives
    <2> HIDE DEF r
    <2> QED BY <2>3, <2>4, ElsewhereAre, BeginAside
  <1>9. ASSUME NEW v \in Versions, DeadLetter(w, v)
        PROVE  Aside(w)
    <2> DEFINE r == [Start("discard", v) EXCEPT !.m = MaxDeliveries]
    <2>0. MaxDeliveries \in 0..MaxDeliveries /\ "discard" \in Places
      BY PlainAre, Numbers
    <2>1. r \in Jobs /\ r.at = "discard"
      BY <2>0, StartTyped
    <2>2. Begin(w, "deadletter", r) \/ (job[w] = None /\ UNCHANGED job)
      BY <1>9 DEF DeadLetter
    <2> HIDE DEF r
    <2>3. CASE Begin(w, "deadletter", r)
      BY <2>1, <2>3, ElsewhereAre, BeginAside
    <2>4. CASE job[w] = None /\ UNCHANGED job
      <3>1. job' = [job EXCEPT ![w] = None]
        BY <1>0, <2>4 DEF TypeOK
      <3> QED BY <2>4, <3>1 DEF Aside
    <2> QED BY <2>2, <2>3, <2>4
  <1>10. ASSUME NEW v \in Versions, Orphans(w, v)
         PROVE  Aside(w)
    <2> DEFINE r == [Start("discard", v) EXCEPT !.etag = object[v]]
    <2>1. object[v] \in Renderers \cup {None} /\ "discard" \in Places
      BY <1>0, PlainAre DEF TypeOK
    <2>2. r \in Jobs /\ r.at = "discard"
      BY <2>1, StartTyped
    <2>3. Begin(w, "orphans", r)
      BY <1>10 DEF Orphans
    <2> HIDE DEF r
    <2> QED BY <2>2, <2>3, ElsewhereAre, BeginAside
  <1> QED BY <1>4, <1>5, <1>6, <1>7, <1>8, <1>9, <1>10 DEF Scheduler

(* What the scheduler takes back is open to everybody.                     *)
LEMMA RecoveryCalm ==
  ASSUME ThumbSound, NEW w \in Workers, Exhaust(w) \/ Revive(w) \/ Retry(w)
  PROVE  Calm(w)
  <1> DEFINE r == [job[w] EXCEPT !.at = "send", !.via = "repair"]
  <1>1. job[w] # None /\ job[w] \in Jobs /\ job[w].at \notin Consuming /\ UNCHANGED <<slot, holder>>
    BY Idle DEF Exhaust, Revive, Retry
  <1>2. End(w, "ack") \/ (GoTo(w, r) /\ UNCHANGED queue)
    BY DEF Exhaust, Revive, Retry, Repairing
  <1>3. r \in Jobs /\ r.at = "send"
    BY <1>1, PlainAre DEF Jobs
  <1> HIDE DEF r
  <1>4. Aside(w) /\ QueueKept
    BY <1>1, <1>2, <1>3, EndAside, ElsewhereAre, GoToAside DEF QueueKept
  <1>5. RowCalm
    <2>1. row # None => row \in Rows
      BY RowFields DEF ThumbSound
    <2>2. CASE Exhaust(w) \/ Revive(w)
      BY <2>1, <2>2, CalmRow, RowValues DEF Exhaust, Revive, RowOf
    <2>3. CASE Retry(w)
      <3>1. CASE Recoverable(job[w].ver)
        <4>1. row \in Rows
          BY <2>1, <3>1 DEF Recoverable, RowIn, RowOf
        <4>2. Pending("none") \in Rows /\ Pending("none").tries = row.tries
          BY <4>1, RowOutcomes, ErrorsAre
        <4>3. row' = [Pending("none") EXCEPT !.tries = row.tries + 1, !.pub = FALSE, !.gate = "primary"]
          BY <2>3, <3>1, <4>2 DEF Retry
        <4> QED BY <4>1, <4>3, CalmRow, RowValues
      <3>2. CASE ~Recoverable(job[w].ver)
        BY <2>3, <3>2, CalmRow DEF Retry
      <3> QED BY <3>1, <3>2
    <2> QED BY <2>2, <2>3
  <1> QED BY <1>1, <1>4, <1>5 DEF Calm

-----------------------------------------------------------------------------
(* Invocations that send, mark and consume messages.                       *)

(* The row, or nobody who moves, has anything to do with it.               *)
LEMMA SignalsOn ==
  ASSUME ThumbSound, SignalsOut, NEW w \in Workers, NEW r, job' = [job EXCEPT ![w] = r], r # None => r.at # "mark",
         UNCHANGED <<row, slot>>, QueueKept, ConsumerOnly /\ Bears(w, row.ver) => Carried(row.ver)'
  PROVE  SignalsOut'
  <1> SUFFICES ASSUME ConsumerOnly PROVE Carried(row.ver)' \/ (~row'.pub /\ ~Marking(row.ver)')
    BY DEF SignalsOut, ConsumerOnly
  <1>1. PICK v \in Versions : v = row.ver /\ v = row'.ver
    BY RowFields DEF ThumbSound, ConsumerOnly
  <1>2. job \in [Workers -> Jobs \cup {None}]
    BY DEF ThumbSound, TypeOK
  <1>3. Bears(w, v) => Carried(v)'
    BY <1>1
  <1>4. Carried(v) => Carried(v)'
    BY <1>2, <1>3, CarriedOn
  <1>5. Marking(v)' => Marking(v)
    BY <1>2, MarkingOf
  <1>6. Carried(v) \/ (~row.pub /\ ~Marking(v))
    BY <1>1 DEF SignalsOut
  <1>7. Carried(v)' \/ (~row'.pub /\ ~Marking(v)')
    BY <1>4, <1>5, <1>6
  <1> QED BY <1>1, <1>7

(* A message is in the queue.                                              *)
LEMMA QueuedCarried ==
  ASSUME NEW v, NEW m \in 1..MaxDeliveries, queue'[<<v, m>>] > 0
  PROVE  Carried(v)'
  BY DEF Carried

(* A signal is sent before it is marked.                                   *)
LEMMA SendKept ==
  ASSUME ThumbSound, SignalsOut, NEW w \in Workers, Send(w)
  PROVE  SignalsOut'
  <1> DEFINE r == [job[w] EXCEPT !.at = "mark"]
  <1>0. TypeOK
    BY DEF ThumbSound
  <1>1. job[w] # None /\ job[w] \in Jobs /\ job[w].at = "send" /\ job[w].at \notin Consuming /\ UNCHANGED <<row, slot, holder>>
    BY Idle DEF Send
  <1>2. CASE End(w, "ack")
    <2>1. Calm(w)
      BY <1>1, <1>2, EndAside, CalmRow DEF Calm
    <2> QED BY <2>1, CalmKept
  <1>3. CASE Sent(Subject(job[w])) /\ Go(w, "mark")
    <2>1. Subject(job[w]) \in Versions
      BY <1>1, JobTyped, SubjectTyped
    <2>2. 1 \in 1..MaxDeliveries
      BY Numbers
    <2>3. QueueKept /\ queue'[<<Subject(job[w]), 1>>] > 0
      BY <1>0, <1>3, <2>1, <2>2, AddedKept DEF Sent
    <2>4. job' = [job EXCEPT ![w] = r]
      BY <1>3 DEF Go
    <2>5. r.at = "mark" /\ Subject(r) = Subject(job[w])
      BY <1>1 DEF Jobs, Subject
    <2> HIDE DEF r
    <2>6. SignalsOut'
      <3> SUFFICES ASSUME ConsumerOnly PROVE Carried(row.ver)' \/ (~row'.pub /\ ~Marking(row.ver)')
        BY <1>1 DEF SignalsOut, ConsumerOnly
      <3>1. PICK v \in Versions : v = row.ver /\ v = row'.ver
        BY <1>0, <1>1, RowFields DEF ConsumerOnly
      <3>2. CASE Subject(job[w]) = v
        <4>1. Carried(v)'
          BY <2>2, <2>3, <3>2, QueuedCarried
        <4> QED BY <3>1, <4>1
      <3>3. CASE Subject(job[w]) # v
        <4>1. job \in [Workers -> Jobs \cup {None}] /\ ~Bears(w, v)
          BY <1>0, <1>1 DEF TypeOK, Bears, Consuming
        <4>2. Carried(v) => Carried(v)'
          BY <1>1, <2>3, <2>4, <4>1, CarriedOn
        <4>3. job'[w] = r /\ \A x \in Workers : x # w => job'[x] = job[x]
          BY <2>4, <4>1
        <4>4. Marking(v)' => Marking(v)
          BY <1>1, <2>5, <3>3, <4>3 DEF Marking, At, Busy, Subject
        <4>5. Carried(v) \/ (~row.pub /\ ~Marking(v))
          BY <3>1 DEF SignalsOut
        <4>6. Carried(v)' \/ (~row'.pub /\ ~Marking(v)')
          BY <1>1, <4>2, <4>4, <4>5
        <4> QED BY <3>1, <4>6
      <3> QED BY <3>2, <3>3
    <2> QED BY <2>6
  <1> QED BY <1>2, <1>3 DEF Send

(* A row that is marked had somebody about to mark it.                     *)
LEMMA MarkKept ==
  ASSUME ThumbSound, SignalsOut, NEW w \in Workers, Mark(w)
  PROVE  SignalsOut'
  <1>0. TypeOK
    BY DEF ThumbSound
  <1>1. job[w] # None /\ job[w] \in Jobs /\ job[w].at = "mark" /\ job[w].at \notin Consuming /\ UNCHANGED <<slot, holder>>
    BY Idle DEF Mark
  <1>2. Aside(w) /\ QueueKept
    <2>1. (Go(w, "tidy") /\ UNCHANGED queue) \/ Continue(w)
      BY DEF Mark
    <2> QED BY <1>1, <2>1, GoAside, ContinueAside DEF QueueKept
  <1>3. CASE UNCHANGED row
    <2>1. Calm(w)
      BY <1>1, <1>2, <1>3, CalmRow DEF Calm
    <2> QED BY <2>1, CalmKept
  <1>4. CASE RowOf(Subject(job[w])) /\ row' = [row EXCEPT !.pub = TRUE]
    <2>1. PICK r \in Jobs \cup {None} :
            job' = [job EXCEPT ![w] = r] /\ (r # None => Elsewhere(r) \/ SameClaim(w, r))
      BY <1>2 DEF Aside
    <2>3. row \in Rows
      BY <1>0, <1>4, RowFields DEF RowOf
    <2>4. row'.ver = row.ver /\ row'.st = row.st /\ row'.err = row.err /\ row'.gate = row.gate
      BY <1>4, <2>3 DEF Rows
    <2>5. SignalsOut'
      <3> SUFFICES ASSUME ConsumerOnly' PROVE Carried(row.ver)'
        BY DEF SignalsOut
      <3>1. ConsumerOnly
        BY <1>4, <2>4 DEF ConsumerOnly, RowOf
      <3>2. PICK v \in Versions : v = row.ver /\ v = row'.ver
        BY <2>3, <2>4, RowFields
      <3>3. Marking(v)
        BY <1>1, <1>4, <3>2 DEF Marking, At, RowOf
      <3>4. Carried(v)
        BY <3>1, <3>2, <3>3 DEF SignalsOut
      <3>5. job \in [Workers -> Jobs \cup {None}] /\ ~Bears(w, v)
        BY <1>0, <1>1 DEF TypeOK, Bears, Consuming
      <3>6. Carried(v)'
        BY <1>1, <1>2, <2>1, <2>4, <3>4, <3>5, CarriedOn
      <3> QED BY <3>2, <3>6
    <2> QED BY <2>5
  <1> QED BY <1>3, <1>4 DEF Mark, Marked, RowIn

(* A delivery takes a message from the queue to a consumer; before the     *)
(* gate is open it is the first, and not the last.                         *)
LEMMA ReceiveKept ==
  ASSUME MaxDeliveries > 1, ThumbSound, SignalsOut,
         NEW w \in Workers, NEW v \in Versions, NEW m \in 1..MaxDeliveries, Receive(w, v, m)
  PROVE  SignalsOut'
  <1> DEFINE r == [Start("look", v) EXCEPT !.m = m]
  <1>0. TypeOK
    BY DEF ThumbSound
  <1>1. job[w] = None /\ job' = [job EXCEPT ![w] = r] /\ UNCHANGED <<row, slot, holder>>
    BY DEF Receive, Begin
  <1>2. r.at = "look" /\ r.ver = v /\ r.m = m /\ r.then = "end" /\ r # None
    <2>0. m \in 0..MaxDeliveries /\ "look" \in Places
      BY Numbers, PlainAre
    <2>1. r \in Jobs
      BY <2>0, StartTyped
    <2>2. r.at = "look" /\ r.ver = v /\ r.m = m /\ r.then = "end"
      BY DEF Start
    <2> QED BY <2>1, <2>2, NoneApart
  <1> HIDE DEF r
  <1>3. m # 0 /\ MaxDeliveries \in Nat
    BY Numbers
  <1>5. job'[w] = r /\ \A x \in Workers : x # w => job'[x] = job[x]
    BY <1>0, <1>1 DEF TypeOK
  <1>6. \A e \in Versions \X (1..MaxDeliveries) : e # <<v, m>> => queue'[e] = queue[e]
    BY <1>0 DEF Receive, TypeOK
  <1>7. SignalsOut'
    <2> SUFFICES ASSUME ConsumerOnly PROVE Carried(row.ver)' \/ (~row'.pub /\ ~Marking(row.ver)')
      BY <1>1 DEF SignalsOut, ConsumerOnly
    <2>1. PICK u \in Versions : u = row.ver /\ u = row'.ver
      BY <1>0, <1>1, RowFields DEF ConsumerOnly
    <2>2. CASE u = v
      <3>1. row.gate # "open" => m < MaxDeliveries
        <4>1. row.gate # "open" => ~(m > 1)
          BY <2>1, <2>2 DEF Receive, RowOf, ConsumerOnly
        <4> QED BY <4>1, <1>3
      <3>2. Carried(u)'
        BY <1>1, <1>2, <1>5, <2>2, <3>1 DEF Carried, Consuming
      <3> QED BY <2>1, <3>2
    <2>3. CASE u # v
      <3>1. \A k \in 1..MaxDeliveries : queue'[<<u, k>>] = queue[<<u, k>>]
        BY <1>6, <2>3
      <3>2. Carried(u) => Carried(u)'
        BY <1>1, <1>5, <3>1 DEF Carried, Busy
      <3>3. Marking(u)' => Marking(u)
        BY <1>1, <1>2, <1>5 DEF Marking, At, Subject, Busy
      <3>4. Carried(u) \/ (~row.pub /\ ~Marking(u))
        BY <2>1 DEF SignalsOut
      <3>5. Carried(u)' \/ (~row'.pub /\ ~Marking(u)')
        BY <1>1, <3>2, <3>3, <3>4
      <3> QED BY <2>1, <3>5
    <2> QED BY <2>2, <2>3
  <1> QED BY <1>7

(* An invocation at a place before its claim.                              *)
LEMMA Consumes ==
  ASSUME ThumbSound, MessagesHandled, NEW w \in Workers, NEW l \in Consuming, At(w, l)
  PROVE  /\ job[w] # None /\ job[w] \in Jobs /\ job[w].at = l /\ job[w].ver \in Versions
         /\ job[w].m # 0 /\ job[w].m \in 0..MaxDeliveries /\ job[w].then = "end" /\ MaxDeliveries \in Nat
  BY JobTyped, JobFields, Numbers DEF At, MessagesHandled, Handles

(* A message that comes too early is sent back; on its last delivery it    *)
(* was not the one that counted.                                           *)
LEMMA LookKept ==
  ASSUME ThumbSound, MessagesHandled, SignalsOut, NEW w \in Workers, Look(w)
  PROVE  SignalsOut'
  <1>0. TypeOK /\ "look" \in Consuming
    BY DEF ThumbSound, Consuming
  <1>1. /\ job[w] # None /\ job[w] \in Jobs /\ job[w].at = "look" /\ job[w].ver \in Versions
        /\ job[w].m # 0 /\ job[w].m \in 0..MaxDeliveries /\ job[w].then = "end" /\ MaxDeliveries \in Nat
        /\ UNCHANGED <<row, slot>>
    BY <1>0, Consumes DEF Look
  <1>2. CASE End(w, "ack") /\ (~RowIn(job[w].ver, {"pending", "processing"}) \/ LiveLease)
    <2>1. job' = [job EXCEPT ![w] = None] /\ QueueKept
      BY <1>1, <1>2, EndKept
    <2>2. ConsumerOnly => ~Bears(w, row.ver)
      BY <1>2 DEF ConsumerOnly, Bears, RowIn, RowOf, LiveLease
    <2> QED BY <1>1, <2>1, <2>2, SignalsOn
  <1>3. CASE End(w, "retry") /\ row.gate # "open"
    <2>1. job' = [job EXCEPT ![w] = None] /\ QueueKept
      BY <1>1, <1>3, EndKept
    <2>2. TakenBack(job[w].ver, job[w].m)
      BY <1>1, <1>3 DEF End
    <2>3. PICK v : v = job[w].ver
      OBVIOUS
    <2>4. Bears(w, row.ver) => Carried(row.ver)'
      <3>1. job[w].m < MaxDeliveries => job[w].m + 1 \in 1..MaxDeliveries /\ queue'[<<v, job[w].m + 1>>] > 0
        BY <1>0, <1>1, <2>2, <2>3, TakenBackKept
      <3>2. job[w].m < MaxDeliveries => Carried(v)'
        BY <3>1, QueuedCarried
      <3>3. Bears(w, row.ver) => job[w].m < MaxDeliveries /\ v = row.ver /\ v = row'.ver
        BY <1>1, <1>3, <2>3 DEF Bears
      <3> QED BY <3>2, <3>3
    <2> QED BY <1>1, <2>1, <2>4, SignalsOn
  <1>4. CASE Go(w, "head") /\ UNCHANGED queue /\ row.gate = "open"
    <2> DEFINE r == [job[w] EXCEPT !.at = "head"]
    <2>1. job' = [job EXCEPT ![w] = r]
      BY <1>4 DEF Go
    <2>2. r \in Jobs /\ r.at = "head" /\ r.ver = job[w].ver /\ r.m = job[w].m /\ r.then = "end"
      BY <1>1, PlainAre DEF Jobs
    <2> HIDE DEF r
    <2>4. job'[w] = r /\ r # None
      BY <1>0, <2>1, <2>2, NoneApart DEF TypeOK
    <2>5. Bears(w, row.ver) => Carried(row.ver)'
      BY <1>1, <1>4, <2>2, <2>4 DEF Bears, Carried, Consuming
    <2>6. QueueKept
      BY <1>4 DEF QueueKept
    <2> QED BY <1>1, <2>1, <2>2, <2>5, <2>6, SignalsOn
  <1> QED BY <1>2, <1>3, <1>4 DEF Look

(* Whether the source is there or not, the message is kept for the claim.  *)
LEMMA HeadKept ==
  ASSUME ThumbSound, MessagesHandled, SignalsOut, NEW w \in Workers, Head(w)
  PROVE  SignalsOut'
  <1>0. TypeOK /\ "head" \in Consuming
    BY DEF ThumbSound, Consuming
  <1>1. /\ job[w] # None /\ job[w] \in Jobs /\ job[w].at = "head" /\ job[w].m # 0 /\ job[w].then = "end"
        /\ UNCHANGED <<row, queue, slot>>
    BY <1>0, Consumes DEF Head
  <1>2. PICK l \in {"claim", "bury"}, o \in {"ack", "failed", "retry"} :
          /\ job' = [job EXCEPT ![w] = [job[w] EXCEPT !.at = l, !.out = o]]
          /\ l = "bury" => o # "retry"
    <2>1. CASE Go(w, "claim")
      <3>1. job[w].out \in {"ack", "failed", "retry"} /\ [job[w] EXCEPT !.at = "claim"] = [job[w] EXCEPT !.at = "claim", !.out = job[w].out]
        BY <1>1 DEF Jobs
      <3> QED BY <2>1, <3>1 DEF Go
    <2>2. CASE \E o \in {"ack", "failed"} : GoTo(w, [job[w] EXCEPT !.at = "bury", !.out = o])
      BY <2>2 DEF GoTo
    <2> QED BY <2>1, <2>2 DEF Head
  <1> DEFINE r == [job[w] EXCEPT !.at = l, !.out = o]
  <1>3. r \in Jobs /\ r.at = l /\ r.ver = job[w].ver /\ r.m = job[w].m /\ r.then = "end" /\ r.out = o
    BY <1>1, PlainAre DEF Jobs
  <1>4. job' = [job EXCEPT ![w] = r]
    BY <1>2
  <1> HIDE DEF r
  <1>6. job'[w] = r /\ r # None
    BY <1>0, <1>3, <1>4, NoneApart DEF TypeOK
  <1>7. Bears(w, row.ver) => Carried(row.ver)'
    BY <1>1, <1>3, <1>6 DEF Bears, Carried, Consuming
  <1>8. QueueKept
    BY <1>1 DEF QueueKept
  <1> QED BY <1>1, <1>3, <1>4, <1>7, <1>8, SignalsOn

(* The claim of a row that only the consumer may take succeeds.            *)
LEMMA ClaimKept ==
  ASSUME ThumbSound, MessagesHandled, SignalsOut, NEW w \in Workers, Claim(w)
  PROVE  SignalsOut'
  <1> DEFINE j == job[w]
             k == [j EXCEPT !.n = row.tries + 1]
  <1>0. TypeOK /\ "claim" \in Consuming /\ "bury" \in Consuming
    BY DEF ThumbSound, Consuming
  <1>1. /\ j # None /\ j \in Jobs /\ j.at \in {"claim", "bury"} /\ j.m # 0 /\ j.then = "end"
        /\ j.at = "bury" => j.out # "retry"
    <2>1. At(w, "claim") \/ At(w, "bury")
      BY DEF Claim
    <2>2. j # None /\ j \in Jobs /\ j.at \in {"claim", "bury"} /\ j.m # 0 /\ j.then = "end"
      BY <1>0, <2>1, Consumes
    <2> QED BY <2>2 DEF MessagesHandled, Handles
  <1>2. CASE Claimable(j.ver)
    <2>1. row \in Rows /\ row.tries + 1 \in Nat
      BY <1>0, <1>2, RowFields DEF Claimable, RowIn, RowOf
    <2>2. ~ConsumerOnly'
      <3>1. row' = Taken(row.tries + 1)
        BY <1>2 DEF Claim
      <3> QED BY <2>1, <3>1, RowValues DEF ConsumerOnly
    <2> QED BY <2>2 DEF SignalsOut
  <1>3. CASE ~Claimable(j.ver)
    <2>1. UNCHANGED <<row, slot>> /\ \E out \in {"ack", "retry"} : End(w, out)
      BY <1>3 DEF Claim
    <2>2. job' = [job EXCEPT ![w] = None] /\ QueueKept
      BY <1>1, <2>1, EndKept
    <2>3. ConsumerOnly => ~Bears(w, row.ver)
      BY <1>1, <1>3 DEF ConsumerOnly, Bears, Claimable, RowIn, RowOf, LiveLease
    <2> QED BY <2>1, <2>2, <2>3, SignalsOn
  <1> QED BY <1>2, <1>3

(* A failure that gives the row back gives its message back.               *)
LEMMA FailKept ==
  ASSUME ThumbSound, MessagesHandled, SignalsOut, NEW w \in Workers, Fail(w)
  PROVE  SignalsOut'
  <1> DEFINE j == job[w]
  <1>0. TypeOK
    BY DEF ThumbSound
  <1>1. /\ j # None /\ j \in Jobs /\ j.at = "fail" /\ j.at \notin Consuming /\ j.ver \in Versions
        /\ j.m \in 0..MaxDeliveries /\ Continue(w) /\ UNCHANGED <<slot, holder>> /\ MaxDeliveries \in Nat
    BY JobTyped, JobFields, Numbers DEF Fail, At, Consuming
  <1>2. CASE Holds(j.ver, j.n) /\ j.out = "retry"
    <2>1. j.m # 0 /\ j.m # MaxDeliveries /\ j.then = "end"
      BY <1>1, <1>2 DEF MessagesHandled, Handles
    <2>2. End(w, "retry")
      BY <1>1, <1>2, <2>1 DEF Continue
    <2>3. job' = [job EXCEPT ![w] = None] /\ TakenBack(j.ver, j.m)
      BY <2>1, <2>2 DEF End, GoTo
    <2>4. PICK v : v = j.ver
      OBVIOUS
    <2>5. j.m + 1 \in 1..MaxDeliveries /\ queue'[<<v, j.m + 1>>] > 0
      <3>1. j.m < MaxDeliveries
        BY <1>1, <2>1
      <3> QED BY <1>0, <1>1, <2>3, <2>4, <3>1, TakenBackKept
    <2>6. Carried(v)'
      BY <2>5, QueuedCarried
    <2>7. row' # None => row'.ver = v
      <3>1. row \in Rows /\ row.ver = v
        BY <1>0, <1>2, <2>4, RowFields DEF Holds, RowIn, RowOf
      <3>2. row' = Pending(j.err)
        BY <1>2 DEF Fail
      <3> QED BY <3>1, <3>2 DEF Pending, Rows
    <2> QED BY <2>6, <2>7 DEF SignalsOut, ConsumerOnly
  <1>3. CASE ~(Holds(j.ver, j.n) /\ j.out = "retry")
    <2>1. RowCalm
      <3>1. row # None => row \in Rows
        BY <1>0, RowFields
      <3> QED BY <1>3, <3>1, CalmRow, RowValues DEF Fail, Holds, RowIn, RowOf
    <2>2. Calm(w)
      BY <1>1, <2>1, ContinueAside DEF Calm
    <2> QED BY <2>2, CalmKept
  <1> QED BY <1>2, <1>3

(* An invocation that dies before the last delivery gives its message back.*)
LEMMA CrashKept ==
  ASSUME ThumbSound, MessagesHandled, SignalsOut, ~SignalDropped, NEW w \in Workers, Crash(w)
  PROVE  SignalsOut'
  <1> DEFINE j == job[w]
  <1>0. TypeOK
    BY DEF ThumbSound
  <1>1. /\ j # None /\ j \in Jobs /\ j.ver \in Versions /\ j.m \in 0..MaxDeliveries /\ UNCHANGED <<row, slot>>
        /\ job' = [job EXCEPT ![w] = None] /\ MaxDeliveries \in Nat
    BY JobTyped, JobFields, Numbers DEF Crash, GoTo
  <1>2. TakenBack(j.ver, j.m) \/ (j.m = 0 /\ UNCHANGED queue)
    BY DEF Crash
  <1>3. QueueKept
    BY <1>0, <1>1, <1>2, TakenBackKept DEF QueueKept
  <1>4. faults' # faults /\ job'[w] = None
    <2>1. faults \in Nat /\ faults' = faults + 1
      BY <1>0, Numbers DEF Crash, Fault, TypeOK
    <2> QED BY <1>0, <1>1, <2>1 DEF TypeOK
  <1>5. j.at \in Consuming => j.m # 0 /\ j.m < MaxDeliveries
    <2>1. j.at \in Consuming => j.m # 0
      BY <1>1 DEF MessagesHandled, Handles
    <2>2. j.at \in Consuming => j.m # MaxDeliveries
      BY <1>1, <1>4 DEF SignalDropped
    <2> QED BY <1>1, <2>1, <2>2
  <1>6. PICK v : v = j.ver
    OBVIOUS
  <1>7. j.at \in Consuming => Carried(v)'
    <2>1. j.at \in Consuming => j.m + 1 \in 1..MaxDeliveries /\ queue'[<<v, j.m + 1>>] > 0
      BY <1>0, <1>1, <1>2, <1>5, <1>6, TakenBackKept
    <2> QED BY <2>1, QueuedCarried
  <1>8. Bears(w, row.ver) => Carried(row.ver)'
    <2>1. Bears(w, row.ver) => j.at \in Consuming /\ v = row.ver /\ v = row'.ver
      BY <1>1, <1>6 DEF Bears, Consuming
    <2> QED BY <1>7, <2>1
  <1> QED BY <1>1, <1>3, <1>8, SignalsOn

-----------------------------------------------------------------------------
(* The slots and the signals.                                              *)

(* A slot's step that neither sends nor records nor gives up a signal.     *)
LEMMA SlotCalm ==
  ASSUME ThumbSound, SignalsOut, NEW s \in Slots, NEW r, slot' = [slot EXCEPT ![s] = r],
         r # None => r.at # "mark", slot[s] # None => slot[s].at # "signal", UNCHANGED job, QueueKept, RowCalm
  PROVE  SignalsOut'
  <1>1. slot'[s] = r /\ \A x \in Slots : x # s => slot'[x] = slot[x]
    BY DEF ThumbSound, TypeOK
  <1>2. SignalsOut'
    <2> SUFFICES ASSUME ConsumerOnly' PROVE Carried(row.ver)' \/ (~row'.pub /\ ~Marking(row.ver)')
      BY DEF SignalsOut
    <2>1. ConsumerOnly /\ row'.ver = row.ver /\ (row.gate = "open" => row'.gate = "open") /\ (row'.pub => row.pub)
      BY DEF RowCalm
    <2>2. PICK v \in Versions : v = row.ver /\ v = row'.ver
      BY <2>1, RowFields DEF ThumbSound, ConsumerOnly
    <2>3. Carried(v) => Carried(v)'
      <3>1. ASSUME NEW m \in 1..MaxDeliveries, queue[<<v, m>>] > 0
            PROVE  Carried(v)'
        BY <3>1, QueuedCarried DEF QueueKept
      <3>2. ASSUME NEW w \in Workers, Bears(w, v)
            PROVE  Carried(v)'
        BY <2>1, <3>2 DEF Carried, Bears
      <3>3. ASSUME NEW x \in Slots, Busy(x, "signal"), slot[x].ver = v
            PROVE  Carried(v)'
        BY <1>1, <3>3 DEF Carried, Busy
      <3> QED BY <3>1, <3>2, <3>3 DEF Carried, Bears
    <2>4. Marking(v)' => Marking(v)
      BY <1>1 DEF Marking, At, Busy
    <2>5. Carried(v) \/ (~row.pub /\ ~Marking(v))
      BY <2>1, <2>2 DEF SignalsOut
    <2>6. Carried(v)' \/ (~row'.pub /\ ~Marking(v)')
      BY <2>1, <2>3, <2>4, <2>5
    <2> QED BY <2>2, <2>6
  <1> QED BY <1>2

(* Where a slot goes.                                                      *)
LEMMA SlotGoes ==
  ASSUME TypeOK, NEW s \in Slots, slot[s] # None, NEW l \in {"hold", "put", "uploaded", "finish", "signal", "mark"}, Move(s, l)
  PROVE  \E r \in SlotStates : /\ slot' = [slot EXCEPT ![s] = r] /\ r.at = l
                               /\ r.ver = slot[s].ver /\ r.n = slot[s].n /\ r # None
  <1> DEFINE r == [slot[s] EXCEPT !.at = l]
  <1>1. slot[s] \in SlotStates
    BY SlotMoves
  <1>2. r \in SlotStates /\ r.at = l /\ r.ver = slot[s].ver /\ r.n = slot[s].n
    BY <1>1 DEF SlotStates
  <1>3. slot' = [slot EXCEPT ![s] = r]
    BY DEF Move
  <1> HIDE DEF r
  <1> QED BY <1>2, <1>3, NoneApart

(* What a slot does up to its answer.                                      *)
LEMMA SlotClaimsKept ==
  ASSUME ThumbSound, SignalsOut, NEW s \in Slots,
         NasRead(s) \/ NasReject(s) \/ NasLease(s) \/ NasUpload(s) \/ NasPut(s)
  PROVE  SignalsOut'
  <1>0. TypeOK /\ (row # None => row \in Rows)
    BY RowFields DEF ThumbSound
  <1>1. UNCHANGED job /\ QueueKept /\ (slot[s] # None => slot[s].at # "signal")
    BY DEF NasRead, NasReject, NasLease, NasUpload, NasPut, Busy, QueueKept
  <1>2. RowCalm
    <2>1. CASE NasReject(s)
      BY <1>0, <2>1, CalmRow, RowValues DEF NasReject, RowOf
    <2>2. CASE NasLease(s)
      BY <1>0, <2>2, CalmRow, RowValues DEF NasLease, RowIn, RowOf
    <2>3. CASE NasRead(s) \/ NasUpload(s) \/ NasPut(s)
      BY <2>3, CalmRow DEF NasRead, NasUpload, NasPut
    <2> QED BY <2>1, <2>2, <2>3
  <1>3. \E r : slot' = [slot EXCEPT ![s] = r] /\ (r # None => r.at # "mark")
    <2>1. CASE NasRead(s)
      <3>1. PICK l \in {"lease", "reject"} :
              slot' = [slot EXCEPT ![s] = [at |-> l, ver |-> row.ver, n |-> row.tries + 1]]
        BY <2>1 DEF NasRead
      <3> DEFINE r == [at |-> l, ver |-> row.ver, n |-> row.tries + 1]
      <3>2. r.at # "mark"
        OBVIOUS
      <3>3. slot' = [slot EXCEPT ![s] = r]
        BY <3>1
      <3> HIDE DEF r
      <3> QED BY <3>2, <3>3
    <2>2. CASE ~NasRead(s)
      <3>1. slot[s] # None /\ (Leave(s) \/ \E l \in {"hold", "put", "uploaded"} : Move(s, l))
        BY <2>2 DEF NasReject, NasLease, NasUpload, NasPut, Busy
      <3> QED BY <1>0, <3>1, SlotGoes DEF Leave
    <2> QED BY <2>1, <2>2
  <1> QED BY <1>1, <1>2, <1>3, SlotCalm

(* Its answers; one that gives the row back to the queue is to be          *)
(* signalled.                                                              *)
LEMMA SlotAnswersKept ==
  ASSUME ThumbSound, SignalsOut, NEW s \in Slots,
         NasVerify(s) \/ NasFinish(s) \/ \E e \in {"nas", "pixel"} : NasFail(s, e)
  PROVE  SignalsOut'
  <1>0. TypeOK /\ (row # None => row \in Rows)
    BY RowFields DEF ThumbSound
  <1>1. UNCHANGED job /\ QueueKept /\ slot[s] # None /\ slot[s].at # "signal"
    BY DEF NasVerify, NasFinish, NasFail, Busy, QueueKept
  <1>2. \E r : slot' = [slot EXCEPT ![s] = r] /\ (r # None => r.at # "mark")
    <2>1. Leave(s) \/ \E l \in {"finish", "signal"} : Move(s, l)
      BY DEF NasVerify, NasFinish, NasFail
    <2> QED BY <1>0, <1>1, <2>1, SlotGoes DEF Leave
  <1>3. CASE RowCalm
    BY <1>1, <1>2, <1>3, SlotCalm
  <1>4. CASE ~RowCalm
    <2>1. ~NasVerify(s) /\ ~NasFinish(s)
      BY <1>0, <1>4, CalmRow, RowValues DEF NasVerify, NasFinish, HoldsLease, Holds, RowIn, RowOf
    <2>2. PICK e \in {"nas", "pixel"} : NasFail(s, e)
      BY <2>1
    <2>3. /\ HoldsLease(slot[s].ver, slot[s].n) /\ Move(s, "signal")
          /\ row' = [Pending(e) EXCEPT !.pub = FALSE, !.gate = "primary"]
      BY <1>0, <1>4, <2>2, CalmRow, RowValues DEF NasFail, HoldsLease, Holds, RowIn, RowOf
    <2>4. row \in Rows /\ row.ver = slot[s].ver
      BY <1>0, <2>3 DEF HoldsLease, Holds, RowIn, RowOf
    <2>5. row'.ver = slot[s].ver
      BY <2>3, <2>4 DEF Pending, Rows
    <2>6. PICK r \in SlotStates : slot' = [slot EXCEPT ![s] = r] /\ r.at = "signal" /\ r.ver = slot[s].ver /\ r # None
      BY <1>0, <1>1, <2>3, SlotGoes
    <2>7. slot'[s] = r
      BY <1>0, <2>6 DEF TypeOK
    <2>8. Carried(row.ver)'
      BY <2>5, <2>6, <2>7 DEF Carried, Busy
    <2> QED BY <2>8 DEF SignalsOut
  <1> QED BY <1>3, <1>4

(* A slot sends the signal; it is in the queue before the slot lets go.    *)
LEMMA SlotSignalKept ==
  ASSUME ThumbSound, SignalsOut, NEW s \in Slots, NasSignal(s)
  PROVE  SignalsOut'
  <1>0. TypeOK /\ 1 \in 1..MaxDeliveries
    BY Numbers DEF ThumbSound
  <1>1. slot[s] # None /\ slot[s].at = "signal" /\ slot[s].ver \in Versions /\ UNCHANGED <<job, row>>
    BY <1>0, SlotMoves DEF NasSignal, Busy
  <1>2. PICK r \in SlotStates : slot' = [slot EXCEPT ![s] = r] /\ r.at = "mark" /\ r.ver = slot[s].ver /\ r # None
    BY <1>0, <1>1, SlotGoes DEF NasSignal
  <1>3. slot'[s] = r /\ \A x \in Slots : x # s => slot'[x] = slot[x]
    BY <1>0, <1>2 DEF TypeOK
  <1>4. QueueKept /\ queue'[<<slot[s].ver, 1>>] > 0
    BY <1>0, <1>1, AddedKept DEF NasSignal, Sent
  <1>5. SignalsOut'
    <2> SUFFICES ASSUME ConsumerOnly PROVE Carried(row.ver)' \/ (~row'.pub /\ ~Marking(row.ver)')
      BY <1>1 DEF SignalsOut, ConsumerOnly
    <2>1. PICK v \in Versions : v = row.ver /\ v = row'.ver
      BY <1>0, <1>1, RowFields DEF ConsumerOnly
    <2>2. CASE slot[s].ver = v
      <3>1. Carried(v)'
        BY <1>0, <1>4, <2>2, QueuedCarried
      <3> QED BY <2>1, <3>1
    <2>3. CASE slot[s].ver # v
      <3>1. Carried(v) => Carried(v)'
        <4>1. ASSUME NEW m \in 1..MaxDeliveries, queue[<<v, m>>] > 0
              PROVE  Carried(v)'
          BY <1>4, <4>1, QueuedCarried DEF QueueKept
        <4>2. ASSUME NEW w \in Workers, Bears(w, v)
              PROVE  Carried(v)'
          BY <1>1, <4>2 DEF Carried, Bears
        <4>3. ASSUME NEW x \in Slots, Busy(x, "signal"), slot[x].ver = v
              PROVE  Carried(v)'
          BY <1>3, <2>3, <4>3 DEF Carried, Busy
        <4> QED BY <4>1, <4>2, <4>3 DEF Carried, Bears
      <3>2. Marking(v)' => Marking(v)
        BY <1>1, <1>2, <1>3, <2>3 DEF Marking, At, Busy
      <3>3. Carried(v) \/ (~row.pub /\ ~Marking(v))
        BY <2>1 DEF SignalsOut
      <3>4. Carried(v)' \/ (~row'.pub /\ ~Marking(v)')
        BY <1>1, <3>1, <3>2, <3>3
      <3> QED BY <2>1, <3>4
    <2> QED BY <2>2, <2>3
  <1> QED BY <1>5

(* It records the signal: it was about to.                                 *)
LEMMA SlotMarkKept ==
  ASSUME ThumbSound, SignalsOut, NEW s \in Slots, NasMark(s)
  PROVE  SignalsOut'
  <1>0. TypeOK
    BY DEF ThumbSound
  <1>1. slot[s] # None /\ slot[s].at = "mark" /\ slot' = [slot EXCEPT ![s] = None] /\ UNCHANGED <<job, queue>>
    BY DEF NasMark, Busy, Leave
  <1>2. CASE UNCHANGED row
    BY <1>1, <1>2, SlotCalm, CalmRow DEF QueueKept
  <1>3. CASE RowOf(slot[s].ver) /\ row' = [row EXCEPT !.pub = TRUE]
    <2>1. row \in Rows
      BY <1>0, <1>3, RowFields DEF RowOf
    <2>2. row'.ver = row.ver /\ row'.st = row.st /\ row'.err = row.err /\ row'.gate = row.gate
      BY <1>3, <2>1 DEF Rows
    <2>3. \A x \in Slots : x # s => slot'[x] = slot[x]
      BY <1>0, <1>1 DEF TypeOK
    <2>4. SignalsOut'
      <3> SUFFICES ASSUME ConsumerOnly' PROVE Carried(row.ver)'
        BY DEF SignalsOut
      <3>1. ConsumerOnly
        BY <1>3, <2>2 DEF ConsumerOnly, RowOf
      <3>2. PICK v \in Versions : v = row.ver /\ v = row'.ver
        BY <2>1, <2>2, RowFields
      <3>3. Marking(v)
        BY <1>1, <1>3, <3>2 DEF Marking, Busy, RowOf
      <3>4. Carried(v)
        BY <3>1, <3>2, <3>3 DEF SignalsOut
      <3>5. Carried(v)'
        BY <1>1, <2>2, <2>3, <3>4 DEF Carried, Busy
      <3> QED BY <3>2, <3>5
    <2> QED BY <2>4
  <1> QED BY <1>2, <1>3 DEF NasMark, Marked, RowIn

(* A slot that stops: its signal is given up only where republication      *)
(* finds the row.                                                          *)
LEMMA SlotAbandonKept ==
  ASSUME ThumbSound, SignalsOut, ~SignalDropped, NEW s \in Slots, NasAbandon(s)
  PROVE  SignalsOut'
  <1>0. TypeOK
    BY DEF ThumbSound
  <1>1. slot[s] # None /\ slot' = [slot EXCEPT ![s] = None] /\ UNCHANGED <<job, queue, row>>
    BY DEF NasAbandon, Leave
  <1>2. CASE slot[s].at # "signal"
    BY <1>1, <1>2, SlotCalm, CalmRow DEF QueueKept
  <1>3. CASE slot[s].at = "signal"
    <2>1. slot'[s] = None /\ \A x \in Slots : x # s => slot'[x] = slot[x]
      BY <1>0, <1>1 DEF TypeOK
    <2>2. RowOf(slot[s].ver) => ~row.pub /\ ~Marking(row.ver)
      BY <1>1, <1>3, <2>1 DEF SignalDropped, Busy
    <2>3. SignalsOut'
      <3> SUFFICES ASSUME ConsumerOnly PROVE Carried(row.ver)' \/ (~row'.pub /\ ~Marking(row.ver)')
        BY <1>1 DEF SignalsOut, ConsumerOnly
      <3>1. PICK v \in Versions : v = row.ver /\ v = row'.ver
        BY <1>0, <1>1, RowFields DEF ConsumerOnly
      <3>2. Marking(v)' => Marking(v)
        BY <1>1, <2>1 DEF Marking, At, Busy
      <3>3. slot[s].ver = v => ~row.pub /\ ~Marking(v)
        BY <2>2, <3>1 DEF RowOf, ConsumerOnly
      <3>4. slot[s].ver # v => (Carried(v) => Carried(v)')
        BY <1>1, <2>1 DEF Carried, Busy
      <3>5. Carried(v) \/ (~row.pub /\ ~Marking(v))
        BY <3>1 DEF SignalsOut
      <3>6. Carried(v)' \/ (~row'.pub /\ ~Marking(v)')
        BY <1>1, <3>2, <3>3, <3>4, <3>5
      <3> QED BY <3>1, <3>6
    <2> QED BY <2>3
  <1> QED BY <1>2, <1>3

(* Uploads, deadlines and stuttering.                                      *)
LEMMA OutsideKept ==
  ASSUME ThumbSound, SignalsOut,
         \/ UNCHANGED vars
         \/ \E v \in Versions : Upload(v) \/ CleanupExpires(v)
         \/ Delete \/ LeaseExpires \/ GateOpens
  PROVE  SignalsOut'
  <1>1. UNCHANGED <<job, slot, queue>>
    BY DEF vars, Upload, CleanupExpires, Delete, LeaseExpires, GateOpens
  <1>2. RowCalm
    <2>1. CASE LeaseExpires \/ GateOpens
      <3>1. row \in Rows
        BY <2>1, RowFields DEF LeaseExpires, GateOpens, ThumbSound
      <3>2. /\ row'.ver = row.ver /\ row'.st = row.st /\ row'.err = row.err /\ row'.pub = row.pub
            /\ row.gate = "open" => row'.gate = "open"
        BY <2>1, <3>1 DEF LeaseExpires, GateOpens, Rows
      <3> QED BY <2>1, <3>2 DEF RowCalm, ConsumerOnly, LeaseExpires, GateOpens
    <2>2. CASE UNCHANGED row
      BY <2>2, CalmRow
    <2> QED BY <2>1, <2>2 DEF vars, Upload, CleanupExpires, Delete
  <1>3. SignalsOut'
    <2> SUFFICES ASSUME ConsumerOnly' PROVE Carried(row.ver)' \/ (~row'.pub /\ ~Marking(row.ver)')
      BY DEF SignalsOut
    <2>1. ConsumerOnly /\ row'.ver = row.ver /\ (row.gate = "open" => row'.gate = "open") /\ (row'.pub => row.pub)
      BY <1>2 DEF RowCalm
    <2>2. PICK v \in Versions : v = row.ver /\ v = row'.ver
      BY <2>1, RowFields DEF ThumbSound, ConsumerOnly
    <2>3. Carried(v) => Carried(v)'
      BY <1>1, <2>1 DEF Carried, Busy
    <2>4. Marking(v)' => Marking(v)
      BY <1>1 DEF Marking, At, Busy
    <2>5. Carried(v) \/ (~row.pub /\ ~Marking(v))
      BY <2>1, <2>2 DEF SignalsOut
    <2>6. Carried(v)' \/ (~row'.pub /\ ~Marking(v)')
      BY <2>1, <2>3, <2>4, <2>5
    <2> QED BY <2>2, <2>6
  <1> QED BY <1>3

-----------------------------------------------------------------------------
(* What invocations say of their messages, in every behaviour.             *)

(* What an invocation goes on with handles its message.                    *)
LEMMA HandledOn ==
  ASSUME ThumbSound, MessagesHandled, NEW w \in Workers, NEW r, job' = [job EXCEPT ![w] = r], r # None => Handles(r)
  PROVE  MessagesHandled'
  <1>1. job'[w] = r /\ \A x \in Workers : x # w => job'[x] = job[x]
    BY DEF ThumbSound, TypeOK
  <1> QED BY <1>1 DEF MessagesHandled, Handles

(* A step without invocations leaves what they say of their messages.      *)
LEMMA HandledStill ==
  ASSUME MessagesHandled, UNCHANGED job
  PROVE  MessagesHandled'
  BY DEF MessagesHandled, Handles

(* A step of w that claims nothing: it handles its message as before, and  *)
(* what it may answer is a claim it had.                                   *)
NoClaim(w) ==
  /\ UNCHANGED <<slot, holder>>
  /\ \E r : /\ job' = [job EXCEPT ![w] = r]
            /\ r # None => Handles(r) /\ (r.at \in Rendering \cup {"fail"} => SameClaim(w, r))

(* Every calm step is one.                                                 *)
LEMMA AsideNoClaim ==
  ASSUME NEW w \in Workers, Aside(w), UNCHANGED <<slot, holder>>
  PROVE  NoClaim(w)
  BY DEF Aside, NoClaim, Elsewhere, SameClaim, Handles, Consuming, Rendering

(* An invocation that ends, or goes to a place where nothing is answered.  *)
LEMMA LeavesNoClaim ==
  ASSUME NEW w \in Workers, UNCHANGED <<slot, holder>>, NEW r, job' = [job EXCEPT ![w] = r],
         r # None => Handles(r) /\ r.at \notin Rendering \cup {"fail"}
  PROVE  NoClaim(w)
  BY DEF NoClaim

(* So is every step of an invocation but a claim.                          *)
LEMMA MessagesNoClaim ==
  ASSUME ThumbSound, MessagesHandled, NEW w \in Workers,
         \/ Send(w) \/ Mark(w) \/ Look(w) \/ Head(w) \/ Fail(w) \/ Crash(w)
         \/ \E v \in Versions, m \in 1..MaxDeliveries : Receive(w, v, m)
  PROVE  NoClaim(w)
  <1>0. UNCHANGED <<slot, holder>>
    BY DEF Send, Mark, Look, Head, Fail, Crash, Receive
  <1>1. ASSUME job' = [job EXCEPT ![w] = None]
        PROVE  NoClaim(w)
    BY <1>0, <1>1, LeavesNoClaim
  <1>2. CASE Send(w)
    <2> DEFINE r == [job[w] EXCEPT !.at = "mark"]
    <2>1. job[w] \in Jobs
      BY <1>2, Idle DEF Send
    <2>2. r.at = "mark"
      BY <2>1 DEF Jobs
    <2>3. End(w, "ack") \/ job' = [job EXCEPT ![w] = r]
      BY <1>2 DEF Send, Go
    <2> HIDE DEF r
    <2>4. Handles(r) /\ r.at \notin Rendering \cup {"fail"}
      BY <2>2 DEF Handles, Consuming, Rendering
    <2> QED BY <1>0, <1>1, <2>3, <2>4, LeavesNoClaim DEF End, GoTo
  <1>3. CASE Mark(w) \/ Fail(w)
    <2>1. job[w] # None /\ job[w].at \notin Consuming
      BY <1>3 DEF Mark, Fail, At, Consuming
    <2>2. Go(w, "tidy") \/ Continue(w)
      BY <1>3 DEF Mark, Fail
    <2> QED BY <1>0, <2>1, <2>2, GoAside, ContinueAside, AsideNoClaim
  <1>4. CASE Look(w)
    <2> DEFINE r == [job[w] EXCEPT !.at = "head"]
    <2>1. "look" \in Consuming
      BY DEF Consuming
    <2>2. job[w] \in Jobs /\ job[w].m # 0 /\ job[w].then = "end"
      BY <1>4, <2>1, Consumes DEF Look
    <2>3. r.at = "head" /\ r.m = job[w].m /\ r.then = job[w].then
      BY <2>2 DEF Jobs
    <2>4. (\E out : End(w, out)) \/ job' = [job EXCEPT ![w] = r]
      BY <1>4 DEF Look, Go
    <2> HIDE DEF r
    <2>5. Handles(r) /\ r.at \notin Rendering \cup {"fail"}
      BY <2>2, <2>3 DEF Handles, Rendering
    <2> QED BY <1>0, <1>1, <2>4, <2>5, LeavesNoClaim DEF End, GoTo
  <1>5. CASE Head(w)
    <2>1. "head" \in Consuming
      BY DEF Consuming
    <2>2. job[w] \in Jobs /\ job[w].m # 0 /\ job[w].then = "end"
      BY <1>5, <2>1, Consumes DEF Head
    <2>3. ASSUME NEW o \in {"ack", "failed"}, GoTo(w, [job[w] EXCEPT !.at = "bury", !.out = o])
          PROVE  NoClaim(w)
      <3> DEFINE r == [job[w] EXCEPT !.at = "bury", !.out = o]
      <3>1. r.at = "bury" /\ r.m = job[w].m /\ r.then = job[w].then /\ r.out = o
        BY <2>2 DEF Jobs
      <3>2. job' = [job EXCEPT ![w] = r]
        BY <2>3 DEF GoTo
      <3> HIDE DEF r
      <3>3. Handles(r) /\ r.at \notin Rendering \cup {"fail"}
        BY <2>2, <3>1 DEF Handles, Rendering
      <3> QED BY <1>0, <3>2, <3>3, LeavesNoClaim
    <2>4. ASSUME Go(w, "claim")
          PROVE  NoClaim(w)
      <3> DEFINE r == [job[w] EXCEPT !.at = "claim"]
      <3>1. r.at = "claim" /\ r.m = job[w].m /\ r.then = job[w].then
        BY <2>2 DEF Jobs
      <3>2. job' = [job EXCEPT ![w] = r]
        BY <2>4 DEF Go
      <3> HIDE DEF r
      <3>3. Handles(r) /\ r.at \notin Rendering \cup {"fail"}
        BY <2>2, <3>1 DEF Handles, Rendering
      <3> QED BY <1>0, <3>2, <3>3, LeavesNoClaim
    <2> QED BY <1>5, <2>3, <2>4 DEF Head
  <1>6. CASE \E v \in Versions, m \in 1..MaxDeliveries : Receive(w, v, m)
    <2>1. PICK v \in Versions, m \in 1..MaxDeliveries : Receive(w, v, m)
      BY <1>6
    <2> DEFINE r == [Start("look", v) EXCEPT !.m = m]
    <2>2. r.at = "look" /\ r.m = m /\ r.then = "end"
      BY DEF Start
    <2>3. job' = [job EXCEPT ![w] = r]
      BY <2>1 DEF Receive, Begin
    <2> HIDE DEF r
    <2>4. Handles(r) /\ r.at \notin Rendering \cup {"fail"}
      BY <2>2, Numbers DEF Handles, Rendering
    <2> QED BY <1>0, <2>3, <2>4, LeavesNoClaim
  <1>7. CASE Crash(w)
    BY <1>1, <1>7 DEF Crash, GoTo
  <1> QED BY <1>2, <1>3, <1>4, <1>5, <1>6, <1>7

(* A claim: the invocation writes the number it answers with.              *)
LEMMA Claims ==
  ASSUME ThumbSound, MessagesHandled, NEW w \in Workers, Claim(w)
  PROVE  \/ NoClaim(w)
         \/ /\ row \in Rows /\ row.ver = job[w].ver /\ row' = Taken(row.tries + 1) /\ holder' = {w} /\ UNCHANGED slot
            /\ \E r \in Jobs : /\ job' = [job EXCEPT ![w] = r]
                               /\ Handles(r) /\ r.ver = job[w].ver /\ r.n = row.tries + 1
  <1> DEFINE j == job[w]
             k == [j EXCEPT !.n = row.tries + 1]
  <1>0. TypeOK /\ "claim" \in Consuming /\ "bury" \in Consuming
    BY DEF ThumbSound, Consuming
  <1>1. /\ j # None /\ j \in Jobs /\ j.at \in {"claim", "bury"} /\ j.m # 0 /\ j.then = "end"
        /\ j.at = "bury" => j.out # "retry"
    <2>1. At(w, "claim") \/ At(w, "bury")
      BY DEF Claim
    <2>2. j # None /\ j \in Jobs /\ j.at \in {"claim", "bury"} /\ j.m # 0 /\ j.then = "end"
      BY <1>0, <2>1, Consumes
    <2> QED BY <2>2 DEF MessagesHandled, Handles
  <1>2. CASE Claimable(j.ver)
    <2>1. row \in Rows /\ row.ver = j.ver /\ row.tries + 1 \in Nat
      BY <1>0, <1>2, RowFields DEF Claimable, RowIn, RowOf
    <2>2. k \in Jobs /\ k.m = j.m /\ k.then = j.then /\ k.ver = j.ver /\ k.n = row.tries + 1
      BY <1>1, <2>1 DEF Jobs
    <2>3. j.out \in {"ack", "failed", "retry"} /\ "source" \in Errors
      BY <1>1, JobFields, ErrorsAre
    <2>4. GoTo(w, IF j.at = "claim" THEN [k EXCEPT !.at = "render"] ELSE Failing(k, "source", j.out))
      BY <1>2 DEF Claim
    <2>5. row' = Taken(row.tries + 1) /\ holder' = {w} /\ UNCHANGED slot
      BY <1>2 DEF Claim
    <2> HIDE DEF k
    <2>6. \E r \in Jobs : GoTo(w, r) /\ Handles(r) /\ r.ver = j.ver /\ r.n = row.tries + 1
      <3>1. CASE j.at = "claim"
        <4> DEFINE r == [k EXCEPT !.at = "render"]
        <4>1. r \in Jobs /\ r.at = "render" /\ r.m = j.m /\ r.then = "end" /\ r.ver = j.ver /\ r.n = row.tries + 1
          BY <1>1, <2>2, PlainAre DEF Jobs
        <4>2. GoTo(w, r)
          BY <2>4, <3>1
        <4> HIDE DEF r
        <4>3. Handles(r)
          BY <1>1, <4>1 DEF Handles
        <4> QED BY <4>1, <4>2, <4>3
      <3>2. CASE j.at = "bury"
        <4> DEFINE r == Failing(k, "source", j.out)
        <4>0. r \in Jobs /\ r.at = "fail"
          BY <2>2, <2>3, FailingTyped
        <4>1. r.out = j.out /\ r.ver = k.ver /\ r.n = k.n
          BY <2>2, <2>3, FailingFields
        <4>2. GoTo(w, r)
          BY <2>4, <3>2
        <4> HIDE DEF r
        <4>3. Handles(r)
          BY <1>1, <3>2, <4>0, <4>1 DEF Handles, Consuming, Rendering
        <4> QED BY <2>2, <4>0, <4>1, <4>2, <4>3
      <3> QED BY <1>1, <3>1, <3>2
    <2> QED BY <2>1, <2>5, <2>6 DEF GoTo
  <1>3. CASE ~Claimable(j.ver)
    <2>1. job' = [job EXCEPT ![w] = None] /\ UNCHANGED <<slot, holder>>
      BY <1>3 DEF Claim, End, GoTo
    <2> QED BY <2>1, LeavesNoClaim
  <1> QED BY <1>2, <1>3

(* The steps of Next, by what they do to invocations.                      *)
LEMMA NextIs ==
  ASSUME ThumbSound, MessagesHandled, [Next]_vars
  PROVE  \/ \E w \in Workers : Calm(w)
         \/ \E w \in Workers :
              \/ Send(w) \/ Mark(w) \/ Look(w) \/ Head(w) \/ Fail(w) \/ Crash(w)
              \/ \E v \in Versions, m \in 1..MaxDeliveries : Receive(w, v, m)
         \/ \E w \in Workers : Claim(w)
         \/ \E s \in Slots : NasStep(s)
         \/ UNCHANGED vars \/ (\E v \in Versions : Upload(v) \/ CleanupExpires(v)) \/ Delete \/ LeaseExpires \/ GateOpens
  <1>1. ASSUME NEW w \in Workers, Step(w)
        PROVE  Calm(w) \/ Send(w) \/ Mark(w) \/ Look(w) \/ Head(w) \/ Fail(w) \/ Claim(w)
    BY <1>1, RegisterCalm, RegisteredCalm, RemovalCalm, LedgerCalm, RegenerateCalm, RenderCalm, StoreCalm, RecoveryCalm
       DEF Step
  <1>2. ASSUME NEW w \in Workers, Scheduler(w) \/ Throw(w) \/ SendFails(w) \/ RemovalArrives(w)
        PROVE  Calm(w)
    BY <1>2, BeginsCalm, RenderCalm, SendFailsCalm
  <1>3. ASSUME NEW w \in Workers,
               (\E k \in events : EventArrives(w, k)) \/ \E v \in Versions : DeadLetter(w, v) \/ Orphans(w, v)
        PROVE  Calm(w)
    BY <1>3, BeginsCalm
  <1> QED BY <1>1, <1>2, <1>3 DEF Next

(* A step of a slot or of the surroundings leaves invocations alone.       *)
LEMMA JobsStill ==
  ASSUME \/ \E s \in Slots : NasStep(s)
         \/ UNCHANGED vars \/ (\E v \in Versions : Upload(v) \/ CleanupExpires(v)) \/ Delete \/ LeaseExpires \/ GateOpens
  PROVE  UNCHANGED job
  BY DEF NasStep, NasRead, NasReject, NasLease, NasUpload, NasPut, NasVerify, NasFinish, NasFail, NasSignal, NasMark,
         NasAbandon, vars, Upload, CleanupExpires, Delete, LeaseExpires, GateOpens

(* Every step keeps what invocations say of their messages.                *)
LEMMA HandledNext == ThumbSound /\ MessagesHandled /\ [Next]_vars => MessagesHandled'
  <1> SUFFICES ASSUME ThumbSound, MessagesHandled, [Next]_vars PROVE MessagesHandled'
    OBVIOUS
  <1>1. ASSUME NEW w \in Workers, NoClaim(w)
        PROVE  MessagesHandled'
    BY <1>1, HandledOn DEF NoClaim
  <1>2. ASSUME NEW w \in Workers, Calm(w)
        PROVE  MessagesHandled'
    BY <1>1, <1>2, AsideNoClaim DEF Calm
  <1>3. ASSUME NEW w \in Workers, Claim(w)
        PROVE  MessagesHandled'
    BY <1>1, <1>3, Claims, HandledOn
  <1> QED BY <1>1, <1>2, <1>3, NextIs, MessagesNoClaim, JobsStill, HandledStill

-----------------------------------------------------------------------------
(* No row is stranded.                                                     *)

(* SignalsOut is inductive, with the steps that may break it left out.     *)
LEMMA SignalsNext ==
  MaxDeliveries > 1 => (ThumbSound /\ MessagesHandled /\ SignalsOut /\ [Next]_vars /\ [~SignalDropped]_vars => SignalsOut')
  <1> SUFFICES ASSUME MaxDeliveries > 1, ThumbSound, MessagesHandled, SignalsOut, [Next]_vars, [~SignalDropped]_vars
               PROVE  SignalsOut'
    OBVIOUS
  <1>1. CASE UNCHANGED vars
    BY <1>1, OutsideKept
  <1>2. CASE ~SignalDropped
    <2>1. ASSUME NEW w \in Workers, Send(w) \/ Mark(w) \/ Look(w) \/ Head(w) \/ Fail(w) \/ Crash(w) \/ Claim(w)
          PROVE  SignalsOut'
      BY <1>2, <2>1, SendKept, MarkKept, LookKept, HeadKept, FailKept, CrashKept, ClaimKept
    <2>2. ASSUME NEW s \in Slots, NasStep(s)
          PROVE  SignalsOut'
      BY <1>2, <2>2, SlotClaimsKept, SlotAnswersKept, SlotSignalKept, SlotMarkKept, SlotAbandonKept DEF NasStep
    <2> QED BY <2>1, <2>2, NextIs, CalmKept, ReceiveKept, OutsideKept
  <1> QED BY <1>1, <1>2

(* Nothing is sent or claimed at first.                                    *)
LEMMA InitQuiet == Init => MessagesHandled /\ SignalsOut /\ ClaimsInOrder
  <1> SUFFICES ASSUME Init PROVE MessagesHandled /\ SignalsOut /\ ClaimsInOrder
    OBVIOUS
  <1>1. row = None /\ (\A w \in Workers : job[w] = None) /\ (\A s \in Slots : slot[s] = None)
    BY DEF Init
  <1> QED BY <1>1 DEF MessagesHandled, SignalsOut, ConsumerOnly, ClaimsInOrder, AnsweringSlot, AnsweringJob

(* A message that will be answered is on its way.                          *)
LEMMA CarriedComes ==
  ASSUME MessagesHandled, SignalsOut
  PROVE  NotStranded
  <1> SUFFICES ASSUME ConsumerOnly, row.pub PROVE Coming(row.ver)
    BY DEF NotStranded
  <1>1. Carried(row.ver)
    BY DEF SignalsOut
  <1>2. \A w \in Workers : job[w] # None /\ job[w].at \in Consuming => job[w].m # 0
    BY DEF MessagesHandled, Handles
  <1> QED BY <1>1, <1>2 DEF Carried, Coming, Consuming

(* In every behaviour an invocation that has not answered holds a message, *)
(* and a failure it means to retry is one of a message that will be        *)
(* delivered again: failJob gives no row back on the last delivery.        *)
THEOREM MessagesHandledAlways == Spec => []MessagesHandled
  <1>1. Init => MessagesHandled
    BY InitQuiet
  <1> QED BY <1>1, HandledNext, ThumbSoundAlways, PTL DEF Spec

(* A row that only the consumer may take has a message that will be        *)
(* answered, or neither the mark of one nor somebody about to mark it, as  *)
(* long as no slot gives up a signal for a row that is marked and no       *)
(* invocation dies with a last delivery before its claim.  A message needs *)
(* a second delivery for when the first comes before the gate is open.     *)
THEOREM SignalsOutAlways ==
  MaxDeliveries > 1 => (Spec /\ [][~SignalDropped]_vars => []SignalsOut)
  <1> SUFFICES ASSUME MaxDeliveries > 1 PROVE Spec /\ [][~SignalDropped]_vars => []SignalsOut
    OBVIOUS
  <1>1. Init => SignalsOut
    BY InitQuiet
  <1>2. ThumbSound /\ MessagesHandled /\ SignalsOut /\ [Next]_vars /\ [~SignalDropped]_vars => SignalsOut'
    BY SignalsNext
  <1> QED BY <1>1, <1>2, ThumbSoundAlways, MessagesHandledAlways, PTL DEF Spec

(* So the scheduler's republication, which looks for rows without a mark,  *)
(* overlooks none whose message is gone: the two steps of SignalDropped    *)
(* are the only ones that may strand a row.                                *)
THEOREM NotStrandedHolds ==
  MaxDeliveries > 1 => (Spec /\ [][~SignalDropped]_vars => []NotStranded)
  <1> SUFFICES ASSUME MaxDeliveries > 1 PROVE Spec /\ [][~SignalDropped]_vars => []NotStranded
    OBVIOUS
  <1>1. Spec /\ [][~SignalDropped]_vars => []SignalsOut
    BY SignalsOutAlways
  <1>2. MessagesHandled /\ SignalsOut => NotStranded
    BY CarriedComes
  <1> QED BY <1>1, <1>2, MessagesHandledAlways, PTL

-----------------------------------------------------------------------------
(* Claims are answered in order.                                           *)

(* A step of an invocation that claims nothing keeps claims in order.      *)
LEMMA NoClaimOrdered ==
  ASSUME ThumbSound, ThumbSound', ClaimsInOrder, ~NumberReused, NEW w \in Workers, NoClaim(w)
  PROVE  ClaimsInOrder'
  <1>1. PICK r : /\ job' = [job EXCEPT ![w] = r]
                 /\ r # None => Handles(r) /\ (r.at \in Rendering \cup {"fail"} => SameClaim(w, r))
    BY DEF NoClaim
  <1>2. job'[w] = r /\ \A x \in Workers : x # w => job'[x] = job[x]
    BY <1>1 DEF ThumbSound, TypeOK
  <1>3. \A x \in Workers : AnsweringJob(x)' => AnsweringJob(x) /\ job'[x].ver = job[x].ver /\ job'[x].n = job[x].n
    BY <1>1, <1>2 DEF AnsweringJob, SameClaim
  <1>4. \A s \in Slots : AnsweringSlot(s)' => AnsweringSlot(s) /\ slot'[s].ver = slot[s].ver /\ slot'[s].n = slot[s].n
    BY DEF AnsweringSlot, NoClaim
  <1>5. UNCHANGED holder
    BY DEF NoClaim
  <1> QED BY <1>3, <1>4, <1>5, OrderKept

(* A claim of an invocation is numbered above all others.                  *)
LEMMA ClaimOrdered ==
  ASSUME ThumbSound, ThumbSound', MessagesHandled, ClaimsInOrder, ~NumberReused, NEW w \in Workers, Claim(w)
  PROVE  ClaimsInOrder'
  <1>1. CASE NoClaim(w)
    BY <1>1, NoClaimOrdered
  <1>2. CASE /\ row \in Rows /\ row.ver = job[w].ver /\ row' = Taken(row.tries + 1) /\ holder' = {w} /\ UNCHANGED slot
             /\ \E r \in Jobs : /\ job' = [job EXCEPT ![w] = r]
                                /\ Handles(r) /\ r.ver = job[w].ver /\ r.n = row.tries + 1
    <2>1. PICK r \in Jobs : job' = [job EXCEPT ![w] = r] /\ r.ver = job[w].ver /\ r.n = row.tries + 1
      BY <1>2
    <2>2. job'[w] = r /\ \A x \in Workers : x # w => job'[x] = job[x]
      BY <2>1 DEF ThumbSound, TypeOK
    <2>3. row.tries \in Nat /\ row # None
      BY <1>2, RowFields, NoneApart
    <2>4. row'.ver = row.ver /\ row'.tries = row.tries + 1
      BY <1>2, <2>3 DEF Taken, Rows
    <2>5. ASSUME NEW s \in Slots, AnsweringSlot(s)', row'.ver = slot'[s].ver
          PROVE  slot'[s].n <= row'.tries /\ slot'[s].n # row'.tries
      <3>1. slot[s] # None /\ AnsweringSlot(s) /\ slot'[s] = slot[s]
        BY <1>2, <2>5 DEF AnsweringSlot
      <3>2. slot[s].n \in Nat
        BY <3>1, SlotMoves DEF ThumbSound
      <3>3. slot[s].n <= row.tries
        BY <2>3, <2>4, <2>5, <3>1 DEF ClaimsInOrder, InOrder, RowOf
      <3> QED BY <2>3, <2>4, <3>1, <3>2, <3>3
    <2>6. ASSUME NEW x \in Workers, x # w, AnsweringJob(x)', row'.ver = job'[x].ver
          PROVE  job'[x].n <= row'.tries /\ job'[x].n # row'.tries
      <3>1. job[x] # None /\ AnsweringJob(x) /\ job'[x] = job[x]
        BY <2>2, <2>6 DEF AnsweringJob
      <3>2. job[x].n \in Nat
        BY <3>1, JobTyped, JobFields
      <3>3. job[x].n <= row.tries
        BY <2>3, <2>4, <2>6, <3>1 DEF ClaimsInOrder, InOrder, RowOf
      <3> QED BY <2>3, <2>4, <3>1, <3>2, <3>3
    <2>7. job'[w].n <= row'.tries /\ w \in holder'
      BY <1>2, <2>1, <2>2, <2>3, <2>4
    <2> QED BY <2>5, <2>6, <2>7 DEF ClaimsInOrder, InOrder, RowOf
  <1> QED BY <1>1, <1>2, Claims

(* Without a slot's claim, what a slot may answer is a claim it had.       *)
LEMMA SlotNoClaim ==
  ASSUME ThumbSound, NEW s \in Slots, NasStep(s), ~(NasLease(s) /\ RowIn(slot[s].ver, {"pending"}))
  PROVE  /\ UNCHANGED <<job, holder>>
         /\ \A x \in Slots : AnsweringSlot(x)' => AnsweringSlot(x) /\ slot'[x].ver = slot[x].ver /\ slot'[x].n = slot[x].n
  <1>0. TypeOK /\ slot \in [Slots -> SlotStates \cup {None}]
    BY DEF ThumbSound, TypeOK
  <1>1. UNCHANGED <<job, holder>>
    BY DEF NasStep, NasRead, NasReject, NasLease, NasUpload, NasPut, NasVerify, NasFinish, NasFail, NasSignal, NasMark,
           NasAbandon
  <1>2. \E r : /\ slot' = [slot EXCEPT ![s] = r]
               /\ r # None /\ r.at \in {"hold", "put", "uploaded", "finish"} =>
                    AnsweringSlot(s) /\ r.ver = slot[s].ver /\ r.n = slot[s].n
    <2>1. CASE NasRead(s)
      <3>1. PICK l \in {"lease", "reject"} :
              slot' = [slot EXCEPT ![s] = [at |-> l, ver |-> row.ver, n |-> row.tries + 1]]
        BY <2>1 DEF NasRead
      <3> DEFINE r == [at |-> l, ver |-> row.ver, n |-> row.tries + 1]
      <3>2. r.at = l
        OBVIOUS
      <3>3. slot' = [slot EXCEPT ![s] = r]
        BY <3>1
      <3> HIDE DEF r
      <3> QED BY <3>2, <3>3
    <2>2. CASE Leave(s)
      BY <2>2 DEF Leave
    <2>3. CASE /\ slot[s] # None
               /\ (\E l \in {"signal", "mark"} : Move(s, l)) \/ (AnsweringSlot(s) /\ \E l \in {"put", "uploaded", "finish"} : Move(s, l))
      <3>1. PICK l \in {"signal", "mark", "put", "uploaded", "finish"} :
              Move(s, l) /\ (l \notin {"signal", "mark"} => AnsweringSlot(s))
        BY <2>3
      <3>2. PICK r \in SlotStates : /\ slot' = [slot EXCEPT ![s] = r] /\ r.at = l
                                    /\ r.ver = slot[s].ver /\ r.n = slot[s].n /\ r # None
        BY <1>0, <2>3, <3>1, SlotGoes
      <3> QED BY <3>1, <3>2
    <2> QED BY <2>1, <2>2, <2>3 DEF NasStep, NasReject, NasLease, NasUpload, NasPut, NasVerify, NasFinish, NasFail,
               NasSignal, NasMark, NasAbandon, Busy, AnsweringSlot
  <1>3. PICK r : /\ slot' = [slot EXCEPT ![s] = r]
                 /\ r # None /\ r.at \in {"hold", "put", "uploaded", "finish"} =>
                      AnsweringSlot(s) /\ r.ver = slot[s].ver /\ r.n = slot[s].n
    BY <1>2
  <1>4. slot'[s] = r /\ \A x \in Slots : x # s => slot'[x] = slot[x]
    BY <1>0, <1>3
  <1> QED BY <1>1, <1>3, <1>4 DEF AnsweringSlot

(* A slot's claim, unless it makes the number of the row fall.             *)
LEMMA LeaseOrdered ==
  ASSUME ThumbSound, ThumbSound', ClaimsInOrder, ~NumberReused, NEW s \in Slots, NasLease(s), RowIn(slot[s].ver, {"pending"})
  PROVE  ClaimsInOrder'
  <1>0. TypeOK
    BY DEF ThumbSound
  <1>1. /\ slot[s] # None /\ slot[s].n \in Nat /\ row \in Rows /\ row # None /\ row.ver = slot[s].ver /\ row.tries \in Nat
        /\ row' = [Taken(slot[s].n) EXCEPT !.err = "none"] /\ Move(s, "hold") /\ UNCHANGED job
        /\ holder' = IF slot[s].n = row.tries THEN holder \cup {s} ELSE {s}
    BY <1>0, SlotMoves, RowFields DEF NasLease, Busy, RowIn, RowOf
  <1>2. row'.ver = row.ver /\ row'.tries = slot[s].n
    BY <1>1 DEF Taken, Rows
  <1>3. row' # None
    <2>1. "none" \in Errors
      BY ErrorsAre
    <2>2. row' \in Rows
      BY <1>1, <2>1 DEF Taken, Rows
    <2> QED BY <2>2, NoneApart
  <1>4. row.tries <= row'.tries
    BY <1>1, <1>2, <1>3 DEF NumberReused, RowOf
  <1>5. PICK r \in SlotStates : slot' = [slot EXCEPT ![s] = r] /\ r.n = slot[s].n
    BY <1>0, <1>1, SlotGoes
  <1>6. slot'[s] = r /\ \A x \in Slots : x # s => slot'[x] = slot[x]
    BY <1>0, <1>5 DEF TypeOK
  <1>7. slot'[s].n <= row'.tries /\ s \in holder'
    BY <1>1, <1>2, <1>5, <1>6
  <1>8. ASSUME NEW x \in Slots, x # s, AnsweringSlot(x)', row'.ver = slot'[x].ver
        PROVE  slot'[x].n <= row'.tries /\ (slot'[x].n = row'.tries => x \in holder')
    <2>1. slot[x] # None /\ AnsweringSlot(x) /\ slot'[x] = slot[x]
      BY <1>6, <1>8 DEF AnsweringSlot
    <2>2. slot[x].n \in Nat
      BY <1>0, <2>1, SlotMoves
    <2>3. slot[x].n <= row.tries /\ (slot[x].n = row.tries => x \in holder)
      BY <1>1, <1>2, <1>8, <2>1 DEF ClaimsInOrder, InOrder, RowOf
    <2> QED BY <1>1, <1>2, <1>4, <2>1, <2>2, <2>3
  <1>9. ASSUME NEW w \in Workers, AnsweringJob(w)', row'.ver = job'[w].ver
        PROVE  job'[w].n <= row'.tries /\ (job'[w].n = row'.tries => w \in holder')
    <2>1. job[w] # None /\ AnsweringJob(w) /\ job'[w] = job[w]
      BY <1>1, <1>9 DEF AnsweringJob
    <2>2. job[w].n \in Nat
      BY <2>1, JobTyped, JobFields
    <2>3. job[w].n <= row.tries /\ (job[w].n = row.tries => w \in holder)
      BY <1>1, <1>2, <1>9, <2>1 DEF ClaimsInOrder, InOrder, RowOf
    <2> QED BY <1>1, <1>2, <1>4, <2>1, <2>2, <2>3
  <1> QED BY <1>7, <1>8, <1>9 DEF ClaimsInOrder, InOrder, RowOf

(* ClaimsInOrder is inductive, with the steps that may break it left out.  *)
LEMMA OrderNext ==
  ThumbSound /\ MessagesHandled /\ ClaimsInOrder /\ [Next]_vars /\ [~NumberReused]_vars => ClaimsInOrder'
  <1> SUFFICES ASSUME ThumbSound, MessagesHandled, ClaimsInOrder, [Next]_vars, [~NumberReused]_vars PROVE ClaimsInOrder'
    OBVIOUS
  <1>0. ThumbSound'
    BY NextSound
  <1>1. CASE UNCHANGED vars
    BY <1>1 DEF ClaimsInOrder, InOrder, AnsweringSlot, AnsweringJob, RowOf, vars
  <1>2. CASE ~NumberReused
    <2>1. ASSUME NEW w \in Workers, NoClaim(w) \/ Claim(w)
          PROVE  ClaimsInOrder'
      BY <1>0, <1>2, <2>1, NoClaimOrdered, ClaimOrdered
    <2>2. ASSUME NEW w \in Workers, Calm(w)
          PROVE  ClaimsInOrder'
      BY <2>1, <2>2, AsideNoClaim DEF Calm
    <2>3. ASSUME NEW s \in Slots, NasStep(s)
          PROVE  ClaimsInOrder'
      <3>1. CASE NasLease(s) /\ RowIn(slot[s].ver, {"pending"})
        BY <1>0, <1>2, <3>1, LeaseOrdered
      <3>2. CASE ~(NasLease(s) /\ RowIn(slot[s].ver, {"pending"}))
        <4>1. /\ UNCHANGED <<job, holder>>
              /\ \A x \in Slots : AnsweringSlot(x)' => AnsweringSlot(x) /\ slot'[x].ver = slot[x].ver /\ slot'[x].n = slot[x].n
          BY <2>3, <3>2, SlotNoClaim
        <4>2. \A w \in Workers : AnsweringJob(w)' => AnsweringJob(w) /\ job'[w].ver = job[w].ver /\ job'[w].n = job[w].n
          BY <4>1 DEF AnsweringJob
        <4> QED BY <1>0, <1>2, <4>1, <4>2, OrderKept
      <3> QED BY <3>1, <3>2
    <2>4. ASSUME (\E v \in Versions : Upload(v) \/ CleanupExpires(v)) \/ Delete \/ LeaseExpires \/ GateOpens
          PROVE  ClaimsInOrder'
      <3>1. UNCHANGED <<job, slot, holder>>
        BY <2>4 DEF Upload, CleanupExpires, Delete, LeaseExpires, GateOpens
      <3>2. /\ \A s \in Slots : AnsweringSlot(s)' => AnsweringSlot(s) /\ slot'[s].ver = slot[s].ver /\ slot'[s].n = slot[s].n
            /\ \A w \in Workers : AnsweringJob(w)' => AnsweringJob(w) /\ job'[w].ver = job[w].ver /\ job'[w].n = job[w].n
        BY <3>1 DEF AnsweringSlot, AnsweringJob
      <3> QED BY <1>0, <1>2, <3>1, <3>2, OrderKept
    <2> QED BY <1>1, <2>1, <2>2, <2>3, <2>4, NextIs, MessagesNoClaim
  <1> QED BY <1>1, <1>2

(* The steps of one invocation.                                            *)
WorkerStep(w) ==
  \/ Step(w) \/ Scheduler(w) \/ Crash(w) \/ Throw(w) \/ SendFails(w) \/ RemovalArrives(w)
  \/ \E k \in events : EventArrives(w, k)
  \/ \E v \in Versions : DeadLetter(w, v) \/ Orphans(w, v) \/ \E m \in 1..MaxDeliveries : Receive(w, v, m)

(* They leave the others and the slots where they are.                     *)
LEMMA OneMoves ==
  ASSUME ThumbSound, MessagesHandled, NEW w \in Workers, WorkerStep(w)
  PROVE  UNCHANGED slot /\ \A x \in Workers : x # w => job'[x] = job[x]
  <1>1. ASSUME NEW r, job' = [job EXCEPT ![w] = r]
        PROVE  \A x \in Workers : x # w => job'[x] = job[x]
    BY <1>1 DEF ThumbSound, TypeOK
  <1>2. ASSUME Calm(w) \/ NoClaim(w)
        PROVE  UNCHANGED slot /\ \E r : job' = [job EXCEPT ![w] = r]
    BY <1>2 DEF Calm, Aside, NoClaim
  <1>3. ASSUME Claim(w)
        PROVE  UNCHANGED slot /\ \E r : job' = [job EXCEPT ![w] = r]
    BY <1>2, <1>3, Claims
  <1>4. ASSUME Step(w)
        PROVE  Calm(w) \/ NoClaim(w) \/ Claim(w)
    BY <1>4, RegisterCalm, RegisteredCalm, RemovalCalm, LedgerCalm, RegenerateCalm, RenderCalm, StoreCalm, RecoveryCalm,
       MessagesNoClaim DEF Step
  <1>5. ASSUME ~Step(w)
        PROVE  Calm(w) \/ NoClaim(w)
    BY <1>5, BeginsCalm, RenderCalm, SendFailsCalm, MessagesNoClaim DEF WorkerStep
  <1> QED BY <1>1, <1>2, <1>3, <1>4, <1>5

(* An answer that changes the row is fenced by the number of its claim.    *)
LEMMA AnswersFenced ==
  ASSUME NEW w \in Workers, WorkerStep(w), job[w] # None, job[w].at \in {"fail", "limit", "adopt", "winner", "complete"},
         row' # row
  PROVE  Holds(job[w].ver, job[w].n)
  <1>1. ASSUME ~Step(w)
        PROVE  FALSE
    BY <1>1 DEF WorkerStep, Scheduler, RecoverExpired, RecoverTransient, Republish, Reconcile, Drain, Crash, Throw, SendFails,
                RemovalArrives, EventArrives, DeadLetter, Orphans, Receive, Begin, At
  <1>2. Fail(w) \/ Limit(w) \/ Adopt(w) \/ Complete(w)
    BY <1>1 DEF Step, Register, AfterRegister, Publish, Send, Mark, Remove, Retire, Resurrect, SelectCleanup, ClaimCleanup,
                Referenced, Compare, DeleteObject, AfterDelete, Regenerate, Tidy, Look, Head, Claim, Render, Check, Unadopted,
                Put, Final, Exhaust, Revive, Retry, Deregister, At
  <1> QED BY <1>2 DEF Fail, Limit, Adopt, Complete

(* The same of a slot, whose lease is live besides.                        *)
LEMMA SlotFenced ==
  ASSUME NEW s \in Slots, NasStep(s), slot[s] # None, slot[s].at \in {"hold", "uploaded", "finish"}, row' # row
  PROVE  Holds(slot[s].ver, slot[s].n)
  <1>1. NasVerify(s) \/ NasFinish(s) \/ \E e \in {"nas", "pixel"} : NasFail(s, e)
    BY DEF NasStep, NasRead, NasReject, NasLease, NasUpload, NasPut, NasSignal, NasMark, NasAbandon, Busy
  <1> QED BY <1>1 DEF NasVerify, NasFinish, NasFail, HoldsLease

(* Only a holder answers, while claims are in order.                       *)
LEMMA HolderAnswersNext ==
  ThumbSound /\ MessagesHandled /\ ClaimsInOrder /\ [Next]_vars => [HolderAnswers]_vars
  <1> SUFFICES ASSUME ThumbSound, MessagesHandled, ClaimsInOrder, Next PROVE HolderAnswers
    OBVIOUS
  <1>1. ASSUME NEW w \in Workers, WorkerStep(w)
        PROVE  HolderAnswers
    <2>1. UNCHANGED slot /\ \A x \in Workers : x # w => job'[x] = job[x]
      BY <1>1, OneMoves
    <2>2. ASSUME job[w] # None, job[w].at \in {"fail", "limit", "adopt", "winner", "complete"}, row' # row
          PROVE  w \in holder
      <3>1. Holds(job[w].ver, job[w].n)
        BY <1>1, <2>2, AnswersFenced
      <3>2. AnsweringJob(w)
        BY <2>2 DEF AnsweringJob, Rendering
      <3> QED BY <3>1, <3>2 DEF ClaimsInOrder, InOrder, Holds, RowIn
    <2> QED BY <2>1, <2>2 DEF HolderAnswers
  <1>2. ASSUME NEW s \in Slots, NasStep(s)
        PROVE  HolderAnswers
    <2>1. UNCHANGED job
      BY <1>2, JobsStill
    <2>2. \A x \in Slots : x # s => slot'[x] = slot[x]
      <3>1. slot \in [Slots -> SlotStates \cup {None}]
        BY DEF ThumbSound, TypeOK
      <3> QED BY <1>2, <3>1 DEF NasStep, NasRead, NasReject, NasLease, NasUpload, NasPut, NasVerify, NasFinish, NasFail,
                 NasSignal, NasMark, NasAbandon, Move, Leave
    <2>3. ASSUME slot[s] # None, slot[s].at \in {"hold", "uploaded", "finish"}, row' # row
          PROVE  s \in holder
      <3>1. Holds(slot[s].ver, slot[s].n)
        BY <1>2, <2>3, SlotFenced
      <3>2. AnsweringSlot(s)
        BY <2>3 DEF AnsweringSlot
      <3> QED BY <3>1, <3>2 DEF ClaimsInOrder, InOrder, Holds, RowIn
    <2> QED BY <2>1, <2>2, <2>3 DEF HolderAnswers
  <1>3. ASSUME (\E v \in Versions : Upload(v) \/ CleanupExpires(v)) \/ Delete \/ LeaseExpires \/ GateOpens
        PROVE  HolderAnswers
    <2>1. UNCHANGED <<job, slot>>
      BY <1>3 DEF Upload, CleanupExpires, Delete, LeaseExpires, GateOpens
    <2> QED BY <2>1 DEF HolderAnswers
  <1> QED BY <1>1, <1>2, <1>3 DEF Next, WorkerStep

(* The numbers of claims that may still be answered are not above that of  *)
(* the row, and the ones equal to it are those of its holders, unless the  *)
(* number of a row falls or starts again while such a claim is out.        *)
THEOREM ClaimsInOrderAlways == Spec /\ [][~NumberReused]_vars => []ClaimsInOrder
  <1>1. Init => ClaimsInOrder
    BY InitQuiet
  <1> QED BY <1>1, OrderNext, ThumbSoundAlways, MessagesHandledAlways, PTL DEF Spec

(* So whoever lost its lease to a later claim neither completes nor fails  *)
(* the row: a number that is used again, by a slot that claims with one it *)
(* has read long before or by a registration of content a renderer still   *)
(* works on, is the only way around the fence.                             *)
THEOREM OlderNeverActsHolds == Spec /\ [][~NumberReused]_vars => OlderNeverActs
  <1>1. ThumbSound /\ MessagesHandled /\ ClaimsInOrder /\ [Next]_vars => [HolderAnswers]_vars
    BY HolderAnswersNext
  <1> QED BY <1>1, ClaimsInOrderAlways, ThumbSoundAlways, MessagesHandledAlways, PTL DEF Spec, OlderNeverActs
=============================================================================
