--------------------------- MODULE ThumbnailJobs ---------------------------
(***************************************************************************)
(* The thumbnail of one still image or PDF of Delivery.  Its job is one    *)
(* row of image_thumbnail_jobs; two renderers compete for it, the TrueNAS  *)
(* slots through thumbnail-renderer-api.ts and the Cloudflare queue        *)
(* consumer of image-thumbnails.ts, while file events register and remove  *)
(* the row, a cleanup ledger deletes retired objects and the scheduler     *)
(* repairs what crashes left behind.                                       *)
(*                                                                         *)
(* One step is one D1 statement, R2 call or queue call, with the reads     *)
(* that lead up to it.  A version is an ETag; the managed key of a         *)
(* thumbnail is a function of it, so objects and cleanup jobs are indexed  *)
(* by version.                                                             *)
(***************************************************************************)
EXTENDS Naturals, FiniteSets

CONSTANTS Versions,       \* 1..n: contents the source may have
          Slots,          \* TrueNAS worker slots
          Workers,        \* concurrent invocations of the Operations Worker
          Roles,          \* Roles[w]: what invocation w may be started for
          Outcomes,       \* what the container may answer
          MaxAttempts,    \* THUMBNAIL_MAX_DELIVERY_ATTEMPTS for a slot's failures
          MaxDeliveries,  \* THUMBNAIL_MAX_DELIVERY_ATTEMPTS of a queue message
          MaxCleanups,    \* THUMBNAIL_CLEANUP_MAX_ATTEMPTS
          MaxUploads,     \* bound: uploads of the source
          MaxCopies,      \* bound: equal messages kept apart
          MaxFaults,      \* bound: invocations that die, and calls of theirs that fail
          None

AllRoles == {"event", "remove", "consume", "deadletter", "expired", "transient",
             "republish", "reconcile", "orphans", "drain"}

ASSUME ThumbnailAssumption ==
  /\ IsFiniteSet(Versions) /\ Versions # {} /\ Versions = 1..Cardinality(Versions)
  /\ IsFiniteSet(Workers) /\ Slots \cap Workers = {}
  /\ Roles \in [Workers -> SUBSET AllRoles]
  /\ Outcomes \subseteq {"ok", "pixel", "permanent", "transfer", "code"}
  /\ {MaxAttempts, MaxDeliveries, MaxCleanups, MaxCopies} \subseteq Nat \ {0}
  /\ {MaxUploads, MaxFaults} \subseteq Nat

VARIABLES src,      \* the source object in R2: version (0: absent) and time
          clock,    \* uploads so far
          events,   \* uploads whose file event is still to be handled
          row,      \* the row of image_thumbnail_jobs
          object,   \* object[v]: the thumbnail at v's key, by its renderer
          cleanup,  \* image_thumbnail_cleanup_jobs
          queue,    \* queue[v, a]: messages about v whose next delivery is the a-th
          dead,     \* versions with a message in the dead letter queue
          job,      \* the invocations
          slot,     \* the slots, each with the renderer request it is making
          holder,   \* history: the last claimant of the row, and those of its number
          faults    \* how many faults have happened

env == <<src, clock, events>>
vars == <<src, clock, events, row, object, cleanup, queue, dead, job, slot, holder, faults>>

Times == 0..2 * MaxUploads + 1
Renderers == {"nas", "cf"}
Errors == {"none", "nas", "pixel", "permanent", "transfer", "code", "thrown", "publish",
           "source", "conflict", "race", "exhausted"}
Rows == [ver: Versions, at: Times, st: {"pending", "processing", "ready", "failed"},
         tries: Nat, lease: {"none", "live", "over"}, err: Errors, pub: BOOLEAN,
         gate: {"shut", "primary", "open"}, thumb: Renderers \cup {None}]
Cleanups == [st: {"due", "live", "over", "done"}, etag: Renderers \cup {None},
             tries: 0..MaxCleanups + Cardinality(Workers) - 1]
Places ==
  {"register", "registered", "publish", "send", "mark", "remove", "retire",
   "resurrect", "reregister", "discard", "drain", "take", "referenced", "compare", "delete",
   "deleted", "regenerate", "tidy", "look", "head", "claim", "bury", "render",
   "limit", "check", "adopt", "winner", "unadopted", "put", "final", "complete",
   "raced", "fail", "exhaust", "revive", "retry", "deregister"}
Jobs == [at: Places,
         ver: Versions, n: Nat, m: 0..MaxDeliveries, ev: 0..MaxUploads, key: Versions \cup {0},
         etag: Renderers \cup {None}, err: Errors, out: {"ack", "failed", "retry"},
         via: {"none", "enqueue", "repair", "soft", "regenerate"},
         then: {"end", "publish", "resurrect", "discard"}]
SlotStates == [at: {"reject", "lease", "hold", "put", "uploaded", "finish", "signal", "mark"},
               ver: Versions, n: Nat]

ASSUME ThumbnailNoneAssumption ==
  None \notin Rows \cup Cleanups \cup Jobs \cup SlotStates \cup Renderers

TypeOK ==
  /\ src \in [ver: Versions \cup {0}, at: Times]
  /\ clock \in 0..MaxUploads
  /\ events \subseteq 1..MaxUploads
  /\ row \in Rows \cup {None}
  /\ object \in [Versions -> Renderers \cup {None}]
  /\ cleanup \in [Versions -> Cleanups \cup {None}]
  /\ queue \in [Versions \X (1..MaxDeliveries) -> 0..MaxCopies]
  /\ dead \subseteq Versions
  /\ job \in [Workers -> Jobs \cup {None}]
  /\ slot \in [Slots -> SlotStates \cup {None}]
  /\ holder \subseteq Slots \cup Workers
  /\ faults \in 0..MaxFaults

Init ==
  /\ src = [ver |-> 0, at |-> 0]
  /\ clock = 0
  /\ events = {}
  /\ row = None
  /\ object = [v \in Versions |-> None]
  /\ cleanup = [v \in Versions |-> None]
  /\ queue = [e \in Versions \X (1..MaxDeliveries) |-> 0]
  /\ dead = {}
  /\ job = [w \in Workers |-> None]
  /\ slot = [s \in Slots |-> None]
  /\ holder = {}
  /\ faults = 0

-----------------------------------------------------------------------------
(* The row and the ledger.                                                 *)

RowOf(v) == row # None /\ row.ver = v
RowIn(v, S) == RowOf(v) /\ row.st \in S

Registered(v, t) ==
  [ver |-> v, at |-> t, st |-> "pending", tries |-> 0, lease |-> "none", err |-> "none",
   pub |-> FALSE, gate |-> "shut", thumb |-> None]

Pending(e) == [row EXCEPT !.st = "pending", !.lease = "none", !.err = e]
Failed(e) == [row EXCEPT !.st = "failed", !.lease = "none", !.err = e]
Ready(t) == [row EXCEPT !.st = "ready", !.lease = "none", !.err = "none", !.thumb = t]
TakenUncounted(n) == [row EXCEPT !.st = "processing", !.lease = "live"]
Taken(n) == [row EXCEPT !.st = "processing", !.lease = "live", !.tries = n]
Active(v) == RowIn(v, {"pending", "processing", "ready"})

(* What every answer of a claimant is fenced by.                           *)
HoldsAnyAttempt(v, n) == RowIn(v, {"processing"})
Holds(v, n) == RowIn(v, {"processing"}) /\ row.tries = n
HoldsLease(v, n) == Holds(v, n) /\ row.lease = "live"

(* The triggers of the row, and scheduleThumbnailCleanup, which keeps the  *)
(* number of attempts.                                                     *)
Retired(v, e) == [cleanup EXCEPT ![v] = [st |-> "due", etag |-> e, tries |-> 0]]
Scheduled(v, e) ==
  [cleanup EXCEPT ![v] = [st |-> "due", etag |-> e, tries |-> IF @ = None THEN 0 ELSE @.tries]]

-----------------------------------------------------------------------------
(* Time and the source.                                                    *)

(* Every upload has a content of its own.                                  *)
Upload(v) ==
  /\ clock < MaxUploads
  /\ v = clock + 1
  /\ clock' = clock + 1
  /\ src' = [ver |-> v, at |-> 2 * clock']
  /\ events' = events \cup {clock'}
  /\ UNCHANGED <<row, object, cleanup, queue, dead, job, slot, holder, faults>>

Delete ==
  /\ src.ver # 0
  /\ src' = [ver |-> 0, at |-> 0]
  /\ UNCHANGED <<clock, events, row, object, cleanup, queue, dead, job, slot, holder, faults>>

Now == 2 * clock + 1

(* A lease that no heartbeat prolongs runs out; a claim request does not   *)
(* last as long as a lease.                                                *)
LeaseExpires ==
  /\ row # None /\ row.lease = "live"
  /\ \A s \in Slots : slot[s] # None => slot[s].at # "lease"
  /\ row' = [row EXCEPT !.lease = "over"]
  /\ UNCHANGED <<env, object, cleanup, queue, dead, job, slot, holder, faults>>

(* render_not_before passes, then the five minutes after it.               *)
GateOpens ==
  /\ row # None /\ row.gate # "open"
  /\ row' = [row EXCEPT !.gate = IF @ = "shut" THEN "primary" ELSE "open"]
  /\ UNCHANGED <<env, object, cleanup, queue, dead, job, slot, holder, faults>>

CleanupExpires(v) ==
  /\ cleanup[v] # None /\ cleanup[v].st = "live"
  /\ \A w \in Workers : job[w] # None /\ job[w].at # "take" => job[w].key # v
  /\ cleanup' = [cleanup EXCEPT ![v].st = "over"]
  /\ UNCHANGED <<env, row, object, queue, dead, job, slot, holder, faults>>

-----------------------------------------------------------------------------
(* Invocations: where one stands, the attempt or event time n it carries,  *)
(* the delivery m of the message it handles (0: none) and what becomes of  *)
(* that message.                                                           *)

At(w, l) == job[w] # None /\ job[w].at = l
Start(l, v) ==
  [at |-> l, ver |-> v, n |-> 0, m |-> 0, ev |-> 0, key |-> 0, etag |-> None, err |-> "none",
   out |-> "ack", via |-> "none", then |-> "end"]
Begin(w, role, r) == role \in Roles[w] /\ job[w] = None /\ job' = [job EXCEPT ![w] = r]
Go(w, l) == job' = [job EXCEPT ![w].at = l]
GoTo(w, r) == job' = [job EXCEPT ![w] = r]

Added(v, m) == [queue EXCEPT ![<<v, m>>] = IF @ < MaxCopies THEN @ + 1 ELSE @]

(* The queue takes a message back: its next delivery, or the dead letters. *)
TakenBack(v, m) ==
  /\ queue' = IF m < MaxDeliveries THEN Added(v, m + 1) ELSE queue
  /\ dead' = IF m = MaxDeliveries THEN dead \cup {v} ELSE dead

(* A message is kept for a retry, and a failure on its last delivery is    *)
(* sent through the dead letters.                                          *)
End(w, out) ==
  LET j == job[w] IN
  /\ GoTo(w, None)
  /\ IF j.m # 0 /\ (out = "retry" \/ (out = "failed" /\ j.m = MaxDeliveries))
     THEN TakenBack(j.ver, j.m) ELSE UNCHANGED <<queue, dead>>

Continue(w) ==
  IF job[w].then = "end" THEN End(w, job[w].out)
  ELSE /\ GoTo(w, [job[w] EXCEPT !.at = job[w].then, !.then = "end"])
       /\ UNCHANGED <<queue, dead>>

Fault == faults < MaxFaults /\ faults' = faults + 1

Unhandled(j) == IF j.ev = 0 THEN events ELSE events \cup {j.ev}

(* An invocation dies, or one of its calls throws before a claim.          *)
Crash(w) ==
  /\ job[w] # None
  /\ Fault
  /\ GoTo(w, None)
  /\ IF job[w].m = 0 THEN UNCHANGED <<queue, dead>> ELSE TakenBack(job[w].ver, job[w].m)
  /\ events' = Unhandled(job[w])
  /\ UNCHANGED <<src, clock, row, object, cleanup, slot, holder>>

-----------------------------------------------------------------------------
(* Registration: enqueueThumbnailJob.                                      *)

RowVersion == IF row = None THEN 0 ELSE row.ver
Registering(v, t) == [Start("register", v) EXCEPT !.n = t, !.key = RowVersion]

(* A file event, perhaps a late one, about the object now at the key.      *)
EventArrives(w, k) ==
  /\ k \in events /\ src.ver # 0
  /\ Begin(w, "event", [Registering(src.ver, 2 * k) EXCEPT !.ev = k])
  /\ events' = events \ {k}
  /\ UNCHANGED <<src, clock, row, object, cleanup, queue, dead, slot, holder, faults>>

Newer(v, t) == row = None \/ t > row.at \/ (t = row.at /\ row.ver = v)

Register(w) ==
  LET v == job[w].ver
      t == job[w].n IN
  /\ At(w, "register")
  /\ row' = IF ~Newer(v, t) THEN row
            ELSE IF RowOf(v) THEN [row EXCEPT !.at = t] ELSE Registered(v, t)
  /\ cleanup' = IF row # None /\ ~RowOf(v) /\ Newer(v, t) THEN Retired(row.ver, row.thumb) ELSE cleanup
  /\ Go(w, "registered")
  /\ UNCHANGED <<env, object, queue, dead, slot, holder, faults>>

(* Not applied; applied over another version, which is retired once more;  *)
(* or applied.                                                             *)
AfterRegister(w) ==
  LET j == job[w] IN
  /\ At(w, "registered")
  /\ \/ ~RowOf(j.ver) /\ End(w, "ack") /\ UNCHANGED cleanup
     \/ /\ RowOf(j.ver) /\ j.key \notin {0, j.ver}
        /\ cleanup' = Scheduled(j.key, None)
        /\ GoTo(w, [j EXCEPT !.at = "drain", !.then = "publish"])
        /\ UNCHANGED <<queue, dead>>
     \/ RowOf(j.ver) /\ j.key \in {0, j.ver} /\ Go(w, "publish") /\ UNCHANGED <<cleanup, queue, dead>>
  /\ UNCHANGED <<env, row, object, slot, holder, faults>>

Publish(w) ==
  /\ At(w, "publish")
  /\ row' = IF RowIn(job[w].ver, {"failed"}) /\ row.err = "publish" THEN Pending("none") ELSE row
  /\ GoTo(w, [job[w] EXCEPT !.at = "send", !.via = "enqueue"])
  /\ UNCHANGED <<env, object, cleanup, queue, dead, slot, holder, faults>>

-----------------------------------------------------------------------------
(* Signals: every send to THUMBNAIL_QUEUE and the marker that records it.  *)

Subject(j) == IF j.via = "regenerate" THEN j.key ELSE j.ver
Sent(v) == queue' = Added(v, 1) /\ UNCHANGED dead
Signalled == row # None /\ (row.st \in {"ready", "failed"} \/ row.pub)
Marked(v, S) == IF RowIn(v, S) THEN [row EXCEPT !.pub = TRUE] ELSE row

Send(w) ==
  /\ At(w, "send")
  /\ IF job[w].via = "enqueue" /\ Signalled THEN End(w, "ack")
     ELSE Sent(Subject(job[w])) /\ Go(w, "mark")
  /\ UNCHANGED <<env, row, object, cleanup, slot, holder, faults>>

(* A failed send fails the row, except where the null marker is the        *)
(* record, and puts a cleanup that was regenerating back.                  *)
SendFails(w) ==
  LET j == job[w] IN
  /\ At(w, "send") /\ ~(j.via = "enqueue" /\ Signalled)
  /\ Fault
  /\ row' = IF j.via # "soft" /\ RowIn(Subject(j), {"pending"}) THEN Failed("publish") ELSE row
  /\ cleanup' = IF j.via = "regenerate" THEN [cleanup EXCEPT ![j.key].st = "due"] ELSE cleanup
  /\ events' = IF j.via = "enqueue" THEN Unhandled(j) ELSE events
  /\ Continue(w)
  /\ UNCHANGED <<src, clock, object, slot, holder>>

Mark(w) ==
  LET j == job[w] IN
  /\ At(w, "mark")
  /\ row' = Marked(Subject(j), IF j.via = "enqueue" THEN {"pending", "processing"} ELSE {"pending"})
  /\ IF j.via = "regenerate" THEN Go(w, "tidy") /\ UNCHANGED <<queue, dead>> ELSE Continue(w)
  /\ UNCHANGED <<env, object, cleanup, slot, holder, faults>>

-----------------------------------------------------------------------------
(* Removal: handleRemovedSource and removeThumbnailStateForPath.           *)

Removing(after) == [Start("remove", row.ver) EXCEPT !.etag = row.thumb, !.then = after]

RemovalArrives(w) ==
  /\ src.ver = 0 /\ row # None
  /\ Begin(w, "remove", Removing("resurrect"))
  /\ UNCHANGED <<env, row, object, cleanup, queue, dead, slot, holder, faults>>

Remove(w) ==
  /\ At(w, "remove")
  /\ IF RowOf(job[w].ver) THEN row' = None /\ cleanup' = Retired(row.ver, row.thumb)
     ELSE UNCHANGED <<row, cleanup>>
  /\ Go(w, "retire")
  /\ UNCHANGED <<env, object, queue, dead, slot, holder, faults>>

(* scheduleThumbnailCleanup, then one pass of the ledger.                  *)
Retire(w) ==
  /\ At(w, "retire") \/ At(w, "discard")
  /\ cleanup' = Scheduled(job[w].ver, job[w].etag)
  /\ Go(w, "drain")
  /\ UNCHANGED <<env, row, object, queue, dead, slot, holder, faults>>

(* The source is back: it is registered with its own upload time, or with  *)
(* the present time by the audit.                                          *)
Resurrect(w) ==
  /\ At(w, "resurrect") \/ At(w, "reregister")
  /\ IF src.ver = 0 THEN End(w, "ack")
     ELSE /\ GoTo(w, Registering(src.ver, IF job[w].at = "resurrect" THEN src.at ELSE Now))
          /\ UNCHANGED <<queue, dead>>
  /\ UNCHANGED <<env, row, object, cleanup, slot, holder, faults>>

-----------------------------------------------------------------------------
(* The ledger: drainThumbnailCleanup, one cleanup per pass.                *)

Drain(w) ==
  /\ \E v \in Versions : cleanup[v] # None /\ cleanup[v].st # "done"
  /\ Begin(w, "drain", Start("drain", 1))
  /\ UNCHANGED <<env, row, object, cleanup, queue, dead, slot, holder, faults>>

DueUncapped(v) == cleanup[v] # None /\ cleanup[v].st \in {"due", "over"}
Due(v) == cleanup[v] # None /\ cleanup[v].st \in {"due", "over"} /\ cleanup[v].tries < MaxCleanups

SelectCleanup(w) ==
  /\ At(w, "drain")
  /\ \/ \E v \in Versions :
          /\ Due(v)
          /\ GoTo(w, [job[w] EXCEPT !.at = "take", !.key = v, !.etag = cleanup[v].etag])
          /\ UNCHANGED <<queue, dead>>
     \/ (\A v \in Versions : ~Due(v)) /\ Continue(w)
  /\ UNCHANGED <<env, row, object, cleanup, slot, holder, faults>>

(* The claim repeats the conditions of the selection except the cap, so    *)
(* that invocations that selected a cleanup together may all attempt it.   *)
ClaimCleanup(w) ==
  LET v == job[w].key IN
  /\ At(w, "take")
  /\ IF cleanup[v].st \in {"due", "over"}
     THEN /\ cleanup' = [cleanup EXCEPT ![v].st = "live", ![v].tries = @ + 1]
          /\ Go(w, "referenced") /\ UNCHANGED <<queue, dead>>
     ELSE Continue(w) /\ UNCHANGED cleanup
  /\ UNCHANGED <<env, row, object, slot, holder, faults>>

SettledForgotten(w, st) ==
  /\ cleanup' = IF st = "done" THEN [cleanup EXCEPT ![job[w].key] = None] ELSE [cleanup EXCEPT ![job[w].key].st = st]
  /\ Continue(w)
Settled(w, st) == cleanup' = [cleanup EXCEPT ![job[w].key].st = st] /\ Continue(w)

Referenced(w) ==
  /\ At(w, "referenced")
  /\ IF Active(job[w].key) THEN Settled(w, "done")
     ELSE Go(w, "compare") /\ UNCHANGED <<cleanup, queue, dead>>
  /\ UNCHANGED <<env, row, object, slot, holder, faults>>

Compare(w) ==
  LET j == job[w] IN
  /\ At(w, "compare")
  /\ IF j.etag # None /\ object[j.key] \notin {None, j.etag} THEN Settled(w, "done")
     ELSE Go(w, "delete") /\ UNCHANGED <<cleanup, queue, dead>>
  /\ UNCHANGED <<env, row, object, slot, holder, faults>>

DeleteObject(w) ==
  /\ At(w, "delete")
  /\ \/ /\ object' = [object EXCEPT ![job[w].key] = None]
        /\ Go(w, "deleted")
        /\ UNCHANGED <<cleanup, queue, dead, faults>>
     \/ Fault /\ Settled(w, "due") /\ UNCHANGED object
  /\ UNCHANGED <<env, row, slot, holder>>

AfterDelete(w) ==
  LET k == job[w].key IN
  /\ At(w, "deleted")
  /\ IF object[k] # None THEN Settled(w, "due")
     ELSE /\ Go(w, IF Active(k) THEN "regenerate" ELSE "tidy")
          /\ UNCHANGED <<cleanup, queue, dead>>
  /\ UNCHANGED <<env, row, object, slot, holder, faults>>

(* The row came back while its object was being deleted.                   *)
Regenerate(w) ==
  /\ At(w, "regenerate")
  /\ row' = IF Active(job[w].key) THEN [Pending("none") EXCEPT !.thumb = None, !.gate = "primary"] ELSE row
  /\ GoTo(w, [job[w] EXCEPT !.at = "send", !.via = "regenerate"])
  /\ UNCHANGED <<env, object, cleanup, queue, dead, slot, holder, faults>>

Tidy(w) ==
  /\ At(w, "tidy")
  /\ Settled(w, "done")
  /\ UNCHANGED <<env, row, object, slot, holder, faults>>

-----------------------------------------------------------------------------
(* The queue consumer: consumeThumbnailJobs and processThumbnailJob.       *)

(* The delay of a send is meant to end with the gate; one that ends early  *)
(* is sent back to come when the gate is open.                             *)
Receive(w, v, m) ==
  /\ queue[<<v, m>>] > 0
  /\ m > 1 => (RowOf(v) => row.gate = "open")
  /\ Begin(w, "consume", [Start("look", v) EXCEPT !.m = m])
  /\ queue' = [queue EXCEPT ![<<v, m>>] = @ - 1]
  /\ UNCHANGED <<env, row, object, cleanup, dead, slot, holder, faults>>

LiveLease == row # None /\ row.st = "processing" /\ row.lease = "live"

Look(w) ==
  LET v == job[w].ver IN
  /\ At(w, "look")
  /\ IF ~RowIn(v, {"pending", "processing"}) \/ LiveLease THEN End(w, "ack")
     ELSE IF row.gate # "open" THEN End(w, "retry")
     ELSE Go(w, "head") /\ UNCHANGED <<queue, dead>>
  /\ UNCHANGED <<env, row, object, cleanup, slot, holder, faults>>

Failing(j, e, out) == [j EXCEPT !.at = "fail", !.err = e, !.out = out]

Head(w) ==
  LET j == job[w] IN
  /\ At(w, "head")
  /\ IF src.ver = j.ver THEN Go(w, "claim")
     ELSE GoTo(w, [j EXCEPT !.at = "bury", !.out = IF src.ver = 0 THEN "failed" ELSE "ack"])
  /\ UNCHANGED <<env, row, object, cleanup, queue, dead, slot, holder, faults>>

Claimable(v) == RowIn(v, {"pending", "processing"}) /\ ~LiveLease /\ row.gate = "open"

Claim(w) ==
  LET j == job[w] IN
  /\ At(w, "claim") \/ At(w, "bury")
  /\ IF Claimable(j.ver)
     THEN /\ row' = Taken(row.tries + 1)
          /\ holder' = {w}
          /\ LET k == [j EXCEPT !.n = row.tries + 1] IN
             GoTo(w, IF j.at = "claim" THEN [k EXCEPT !.at = "render"] ELSE Failing(k, "source", j.out))
          /\ UNCHANGED <<queue, dead>>
     ELSE /\ End(w, IF j.at = "bury" \/ RowIn(j.ver, {"ready"}) \/ LiveLease THEN "ack" ELSE "retry")
          /\ UNCHANGED <<row, holder>>
  /\ UNCHANGED <<env, object, cleanup, slot, faults>>

(* Terminal on the message's last delivery only.  (A broken transfer to    *)
(* the container is a permanent failure that the scheduler may take back.) *)
TransientAlways(j) == "retry"
Transient(j) == IF j.m = MaxDeliveries THEN "failed" ELSE "retry"

Render(w) ==
  LET j == job[w] IN
  /\ At(w, "render")
  /\ IF src.ver # j.ver THEN GoTo(w, Failing(j, "source", "ack"))
     ELSE \E o \in Outcomes :
            GoTo(w, CASE o = "ok" -> [j EXCEPT !.at = "check"]
                      [] o = "pixel" -> [j EXCEPT !.at = "limit"]
                      [] o \in {"permanent", "transfer"} -> Failing(j, o, "failed")
                      [] o = "code" -> Failing(j, o, Transient(j)))
  /\ UNCHANGED <<env, row, object, cleanup, queue, dead, slot, holder, faults>>

(* Any call that throws while the claim is held.                           *)
Throw(w) ==
  /\ job[w] # None
  /\ job[w].at \in {"render", "limit", "check", "adopt", "winner", "unadopted", "put", "final", "complete", "raced"}
  /\ Fault
  /\ GoTo(w, Failing(job[w], "thrown", Transient(job[w])))
  /\ UNCHANGED <<env, row, object, cleanup, queue, dead, slot, holder>>

(* returnContainerLimitedThumbnailToPrimary.                               *)
Limit(w) ==
  LET j == job[w] IN
  /\ At(w, "limit")
  /\ row' = IF Holds(j.ver, j.n) THEN [Pending("pixel") EXCEPT !.pub = FALSE, !.gate = "primary"] ELSE row
  /\ End(w, "ack")
  /\ UNCHANGED <<env, object, cleanup, slot, holder, faults>>

(* What adoptExistingThumbnail recognises: it asks for the custom metadata *)
(* thumbnailProvider, which only this consumer writes.                     *)
Adoptable(v) == object[v] = "cf"

Check(w) ==
  LET j == job[w] IN
  /\ At(w, "check")
  /\ IF src.ver # j.ver THEN GoTo(w, Failing(j, "source", "ack"))
     ELSE Go(w, IF object[j.ver] = None THEN "put" ELSE IF Adoptable(j.ver) THEN "adopt" ELSE "unadopted")
  /\ UNCHANGED <<env, row, object, cleanup, queue, dead, slot, holder, faults>>

Adopt(w) ==
  LET j == job[w] IN
  /\ At(w, "adopt") \/ At(w, "winner")
  /\ IF Adoptable(j.ver) /\ Holds(j.ver, j.n)
     THEN row' = Ready(object[j.ver]) /\ End(w, "ack")
     ELSE /\ GoTo(w, IF j.at = "adopt" THEN [j EXCEPT !.at = "unadopted"] ELSE Failing(j, "conflict", "failed"))
          /\ UNCHANGED <<row, queue, dead>>
  /\ UNCHANGED <<env, object, cleanup, slot, holder, faults>>

(* Unless the row is ready by now, fail it and discard what is stored.     *)
Discarding(j, e, out, etag) == [Failing(j, e, out) EXCEPT !.then = "discard", !.etag = etag]
Lost(w, e, etag) ==
  IF RowIn(job[w].ver, {"ready"}) THEN End(w, "ack")
  ELSE GoTo(w, Discarding(job[w], e, "failed", etag)) /\ UNCHANGED <<queue, dead>>

Unadopted(w) ==
  /\ \/ At(w, "unadopted") /\ Lost(w, "conflict", None)
     \/ At(w, "raced") /\ Lost(w, "race", "cf")
  /\ UNCHANGED <<env, row, object, cleanup, slot, holder, faults>>

Put(w) ==
  LET v == job[w].ver IN
  /\ At(w, "put")
  /\ IF object[v] = None THEN object' = [object EXCEPT ![v] = "cf"] /\ Go(w, "final")
     ELSE Go(w, "winner") /\ UNCHANGED object
  /\ UNCHANGED <<env, row, cleanup, queue, dead, slot, holder, faults>>

Final(w) ==
  LET j == job[w] IN
  /\ At(w, "final")
  /\ GoTo(w, IF src.ver = j.ver THEN [j EXCEPT !.at = "complete"] ELSE Discarding(j, "source", "ack", None))
  /\ UNCHANGED <<env, row, object, cleanup, queue, dead, slot, holder, faults>>

(* completeJob: it does not ask whether the lease is still live.           *)
Complete(w) ==
  LET j == job[w] IN
  /\ At(w, "complete")
  /\ IF Holds(j.ver, j.n) THEN row' = Ready("cf") /\ End(w, "ack")
     ELSE Go(w, "raced") /\ UNCHANGED <<row, queue, dead>>
  /\ UNCHANGED <<env, object, cleanup, slot, holder, faults>>

(* failJob.                                                                *)
Fail(w) ==
  LET j == job[w] IN
  /\ At(w, "fail")
  /\ row' = IF ~Holds(j.ver, j.n) THEN row
            ELSE IF j.out = "retry" THEN Pending(j.err) ELSE Failed(j.err)
  /\ Continue(w)
  /\ UNCHANGED <<env, object, cleanup, slot, holder, faults>>

(* consumeThumbnailDeadLetters annotates failed rows only; a dead letter   *)
(* whose handling dies stays where it is.                                  *)
DeadLetter(w, v) ==
  /\ v \in dead
  /\ dead' = dead \ {v}
  /\ IF RowIn(v, {"failed"})
     THEN Begin(w, "deadletter", [Start("discard", v) EXCEPT !.m = MaxDeliveries])
     ELSE "deadletter" \in Roles[w] /\ job[w] = None /\ UNCHANGED job
  /\ UNCHANGED <<env, row, object, cleanup, queue, slot, holder, faults>>

-----------------------------------------------------------------------------
(* A TrueNAS slot: process_one of thumbnail-queue-worker.sh and the routes *)
(* of thumbnail-renderer-api.ts it calls.  The lease token names version   *)
(* and attempt.                                                            *)

Busy(s, l) == slot[s] # None /\ slot[s].at = l
Move(s, l) == slot' = [slot EXCEPT ![s].at = l]
Leave(s) == slot' = [slot EXCEPT ![s] = None]

NasRead(s) ==
  /\ slot[s] = None
  /\ row # None /\ row.st = "pending" /\ row.gate # "shut" /\ row.err \in {"none", "pixel"}
  /\ slot' = [slot EXCEPT ![s] = [at |-> IF src.ver = row.ver THEN "lease" ELSE "reject",
                                  ver |-> row.ver, n |-> row.tries + 1]]
  /\ UNCHANGED <<env, row, object, cleanup, queue, dead, job, holder, faults>>

(* Not fenced by the status that was read.  The lease that may remain on a *)
(* failed row is never looked at.                                          *)
NasReject(s) ==
  /\ Busy(s, "reject")
  /\ row' = IF RowOf(slot[s].ver) THEN Failed("source") ELSE row
  /\ Leave(s)
  /\ UNCHANGED <<env, object, cleanup, queue, dead, job, holder, faults>>

NasLease(s) ==
  /\ Busy(s, "lease")
  /\ IF RowIn(slot[s].ver, {"pending"})
     THEN /\ row' = [Taken(slot[s].n) EXCEPT !.err = "none"]
          /\ holder' = IF slot[s].n = row.tries THEN holder \cup {s} ELSE {s}
          /\ Move(s, "hold")
     ELSE Leave(s) /\ UNCHANGED <<row, holder>>
  /\ UNCHANGED <<env, object, cleanup, queue, dead, job, faults>>

(* handleThumbnailUpload: the check of the lease, then the write.          *)
NasUpload(s) ==
  /\ Busy(s, "hold")
  /\ IF HoldsLease(slot[s].ver, slot[s].n) THEN Move(s, "put") ELSE Leave(s)
  /\ UNCHANGED <<env, row, object, cleanup, queue, dead, job, holder, faults>>

NasPut(s) ==
  /\ Busy(s, "put")
  /\ object' = [object EXCEPT ![slot[s].ver] = "nas"]
  /\ Move(s, "uploaded")
  /\ UNCHANGED <<env, row, cleanup, queue, dead, job, holder, faults>>

(* handleComplete.                                                         *)
NasVerify(s) ==
  LET v == slot[s].ver
      fresh == HoldsLease(v, slot[s].n) /\ object[v] = "nas" IN
  /\ Busy(s, "uploaded")
  /\ row' = IF fresh /\ src.ver # v THEN Failed("source") ELSE row
  /\ IF fresh /\ src.ver = v THEN Move(s, "finish") ELSE Leave(s)
  /\ UNCHANGED <<env, object, cleanup, queue, dead, job, holder, faults>>

NasFinish(s) ==
  /\ Busy(s, "finish")
  /\ row' = IF HoldsLease(slot[s].ver, slot[s].n) THEN Ready("nas") ELSE row
  /\ Leave(s)
  /\ UNCHANGED <<env, object, cleanup, queue, dead, job, holder, faults>>

(* handleFail; a slot too may find the image too large.                    *)
NasFail(s, e) ==
  /\ Busy(s, "hold")
  /\ e = "pixel" => e \in Outcomes
  /\ IF ~HoldsLease(slot[s].ver, slot[s].n) THEN Leave(s) /\ UNCHANGED row
     ELSE IF slot[s].n >= MaxAttempts THEN row' = Failed(e) /\ Leave(s)
     ELSE row' = [Pending(e) EXCEPT !.pub = FALSE, !.gate = "primary"] /\ Move(s, "signal")
  /\ UNCHANGED <<env, object, cleanup, queue, dead, job, holder, faults>>

NasSignal(s) ==
  /\ Busy(s, "signal")
  /\ Sent(slot[s].ver)
  /\ Move(s, "mark")
  /\ UNCHANGED <<env, row, object, cleanup, job, holder, faults>>

NasMark(s) ==
  /\ Busy(s, "mark")
  /\ row' = Marked(slot[s].ver, {"pending"})
  /\ Leave(s)
  /\ UNCHANGED <<env, object, cleanup, queue, dead, job, holder, faults>>

(* The slot stops, a response is lost, or the signal is not sent.          *)
NasAbandon(s) ==
  /\ slot[s] # None
  /\ Leave(s)
  /\ UNCHANGED <<env, row, object, cleanup, queue, dead, job, holder, faults>>

-----------------------------------------------------------------------------
(* The scheduler.                                                          *)

Lapsed == row # None /\ row.st = "processing" /\ row.lease # "live"
MaxRecoveries == 2 * MaxAttempts

(* recoverExpiredThumbnailLeases.                                          *)
RecoverExpired(w) ==
  /\ Lapsed
  /\ Begin(w, "expired", IF src.ver # row.ver THEN Removing("end")
                         ELSE Start(IF row.tries >= MaxRecoveries THEN "exhaust" ELSE "revive", row.ver))
  /\ UNCHANGED <<env, row, object, cleanup, queue, dead, slot, holder, faults>>

Exhaust(w) ==
  /\ At(w, "exhaust")
  /\ row' = IF RowOf(job[w].ver) /\ Lapsed /\ row.tries >= MaxRecoveries THEN Failed("exhausted") ELSE row
  /\ End(w, "ack")
  /\ UNCHANGED <<env, object, cleanup, slot, holder, faults>>

Repairing(w) == GoTo(w, [job[w] EXCEPT !.at = "send", !.via = "repair"]) /\ UNCHANGED <<queue, dead>>

ReviveStillPublished(w) ==
  /\ At(w, "revive")
  /\ IF RowOf(job[w].ver) /\ Lapsed /\ row.tries < MaxRecoveries
     THEN row' = Pending("none") /\ Repairing(w)
     ELSE End(w, "ack") /\ UNCHANGED row
  /\ UNCHANGED <<env, object, cleanup, slot, holder, faults>>

Revive(w) ==
  /\ At(w, "revive")
  /\ IF RowOf(job[w].ver) /\ Lapsed /\ row.tries < MaxRecoveries
     THEN row' = [Pending("none") EXCEPT !.pub = FALSE] /\ Repairing(w)
     ELSE End(w, "ack") /\ UNCHANGED row
  /\ UNCHANGED <<env, object, cleanup, slot, holder, faults>>

(* recoverTransientThumbnailFailures.                                      *)
Recoverable(v) ==
  RowIn(v, {"failed"}) /\ row.err \in {"thrown", "publish", "transfer"} /\ row.tries < MaxRecoveries

RecoverTransient(w) ==
  /\ row # None /\ Recoverable(row.ver) /\ src.ver = row.ver
  /\ Begin(w, "transient", Start("retry", row.ver))
  /\ UNCHANGED <<env, row, object, cleanup, queue, dead, slot, holder, faults>>

Retry(w) ==
  /\ At(w, "retry")
  /\ IF Recoverable(job[w].ver)
     THEN /\ row' = [Pending("none") EXCEPT !.tries = @ + 1, !.pub = FALSE, !.gate = "primary"]
          /\ Repairing(w)
     ELSE End(w, "ack") /\ UNCHANGED row
  /\ UNCHANGED <<env, object, cleanup, slot, holder, faults>>

(* republishPendingThumbnailFallbacks, alone under its advisory lock.      *)
Republish(w) ==
  /\ row # None /\ row.st = "pending" /\ ~row.pub /\ row.gate = "open" /\ row.err # "pixel"
  /\ src.ver = row.ver
  /\ \A x \in Workers : job[x] # None => job[x].via # "soft"
  /\ Begin(w, "republish", [Start("send", row.ver) EXCEPT !.via = "soft"])
  /\ UNCHANGED <<env, row, object, cleanup, queue, dead, slot, holder, faults>>

(* reconcileThumbnailRegistrations: a ready row whose source or object is  *)
(* not what it names is deleted, and the live source registered anew.      *)
ValidSource == src.ver = row.ver
Valid == src.ver = row.ver /\ object[row.ver] = row.thumb

Reconcile(w) ==
  /\ row # None /\ row.st = "ready" /\ ~Valid
  /\ Begin(w, "reconcile", [Start("deregister", row.ver) EXCEPT !.etag = row.thumb])
  /\ UNCHANGED <<env, row, object, cleanup, queue, dead, slot, holder, faults>>

Deregister(w) ==
  /\ At(w, "deregister")
  /\ IF RowOf(job[w].ver) /\ row.thumb = job[w].etag
     THEN /\ row' = None /\ cleanup' = Retired(row.ver, row.thumb)
          /\ Go(w, "reregister") /\ UNCHANGED <<queue, dead>>
     ELSE End(w, "ack") /\ UNCHANGED <<row, cleanup>>
  /\ UNCHANGED <<env, object, slot, holder, faults>>

(* reconcileManagedThumbnailOrphans.                                       *)
Orphans(w, v) ==
  /\ object[v] # None /\ ~Active(v)
  /\ Begin(w, "orphans", [Start("discard", v) EXCEPT !.etag = object[v]])
  /\ UNCHANGED <<env, row, object, cleanup, queue, dead, slot, holder, faults>>

-----------------------------------------------------------------------------
Scheduler(w) ==
  RecoverExpired(w) \/ RecoverTransient(w) \/ Republish(w) \/ Reconcile(w) \/ Drain(w)

Step(w) ==
  \/ Register(w) \/ AfterRegister(w) \/ Publish(w) \/ Send(w) \/ Mark(w)
  \/ Remove(w) \/ Retire(w) \/ Resurrect(w)
  \/ SelectCleanup(w) \/ ClaimCleanup(w) \/ Referenced(w) \/ Compare(w) \/ DeleteObject(w) \/ AfterDelete(w)
  \/ Regenerate(w) \/ Tidy(w)
  \/ Look(w) \/ Head(w) \/ Claim(w) \/ Render(w) \/ Limit(w) \/ Check(w) \/ Adopt(w) \/ Unadopted(w)
  \/ Put(w) \/ Final(w) \/ Complete(w) \/ Fail(w)
  \/ Exhaust(w) \/ Revive(w) \/ Retry(w) \/ Deregister(w)

NasStep(s) ==
  \/ NasRead(s) \/ NasReject(s) \/ NasLease(s) \/ NasUpload(s) \/ NasPut(s) \/ NasVerify(s) \/ NasFinish(s)
  \/ \E e \in {"nas", "pixel"} : NasFail(s, e)
  \/ NasSignal(s) \/ NasMark(s) \/ NasAbandon(s)

Next ==
  \/ \E v \in Versions : Upload(v)
  \/ Delete \/ LeaseExpires \/ GateOpens
  \/ \E v \in Versions : CleanupExpires(v)
  \/ \E w \in Workers :
       \/ Step(w) \/ Scheduler(w) \/ Crash(w) \/ Throw(w) \/ SendFails(w)
       \/ \E k \in events : EventArrives(w, k)
       \/ RemovalArrives(w)
       \/ \E v \in Versions : DeadLetter(w, v) \/ Orphans(w, v) \/ \E m \in 1..MaxDeliveries : Receive(w, v, m)
  \/ \E s \in Slots : NasStep(s)

Spec == Init /\ [][Next]_vars

(* Deadlines pass.  An invocation that does not die goes on, the queue     *)
(* delivers, file events are handled and what the scheduler finds due is   *)
(* started again and again.  The slots owe nothing but the claim request,  *)
(* which this Worker serves.                                               *)
Fairness ==
  /\ WF_vars(LeaseExpires) /\ WF_vars(GateOpens)
  /\ \A w \in Workers : WF_vars(Step(w))
  /\ \A s \in Slots : WF_vars(NasLease(s))
  /\ SF_vars(\E w \in Workers, v \in Versions, m \in 1..MaxDeliveries : Receive(w, v, m))
  /\ SF_vars(\E w \in Workers : RemovalArrives(w) \/ \E k \in events : EventArrives(w, k))
  /\ SF_vars(\E w \in Workers : RecoverExpired(w) \/ Republish(w) \/ Reconcile(w))

FairSpec == Spec /\ Fairness

-----------------------------------------------------------------------------
(* Properties.                                                             *)

(* A renderer's answer changes the row only while its own claim is the     *)
(* last one made on it, or was given the same attempt number as the last:  *)
(* a slot or an invocation that lost its lease does not complete or fail a *)
(* reclaimed row.  (The claim of a slot writes a number it has read        *)
(* before; in between the consumer may claim and a cleanup reopen the      *)
(* row.)                                                                   *)
HolderAnswers ==
  /\ \A s \in Slots :
       slot[s] # None /\ slot[s].at \in {"hold", "uploaded", "finish"} /\ slot'[s] # slot[s] /\ row' # row
         => s \in holder
  /\ \A w \in Workers :
       job[w] # None /\ job[w].at \in {"fail", "limit", "adopt", "winner", "complete"}
         /\ job'[w] # job[w] /\ row' # row => w \in holder
OlderNeverActs == [][HolderAnswers]_vars

(* A row that only the queue consumer may still take, and that the         *)
(* scheduler takes for published, has a message on its way: in the queue,  *)
(* in a consumer's hands or about to be sent.                              *)
ConsumerOnly == row # None /\ row.st = "pending" /\ row.err \notin {"none", "pixel"}
Coming(v) ==
  \/ \E m \in 1..MaxDeliveries : queue[<<v, m>>] > 0
  \/ \E w \in Workers : job[w] # None /\ (job[w].m # 0 \/ job[w].at = "send") /\ job[w].ver = v
  \/ \E s \in Slots : Busy(s, "signal") /\ slot[s].ver = v
NotStranded == ConsumerOnly /\ row.pub => Coming(row.ver)

(* Of two renderers of the live content the one that stored its object     *)
(* first wins: a rendering of TrueNAS that is in place is never declared a *)
(* conflict by the consumer that lost the race.                            *)
WinnerAdopted ==
  ~(row # None /\ row.st = "failed" /\ row.err = "conflict" /\ object[row.ver] = "nas" /\ src.ver = row.ver)

(* A row does not stay pending or claimed for ever, though no slot ever    *)
(* answers: queue, lease recovery and republication see to it.             *)
Settles == \A v \in Versions : RowIn(v, {"pending", "processing"}) ~> ~RowIn(v, {"pending", "processing"})

(* What readers are shown is repaired: a ready row of the live source      *)
(* whose object is missing or another one does not stay ready.             *)
Broken == row # None /\ row.st = "ready" /\ row.ver = src.ver /\ object[row.ver] # row.thumb
Repaired == []<>~Broken

(* The parts of the inductive invariant of TypeOK.  What registers carries *)
(* a time, and what is at work on a cleanup names one that exists.         *)
Filed(j) ==
  \/ j.at \in {"take", "referenced", "compare", "delete", "deleted", "regenerate", "tidy"}
  \/ j.at \in {"send", "mark"} /\ j.via = "regenerate"
Fits(j) ==
  /\ j.at = "register" => j.n \in Times
  /\ Filed(j) => j.key \in Versions /\ cleanup[j.key] # None
JobsFit == \A w \in Workers : job[w] # None => Fits(job[w])

(* Invocations that selected a cleanup and have not claimed it each may    *)
(* add an attempt, beyond the cap too.                                     *)
Takers(v) == {w \in Workers : job[w] # None /\ job[w].at = "take" /\ job[w].key = v}
CleanupsCounted ==
  \A v \in Versions : cleanup[v] # None =>
    cleanup[v].tries + Cardinality(Takers(v)) < MaxCleanups + Cardinality(Workers)

(* Invocations and the cleanup ledger fit together at every step.          *)
ThumbSound == TypeOK /\ JobsFit /\ CleanupsCounted

-----------------------------------------------------------------------------
(* What NotStranded and OlderNeverActs rest on, with any number of slots   *)
(* and invocations.                                                        *)

Consuming == {"look", "head", "claim", "bury"}
Rendering == {"render", "limit", "check", "adopt", "winner", "unadopted", "put", "final", "complete", "raced"}

(* A message about v that the consumer will answer for v's row: one of the *)
(* last delivery only counts once it cannot be sent away by the gate.      *)
Carried(v) ==
  \/ \E m \in 1..MaxDeliveries : queue[<<v, m>>] > 0
  \/ \E w \in Workers :
       /\ job[w] # None /\ job[w].ver = v
       /\ \/ job[w].at = "look" /\ job[w].m < MaxDeliveries
          \/ job[w].at \in Consuming /\ row.gate = "open"
  \/ \E s \in Slots : Busy(s, "signal") /\ slot[s].ver = v

(* Somebody has sent a message about v and is about to record that.        *)
Marking(v) ==
  \/ \E w \in Workers : At(w, "mark") /\ Subject(job[w]) = v
  \/ \E s \in Slots : Busy(s, "mark") /\ slot[s].ver = v

(* A row that only the consumer may take has a message, or neither has the *)
(* mark of one nor is about to get it, so that republication finds it.     *)
SignalsOut == ConsumerOnly => Carried(row.ver) \/ (~row.pub /\ ~Marking(row.ver))

(* The steps that may break it: a slot that gives up its signal while the  *)
(* row has or is about to get the mark of another one, and an invocation   *)
(* that dies on the last delivery before its claim.                        *)
SignalDropped ==
  \/ \E s \in Slots :
       /\ Busy(s, "signal") /\ slot'[s] = None
       /\ RowOf(slot[s].ver) /\ (row.pub \/ Marking(row.ver))
  \/ \E w \in Workers :
       /\ job[w] # None /\ job[w].at \in Consuming /\ job[w].m = MaxDeliveries
       /\ job'[w] = None /\ faults' # faults

(* What an invocation says of the message it handles: it has one, and a    *)
(* failure that is to be retried will be.                                  *)
Handles(j) ==
  /\ j.at \in Consuming \cup Rendering => j.m # 0 /\ j.then = "end"
  /\ j.at = "bury" => j.out # "retry"
  /\ j.at = "fail" /\ j.out = "retry" => j.m \notin {0, MaxDeliveries} /\ j.then = "end"
MessagesHandled == \A w \in Workers : job[w] # None => Handles(job[w])

(* Claims that may still be answered, and their numbers: none is above     *)
(* that of the row, and those equal to it belong to its holders.           *)
AnsweringSlot(s) == slot[s] # None /\ slot[s].at \in {"hold", "put", "uploaded", "finish"}
AnsweringJob(w) == job[w] # None /\ job[w].at \in Rendering \cup {"fail"}
InOrder(x, c) == RowOf(c.ver) => c.n <= row.tries /\ (c.n = row.tries => x \in holder)
ClaimsInOrder ==
  /\ \A s \in Slots : AnsweringSlot(s) => InOrder(s, slot[s])
  /\ \A w \in Workers : AnsweringJob(w) => InOrder(w, job[w])

(* The steps that may break it: the number of a row falls, by a late claim *)
(* of a slot, or starts again, by a registration, while an earlier claim   *)
(* on that content may still be answered.                                  *)
Claimed(v) ==
  \/ \E s \in Slots : AnsweringSlot(s) /\ slot[s].ver = v
  \/ \E w \in Workers : AnsweringJob(w) /\ job[w].ver = v
NumberReused ==
  /\ row' # None
  /\ IF RowOf(row'.ver) THEN row'.tries < row.tries ELSE Claimed(row'.ver)
=============================================================================
