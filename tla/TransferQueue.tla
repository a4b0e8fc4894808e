------------------------------- MODULE TransferQueue -------------------------------
(***************************************************************************)
(* The durable download queue of the Windows app (Core/TransferQueue.cs)   *)
(* and the part of Core/Downloader.cs that ends a transfer.                *)
(*                                                                         *)
(* queue.json holds the jobs; a process that holds .queue.lock owns it and *)
(* keeps a copy in memory.  Commands that need the current session pass    *)
(* through the gate (the semaphore "commands") one at a time; pause and    *)
(* cancel do not, so that they work while a session request hangs.  One    *)
(* background task, the worker, runs the one active job.                   *)
(*                                                                         *)
(* One step is one critical section of "sync", one await that returned, or *)
(* one file operation of the worker.  A critical section contains at most  *)
(* one Commit (write a temporary file, then replace queue.json), which     *)
(* succeeds, fails, or is cut short by the end of the process.             *)
(***************************************************************************)
CONSTANTS Jobs,       \* job identities
          Targets,    \* pairs of a resource reference and a destination
          Target,     \* Target[j]: what job j downloads, and where to
          Commands,   \* concurrent calls of the queue's public methods
          Procs,      \* queue objects; each lives in a process of its own
          None

ASSUME TargetAssumption == Target \in [Jobs -> Targets]

VARIABLES
  disk,       \* queue.json: the record of each job, None before it is queued
  leftover,   \* a temporary state file was left in the directory
  file,       \* file[t]: the output of t: absent, the pinned content, or other
  holder,     \* the process that holds .queue.lock
  up,         \* whether each queue object is down, open or disposed
  mem,        \* jobs, in memory
  fault,      \* storageFault is set
  active,     \* activeJob
  run,        \* the worker: RunAsync with activeCancellation and stopState
  gate,       \* the command that holds the gate
  cmd,        \* the commands
  verified    \* history: jobs whose output was verified by their own worker

diskVars == <<disk, leftover>>
procVars == <<holder, up, fault>>
vars == <<diskVars, procVars, file, mem, active, run, gate, cmd, verified>>

-----------------------------------------------------------------------------
Terminal == {"Completed", "Cancelled", "VersionChanged"}

(* Failed stands for Failed, LoginRequired, AccessDenied and               *)
(* ResourceUnavailable, which differ only in what the user is told.        *)
States == Terminal \cup {"Queued", "Running", "Paused", "Failed"}

Records == [state: States, recovery: BOOLEAN]

Queues == [Jobs -> Records \cup {None}]

Stops == {"Paused", "Cancelled"}

(* Stages of the worker: at its session and resolve requests, authorised   *)
(* to transfer, content verified, about to Finish, past Finish.            *)
Stages == {"none", "resolving", "authorized", "promoting", "finishing", "finished"}

Runs == [stage: Stages, recovery: BOOLEAN, cancelled: BOOLEAN, stop: Stops, verdict: States]

Idle == [stage |-> "none", recovery |-> FALSE, cancelled |-> FALSE, stop |-> "Paused", verdict |-> "Paused"]

Kinds == {"start", "enqueue", "look", "dispose", "Paused", "Cancelled"}

Awaits == {"none", "gate", "verify", "resolve", "reverify", "apply", "drain", "drained", "pending"}

(* valid: the job's entry in localStops is still the one the start         *)
(* reservation captured.  outrun is history: a stop of the job was         *)
(* accepted after the reservation.                                         *)
Calls == [at: Awaits, kind: Kinds, proc: Procs, job: Jobs \cup {None}, valid: BOOLEAN, outrun: BOOLEAN]

ASSUME NoneAssumption == None \notin Jobs \cup Commands \cup Procs \cup Records \cup Calls

TypeOK ==
  /\ disk \in Queues
  /\ leftover \in BOOLEAN
  /\ file \in [Targets -> {"absent", "pinned", "other"}]
  /\ holder \in Procs \cup {None}
  /\ up \in [Procs -> {"down", "open", "disposed"}]
  /\ mem \in [Procs -> Queues]
  /\ fault \in [Procs -> BOOLEAN]
  /\ active \in [Procs -> Jobs \cup {None}]
  /\ run \in [Procs -> Runs]
  /\ \A p \in Procs : active[p] = None <=> run[p].stage = "none"
  /\ gate \in [Procs -> Commands \cup {None}]
  /\ cmd \in [Commands -> Calls \cup {None}]
  /\ verified \subseteq Jobs

Init ==
  /\ disk = [j \in Jobs |-> None]
  /\ leftover = FALSE
  /\ file = [t \in Targets |-> "absent"]
  /\ holder = None
  /\ up = [p \in Procs |-> "down"]
  /\ mem = [p \in Procs |-> [j \in Jobs |-> None]]
  /\ fault = [p \in Procs |-> FALSE]
  /\ active = [p \in Procs |-> None]
  /\ run = [p \in Procs |-> Idle]
  /\ gate = [p \in Procs |-> None]
  /\ cmd = [c \in Commands |-> None]
  /\ verified = {}

-----------------------------------------------------------------------------
(* Commit.                                                                 *)

Saved(p, q) ==
  /\ disk' = q
  /\ mem' = [mem EXCEPT ![p] = q]
  /\ UNCHANGED leftover

(* queue.json and jobs stay; deleting the temporary file may fail as well. *)
NotSaved ==
  /\ leftover' \in {leftover, TRUE}
  /\ UNCHANGED <<disk, mem>>

(* Memory after a change of one job's record.                              *)
Changed(p, j, s, recovery) == [mem[p] EXCEPT ![j] = [state |-> s, recovery |-> recovery]]

(* Fault: an ended job stays marked for recovery.                          *)
KeepsRecovery(p, j, s) == mem[p][j].recovery

(* A job that stops or ends in s is still to be recovered.                 *)
StillToRecover(p, j, s) == mem[p][j].recovery /\ s \notin Terminal

-----------------------------------------------------------------------------
(* Commands and the gate.                                                  *)

Of(p) == {c \in Commands : cmd[c] # None /\ cmd[c].proc = p}

At(c, place) == cmd[c] # None /\ cmd[c].at = place

Goto(c, place) == cmd' = [cmd EXCEPT ![c].at = place]

Return(c) == cmd' = [cmd EXCEPT ![c] = None]

(* finally { commands.Release() }                                          *)
Leave(c) ==
  /\ Return(c)
  /\ gate' = [gate EXCEPT ![cmd[c].proc] = None]

NewCall(kind, p, j, place) ==
  [at |-> place, kind |-> kind, proc |-> p, job |-> j, valid |-> TRUE, outrun |-> FALSE]

(* Fault: a job found Running is not marked for recovery.                  *)
PausedOnOpen ==
  [j \in Jobs |-> IF disk[j] # None /\ disk[j].state = "Running"
                  THEN [disk[j] EXCEPT !.state = "Paused"] ELSE disk[j]]

(* OpenAsync: an unknown name in the directory is refused; a job found     *)
(* Running is Paused and has to be recovered.                              *)
Recovered ==
  [j \in Jobs |-> IF disk[j] # None /\ disk[j].state = "Running"
                  THEN [state |-> "Paused", recovery |-> TRUE] ELSE disk[j]]

(* ReadState refuses a file with a job that is new or ended and still has  *)
(* to be recovered.                                                        *)
Readable ==
  \A j \in Jobs : disk[j] # None /\ disk[j].recovery => disk[j].state \notin Terminal \cup {"Queued"}

Open(p) ==
  /\ up[p] # "open"
  /\ Of(p) = {}
  /\ ~leftover
  /\ Readable
  /\ holder = None
  /\ \/ /\ Saved(p, Recovered)
        /\ holder' = p
        /\ up' = [up EXCEPT ![p] = "open"]
        /\ fault' = [fault EXCEPT ![p] = FALSE]
     \/ NotSaved /\ UNCHANGED procVars
  /\ UNCHANGED <<file, active, run, gate, cmd, verified>>

(* The methods that wait for the gate.  A start first captures the job's   *)
(* stop generation (PrepareStart).                                         *)
Call(c, kind, p, j) ==
  /\ cmd[c] = None
  /\ up[p] = "open"
  /\ IF j = None THEN kind \in {"look", "dispose"} ELSE kind \in {"start", "enqueue"}
  /\ kind = "start" => ~fault[p] /\ mem[p][j] # None
  /\ kind = "enqueue" => mem[p][j] = None /\ \A d \in Of(p) : ~(cmd[d].kind = "enqueue" /\ cmd[d].job = j)
  /\ cmd' = [cmd EXCEPT ![c] = NewCall(kind, p, j, "gate")]
  /\ UNCHANGED <<diskVars, procVars, file, mem, active, run, gate, verified>>

(* Fault: the worker is signalled and not awaited.                         *)
DrainWithoutWaiting(c, p) ==
  /\ Goto(c, "drained")
  /\ run' = [run EXCEPT ![p].cancelled = TRUE]

(* DrainAsync: signal the worker, if there is one, and wait for its end.   *)
Drain(c, p) ==
  IF active[p] = None
  THEN Goto(c, "drained") /\ UNCHANGED run
  ELSE Goto(c, "drain") /\ run' = [run EXCEPT ![p].cancelled = TRUE]

Enter(c) ==
  /\ At(c, "gate")
  /\ LET p == cmd[c].proc IN
       /\ gate[p] = None
       /\ IF up[p] # "open"
          THEN Return(c) /\ UNCHANGED <<gate, run>>
          ELSE /\ gate' = [gate EXCEPT ![p] = c]
               /\ IF cmd[c].kind = "dispose"
                  THEN Drain(c, p)
                  ELSE Goto(c, "verify") /\ UNCHANGED run
  /\ UNCHANGED <<diskVars, procVars, file, mem, active, verified>>

(* The session request of VerifySessionAsync returned the principal.       *)
SessionHolds(c) ==
  /\ At(c, "verify") \/ At(c, "reverify")
  /\ \/ cmd[c].kind = "look" /\ Leave(c)
     \/ cmd[c].kind = "start" /\ Goto(c, "apply") /\ UNCHANGED gate
     \/ /\ cmd[c].kind = "enqueue"
        /\ Goto(c, IF At(c, "verify") THEN "resolve" ELSE "apply")
        /\ UNCHANGED gate
  /\ UNCHANGED <<diskVars, procVars, file, mem, active, run, verified>>

(* Another principal, an expired session or any error: drain, then throw.  *)
SessionLost(c) ==
  /\ At(c, "verify") \/ At(c, "reverify")
  /\ Drain(c, cmd[c].proc)
  /\ UNCHANGED <<diskVars, procVars, file, mem, active, gate, verified>>

(* The caller's token is cancelled at an await, or resolution fails.       *)
Withdraw(c) ==
  /\ \/ At(c, "gate") /\ cmd[c].kind # "dispose" /\ Return(c) /\ UNCHANGED gate
     \/ (At(c, "verify") \/ At(c, "reverify") \/ At(c, "resolve")) /\ Leave(c)
  /\ UNCHANGED <<diskVars, procVars, file, mem, active, run, verified>>

Resolved(c) ==
  /\ At(c, "resolve")
  /\ Goto(c, "reverify")
  /\ UNCHANGED <<diskVars, procVars, file, mem, active, run, gate, verified>>

(* The end of EnqueueAsync: at most one unfinished job per target.         *)
Admissible(p, j) ==
  \A k \in Jobs : mem[p][k] # None /\ Target[k] = Target[j] => mem[p][k].state \in Terminal

Enqueue(c) ==
  /\ At(c, "apply")
  /\ cmd[c].kind = "enqueue"
  /\ LET p == cmd[c].proc
         j == cmd[c].job
     IN IF ~fault[p] /\ Admissible(p, j)
        THEN Saved(p, Changed(p, j, "Queued", FALSE)) \/ NotSaved
        ELSE UNCHANGED <<diskVars, mem>>
  /\ Leave(c)
  /\ UNCHANGED <<procVars, file, active, run, verified>>

(* Fault: a cancelled job may be started again.                            *)
EligibleOrCancelled(s) == s \notin {"Running", "Completed", "VersionChanged"}

Eligible(s) == s \notin Terminal \cup {"Running"}

(* Fault: the reservation's stop generation is not compared.               *)
StartableDespiteStop(c) ==
  LET p == cmd[c].proc
      j == cmd[c].job
  IN ~fault[p] /\ active[p] = None /\ Eligible(mem[p][j].state)

(* The end of BeginAsync: Running is stored before the worker starts.      *)
Startable(c) ==
  LET p == cmd[c].proc
      j == cmd[c].job
  IN /\ ~fault[p]
     /\ cmd[c].valid
     /\ active[p] = None
     /\ Eligible(mem[p][j].state)

Begin(c) ==
  /\ At(c, "apply")
  /\ cmd[c].kind = "start"
  /\ LET p == cmd[c].proc
         j == cmd[c].job
     IN \/ /\ Startable(c)
           /\ Saved(p, Changed(p, j, "Running", mem[p][j].recovery))
           /\ active' = [active EXCEPT ![p] = j]
           /\ run' = [run EXCEPT ![p] = [Idle EXCEPT !.stage = "resolving", !.recovery = mem[p][j].recovery]]
        \/ Startable(c) /\ NotSaved /\ UNCHANGED <<active, run>>
        \/ ~Startable(c) /\ UNCHANGED <<diskVars, mem, active, run>>
  /\ Leave(c)
  /\ UNCHANGED <<procVars, file, verified>>

(* What a stop does to the other commands: their reservations of the job   *)
(* are void once localStops has a new entry.                               *)
Voided(p, j, void, accepted, d) ==
  IF cmd[d] # None /\ cmd[d].proc = p /\ cmd[d].job = j
  THEN [cmd[d] EXCEPT !.valid = @ /\ ~void, !.outrun = @ \/ accepted]
  ELSE cmd[d]

(* Fault: the token is not cancelled.                                      *)
StopWithoutSignal(c, p, j, stop) ==
  /\ cmd[c] = None
  /\ up[p] = "open"
  /\ active[p] = j
  /\ run' = [run EXCEPT ![p].stop = IF stop = "Cancelled" \/ @ # "Cancelled" THEN stop ELSE @]
  /\ cmd' = [d \in Commands |-> IF d = c THEN NewCall(stop, p, j, "pending") ELSE Voided(p, j, TRUE, TRUE, d)]
  /\ UNCHANGED <<diskVars, procVars, file, mem, active, gate, verified>>

(* StopAsync of the active job: a requested cancel is not weakened by a    *)
(* later pause.  The call returns when the worker has ended.               *)
StopActive(c, p, j, stop) ==
  /\ cmd[c] = None
  /\ up[p] = "open"
  /\ active[p] = j
  /\ run' = [run EXCEPT ![p].cancelled = TRUE,
                        ![p].stop = IF stop = "Cancelled" \/ @ # "Cancelled" THEN stop ELSE @]
  /\ cmd' = [d \in Commands |-> IF d = c THEN NewCall(stop, p, j, "pending") ELSE Voided(p, j, TRUE, TRUE, d)]
  /\ UNCHANGED <<diskVars, procVars, file, mem, active, gate, verified>>

(* Fault: a stop that is stored although the queue was disposed.           *)
StopAfterDispose(p, j, stop) ==
  /\ up[p] # "down"
  /\ active[p] # j
  /\ ~fault[p]
  /\ mem[p][j] # None
  /\ mem[p][j].state \notin Terminal
  /\ Saved(p, Changed(p, j, stop, StillToRecover(p, j, stop)))
  /\ cmd' = [d \in Commands |-> Voided(p, j, TRUE, TRUE, d)]
  /\ UNCHANGED <<procVars, file, active, run, gate, verified>>

(* StopAsync of any other job: stored at once, without the session.        *)
StopInactive(p, j, stop) ==
  /\ up[p] = "open"
  /\ active[p] # j
  /\ ~fault[p]
  /\ mem[p][j] # None
  /\ \/ /\ mem[p][j].state \in Terminal
        /\ cmd' = [d \in Commands |-> Voided(p, j, FALSE, TRUE, d)]
        /\ UNCHANGED <<diskVars, mem>>
     \/ /\ mem[p][j].state \notin Terminal
        /\ Saved(p, Changed(p, j, stop, StillToRecover(p, j, stop)))
        /\ cmd' = [d \in Commands |-> Voided(p, j, TRUE, TRUE, d)]
     \/ /\ mem[p][j].state \notin Terminal
        /\ NotSaved
        /\ cmd' = [d \in Commands |-> Voided(p, j, TRUE, FALSE, d)]
  /\ UNCHANGED <<procVars, file, active, run, gate, verified>>

(* After a drain a command throws; a dispose gives the lock back.          *)
Drained(c) ==
  /\ At(c, "drained")
  /\ IF cmd[c].kind = "dispose"
     THEN /\ up' = [up EXCEPT ![cmd[c].proc] = "disposed"]
          /\ holder' = None
          /\ UNCHANGED fault
     ELSE UNCHANGED procVars
  /\ Leave(c)
  /\ UNCHANGED <<diskVars, file, mem, active, run, verified>>

-----------------------------------------------------------------------------
(* The worker.                                                             *)

Output(p) == file[Target[active[p]]]

Stage(p, stage) == run' = [run EXCEPT ![p].stage = stage]

(* A catch clause or an early return of RunAsync has chosen the ending.    *)
Decide(p, verdict) == run' = [run EXCEPT ![p].stage = "finishing", ![p].verdict = verdict]

(* Session, resolution and pins hold, and no stop was seen.                *)
Authorized(p) ==
  /\ run[p].stage = "resolving"
  /\ ~run[p].cancelled
  /\ Stage(p, "authorized")
  /\ UNCHANGED <<file, verified>>

(* Another version of the file is current.                                 *)
VersionChanges(p) ==
  /\ run[p].stage = "resolving"
  /\ Decide(p, "VersionChanged")
  /\ UNCHANGED <<file, verified>>

(* Any request or file operation before promotion may fail.                *)
Fails(p) ==
  /\ run[p].stage \in {"resolving", "authorized", "promoting"}
  /\ Decide(p, "Failed")
  /\ UNCHANGED <<file, verified>>

(* A cancelled token is noticed; stopState is read.                        *)
Stopped(p) ==
  /\ run[p].stage \in {"resolving", "authorized"}
  /\ run[p].cancelled
  /\ Decide(p, run[p].stop)
  /\ UNCHANGED <<file, verified>>

(* RecoverExistingAsync: the output exists; it is compared, never written. *)
RecoverExisting(p) ==
  /\ run[p].stage = "authorized"
  /\ run[p].recovery
  /\ Output(p) # "absent"
  /\ \/ Output(p) = "pinned" /\ ~run[p].cancelled /\ Decide(p, "Completed") /\ verified' = verified \cup {active[p]}
     \/ Output(p) = "other" /\ Decide(p, "Failed") /\ UNCHANGED verified
  /\ UNCHANGED file

(* Downloader.DownloadAsync up to its last look at the token: an existing  *)
(* output is refused, the received content matches the pins.               *)
Receive(p) ==
  /\ run[p].stage = "authorized"
  /\ ~run[p].cancelled
  /\ Output(p) = "absent"
  /\ Stage(p, "promoting")
  /\ UNCHANGED <<file, verified>>

(* The move to the final name, the commit boundary: it never replaces.     *)
Promote(p) ==
  /\ run[p].stage = "promoting"
  /\ Output(p) = "absent"
  /\ Decide(p, "Completed")
  /\ file' = [file EXCEPT ![Target[active[p]]] = "pinned"]
  /\ verified' = verified \cup {active[p]}

WorkerMoves(p) ==
  /\ \/ Authorized(p) \/ VersionChanges(p) \/ Fails(p) \/ Stopped(p)
     \/ RecoverExisting(p) \/ Receive(p) \/ Promote(p)
  /\ UNCHANGED <<diskVars, procVars, mem, active, gate, cmd>>

(* Finish: the ending is stored.  If it cannot be, the queue stops taking  *)
(* work, and only memory knows of a completed file.                        *)
Finish(p) ==
  /\ run[p].stage = "finishing"
  /\ LET j == active[p]
         v == run[p].verdict
     IN \/ Saved(p, Changed(p, j, v, StillToRecover(p, j, v))) /\ UNCHANGED fault
        \/ /\ leftover' \in {leftover, TRUE}
           /\ fault' = [fault EXCEPT ![p] = TRUE]
           /\ mem' = IF v = "Completed" THEN [mem EXCEPT ![p] = Changed(p, j, v, FALSE)] ELSE mem
           /\ UNCHANGED disk
  /\ Stage(p, "finished")
  /\ UNCHANGED <<holder, up, file, active, gate, cmd, verified>>

(* The finally of RunAsync; whoever awaited the task goes on.              *)
End(p) ==
  /\ run[p].stage = "finished"
  /\ run' = [run EXCEPT ![p] = Idle]
  /\ active' = [active EXCEPT ![p] = None]
  /\ cmd' = [c \in Commands |->
               CASE c \in Of(p) /\ At(c, "pending") -> None
                 [] c \in Of(p) /\ At(c, "drain") -> [cmd[c] EXCEPT !.at = "drained"]
                 [] OTHER -> cmd[c]]
  /\ UNCHANGED <<diskVars, procVars, file, mem, gate, verified>>

-----------------------------------------------------------------------------
(* The environment.                                                        *)

(* The process ends, perhaps between the two halves of a Commit.           *)
Crash(p) ==
  /\ up[p] = "open"
  /\ up' = [up EXCEPT ![p] = "down"]
  /\ holder' = None
  /\ leftover' \in {leftover, TRUE}
  /\ mem' = [mem EXCEPT ![p] = [j \in Jobs |-> None]]
  /\ fault' = [fault EXCEPT ![p] = FALSE]
  /\ active' = [active EXCEPT ![p] = None]
  /\ run' = [run EXCEPT ![p] = Idle]
  /\ gate' = [gate EXCEPT ![p] = None]
  /\ cmd' = [c \in Commands |-> IF c \in Of(p) THEN None ELSE cmd[c]]
  /\ UNCHANGED <<disk, file, verified>>

(* The user puts a file of that name there, or takes one away.             *)
UserTouches(t) ==
  /\ file' = [file EXCEPT ![t] = IF @ = "absent" THEN "other" ELSE "absent"]
  /\ UNCHANGED <<diskVars, procVars, mem, active, run, gate, cmd, verified>>

-----------------------------------------------------------------------------
CommandStep(c) ==
  \/ Enter(c) \/ SessionHolds(c) \/ SessionLost(c) \/ Withdraw(c) \/ Resolved(c)
  \/ Enqueue(c) \/ Begin(c) \/ Drained(c)

WorkerStep(p) == WorkerMoves(p) \/ Finish(p) \/ End(p)

Next ==
  \/ \E p \in Procs : Open(p) \/ WorkerStep(p) \/ Crash(p)
  \/ \E c \in Commands, p \in Procs, j \in Jobs \cup {None}, kind \in Kinds : Call(c, kind, p, j)
  \/ \E p \in Procs, j \in Jobs, stop \in Stops :
       StopInactive(p, j, stop) \/ \E c \in Commands : StopActive(c, p, j, stop)
  \/ \E c \in Commands : CommandStep(c)
  \/ \E t \in Targets : UserTouches(t)

Spec == Init /\ [][Next]_vars
-----------------------------------------------------------------------------
(* Properties.                                                             *)

(* One writer: an open queue holds the process lock, and its memory is     *)
(* what queue.json says, whatever commands and the worker are doing.       *)
(* After a failed Finish it lags by the finished job only, which is still  *)
(* Running there, so that the next open recovers it.                       *)
MemoryIsDisk ==
  \A p \in Procs : up[p] = "open" =>
    /\ holder = p
    /\ ~fault[p] => mem[p] = disk
    /\ \A j \in Jobs : mem[p][j] # disk[j] => mem[p][j].state = "Completed" /\ disk[j].state = "Running"

(* A transfer runs only while queue.json says Running for its job and the  *)
(* process lock is held: a crash at any moment is found by the next open,  *)
(* and no second transfer runs beside it, not even one of the queue object *)
(* that owned the directory before.                                        *)
TransferIsDurable ==
  /\ \A p \in Procs : active[p] # None =>
       /\ holder = p /\ up[p] = "open"
       /\ run[p].stage # "finished" => disk[active[p]].state = "Running"
  /\ \A j \in Jobs : disk[j] # None /\ disk[j].state = "Running" =>
       \A p \in Procs : up[p] = "open" => active[p] = j \/ fault[p]

(* A completed file is never forgotten and never claimed: a job is         *)
(* Completed only if its worker verified the output, and a job whose       *)
(* output was verified is finished, still Running, or marked for recovery, *)
(* so that a retry compares the file instead of refusing it.               *)
CompletionTruthful ==
  \A j \in Jobs : disk[j] # None =>
    /\ disk[j].state = "Completed" => j \in verified
    /\ j \in verified => disk[j].state \in Terminal \cup {"Running"} \/ disk[j].recovery

(* What the queue writes it can read again: no sequence of recoveries,     *)
(* stops and failed saves leaves a state file that the next open refuses   *)
(* as malformed.                                                           *)
StateReadable == Readable

(* A start that was reserved before a pause or cancel of the job was       *)
(* accepted does not start it, however long it waited for the gate or for  *)
(* the session.                                                            *)
NoStaleStart ==
  [][\A c \in Commands, p \in Procs :
       active[p] = None /\ active'[p] # None /\ At(c, "apply") /\ cmd'[c] = None => ~cmd[c].outrun]_vars

(* What is Completed, Cancelled or VersionChanged in queue.json stays so,  *)
(* across stops, workers that end late, crashes and other processes.       *)
TerminalSticks ==
  [][\A j \in Jobs : disk[j] # None /\ disk[j].state \in Terminal => disk'[j] = disk[j]]_vars

(* The parts of the inductive invariant.  Only the open queue holds the    *)
(* lock; a command past the gate holds it, in an open queue, and has no    *)
(* worker beside it once it has drained the queue.                         *)
Inside == {"verify", "resolve", "reverify", "apply", "drain", "drained"}
LocksHeld ==
  /\ \A p \in Procs : up[p] = "open" <=> holder = p
  /\ \A c \in Commands : cmd[c] # None /\ cmd[c].at \in Inside =>
       /\ gate[cmd[c].proc] = c /\ up[cmd[c].proc] = "open"
       /\ At(c, "drained") => active[cmd[c].proc] = None

(* A start is about a job of the queue, and if a stop outran it the stop   *)
(* voided the reservation or found the job finished; an enqueue is about   *)
(* a new job, and the only one about it.                                   *)
CallsKnown ==
  \A c \in Commands : cmd[c] # None =>
    LET p == cmd[c].proc
        j == cmd[c].job IN
    /\ cmd[c].kind \in {"start", "enqueue"} => j \in Jobs
    /\ cmd[c].kind = "start" => mem[p][j] # None /\ (cmd[c].outrun /\ cmd[c].valid => mem[p][j].state \in Terminal)
    /\ cmd[c].kind = "enqueue" =>
         /\ mem[p][j] = None
         /\ \A d \in Of(p) : cmd[d].kind = "enqueue" /\ cmd[d].job = j => d = c

(* What the worker of p is about to store may be stored: a Completed was   *)
(* verified, and another ending of a verified output is to be recovered.   *)
WorkerSound ==
  \A p \in Procs :
    /\ run[p].verdict \notin {"Running", "Queued"}
    /\ fault[p] => run[p].stage \in {"none", "finished"}
    /\ active[p] # None =>
         LET completes == run[p].stage = "finishing" /\ run[p].verdict = "Completed" IN
         /\ disk[active[p]] # None
         /\ run[p].stage = "finished" => fault[p] \/ disk[active[p]].state # "Running"
         /\ completes => active[p] \in verified
         /\ active[p] \in verified /\ run[p].stage # "finished" /\ ~completes => disk[active[p]].recovery

(* Lock, gate, memory, queue.json and the worker fit together at every     *)
(* step, whoever fails or dies.                                            *)
QueueSound ==
  /\ TypeOK /\ LocksHeld /\ CallsKnown /\ WorkerSound
  /\ MemoryIsDisk /\ TransferIsDurable /\ StateReadable /\ CompletionTruthful
  /\ \A j \in verified : disk[j] # None

(* Every await of the worker takes the token, so a signalled worker ends;  *)
(* its last steps are local.  Nothing is assumed of session requests, and  *)
(* the gate may be held for ever.                                          *)
StopFairness ==
  \A p \in Procs :
    WF_vars(WorkerStep(p) /\ (run[p].cancelled \/ run[p].stage \in {"promoting", "finishing", "finished"}))

LiveSpec == Spec /\ StopFairness

(* A pause or cancel returns, even while a session request hangs.          *)
StopsReturn == \A c \in Commands : At(c, "pending") ~> ~At(c, "pending")
=============================================================================
