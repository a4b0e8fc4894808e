--------------------------- MODULE TransferQueue_proofs ---------------------------
(***************************************************************************)
(* Proofs about the transfer queue, for any jobs, targets, concurrent      *)
(* calls and processes.                                                    *)
(*                                                                         *)
(* QueueSound is inductive.  Its first half is about the calls (the lock,  *)
(* the gate and what each call is about), its second half, JobsSound,      *)
(* about the jobs (memory, queue.json and the worker).  Each action below  *)
(* has one lemma, and under it one step for every part it can disturb.     *)
(***************************************************************************)
EXTENDS TransferQueue, TLAPS

JobsSound ==
  /\ WorkerSound /\ MemoryIsDisk /\ TransferIsDurable /\ StateReadable /\ CompletionTruthful
  /\ \A j \in verified : disk[j] # None

(* A call that is still there after the step was there before, moved at    *)
(* most, and its job is known as it was, or has ended meanwhile.           *)
CallKept(d) ==
  cmd'[d] # None =>
    /\ cmd[d] # None
    /\ cmd'[d].kind = cmd[d].kind /\ cmd'[d].proc = cmd[d].proc /\ cmd'[d].job = cmd[d].job
    /\ cmd'[d].valid = cmd[d].valid /\ cmd'[d].outrun = cmd[d].outrun
    /\ LET p == cmd[d].proc
           j == cmd[d].job IN
       cmd[d].kind \in {"start", "enqueue"} =>
         /\ mem'[p][j] = None <=> mem[p][j] = None
         /\ mem[p][j] # None /\ mem[p][j].state \in Terminal => mem'[p][j].state \in Terminal

(* A call that exists is a record of the expected fields.                  *)
LEMMA CallTyped ==
  ASSUME TypeOK, NEW c \in Commands, cmd[c] # None
  PROVE  /\ cmd[c] \in Calls
         /\ cmd[c].proc \in Procs /\ cmd[c].job \in Jobs \cup {None}
         /\ cmd[c].kind \in Kinds /\ cmd[c].at \in Awaits
  BY DEF TypeOK, Calls

(* None is nothing else: no job, call, process, record or call record.     *)
LEMMA NoneApart ==
  /\ None \notin Jobs /\ None \notin Commands /\ None \notin Procs
  /\ None \notin Records /\ None \notin Calls
  BY NoneAssumption

(* The initial state: nothing is queued, held or running.                  *)
LEMMA InitSound == Init => QueueSound
<1> SUFFICES ASSUME Init PROVE QueueSound
  OBVIOUS
<1> USE NoneApart DEF Init
<1>1. TypeOK
  BY DEF TypeOK, Queues, Runs, Idle, Stages, Stops, States, Terminal
<1>2. LocksHeld
  BY DEF LocksHeld
<1>3. CallsKnown
  BY DEF CallsKnown
<1>4. WorkerSound
  BY DEF WorkerSound, Idle
<1>5. MemoryIsDisk /\ TransferIsDurable /\ StateReadable /\ CompletionTruthful
  BY DEF MemoryIsDisk, TransferIsDurable, StateReadable, Readable, CompletionTruthful
<1> QED BY <1>1, <1>2, <1>3, <1>4, <1>5 DEF QueueSound

(* The jobs are as sound as before when only calls, the gate, files and    *)
(* the worker's signal changed.                                            *)
LEMMA JobsUntouched ==
  ASSUME QueueSound, UNCHANGED <<disk, procVars, mem, active, verified>>,
         \A p \in Procs : run'[p].stage = run[p].stage /\ run'[p].verdict = run[p].verdict
  PROVE  JobsSound'
<1> USE DEF QueueSound, procVars
<1>1. WorkerSound'
  BY DEF WorkerSound
<1>2. MemoryIsDisk'
  BY DEF MemoryIsDisk
<1>3. TransferIsDurable'
  BY DEF TransferIsDurable
<1>4. StateReadable' /\ CompletionTruthful' /\ \A j \in verified' : disk'[j] # None
  BY DEF StateReadable, Readable, CompletionTruthful
<1> QED BY <1>1, <1>2, <1>3, <1>4 DEF JobsSound

(* What is known of the calls stays true when no call is new.              *)
LEMMA CallsKeptKnown ==
  ASSUME QueueSound, \A d \in Commands : CallKept(d)
  PROVE  CallsKnown'
<1> SUFFICES ASSUME NEW c \in Commands, cmd'[c] # None
             PROVE  /\ cmd'[c].kind \in {"start", "enqueue"} => cmd'[c].job \in Jobs
                    /\ cmd'[c].kind = "start" =>
                         /\ mem'[cmd'[c].proc][cmd'[c].job] # None
                         /\ cmd'[c].outrun /\ cmd'[c].valid => mem'[cmd'[c].proc][cmd'[c].job].state \in Terminal
                    /\ cmd'[c].kind = "enqueue" =>
                         /\ mem'[cmd'[c].proc][cmd'[c].job] = None
                         /\ \A d \in Commands :
                              cmd'[d] # None /\ cmd'[d].proc = cmd'[c].proc /\ cmd'[d].kind = "enqueue"
                                /\ cmd'[d].job = cmd'[c].job => d = c
  BY DEF CallsKnown, Of
<1>1. cmd[c] # None /\ CallKept(c) /\ cmd'[c].proc = cmd[c].proc /\ cmd'[c].job = cmd[c].job
  BY DEF CallKept
<1>2. /\ cmd[c].kind \in {"start", "enqueue"} => cmd[c].job \in Jobs
      /\ cmd[c].kind = "start" =>
           /\ mem[cmd[c].proc][cmd[c].job] # None
           /\ cmd[c].outrun /\ cmd[c].valid => mem[cmd[c].proc][cmd[c].job].state \in Terminal
      /\ cmd[c].kind = "enqueue" => mem[cmd[c].proc][cmd[c].job] = None
  BY <1>1 DEF QueueSound, CallsKnown
<1>3. ASSUME cmd[c].kind = "enqueue", NEW d \in Commands, cmd'[d] # None,
             cmd'[d].proc = cmd[c].proc, cmd'[d].kind = "enqueue", cmd'[d].job = cmd[c].job
      PROVE  d = c
  <2>1. cmd[d] # None /\ cmd[d].proc = cmd[c].proc /\ cmd[d].kind = "enqueue" /\ cmd[d].job = cmd[c].job
    BY <1>3 DEF CallKept
  <2> QED BY <2>1, <1>1, <1>3 DEF QueueSound, CallsKnown, Of
<1>4. cmd'[c].kind = cmd[c].kind /\ cmd'[c].valid = cmd[c].valid /\ cmd'[c].outrun = cmd[c].outrun
  BY <1>1 DEF CallKept
<1> QED BY <1>1, <1>2, <1>3, <1>4 DEF CallKept

(* A call that goes on to its next await keeps everything else.            *)
LEMMA GotoMoves ==
  ASSUME TypeOK, NEW c \in Commands, cmd[c] # None, NEW place \in Awaits, Goto(c, place)
  PROVE  /\ cmd' \in [Commands -> Calls \cup {None}]
         /\ cmd'[c] = [cmd[c] EXCEPT !.at = place] /\ cmd'[c] # None /\ cmd'[c].at = place
         /\ cmd'[c].kind = cmd[c].kind /\ cmd'[c].proc = cmd[c].proc /\ cmd'[c].job = cmd[c].job
         /\ cmd'[c].valid = cmd[c].valid /\ cmd'[c].outrun = cmd[c].outrun
         /\ \A d \in Commands : d # c => cmd'[d] = cmd[d]
<1>1. cmd[c] \in Calls
  BY CallTyped
<1>2. [cmd[c] EXCEPT !.at = place] \in Calls
  BY <1>1 DEF Calls
<1>3. cmd' = [cmd EXCEPT ![c] = [cmd[c] EXCEPT !.at = place]]
  BY DEF Goto
<1>4. cmd \in [Commands -> Calls \cup {None}]
  BY DEF TypeOK
<1>5. /\ cmd' \in [Commands -> Calls \cup {None}]
      /\ cmd'[c] = [cmd[c] EXCEPT !.at = place]
      /\ \A d \in Commands : d # c => cmd'[d] = cmd[d]
  BY <1>2, <1>3, <1>4
<1>6. cmd'[c] # None
  BY <1>2, <1>5, NoneApart
<1> QED BY <1>1, <1>5, <1>6 DEF Calls

(* A call that returns is gone, and no other changes.                      *)
LEMMA ReturnEnds ==
  ASSUME TypeOK, NEW c \in Commands, Return(c)
  PROVE  /\ cmd' \in [Commands -> Calls \cup {None}]
         /\ cmd'[c] = None
         /\ \A d \in Commands : d # c => cmd'[d] = cmd[d]
  BY DEF TypeOK, Return

(* No call is new when one moves.                                          *)
LEMMA GotoKeeps ==
  ASSUME TypeOK, NEW c \in Commands, cmd[c] # None, mem' = mem, NEW place \in Awaits, Goto(c, place)
  PROVE  \A d \in Commands : CallKept(d)
  BY GotoMoves DEF CallKept

(* No call is new when one returns.                                        *)
LEMMA ReturnKeeps ==
  ASSUME TypeOK, NEW c \in Commands, mem' = mem, Return(c)
  PROVE  \A d \in Commands : CallKept(d)
  BY ReturnEnds DEF CallKept

(* A signal to the worker changes nothing else of it.                      *)
LEMMA SignalTyped ==
  ASSUME TypeOK, NEW p \in Procs, run' = [run EXCEPT ![p].cancelled = TRUE]
  PROVE  /\ run' \in [Procs -> Runs]
         /\ \A q \in Procs : run'[q].stage = run[q].stage /\ run'[q].verdict = run[q].verdict
<1>1. run[p] \in Runs /\ run \in [Procs -> Runs]
  BY DEF TypeOK
<1>2. [run[p] EXCEPT !.cancelled = TRUE] \in Runs
  BY <1>1 DEF Runs
<1> QED BY <1>1, <1>2 DEF Runs

(* Whoever holds the gate of its queue is the only one inside.             *)
LEMMA InsideAlone ==
  ASSUME QueueSound, NEW c \in Commands, NEW d \in Commands, cmd[c] # None, cmd[d] # None,
         cmd[c].at \in Inside, cmd[d].at \in Inside, cmd[c].proc = cmd[d].proc
  PROVE  c = d
  BY DEF QueueSound, LocksHeld

(* A new call is a call, and not None.                                     *)
LEMMA NewCallTyped ==
  ASSUME NEW kind \in Kinds, NEW p \in Procs, NEW j \in Jobs \cup {None}, NEW place \in Awaits
  PROVE  LET new == NewCall(kind, p, j, place) IN
         /\ new \in Calls /\ new # None
         /\ new.at = place /\ new.kind = kind /\ new.proc = p /\ new.job = j /\ new.valid /\ ~new.outrun
<1>1. NewCall(kind, p, j, place) \in Calls
  BY DEF NewCall, Calls
<1>2. NewCall(kind, p, j, place) # None
  BY <1>1, NoneApart
<1> QED BY <1>1, <1>2 DEF NewCall

(* A method is called.                                                     *)
LEMMA CallSound ==
  ASSUME QueueSound, NEW c \in Commands, NEW p \in Procs, NEW j \in Jobs \cup {None}, NEW kind \in Kinds,
         Call(c, kind, p, j)
  PROVE  QueueSound'
<1> DEFINE new == NewCall(kind, p, j, "gate")
<1> USE DEF Call, diskVars, procVars
<1>0. TypeOK /\ cmd \in [Commands -> Calls \cup {None}]
  BY DEF QueueSound, TypeOK
<1>1. /\ new \in Calls /\ new # None
      /\ new.at = "gate" /\ new.kind = kind /\ new.proc = p /\ new.job = j /\ ~new.outrun
  BY NewCallTyped DEF Awaits
<1>2. cmd' \in [Commands -> Calls \cup {None}] /\ cmd'[c] = new /\ \A d \in Commands : d # c => cmd'[d] = cmd[d]
  BY <1>0, <1>1
<1> HIDE DEF new
<1>3. TypeOK'
  BY <1>0, <1>2 DEF TypeOK
<1>4. LocksHeld'
  BY <1>1, <1>2 DEF QueueSound, LocksHeld, Inside, At
<1>5. CallsKnown'
  <2>1. ASSUME NEW d \in Commands, cmd'[d] # None
        PROVE  /\ cmd'[d].kind \in {"start", "enqueue"} => cmd'[d].job \in Jobs
               /\ cmd'[d].kind = "start" =>
                    /\ mem[cmd'[d].proc][cmd'[d].job] # None
                    /\ cmd'[d].outrun /\ cmd'[d].valid => mem[cmd'[d].proc][cmd'[d].job].state \in Terminal
               /\ cmd'[d].kind = "enqueue" => mem[cmd'[d].proc][cmd'[d].job] = None
    BY <2>1, <1>1, <1>2 DEF QueueSound, CallsKnown
  <2>2. ASSUME NEW d \in Commands, NEW e \in Commands, cmd'[d] # None, cmd'[e] # None,
               cmd'[d].proc = cmd'[e].proc, cmd'[d].job = cmd'[e].job,
               cmd'[d].kind = "enqueue", cmd'[e].kind = "enqueue"
        PROVE  d = e
    BY <2>2, <1>1, <1>2 DEF QueueSound, CallsKnown, Of
  <2> QED BY <2>1, <2>2 DEF CallsKnown, Of
<1>6. JobsSound'
  BY JobsUntouched DEF QueueSound, TypeOK
<1> QED BY <1>3, <1>4, <1>5, <1>6 DEF QueueSound, JobsSound

(* The gate is entered, or the queue found closed.                         *)
LEMMA EnterSound ==
  ASSUME QueueSound, NEW c \in Commands, Enter(c)
  PROVE  QueueSound'
<1> DEFINE p == cmd[c].proc
<1> USE DEF diskVars, procVars
<1>0. TypeOK /\ cmd[c] # None /\ cmd[c].at = "gate" /\ p \in Procs /\ gate[p] = None /\ mem' = mem
  BY CallTyped DEF QueueSound, Enter, At
<1>a. UNCHANGED <<disk, leftover, holder, up, fault, file, mem, active, verified>>
  BY DEF Enter
<1>1. \/ Return(c) /\ UNCHANGED <<gate, run>>
      \/ /\ up[p] = "open" /\ gate' = [gate EXCEPT ![p] = c]
         /\ \/ Goto(c, "drained") /\ UNCHANGED run /\ active[p] = None
            \/ Goto(c, "drain") /\ run' = [run EXCEPT ![p].cancelled = TRUE]
            \/ Goto(c, "verify") /\ UNCHANGED run
  BY DEF Enter, Drain
<1>2. \A d \in Commands : CallKept(d)
  <2>1. PICK place \in Awaits : Return(c) \/ Goto(c, place)
    BY <1>1 DEF Awaits
  <2>2. CASE Return(c)
    BY <2>2, <1>0, ReturnKeeps
  <2>3. CASE Goto(c, place)
    BY <2>3, <1>0, GotoKeeps
  <2> QED BY <2>1, <2>2, <2>3
<1>3. run' \in [Procs -> Runs] /\ \A q \in Procs : run'[q].stage = run[q].stage /\ run'[q].verdict = run[q].verdict
  BY <1>0, <1>1, SignalTyped DEF TypeOK
<1>4. cmd' \in [Commands -> Calls \cup {None}]
  BY <1>0, <1>1, ReturnEnds, GotoMoves DEF Awaits
<1>5. TypeOK'
  BY <1>0, <1>a, <1>1, <1>3, <1>4 DEF TypeOK
<1>6. LocksHeld'
  <2>1. CASE Return(c) /\ UNCHANGED <<gate, run>>
    BY <2>1, <1>0, <1>a, ReturnEnds DEF QueueSound, LocksHeld, At
  <2>2. ASSUME ~(Return(c) /\ UNCHANGED <<gate, run>>) PROVE LocksHeld'
    <3>0. up[p] = "open" /\ gate' = [gate EXCEPT ![p] = c]
      BY <2>2, <1>1
    <3>1. PICK place \in {"drained", "drain", "verify"} : Goto(c, place) /\ (place = "drained" => active[p] = None)
      BY <2>2, <1>1
    <3>2. /\ cmd'[c].proc = p /\ cmd'[c].at = place
          /\ \A d \in Commands : d # c => cmd'[d] = cmd[d]
      BY <3>1, <1>0, GotoMoves DEF Awaits
    <3>3. gate'[p] = c /\ \A q \in Procs : q # p => gate'[q] = gate[q]
      BY <3>0, <1>0 DEF TypeOK
    <3>4. ASSUME NEW d \in Commands, d # c, cmd[d] # None, cmd[d].at \in Inside
          PROVE  cmd[d].proc # p /\ cmd[d].proc \in Procs
      BY <3>4, <1>0, NoneApart, CallTyped DEF QueueSound, LocksHeld
    <3> QED BY <3>0, <3>1, <3>2, <3>3, <3>4, <1>a DEF QueueSound, LocksHeld, At
  <2> QED BY <2>1, <2>2
<1>7. CallsKnown' /\ JobsSound'
  BY <1>2, <1>3, <1>a, CallsKeptKnown, JobsUntouched DEF procVars
<1> QED BY <1>5, <1>6, <1>7 DEF QueueSound, JobsSound

(* A call leaves: it returns and opens the gate for the next one.          *)
LEMMA LeaveEnds ==
  ASSUME QueueSound, NEW c \in Commands, cmd[c] # None, cmd[c].at \in Inside, Leave(c),
         UNCHANGED <<holder, up, active>>
  PROVE  /\ gate' \in [Procs -> Commands \cup {None}] /\ cmd' \in [Commands -> Calls \cup {None}]
         /\ LocksHeld'
<1>0. TypeOK /\ cmd[c].proc \in Procs /\ gate \in [Procs -> Commands \cup {None}]
  BY CallTyped DEF QueueSound, TypeOK
<1>1. cmd' \in [Commands -> Calls \cup {None}] /\ cmd'[c] = None /\ \A d \in Commands : d # c => cmd'[d] = cmd[d]
  BY <1>0, ReturnEnds DEF Leave
<1>2. gate' \in [Procs -> Commands \cup {None}] /\ \A q \in Procs : q # cmd[c].proc => gate'[q] = gate[q]
  BY <1>0 DEF Leave
<1>3. ASSUME NEW d \in Commands, d # c, cmd[d] # None, cmd[d].at \in Inside
      PROVE  cmd[d].proc # cmd[c].proc /\ cmd[d].proc \in Procs
  BY <1>3, <1>0, InsideAlone, CallTyped
<1> QED BY <1>1, <1>2, <1>3 DEF QueueSound, LocksHeld, At

(* A call inside the gate goes on inside; to "drained" only without a      *)
(* worker.                                                                 *)
LEMMA InsideMoves ==
  ASSUME QueueSound, NEW c \in Commands, cmd[c] # None, cmd[c].at \in Inside, NEW place \in Inside, Goto(c, place),
         place = "drained" => active[cmd[c].proc] = None,
         UNCHANGED <<holder, up, active, gate>>
  PROVE  cmd' \in [Commands -> Calls \cup {None}] /\ LocksHeld'
<1>1. TypeOK /\ place \in Awaits
  BY DEF QueueSound, Inside, Awaits
<1>2. /\ cmd' \in [Commands -> Calls \cup {None}]
      /\ cmd'[c].proc = cmd[c].proc /\ cmd'[c].at = place
      /\ \A d \in Commands : d # c => cmd'[d] = cmd[d]
  BY <1>1, GotoMoves
<1> QED BY <1>2 DEF QueueSound, LocksHeld, At

(* The steps of a call inside the gate that leave the jobs alone: the      *)
(* session holds or is lost, the caller withdraws, the resource resolves.  *)
InsideStep(c) ==
  /\ cmd[c] # None /\ cmd[c].at \in Inside
  /\ \/ Leave(c) /\ UNCHANGED run
     \/ /\ \E place \in Inside : Goto(c, place) /\ (place = "drained" => active[cmd[c].proc] = None)
        /\ run' \in {run, [run EXCEPT ![cmd[c].proc].cancelled = TRUE]} /\ UNCHANGED gate
  /\ UNCHANGED <<diskVars, procVars, file, mem, active, verified>>

(* Such a step keeps the invariant.                                        *)
LEMMA InsideSound ==
  ASSUME QueueSound, NEW c \in Commands, InsideStep(c)
  PROVE  QueueSound'
<1> USE DEF diskVars, procVars
<1>0. TypeOK /\ cmd[c] # None /\ cmd[c].at \in Inside /\ cmd[c].proc \in Procs
  BY CallTyped DEF QueueSound, InsideStep
<1>1. UNCHANGED <<disk, leftover, holder, up, fault, file, mem, active, verified>>
  BY DEF InsideStep
<1>2. run' \in [Procs -> Runs] /\ \A q \in Procs : run'[q].stage = run[q].stage /\ run'[q].verdict = run[q].verdict
  BY <1>0, SignalTyped DEF InsideStep, TypeOK
<1>3. JobsSound'
  BY <1>1, <1>2, JobsUntouched
<1>4. CASE Leave(c)
  <2>1. gate' \in [Procs -> Commands \cup {None}] /\ cmd' \in [Commands -> Calls \cup {None}] /\ LocksHeld'
    BY <1>0, <1>1, <1>4, LeaveEnds
  <2>2. CallsKnown'
    BY <1>0, <1>1, <1>4, ReturnKeeps, CallsKeptKnown DEF Leave
  <2>3. TypeOK'
    BY <2>1, <1>0, <1>1, <1>2 DEF TypeOK
  <2> QED BY <2>1, <2>2, <2>3, <1>3 DEF QueueSound, JobsSound
<1>5. CASE \E place \in Inside : Goto(c, place) /\ (place = "drained" => active[cmd[c].proc] = None) /\ UNCHANGED gate
  <2>1. PICK place \in Inside : Goto(c, place) /\ (place = "drained" => active[cmd[c].proc] = None) /\ UNCHANGED gate
    BY <1>5
  <2>2. cmd' \in [Commands -> Calls \cup {None}] /\ LocksHeld'
    BY <1>0, <1>1, <2>1, InsideMoves
  <2>3. place \in Awaits
    BY DEF Inside, Awaits
  <2>4. CallsKnown'
    BY <1>0, <1>1, <2>1, <2>3, GotoKeeps, CallsKeptKnown
  <2>5. TypeOK'
    BY <2>1, <2>2, <1>0, <1>1, <1>2 DEF TypeOK
  <2> QED BY <2>2, <2>4, <2>5, <1>3 DEF QueueSound, JobsSound
<1> QED BY <1>4, <1>5 DEF InsideStep

(* The session holds.                                                      *)
LEMMA SessionHoldsSound ==
  ASSUME QueueSound, NEW c \in Commands, SessionHolds(c)
  PROVE  QueueSound'
<1>1. cmd[c] # None /\ cmd[c].at \in Inside
  BY DEF SessionHolds, At, Inside
<1>2. Leave(c) \/ (\E place \in {"apply", "resolve"} : Goto(c, place) /\ UNCHANGED gate)
  BY DEF SessionHolds
<1>3. InsideStep(c)
  BY <1>1, <1>2 DEF SessionHolds, InsideStep, Inside
<1> QED BY <1>3, InsideSound

(* The session is lost.                                                    *)
LEMMA SessionLostSound ==
  ASSUME QueueSound, NEW c \in Commands, SessionLost(c)
  PROVE  QueueSound'
<1>1. cmd[c] # None /\ cmd[c].at \in Inside
  BY DEF SessionLost, At, Inside
<1>2. InsideStep(c)
  BY <1>1 DEF SessionLost, Drain, InsideStep, Inside
<1> QED BY <1>2, InsideSound

(* The resource is resolved.                                               *)
LEMMA ResolvedSound ==
  ASSUME QueueSound, NEW c \in Commands, Resolved(c)
  PROVE  QueueSound'
<1>1. cmd[c] # None /\ cmd[c].at \in Inside
  BY DEF Resolved, At, Inside
<1>2. InsideStep(c)
  BY <1>1 DEF Resolved, InsideStep, Inside
<1> QED BY <1>2, InsideSound

(* The caller withdraws, before or behind the gate.                        *)
LEMMA WithdrawSound ==
  ASSUME QueueSound, NEW c \in Commands, Withdraw(c)
  PROVE  QueueSound'
<1> USE DEF diskVars, procVars
<1>1. CASE At(c, "gate") /\ Return(c) /\ UNCHANGED gate
  <2>0. TypeOK /\ UNCHANGED <<disk, leftover, holder, up, fault, file, mem, active, run, verified>>
    BY DEF QueueSound, Withdraw
  <2>1. cmd' \in [Commands -> Calls \cup {None}] /\ cmd'[c] = None /\ \A d \in Commands : d # c => cmd'[d] = cmd[d]
    BY <1>1, <2>0, ReturnEnds
  <2>2. TypeOK'
    BY <2>0, <2>1, <1>1 DEF TypeOK
  <2>3. LocksHeld'
    BY <2>0, <2>1, <1>1 DEF QueueSound, LocksHeld, At
  <2>4. CallsKnown'
    BY <2>0, <1>1, ReturnKeeps, CallsKeptKnown
  <2>5. JobsSound'
    BY <2>0, JobsUntouched
  <2> QED BY <2>2, <2>3, <2>4, <2>5 DEF QueueSound, JobsSound
<1>2. CASE (At(c, "verify") \/ At(c, "reverify") \/ At(c, "resolve")) /\ Leave(c)
  <2>1. InsideStep(c)
    BY <1>2 DEF Withdraw, InsideStep, At, Inside
  <2> QED BY <2>1, InsideSound
<1> QED BY <1>1, <1>2 DEF Withdraw

(* What a stop leaves of the other calls: at most their reservation.       *)
LEMMA VoidedKeeps ==
  ASSUME TypeOK, NEW p \in Procs, NEW j \in Jobs, NEW void \in BOOLEAN, NEW accepted \in BOOLEAN, NEW d \in Commands
  PROVE  LET v == Voided(p, j, void, accepted, d) IN
         /\ v \in Calls \cup {None}
         /\ v = None <=> cmd[d] = None
         /\ cmd[d] # None =>
              /\ v.at = cmd[d].at /\ v.kind = cmd[d].kind /\ v.proc = cmd[d].proc /\ v.job = cmd[d].job
              /\ IF cmd[d].proc = p /\ cmd[d].job = j
                 THEN v.valid = (cmd[d].valid /\ ~void) /\ v.outrun = (cmd[d].outrun \/ accepted)
                 ELSE v.valid = cmd[d].valid /\ v.outrun = cmd[d].outrun
<1>1. CASE cmd[d] # None /\ cmd[d].proc = p /\ cmd[d].job = j
  <2>1. cmd[d] \in Calls
    BY <1>1, CallTyped
  <2>2. Voided(p, j, void, accepted, d) = [cmd[d] EXCEPT !.valid = cmd[d].valid /\ ~void, !.outrun = cmd[d].outrun \/ accepted]
    BY <1>1 DEF Voided
  <2>3. Voided(p, j, void, accepted, d) \in Calls
    BY <2>1, <2>2 DEF Calls
  <2>4. Voided(p, j, void, accepted, d) # None
    BY <2>3, NoneApart
  <2> QED BY <1>1, <2>1, <2>2, <2>3, <2>4 DEF Calls
<1>2. CASE ~(cmd[d] # None /\ cmd[d].proc = p /\ cmd[d].job = j)
  <2>1. Voided(p, j, void, accepted, d) = cmd[d]
    BY <1>2 DEF Voided
  <2> QED BY <1>2, <2>1 DEF TypeOK
<1> QED BY <1>1, <1>2

(* The jobs in memory are as known as before, and what had ended has.      *)
MemoryKept ==
  \A q \in Procs, k \in Jobs :
    /\ mem'[q][k] = None <=> mem[q][k] = None
    /\ mem[q][k] # None /\ mem[q][k].state \in Terminal => mem'[q][k].state \in Terminal

StopCalls(p, j, void, accepted, stop, new) ==
  cmd' = [d \in Commands |-> IF d \in new THEN NewCall(stop, p, j, "pending") ELSE Voided(p, j, void, accepted, d)]

(* A stop of j voids reservations of j, and may add its own call, which    *)
(* waits outside the gate; one that is accepted and voids nothing found    *)
(* the job ended.                                                          *)
LEMMA StopKeepsCalls ==
  ASSUME QueueSound, NEW p \in Procs, NEW j \in Jobs, NEW void \in BOOLEAN, NEW accepted \in BOOLEAN,
         NEW stop \in Stops, NEW new \in SUBSET Commands,
         StopCalls(p, j, void, accepted, stop, new),
         MemoryKept, accepted /\ ~void => mem[p][j] # None /\ mem[p][j].state \in Terminal,
         UNCHANGED <<holder, up, active, gate>>
  PROVE  cmd' \in [Commands -> Calls \cup {None}] /\ LocksHeld' /\ CallsKnown'
<1> DEFINE v(d) == Voided(p, j, void, accepted, d)
           pending == NewCall(stop, p, j, "pending")
<1>0. TypeOK
  BY DEF QueueSound
<1>1. ASSUME NEW d \in Commands, d \notin new
      PROVE  /\ cmd'[d] \in Calls \cup {None}
             /\ cmd'[d] = None <=> cmd[d] = None
             /\ cmd[d] # None =>
                  /\ cmd'[d].at = cmd[d].at /\ cmd'[d].kind = cmd[d].kind
                  /\ cmd'[d].proc = cmd[d].proc /\ cmd'[d].job = cmd[d].job
                  /\ IF cmd[d].proc = p /\ cmd[d].job = j
                     THEN cmd'[d].valid = (cmd[d].valid /\ ~void) /\ cmd'[d].outrun = (cmd[d].outrun \/ accepted)
                     ELSE cmd'[d].valid = cmd[d].valid /\ cmd'[d].outrun = cmd[d].outrun
  <2>1. cmd'[d] = v(d)
    BY <1>1 DEF StopCalls
  <2> QED BY <2>1, <1>0, VoidedKeeps
<1>2. ASSUME NEW d \in new
      PROVE  cmd'[d] \in Calls /\ cmd'[d].at = "pending" /\ cmd'[d].kind \in Stops
  <2>1. cmd'[d] = pending
    BY DEF StopCalls
  <2>2. stop \in Kinds /\ "pending" \in Awaits
    BY DEF Stops, Kinds, Awaits
  <2> QED BY <2>1, <2>2, NewCallTyped
<1>3. cmd' \in [Commands -> Calls \cup {None}]
  BY <1>1, <1>2 DEF StopCalls
<1>4. LocksHeld'
  BY <1>1, <1>2 DEF QueueSound, LocksHeld, Inside, At
<1>5. ASSUME NEW d \in Commands, cmd'[d] # None, cmd'[d].kind \in {"start", "enqueue"}
      PROVE  /\ d \notin new /\ cmd[d] # None
             /\ cmd'[d].kind = cmd[d].kind /\ cmd'[d].proc = cmd[d].proc /\ cmd'[d].job = cmd[d].job
             /\ cmd[d].proc \in Procs /\ cmd[d].job \in Jobs
  <2>1. d \notin new
    BY <1>2, <1>5 DEF Stops
  <2> QED BY <2>1, <1>1, <1>5, <1>0, CallTyped DEF QueueSound, CallsKnown
<1>6. CallsKnown'
  <2>1. ASSUME NEW d \in Commands, cmd'[d] # None, cmd'[d].kind = "start"
        PROVE  /\ mem'[cmd'[d].proc][cmd'[d].job] # None
               /\ cmd'[d].outrun /\ cmd'[d].valid => mem'[cmd'[d].proc][cmd'[d].job].state \in Terminal
    <3>1. /\ d \notin new /\ cmd[d] # None /\ cmd[d].kind = "start" /\ cmd[d].proc \in Procs /\ cmd[d].job \in Jobs
          /\ cmd'[d].proc = cmd[d].proc /\ cmd'[d].job = cmd[d].job
      BY <2>1, <1>5
    <3>2. mem[cmd[d].proc][cmd[d].job] # None
          /\ (cmd[d].outrun /\ cmd[d].valid => mem[cmd[d].proc][cmd[d].job].state \in Terminal)
      BY <3>1 DEF QueueSound, CallsKnown
    <3>3. cmd'[d].outrun /\ cmd'[d].valid => mem[cmd[d].proc][cmd[d].job].state \in Terminal
      BY <3>1, <3>2, <1>1
    <3> QED BY <3>1, <3>2, <3>3 DEF MemoryKept
  <2>2. ASSUME NEW d \in Commands, cmd'[d] # None, cmd'[d].kind = "enqueue"
        PROVE  mem'[cmd'[d].proc][cmd'[d].job] = None
    BY <2>2, <1>5 DEF QueueSound, CallsKnown, MemoryKept
  <2>3. ASSUME NEW d \in Commands, NEW e \in Commands, cmd'[d] # None, cmd'[e] # None,
               cmd'[d].proc = cmd'[e].proc, cmd'[d].job = cmd'[e].job,
               cmd'[d].kind = "enqueue", cmd'[e].kind = "enqueue"
        PROVE  d = e
    BY <2>3, <1>5 DEF QueueSound, CallsKnown, Of
  <2> QED BY <2>1, <2>2, <2>3, <1>5 DEF CallsKnown, Of
<1> QED BY <1>3, <1>4, <1>6

(* A stop of the active job signals the worker.                            *)
LEMMA StopActiveSound ==
  ASSUME QueueSound, NEW c \in Commands, NEW p \in Procs, NEW j \in Jobs, NEW stop \in Stops, StopActive(c, p, j, stop)
  PROVE  QueueSound'
<1> USE DEF diskVars, procVars
<1>0. TypeOK /\ UNCHANGED <<disk, leftover, holder, up, fault, file, mem, active, gate, verified>>
  BY DEF QueueSound, StopActive
<1>1. run' \in [Procs -> Runs] /\ \A q \in Procs : run'[q].stage = run[q].stage /\ run'[q].verdict = run[q].verdict
  <2>1. run[p] \in Runs /\ run \in [Procs -> Runs]
    BY <1>0 DEF TypeOK
  <2>2. PICK s \in Stops : run' = [run EXCEPT ![p] = [run[p] EXCEPT !.cancelled = TRUE, !.stop = s]]
    BY <2>1 DEF StopActive, Runs
  <2>3. [run[p] EXCEPT !.cancelled = TRUE, !.stop = s] \in Runs
    BY <2>1 DEF Runs
  <2> QED BY <2>1, <2>2, <2>3 DEF Runs
<1>2. JobsSound'
  BY <1>0, <1>1, JobsUntouched
<1>3. cmd' \in [Commands -> Calls \cup {None}] /\ LocksHeld' /\ CallsKnown'
  <2>1. StopCalls(p, j, TRUE, TRUE, stop, {c})
    BY DEF StopActive, StopCalls
  <2>2. MemoryKept
    BY <1>0 DEF MemoryKept
  <2> QED BY <2>1, <2>2, <1>0, StopKeepsCalls
<1>4. TypeOK'
  BY <1>0, <1>1, <1>3 DEF TypeOK
<1> QED BY <1>2, <1>3, <1>4 DEF QueueSound, JobsSound

(* Calls that stay as they are, or return, are kept if memory is.          *)
LEMMA MemoryKeepsCalls ==
  ASSUME QueueSound, MemoryKept, \A d \in Commands : cmd'[d] # None => cmd'[d] = cmd[d]
  PROVE  \A d \in Commands : CallKept(d)
<1>1. ASSUME NEW d \in Commands, cmd'[d] # None
      PROVE  /\ cmd'[d] = cmd[d] /\ cmd[d] # None /\ cmd[d].proc \in Procs
             /\ cmd[d].kind \in {"start", "enqueue"} => cmd[d].job \in Jobs
  BY <1>1, CallTyped DEF QueueSound, CallsKnown
<1> QED BY <1>1 DEF CallKept, MemoryKept

-----------------------------------------------------------------------------
(* The steps that write queue.json.                                        *)

(* At most one queue is open, and only that one has a worker.              *)
LEMMA OneOpen ==
  ASSUME QueueSound, NEW p \in Procs, up[p] = "open"
  PROVE  /\ holder = p
         /\ \A q \in Procs : q # p => up[q] # "open" /\ active[q] = None
  BY DEF QueueSound, LocksHeld, TransferIsDurable

(* What a Commit of one job's record leaves in memory and in queue.json.   *)
LEMMA Stored ==
  ASSUME QueueSound, NEW p \in Procs, up[p] = "open", ~fault[p], NEW j \in Jobs, NEW s \in States, NEW r \in BOOLEAN,
         Saved(p, Changed(p, j, s, r))
  PROVE  /\ disk' \in Queues /\ mem' \in [Procs -> Queues] /\ leftover' = leftover
         /\ mem[p] = disk /\ mem'[p] = disk' /\ \A q \in Procs : q # p => mem'[q] = mem[q]
         /\ disk'[j] # None /\ disk'[j].state = s /\ disk'[j].recovery = r
         /\ \A k \in Jobs : k # j => disk'[k] = disk[k]
<1>1. mem[p] = disk /\ disk \in Queues /\ mem \in [Procs -> Queues]
  BY DEF QueueSound, MemoryIsDisk, TypeOK
<1> DEFINE rec == [state |-> s, recovery |-> r]
<1>2. rec \in Records /\ rec.state = s /\ rec.recovery = r
  BY DEF Records
<1>3. rec # None
  BY <1>2, NoneApart
<1>4. disk' = [disk EXCEPT ![j] = rec] /\ mem' = [mem EXCEPT ![p] = disk'] /\ leftover' = leftover
  BY <1>1 DEF Saved, Changed
<1> HIDE DEF rec
<1>5. disk' \in Queues /\ disk'[j] = rec /\ \A k \in Jobs : k # j => disk'[k] = disk[k]
  BY <1>1, <1>2, <1>4 DEF Queues
<1> QED BY <1>1, <1>2, <1>3, <1>4, <1>5

(* What is written stays readable, and true of the output, and memory      *)
(* follows, provided the record of the one job is.                         *)
LEMMA StoredSound ==
  ASSUME QueueSound, NEW p \in Procs, up[p] = "open", ~fault[p], NEW j \in Jobs, NEW s \in States, NEW r \in BOOLEAN,
         Saved(p, Changed(p, j, s, r)),
         r => s \notin Terminal \cup {"Queued"},
         s = "Completed" => j \in verified,
         j \in verified => s \in Terminal \cup {"Running"} \/ r,
         UNCHANGED <<holder, up, fault, verified>>
  PROVE  /\ MemoryIsDisk' /\ StateReadable' /\ CompletionTruthful'
         /\ \A k \in verified' : disk'[k] # None
<1>1. /\ mem'[p] = disk' /\ disk'[j] # None /\ disk'[j].state = s /\ disk'[j].recovery = r
      /\ \A k \in Jobs : k # j => disk'[k] = disk[k]
  BY Stored
<1>2. MemoryIsDisk'
  BY <1>1, OneOpen DEF MemoryIsDisk
<1>3. StateReadable'
  BY <1>1 DEF QueueSound, StateReadable, Readable
<1>4. CompletionTruthful'
  BY <1>1 DEF QueueSound, CompletionTruthful
<1>5. \A k \in verified' : disk'[k] # None
  BY <1>1 DEF QueueSound, TypeOK
<1> QED BY <1>2, <1>3, <1>4, <1>5

(* A stop of a job that is not active.                                     *)
LEMMA StopInactiveSound ==
  ASSUME QueueSound, NEW p \in Procs, NEW j \in Jobs, NEW stop \in Stops, StopInactive(p, j, stop)
  PROVE  QueueSound'
<1> USE DEF diskVars, procVars
<1>0. /\ TypeOK /\ UNCHANGED <<holder, up, fault, file, active, run, gate, verified>>
      /\ up[p] = "open" /\ active[p] # j /\ ~fault[p] /\ mem[p][j] # None /\ mem[p] = disk
  BY DEF QueueSound, MemoryIsDisk, StopInactive
<1>1. CASE UNCHANGED <<disk, mem>> /\ leftover' \in {leftover, TRUE}
           /\ \E void \in BOOLEAN, accepted \in BOOLEAN :
                /\ cmd' = [d \in Commands |-> Voided(p, j, void, accepted, d)]
                /\ accepted /\ ~void => mem[p][j].state \in Terminal
  <2>1. PICK void \in BOOLEAN, accepted \in BOOLEAN :
           /\ cmd' = [d \in Commands |-> Voided(p, j, void, accepted, d)]
           /\ accepted /\ ~void => mem[p][j].state \in Terminal
    BY <1>1
  <2>2. StopCalls(p, j, void, accepted, stop, {}) /\ MemoryKept
    BY <1>1, <2>1 DEF StopCalls, MemoryKept
  <2>3. cmd' \in [Commands -> Calls \cup {None}] /\ LocksHeld' /\ CallsKnown'
    BY <1>0, <2>1, <2>2, StopKeepsCalls
  <2>4. TypeOK'
    BY <1>0, <1>1, <2>3 DEF TypeOK
  <2>5. JobsSound'
    BY <1>0, <1>1, JobsUntouched
  <2> QED BY <2>3, <2>4, <2>5 DEF QueueSound, JobsSound
<1>2. CASE /\ mem[p][j].state \notin Terminal
           /\ Saved(p, Changed(p, j, stop, StillToRecover(p, j, stop)))
           /\ cmd' = [d \in Commands |-> Voided(p, j, TRUE, TRUE, d)]
  <2> DEFINE r == StillToRecover(p, j, stop)
  <2>1. disk[j] \in Records
    BY <1>0 DEF TypeOK, Queues
  <2>2. stop \in States /\ r \in BOOLEAN
    BY <2>1, <1>0 DEF StillToRecover, Records, Stops, States, Terminal
  <2>3. r = (disk[j].recovery /\ stop \notin Terminal)
    BY <1>0 DEF StillToRecover
  <2> HIDE DEF r
  <2>4. /\ disk' \in Queues /\ mem' \in [Procs -> Queues] /\ leftover' = leftover
        /\ mem'[p] = disk' /\ \A q \in Procs : q # p => mem'[q] = mem[q]
        /\ disk'[j] # None /\ disk'[j].state = stop /\ disk'[j].recovery = r
        /\ \A k \in Jobs : k # j => disk'[k] = disk[k]
    BY <2>2, <1>0, <1>2, Stored DEF r
  <2>5. j \in verified => disk[j].recovery
    BY <1>0, <1>2 DEF QueueSound, CompletionTruthful, TransferIsDurable
  <2>6. /\ MemoryIsDisk' /\ StateReadable' /\ CompletionTruthful'
        /\ \A k \in verified' : disk'[k] # None
    BY <2>2, <2>3, <2>5, <1>0, <1>2, StoredSound DEF Stops, Terminal, r
  <2>7. WorkerSound' /\ TransferIsDurable'
    <3>1. ASSUME NEW q \in Procs, active[q] # None
          PROVE  active[q] \in Jobs /\ active[q] # j /\ disk'[active[q]] = disk[active[q]]
      BY <3>1, <2>4, <1>0, OneOpen DEF TypeOK
    <3>2. WorkerSound'
      BY <3>1, <1>0 DEF QueueSound, WorkerSound
    <3>3. TransferIsDurable'
      BY <3>1, <2>4, <1>0 DEF QueueSound, TransferIsDurable, Stops
    <3> QED BY <3>2, <3>3
  <2>8. MemoryKept
    BY <2>4, <1>0, <1>2 DEF MemoryKept
  <2>9. StopCalls(p, j, TRUE, TRUE, stop, {})
    BY <1>2 DEF StopCalls
  <2>10. cmd' \in [Commands -> Calls \cup {None}] /\ LocksHeld' /\ CallsKnown'
    <3>1. {} \in SUBSET Commands /\ TRUE \in BOOLEAN /\ UNCHANGED <<holder, up, active, gate>>
      BY <1>0
    <3> QED BY ONLY QueueSound, <2>8, <2>9, <3>1, StopKeepsCalls
  <2>11. TypeOK'
    BY <1>0, <2>4, <2>10 DEF TypeOK
  <2> QED BY <2>6, <2>7, <2>10, <2>11 DEF QueueSound
<1>3. CASE /\ mem[p][j].state \in Terminal
           /\ cmd' = [d \in Commands |-> Voided(p, j, FALSE, TRUE, d)]
           /\ UNCHANGED <<disk, leftover, mem>>
  BY <1>1, <1>3
<1>4. CASE cmd' = [d \in Commands |-> Voided(p, j, TRUE, FALSE, d)] /\ NotSaved
  BY <1>1, <1>4 DEF NotSaved
<1> QED BY <1>2, <1>3, <1>4 DEF StopInactive

(* A new job is stored, or refused, or cannot be stored.                   *)
LEMMA EnqueueSound ==
  ASSUME QueueSound, NEW c \in Commands, Enqueue(c)
  PROVE  QueueSound'
<1> DEFINE p == cmd[c].proc
           j == cmd[c].job
<1> USE DEF diskVars, procVars
<1>0. /\ TypeOK /\ UNCHANGED <<holder, up, fault, file, active, run, verified>> /\ Leave(c)
      /\ cmd[c] # None /\ cmd[c].at = "apply" /\ cmd[c].kind = "enqueue" /\ cmd[c].at \in Inside
  BY DEF QueueSound, Enqueue, At, Inside
<1>1. /\ p \in Procs /\ j \in Jobs /\ mem[p][j] = None /\ up[p] = "open"
      /\ \A d \in Commands : cmd[d] # None /\ cmd[d].proc = p /\ cmd[d].kind = "enqueue" /\ cmd[d].job = j => d = c
  BY <1>0, CallTyped DEF QueueSound, CallsKnown, LocksHeld, Of
<1>2. /\ gate' \in [Procs -> Commands \cup {None}] /\ cmd' \in [Commands -> Calls \cup {None}] /\ LocksHeld'
      /\ cmd'[c] = None /\ \A d \in Commands : d # c => cmd'[d] = cmd[d]
  BY <1>0, LeaveEnds, ReturnEnds DEF Leave
<1>3. CASE UNCHANGED <<disk, mem>> /\ leftover' \in {leftover, TRUE}
  <2>1. JobsSound'
    BY <1>0, <1>3, JobsUntouched
  <2>2. CallsKnown'
    BY <1>0, <1>3, ReturnKeeps, CallsKeptKnown DEF Leave
  <2>3. TypeOK'
    BY <1>0, <1>2, <1>3 DEF TypeOK
  <2> QED BY <1>2, <2>1, <2>2, <2>3 DEF QueueSound, JobsSound
<1>4. CASE ~fault[p] /\ Saved(p, Changed(p, j, "Queued", FALSE))
  <2>0. PICK r \in BOOLEAN : ~r /\ Saved(p, Changed(p, j, "Queued", r))
    BY <1>4
  <2>1. "Queued" \in States /\ "Queued" \notin Terminal
    BY DEF States, Terminal
  <2>2. /\ disk' \in Queues /\ mem' \in [Procs -> Queues] /\ leftover' = leftover
        /\ mem[p] = disk /\ mem'[p] = disk' /\ \A q \in Procs : q # p => mem'[q] = mem[q]
        /\ disk'[j] # None /\ disk'[j].state = "Queued"
        /\ \A k \in Jobs : k # j => disk'[k] = disk[k]
    BY <1>1, <1>4, <2>0, <2>1, Stored
  <2>3. disk[j] = None /\ j \notin verified
    BY <1>1, <2>2 DEF QueueSound
  <2>4. /\ MemoryIsDisk' /\ StateReadable' /\ CompletionTruthful'
        /\ \A k \in verified' : disk'[k] # None
    BY <1>0, <1>1, <1>4, <2>0, <2>1, <2>3, StoredSound
  <2>5. ASSUME NEW q \in Procs, active[q] # None
        PROVE  active[q] \in Jobs /\ active[q] # j /\ disk'[active[q]] = disk[active[q]]
    BY <2>5, <2>2, <2>3, <1>0 DEF QueueSound, WorkerSound, TypeOK
  <2>6. WorkerSound' /\ TransferIsDurable'
    <3>1. WorkerSound'
      BY <2>5, <1>0 DEF QueueSound, WorkerSound
    <3>2. TransferIsDurable'
      BY <2>5, <2>2, <1>0 DEF QueueSound, TransferIsDurable
    <3> QED BY <3>1, <3>2
  <2>7. ASSUME NEW d \in Commands PROVE CallKept(d)
    <3> SUFFICES ASSUME cmd'[d] # None PROVE CallKept(d)
      BY DEF CallKept
    <3>1. d # c /\ cmd'[d] = cmd[d] /\ cmd[d] # None /\ cmd[d].proc \in Procs
      BY <1>0, <1>2, CallTyped
    <3>2. ASSUME cmd[d].kind \in {"start", "enqueue"}
          PROVE  mem'[cmd[d].proc][cmd[d].job] = mem[cmd[d].proc][cmd[d].job]
      <4>1. cmd[d].job \in Jobs /\ (cmd[d].kind = "start" => mem[cmd[d].proc][cmd[d].job] # None)
        BY <3>1, <3>2 DEF QueueSound, CallsKnown
      <4>2. ~(cmd[d].proc = p /\ cmd[d].job = j)
        BY <4>1, <3>1, <3>2, <1>1
      <4> QED BY <4>1, <4>2, <3>1, <2>2
    <3> QED BY <3>1, <3>2 DEF CallKept
  <2>8. CallsKnown'
    BY <2>7, CallsKeptKnown
  <2>9. TypeOK'
    BY <1>0, <1>2, <2>2 DEF TypeOK
  <2> QED BY <1>2, <2>4, <2>6, <2>8, <2>9 DEF QueueSound
<1> QED BY <1>3, <1>4 DEF Enqueue, NotSaved

(* A start stores Running and gives the job to the worker, or does not.    *)
LEMMA BeginSound ==
  ASSUME QueueSound, NEW c \in Commands, Begin(c)
  PROVE  QueueSound'
<1> DEFINE p == cmd[c].proc
           j == cmd[c].job
<1> USE DEF diskVars, procVars
<1>0. /\ TypeOK /\ UNCHANGED <<holder, up, fault, file, verified>> /\ Leave(c)
      /\ cmd[c] # None /\ cmd[c].at = "apply" /\ cmd[c].kind = "start" /\ cmd[c].at \in Inside
  BY DEF QueueSound, Begin, At, Inside
<1>1. p \in Procs /\ j \in Jobs /\ mem[p][j] # None /\ up[p] = "open"
  BY <1>0, CallTyped DEF QueueSound, CallsKnown, LocksHeld
<1>2. cmd' \in [Commands -> Calls \cup {None}] /\ cmd'[c] = None /\ \A d \in Commands : d # c => cmd'[d] = cmd[d]
  BY <1>0, ReturnEnds DEF Leave
<1>3. CASE UNCHANGED <<disk, mem, active, run>> /\ leftover' \in {leftover, TRUE}
  <2>0. gate' \in [Procs -> Commands \cup {None}] /\ LocksHeld'
    BY <1>0, <1>3, LeaveEnds
  <2>1. JobsSound'
    BY <1>0, <1>3, JobsUntouched
  <2>2. CallsKnown'
    BY <1>0, <1>3, ReturnKeeps, CallsKeptKnown DEF Leave
  <2>3. TypeOK'
    BY <1>0, <1>2, <1>3, <2>0 DEF TypeOK
  <2> QED BY <2>0, <2>1, <2>2, <2>3 DEF QueueSound, JobsSound
<1>4. CASE /\ Startable(c)
           /\ Saved(p, Changed(p, j, "Running", mem[p][j].recovery))
           /\ active' = [active EXCEPT ![p] = j]
           /\ run' = [run EXCEPT ![p] = [Idle EXCEPT !.stage = "resolving", !.recovery = mem[p][j].recovery]]
  <2> DEFINE r == mem[p][j].recovery
             start == [Idle EXCEPT !.stage = "resolving", !.recovery = r]
  <2>1. ~fault[p] /\ active[p] = None /\ mem[p] = disk /\ Eligible(disk[j].state) /\ disk[j] # None /\ disk[j] \in Records
    BY <1>0, <1>1, <1>4 DEF QueueSound, MemoryIsDisk, Startable, TypeOK, Queues
  <2>2. r = disk[j].recovery /\ r \in BOOLEAN /\ "Running" \in States /\ "Running" \notin Terminal \cup {"Queued"}
    BY <2>1 DEF Records, States, Terminal
  <2>3. start \in Runs /\ start.stage = "resolving" /\ start.verdict = "Paused"
    BY <2>2 DEF Runs, Idle, Stages, Stops, States
  <2> HIDE DEF r, start
  <2>4. /\ disk' \in Queues /\ mem' \in [Procs -> Queues] /\ leftover' = leftover
        /\ mem'[p] = disk' /\ \A q \in Procs : q # p => mem'[q] = mem[q]
        /\ disk'[j] # None /\ disk'[j].state = "Running" /\ disk'[j].recovery = r
        /\ \A k \in Jobs : k # j => disk'[k] = disk[k]
    BY <1>1, <1>4, <2>1, <2>2, Stored DEF r
  <2>5. /\ MemoryIsDisk' /\ StateReadable' /\ CompletionTruthful'
        /\ \A k \in verified' : disk'[k] # None
    BY <1>0, <1>1, <1>4, <2>1, <2>2, StoredSound DEF r
  <2>6. /\ active' \in [Procs -> Jobs \cup {None}] /\ run' \in [Procs -> Runs]
        /\ active'[p] = j /\ run'[p] = start
        /\ \A q \in Procs : q # p => active'[q] = active[q] /\ active'[q] = None /\ run'[q] = run[q]
    BY <1>0, <1>1, <1>4, <2>3, OneOpen DEF TypeOK, start, r
  <2>7. j \in verified => r
    BY <1>1, <2>1, <2>2 DEF QueueSound, CompletionTruthful, Eligible
  <2>8. WorkerSound'
    BY <1>0, <2>1, <2>3, <2>4, <2>6, <2>7, NoneApart DEF QueueSound, WorkerSound
  <2>9. TransferIsDurable'
    <3>1. ASSUME NEW k \in Jobs, disk'[k] # None, disk'[k].state = "Running"
          PROVE  k = j
      BY <3>1, <2>1, <2>4, <1>1, NoneApart DEF QueueSound, TransferIsDurable
    <3> QED BY <3>1, <1>0, <1>1, <2>3, <2>4, <2>6, OneOpen DEF TransferIsDurable
  <2>10. gate' \in [Procs -> Commands \cup {None}] /\ \A q \in Procs : q # p => gate'[q] = gate[q]
    BY <1>0, <1>1 DEF Leave, TypeOK
  <2>11. LocksHeld'
    <3>1. ASSUME NEW d \in Commands, cmd'[d] # None, cmd'[d].at \in Inside
          PROVE  d # c /\ cmd'[d] = cmd[d] /\ cmd[d].proc # p /\ cmd[d].proc \in Procs
      BY <3>1, <1>0, <1>2, InsideAlone, CallTyped
    <3> QED BY <3>1, <1>0, <2>6, <2>10 DEF QueueSound, LocksHeld, At
  <2>12. MemoryKept
    BY <2>1, <2>4 DEF MemoryKept, Eligible
  <2>13. CallsKnown'
    BY <2>12, <1>2, MemoryKeepsCalls, CallsKeptKnown
  <2>14. TypeOK'
    <3>1. \A q \in Procs : active'[q] = None <=> run'[q].stage = "none"
      BY <1>0, <1>1, <2>3, <2>6, NoneApart DEF TypeOK
    <3> QED BY <3>1, <1>0, <1>2, <2>4, <2>6, <2>10 DEF TypeOK
  <2> QED BY <2>5, <2>8, <2>9, <2>11, <2>13, <2>14 DEF QueueSound
<1> QED BY <1>3, <1>4 DEF Begin, NotSaved

-----------------------------------------------------------------------------
(* The worker.                                                             *)

(* A worker has a job, in the one open queue.                              *)
LEMMA WorkerOpen ==
  ASSUME QueueSound, NEW p \in Procs, run[p].stage # "none"
  PROVE  /\ active[p] \in Jobs /\ up[p] = "open" /\ holder = p
         /\ \A q \in Procs : q # p => up[q] # "open" /\ active[q] = None
<1>1. active[p] # None /\ active[p] \in Jobs \cup {None}
  BY DEF QueueSound, TypeOK
<1>2. up[p] = "open"
  BY <1>1 DEF QueueSound, TransferIsDurable
<1> QED BY <1>1, <1>2, OneOpen

(* What a step of the worker before Finish does to it: it goes on, or      *)
(* decides how to end, and decides Completed only if it has verified.      *)
WorkerMoved(p, new) ==
  /\ run[p].stage \in {"resolving", "authorized", "promoting"}
  /\ run' = [run EXCEPT ![p] = new]
  /\ new.stage \in {"authorized", "promoting", "finishing"}
  /\ new.verdict \notin {"Running", "Queued"}
  /\ IF new.stage = "finishing" /\ new.verdict = "Completed"
     THEN verified' = verified \cup {active[p]} ELSE verified' = verified
  /\ file' \in [Targets -> {"absent", "pinned", "other"}]

(* Every such step has that form.                                          *)
LEMMA WorkerMovesShape ==
  ASSUME QueueSound, NEW p \in Procs, WorkerMoves(p)
  PROVE  \E new \in Runs : WorkerMoved(p, new)
<1> DEFINE at(stage) == [run[p] EXCEPT !.stage = stage]
           end(verdict) == [run[p] EXCEPT !.stage = "finishing", !.verdict = verdict]
<1>0. run[p] \in Runs /\ run \in [Procs -> Runs] /\ file \in [Targets -> {"absent", "pinned", "other"}]
      /\ run[p].verdict \notin {"Running", "Queued"} /\ run[p].stop \in Stops
  BY DEF QueueSound, TypeOK, WorkerSound, Runs
<1>1. ASSUME NEW stage \in {"authorized", "promoting"}
      PROVE  at(stage) \in Runs /\ at(stage).stage = stage /\ at(stage).verdict = run[p].verdict
  BY <1>0 DEF Runs, Stages
<1>2. ASSUME NEW verdict \in States
      PROVE  end(verdict) \in Runs /\ end(verdict).stage = "finishing" /\ end(verdict).verdict = verdict
  BY <1>0 DEF Runs, Stages
<1>3. ASSUME NEW stage, Stage(p, stage) PROVE run' = [run EXCEPT ![p] = at(stage)]
  BY <1>3 DEF Stage
<1>4. ASSUME NEW verdict, Decide(p, verdict) PROVE run' = [run EXCEPT ![p] = end(verdict)]
  BY <1>4, <1>0 DEF Decide, Runs
<1>5. {"VersionChanged", "Failed", "Completed", "Paused", "Cancelled"} \subseteq States /\ run[p].stop \in {"Paused", "Cancelled"}
  BY <1>0 DEF States, Terminal, Stops
<1> HIDE DEF at, end
<1>6. CASE Authorized(p)
  <2>1. WorkerMoved(p, at("authorized")) /\ at("authorized") \in Runs
    BY <1>0, <1>1, <1>3, <1>6 DEF WorkerMoved, Authorized
  <2> QED BY <2>1
<1>7. CASE VersionChanges(p)
  <2>1. WorkerMoved(p, end("VersionChanged")) /\ end("VersionChanged") \in Runs
    BY <1>0, <1>2, <1>4, <1>5, <1>7 DEF WorkerMoved, VersionChanges
  <2> QED BY <2>1
<1>8. CASE Fails(p)
  <2>1. WorkerMoved(p, end("Failed")) /\ end("Failed") \in Runs
    BY <1>0, <1>2, <1>4, <1>5, <1>8 DEF WorkerMoved, Fails
  <2> QED BY <2>1
<1>9. CASE Stopped(p)
  <2>1. WorkerMoved(p, end(run[p].stop)) /\ end(run[p].stop) \in Runs
    BY <1>0, <1>2, <1>4, <1>5, <1>9 DEF WorkerMoved, Stopped
  <2> QED BY <2>1
<1>10. CASE RecoverExisting(p)
  <2>1. \/ WorkerMoved(p, end("Completed")) /\ end("Completed") \in Runs
        \/ WorkerMoved(p, end("Failed")) /\ end("Failed") \in Runs
    BY <1>0, <1>2, <1>4, <1>5, <1>10 DEF WorkerMoved, RecoverExisting
  <2> QED BY <2>1
<1>11. CASE Receive(p)
  <2>1. WorkerMoved(p, at("promoting")) /\ at("promoting") \in Runs
    BY <1>0, <1>1, <1>3, <1>11 DEF WorkerMoved, Receive
  <2> QED BY <2>1
<1>12. CASE Promote(p)
  <2>1. WorkerMoved(p, end("Completed")) /\ end("Completed") \in Runs
    BY <1>0, <1>2, <1>4, <1>5, <1>12 DEF WorkerMoved, Promote
  <2> QED BY <2>1
<1> QED BY <1>6, <1>7, <1>8, <1>9, <1>10, <1>11, <1>12 DEF WorkerMoves

(* The worker works.                                                       *)
LEMMA WorkerMovesSound ==
  ASSUME QueueSound, NEW p \in Procs, WorkerMoves(p)
  PROVE  QueueSound'
<1> USE DEF diskVars, procVars
<1>0. TypeOK /\ UNCHANGED <<disk, leftover, holder, up, fault, mem, active, gate, cmd>>
  BY DEF QueueSound, WorkerMoves
<1>1. PICK new \in Runs : WorkerMoved(p, new)
  BY WorkerMovesShape
<1>2. /\ active[p] \in Jobs /\ up[p] = "open" /\ holder = p
      /\ \A q \in Procs : q # p => up[q] # "open" /\ active[q] = None
  BY <1>1, WorkerOpen DEF WorkerMoved
<1>3. run' \in [Procs -> Runs] /\ run'[p] = new /\ \A q \in Procs : q # p => run'[q] = run[q]
  BY <1>0, <1>1 DEF WorkerMoved, TypeOK
<1>4. /\ disk[active[p]] # None /\ disk[active[p]].state = "Running"
      /\ ~fault[p] /\ (active[p] \in verified => disk[active[p]].recovery)
  BY <1>1, <1>2, NoneApart DEF QueueSound, WorkerSound, TransferIsDurable, WorkerMoved
<1>5. TypeOK'
  <2>1. \A q \in Procs : active'[q] = None <=> run'[q].stage = "none"
    BY <1>0, <1>1, <1>2, <1>3, NoneApart DEF TypeOK, WorkerMoved
  <2> QED BY <2>1, <1>0, <1>1, <1>2, <1>3 DEF TypeOK, WorkerMoved
<1>6. WorkerSound'
  BY <1>0, <1>1, <1>2, <1>3, <1>4, NoneApart DEF QueueSound, WorkerSound, WorkerMoved
<1>7. TransferIsDurable'
  BY <1>0, <1>1, <1>2, <1>3, <1>4 DEF QueueSound, TransferIsDurable, WorkerMoved
<1>8. CompletionTruthful' /\ \A j \in verified' : disk'[j] # None
  BY <1>0, <1>1, <1>4 DEF QueueSound, CompletionTruthful, WorkerMoved
<1>9. LocksHeld' /\ CallsKnown' /\ MemoryIsDisk' /\ StateReadable'
  BY <1>0 DEF QueueSound, LocksHeld, CallsKnown, MemoryIsDisk, StateReadable, Readable, At, Of
<1> QED BY <1>5, <1>6, <1>7, <1>8, <1>9 DEF QueueSound

(* The ending is stored, or the queue is at fault.                         *)
LEMMA FinishSound ==
  ASSUME QueueSound, NEW p \in Procs, Finish(p)
  PROVE  QueueSound'
<1> DEFINE j == active[p]
           v == run[p].verdict
           r == StillToRecover(p, j, v)
           new == [run[p] EXCEPT !.stage = "finished"]
<1>0. TypeOK /\ run[p].stage = "finishing" /\ UNCHANGED <<holder, up, file, active, gate, cmd, verified>>
  BY DEF QueueSound, Finish
<1>1. /\ j \in Jobs /\ up[p] = "open" /\ holder = p
      /\ \A q \in Procs : q # p => up[q] # "open" /\ active[q] = None
  BY <1>0, WorkerOpen
<1>2. /\ ~fault[p] /\ mem[p] = disk /\ disk[j] # None /\ disk[j].state = "Running"
      /\ v \notin {"Running", "Queued"} /\ (v = "Completed" => j \in verified)
      /\ j \in verified => v = "Completed" \/ disk[j].recovery
  BY <1>0, <1>1, NoneApart DEF QueueSound, WorkerSound, TransferIsDurable, MemoryIsDisk
<1>3. disk[j] \in Records /\ run[p] \in Runs /\ v \in States
  BY <1>0, <1>1, <1>2 DEF TypeOK, Queues, Runs
<1>4. r \in BOOLEAN /\ r = (disk[j].recovery /\ v \notin Terminal)
  BY <1>2, <1>3 DEF StillToRecover, Records
<1>5. new \in Runs /\ new.stage = "finished" /\ new.verdict = v
  BY <1>3 DEF Runs, Stages
<1>6. run' \in [Procs -> Runs] /\ run'[p] = new /\ \A q \in Procs : q # p => run'[q] = run[q]
  <2>1. run' = [run EXCEPT ![p] = new]
    BY DEF Finish, Stage
  <2> QED BY <2>1, <1>0, <1>5 DEF TypeOK
<1>7. \A q \in Procs : active'[q] = None <=> run'[q].stage = "none"
  BY <1>0, <1>1, <1>5, <1>6, NoneApart DEF TypeOK
<1>8. LocksHeld'
  BY <1>0 DEF QueueSound, LocksHeld, At
<1> HIDE DEF j, v, r, new
<1>9. CASE Saved(p, Changed(p, j, v, r)) /\ UNCHANGED fault
  <2>1. /\ disk' \in Queues /\ mem' \in [Procs -> Queues] /\ leftover' = leftover
        /\ mem'[p] = disk' /\ \A q \in Procs : q # p => mem'[q] = mem[q]
        /\ disk'[j] # None /\ disk'[j].state = v /\ disk'[j].recovery = r
        /\ \A k \in Jobs : k # j => disk'[k] = disk[k]
    BY <1>1, <1>2, <1>3, <1>4, <1>9, Stored
  <2>2. /\ MemoryIsDisk' /\ StateReadable' /\ CompletionTruthful'
        /\ \A k \in verified' : disk'[k] # None
    <3>1. r => v \notin Terminal \cup {"Queued"}
      BY <1>2, <1>4
    <3>2. j \in verified => v \in Terminal \cup {"Running"} \/ r
      BY <1>2, <1>4 DEF Terminal
    <3> QED BY <3>1, <3>2, <1>0, <1>1, <1>2, <1>3, <1>4, <1>9, StoredSound
  <2>3. WorkerSound'
    BY <2>1, <1>0, <1>1, <1>2, <1>5, <1>6, <1>9, NoneApart DEF QueueSound, WorkerSound, j
  <2>4. TransferIsDurable'
    <3>1. ASSUME NEW k \in Jobs, disk'[k] # None PROVE disk'[k].state # "Running"
      BY <3>1, <2>1, <1>1, <1>2 DEF QueueSound, TransferIsDurable, j
    <3> QED BY <3>1, <1>0, <1>1, <1>5, <1>6 DEF QueueSound, TransferIsDurable
  <2>5. MemoryKept
    BY <2>1, <1>1, <1>2 DEF MemoryKept, Terminal
  <2>6. CallsKnown'
    BY <2>5, <1>0, MemoryKeepsCalls, CallsKeptKnown
  <2>7. TypeOK'
    BY <2>1, <1>0, <1>6, <1>7, <1>9 DEF TypeOK
  <2> QED BY <2>2, <2>3, <2>4, <2>6, <2>7, <1>8 DEF QueueSound
<1>10. CASE /\ leftover' \in {leftover, TRUE}
            /\ fault' = [fault EXCEPT ![p] = TRUE]
            /\ mem' = IF v = "Completed" THEN [mem EXCEPT ![p] = Changed(p, j, v, FALSE)] ELSE mem
            /\ UNCHANGED disk
  <2> DEFINE rec == [state |-> v, recovery |-> FALSE]
  <2>1. rec \in Records /\ rec.state = v
    BY <1>3 DEF Records
  <2>2. rec # None
    BY <2>1, NoneApart
  <2>3. /\ mem' \in [Procs -> Queues]
        /\ \A q \in Procs : q # p => mem'[q] = mem[q]
        /\ \A k \in Jobs : k # j => mem'[p][k] = disk[k]
        /\ mem'[p][j] = IF v = "Completed" THEN rec ELSE disk[j]
    <3>1. mem \in [Procs -> Queues] /\ disk \in Queues
      BY <1>0 DEF TypeOK
    <3>2. [disk EXCEPT ![j] = rec] \in Queues
      BY <3>1, <2>1 DEF Queues
    <3>3. mem' = IF v = "Completed" THEN [mem EXCEPT ![p] = [disk EXCEPT ![j] = rec]] ELSE mem
      BY <1>2, <1>10 DEF Changed
    <3> QED BY <3>1, <3>2, <3>3, <1>1, <1>2 DEF Queues
  <2> HIDE DEF rec
  <2>4. fault' \in [Procs -> BOOLEAN] /\ fault'[p] /\ \A q \in Procs : q # p => fault'[q] = fault[q]
    BY <1>0, <1>10 DEF TypeOK
  <2>5. MemoryIsDisk'
    <3>1. ASSUME NEW k \in Jobs, mem'[p][k] # disk[k]
          PROVE  mem'[p][k].state = "Completed" /\ disk[k].state = "Running"
      <4>1. k = j
        BY <3>1, <2>3
      <4>2. v = "Completed"
        BY <4>1, <3>1, <2>3
      <4>3. mem'[p][j] = rec
        BY <4>2, <2>3
      <4>4. rec.state = "Completed"
        BY <4>2, <2>1
      <4>5. mem'[p][k].state = "Completed"
        BY <4>1, <4>3, <4>4
      <4>6. disk[k].state = "Running"
        BY <4>1, <1>2
      <4> QED BY <4>5, <4>6
    <3>2. disk' = disk /\ fault'[p] /\ \A q \in Procs : up'[q] = "open" => q = p /\ holder' = p
      BY <2>4, <1>0, <1>1, <1>10
    <3> QED BY <3>1, <3>2 DEF MemoryIsDisk
  <2>6. WorkerSound'
    BY <2>4, <1>0, <1>1, <1>2, <1>5, <1>6, <1>10, NoneApart DEF QueueSound, WorkerSound, j
  <2>7. TransferIsDurable'
    BY <2>4, <1>0, <1>1, <1>5, <1>6, <1>10 DEF QueueSound, TransferIsDurable
  <2>8. MemoryKept
    BY <2>1, <2>2, <2>3, <1>1, <1>2 DEF MemoryKept, Terminal
  <2>9. CallsKnown'
    BY <2>8, <1>0, MemoryKeepsCalls, CallsKeptKnown
  <2>10. StateReadable' /\ CompletionTruthful' /\ \A k \in verified' : disk'[k] # None
    BY <1>0, <1>10 DEF QueueSound, StateReadable, Readable, CompletionTruthful
  <2>11. TypeOK'
    BY <2>3, <2>4, <1>0, <1>6, <1>7, <1>10 DEF TypeOK
  <2> QED BY <2>5, <2>6, <2>7, <2>9, <2>10, <2>11, <1>8 DEF QueueSound
<1> QED BY <1>9, <1>10 DEF Finish, j, v, r

(* The worker has ended: pending stops return, and whoever drained the     *)
(* queue goes on.                                                          *)
LEMMA EndSound ==
  ASSUME QueueSound, NEW p \in Procs, End(p)
  PROVE  QueueSound'
<1> USE DEF diskVars, procVars
<1>0. /\ TypeOK /\ run[p].stage = "finished"
      /\ UNCHANGED <<disk, leftover, holder, up, fault, file, mem, gate, verified>>
  BY DEF QueueSound, End
<1>1. /\ active[p] \in Jobs /\ up[p] = "open"
      /\ \A q \in Procs : q # p => up[q] # "open" /\ active[q] = None
  BY <1>0, WorkerOpen
<1>2. Idle \in Runs /\ Idle.stage = "none" /\ Idle.verdict = "Paused"
  BY DEF Idle, Runs, Stages, Stops, States, Terminal
<1>3. /\ run' \in [Procs -> Runs] /\ run'[p] = Idle /\ \A q \in Procs : q # p => run'[q] = run[q]
      /\ active' \in [Procs -> Jobs \cup {None}] /\ active'[p] = None
      /\ \A q \in Procs : q # p => active'[q] = active[q]
  BY <1>0, <1>2 DEF End, TypeOK
<1>4. ASSUME NEW d \in Commands
      PROVE  /\ cmd'[d] \in Calls \cup {None}
             /\ cmd'[d] # None =>
                  /\ cmd[d] # None
                  /\ cmd'[d].kind = cmd[d].kind /\ cmd'[d].proc = cmd[d].proc /\ cmd'[d].job = cmd[d].job
                  /\ cmd'[d].valid = cmd[d].valid /\ cmd'[d].outrun = cmd[d].outrun
                  /\ \/ cmd'[d].at = cmd[d].at
                     \/ cmd[d].proc = p /\ cmd[d].at = "drain" /\ cmd'[d].at = "drained"
  <2>1. CASE d \in Of(p) /\ At(d, "pending")
    <3>1. cmd'[d] = None
      BY <2>1 DEF End, At
    <3> QED BY <3>1
  <2>2. CASE d \in Of(p) /\ At(d, "drain")
    <3>1. cmd[d] \in Calls /\ cmd[d] # None /\ cmd[d].at = "drain" /\ cmd[d].proc = p
      BY <2>2, <1>0, CallTyped DEF Of, At
    <3>2. cmd'[d] = [cmd[d] EXCEPT !.at = "drained"]
      BY <2>2, <3>1 DEF End, At
    <3> QED BY <3>1, <3>2 DEF Calls, Awaits
  <2>3. CASE ~(d \in Of(p) /\ At(d, "pending")) /\ ~(d \in Of(p) /\ At(d, "drain"))
    <3>1. cmd'[d] = cmd[d]
      BY <2>3 DEF End
    <3> QED BY <3>1, <1>0 DEF TypeOK
  <2> QED BY <2>1, <2>2, <2>3
<1>5. \A d \in Commands : CallKept(d)
  BY <1>0, <1>4 DEF CallKept
<1>6. CallsKnown'
  BY <1>5, CallsKeptKnown
<1>7. LocksHeld'
  <2>1. ASSUME NEW d \in Commands, cmd'[d] # None, cmd'[d].at \in Inside
        PROVE  /\ gate[cmd'[d].proc] = d /\ up[cmd'[d].proc] = "open"
               /\ cmd'[d].at = "drained" => active'[cmd'[d].proc] = None
    <3>1. cmd[d] # None /\ cmd[d].at \in Inside /\ cmd'[d].proc = cmd[d].proc /\ cmd[d].proc \in Procs
      BY <2>1, <1>0, <1>4, CallTyped DEF Inside
    <3> QED BY <2>1, <3>1, <1>1, <1>3 DEF QueueSound, LocksHeld
  <2> QED BY <2>1, <1>0 DEF QueueSound, LocksHeld, At
<1>8. WorkerSound'
  BY <1>0, <1>1, <1>2, <1>3 DEF QueueSound, WorkerSound
<1>9. TransferIsDurable'
  <2>1. ASSUME NEW k \in Jobs, disk[k] # None, disk[k].state = "Running"
        PROVE  fault[p]
    BY <2>1, <1>0, <1>1, NoneApart DEF QueueSound, WorkerSound, TransferIsDurable
  <2> QED BY <2>1, <1>0, <1>1, <1>3 DEF QueueSound, TransferIsDurable
<1>10. MemoryIsDisk' /\ StateReadable' /\ CompletionTruthful' /\ \A k \in verified' : disk'[k] # None
  BY <1>0 DEF QueueSound, MemoryIsDisk, StateReadable, Readable, CompletionTruthful
<1>11. TypeOK'
  <2>1. \A q \in Procs : active'[q] = None <=> run'[q].stage = "none"
    BY <1>0, <1>2, <1>3 DEF TypeOK
  <2>2. cmd' \in [Commands -> Calls \cup {None}]
    BY <1>4 DEF End
  <2> QED BY <2>1, <2>2, <1>0, <1>3 DEF TypeOK
<1> QED BY <1>6, <1>7, <1>8, <1>9, <1>10, <1>11 DEF QueueSound

-----------------------------------------------------------------------------
(* Opening, closing and the environment.                                   *)

(* A closed queue has no worker, whatever it was before.                   *)
LEMMA ClosedIdle ==
  ASSUME QueueSound, NEW p \in Procs, up[p] # "open"
  PROVE  active[p] = None /\ run[p].stage = "none"
  BY DEF QueueSound, TypeOK, TransferIsDurable

(* A drained call throws; a drained dispose closes the queue.              *)
LEMMA DrainedSound ==
  ASSUME QueueSound, NEW c \in Commands, Drained(c)
  PROVE  QueueSound'
<1> DEFINE p == cmd[c].proc
<1> USE DEF diskVars, procVars
<1>0. /\ TypeOK /\ cmd[c] # None /\ cmd[c].at = "drained" /\ cmd[c].at \in Inside /\ Leave(c)
      /\ UNCHANGED <<disk, leftover, file, mem, active, run, verified, fault>>
  BY DEF QueueSound, Drained, At, Inside
<1>1. p \in Procs /\ up[p] = "open" /\ active[p] = None /\ holder = p
      /\ \A q \in Procs : q # p => up[q] # "open" /\ active[q] = None
  BY <1>0, CallTyped, OneOpen DEF QueueSound, LocksHeld, At
<1>2. CallsKnown'
  BY <1>0, ReturnKeeps, CallsKeptKnown DEF Leave
<1>3. CASE UNCHANGED <<holder, up>>
  <2>1. gate' \in [Procs -> Commands \cup {None}] /\ cmd' \in [Commands -> Calls \cup {None}] /\ LocksHeld'
    BY <1>0, <1>3, LeaveEnds
  <2>2. JobsSound'
    BY <1>0, <1>3, JobsUntouched
  <2>3. TypeOK'
    BY <2>1, <1>0, <1>3 DEF TypeOK
  <2> QED BY <2>1, <2>2, <2>3, <1>2 DEF QueueSound, JobsSound
<1>4. CASE up' = [up EXCEPT ![p] = "disposed"] /\ holder' = None
  <2>1. up' \in [Procs -> {"down", "open", "disposed"}] /\ \A q \in Procs : up'[q] # "open"
    BY <1>0, <1>1, <1>4 DEF TypeOK
  <2>2. cmd' \in [Commands -> Calls \cup {None}] /\ cmd'[c] = None /\ \A d \in Commands : d # c => cmd'[d] = cmd[d]
    BY <1>0, ReturnEnds DEF Leave
  <2>3. gate' \in [Procs -> Commands \cup {None}]
    BY <1>0 DEF Leave, TypeOK
  <2>4. ASSUME NEW d \in Commands, cmd'[d] # None PROVE cmd'[d].at \notin Inside
    <3> SUFFICES ASSUME cmd'[d].at \in Inside PROVE FALSE
      OBVIOUS
    <3>1. d # c /\ cmd'[d] = cmd[d] /\ cmd[d].proc \in Procs /\ up[cmd[d].proc] = "open"
      BY <2>2, <2>4, <1>0, CallTyped DEF QueueSound, LocksHeld
    <3> QED BY <3>1, <2>4, <1>0, <1>1, InsideAlone
  <2>5. LocksHeld'
    BY <2>1, <2>4, <1>4, NoneApart DEF LocksHeld
  <2>6. TypeOK'
    BY <2>1, <2>2, <2>3, <1>0, <1>4 DEF TypeOK
  <2>7. WorkerSound'
    BY <1>0 DEF QueueSound, WorkerSound
  <2>8. MemoryIsDisk' /\ TransferIsDurable'
    BY <2>1, <1>0, <1>1 DEF MemoryIsDisk, TransferIsDurable
  <2>9. StateReadable' /\ CompletionTruthful' /\ \A k \in verified' : disk'[k] # None
    BY <1>0 DEF QueueSound, StateReadable, Readable, CompletionTruthful
  <2> QED BY <2>5, <2>6, <2>7, <2>8, <2>9, <1>2 DEF QueueSound
<1> QED BY <1>3, <1>4 DEF Drained

(* A queue is opened: what was Running is to be recovered.                 *)
LEMMA OpenSound ==
  ASSUME QueueSound, NEW p \in Procs, Open(p)
  PROVE  QueueSound'
<1> USE DEF diskVars, procVars
<1>0. /\ TypeOK /\ up[p] # "open" /\ Of(p) = {} /\ holder = None
      /\ UNCHANGED <<file, active, run, gate, cmd, verified>>
  BY DEF QueueSound, Open
<1>1. \A q \in Procs : up[q] # "open" /\ active[q] = None /\ run[q].stage = "none"
  <2>1. \A q \in Procs : up[q] # "open"
    BY <1>0, NoneApart DEF QueueSound, LocksHeld
  <2> QED BY <2>1, ClosedIdle
<1>2. ASSUME NEW d \in Commands, cmd[d] # None
      PROVE  cmd[d].proc \in Procs /\ cmd[d].proc # p /\ cmd[d].at \notin Inside
  BY <1>2, <1>0, <1>1, CallTyped DEF QueueSound, LocksHeld, Of
<1>3. CASE NotSaved /\ UNCHANGED <<holder, up, fault>>
  <2>1. JobsSound'
    BY <1>0, <1>3, JobsUntouched DEF NotSaved
  <2>2. LocksHeld' /\ CallsKnown'
    BY <1>0, <1>3 DEF NotSaved, QueueSound, LocksHeld, CallsKnown, At, Of
  <2>3. TypeOK'
    BY <1>0, <1>3 DEF NotSaved, TypeOK
  <2> QED BY <2>1, <2>2, <2>3 DEF QueueSound, JobsSound
<1>4. CASE /\ Saved(p, Recovered)
           /\ holder' = p
           /\ up' = [up EXCEPT ![p] = "open"]
           /\ fault' = [fault EXCEPT ![p] = FALSE]
  <2> DEFINE rec == [state |-> "Paused", recovery |-> TRUE]
  <2>1. rec \in Records /\ rec.state = "Paused" /\ rec.recovery
    BY DEF Records, States
  <2>2. rec # None
    BY <2>1, NoneApart
  <2>3. ASSUME NEW k \in Jobs
        PROVE  /\ disk'[k] = IF disk[k] # None /\ disk[k].state = "Running" THEN rec ELSE disk[k]
               /\ disk'[k] \in Records \cup {None}
    BY <2>1, <1>0, <1>4 DEF Saved, Recovered, TypeOK, Queues
  <2> HIDE DEF rec
  <2>4. disk' \in Queues
    BY <2>3, <1>4 DEF Saved, Recovered, Queues
  <2>5. ASSUME NEW k \in Jobs, disk'[k] # None
        PROVE  /\ disk[k] # None /\ disk'[k].state # "Running"
               /\ \/ disk[k].state = "Running" /\ disk'[k].state = "Paused" /\ disk'[k].recovery
                  \/ disk'[k] = disk[k]
    BY <2>1, <2>2, <2>3, <2>5
  <2>6. ASSUME NEW k \in Jobs, disk[k] # None PROVE disk'[k] # None
    BY <2>2, <2>3, <2>6
  <2>7. /\ mem' \in [Procs -> Queues] /\ mem'[p] = disk' /\ leftover' = leftover
        /\ \A q \in Procs : q # p => mem'[q] = mem[q]
    BY <2>4, <1>0, <1>4 DEF Saved, TypeOK
  <2>8. /\ up' \in [Procs -> {"down", "open", "disposed"}] /\ up'[p] = "open"
        /\ \A q \in Procs : q # p => up'[q] # "open"
        /\ fault' \in [Procs -> BOOLEAN] /\ ~fault'[p] /\ \A q \in Procs : q # p => fault'[q] = fault[q]
    BY <1>0, <1>1, <1>4 DEF TypeOK
  <2>9. TypeOK'
    BY <2>4, <2>7, <2>8, <1>0, <1>4 DEF TypeOK
  <2>10. LocksHeld'
    BY <2>8, <1>0, <1>2, <1>4 DEF LocksHeld
  <2>11. CallsKnown'
    <3>1. \A d \in Commands : CallKept(d)
      BY <2>7, <1>0, <1>2 DEF CallKept
    <3> QED BY <3>1, CallsKeptKnown
  <2>12. WorkerSound'
    BY <2>8, <1>0, <1>1 DEF QueueSound, WorkerSound
  <2>13. MemoryIsDisk' /\ TransferIsDurable'
    <3>1. MemoryIsDisk'
      BY <2>7, <2>8, <1>4 DEF MemoryIsDisk
    <3>2. TransferIsDurable'
      BY <2>5, <1>0, <1>1 DEF TransferIsDurable
    <3> QED BY <3>1, <3>2
  <2>14. StateReadable'
    BY <2>5 DEF QueueSound, StateReadable, Readable, Terminal
  <2>15. CompletionTruthful'
    BY <2>5, <1>0 DEF QueueSound, CompletionTruthful
  <2>16. \A k \in verified' : disk'[k] # None
    BY <2>6, <1>0 DEF QueueSound, TypeOK
  <2> QED BY <2>9, <2>10, <2>11, <2>12, <2>13, <2>14, <2>15, <2>16 DEF QueueSound
<1> QED BY <1>3, <1>4 DEF Open

(* The process ends; queue.json stays as it was.                           *)
LEMMA CrashSound ==
  ASSUME QueueSound, NEW p \in Procs, Crash(p)
  PROVE  QueueSound'
<1>0. /\ TypeOK /\ up[p] = "open" /\ holder' = None /\ leftover' \in {leftover, TRUE}
      /\ UNCHANGED <<disk, file, verified>>
  BY DEF QueueSound, Crash
<1>1. holder = p /\ \A q \in Procs : q # p => up[q] # "open" /\ active[q] = None
  BY <1>0, OneOpen
<1>2. Idle \in Runs /\ Idle.stage = "none" /\ Idle.verdict = "Paused"
  BY DEF Idle, Runs, Stages, Stops, States, Terminal
<1>3. /\ run' \in [Procs -> Runs] /\ run'[p] = Idle /\ \A q \in Procs : q # p => run'[q] = run[q]
      /\ active' \in [Procs -> Jobs \cup {None}] /\ active'[p] = None
      /\ \A q \in Procs : q # p => active'[q] = active[q]
  BY <1>0, <1>2 DEF Crash, TypeOK
<1>4. /\ up' \in [Procs -> {"down", "open", "disposed"}] /\ \A q \in Procs : up'[q] # "open"
      /\ fault' \in [Procs -> BOOLEAN] /\ ~fault'[p] /\ \A q \in Procs : q # p => fault'[q] = fault[q]
      /\ gate' \in [Procs -> Commands \cup {None}]
  BY <1>0, <1>1 DEF Crash, TypeOK
<1>5. mem' \in [Procs -> Queues] /\ \A q \in Procs : q # p => mem'[q] = mem[q]
  BY <1>0 DEF Crash, TypeOK, Queues
<1>6. /\ cmd' \in [Commands -> Calls \cup {None}]
      /\ \A d \in Commands : cmd'[d] # None => cmd'[d] = cmd[d] /\ cmd[d].proc # p
  BY <1>0 DEF Crash, TypeOK, Of
<1>7. ASSUME NEW d \in Commands, cmd'[d] # None
      PROVE  cmd[d].proc \in Procs /\ cmd'[d].at \notin Inside
  BY <1>7, <1>0, <1>1, <1>6, CallTyped DEF QueueSound, LocksHeld
<1>8. TypeOK'
  <2>1. \A q \in Procs : active'[q] = None <=> run'[q].stage = "none"
    BY <1>0, <1>2, <1>3 DEF TypeOK
  <2> QED BY <2>1, <1>0, <1>3, <1>4, <1>5, <1>6 DEF TypeOK
<1>9. LocksHeld'
  BY <1>0, <1>4, <1>7, NoneApart DEF LocksHeld
<1>10. CallsKnown'
  <2>1. \A d \in Commands : CallKept(d)
    BY <1>5, <1>6, <1>7 DEF CallKept
  <2> QED BY <2>1, CallsKeptKnown
<1>11. WorkerSound'
  BY <1>0, <1>1, <1>2, <1>3, <1>4 DEF QueueSound, WorkerSound
<1>12. MemoryIsDisk' /\ TransferIsDurable'
  BY <1>1, <1>3, <1>4 DEF MemoryIsDisk, TransferIsDurable
<1>13. StateReadable' /\ CompletionTruthful' /\ \A k \in verified' : disk'[k] # None
  BY <1>0 DEF QueueSound, StateReadable, Readable, CompletionTruthful
<1> QED BY <1>8, <1>9, <1>10, <1>11, <1>12, <1>13 DEF QueueSound

(* A user's file changes nothing of the queue, nor does a step of          *)
(* something else.                                                         *)
LEMMA OutsideSound ==
  ASSUME QueueSound, file' \in [Targets -> {"absent", "pinned", "other"}],
         UNCHANGED <<diskVars, procVars, mem, active, run, gate, cmd, verified>>
  PROVE  QueueSound'
<1> USE DEF diskVars, procVars
<1>1. TypeOK'
  BY DEF QueueSound, TypeOK
<1>2. LocksHeld' /\ CallsKnown'
  BY DEF QueueSound, LocksHeld, CallsKnown, At, Of
<1>3. JobsSound'
  BY JobsUntouched
<1> QED BY <1>1, <1>2, <1>3 DEF QueueSound, JobsSound

-----------------------------------------------------------------------------
(* Every step keeps the invariant.                                         *)
LEMMA NextSound ==
  ASSUME QueueSound, [Next]_vars
  PROVE  QueueSound'
<1>1. CASE UNCHANGED vars
  BY <1>1, OutsideSound DEF vars, QueueSound, TypeOK
<1>2. CASE \E t \in Targets : UserTouches(t)
  <2>1. file' \in [Targets -> {"absent", "pinned", "other"}]
    BY <1>2 DEF UserTouches, QueueSound, TypeOK
  <2> QED BY <2>1, <1>2, OutsideSound DEF UserTouches
<1>3. CASE \E p \in Procs : Open(p) \/ WorkerStep(p) \/ Crash(p)
  BY <1>3, OpenSound, WorkerMovesSound, FinishSound, EndSound, CrashSound DEF WorkerStep
<1>4. CASE \E c \in Commands, p \in Procs, j \in Jobs \cup {None}, kind \in Kinds : Call(c, kind, p, j)
  BY <1>4, CallSound
<1>5. CASE \E p \in Procs, j \in Jobs, stop \in Stops :
             StopInactive(p, j, stop) \/ \E c \in Commands : StopActive(c, p, j, stop)
  BY <1>5, StopInactiveSound, StopActiveSound
<1>6. CASE \E c \in Commands : CommandStep(c)
  BY <1>6, EnterSound, SessionHoldsSound, SessionLostSound, WithdrawSound, ResolvedSound,
     EnqueueSound, BeginSound, DrainedSound DEF CommandStep
<1> QED BY <1>1, <1>2, <1>3, <1>4, <1>5, <1>6 DEF Next

(* The queue is sound at every step, whoever fails or dies.                *)
THEOREM QueueSoundAlways == Spec => []QueueSound
<1>1. QueueSound /\ [Next]_vars => QueueSound'
  BY NextSound
<1> QED BY <1>1, InitSound, PTL DEF Spec

(* TypeOK: every variable keeps its type.                                  *)
THEOREM TypeCorrect == Spec => []TypeOK
  BY QueueSoundAlways, PTL DEF QueueSound

(* MemoryIsDisk: one open queue, which holds the lock, and whose memory is *)
(* queue.json up to a Finish that could not be stored.                     *)
THEOREM MemoryIsDiskHolds == Spec => []MemoryIsDisk
  BY QueueSoundAlways, PTL DEF QueueSound

(* TransferIsDurable: a transfer runs only while queue.json says so and    *)
(* the lock is held, and what queue.json says is Running has its worker.   *)
THEOREM TransferIsDurableHolds == Spec => []TransferIsDurable
  BY QueueSoundAlways, PTL DEF QueueSound

(* StateReadable: ReadState accepts every file the queue writes.           *)
THEOREM StateReadableHolds == Spec => []StateReadable
  BY QueueSoundAlways, PTL DEF QueueSound

(* CompletionTruthful: Completed means verified, and a verified output is  *)
(* never forgotten.                                                        *)
THEOREM CompletionTruthfulHolds == Spec => []CompletionTruthful
  BY QueueSoundAlways, PTL DEF QueueSound

-----------------------------------------------------------------------------
(* Only the end of BeginAsync gives a worker a job.                        *)
LEMMA OnlyBeginActivates ==
  ASSUME QueueSound, [Next]_vars, NEW p \in Procs, active[p] = None, active'[p] # None
  PROVE  \E b \in Commands : Begin(b) /\ Startable(b)
<1> USE DEF diskVars, procVars
<1>0. TypeOK /\ active \in [Procs -> Jobs \cup {None}]
  BY DEF QueueSound, TypeOK
<1>1. active' # active
  OBVIOUS
<1>2. ASSUME NEW q \in Procs, Open(q) \/ WorkerStep(q) \/ Crash(q) PROVE FALSE
  <2>1. active' = active \/ active' = [active EXCEPT ![q] = None]
    BY <1>2 DEF Open, WorkerStep, WorkerMoves, Finish, End, Crash
  <2> QED BY <2>1, <1>0
<1>3. ASSUME NEW c \in Commands, NEW q \in Procs, NEW j \in Jobs \cup {None}, NEW kind \in Kinds, Call(c, kind, q, j)
      PROVE  FALSE
  BY <1>1, <1>3 DEF Call
<1>4. ASSUME NEW q \in Procs, NEW j \in Jobs, NEW stop \in Stops,
             StopInactive(q, j, stop) \/ \E c \in Commands : StopActive(c, q, j, stop)
      PROVE  FALSE
  BY <1>1, <1>4 DEF StopInactive, StopActive
<1>5. ASSUME NEW c \in Commands, CommandStep(c)
      PROVE  Begin(c) /\ Startable(c)
  <2>1. Begin(c)
    BY <1>1, <1>5 DEF CommandStep, Enter, SessionHolds, SessionLost, Withdraw, Resolved, Enqueue, Drained
  <2> QED BY <2>1, <1>1 DEF Begin
<1>6. ASSUME NEW t \in Targets, UserTouches(t) PROVE FALSE
  BY <1>1, <1>6 DEF UserTouches
<1>7. ~UNCHANGED vars
  BY <1>1 DEF vars
<1> QED BY <1>2, <1>3, <1>4, <1>5, <1>6, <1>7 DEF Next

(* NoStaleStart: a start that a stop outran starts nothing, in however     *)
(* many calls the two are interleaved.                                     *)
THEOREM NoStaleStartHolds == Spec => NoStaleStart
<1> DEFINE A == \A c \in Commands, p \in Procs :
                  active[p] = None /\ active'[p] # None /\ At(c, "apply") /\ cmd'[c] = None => ~cmd[c].outrun
<1>1. ASSUME QueueSound, [Next]_vars PROVE A
  <2> SUFFICES ASSUME NEW c \in Commands, NEW p \in Procs,
                      active[p] = None, active'[p] # None, At(c, "apply"), cmd'[c] = None
               PROVE  ~cmd[c].outrun
    OBVIOUS
  <2>1. PICK b \in Commands : Begin(b) /\ Startable(b)
    BY <1>1, OnlyBeginActivates
  <2>2. \A d \in Commands : d # b => cmd'[d] = cmd[d]
    BY <2>1, <1>1, ReturnEnds DEF Begin, Leave, QueueSound
  <2>3. c = b /\ cmd[c] # None
    BY <2>2 DEF At
  <2>4. /\ cmd[c].kind = "start" /\ cmd[c].valid
        /\ mem[cmd[c].proc][cmd[c].job].state \notin Terminal
    BY <2>1, <2>3 DEF Begin, Startable, Eligible
  <2> QED BY <2>3, <2>4, <1>1 DEF QueueSound, CallsKnown
<1>2. QueueSound /\ [Next]_vars => [A]_vars
  BY <1>1
<1>3. NoStaleStart <=> [][A]_vars
  BY DEF NoStaleStart
<1> HIDE DEF A
<1> QED BY <1>2, <1>3, QueueSoundAlways, PTL DEF Spec

(* A step that writes a job's record finds that job not ended.             *)
LEMMA EndedStays ==
  ASSUME QueueSound, [Next]_vars, NEW k \in Jobs, disk[k] # None, disk[k].state \in Terminal
  PROVE  disk'[k] = disk[k]
<1> USE DEF diskVars, procVars
<1>0. TypeOK /\ disk \in Queues
  BY DEF QueueSound, TypeOK
<1>2. ASSUME NEW p \in Procs, Open(p) \/ WorkerStep(p) \/ Crash(p) PROVE disk'[k] = disk[k]
  <2>1. CASE Open(p)
    BY <2>1, <1>0 DEF Open, Saved, NotSaved, Recovered, Queues, Terminal
  <2>2. CASE Finish(p)
    <3>1. active[p] \in Jobs /\ up[p] = "open" /\ run[p].stage = "finishing"
      BY <2>2, WorkerOpen DEF Finish
    <3>2. /\ ~fault[p] /\ mem[p] = disk /\ disk[active[p]] # None /\ disk[active[p]].state = "Running"
      BY <3>1, NoneApart DEF QueueSound, WorkerSound, TransferIsDurable, MemoryIsDisk
    <3>3. k # active[p]
      BY <3>2 DEF Terminal
    <3> QED BY <2>2, <3>2, <3>3, <1>0 DEF Finish, Saved, Changed, Queues
  <2> QED BY <2>1, <2>2, <1>2 DEF WorkerStep, WorkerMoves, End, Crash
<1>3. ASSUME NEW c \in Commands, NEW p \in Procs, NEW j \in Jobs \cup {None}, NEW kind \in Kinds, Call(c, kind, p, j)
      PROVE  disk'[k] = disk[k]
  BY <1>3 DEF Call
<1>4. ASSUME NEW p \in Procs, NEW j \in Jobs, NEW stop \in Stops,
             StopInactive(p, j, stop) \/ \E c \in Commands : StopActive(c, p, j, stop)
      PROVE  disk'[k] = disk[k]
  <2>1. CASE disk' = disk
    BY <2>1
  <2>2. CASE /\ up[p] = "open" /\ ~fault[p] /\ mem[p][j].state \notin Terminal
             /\ Saved(p, Changed(p, j, stop, StillToRecover(p, j, stop)))
    <3>1. mem[p] = disk /\ disk' = [disk EXCEPT ![j] = [state |-> stop, recovery |-> StillToRecover(p, j, stop)]]
      BY <2>2 DEF QueueSound, MemoryIsDisk, Saved, Changed
    <3> QED BY <2>2, <3>1, <1>0 DEF Queues
  <2> QED BY <2>1, <2>2, <1>4 DEF StopInactive, StopActive, NotSaved
<1>5. ASSUME NEW c \in Commands, CommandStep(c) PROVE disk'[k] = disk[k]
  <2>1. CASE Enqueue(c)
    <3>1. /\ cmd[c] # None /\ cmd[c].at \in Inside /\ cmd[c].kind = "enqueue"
          /\ \/ disk' = disk
             \/ ~fault[cmd[c].proc] /\ Saved(cmd[c].proc, Changed(cmd[c].proc, cmd[c].job, "Queued", FALSE))
      BY <2>1 DEF Enqueue, NotSaved, At, Inside
    <3>2. mem[cmd[c].proc][cmd[c].job] = None /\ up[cmd[c].proc] = "open" /\ cmd[c].proc \in Procs
      BY <3>1, <1>0, CallTyped DEF QueueSound, CallsKnown, LocksHeld
    <3>3. CASE ~fault[cmd[c].proc] /\ Saved(cmd[c].proc, Changed(cmd[c].proc, cmd[c].job, "Queued", FALSE))
      <4>1. mem[cmd[c].proc] = disk
        BY <3>2, <3>3 DEF QueueSound, MemoryIsDisk
      <4>2. disk' = [disk EXCEPT ![cmd[c].job] = [state |-> "Queued", recovery |-> FALSE]] /\ k # cmd[c].job
        BY <4>1, <3>2, <3>3 DEF Saved, Changed
      <4> QED BY <4>2, <1>0 DEF Queues
    <3> QED BY <3>1, <3>3
  <2>2. CASE Begin(c)
    <3>1. \/ disk' = disk
          \/ /\ Startable(c)
             /\ Saved(cmd[c].proc, Changed(cmd[c].proc, cmd[c].job, "Running", mem[cmd[c].proc][cmd[c].job].recovery))
      BY <2>2 DEF Begin, NotSaved
    <3>2. cmd[c] # None /\ cmd[c].proc \in Procs /\ up[cmd[c].proc] = "open"
      BY <2>2, <1>0, CallTyped DEF QueueSound, LocksHeld, Begin, At, Inside
    <3>3. CASE /\ Startable(c)
               /\ Saved(cmd[c].proc, Changed(cmd[c].proc, cmd[c].job, "Running", mem[cmd[c].proc][cmd[c].job].recovery))
      <4>1. mem[cmd[c].proc] = disk /\ disk[cmd[c].job].state \notin Terminal
        BY <3>2, <3>3 DEF QueueSound, MemoryIsDisk, Startable, Eligible
      <4>2. disk' = [disk EXCEPT ![cmd[c].job] = [state |-> "Running", recovery |-> disk[cmd[c].job].recovery]]
        BY <4>1, <3>3 DEF Saved, Changed
      <4> QED BY <4>1, <4>2, <1>0 DEF Queues
    <3> QED BY <3>1, <3>3
  <2>3. CASE Enter(c) \/ SessionHolds(c) \/ SessionLost(c) \/ Withdraw(c) \/ Resolved(c) \/ Drained(c)
    BY <2>3 DEF Enter, SessionHolds, SessionLost, Withdraw, Resolved, Drained
  <2> QED BY <2>1, <2>2, <2>3, <1>5 DEF CommandStep
<1>6. ASSUME NEW t \in Targets, UserTouches(t) PROVE disk'[k] = disk[k]
  BY <1>6 DEF UserTouches
<1>7. CASE UNCHANGED vars
  BY <1>7 DEF vars
<1> QED BY <1>2, <1>3, <1>4, <1>5, <1>6, <1>7 DEF Next

(* TerminalSticks: what has ended in queue.json stays as it is.            *)
THEOREM TerminalSticksHolds == Spec => TerminalSticks
<1> DEFINE A == \A j \in Jobs : disk[j] # None /\ disk[j].state \in Terminal => disk'[j] = disk[j]
<1>1. QueueSound /\ [Next]_vars => [A]_vars
  BY EndedStays
<1>2. TerminalSticks <=> [][A]_vars
  BY DEF TerminalSticks
<1> HIDE DEF A
<1> QED BY <1>1, <1>2, QueueSoundAlways, PTL DEF Spec
===============================================================================
