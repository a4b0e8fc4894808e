----------------------- MODULE WorkspacePublicationRecovery -----------------------
(***************************************************************************)
(* Does a publication in doubt get decided?                                *)
(*                                                                         *)
(* WorkspacePublication lets calls crash, RPCs time out and the Client     *)
(* refuse for ever.  Here that weather ends at some moment nobody knows:   *)
(* from then on Workers finish what they run, the Client answers within    *)
(* RPC_TIMEOUT_MS (a call makes at most two RPCs of 15 seconds, well inside*)
(* its 60 second lease), and a manager whose proof stays current keeps     *)
(* asking to cancel.  What the storm left behind, lapsed leases, spent     *)
(* invocations, half-done calls and late requests, is still there.         *)
(***************************************************************************)
EXTENDS WorkspacePublication

VARIABLE calm

recoveryVars == <<vars, calm>>

RecoveryInit == Init /\ calm = FALSE

BecomesCalm == ~calm /\ calm' = TRUE /\ UNCHANGED vars

(* Invocation identities are finite here and not in the system: a row that *)
(* no cancel call can use any more gives its identity back.                *)
Forget(i) ==
  /\ inv[i] # None
  /\ ~(InvocationUsable(i) /\ inv[i].action = "cancel")
  /\ \A w \in Calls : pc[w] # "idle" => job[w].inv # i
  /\ inv' = [inv EXCEPT ![i] = None]
  /\ UNCHANGED <<clientVars, outboxVars, headVars, standing, callVars, expected, late>>

Running(w, o) == pc[w] # "idle" /\ job[w].op = o

(* In calm weather a lease outlives the call that took it.                 *)
LapsesInCalm(o) == LeaseLapses(o) /\ ~Running(claim[o], o)

AnswersInCalm(w) == ClientServes(w) /\ reply'[w] # "failure"

Asks(o) == \E i \in Invs : ReserveInvocation(i, o, "cancel")

Starts(w) == \E i \in Invs : inv[i] # None /\ InvocationUsable(i) /\ BeginCancel(w, i)

CalmNext ==
  \/ \E o \in Ops : LapsesInCalm(o) \/ StandingChanges(o) \/ Asks(o)
  \/ \E i \in Invs : Forget(i)
  \/ \E w \in Calls : Progress(w) \/ AnswersInCalm(w) \/ Starts(w)
  \/ RunsLate

RecoveryNext ==
  \/ BecomesCalm
  \/ UNCHANGED calm /\ IF calm THEN CalmNext ELSE Next

(* The Worker runtime resumes a call whose await settled and boundedRpc's  *)
(* timer settles every RPC; in calm weather also the Client answers, time  *)
(* passes and a manager keeps asking.                                      *)
RecoveryFairness ==
  /\ \A w \in Calls :
       /\ WF_recoveryVars(~calm /\ CallStep(w) /\ UNCHANGED calm)
       /\ WF_recoveryVars(calm /\ Progress(w) /\ UNCHANGED calm)
       /\ WF_recoveryVars(calm /\ AnswersInCalm(w) /\ UNCHANGED calm)
       /\ WF_recoveryVars(calm /\ Starts(w) /\ UNCHANGED calm)
  /\ \A o \in Ops :
       /\ WF_recoveryVars(calm /\ LapsesInCalm(o) /\ UNCHANGED calm)
       /\ WF_recoveryVars(calm /\ Asks(o) /\ UNCHANGED calm)
  /\ \A i \in Invs : WF_recoveryVars(calm /\ Forget(i) /\ UNCHANGED calm)

RecoverySpec == RecoveryInit /\ [][RecoveryNext]_recoveryVars /\ RecoveryFairness

-----------------------------------------------------------------------------
(* Once the weather is calm, a publication that was sent and is in doubt   *)
(* is decided: its row leaves the in-flight states and the single-flight   *)
(* fence of the target opens, whatever the storm left behind.              *)
DoubtResolved ==
  \A o \in Ops : (calm /\ attempted[o] /\ InFlight(o)) ~> ~InFlight(o)

(* A dispatch or cancel call always returns, even if the Client never      *)
(* answers and the storm never ends.                                       *)
CallsReturn ==
  \A w \in Calls : (pc[w] # "idle") ~> (pc[w] = "idle")
=============================================================================
