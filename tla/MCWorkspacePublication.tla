------------------------- MODULE MCWorkspacePublication -------------------------
(***************************************************************************)
(* Instances of WorkspacePublication for TLC.                              *)
(***************************************************************************)
EXTENDS WorkspacePublication, FiniteSets, TLC

(* Calls and invocations have no order and no names the model looks at.    *)
Symmetry == Permutations(Calls) \cup Permutations(Invs)

(* State constraint of the run with two operations: the invoking managers  *)
(* keep their standing.  The recovery run has no such bound.               *)
InvokersStay == \A i \in Invs : inv[i] # None => inv[i].valid

(* docs/staging/native-workspace-owner-acceptance.md, step 4: after an     *)
(* uncertain result "the UI retains the exact request for replay" and      *)
(* "Recovery uses a new audited invocation for the same publication".  So  *)
(* a claimed row whose call is gone can be taken up again: by a new        *)
(* invocation, or by a replay of one that is still unused.                 *)
RecoveryAdmitted ==
  \A o \in Ops :
    state[o] = "dispatching" /\ standing[o] # "suspended" =>
      \/ \E w \in Calls : pc[w] # "idle" /\ job[w].op = o
      \/ \E action \in Actions : InvocationAdmitted(o, action)
      \/ \E i \in Invs : /\ inv[i] # None /\ inv[i].op = o
                         /\ InvocationUsable(i) /\ ClaimAllowed(o, inv[i].action)
=============================================================================
