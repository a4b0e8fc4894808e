---------------------------- MODULE PublicationLedger ----------------------------
(***************************************************************************)
(* What the workspace publication protocol promises, for one target.       *)
(*                                                                         *)
(* A publication operation is opened, and then decided exactly once: it is *)
(* either committed, and becomes the next revision of the one history the  *)
(* Client serves, or withdrawn, and then it never appears in that history. *)
(* A new operation is opened only when every earlier one has been decided, *)
(* so a decision that is in doubt blocks the target and is never guessed.  *)
(*                                                                         *)
(* WorkspacePublication implements this with two databases, unreliable     *)
(* calls between them, leases, crashes and requests that run late.         *)
(***************************************************************************)
EXTENDS Naturals, Sequences

CONSTANT Ops                        \* identities of publication operations

VARIABLES outcome,                  \* outcome[o]: what became of operation o
          history                   \* history[r]: the operation at revision r

ledgerVars == <<outcome, history>>

LedgerInit ==
  /\ outcome = [o \in Ops |-> "unused"]
  /\ history = << >>

Open(o) ==
  /\ outcome[o] = "unused"
  /\ \A p \in Ops : outcome[p] # "open"
  /\ outcome' = [outcome EXCEPT ![o] = "open"]
  /\ UNCHANGED history

Commit(o) ==
  /\ outcome[o] = "open"
  /\ outcome' = [outcome EXCEPT ![o] = "committed"]
  /\ history' = Append(history, o)

Withdraw(o) ==
  /\ outcome[o] = "open"
  /\ outcome' = [outcome EXCEPT ![o] = "withdrawn"]
  /\ UNCHANGED history

LedgerNext == \E o \in Ops : Open(o) \/ Commit(o) \/ Withdraw(o)

LedgerSpec == LedgerInit /\ [][LedgerNext]_ledgerVars

(* What follows for the history: every committed operation is one of its   *)
(* revisions, and only one, and nothing else is in it.                     *)
HistoryExact ==
  /\ \A r, q \in DOMAIN history : history[r] = history[q] => r = q
  /\ \A o \in Ops : outcome[o] = "committed" <=> \E r \in DOMAIN history : history[r] = o

(* Decided operations stay decided, and revisions stay what they are.      *)
Kept ==
  /\ \A o \in Ops : outcome[o] \in {"committed", "withdrawn"} => outcome'[o] = outcome[o]
  /\ Len(history) <= Len(history') /\ \A r \in 1..Len(history) : history'[r] = history[r]
=============================================================================
