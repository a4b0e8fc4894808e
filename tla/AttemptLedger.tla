---------------------------- MODULE AttemptLedger ----------------------------
(***************************************************************************)
(* What every notification outbox promises of the jobs in it: a job is     *)
(* taken at most MaxAttempts times, each time it is taken it reaches the   *)
(* mail provider at most once, and once it has ended it is never taken or  *)
(* released again.                                                         *)
(***************************************************************************)
EXTENDS Naturals

CONSTANTS Items, MaxAttempts

VARIABLES phase,   \* phase[i]: absent, open, held by a sender, or ended
          tries,   \* how often i has been taken
          mails    \* how often the provider has accepted i

ledgerVars == <<phase, tries, mails>>

Phases == {"absent", "open", "held", "ended"}

Init ==
  /\ phase \in [Items -> {"absent", "open"}]
  /\ tries = [i \in Items |-> 0]
  /\ mails = [i \in Items |-> 0]

(* Jobs come, are given back and end; one statement may do so for many.    *)
Moves == {<<"absent", "open">>, <<"absent", "ended">>, <<"held", "open">>, <<"open", "ended">>, <<"held", "ended">>}

Move ==
  /\ phase' \in [Items -> Phases]
  /\ \A i \in Items : phase'[i] = phase[i] \/ <<phase[i], phase'[i]>> \in Moves
  /\ UNCHANGED <<tries, mails>>

(* Taking a held job is recovery of one whose lease is over.               *)
Take(i) ==
  /\ phase[i] \in {"open", "held"}
  /\ tries[i] < MaxAttempts
  /\ phase' = [phase EXCEPT ![i] = "held"]
  /\ tries' = [tries EXCEPT ![i] = @ + 1]
  /\ UNCHANGED mails

(* A sender that lost its lease may still reach the provider.              *)
Accept(i) ==
  /\ mails[i] < tries[i]
  /\ mails' = [mails EXCEPT ![i] = @ + 1]
  /\ UNCHANGED <<phase, tries>>

Next == Move \/ \E i \in Items : Take(i) \/ Accept(i)

Spec == Init /\ [][Next]_ledgerVars
=============================================================================
