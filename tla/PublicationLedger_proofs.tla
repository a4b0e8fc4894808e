------------------------ MODULE PublicationLedger_proofs ------------------------
(***************************************************************************)
(* What PublicationLedger promises, for any set of operations.             *)
(***************************************************************************)
EXTENDS PublicationLedger, TLAPS

LedgerTyped ==
  /\ outcome \in [Ops -> {"unused", "open", "committed", "withdrawn"}]
  /\ history \in Seq(Ops)

(* The ledger stays well typed.                                            *)
THEOREM LedgerTypeCorrect == LedgerSpec => []LedgerTyped
  <1>1. LedgerInit => LedgerTyped
    BY DEF LedgerInit, LedgerTyped
  <1>2. LedgerTyped /\ [LedgerNext]_ledgerVars => LedgerTyped'
    BY DEF LedgerTyped, LedgerNext, ledgerVars, Open, Commit, Withdraw
  <1> QED BY <1>1, <1>2, PTL DEF LedgerSpec

(* An operation enters the history when it is committed and at no other    *)
(* time, so the Client serves it as one revision.                          *)
THEOREM HistoryExactAlways == LedgerSpec => []HistoryExact
  <1>1. LedgerInit => HistoryExact
    BY DEF LedgerInit, HistoryExact
  <1>2. LedgerTyped /\ HistoryExact /\ [LedgerNext]_ledgerVars => HistoryExact'
    <2> SUFFICES ASSUME LedgerTyped, HistoryExact, [LedgerNext]_ledgerVars PROVE HistoryExact'
      OBVIOUS
    <2>1. CASE UNCHANGED ledgerVars
      BY <2>1 DEF HistoryExact, ledgerVars
    <2>2. ASSUME NEW o \in Ops, Open(o) \/ Withdraw(o) PROVE HistoryExact'
      BY <2>2 DEF HistoryExact, LedgerTyped, Open, Withdraw
    <2>3. ASSUME NEW o \in Ops, Commit(o) PROVE HistoryExact'
      <3>1. /\ history' = Append(history, o) /\ outcome[o] = "open" /\ history \in Seq(Ops)
            /\ outcome' = [outcome EXCEPT ![o] = "committed"]
        BY <2>3 DEF Commit, LedgerTyped
      <3>2. /\ DOMAIN history = 1..Len(history) /\ DOMAIN history' = 1..(Len(history) + 1) /\ Len(history) \in Nat
            /\ \A r \in 1..Len(history) : history'[r] = history[r]
            /\ history'[Len(history) + 1] = o
        BY <3>1
      <3>3. \A r \in 1..Len(history) : history[r] # o
        BY <3>1, <3>2 DEF HistoryExact
      <3>4. \A r \in 1..(Len(history) + 1) : r \in 1..Len(history) \/ r = Len(history) + 1
        BY <3>2
      <3>5. \A r, q \in DOMAIN history' : history'[r] = history'[q] => r = q
        BY <3>2, <3>3, <3>4 DEF HistoryExact
      <3>6. ASSUME NEW p \in Ops
            PROVE  outcome'[p] = "committed" <=> \E r \in DOMAIN history' : history'[r] = p
        <4>1. CASE p = o
          BY <3>1, <3>2, <4>1 DEF LedgerTyped
        <4>2. CASE p # o
          <5>1. outcome'[p] = outcome[p]
            BY <3>1, <4>2 DEF LedgerTyped
          <5>2. (\E r \in DOMAIN history' : history'[r] = p) <=> (\E r \in DOMAIN history : history[r] = p)
            BY <3>2, <3>4, <4>2
          <5> QED BY <5>1, <5>2 DEF HistoryExact
        <4> QED BY <4>1, <4>2
      <3> QED BY <3>5, <3>6 DEF HistoryExact
    <2> QED BY <2>1, <2>2, <2>3 DEF LedgerNext
  <1> QED BY <1>1, <1>2, LedgerTypeCorrect, PTL DEF LedgerSpec

(* Nothing that was decided or published is ever taken back.               *)
THEOREM KeptAlways == LedgerSpec => [][Kept]_ledgerVars
  <1>1. LedgerTyped /\ [LedgerNext]_ledgerVars => [Kept]_ledgerVars
    <2> SUFFICES ASSUME LedgerTyped, LedgerNext PROVE Kept
      OBVIOUS
    <2>1. PICK o \in Ops : Open(o) \/ Commit(o) \/ Withdraw(o)
      BY DEF LedgerNext
    <2>2. \A p \in Ops : outcome[p] \in {"committed", "withdrawn"} => outcome'[p] = outcome[p]
      BY <2>1 DEF LedgerTyped, Open, Commit, Withdraw
    <2>3. history' = history \/ history' = Append(history, o)
      BY <2>1 DEF Open, Commit, Withdraw
    <2>4. Len(history) <= Len(history') /\ \A r \in 1..Len(history) : history'[r] = history[r]
      BY <2>1, <2>3 DEF LedgerTyped
    <2> QED BY <2>2, <2>4 DEF Kept
  <1> QED BY <1>1, LedgerTypeCorrect, PTL DEF LedgerSpec
=============================================================================
