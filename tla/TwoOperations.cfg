CONSTANTS
  Ops = {o1, o2}
  Calls = {c1, c2}
  Invs = {i1, i2, i3}
  Unreadable = {o1, o2}
  None = None
SPECIFICATION Spec
SYMMETRY Symmetry
CONSTRAINT InvokersStay
INVARIANTS HeadsAgree FenceResolvable Consistent CommittedOnce TerminalAgreement
PROPERTIES ImplementsLedger OnlyHolderSettles ClaimsSpendInvocations
CHECK_DEADLOCK FALSE
