\* Deposits, overlapping releases and deletions.
SPECIFICATION Spec
CONSTANTS
  Councils = {c1}
  Channels = {ch1, ch2}
  Handlers = {h1, h2}
  Amounts = {0, 1, 3}
  Fee = 2
  MaxEscrows = 2
SYMMETRY EscrowSymmetry
INVARIANTS EscrowTypeOK NothingPaidIsHeld PaidOnceAlone TotalsBalance
PROPERTIES ReleaseIsComplete
