CONSTANTS
  bankSavings = bankSavings
  bankChecking = bankChecking
  bankLoan = bankLoan
  cash = cash
  handSavings = handSavings
  handLoan = handLoan
  None = None
  New = New
  Account <- MCAccount
  TypeOf <- MCTypeOf
  FromBank <- MCFromBank
  Provisioned = {cash}
  Unused = {cash}
  Slotted = {2}
  Worlds <- MCWorlds
  MaxAmount = 1
SPECIFICATION Spec
INVARIANTS
  PlannedIsContributed
  AccountsAreInOrder
  BillsHaveAReason
PROPERTIES
  DecisionsStand
CHECK_DEADLOCK FALSE
