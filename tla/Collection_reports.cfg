CONSTANTS
  x = x
  y = y
  Accounts <- BothAccounts
  Mine = x
  Worlds <- AllWorlds
  MaxOdd <- OddLanesIn
  MaxTrouble <- TroubleIn
  MaxLogins <- LoginsIn
  Absent = Absent
  Bad = Bad
  Unknown = Unknown
  Unlimited = Unlimited
  Capped = Capped
  Off = Off
  None = None
SPECIFICATION Spec
INVARIANTS TypeOK  Attributed SpentOnce NothingLost
\* A collection ends.
CHECK_DEADLOCK FALSE
