SPECIFICATION Spec

CONSTANTS
  Jobs = {tab1, tab2}
  tab1 = tab1
  tab2 = tab2
  Amounts = {1, 2}
  Funds = 2
  MaxAttempts = 3
  PostPaymentAttempts = 2
  MaxRecoveries = 2
  MaxTransactions = 2

INVARIANTS
  TypeOK
  PaidOnce
  GoodNewsIsTrue
  TimedOutIsUnpaid

PROPERTY
  HandlersGetOn
  HandlersEnd

CHECK_DEADLOCK FALSE
