SPECIFICATION Spec
CONSTANTS
  t1 = t1
  t2 = t2
  i1 = i1
  i2 = i2
  ghost = ghost
  usd = usd
  eur = eur
  Thread = {t1}
  Invoice <- MCInvoice
  Ghost <- MCGhost
  Currency <- MCOneCurrency
  Mixed = Mixed
  NoInvoice = NoInvoice
  NoPayment = NoPayment
  Due <- MCDue
  Charge = {2}
  PayAmount = {1, 3}
  CreditAmount = {3}
  SeedStatus = {"OPEN"}
  Subscription <- MCSubscription
  MaxList = 2
  MaxCalls = 3
INVARIANT PaymentsRetained
