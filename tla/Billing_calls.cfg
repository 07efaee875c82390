SPECIFICATION FairSpec
CONSTANTS
  t1 = t1
  t2 = t2
  i1 = i1
  i2 = i2
  ghost = ghost
  usd = usd
  eur = eur
  Thread = {t1, t2}
  Invoice <- MCInvoice
  Ghost <- MCGhost
  Currency <- MCTwoCurrencies
  Mixed = Mixed
  NoInvoice = NoInvoice
  NoPayment = NoPayment
  Due <- MCDue
  Charge = {2}
  PayAmount = {3}
  CreditAmount = {3}
  SeedStatus = {"OPEN"}
  Subscription <- MCOneSubscription
  MaxList = 2
  MaxCalls = 2
INVARIANT PaymentBeforeStatus
PROPERTY CallsReturn
