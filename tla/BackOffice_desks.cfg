SPECIFICATION Spec
CHECK_DEADLOCK FALSE
CONSTANTS
  Contract <- MCContract
  Perpetual = Perpetual
  FirstMonth <- January
  LastMonth <- March
  MidMonth = 14
  FirstDay <- MCFirstDay
  NoPeriod = NoPeriod
  Whole = 10000
  MaxPeriods = 4
  Charge <- MCCharge
  Term = {0, 30}
  Pass = {1, 30}
  Absent = Absent
  MaxIssued = 2
  MaxPasses = 3
  Payments <- MCPayments
  Entries <- MCEntries
  NoDate = NoDate
  Tolerance = 5
  MaxDistance = 3
  Currency = {"USD", "EUR", "TND"}
  Pivot = "USD"
  Quote = {1, 3, 11, 250}
  NoQuote = NoQuote
  NoRate = NoRate
  BadRate = BadRate
  One = 10
  MaxQuotes = 3
  Code = {"standard", "half", "exempt"}
  Rate <- MCRates
  RateUnit = 10000
  NoCode = NoCode
  BasePrice = {1, 333, 1001}
  SetupFee = {0, 1, 50}
  MaxTaxings = 2
  RowKey = {1, 2, 3}
  Column <- MCColumn
  None = None
INVARIANTS TypeOK DeferredAgrees PriceAccountedFor   LatenessAgrees HalfOfBest ConversionsAgree TaxesSettle QueriesAgree
