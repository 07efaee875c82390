SPECIFICATION Spec
CHECK_DEADLOCK FALSE
CONSTANTS
  basic = basic
  pro = pro
  c1 = c1
  c2 = c2
  Caller = {c1}
  Plan = {basic, pro}
  Price <- MCPrice
  Days <- MCDays
  TrialPlan = {basic}
  Window = 1
  Absent = Absent
  NoCall = NoCall
  Never = Never
  MaxId = 1
  MaxSeats = 2
  MaxLead = 1
  MaxDay = 4
INVARIANT AmountSettlesChange
