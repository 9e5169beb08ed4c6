CONSTANTS
  m1 = m1
  g1 = g1
  s1 = s1
  NoMember = NoMember
  Members = {m1}
  Strangers = {s1}
  Goods = {g1}
  Amounts = {1}
  StartStock = 1
  StartBalance = 2
  Quantities = {1}
  MaxTaps = 1
  MaxDialogs = 1
  MaxFrames = 1
  MaxAdds = 2
  MaxForms = 3
  MaxPageForms = 2
SPECIFICATION MCSpec
INVARIANTS DispensedWasDeducted SalesWereOrdered
CHECK_DEADLOCK FALSE
