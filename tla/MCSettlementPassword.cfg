CONSTANTS
  m1 = m1
  m2 = m2
  g1 = g1
  NoMember = NoMember
  Members = {m1, m2}
  Goods = {g1}
  StartStock = 2
  StartBalance = 2
  Quantities = {1, 2}
  MaxTaps = 2
  MaxDialogs = 1
  MaxFrames = 0
  MaxAdds = 1
SPECIFICATION Spec
INVARIANT PasswordDialogNamesPayer
CHECK_DEADLOCK FALSE
