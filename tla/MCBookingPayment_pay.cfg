\* Two payments and their refunds; one refund is decided at a time.
SPECIFICATION Spec
CONSTANTS
  Payments = {p1, p2}
  Refunds = {f1, f2}
  Workers = {w1}
  Price = 2
  Events = {e1, e2, e3}
  NoPayment = NoPayment
SYMMETRY Symmetry
INVARIANTS MoneyBuysBooking RefundsWithinPayment RefundedMeansNothingLeft
PROPERTY ImplementsAccount
CHECK_DEADLOCK FALSE
