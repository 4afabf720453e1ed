\* Two refunds of one payment are approved at the same time.
SPECIFICATION Spec
CONSTANTS
  Payments = {p1}
  Refunds = {f1, f2}
  Workers = {w1, w2}
  Price = 1
  Events = {e1}
  NoPayment = NoPayment
SYMMETRY Symmetry
INVARIANT RefundsWithinPayment
CHECK_DEADLOCK FALSE
