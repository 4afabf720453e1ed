\* Issue, reissue, refund, validate and board with stale gate writes.
SPECIFICATION Spec
CONSTANTS
  Tickets = {t1, t2, t3}
  Workers = {w1, w2}
SYMMETRY Symmetry
INVARIANTS OneActiveTicket BoardsOnce ClosingStaysTrue
PROPERTY ReplacedTicketStaysOut
CHECK_DEADLOCK FALSE
