---------------------------- MODULE SeatInventory ----------------------------
(***************************************************************************)
(* What the booking side of HBT promises about the seats of one trip, with *)
(* no word of how: a seat is sold leg by leg (a leg joins two consecutive  *)
(* stops of the route), a sale takes all the cells it asked for in one     *)
(* step or none, and gives them all back in one step.                      *)
(* SeatBooking is the detailed specification that implements this one.     *)
(***************************************************************************)
CONSTANTS Owners,   \* the bookings
          Seats,    \* the bookable positions of the trip's layout
          Legs      \* the legs of the trip's route

VARIABLE sold       \* the triples <<owner, seat, leg>> that are taken

Cells == Seats \X Legs

TypeOK == sold \subseteq Owners \X Seats \X Legs

Init == sold = {}

CellsOf(o) == {c \in Cells : <<o, c[1], c[2]>> \in sold}

Free(c) == \A o \in Owners : <<o, c[1], c[2]>> \notin sold

(* A booking that owns nothing takes free cells, and nobody else gains or  *)
(* loses one.                                                              *)
Sell(o) ==
  /\ CellsOf(o) = {}
  /\ sold \subseteq sold'
  /\ \A x \in sold' \ sold : /\ x \in {o} \X Seats \X Legs
                             /\ Free(<<x[2], x[3]>>)

(* A booking that is cancelled or expires gives back all its cells. *)
Return(o) ==
  /\ CellsOf(o) # {}
  /\ sold' = {x \in sold : x[1] # o}

Next == \E o \in Owners : Sell(o) \/ Return(o)

Spec == Init /\ [][Next]_sold

(* No cell has two owners: nobody is sold a seat that somebody else sits   *)
(* in over a common leg.                                                   *)
Exclusive ==
  \A x, y \in sold : (x[2] = y[2] /\ x[3] = y[3]) => x[1] = y[1]
==============================================================================
