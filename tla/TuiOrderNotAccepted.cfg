CONSTANTS
  Quantities = {1, 2}
  MaxOrders = 2
SPECIFICATION TuiOrderSpec
INVARIANT
  NotAcceptedTrue
