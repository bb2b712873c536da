CONSTANTS
  NoPrice = NoPrice
  MaxOrders = 3
  Capacity = 2
  Terms <- MCTerms
SPECIFICATION BookSpec
INVARIANTS
  BookSound
  AnswersTrue
PROPERTIES
  PriceTime
  CancelledStops
  Settles
CHECK_DEADLOCK FALSE
