\* One machine, one car, one payment.
SPECIFICATION RentalSpec
CONSTANTS
  App = {"notary1"}
  Master = "notary1"
  CAR0 = CAR0
  OWNER0 = OWNER0
  OWNER1 = OWNER1
  Nobody = Nobody
  Car = {CAR0}
  Owner = {OWNER0, OWNER1}
  Renter = {"renter"}
  FileOwner <- OwnedByFirst
  Payment = {"p"}
  PaysFor <- AllForFirst
  Unreliable = {}
  Copies = 1
  MaxPosts = 1
  Restartable = {}
  MaxRestarts = 1
INVARIANT RejectedNotPosted
\* The bounds let the system stop.
CHECK_DEADLOCK FALSE
