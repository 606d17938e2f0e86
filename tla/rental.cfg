\* Two machines, a car and a payment that is posted twice.
SPECIFICATION FairRentalSpec
CONSTANTS
  App = {"notary1", "notary2"}
  Master = "notary1"
  CAR0 = CAR0
  OWNER0 = OWNER0
  OWNER1 = OWNER1
  Nobody = Nobody
  Car = {CAR0}
  Owner = {OWNER0, OWNER1}
  Renter = {"renter"}
  FileOwner <- OwnedByFirst
  Payment = {"p"}
  PaysFor <- AllForFirst
  Unreliable = {"core", "iota", "ethereum"}
  Copies = 2
  MaxPosts = 2
  Restartable = {"notary2"}
  MaxRestarts = 1
INVARIANTS RentalTypeOK NoRevertedCall NoRentedCarOffered PaymentSpentOnce OwnerVouchedFor
PROPERTIES RentedRowKept EveryCarListed PaidCarIsRented
\* The bounds let the system stop.
CHECK_DEADLOCK FALSE
