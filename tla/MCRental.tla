------------------------------ MODULE MCRental ------------------------------
(***************************************************************************)
(* RentalCar for TLC: every payment is for the first car.                  *)
(***************************************************************************)
EXTENDS RentalCar

CONSTANTS CAR0, OWNER0, OWNER1  \* the car paid for, its owner, another account

OwnedByFirst == [c \in Car |-> OWNER0]
AllForFirst == [p \in Payment |-> CAR0]
=============================================================================
