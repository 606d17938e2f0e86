----------------------------- MODULE RentalCar -----------------------------
(***************************************************************************)
(* The rental car application (src/apps/rental_car): the contract that     *)
(* lists and rents cars, and on each machine an Express server with two    *)
(* SQLite tables, fed by the contract's events, by its core engine's       *)
(* notifications of new blocks, and by renters who post a payment.         *)
(*                                                                         *)
(* A handler runs alone up to its first await, and from one await to the   *)
(* next.  reading, paying and calls hold what is being awaited: a file of  *)
(* IPFS, a verdict of IOTA, a transaction of Ethereum.  An exception ends  *)
(* an async handler where it stands, and nothing else: what it has written *)
(* before stays.                                                           *)
(*                                                                         *)
(* The core engine is its promise: a request posted to it gets into        *)
(* blocks, and every machine's application is told of each of them once,   *)
(* at some time, unless it is down then (blockchain_db.js 84-102).         *)
(***************************************************************************)
EXTENDS Naturals

CONSTANTS
  App,          \* the machines that run the application
  Master,       \* the one that config.isMasterNode() holds on
  Car,          \* the cars, by the IPFS hash of their description
  Owner,        \* the Ethereum accounts that may own a car
  Renter,       \* and those that may rent one
  Nobody,       \* the zero address, and SQL's NULL
  FileOwner,    \* FileOwner[c]: the owner that the description of c names
  Payment,      \* IOTA tail transaction hashes
  PaysFor,      \* PaysFor[p]: the car whose address, fee and tag p carries
  Unreliable,   \* the services of which a request may fail
  Copies,       \* bound: how many blocks hold one request
  MaxPosts,     \* bound: how many payments are ever posted
  Restartable,  \* bound: the machines whose application may be restarted
  MaxRestarts   \* bound: how often

ASSUME RentalAssumption ==
  /\ Master \in App
  /\ Restartable \subseteq App
  /\ Nobody \notin Owner \union Renter
  /\ Payment \intersect Car = {}
  /\ FileOwner \in [Car -> Owner]
  /\ PaysFor \in [Payment -> Car]
  /\ Unreliable \subseteq {"ipfs", "iota", "core", "ethereum"}
  /\ Copies \in Nat
  /\ MaxPosts \in Nat
  /\ MaxRestarts \in Nat

VARIABLES
  carOwner,   \* rentalCars[c].carOwner; Nobody unless isValue
  carRenter,  \* rentalCars[c].carRenter; Nobody unless isRented
  heard,      \* heard[a]: the cars whose event a got since it was started
  reading,    \* reading[a]: the descriptions a waits for
  listed,     \* listed[a]: the rows of rental_cars
  rentedTo,   \* rentedTo[a][c]: their column renter; Nobody if not is_rented
  payments,   \* payments[a]: the rows of payments
  paying,     \* paying[a]: the posted payments a waits for IOTA to judge
  received,   \* how many payments have been posted
  rejected,   \* those answered 400
  posted,     \* the requests posted to the core engine
  due,        \* due[a]: the blocks that a is still to be told of
  calls,      \* the authorizeRentalCar transactions under way
  failed,     \* those that ended in an EthereumExecutionError
  restarts    \* how many restarts there were

contractVars == <<carOwner, carRenter>>
tableVars    == <<listed, rentedTo, payments>>
coreVars     == <<posted, due>>
paymentVars  == <<paying, received, rejected>>
callVars     == <<calls, failed>>
rentalVars == <<contractVars, tableVars, coreVars, paymentVars, callVars,
                heard, reading, restarts>>

Reading == [car : Car, by : {"event", "notification"}]

\* The body of a POST /tx_hash, numbered.
TxHash == [id : 1 .. MaxPosts, car : Car, payment : Payment, renter : Renter]

InsertRequest(c) == [task |-> "insert", car |-> c]

\* Mutant: a request that does not say which payment it rests on.
AnonymousRequest(a, x) ==
  [task |-> "authorize", from |-> a, id |-> x.id, car |-> x.car,
   renter |-> x.renter]

\* What app a makes of the payment x.
AuthorizeRequest(a, x) ==
  [task |-> "authorize", from |-> a, id |-> x.id, car |-> x.car,
   payment |-> x.payment, renter |-> x.renter]

AppRequest ==
  [task : {"insert"}, car : Car]
    \union [task : {"authorize"}, from : App, id : 1 .. MaxPosts, car : Car,
            payment : Payment, renter : Renter]

\* One of the blocks that hold a request.
Notice == [request : AppRequest, copy : 1 .. Copies]

RentalTypeOK ==
  /\ carOwner \in [Car -> Owner \union {Nobody}]
  /\ carRenter \in [Car -> Renter \union {Nobody}]
  /\ heard \in [App -> SUBSET Car]
  /\ reading \in [App -> SUBSET Reading]
  /\ listed \in [App -> SUBSET Car]
  /\ rentedTo \in [App -> [Car -> Renter \union {Nobody}]]
  /\ payments \in [App -> SUBSET (Payment \union Car)]
  /\ paying \in [App -> SUBSET TxHash]
  /\ received \in 0 .. MaxPosts
  /\ rejected \subseteq 1 .. received
  /\ posted \subseteq AppRequest
  /\ due \in [App -> SUBSET Notice]
  /\ calls \subseteq Notice
  /\ failed \subseteq Notice
  /\ restarts \in 0 .. MaxRestarts

\* The constructors of CarDB and PaymentDB empty the tables.
RentalInit ==
  /\ carOwner = [c \in Car |-> Nobody]
  /\ carRenter = [c \in Car |-> Nobody]
  /\ heard = [a \in App |-> {}]
  /\ reading = [a \in App |-> {}]
  /\ listed = [a \in App |-> {}]
  /\ rentedTo = [a \in App |-> [c \in Car |-> Nobody]]
  /\ payments = [a \in App |-> {}]
  /\ paying = [a \in App |-> {}]
  /\ received = 0
  /\ rejected = {}
  /\ posted = {}
  /\ due = [a \in App |-> {}]
  /\ calls = {}
  /\ failed = {}
  /\ restarts = 0
-----------------------------------------------------------------------------
(***************************************************************************)
(* The contract.  Ethereum runs its functions one at a time; one whose     *)
(* require fails changes nothing.  Only the master's account owns it.      *)
(***************************************************************************)
IsValue(c)  == carOwner[c] # Nobody
IsRented(c) == carRenter[c] # Nobody

StoreRentalCar(c, o) ==
  /\ ~ IsValue(c)
  /\ carOwner' = [carOwner EXCEPT ![c] = o]
  /\ UNCHANGED <<carRenter, tableVars, coreVars, paymentVars, callVars, heard,
                 reading, restarts>>

\* One that is mined although web3 gave up waiting for it counts as mined: the
\* handler only reports what it got.
AuthorizeRentalCar(k) ==
  LET c == k.request.car IN
  /\ IsValue(c) /\ ~ IsRented(c)
  /\ carRenter' = [carRenter EXCEPT ![c] = k.request.renter]
  /\ calls' = calls \ {k}
  /\ UNCHANGED <<carOwner, failed, tableVars, coreVars, paymentVars, heard,
                 reading, restarts>>

\* It is reverted, or never mined.  The handler throws, and takes back neither
\* the row it updated nor the key it recorded.
SendFails(k) ==
  LET c == k.request.car IN
  /\ "ethereum" \in Unreliable \/ ~ IsValue(c) \/ IsRented(c)
  /\ calls' = calls \ {k}
  /\ failed' = failed \union {k}
  /\ UNCHANGED <<contractVars, tableVars, coreVars, paymentVars, heard,
                 reading, restarts>>

(***************************************************************************)
(* The two tables.  Their primary keys make a second INSERT throw.         *)
(***************************************************************************)
\* Mutant: INSERT OR REPLACE.
NeverExists(a, c) == FALSE

CarExists(a, c) == c \in listed[a]

\* Mutant: INSERT OR IGNORE, and its result not looked at.
NeverRecorded(a, key) == FALSE

PaymentExists(a, key) == key \in payments[a]

\* checkIfPaymentExist, asked before anything is inserted
IsUsed(a, key) == PaymentExists(a, key)

InsertNewCar(a, c) ==
  /\ ~ CarExists(a, c)
  /\ listed' = [listed EXCEPT ![a] = @ \union {c}]
  /\ rentedTo' = [rentedTo EXCEPT ![a][c] = Nobody]
  /\ UNCHANGED payments

InsertNewPayment(a, key) ==
  /\ ~ PaymentExists(a, key)
  /\ payments' = [payments EXCEPT ![a] = @ \union {key}]

\* Mutant: the number of rows changed is not looked at.
AnyUpdate(a, c) == TRUE

\* authorizeCar changes a row.
UpdateHits(a, c) == c \in listed[a]

UpdateCar(a, c, r) ==
  /\ rentedTo' = IF c \in listed[a]
                 THEN [rentedTo EXCEPT ![a][c] = r] ELSE rentedTo
  /\ UNCHANGED listed

(***************************************************************************)
(* POST /transact of the machine's own core engine.                        *)
(***************************************************************************)
Blocks(q) == {[request |-> q, copy |-> i] : i \in 1 .. Copies}

\* core_event.js does something with such a request on machine a.
Concerns(a, q) == q.task = "insert" \/ a = Master

PostToCore(q) ==
  \/ /\ posted' = posted \union {q}
     /\ due' = [a \in App |->
                  IF Concerns(a, q) THEN due[a] \union Blocks(q) ELSE due[a]]
  \/ /\ "core" \in Unreliable
     /\ UNCHANGED coreVars

(***************************************************************************)
(* eth_event.js: the event NewRentalCarAdded, from block 0 on.             *)
(***************************************************************************)
\* Mutant: the owner in the description is not compared.
AnyOwner(c) == TRUE

OwnerMatches(c) == carOwner[c] = FileOwner[c]

HearEvent(a, c) ==
  /\ IsValue(c)
  /\ c \notin heard[a]
  /\ heard' = [heard EXCEPT ![a] = @ \union {c}]
  /\ reading' = [reading EXCEPT ![a] = @ \union {[car |-> c, by |-> "event"]}]
  /\ UNCHANGED <<contractVars, tableVars, coreVars, paymentVars, callVars,
                 restarts>>

DoneReading(a, c, by) ==
  /\ [car |-> c, by |-> by] \in reading[a]
  /\ reading' = [reading EXCEPT ![a] = @ \ {[car |-> c, by |-> by]}]

\* An IpfsGetError, a CarOwnerMismatchedError or the primary key ends the
\* handler; only the master passes the car on.
EventRead(a, c) ==
  /\ DoneReading(a, c, "event")
  /\ \/ /\ OwnerMatches(c)
        /\ InsertNewCar(a, c)
        /\ \/ a = Master /\ PostToCore(InsertRequest(c))
           \/ a # Master /\ UNCHANGED coreVars
     \/ /\ "ipfs" \in Unreliable \/ ~ OwnerMatches(c) \/ CarExists(a, c)
        /\ UNCHANGED <<tableVars, coreVars>>
  /\ UNCHANGED <<contractVars, paymentVars, callVars, heard, restarts>>

(***************************************************************************)
(* core_event.js and car.js: a block's requests, those of them that the    *)
(* machine has something to do with.  A block with several requests counts *)
(* as that many blocks.                                                    *)
(***************************************************************************)
OnInsertNewCar(a, q) ==
  /\ q.task = "insert"
  /\ reading' = IF CarExists(a, q.car) THEN reading
                ELSE [reading EXCEPT ![a] =
                        @ \union {[car |-> q.car, by |-> "notification"]}]
  /\ UNCHANGED <<tableVars, calls>>

\* Mutant: the payment itself is recorded.
PaymentProof(q) == q.payment

\* car.js 70 to 79: it is the car's hash that is looked up and recorded.
UsedKey(q) == q.car

OnAuthorizeCar(a, k) ==
  LET q == k.request IN
  /\ q.task = "authorize"
  /\ UNCHANGED reading
  /\ \/ /\ ~ IsUsed(a, UsedKey(q))
        /\ InsertNewPayment(a, UsedKey(q))
        /\ UpdateCar(a, q.car, q.renter)
        /\ calls' = IF UpdateHits(a, q.car) THEN calls \union {k} ELSE calls
     \/ /\ IsUsed(a, UsedKey(q))
        /\ UNCHANGED <<tableVars, calls>>

Notify(a, k) ==
  /\ due' = [due EXCEPT ![a] = @ \ {k}]
  /\ OnInsertNewCar(a, k.request) \/ OnAuthorizeCar(a, k)
  /\ UNCHANGED <<contractVars, posted, paymentVars, failed, heard, restarts>>

NotificationRead(a, c) ==
  /\ DoneReading(a, c, "notification")
  /\ \/ InsertNewCar(a, c)
     \/ /\ "ipfs" \in Unreliable \/ CarExists(a, c)
        /\ UNCHANGED tableVars
  /\ UNCHANGED <<contractVars, coreVars, paymentVars, callVars, heard,
                 restarts>>

(***************************************************************************)
(* iota_payment.js: POST /tx_hash.                                         *)
(***************************************************************************)
\* A payment known to be used is answered 400; what follows the answer then
\* fails on the primary key.
ProcessTxHash(a, x) ==
  /\ received < MaxPosts
  /\ received' = received + 1
  /\ x.id = received'
  /\ \/ /\ IsUsed(a, x.payment)
        /\ rejected' = rejected \union {x.id}
        /\ UNCHANGED paying
     \/ /\ ~ IsUsed(a, x.payment)
        /\ paying' = [paying EXCEPT ![a] = @ \union {x}]
        /\ UNCHANGED rejected
  /\ UNCHANGED <<contractVars, tableVars, coreVars, callVars, heard, reading,
                 restarts>>

\* The car is only looked up for a payment that is confirmed, and the lookup
\* throws when there is no such row.
LookupThrows(a, x, confirmed) == confirmed /\ x.car \notin listed[a]

IsPaymentValid(x, confirmed) == confirmed /\ PaysFor[x.payment] = x.car

\* The rest of processTxHash runs whether or not the payment is valid.
Record(a, x) ==
  \/ /\ InsertNewPayment(a, x.payment)
     /\ UpdateCar(a, x.car, x.renter)
     /\ \/ UpdateHits(a, x.car) /\ PostToCore(AuthorizeRequest(a, x))
        \/ ~ UpdateHits(a, x.car) /\ UNCHANGED coreVars
  \/ PaymentExists(a, x.payment) /\ UNCHANGED <<tableVars, coreVars>>

\* confirmed is what IOTA answers; a payment may be confirmed later on.
Judge(a, x, confirmed) ==
  /\ paying' = [paying EXCEPT ![a] = @ \ {x}]
  /\ \/ /\ ~ LookupThrows(a, x, confirmed)
        /\ rejected' = IF IsPaymentValid(x, confirmed) THEN rejected
                       ELSE rejected \union {x.id}
        /\ Record(a, x)
     \/ /\ "iota" \in Unreliable \/ LookupThrows(a, x, confirmed)
        /\ UNCHANGED <<rejected, tableVars, coreVars>>
  /\ UNCHANGED <<contractVars, received, callVars, heard, reading, restarts>>

(***************************************************************************)
(* An application is stopped and started: its tables are cleared, it       *)
(* listens from block 0 again, and it may have missed any notification.    *)
(* What it sent to Ethereum goes on.                                       *)
(***************************************************************************)
\* Mutant: it listens to new events only.
HeardBefore(a) == heard[a]

HeardAtStart(a) == {}

Restart(a) ==
  /\ restarts < MaxRestarts
  /\ restarts' = restarts + 1
  /\ heard' = [heard EXCEPT ![a] = HeardAtStart(a)]
  /\ reading' = [reading EXCEPT ![a] = {}]
  /\ listed' = [listed EXCEPT ![a] = {}]
  /\ rentedTo' = [rentedTo EXCEPT ![a] = [c \in Car |-> Nobody]]
  /\ payments' = [payments EXCEPT ![a] = {}]
  /\ paying' = [paying EXCEPT ![a] = {}]
  /\ \E missed \in SUBSET due[a] :
       due' = [due EXCEPT ![a] = @ \ missed]
  /\ UNCHANGED <<contractVars, received, rejected, posted, callVars>>

RentalNext ==
  \/ \E c \in Car, o \in Owner : StoreRentalCar(c, o)
  \/ \E k \in calls : AuthorizeRentalCar(k) \/ SendFails(k)
  \/ \E a \in App, c \in Car :
       HearEvent(a, c) \/ EventRead(a, c) \/ NotificationRead(a, c)
  \/ \E a \in App : \E k \in due[a] : Notify(a, k)
  \/ \E a \in App, x \in TxHash : ProcessTxHash(a, x)
  \/ \E a \in App : \E x \in paying[a], confirmed \in BOOLEAN :
       Judge(a, x, confirmed)
  \/ \E a \in Restartable : Restart(a)

RentalSpec == RentalInit /\ [][RentalNext]_rentalVars

\* What was asked for comes, well or badly: events, files, notifications, and
\* an end of each send, which may be that it failed.
RentalFairness ==
  /\ \A a \in App, c \in Car :
       /\ WF_rentalVars(HearEvent(a, c))
       /\ WF_rentalVars(EventRead(a, c))
       /\ WF_rentalVars(NotificationRead(a, c))
  /\ \A a \in App : WF_rentalVars(\E k \in due[a] : Notify(a, k))
  /\ WF_rentalVars(\E k \in calls : AuthorizeRentalCar(k) \/ SendFails(k))

FairRentalSpec == RentalSpec /\ RentalFairness
-----------------------------------------------------------------------------
Authorizations == {q \in posted : q.task = "authorize"}

\* While it is not restarted, the master never sends the contract an
\* authorization that the contract would refuse, as its test expects of a
\* second one (test/3_authorize_rental_car_test.js:40-50): the car is stored,
\* is not rented, and no other authorization of it is under way, however many
\* renters pay for it at however many machines.
NoRevertedCall ==
  Master \notin Restartable =>
    \A k \in calls :
      /\ IsValue(k.request.car) /\ ~ IsRented(k.request.car)
      /\ \A j \in calls : j.request.car = k.request.car => j = k

\* GET /car_info of a master that is not restarted never offers a car that
\* the contract has rented out.
NoRentedCarOffered ==
  Master \notin Restartable =>
    \A c \in Car :
      IsRented(c) => c \in listed[Master] /\ rentedTo[Master][c] # Nobody

\* A machine that is not restarted asks for one authorization per payment,
\* although two posts of a payment may both find it unused before either is
\* recorded (iota_payment.js 44, 60).
PaymentSpentOnce ==
  \A q, r \in Authorizations :
    /\ q.from \notin Restartable
    /\ q.from = r.from /\ q.payment = r.payment
    => q = r

\* A car is listed, by whichever of its two ways, only if the account that
\* stored it is the owner its description names: the way by notifications,
\* which does not look, can rely on the master's event handler.
OwnerVouchedFor ==
  \A a \in App : \A c \in listed[a] : carOwner[c] = FileOwner[c]

\* The event and the notification of one car race; the later one leaves the
\* row alone, so a rented car is not offered again unless by a restart.
RentedRowKept ==
  [][restarts' = restarts =>
       \A a \in App, c \in Car :
         rentedTo[a][c] # Nobody => rentedTo'[a][c] # Nobody]_rentalVars

\* Every car stored by its owner comes to be listed at every machine, over
\* restarts, for good.
EveryCarListed ==
  \A a \in App, c \in Car : carOwner[c] = FileOwner[c] ~> [](c \in listed[a])

\* Once an authorization is asked for that the master can carry out, the car
\* is rented, unless Ethereum fails the one transaction that the master sends:
\* the car's hash is recorded before it is sent (car.js 75, 92) and stops every
\* later authorization.  Nothing else stops them, although one table holds the
\* hashes of cars and of the payments the master takes itself.
PaidCarIsRented ==
  \A c \in Car :
    /\ \E q \in Authorizations : q.car = c
    /\ c \in listed[Master] /\ c \notin payments[Master]
    ~> IsRented(c) \/ \E k \in failed : k.request.car = c

\* "Tx hash is not valid" (iota_payment.js:45): no authorization is asked for
\* on behalf of a renter who got that answer.
RejectedNotPosted == \A q \in Authorizations : q.id \notin rejected
=============================================================================
