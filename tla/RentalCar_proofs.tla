-------------------------- MODULE RentalCar_proofs --------------------------
(***************************************************************************)
(* RentalCar's safety properties, for any machines, cars and renters.      *)
(*                                                                         *)
(* The cars: a request to insert one, and a description read on account of *)
(* a notification, go back to a comparison of owners that the master made, *)
(* and the contract never changes an owner.  The payments: a machine that  *)
(* is not restarted has a row for each payment it posted.  The master: a   *)
(* car that is rented, or whose authorization is under way, has a row in   *)
(* its payments, so it takes up no second one.                             *)
(***************************************************************************)
EXTENDS RentalCar, TLAPS

\* Only authorizations are sent to Ethereum.
CallsAuthorize == \A k \in calls : k.request.task = "authorize"

\* What a machine is told of was posted; authorizations concern the master.
NoticesPosted ==
  \A a \in App : \A k \in due[a] :
    /\ k.request \in posted
    /\ k.request.task = "authorize" => a = Master

\* The owner was compared for what is inserted without looking.
InsertsVouchedFor ==
  /\ \A q \in posted : q.task = "insert" => OwnerMatches(q.car)
  /\ \A a \in App : \A r \in reading[a] :
       r.by = "notification" => OwnerMatches(r.car)

\* Each authorization a machine posted left a row in its payments.
PaymentsRecorded ==
  \A q \in Authorizations :
    q.from \notin Restartable => q.payment \in payments[q.from]

RentedRowsListed ==
  \A a \in App, c \in Car : rentedTo[a][c] # Nobody => c \in listed[a]

\* A car that is rented, or about to be, is recorded as used and rented at the
\* master, and is on its way to the contract at most once.
CarsRecorded ==
  Master \notin Restartable =>
    /\ \A c \in Car :
         IsRented(c) \/ (\E k \in calls : k.request.car = c) =>
           /\ c \in payments[Master]
           /\ rentedTo[Master][c] # Nobody
    /\ \A k \in calls :
         /\ ~ IsRented(k.request.car)
         /\ \A j \in calls : j.request.car = k.request.car => j = k

PostsNumbered == \A a \in App : \A x \in paying[a] : x.id <= received

RentalInv ==
  /\ RentalTypeOK
  /\ PostsNumbered
  /\ CallsAuthorize
  /\ NoticesPosted
  /\ InsertsVouchedFor
  /\ OwnerVouchedFor
  /\ PaymentsRecorded
  /\ PaymentSpentOnce
  /\ RentedRowsListed
  /\ CarsRecorded
-----------------------------------------------------------------------------
LEMMA RequestTypes ==
  /\ \A c \in Car : InsertRequest(c) \in AppRequest
  /\ \A a \in App, x \in TxHash : AuthorizeRequest(a, x) \in AppRequest
  BY DEF InsertRequest, AuthorizeRequest, AppRequest, TxHash

\* What posting a request to the core engine changes.
LEMMA PostEffect ==
  ASSUME RentalTypeOK, NoticesPosted, NEW q \in AppRequest, PostToCore(q)
  PROVE  /\ posted' \subseteq AppRequest
         /\ due' \in [App -> SUBSET Notice]
         /\ posted' \subseteq posted \union {q}
         /\ NoticesPosted'
<1>1. Blocks(q) \subseteq Notice
  BY DEF Blocks, Notice
<1>2. CASE UNCHANGED coreVars
  BY <1>2 DEF coreVars, RentalTypeOK, NoticesPosted
<1>3. CASE /\ posted' = posted \union {q}
           /\ due' = [a \in App |->
                IF Concerns(a, q) THEN due[a] \union Blocks(q) ELSE due[a]]
  <2>1. due' \in [App -> SUBSET Notice]
    BY <1>1, <1>3 DEF RentalTypeOK
  <2>2. NoticesPosted'
    <3> SUFFICES ASSUME NEW a \in App, NEW k \in due'[a]
                 PROVE  /\ k.request \in posted'
                        /\ k.request.task = "authorize" => a = Master
      BY DEF NoticesPosted
    <3>1. CASE k \in due[a]
      BY <1>3, <3>1 DEF NoticesPosted
    <3>2. CASE k \in Blocks(q) /\ Concerns(a, q)
      BY <1>3, <3>2 DEF Blocks, Concerns
    <3> QED
      BY <1>3, <3>1, <3>2
  <2> QED
    BY <1>3, <2>1, <2>2 DEF RentalTypeOK
<1> QED
  BY <1>2, <1>3 DEF PostToCore

LEMMA RentalInitial == RentalInit => RentalInv
  BY RentalAssumption
     DEF RentalInit, RentalInv, RentalTypeOK, PostsNumbered, CallsAuthorize,
          NoticesPosted,
         InsertsVouchedFor, OwnerVouchedFor, PaymentsRecorded,
         PaymentSpentOnce, RentedRowsListed, CarsRecorded, Authorizations,
         IsRented

LEMMA StoreStep ==
  ASSUME RentalInv, NEW c \in Car, NEW o \in Owner, StoreRentalCar(c, o)
  PROVE  RentalInv'
<1> USE DEF RentalInv, StoreRentalCar, tableVars, coreVars, paymentVars,
            callVars
<1>1. RentalTypeOK'
  BY DEF RentalTypeOK
<1>2. \A d \in Car : OwnerMatches(d) => OwnerMatches(d)'
  <2> SUFFICES ASSUME NEW d \in Car, OwnerMatches(d)
               PROVE  OwnerMatches(d)'
    OBVIOUS
  <2>1. carOwner[d] # Nobody
    BY RentalAssumption DEF OwnerMatches
  <2>2. d # c
    BY <2>1 DEF IsValue
  <2> QED
    BY <2>2 DEF OwnerMatches, RentalTypeOK
<1>3. InsertsVouchedFor'
  <2>1. \A q \in posted : q.task = "insert" => q.car \in Car
    BY DEF RentalTypeOK, AppRequest
  <2>2. \A a \in App : \A r \in reading[a] : r.car \in Car
    BY DEF RentalTypeOK, Reading
  <2> QED
    BY <1>2, <2>1, <2>2 DEF InsertsVouchedFor
<1>4. OwnerVouchedFor'
  BY <1>2 DEF OwnerVouchedFor, OwnerMatches, RentalTypeOK
<1>5. /\ CallsAuthorize' /\ PostsNumbered' /\ NoticesPosted'
      /\ PaymentsRecorded'
      /\ PaymentSpentOnce' /\ RentedRowsListed' /\ CarsRecorded'
  BY DEF CallsAuthorize, PostsNumbered, NoticesPosted, PaymentsRecorded,
       PaymentSpentOnce,
         RentedRowsListed, CarsRecorded, Authorizations, IsRented
<1> QED
  BY <1>1, <1>3, <1>4, <1>5

LEMMA MineStep ==
  ASSUME RentalInv, NEW k \in calls, AuthorizeRentalCar(k)
  PROVE  RentalInv'
<1> USE DEF RentalInv, AuthorizeRentalCar, tableVars, coreVars, paymentVars
<1> DEFINE c == k.request.car
<1>1. c \in Car /\ k.request.renter \in Renter /\ calls' \subseteq calls
  BY DEF RentalTypeOK, CallsAuthorize, Notice, AppRequest
<1>2. RentalTypeOK'
  BY <1>1 DEF RentalTypeOK
<1>3. CarsRecorded'
  <2> SUFFICES ASSUME Master \notin Restartable
               PROVE  CarsRecorded'
    BY DEF CarsRecorded
  <2>1. \A d \in Car : IsRented(d)' => IsRented(d) \/ d = c
    BY <1>1 DEF IsRented, RentalTypeOK
  <2>2. \A d \in Car : IsRented(d)' \/ (\E j \in calls' : j.request.car = d)
           => d \in payments'[Master] /\ rentedTo'[Master][d] # Nobody
    BY <1>1, <2>1 DEF CarsRecorded
  <2>3. \A j \in calls' : j.request.car \in Car /\ j.request.car # c
    BY <1>1 DEF CarsRecorded, RentalTypeOK, Notice, AppRequest
  <2>4. \A j \in calls' : ~ IsRented(j.request.car)'
    BY <1>1, <2>1, <2>3 DEF CarsRecorded
  <2> QED
    BY <1>1, <2>2, <2>4 DEF CarsRecorded
<1>4. /\ CallsAuthorize' /\ PostsNumbered' /\ NoticesPosted'
      /\ InsertsVouchedFor'
      /\ OwnerVouchedFor' /\ PaymentsRecorded' /\ PaymentSpentOnce'
      /\ RentedRowsListed'
  BY DEF CallsAuthorize, PostsNumbered, NoticesPosted, InsertsVouchedFor,
       OwnerVouchedFor,
         PaymentsRecorded, PaymentSpentOnce, RentedRowsListed,
         Authorizations, OwnerMatches
<1> QED
  BY <1>2, <1>3, <1>4

\* A failed transaction leaves everything as it was, but is no longer under way.
LEMMA FailStep ==
  ASSUME RentalInv, NEW k \in calls, SendFails(k)
  PROVE  RentalInv'
<1> USE DEF RentalInv, SendFails, contractVars, tableVars, coreVars, paymentVars
<1>1. RentalTypeOK'
  BY DEF RentalTypeOK
<1>2. CarsRecorded'
  BY DEF CarsRecorded, IsRented
<1>3. /\ CallsAuthorize' /\ PostsNumbered' /\ NoticesPosted'
      /\ InsertsVouchedFor' /\ OwnerVouchedFor' /\ PaymentsRecorded'
      /\ PaymentSpentOnce' /\ RentedRowsListed'
  BY DEF CallsAuthorize, PostsNumbered, NoticesPosted, InsertsVouchedFor,
       OwnerVouchedFor, PaymentsRecorded, PaymentSpentOnce, RentedRowsListed,
       Authorizations, OwnerMatches
<1> QED
  BY <1>1, <1>2, <1>3

LEMMA HearStep ==
  ASSUME RentalInv, NEW a \in App, NEW c \in Car, HearEvent(a, c)
  PROVE  RentalInv'
<1> USE DEF RentalInv, HearEvent, contractVars, tableVars, coreVars,
            paymentVars, callVars
<1>1. RentalTypeOK'
  BY DEF RentalTypeOK, Reading
<1>2. InsertsVouchedFor'
  BY DEF InsertsVouchedFor, OwnerMatches, RentalTypeOK
<1>3. /\ CallsAuthorize' /\ PostsNumbered' /\ NoticesPosted' /\ OwnerVouchedFor'
      /\ PaymentsRecorded' /\ PaymentSpentOnce' /\ RentedRowsListed'
      /\ CarsRecorded'
  BY DEF CallsAuthorize, PostsNumbered, NoticesPosted, OwnerVouchedFor,
       PaymentsRecorded,
         PaymentSpentOnce, RentedRowsListed, CarsRecorded, Authorizations,
         IsRented
<1> QED
  BY <1>1, <1>2, <1>3
-----------------------------------------------------------------------------
\* A car is listed: by a handler that compared the owner, or that may rely on
\* a comparison made before.
LEMMA InsertEffect ==
  ASSUME RentalInv, NEW a \in App, NEW c \in Car, InsertNewCar(a, c),
         OwnerMatches(c), UNCHANGED <<contractVars, calls>>
  PROVE  /\ listed' \in [App -> SUBSET Car]
         /\ rentedTo' \in [App -> [Car -> Renter \union {Nobody}]]
         /\ OwnerVouchedFor' /\ RentedRowsListed' /\ CarsRecorded'
<1> USE DEF RentalInv, InsertNewCar, CarExists, contractVars
<1>1. /\ listed' \in [App -> SUBSET Car]
      /\ rentedTo' \in [App -> [Car -> Renter \union {Nobody}]]
  BY DEF RentalTypeOK
<1>2. OwnerVouchedFor'
  BY DEF RentalTypeOK, OwnerVouchedFor, OwnerMatches
<1>3. rentedTo' = rentedTo
  BY DEF RentalTypeOK, RentedRowsListed
<1>4. RentedRowsListed'
  BY <1>3 DEF RentalTypeOK, RentedRowsListed
<1>5. CarsRecorded'
  BY <1>3 DEF CarsRecorded, IsRented
<1> QED
  BY <1>1, <1>2, <1>4, <1>5

LEMMA EventReadStep ==
  ASSUME RentalInv, NEW a \in App, NEW c \in Car, EventRead(a, c)
  PROVE  RentalInv'
<1> USE DEF RentalInv, EventRead, paymentVars, callVars
<1>1. /\ reading' \in [App -> SUBSET Reading]
      /\ \A b \in App : reading'[b] \subseteq reading[b]
  BY DEF DoneReading, RentalTypeOK
<1>2. CASE UNCHANGED <<tableVars, coreVars>>
  <2>1. RentalTypeOK'
    BY <1>1, <1>2 DEF RentalTypeOK, tableVars, coreVars, contractVars
  <2>2. InsertsVouchedFor'
    BY <1>1, <1>2 DEF InsertsVouchedFor, OwnerMatches, coreVars, contractVars
  <2>3. /\ CallsAuthorize' /\ PostsNumbered' /\ NoticesPosted'
        /\ OwnerVouchedFor'
        /\ PaymentsRecorded' /\ PaymentSpentOnce' /\ RentedRowsListed'
        /\ CarsRecorded'
    BY <1>2 DEF CallsAuthorize, PostsNumbered, NoticesPosted, OwnerVouchedFor,
         PaymentsRecorded, PaymentSpentOnce, RentedRowsListed, CarsRecorded,
         Authorizations, IsRented, tableVars, coreVars, contractVars
  <2> QED
    BY <2>1, <2>2, <2>3
<1>3. CASE /\ OwnerMatches(c)
           /\ InsertNewCar(a, c)
           /\ \/ a = Master /\ PostToCore(InsertRequest(c))
              \/ a # Master /\ UNCHANGED coreVars
  <2>1. /\ listed' \in [App -> SUBSET Car]
        /\ rentedTo' \in [App -> [Car -> Renter \union {Nobody}]]
        /\ OwnerVouchedFor' /\ RentedRowsListed' /\ CarsRecorded'
    BY <1>3, InsertEffect
  <2>2. /\ posted' \subseteq AppRequest
        /\ due' \in [App -> SUBSET Notice]
        /\ posted' \subseteq posted \union {InsertRequest(c)}
        /\ NoticesPosted'
    <3>1. CASE PostToCore(InsertRequest(c))
      BY <3>1, RequestTypes, PostEffect
    <3>2. CASE UNCHANGED coreVars
      BY <3>2 DEF coreVars, RentalTypeOK, NoticesPosted
    <3> QED
      BY <1>3, <3>1, <3>2
  <2>3. payments' = payments
    BY <1>3 DEF InsertNewCar
  <2>4. RentalTypeOK'
    BY <1>1, <2>1, <2>2, <2>3 DEF RentalTypeOK, contractVars
  <2>5. InsertsVouchedFor'
    BY <1>1, <1>3, <2>2
       DEF InsertsVouchedFor, OwnerMatches, contractVars, InsertRequest
  <2>6. Authorizations' \subseteq Authorizations
    BY <2>2 DEF Authorizations, InsertRequest
  <2>7. PaymentsRecorded' /\ PaymentSpentOnce'
    BY <2>3, <2>6 DEF PaymentsRecorded, PaymentSpentOnce
  <2>8. CallsAuthorize' /\ PostsNumbered'
    BY DEF CallsAuthorize, PostsNumbered
  <2> QED
    BY <2>1, <2>2, <2>4, <2>5, <2>7, <2>8
<1> QED
  BY <1>2, <1>3

LEMMA NotificationReadStep ==
  ASSUME RentalInv, NEW a \in App, NEW c \in Car, NotificationRead(a, c)
  PROVE  RentalInv'
<1> USE DEF RentalInv, NotificationRead, paymentVars, coreVars, callVars
<1>1. /\ reading' \in [App -> SUBSET Reading]
      /\ \A b \in App : reading'[b] \subseteq reading[b]
  BY DEF DoneReading, RentalTypeOK
<1>2. OwnerMatches(c)
  BY DEF DoneReading, InsertsVouchedFor
<1>3. /\ listed' \in [App -> SUBSET Car]
      /\ rentedTo' \in [App -> [Car -> Renter \union {Nobody}]]
      /\ OwnerVouchedFor' /\ RentedRowsListed' /\ CarsRecorded'
  <2>1. CASE InsertNewCar(a, c)
    BY <1>2, <2>1, InsertEffect
  <2>2. CASE UNCHANGED tableVars
    BY <2>2 DEF tableVars, contractVars, RentalTypeOK, OwnerVouchedFor,
         RentedRowsListed, CarsRecorded, IsRented
  <2> QED
    BY <2>1, <2>2
<1>4. payments' = payments
  BY DEF InsertNewCar, tableVars
<1>5. RentalTypeOK'
  BY <1>1, <1>3, <1>4 DEF RentalTypeOK, contractVars
<1>6. InsertsVouchedFor'
  BY <1>1 DEF InsertsVouchedFor, OwnerMatches, contractVars
<1>7. /\ CallsAuthorize' /\ PostsNumbered' /\ NoticesPosted'
      /\ PaymentsRecorded' /\ PaymentSpentOnce'
  BY <1>4 DEF CallsAuthorize, PostsNumbered, NoticesPosted, PaymentsRecorded,
       PaymentSpentOnce, Authorizations
<1> QED
  BY <1>3, <1>5, <1>6, <1>7
-----------------------------------------------------------------------------
\* A key is recorded and a row updated, for a payment or an authorization.
LEMMA RecordEffect ==
  ASSUME RentalInv, NEW a \in App, NEW key \in Payment \union Car,
         NEW c \in Car, NEW r \in Renter,
         InsertNewPayment(a, key), UpdateCar(a, c, r), UNCHANGED contractVars
  PROVE  /\ payments' \in [App -> SUBSET (Payment \union Car)]
         /\ \A b \in App : payments[b] \subseteq payments'[b]
         /\ key \notin payments[a] /\ key \in payments'[a]
         /\ listed' = listed
         /\ rentedTo' \in [App -> [Car -> Renter \union {Nobody}]]
         /\ \A b \in App, d \in Car :
              rentedTo[b][d] # Nobody => rentedTo'[b][d] # Nobody
         /\ UpdateHits(a, c) => rentedTo'[a][c] # Nobody
         /\ OwnerVouchedFor' /\ RentedRowsListed'
<1> USE DEF RentalInv, InsertNewPayment, UpdateCar, contractVars
<1>1. /\ payments' \in [App -> SUBSET (Payment \union Car)]
      /\ \A b \in App : payments[b] \subseteq payments'[b]
      /\ key \notin payments[a] /\ key \in payments'[a]
  BY DEF RentalTypeOK, PaymentExists
<1>2. r # Nobody
  BY RentalAssumption
<1>3. /\ rentedTo' \in [App -> [Car -> Renter \union {Nobody}]]
      /\ \A b \in App, d \in Car :
           rentedTo[b][d] # Nobody => rentedTo'[b][d] # Nobody
      /\ UpdateHits(a, c) => rentedTo'[a][c] # Nobody
  BY <1>2 DEF RentalTypeOK, UpdateHits
<1>4. RentedRowsListed'
  BY DEF RentalTypeOK, RentedRowsListed
<1>5. OwnerVouchedFor'
  BY DEF OwnerVouchedFor
<1> QED
  BY <1>1, <1>3, <1>4, <1>5

LEMMA NotifyStep ==
  ASSUME RentalInv, NEW a \in App, NEW k \in due[a], Notify(a, k)
  PROVE  RentalInv'
<1> DEFINE q == k.request
<1> USE DEF RentalInv, Notify, paymentVars
<1>1. /\ k \in Notice /\ q \in AppRequest /\ q \in posted /\ q.car \in Car
      /\ q.task = "authorize" => a = Master /\ q.renter \in Renter
  BY DEF RentalTypeOK, NoticesPosted, Notice, AppRequest
<1>2. /\ due' \in [App -> SUBSET Notice]
      /\ \A b \in App : due'[b] \subseteq due[b]
  BY DEF RentalTypeOK
<1>3. NoticesPosted'
  BY <1>2 DEF NoticesPosted
<1>4. CASE OnInsertNewCar(a, q)
  <2>1. RentalTypeOK'
    BY <1>1, <1>2, <1>4
       DEF RentalTypeOK, OnInsertNewCar, Reading, contractVars, tableVars
  <2>2. InsertsVouchedFor'
    BY <1>1, <1>4 DEF InsertsVouchedFor, OnInsertNewCar, OwnerMatches,
         contractVars, RentalTypeOK
  <2>3. /\ CallsAuthorize' /\ PostsNumbered' /\ OwnerVouchedFor'
        /\ PaymentsRecorded'
        /\ PaymentSpentOnce' /\ RentedRowsListed' /\ CarsRecorded'
    BY <1>4 DEF CallsAuthorize, PostsNumbered, OwnerVouchedFor,
         PaymentsRecorded,
         PaymentSpentOnce, RentedRowsListed, CarsRecorded, Authorizations,
         IsRented, OnInsertNewCar, contractVars, tableVars
  <2> QED
    BY <1>3, <2>1, <2>2, <2>3
<1>5. CASE OnAuthorizeCar(a, k)
  <2>1. a = Master /\ q.task = "authorize" /\ q.renter \in Renter
    BY <1>1, <1>5 DEF OnAuthorizeCar
  <2>2. InsertsVouchedFor'
    BY <1>5 DEF InsertsVouchedFor, OnAuthorizeCar, OwnerMatches, contractVars
  <2>3. CASE UNCHANGED <<tableVars, calls>>
    <3>1. RentalTypeOK'
      BY <1>2, <1>5, <2>3
         DEF RentalTypeOK, OnAuthorizeCar, contractVars, tableVars
    <3>2. /\ CallsAuthorize' /\ PostsNumbered' /\ OwnerVouchedFor'
          /\ PaymentsRecorded'
          /\ PaymentSpentOnce' /\ RentedRowsListed' /\ CarsRecorded'
      BY <2>3 DEF CallsAuthorize, PostsNumbered, OwnerVouchedFor,
           PaymentsRecorded,
           PaymentSpentOnce, RentedRowsListed, CarsRecorded, Authorizations,
           IsRented, contractVars, tableVars
    <3> QED
      BY <1>3, <2>2, <3>1, <3>2
  <2>4. CASE /\ InsertNewPayment(a, q.car)
             /\ UpdateCar(a, q.car, q.renter)
             /\ calls' = IF UpdateHits(a, q.car)
                         THEN calls \union {k} ELSE calls
    <3> HIDE DEF q
    <3>1. /\ payments' \in [App -> SUBSET (Payment \union Car)]
          /\ \A b \in App : payments[b] \subseteq payments'[b]
          /\ q.car \notin payments[a] /\ q.car \in payments'[a]
          /\ listed' = listed
          /\ rentedTo' \in [App -> [Car -> Renter \union {Nobody}]]
          /\ \A b \in App, d \in Car :
               rentedTo[b][d] # Nobody => rentedTo'[b][d] # Nobody
          /\ UpdateHits(a, q.car) => rentedTo'[a][q.car] # Nobody
          /\ OwnerVouchedFor' /\ RentedRowsListed'
      BY <1>1, <2>1, <2>4, RecordEffect
    <3>2. calls' \subseteq Notice
      BY <1>1, <2>4 DEF RentalTypeOK
    <3>3. RentalTypeOK'
      BY <1>2, <1>5, <3>1, <3>2 DEF RentalTypeOK, OnAuthorizeCar, contractVars
    <3>4. CallsAuthorize' /\ PostsNumbered'
      BY <2>1, <2>4 DEF CallsAuthorize, PostsNumbered, q
    <3>5. PaymentsRecorded' /\ PaymentSpentOnce'
      <4>1. \A p \in Authorizations : p.from \in App
        BY DEF Authorizations, RentalTypeOK, AppRequest
      <4> QED
        BY <3>1, <4>1 DEF PaymentsRecorded, PaymentSpentOnce, Authorizations
    <3>6. CarsRecorded'
      <4> SUFFICES ASSUME Master \notin Restartable
                   PROVE  CarsRecorded'
        BY DEF CarsRecorded
      <4>1. ~ IsRented(q.car) /\ \A j \in calls : j.request.car # q.car
        BY <1>1, <2>1, <3>1 DEF CarsRecorded
      <4>2. \A d \in Car : IsRented(d)' = IsRented(d)
        BY DEF IsRented, contractVars
      <4>3. \A j \in calls' : j \in calls \/ (j = k /\ UpdateHits(a, q.car))
        BY <2>4
      <4>4. \A d \in Car : IsRented(d) \/ (\E j \in calls' : j.request.car = d)
              => d \in payments'[Master] /\ rentedTo'[Master][d] # Nobody
        BY <2>1, <3>1, <4>3, RentalAssumption DEF CarsRecorded, q
      <4>5. \A j \in calls' : j.request.car \in Car
        BY <3>2 DEF Notice, AppRequest
      <4>6. \A j \in calls' : ~ IsRented(j.request.car)
        BY <4>1, <4>3 DEF CarsRecorded, q
      <4>7. \A j, i \in calls' : i.request.car = j.request.car => i = j
        BY <4>1, <4>3 DEF CarsRecorded, q
      <4> QED
        BY <4>2, <4>4, <4>5, <4>6, <4>7 DEF CarsRecorded
    <3> QED
      BY <1>3, <2>2, <3>1, <3>3, <3>4, <3>5, <3>6
  <2> QED
    BY <1>5, <2>3, <2>4 DEF OnAuthorizeCar, UsedKey
<1> QED
  BY <1>4, <1>5

LEMMA TxHashStep ==
  ASSUME RentalInv, NEW a \in App, NEW x \in TxHash, ProcessTxHash(a, x)
  PROVE  RentalInv'
<1> USE DEF RentalInv, ProcessTxHash, contractVars, tableVars, coreVars,
            callVars
<1>1. RentalTypeOK'
  <2>1. received' \in 0 .. MaxPosts /\ received' = received + 1
    BY RentalAssumption DEF RentalTypeOK
  <2>2. rejected' \subseteq 1 .. received'
    <3>1. \A i \in rejected : i \in 1 .. received'
      BY <2>1, RentalAssumption DEF RentalTypeOK
    <3>2. x.id \in 1 .. received'
      BY <2>1, RentalAssumption DEF RentalTypeOK
    <3> QED
      BY <3>1, <3>2
  <2>3. paying' \in [App -> SUBSET TxHash]
    BY DEF RentalTypeOK
  <2> QED
    BY <2>1, <2>2, <2>3 DEF RentalTypeOK
<1>2. PostsNumbered'
  <2> SUFFICES ASSUME NEW b \in App, NEW y \in paying'[b]
               PROVE  y.id <= received'
    BY DEF PostsNumbered
  <2>1. y = x \/ y \in paying[b]
    BY DEF RentalTypeOK
  <2>2. received \in Nat /\ received' = received + 1 /\ y.id \in Nat
    BY <2>1, RentalAssumption DEF RentalTypeOK, TxHash
  <2> QED
    BY <2>1, <2>2 DEF PostsNumbered
<1>3. /\ CallsAuthorize' /\ NoticesPosted' /\ InsertsVouchedFor'
      /\ OwnerVouchedFor' /\ PaymentsRecorded' /\ PaymentSpentOnce'
      /\ RentedRowsListed' /\ CarsRecorded'
  BY DEF CallsAuthorize, NoticesPosted, InsertsVouchedFor, OwnerVouchedFor,
         PaymentsRecorded, PaymentSpentOnce, RentedRowsListed, CarsRecorded,
         Authorizations, IsRented, OwnerMatches
<1> QED
  BY <1>1, <1>2, <1>3

LEMMA JudgeStep ==
  ASSUME RentalInv, NEW a \in App, NEW x \in paying[a],
         NEW confirmed \in BOOLEAN, Judge(a, x, confirmed)
  PROVE  RentalInv'
<1> USE DEF RentalInv, Judge, callVars
<1>1. /\ x \in TxHash /\ x.car \in Car /\ x.payment \in Payment
      /\ x.renter \in Renter /\ x.id \in 1 .. MaxPosts
  BY DEF RentalTypeOK, TxHash
<1>2. paying' \in [App -> SUBSET TxHash]
  BY DEF RentalTypeOK
<1>3. PostsNumbered'
  BY DEF RentalTypeOK, PostsNumbered
<1>4. CASE UNCHANGED <<rejected, tableVars, coreVars>>
  BY <1>2, <1>3, <1>4 DEF RentalTypeOK, CallsAuthorize, NoticesPosted,
       InsertsVouchedFor, OwnerVouchedFor, PaymentsRecorded,
       PaymentSpentOnce, RentedRowsListed, CarsRecorded, Authorizations,
       IsRented, OwnerMatches, contractVars, tableVars, coreVars
<1>5. CASE Record(a, x) /\ rejected' \subseteq rejected \union {x.id}
  <2>1. rejected' \subseteq 1 .. received
    <3>1. x.id \in 1 .. received
      BY <1>1, RentalAssumption DEF PostsNumbered, RentalTypeOK
    <3> QED
      BY <1>5, <3>1 DEF RentalTypeOK
  <2>2. CASE UNCHANGED <<tableVars, coreVars>>
    BY <1>2, <1>3, <2>1, <2>2 DEF RentalTypeOK, CallsAuthorize,
         NoticesPosted, InsertsVouchedFor, OwnerVouchedFor,
         PaymentsRecorded, PaymentSpentOnce, RentedRowsListed, CarsRecorded,
         Authorizations, IsRented, OwnerMatches, contractVars, tableVars,
         coreVars
  <2>3. CASE /\ InsertNewPayment(a, x.payment)
             /\ UpdateCar(a, x.car, x.renter)
             /\ \/ UpdateHits(a, x.car) /\ PostToCore(AuthorizeRequest(a, x))
                \/ ~ UpdateHits(a, x.car) /\ UNCHANGED coreVars
    <3> DEFINE q == AuthorizeRequest(a, x)
    <3>1. /\ payments' \in [App -> SUBSET (Payment \union Car)]
          /\ \A b \in App : payments[b] \subseteq payments'[b]
          /\ x.payment \notin payments[a] /\ x.payment \in payments'[a]
          /\ listed' = listed
          /\ rentedTo' \in [App -> [Car -> Renter \union {Nobody}]]
          /\ \A b \in App, d \in Car :
               rentedTo[b][d] # Nobody => rentedTo'[b][d] # Nobody
          /\ OwnerVouchedFor' /\ RentedRowsListed'
      BY <1>1, <2>3, RecordEffect
    <3>2. /\ posted' \subseteq AppRequest
          /\ due' \in [App -> SUBSET Notice]
          /\ posted' \subseteq posted \union {q}
          /\ NoticesPosted'
      <4>1. CASE PostToCore(q)
        BY <1>1, <4>1, RequestTypes, PostEffect
      <4>2. CASE UNCHANGED coreVars
        BY <4>2 DEF coreVars, RentalTypeOK, NoticesPosted
      <4> QED
        BY <2>3, <4>1, <4>2
    <3>3. RentalTypeOK'
      BY <1>2, <2>1, <3>1, <3>2 DEF RentalTypeOK, contractVars
    <3>4. q.task = "authorize" /\ q.from = a /\ q.payment = x.payment
      BY DEF AuthorizeRequest
    <3> HIDE DEF q
    <3>5. InsertsVouchedFor'
      BY <3>2, <3>4 DEF InsertsVouchedFor, OwnerMatches, contractVars
    <3>6. /\ Authorizations' \subseteq Authorizations \union {q}
          /\ \A p \in Authorizations : p.from \in App
      BY <3>2 DEF Authorizations, RentalTypeOK, AppRequest
    <3>7. PaymentsRecorded'
      BY <3>1, <3>4, <3>6 DEF PaymentsRecorded
    <3>8. PaymentSpentOnce'
      BY <3>1, <3>4, <3>6 DEF PaymentsRecorded, PaymentSpentOnce
    <3>9. CallsAuthorize'
      BY DEF CallsAuthorize
    <3>10. CarsRecorded'
      BY <3>1, RentalAssumption DEF CarsRecorded, IsRented, contractVars
    <3> QED
      BY <1>3, <3>1, <3>2, <3>3, <3>5, <3>7, <3>8, <3>9, <3>10
  <2> QED
    BY <1>5, <2>2, <2>3 DEF Record
<1> QED
  BY <1>4, <1>5

LEMMA RestartStep ==
  ASSUME RentalInv, NEW a \in Restartable, Restart(a)
  PROVE  RentalInv'
<1> USE DEF RentalInv, Restart, contractVars, callVars
<1>1. a \in App
  BY RentalAssumption
<1>2. /\ due' \in [App -> SUBSET Notice]
      /\ \A b \in App : due'[b] \subseteq due[b]
  BY <1>1 DEF RentalTypeOK
<1>3. RentalTypeOK'
  <2>1. restarts' \in 0 .. MaxRestarts
    BY RentalAssumption DEF RentalTypeOK
  <2>2. /\ heard' \in [App -> SUBSET Car]
        /\ reading' \in [App -> SUBSET Reading]
        /\ listed' \in [App -> SUBSET Car]
    BY <1>1 DEF RentalTypeOK, HeardAtStart
  <2>4. rentedTo' \in [App -> [Car -> Renter \union {Nobody}]]
    <3>1. [c \in Car |-> Nobody] \in [Car -> Renter \union {Nobody}]
      OBVIOUS
    <3> QED
      BY <1>1, <3>1 DEF RentalTypeOK
  <2>3. /\ payments' \in [App -> SUBSET (Payment \union Car)]
        /\ paying' \in [App -> SUBSET TxHash]
    BY <1>1 DEF RentalTypeOK
  <2> QED
    BY <1>2, <2>1, <2>2, <2>3, <2>4 DEF RentalTypeOK
<1>4. NoticesPosted'
  BY <1>2 DEF NoticesPosted
<1>5. PaymentsRecorded'
  BY DEF PaymentsRecorded, Authorizations, RentalTypeOK
<1>6. CarsRecorded'
  BY DEF CarsRecorded, IsRented, RentalTypeOK
<1>7. /\ InsertsVouchedFor' /\ PostsNumbered' /\ OwnerVouchedFor'
      /\ RentedRowsListed'
  BY <1>1 DEF InsertsVouchedFor, PostsNumbered, OwnerVouchedFor,
       RentedRowsListed, OwnerMatches, RentalTypeOK
<1>8. CallsAuthorize' /\ PaymentSpentOnce'
  BY DEF CallsAuthorize, PaymentSpentOnce, Authorizations
<1> QED
  BY <1>3, <1>4, <1>5, <1>6, <1>7, <1>8

LEMMA RentalStep == RentalInv /\ [RentalNext]_rentalVars => RentalInv'
<1> SUFFICES ASSUME RentalInv, [RentalNext]_rentalVars
             PROVE  RentalInv'
  OBVIOUS
<1>1. CASE UNCHANGED rentalVars
  BY <1>1 DEF rentalVars, contractVars, tableVars, coreVars, paymentVars,
       callVars, RentalInv, RentalTypeOK, CallsAuthorize, PostsNumbered,
       NoticesPosted, InsertsVouchedFor, OwnerVouchedFor, PaymentsRecorded,
       PaymentSpentOnce, RentedRowsListed, CarsRecorded, Authorizations,
       IsRented, OwnerMatches
<1>2. CASE \E c \in Car, o \in Owner : StoreRentalCar(c, o)
  BY <1>2, StoreStep
<1>3. CASE \E k \in calls : AuthorizeRentalCar(k) \/ SendFails(k)
  BY <1>3, MineStep, FailStep
<1>4. CASE \E a \in App, c \in Car :
             HearEvent(a, c) \/ EventRead(a, c) \/ NotificationRead(a, c)
  BY <1>4, HearStep, EventReadStep, NotificationReadStep
<1>5. CASE \E a \in App : \E k \in due[a] : Notify(a, k)
  BY <1>5, NotifyStep
<1>6. CASE \E a \in App, x \in TxHash : ProcessTxHash(a, x)
  BY <1>6, TxHashStep
<1>7. CASE \E a \in App : \E x \in paying[a], confirmed \in BOOLEAN :
             Judge(a, x, confirmed)
  BY <1>7, JudgeStep
<1>8. CASE \E a \in Restartable : Restart(a)
  BY <1>8, RestartStep
<1> QED
  BY <1>1, <1>2, <1>3, <1>4, <1>5, <1>6, <1>7, <1>8 DEF RentalNext

LEMMA RentalInvariant == RentalSpec => []RentalInv
  BY RentalInitial, RentalStep, PTL DEF RentalSpec
-----------------------------------------------------------------------------
\* The contract, the tables and everything under way have their shape.
THEOREM RentalTypeCorrect == RentalSpec => []RentalTypeOK
<1>1. RentalInv => RentalTypeOK
  BY DEF RentalInv
<1> QED
  BY <1>1, RentalInvariant, PTL

\* The contract refuses no authorization of a master that is not restarted.
THEOREM NoCallReverted == RentalSpec => []NoRevertedCall
<1>1. RentalInv => NoRevertedCall
  <2> SUFFICES ASSUME RentalInv, Master \notin Restartable, NEW k \in calls
               PROVE  /\ IsValue(k.request.car) /\ ~ IsRented(k.request.car)
                      /\ \A j \in calls :
                           j.request.car = k.request.car => j = k
    BY DEF NoRevertedCall
  <2> DEFINE c == k.request.car
  <2>1. c \in Car
    BY DEF RentalInv, RentalTypeOK, Notice, AppRequest
  <2>2. c \in listed[Master]
    BY <2>1, RentalAssumption DEF RentalInv, CarsRecorded, RentedRowsListed
  <2>3. IsValue(c)
    BY <2>1, <2>2, RentalAssumption
       DEF RentalInv, OwnerVouchedFor, IsValue
  <2> QED
    BY <2>3 DEF RentalInv, CarsRecorded
<1> QED
  BY <1>1, RentalInvariant, PTL

\* A master that is not restarted offers no car that the contract rented out.
THEOREM RentedCarNotOffered == RentalSpec => []NoRentedCarOffered
<1>1. RentalInv => NoRentedCarOffered
  <2> SUFFICES ASSUME RentalInv, Master \notin Restartable,
                      NEW c \in Car, IsRented(c)
               PROVE  c \in listed[Master] /\ rentedTo[Master][c] # Nobody
    BY RentalAssumption DEF NoRentedCarOffered, IsRented, RentalInv,
         RentalTypeOK
  <2>1. rentedTo[Master][c] # Nobody
    BY DEF RentalInv, CarsRecorded
  <2> QED
    BY <2>1, RentalAssumption DEF RentalInv, RentedRowsListed
<1> QED
  BY <1>1, RentalInvariant, PTL

\* A payment buys one authorization at a machine that is not restarted.
THEOREM PaymentIsSpentOnce == RentalSpec => []PaymentSpentOnce
<1>1. RentalInv => PaymentSpentOnce
  BY DEF RentalInv
<1> QED
  BY <1>1, RentalInvariant, PTL

\* Every listed car was stored by the owner that its description names.
THEOREM OwnerIsVouchedFor == RentalSpec => []OwnerVouchedFor
<1>1. RentalInv => OwnerVouchedFor
  BY DEF RentalInv
<1> QED
  BY <1>1, RentalInvariant, PTL

\* Nothing but a restart makes a rented row unrented.
THEOREM RentedRowIsKept == RentalSpec => RentedRowKept
<1> DEFINE Kept == restarts' = restarts =>
       \A a \in App, c \in Car :
         rentedTo[a][c] # Nobody => rentedTo'[a][c] # Nobody
<1>1. ASSUME RentalInv, RentalNext
      PROVE  Kept
  <2>1. CASE rentedTo' = rentedTo
    BY <2>1
  <2>2. ASSUME NEW a \in App, NEW c \in Car, InsertNewCar(a, c)
        PROVE  Kept
    BY <1>1, <2>2
       DEF InsertNewCar, CarExists, RentalInv, RentalTypeOK, RentedRowsListed
  <2>3. ASSUME NEW a \in App, NEW c \in Car, NEW r \in Renter, UpdateCar(a, c,
               r)
        PROVE  Kept
    BY <1>1, <2>3, RentalAssumption DEF UpdateCar, RentalInv, RentalTypeOK
  <2>4. CASE \E c \in Car, o \in Owner : StoreRentalCar(c, o)
    BY <2>1, <2>4 DEF StoreRentalCar, tableVars
  <2>5. CASE \E k \in calls : AuthorizeRentalCar(k) \/ SendFails(k)
    BY <2>1, <2>5 DEF AuthorizeRentalCar, SendFails, tableVars
  <2>6. CASE \E a \in App, c \in Car :
               HearEvent(a, c) \/ EventRead(a, c) \/ NotificationRead(a, c)
    BY <2>1, <2>2, <2>6 DEF HearEvent, EventRead, NotificationRead, tableVars
  <2>7. CASE \E a \in App : \E k \in due[a] : Notify(a, k)
    <3> SUFFICES ASSUME NEW a \in App, NEW k \in due[a], Notify(a, k)
                 PROVE  Kept
      BY <2>7
    <3>1. CASE OnInsertNewCar(a, k.request)
      BY <2>1, <3>1 DEF OnInsertNewCar, tableVars
    <3>2. CASE OnAuthorizeCar(a, k)
      <4>1. k.request \in AppRequest /\ k.request.task = "authorize"
        BY <1>1, <3>2 DEF RentalInv, RentalTypeOK, Notice, OnAuthorizeCar
      <4>2. k.request.car \in Car /\ k.request.renter \in Renter
        BY <4>1 DEF AppRequest
      <4> QED
        BY <2>1, <2>3, <3>2, <4>2 DEF OnAuthorizeCar, tableVars
    <3> QED
      BY <3>1, <3>2 DEF Notify
  <2>8. CASE \E a \in App, x \in TxHash : ProcessTxHash(a, x)
    BY <2>1, <2>8 DEF ProcessTxHash, tableVars
  <2>9. CASE \E a \in App : \E x \in paying[a], confirmed \in BOOLEAN :
               Judge(a, x, confirmed)
    <3> SUFFICES ASSUME NEW a \in App, NEW x \in paying[a],
                        NEW confirmed \in BOOLEAN, Judge(a, x, confirmed)
                 PROVE  Kept
      BY <2>9
    <3>1. x.car \in Car /\ x.renter \in Renter
      BY <1>1 DEF RentalInv, RentalTypeOK, TxHash
    <3> QED
      BY <2>1, <2>3, <3>1 DEF Judge, Record, tableVars
  <2>10. CASE \E a \in Restartable : Restart(a)
    <3>1. restarts' # restarts
      BY <1>1, <2>10, RentalAssumption DEF Restart, RentalInv, RentalTypeOK
    <3> QED
      BY <3>1
  <2> QED
    BY <1>1, <2>4, <2>5, <2>6, <2>7, <2>8, <2>9, <2>10 DEF RentalNext
<1>2. RentalInv /\ [RentalNext]_rentalVars => [Kept]_rentalVars
  BY <1>1
<1> QED
  BY <1>2, RentalInvariant, PTL DEF RentalSpec, RentedRowKept
=============================================================================
