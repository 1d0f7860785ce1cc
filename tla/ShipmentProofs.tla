--------------------------- MODULE ShipmentProofs ---------------------------
(***************************************************************************)
(* Theorems about Shipment, for every set of orders, replacements, admins, *)
(* runs of the job and actions.                                            *)
(***************************************************************************)
EXTENDS Shipment, TLAPS

\* What a request in flight may hold, field by field.
LEMMA RequestFields ==
    ASSUME NEW r \in Request
    PROVE  /\ r.src \in Sources
           /\ r.op \in {"idle", "create", "refresh"} \cup Actions
           /\ r.op = "create" => r.answer \in {NoAnswer, "awb", "no_awb", "rejected", "uncertain"}
           /\ r.op = "refresh" => r.answer \in {NoAnswer, "unscanned"} \cup Scans
           /\ r.op \in Actions => /\ r.answer \in {NoAnswer, "accepted", "rejected", "uncertain"}
                                  /\ r.status \in {"awb_assigned", "pickup_pending", "ndr", "delivery_exception"}
                                  /\ r.provider_status \in ProviderStatus
<1> QED
    BY ActionsAssumption DEF Request

\* A request without an answer takes any answer its kind has.
LEMMA AnsweredRequest ==
    ASSUME NEW r \in Request, NEW answer
    PROVE  /\ r.op = "create" /\ answer \in {"awb", "no_awb", "rejected", "uncertain"} =>
                [r EXCEPT !.answer = answer] \in Request
           /\ r.op = "refresh" /\ answer \in {"unscanned"} \cup Scans =>
                [r EXCEPT !.answer = answer] \in Request
           /\ r.op \in Actions /\ answer \in {"accepted", "rejected", "uncertain"} =>
                [r EXCEPT !.answer = answer] \in Request
<1>1. ASSUME r.op = "create", answer \in {"awb", "no_awb", "rejected", "uncertain"}
      PROVE  [r EXCEPT !.answer = answer] \in Request
    BY <1>1, ActionsAssumption DEF Request
<1>2. ASSUME r.op = "refresh", answer \in {"unscanned"} \cup Scans
      PROVE  [r EXCEPT !.answer = answer] \in Request
    BY <1>2, ActionsAssumption DEF Request
<1>3. ASSUME r.op \in Actions, answer \in {"accepted", "rejected", "uncertain"}
      PROVE  [r EXCEPT !.answer = answer] \in Request
    BY <1>3, ActionsAssumption DEF Request
<1> QED
    BY <1>1, <1>2, <1>3

\* The requests a handler starts with.
LEMMA NewRequests ==
    /\ Idle \in Request
    /\ \A s \in Sources : NewRequest("create", s) \in Request /\ NewRequest("refresh", s) \in Request
<1>1. (CHOOSE s \in Sources : TRUE) \in Sources
    BY SourcesAssumption
<1> QED
    BY <1>1 DEF Idle, NewRequest, Request

\* Row updates of the shipments table stay in it.
LEMMA WriteType ==
    ASSUME shipments \in [Sources -> ShipmentRow], NEW s \in Sources,
           NEW status \in ShipmentStatus, NEW text \in ProviderStatus
    PROVE  /\ Write(s, status, text) => shipments' \in [Sources -> ShipmentRow]
           /\ WriteIfUnknown(s, status, text) => shipments' \in [Sources -> ShipmentRow]
<1> QED
    BY DEF Write, WriteIfUnknown, ShipmentRow

LEMMA Texts ==
    /\ OtherText \in ProviderStatus
    /\ \A a \in Actions : Pending(a) \in ProviderStatus /\ Requested(a) \in ProviderStatus
<1> QED
    BY DEF OtherText, ProviderStatus, Pending, Requested

LEMMA FulfilmentType ==
    ASSUME orders \in [Orders -> OrderRow], replacements \in [Replacements -> ReplacementRow],
           NEW s \in Sources, NEW next, ApplyFulfilment(s, next)
    PROVE  orders' \in [Orders -> OrderRow] /\ replacements' \in [Replacements -> ReplacementRow]
<1>1. \A row \in OrderRow : OrderAfter(row, next) \in OrderRow
    BY DEF OrderAfter, OrderRow
<1>2. \A row \in ReplacementRow : ReplacementAfter(row, next) \in ReplacementRow
    BY DEF ReplacementAfter, ReplacementRow
<1> QED
    BY <1>1, <1>2 DEF ApplyFulfilment

-----------------------------------------------------------------------------
LEMMA InitType == Init => TypeOK
<1> SUFFICES ASSUME Init PROVE TypeOK
    OBVIOUS
<1>1. shipments \in [Sources -> ShipmentRow]
    BY Texts DEF Init, ShipmentRow
<1>2. orders \in [Orders -> OrderRow] /\ replacements \in [Replacements -> ReplacementRow]
    BY DEF Init, OrderRow, ReplacementRow
<1>3. parcels \in [Sources -> Parcel]
    BY DEF Init, Parcel
<1>4. handlers \in [Handlers -> Request]
    BY NewRequests DEF Init
<1> QED
    BY <1>1, <1>2, <1>3, <1>4 DEF TypeOK

LEMMA StepType == TypeOK /\ [Next]_vars => TypeOK'
<1> SUFFICES ASSUME TypeOK, [Next]_vars PROVE TypeOK'
    OBVIOUS
<1>0. /\ shipments \in [Sources -> ShipmentRow] /\ orders \in [Orders -> OrderRow]
      /\ replacements \in [Replacements -> ReplacementRow] /\ parcels \in [Sources -> Parcel]
      /\ handlers \in [Handlers -> Request]
      /\ Admins \subseteq Handlers /\ Jobs \subseteq Handlers
    BY DEF TypeOK, Handlers
<1>f. \A h \in Handlers : Finish(h) => handlers' \in [Handlers -> Request]
    BY <1>0, NewRequests DEF Finish
<1>1. CASE UNCHANGED vars
    BY <1>1 DEF TypeOK, vars
<1>2. ASSUME NEW h \in Handlers, NEW s \in Sources, Prepare(h, s) PROVE TypeOK'
  <2>1. shipments' \in [Sources -> ShipmentRow]
    BY <1>0, <1>2, WriteType, Texts DEF Prepare, ShipmentStatus
  <2>2. orders' \in [Orders -> OrderRow]
    BY <1>0, <1>2 DEF Prepare, OrderRow
  <2> QED
    BY <1>0, <1>2, <2>1, <2>2, NewRequests DEF Prepare, TypeOK
<1>3. ASSUME NEW h \in Handlers, NEW s \in Sources, RequestRefresh(h, s) \/ SelectDue(h, s) PROVE TypeOK'
    BY <1>0, <1>3, NewRequests DEF RequestRefresh, SelectDue, TypeOK
<1>4. ASSUME NEW h \in Handlers, NEW s \in Sources, NEW a \in Actions, Claim(h, s, a) PROVE TypeOK'
  <2>1. shipments' \in [Sources -> ShipmentRow]
    BY <1>0, <1>4, WriteType, Texts DEF Claim, ShipmentStatus, Scans
  <2> DEFINE r == [op |-> a, src |-> s, answer |-> NoAnswer, status |-> shipments[s].status,
                   provider_status |-> shipments[s].provider_status]
  <2>2. r \in Request
    BY <1>0, <1>4 DEF Claim, Claimable, Allowed, Request, ShipmentRow
  <2>3. handlers' = [handlers EXCEPT ![h] = r]
    BY <1>4 DEF Claim
  <2>4. handlers' \in [Handlers -> Request]
    BY <1>0, <2>2, <2>3
  <2> QED
    BY <1>0, <1>4, <2>1, <2>4 DEF Claim, TypeOK
<1>5. ASSUME NEW h \in Handlers, AddOrder(h) PROVE TypeOK'
  <2>1. PICK answer \in {"awb", "no_awb", "rejected", "uncertain"}, booked \in BOOLEAN :
            /\ handlers' = [handlers EXCEPT ![h].answer = answer]
            /\ parcels' = IF booked THEN [parcels EXCEPT ![handlers[h].src] =
                                [booked |-> @.booked + 1, scan |-> "unscanned"]] ELSE parcels
    BY <1>5 DEF AddOrder
  <2>2. handlers' \in [Handlers -> Request]
    BY <1>0, <1>5, <2>1, AnsweredRequest DEF AddOrder
  <2>3. parcels' \in [Sources -> Parcel]
    <3> DEFINE src == handlers[h].src
    <3> DEFINE added == [booked |-> parcels[src].booked + 1, scan |-> "unscanned"]
    <3>1. src \in Sources /\ parcels[src].booked \in Nat
      BY <1>0, RequestFields DEF Parcel
    <3>2. added \in Parcel
      BY <3>1 DEF Parcel
    <3>3. parcels' = IF booked THEN [parcels EXCEPT ![src] = added] ELSE parcels
      BY <1>0, <2>1, <3>1
    <3> QED
      BY <1>0, <3>1, <3>2, <3>3
  <2> QED
    BY <1>0, <1>5, <2>2, <2>3 DEF AddOrder, TypeOK
<1>6. ASSUME NEW h \in Handlers, RecordBooking(h) PROVE TypeOK'
  <2>1. handlers[h].src \in Sources
    BY <1>0, RequestFields
  <2>2. shipments' \in [Sources -> ShipmentRow]
    BY <1>0, <1>6, <2>1, Texts DEF RecordBooking, FailureStatus, ShipmentRow, ShipmentStatus, Scans
  <2> QED
    BY <1>0, <1>f, <1>6, <2>2 DEF RecordBooking, TypeOK
<1>7. ASSUME NEW h \in Handlers, Dispatch(h) PROVE TypeOK'
  <2>1. PICK answer \in {"accepted", "rejected", "uncertain"}, done \in BOOLEAN :
            /\ handlers' = [handlers EXCEPT ![h].answer = answer]
            /\ parcels' = IF done THEN [parcels EXCEPT ![handlers[h].src].scan = AfterAction(@, handlers[h].op)]
                          ELSE parcels
    BY <1>7 DEF Dispatch
  <2>2. handlers' \in [Handlers -> Request]
    BY <1>0, <1>7, <2>1, AnsweredRequest DEF Dispatch
  <2>3. \A scan \in Scans \cup {"unscanned"} : AfterAction(scan, handlers[h].op) \in Scans \cup {"unscanned"}
    BY DEF AfterAction, Scans, TERMINAL, Rto
  <2>4. parcels' \in [Sources -> Parcel]
    BY <1>0, <2>1, <2>3 DEF Parcel
  <2> QED
    BY <1>0, <1>7, <2>2, <2>4 DEF Dispatch, TypeOK
<1>8. ASSUME NEW h \in Handlers, RecordAnswer(h) PROVE TypeOK'
  <2>1. /\ handlers[h].src \in Sources /\ handlers[h].op \in Actions
        /\ handlers[h].status \in ShipmentStatus /\ handlers[h].provider_status \in ProviderStatus
    BY <1>0, <1>8, RequestFields DEF RecordAnswer, ShipmentStatus, Scans, Moving
  <2>2. "cancelled" \in ShipmentStatus /\ "rto_initiated" \in ShipmentStatus /\ "provider_status_unknown" \in ShipmentStatus
    BY DEF ShipmentStatus, Scans, TERMINAL, Rto
  <2>3. shipments' \in [Sources -> ShipmentRow]
    BY <1>0, <1>8, <2>1, <2>2, WriteType, Texts, ActionsAssumption DEF RecordAnswer, RecordAccepted
  <2> QED
    BY <1>0, <1>f, <1>8, <2>3 DEF RecordAnswer, TypeOK
<1>9. ASSUME NEW h \in Handlers, Track(h) PROVE TypeOK'
  <2>1. parcels[handlers[h].src].scan \in {"unscanned"} \cup Scans
    BY <1>0, RequestFields DEF Parcel
  <2>2. handlers' \in [Handlers -> Request]
    BY <1>0, <1>9, <2>1, AnsweredRequest DEF Track
  <2> QED
    BY <1>0, <1>9, <2>2 DEF Track, TypeOK
<1>10. ASSUME NEW h \in Handlers, Ingest(h) PROVE TypeOK'
  <2> DEFINE r == handlers[h]
  <2>0. r.src \in Sources /\ r.op = "refresh" /\ (r.answer # "unscanned" => r.answer \in ShipmentStatus)
    BY <1>0, <1>10, RequestFields DEF Ingest, ShipmentStatus
  <2>1. CASE r.answer = "unscanned"
    BY <1>0, <1>f, <1>10, <2>1 DEF Ingest, TypeOK
  <2>2. CASE r.answer # "unscanned" /\ CanAdvance(shipments[r.src].status, r.answer)
    <3>1. shipments' \in [Sources -> ShipmentRow]
      BY <1>0, <1>10, <2>0, <2>2, WriteType, Texts DEF Ingest
    <3>2. orders' \in [Orders -> OrderRow] /\ replacements' \in [Replacements -> ReplacementRow]
      BY <1>0, <1>10, <2>0, <2>2, FulfilmentType DEF Ingest
    <3> QED
      BY <1>0, <1>f, <1>10, <3>1, <3>2 DEF Ingest, TypeOK
  <2>3. CASE r.answer # "unscanned" /\ ~CanAdvance(shipments[r.src].status, r.answer)
    <3>1. shipments' \in [Sources -> ShipmentRow]
      BY <1>0, <1>10, <2>0, <2>3, Texts DEF Ingest, ShipmentRow
    <3> QED
      BY <1>0, <1>f, <1>10, <2>3, <3>1 DEF Ingest, TypeOK
  <2> QED
    BY <2>1, <2>2, <2>3
<1>11. ASSUME NEW h \in Handlers, RequestDies(h) PROVE TypeOK'
    BY <1>0, <1>f, <1>11 DEF RequestDies, TypeOK
<1>12. ASSUME NEW s \in Sources, CourierScans(s) PROVE TypeOK'
    BY <1>0, <1>12 DEF CourierScans, Parcel, TypeOK
<1>13. ASSUME NEW o \in Orders, NEW next \in {"processing", "shipped", "delivered", "cancelled", "return_requested"},
              AdminUpdatesOrder(o, next) PROVE TypeOK'
  <2>1. orders' \in [Orders -> OrderRow]
    BY <1>0, <1>13 DEF AdminUpdatesOrder, OrderRow
  <2> QED
    BY <1>0, <1>13, <2>1 DEF AdminUpdatesOrder, TypeOK
<1>14. ASSUME NEW r \in Replacements, AllocateReplacement(r) PROVE TypeOK'
    BY <1>0, <1>14 DEF AllocateReplacement, ReplacementRow, TypeOK
<1> QED
    BY <1>0, <1>1, <1>2, <1>3, <1>4, <1>5, <1>6, <1>7, <1>8, <1>9, <1>10, <1>11, <1>12, <1>13, <1>14 DEF Next

\* Every reachable state is well typed, for any number of sources and requests; an action
\* is only ever claimed from the statuses the code allows for it.
THEOREM TypeCorrect == Spec => []TypeOK
<1> QED
    BY InitType, StepType, PTL DEF Spec

-----------------------------------------------------------------------------
(* Booking                                                                 *)

\* What a row says about the parcels booked for it.
RowBooked(s) ==
    /\ parcels[s].booked <= 1
    /\ shipments[s].status \in {"absent", "failed"} => parcels[s].booked = 0
    /\ shipments[s].tracking_number => /\ parcels[s].booked = 1
                                       /\ shipments[s].status \notin {"absent", "failed", "pending"}
    /\ parcels[s].booked = 0 => parcels[s].scan = "unscanned"

\* A booking request has its row to itself until it has recorded its answer.
BookingAlone(h) ==
    handlers[h].op = "create" =>
        LET s == handlers[h].src
        IN  /\ shipments[s].status = "pending" /\ ~shipments[s].tracking_number
            /\ handlers[h].answer \in {NoAnswer, "rejected"} => parcels[s].booked = 0
            /\ handlers[h].answer = "awb" => parcels[s].booked = 1
            /\ \A g \in Handlers : handlers[g].op = "create" /\ handlers[g].src = s => g = h

\* All other requests work on a row with an AWB.
WorkHasAwb(h) == handlers[h].op \in Actions \cup {"refresh"} => shipments[handlers[h].src].tracking_number

BookingInv ==
    /\ \A s \in Sources : RowBooked(s)
    /\ \A h \in Handlers : BookingAlone(h) /\ WorkHasAwb(h)

\* Whatever leaves AWBs and bookings alone, only changes the status of rows with an AWB,
\* and starts no booking request, keeps BookingInv.
LEMMA BookingFrame ==
    ASSUME BookingInv, \A h \in Handlers : handlers[h].src \in Sources,
           \A s \in Sources :
              /\ shipments'[s].tracking_number = shipments[s].tracking_number
              /\ parcels'[s].booked = parcels[s].booked
              /\ shipments'[s].status # shipments[s].status =>
                    shipments[s].tracking_number /\ shipments'[s].status \notin {"absent", "failed", "pending"}
              /\ parcels[s].booked = 0 => parcels'[s].scan = parcels[s].scan,
           \A h \in Handlers :
              \/ handlers'[h] = handlers[h]
              \/ handlers'[h].op = "idle"
              \/ /\ handlers'[h].op \in Actions \cup {"refresh"} /\ handlers'[h].src \in Sources
                 /\ shipments[handlers'[h].src].tracking_number
    PROVE  BookingInv'
<1>1. ASSUME NEW s \in Sources PROVE RowBooked(s)'
    BY <1>1 DEF BookingInv, RowBooked
<1>2. ASSUME NEW h \in Handlers PROVE BookingAlone(h)'
  <2> SUFFICES ASSUME handlers'[h].op = "create" PROVE BookingAlone(h)'
    BY DEF BookingAlone
  <2>1. handlers'[h] = handlers[h]
    BY ActionsAssumption
  <2>2. \A g \in Handlers : handlers'[g].op = "create" => handlers'[g] = handlers[g]
    BY ActionsAssumption
  <2>3. BookingAlone(h) /\ handlers[h].src \in Sources
    BY DEF BookingInv
  <2> QED
    BY <2>1, <2>2, <2>3 DEF BookingAlone
<1>3. ASSUME NEW h \in Handlers PROVE WorkHasAwb(h)'
    BY <1>3, ActionsAssumption DEF BookingInv, WorkHasAwb
<1> QED
    BY <1>1, <1>2, <1>3 DEF BookingInv

LEMMA InitBooking == Init => BookingInv
<1> SUFFICES ASSUME Init PROVE BookingInv
    OBVIOUS
<1>1. \A h \in Handlers : handlers[h].op = "idle"
    BY DEF Init, Idle, NewRequest
<1>2. \A s \in Sources : RowBooked(s)
    BY DEF Init, RowBooked
<1> QED
    BY <1>1, <1>2, ActionsAssumption DEF BookingInv, BookingAlone, WorkHasAwb

LEMMA StepBooking == TypeOK /\ BookingInv /\ [Next]_vars => BookingInv'
<1> SUFFICES ASSUME TypeOK, BookingInv, [Next]_vars PROVE BookingInv'
    OBVIOUS
<1>0. /\ shipments \in [Sources -> ShipmentRow] /\ parcels \in [Sources -> Parcel]
      /\ handlers \in [Handlers -> Request]
      /\ Admins \subseteq Handlers /\ Jobs \subseteq Handlers
      /\ \A h \in Handlers : handlers[h].src \in Sources
    BY RequestFields DEF TypeOK, Handlers
<1>i. Idle.op = "idle" /\ \A op, s : NewRequest(op, s).op = op /\ NewRequest(op, s).src = s
                                       /\ NewRequest(op, s).answer = NoAnswer
    BY DEF Idle, NewRequest
<1>1. CASE UNCHANGED vars
    BY <1>0, <1>1, BookingFrame DEF vars
<1>2. ASSUME NEW h \in Handlers, NEW s \in Sources, Prepare(h, s) PROVE BookingInv'
  <2>1. /\ shipments[s].status \in {"absent", "failed"} /\ parcels' = parcels
        /\ \A x \in Sources : /\ shipments'[x].tracking_number = shipments[x].tracking_number
                              /\ shipments'[x].status = IF x = s THEN "pending" ELSE shipments[x].status
        /\ handlers' = [handlers EXCEPT ![h] = NewRequest("create", s)]
    BY <1>0, <1>2 DEF Prepare, Write, ShipmentRow
  <2>2. ~shipments[s].tracking_number /\ parcels[s].booked = 0
    BY <2>1 DEF BookingInv, RowBooked
  <2>3. \A g \in Handlers : handlers[g].op = "create" => handlers[g].src # s
    BY <2>1 DEF BookingInv, BookingAlone
  <2>4. \A x \in Sources : RowBooked(x)'
    BY <2>1, <2>2 DEF BookingInv, RowBooked
  <2>5. ASSUME NEW g \in Handlers PROVE BookingAlone(g)' /\ WorkHasAwb(g)'
    <3>1. CASE g = h
      BY <1>0, <1>i, <2>1, <2>2, <2>3, <3>1, ActionsAssumption DEF BookingAlone, WorkHasAwb, NoAnswer
    <3>2. CASE g # h
      <4>1. handlers'[g] = handlers[g] /\ handlers'[h].src = s /\ BookingAlone(g) /\ WorkHasAwb(g)
        BY <1>0, <1>i, <2>1, <3>2 DEF BookingInv
      <4> QED
        BY <1>0, <2>1, <2>3, <3>2, <4>1 DEF BookingAlone, WorkHasAwb
    <3> QED
      BY <3>1, <3>2
  <2> QED
    BY <2>4, <2>5 DEF BookingInv
<1>3. ASSUME NEW h \in Handlers, NEW s \in Sources, RequestRefresh(h, s) \/ SelectDue(h, s) PROVE BookingInv'
    BY <1>0, <1>i, <1>3, BookingFrame DEF RequestRefresh, SelectDue
<1>4. ASSUME NEW h \in Handlers, NEW s \in Sources, NEW a \in Actions, Claim(h, s, a) PROVE BookingInv'
  <2>1. shipments[s].tracking_number /\ parcels' = parcels
        /\ \A x \in Sources : /\ shipments'[x].tracking_number = shipments[x].tracking_number
                              /\ shipments'[x].status = IF x = s THEN "provider_status_unknown" ELSE shipments[x].status
    BY <1>0, <1>4 DEF Claim, Claimable, Write, ShipmentRow
  <2>2. \A g \in Handlers : handlers'[g] = handlers[g] \/ (handlers'[g].op = a /\ handlers'[g].src = s)
    BY <1>0, <1>4 DEF Claim
  <2> QED
    BY <1>0, <2>1, <2>2, BookingFrame
<1>5. ASSUME NEW h \in Handlers, AddOrder(h) PROVE BookingInv'
  <2> DEFINE src == handlers[h].src
  <2>1. PICK answer \in {"awb", "no_awb", "rejected", "uncertain"}, booked \in BOOLEAN :
            /\ answer \in {"awb", "no_awb"} => booked
            /\ answer = "rejected" => ~booked
            /\ handlers' = [handlers EXCEPT ![h].answer = answer]
            /\ parcels' = IF booked THEN [parcels EXCEPT ![src] = [booked |-> @.booked + 1, scan |-> "unscanned"]]
                          ELSE parcels
    BY <1>5 DEF AddOrder
  <2>2. /\ handlers[h].op = "create" /\ handlers[h].answer = NoAnswer /\ shipments' = shipments
        /\ src \in Sources /\ BookingAlone(h)
    BY <1>0, <1>5 DEF AddOrder, BookingInv
  <2>3. parcels[src].booked = 0 /\ shipments[src].status = "pending" /\ ~shipments[src].tracking_number
    BY <2>2 DEF BookingAlone
  <2>4. /\ \A x \in Sources : x # src => parcels'[x] = parcels[x]
        /\ parcels'[src].booked = IF booked THEN 1 ELSE 0
        /\ parcels'[src].scan = "unscanned"
    <3>1. parcels[src].scan = "unscanned"
      BY <2>2, <2>3 DEF BookingInv, RowBooked
    <3>2. CASE booked
      BY <1>0, <2>1, <2>2, <2>3, <3>2
    <3>3. CASE ~booked
      BY <2>1, <2>3, <3>1, <3>3
    <3> QED
      BY <3>2, <3>3
  <2>5. \A x \in Sources : RowBooked(x)'
    BY <2>2, <2>3, <2>4 DEF BookingInv, RowBooked
  <2>6. /\ handlers'[h].op = "create" /\ handlers'[h].src = src /\ handlers'[h].answer = answer
        /\ \A g \in Handlers : g # h => handlers'[g] = handlers[g]
    <3> DEFINE r == handlers[h]
    <3>1. handlers' = [handlers EXCEPT ![h] = [r EXCEPT !.answer = answer]]
      BY <1>0, <2>1
    <3>2. r \in Request
      BY <1>0
    <3>3. [r EXCEPT !.answer = answer].op = r.op /\ [r EXCEPT !.answer = answer].src = r.src
          /\ [r EXCEPT !.answer = answer].answer = answer
      BY <3>2, ActionsAssumption DEF Request
    <3> QED
      BY <1>0, <2>2, <3>1, <3>3
  <2>7. ASSUME NEW g \in Handlers PROVE BookingAlone(g)' /\ WorkHasAwb(g)'
    <3>1. CASE g = h
      BY <2>1, <2>2, <2>3, <2>4, <2>6, <3>1, ActionsAssumption DEF BookingAlone, WorkHasAwb, NoAnswer
    <3>2. CASE g # h
      <4>1. handlers'[g] = handlers[g] /\ BookingAlone(g) /\ WorkHasAwb(g)
        BY <2>6, <3>2 DEF BookingInv
      <4>2. handlers[g].op = "create" => handlers[g].src # src
        BY <2>2, <3>2 DEF BookingAlone
      <4> QED
        BY <1>0, <2>2, <2>4, <2>6, <4>1, <4>2 DEF BookingAlone, WorkHasAwb
    <3> QED
      BY <3>1, <3>2
  <2> QED
    BY <2>5, <2>7 DEF BookingInv
<1>6. ASSUME NEW h \in Handlers, RecordBooking(h) PROVE BookingInv'
  <2> DEFINE src == handlers[h].src
  <2>1. /\ src \in Sources /\ handlers[h].op = "create" /\ parcels' = parcels
        /\ handlers[h].answer \in {"awb", "no_awb", "rejected", "uncertain"}
        /\ handlers' = [handlers EXCEPT ![h] = Idle]
    BY <1>0, <1>6, RequestFields DEF RecordBooking, Finish
  <2>2. /\ shipments[src].status = "pending" /\ ~shipments[src].tracking_number
        /\ handlers[h].answer = "rejected" => parcels[src].booked = 0
        /\ handlers[h].answer = "awb" => parcels[src].booked = 1
        /\ \A g \in Handlers : handlers[g].op = "create" /\ handlers[g].src = src => g = h
    BY <1>0, <2>1 DEF BookingInv, BookingAlone
  <2>3. /\ \A x \in Sources : x # src => shipments'[x] = shipments[x]
        /\ shipments'[src].tracking_number <=> handlers[h].answer = "awb"
        /\ shipments'[src].status = CASE handlers[h].answer = "awb" -> "awb_assigned"
                                       [] handlers[h].answer = "rejected" -> "failed"
                                       [] OTHER -> "provider_status_unknown"
    BY <1>0, <1>6, <2>1, <2>2 DEF RecordBooking, FailureStatus, ShipmentRow
  <2>4. \A x \in Sources : RowBooked(x)'
    BY <2>1, <2>2, <2>3 DEF BookingInv, RowBooked
  <2>5. ASSUME NEW g \in Handlers PROVE BookingAlone(g)' /\ WorkHasAwb(g)'
    <3>1. CASE g = h
      BY <1>0, <1>i, <2>1, <3>1, ActionsAssumption DEF BookingAlone, WorkHasAwb
    <3>2. CASE g # h
      <4>1. handlers'[g] = handlers[g] /\ BookingAlone(g) /\ WorkHasAwb(g) /\ handlers[g].src \in Sources
        BY <1>0, <2>1, <3>2 DEF BookingInv
      <4>2. \A x \in Handlers : handlers'[x].op = "create" => handlers'[x] = handlers[x]
        BY <1>0, <1>i, <2>1
      <4>3. handlers[g].op \in {"create", "refresh"} \cup Actions => handlers[g].src # src
        BY <2>2, <3>2, <4>1, ActionsAssumption DEF WorkHasAwb
      <4> QED
        BY <2>1, <2>3, <4>1, <4>2, <4>3 DEF BookingAlone, WorkHasAwb
    <3> QED
      BY <3>1, <3>2
  <2> QED
    BY <2>4, <2>5 DEF BookingInv
<1>7. ASSUME NEW h \in Handlers, Dispatch(h) PROVE BookingInv'
  <2> DEFINE src == handlers[h].src
  <2>1. PICK answer \in {"accepted", "rejected", "uncertain"}, done \in BOOLEAN :
            /\ handlers' = [handlers EXCEPT ![h].answer = answer]
            /\ parcels' = IF done THEN [parcels EXCEPT ![src].scan = AfterAction(@, handlers[h].op)] ELSE parcels
    BY <1>7 DEF Dispatch
  <2>2. /\ handlers[h].op \in Actions /\ src \in Sources /\ shipments' = shipments
        /\ shipments[src].tracking_number
    BY <1>0, <1>7 DEF Dispatch, BookingInv, WorkHasAwb
  <2>3. \A x \in Sources : parcels'[x].booked = parcels[x].booked /\ (x # src => parcels'[x] = parcels[x])
    BY <1>0, <2>1, <2>2 DEF Parcel
  <2>4. parcels[src].booked = 1
    BY <2>2 DEF BookingInv, RowBooked
  <2>5. \A g \in Handlers : handlers'[g] = handlers[g] \/ (handlers'[g].op \in Actions /\ handlers'[g].src = src)
    <3> DEFINE r == handlers[h]
    <3>1. handlers' = [handlers EXCEPT ![h] = [r EXCEPT !.answer = answer]]
      BY <1>0, <2>1
    <3>2. [r EXCEPT !.answer = answer].op = r.op /\ [r EXCEPT !.answer = answer].src = r.src
      <4>1. r \in Request
        BY <1>0
      <4> QED
        BY <4>1, ActionsAssumption DEF Request
    <3> QED
      BY <1>0, <2>2, <3>1, <3>2
  <2> QED
    BY <1>0, <2>2, <2>3, <2>4, <2>5, BookingFrame
<1>8. ASSUME NEW h \in Handlers, RecordAnswer(h) PROVE BookingInv'
  <2> DEFINE r == handlers[h]
  <2>1. /\ r.op \in Actions /\ r.src \in Sources /\ parcels' = parcels
        /\ r.status \in {"awb_assigned", "pickup_pending", "ndr", "delivery_exception"}
        /\ handlers' = [handlers EXCEPT ![h] = Idle]
    BY <1>0, <1>8, RequestFields DEF RecordAnswer, Finish
  <2>2. shipments[r.src].tracking_number
    BY <1>0, <2>1 DEF BookingInv, WorkHasAwb
  <2>3. \A status, text : Write(r.src, status, text) =>
            \A x \in Sources : /\ shipments'[x].tracking_number = shipments[x].tracking_number
                               /\ shipments'[x].status = IF x = r.src THEN status ELSE shipments[x].status
    BY <1>0, <2>1 DEF Write, ShipmentRow
  <2>4. \A x \in Sources :
            /\ shipments'[x].tracking_number = shipments[x].tracking_number
            /\ \/ shipments'[x].status = shipments[x].status
               \/ x = r.src /\ shipments'[x].status \in
                    {"cancelled", "rto_initiated", "provider_status_unknown", "awb_assigned",
                     "pickup_pending", "ndr", "delivery_exception"}
    BY <1>8, <2>1, <2>3, ActionsAssumption DEF RecordAnswer, RecordAccepted, WriteIfUnknown
  <2> QED
    BY <1>0, <1>i, <2>1, <2>2, <2>4, BookingFrame
<1>9. ASSUME NEW h \in Handlers, Track(h) PROVE BookingInv'
  <2> DEFINE r == handlers[h]
  <2>1. handlers' = [handlers EXCEPT ![h] = [r EXCEPT !.answer = parcels[r.src].scan]]
        /\ r.op = "refresh" /\ r \in Request
        /\ shipments' = shipments /\ parcels' = parcels
    BY <1>0, <1>9 DEF Track
  <2>2. \A answer : [r EXCEPT !.answer = answer].op = r.op /\ [r EXCEPT !.answer = answer].src = r.src
    BY <2>1, ActionsAssumption DEF Request
  <2>3. shipments[r.src].tracking_number
    BY <2>1 DEF BookingInv, WorkHasAwb
  <2> QED
    BY <1>0, <2>1, <2>2, <2>3, BookingFrame
<1>10. ASSUME NEW h \in Handlers, Ingest(h) PROVE BookingInv'
  <2> DEFINE r == handlers[h]
  <2>1. /\ r.op = "refresh" /\ r.src \in Sources /\ parcels' = parcels
        /\ r.answer # "unscanned" => r.answer \in Scans
        /\ handlers' = [handlers EXCEPT ![h] = Idle]
    BY <1>0, <1>10, RequestFields DEF Ingest, Finish
  <2>2. shipments[r.src].tracking_number
    BY <1>0, <2>1 DEF BookingInv, WorkHasAwb
  <2>3. \A x \in Sources :
            /\ shipments'[x].tracking_number = shipments[x].tracking_number
            /\ shipments'[x].status = shipments[x].status \/ (x = r.src /\ shipments'[x].status \in Scans)
    BY <1>0, <1>10, <2>1 DEF Ingest, Write, ShipmentRow
  <2>4. Scans \cap {"absent", "failed", "pending"} = {}
    BY DEF Scans, TERMINAL, Rto, Moving
  <2> QED
    BY <1>0, <1>i, <2>1, <2>2, <2>3, <2>4, BookingFrame
<1>11. ASSUME NEW h \in Handlers, RequestDies(h) PROVE BookingInv'
    BY <1>0, <1>i, <1>11, BookingFrame DEF RequestDies, Finish
<1>12. ASSUME NEW s \in Sources, CourierScans(s) PROVE BookingInv'
  <2>1. \A x \in Sources : parcels'[x].booked = parcels[x].booked /\ (x # s => parcels'[x] = parcels[x])
    BY <1>0, <1>12 DEF CourierScans, Parcel
  <2> QED
    BY <1>0, <1>12, <2>1, BookingFrame DEF CourierScans
<1>13. ASSUME NEW o \in Orders, NEW next, AdminUpdatesOrder(o, next) PROVE BookingInv'
    BY <1>0, <1>13, BookingFrame DEF AdminUpdatesOrder
<1>14. ASSUME NEW r \in Replacements, AllocateReplacement(r) PROVE BookingInv'
    BY <1>0, <1>14, BookingFrame DEF AllocateReplacement
<1> QED
    BY <1>0, <1>1, <1>2, <1>3, <1>4, <1>5, <1>6, <1>7, <1>8, <1>9, <1>10, <1>11, <1>12, <1>13, <1>14 DEF Next

\* No parcel is ever booked twice for one order or replacement, with any number of admins
\* clicking Create and Retry and any of their requests lost, dead or answered late.
THEOREM NoDoubleBookingAlways == Spec => []NoDoubleBooking
<1>1. BookingInv /\ TypeOK => NoDoubleBooking
    BY DEF BookingInv, RowBooked, NoDoubleBooking, TypeOK, Parcel
<1> QED
    BY <1>1, InitType, StepType, InitBooking, StepBooking, PTL DEF Spec

-----------------------------------------------------------------------------
(* What a row says against what the courier did                            *)

\* What may be said of a parcel with this scan.
Truth(said, scan) ==
    /\ said \in TERMINAL => scan = said
    /\ said = "rto_initiated" => scan \in Rto
    /\ said = "rto_in_transit" => scan \in {"rto_in_transit", "rto_delivered"}

\* The same of the text that says an RTO was requested.
TextTruth(text, scan) == text = Requested("RTO") => scan \in Rto

\* A request remembers nothing that is no longer so, and an accepted action was done.
RequestTruth(h) ==
    LET r == handlers[h]
        scan == parcels[r.src].scan
    IN  /\ r.op = "refresh" => Truth(r.answer, scan)
        /\ r.op \in Actions =>
            /\ TextTruth(r.provider_status, scan)
            /\ r.answer = "accepted" /\ r.op = "Cancellation" => scan = "cancelled"
            /\ r.answer = "accepted" /\ r.op = "RTO" => scan \in Rto

TruthInv ==
    /\ \A s \in Sources : Truth(shipments[s].status, parcels[s].scan)
                            /\ TextTruth(shipments[s].provider_status, parcels[s].scan)
    /\ \A h \in Handlers : RequestTruth(h)

\* How the courier's last scan may change in one step.
Later(scan, scan2) ==
    scan2 = scan \/ <<scan, scan2>> \in CourierMoves \/ scan \notin TERMINAL \cup Rto

\* Nothing that was true of a parcel is made false by the courier.
LEMMA TruthLasts ==
    ASSUME NEW scan, NEW scan2, Later(scan, scan2)
    PROVE  /\ \A said : Truth(said, scan) => Truth(said, scan2)
           /\ \A text : TextTruth(text, scan) => TextTruth(text, scan2)
           /\ scan = "cancelled" => scan2 = "cancelled"
           /\ scan = "delivered" => scan2 = "delivered"
           /\ scan \in Rto => scan2 \in Rto
<1>1. CASE scan2 = scan
    BY <1>1
<1>2. CASE <<scan, scan2>> \in CourierMoves
    BY <1>2 DEF CourierMoves, Truth, TextTruth, TERMINAL, Rto
<1>3. CASE scan \notin TERMINAL \cup Rto
    BY <1>3 DEF Truth, TextTruth, TERMINAL, Rto
<1> QED
    BY <1>1, <1>2, <1>3 DEF Later

\* In every step the courier only moves on, and a booking finds its parcel unscanned.
LEMMA StepLater ==
    ASSUME TypeOK, BookingInv, [Next]_vars, NEW s \in Sources
    PROVE  Later(parcels[s].scan, parcels'[s].scan)
<1>0. /\ parcels \in [Sources -> Parcel] /\ handlers \in [Handlers -> Request]
      /\ \A h \in Handlers : handlers[h].src \in Sources
    BY RequestFields DEF TypeOK
<1>1. CASE parcels' = parcels
    BY <1>1 DEF Later
<1>2. ASSUME NEW h \in Handlers, AddOrder(h) PROVE Later(parcels[s].scan, parcels'[s].scan)
  <2> DEFINE src == handlers[h].src
  <2>1. PICK booked \in BOOLEAN :
            parcels' = IF booked THEN [parcels EXCEPT ![src] = [booked |-> @.booked + 1, scan |-> "unscanned"]]
                       ELSE parcels
    BY <1>2 DEF AddOrder
  <2>2. parcels[src].scan = "unscanned"
    BY <1>0, <1>2 DEF AddOrder, BookingInv, BookingAlone, RowBooked
  <2>3. parcels'[s].scan = parcels[s].scan
    BY <1>0, <2>1, <2>2
  <2> QED
    BY <2>3 DEF Later
<1>3. ASSUME NEW h \in Handlers, Dispatch(h) PROVE Later(parcels[s].scan, parcels'[s].scan)
  <2> DEFINE src == handlers[h].src
  <2>1. PICK done \in BOOLEAN :
            /\ done => CourierAllows(parcels[src].scan, handlers[h].op)
            /\ parcels' = IF done THEN [parcels EXCEPT ![src].scan = AfterAction(@, handlers[h].op)] ELSE parcels
    BY <1>3 DEF Dispatch
  <2>2. s # src \/ ~done => parcels'[s].scan = parcels[s].scan
    BY <1>0, <2>1
  <2>3. done => parcels[src].scan \notin TERMINAL \cup Rto
    BY <2>1 DEF CourierAllows, TERMINAL, Rto
  <2> QED
    BY <2>2, <2>3 DEF Later
<1>4. ASSUME NEW x \in Sources, CourierScans(x) PROVE Later(parcels[s].scan, parcels'[s].scan)
    BY <1>0, <1>4 DEF CourierScans, Later, Parcel
<1>5. Next => \/ parcels' = parcels
              \/ \E h \in Handlers : AddOrder(h) \/ Dispatch(h)
              \/ \E x \in Sources : CourierScans(x)
    BY DEF Next, Prepare, RequestRefresh, Claim, SelectDue, RecordBooking, RecordAnswer, Track, Ingest,
           RequestDies, AdminUpdatesOrder, AllocateReplacement
<1> QED
    BY <1>1, <1>2, <1>3, <1>4, <1>5 DEF vars

\* A step keeps TruthInv when the rows and requests it writes are true.
LEMMA TruthFrame ==
    ASSUME TypeOK, BookingInv, TruthInv, [Next]_vars,
           \A s \in Sources :
              /\ shipments'[s].status = shipments[s].status \/ Truth(shipments'[s].status, parcels[s].scan)
              /\ \/ shipments'[s].provider_status = shipments[s].provider_status
                 \/ TextTruth(shipments'[s].provider_status, parcels[s].scan),
           \A h \in Handlers : handlers'[h] = handlers[h] \/ RequestTruth(h)'
    PROVE  TruthInv'
<1>0. \A h \in Handlers : handlers[h].src \in Sources
    BY RequestFields DEF TypeOK
<1>1. \A s \in Sources : Later(parcels[s].scan, parcels'[s].scan)
    BY StepLater
<1>2. ASSUME NEW s \in Sources
      PROVE  Truth(shipments'[s].status, parcels'[s].scan) /\ TextTruth(shipments'[s].provider_status, parcels'[s].scan)
  <2>1. Truth(shipments'[s].status, parcels[s].scan) /\ TextTruth(shipments'[s].provider_status, parcels[s].scan)
    BY <1>2 DEF TruthInv
  <2> QED
    BY <1>1, <1>2, <2>1, TruthLasts
<1>3. ASSUME NEW h \in Handlers, handlers'[h] = handlers[h] PROVE RequestTruth(h)'
  <2> DEFINE src == handlers[h].src
  <2>1. RequestTruth(h) /\ src \in Sources /\ handlers'[h].src = src
    BY <1>0, <1>3 DEF TruthInv
  <2>2. Later(parcels[src].scan, parcels'[src].scan)
    BY <1>1, <2>1
  <2> QED
    BY <1>3, <2>1, <2>2, TruthLasts DEF RequestTruth
<1> QED
    BY <1>2, <1>3 DEF TruthInv

LEMMA InitTruth == Init => TruthInv
<1> SUFFICES ASSUME Init PROVE TruthInv
    OBVIOUS
<1>1. \A h \in Handlers : handlers[h].op = "idle"
    BY DEF Init, Idle, NewRequest
<1>2. \A s \in Sources : shipments[s].status = "absent" /\ shipments[s].provider_status = OtherText
    BY DEF Init
<1>3. OtherText # Requested("RTO")
    BY DEF OtherText, Requested
<1> QED
    BY <1>1, <1>2, <1>3, ActionsAssumption DEF TruthInv, RequestTruth, Truth, TextTruth, TERMINAL

\* What the statuses outside TERMINAL and the RTO ones, and the other texts, say of a parcel.
LEMMA SaysNothing ==
    /\ \A said, scan : said \in {"pending", "failed", "absent", "awb_assigned", "pickup_pending", "ndr",
                                 "delivery_exception", "provider_status_unknown", NoAnswer, "unscanned"} =>
            Truth(said, scan)
    /\ \A scan : TextTruth(OtherText, scan) /\ TextTruth(Requested("Reattempt"), scan)
    /\ \A scan, a : TextTruth(Pending(a), scan)
    /\ \A said : Truth(said, said)
<1> QED
    BY DEF Truth, TextTruth, TERMINAL, Rto, NoAnswer, OtherText, Requested, Pending

LEMMA StepTruth == TypeOK /\ BookingInv /\ TruthInv /\ [Next]_vars => TruthInv'
<1> SUFFICES ASSUME TypeOK, BookingInv, TruthInv, [Next]_vars PROVE TruthInv'
    OBVIOUS
<1>0. /\ shipments \in [Sources -> ShipmentRow] /\ parcels \in [Sources -> Parcel]
      /\ handlers \in [Handlers -> Request]
      /\ Admins \subseteq Handlers /\ Jobs \subseteq Handlers
      /\ \A h \in Handlers : handlers[h].src \in Sources
    BY RequestFields DEF TypeOK, Handlers
<1>i. /\ Idle.op = "idle"
      /\ \A op, s : NewRequest(op, s).op = op /\ NewRequest(op, s).src = s /\ NewRequest(op, s).answer = NoAnswer
    BY DEF Idle, NewRequest
<1>w. \A s \in Sources : \A status, text : Write(s, status, text) =>
            \A x \in Sources :
                /\ shipments'[x].status = IF x = s THEN status ELSE shipments[x].status
                /\ shipments'[x].provider_status = IF x = s THEN text ELSE shipments[x].provider_status
    BY <1>0 DEF Write, ShipmentRow
<1>f. \A h \in Handlers : Finish(h) => \A g \in Handlers : handlers'[g] = handlers[g] \/ RequestTruth(g)'
    BY <1>0, <1>i, ActionsAssumption DEF Finish, RequestTruth
<1>1. CASE UNCHANGED vars
    BY <1>1, TruthFrame DEF vars
<1>2. ASSUME NEW h \in Handlers, NEW s \in Sources, Prepare(h, s) PROVE TruthInv'
  <2>1. \A g \in Handlers : handlers'[g] = handlers[g] \/ RequestTruth(g)'
    BY <1>0, <1>i, <1>2, ActionsAssumption DEF Prepare, RequestTruth
  <2> QED
    BY <1>w, <1>2, <2>1, SaysNothing, TruthFrame DEF Prepare
<1>3. ASSUME NEW h \in Handlers, NEW s \in Sources, RequestRefresh(h, s) \/ SelectDue(h, s) PROVE TruthInv'
  <2>1. \A g \in Handlers : handlers'[g] = handlers[g] \/ RequestTruth(g)'
    BY <1>0, <1>i, <1>3, SaysNothing, ActionsAssumption DEF RequestRefresh, SelectDue, RequestTruth
  <2> QED
    BY <1>3, <2>1, TruthFrame DEF RequestRefresh, SelectDue
<1>4. ASSUME NEW h \in Handlers, NEW s \in Sources, NEW a \in Actions, Claim(h, s, a) PROVE TruthInv'
  <2> DEFINE r == [op |-> a, src |-> s, answer |-> NoAnswer, status |-> shipments[s].status,
                   provider_status |-> shipments[s].provider_status]
  <2>1. handlers' = [handlers EXCEPT ![h] = r] /\ parcels' = parcels
    BY <1>4 DEF Claim
  <2>2. TextTruth(shipments[s].provider_status, parcels[s].scan)
    BY DEF TruthInv
  <2>3. \A g \in Handlers : handlers'[g] = handlers[g] \/ RequestTruth(g)'
    BY <1>0, <2>1, <2>2, ActionsAssumption DEF RequestTruth, NoAnswer
  <2> QED
    BY <1>w, <1>4, <2>3, SaysNothing, TruthFrame DEF Claim
<1>5. ASSUME NEW h \in Handlers, AddOrder(h) PROVE TruthInv'
  <2>1. PICK answer : handlers' = [handlers EXCEPT ![h] = [handlers[h] EXCEPT !.answer = answer]]
    BY <1>0, <1>5 DEF AddOrder
  <2>2. [handlers[h] EXCEPT !.answer = answer].op = "create"
    <3>1. handlers[h] \in Request /\ handlers[h].op = "create"
      BY <1>0, <1>5 DEF AddOrder
    <3> QED
      BY <3>1, ActionsAssumption DEF Request
  <2>3. \A g \in Handlers : handlers'[g] = handlers[g] \/ RequestTruth(g)'
    BY <1>0, <2>1, <2>2, ActionsAssumption DEF RequestTruth
  <2> QED
    BY <1>5, <2>3, TruthFrame DEF AddOrder
<1>6. ASSUME NEW h \in Handlers, RecordBooking(h) PROVE TruthInv'
  <2> DEFINE src == handlers[h].src
  <2>1. /\ src \in Sources /\ handlers[h].answer \in {"awb", "no_awb", "rejected", "uncertain"}
    BY <1>0, <1>6, RequestFields DEF RecordBooking
  <2>2. /\ \A x \in Sources : x # src => shipments'[x] = shipments[x]
        /\ \/ shipments'[src] = shipments[src]
           \/ /\ shipments'[src].status \in {"awb_assigned", "failed", "provider_status_unknown"}
              /\ shipments'[src].provider_status = OtherText
    BY <1>0, <1>6, <2>1 DEF RecordBooking, FailureStatus, ShipmentRow
  <2>3. \A g \in Handlers : handlers'[g] = handlers[g] \/ RequestTruth(g)'
    BY <1>f, <1>6 DEF RecordBooking
  <2> QED
    BY <2>2, <2>3, SaysNothing, TruthFrame
<1>7. ASSUME NEW h \in Handlers, Dispatch(h) PROVE TruthInv'
  <2> DEFINE r == handlers[h]
  <2> DEFINE src == r.src
  <2>1. PICK answer \in {"accepted", "rejected", "uncertain"}, done \in BOOLEAN :
            /\ answer = "accepted" => done
            /\ handlers' = [handlers EXCEPT ![h].answer = answer]
            /\ parcels' = IF done THEN [parcels EXCEPT ![src].scan = AfterAction(@, r.op)] ELSE parcels
    BY <1>7 DEF Dispatch
  <2>2. /\ r.op \in Actions /\ src \in Sources /\ shipments' = shipments /\ r \in Request
        /\ Later(parcels[src].scan, parcels'[src].scan)
    BY <1>0, <1>7, StepLater DEF Dispatch
  <2>3. /\ [r EXCEPT !.answer = answer].op = r.op /\ [r EXCEPT !.answer = answer].src = src
        /\ [r EXCEPT !.answer = answer].answer = answer
        /\ [r EXCEPT !.answer = answer].provider_status = r.provider_status
    BY <2>2, ActionsAssumption DEF Request
  <2>4. handlers' = [handlers EXCEPT ![h] = [r EXCEPT !.answer = answer]]
    BY <1>0, <2>1
  <2>5. done => parcels'[src].scan = AfterAction(parcels[src].scan, r.op)
    BY <1>0, <2>1, <2>2 DEF Parcel
  <2>6. TextTruth(r.provider_status, parcels'[src].scan)
    <3>1. TextTruth(r.provider_status, parcels[src].scan)
      BY <2>2 DEF TruthInv, RequestTruth
    <3> QED
      BY <2>2, <3>1, TruthLasts
  <2>7. /\ answer = "accepted" /\ r.op = "Cancellation" => parcels'[src].scan = "cancelled"
        /\ answer = "accepted" /\ r.op = "RTO" => parcels'[src].scan \in Rto
    BY <2>1, <2>5 DEF AfterAction, Rto
  <2>8. RequestTruth(h)'
    BY <1>0, <2>2, <2>3, <2>4, <2>6, <2>7, ActionsAssumption DEF RequestTruth
  <2>9. \A g \in Handlers : handlers'[g] = handlers[g] \/ RequestTruth(g)'
    BY <1>0, <2>4, <2>8
  <2> QED
    BY <2>2, <2>9, TruthFrame
<1>8. ASSUME NEW h \in Handlers, RecordAnswer(h) PROVE TruthInv'
  <2> DEFINE r == handlers[h]
  <2> DEFINE scan == parcels[r.src].scan
  <2>1. /\ r.op \in Actions /\ r.src \in Sources
        /\ r.status \in {"awb_assigned", "pickup_pending", "ndr", "delivery_exception"}
    BY <1>0, <1>8, RequestFields DEF RecordAnswer
  <2>2. RequestTruth(h)
    BY DEF TruthInv
  <2>3. \E status, text : /\ Write(r.src, status, text) \/ UNCHANGED shipments
                          /\ Truth(status, scan) /\ TextTruth(text, scan)
    <3>1. CASE r.answer = "uncertain"
      BY <1>8, <3>1, SaysNothing DEF RecordAnswer
    <3>2. CASE r.answer = "rejected"
      BY <1>8, <2>1, <2>2, <3>2, SaysNothing DEF RecordAnswer, WriteIfUnknown, RequestTruth
    <3>3. CASE r.answer = "accepted" /\ r.op = "Cancellation"
      <4>1. Write(r.src, "cancelled", OtherText) /\ scan = "cancelled"
        BY <1>8, <2>1, <2>2, <3>3 DEF RecordAnswer, RecordAccepted, RequestTruth
      <4> QED
        BY <4>1, SaysNothing
    <3>4. CASE r.answer = "accepted" /\ r.op = "Reattempt"
      <4>1. WriteIfUnknown(r.src, r.status, Requested("Reattempt"))
        BY <1>8, <3>4 DEF RecordAnswer, RecordAccepted
      <4> QED
        BY <2>1, <4>1, SaysNothing DEF WriteIfUnknown
    <3>5. CASE r.answer = "accepted" /\ r.op = "RTO"
      <4>1. WriteIfUnknown(r.src, "rto_initiated", Requested("RTO")) /\ scan \in Rto
        BY <1>8, <2>1, <2>2, <3>5 DEF RecordAnswer, RecordAccepted, RequestTruth
      <4>2. Truth("rto_initiated", scan) /\ TextTruth(Requested("RTO"), scan)
        BY <4>1 DEF Truth, TextTruth, TERMINAL
      <4> QED
        BY <4>1, <4>2 DEF WriteIfUnknown
    <3> QED
      BY <1>8, <2>1, <3>1, <3>2, <3>3, <3>4, <3>5, ActionsAssumption DEF RecordAnswer
  <2>4. \A g \in Handlers : handlers'[g] = handlers[g] \/ RequestTruth(g)'
    BY <1>f, <1>8 DEF RecordAnswer
  <2> QED
    BY <1>w, <2>1, <2>3, <2>4, TruthFrame
<1>9. ASSUME NEW h \in Handlers, Track(h) PROVE TruthInv'
  <2> DEFINE r == handlers[h]
  <2> DEFINE scan == parcels[r.src].scan
  <2>1. /\ handlers' = [handlers EXCEPT ![h] = [r EXCEPT !.answer = scan]]
        /\ r.op = "refresh" /\ r \in Request /\ shipments' = shipments /\ parcels' = parcels
    BY <1>0, <1>9 DEF Track
  <2>2. /\ [r EXCEPT !.answer = scan].op = r.op /\ [r EXCEPT !.answer = scan].src = r.src
        /\ [r EXCEPT !.answer = scan].answer = scan
    BY <2>1, ActionsAssumption DEF Request
  <2>3. RequestTruth(h)'
    BY <1>0, <2>1, <2>2, SaysNothing, ActionsAssumption DEF RequestTruth
  <2>4. \A g \in Handlers : handlers'[g] = handlers[g] \/ RequestTruth(g)'
    BY <1>0, <2>1, <2>3
  <2> QED
    BY <2>1, <2>4, TruthFrame
<1>10. ASSUME NEW h \in Handlers, Ingest(h) PROVE TruthInv'
  <2> DEFINE r == handlers[h]
  <2>1. r.op = "refresh" /\ r.src \in Sources /\ Truth(r.answer, parcels[r.src].scan)
    BY <1>0, <1>10 DEF Ingest, TruthInv, RequestTruth
  <2>2. \A g \in Handlers : handlers'[g] = handlers[g] \/ RequestTruth(g)'
    BY <1>f, <1>10 DEF Ingest
  <2>3. \/ UNCHANGED shipments
        \/ Write(r.src, r.answer, OtherText)
        \/ shipments' = [shipments EXCEPT ![r.src].provider_status = OtherText]
    BY <1>10 DEF Ingest
  <2>4. CASE UNCHANGED shipments
    BY <2>2, <2>4, TruthFrame
  <2>5. CASE Write(r.src, r.answer, OtherText)
    BY <1>w, <2>1, <2>2, <2>5, SaysNothing, TruthFrame
  <2>6. CASE shipments' = [shipments EXCEPT ![r.src].provider_status = OtherText]
    <3>1. \A x \in Sources : /\ shipments'[x].status = shipments[x].status
                             /\ \/ shipments'[x].provider_status = shipments[x].provider_status
                                \/ shipments'[x].provider_status = OtherText
      BY <1>0, <2>1, <2>6 DEF ShipmentRow
    <3> QED
      BY <2>2, <3>1, SaysNothing, TruthFrame
  <2> QED
    BY <2>3, <2>4, <2>5, <2>6
<1>11. ASSUME NEW h \in Handlers, RequestDies(h) PROVE TruthInv'
    BY <1>f, <1>11, TruthFrame DEF RequestDies
<1>12. ASSUME NEW s \in Sources, CourierScans(s) PROVE TruthInv'
    BY <1>12, TruthFrame DEF CourierScans
<1>13. ASSUME NEW o \in Orders, NEW next, AdminUpdatesOrder(o, next) PROVE TruthInv'
    BY <1>13, TruthFrame DEF AdminUpdatesOrder
<1>14. ASSUME NEW r \in Replacements, AllocateReplacement(r) PROVE TruthInv'
    BY <1>14, TruthFrame DEF AllocateReplacement
<1> QED
    BY <1>0, <1>1, <1>2, <1>3, <1>4, <1>5, <1>6, <1>7, <1>8, <1>9, <1>10, <1>11, <1>12, <1>13, <1>14 DEF Next

\* A row never says delivered, cancelled or sent back of a parcel that is not, in whatever
\* order scans, claims, restored claims and late answers are written.
THEOREM RowTruthfulAlways == Spec => []RowTruthful
<1>1. TruthInv => RowTruthful
    BY DEF TruthInv, Truth, TextTruth, RowTruthful
<1> QED
    BY <1>1, InitType, StepType, InitBooking, StepBooking, InitTruth, StepTruth, PTL DEF Spec

\* A row leaves a terminal status only for provider_status_unknown and only because a
\* provider call was not heard of: no scan, late answer, claim or retry takes it out.
THEOREM TerminalLostOnlyToSilenceAlways == Spec => TerminalLostOnlyToSilence
<1> DEFINE Ended(s) == shipments[s].status \in TERMINAL /\ shipments'[s].status # shipments[s].status
<1> DEFINE Silent(s) ==
        /\ shipments'[s].status = "provider_status_unknown"
        /\ \E h \in Handlers : /\ handlers[h].op \in Actions /\ handlers[h].src = s
                               /\ handlers[h].answer = "uncertain"
<1>1. ASSUME TypeOK, BookingInv, TruthInv, [Next]_vars, NEW s \in Sources, Ended(s) PROVE Silent(s)
  <2>0. /\ shipments \in [Sources -> ShipmentRow] /\ handlers \in [Handlers -> Request]
        /\ \A h \in Handlers : handlers[h].src \in Sources
        /\ Admins \subseteq Handlers /\ Jobs \subseteq Handlers
    BY <1>1, RequestFields DEF TypeOK, Handlers
  <2>1. shipments[s].status \in {"delivered", "rto_delivered", "cancelled"} /\ shipments' # shipments
    BY <1>1 DEF TERMINAL
  <2>w. \A x \in Sources : \A status, text :
            Write(x, status, text) => shipments'[s].status = IF x = s THEN status ELSE shipments[s].status
    BY <2>0 DEF Write, ShipmentRow
  <2>2. ASSUME NEW h \in Handlers, NEW x \in Sources, Prepare(h, x) PROVE FALSE
    BY <1>1, <2>1, <2>w, <2>2 DEF Prepare
  <2>3. ASSUME NEW h \in Handlers, NEW x \in Sources, NEW a \in Actions, Claim(h, x, a) PROVE FALSE
    BY <1>1, <2>1, <2>w, <2>3 DEF Claim, Claimable, Allowed
  <2>4. ASSUME NEW h \in Handlers, RecordBooking(h) PROVE FALSE
    <3>1. shipments[handlers[h].src].status = "pending"
      BY <1>1, <2>4 DEF RecordBooking, BookingInv, BookingAlone
    <3>2. \A x \in Sources : x # handlers[h].src => shipments'[x] = shipments[x]
      BY <2>0, <2>4 DEF RecordBooking
    <3> QED
      BY <1>1, <2>1, <3>1, <3>2
  <2>5. ASSUME NEW h \in Handlers, Ingest(h) PROVE FALSE
    <3> DEFINE r == handlers[h]
    <3>1. \/ shipments' = shipments
          \/ CanAdvance(shipments[r.src].status, r.answer) /\ Write(r.src, r.answer, OtherText)
          \/ shipments' = [shipments EXCEPT ![r.src].provider_status = OtherText]
      BY <2>5 DEF Ingest
    <3>2. shipments' # [shipments EXCEPT ![r.src].provider_status = OtherText]
      BY <1>1, <2>0 DEF ShipmentRow
    <3>3. CanAdvance(shipments[r.src].status, r.answer) => r.src # s
      BY <1>1 DEF CanAdvance
    <3> QED
      BY <1>1, <2>0, <2>1, <2>w, <3>1, <3>2, <3>3
  <2>6. ASSUME NEW h \in Handlers, RecordAnswer(h) PROVE Silent(s)
    <3> DEFINE r == handlers[h]
    <3>1. r.op \in Actions /\ r.src \in Sources
      BY <2>0, <2>6 DEF RecordAnswer
    <3>2. \A status, text : ~(WriteIfUnknown(r.src, status, text))
      BY <1>1, <2>1, <2>w, <3>1 DEF WriteIfUnknown
    <3>3. CASE r.answer = "accepted"
      <4>1. r.op = "Cancellation" /\ Write(r.src, "cancelled", OtherText)
        BY <2>6, <3>1, <3>2, <3>3, ActionsAssumption DEF RecordAnswer, RecordAccepted
      <4>2. r.src = s
        BY <1>1, <2>w, <3>1, <4>1
      <4>3. parcels[s].scan = "cancelled" /\ parcels[s].scan = shipments[s].status
        BY <1>1, <3>1, <3>3, <4>1, <4>2 DEF TruthInv, RequestTruth, Truth
      <4> QED
        BY <1>1, <2>w, <3>1, <4>1, <4>2, <4>3
    <3>4. CASE r.answer = "rejected"
      BY <2>6, <3>2, <3>4 DEF RecordAnswer
    <3>5. CASE r.answer = "uncertain"
      <4>1. Write(r.src, "provider_status_unknown", OtherText)
        BY <2>6, <3>5 DEF RecordAnswer
      <4> QED
        BY <1>1, <2>w, <3>1, <3>5, <4>1
    <3> QED
      BY <2>6, <3>3, <3>4, <3>5 DEF RecordAnswer
  <2>7. \/ \E h \in Handlers : \/ \E x \in Sources : Prepare(h, x) \/ \E a \in Actions : Claim(h, x, a)
                               \/ RecordBooking(h) \/ RecordAnswer(h) \/ Ingest(h)
        \/ shipments' = shipments
    BY <1>1, <2>0 DEF Next, vars, RequestRefresh, SelectDue, AddOrder, Dispatch, Track, RequestDies,
                CourierScans, AdminUpdatesOrder, AllocateReplacement
  <2> QED
    BY <2>1, <2>2, <2>3, <2>4, <2>5, <2>6, <2>7
<1>2. TypeOK /\ BookingInv /\ TruthInv /\ [Next]_vars => [\A s \in Sources : Ended(s) => Silent(s)]_vars
    BY <1>1
<1> QED
    BY <1>2, InitType, StepType, InitBooking, StepBooking, InitTruth, StepTruth, PTL
       DEF Spec, TerminalLostOnlyToSilence

-----------------------------------------------------------------------------
(* What a delivery settles                                                 *)

\* DeliverySettlesSource, and a replacement with a shipment has its stock.
\* The two halves of DeliverySettlesSource.
OrderSettled(o) ==
    /\ orders[o].fulfilment_status = "delivered" => parcels[o].scan = "delivered"
    /\ o \in CodOrders /\ orders[o].payment_status = "paid" =>
        orders[o].status \in {"delivered", "return_requested"}
    /\ shipments[o].status = "delivered" =>
        orders[o].fulfilment_status = "delivered" /\ orders[o].payment_status = "paid"
ReplacementSettled(r) ==
    /\ replacements[r].status = "completed" => parcels[r].scan = "delivered"
    /\ replacements[r].return_status = "resolved" <=> replacements[r].status = "completed"
    /\ shipments[r].status = "delivered" => replacements[r].status = "completed"
    /\ shipments[r].status # "absent" => replacements[r].status # "stock_unavailable"

SettleInv == (\A o \in Orders : OrderSettled(o)) /\ (\A r \in Replacements : ReplacementSettled(r))

LEMMA SettleMeans == SettleInv => DeliverySettlesSource
<1> QED
    BY DEF SettleInv, OrderSettled, ReplacementSettled, DeliverySettlesSource

\* A parcel that is delivered stays so.
LEMMA DeliveredLasts ==
    ASSUME TypeOK, BookingInv, [Next]_vars, NEW s \in Sources, parcels[s].scan = "delivered"
    PROVE  parcels'[s].scan = "delivered"
<1> QED
    BY StepLater, TruthLasts

\* Steps that make no row delivered and neither pay, deliver nor complete anything keep
\* SettleInv.
LEMMA SettleFrame ==
    ASSUME TypeOK, BookingInv, SettleInv, [Next]_vars,
           \A s \in Sources :
              /\ shipments'[s].status = "delivered" => shipments[s].status = "delivered"
              /\ shipments[s].status = "absent" /\ shipments'[s].status # "absent" /\ s \in Replacements =>
                    replacements[s].status # "stock_unavailable",
           \A o \in Orders :
              /\ orders'[o].status = orders[o].status /\ orders'[o].payment_status = orders[o].payment_status
              /\ orders'[o].fulfilment_status = "delivered" <=> orders[o].fulfilment_status = "delivered",
           replacements' = replacements
    PROVE  SettleInv'
<1>1. \A s \in Sources : parcels[s].scan = "delivered" => parcels'[s].scan = "delivered"
    BY DeliveredLasts
<1>2. ASSUME NEW o \in Orders PROVE OrderSettled(o)'
  <2>1. o \in Sources /\ OrderSettled(o)
    BY DEF SettleInv, Sources
  <2> QED
    BY <1>1, <2>1 DEF OrderSettled
<1>3. ASSUME NEW r \in Replacements PROVE ReplacementSettled(r)'
  <2>1. r \in Sources /\ ReplacementSettled(r)
    BY DEF SettleInv, Sources
  <2> QED
    BY <1>1, <2>1 DEF ReplacementSettled
<1> QED
    BY <1>2, <1>3 DEF SettleInv

\* A scan on the way ships an order and changes no status that says delivered.
LEMMA OrderOnItsWay ==
    ASSUME NEW row \in OrderRow, NEW next \in Moving
    PROVE  /\ OrderAfter(row, next).fulfilment_status = "shipped"
           /\ OrderAfter(row, next).payment_status = row.payment_status
           /\ row.status \in {"delivered", "return_requested"} => OrderAfter(row, next).status = row.status
<1>1. next # "delivered"
    BY DEF Moving
<1>2. OrderAfter(row, next) = [row EXCEPT !.fulfilment_status = "shipped",
                                          !.status = IF @ \in {"confirmed", "processing"} THEN "shipped" ELSE @]
    BY <1>1, Zenon DEF OrderAfter
<1> DEFINE shipped == [row EXCEPT !.fulfilment_status = "shipped"]
<1>4. /\ shipped \in OrderRow /\ shipped.fulfilment_status = "shipped"
      /\ shipped.status = row.status /\ shipped.payment_status = row.payment_status
    BY DEF OrderRow
<1>5. OrderAfter(row, next) =
        [shipped EXCEPT !.status = IF shipped.status \in {"confirmed", "processing"} THEN "shipped" ELSE shipped.status]
    BY <1>2, Zenon
<1> HIDE DEF shipped
<1> QED
    BY <1>4, <1>5 DEF OrderRow

LEMMA InitSettle == Init => SettleInv
<1> SUFFICES ASSUME Init PROVE SettleInv
    OBVIOUS
<1>1. ASSUME NEW o \in Orders PROVE OrderSettled(o)
    BY <1>1 DEF Init, OrderSettled, Sources
<1>2. ASSUME NEW r \in Replacements PROVE ReplacementSettled(r)
  <2>1. replacements[r].status \in {"stock_unavailable", "processing"} /\ replacements[r].return_status = "approved"
    BY DEF Init
  <2>2. shipments[r].status = "absent"
    BY DEF Init, Sources
  <2> QED
    BY <2>1, <2>2 DEF ReplacementSettled
<1> QED
    BY <1>1, <1>2 DEF SettleInv

LEMMA StepSettle == TypeOK /\ BookingInv /\ TruthInv /\ SettleInv /\ [Next]_vars => SettleInv'
<1> SUFFICES ASSUME TypeOK, BookingInv, TruthInv, SettleInv, [Next]_vars PROVE SettleInv'
    OBVIOUS
<1>0. /\ shipments \in [Sources -> ShipmentRow] /\ handlers \in [Handlers -> Request]
      /\ orders \in [Orders -> OrderRow] /\ replacements \in [Replacements -> ReplacementRow]
      /\ Orders \subseteq Sources /\ Replacements \subseteq Sources /\ Orders \cap Replacements = {}
      /\ Admins \subseteq Handlers /\ Jobs \subseteq Handlers
      /\ \A h \in Handlers : handlers[h].src \in Sources
    BY RequestFields, SourcesAssumption DEF TypeOK, Handlers, Sources
<1>d. \A s \in Sources : parcels[s].scan = "delivered" => parcels'[s].scan = "delivered"
    BY DeliveredLasts
<1>w. \A s \in Sources : \A status, text : Write(s, status, text) =>
            \A x \in Sources : shipments'[x].status = IF x = s THEN status ELSE shipments[x].status
    BY <1>0 DEF Write, ShipmentRow
<1>1. CASE UNCHANGED <<shipments, orders, replacements>>
    BY <1>1, SettleFrame
<1>2. ASSUME NEW h \in Handlers, NEW s \in Sources, Prepare(h, s) PROVE SettleInv'
  <2>1. \A o \in Orders :
            /\ orders'[o].status = orders[o].status /\ orders'[o].payment_status = orders[o].payment_status
            /\ orders'[o].fulfilment_status = "delivered" <=> orders[o].fulfilment_status = "delivered"
    BY <1>0, <1>2 DEF Prepare, OrderRow
  <2>2. s \in Replacements => replacements[s].status # "stock_unavailable"
    BY <1>0, <1>2 DEF Prepare, Shippable
  <2> QED
    BY <1>w, <1>2, <2>1, <2>2, SettleFrame DEF Prepare
<1>3. ASSUME NEW h \in Handlers, NEW s \in Sources, NEW a \in Actions, Claim(h, s, a) PROVE SettleInv'
  <2>1. shipments[s].status # "absent"
    BY <1>3 DEF Claim, Claimable, Allowed
  <2> QED
    BY <1>w, <1>3, <2>1, SettleFrame DEF Claim
<1>4. ASSUME NEW h \in Handlers, RecordBooking(h) PROVE SettleInv'
  <2> DEFINE src == handlers[h].src
  <2>1. src \in Sources /\ shipments[src].status = "pending"
    BY <1>0, <1>4 DEF RecordBooking, BookingInv, BookingAlone
  <2>2. \A x \in Sources : /\ x # src => shipments'[x] = shipments[x]
                           /\ shipments'[src].status # "delivered"
    BY <1>0, <1>4, <2>1 DEF RecordBooking, FailureStatus, ShipmentRow
  <2> QED
    BY <1>4, <2>1, <2>2, SettleFrame DEF RecordBooking
<1>5. ASSUME NEW h \in Handlers, RecordAnswer(h) PROVE SettleInv'
  <2> DEFINE r == handlers[h]
  <2>1. /\ r.op \in Actions /\ r.src \in Sources
        /\ r.status \in {"awb_assigned", "pickup_pending", "ndr", "delivery_exception"}
    BY <1>0, <1>5, RequestFields DEF RecordAnswer
  <2>2. shipments[r.src].status # "absent"
    BY <2>1 DEF BookingInv, WorkHasAwb, RowBooked
  <2>3. \E status, text : status # "delivered" /\ (Write(r.src, status, text) \/ UNCHANGED shipments)
    BY <1>5, <2>1, ActionsAssumption DEF RecordAnswer, RecordAccepted, WriteIfUnknown
  <2>4. \A x \in Sources : /\ shipments'[x].status = "delivered" => shipments[x].status = "delivered"
                           /\ shipments[x].status = "absent" => shipments'[x].status = "absent"
    BY <1>w, <2>1, <2>2, <2>3
  <2> QED
    BY <1>5, <2>4, SettleFrame DEF RecordAnswer
<1>6. ASSUME NEW h \in Handlers, Ingest(h) PROVE SettleInv'
  <2> DEFINE r == handlers[h]
  <2> DEFINE s == r.src
  <2>1. /\ r.op = "refresh" /\ s \in Sources /\ Truth(r.answer, parcels[s].scan)
        /\ shipments[s].tracking_number /\ shipments[s].status # "absent"
    BY <1>0, <1>6 DEF Ingest, TruthInv, RequestTruth, BookingInv, WorkHasAwb, RowBooked
  <2>2. CASE UNCHANGED <<shipments, orders, replacements>>
    BY <2>2, SettleFrame
  <2>3. CASE /\ shipments' = [shipments EXCEPT ![s].provider_status = OtherText]
             /\ UNCHANGED <<orders, replacements>>
    <3>1. \A x \in Sources : shipments'[x].status = shipments[x].status
      BY <1>0, <2>1, <2>3 DEF ShipmentRow
    <3> QED
      BY <2>3, <3>1, SettleFrame
  <2>4. CASE /\ CanAdvance(shipments[s].status, r.answer) /\ Write(s, r.answer, OtherText)
             /\ ApplyFulfilment(s, r.answer)
    <3>1. \A x \in Sources : shipments'[x].status = IF x = s THEN r.answer ELSE shipments[x].status
      BY <1>w, <2>1, <2>4
    <3>2. r.answer = "delivered" => parcels'[s].scan = "delivered"
      BY <1>d, <2>1 DEF Truth, TERMINAL
    <3>3. ASSUME NEW o \in Orders PROVE OrderSettled(o)'
      <4>1. OrderSettled(o) /\ orders[o] \in OrderRow /\ o \in Sources
        BY <1>0 DEF SettleInv
      <4>2. CASE o # s
        <5>1. orders'[o] = orders[o] /\ shipments'[o].status = shipments[o].status
          BY <1>0, <2>4, <3>1, <4>1, <4>2 DEF ApplyFulfilment
        <5> QED
          BY <1>d, <4>1, <5>1 DEF OrderSettled
      <4>3. CASE o = s
        <5>1. orders'[o] = OrderAfter(orders[o], r.answer) /\ shipments'[o].status = r.answer
          BY <1>0, <2>1, <2>4, <3>1, <4>3 DEF ApplyFulfilment
        <5>2. CASE r.answer = "delivered"
          <6>1. /\ orders'[o].fulfilment_status = "delivered" /\ orders'[o].payment_status = "paid"
                /\ orders'[o].status \in {"delivered", "return_requested"}
            BY <5>1, <5>2 DEF OrderAfter, Moving
          <6> QED
            BY <3>2, <4>3, <5>2, <6>1 DEF OrderSettled
        <5>3. CASE r.answer \in Moving
          <6>1. /\ orders'[o].fulfilment_status = "shipped" /\ orders'[o].payment_status = orders[o].payment_status
                /\ orders[o].status \in {"delivered", "return_requested"} => orders'[o].status = orders[o].status
            BY <4>1, <5>1, <5>3, OrderOnItsWay
          <6> QED
            <7>1. r.answer # "delivered"
              BY <5>3 DEF Moving
            <7> QED
              BY <4>1, <5>1, <6>1, <7>1 DEF OrderSettled
        <5>4. CASE r.answer # "delivered" /\ r.answer \notin Moving
          <6>1. orders'[o] = orders[o]
            BY <5>1, <5>4 DEF OrderAfter
          <6> QED
            BY <1>d, <4>1, <5>1, <5>4, <6>1 DEF OrderSettled
        <5> QED
          BY <5>2, <5>3, <5>4
      <4> QED
        BY <4>2, <4>3
    <3>4. ASSUME NEW x \in Replacements PROVE ReplacementSettled(x)'
      <4>1. ReplacementSettled(x) /\ replacements[x] \in ReplacementRow /\ x \in Sources
        BY <1>0 DEF SettleInv
      <4>2. CASE x # s
        <5>1. replacements'[x] = replacements[x] /\ shipments'[x].status = shipments[x].status
          BY <1>0, <2>4, <3>1, <4>1, <4>2 DEF ApplyFulfilment
        <5> QED
          BY <1>d, <4>1, <5>1 DEF ReplacementSettled
      <4>3. CASE x = s
        <5>1. replacements'[x] = ReplacementAfter(replacements[x], r.answer) /\ shipments'[x].status = r.answer
          BY <1>0, <2>1, <2>4, <3>1, <4>3 DEF ApplyFulfilment
        <5>2. replacements[x].status \in {"processing", "completed"}
          BY <2>1, <4>1, <4>3 DEF ReplacementSettled, ReplacementRow
        <5> QED
          BY <1>d, <3>2, <4>1, <4>3, <5>1, <5>2 DEF ReplacementAfter, ReplacementSettled
      <4> QED
        BY <4>2, <4>3
    <3> QED
      BY <3>3, <3>4 DEF SettleInv
  <2> QED
    BY <1>6, <2>2, <2>3, <2>4 DEF Ingest
<1>7. ASSUME NEW o \in Orders, NEW next \in {"processing", "shipped", "delivered", "cancelled", "return_requested"},
             AdminUpdatesOrder(o, next) PROVE SettleInv'
  <2>1. /\ shipments' = shipments /\ replacements' = replacements
        /\ \A x \in Orders : x # o => orders'[x] = orders[x]
        /\ orders'[o].status = next /\ orders'[o].fulfilment_status = orders[o].fulfilment_status
        /\ orders'[o].payment_status = IF next = "delivered" THEN "paid" ELSE orders[o].payment_status
        /\ <<orders[o].status, next>> \in OrderTransitions
    BY <1>0, <1>7 DEF AdminUpdatesOrder, OrderRow
  <2>2. ASSUME NEW x \in Orders PROVE OrderSettled(x)'
    <3>1. OrderSettled(x) /\ x \in Sources
      BY <1>0 DEF SettleInv
    <3>2. CASE x = o
      <4>1. /\ orders[o].status # "return_requested"
            /\ orders[o].status = "delivered" => next = "return_requested"
        BY <2>1 DEF OrderTransitions
      <4> QED
        BY <1>d, <2>1, <3>1, <3>2, <4>1 DEF OrderSettled
    <3>3. CASE x # o
      BY <1>d, <2>1, <3>1, <3>3 DEF OrderSettled
    <3> QED
      BY <3>2, <3>3
  <2>3. \A x \in Replacements : ReplacementSettled(x)'
    BY <1>0, <1>d, <2>1 DEF SettleInv, ReplacementSettled
  <2> QED
    BY <2>2, <2>3 DEF SettleInv
<1>8. ASSUME NEW r \in Replacements, AllocateReplacement(r) PROVE SettleInv'
  <2>1. /\ shipments' = shipments /\ orders' = orders
        /\ \A x \in Replacements : x # r => replacements'[x] = replacements[x]
        /\ replacements[r].status = "stock_unavailable" /\ replacements'[r].status = "processing"
        /\ replacements'[r].return_status = replacements[r].return_status
    BY <1>0, <1>8 DEF AllocateReplacement, ReplacementRow
  <2>2. \A x \in Replacements : ReplacementSettled(x)'
    BY <1>0, <1>d, <2>1 DEF SettleInv, ReplacementSettled
  <2>3. \A o \in Orders : OrderSettled(o)'
    BY <1>0, <1>d, <2>1 DEF SettleInv, OrderSettled
  <2> QED
    BY <2>2, <2>3 DEF SettleInv
<1>9. \/ UNCHANGED <<shipments, orders, replacements>>
      \/ \E h \in Handlers : \/ \E s \in Sources : Prepare(h, s) \/ \E a \in Actions : Claim(h, s, a)
                             \/ RecordBooking(h) \/ RecordAnswer(h) \/ Ingest(h)
      \/ \E o \in Orders, next \in {"processing", "shipped", "delivered", "cancelled", "return_requested"} :
            AdminUpdatesOrder(o, next)
      \/ \E r \in Replacements : AllocateReplacement(r)
    BY <1>0 DEF Next, vars, RequestRefresh, SelectDue, AddOrder, Dispatch, Track, RequestDies, CourierScans
<1> QED
    BY <1>1, <1>2, <1>3, <1>4, <1>5, <1>6, <1>7, <1>8, <1>9

\* An order counts as fulfilled, a replacement as completed and its return as resolved by
\* the delivery of their parcel alone, together with the row that says delivered, and cash
\* is collected only for orders that say delivered.
THEOREM DeliverySettlesSourceAlways == Spec => []DeliverySettlesSource
<1> QED
    BY SettleMeans, InitType, StepType, InitBooking, StepBooking, InitTruth, StepTruth, InitSettle, StepSettle, PTL
       DEF Spec
=============================================================================
