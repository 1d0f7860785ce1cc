-------------------------- MODULE AfterSalesProofs --------------------------
(***************************************************************************)
(* Theorems about AfterSales, for every value of its constants: any number *)
(* of returns, pickups and refunds, and any line with its discounts.       *)
(***************************************************************************)
EXTENDS AfterSales, Sums

\* The line a behaviour is about, and the ids it uses.
LEMMA LineType ==
    ASSUME line \in Cases
    PROVE  /\ line.returns \subseteq Returns /\ line.awbs \subseteq Awbs /\ line.refunds \subseteq Refunds
           /\ line.types \subseteq Types
           /\ line.quantity \in Nat \ {0} /\ line.unit_price \in Nat /\ line.discount \in Nat /\ line.online \in Nat
           /\ line.stock \in 0..MaxStock
           /\ line.discount + line.online < line.unit_price * line.quantity
<1>1. line \in Kinds
    BY CasesAssumption
<1> QED
    BY <1>1, CasesAssumption DEF Kinds

\* A share rounded down, times the units, is at most what it was a share of, and less
\* than one unit short of it.
LEMMA Share ==
    ASSUME NEW a \in Nat, NEW units \in Nat \ {0}
    PROVE  a \div units \in Nat /\ (a \div units) * units <= a /\ a < (a \div units) * units + units
<1> QED
    OBVIOUS

LEMMA Products ==
    ASSUME NEW a \in Nat, NEW b \in Nat PROVE a * b \in Nat
<1> QED
    OBVIOUS

LEMMA Scale ==
    ASSUME NEW a \in Int, NEW b \in Int, NEW k \in Nat \ {0}
    PROVE  (a <= b <=> a * k <= b * k) /\ (a < b <=> a * k < b * k)
<1> QED
    OBVIOUS

LEMMA Distributes ==
    ASSUME NEW a \in Int, NEW b \in Int, NEW c \in Int, NEW k \in Int
    PROVE  (a - b - c) * k = a * k - b * k - c * k
<1> QED
    OBVIOUS

LEMMA Rounded ==
    ASSUME NEW units \in Nat \ {0}, NEW p \in Nat, NEW x \in Nat, NEW y \in Nat, NEW dp \in Nat, NEW op \in Nat,
           NEW cp \in Nat, p * units = cp + dp + op,
           x * units <= dp, dp < x * units + units, y * units <= op, op < y * units + units
    PROVE  cp <= (p - x - y) * units /\ (p - x - y) * units <= cp + 2 * units
<1>1. (p - x - y) * units = p * units - x * units - y * units
    BY Distributes
<1> QED
    BY <1>1

LEMMA Splits ==
    ASSUME NEW price \in Nat, NEW units \in Nat, NEW part \in Nat, NEW discount \in Nat, NEW online \in Nat,
           NEW captured \in Int, captured = price * units - discount - online
    PROVE  (price * part) * units = part * captured + discount * part + online * part
<1> QED
    OBVIOUS

\* The same for the shares themselves.
LEMMA SharesFit ==
    ASSUME NEW price \in Nat, NEW discount \in Nat, NEW online \in Nat, NEW units \in Nat \ {0}, NEW part \in Nat,
           NEW captured \in Nat \ {0}, captured = price * units - discount - online,
           NEW x \in Nat, x * units <= discount * part, discount * part < x * units + units,
           NEW y \in Nat, y * units <= online * part, online * part < y * units + units
    PROVE  /\ price * part - x - y \in Nat
           /\ part # 0 => price * part - x - y # 0
           /\ (price * part - x - y) * units <= part * captured + 2 * units
<1>1. PICK p \in Nat, dp \in Nat, op \in Nat, cp \in Nat :
            p = price * part /\ dp = discount * part /\ op = online * part /\ cp = part * captured
    BY Products
<1>2. p * units = cp + dp + op
    BY <1>1, Splits
<1>3. cp <= (p - x - y) * units /\ (p - x - y) * units <= cp + 2 * units
    BY <1>1, <1>2, Rounded
<1>4. PICK kept \in Int : kept = p - x - y
    OBVIOUS
<1>5. part # 0 => 0 < cp
    BY <1>1
<1>6. 0 * units <= kept * units /\ (part # 0 => 0 * units < kept * units)
    BY <1>3, <1>4, <1>5
<1>7. 0 <= kept /\ (part # 0 => 0 < kept)
    BY <1>6, Scale
<1> QED
    BY <1>1, <1>3, <1>4, <1>7

LEMMA RefundAmountFits ==
    ASSUME line \in Cases, NEW r \in Returns, returns[r].quantity \in Nat
    PROVE  /\ RefundAmount(r) \in Nat
           /\ returns[r].quantity # 0 => RefundAmount(r) # 0
           /\ Captured \in Nat \ {0}
           /\ RefundAmount(r) * line.quantity <= returns[r].quantity * Captured + 2 * line.quantity
<1>1. PICK units \in Nat \ {0}, price \in Nat, discount \in Nat, online \in Nat, part \in Nat :
            /\ units = line.quantity /\ price = line.unit_price /\ discount = line.discount
            /\ online = line.online /\ part = returns[r].quantity
    BY LineType
<1>2. discount + online < price * units
    BY <1>1, LineType
<1>3. PICK x \in Nat : /\ x = (discount * part) \div units /\ x * units <= discount * part
                       /\ discount * part < x * units + units
    BY Share, Products
<1>4. PICK y \in Nat : /\ y = (online * part) \div units /\ y * units <= online * part
                       /\ online * part < y * units + units
    BY Share, Products
<1>5. PICK captured \in Nat \ {0} : captured = price * units - discount - online
    BY <1>2, Products
<1>6. /\ price * part - x - y \in Nat
      /\ part # 0 => price * part - x - y # 0
      /\ (price * part - x - y) * units <= part * captured + 2 * units
    BY <1>3, <1>4, <1>5, SharesFit
<1>7. RefundAmount(r) = price * part - x - y /\ Captured = captured
    BY <1>1, <1>3, <1>4, <1>5, Zenon DEF RefundAmount, Captured
<1> QED
    BY <1>1, <1>5, <1>6, <1>7, Zenon

-----------------------------------------------------------------------------
(* What the writes of a row do                                               *)

ReturnsWritten(r, status) ==
    /\ returns' \in [Returns -> ReturnRow]
    /\ returns'[r].status = status
    /\ returns'[r].type = returns[r].type /\ returns'[r].quantity = returns[r].quantity
    /\ returns'[r].address = returns[r].address
    /\ \A x \in Returns \ {r} : returns'[x] = returns[x]

LEMMA ReturnStatusWritten ==
    ASSUME TypeOK, NEW r \in Returns, NEW status \in ReturnStatus,
           returns' = [returns EXCEPT ![r].status = status]
    PROVE  ReturnsWritten(r, status)
<1>1. returns \in [Returns -> ReturnRow]
    BY DEF TypeOK
<1> QED
    BY <1>1 DEF ReturnsWritten, ReturnRow

PickupsWritten(r, status, providerStatus) ==
    /\ pickups' \in [Returns -> PickupRow]
    /\ pickups'[r].status = status /\ pickups'[r].provider_status = providerStatus
    /\ pickups'[r].awb = pickups[r].awb /\ pickups'[r].to = pickups[r].to
    /\ \A x \in Returns \ {r} : pickups'[x] = pickups[x]

ProviderStatus == Scans \cup {Marker, "accepted", "error"}

LEMMA PickupSaved ==
    ASSUME TypeOK, NEW r \in Returns, NEW status \in ReturnShipmentStatus, NEW providerStatus \in ProviderStatus,
           SavePickup(r, status, providerStatus)
    PROVE  PickupsWritten(r, status, providerStatus)
<1>1. pickups \in [Returns -> PickupRow]
    BY DEF TypeOK
<1>2. PICK before \in PickupRow : before = pickups[r]
    BY <1>1
<1>3. PICK first : first = [before EXCEPT !.status = status]
    OBVIOUS
<1>4. PICK row : row = [first EXCEPT !.provider_status = providerStatus]
    OBVIOUS
<1>5. first \in PickupRow /\ first.status = status /\ first.awb = before.awb /\ first.to = before.to
    BY <1>3 DEF PickupRow
<1>6. /\ row \in PickupRow /\ row.status = status /\ row.provider_status = providerStatus
      /\ row.awb = before.awb /\ row.to = before.to
    BY <1>4, <1>5 DEF PickupRow, ProviderStatus
<1>7. pickups' = [pickups EXCEPT ![r] = row]
  <2>1. pickups' = [pickups EXCEPT ![r].status = status, ![r].provider_status = providerStatus]
    BY DEF SavePickup
  <2> QED
    BY <1>1, <1>2, <1>3, <1>4, <2>1
<1> QED
    BY <1>1, <1>2, <1>6, <1>7 DEF PickupsWritten

BookingRow == [step: Steps, awb: Awbs \cup {NoAwb}]
BookingWritten(r, step, awb) ==
    /\ booking' \in [Returns -> BookingRow]
    /\ booking'[r].step = step /\ booking'[r].awb = awb
    /\ \A x \in Returns \ {r} : booking'[x] = booking[x]

LEMMA StepWritten ==
    ASSUME TypeOK, NEW r \in Returns, NEW step \in Steps, booking' = [booking EXCEPT ![r].step = step]
    PROVE  BookingWritten(r, step, booking[r].awb)
<1>1. booking \in [Returns -> BookingRow]
    BY DEF TypeOK, BookingRow
<1> QED
    BY <1>1 DEF BookingWritten, BookingRow

LEMMA JobWritten ==
    ASSUME TypeOK, NEW r \in Returns, NEW step \in Steps, NEW awb \in Awbs \cup {NoAwb},
           booking' = [booking EXCEPT ![r] = [step |-> step, awb |-> awb]]
    PROVE  BookingWritten(r, step, awb)
<1>1. booking \in [Returns -> BookingRow]
    BY DEF TypeOK, BookingRow
<1>2. PICK row \in BookingRow : row = [step |-> step, awb |-> awb]
    BY DEF BookingRow
<1>3. booking' = [booking EXCEPT ![r] = row]
    BY <1>2
<1> QED
    BY <1>1, <1>2, <1>3 DEF BookingWritten

LEMMA Unbooked ==
    ASSUME TypeOK, NEW r \in Returns, booking' = Unbook(r)
    PROVE  BookingWritten(r, "none", NoAwb)
<1>1. "none" \in Steps
    BY DEF Steps
<1> QED
    BY <1>1, JobWritten DEF Unbook

RefundsWritten(f, status) ==
    /\ refunds' \in [Refunds -> RefundRow]
    /\ refunds'[f].status = status
    /\ refunds'[f].of = refunds[f].of /\ refunds'[f].amount = refunds[f].amount
    /\ \A g \in Refunds \ {f} : refunds'[g] = refunds[g]

LEMMA RefundStatusWritten ==
    ASSUME TypeOK, NEW f \in Refunds, NEW status \in {"processing", "succeeded", "failed"},
           refunds' = [refunds EXCEPT ![f].status = status]
    PROVE  RefundsWritten(f, status)
<1>1. refunds \in [Refunds -> RefundRow]
    BY DEF TypeOK
<1> QED
    BY <1>1 DEF RefundsWritten, RefundRow

\* iThink's side of a pickup: a courier was sent to one address and is never awaited
\* again, and what is cancelled stays so.
Waiting == {"booked", "missed"}
MovesOn(a) ==
    /\ courier[a] = "cancelled" => courier'[a] = "cancelled"
    /\ courier[a] # "none" => courier'[a] # "none" /\ sent'[a] = sent[a]
    /\ courier[a] \notin {"none", "booked"} => courier'[a] # "booked"
    /\ courier[a] # "none" /\ courier'[a] \in Waiting => courier[a] \in Waiting

CourierForward ==
    /\ courier' \in [Awbs -> Scans \cup {"none"}]
    /\ sent' \in [Awbs -> 0..1]
    /\ \A a \in Awbs : MovesOn(a)

LEMMA CourierCancels ==
    ASSUME TypeOK, NEW a, courier' = CancelledAt(a), UNCHANGED sent
    PROVE  CourierForward /\ (a \in Awbs => courier'[a] = "cancelled")
<1> QED
    BY DEF TypeOK, CancelledAt, CourierForward, MovesOn, Waiting, Scans

LEMMA Statuses ==
    /\ {"requested", "approved", "rejected", "resolved", "cancelled"} \subseteq ReturnStatus
    /\ {"pending", "approved", "pickup_scheduled", "picked_up", "delivered", "failed", "cancelled"} \subseteq ReturnShipmentStatus
    /\ Scans \subseteq ProviderStatus /\ {"accepted", "error", "cancelled", Marker} \subseteq ProviderStatus
    /\ Marker # "cancelled"
    /\ {"asked", "fail", "book", "late", "mark", "none"} \subseteq Steps
    /\ {"stock_unavailable", "processing", "completed", "none"} \subseteq ReplacementStatus
<1> QED
    BY DEF ReturnStatus, ReturnShipmentStatus, Scans, ProviderStatus, Marker, Steps, ReplacementStatus

LEMMA InitType == Init => TypeOK
<1> SUFFICES ASSUME Init PROVE TypeOK
    OBVIOUS
<1>1. line.stock \in 0..MaxStock /\ (CHOOSE r \in Returns : TRUE) \in Returns
    BY LineType, CasesAssumption DEF Init
<1>2. refunds \in [Refunds -> RefundRow]
    BY <1>1 DEF Init, RefundRow
<1> QED
    BY <1>1, <1>2 DEF Init, TypeOK, ReturnRow, PickupRow, ReturnStatus, Types, ReturnShipmentStatus, Steps, ReplacementStatus

-----------------------------------------------------------------------------
(* The inductive invariant                                                   *)

\* A pickup, its booking and its tracking.  An AWB, once known, stays; what the shop or
\* a tracking answer calls cancelled is cancelled at iThink; a booking that iThink still
\* owes an answer finds its marker, unless the row has an AWB already or the return is
\* cancelled; and nobody else brings the pickup of a cancelled return back.  The courier
\* of a row that failed, or that is booked again, has been late once and is not merely
\* booked any more, so no tracking answer makes that row scheduled.
Known(a) == courier[a] # "none"
PickupSound(r) ==
    /\ pickups[r].awb # NoAwb => Known(pickups[r].awb)
    /\ booking[r].awb # NoAwb => Known(booking[r].awb) /\ sent[booking[r].awb] = pickups[r].to
    /\ booking[r].step \in {"none", "asked"} => booking[r].awb = NoAwb
    /\ pickups[r].status \in {"approved", "pickup_scheduled"} /\ courier[pickups[r].awb] \in Waiting =>
            pickups[r].awb = NoAwb \/ sent[pickups[r].awb] = pickups[r].to
    /\ pickups[r].status \in {"failed", "pending"} \/ booking[r].step # "none" =>
            \/ pickups[r].awb = NoAwb \/ returns[r].status = "cancelled"
            \/ courier[pickups[r].awb] # "booked" /\ scan[r] # "booked"
    /\ scan[r] \notin {"none", "booked"} => courier[pickups[r].awb] # "booked"
    /\ pickups[r].awb # NoAwb \/ booking[r].step # "none" => pickups[r].status # "absent"
    /\ scan[r] # "none" => pickups[r].awb # NoAwb
    /\ scan[r] = "cancelled" => courier[pickups[r].awb] = "cancelled"
    /\ pickups[r].status = "cancelled" \/ pickups[r].provider_status = "cancelled" =>
            pickups[r].awb = NoAwb \/ courier[pickups[r].awb] = "cancelled"
    /\ booking[r].step \in {"asked", "book"} =>
            pickups[r].status = "pending" \/ pickups[r].awb # NoAwb \/ returns[r].status = "cancelled"
    /\ booking[r].step \in {"late", "mark"} => booking[r].awb = pickups[r].awb /\ booking[r].awb # NoAwb
    /\ booking[r].step = "mark" => courier[booking[r].awb] = "cancelled"
    /\ returns[r].status = "cancelled" => pickups[r].status \in {"absent", "failed", "cancelled"}
    /\ pickups[r].status \in {"pending", "approved", "pickup_scheduled"} => pickups[r].to = returns[r].address

PickupInv == \A r \in Returns : PickupSound(r)

\* How a return is settled: by one refund or one replacement, and only once it has been
\* approved; a cancellation asks iThink only for a return without replacement.
Unreviewed == {"absent", "requested", "rejected"}
SettledSound(r) ==
    /\ returns[r].status # "absent" => returns[r].quantity # 0
    /\ ActiveRefunds(r) # {} => returns[r].type = "return"
    /\ replaced[r] # "none" => returns[r].type = "replacement"
    /\ returns[r].status \in Unreviewed => ActiveRefunds(r) = {} /\ replaced[r] = "none"
    /\ returns[r].status = "cancelled" => replaced[r] = "none" /\ (ActiveRefunds(r) = {} \/ r \in overtaken)
    /\ returns[r].status \in {"approved", "resolved"} /\ returns[r].type = "replacement" => replaced[r] # "none"
    /\ cancelling[r] # "none" => replaced[r] = "none" /\ returns[r].status \notin Unreviewed
    /\ pickups[r].status # "absent" => returns[r].status \notin Unreviewed
    /\ \A f, g \in ActiveRefunds(r) : f = g

SettledInv == \A r \in Returns : SettledSound(r)

UnitsInv == Consumed <= line.quantity

\* A refund is the share of its return in what was captured.
AmountSound(f) ==
    refunds[f].status # "absent" =>
        returns[refunds[f].of].status # "absent" /\ refunds[f].amount = RefundAmount(refunds[f].of)

PaymentSound == payment = CASE Refunded >= Captured -> "refunded"
                            [] Refunded = 0 -> "paid"
                            [] OTHER -> "partially_refunded"

MoneyInv == (\A f \in Refunds : AmountSound(f)) /\ PaymentSound

Inv == TypeOK /\ PickupInv /\ SettledInv /\ UnitsInv /\ MoneyInv
-----------------------------------------------------------------------------
(* The sums of the model, as sums of functions                               *)

Quantities == [r \in Returns |-> returns[r].quantity]
Amounts == [f \in Refunds |-> refunds[f].amount]

\* Sums of a column of a table, written as the model writes them.
LEMMA QuantitySum ==
    ASSUME NEW S \in SUBSET Returns
    PROVE  MapThenSumSet(Quantity, S) = Total(Quantities, S)
<1>1. IsFiniteSet(S)
    BY CasesAssumption, FS_Subset
<1>2. PICK it : Adds(it, Quantities, S)
    BY <1>1, AddsExist
<1> DEFINE Rec(iter) == [s \in SUBSET S |-> IF s = {} THEN 0
                            ELSE returns[CHOOSE x \in s : TRUE].quantity + iter[s \ {CHOOSE x \in s : TRUE}]]
           fold == CHOOSE iter : iter = Rec(iter)
<1>3. MapThenSumSet(Quantity, S) = fold[S]
    BY DEF MapThenSumSet, MapThenFoldSet, Quantity
<1>4. \A s \in SUBSET S : s # {} => Quantities[Pick(s)] = returns[Pick(s)].quantity
    BY PickIn DEF Quantities
<1>5. ASSUME NEW jt PROVE Adds(jt, Quantities, S) <=> jt = Rec(jt)
    BY <1>4 DEF Adds, Pick
<1> HIDE DEF Rec
<1>6. fold = Rec(fold)
    BY <1>2, <1>5
<1>7. Adds(fold, Quantities, S)
    BY <1>5, <1>6
<1> QED
    BY <1>1, <1>3, <1>7, TotalIs

\* The units that are taken, and what has been refunded.
Holding == {r \in Returns : returns[r].status \in QuantityHolding}

LEMMA ConsumedIs == Consumed = Total(Quantities, Holding)
<1> QED
    BY QuantitySum DEF Consumed, Holding

LEMMA ConsumedThen == (Consumed = Total(Quantities, Holding))'
<1> QED
    BY ConsumedIs, PTL

LEMMA AmountSum ==
    ASSUME NEW S \in SUBSET Refunds
    PROVE  MapThenSumSet(Amount, S) = Total(Amounts, S)
<1>1. IsFiniteSet(S)
    BY CasesAssumption, FS_Subset
<1>2. PICK it : Adds(it, Amounts, S)
    BY <1>1, AddsExist
<1> DEFINE Rec(iter) == [s \in SUBSET S |-> IF s = {} THEN 0
                            ELSE refunds[CHOOSE x \in s : TRUE].amount + iter[s \ {CHOOSE x \in s : TRUE}]]
           fold == CHOOSE iter : iter = Rec(iter)
<1>3. MapThenSumSet(Amount, S) = fold[S]
    BY DEF MapThenSumSet, MapThenFoldSet, Amount
<1>4. \A s \in SUBSET S : s # {} => Amounts[Pick(s)] = refunds[Pick(s)].amount
    BY PickIn DEF Amounts
<1>5. ASSUME NEW jt PROVE Adds(jt, Amounts, S) <=> jt = Rec(jt)
    BY <1>4 DEF Adds, Pick
<1> HIDE DEF Rec
<1>6. fold = Rec(fold)
    BY <1>2, <1>5
<1>7. Adds(fold, Amounts, S)
    BY <1>5, <1>6
<1> QED
    BY <1>1, <1>3, <1>7, TotalIs

LEMMA RefundedIs == Refunded = Total(Amounts, Succeeded)
<1> QED
    BY AmountSum DEF Refunded, Succeeded

LEMMA RefundedThen == (Refunded = Total(Amounts, Succeeded))'
<1> QED
    BY RefundedIs, PTL

LEMMA CapturedType ==
    ASSUME line \in Cases
    PROVE  Captured \in Nat \ {0}
<1>1. line.unit_price * line.quantity \in Nat
    BY LineType
<1> QED
    BY <1>1, LineType DEF Captured

LEMMA SumTypes ==
    TypeOK => /\ \A S \in SUBSET Returns : IsFiniteSet(S) /\ Total(Quantities, S) \in Int
              /\ \A S \in SUBSET Refunds : IsFiniteSet(S) /\ Total(Amounts, S) \in Int
<1> SUFFICES ASSUME TypeOK PROVE /\ \A S \in SUBSET Returns : IsFiniteSet(S) /\ Total(Quantities, S) \in Int
                                 /\ \A S \in SUBSET Refunds : IsFiniteSet(S) /\ Total(Amounts, S) \in Int
    OBVIOUS
<1>1. /\ \A r \in Returns : Quantities[r] \in Int
      /\ \A f \in Refunds : Amounts[f] \in Int
    BY DEF TypeOK, ReturnRow, RefundRow, Quantities, Amounts
<1>2. ASSUME NEW S \in SUBSET Returns PROVE IsFiniteSet(S) /\ Total(Quantities, S) \in Int
    BY <1>1, CasesAssumption, FS_Subset, TotalType
<1>3. ASSUME NEW S \in SUBSET Refunds PROVE IsFiniteSet(S) /\ Total(Amounts, S) \in Int
    BY <1>1, CasesAssumption, FS_Subset, TotalType
<1> QED
    BY <1>2, <1>3
LEMMA InitInv == Init => Inv
<1> SUFFICES ASSUME Init PROVE Inv
    OBVIOUS
<1>1. TypeOK
    BY InitType
<1>2. /\ \A r \in Returns : /\ returns[r].status = "absent" /\ pickups[r].status = "absent" /\ pickups[r].awb = NoAwb
                            /\ pickups[r].provider_status # "cancelled" /\ scan[r] = "none" /\ booking[r].step = "none"
                            /\ booking[r].awb = NoAwb
                            /\ replaced[r] = "none" /\ cancelling[r] = "none"
      /\ \A f \in Refunds : refunds[f].status = "absent"
      /\ payment = "paid"
    BY Statuses DEF Init
<1>3. PickupInv
    BY <1>2 DEF PickupInv, PickupSound
<1>4. SettledInv
    BY <1>2 DEF SettledInv, SettledSound, ActiveRefunds, ActiveRefund
<1>5. Consumed = 0
  <2>1. Holding = {}
    BY <1>2 DEF Holding, QuantityHolding
  <2>2. Consumed = Total(Quantities, {})
    BY <2>1, ConsumedIs
  <2> QED
    BY <2>2, TotalEmpty
<1>6. Refunded = 0
  <2>1. Succeeded = {}
    BY <1>2 DEF Succeeded
  <2>2. Refunded = Total(Amounts, {})
    BY <2>1, RefundedIs
  <2> QED
    BY <2>2, TotalEmpty
<1>7. Captured \in Nat \ {0} /\ line.quantity \in Nat
    BY <1>1, LineType, CapturedType DEF TypeOK
<1>8. PaymentSound
    BY <1>2, <1>6, <1>7 DEF PaymentSound
<1> QED
    BY <1>1, <1>2, <1>3, <1>4, <1>5, <1>7, <1>8 DEF Inv, UnitsInv, MoneyInv, AmountSound

LEMMA PickupStep ==
    ASSUME TypeOK, PickupInv, CourierForward, NEW r \in Returns, PickupSound(r)',
           \A x \in Returns \ {r} :
               /\ pickups'[x] = pickups[x] /\ booking'[x] = booking[x] /\ scan'[x] = scan[x]
               /\ returns'[x].status = "cancelled" <=> returns[x].status = "cancelled"
               /\ returns'[x].address = returns[x].address
    PROVE  PickupInv'
<1> SUFFICES ASSUME NEW x \in Returns \ {r} PROVE PickupSound(x)'
    BY DEF PickupInv
<1>1. PickupSound(x)
    BY DEF PickupInv
<1>2. \A a \in Awbs : MovesOn(a)
    BY DEF CourierForward
<1>3. pickups[x].awb \in Awbs \cup {NoAwb} /\ booking[x].awb \in Awbs \cup {NoAwb}
    BY DEF TypeOK, PickupRow
<1> QED
    BY <1>1, <1>2, <1>3 DEF PickupSound, MovesOn, Known

\* A step that touches no pickup, and no return but r, whose address it keeps.
LEMMA PickupsUntouched ==
    ASSUME TypeOK, PickupInv, UNCHANGED <<pickups, booking, scan>>, CourierForward,
           \A x \in Returns :
               /\ returns'[x].status = "cancelled" <=> returns[x].status = "cancelled"
               /\ returns'[x].address = returns[x].address
    PROVE  PickupInv'
<1> SUFFICES ASSUME NEW x \in Returns PROVE PickupSound(x)'
    BY DEF PickupInv
<1>1. PickupSound(x)
    BY DEF PickupInv
<1>2. \A a \in Awbs : MovesOn(a)
    BY DEF CourierForward
<1>3. pickups[x].awb \in Awbs \cup {NoAwb} /\ booking[x].awb \in Awbs \cup {NoAwb}
    BY DEF TypeOK, PickupRow
<1> QED
    BY <1>1, <1>2, <1>3 DEF PickupSound, MovesOn, Known

LEMMA SettledStep ==
    ASSUME SettledInv, NEW r \in Returns, SettledSound(r)', overtaken \subseteq overtaken',
           \A x \in Returns \ {r} :
               /\ returns'[x] = returns[x] /\ replaced'[x] = replaced[x] /\ cancelling'[x] = cancelling[x]
               /\ pickups'[x].status = "absent" <=> pickups[x].status = "absent"
               /\ ActiveRefunds(x)' \in {ActiveRefunds(x), {}}
    PROVE  SettledInv'
<1> SUFFICES ASSUME NEW x \in Returns \ {r} PROVE SettledSound(x)'
    BY DEF SettledInv
<1>1. SettledSound(x)
    BY DEF SettledInv
<1> QED
    BY <1>1 DEF SettledSound

\* Units: who held some still does, unless he gives them back.
LEMMA UnitsStep ==
    ASSUME TypeOK, TypeOK', UnitsInv, UNCHANGED line,
           \A r \in Returns : returns'[r].status \in QuantityHolding =>
               returns[r].status \in QuantityHolding /\ returns'[r].quantity = returns[r].quantity
    PROVE  UnitsInv'
<1> DEFINE H == {r \in Returns : returns[r].status \in QuantityHolding}
<1>1. PICK old : old = H
    OBVIOUS
<1>2. PICK new : new = {r \in Returns : returns'[r].status \in QuantityHolding}
    OBVIOUS
<1>3. Consumed = Total(Quantities, old) /\ Consumed' = Total(Quantities', new)
    BY <1>1, <1>2, ConsumedIs, ConsumedThen DEF Holding
<1>4. /\ IsFiniteSet(old) /\ new \subseteq old
      /\ \A x \in old : Quantities[x] \in Nat /\ Quantities'[x] \in Nat
      /\ \A x \in new : Quantities'[x] = Quantities[x]
    BY <1>1, <1>2, CasesAssumption, FS_Subset DEF Quantities, TypeOK, ReturnRow
<1>5. Total(Quantities', new) <= Total(Quantities, old)
    BY <1>4, TotalMonotone
<1>6. Total(Quantities', new) \in Int /\ Total(Quantities, old) \in Int
  <2>1. IsFiniteSet(new)
    BY <1>4, FS_Subset
  <2>2. (\A x \in new : Quantities'[x] \in Int) /\ (\A x \in old : Quantities[x] \in Int)
    BY <1>4
  <2> QED
    BY <1>4, <2>1, <2>2, TotalType
<1> QED
    BY <1>3, <1>5, <1>6, LineType DEF UnitsInv, TypeOK

\* Money: refunds and payment are left alone, and so are the returns they are of.
LEMMA MoneyUntouched ==
    ASSUME TypeOK, MoneyInv, UNCHANGED <<line, refunds, payment>>,
           \A r \in Returns : returns[r].status # "absent" =>
               returns'[r].status # "absent" /\ returns'[r].quantity = returns[r].quantity
    PROVE  MoneyInv'
<1>1. Refunded' = Refunded /\ Captured' = Captured
  <2>1. Amounts' = Amounts /\ Succeeded' = Succeeded
    BY DEF Amounts, Succeeded
  <2> QED
    BY <2>1, RefundedIs, RefundedThen DEF Captured
<1>2. ASSUME NEW f \in Refunds PROVE AmountSound(f)'
  <2>1. refunds[f].of \in Returns
    BY DEF TypeOK, RefundRow
  <2>2. AmountSound(f)
    BY DEF MoneyInv
  <2>3. returns[refunds[f].of].status # "absent" => RefundAmount(refunds[f].of)' = RefundAmount(refunds[f].of)
    BY <2>1 DEF RefundAmount
  <2> QED
    BY <2>1, <2>2, <2>3 DEF AmountSound
<1> QED
    BY <1>1, <1>2 DEF MoneyInv, PaymentSound

\* A step of the return r that leaves refunds and payment alone.
LEMMA ReturnStep ==
    ASSUME Inv, TypeOK', PickupInv', UNCHANGED <<line, refunds, payment>>, overtaken \subseteq overtaken',
           NEW r \in Returns, NEW status, ReturnsWritten(r, status), SettledSound(r)',
           status = "absent" => returns[r].status = "absent",
           status \in QuantityHolding => returns[r].status \in QuantityHolding,
           \A x \in Returns \ {r} :
               /\ replaced'[x] = replaced[x] /\ cancelling'[x] = cancelling[x]
               /\ pickups'[x].status = "absent" <=> pickups[x].status = "absent"
    PROVE  Inv'
<1>1. SettledInv'
  <2>1. \A x \in Returns : ActiveRefunds(x)' = ActiveRefunds(x)
    BY DEF ActiveRefunds
  <2> QED
    BY <2>1, SettledStep DEF Inv, ReturnsWritten
<1>2. \A x \in Returns : /\ returns'[x].status \in QuantityHolding => returns[x].status \in QuantityHolding
                         /\ returns'[x].quantity = returns[x].quantity
                         /\ returns[x].status # "absent" => returns'[x].status # "absent"
    BY DEF ReturnsWritten
<1>3. UnitsInv'
    BY <1>2, UnitsStep DEF Inv
<1>4. MoneyInv'
    BY <1>2, MoneyUntouched DEF Inv
<1> QED
    BY <1>1, <1>3, <1>4 DEF Inv

\* A step that leaves the pickups alone as well.
LEMMA ReviewStep ==
    ASSUME Inv, UNCHANGED <<line, refunds, payment, cancelling, overtaken>>, UNCHANGED courierVars,
           window' \in BOOLEAN, stock' \in 0..MaxStock,
           NEW r \in Returns, NEW status, ReturnsWritten(r, status), SettledSound(r)',
           returns[r].status # "absent", status # "absent", returns[r].status # "cancelled", status # "cancelled",
           status \in QuantityHolding => returns[r].status \in QuantityHolding,
           NEW replacement \in ReplacementStatus, replaced' = [replaced EXCEPT ![r] = replacement]
    PROVE  Inv'
<1>1. /\ replaced' \in [Returns -> ReplacementStatus]
      /\ \A x \in Returns \ {r} : replaced'[x] = replaced[x]
    BY DEF Inv, TypeOK
<1>2. TypeOK'
    BY <1>1 DEF Inv, TypeOK, courierVars, ReturnsWritten
<1>3. CourierForward
    BY DEF Inv, TypeOK, courierVars, CourierForward, MovesOn
<1>4. PickupInv'
    BY <1>3, PickupsUntouched DEF Inv, courierVars, ReturnsWritten
<1>5. \A x \in Returns \ {r} : cancelling'[x] = cancelling[x] /\ pickups'[x] = pickups[x]
    BY DEF courierVars
<1> QED
    BY <1>1, <1>2, <1>4, <1>5, ReturnStep

\* Taking the units of a return from the shelf.
LEMMA Spent ==
    ASSUME TypeOK, NEW r \in Returns
    PROVE  /\ ConsumeStock(r) => stock' \in 0..MaxStock /\ replaced' = [replaced EXCEPT ![r] = "processing"]
           /\ CreateForApprovedReturn(r) =>
                 /\ stock' \in 0..MaxStock
                 /\ \E replacement \in {"processing", "stock_unavailable"} : replaced' = [replaced EXCEPT ![r] = replacement]
<1>1. returns[r].quantity \in Nat /\ stock \in 0..MaxStock /\ MaxStock \in Nat
    BY CasesAssumption DEF TypeOK, ReturnRow
<1> QED
    BY <1>1 DEF ConsumeStock, CreateForApprovedReturn

LEMMA CreateReturnStep ==
    ASSUME Inv, NEW r \in Returns, NEW type \in line.types, NEW quantity \in 1..line.quantity,
           CreateReturn(r, type, quantity)
    PROVE  Inv'
<1>1. /\ returns[r].status = "absent" /\ quantity + Consumed <= line.quantity
      /\ UNCHANGED <<line, window, cancelling, overtaken>> /\ UNCHANGED courierVars /\ UNCHANGED moneyVars
    BY DEF CreateReturn
<1>l. line.quantity \in Nat /\ type \in Types /\ quantity \in Nat \ {0}
    BY LineType DEF Inv, TypeOK
<1>2. PICK row \in ReturnRow : /\ row.status = "requested" /\ row.type = type /\ row.quantity = quantity
                               /\ row.address = returns[r].address
                               /\ returns' = [returns EXCEPT ![r] = row]
  <2>1. PICK before \in ReturnRow : before = returns[r]
    BY DEF Inv, TypeOK
  <2>2. PICK first : first = [before EXCEPT !.status = "requested"]
    OBVIOUS
  <2>3. PICK second : second = [first EXCEPT !.type = type]
    OBVIOUS
  <2>4. PICK third : third = [second EXCEPT !.quantity = quantity]
    OBVIOUS
  <2>5. first \in ReturnRow /\ first.status = "requested" /\ first.address = before.address
    BY <2>2, Statuses DEF ReturnRow
  <2>6. /\ second \in ReturnRow /\ second.status = "requested" /\ second.type = type
        /\ second.address = before.address
    BY <1>l, <2>3, <2>5 DEF ReturnRow
  <2>7. /\ third \in ReturnRow /\ third.status = "requested" /\ third.type = type /\ third.quantity = quantity
        /\ third.address = before.address
    BY <1>l, <2>4, <2>6 DEF ReturnRow
  <2>8. returns' = [returns EXCEPT ![r] = third]
    BY <2>1, <2>2, <2>3, <2>4 DEF CreateReturn
  <2> QED
    BY <2>1, <2>7, <2>8
<1>3. returns' = [returns EXCEPT ![r] = row]
    BY <1>2
<1>4. /\ row \in ReturnRow /\ row.status = "requested" /\ row.type = type /\ row.quantity = quantity
      /\ row.address = returns[r].address
    BY <1>2
<1>5. /\ returns' \in [Returns -> ReturnRow] /\ returns'[r] = row
      /\ \A x \in Returns \ {r} : returns'[x] = returns[x]
    BY <1>3, <1>4 DEF Inv, TypeOK
<1>6. TypeOK'
    BY <1>1, <1>5 DEF Inv, TypeOK, courierVars, moneyVars
<1>7. PickupInv'
  <2>1. CourierForward
    BY <1>1 DEF Inv, TypeOK, courierVars, CourierForward, MovesOn
  <2> QED
    BY <1>1, <1>4, <1>5, <2>1, PickupsUntouched DEF Inv, courierVars
<1>8. SettledInv'
  <2>1. \A x \in Returns : ActiveRefunds(x)' = ActiveRefunds(x)
    BY <1>1 DEF ActiveRefunds, moneyVars
  <2>2. SettledSound(r)
    BY DEF Inv, SettledInv
  <2>3. SettledSound(r)'
    BY <1>1, <1>4, <1>5, <1>l, <2>1, <2>2 DEF SettledSound, Unreviewed, courierVars, moneyVars
  <2> QED
    BY <1>1, <1>5, <2>1, <2>3, SettledStep DEF Inv, courierVars, moneyVars
<1>9. UnitsInv'
  <2>1. Holding' = Holding \cup {r} /\ r \notin Holding /\ Holding \in SUBSET Returns
    BY <1>1, <1>4, <1>5 DEF Holding, QuantityHolding
  <2>2. IsFiniteSet(Holding) /\ Total(Quantities, Holding) \in Int
    BY <2>1, SumTypes DEF Inv
  <2>3. /\ Quantities'[r] = quantity
        /\ \A x \in Holding : Quantities'[x] = Quantities[x]
        /\ \A x \in Holding \cup {r} : Quantities'[x] \in Int
    BY <1>4, <1>5, <1>l, <2>1 DEF Quantities, Inv, TypeOK, ReturnRow
  <2>4. Total(Quantities', Holding \cup {r}) = quantity + Total(Quantities', Holding)
    BY <2>1, <2>2, <2>3, TotalAdd
  <2>5. Total(Quantities', Holding) = Total(Quantities, Holding)
    BY <2>2, <2>3, TotalSame
  <2>6. Consumed' = quantity + Consumed
    BY <2>1, <2>4, <2>5, ConsumedIs, ConsumedThen
  <2> QED
    BY <1>1, <2>6 DEF UnitsInv
<1>10. MoneyInv'
    BY <1>1, <1>5, MoneyUntouched DEF Inv, moneyVars
<1> QED
    BY <1>6, <1>7, <1>8, <1>9, <1>10 DEF Inv

LEMMA ReviewSteps ==
    ASSUME Inv, NEW r \in Returns,
           Approve(r) \/ Reject(r) \/ MarkItemReceived(r) \/ UpdateReplacement(r) \/ ReplacementDelivered(r)
    PROVE  Inv'
<1>t. /\ TypeOK /\ SettledSound(r) /\ returns[r] \in ReturnRow /\ replaced[r] \in ReplacementStatus
      /\ replaced \in [Returns -> ReplacementStatus] /\ window \in BOOLEAN /\ stock \in 0..MaxStock
    BY DEF Inv, SettledInv, TypeOK
<1>r. UNCHANGED refunds => ActiveRefunds(r)' = ActiveRefunds(r)
    BY DEF ActiveRefunds
<1>o. replaced = [replaced EXCEPT ![r] = replaced[r]]
    BY <1>t
<1>1. CASE Approve(r)
  <2>1. /\ returns[r].status = "requested" /\ returns' = [returns EXCEPT ![r].status = "approved"]
        /\ UNCHANGED <<line, window, cancelling, refunds, payment, overtaken>> /\ UNCHANGED courierVars
    BY <1>1 DEF Approve
  <2>2. ReturnsWritten(r, "approved")
    BY <1>t, <2>1, Statuses, ReturnStatusWritten
  <2>3. PICK replacement \in ReplacementStatus :
            /\ replaced' = [replaced EXCEPT ![r] = replacement] /\ stock' \in 0..MaxStock
            /\ replacement = "none" <=> returns[r].type = "return"
            /\ replacement # "none" => returns[r].type = "replacement"
    <3>1. CASE returns[r].type = "return" /\ UNCHANGED <<replaced, stock>>
      BY <1>o, <1>t, <2>1, <3>1 DEF SettledSound, Unreviewed
    <3>2. CASE returns[r].type = "replacement" /\ CreateForApprovedReturn(r)
      BY <1>t, <3>2, Spent, Statuses
    <3> QED
      BY <1>1, <3>1, <3>2 DEF Approve
  <2>4. replaced'[r] = replacement
    BY <1>t, <2>3
  <2>5. SettledSound(r)'
    BY <1>r, <1>t, <2>1, <2>2, <2>3, <2>4 DEF SettledSound, Unreviewed, ReturnsWritten, courierVars
  <2> QED
    BY <1>t, <2>1, <2>2, <2>3, <2>5, ReviewStep DEF QuantityHolding
<1>2. CASE Reject(r)
  <2>1. /\ returns[r].status = "requested" /\ returns' = [returns EXCEPT ![r].status = "rejected"]
        /\ UNCHANGED <<line, window, cancelling, overtaken>> /\ UNCHANGED courierVars /\ UNCHANGED moneyVars
    BY <1>2 DEF Reject
  <2>2. ReturnsWritten(r, "rejected")
    BY <1>t, <2>1, Statuses, ReturnStatusWritten
  <2>5. SettledSound(r)'
    BY <1>r, <1>t, <2>1, <2>2 DEF SettledSound, Unreviewed, ReturnsWritten, courierVars, moneyVars
  <2> QED
    BY <1>o, <1>t, <2>1, <2>2, <2>5, ReviewStep DEF QuantityHolding, moneyVars
<1>3. CASE MarkItemReceived(r)
  <2>1. /\ returns[r].status \in {"requested", "approved"} /\ returns' = [returns EXCEPT ![r].item_received = TRUE]
        /\ UNCHANGED <<line, window, cancelling, overtaken>> /\ UNCHANGED courierVars /\ UNCHANGED moneyVars
    BY <1>3 DEF MarkItemReceived
  <2>2. ReturnsWritten(r, returns[r].status)
    BY <1>t, <2>1 DEF TypeOK, ReturnRow, ReturnsWritten
  <2>5. SettledSound(r)'
    BY <1>r, <1>t, <2>1, <2>2 DEF SettledSound, Unreviewed, ReturnsWritten, courierVars, moneyVars
  <2> QED
    BY <1>o, <1>t, <2>1, <2>2, <2>5, ReviewStep DEF QuantityHolding, moneyVars
<1>4. CASE UpdateReplacement(r)
  <2>1. /\ replaced[r] = "stock_unavailable" /\ ConsumeStock(r)
        /\ UNCHANGED <<line, window, returns, cancelling, refunds, payment, overtaken>> /\ UNCHANGED courierVars
    BY <1>4 DEF UpdateReplacement
  <2>2. ReturnsWritten(r, returns[r].status)
    BY <1>t, <2>1 DEF TypeOK, ReturnsWritten
  <2>3. stock' \in 0..MaxStock /\ replaced' = [replaced EXCEPT ![r] = "processing"] /\ "processing" \in ReplacementStatus
    BY <1>t, <2>1, Spent, Statuses
  <2>4. replaced'[r] = "processing"
    BY <1>t, <2>3
  <2>5. SettledSound(r)'
    BY <1>r, <1>t, <2>1, <2>2, <2>4 DEF SettledSound, Unreviewed, ReturnsWritten, courierVars
  <2>6. returns[r].status \notin {"absent", "cancelled"}
    BY <1>t, <2>1 DEF SettledSound, Unreviewed
  <2> QED
    BY <1>t, <2>1, <2>2, <2>3, <2>5, <2>6, ReviewStep
<1>5. CASE ReplacementDelivered(r)
  <2>1. /\ replaced[r] = "processing" /\ replaced' = [replaced EXCEPT ![r] = "completed"]
        /\ returns' = [returns EXCEPT ![r].status = IF @ = "approved" THEN "resolved" ELSE @]
        /\ UNCHANGED <<line, window, cancelling, refunds, payment, stock, overtaken>> /\ UNCHANGED courierVars
    BY <1>5 DEF ReplacementDelivered
  <2>2. PICK status : status = IF returns[r].status = "approved" THEN "resolved" ELSE returns[r].status
    OBVIOUS
  <2>3. returns' = [returns EXCEPT ![r].status = status]
    BY <2>1, <2>2
  <2>4. status \in ReturnStatus
    BY <1>t, <2>2, Statuses DEF ReturnRow
  <2>5. ReturnsWritten(r, status)
    BY <1>t, <2>3, <2>4, ReturnStatusWritten
  <2>6. replaced'[r] = "completed" /\ "completed" \in ReplacementStatus
    BY <1>t, <2>1, Statuses
  <2>7. returns[r].status \notin {"absent", "cancelled"}
    BY <1>t, <2>1 DEF SettledSound, Unreviewed
  <2>8. SettledSound(r)'
    BY <1>r, <1>t, <2>1, <2>2, <2>5, <2>6, <2>7 DEF SettledSound, Unreviewed, ReturnsWritten, courierVars
  <2> QED
    BY <1>t, <2>1, <2>2, <2>5, <2>6, <2>7, <2>8, ReviewStep DEF QuantityHolding
<1> QED
    BY <1>1, <1>2, <1>3, <1>4, <1>5

LEMMA AddressStep ==
    ASSUME Inv, NEW r \in Returns, UpdatePickupAddress(r)
    PROVE  Inv'
<1>1. /\ returns[r].status = "approved" /\ pickups[r].status \in {"absent", "failed"}
      /\ returns' = [returns EXCEPT ![r].address = 1 - @]
      /\ UNCHANGED <<line, window, cancelling, overtaken>> /\ UNCHANGED courierVars /\ UNCHANGED moneyVars
    BY DEF UpdatePickupAddress, AddressEditable
<1>2. /\ returns' \in [Returns -> ReturnRow]
      /\ returns'[r].status = "approved" /\ returns'[r].type = returns[r].type
      /\ returns'[r].quantity = returns[r].quantity
      /\ \A x \in Returns \ {r} : returns'[x] = returns[x]
  <2>1. PICK before \in ReturnRow : before = returns[r]
    BY DEF Inv, TypeOK
  <2>2. PICK row : row = [before EXCEPT !.address = 1 - before.address]
    OBVIOUS
  <2>3. /\ row \in ReturnRow /\ row.status = before.status /\ row.type = before.type
        /\ row.quantity = before.quantity
    BY <2>2 DEF ReturnRow
  <2>4. returns' = [returns EXCEPT ![r] = row] /\ returns \in [Returns -> ReturnRow]
    BY <1>1, <2>1, <2>2 DEF Inv, TypeOK
  <2>5. /\ returns' \in [Returns -> ReturnRow] /\ returns'[r] = row
        /\ \A x \in Returns \ {r} : returns'[x] = returns[x]
    BY <2>3, <2>4
  <2> QED
    BY <1>1, <2>1, <2>3, <2>5
<1>3. TypeOK'
    BY <1>1, <1>2 DEF Inv, TypeOK, courierVars, moneyVars
<1>4. PickupInv'
  <2>1. PickupSound(r)
    BY DEF Inv, PickupInv
  <2>2. PickupSound(r)'
    BY <1>1, <1>2, <2>1 DEF PickupSound, Known, courierVars
  <2>3. CourierForward
    BY <1>1 DEF Inv, TypeOK, courierVars, CourierForward, MovesOn
  <2> QED
    BY <1>1, <1>2, <2>2, <2>3, PickupStep DEF Inv, courierVars
<1>5. SettledInv'
  <2>1. \A x \in Returns : ActiveRefunds(x)' = ActiveRefunds(x)
    BY <1>1 DEF ActiveRefunds, moneyVars
  <2>2. SettledSound(r)
    BY DEF Inv, SettledInv
  <2>3. SettledSound(r)'
    BY <1>1, <1>2, <2>1, <2>2 DEF SettledSound, Unreviewed, courierVars, moneyVars
  <2> QED
    BY <1>1, <1>2, <2>1, <2>3, SettledStep DEF Inv, courierVars, moneyVars
<1>6. \A x \in Returns : returns'[x].status = returns[x].status /\ returns'[x].quantity = returns[x].quantity
    BY <1>1, <1>2
<1>7. UnitsInv'
    BY <1>1, <1>3, <1>6, UnitsStep DEF Inv
<1>8. MoneyInv'
    BY <1>1, <1>6, MoneyUntouched DEF Inv, moneyVars
<1> QED
    BY <1>3, <1>4, <1>5, <1>7, <1>8 DEF Inv

-----------------------------------------------------------------------------
(* The refunds                                                               *)

\* Amounts that are not negative do not add up to something negative.
LEMMA RefundedType == TypeOK => Refunded \in Nat
<1> SUFFICES ASSUME TypeOK PROVE Refunded \in Nat
    OBVIOUS
<1>1. PICK done \in SUBSET Refunds : done = Succeeded
    BY DEF Succeeded
<1>2. IsFiniteSet(done) /\ Total(Amounts, done) \in Int
    BY SumTypes
<1>3. \A f \in done : Amounts[f] \in Nat
    BY DEF TypeOK, RefundRow, Amounts
<1>4. Total(Amounts, {}) <= Total(Amounts, done)
    BY <1>2, <1>3, TotalMonotone
<1> QED
    BY <1>1, <1>2, <1>4, TotalEmpty, RefundedIs

LEMMA InitiateRefundStep ==
    ASSUME Inv, NEW r \in Returns, NEW f \in Refunds, InitiateRefund(r, f)
    PROVE  Inv'
<1>1. /\ refunds[f].status = "absent" /\ returns[r].type = "return" /\ returns[r].status = "approved"
      /\ ActiveRefunds(r) = {}
      /\ refunds' = [refunds EXCEPT ![f] = [status |-> "pending", of |-> r, amount |-> RefundAmount(r)]]
      /\ UNCHANGED <<line, window, returns, cancelling, payment, replaced, stock, overtaken>>
      /\ UNCHANGED courierVars
    BY DEF InitiateRefund, MayRefund
<1>2. RefundAmount(r) \in Nat
    BY RefundAmountFits DEF Inv, TypeOK, ReturnRow
<1>3. PICK row \in RefundRow : /\ row.status = "pending" /\ row.of = r /\ row.amount = RefundAmount(r)
                               /\ refunds' = [refunds EXCEPT ![f] = row]
    BY <1>1, <1>2 DEF RefundRow
<1>4. /\ refunds' \in [Refunds -> RefundRow] /\ refunds'[f] = row
      /\ \A g \in Refunds \ {f} : refunds'[g] = refunds[g]
    BY <1>3 DEF Inv, TypeOK
<1>5. TypeOK'
    BY <1>1, <1>4 DEF Inv, TypeOK, courierVars
<1>6. CourierForward
    BY <1>1 DEF Inv, TypeOK, courierVars, CourierForward, MovesOn
<1>7. PickupInv'
    BY <1>1, <1>6, PickupsUntouched DEF Inv, courierVars
<1>8. SettledInv'
  <2>1. ActiveRefunds(r)' = {f} /\ \A x \in Returns \ {r} : ActiveRefunds(x)' = ActiveRefunds(x)
    BY <1>1, <1>3, <1>4 DEF ActiveRefunds, ActiveRefund
  <2>2. SettledSound(r)
    BY DEF Inv, SettledInv
  <2>3. SettledSound(r)'
    BY <1>1, <2>1, <2>2 DEF SettledSound, Unreviewed, courierVars
  <2> QED
    BY <1>1, <2>1, <2>3, SettledStep DEF Inv, courierVars
<1>9. UnitsInv'
    BY <1>1, <1>5, UnitsStep DEF Inv
<1>10. Refunded' = Refunded
  <2>1. PICK done \in SUBSET Refunds : done = Succeeded
    BY DEF Succeeded
  <2>2. Succeeded' = done /\ \A g \in done : Amounts'[g] = Amounts[g]
    BY <1>1, <1>3, <1>4, <2>1 DEF Succeeded, Amounts
  <2>3. IsFiniteSet(done)
    BY SumTypes DEF Inv
  <2>4. Total(Amounts', done) = Total(Amounts, done)
    BY <2>2, <2>3, TotalSame
  <2> QED
    BY <2>1, <2>2, <2>4, RefundedIs, RefundedThen
<1>11. PaymentSound'
    BY <1>1, <1>10 DEF Inv, MoneyInv, PaymentSound, Captured
<1>12. ASSUME NEW g \in Refunds PROVE AmountSound(g)'
  <2>1. AmountSound(g) /\ \A x \in Returns : RefundAmount(x)' = RefundAmount(x)
    BY <1>1 DEF Inv, MoneyInv, RefundAmount
  <2>2. CASE g = f
    BY <1>1, <1>3, <1>4, <2>1, <2>2 DEF AmountSound
  <2>3. CASE g # f
    <3>1. refunds'[g] = refunds[g] /\ refunds[g].of \in Returns
      BY <1>4, <2>3 DEF Inv, TypeOK, RefundRow
    <3> QED
      BY <1>1, <2>1, <3>1 DEF AmountSound
  <2> QED
    BY <2>2, <2>3
<1> QED
    BY <1>5, <1>7, <1>8, <1>9, <1>11, <1>12 DEF Inv, MoneyInv

\* What a refund leaves as it was when it moves on: everything but the roll-up.
LEMMA RefundMoves ==
    ASSUME Inv, TypeOK', NEW f \in Refunds, refunds[f].status \in {"pending", "processing"},
           NEW status \in {"processing", "succeeded", "failed"}, RefundsWritten(f, status),
           NEW r \in Returns, r = refunds[f].of,
           NEW after \in {returns[r].status, "resolved"}, ReturnsWritten(r, after),
           after = returns[r].status \/ returns[r].status = "approved",
           UNCHANGED <<line, cancelling, replaced, overtaken>>, UNCHANGED courierVars
    PROVE  /\ PickupInv' /\ SettledInv' /\ UnitsInv'
           /\ \A g \in Refunds : AmountSound(g)'
<1>1. CourierForward
    BY DEF Inv, TypeOK, courierVars, CourierForward, MovesOn
<1>2. returns'[r].status = "cancelled" <=> returns[r].status = "cancelled"
    BY DEF ReturnsWritten
<1>3. PickupInv'
  <2>1. \A x \in Returns : /\ returns'[x].status = "cancelled" <=> returns[x].status = "cancelled"
                           /\ returns'[x].address = returns[x].address
    BY <1>2 DEF ReturnsWritten
  <2> QED
    BY <1>1, <2>1, PickupsUntouched DEF Inv, courierVars
<1>4. SettledInv'
  <2>1. f \in ActiveRefunds(r) /\ SettledSound(r)
    BY DEF ActiveRefunds, ActiveRefund, Inv, SettledInv
  <2>2. ActiveRefunds(r) = {f}
    BY <2>1 DEF SettledSound
  <2>3. ActiveRefunds(r)' \subseteq {f} /\ \A x \in Returns \ {r} : ActiveRefunds(x)' = ActiveRefunds(x)
    BY <2>2 DEF RefundsWritten, ActiveRefunds, ActiveRefund
  <2>4. SettledSound(r)'
    BY <2>1, <2>2, <2>3 DEF SettledSound, Unreviewed, ReturnsWritten, courierVars
  <2> QED
    BY <2>3, <2>4, SettledStep DEF Inv, courierVars, ReturnsWritten
<1>5. UnitsInv'
  <2>1. \A x \in Returns : returns'[x].status \in QuantityHolding =>
            returns[x].status \in QuantityHolding /\ returns'[x].quantity = returns[x].quantity
    BY DEF ReturnsWritten, QuantityHolding
  <2> QED
    BY <2>1, UnitsStep DEF Inv
<1>6. ASSUME NEW g \in Refunds PROVE AmountSound(g)'
  <2>1. PICK x \in Returns : x = refunds[g].of
    BY DEF Inv, TypeOK, RefundRow
  <2>2. AmountSound(g)
    BY DEF Inv, MoneyInv
  <2>3. \/ refunds'[g].of = x /\ refunds'[g].amount = refunds[g].amount /\ refunds[g].status # "absent"
        \/ refunds'[g] = refunds[g]
    BY <2>1 DEF RefundsWritten
  <2>4. returns'[x].quantity = returns[x].quantity /\ (returns[x].status # "absent" => returns'[x].status # "absent")
    BY DEF ReturnsWritten
  <2>5. RefundAmount(x)' = RefundAmount(x)
    BY <2>4 DEF RefundAmount
  <2> QED
    BY <2>1, <2>2, <2>3, <2>4, <2>5 DEF AmountSound
<1> QED
    BY <1>3, <1>4, <1>5, <1>6

LEMMA RefundQueuedFailsStep ==
    ASSUME Inv, NEW f \in Refunds, RefundQueued(f) \/ RefundFails(f)
    PROVE  Inv'
<1>1. PICK status \in {"processing", "failed"} : refunds' = [refunds EXCEPT ![f].status = status]
    BY DEF RefundQueued, RefundFails
<1>2. /\ refunds[f].status \in {"pending", "processing"}
      /\ UNCHANGED <<line, window, returns, cancelling, payment, replaced, stock, overtaken>> /\ UNCHANGED courierVars
    BY DEF RefundQueued, RefundFails
<1>3. RefundsWritten(f, status)
    BY <1>1, RefundStatusWritten DEF Inv
<1>4. TypeOK'
    BY <1>2, <1>3 DEF Inv, TypeOK, courierVars, RefundsWritten
<1>5. PICK r \in Returns : r = refunds[f].of
    BY DEF Inv, TypeOK, RefundRow
<1>6. ReturnsWritten(r, returns[r].status)
    BY <1>2 DEF Inv, TypeOK, ReturnsWritten
<1>7. PickupInv' /\ SettledInv' /\ UnitsInv' /\ \A g \in Refunds : AmountSound(g)'
    BY <1>2, <1>3, <1>4, <1>5, <1>6, RefundMoves
<1>8. Refunded' = Refunded
  <2>1. Succeeded' = Succeeded /\ Amounts' = Amounts
    BY <1>2, <1>3 DEF RefundsWritten, Succeeded, Amounts
  <2> QED
    BY <2>1, RefundedIs, RefundedThen
<1>9. PaymentSound'
    BY <1>2, <1>8 DEF Inv, MoneyInv, PaymentSound, Captured
<1> QED
    BY <1>4, <1>7, <1>9 DEF Inv, MoneyInv

LEMMA RefundSucceedsStep ==
    ASSUME Inv, NEW f \in Refunds, RefundSucceeds(f)
    PROVE  Inv'
<1>1. PICK r \in Returns : r = refunds[f].of
    BY DEF Inv, TypeOK, RefundRow
<1>2. PICK after : after = IF returns[r].status = "approved" THEN "resolved" ELSE returns[r].status
    OBVIOUS
<1>3. /\ refunds[f].status \in {"pending", "processing"}
      /\ refunds' = [refunds EXCEPT ![f].status = "succeeded"]
      /\ payment' = IF FullyRefunded(f) THEN "refunded" ELSE "partially_refunded"
      /\ window' \in {window, TRUE}
      /\ returns' = [returns EXCEPT ![r].status = after]
      /\ UNCHANGED <<line, cancelling, replaced, stock, overtaken>> /\ UNCHANGED courierVars
    BY <1>1, <1>2 DEF RefundSucceeds
<1>4. RefundsWritten(f, "succeeded")
    BY <1>3, RefundStatusWritten DEF Inv
<1>5. after \in ReturnStatus
    BY <1>2, Statuses DEF Inv, TypeOK, ReturnRow
<1>6. ReturnsWritten(r, after)
    BY <1>3, <1>5, ReturnStatusWritten DEF Inv
<1>7. TypeOK'
  <2>1. window' \in BOOLEAN /\ payment' \in {"paid", "partially_refunded", "refunded"}
    BY <1>3 DEF Inv, TypeOK
  <2> QED
    BY <1>3, <1>4, <1>6, <2>1 DEF Inv, TypeOK, courierVars, RefundsWritten, ReturnsWritten
<1>8. PickupInv' /\ SettledInv' /\ UnitsInv' /\ \A g \in Refunds : AmountSound(g)'
    BY <1>1, <1>2, <1>3, <1>4, <1>6, <1>7, RefundMoves
<1>9. PICK amount \in Nat \ {0} : amount = refunds[f].amount
  <2>1. returns[r].status # "absent" /\ refunds[f].amount = RefundAmount(r)
    BY <1>1, <1>3 DEF Inv, MoneyInv, AmountSound
  <2>2. returns[r].quantity \in Nat \ {0}
    BY <2>1 DEF Inv, SettledInv, SettledSound, TypeOK, ReturnRow
  <2> QED
    BY <2>1, <2>2, RefundAmountFits DEF Inv, TypeOK
<1>10. Refunded' = amount + Refunded
  <2>1. PICK done \in SUBSET Refunds : done = Succeeded
    BY DEF Succeeded
  <2>2. /\ Succeeded' = done \cup {f} /\ f \notin done
        /\ \A g \in done : Amounts'[g] = Amounts[g]
        /\ Amounts'[f] = amount
        /\ \A g \in done \cup {f} : Amounts'[g] \in Int
    <3>1. Succeeded' = done \cup {f} /\ f \notin done
      BY <1>3, <1>4, <2>1 DEF RefundsWritten, Succeeded
    <3>2. /\ \A g \in Refunds : Amounts'[g] = refunds'[g].amount /\ Amounts[g] = refunds[g].amount
          /\ \A g \in Refunds : refunds'[g].amount \in Nat
      BY <1>7 DEF Amounts, TypeOK, RefundRow
    <3>3. refunds'[f].amount = amount /\ \A g \in done : refunds'[g] = refunds[g]
      BY <1>4, <1>9, <3>1 DEF RefundsWritten
    <3> QED
      BY <3>1, <3>2, <3>3
  <2>3. IsFiniteSet(done)
    BY SumTypes DEF Inv
  <2>4. Total(Amounts', done \cup {f}) = Amounts'[f] + Total(Amounts', done)
    BY <2>2, <2>3, TotalAdd
  <2>5. Total(Amounts', done) = Total(Amounts, done)
    BY <2>2, <2>3, TotalSame
  <2> QED
    BY <2>1, <2>2, <2>4, <2>5, RefundedIs, RefundedThen
<1>11. PaymentSound'
  <2>1. Refunded \in Nat /\ Captured \in Nat \ {0} /\ Captured' = Captured
    BY <1>3, RefundedType, CapturedType DEF Inv, TypeOK, Captured
  <2>2. FullyRefunded(f) <=> Refunded + amount >= Captured
    BY <1>9 DEF FullyRefunded
  <2>3. FullyRefunded(f) => Refunded' >= Captured'
    BY <1>10, <2>1, <2>2
  <2>4. ~FullyRefunded(f) => ~(Refunded' >= Captured') /\ Refunded' # 0
    BY <1>10, <2>1, <2>2
  <2>5. CASE FullyRefunded(f)
    <3>1. payment' = "refunded" /\ Refunded' >= Captured'
      BY <1>3, <2>3, <2>5
    <3>2. Refunded' # 0
      BY <1>9, <1>10, <2>1
    <3> QED
      BY <3>1, <3>2 DEF PaymentSound
  <2>6. CASE ~FullyRefunded(f)
    <3>1. payment' = "partially_refunded" /\ ~(Refunded' >= Captured') /\ Refunded' # 0
      BY <1>3, <2>4, <2>6
    <3> QED
      BY <3>1 DEF PaymentSound
  <2> QED
    BY <2>5, <2>6
<1> QED
    BY <1>7, <1>8, <1>11 DEF Inv, MoneyInv

-----------------------------------------------------------------------------
(* Pickups and iThink                                                        *)

\* A step that touches no row.
LEMMA RowsUntouched ==
    ASSUME Inv, TypeOK', CourierForward,
           UNCHANGED <<line, returns, pickups, booking, cancelling, scan, refunds, payment, replaced, overtaken>>
    PROVE  Inv'
<1>1. PickupInv'
    BY PickupsUntouched DEF Inv
<1>2. SettledInv'
  <2>1. \A x \in Returns : ActiveRefunds(x)' = ActiveRefunds(x)
    BY DEF ActiveRefunds
  <2> QED
    BY <2>1 DEF Inv, SettledInv, SettledSound
<1>3. UnitsInv'
    BY UnitsStep DEF Inv
<1>4. MoneyInv'
    BY MoneyUntouched DEF Inv
<1> QED
    BY <1>1, <1>2, <1>3, <1>4 DEF Inv

\* Where a courier goes from where he is.
LEMMA CourierLeaves ==
    ASSUME NEW c \in Scans \cup {"none"}, NEW s \in Moves[c]
    PROVE  s \in Scans \ {"booked"} /\ c \notin {"cancelled", "none"} /\ (s = "missed" => c = "booked")
<1>1. CASE c \in {"none", "delivered", "cancelled"}
    BY <1>1 DEF Moves
<1>2. CASE c = "booked"
    BY <1>2 DEF Moves, Scans
<1>3. CASE c = "missed"
    BY <1>3 DEF Moves, Scans
<1>4. CASE c = "picked"
    BY <1>4 DEF Moves, Scans
<1>5. CASE c = "lost"
    BY <1>5 DEF Moves, Scans
<1> QED
    BY <1>1, <1>2, <1>3, <1>4, <1>5 DEF Scans

LEMMA WorldSteps ==
    ASSUME Inv, WindowCloses \/ Restock \/ (\E a \in Awbs : CourierMoves(a)) \/ UNCHANGED vars
    PROVE  Inv'
<1>1. CASE WindowCloses
  <2>1. TypeOK' /\ CourierForward
    BY <1>1 DEF WindowCloses, Inv, TypeOK, courierVars, moneyVars, CourierForward, MovesOn
  <2> QED
    BY <1>1, <2>1, RowsUntouched DEF WindowCloses, courierVars, moneyVars
<1>2. CASE Restock
  <2>1. stock' \in 0..MaxStock
    BY <1>2, CasesAssumption DEF Restock, Inv, TypeOK
  <2>2. TypeOK' /\ CourierForward
    BY <1>2, <2>1 DEF Restock, Inv, TypeOK, courierVars, CourierForward, MovesOn
  <2> QED
    BY <1>2, <2>2, RowsUntouched DEF Restock, courierVars
<1>3. ASSUME NEW a \in Awbs, CourierMoves(a) PROVE Inv'
  <2>c. PICK c \in Scans \cup {"none"} : c = courier[a]
    BY DEF Inv, TypeOK
  <2>1. PICK s \in Moves[c] : c = courier[a] /\ courier' = [courier EXCEPT ![a] = s]
    BY <1>3, <2>c DEF CourierMoves
  <2>t. sent' \in [Awbs -> 0..1] /\ UNCHANGED sent /\ courier \in [Awbs -> Scans \cup {"none"}]
    BY <1>3 DEF CourierMoves, Inv, TypeOK
  <2>m. s \in Scans \ {"booked"} /\ c \notin {"cancelled", "none"} /\ (s = "missed" => c = "booked")
    BY <2>1, CourierLeaves
  <2>2. CourierForward
    <3>1. courier' \in [Awbs -> Scans \cup {"none"}] /\ courier'[a] = s
      BY <2>1, <2>t, <2>m
    <3>2. MovesOn(a)
      <4>1. courier[a] \notin {"cancelled", "none"} /\ (courier'[a] = "missed" => courier[a] = "booked")
        BY <2>c, <2>m, <3>1
      <4>2. courier'[a] \notin {"none", "booked"} /\ sent'[a] = sent[a]
        BY <2>m, <2>t, <3>1 DEF Scans
      <4> QED
        BY <4>1, <4>2 DEF MovesOn, Waiting
    <3>3. ASSUME NEW b \in Awbs \ {a} PROVE MovesOn(b)
      BY <2>1, <2>t DEF MovesOn
    <3> QED
      BY <2>t, <3>1, <3>2, <3>3 DEF CourierForward
  <2>3. TypeOK'
    BY <1>3, <2>2 DEF CourierMoves, CourierForward, Inv, TypeOK, moneyVars
  <2> QED
    BY <1>3, <2>2, <2>3, RowsUntouched DEF CourierMoves, moneyVars
<1>4. CASE UNCHANGED vars
  <2>1. TypeOK' /\ CourierForward
    BY <1>4 DEF vars, Inv, TypeOK, CourierForward, MovesOn
  <2> QED
    BY <1>4, <2>1, RowsUntouched DEF vars
<1> QED
    BY <1>1, <1>2, <1>3, <1>4

\* A step of the booking or the tracking of r.
LEMMA BookingStep ==
    ASSUME Inv, UNCHANGED <<line, window, returns, cancelling, overtaken>>, UNCHANGED moneyVars, CourierForward,
           NEW r \in Returns, PickupSound(r)',
           pickups' \in [Returns -> PickupRow], booking' \in [Returns -> BookingRow],
           scan' \in [Returns -> Scans \cup {"none"}],
           \A x \in Returns \ {r} : pickups'[x] = pickups[x] /\ booking'[x] = booking[x] /\ scan'[x] = scan[x],
           pickups[r].status # "absent" \/ returns[r].status \notin Unreviewed
    PROVE  Inv'
<1>1. TypeOK'
    BY DEF Inv, TypeOK, CourierForward, moneyVars, BookingRow
<1>2. PickupInv'
    BY PickupStep DEF Inv
<1>3. SettledSound(r)'
  <2>1. SettledSound(r) /\ ActiveRefunds(r)' = ActiveRefunds(r)
    BY DEF Inv, SettledInv, ActiveRefunds, moneyVars
  <2>2. returns[r].status \notin Unreviewed
    BY <2>1 DEF SettledSound
  <2> QED
    BY <2>1, <2>2 DEF SettledSound, moneyVars
<1>4. ReturnsWritten(r, returns[r].status)
    BY DEF Inv, TypeOK, ReturnsWritten
<1> QED
    BY <1>1, <1>2, <1>3, <1>4, ReturnStep DEF moneyVars

LEMMA CourierStepsStep ==
    ASSUME Inv, NEW r \in Returns, line.awbs \subseteq Awbs, CourierSteps(r)
    PROVE  Inv'
<1>t. /\ TypeOK /\ PickupSound(r) /\ pickups[r] \in PickupRow /\ booking[r] \in BookingRow
      /\ returns[r] \in ReturnRow
      /\ pickups \in [Returns -> PickupRow] /\ booking \in [Returns -> BookingRow]
      /\ scan \in [Returns -> Scans \cup {"none"}] /\ courier \in [Awbs -> Scans \cup {"none"}]
      /\ sent \in [Awbs -> 0..1]
    BY DEF Inv, PickupInv, TypeOK, BookingRow
<1>c. UNCHANGED <<courier, sent>> => CourierForward
    BY <1>t DEF CourierForward, MovesOn
<1>a. booking[r].step # "none" => pickups[r].status # "absent"
    BY <1>t DEF PickupSound
<1>w. pickups[r].awb # NoAwb => pickups[r].status # "absent"
    BY <1>t DEF PickupSound
<1>1. CASE BookReverse(r)
  <2>1. /\ booking[r].step = "none" /\ returns[r].status = "approved" /\ pickups[r].status \in {"absent", "failed"}
        /\ booking' = [booking EXCEPT ![r].step = "asked"]
        /\ UNCHANGED <<line, window, returns, courier, cancelling, scan, sent, overtaken>> /\ UNCHANGED moneyVars
    BY <1>1 DEF BookReverse, MayBook
  <2>2. BookingWritten(r, "asked", booking[r].awb)
    BY <1>t, <2>1, Statuses, StepWritten
  <2>3. PICK row \in PickupRow : /\ row.status = "pending" /\ row.provider_status = Marker
                                 /\ row.awb = pickups[r].awb /\ row.to = returns[r].address
                                 /\ pickups' = [pickups EXCEPT ![r] = row]
    <3>1. PICK before \in PickupRow : before = pickups[r]
      BY <1>t
    <3>2. PICK first : first = [before EXCEPT !.status = "pending"]
      OBVIOUS
    <3>3. PICK second : second = [first EXCEPT !.provider_status = Marker]
      OBVIOUS
    <3>4. PICK third : third = [second EXCEPT !.intent = FALSE]
      OBVIOUS
    <3>5. PICK row : row = [third EXCEPT !.to = returns[r].address]
      OBVIOUS
    <3>6. first \in PickupRow /\ first.status = "pending" /\ first.awb = before.awb
      BY <3>2, Statuses DEF PickupRow
    <3>7. second \in PickupRow /\ second.status = "pending" /\ second.awb = before.awb /\ second.provider_status = Marker
      BY <3>3, <3>6 DEF PickupRow
    <3>8. third \in PickupRow /\ third.status = "pending" /\ third.awb = before.awb /\ third.provider_status = Marker
      BY <3>4, <3>7 DEF PickupRow
    <3>9. /\ row \in PickupRow /\ row.status = "pending" /\ row.awb = before.awb /\ row.provider_status = Marker
          /\ row.to = returns[r].address
      BY <1>t, <3>5, <3>8 DEF PickupRow, ReturnRow
    <3>10. pickups' = [pickups EXCEPT ![r] = row]
      BY <1>1, <1>t, <3>1, <3>2, <3>3, <3>4, <3>5 DEF BookReverse
    <3> QED
      BY <3>1, <3>9, <3>10
  <2>4. /\ pickups' \in [Returns -> PickupRow] /\ pickups'[r] = row
        /\ \A x \in Returns \ {r} : pickups'[x] = pickups[x]
    BY <1>t, <2>3
  <2>5. PickupSound(r)'
    BY <1>t, <2>1, <2>2, <2>3, <2>4, Statuses DEF PickupSound, Known, BookingWritten
  <2> QED
    BY <1>c, <1>t, <2>1, <2>2, <2>4, <2>5, BookingStep DEF BookingWritten, Unreviewed
<1>2. CASE CreateReverseShipment(r)
  <2>1. /\ booking[r].step = "asked" /\ UNCHANGED <<line, window, returns, pickups, cancelling, scan, overtaken>>
        /\ UNCHANGED moneyVars
    BY <1>2 DEF CreateReverseShipment
  <2>n. booking[r].awb = NoAwb
    BY <1>t, <2>1 DEF PickupSound
  <2>2. PICK step \in {"fail", "book"}, awb \in Awbs \cup {NoAwb} :
            /\ BookingWritten(r, step, awb) /\ CourierForward
            /\ awb # NoAwb => Known(awb)' /\ sent'[awb] = pickups[r].to
    <3>1. CASE booking' = [booking EXCEPT ![r].step = "fail"] /\ UNCHANGED <<courier, sent>>
      BY <1>c, <2>n, <1>t, <3>1, Statuses, StepWritten DEF BookingRow
    <3>2. CASE booking' = [booking EXCEPT ![r].step = "book"] /\ UNCHANGED <<courier, sent>>
      BY <1>c, <2>n, <1>t, <3>2, Statuses, StepWritten DEF BookingRow
    <3>3. ASSUME NEW a \in Awbs, courier[a] = "none", courier' = [courier EXCEPT ![a] = "booked"],
                 sent' = [sent EXCEPT ![a] = pickups[r].to],
                 booking' \in {[booking EXCEPT ![r].step = "fail"], [booking EXCEPT ![r] = [step |-> "book", awb |-> a]]}
          PROVE \E step \in {"fail", "book"}, awb \in Awbs \cup {NoAwb} :
                    /\ BookingWritten(r, step, awb) /\ CourierForward
                    /\ awb # NoAwb => Known(awb)' /\ sent'[awb] = pickups[r].to
      <4>1. CourierForward /\ Known(a)' /\ sent'[a] = pickups[r].to
        BY <1>t, <3>3 DEF CourierForward, MovesOn, Known, Waiting, Scans, PickupRow
      <4>2. CASE booking' = [booking EXCEPT ![r].step = "fail"]
        BY <1>t, <2>n, <4>1, <4>2, Statuses, StepWritten DEF BookingRow
      <4>3. CASE booking' = [booking EXCEPT ![r] = [step |-> "book", awb |-> a]]
        BY <1>t, <4>1, <4>3, Statuses, JobWritten
      <4> QED
        BY <3>3, <4>2, <4>3
    <3> QED
      BY <1>2, <3>1, <3>2, <3>3 DEF CreateReverseShipment
  <2>3. \A a \in Awbs : MovesOn(a)
    BY <2>2 DEF CourierForward
  <2>4. PickupSound(r)'
    BY <1>t, <2>1, <2>2, <2>3 DEF PickupSound, MovesOn, Known, Waiting, BookingWritten, PickupRow
  <2> QED
    BY <1>a, <1>t, <2>1, <2>2, <2>4, BookingStep DEF BookingWritten
<1>3. CASE MarkFailure(r)
  <2>1. /\ booking[r].step = "fail" /\ booking' = Unbook(r)
        /\ UNCHANGED <<line, window, returns, courier, cancelling, scan, sent, overtaken>> /\ UNCHANGED moneyVars
    BY <1>3 DEF MarkFailure
  <2>2. BookingWritten(r, "none", NoAwb)
    BY <1>t, <2>1, Unbooked
  <2>3. PICK row \in PickupRow : /\ row.status = "failed" /\ row.provider_status = "error" /\ row.awb = pickups[r].awb
                                 /\ pickups' = [pickups EXCEPT ![r] = row]
    <3>1. PICK before \in PickupRow : before = pickups[r]
      BY <1>t
    <3>2. PICK first : first = [before EXCEPT !.status = "failed"]
      OBVIOUS
    <3>3. PICK second : second = [first EXCEPT !.provider_status = "error"]
      OBVIOUS
    <3>4. PICK row : row = [second EXCEPT !.intent = FALSE]
      OBVIOUS
    <3>5. first \in PickupRow /\ first.status = "failed" /\ first.awb = before.awb
      BY <3>2, Statuses DEF PickupRow
    <3>6. second \in PickupRow /\ second.status = "failed" /\ second.awb = before.awb /\ second.provider_status = "error"
      BY <3>3, <3>5 DEF PickupRow
    <3>7. row \in PickupRow /\ row.status = "failed" /\ row.awb = before.awb /\ row.provider_status = "error"
      BY <3>4, <3>6 DEF PickupRow
    <3>8. pickups' = [pickups EXCEPT ![r] = row]
      BY <1>3, <1>t, <3>1, <3>2, <3>3, <3>4 DEF MarkFailure
    <3> QED
      BY <3>1, <3>7, <3>8
  <2>4. /\ pickups' \in [Returns -> PickupRow] /\ pickups'[r] = row
        /\ \A x \in Returns \ {r} : pickups'[x] = pickups[x]
    BY <1>t, <2>3
  <2>5. PickupSound(r)'
    BY <1>t, <2>1, <2>2, <2>3, <2>4 DEF PickupSound, Known, BookingWritten
  <2> QED
    BY <1>a, <1>c, <1>t, <2>1, <2>2, <2>4, <2>5, BookingStep DEF BookingWritten
<1>4. CASE RecordBooking(r)
  <2>1. /\ booking[r].step = "book"
        /\ UNCHANGED <<line, window, returns, courier, cancelling, scan, sent, overtaken>> /\ UNCHANGED moneyVars
    BY <1>4 DEF RecordBooking
  <2>2. PICK a \in Awbs \cup {NoAwb} : a = booking[r].awb
    BY <1>t DEF BookingRow
  <2>3. CASE pickups[r].awb # NoAwb
    <3>1. pickups' = pickups /\ booking' = Unbook(r)
      BY <1>4, <2>3 DEF RecordBooking
    <3>2. BookingWritten(r, "none", NoAwb)
      BY <1>t, <3>1, Unbooked
    <3>3. PickupSound(r)'
      BY <1>t, <2>1, <2>3, <3>1, <3>2 DEF PickupSound, Known, BookingWritten
    <3> QED
      BY <1>c, <1>t, <1>w, <2>1, <2>3, <3>1, <3>2, <3>3, BookingStep DEF BookingWritten
  <2>4. CASE pickups[r].awb = NoAwb
    <3>1. PICK status \in {"failed", "approved"} :
             /\ status = IF a = NoAwb \/ returns[r].status = "cancelled" THEN "failed" ELSE "approved"
      OBVIOUS
    <3>2. PICK provider \in {"error", "accepted"} :
             provider = IF a = NoAwb \/ returns[r].status = "cancelled" THEN "error" ELSE "accepted"
      OBVIOUS
    <3>3. PICK row \in PickupRow : /\ row.status = status /\ row.provider_status = provider /\ row.awb = a
                                   /\ row.to = pickups[r].to /\ pickups' = [pickups EXCEPT ![r] = row]
      <4>1. PICK before \in PickupRow : before = pickups[r]
        BY <1>t
      <4>2. PICK first : first = [before EXCEPT !.awb = a]
        OBVIOUS
      <4>3. PICK second : second = [first EXCEPT !.status = status]
        OBVIOUS
      <4>4. PICK row : row = [second EXCEPT !.provider_status = provider]
        OBVIOUS
      <4>5. first \in PickupRow /\ first.awb = a /\ first.to = before.to
        BY <4>2 DEF PickupRow
      <4>6. second \in PickupRow /\ second.awb = a /\ second.to = before.to /\ second.status = status
        BY <4>3, <4>5, Statuses DEF PickupRow
      <4>7. row \in PickupRow /\ row.awb = a /\ row.to = before.to /\ row.status = status /\ row.provider_status = provider
        BY <4>4, <4>6, Statuses DEF PickupRow, ProviderStatus
      <4>8. pickups' = [pickups EXCEPT ![r].awb = a, ![r].status = status, ![r].provider_status = provider]
        <5>1. CASE a = NoAwb
          BY <1>4, <2>2, <2>4, <3>1, <3>2, <5>1 DEF RecordBooking
        <5>2. CASE a # NoAwb /\ returns[r].status = "cancelled"
          BY <1>4, <2>2, <2>4, <3>1, <3>2, <5>2 DEF RecordBooking, BookedStatus
        <5>3. CASE a # NoAwb /\ returns[r].status # "cancelled"
          BY <1>4, <2>2, <2>4, <3>1, <3>2, <5>3 DEF RecordBooking, BookedStatus
        <5> QED
          BY <5>1, <5>2, <5>3
      <4>9. pickups' = [pickups EXCEPT ![r] = row]
        BY <1>t, <4>1, <4>2, <4>3, <4>4, <4>8
      <4> QED
        BY <4>1, <4>7, <4>9
    <3>4. /\ pickups' \in [Returns -> PickupRow] /\ pickups'[r] = row
          /\ \A x \in Returns \ {r} : pickups'[x] = pickups[x]
      BY <1>t, <3>3
    <3>5. \/ BookingWritten(r, "none", NoAwb)
          \/ a # NoAwb /\ returns[r].status = "cancelled" /\ BookingWritten(r, "late", a)
      <4>1. CASE a # NoAwb /\ returns[r].status = "cancelled"
        <5>1. booking' = [booking EXCEPT ![r].step = "late"]
          BY <1>4, <2>2, <2>4, <4>1 DEF RecordBooking
        <5> QED
          BY <1>t, <2>2, <4>1, <5>1, Statuses, StepWritten
      <4>2. CASE ~(a # NoAwb /\ returns[r].status = "cancelled")
        <5>1. booking' = Unbook(r)
          BY <1>4, <2>2, <2>4, <4>2 DEF RecordBooking
        <5> QED
          BY <1>t, <5>1, Unbooked
      <4> QED
        BY <4>1, <4>2
    <3>6. /\ scan[r] = "none"
          /\ returns[r].status # "cancelled" => pickups[r].to = returns[r].address
          /\ a # NoAwb => Known(a) /\ sent[a] = pickups[r].to
      BY <1>t, <2>1, <2>2, <2>4 DEF PickupSound
    <3>7. PickupSound(r)'
      BY <2>1, <3>1, <3>2, <3>3, <3>4, <3>5, <3>6 DEF PickupSound, Known, BookingWritten
    <3>8. booking' \in [Returns -> BookingRow] /\ \A x \in Returns \ {r} : booking'[x] = booking[x]
      BY <3>5 DEF BookingWritten
    <3> QED
      BY <1>a, <1>c, <1>t, <2>1, <3>4, <3>7, <3>8, BookingStep
  <2> QED
    BY <2>3, <2>4
<1>5. CASE CancelLateBooking(r)
  <2>1. /\ booking[r].step = "late"
        /\ UNCHANGED <<line, window, returns, pickups, cancelling, scan, sent, overtaken>> /\ UNCHANGED moneyVars
    BY <1>5 DEF CancelLateBooking
  <2>2. PICK a \in Awbs : a = booking[r].awb
    BY <1>t, <2>1 DEF BookingRow, PickupSound
  <2>3. PICK step \in {"fail", "mark"} :
           BookingWritten(r, step, a) /\ CourierForward /\ (step = "mark" => courier'[a] = "cancelled")
    <3>1. CASE UNCHANGED courier /\ booking' = [booking EXCEPT ![r].step = "fail"]
      BY <1>c, <1>t, <2>1, <2>2, <3>1, Statuses, StepWritten
    <3>2. CASE courier' = CancelledAt(a) /\ booking' = [booking EXCEPT ![r].step = "fail"]
      BY <1>t, <2>1, <2>2, <3>2, Statuses, StepWritten, CourierCancels
    <3>3. CASE courier' = CancelledAt(a) /\ booking' = [booking EXCEPT ![r].step = "mark"]
      BY <1>t, <2>1, <2>2, <3>3, Statuses, StepWritten, CourierCancels
    <3> QED
      BY <1>5, <2>2, <3>1, <3>2, <3>3 DEF CancelLateBooking
  <2>4. \A b \in Awbs : MovesOn(b)
    BY <2>3 DEF CourierForward
  <2>5. PickupSound(r)'
    BY <1>t, <2>1, <2>2, <2>3, <2>4 DEF PickupSound, MovesOn, Known, Waiting, BookingWritten, PickupRow
  <2> QED
    BY <1>a, <1>t, <2>1, <2>3, <2>5, BookingStep DEF BookingWritten
<1>6. CASE MarkLateCancelled(r)
  <2>1. /\ booking[r].step = "mark" /\ SavePickup(r, "cancelled", "cancelled") /\ booking' = Unbook(r)
        /\ UNCHANGED <<line, window, returns, courier, cancelling, scan, sent, overtaken>> /\ UNCHANGED moneyVars
    BY <1>6 DEF MarkLateCancelled
  <2>2. BookingWritten(r, "none", NoAwb)
    BY <1>t, <2>1, Unbooked
  <2>3. PickupsWritten(r, "cancelled", "cancelled")
    BY <1>t, <2>1, Statuses, PickupSaved
  <2>4. PickupSound(r)'
    BY <1>t, <2>1, <2>2, <2>3 DEF PickupSound, Known, BookingWritten, PickupsWritten
  <2> QED
    BY <1>a, <1>c, <1>t, <2>1, <2>2, <2>3, <2>4, BookingStep DEF BookingWritten, PickupsWritten
<1>7. CASE BookingDies(r)
  <2>1. /\ booking[r].step # "none" /\ booking' = Unbook(r)
        /\ UNCHANGED <<line, window, returns, pickups, courier, cancelling, scan, sent, overtaken>> /\ UNCHANGED moneyVars
    BY <1>7 DEF BookingDies
  <2>2. BookingWritten(r, "none", NoAwb)
    BY <1>t, <2>1, Unbooked
  <2>3. PickupSound(r)'
    BY <1>t, <2>1, <2>2 DEF PickupSound, Known, BookingWritten
  <2> QED
    BY <1>a, <1>c, <1>t, <2>1, <2>2, <2>3, BookingStep DEF BookingWritten
<1>8. CASE Track(r)
  <2>1. /\ pickups[r].awb # NoAwb /\ scan[r] = "none" /\ scan' = [scan EXCEPT ![r] = courier[pickups[r].awb]]
        /\ UNCHANGED <<line, window, returns, pickups, courier, booking, cancelling, sent, overtaken>> /\ UNCHANGED moneyVars
    BY <1>8 DEF Track
  <2>2. courier[pickups[r].awb] \in Scans \cup {"none"}
    BY <1>t, <2>1 DEF PickupRow
  <2>3. /\ scan' \in [Returns -> Scans \cup {"none"}] /\ scan'[r] = courier[pickups[r].awb]
        /\ \A x \in Returns \ {r} : scan'[x] = scan[x]
    BY <1>t, <2>1, <2>2
  <2>4. PickupSound(r)'
    BY <1>t, <2>1, <2>3 DEF PickupSound, Known
  <2> QED
    BY <1>c, <1>t, <1>w, <2>1, <2>3, <2>4, BookingStep
<1>9. CASE Ingest(r)
  <2>1. PICK provider \in Scans : provider = scan[r]
    BY <1>9, <1>t DEF Ingest
  <2>2. PICK next : next = Normalized[provider]
    OBVIOUS
  <2>3. /\ next \in {"pickup_scheduled", "picked_up", "delivered", "cancelled", "failed"}
        /\ next = "cancelled" <=> provider = "cancelled"
        /\ next = "failed" => provider # "booked"
        /\ next = "pickup_scheduled" => provider = "booked"
    BY <2>2 DEF Normalized, Scans
  <2>4. PICK status : status = IF CanAdvance(pickups[r].status, next) THEN next ELSE pickups[r].status
    OBVIOUS
  <2>5. /\ SavePickup(r, status, provider) /\ scan' = [scan EXCEPT ![r] = "none"]
        /\ UNCHANGED <<line, window, returns, courier, booking, cancelling, sent, overtaken>> /\ UNCHANGED moneyVars
    BY <1>9, <2>1, <2>2, <2>4 DEF Ingest
  <2>6. pickups[r].status \in ReturnShipmentStatus /\ pickups[r].status # "absent" /\ pickups[r].awb # NoAwb
    BY <1>9, <1>t DEF PickupRow, PickupSound, Ingest
  <2>7. /\ status \in ReturnShipmentStatus /\ status # "absent"
        /\ status = "cancelled" => pickups[r].status = "cancelled" \/ provider = "cancelled"
        /\ pickups[r].status \in Terminal => status = pickups[r].status
        /\ status \in {"pending", "approved", "pickup_scheduled"} =>
               pickups[r].status \in {"pending", "approved", "pickup_scheduled"}
        /\ status = "failed" => pickups[r].status = "failed" \/ provider # "booked"
        /\ status = "pending" => pickups[r].status = "pending"
        /\ status \in {"approved", "pickup_scheduled"} =>
               \/ pickups[r].status \in {"approved", "pickup_scheduled"}
               \/ pickups[r].status = "pending" /\ provider = "booked"
    BY <2>3, <2>4, <2>6 DEF CanAdvance, Terminal, Rank, ReturnShipmentStatus
  <2>8. PickupsWritten(r, status, provider)
    BY <1>t, <2>5, <2>7, Statuses, PickupSaved
  <2>a. PICK a \in Awbs : a = pickups[r].awb
    BY <1>t, <2>6 DEF PickupRow
  <2>p. /\ \/ courier[a] # "booked" \/ returns[r].status = "cancelled"
           \/ status \notin {"failed", "pending"} /\ booking[r].step = "none"
        /\ status \in {"approved", "pickup_scheduled"} /\ courier[a] \in Waiting => sent[a] = pickups[r].to
    BY <1>t, <2>1, <2>6, <2>7, <2>a DEF PickupSound, Scans
  <2>9. PickupSound(r)'
    BY <1>t, <2>1, <2>5, <2>6, <2>7, <2>8, <2>a, <2>p DEF PickupSound, Known, PickupsWritten, Terminal
  <2> QED
    BY <1>c, <1>t, <2>5, <2>6, <2>8, <2>9, BookingStep DEF PickupsWritten
<1> QED
  BY <1>1, <1>2, <1>3, <1>4, <1>5, <1>6, <1>7, <1>8, <1>9 DEF CourierSteps, SyncTracks, RefreshTracks

LEMMA CancelStepsStep ==
    ASSUME Inv, NEW r \in Returns, CancelSteps(r)
    PROVE  Inv'
<1>t. /\ TypeOK /\ PickupSound(r) /\ SettledSound(r) /\ pickups[r] \in PickupRow
      /\ pickups \in [Returns -> PickupRow] /\ cancelling \in [Returns -> {"none", "fresh", "existing"}]
      /\ courier \in [Awbs -> Scans \cup {"none"}] /\ sent \in [Awbs -> 0..1] /\ returns \in [Returns -> ReturnRow]
    BY DEF Inv, PickupInv, SettledInv, TypeOK
<1>c. UNCHANGED <<courier, sent>> => CourierForward
    BY <1>t DEF CourierForward, MovesOn
<1>r. UNCHANGED refunds => ActiveRefunds(r)' = ActiveRefunds(r)
    BY DEF ActiveRefunds
<1>h. "cancelled" \notin QuantityHolding /\ "cancelled" \in ReturnStatus
    BY Statuses DEF QuantityHolding
<1>1. CASE CancelLocally(r)
  <2>1. /\ returns' = [returns EXCEPT ![r].status = "cancelled"]
        /\ UNCHANGED <<line, window, courier, booking, cancelling, scan, sent, overtaken>> /\ UNCHANGED moneyVars
        /\ returns[r].status \in {"requested", "approved"} /\ ActiveRefunds(r) = {} /\ replaced[r] = "none"
    BY <1>1 DEF CancelLocally, SetCancelled, NotBlocked
  <2>2. ReturnsWritten(r, "cancelled")
    BY <1>h, <1>t, <2>1, ReturnStatusWritten
  <2>3. PICK status \in ReturnShipmentStatus, provider \in ProviderStatus :
            /\ PickupsWritten(r, status, provider)
            /\ status \in {"absent", "failed", "cancelled"}
            /\ status = "absent" => pickups[r].status = "absent"
            /\ provider = "cancelled" => pickups[r].provider_status = "cancelled"
            /\ status = "cancelled" => pickups[r].status = "cancelled" \/ pickups[r].provider_status = "cancelled"
    <3>1. CASE pickups[r].status = "absent" /\ UNCHANGED pickups
      BY <1>t, <3>1 DEF PickupsWritten, PickupRow, ProviderStatus
    <3>2. CASE pickups[r].status = "pending" /\ SavePickup(r, "failed", "error")
      BY <1>t, <3>2, Statuses, PickupSaved
    <3>3. CASE pickups[r].provider_status = "cancelled" /\ SavePickup(r, "cancelled", "cancelled")
      BY <1>t, <3>3, Statuses, PickupSaved
    <3>4. CASE pickups[r].status = "failed" /\ UNCHANGED pickups
      BY <1>t, <3>4 DEF PickupsWritten, PickupRow, ProviderStatus
    <3>5. CASE pickups[r].status = "cancelled" /\ UNCHANGED pickups
      BY <1>t, <3>5 DEF PickupsWritten, PickupRow, ProviderStatus
    <3> QED
      BY <1>1, <3>1, <3>2, <3>3, <3>4, <3>5 DEF CancelLocally
  <2>4. TypeOK'
    BY <1>t, <2>1, <2>2, <2>3 DEF TypeOK, moneyVars, ReturnsWritten, PickupsWritten
  <2>5. PickupInv'
    <3>1. PickupSound(r)'
      BY <1>t, <2>1, <2>2, <2>3 DEF PickupSound, Known, ReturnsWritten, PickupsWritten
    <3> QED
      BY <1>c, <2>1, <2>2, <2>3, <3>1, PickupStep DEF Inv, ReturnsWritten, PickupsWritten
  <2>6. SettledSound(r)'
    BY <1>r, <1>t, <2>1, <2>2, <2>3 DEF SettledSound, Unreviewed, ReturnsWritten, PickupsWritten, moneyVars
  <2> QED
    BY <1>h, <2>1, <2>2, <2>3, <2>4, <2>5, <2>6, ReturnStep DEF PickupsWritten, moneyVars
<1>2. CASE RecordIntent(r)
  <2>1. /\ returns[r].status \in {"requested", "approved"} /\ replaced[r] = "none" /\ pickups[r].status # "absent"
        /\ pickups' = [pickups EXCEPT ![r].intent = TRUE]
        /\ UNCHANGED <<line, window, returns, courier, booking, scan, sent, overtaken>> /\ UNCHANGED moneyVars
    BY <1>2 DEF RecordIntent, NotBlocked
  <2>2. PICK intent \in {"fresh", "existing"} : cancelling' = [cancelling EXCEPT ![r] = intent]
    BY <1>2 DEF RecordIntent
  <2>3. /\ cancelling' \in [Returns -> {"none", "fresh", "existing"}]
        /\ \A x \in Returns \ {r} : cancelling'[x] = cancelling[x]
    BY <1>t, <2>2
  <2>4. PickupsWritten(r, pickups[r].status, pickups[r].provider_status)
    <3>1. PICK before \in PickupRow : before = pickups[r]
      BY <1>t
    <3>2. PICK row : row = [before EXCEPT !.intent = TRUE]
      OBVIOUS
    <3>3. /\ row \in PickupRow /\ row.status = before.status /\ row.provider_status = before.provider_status
          /\ row.awb = before.awb /\ row.to = before.to
      BY <3>2 DEF PickupRow
    <3>4. pickups' = [pickups EXCEPT ![r] = row]
      BY <2>1, <3>1, <3>2
    <3> QED
      BY <1>t, <3>1, <3>3, <3>4 DEF PickupsWritten
  <2>5. ReturnsWritten(r, returns[r].status)
    BY <1>t, <2>1 DEF ReturnsWritten
  <2>6. TypeOK'
    BY <1>t, <2>1, <2>3, <2>4 DEF TypeOK, moneyVars, PickupsWritten
  <2>7. PickupInv'
    <3>1. PickupSound(r)'
      BY <1>t, <2>1, <2>4 DEF PickupSound, Known, PickupsWritten
    <3> QED
      BY <1>c, <2>1, <2>4, <3>1, PickupStep DEF Inv, PickupsWritten
  <2>8. SettledSound(r)'
    BY <1>r, <1>t, <2>1, <2>4 DEF SettledSound, Unreviewed, PickupsWritten, moneyVars
  <2> QED
    BY <2>1, <2>3, <2>4, <2>5, <2>6, <2>7, <2>8, ReturnStep DEF PickupsWritten, moneyVars
<1>3. CASE CancelAtProvider(r) \/ ReconcileCancellation(r)
  <2>1. /\ cancelling[r] # "none" /\ returns[r].status # "cancelled"
        /\ SavePickup(r, "cancelled", "cancelled")
        /\ returns' = [returns EXCEPT ![r].status = "cancelled"]
        /\ overtaken' = overtaken \cup (IF ActiveRefunds(r) = {} THEN {} ELSE {r})
        /\ cancelling' = [cancelling EXCEPT ![r] = "none"]
        /\ UNCHANGED <<line, window, booking, scan, sent>> /\ UNCHANGED moneyVars
    BY <1>3 DEF CancelAtProvider, ReconcileCancellation, Confirmed, SetCancelled, EndCancelling
  <2>2. PICK a \in Awbs \cup {NoAwb} : a = pickups[r].awb
    BY <1>t DEF PickupRow
  <2>3. CourierForward /\ (a \in Awbs => courier'[a] = "cancelled")
    <3>1. CASE courier' = CancelledAt(a)
      BY <1>t, <2>1, <3>1, CourierCancels
    <3>2. CASE courier' = courier /\ courier[a] = "cancelled"
      BY <1>c, <2>1, <3>2
    <3> QED
      BY <1>3, <2>2, <3>1, <3>2 DEF CancelAtProvider, ReconcileCancellation, Cancellable, Reconciled
  <2>4. ReturnsWritten(r, "cancelled")
    BY <1>h, <1>t, <2>1, ReturnStatusWritten
  <2>5. PickupsWritten(r, "cancelled", "cancelled")
    BY <1>t, <2>1, Statuses, PickupSaved
  <2>6. /\ cancelling' \in [Returns -> {"none", "fresh", "existing"}] /\ cancelling'[r] = "none"
        /\ \A x \in Returns \ {r} : cancelling'[x] = cancelling[x]
    BY <1>t, <2>1
  <2>7. /\ overtaken \subseteq overtaken' /\ overtaken' \subseteq Returns
        /\ ActiveRefunds(r) = {} \/ r \in overtaken'
    BY <1>t, <2>1 DEF TypeOK
  <2>8. TypeOK'
    BY <1>t, <2>1, <2>3, <2>4, <2>5, <2>6, <2>7 DEF TypeOK, moneyVars, ReturnsWritten, PickupsWritten, CourierForward
  <2>9. PickupInv'
    <3>1. \A b \in Awbs : MovesOn(b)
      BY <2>3 DEF CourierForward
    <3>2. booking[r].awb \in Awbs \cup {NoAwb}
      BY <1>t DEF TypeOK
    <3>3. PickupSound(r)'
      BY <1>t, <2>1, <2>2, <2>3, <2>4, <2>5, <3>1, <3>2 DEF PickupSound, MovesOn, Known, Waiting, ReturnsWritten, PickupsWritten
    <3> QED
      BY <2>1, <2>3, <2>4, <2>5, <3>3, PickupStep DEF Inv, ReturnsWritten, PickupsWritten
  <2>10. SettledSound(r)'
    BY <1>r, <1>t, <2>1, <2>4, <2>5, <2>6, <2>7 DEF SettledSound, Unreviewed, ReturnsWritten, PickupsWritten, moneyVars
  <2> QED
    BY <1>h, <2>1, <2>4, <2>5, <2>6, <2>7, <2>8, <2>9, <2>10, ReturnStep DEF PickupsWritten, moneyVars
<1>4. CASE CancellationEnds(r)
  <2>1. /\ cancelling' = [cancelling EXCEPT ![r] = "none"]
        /\ UNCHANGED <<line, window, returns, pickups, booking, scan, sent, overtaken>> /\ UNCHANGED moneyVars
    BY <1>4 DEF CancellationEnds, EndCancelling
  <2>2. CourierForward
    BY <1>4, <1>c, <1>t, CourierCancels DEF CancellationEnds
  <2>3. /\ cancelling' \in [Returns -> {"none", "fresh", "existing"}] /\ cancelling'[r] = "none"
        /\ \A x \in Returns \ {r} : cancelling'[x] = cancelling[x]
    BY <1>t, <2>1
  <2>4. TypeOK'
    BY <1>t, <2>1, <2>2, <2>3 DEF TypeOK, moneyVars, CourierForward
  <2>5. PickupInv'
    BY <2>1, <2>2, PickupsUntouched DEF Inv
  <2>6. SettledSound(r)'
    BY <1>r, <1>t, <2>1, <2>3 DEF SettledSound, moneyVars
  <2>7. ReturnsWritten(r, returns[r].status)
    BY <1>t, <2>1 DEF ReturnsWritten
  <2> QED
    BY <2>1, <2>3, <2>4, <2>5, <2>6, <2>7, ReturnStep DEF moneyVars
<1> QED
    BY <1>1, <1>2, <1>3, <1>4 DEF CancelSteps

LEMMA StepInv == Inv /\ [Next]_vars => Inv'
<1> SUFFICES ASSUME Inv, [Next]_vars PROVE Inv'
    OBVIOUS
<1>0. line.returns \subseteq Returns /\ line.awbs \subseteq Awbs /\ line.refunds \subseteq Refunds
    BY LineType DEF Inv, TypeOK
<1>1. CASE WindowCloses \/ Restock \/ (\E a \in line.awbs : CourierMoves(a)) \/ UNCHANGED vars
    BY <1>0, <1>1, WorldSteps
<1>2. ASSUME NEW r \in Returns, RequestSteps(r) PROVE Inv'
    BY <1>0, <1>2, CreateReturnStep, ReviewSteps, AddressStep, InitiateRefundStep DEF RequestSteps
<1>3. ASSUME NEW r \in Returns, CourierSteps(r) PROVE Inv'
    BY <1>0, <1>3, CourierStepsStep
<1>4. ASSUME NEW r \in Returns, CancelSteps(r) PROVE Inv'
    BY <1>4, CancelStepsStep
<1>5. ASSUME NEW f \in Refunds, RefundQueued(f) \/ RefundFails(f) \/ RefundSucceeds(f) PROVE Inv'
    BY <1>5, RefundQueuedFailsStep, RefundSucceedsStep
<1> QED
    BY <1>0, <1>1, <1>2, <1>3, <1>4, <1>5 DEF Next

LEMMA Always == Spec => []Inv
<1> QED
    BY InitInv, StepInv, PTL DEF Spec

-----------------------------------------------------------------------------
(* What the invariant says                                                   *)

\* A return that a refund or a replacement settles holds its units, unless it was
\* cancelled over an active refund.
LEMMA SettledHolds ==
    ASSUME Inv, overtaken = {}, NEW r \in Returns,
           ActiveRefunds(r) # {} \/ replaced[r] \in {"processing", "completed"}
    PROVE  r \in Holding
<1>1. SettledSound(r) /\ returns[r].status \in ReturnStatus
    BY DEF Inv, SettledInv, TypeOK, ReturnRow
<1> QED
    BY <1>1 DEF SettledSound, Unreviewed, Holding, QuantityHolding, ReturnStatus

LEMMA SettledWithinLine == Inv => UnitsSettledOnce
<1> SUFFICES ASSUME Inv, overtaken = {}
             PROVE  MapThenSumSet(Quantity, {r \in Returns : ActiveRefunds(r) # {} \/ replaced[r] \in {"processing", "completed"}})
                        <= line.quantity
    BY DEF UnitsSettledOnce, Inv
<1>1. PICK settled \in SUBSET Returns :
            settled = {r \in Returns : ActiveRefunds(r) # {} \/ replaced[r] \in {"processing", "completed"}}
    OBVIOUS
<1>2. PICK holding \in SUBSET Returns : holding = Holding
    BY DEF Holding
<1>3. settled \subseteq holding
    BY <1>1, <1>2, SettledHolds
<1>4. MapThenSumSet(Quantity, settled) = Total(Quantities, settled) /\ Consumed = Total(Quantities, holding)
    BY <1>2, QuantitySum, ConsumedIs
<1>5. \A r \in Returns : Quantities[r] \in Nat
    BY DEF Inv, TypeOK, ReturnRow, Quantities
<1>6. IsFiniteSet(holding) /\ Total(Quantities, settled) \in Int /\ Total(Quantities, holding) \in Int
    BY SumTypes DEF Inv
<1>7. Total(Quantities, settled) <= Total(Quantities, holding)
    BY <1>3, <1>5, <1>6, TotalMonotone
<1>8. Consumed <= line.quantity /\ line.quantity \in Int
    BY LineType DEF Inv, UnitsInv, TypeOK
<1> QED
    BY <1>1, <1>4, <1>6, <1>7, <1>8

\* The units whose refund succeeded, each counted at its return.
RefundedUnits == [f \in Refunds |-> returns[refunds[f].of].quantity]

LEMMA RefundedUnitsFit ==
    ASSUME Inv, overtaken = {}
    PROVE  Total(RefundedUnits, Succeeded) <= line.quantity /\ Total(RefundedUnits, Succeeded) \in Int
<1>1. PICK of : of = [f \in Refunds |-> refunds[f].of]
    OBVIOUS
<1>2. PICK done \in SUBSET Refunds, holding \in SUBSET Returns : done = Succeeded /\ holding = Holding
    BY DEF Succeeded, Holding
<1>3. ASSUME NEW f \in done PROVE f \in Refunds /\ of[f] \in Returns /\ f \in ActiveRefunds(of[f])
    BY <1>1, <1>2 DEF Succeeded, ActiveRefunds, ActiveRefund, Inv, TypeOK, RefundRow
<1>4. \A f \in done : of[f] \in holding
    BY <1>2, <1>3, SettledHolds
<1>5. \A f, g \in done : of[f] = of[g] => f = g
  <2>1. \A r \in Returns : \A f, g \in ActiveRefunds(r) : f = g
    BY DEF Inv, SettledInv, SettledSound
  <2> QED
    BY <1>3, <2>1
<1>6. \A f \in done : RefundedUnits[f] = Quantities[of[f]]
    BY <1>1, <1>3 DEF RefundedUnits, Quantities
<1>7. \A r \in holding : Quantities[r] \in Nat
    BY DEF Inv, TypeOK, ReturnRow, Quantities
<1>8. IsFiniteSet(done) /\ IsFiniteSet(holding) /\ Total(Quantities, holding) \in Int
    BY SumTypes DEF Inv
<1>9. Total(RefundedUnits, done) <= Total(Quantities, holding)
    BY <1>4, <1>5, <1>6, <1>7, <1>8, TotalImage
<1>10. Total(RefundedUnits, done) \in Int
  <2>1. \A f \in done : RefundedUnits[f] \in Int
    BY <1>4, <1>6, <1>7
  <2> QED
    BY <1>8, <2>1, TotalType
<1>11. Total(Quantities, holding) = Consumed /\ Consumed <= line.quantity /\ line.quantity \in Int
    BY <1>2, ConsumedIs, LineType DEF Inv, UnitsInv, TypeOK
<1> QED
    BY <1>2, <1>8, <1>9, <1>10, <1>11

LEMMA Bounded ==
    ASSUME NEW units \in Nat \ {0}, NEW captured \in Nat \ {0}, NEW sum \in Int, NEW part \in Int, NEW n \in Nat,
           part <= units, sum * units <= part * captured + n * (2 * units)
    PROVE  sum <= captured + 2 * n
<1>1. part * captured <= units * captured
    BY Scale
<1>2. PICK a \in Int, b \in Int, c \in Int, d \in Int :
            a = sum * units /\ b = part * captured /\ c = units * captured /\ d = n * (2 * units)
    OBVIOUS
<1>3. (captured + 2 * n) * units = c + d
    BY <1>2
<1>4. sum * units <= (captured + 2 * n) * units
    BY <1>1, <1>2, <1>3
<1>5. PICK bound \in Int : bound = captured + 2 * n
    OBVIOUS
<1>6. sum * units <= bound * units
    BY <1>4, <1>5
<1>7. sum <= bound
    BY <1>6, Scale
<1> QED
    BY <1>5, <1>7

LEMMA RefundedFits ==
    ASSUME Inv, overtaken = {}
    PROVE  Refunded <= Captured + 2 * Cardinality(Succeeded)
<1>1. PICK done \in SUBSET Refunds : done = Succeeded
    BY DEF Succeeded
<1>2. PICK units \in Nat \ {0}, captured \in Nat \ {0} : units = line.quantity /\ captured = Captured
    BY LineType, CapturedType DEF Inv, TypeOK
<1>3. PICK slack \in Nat : slack = 2 * units
    OBVIOUS
<1>4. ASSUME NEW f \in done
      PROVE  /\ Amounts[f] \in Int /\ RefundedUnits[f] \in Int
             /\ Amounts[f] * units <= RefundedUnits[f] * captured + slack
  <2>1. PICK r \in Returns : r = refunds[f].of
    BY DEF Inv, TypeOK, RefundRow
  <2>2. returns[r].quantity \in Nat /\ refunds[f].status # "absent"
    BY <1>1 DEF Inv, TypeOK, ReturnRow, Succeeded
  <2>3. refunds[f].amount = RefundAmount(r)
    BY <2>1, <2>2 DEF Inv, MoneyInv, AmountSound
  <2>4. RefundAmount(r) \in Nat /\ RefundAmount(r) * line.quantity <= returns[r].quantity * Captured + 2 * line.quantity
    BY <2>2, RefundAmountFits DEF Inv, TypeOK
  <2>5. Amounts[f] = RefundAmount(r) /\ RefundedUnits[f] = returns[r].quantity
    BY <2>1, <2>3 DEF Amounts, RefundedUnits
  <2> QED
    BY <1>2, <1>3, <2>2, <2>4, <2>5
<1>5. PICK sum \in Int, part \in Int, n \in Nat :
          sum = Total(Amounts, done) /\ part = Total(RefundedUnits, done) /\ n = Cardinality(done)
  <2>1. IsFiniteSet(done) /\ Total(Amounts, done) \in Int
    BY SumTypes DEF Inv
  <2>2. Total(RefundedUnits, done) \in Int
    BY <1>1, RefundedUnitsFit
  <2> QED
    BY <2>1, <2>2, FS_CardinalityType
<1>6. sum * units <= part * captured + n * slack
  <2>1. IsFiniteSet(done)
    BY SumTypes DEF Inv
  <2>2. Total(Amounts, done) * units <= Total(RefundedUnits, done) * captured + Cardinality(done) * slack
    <3>1. \A f \in done : Amounts[f] \in Int /\ RefundedUnits[f] \in Int
      BY <1>4
    <3>2. \A f \in done : Amounts[f] * units <= RefundedUnits[f] * captured + slack
      BY <1>4, Zenon
    <3>3. units \in Nat /\ captured \in Int
      OBVIOUS
    <3> QED
      BY <2>1, <3>1, <3>2, <3>3, TotalLinear, Zenon
  <2> QED
    BY <1>5, <2>2
<1>7. part <= units
    BY <1>1, <1>2, <1>5, RefundedUnitsFit
<1>8. sum * units <= part * captured + n * (2 * units)
    BY <1>3, <1>6
<1>9. sum <= captured + 2 * n
    BY <1>7, <1>8, Bounded
<1>10. Refunded = sum /\ Cardinality(Succeeded) = n
    BY <1>1, <1>5, RefundedIs
<1> QED
    BY <1>2, <1>9, <1>10

LEMMA PickupsSound == Inv => CancellationConfirmed /\ CancelledReturnHasNoPickup /\ PickupAtCurrentAddress
<1> SUFFICES ASSUME Inv PROVE CancellationConfirmed /\ CancelledReturnHasNoPickup /\ PickupAtCurrentAddress
    OBVIOUS
<1>1. \A r \in Returns : PickupSound(r)
    BY DEF Inv, PickupInv
<1>2. NoAwb \notin Awbs
    BY CasesAssumption
<1>3. PickupAtCurrentAddress
    BY <1>1, <1>2 DEF PickupSound, Waiting, Awaited, PickupAtCurrentAddress
<1> QED
    BY <1>1, <1>3 DEF PickupSound, CancellationConfirmed, CancelledReturnHasNoPickup

-----------------------------------------------------------------------------
(* The theorems                                                              *)

\* A unit is refunded or replaced once, over all the returns that were ever made of its
\* line, unless a cancellation overtook a refund: createReturn counts the units of the
\* open and the settled returns, and a return is settled once.
THEOREM UnitsSettledOnceAlways == Spec => []UnitsSettledOnce
<1> QED
    BY Always, SettledWithinLine, PTL

\* What is refunded stays within what was captured, up to the rounding of the shares of
\* the discounts, whatever the line and however it is returned in parts; and the payment
\* is refunded exactly when the refunds that succeeded add up to it (refund.service.ts).
THEOREM RefundsWithinCaptureAlways == Spec => []RefundsWithinCapture
<1>1. Inv => RefundsWithinCapture
    BY RefundedFits DEF Inv, MoneyInv, PaymentSound, RefundsWithinCapture
<1> QED
    BY <1>1, Always, PTL

\* A reverse pickup that the shop calls cancelled is cancelled at iThink, whether staff, a
\* tracking answer or a booking that came too late called it so.
THEOREM CancellationConfirmedAlways == Spec => []CancellationConfirmed
<1> QED
    BY Always, PickupsSound, PTL

\* A cancelled return has no pickup that the shop takes for live, in spite of a booking
\* that iThink answers after the cancellation: one booked too late is quarantined as failed.
THEOREM CancelledReturnHasNoPickupAlways == Spec => []CancelledReturnHasNoPickup
<1> QED
    BY Always, PickupsSound, PTL

\* A pickup that is being booked, is booked or is scheduled has the address of its return
\* as it is now, and the courier whose number the shop holds for it was sent there, however
\* edits, bookings, late answers and scans cross.  Of a courier whose pickup the shop takes
\* for failed, or books again, it says nothing: such a courier may go to an old address.
THEOREM PickupAtCurrentAddressAlways == Spec => []PickupAtCurrentAddress
<1> QED
    BY Always, PickupsSound, PTL

\* A return of a unit is settled by one refund or by one replacement, never by both and
\* never twice: at most one of its refunds is pending, processing or completed.
SettledOnce(r) ==
    /\ \A f, g \in ActiveRefunds(r) : f = g
    /\ ActiveRefunds(r) # {} => replaced[r] = "none"

THEOREM ReturnSettledOnce == Spec => [](\A r \in Returns : SettledOnce(r))
<1>1. Inv => \A r \in Returns : SettledOnce(r)
    BY DEF Inv, SettledInv, SettledSound, SettledOnce
<1> QED
    BY <1>1, Always, PTL
=============================================================================
