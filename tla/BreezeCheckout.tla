---------------------------- MODULE BreezeCheckout ----------------------------
(***************************************************************************)
(* Breeze one-click checkout: signed sessions, the Order Create webhook    *)
(* with its event rows, the reconciliation job and staff, and the guards   *)
(* that keep PayU and cash off a cart whose Breeze outcome is unknown.     *)
(*                                                                         *)
(* A webhook is handled in several transactions by a worker: a request or  *)
(* a run of the job.  Each step of a worker is one transaction; between    *)
(* two of them other workers run, or the worker dies.                      *)
(***************************************************************************)
EXTENDS Naturals

CONSTANTS
    Sessions,     \* ids IdSequenceService can hand out to checkout sessions
    Buyers,       \* customers and guests
    Carts,
    Events,       \* Breeze event ids
    Workers,      \* requests and job runs that handle an event, numbered
    Refs,         \* Breeze order or transaction ids
    CartOf,       \* session -> cart
    BuyerOf,      \* cart -> buyer
    Payloads,     \* functions event -> what its authenticated body says
    MaxAttempts   \* BREEZE_RECONCILE_MAX_ATTEMPTS

NoRef == "none"
Class == {"paid", "unpaid_pending", "partial", "failed", "refund", "unknown"}

ASSUME TopologyAssumption ==
    Sessions \subseteq Nat /\ CartOf \in [Sessions -> Carts] /\ BuyerOf \in [Carts -> Buyers]
ASSUME PayloadAssumption ==
    /\ NoRef \notin Refs
    /\ Payloads \subseteq [Events -> [session: Sessions, class: Class, cod: BOOLEAN, ref: Refs, verified: BOOLEAN]]
ASSUME AttemptsAssumption == MaxAttempts \in Nat \ {0} /\ Workers \subseteq Nat

VARIABLES
    Payload,   \* what Breeze's events say, chosen once
    sessions,  \* breeze_checkout_sessions
    orders,    \* the order, with its one payment, made for a session
    events,    \* breeze_webhook_events
    workers,   \* handlers between two of their transactions
    standard,  \* what PayU or cash has done with a cart: none, pending, bought
    made,      \* history: orders created for a session
    unblocked  \* history: sessions that once stopped blocking their buyer

vars == <<Payload, sessions, orders, events, workers, standard, made, unblocked>>

Processing == {"absent", "awaiting_webhook", "order_created", "finalized", "reconciliation_required", "failed", "released"}
Blocking == {"awaiting_webhook", "order_created", "reconciliation_required"}
EventStatus == {"received", "processed", "ignored", "reconciliation_required"}

SessionRow == [
    processing_status: Processing,
    order: BOOLEAN,
    breeze_order_id: Refs \cup {NoRef}]

OrderRow == [
    status: {"absent", "pending", "confirmed", "cancelled"},
    payment: {"pending", "paid", "failed"},
    provider: {"breeze", "cod"},
    exception: BOOLEAN]

EventRow == [status: EventStatus \cup {"absent"}, attempts: 0..MaxAttempts]

Steps == {"read", "refs", "park", "fail", "order", "settle", "mark", "finish"}
Job == [event: Events, step: Steps, loaded: EventStatus, order: BOOLEAN, outcome: EventStatus]
Idle == [step |-> "idle"]

Init ==
    /\ Payload \in Payloads
    /\ sessions = [s \in Sessions |-> [processing_status |-> "absent", order |-> FALSE, breeze_order_id |-> NoRef]]
    /\ orders = [s \in Sessions |-> [status |-> "absent", payment |-> "pending", provider |-> "breeze",
                                     exception |-> FALSE]]
    /\ events = [e \in Events |-> [status |-> "absent", attempts |-> 0]]
    /\ workers = [w \in Workers |-> Idle]
    /\ standard = [c \in Carts |-> "none"]
    /\ made = [s \in Sessions |-> 0]
    /\ unblocked = {}

Exists(s) == sessions[s].processing_status # "absent"
BlockingAttemptsWithResult(b) ==  \* mutant: an attempt without a webhook does not block
    {s \in Sessions : Exists(s) /\ BuyerOf[CartOf[s]] = b
                       /\ sessions[s].processing_status \in Blocking \ {"awaiting_webhook"}}
BlockingAttempts(b) ==
    {s \in Sessions : Exists(s) /\ BuyerOf[CartOf[s]] = b /\ sessions[s].processing_status \in Blocking}
UnresolvedForCartAwaiting(c) ==  \* mutant: a parked session counts as resolved
    {s \in Sessions : Exists(s) /\ CartOf[s] = c /\ sessions[s].processing_status = "awaiting_webhook"}
UnresolvedForCart(c) ==
    {s \in Sessions : Exists(s) /\ CartOf[s] = c /\ sessions[s].processing_status \in Blocking}

\* Every write of a processing status, with what the history remembers of it.
MarkSession(s, status) ==
    /\ sessions' = [sessions EXCEPT ![s].processing_status = status]
    /\ unblocked' = IF status \in Blocking THEN unblocked ELSE unblocked \cup {s}

-----------------------------------------------------------------------------
(* Starting a checkout, by Breeze or the standard way                      *)

\* The guards a starting transaction reads once lockCartForCheckout has given it the
\* row of the cart; no other start of the cart runs until it commits.
MayStartBreeze(c) == standard[c] = "none" /\ BlockingAttempts(BuyerOf[c]) = {}
MayStartStandard(c) == standard[c] = "none" /\ UnresolvedForCart(c) = {}

CreateSession(s) ==
    /\ ~Exists(s) /\ \A earlier \in Sessions : earlier < s => Exists(earlier)
    /\ MayStartBreeze(CartOf[s])
    /\ sessions' = [sessions EXCEPT ![s].processing_status = "awaiting_webhook"]
    /\ UNCHANGED <<Payload, orders, events, workers, standard, made, unblocked>>

\* createPaymentAttempt: PayU may still capture or decline.
StartPayu(c) ==
    /\ MayStartStandard(c)
    /\ standard' = [standard EXCEPT ![c] = "pending"]
    /\ UNCHANGED <<Payload, sessions, orders, events, workers, made, unblocked>>

\* confirmCodOrder buys the cart at once.
ConfirmCod(c) ==
    /\ MayStartStandard(c)
    /\ standard' = [standard EXCEPT ![c] = "bought"]
    /\ UNCHANGED <<Payload, sessions, orders, events, workers, made, unblocked>>

PayuSettles(c) ==
    /\ standard[c] = "pending"
    /\ \E verdict \in {"none", "bought"} : standard' = [standard EXCEPT ![c] = verdict]
    /\ UNCHANGED <<Payload, sessions, orders, events, workers, made, unblocked>>

\* The buyer closes the drawer, staff confirm that nothing will be captured, or Breeze
\* reports the checkout abandoned: the same conditional update, by three handlers.
Release(s) ==
    /\ Exists(s)
    /\ sessions[s].processing_status = "awaiting_webhook" /\ ~sessions[s].order
    /\ sessions' = [sessions EXCEPT ![s].processing_status = "released"]
    /\ unblocked' = unblocked \cup {s}
    /\ UNCHANGED <<Payload, orders, events, workers, standard, made>>

BuyerReleases(s) == Release(s)
StaffReleases(s) == Release(s)
BreezeReportsAbandoned(s) == Release(s)

\* updateStatus of an order that is not paid.
AdminCancelsOrder(s) ==
    /\ orders[s].status \in {"pending", "confirmed"} /\ orders[s].payment # "paid"
    /\ orders' = [orders EXCEPT ![s].status = "cancelled"]
    /\ UNCHANGED <<Payload, sessions, events, workers, standard, made, unblocked>>

-----------------------------------------------------------------------------
(* Claiming an event                                                       *)

\* Workers are alike: the first idle one takes the next piece of work.
NextWorker(w) == workers[w] = Idle /\ \A other \in Workers : other < w => workers[other] # Idle

Work(w, e) ==
    workers' = [workers EXCEPT ![w] = [event |-> e, step |-> "read", loaded |-> "received",
                                       order |-> FALSE, outcome |-> "received"]]

Counted(e) == [events EXCEPT ![e].attempts = @ + 1]

\* claimEvent of handle: a new delivery, or one that is counted.  Deliveries are
\* bounded: none is made once the attempts are used up.
DeliverWebhook(w, e) ==
    /\ NextWorker(w)
    /\ events[e].attempts < MaxAttempts
    /\ events' = IF events[e].status = "absent"
                 THEN [Counted(e) EXCEPT ![e].status = "received"] ELSE Counted(e)
    /\ Work(w, e)
    /\ UNCHANGED <<Payload, sessions, orders, standard, made, unblocked>>

\* The lease and the backoff (reconciliationBackoffMs) are clocks, and one may run out
\* while its holder still works: an event may be due at any time after a claim.
DueForever(e) == events[e].status = "received"  \* mutant: no retry budget
Due(e) == events[e].status = "received" /\ events[e].attempts < MaxAttempts

SweepClaims(w, e) ==
    /\ NextWorker(w)
    /\ Due(e)
    /\ events' = Counted(e)
    /\ Work(w, e)
    /\ UNCHANGED <<Payload, sessions, orders, standard, made, unblocked>>

\* Staff may retry any number of times; the bound on attempts bounds them here.
StaffRetries(w, e) ==
    /\ NextWorker(w)
    /\ events[e].status \in {"received", "reconciliation_required"}
    /\ events[e].attempts < MaxAttempts
    /\ events' = Counted(e)
    /\ Work(w, e)
    /\ UNCHANGED <<Payload, sessions, orders, standard, made, unblocked>>

ExhaustedBeyond(e) == events[e].attempts > MaxAttempts  \* mutant: off by one
Exhausted(e) == events[e].attempts >= MaxAttempts

MarkExhausted(e) ==
    /\ events[e].status = "received" /\ Exhausted(e)
    /\ events' = [events EXCEPT ![e].status = "reconciliation_required"]
    /\ UNCHANGED <<Payload, sessions, orders, workers, standard, made, unblocked>>

-----------------------------------------------------------------------------
(* The steps of a worker                                                   *)

At(w, step) == workers[w].step = step
Body(w) == Payload[workers[w].event]
Goto(w, step) == workers' = [workers EXCEPT ![w].step = step]
Answer(w, outcome) == workers' = [workers EXCEPT ![w].step = "finish", ![w].outcome = outcome]

\* An event answered before gets the stored answer.
AlreadyAnswered(w) == events[workers[w].event].status \in {"processed", "ignored"}

\* The event and the session as they are now decide later, unlocked steps.
ReadSession(w) ==
    LET b == Body(w)
        read == [workers[w] EXCEPT !.loaded = events[workers[w].event].status, !.order = b.class = "failed" /\ sessions[b.session].order]
    IN /\ At(w, "read")
       /\ workers' = [workers EXCEPT ![w] =
              IF AlreadyAnswered(w) THEN Idle
              ELSE IF ~Exists(b.session) \/ b.class \in {"unknown", "refund"}
                   THEN [read EXCEPT !.step = "finish", !.outcome = "reconciliation_required"]
              ELSE IF b.class = "unpaid_pending" THEN [read EXCEPT !.step = "finish", !.outcome = "processed"]
              ELSE [read EXCEPT !.step = IF b.class = "partial" THEN "park" ELSE "refs"]]
       /\ UNCHANGED <<Payload, sessions, orders, events, standard, made, unblocked>>

\* A reference of another session, or a second one once there is an order.
Conflict(s, ref) ==
    \/ sessions[s].order /\ sessions[s].breeze_order_id \notin {NoRef, ref}
    \/ \E other \in Sessions \ {s} : sessions[other].breeze_order_id = ref

\* Currency, amounts, offers, intent, address, cash allowed, serviceability.
RefusedByVerification(b) == b.class = "paid" /\ ~b.verified

RecordProviderReferences(w) ==
    LET b == Body(w)
    IN /\ At(w, "refs")
       /\ IF Conflict(b.session, b.ref)
          THEN Goto(w, "park") /\ UNCHANGED sessions
          ELSE /\ sessions' = [sessions EXCEPT ![b.session].breeze_order_id = b.ref]
               /\ Goto(w, CASE b.class = "failed" -> "fail"
                            [] RefusedByVerification(b) -> "park"
                            [] OTHER -> "order")
       /\ UNCHANGED <<Payload, orders, events, standard, made, unblocked>>

\* Anything a person has to look at.
ParkSession(w) ==
    /\ At(w, "park")
    /\ MarkSession(Body(w).session, "reconciliation_required")
    /\ Answer(w, "reconciliation_required")
    /\ UNCHANGED <<Payload, orders, events, standard, made>>

RecordFailure(w) ==
    LET s == Body(w).session
    IN /\ At(w, "fail")
       /\ \/ /\ ~workers[w].order
             /\ MarkSession(s, "failed")
             /\ UNCHANGED orders
          \/ /\ workers[w].order
             /\ orders' = IF orders[s].payment = "pending" /\ orders[s].provider = "breeze"
                          THEN [orders EXCEPT ![s].payment = "failed"] ELSE orders
             /\ UNCHANGED <<sessions, unblocked>>
       /\ Answer(w, "processed")
       /\ UNCHANGED <<Payload, events, standard, made>>

\* Phase 1, under the lock of the session: the order exists once.
NeedsOrderAsRead(w, s) == ~workers[w].order  \* mutant: decided by what was read without the lock
NeedsOrder(w, s) == ~sessions[s].order

EnsureOrderAndPayment(w) ==
    LET s == Body(w).session
    IN /\ At(w, "order")
       /\ IF NeedsOrder(w, s)
          THEN /\ sessions' = [sessions EXCEPT ![s].order = TRUE, ![s].processing_status = "order_created"]
               /\ orders' = [orders EXCEPT ![s] = [status |-> "pending", payment |-> "pending", exception |-> FALSE,
                                                   provider |-> IF Body(w).cod THEN "cod" ELSE "breeze"]]
               /\ made' = [made EXCEPT ![s] = @ + 1]
          ELSE UNCHANGED <<sessions, orders, made>>
       /\ Goto(w, "settle")
       /\ UNCHANGED <<Payload, events, standard, unblocked>>

\* Where a cash order that could not be confirmed goes on.
CodRefusedMarked == "mark"  \* mutant: finalized like any other
CodRefused == "park"

\* finalizeBreezeCodOrder.
SettleCod(w, s, inStock) ==
    \/ /\ orders[s].provider = "cod" /\ orders[s].payment = "pending"
       /\ orders[s].status = "pending" /\ inStock
       /\ orders' = [orders EXCEPT ![s].status = "confirmed"]
       /\ Goto(w, "mark")
    \/ /\ orders[s].provider = "cod" /\ orders[s].payment = "pending" /\ orders[s].status = "confirmed"
       /\ UNCHANGED orders
       /\ Goto(w, "mark")
    \/ /\ orders[s].provider # "cod" \/ orders[s].status = "cancelled" \/ (orders[s].status = "pending" /\ ~inStock)
       /\ UNCHANGED orders
       /\ Goto(w, CodRefused)

\* Phase 2, processVerifiedPaymentResult: a payment that is already paid or failed is
\* left alone; a payment in cash has no Breeze reference to be found by.
SettlePaid(w, s, inStock) ==
    \/ /\ orders[s].provider = "breeze" /\ orders[s].payment = "pending"
       /\ LET confirms == orders[s].status = "pending" /\ inStock
          IN orders' = [orders EXCEPT ![s].payment = "paid", ![s].exception = ~confirms,
                                      ![s].status = IF confirms THEN "confirmed" ELSE @]
       /\ Goto(w, "mark")
    \/ /\ orders[s].provider = "breeze" /\ orders[s].payment # "pending"
       /\ UNCHANGED orders
       /\ Goto(w, "mark")
    \/ /\ orders[s].provider # "breeze"
       /\ UNCHANGED orders
       /\ Goto(w, "park")

Settle(w) ==
    /\ At(w, "settle")
    /\ \E inStock \in BOOLEAN :
           IF Body(w).cod THEN SettleCod(w, Body(w).session, inStock) ELSE SettlePaid(w, Body(w).session, inStock)
    /\ UNCHANGED <<Payload, sessions, events, standard, made, unblocked>>

\* Phase 3.
MarkFinalized(w) ==
    LET s == Body(w).session
    IN /\ At(w, "mark")
       /\ sessions' = [sessions EXCEPT ![s].processing_status = "finalized"]
       /\ unblocked' = unblocked \cup {s}
       /\ Answer(w, "processed")
       /\ UNCHANGED <<Payload, orders, events, standard, made>>

\* The row is saved with the columns that differ from what was loaded.
FinishEvent(w) ==
    LET e == workers[w].event
        changed == workers[w].outcome # workers[w].loaded
    IN /\ At(w, "finish")
       /\ events' = [events EXCEPT ![e].status = IF changed THEN workers[w].outcome ELSE @]
       /\ workers' = [workers EXCEPT ![w] = Idle]
       /\ UNCHANGED <<Payload, sessions, orders, standard, made, unblocked>>

\* The process stops, or a statement throws: what is committed stays.
WorkerDies(w) ==
    /\ workers[w] # Idle
    /\ workers' = [workers EXCEPT ![w] = Idle]
    /\ UNCHANGED <<Payload, sessions, orders, events, standard, made, unblocked>>

WorkerSteps(w) ==
    \/ ReadSession(w) \/ RecordProviderReferences(w) \/ ParkSession(w) \/ RecordFailure(w)
    \/ EnsureOrderAndPayment(w) \/ Settle(w) \/ MarkFinalized(w) \/ FinishEvent(w)

Next ==
    \/ \E s \in Sessions :
           \/ CreateSession(s) \/ AdminCancelsOrder(s)
           \/ BuyerReleases(s) \/ StaffReleases(s) \/ BreezeReportsAbandoned(s)
    \/ \E c \in Carts : StartPayu(c) \/ ConfirmCod(c) \/ PayuSettles(c)
    \/ \E e \in Events : MarkExhausted(e)
    \/ \E w \in Workers, e \in Events : DeliverWebhook(w, e) \/ SweepClaims(w, e) \/ StaffRetries(w, e)
    \/ \E w \in Workers : WorkerSteps(w) \/ WorkerDies(w)

Spec == Init /\ [][Next]_vars

\* The scheduled job runs again and again, its clocks run out, and a living worker goes on.
Fairness ==
    /\ WF_vars(\E e \in Events : MarkExhausted(e) \/ \E w \in Workers : SweepClaims(w, e))
    /\ WF_vars(\E w \in Workers : WorkerSteps(w))

FairSpec == Spec /\ Fairness

-----------------------------------------------------------------------------
(* Properties                                                              *)

TypeOK ==
    /\ sessions \in [Sessions -> SessionRow]
    /\ orders \in [Sessions -> OrderRow]
    /\ events \in [Events -> EventRow]
    /\ workers \in [Workers -> Job \cup {Idle}]
    /\ standard \in [Carts -> {"none", "pending", "bought"}]
    /\ made \in [Sessions -> Nat]
    /\ unblocked \subseteq Sessions

\* However often an event is delivered, retried by the job past its lease and by staff,
\* and wherever its handlers die, a session gets one order and keeps it.
OneOrderPerSession ==
    /\ TypeOK
    /\ \A s \in Sessions : made[s] <= 1 /\ (made[s] = 1 <=> sessions[s].order)

\* Breeze reported the checkout failed, and that reached the payment first.
Contradicted(s) ==
    /\ orders[s].provider = "breeze" /\ orders[s].payment = "failed"
    /\ \E e \in Events : Payload[e].session = s /\ Payload[e].class = "failed" /\ events[e].status # "absent"

\* A capture is answered as processed only once it is on its session's order: the payment is
\* paid, and the order confirmed or flagged for staff, or for cash confirmed.  The one
\* exception is a capture that Breeze itself contradicts: reported after a failure that is
\* on the payment, it is answered as processed and recorded nowhere
\* (NOOP_ALREADY_TERMINAL, breeze-order-create.service.ts:605), and the order stays unpaid.
CaptureNotDropped ==
    \A e \in Events :
        LET b == Payload[e]
            order == orders[b.session]
        IN b.class = "paid" /\ events[e].status = "processed"
           => /\ sessions[b.session].order
              /\ b.cod => order.provider = "cod" /\ order.status # "pending"
              /\ ~b.cod =>
                     \/ /\ order.provider = "breeze" /\ order.payment = "paid"
                        /\ order.status = "confirmed" \/ order.exception
                     \/ Contradicted(b.session)

\* Breeze and the standard checkout never have an open attempt of the same cart, unless
\* the session was released, failed or finalized before and a late capture revived it.
CrossProviderExclusion ==
    \A s \in Sessions :
        Exists(s) /\ s \notin unblocked /\ standard[CartOf[s]] # "none" => sessions[s].processing_status \notin Blocking

\* At most one session of a cart waits for its first webhook.
OneSessionPerCart ==
    \A s, other \in Sessions :
        Exists(s) /\ Exists(other) /\ s # other /\ CartOf[s] = CartOf[other]
        => {sessions[s].processing_status, sessions[other].processing_status} # {"awaiting_webhook"}

\* Nothing stays claimed forever: whichever workers die, every event is concluded or
\* handed to staff.
EventConcluded == \A e \in Events : events[e].status = "received" ~> events[e].status # "received"

\* Once an order exists, a different Breeze order id is a second payment event and is
\* never merged silently (the code does not keep this).
SecondCaptureSurfaced ==
    \A e, other \in Events :
        /\ Payload[e].session = Payload[other].session /\ Payload[e].ref # Payload[other].ref
        /\ Payload[e].class = "paid" /\ Payload[other].class = "paid"
        => ~(events[e].status = "processed" /\ events[other].status = "processed")
=============================================================================
