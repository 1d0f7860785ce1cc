---------------------------- MODULE BreezeProofs ----------------------------
(***************************************************************************)
(* Theorems about BreezeCheckout, for every value of its constants: any    *)
(* number of sessions, carts, buyers, workers and events, and whatever the *)
(* events say.                                                             *)
(***************************************************************************)
EXTENDS BreezeCheckout, TLAPS

\* A worker handles an event whose row it has inserted or claimed.
ClaimedIsStored == \A w \in Workers : workers[w].step # "idle" => events[workers[w].event].status # "absent"

Typed == TypeOK /\ Payload \in Payloads /\ ClaimedIsStored

LEMMA StepNames == "idle" \notin Steps /\ Idle.step = "idle"
<1> QED
    BY DEF Steps, Idle

\* The rows, and the job of a worker that is not idle.
LEMMA RowTypes ==
    ASSUME Typed
    PROVE  /\ sessions \in [Sessions -> SessionRow]
           /\ orders \in [Sessions -> OrderRow]
           /\ events \in [Events -> EventRow]
           /\ workers \in [Workers -> Job \cup {Idle}]
           /\ \A w \in Workers : workers[w].step # "idle" => workers[w] \in Job
           /\ \A e \in Events : Payload[e] \in [session: Sessions, class: Class, cod: BOOLEAN, ref: Refs, verified: BOOLEAN]
<1> QED
    BY StepNames, PayloadAssumption DEF Typed, TypeOK

\* What a worker knows of its event.
LEMMA JobTypes ==
    ASSUME Typed, NEW w \in Workers, workers[w].step # "idle"
    PROVE  /\ workers[w] \in Job
           /\ workers[w].event \in Events
           /\ Body(w).session \in Sessions
           /\ Body(w).ref \in Refs
           /\ Body(w).cod \in BOOLEAN
<1> QED
    BY RowTypes DEF Job, Body

LEMMA InitType == Init => Typed
<1> SUFFICES ASSUME Init PROVE Typed
    OBVIOUS
<1>1. sessions \in [Sessions -> SessionRow]
    BY DEF Init, SessionRow, Processing
<1>2. orders \in [Sessions -> OrderRow]
    BY DEF Init, OrderRow
<1>3. events \in [Events -> EventRow]
    BY AttemptsAssumption DEF Init, EventRow
<1> QED
    BY <1>1, <1>2, <1>3, StepNames DEF Init, Typed, TypeOK, ClaimedIsStored

\* Counting an attempt that is left keeps the rows typed.
LEMMA CountedType ==
    ASSUME Typed, NEW e \in Events, events[e].attempts < MaxAttempts
    PROVE  /\ Counted(e) \in [Events -> EventRow]
           /\ [Counted(e) EXCEPT ![e].status = "received"] \in [Events -> EventRow]
<1>1. events \in [Events -> EventRow]
    BY RowTypes
<1>2. events[e].attempts + 1 \in 0..MaxAttempts /\ "received" \in EventStatus \cup {"absent"}
    BY <1>1, AttemptsAssumption DEF EventRow, EventStatus
<1> QED
    BY <1>1, <1>2 DEF Counted, EventRow

LEMMA WorkType ==
    ASSUME Typed, NEW w \in Workers, NEW e \in Events, Work(w, e)
    PROVE  /\ workers' \in [Workers -> Job \cup {Idle}]
           /\ workers'[w].step = "read" /\ workers'[w].event = e
           /\ \A other \in Workers \ {w} : workers'[other] = workers[other]
<1>1. [event |-> e, step |-> "read", loaded |-> "received", order |-> FALSE, outcome |-> "received"] \in Job
    BY DEF Job, Steps, EventStatus
<1> QED
    BY <1>1, RowTypes DEF Work

\* A worker goes on: only its step, and on an answer its outcome, change.
Moved(w, step, outcome) ==
    /\ workers' \in [Workers -> Job \cup {Idle}]
    /\ workers'[w].event = workers[w].event
    /\ workers'[w].step = step /\ workers'[w].outcome = outcome
    /\ \A other \in Workers \ {w} : workers'[other] = workers[other]

LEMMA GotoMoves ==
    ASSUME Typed, NEW w \in Workers, workers[w].step # "idle", NEW step \in Steps, Goto(w, step)
    PROVE  Moved(w, step, workers[w].outcome)
<1>1. workers[w] \in Job /\ workers \in [Workers -> Job \cup {Idle}]
    BY RowTypes
<1>2. PICK row : row = [workers[w] EXCEPT !.step = step]
    OBVIOUS
<1>3. row \in Job /\ row.event = workers[w].event /\ row.step = step /\ row.outcome = workers[w].outcome
    BY <1>1, <1>2 DEF Job
<1>4. workers' = [workers EXCEPT ![w] = row]
    BY <1>2 DEF Goto
<1> QED
    BY <1>1, <1>3, <1>4 DEF Moved

LEMMA AnswerMoves ==
    ASSUME Typed, NEW w \in Workers, workers[w].step # "idle", NEW outcome \in EventStatus, Answer(w, outcome)
    PROVE  Moved(w, "finish", outcome)
<1>1. workers[w] \in Job /\ workers \in [Workers -> Job \cup {Idle}] /\ "finish" \in Steps
    BY RowTypes DEF Steps
<1>2. PICK row : row = [workers[w] EXCEPT !.step = "finish", !.outcome = outcome]
    OBVIOUS
<1>3. row \in Job /\ row.event = workers[w].event /\ row.step = "finish" /\ row.outcome = outcome
    BY <1>1, <1>2 DEF Job
<1>4. workers' = [workers EXCEPT ![w] = row]
    BY <1>1, <1>2 DEF Answer
<1> QED
    BY <1>1, <1>3, <1>4 DEF Moved

LEMMA RowValues ==
    /\ {"awaiting_webhook", "order_created", "finalized", "reconciliation_required", "failed", "released"} \subseteq Processing
    /\ {"received", "processed", "reconciliation_required"} \subseteq EventStatus
    /\ {"refs", "park", "fail", "order", "settle", "mark", "finish"} \subseteq Steps
    /\ Blocking \subseteq Processing /\ "absent" \notin Blocking
    /\ {"awaiting_webhook", "order_created", "reconciliation_required"} \subseteq Blocking
    /\ "finalized" \notin Blocking /\ "failed" \notin Blocking /\ "released" \notin Blocking
<1> QED
    BY DEF Processing, EventStatus, Steps, Blocking

\* A processing status written to a session, and what else of the row is kept.
LEMMA StatusWritten ==
    ASSUME Typed, NEW s \in Sessions, NEW status \in Processing,
           sessions' = [sessions EXCEPT ![s].processing_status = status]
    PROVE  /\ sessions' \in [Sessions -> SessionRow]
           /\ sessions'[s].processing_status = status
           /\ \A x \in Sessions : sessions'[x].order = sessions[x].order
           /\ \A x \in Sessions \ {s} : sessions'[x] = sessions[x]
<1>1. sessions \in [Sessions -> SessionRow]
    BY RowTypes
<1> QED
    BY <1>1 DEF SessionRow

\* What ReadSession makes of a worker.
Reads(w) ==
    \/ workers'[w] = Idle
    \/ /\ workers'[w] \in Job /\ workers'[w].event = workers[w].event
       /\ \/ /\ workers'[w].step = "finish"
             /\ workers'[w].outcome = "processed" => Body(w).class = "unpaid_pending"
          \/ workers'[w].step \in {"park", "refs"} /\ Exists(Body(w).session)

LEMMA ReadMoves ==
    ASSUME Typed, NEW w \in Workers, ReadSession(w)
    PROVE  /\ Reads(w)
           /\ workers' \in [Workers -> Job \cup {Idle}]
           /\ \A other \in Workers \ {w} : workers'[other] = workers[other]
<1>1. workers[w].step # "idle"
    BY DEF ReadSession, At
<1> DEFINE b == Body(w)
           loaded == events[workers[w].event].status
           known == b.class = "failed" /\ sessions[b.session].order
<1>2. PICK row : row = [workers[w] EXCEPT !.loaded = loaded, !.order = known]
    OBVIOUS
<1>3. workers' = [workers EXCEPT ![w] =
              IF AlreadyAnswered(w) THEN Idle
              ELSE IF ~Exists(b.session) \/ b.class \in {"unknown", "refund"}
                   THEN [row EXCEPT !.step = "finish", !.outcome = "reconciliation_required"]
              ELSE IF b.class = "unpaid_pending" THEN [row EXCEPT !.step = "finish", !.outcome = "processed"]
              ELSE [row EXCEPT !.step = IF b.class = "partial" THEN "park" ELSE "refs"]]
    BY <1>2, Zenon DEF ReadSession
<1>4. CASE AlreadyAnswered(w)
  <2>1. workers' = [workers EXCEPT ![w] = Idle]
    BY <1>3, <1>4
  <2> QED
    BY <2>1, RowTypes DEF Reads
<1>5. CASE ~AlreadyAnswered(w)
  <2>1. loaded \in EventStatus /\ known \in BOOLEAN
    BY <1>1, JobTypes, RowTypes DEF Typed, ClaimedIsStored, EventRow
  <2>2. row \in Job /\ row.event = workers[w].event
    BY <1>1, <1>2, <2>1, JobTypes DEF Job
  <2>3. CASE ~Exists(b.session) \/ b.class \in {"unknown", "refund"}
    <3>1. PICK read : read = [row EXCEPT !.step = "finish", !.outcome = "reconciliation_required"]
      OBVIOUS
    <3>2. workers' = [workers EXCEPT ![w] = read]
      BY <1>3, <1>5, <2>3, <3>1, Zenon
    <3>3. read \in Job /\ read.event = workers[w].event /\ read.step = "finish" /\ read.outcome = "reconciliation_required"
      BY <2>2, <3>1, RowValues DEF Job
    <3> QED
      BY <3>2, <3>3, RowTypes DEF Reads
  <2>4. CASE b.class = "unpaid_pending" /\ ~(~Exists(b.session) \/ b.class \in {"unknown", "refund"})
    <3>1. PICK read : read = [row EXCEPT !.step = "finish", !.outcome = "processed"]
      OBVIOUS
    <3>2. workers' = [workers EXCEPT ![w] = read]
      BY <1>3, <1>5, <2>4, <3>1, Zenon
    <3>3. read \in Job /\ read.event = workers[w].event /\ read.step = "finish" /\ read.outcome = "processed"
      BY <2>2, <3>1, RowValues DEF Job
    <3> QED
      BY <2>4, <3>2, <3>3, RowTypes DEF Reads
  <2>5. CASE b.class # "unpaid_pending" /\ ~(~Exists(b.session) \/ b.class \in {"unknown", "refund"})
    <3>1. PICK step \in {"park", "refs"} : step = IF b.class = "partial" THEN "park" ELSE "refs"
      OBVIOUS
    <3>2. PICK read : read = [row EXCEPT !.step = step]
      OBVIOUS
    <3>3. workers' = [workers EXCEPT ![w] = read]
      BY <1>3, <1>5, <2>5, <3>1, <3>2, Zenon
    <3>4. read \in Job /\ read.event = workers[w].event /\ read.step = step
      BY <2>2, <3>2, RowValues DEF Job
    <3> QED
      BY <2>5, <3>3, <3>4, RowTypes DEF Reads
  <2> QED
    BY <2>3, <2>4, <2>5
<1> QED
    BY <1>4, <1>5

-----------------------------------------------------------------------------
(* The inductive invariant behind OneOrderPerSession, CaptureNotDropped,     *)
(* CrossProviderExclusion and OneSessionPerCart.                             *)

\* The capture Breeze reported for a session, in cash or not, is concluded on its order.
Captured(s, cod) ==
    /\ sessions[s].order
    /\ cod => orders[s].provider = "cod" /\ orders[s].status # "pending"
    /\ ~cod => orders[s].provider = "breeze" /\ orders[s].payment # "pending"

\* Breeze reported that the session's checkout failed.
FailureReported(s) ==
    \E e \in Events : Payload[e].session = s /\ Payload[e].class = "failed" /\ events[e].status # "absent"

\* A session and its order.  A session keeps PayU and cash off its cart from its start
\* until it is released, fails or is finalized, through every status in between.
SessionSound(s) ==
    /\ made[s] <= 1 /\ (made[s] = 1 <=> sessions[s].order)
    /\ orders[s].payment = "paid" => orders[s].status = "confirmed" \/ orders[s].exception
    /\ Exists(s) /\ s \notin unblocked =>
            sessions[s].processing_status \in Blocking /\ standard[CartOf[s]] = "none"

FailedIsReported == \A s \in Sessions : orders[s].payment = "failed" => FailureReported(s)

\* What a worker's progress says of the session its event is about: the later steps
\* are only reached once the earlier transactions are committed.
JobSound(w) ==
    LET b == Body(w)
        s == b.session
    IN  /\ workers[w].step \in Steps \ {"read", "finish"} => Exists(s)
        /\ workers[w].step = "fail" => b.class = "failed"
        /\ workers[w].step \in {"settle", "mark"} => sessions[s].order
        /\ workers[w].step = "mark" => Captured(s, b.cod)
        /\ workers[w].step = "finish" /\ workers[w].outcome = "processed" /\ b.class = "paid" => Captured(s, b.cod)

AnswerIsConcluded ==
    \A e \in Events :
        Payload[e].class = "paid" /\ events[e].status = "processed" => Captured(Payload[e].session, Payload[e].cod)

BreezeInv ==
    /\ \A s \in Sessions : SessionSound(s)
    /\ \A w \in Workers : JobSound(w)
    /\ FailedIsReported
    /\ AnswerIsConcluded
    /\ OneSessionPerCart

\* A payment that is concluded is paid, and its order settled, or it has failed, and
\* Breeze said so.
LEMMA ConcludedIsSettled == Typed /\ BreezeInv => CaptureNotDropped
<1> SUFFICES ASSUME Typed, BreezeInv, NEW e \in Events,
                    Payload[e].class = "paid", events[e].status = "processed"
             PROVE  LET b == Payload[e]
                        order == orders[b.session]
                    IN  /\ sessions[b.session].order
                        /\ b.cod => order.provider = "cod" /\ order.status # "pending"
                        /\ ~b.cod =>
                               \/ /\ order.provider = "breeze" /\ order.payment = "paid"
                                  /\ order.status = "confirmed" \/ order.exception
                               \/ Contradicted(b.session)
    BY DEF CaptureNotDropped
<1>1. PICK s \in Sessions : s = Payload[e].session
    BY RowTypes
<1>2. Captured(s, Payload[e].cod)
    BY <1>1 DEF BreezeInv, AnswerIsConcluded
<1>3. orders[s].payment \in {"pending", "paid", "failed"}
    BY RowTypes DEF OrderRow
<1>4. orders[s].payment = "paid" => orders[s].status = "confirmed" \/ orders[s].exception
    BY DEF BreezeInv, SessionSound
<1>5. orders[s].payment = "failed" /\ orders[s].provider = "breeze" => Contradicted(s)
    BY DEF BreezeInv, FailedIsReported, FailureReported, Contradicted
<1> QED
    BY <1>1, <1>2, <1>3, <1>4, <1>5 DEF Captured

LEMMA InvImplies ==
    Typed /\ BreezeInv => OneOrderPerSession /\ CaptureNotDropped /\ CrossProviderExclusion /\ OneSessionPerCart
<1> SUFFICES ASSUME Typed, BreezeInv PROVE OneOrderPerSession /\ CrossProviderExclusion
    BY ConcludedIsSettled DEF BreezeInv
<1> QED
    BY DEF Typed, BreezeInv, SessionSound, OneOrderPerSession, CrossProviderExclusion

LEMMA InitBreeze == Init => BreezeInv
<1> SUFFICES ASSUME Init PROVE BreezeInv
    OBVIOUS
<1>1. \A s \in Sessions :
        /\ ~Exists(s) /\ ~sessions[s].order /\ made[s] = 0
        /\ orders[s].payment = "pending"
    BY DEF Init, Exists
<1>2. \A w \in Workers : workers[w].step = "idle"
    BY StepNames DEF Init
<1>3. \A e \in Events : events[e].status = "absent"
    BY DEF Init
<1> QED
    BY <1>1, <1>2, <1>3, StepNames DEF BreezeInv, SessionSound, JobSound, FailedIsReported, AnswerIsConcluded, OneSessionPerCart

\* What settling a payment does to the order of a session.
Forward(s) ==
    /\ orders'[s].provider = orders[s].provider
    /\ orders[s].payment # "pending" => orders'[s].payment = orders[s].payment
    /\ orders'[s].payment = "paid" => orders'[s].status = "confirmed" \/ orders'[s].exception
    /\ orders'[s].payment = "failed" => orders[s].payment = "failed"
    /\ orders[s].status # "pending" => orders'[s].status # "pending"

\* What every step must do to a session, an event and a worker.
SessionKept(s) ==
    /\ SessionSound(s)'
    /\ Exists(s) => Exists(s)'
    /\ sessions[s].order => sessions'[s].order
    /\ \A cod \in BOOLEAN : Captured(s, cod) => Captured(s, cod)'
    /\ orders'[s].payment = "failed" => orders[s].payment = "failed" \/ FailureReported(s)
EventKept(e) ==
    /\ events[e].status # "absent" => events'[e].status # "absent"
    /\ events'[e].status = "processed" /\ Payload[e].class = "paid" =>
            events[e].status = "processed" \/ Captured(Payload[e].session, Payload[e].cod)'
WorkerKept(w) ==
    \/ workers'[w] = workers[w]
    \/ workers'[w] = Idle
    \/ events'[workers'[w].event].status # "absent" /\ JobSound(w)'

LEMMA BreezeForward ==
    ASSUME Typed, BreezeInv, TypeOK', UNCHANGED Payload,
           \A s \in Sessions : SessionKept(s),
           \A e \in Events : EventKept(e),
           \A w \in Workers : WorkerKept(w),
           OneSessionPerCart'
    PROVE  Typed' /\ BreezeInv'
<1> USE RowTypes
<1>1. ClaimedIsStored'
  <2> SUFFICES ASSUME NEW w \in Workers, workers'[w].step # "idle" PROVE events'[workers'[w].event].status # "absent"
    BY DEF ClaimedIsStored
  <2>1. CASE workers'[w] = workers[w]
    BY <2>1, JobTypes DEF Typed, ClaimedIsStored, EventKept
  <2> QED
    BY <2>1, StepNames DEF WorkerKept
<1>2. Typed'
    BY <1>1 DEF Typed
<1>3. ASSUME NEW w \in Workers PROVE JobSound(w)'
  <2>1. CASE workers'[w] = workers[w] /\ workers[w].step # "idle"
    <3>1. Body(w)' = Body(w)
      BY <2>1 DEF Body
    <3>2. Body(w).session \in Sessions /\ Body(w).cod \in BOOLEAN
      BY <2>1, JobTypes
    <3> QED
      BY <2>1, <3>1, <3>2 DEF BreezeInv, JobSound, SessionKept
  <2>2. CASE workers'[w] = Idle \/ (workers'[w] = workers[w] /\ workers[w].step = "idle")
    BY <2>2, StepNames DEF JobSound
  <2> QED
    BY <2>1, <2>2 DEF WorkerKept
<1>4. AnswerIsConcluded'
    <2> SUFFICES ASSUME NEW e \in Events, Payload[e].class = "paid", events'[e].status = "processed"
                 PROVE  Captured(Payload[e].session, Payload[e].cod)'
      BY DEF AnswerIsConcluded
    <2>1. Payload[e].session \in Sessions /\ Payload[e].cod \in BOOLEAN
      OBVIOUS
    <2> QED
      BY <2>1 DEF BreezeInv, AnswerIsConcluded, EventKept, SessionKept
<1>5. FailedIsReported'
    <2> SUFFICES ASSUME NEW s \in Sessions, orders'[s].payment = "failed" PROVE FailureReported(s)'
      BY DEF FailedIsReported
    <2>1. PICK e \in Events : Payload[e].session = s /\ Payload[e].class = "failed" /\ events[e].status # "absent"
      BY DEF SessionKept, BreezeInv, FailedIsReported, FailureReported
    <2> QED
      BY <2>1 DEF EventKept, FailureReported
<1> QED
    BY <1>2, <1>3, <1>4, <1>5 DEF BreezeInv, SessionKept

\* A session whose rows, cart and history a step leaves alone.
LEMMA SessionFrame ==
    ASSUME Typed, BreezeInv, NEW s \in Sessions,
           sessions'[s] = sessions[s], orders'[s] = orders[s], made'[s] = made[s],
           standard'[CartOf[s]] = standard[CartOf[s]], s \in unblocked => s \in unblocked'
    PROVE  SessionKept(s)
<1> QED
    BY DEF BreezeInv, SessionKept, SessionSound, Exists, Captured

\* No step but the start of a session makes one wait for its first webhook.
NoneStarted ==
    \A s \in Sessions :
        sessions'[s].processing_status = "awaiting_webhook" => sessions[s].processing_status = "awaiting_webhook"

LEMMA WaitingStays ==
    ASSUME BreezeInv, NoneStarted
    PROVE  OneSessionPerCart'
<1> SUFFICES ASSUME NEW s \in Sessions, NEW other \in Sessions, s # other, CartOf[s] = CartOf[other],
                    sessions'[s].processing_status = "awaiting_webhook",
                    sessions'[other].processing_status = "awaiting_webhook"
             PROVE  FALSE
    BY DEF OneSessionPerCart
<1>1. /\ sessions[s].processing_status = "awaiting_webhook"
      /\ sessions[other].processing_status = "awaiting_webhook"
    BY DEF NoneStarted
<1> QED
    BY <1>1 DEF BreezeInv, OneSessionPerCart, Exists

\* A step that touches no session and no order.
LEMMA SessionsUntouched ==
    ASSUME Typed, BreezeInv, TypeOK', UNCHANGED <<Payload, sessions, orders, standard, made, unblocked>>,
           \A e \in Events : EventKept(e),
           \A w \in Workers : WorkerKept(w)
    PROVE  Typed' /\ BreezeInv'
<1>1. \A s \in Sessions : SessionKept(s)
    BY SessionFrame
<1>2. OneSessionPerCart'
    BY WaitingStays DEF NoneStarted
<1> QED
    BY <1>1, <1>2, BreezeForward

\* A step of one session.
LEMMA SessionStep ==
    ASSUME Typed, BreezeInv, TypeOK', UNCHANGED <<Payload, events, standard>>,
           NEW s \in Sessions, SessionKept(s), NoneStarted,
           \A x \in Sessions \ {s} : sessions'[x] = sessions[x] /\ orders'[x] = orders[x] /\ made'[x] = made[x],
           unblocked \subseteq unblocked',
           \A w \in Workers : WorkerKept(w)
    PROVE  Typed' /\ BreezeInv'
<1>1. \A x \in Sessions : SessionKept(x)
    BY SessionFrame
<1>2. OneSessionPerCart'
    BY WaitingStays
<1>3. \A e \in Events : EventKept(e)
    BY DEF EventKept
<1> QED
    BY <1>1, <1>2, <1>3, BreezeForward

\* A worker that moves on keeps its event; what it then knows is left to show.
LEMMA MovedWorker ==
    ASSUME Typed, UNCHANGED <<Payload, events>>, NEW w \in Workers, workers[w].step # "idle",
           NEW step, NEW outcome, Moved(w, step, outcome)
    PROVE  /\ Body(w)' = Body(w)
           /\ JobSound(w)' => \A v \in Workers : WorkerKept(v)
<1>1. events'[workers'[w].event].status # "absent"
    BY DEF Typed, ClaimedIsStored, Moved
<1>2. Body(w)' = Body(w)
    BY DEF Moved, Body
<1> QED
    BY <1>1, <1>2 DEF Moved, WorkerKept

LEMMA StepBreeze == Typed /\ BreezeInv /\ [Next]_vars => Typed' /\ BreezeInv'
<1> SUFFICES ASSUME Typed, BreezeInv, [Next]_vars PROVE Typed' /\ BreezeInv'
    OBVIOUS
<1> DEFINE Goal == Typed' /\ BreezeInv'
<1> HIDE DEF Goal
<1> USE RowTypes, RowValues
<1>t. TypeOK /\ \A s \in Sessions : SessionSound(s) /\ CartOf[s] \in Carts
    BY TopologyAssumption DEF Typed, BreezeInv
<1>j. \A w \in Workers : JobSound(w)
    BY DEF BreezeInv
<1>1. ASSUME UNCHANGED vars PROVE Goal
  <2>1. TypeOK'
    BY <1>1, <1>t DEF vars, TypeOK
  <2> QED
    BY <1>1, <2>1, SessionsUntouched DEF vars, EventKept, WorkerKept, Goal
<1>2. ASSUME NEW s \in Sessions, CreateSession(s) PROVE Goal
  <2>1. /\ sessions' = [sessions EXCEPT ![s].processing_status = "awaiting_webhook"]
        /\ ~Exists(s) /\ standard[CartOf[s]] = "none" /\ BlockingAttempts(BuyerOf[CartOf[s]]) = {}
        /\ UNCHANGED <<Payload, orders, events, workers, standard, made, unblocked>>
    BY <1>2 DEF CreateSession, MayStartBreeze
  <2>2. /\ sessions' \in [Sessions -> SessionRow]
        /\ sessions'[s].processing_status = "awaiting_webhook"
        /\ \A x \in Sessions : sessions'[x].order = sessions[x].order
        /\ \A x \in Sessions \ {s} : sessions'[x] = sessions[x]
    BY <2>1, StatusWritten
  <2>3. TypeOK'
    BY <1>t, <2>1, <2>2 DEF TypeOK
  <2>4. SessionKept(s)
    BY <1>t, <2>1, <2>2 DEF SessionKept, SessionSound, Exists, Captured
  <2>5. \A x \in Sessions : SessionKept(x)
    BY <2>1, <2>2, <2>4, SessionFrame
  <2>6. \A x \in Sessions : CartOf[x] = CartOf[s] => sessions[x].processing_status # "awaiting_webhook"
    BY <2>1 DEF BlockingAttempts, Exists
  <2>7. OneSessionPerCart'
    <3> SUFFICES ASSUME NEW x \in Sessions, NEW y \in Sessions, x # y, CartOf[x] = CartOf[y],
                        sessions'[x].processing_status = "awaiting_webhook",
                        sessions'[y].processing_status = "awaiting_webhook"
                 PROVE  FALSE
      BY DEF OneSessionPerCart
    <3>1. CASE x = s \/ y = s
      BY <2>2, <2>6, <3>1
    <3>2. CASE x # s /\ y # s
      BY <2>2, <3>2 DEF BreezeInv, OneSessionPerCart, Exists
    <3> QED
      BY <3>1, <3>2
  <2> QED
    BY <2>1, <2>3, <2>5, <2>7, BreezeForward DEF EventKept, WorkerKept, Goal
<1>3. ASSUME NEW s \in Sessions, AdminCancelsOrder(s) PROVE Goal
  <2>1. /\ orders[s].payment # "paid"
        /\ orders' = [orders EXCEPT ![s].status = "cancelled"]
        /\ UNCHANGED <<Payload, sessions, events, workers, standard, made, unblocked>>
    BY <1>3 DEF AdminCancelsOrder
  <2>2. /\ orders' \in [Sessions -> OrderRow]
        /\ orders'[s].status = "cancelled"
        /\ orders'[s].payment = orders[s].payment /\ orders'[s].provider = orders[s].provider
        /\ \A x \in Sessions \ {s} : orders'[x] = orders[x]
    BY <2>1 DEF OrderRow
  <2>3. TypeOK'
    BY <1>t, <2>1, <2>2 DEF TypeOK
  <2>4. SessionKept(s)
    BY <1>t, <2>1, <2>2 DEF SessionKept, SessionSound, Exists, Captured
  <2> QED
    BY <2>1, <2>2, <2>3, <2>4, SessionStep DEF NoneStarted, WorkerKept, Goal
<1>4. ASSUME NEW s \in Sessions, Release(s) PROVE Goal
  <2>1. /\ sessions' = [sessions EXCEPT ![s].processing_status = "released"]
        /\ unblocked' = unblocked \cup {s}
        /\ UNCHANGED <<Payload, orders, events, workers, standard, made>>
    BY <1>4 DEF Release
  <2>2. /\ sessions' \in [Sessions -> SessionRow]
        /\ sessions'[s].processing_status = "released"
        /\ \A x \in Sessions : sessions'[x].order = sessions[x].order
        /\ \A x \in Sessions \ {s} : sessions'[x] = sessions[x]
    BY <2>1, StatusWritten
  <2>3. TypeOK'
    BY <1>t, <2>1, <2>2 DEF TypeOK
  <2>4. SessionKept(s)
    BY <1>t, <2>1, <2>2 DEF SessionKept, SessionSound, Exists, Captured
  <2>5. NoneStarted
    BY <2>2 DEF NoneStarted
  <2> QED
    BY <2>1, <2>2, <2>3, <2>4, <2>5, SessionStep DEF WorkerKept, Goal
<1>c. ASSUME NEW c \in Carts, standard' \in [Carts -> {"none", "pending", "bought"}],
             \A x \in Carts \ {c} : standard'[x] = standard[x],
             UNCHANGED <<Payload, sessions, orders, events, workers, made, unblocked>>,
             \A s \in Sessions : CartOf[s] = c /\ Exists(s) =>
                sessions[s].processing_status \notin Blocking \/ standard[c] # "none"
      PROVE  Goal
  <2>1. TypeOK'
    BY <1>c, <1>t DEF TypeOK
  <2>2. ASSUME NEW s \in Sessions PROVE SessionKept(s)
    BY <1>c, <1>t DEF SessionKept, SessionSound, Exists, Captured
  <2>3. OneSessionPerCart'
    BY <1>c, WaitingStays DEF NoneStarted
  <2> QED
    BY <1>c, <2>1, <2>2, <2>3, BreezeForward DEF EventKept, WorkerKept, Goal
<1>f. standard \in [Carts -> {"none", "pending", "bought"}]
    BY <1>t DEF TypeOK
<1>5. ASSUME NEW c \in Carts, StartPayu(c) PROVE Goal
    BY <1>5, <1>c, <1>f DEF StartPayu, MayStartStandard, UnresolvedForCart
<1>6. ASSUME NEW c \in Carts, ConfirmCod(c) PROVE Goal
    BY <1>6, <1>c, <1>f DEF ConfirmCod, MayStartStandard, UnresolvedForCart
<1>7. ASSUME NEW c \in Carts, PayuSettles(c) PROVE Goal
    BY <1>7, <1>c, <1>f DEF PayuSettles
<1>8. ASSUME NEW e \in Events, MarkExhausted(e) PROVE Goal
  <2>1. /\ events' = [events EXCEPT ![e].status = "reconciliation_required"]
        /\ UNCHANGED <<Payload, sessions, orders, workers, standard, made, unblocked>>
    BY <1>8 DEF MarkExhausted
  <2>2. /\ events' \in [Events -> EventRow]
        /\ events'[e].status = "reconciliation_required"
        /\ \A x \in Events \ {e} : events'[x] = events[x]
    BY <2>1 DEF EventRow
  <2>3. TypeOK'
    BY <1>t, <2>1, <2>2 DEF TypeOK
  <2> QED
    BY <2>1, <2>2, <2>3, SessionsUntouched DEF EventKept, WorkerKept, Goal
<1>k. ASSUME NEW w \in Workers, NEW e \in Events, Work(w, e), events' \in [Events -> EventRow],
             \A x \in Events \ {e} : events'[x] = events[x],
             events'[e].status # "absent",
             events'[e].status = "processed" => events[e].status = "processed",
             UNCHANGED <<Payload, sessions, orders, standard, made, unblocked>>
      PROVE  Goal
  <2>1. /\ workers' \in [Workers -> Job \cup {Idle}]
        /\ workers'[w].step = "read" /\ workers'[w].event = e
        /\ \A other \in Workers \ {w} : workers'[other] = workers[other]
    BY <1>k, WorkType
  <2>2. TypeOK'
    BY <1>k, <1>t, <2>1 DEF TypeOK
  <2>3. \A x \in Events : EventKept(x)
    BY <1>k DEF EventKept
  <2>4. JobSound(w)'
    BY <2>1 DEF JobSound
  <2>5. \A v \in Workers : WorkerKept(v)
    BY <1>k, <2>1, <2>4 DEF WorkerKept
  <2> QED
    BY <1>k, <2>2, <2>3, <2>5, SessionsUntouched DEF Goal
<1>n. ASSUME NEW e \in Events, events[e].attempts < MaxAttempts
      PROVE  /\ Counted(e) \in [Events -> EventRow] /\ Counted(e)[e].status = events[e].status
             /\ \A x \in Events \ {e} : Counted(e)[x] = events[x]
             /\ [Counted(e) EXCEPT ![e].status = "received"] \in [Events -> EventRow]
             /\ [Counted(e) EXCEPT ![e].status = "received"][e].status = "received"
             /\ \A x \in Events \ {e} : [Counted(e) EXCEPT ![e].status = "received"][x] = events[x]
  <2>1. /\ Counted(e) \in [Events -> EventRow]
        /\ [Counted(e) EXCEPT ![e].status = "received"] \in [Events -> EventRow]
    BY <1>n, CountedType
  <2>2. /\ Counted(e)[e].status = events[e].status
        /\ \A x \in Events \ {e} : Counted(e)[x] = events[x]
    BY DEF Counted, EventRow
  <2> QED
    BY <2>1, <2>2 DEF EventRow
<1>9. ASSUME NEW w \in Workers, NEW e \in Events, DeliverWebhook(w, e) PROVE Goal
  <2>1. /\ events' \in [Events -> EventRow]
        /\ \A x \in Events \ {e} : events'[x] = events[x]
        /\ events'[e].status = IF events[e].status = "absent" THEN "received" ELSE events[e].status
    BY <1>9, <1>n DEF DeliverWebhook
  <2> QED
    BY <1>9, <1>k, <2>1 DEF DeliverWebhook
<1>10. ASSUME NEW w \in Workers, NEW e \in Events, SweepClaims(w, e) PROVE Goal
    BY <1>10, <1>k, <1>n DEF SweepClaims, Due
<1>11. ASSUME NEW w \in Workers, NEW e \in Events, StaffRetries(w, e) PROVE Goal
    BY <1>11, <1>k, <1>n DEF StaffRetries
<1>12. ASSUME NEW w \in Workers, ReadSession(w) PROVE Goal
  <2>1. /\ Reads(w)
        /\ workers' \in [Workers -> Job \cup {Idle}]
        /\ \A other \in Workers \ {w} : workers'[other] = workers[other]
        /\ workers[w].step # "idle"
        /\ UNCHANGED <<Payload, sessions, orders, events, standard, made, unblocked>>
    BY <1>12, ReadMoves DEF ReadSession, At
  <2>2. TypeOK'
    BY <1>t, <2>1 DEF TypeOK
  <2>3. WorkerKept(w)
    <3>1. CASE workers'[w] = Idle
      BY <3>1 DEF WorkerKept
    <3>2. CASE workers'[w] # Idle
      <4>1. Body(w)' = Body(w) /\ events'[workers'[w].event].status # "absent"
        BY <2>1, <3>2 DEF Reads, Body, Typed, ClaimedIsStored
      <4>2. JobSound(w)'
        BY <2>1, <3>2, <4>1 DEF Reads, JobSound, Exists
      <4> QED
        BY <4>1, <4>2 DEF WorkerKept
    <3> QED
      BY <3>1, <3>2
  <2>4. \A v \in Workers : WorkerKept(v)
    BY <2>1, <2>3 DEF WorkerKept
  <2>5. \A e \in Events : EventKept(e)
    BY <2>1 DEF EventKept
  <2>6. UNCHANGED <<Payload, sessions, orders, standard, made, unblocked>>
    BY <2>1
  <2>7. Typed' /\ BreezeInv'
    BY <2>2, <2>4, <2>5, <2>6, SessionsUntouched
  <2> QED
    BY <2>7 DEF Goal
<1>w. ASSUME NEW w \in Workers, workers[w].step # "idle",
             UNCHANGED <<Payload, sessions, orders, events, standard, made, unblocked>>,
             NEW step, NEW outcome, Moved(w, step, outcome), JobSound(w)'
      PROVE  Goal
  <2>1. TypeOK'
    BY <1>w, <1>t DEF TypeOK, Moved
  <2>2. \A v \in Workers : WorkerKept(v)
    BY <1>w, MovedWorker
  <2>3. \A e \in Events : EventKept(e)
    BY <1>w DEF EventKept
  <2> QED
    BY <1>w, <2>1, <2>2, <2>3, SessionsUntouched DEF Goal
<1>s. ASSUME NEW w \in Workers, workers[w].step # "idle", NEW step, NEW outcome, Moved(w, step, outcome),
             NEW s \in Sessions, SessionKept(s), JobSound(w)',
             sessions' \in [Sessions -> SessionRow], orders' \in [Sessions -> OrderRow], made' \in [Sessions -> Nat],
             \A x \in Sessions \ {s} : sessions'[x] = sessions[x] /\ orders'[x] = orders[x] /\ made'[x] = made[x],
             sessions'[s].processing_status = "awaiting_webhook" => sessions[s].processing_status = "awaiting_webhook",
             unblocked' \in {unblocked, unblocked \cup {s}},
             UNCHANGED <<Payload, events, standard>>
      PROVE  Goal
  <2>1. TypeOK'
    BY <1>s, <1>t DEF TypeOK, Moved
  <2>2. \A v \in Workers : WorkerKept(v)
    BY <1>s, MovedWorker
  <2>3. NoneStarted
    BY <1>s DEF NoneStarted
  <2> QED
    BY <1>s, <2>1, <2>2, <2>3, SessionStep DEF Goal
<1>13. ASSUME NEW w \in Workers, RecordProviderReferences(w) PROVE Goal
  <2>0. workers[w].step # "idle"
    BY <1>13 DEF RecordProviderReferences, At
  <2>b. PICK b : b = Body(w)
    OBVIOUS
  <2>1. PICK s \in Sessions : b = Body(w) /\ s = b.session /\ b.ref \in Refs
    BY <2>0, <2>b, JobTypes
  <2>2. /\ workers[w].step = "refs" /\ workers[w].step # "idle"
        /\ UNCHANGED <<Payload, orders, events, standard, made, unblocked>>
    BY <1>13 DEF RecordProviderReferences, At
  <2>e. Exists(s)
    BY <1>j, <2>1, <2>2 DEF JobSound
  <2>3. PICK step \in {"park", "fail", "order"} :
            /\ Goto(w, step)
            /\ step = "fail" => b.class = "failed"
            /\ UNCHANGED sessions \/ sessions' = [sessions EXCEPT ![s].breeze_order_id = b.ref]
    <3>1. CASE Conflict(s, b.ref)
      BY <1>13, <2>1, <3>1, Zenon DEF RecordProviderReferences
    <3>2. CASE ~Conflict(s, b.ref)
      <4>1. /\ sessions' = [sessions EXCEPT ![s].breeze_order_id = b.ref]
            /\ Goto(w, CASE b.class = "failed" -> "fail" [] RefusedByVerification(b) -> "park" [] OTHER -> "order")
        BY <1>13, <2>1, <3>2, Zenon DEF RecordProviderReferences
      <4>2. PICK step : step = CASE b.class = "failed" -> "fail" [] RefusedByVerification(b) -> "park" [] OTHER -> "order"
        OBVIOUS
      <4>3. step \in {"park", "fail", "order"} /\ (step = "fail" => b.class = "failed")
        BY <4>2 DEF RefusedByVerification
      <4> QED
        BY <4>1, <4>2, <4>3, Zenon
    <3> QED
      BY <3>1, <3>2
  <2>4. /\ sessions' \in [Sessions -> SessionRow]
        /\ sessions'[s].processing_status = sessions[s].processing_status
        /\ sessions'[s].order = sessions[s].order
        /\ \A x \in Sessions \ {s} : sessions'[x] = sessions[x]
    BY <2>1, <2>3 DEF SessionRow
  <2>5. SessionKept(s)
    BY <1>t, <2>2, <2>4, <2>e DEF SessionKept, SessionSound, Exists, Captured
  <2>6. Moved(w, step, workers[w].outcome)
    BY <2>2, <2>3, GotoMoves
  <2>7. JobSound(w)'
    <3>1. Body(w)' = b
      BY <2>1, <2>2, <2>6, MovedWorker
    <3> QED
      BY <2>1, <2>2, <2>3, <2>4, <2>6, <2>e, <3>1 DEF JobSound, Moved, Exists
  <2>8. /\ orders' \in [Sessions -> OrderRow] /\ made' \in [Sessions -> Nat]
        /\ unblocked' \in {unblocked, unblocked \cup {s}}
    BY <1>t, <2>2 DEF TypeOK
  <2> QED
    BY <1>s, <2>2, <2>4, <2>5, <2>6, <2>7, <2>8
<1>14. ASSUME NEW w \in Workers, ParkSession(w) PROVE Goal
  <2>1. workers[w].step = "park" /\ workers[w].step # "idle" /\ UNCHANGED <<Payload, orders, events, standard, made>>
    BY <1>14 DEF ParkSession, At
  <2>2. PICK s \in Sessions : s = Body(w).session
    BY <2>1, JobTypes
  <2>e. Exists(s)
    BY <1>j, <2>1, <2>2 DEF JobSound
  <2>3. /\ sessions' = [sessions EXCEPT ![s].processing_status = "reconciliation_required"]
        /\ unblocked' = unblocked
    BY <1>14, <2>2 DEF ParkSession, MarkSession
  <2>4. /\ sessions' \in [Sessions -> SessionRow]
        /\ sessions'[s].processing_status = "reconciliation_required"
        /\ \A x \in Sessions : sessions'[x].order = sessions[x].order
        /\ \A x \in Sessions \ {s} : sessions'[x] = sessions[x]
    BY <2>3, StatusWritten
  <2>5. SessionKept(s)
    BY <1>t, <2>1, <2>3, <2>4, <2>e DEF SessionKept, SessionSound, Exists, Captured
  <2>6. Moved(w, "finish", "reconciliation_required")
    BY <1>14, <2>1, AnswerMoves DEF ParkSession
  <2>7. JobSound(w)'
    BY <2>6 DEF JobSound, Moved
  <2>8. orders' \in [Sessions -> OrderRow] /\ made' \in [Sessions -> Nat]
    BY <1>t, <2>1 DEF TypeOK
  <2> QED
    BY <1>s, <2>1, <2>3, <2>4, <2>5, <2>6, <2>7, <2>8
<1>15. ASSUME NEW w \in Workers, RecordFailure(w) PROVE Goal
  <2>1. workers[w].step = "fail" /\ workers[w].step # "idle" /\ UNCHANGED <<Payload, events, standard, made>>
    BY <1>15 DEF RecordFailure, At
  <2>2. PICK s \in Sessions : s = Body(w).session
    BY <2>1, JobTypes
  <2>e. Exists(s) /\ Body(w).class = "failed"
    BY <1>j, <2>1, <2>2 DEF JobSound
  <2>6. Moved(w, "finish", "processed")
    BY <1>15, <2>1, AnswerMoves DEF RecordFailure
  <2>7. JobSound(w)'
    <3>1. Body(w)' = Body(w)
      BY <2>1, <2>6, MovedWorker
    <3> QED
      BY <2>6, <2>e, <3>1 DEF JobSound, Moved
  <2>8. orders \in [Sessions -> OrderRow] /\ made' \in [Sessions -> Nat]
    BY <1>t, <2>1 DEF TypeOK
  <2>9. CASE MarkSession(s, "failed") /\ UNCHANGED orders
    <3>1. /\ sessions' = [sessions EXCEPT ![s].processing_status = "failed"]
          /\ unblocked' = unblocked \cup {s}
      BY <2>9 DEF MarkSession
    <3>2. /\ sessions' \in [Sessions -> SessionRow]
          /\ sessions'[s].processing_status = "failed"
          /\ \A x \in Sessions : sessions'[x].order = sessions[x].order
          /\ \A x \in Sessions \ {s} : sessions'[x] = sessions[x]
      BY <3>1, StatusWritten
    <3>3. SessionKept(s)
      BY <1>t, <2>1, <2>9, <3>1, <3>2 DEF SessionKept, SessionSound, Exists, Captured
    <3> QED
      BY <1>s, <2>1, <2>6, <2>7, <2>8, <2>9, <3>1, <3>2, <3>3
  <2>10. CASE /\ orders' = IF orders[s].payment = "pending" /\ orders[s].provider = "breeze"
                           THEN [orders EXCEPT ![s].payment = "failed"] ELSE orders
              /\ UNCHANGED <<sessions, unblocked>>
    <3>1. /\ orders' \in [Sessions -> OrderRow]
          /\ \A x \in Sessions \ {s} : orders'[x] = orders[x]
          /\ orders'[s].provider = orders[s].provider /\ orders'[s].status = orders[s].status
          /\ orders'[s].exception = orders[s].exception
          /\ orders'[s].payment = IF orders[s].payment = "pending" /\ orders[s].provider = "breeze"
                                  THEN "failed" ELSE orders[s].payment
      BY <2>8, <2>10 DEF OrderRow
    <3>r. FailureReported(s)
      BY <2>1, <2>2, <2>e, JobTypes DEF FailureReported, Body, Typed, ClaimedIsStored
    <3>2. SessionKept(s)
      BY <1>t, <2>1, <2>10, <3>1, <3>r DEF SessionKept, SessionSound, Exists, Captured
    <3> QED
      BY <1>s, <2>1, <2>6, <2>7, <2>8, <2>10, <3>1, <3>2
  <2> QED
    BY <1>15, <2>2, <2>9, <2>10 DEF RecordFailure
<1>16. ASSUME NEW w \in Workers, EnsureOrderAndPayment(w) PROVE Goal
  <2>1. /\ workers[w].step = "order" /\ workers[w].step # "idle"
        /\ Goto(w, "settle") /\ UNCHANGED <<Payload, events, standard, unblocked>>
    BY <1>16 DEF EnsureOrderAndPayment, At
  <2>2. PICK s \in Sessions : s = Body(w).session
    BY <2>1, JobTypes
  <2>e. Exists(s)
    BY <1>j, <2>1, <2>2 DEF JobSound
  <2>6. Moved(w, "settle", workers[w].outcome)
    BY <2>1, GotoMoves
  <2>3. Body(w)' = Body(w)
    BY <2>1, <2>6, MovedWorker
  <2>7. Exists(s)' /\ sessions'[s].order => JobSound(w)'
    BY <2>2, <2>3, <2>6 DEF JobSound, Moved
  <2>8. /\ sessions \in [Sessions -> SessionRow] /\ orders \in [Sessions -> OrderRow]
        /\ made \in [Sessions -> Nat]
    BY <1>t DEF TypeOK
  <2>9. CASE sessions[s].order
    <3>1. UNCHANGED <<sessions, orders, made>>
      BY <1>16, <2>2, <2>9 DEF EnsureOrderAndPayment, NeedsOrder
    <3>2. SessionKept(s) /\ Exists(s)' /\ sessions'[s].order
      BY <2>1, <2>9, <2>e, <3>1, SessionFrame DEF Exists
    <3> QED
      BY <1>s, <2>1, <2>6, <2>7, <2>8, <3>1, <3>2
  <2>10. CASE ~sessions[s].order
    <3>1. PICK row : row = [status |-> "pending", payment |-> "pending", exception |-> FALSE,
                            provider |-> IF Body(w).cod THEN "cod" ELSE "breeze"]
      OBVIOUS
    <3>2. sessions' = [sessions EXCEPT ![s].order = TRUE, ![s].processing_status = "order_created"]
      BY <1>16, <2>2, <2>10 DEF EnsureOrderAndPayment, NeedsOrder
    <3>a. orders' = [orders EXCEPT ![s] = row]
      BY <1>16, <2>2, <2>10, <3>1 DEF EnsureOrderAndPayment, NeedsOrder
    <3>b. made' = [made EXCEPT ![s] = made[s] + 1]
      BY <1>16, <2>2, <2>10 DEF EnsureOrderAndPayment, NeedsOrder
    <3>3. row \in OrderRow /\ row.payment = "pending"
      BY <3>1 DEF OrderRow
    <3>4. /\ sessions' \in [Sessions -> SessionRow]
          /\ sessions'[s].processing_status = "order_created" /\ sessions'[s].order
          /\ \A x \in Sessions \ {s} : sessions'[x] = sessions[x]
      <4>1. PICK opened : opened = [sessions[s] EXCEPT !.order = TRUE, !.processing_status = "order_created"]
        OBVIOUS
      <4>2. opened \in SessionRow /\ opened.processing_status = "order_created" /\ opened.order
        <5>0. PICK yes \in BOOLEAN : yes = TRUE
          OBVIOUS
        <5>1. PICK ordered : ordered = [sessions[s] EXCEPT !.order = yes]
          OBVIOUS
        <5>2. ordered \in SessionRow /\ ordered.order = yes
          BY <2>8, <5>1 DEF SessionRow
        <5>3. opened = [ordered EXCEPT !.processing_status = "order_created"]
          BY <4>1, <5>0, <5>1, Zenon
        <5>4. opened \in SessionRow /\ opened.processing_status = "order_created" /\ opened.order = yes
          BY <5>2, <5>3, RowValues DEF SessionRow
        <5> QED
          BY <5>0, <5>4
      <4>3. sessions' = [sessions EXCEPT ![s] = opened]
        BY <2>8, <3>2, <4>1
      <4> QED
        BY <2>8, <4>2, <4>3
    <3>5. /\ orders' \in [Sessions -> OrderRow] /\ orders'[s] = row
          /\ \A x \in Sessions \ {s} : orders'[x] = orders[x]
      BY <2>8, <3>3, <3>a
    <3>6. /\ made' \in [Sessions -> Nat] /\ made'[s] = made[s] + 1
          /\ \A x \in Sessions \ {s} : made'[x] = made[x]
      BY <2>8, <3>b
    <3>7. SessionKept(s)
      <4>0. made[s] <= 1 /\ (made[s] = 1 <=> sessions[s].order)
        BY <1>t DEF SessionSound
      <4>a. made[s] <= 1 /\ made[s] # 1 /\ made[s] \in Nat
        BY <2>8, <2>10, <4>0, Zenon
      <4>1. made[s] = 0
        BY <4>a
      <4>2. SessionSound(s)'
        BY <1>t, <2>1, <2>e, <3>3, <3>4, <3>5, <3>6, <4>1 DEF SessionSound, Exists
      <4> QED
        BY <2>10, <3>3, <3>4, <3>5, <4>2 DEF SessionKept, Exists, Captured
    <3>8. JobSound(w)'
      BY <2>7, <3>4 DEF Exists
    <3> QED
      BY <1>s, <2>1, <2>6, <3>4, <3>5, <3>6, <3>7, <3>8
  <2> QED
    BY <2>9, <2>10
<1>17. ASSUME NEW w \in Workers, Settle(w) PROVE Goal
  <2>1. /\ workers[w].step = "settle" /\ workers[w].step # "idle"
        /\ UNCHANGED <<Payload, sessions, events, standard, made, unblocked>>
    BY <1>17 DEF Settle, At
  <2>2. PICK s \in Sessions, cod \in BOOLEAN : s = Body(w).session /\ cod = Body(w).cod
    BY <2>1, JobTypes
  <2>e. Exists(s) /\ sessions[s].order
    BY <1>j, <2>1, <2>2 DEF JobSound
  <2>8. /\ sessions \in [Sessions -> SessionRow] /\ orders \in [Sessions -> OrderRow]
        /\ made \in [Sessions -> Nat]
    BY <1>t DEF TypeOK
  <2>3. \E step \in {"mark", "park"} :
            /\ Goto(w, step)
            /\ orders' \in [Sessions -> OrderRow]
            /\ \A x \in Sessions \ {s} : orders'[x] = orders[x]
            /\ step = "mark" => Captured(s, cod)'
            /\ Forward(s)
    <3>1. PICK inStock \in BOOLEAN : IF cod THEN SettleCod(w, s, inStock) ELSE SettlePaid(w, s, inStock)
      BY <1>17, <2>2 DEF Settle
    <3>2. CASE cod /\ SettleCod(w, s, inStock)
      <4>1. CASE /\ orders[s].provider = "cod" /\ orders[s].payment = "pending"
                 /\ orders' = [orders EXCEPT ![s].status = "confirmed"] /\ Goto(w, "mark")
        <5>1. /\ orders' \in [Sessions -> OrderRow]
              /\ \A x \in Sessions \ {s} : orders'[x] = orders[x]
              /\ orders'[s].provider = "cod" /\ orders'[s].payment = "pending" /\ orders'[s].status = "confirmed"
          BY <2>8, <4>1 DEF OrderRow
        <5> QED
          BY <2>1, <2>e, <3>2, <4>1, <5>1 DEF Captured, Forward
      <4>2. CASE /\ orders[s].provider = "cod" /\ orders[s].payment = "pending" /\ orders[s].status = "confirmed"
                 /\ UNCHANGED orders /\ Goto(w, "mark")
        BY <1>t, <2>1, <2>8, <2>e, <3>2, <4>2 DEF Captured, Forward, SessionSound
      <4>3. CASE UNCHANGED orders /\ Goto(w, "park")
        BY <1>t, <2>8, <4>3 DEF SessionSound, Forward
      <4> QED
        BY <3>2, <4>1, <4>2, <4>3 DEF SettleCod, CodRefused
    <3>3. CASE ~cod /\ SettlePaid(w, s, inStock)
      <4>1. CASE /\ orders[s].payment = "pending" /\ orders[s].provider = "breeze" /\ Goto(w, "mark")
                 /\ LET confirms == orders[s].status = "pending" /\ inStock
                    IN orders' = [orders EXCEPT ![s].payment = "paid", ![s].exception = ~confirms,
                                                ![s].status = IF confirms THEN "confirmed" ELSE @]
        <5>1. PICK confirms \in BOOLEAN : confirms = (orders[s].status = "pending" /\ inStock)
          OBVIOUS
        <5>2. PICK exception \in BOOLEAN : exception = ~confirms
          OBVIOUS
        <5>3. PICK status : status = IF confirms THEN "confirmed" ELSE orders[s].status
          OBVIOUS
        <5>4. orders' = [orders EXCEPT ![s].payment = "paid", ![s].exception = exception, ![s].status = status]
          BY <2>8, <4>1, <5>1, <5>2, <5>3 DEF OrderRow
        <5>5. /\ orders' \in [Sessions -> OrderRow]
              /\ \A x \in Sessions \ {s} : orders'[x] = orders[x]
              /\ orders'[s].payment = "paid" /\ orders'[s].exception = exception /\ orders'[s].status = status
              /\ orders'[s].provider = orders[s].provider
          <6>1. PICK row : row = [orders[s] EXCEPT !.payment = "paid", !.exception = exception, !.status = status]
            OBVIOUS
          <6>2. row \in OrderRow /\ row.payment = "paid" /\ row.exception = exception /\ row.status = status
                /\ row.provider = orders[s].provider
            <7>0. PICK before \in OrderRow : before = orders[s]
              BY <2>8
            <7>1. PICK paid : paid = [before EXCEPT !.payment = "paid"]
              OBVIOUS
            <7>2. PICK flagged : flagged = [paid EXCEPT !.exception = exception]
              OBVIOUS
            <7>3. row = [flagged EXCEPT !.status = status]
              BY <6>1, <7>0, <7>1, <7>2, Zenon
            <7>4. paid \in OrderRow /\ paid.payment = "paid" /\ paid.provider = before.provider
              BY <7>1 DEF OrderRow
            <7>5. flagged \in OrderRow /\ flagged.payment = "paid" /\ flagged.exception = exception
                  /\ flagged.provider = before.provider
              BY <7>2, <7>4 DEF OrderRow
            <7>6. status \in {"absent", "pending", "confirmed", "cancelled"}
              BY <2>8, <5>3 DEF OrderRow
            <7> QED
              BY <7>0, <7>3, <7>5, <7>6 DEF OrderRow
          <6>3. orders' = [orders EXCEPT ![s] = row]
            BY <2>8, <5>4, <6>1
          <6> QED
            BY <2>8, <6>2, <6>3, Zenon
        <5>6. (status = "confirmed" \/ exception) /\ (orders[s].status # "pending" => status # "pending")
          BY <5>1, <5>2, <5>3
        <5> QED
          BY <2>1, <2>e, <3>3, <4>1, <5>5, <5>6 DEF Captured, Forward
      <4>2. CASE orders[s].provider = "breeze" /\ orders[s].payment # "pending" /\ UNCHANGED orders /\ Goto(w, "mark")
        BY <1>t, <2>1, <2>8, <2>e, <3>3, <4>2 DEF Captured, SessionSound, Forward
      <4>3. CASE UNCHANGED orders /\ Goto(w, "park")
        BY <1>t, <2>8, <4>3 DEF SessionSound, Forward
      <4> QED
        BY <3>3, <4>1, <4>2, <4>3 DEF SettlePaid
    <3> QED
      BY <3>1, <3>2, <3>3
  <2>4. PICK step \in {"mark", "park"} :
            /\ Goto(w, step)
            /\ orders' \in [Sessions -> OrderRow]
            /\ \A x \in Sessions \ {s} : orders'[x] = orders[x]
            /\ step = "mark" => Captured(s, cod)'
            /\ Forward(s)
    BY <2>3
  <2>5. SessionKept(s)
    BY <1>t, <2>1, <2>4 DEF SessionKept, SessionSound, Exists, Captured, Forward
  <2>6. Moved(w, step, workers[w].outcome)
    BY <2>1, <2>4, GotoMoves
  <2>7. JobSound(w)'
    <3>1. Body(w)' = Body(w)
      BY <2>1, <2>6, MovedWorker
    <3> QED
      BY <2>1, <2>2, <2>4, <2>6, <2>e, <3>1 DEF JobSound, Moved, Exists
  <2>9. sessions' \in [Sessions -> SessionRow] /\ made' \in [Sessions -> Nat]
    BY <2>1, <2>8
  <2> QED
    BY <1>s, <2>1, <2>4, <2>5, <2>6, <2>7, <2>9
<1>18. ASSUME NEW w \in Workers, MarkFinalized(w) PROVE Goal
  <2>1. workers[w].step = "mark" /\ workers[w].step # "idle" /\ UNCHANGED <<Payload, orders, events, standard, made>>
    BY <1>18 DEF MarkFinalized, At
  <2>2. PICK s \in Sessions, cod \in BOOLEAN : s = Body(w).session /\ cod = Body(w).cod
    BY <2>1, JobTypes
  <2>e. Exists(s) /\ Captured(s, cod)
    BY <1>j, <2>1, <2>2 DEF JobSound
  <2>3. /\ sessions' = [sessions EXCEPT ![s].processing_status = "finalized"]
        /\ unblocked' = unblocked \cup {s}
    BY <1>18, <2>2 DEF MarkFinalized
  <2>4. /\ sessions' \in [Sessions -> SessionRow]
        /\ sessions'[s].processing_status = "finalized"
        /\ \A x \in Sessions : sessions'[x].order = sessions[x].order
        /\ \A x \in Sessions \ {s} : sessions'[x] = sessions[x]
    BY <2>3, StatusWritten
  <2>5. SessionKept(s)
    BY <1>t, <2>1, <2>3, <2>4 DEF SessionKept, SessionSound, Exists, Captured
  <2>6. Moved(w, "finish", "processed")
    BY <1>18, <2>1, AnswerMoves DEF MarkFinalized
  <2>7. JobSound(w)'
    <3>1. Body(w)' = Body(w)
      BY <2>1, <2>6, MovedWorker
    <3> QED
      BY <2>2, <2>5, <2>6, <2>e, <3>1 DEF JobSound, Moved, SessionKept
  <2>8. orders' \in [Sessions -> OrderRow] /\ made' \in [Sessions -> Nat]
    BY <1>t, <2>1 DEF TypeOK
  <2> QED
    BY <1>s, <2>1, <2>3, <2>4, <2>5, <2>6, <2>7, <2>8
<1>19. ASSUME NEW w \in Workers, FinishEvent(w) PROVE Goal
  <2>1. /\ workers[w].step = "finish" /\ workers[w].step # "idle"
        /\ workers' = [workers EXCEPT ![w] = Idle]
        /\ UNCHANGED <<Payload, sessions, orders, standard, made, unblocked>>
    BY <1>19 DEF FinishEvent, At
  <2>2. PICK e \in Events : e = workers[w].event
    BY <2>1, JobTypes
  <2>3. PICK status : status = IF workers[w].outcome # workers[w].loaded THEN workers[w].outcome ELSE events[e].status
    OBVIOUS
  <2>4. events' = [events EXCEPT ![e].status = status]
    BY <1>19, <2>2, <2>3 DEF FinishEvent
  <2>5. workers[w].outcome \in EventStatus /\ events[e].status \in EventStatus
    BY <2>1, <2>2, RowTypes DEF Job, Typed, ClaimedIsStored, EventRow
  <2>6. /\ events' \in [Events -> EventRow] /\ events'[e].status = status
        /\ \A x \in Events \ {e} : events'[x] = events[x]
        /\ status # "absent"
        /\ status = "processed" => workers[w].outcome = "processed" \/ events[e].status = "processed"
    BY <2>3, <2>4, <2>5 DEF EventRow, EventStatus
  <2>7. EventKept(e)
    <3>1. Payload[e] = Body(w) /\ Payload[e].session \in Sessions
      BY <2>1, <2>2, JobTypes DEF Body
    <3>2. Captured(Payload[e].session, Payload[e].cod)' <=> Captured(Payload[e].session, Payload[e].cod)
      BY <2>1, <3>1 DEF Captured
    <3> QED
      BY <1>j, <2>1, <2>6, <3>1, <3>2 DEF EventKept, JobSound
  <2>8. \A x \in Events : EventKept(x)
    BY <2>6, <2>7 DEF EventKept
  <2>9. /\ workers' \in [Workers -> Job \cup {Idle}]
        /\ \A v \in Workers : WorkerKept(v)
    BY <2>1 DEF WorkerKept
  <2>10. TypeOK'
    BY <1>t, <2>1, <2>6, <2>9 DEF TypeOK
  <2> QED
    BY <2>1, <2>8, <2>9, <2>10, SessionsUntouched DEF Goal
<1>20. ASSUME NEW w \in Workers, WorkerDies(w) PROVE Goal
  <2>1. /\ workers' = [workers EXCEPT ![w] = Idle]
        /\ UNCHANGED <<Payload, sessions, orders, events, standard, made, unblocked>>
    BY <1>20 DEF WorkerDies
  <2>2. /\ workers' \in [Workers -> Job \cup {Idle}]
        /\ \A v \in Workers : WorkerKept(v)
    BY <2>1 DEF WorkerKept
  <2>3. TypeOK'
    BY <1>t, <2>1, <2>2 DEF TypeOK
  <2>4. \A e \in Events : EventKept(e)
    BY <2>1 DEF EventKept
  <2> QED
    BY <2>1, <2>2, <2>3, <2>4, SessionsUntouched DEF Goal
<1>21. ASSUME Next PROVE Goal
    BY <1>2, <1>3, <1>4, <1>5, <1>6, <1>7, <1>8, <1>9, <1>10, <1>11, <1>12, <1>13, <1>14, <1>15, <1>16,
       <1>17, <1>18, <1>19, <1>20, <1>21, Zenon
       DEF Next, WorkerSteps, BuyerReleases, StaffReleases, BreezeReportsAbandoned
<1> QED
    BY <1>1, <1>21 DEF Goal

LEMMA BreezeCorrect == Spec => [](Typed /\ BreezeInv)
<1>1. Init => Typed /\ BreezeInv
    BY InitType, InitBreeze
<1> QED
    BY <1>1, StepBreeze, PTL DEF Spec

-----------------------------------------------------------------------------

\* However often an event is delivered, claimed past its lease by the job or retried by
\* staff, and wherever its handlers die, a session gets one order and keeps it
\* (ensureOrderAndPayment under the lock of the session).
THEOREM OrderMadeOnce == Spec => []OneOrderPerSession
<1> QED
    BY BreezeCorrect, InvImplies, PTL

\* A capture answered as processed is recorded on its order, which is confirmed or flagged,
\* through every interleaving of its handlers with staff, failures and other events of the
\* session; or else Breeze had reported the checkout failed, that failure is what the
\* payment says, and the capture is recorded nowhere (NOOP_ALREADY_TERMINAL).
THEOREM CaptureRecordedOrParked == Spec => []CaptureNotDropped
<1> QED
    BY BreezeCorrect, InvImplies, PTL

\* While a session that never stopped blocking its buyer has an unknown outcome, PayU
\* and cash have no attempt of its cart (assertNoUnresolvedForCart, MayStartBreeze).
THEOREM ProvidersExcludeEachOther == Spec => []CrossProviderExclusion
<1> QED
    BY BreezeCorrect, InvImplies, PTL

\* At most one session of a cart waits for its first webhook, however releases, new
\* sessions and late events follow each other.
THEOREM OneWaitingSession == Spec => []OneSessionPerCart
<1> QED
    BY BreezeCorrect, InvImplies, PTL
=============================================================================
