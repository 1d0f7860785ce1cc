------------------------------- MODULE Reviews -------------------------------
(***************************************************************************)
(* Product reviews (ReviewModels/review.service.ts): customers write one   *)
(* review of a product they received, change it later, and administrators  *)
(* decide which are shown, change or delete them and write some of their   *)
(* own.  One product.  Handlers read a row without a lock and later write  *)
(* only the columns that differ from what they read.  A review's text is   *)
(* the number of times it was written; its rating, title and date go with  *)
(* the text.                                                               *)
(***************************************************************************)
EXTENDS Naturals, FiniteSets

CONSTANTS Customers, \* positive numbers
          ReviewIds, \* ids in the order the sequence hands them out
          Requests,
          MaxText    \* bound on the texts of a review

VARIABLES delivered, \* customers with a delivered item of the product
          reviews,   \* reviews[i]: the row; no row after a hard delete
          requests,  \* what each request has read
          page,      \* the review an administrator has on screen
          used       \* number of ids the sequence has handed out

vars == <<delivered, reviews, requests, page, used>>

None == [none |-> TRUE]
Nobody == 0 \* an administrator's review belongs to no customer
Statuses == {"pending", "approved", "rejected"}
Existing == {i \in ReviewIds : reviews[i] # None}
ByCustomer(c) == {i \in Existing : reviews[i].user = c}
Free(r) == requests[r] = None
Request(r, request) == requests' = [requests EXCEPT ![r] = request]
Handling(r, kind) == requests[r] # None /\ requests[r].kind = kind /\ Request(r, None)

(* An order with the product reaches "delivered", which nothing takes back. *)
Deliver(c) ==
    /\ c \notin delivered /\ delivered' = delivered \cup {c}
    /\ UNCHANGED <<reviews, requests, page, used>>

(* `vouched` is a ghost: an administrator saw the text when deciding, or   *)
(* wrote it, or its writing overlapped the decision.                       *)
Insert(row) ==
    /\ used + 1 \in ReviewIds
    /\ used' = used + 1
    /\ reviews' = [reviews EXCEPT ![used + 1] = row]

(* createReview: no review yet, and a delivered item; then the insert, *)
(* which the unique key on customer and product may refuse.            *)
BeginCreateReview(r, c) ==
    /\ Free(r) /\ ByCustomer(c) = {} /\ c \in delivered
    /\ Request(r, [kind |-> "create", user |-> c])
    /\ UNCHANGED <<delivered, reviews, page, used>>

NeverTaken(c) == FALSE \* mutant: no unique key
Taken(c) == ByCustomer(c) # {}

CreateReview(r) ==
    /\ Handling(r, "create")
    /\ \/ Taken(requests[r].user) /\ UNCHANGED <<reviews, used>>
       \/ /\ ~Taken(requests[r].user)
          /\ Insert([user |-> requests[r].user, status |-> "pending", text |-> 1, verified |-> TRUE, vouched |-> FALSE])
    /\ UNCHANGED <<delivered, page>>

(* createAdminReview: no customer, never verified, any status. *)
CreateAdminReview ==
    /\ \E s \in Statuses :
         Insert([user |-> Nobody, status |-> s, text |-> 1, verified |-> FALSE, vouched |-> TRUE])
    /\ UNCHANGED <<delivered, requests, page>>

(* updateOwnReview: read the row, later write a new text and "pending". *)
BeginUpdateOwnReview(r, c) ==
    /\ Free(r)
    /\ \E i \in ByCustomer(c) : Request(r, [kind |-> "edit", id |-> i, seen |-> reviews[i].status])
    /\ UNCHANGED <<delivered, reviews, page, used>>

(* update() writes a column only when it differs from the row read. *)
Changed(now, seen, value) == IF seen = value THEN now ELSE value
EditedInPlace(row, seen) == [row EXCEPT !.text = @ + 1, !.vouched = row.status # seen] \* mutant: the decision stays
Edited(row, seen) ==
    [row EXCEPT !.text = @ + 1, !.status = Changed(@, seen, "pending"), !.vouched = row.status # seen]

UpdateOwnReview(r) ==
    LET q == requests[r]
    IN  /\ Handling(r, "edit")
        /\ IF q.id \in Existing
           THEN /\ reviews[q.id].text < MaxText
                /\ reviews' = [reviews EXCEPT ![q.id] = Edited(@, q.seen)]
           ELSE UNCHANGED reviews
        /\ UNCHANGED <<delivered, page, used>>

(* getAdminReview: an administrator opens a review. *)
GetAdminReview ==
    /\ \E i \in Existing : page' = [id |-> i, text |-> reviews[i].text]
    /\ UNCHANGED <<delivered, reviews, requests, used>>

(* updateReviewStatus: the decision on the review on screen; the handler   *)
(* reads the row, later writes the status and, if changed too, the text.   *)
BeginUpdateReviewStatus(r) ==
    /\ Free(r) /\ page # None /\ page.id \in Existing
    /\ \E s \in Statuses, rewrite \in BOOLEAN :
         Request(r, [kind |-> "moderate", id |-> page.id, status |-> s, rewrite |-> rewrite,
                     shown |-> page.text, seen |-> reviews[page.id].status])
    /\ page' = None
    /\ UNCHANGED <<delivered, reviews, used>>

Moderated(row, q) ==
    [row EXCEPT !.status = Changed(@, q.seen, q.status),
                !.text = IF q.rewrite THEN @ + 1 ELSE @,
                !.vouched = @ \/ q.rewrite \/ q.status = "approved" \/ row.text # q.shown]

UpdateReviewStatus(r) ==
    LET q == requests[r]
    IN  /\ Handling(r, "moderate")
        /\ IF q.id \in Existing
           THEN /\ q.rewrite => reviews[q.id].text < MaxText
                /\ reviews' = [reviews EXCEPT ![q.id] = Moderated(@, q)]
           ELSE UNCHANGED reviews
        /\ UNCHANGED <<delivered, page, used>>

DeleteAdminReview ==
    /\ \E i \in Existing : reviews' = [reviews EXCEPT ![i] = None]
    /\ UNCHANGED <<delivered, requests, page, used>>

Init ==
    /\ delivered = {} /\ page = None /\ used = 0
    /\ reviews = [i \in ReviewIds |-> None]
    /\ requests = [r \in Requests |-> None]

Next ==
    \/ \E c \in Customers : Deliver(c)
    \/ \E r \in Requests, c \in Customers : BeginCreateReview(r, c) \/ BeginUpdateOwnReview(r, c)
    \/ \E r \in Requests : CreateReview(r) \/ UpdateOwnReview(r) \/ BeginUpdateReviewStatus(r) \/ UpdateReviewStatus(r)
    \/ CreateAdminReview \/ GetAdminReview \/ DeleteAdminReview

Spec == Init /\ [][Next]_vars

(***************************************************************************)
(* The shop shows approved reviews, and its averages count exactly those:  *)
(* a text shown is one an administrator saw or wrote, unless its writing   *)
(* overlapped the decision; a customer has at most one review of the       *)
(* product, and one marked as a verified purchase was delivered to them.   *)
(***************************************************************************)
ShownIsVetted ==
    /\ \A i \in Existing : reviews[i].status = "approved" => reviews[i].vouched
    /\ \A c \in Customers : Cardinality(ByCustomer(c)) <= 1
    /\ \A i \in Existing : reviews[i].verified => reviews[i].user \in delivered

TypeOK ==
    /\ delivered \subseteq Customers /\ used \in {0} \cup ReviewIds
    /\ \A i \in Existing : reviews[i].status \in Statuses /\ reviews[i].text \in 1..MaxText
=============================================================================
