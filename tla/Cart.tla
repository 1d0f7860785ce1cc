-------------------------------- MODULE Cart --------------------------------
(***************************************************************************)
(* Carts of customers and guests (CartModels/cart.service.ts).             *)
(*                                                                         *)
(* carts has no unique key on (user_id, status) and cart_items none on     *)
(* (cart_id, product_id, product_variant_id): what keeps a customer to one *)
(* active cart, and a cart to one line per item, is the row a request      *)
(* locks first - the customer's user row, or the guest's cart row.         *)
(* Changing or removing a line and emptying a cart find the cart without a *)
(* lock, and write later.                                                  *)
(*                                                                         *)
(* An item is a product or one of its variants; one that cannot be bought  *)
(* has stock 0.  Prices are in Pricing, coupons of carts are retired.      *)
(***************************************************************************)
EXTENDS Naturals, FiniteSets, FiniteSetsExt

CONSTANTS Customers, Tokens, \* owners of carts: users, and guests' cookies
          Items,
          CartIds, LineIds,  \* initial segments of Nat \ {0}
          Requests,          \* requests served at the same time
          MaxQuantity,       \* MAX_CART_ITEM_QUANTITY
          MaxStock, MaxAsked \* bounds on the stock and on the units asked for

VARIABLES carts, lines, stock, requests,
          placed, \* carts with a pending order
          asked \* history: the units that customers and guests asked for

vars == <<carts, lines, stock, requests, placed, asked>>

Owners == Customers \cup Tokens
None == [missing |-> TRUE]
NoOwner == [anonymous |-> TRUE]
Idle == [op |-> "idle"]

CartRow == [owner : Owners \cup {NoOwner}, status : {"active", "ordered", "abandoned"}]
LineRow == [cart : CartIds, item : Items, quantity : 1..MaxQuantity]

CartsOf(o) == {c \in CartIds : carts[c] # None /\ carts[c].owner = o}
FindActiveCart(o) == {c \in CartsOf(o) : carts[c].status = "active"}
LinesIn(c) == {l \in LineIds : lines[l] # None /\ lines[l].cart = c}
LineOf(c, i) == {l \in LinesIn(c) : lines[l].item = i}
FreeCarts == {c \in CartIds : carts[c] = None}
FreeLines == {l \in LineIds : lines[l] = None}

Without(gone) == [l \in LineIds |-> IF l \in gone THEN None ELSE lines[l]]

-----------------------------------------------------------------------------
(* Locks                                                                   *)

\* A customer's requests queue for the user row; a guest's for the cart row, if there is one.
UnlockedAlways(o) == TRUE \* mutant: the customer's user row is not locked
Unlocked(o) ==
    \A r \in Requests : requests[r].op = "add" /\ requests[r].owner = o => o \in Tokens /\ requests[r].cart = 0
CartUnlocked(c) == \A r \in Requests : requests[r].op = "add" => requests[r].cart # c

-----------------------------------------------------------------------------
(* Adding to a cart                                                        *)

\* findOrCreateCustomerCart looks for an active cart, findOrCreateGuestCart for any cart
\* of the token; 0 when there is none.
FindCart(o) ==
    LET found == IF o \in Customers THEN FindActiveCart(o) ELSE CartsOf(o)
    IN  IF found = {} THEN 0 ELSE Min(found)

BeginAddCartItem(r) ==
    \E o \in Owners, i \in Items, q \in 1..MaxQuantity :
        /\ requests[r] = Idle
        /\ Unlocked(o)
        /\ requests' = [requests EXCEPT ![r] = [op |-> "add", owner |-> o, cart |-> FindCart(o), item |-> i, quantity |-> q]]
        /\ UNCHANGED <<carts, lines, stock, placed, asked>>

\* The cart found, or one made for the request.  When another request has made the guest's
\* cart meanwhile, the insert fails on the token's unique key and that cart is used.
CartFor(r) ==
    IF r.cart # 0 THEN r.cart
    ELSE IF r.owner \in Tokens /\ CartsOf(r.owner) # {} THEN Min(CartsOf(r.owner))
    ELSE Min(FreeCarts)

AddCartItem(r) ==
    LET request == requests[r]
        c == CartFor(request)
        reused == carts[c] # None /\ carts[c].status # "active" \* a guest's old cart starts again, empty
        emptied == IF reused THEN Without(LinesIn(c)) ELSE lines
        line == IF reused THEN {} ELSE LineOf(c, request.item)
        added == LET l == Min(line) IN lines[l].quantity + request.quantity
    IN  /\ request.op = "add"
        /\ request.cart = 0 => FreeCarts # {} /\ CartUnlocked(c)
        /\ line # {} \/ FreeLines # {}
        /\ asked + request.quantity <= MaxAsked
        /\ requests' = [requests EXCEPT ![r] = Idle]
        /\ LET refused == IF line = {} THEN request.quantity > stock[request.item]
                          ELSE added > MaxQuantity \/ added > stock[request.item]
           IN  IF refused THEN UNCHANGED <<carts, lines, asked>>
               ELSE /\ carts' = [carts EXCEPT ![c] = [owner |-> request.owner, status |-> "active"]]
                    /\ lines' = IF line = {}
                                THEN [emptied EXCEPT ![Min({l \in LineIds : emptied[l] = None})] =
                                          [cart |-> c, item |-> request.item, quantity |-> request.quantity]]
                                ELSE [lines EXCEPT ![Min(line)].quantity = added]
                    /\ asked' = asked + request.quantity
        /\ UNCHANGED <<stock, placed>>

-----------------------------------------------------------------------------
(* Changing, removing and clearing: the active cart is read without a lock *)

Touch(op, o, c, l, q) == [op |-> op, owner |-> o, cart |-> c, line |-> l, quantity |-> q]

BeginTouch(r) ==
    \E o \in Owners : \E c \in FindActiveCart(o) :
        /\ requests[r] = Idle
        /\ \/ requests' = [requests EXCEPT ![r] = Touch("clear", o, c, 0, 0)]
           \/ \E l \in LinesIn(c) : requests' = [requests EXCEPT ![r] = Touch("remove", o, c, l, 0)]
           \/ \E l \in LinesIn(c), q \in 1..MaxQuantity : requests' = [requests EXCEPT ![r] = Touch("update", o, c, l, q)]
        /\ UNCHANGED <<carts, lines, stock, placed, asked>>

Found(request) == request.line \in LinesIn(request.cart)

UpdateCartItemQuantity(r) ==
    LET request == requests[r]
        old == lines[request.line].quantity
        more == IF request.quantity > old THEN request.quantity - old ELSE 0
    IN  /\ request.op = "update"
        /\ CartUnlocked(request.cart)
        /\ requests' = [requests EXCEPT ![r] = Idle]
        /\ IF Found(request) /\ request.quantity <= stock[lines[request.line].item]
           THEN /\ asked + more <= MaxAsked
                /\ lines' = [lines EXCEPT ![request.line].quantity = request.quantity]
                /\ asked' = asked + more
           ELSE UNCHANGED <<lines, asked>>
        /\ UNCHANGED <<carts, stock, placed>>

RemoveCartItem(r) ==
    /\ requests[r].op = "remove"
    /\ CartUnlocked(requests[r].cart)
    /\ requests' = [requests EXCEPT ![r] = Idle]
    /\ lines' = IF Found(requests[r]) THEN Without({requests[r].line}) ELSE lines
    /\ UNCHANGED <<carts, stock, placed, asked>>

ClearCart(r) ==
    /\ requests[r].op = "clear"
    /\ CartUnlocked(requests[r].cart)
    /\ requests' = [requests EXCEPT ![r] = Idle]
    /\ lines' = Without(LinesIn(requests[r].cart))
    /\ UNCHANGED <<carts, stock, placed, asked>>

-----------------------------------------------------------------------------
(* A guest signs in                                                        *)

\* The units of item i the customer's cart holds after the merge; 0 when it has no line.
Merged(existing, more, available) ==
    IF available = 0 THEN existing ELSE Min({existing + more, MaxQuantity, available})

QuantityIn(c, i) == IF LineOf(c, i) = {} THEN 0 ELSE lines[Min(LineOf(c, i))].quantity

\* One transaction that locks the user row, the customer's cart and the guest's cart.  The
\* guest's lines are reused for items that the customer did not have: only their ids differ.
MergeGuestCartIntoCustomerCart(u, g) ==
    LET c == IF FindActiveCart(u) = {} THEN Min(FreeCarts) ELSE Min(FindActiveCart(u))
        guest == Min(FindActiveCart(g))
        final(i) == Merged(QuantityIn(c, i), QuantityIn(guest, i), stock[i])
        line(i) == IF LineOf(c, i) # {} THEN LineOf(c, i) ELSE LineOf(guest, i)
        kept == {i \in Items : LineOf(guest, i) # {} /\ final(i) > 0}
    IN  /\ Unlocked(u)
        /\ FindActiveCart(u) # {} \/ FreeCarts # {}
        /\ IF FindActiveCart(g) = {}
           THEN /\ carts' = [carts EXCEPT ![c] = [owner |-> u, status |-> "active"]]
                /\ UNCHANGED lines
           ELSE /\ CartUnlocked(guest) /\ CartUnlocked(c)
                /\ carts' = [carts EXCEPT ![c] = [owner |-> u, status |-> "active"],
                                          ![guest] = [owner |-> NoOwner, status |-> "abandoned"]]
                /\ lines' = [l \in LineIds |->
                      IF \E i \in kept : l = Min(line(i))
                      THEN LET i == lines[l].item IN [cart |-> c, item |-> i, quantity |-> final(i)]
                      ELSE IF l \in LinesIn(guest) THEN None ELSE lines[l]]
        /\ UNCHANGED <<stock, requests, placed, asked>>

-----------------------------------------------------------------------------
(* Around the cart                                                         *)

\* What the cart shows of a line: whether it can be bought in its quantity.
Available(l) == lines[l].quantity <= stock[lines[l].item]

\* Order creation locks the customer's user row or the guest's cart, and takes the cart only
\* when it can be bought whole.  It changes neither the cart nor the stock.
PlaceOrder(o) ==
    \E c \in FindActiveCart(o) :
        /\ placed = {} \* a bound: one pending order
        /\ Unlocked(o) /\ CartUnlocked(c)
        /\ LinesIn(c) # {}
        /\ \A l \in LinesIn(c) : Available(l)
        /\ placed' = placed \cup {c}
        /\ UNCHANGED <<carts, lines, stock, requests, asked>>

\* Payment finalization: the cart the order was made from, which meanwhile may have been
\* changed, or merged away.  Only an active cart is finished.
FinalizeCartForOrder(c) ==
    /\ c \in placed
    /\ CartUnlocked(c)
    /\ placed' = placed \ {c}
    /\ carts' = [carts EXCEPT ![c].status = IF @ = "active" THEN "ordered" ELSE @]
    /\ UNCHANGED <<lines, stock, requests, asked>>

\* Sales and administrators.
StockChanges(i) ==
    /\ \E n \in 0..MaxStock : stock' = [stock EXCEPT ![i] = n]
    /\ UNCHANGED <<carts, lines, requests, placed, asked>>

Init ==
    /\ carts = [c \in CartIds |-> None]
    /\ lines = [l \in LineIds |-> None]
    /\ stock = [i \in Items |-> MaxStock]
    /\ requests = [r \in Requests |-> Idle]
    /\ placed = {}
    /\ asked = 0

\* Requests are interchangeable: a free one of the lowest number starts.
Next ==
    \/ \E r \in Requests :
        \/ (\A s \in Requests : s < r => requests[s] # Idle) /\ (BeginAddCartItem(r) \/ BeginTouch(r))
        \/ AddCartItem(r) \/ UpdateCartItemQuantity(r) \/ RemoveCartItem(r) \/ ClearCart(r)
    \/ \E u \in Customers, g \in Tokens : MergeGuestCartIntoCustomerCart(u, g)
    \/ \E o \in Owners : PlaceOrder(o)
    \/ \E c \in CartIds : FinalizeCartForOrder(c)
    \/ \E i \in Items : StockChanges(i)

Spec == Init /\ [][Next]_vars

-----------------------------------------------------------------------------
(* Properties                                                              *)

\* Every table holds rows of its columns' types; no line is over the limit per item.
TypeOK ==
    /\ carts \in [CartIds -> CartRow \cup {None}]
    /\ lines \in [LineIds -> LineRow \cup {None}]
    /\ stock \in [Items -> 0..MaxStock]
    /\ placed \subseteq CartIds
    /\ asked \in 0..MaxAsked

\* A customer has one active cart and a guest's cookie one cart, whatever requests overlap.
OneCart == /\ \A u \in Customers : Cardinality(FindActiveCart(u)) <= 1
           /\ \A g \in Tokens : Cardinality(CartsOf(g)) <= 1

\* A cart has one line per item.
LinesDistinct == \A c \in CartIds, i \in Items : Cardinality(LineOf(c, i)) <= 1

\* A guest's cart that was merged keeps no line that a later sign-in could merge again.
AbandonedEmpty == \A c \in CartIds : carts[c] # None /\ carts[c].status = "abandoned" => LinesIn(c) = {}

\* Carts hold no more units than were asked for: a merge copies none.
UnitsAccounted == MapThenSumSet(LAMBDA l : lines[l].quantity, {l \in LineIds : lines[l] # None}) <= asked

\* The four together: what overlapping requests and a sign-in must leave true.
CartsConsistent == OneCart /\ LinesDistinct /\ AbandonedEmpty /\ UnitsAccounted
=============================================================================
