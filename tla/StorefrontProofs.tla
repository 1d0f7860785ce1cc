-------------------------- MODULE StorefrontProofs --------------------------
(***************************************************************************)
(* Theorems about the components of the storefront - Cart, Pricing,        *)
(* Catalogue and ProductMedia - for every value of their constants that    *)
(* meets the assumption stated with them.  The components share no state,  *)
(* so each theorem is about one of the instances below.                    *)
(***************************************************************************)
EXTENDS Sums

CONSTANTS Customers, Tokens, Items, CartIds, LineIds, Requests, MaxQuantity, MaxStock, MaxAsked,
          Carts, Lines, Settings, MinPayable,
          ProductIds, VariantIds, CategoryIds, InitialVariants, Skus, Admins, MaxVariantStock, MaxPlace,
          ImageKeys, AssetKeys, VideoKeys, ImageIds, RowIds, Uploaders

VARIABLES carts, lines, stock, carting, placed, asked,
          cart, setting, shown, order, attempt,
          products, variants, categories, reservations, editing, catalogueDrift,
          uploads, objects, images, assets, rows, uploading, cleanup, mediaDrift

Basket == INSTANCE Cart WITH requests <- carting
Price == INSTANCE Pricing
Shop == INSTANCE Catalogue WITH MaxStock <- MaxVariantStock, requests <- editing, drift <- catalogueDrift
Media == INSTANCE ProductMedia WITH Admins <- Uploaders, requests <- uploading, drift <- mediaDrift

-----------------------------------------------------------------------------
(* Carts                                                                     *)

\* Ids are positive, lines are rows of a table with finitely many ids, and a user is not a
\* guest's cookie.
CartAssumption ==
    /\ CartIds \subseteq Nat \ {0} /\ LineIds \subseteq Nat \ {0} /\ IsFiniteSet(LineIds)
    /\ MaxQuantity \in Nat /\ MaxStock \in Nat /\ MaxAsked \in Nat
    /\ Customers \cap Tokens = {} /\ Basket!NoOwner \notin Basket!Owners

CartRequest ==
    {Basket!Idle}
    \cup [op : {"add"}, owner : Basket!Owners, cart : CartIds \cup {0}, item : Items, quantity : 1..MaxQuantity]
    \cup [op : {"update", "remove", "clear"}, owner : Basket!Owners, cart : CartIds,
          line : LineIds \cup {0}, quantity : 0..MaxQuantity]

\* What a request to add has found is still so: a customer's by the lock of the user row, a
\* guest's by that of the cart row.
AddFits(q) ==
    /\ q.owner \in Customers /\ q.cart = 0 => Basket!FindActiveCart(q.owner) = {}
    /\ q.owner \in Customers /\ q.cart # 0 => q.cart \in Basket!FindActiveCart(q.owner)
    /\ q.owner \in Tokens /\ q.cart # 0 => q.cart \in Basket!CartsOf(q.owner)

CartRequestFits(q) ==
    /\ q.op = "add" => AddFits(q)
    /\ q.op = "update" => q.line \in LineIds /\ q.quantity > 0

OneAddPerCustomer ==
    \A r, s \in Requests :
        carting[r].op = "add" /\ carting[s].op = "add" /\ carting[r].owner = carting[s].owner
        /\ carting[r].owner \in Customers => r = s

\* CartsConsistent, told of pairs of rows.
OneActive == \A u \in Customers : \A c, d \in Basket!FindActiveCart(u) : c = d
OneOfToken == \A g \in Tokens : \A c, d \in Basket!CartsOf(g) : c = d
LineAlone == \A c \in CartIds, i \in Items : \A k, l \in Basket!LineOf(c, i) : k = l

Quantities(table) == [l \in LineIds |-> IF table[l] = Basket!None THEN 0 ELSE table[l].quantity]
UnitsInCarts == Total(Quantities(lines), LineIds) <= asked

CartInv ==
    /\ Basket!TypeOK
    /\ carting \in [Requests -> CartRequest]
    /\ \A r \in Requests : CartRequestFits(carting[r])
    /\ OneAddPerCustomer
    /\ \A c \in placed : carts[c] # Basket!None
    /\ OneActive /\ OneOfToken /\ LineAlone /\ Basket!AbandonedEmpty
    /\ UnitsInCarts

LEMMA MinOf == ASSUME NEW S \in SUBSET Nat, S # {} PROVE Basket!Min(S) \in S
<1> QED
    BY LeastMember DEF Basket!Min

LEMMA CartShapes ==
    /\ \A row \in Basket!CartRow :
        row # Basket!None /\ row.owner \in Basket!Owners \cup {Basket!NoOwner}
        /\ row.status \in {"active", "ordered", "abandoned"}
    /\ \A row \in Basket!LineRow :
        row # Basket!None /\ row.cart \in CartIds /\ row.item \in Items /\ row.quantity \in 1..MaxQuantity
    /\ \A o \in Basket!Owners : [owner |-> o, status |-> "active"] \in Basket!CartRow
    /\ [owner |-> Basket!NoOwner, status |-> "abandoned"] \in Basket!CartRow
    /\ \A c \in CartIds, i \in Items, q \in 1..MaxQuantity : [cart |-> c, item |-> i, quantity |-> q] \in Basket!LineRow
<1> QED
    BY DEF Basket!CartRow, Basket!LineRow, Basket!None

LEMMA CartRequestShape ==
    ASSUME NEW q \in CartRequest
    PROVE  /\ q.op = "add" => q.owner \in Basket!Owners /\ q.cart \in CartIds \cup {0} /\ q.item \in Items
                              /\ q.quantity \in 1..MaxQuantity
           /\ q.op \in {"update", "remove", "clear"} =>
                   q.owner \in Basket!Owners /\ q.cart \in CartIds /\ q.line \in LineIds \cup {0} /\ q.quantity \in 0..MaxQuantity
           /\ q.op \in {"idle", "add", "update", "remove", "clear"}
<1>1. CASE q = Basket!Idle
    BY <1>1 DEF Basket!Idle
<1>2. CASE q \in [op : {"add"}, owner : Basket!Owners, cart : CartIds \cup {0}, item : Items, quantity : 1..MaxQuantity]
    BY <1>2
<1>3. CASE q \in [op : {"update", "remove", "clear"}, owner : Basket!Owners, cart : CartIds,
                  line : LineIds \cup {0}, quantity : 0..MaxQuantity]
    BY <1>3
<1> QED
    BY <1>1, <1>2, <1>3 DEF CartRequest

\* The sum of the units in carts, as the property writes it.
LEMMA UnitsSummed ==
    ASSUME CartAssumption, NEW S \in SUBSET LineIds
    PROVE  Basket!MapThenSumSet(LAMBDA l : lines[l].quantity, S) = Total([l \in LineIds |-> lines[l].quantity], S)
<1>1. PICK f : f = [l \in LineIds |-> lines[l].quantity]
    OBVIOUS
<1>2. IsFiniteSet(S)
    BY FS_Subset DEF CartAssumption
<1>3. PICK it : Adds(it, f, S)
    BY <1>2, AddsExist
<1> DEFINE AddsUp(iter) ==
        iter = [s \in SUBSET S |-> IF s = {} THEN 0 ELSE lines[CHOOSE x \in s : TRUE].quantity + iter[s \ {CHOOSE x \in s : TRUE}]]
<1>4. Basket!MapThenSumSet(LAMBDA l : lines[l].quantity, S) = (CHOOSE iter : AddsUp(iter))[S]
    BY DEF Basket!MapThenSumSet, Basket!MapThenFoldSet
<1>5. \A s \in SUBSET S : s # {} => f[Pick(s)] = lines[Pick(s)].quantity
    BY <1>1, PickIn
<1>6. ASSUME NEW iter PROVE AddsUp(iter) <=> Adds(iter, f, S)
  <2>1. [s \in SUBSET S |-> IF s = {} THEN 0 ELSE lines[CHOOSE x \in s : TRUE].quantity + iter[s \ {CHOOSE x \in s : TRUE}]]
        = [s \in SUBSET S |-> IF s = {} THEN 0 ELSE f[Pick(s)] + iter[s \ {Pick(s)}]]
    BY <1>5 DEF Pick
  <2> QED
    BY <2>1, Zenon DEF Adds
<1> HIDE DEF AddsUp
<1>7. PICK fold : fold = CHOOSE iter : AddsUp(iter)
    OBVIOUS
<1>8. AddsUp(fold)
    BY <1>3, <1>6, <1>7, Zenon
<1>9. Adds(fold, f, S)
    BY <1>6, <1>8
<1> QED
    BY <1>1, <1>2, <1>4, <1>7, <1>9, TotalIs

LEMMA QuantitiesNat ==
    ASSUME CartAssumption, NEW table \in [LineIds -> Basket!LineRow \cup {Basket!None}]
    PROVE  /\ \A l \in LineIds : Quantities(table)[l] \in Nat
           /\ \A l \in LineIds : table[l] # Basket!None => Quantities(table)[l] = table[l].quantity
           /\ \A l \in LineIds : table[l] = Basket!None => Quantities(table)[l] = 0
<1> QED
    BY CartShapes DEF Quantities, CartAssumption

LEMMA CartsSound == ASSUME CartAssumption, CartInv PROVE Basket!TypeOK /\ Basket!CartsConsistent
<1>1. ASSUME NEW S, \A x, y \in S : x = y PROVE Basket!Cardinality(S) <= 1
  <2>1. CASE S = {}
    BY <2>1, FS_EmptySet DEF Basket!Cardinality, Cardinality
  <2>2. CASE S # {}
    <3>1. PICK x \in S : S = {x}
      BY <1>1, <2>2
    <3>2. Cardinality(S) = 1
      BY <3>1, FS_Singleton
    <3> QED
      BY <3>2 DEF Basket!Cardinality, Cardinality
  <2> QED
    BY <2>1, <2>2
<1>2. Basket!OneCart /\ Basket!LinesDistinct
    BY <1>1 DEF CartInv, OneActive, OneOfToken, LineAlone, Basket!OneCart, Basket!LinesDistinct
<1>3. Basket!UnitsAccounted
  <2> DEFINE S == {l \in LineIds : lines[l] # Basket!None}
             f == [l \in LineIds |-> lines[l].quantity]
  <2>1. S \in SUBSET LineIds
    OBVIOUS
  <2>2. Basket!MapThenSumSet(LAMBDA l : lines[l].quantity, S) = Total(f, S)
    BY <2>1, UnitsSummed
  <2>3. \A l \in S : f[l] = Quantities(lines)[l]
    BY QuantitiesNat DEF CartInv, Basket!TypeOK
  <2>4. IsFiniteSet(S) /\ IsFiniteSet(LineIds)
    BY FS_Subset DEF CartAssumption
  <2>5. \A l \in LineIds : Quantities(lines)[l] \in Int /\ Quantities(lines)[l] \in Nat
    BY QuantitiesNat DEF CartInv, Basket!TypeOK
  <2>6. Total(f, S) = Total(Quantities(lines), S)
    BY <2>3, <2>4, TotalSame
  <2>7. Total(Quantities(lines), S) <= Total(Quantities(lines), LineIds)
      <3>1. \A l \in LineIds : Quantities(lines)[l] <= Quantities(lines)[l]
      BY <2>5
    <3> QED
      BY <2>1, <2>4, <2>5, <3>1, TotalMonotone
  <2>8. Total(Quantities(lines), LineIds) \in Int /\ Total(Quantities(lines), S) \in Int
    BY <2>1, <2>4, <2>5, TotalType
  <2>9. Total(Quantities(lines), LineIds) <= asked /\ asked \in Int
    BY DEF CartInv, UnitsInCarts, Basket!TypeOK, CartAssumption
  <2> QED
    BY <2>2, <2>6, <2>7, <2>8, <2>9 DEF Basket!UnitsAccounted
<1> QED
    BY <1>2, <1>3 DEF CartInv, Basket!CartsConsistent

LEMMA InitCart == ASSUME CartAssumption, Basket!Init PROVE CartInv
<1>1. /\ \A c \in CartIds : carts[c] = Basket!None
      /\ \A l \in LineIds : lines[l] = Basket!None
      /\ \A r \in Requests : carting[r] = Basket!Idle
      /\ placed = {} /\ asked = 0
    BY DEF Basket!Init
<1>2. Basket!TypeOK
    BY DEF Basket!TypeOK, Basket!Init, CartAssumption
<1>3. carting \in [Requests -> CartRequest] /\ \A r \in Requests : carting[r].op = "idle"
    BY <1>1 DEF Basket!Init, CartRequest, Basket!Idle
<1>4. \A c \in CartIds, l \in LineIds : carts[c] = Basket!None /\ lines[l] = Basket!None
    BY <1>1
<1>5. \A o : Basket!CartsOf(o) = {} /\ Basket!FindActiveCart(o) = {}
    BY <1>1 DEF Basket!CartsOf, Basket!FindActiveCart
<1>6. \A c, i : Basket!LinesIn(c) = {} /\ Basket!LineOf(c, i) = {}
    BY <1>1 DEF Basket!LinesIn, Basket!LineOf
<1>7. UnitsInCarts
  <2> DEFINE f == Quantities(lines)
  <2>1. \A l \in LineIds : f[l] = 0
    BY <1>1 DEF Quantities
  <2>2. IsFiniteSet(LineIds)
    BY DEF CartAssumption
  <2> HIDE DEF f
  <2>3. PICK zero \in Int : zero = Total(f, LineIds)
    BY <2>1, <2>2, TotalType
  <2>4. \A l \in LineIds : f[l] \in Int /\ f[l] = f[l] + f[l]
    BY <2>1
  <2>5. Total(f, LineIds) = Total(f, LineIds) + Total(f, LineIds)
    BY <2>2, <2>4, TotalPlus
  <2>6. zero = zero + zero
    BY <2>3, <2>5, Zenon
  <2>7. zero = 0
    BY <2>6
  <2> QED
    BY <1>1, <2>3, <2>7 DEF UnitsInCarts, f
<1> QED
    BY <1>1, <1>2, <1>3, <1>5, <1>6, <1>7
    DEF CartInv, CartRequestFits, OneAddPerCustomer, OneActive, OneOfToken, LineAlone, Basket!AbandonedEmpty

\* A request begins, or ends without a trace.
LEMMA StepRequest ==
    ASSUME CartInv, NEW r \in Requests, NEW q \in CartRequest, CartRequestFits(q),
           q.op = "add" /\ q.owner \in Customers =>
               \A s \in Requests : carting[s].op = "add" => carting[s].owner # q.owner,
           carting' = [carting EXCEPT ![r] = q], UNCHANGED <<carts, lines, stock, placed, asked>>
    PROVE  CartInv'
<1>1. carting \in [Requests -> CartRequest] /\ \A s \in Requests : CartRequestFits(carting[s])
    BY DEF CartInv
<1>2. /\ carting' \in [Requests -> CartRequest]
      /\ carting'[r] = q /\ \A s \in Requests \ {r} : carting'[s] = carting[s]
    BY <1>1
<1>3. ASSUME NEW p PROVE CartRequestFits(p)' <=> CartRequestFits(p)
    BY DEF CartRequestFits, AddFits, Basket!FindActiveCart, Basket!CartsOf
<1>4. \A s \in Requests : CartRequestFits(carting[s])'
  <2> SUFFICES ASSUME NEW s \in Requests PROVE CartRequestFits(carting[s])'
    OBVIOUS
  <2>1. PICK p : p = carting'[s]
    OBVIOUS
  <2>2. CartRequestFits(p)
    BY <1>1, <1>2, <2>1
  <2>3. CartRequestFits(p)'
    BY <1>3, <2>2
  <2> QED
    BY <2>1, <2>3 DEF CartRequestFits, AddFits
<1>5. OneAddPerCustomer'
    BY <1>2 DEF CartInv, OneAddPerCustomer
<1>6. Basket!TypeOK' /\ (\A c \in placed' : carts'[c] # Basket!None)
    BY DEF CartInv, Basket!TypeOK
<1>7. OneActive' /\ OneOfToken' /\ LineAlone' /\ Basket!AbandonedEmpty'
    BY DEF CartInv, OneActive, OneOfToken, LineAlone, Basket!AbandonedEmpty, Basket!FindActiveCart, Basket!CartsOf,
           Basket!LineOf, Basket!LinesIn
<1>8. UnitsInCarts'
    BY DEF CartInv, UnitsInCarts, Quantities
<1> QED
    BY <1>2, <1>4, <1>5, <1>6, <1>7, <1>8 DEF CartInv

LEMMA IdleFits == Basket!Idle \in CartRequest /\ CartRequestFits(Basket!Idle) /\ Basket!Idle.op = "idle"
<1> QED
    BY DEF CartRequest, CartRequestFits, Basket!Idle

LEMMA StepBeginAdd == ASSUME CartAssumption, CartInv, NEW r \in Requests, Basket!BeginAddCartItem(r) PROVE CartInv'
<1>1. PICK o \in Basket!Owners, i \in Items, n \in 1..MaxQuantity :
        /\ Basket!Unlocked(o)
        /\ carting' = [carting EXCEPT ![r] = [op |-> "add", owner |-> o, cart |-> Basket!FindCart(o), item |-> i, quantity |-> n]]
        /\ UNCHANGED <<carts, lines, stock, placed, asked>>
    BY DEF Basket!BeginAddCartItem
<1>2. PICK c : c = Basket!FindCart(o)
    OBVIOUS
<1>3. /\ c \in CartIds \cup {0}
      /\ o \in Customers => IF Basket!FindActiveCart(o) = {} THEN c = 0 ELSE c \in Basket!FindActiveCart(o)
      /\ o \in Tokens => IF Basket!CartsOf(o) = {} THEN c = 0 ELSE c \in Basket!CartsOf(o)
  <2>1. Basket!FindActiveCart(o) \in SUBSET Nat /\ Basket!CartsOf(o) \in SUBSET Nat
    BY DEF Basket!FindActiveCart, Basket!CartsOf, CartAssumption
  <2>2. Basket!FindActiveCart(o) # {} => Basket!Min(Basket!FindActiveCart(o)) \in Basket!FindActiveCart(o)
    BY <2>1, MinOf
  <2>3. Basket!CartsOf(o) # {} => Basket!Min(Basket!CartsOf(o)) \in Basket!CartsOf(o)
    BY <2>1, MinOf
  <2>4. Basket!FindActiveCart(o) \subseteq CartIds /\ Basket!CartsOf(o) \subseteq CartIds
    BY DEF Basket!FindActiveCart, Basket!CartsOf
  <2>5. o \in Tokens => o \notin Customers
    BY DEF CartAssumption
  <2>6. CASE o \in Customers
    BY <1>2, <2>2, <2>4, <2>5, <2>6 DEF Basket!FindCart
  <2>7. CASE o \notin Customers
    BY <1>2, <2>3, <2>4, <2>7 DEF Basket!FindCart
  <2> QED
    BY <2>6, <2>7
<1>4. PICK q : q = [op |-> "add", owner |-> o, cart |-> c, item |-> i, quantity |-> n]
    OBVIOUS
<1>5. q \in CartRequest
    BY <1>3, <1>4 DEF CartRequest
<1>6. CartRequestFits(q)
  <2>1. 0 \notin CartIds /\ Basket!FindActiveCart(o) \subseteq CartIds /\ Basket!CartsOf(o) \subseteq CartIds
    BY DEF Basket!FindActiveCart, Basket!CartsOf, CartAssumption
  <2> QED
    BY <1>3, <1>4, <2>1 DEF CartRequestFits, AddFits
<1>7. \A s \in Requests : o \in Customers /\ carting[s].op = "add" => carting[s].owner # o
    BY <1>1 DEF Basket!Unlocked, CartAssumption
<1> QED
    BY <1>1, <1>2, <1>4, <1>5, <1>6, <1>7, StepRequest

LEMMA StepBeginTouch == ASSUME CartAssumption, CartInv, NEW r \in Requests, Basket!BeginTouch(r) PROVE CartInv'
<1>1. PICK o \in Basket!Owners : \E c \in Basket!FindActiveCart(o) :
        /\ \/ carting' = [carting EXCEPT ![r] = Basket!Touch("clear", o, c, 0, 0)]
           \/ \E l \in Basket!LinesIn(c) : carting' = [carting EXCEPT ![r] = Basket!Touch("remove", o, c, l, 0)]
           \/ \E l \in Basket!LinesIn(c), n \in 1..MaxQuantity :
                carting' = [carting EXCEPT ![r] = Basket!Touch("update", o, c, l, n)]
        /\ UNCHANGED <<carts, lines, stock, placed, asked>>
    BY DEF Basket!BeginTouch
<1>2. PICK c \in Basket!FindActiveCart(o) :
        /\ \/ carting' = [carting EXCEPT ![r] = Basket!Touch("clear", o, c, 0, 0)]
           \/ \E l \in Basket!LinesIn(c) : carting' = [carting EXCEPT ![r] = Basket!Touch("remove", o, c, l, 0)]
           \/ \E l \in Basket!LinesIn(c), n \in 1..MaxQuantity :
                carting' = [carting EXCEPT ![r] = Basket!Touch("update", o, c, l, n)]
        /\ UNCHANGED <<carts, lines, stock, placed, asked>>
    BY <1>1
<1>3. c \in CartIds /\ Basket!LinesIn(c) \subseteq LineIds
    BY DEF Basket!FindActiveCart, Basket!CartsOf, Basket!LinesIn
<1>4. ASSUME NEW op \in {"clear", "remove", "update"}, NEW k \in LineIds \cup {0}, NEW n \in 0..MaxQuantity,
             op = "update" => k \in LineIds /\ n > 0,
             carting' = [carting EXCEPT ![r] = Basket!Touch(op, o, c, k, n)]
      PROVE  CartInv'
  <2>1. PICK q : q = Basket!Touch(op, o, c, k, n) /\ q = [op |-> op, owner |-> o, cart |-> c, line |-> k, quantity |-> n]
    BY DEF Basket!Touch
  <2>2. q \in CartRequest
    BY <1>3, <2>1 DEF CartRequest
  <2>3. q.op = op /\ q.line = k /\ q.quantity = n
    BY <2>1
  <2>4. CartRequestFits(q) /\ q.op # "add"
    BY <1>4, <2>3 DEF CartRequestFits
  <2> QED
    BY <1>2, <1>4, <2>1, <2>2, <2>4, StepRequest
<1> 0 \in 0..MaxQuantity /\ \A n \in 1..MaxQuantity : n \in 0..MaxQuantity /\ n > 0
    BY DEF CartAssumption
<1>5. CASE carting' = [carting EXCEPT ![r] = Basket!Touch("clear", o, c, 0, 0)]
    BY <1>4, <1>5
<1>6. ASSUME NEW k \in Basket!LinesIn(c), carting' = [carting EXCEPT ![r] = Basket!Touch("remove", o, c, k, 0)]
      PROVE  CartInv'
    BY <1>3, <1>4, <1>6
<1>7. ASSUME NEW k \in Basket!LinesIn(c), NEW n \in 1..MaxQuantity,
             carting' = [carting EXCEPT ![r] = Basket!Touch("update", o, c, k, n)]
      PROVE  CartInv'
    BY <1>3, <1>4, <1>7
<1> QED
    BY <1>2, <1>5, <1>6, <1>7

\* A request that ends changes lines in place, or takes some away.
LEMMA StepLines ==
    ASSUME CartAssumption, CartInv, NEW r \in Requests,
           carting' = [carting EXCEPT ![r] = Basket!Idle], UNCHANGED <<carts, stock, placed>>,
           lines' \in [LineIds -> Basket!LineRow \cup {Basket!None}], asked' \in 0..MaxAsked,
           \A l \in LineIds : lines'[l] # Basket!None =>
               lines[l] # Basket!None /\ lines'[l].cart = lines[l].cart /\ lines'[l].item = lines[l].item,
           UnitsInCarts'
    PROVE  CartInv'
<1>1. carting \in [Requests -> CartRequest] /\ \A s \in Requests : CartRequestFits(carting[s])
    BY DEF CartInv
<1>2. /\ carting' \in [Requests -> CartRequest]
      /\ carting'[r] = Basket!Idle /\ \A s \in Requests \ {r} : carting'[s] = carting[s]
    BY <1>1, IdleFits
<1>3. \A s \in Requests : CartRequestFits(carting[s])'
  <2> SUFFICES ASSUME NEW s \in Requests PROVE CartRequestFits(carting[s])'
    OBVIOUS
  <2>1. PICK p : p = carting'[s]
    OBVIOUS
  <2>2. CartRequestFits(p)
    BY <1>1, <1>2, <2>1, IdleFits
  <2>3. CartRequestFits(p)'
    BY <2>2 DEF CartRequestFits, AddFits, Basket!FindActiveCart, Basket!CartsOf
  <2> QED
    BY <2>1, <2>3 DEF CartRequestFits, AddFits
<1>4. OneAddPerCustomer'
    BY <1>2, IdleFits DEF CartInv, OneAddPerCustomer
<1>5. Basket!TypeOK' /\ (\A c \in placed' : carts'[c] # Basket!None)
    BY DEF CartInv, Basket!TypeOK
<1>6. OneActive' /\ OneOfToken'
    BY DEF CartInv, OneActive, OneOfToken, Basket!FindActiveCart, Basket!CartsOf
<1>7. LineAlone' /\ Basket!AbandonedEmpty'
  <2>1. \A c \in CartIds : Basket!LinesIn(c)' \subseteq Basket!LinesIn(c)
    BY DEF Basket!LinesIn
  <2>2. \A c \in CartIds, i \in Items : Basket!LineOf(c, i)' \subseteq Basket!LineOf(c, i)
    BY <2>1 DEF Basket!LineOf, Basket!LinesIn
  <2>3. Basket!AbandonedEmpty'
    BY <2>1 DEF CartInv, Basket!AbandonedEmpty
  <2>4. LineAlone'
    BY <2>2 DEF CartInv, LineAlone
  <2> QED
    BY <2>3, <2>4
<1> QED
    BY <1>2, <1>3, <1>4, <1>5, <1>6, <1>7 DEF CartInv

\* Lines that are gone hold no units.
LEMMA FewerUnits ==
    ASSUME CartAssumption, CartInv, NEW gone,
           lines' = Basket!Without(gone), asked' = asked
    PROVE  /\ lines' \in [LineIds -> Basket!LineRow \cup {Basket!None}]
           /\ \A l \in LineIds : lines'[l] # Basket!None => l \notin gone /\ lines'[l] = lines[l]
           /\ UnitsInCarts'
<1>1. lines \in [LineIds -> Basket!LineRow \cup {Basket!None}]
    BY DEF CartInv, Basket!TypeOK
<1>2. \A l \in LineIds : lines'[l] = IF l \in gone THEN Basket!None ELSE lines[l]
    BY DEF Basket!Without
<1>3. lines' \in [LineIds -> Basket!LineRow \cup {Basket!None}]
    BY <1>1 DEF Basket!Without
<1>4. PICK table \in [LineIds -> Basket!LineRow \cup {Basket!None}] : table = lines'
    BY <1>3
<1>5. \A l \in LineIds : Quantities(table)[l] \in Int /\ Quantities(lines)[l] \in Nat
    BY <1>1, QuantitiesNat DEF CartAssumption
<1>6. \A l \in LineIds : Quantities(table)[l] <= Quantities(lines)[l]
    BY <1>1, <1>2, <1>4, <1>5, QuantitiesNat
<1>7. Total(Quantities(table), LineIds) <= Total(Quantities(lines), LineIds)
    BY <1>5, <1>6, TotalMonotone DEF CartAssumption
<1>8. Total(Quantities(table), LineIds) \in Int /\ Total(Quantities(lines), LineIds) \in Int
  <2>1. (\A l \in LineIds : Quantities(table)[l] \in Int) /\ (\A l \in LineIds : Quantities(lines)[l] \in Int)
    BY <1>5
  <2> QED
    BY <2>1, TotalType DEF CartAssumption
<1>9. Total(Quantities(lines), LineIds) <= asked /\ asked \in Int
    BY DEF CartInv, UnitsInCarts, Basket!TypeOK, CartAssumption
<1>10. Total(Quantities(table), LineIds) <= asked'
    BY <1>7, <1>8, <1>9
<1> QED
    BY <1>2, <1>3, <1>4, <1>10 DEF UnitsInCarts, Quantities

LEMMA StepRemove == ASSUME CartAssumption, CartInv, NEW r \in Requests, Basket!RemoveCartItem(r) PROVE CartInv'
<1>1. PICK gone : lines' = Basket!Without(gone)
  <2>1. CASE Basket!Found(carting[r])
    BY <2>1 DEF Basket!RemoveCartItem
  <2>2. CASE ~Basket!Found(carting[r])
    <3>1. lines' = lines /\ lines = [l \in LineIds |-> lines[l]]
      BY <2>2 DEF Basket!RemoveCartItem, CartInv, Basket!TypeOK
    <3>2. lines' = Basket!Without({})
      BY <3>1 DEF Basket!Without
    <3> QED
      BY <3>2
  <2> QED
    BY <2>1, <2>2
<1>2. /\ carting' = [carting EXCEPT ![r] = Basket!Idle] /\ UNCHANGED <<carts, stock, placed, asked>>
    BY DEF Basket!RemoveCartItem
<1>3. /\ lines' \in [LineIds -> Basket!LineRow \cup {Basket!None}] /\ UnitsInCarts'
      /\ \A l \in LineIds : lines'[l] # Basket!None => lines'[l] = lines[l]
    BY <1>1, <1>2, FewerUnits
<1>4. asked' \in 0..MaxAsked
    BY <1>2 DEF CartInv, Basket!TypeOK
<1> QED
    BY <1>2, <1>3, <1>4, StepLines

LEMMA StepClear == ASSUME CartAssumption, CartInv, NEW r \in Requests, Basket!ClearCart(r) PROVE CartInv'
<1>1. /\ carting' = [carting EXCEPT ![r] = Basket!Idle] /\ UNCHANGED <<carts, stock, placed, asked>>
      /\ lines' = Basket!Without(Basket!LinesIn(carting[r].cart))
    BY DEF Basket!ClearCart
<1>2. /\ lines' \in [LineIds -> Basket!LineRow \cup {Basket!None}] /\ UnitsInCarts'
      /\ \A l \in LineIds : lines'[l] # Basket!None => lines'[l] = lines[l]
    BY <1>1, FewerUnits
<1>3. asked' \in 0..MaxAsked
    BY <1>1 DEF CartInv, Basket!TypeOK
<1> QED
    BY <1>1, <1>2, <1>3, StepLines

LEMMA QuantitySet ==
    ASSUME NEW row \in Basket!LineRow, NEW n \in 1..MaxQuantity
    PROVE  \E new \in Basket!LineRow :
               new = [row EXCEPT !.quantity = n] /\ new.cart = row.cart /\ new.item = row.item /\ new.quantity = n
<1>1. [row EXCEPT !.quantity = n] \in Basket!LineRow
    BY DEF Basket!LineRow
<1>2. /\ [row EXCEPT !.quantity = n].cart = row.cart /\ [row EXCEPT !.quantity = n].item = row.item
      /\ [row EXCEPT !.quantity = n].quantity = n
    BY DEF Basket!LineRow
<1> QED
    BY <1>1, <1>2

\* One line gets another quantity; what it gained was asked for.
LEMMA QuantityChanges ==
    ASSUME CartAssumption, CartInv, NEW k \in LineIds, lines[k] # Basket!None, NEW n \in 1..MaxQuantity,
           NEW more \in Nat, n <= lines[k].quantity + more,
           lines' = [lines EXCEPT ![k].quantity = n], asked' = asked + more
    PROVE  /\ lines' \in [LineIds -> Basket!LineRow \cup {Basket!None}]
           /\ \A l \in LineIds : lines'[l] # Basket!None =>
                  lines[l] # Basket!None /\ lines'[l].cart = lines[l].cart /\ lines'[l].item = lines[l].item
           /\ UnitsInCarts'
<1>1. lines \in [LineIds -> Basket!LineRow \cup {Basket!None}] /\ lines[k] \in Basket!LineRow
    BY DEF CartInv, Basket!TypeOK
<1>2. PICK new \in Basket!LineRow : /\ new = [lines[k] EXCEPT !.quantity = n]
                                    /\ new.cart = lines[k].cart /\ new.item = lines[k].item /\ new.quantity = n
    BY <1>1, QuantitySet
<1>3. lines' = [lines EXCEPT ![k] = new]
    BY <1>2
<1>4. /\ lines' \in [LineIds -> Basket!LineRow \cup {Basket!None}]
      /\ lines'[k] = new /\ \A l \in LineIds \ {k} : lines'[l] = lines[l]
    BY <1>1, <1>3
<1>5. PICK table \in [LineIds -> Basket!LineRow \cup {Basket!None}] : table = lines'
    BY <1>4
<1>6. \A l \in LineIds : Quantities(table)[l] \in Nat /\ Quantities(lines)[l] \in Nat
    BY <1>1, QuantitiesNat
<1>7. Quantities(table)[k] = n /\ Quantities(lines)[k] = lines[k].quantity
    BY <1>1, <1>2, <1>4, <1>5, CartShapes, QuantitiesNat
<1>8. \A l \in LineIds \ {k} : Quantities(table)[l] <= Quantities(lines)[l]
  <2> SUFFICES ASSUME NEW l \in LineIds \ {k} PROVE Quantities(table)[l] <= Quantities(lines)[l]
    OBVIOUS
  <2>1. Quantities(table)[l] = Quantities(lines)[l]
    BY <1>4, <1>5 DEF Quantities
  <2> QED
    BY <1>6, <2>1
<1>9. Quantities(table)[k] <= Quantities(lines)[k] + more
    BY <1>7
<1>10. Total(Quantities(table), LineIds) <= Total(Quantities(lines), LineIds) + more
    BY <1>6, <1>8, <1>9, TotalRaised DEF CartAssumption
<1>11. Total(Quantities(table), LineIds) \in Int /\ Total(Quantities(lines), LineIds) \in Int
  <2>1. (\A l \in LineIds : Quantities(table)[l] \in Int) /\ (\A l \in LineIds : Quantities(lines)[l] \in Int)
    BY <1>6
  <2> QED
    BY <2>1, TotalType DEF CartAssumption
<1>12. Total(Quantities(lines), LineIds) <= asked /\ asked \in Int
    BY DEF CartInv, UnitsInCarts, Basket!TypeOK, CartAssumption
<1>13. Total(Quantities(table), LineIds) <= asked'
    BY <1>10, <1>11, <1>12
<1>14. UnitsInCarts'
    BY <1>5, <1>13 DEF UnitsInCarts, Quantities
<1>15. \A l \in LineIds : lines'[l] # Basket!None =>
           lines[l] # Basket!None /\ lines'[l].cart = lines[l].cart /\ lines'[l].item = lines[l].item
    BY <1>2, <1>4
<1> QED
    BY <1>4, <1>14, <1>15

LEMMA StepUpdate == ASSUME CartAssumption, CartInv, NEW r \in Requests, Basket!UpdateCartItemQuantity(r) PROVE CartInv'
<1>1. PICK q \in CartRequest : q = carting[r]
    BY DEF CartInv
<1>2. q.op = "update" /\ q.line \in LineIds /\ q.quantity \in 1..MaxQuantity
  <2>1. q.op = "update" /\ CartRequestFits(q)
    BY <1>1 DEF CartInv, Basket!UpdateCartItemQuantity
  <2>2. q.line \in LineIds /\ q.quantity > 0 /\ q.quantity \in 0..MaxQuantity
    BY <2>1, CartRequestShape DEF CartRequestFits
  <2> QED
    BY <2>1, <2>2 DEF CartAssumption
<1>3. carting' = [carting EXCEPT ![r] = Basket!Idle] /\ UNCHANGED <<carts, stock, placed>>
    BY DEF Basket!UpdateCartItemQuantity
<1>4. CASE Basket!Found(q) /\ q.quantity <= stock[lines[q.line].item]
  <2>1. PICK k \in LineIds, n \in 1..MaxQuantity : k = q.line /\ n = q.quantity
    BY <1>2
  <2>2. lines[k] # Basket!None /\ lines[k].quantity \in 1..MaxQuantity
    BY <1>4, <2>1, CartShapes DEF Basket!Found, Basket!LinesIn, CartInv, Basket!TypeOK
  <2>3. PICK more \in Nat : more = IF n > lines[k].quantity THEN n - lines[k].quantity ELSE 0
    BY <2>2 DEF CartAssumption
  <2>4. /\ lines' = [lines EXCEPT ![k].quantity = n]
        /\ asked + more <= MaxAsked /\ asked' = asked + more
    BY <1>1, <1>4, <2>1, <2>3 DEF Basket!UpdateCartItemQuantity
  <2>5. n <= lines[k].quantity + more
    BY <2>2, <2>3
  <2>6. asked' \in 0..MaxAsked
    BY <2>4 DEF CartInv, Basket!TypeOK, CartAssumption
  <2>7. /\ lines' \in [LineIds -> Basket!LineRow \cup {Basket!None}]
        /\ \A l \in LineIds : lines'[l] # Basket!None =>
               lines[l] # Basket!None /\ lines'[l].cart = lines[l].cart /\ lines'[l].item = lines[l].item
        /\ UnitsInCarts'
    BY <2>2, <2>4, <2>5, QuantityChanges
  <2> QED
    BY <1>3, <2>6, <2>7, StepLines
<1>5. CASE ~(Basket!Found(q) /\ q.quantity <= stock[lines[q.line].item])
  <2>1. UNCHANGED <<lines, asked>>
    BY <1>1, <1>5 DEF Basket!UpdateCartItemQuantity
  <2> QED
    BY <1>3, <2>1, IdleFits, StepRequest
<1> QED
    BY <1>4, <1>5

\* A step that ends a request, or none, keeps what is known of the others.
LEMMA CartRequestsKept ==
    ASSUME CartInv, carting' \in [Requests -> CartRequest],
           \A s \in Requests : carting'[s] = carting[s] \/ carting'[s] = Basket!Idle,
           \A s \in Requests : carting'[s].op = "add" => AddFits(carting[s])'
    PROVE  (\A s \in Requests : CartRequestFits(carting[s])') /\ OneAddPerCustomer'
<1>1. OneAddPerCustomer'
    BY IdleFits DEF CartInv, OneAddPerCustomer
<1>2. ASSUME NEW s \in Requests PROVE CartRequestFits(carting[s])'
  <2>1. carting'[s].op = "update" => carting'[s].line \in LineIds /\ carting'[s].quantity > 0
    BY IdleFits DEF CartInv, CartRequestFits
  <2>2. carting'[s].op = "add" => AddFits(carting[s])'
    OBVIOUS
  <2> QED
    BY <2>1, <2>2, Zenon DEF CartRequestFits
<1> QED
    BY <1>1, <1>2

\* The cart that a request to add writes: the owner's, or a free row when there is none.
LEMMA AddTarget ==
    ASSUME CartAssumption, CartInv, NEW q \in CartRequest, q.op = "add", AddFits(q),
           NEW c, c = Basket!CartFor(q), q.cart = 0 => Basket!FreeCarts # {}
    PROVE  /\ c \in CartIds
           /\ carts[c] = Basket!None \/ carts[c].owner = q.owner
           /\ q.owner \in Customers => Basket!FindActiveCart(q.owner) \subseteq {c}
                                       /\ (carts[c] # Basket!None => carts[c].status = "active")
           /\ q.owner \in Tokens => Basket!CartsOf(q.owner) \subseteq {c}
<1>1. q.owner \in Basket!Owners /\ q.cart \in CartIds \cup {0}
    BY CartRequestShape
<1>2. Basket!CartsOf(q.owner) \in SUBSET Nat /\ Basket!FreeCarts \in SUBSET Nat
    BY DEF Basket!CartsOf, Basket!FreeCarts, CartAssumption
<1>3. /\ Basket!CartsOf(q.owner) # {} => Basket!Min(Basket!CartsOf(q.owner)) \in Basket!CartsOf(q.owner)
      /\ Basket!FreeCarts # {} => Basket!Min(Basket!FreeCarts) \in Basket!FreeCarts
    BY <1>2, MinOf
<1>4. q.owner \in Tokens => q.owner \notin Customers
    BY DEF CartAssumption
<1>5. CASE q.cart # 0
  <2>1. c = q.cart /\ c \in CartIds
    BY <1>1, <1>5 DEF Basket!CartFor
  <2>2. q.owner \in Customers => c \in Basket!FindActiveCart(q.owner)
    BY <1>5, <2>1 DEF AddFits
  <2>3. q.owner \in Tokens => c \in Basket!CartsOf(q.owner)
    BY <1>5, <2>1 DEF AddFits
  <2>4. c \in Basket!CartsOf(q.owner)
    BY <1>1, <2>2, <2>3 DEF Basket!FindActiveCart, Basket!Owners
  <2>5. q.owner \in Customers => Basket!FindActiveCart(q.owner) \subseteq {c}
    BY <2>2 DEF CartInv, OneActive
  <2>6. q.owner \in Tokens => Basket!CartsOf(q.owner) \subseteq {c}
    BY <2>3 DEF CartInv, OneOfToken
  <2> QED
    BY <2>1, <2>2, <2>4, <2>5, <2>6 DEF Basket!FindActiveCart, Basket!CartsOf
<1>6. CASE q.cart = 0 /\ q.owner \in Tokens /\ Basket!CartsOf(q.owner) # {}
  <2>1. c \in Basket!CartsOf(q.owner)
    BY <1>3, <1>6 DEF Basket!CartFor
  <2>2. Basket!CartsOf(q.owner) \subseteq {c}
    BY <1>6, <2>1 DEF CartInv, OneOfToken
  <2> QED
    BY <1>4, <1>6, <2>1, <2>2 DEF Basket!CartsOf
<1>7. CASE q.cart = 0 /\ ~(q.owner \in Tokens /\ Basket!CartsOf(q.owner) # {})
  <2>1. c \in Basket!FreeCarts
    BY <1>3, <1>7 DEF Basket!CartFor
  <2>2. q.owner \in Customers => Basket!FindActiveCart(q.owner) = {}
    BY <1>7 DEF AddFits
  <2>3. q.owner \in Tokens => Basket!CartsOf(q.owner) = {}
    BY <1>7
  <2> QED
    BY <2>1, <2>2, <2>3 DEF Basket!FreeCarts
<1> QED
    BY <1>5, <1>6, <1>7

\* The cart's row is written: others' carts are as they were.
LEMMA CartWritten ==
    ASSUME CartAssumption, CartInv, NEW o \in Basket!Owners, NEW c \in CartIds,
           carts[c] = Basket!None \/ carts[c].owner = o,
           o \in Customers => Basket!FindActiveCart(o) \subseteq {c},
           o \in Tokens => Basket!CartsOf(o) \subseteq {c},
           carts' = [carts EXCEPT ![c] = [owner |-> o, status |-> "active"]]
    PROVE  /\ carts' \in [CartIds -> Basket!CartRow \cup {Basket!None}]
           /\ carts'[c] # Basket!None /\ carts'[c].status = "active"
           /\ \A d \in CartIds \ {c} : carts'[d] = carts[d]
           /\ \A x : x # o => Basket!CartsOf(x)' = Basket!CartsOf(x) /\ Basket!FindActiveCart(x)' = Basket!FindActiveCart(x)
           /\ Basket!CartsOf(o) \subseteq Basket!CartsOf(o)'
           /\ OneActive' /\ OneOfToken'
<1>1. PICK row \in Basket!CartRow : row = [owner |-> o, status |-> "active"]
    BY CartShapes
<1>2. carts \in [CartIds -> Basket!CartRow \cup {Basket!None}]
    BY DEF CartInv, Basket!TypeOK
<1>3. carts' = [carts EXCEPT ![c] = row]
    BY <1>1
<1>4. /\ carts' \in [CartIds -> Basket!CartRow \cup {Basket!None}]
      /\ carts'[c] = row /\ \A d \in CartIds \ {c} : carts'[d] = carts[d]
    BY <1>2, <1>3
<1>5. row # Basket!None /\ row.owner = o /\ row.status = "active"
    BY <1>1, CartShapes
<1>6. \A x : x # o => Basket!CartsOf(x)' = Basket!CartsOf(x)
    BY <1>4, <1>5 DEF Basket!CartsOf
<1>7. \A x : x # o => Basket!FindActiveCart(x)' = Basket!FindActiveCart(x)
  <2> SUFFICES ASSUME NEW x, x # o PROVE Basket!FindActiveCart(x)' = Basket!FindActiveCart(x)
    OBVIOUS
  <2>1. Basket!CartsOf(x)' = Basket!CartsOf(x) /\ \A d \in Basket!CartsOf(x) : d \in CartIds \ {c}
    BY <1>4, <1>5, <1>6 DEF Basket!CartsOf
  <2> QED
    BY <1>4, <2>1 DEF Basket!FindActiveCart
<1>8. Basket!CartsOf(o) \subseteq Basket!CartsOf(o)'
    BY <1>4, <1>5 DEF Basket!CartsOf
<1>9. OneActive'
  <2>1. o \in Customers => Basket!FindActiveCart(o)' \subseteq {c}
    BY <1>4 DEF Basket!FindActiveCart, Basket!CartsOf
  <2> QED
    BY <1>7, <2>1 DEF CartInv, OneActive
<1>10. OneOfToken'
  <2>1. o \in Tokens => Basket!CartsOf(o)' \subseteq {c}
    BY <1>4 DEF Basket!CartsOf
  <2> QED
    BY <1>6, <2>1 DEF CartInv, OneOfToken
<1> QED
    BY <1>4, <1>5, <1>6, <1>7, <1>8, <1>9, <1>10

LEMMA LinesFewer ==
    ASSUME CartInv, \A l \in LineIds : lines'[l] # Basket!None =>
               lines[l] # Basket!None /\ lines'[l].cart = lines[l].cart /\ lines'[l].item = lines[l].item
    PROVE  LineAlone' /\ \A c : Basket!LinesIn(c)' \subseteq Basket!LinesIn(c)
<1>1. \A c : Basket!LinesIn(c)' \subseteq Basket!LinesIn(c)
    BY DEF Basket!LinesIn
<1>2. \A c, i : Basket!LineOf(c, i)' \subseteq Basket!LineOf(c, i)
    BY <1>1 DEF Basket!LineOf, Basket!LinesIn
<1> QED
    BY <1>1, <1>2 DEF CartInv, LineAlone

\* A new line, in a table that keeps some of the old ones and none of its item in its cart.
LEMMA LineAdded ==
    ASSUME CartAssumption, CartInv, NEW c \in CartIds, NEW i \in Items, NEW n \in 1..MaxQuantity,
           NEW table \in [LineIds -> Basket!LineRow \cup {Basket!None}],
           \A l \in LineIds : table[l] = Basket!None \/ table[l] = lines[l],
           \A l \in LineIds : table[l] # Basket!None => ~(table[l].cart = c /\ table[l].item = i),
           NEW k \in LineIds, table[k] = Basket!None,
           lines' = [table EXCEPT ![k] = [cart |-> c, item |-> i, quantity |-> n]], asked' = asked + n
    PROVE  /\ lines' \in [LineIds -> Basket!LineRow \cup {Basket!None}]
           /\ LineAlone' /\ (\A d : d # c => Basket!LinesIn(d)' \subseteq Basket!LinesIn(d))
           /\ UnitsInCarts'
<1>1. lines \in [LineIds -> Basket!LineRow \cup {Basket!None}]
    BY DEF CartInv, Basket!TypeOK
<1>2. PICK row \in Basket!LineRow : /\ row = [cart |-> c, item |-> i, quantity |-> n]
                                    /\ row.cart = c /\ row.item = i /\ row.quantity = n
    BY CartShapes
<1>3. PICK new \in [LineIds -> Basket!LineRow \cup {Basket!None}] :
        /\ new = lines' /\ new[k] = row /\ \A l \in LineIds \ {k} : new[l] = table[l]
    BY <1>2
<1>4. \A l \in LineIds \ {k} : new[l] = Basket!None \/ new[l] = lines[l]
    BY <1>3
<1>5. \A d : d # c => Basket!LinesIn(d)' \subseteq Basket!LinesIn(d)
    BY <1>2, <1>3, <1>4 DEF Basket!LinesIn
<1>6. LineAlone'
  <2>1. \A d, j : ~(d = c /\ j = i) => Basket!LineOf(d, j)' \subseteq Basket!LineOf(d, j)
    BY <1>2, <1>3, <1>4 DEF Basket!LineOf, Basket!LinesIn
  <2>2. Basket!LineOf(c, i)' \subseteq {k}
    BY <1>3 DEF Basket!LineOf, Basket!LinesIn
  <2>3. ASSUME NEW d \in CartIds, NEW j \in Items PROVE \A x, y \in Basket!LineOf(d, j)' : x = y
    <3>1. CASE d = c /\ j = i
      BY <2>2, <3>1
    <3>2. CASE ~(d = c /\ j = i)
      BY <2>1, <3>2 DEF CartInv, LineAlone
    <3> QED
      BY <3>1, <3>2
  <2> QED
    BY <2>3 DEF LineAlone
<1>7. (\A l \in LineIds : Quantities(new)[l] \in Nat) /\ (\A l \in LineIds : Quantities(lines)[l] \in Nat)
    BY <1>1, QuantitiesNat
<1>8. Quantities(new)[k] = n
    BY <1>2, <1>3, CartShapes, QuantitiesNat
<1>9. \A l \in LineIds \ {k} : Quantities(new)[l] <= Quantities(lines)[l]
  <2> SUFFICES ASSUME NEW l \in LineIds \ {k} PROVE Quantities(new)[l] <= Quantities(lines)[l]
    OBVIOUS
  <2>1. CASE new[l] = Basket!None
    <3>1. Quantities(new)[l] = 0
      BY <2>1, QuantitiesNat
    <3> QED
      BY <1>7, <3>1
  <2>2. CASE new[l] = lines[l]
    <3>1. Quantities(new)[l] = Quantities(lines)[l]
      BY <2>2 DEF Quantities
    <3> QED
      BY <1>7, <3>1
  <2> QED
    BY <1>4, <2>1, <2>2
<1>10. n \in Nat /\ Quantities(new)[k] <= Quantities(lines)[k] + n
    BY <1>7, <1>8 DEF CartAssumption
<1>11. Total(Quantities(new), LineIds) <= Total(Quantities(lines), LineIds) + n
    BY <1>7, <1>9, <1>10, TotalRaised DEF CartAssumption
<1>12. Total(Quantities(new), LineIds) \in Int /\ Total(Quantities(lines), LineIds) \in Int
  <2>1. (\A l \in LineIds : Quantities(new)[l] \in Int) /\ (\A l \in LineIds : Quantities(lines)[l] \in Int)
    BY <1>7
  <2> QED
    BY <2>1, TotalType DEF CartAssumption
<1>13. Total(Quantities(lines), LineIds) <= asked /\ asked \in Int
    BY DEF CartInv, UnitsInCarts, Basket!TypeOK, CartAssumption
<1>14. Total(Quantities(new), LineIds) <= asked'
    BY <1>10, <1>11, <1>12, <1>13
<1>15. UnitsInCarts'
    BY <1>3, <1>14 DEF UnitsInCarts, Quantities
<1> QED
    BY <1>3, <1>5, <1>6, <1>15

LEMMA StepAdd == ASSUME CartAssumption, CartInv, NEW r \in Requests, Basket!AddCartItem(r) PROVE CartInv'
<1>1. PICK q \in CartRequest : q = carting[r]
    BY DEF CartInv
<1>2. q.op = "add" /\ AddFits(q)
    BY <1>1 DEF CartInv, CartRequestFits, Basket!AddCartItem
<1>3. q.owner \in Basket!Owners /\ q.item \in Items /\ q.quantity \in 1..MaxQuantity
    BY <1>2, CartRequestShape
<1>4. PICK c : c = Basket!CartFor(q)
    OBVIOUS
<1>5. q.cart = 0 => Basket!FreeCarts # {}
    BY <1>1 DEF Basket!AddCartItem
<1>6. /\ c \in CartIds
      /\ carts[c] = Basket!None \/ carts[c].owner = q.owner
      /\ q.owner \in Customers => Basket!FindActiveCart(q.owner) \subseteq {c}
                                  /\ (carts[c] # Basket!None => carts[c].status = "active")
      /\ q.owner \in Tokens => Basket!CartsOf(q.owner) \subseteq {c}
    BY <1>2, <1>4, <1>5, AddTarget, SMTT(30)
<1> DEFINE reused == carts[c] # Basket!None /\ carts[c].status # "active"
           emptied == IF reused THEN Basket!Without(Basket!LinesIn(c)) ELSE lines
           line == IF reused THEN {} ELSE Basket!LineOf(c, q.item)
           added == lines[Basket!Min(line)].quantity + q.quantity
           refused == IF line = {} THEN q.quantity > stock[q.item] ELSE added > MaxQuantity \/ added > stock[q.item]
<1>7. /\ line # {} \/ Basket!FreeLines # {}
      /\ asked + q.quantity <= MaxAsked
      /\ carting' = [carting EXCEPT ![r] = Basket!Idle]
      /\ UNCHANGED <<stock, placed>>
    BY <1>1, <1>4, SMTT(30) DEF Basket!AddCartItem
<1>8. IF refused THEN UNCHANGED <<carts, lines, asked>>
      ELSE /\ carts' = [carts EXCEPT ![c] = [owner |-> q.owner, status |-> "active"]]
           /\ lines' = IF line = {}
                       THEN [emptied EXCEPT ![Basket!Min({l \in LineIds : emptied[l] = Basket!None})] =
                                 [cart |-> c, item |-> q.item, quantity |-> q.quantity]]
                       ELSE [lines EXCEPT ![Basket!Min(line)].quantity = added]
           /\ asked' = asked + q.quantity
    BY <1>1, <1>4 DEF Basket!AddCartItem
<1>9. CASE refused
    BY <1>7, <1>8, <1>9, IdleFits, StepRequest
<1>10. CASE ~refused
  <2>1. /\ carts' = [carts EXCEPT ![c] = [owner |-> q.owner, status |-> "active"]]
        /\ asked' = asked + q.quantity
    BY <1>8, <1>10
  <2>2. /\ carts' \in [CartIds -> Basket!CartRow \cup {Basket!None}]
        /\ carts'[c] # Basket!None /\ carts'[c].status = "active"
        /\ \A d \in CartIds \ {c} : carts'[d] = carts[d]
        /\ \A x : x # q.owner =>
               Basket!CartsOf(x)' = Basket!CartsOf(x) /\ Basket!FindActiveCart(x)' = Basket!FindActiveCart(x)
        /\ Basket!CartsOf(q.owner) \subseteq Basket!CartsOf(q.owner)'
        /\ OneActive' /\ OneOfToken'
    BY <1>3, <1>6, <2>1, CartWritten
  <2>3. /\ carting' \in [Requests -> CartRequest]
        /\ carting'[r] = Basket!Idle /\ \A s \in Requests \ {r} : carting'[s] = carting[s]
    BY <1>7, IdleFits DEF CartInv
  <2>4. ASSUME NEW s \in Requests, carting'[s].op = "add" PROVE AddFits(carting[s])'
    <3>1. PICK p : p = carting'[s]
      OBVIOUS
    <3>2. s # r /\ p = carting[s] /\ p.op = "add" /\ AddFits(p)
      BY <2>3, <2>4, <3>1, IdleFits DEF CartInv, CartRequestFits
    <3>3. p.owner = q.owner => p.owner \notin Customers
      BY <1>1, <1>2, <3>2 DEF CartInv, OneAddPerCustomer
    <3>4. AddFits(p)'
      BY <2>2, <3>2, <3>3 DEF AddFits
    <3> QED
      BY <3>1, <3>4 DEF AddFits
  <2>5. (\A s \in Requests : CartRequestFits(carting[s])') /\ OneAddPerCustomer'
    BY <2>3, <2>4, CartRequestsKept
  <2>6. asked' \in 0..MaxAsked /\ q.quantity \in Nat
    BY <1>3, <1>7, <2>1 DEF CartInv, Basket!TypeOK, CartAssumption
  <2>7. \A d \in placed' : carts'[d] # Basket!None
    BY <1>7, <2>2 DEF CartInv, Basket!TypeOK
  <2>8. /\ lines' \in [LineIds -> Basket!LineRow \cup {Basket!None}]
        /\ LineAlone' /\ (\A d : d # c => Basket!LinesIn(d)' \subseteq Basket!LinesIn(d))
        /\ UnitsInCarts'
    <3>1. CASE line # {}
      <4>1. line \in SUBSET Nat /\ line = Basket!LineOf(c, q.item)
        BY <3>1 DEF Basket!LineOf, Basket!LinesIn, CartAssumption
      <4>2. PICK k : k = Basket!Min(line)
        OBVIOUS
      <4>3. k \in Basket!LineOf(c, q.item)
        BY <3>1, <4>1, <4>2, MinOf
      <4>4. k \in LineIds /\ lines[k] # Basket!None /\ lines[k].quantity \in Nat
        BY <4>3, CartShapes DEF Basket!LineOf, Basket!LinesIn, CartInv, Basket!TypeOK, CartAssumption
      <4>5. lines' = [lines EXCEPT ![k].quantity = added] /\ added <= MaxQuantity
        BY <1>8, <1>10, <3>1, <4>2, <4>4, <2>6 DEF CartAssumption
      <4>6. added \in 1..MaxQuantity /\ added <= lines[k].quantity + q.quantity
        BY <1>3, <4>2, <4>4, <4>5 DEF CartAssumption
      <4> HIDE DEF line, added
      <4>7. /\ lines' \in [LineIds -> Basket!LineRow \cup {Basket!None}]
            /\ \A l \in LineIds : lines'[l] # Basket!None =>
                   lines[l] # Basket!None /\ lines'[l].cart = lines[l].cart /\ lines'[l].item = lines[l].item
            /\ UnitsInCarts'
        BY <2>1, <2>6, <4>4, <4>5, <4>6, QuantityChanges
      <4> QED
        BY <4>7, LinesFewer
    <3>2. CASE line = {}
      <4>1. PICK table : table = emptied
        OBVIOUS
      <4>2. lines \in [LineIds -> Basket!LineRow \cup {Basket!None}]
        BY DEF CartInv, Basket!TypeOK
      <4>3. /\ table \in [LineIds -> Basket!LineRow \cup {Basket!None}]
            /\ \A l \in LineIds : table[l] = Basket!None \/ table[l] = lines[l]
            /\ \A l \in LineIds : table[l] # Basket!None => ~(table[l].cart = c /\ table[l].item = q.item)
        <5>1. CASE reused
          <6>1. table = [l \in LineIds |-> IF l \in Basket!LinesIn(c) THEN Basket!None ELSE lines[l]]
            BY <4>1, <5>1 DEF Basket!Without
          <6> QED
            BY <4>2, <6>1 DEF Basket!LinesIn
        <5>2. CASE ~reused
          <6>1. table = lines /\ Basket!LineOf(c, q.item) = {}
            BY <3>2, <4>1, <5>2
          <6> QED
            BY <4>2, <6>1 DEF Basket!LineOf, Basket!LinesIn
        <5> QED
          BY <5>1, <5>2
      <4>4. {l \in LineIds : table[l] = Basket!None} # {}
        BY <1>7, <3>2, <4>3 DEF Basket!FreeLines
      <4>5. {l \in LineIds : table[l] = Basket!None} \in SUBSET Nat
        BY DEF CartAssumption
      <4>6. PICK k : k = Basket!Min({l \in LineIds : table[l] = Basket!None})
        OBVIOUS
      <4>7. k \in LineIds /\ table[k] = Basket!None
        BY <4>4, <4>5, <4>6, MinOf
      <4>8. lines' = [table EXCEPT ![k] = [cart |-> c, item |-> q.item, quantity |-> q.quantity]]
        BY <1>8, <1>10, <3>2, <4>1, <4>6
      <4> QED
        BY <1>3, <1>6, <2>1, <4>3, <4>7, <4>8, LineAdded
    <3> QED
      BY <3>1, <3>2
  <2>9. Basket!AbandonedEmpty'
    BY <2>2, <2>8 DEF CartInv, Basket!AbandonedEmpty
  <2>10. Basket!TypeOK'
    BY <1>7, <2>2, <2>6, <2>8 DEF CartInv, Basket!TypeOK
  <2> QED
    BY <2>2, <2>3, <2>5, <2>7, <2>8, <2>9, <2>10 DEF CartInv
<1> QED
    BY <1>9, <1>10

\* The lines after a merge, as MergeGuestCartIntoCustomerCart writes them.
MergedQuantity(c, guest, i) == Basket!Merged(Basket!QuantityIn(c, i), Basket!QuantityIn(guest, i), stock[i])
KeptItems(c, guest) == {i \in Items : Basket!LineOf(guest, i) # {} /\ MergedQuantity(c, guest, i) > 0}
PlaceOf(c, guest, i) == Basket!Min(IF Basket!LineOf(c, i) # {} THEN Basket!LineOf(c, i) ELSE Basket!LineOf(guest, i))
MergedLines(c, guest) ==
    [l \in LineIds |->
        IF \E i \in KeptItems(c, guest) : l = PlaceOf(c, guest, i)
        THEN [cart |-> c, item |-> lines[l].item, quantity |-> MergedQuantity(c, guest, lines[l].item)]
        ELSE IF l \in Basket!LinesIn(guest) THEN Basket!None ELSE lines[l]]

\* No unit is copied: one goes where its line went, or is gone.
LEMMA MergedUnits ==
    ASSUME CartAssumption, CartInv, NEW c \in CartIds, NEW guest \in CartIds, c # guest
    PROVE  \E new \in [LineIds -> Basket!LineRow \cup {Basket!None}] :
           /\ new = MergedLines(c, guest)
           /\ \A l \in LineIds : new[l] # Basket!None =>
                  /\ new[l].cart # guest
                  /\ \/ new[l] = lines[l]
                     \/ new[l].cart = c /\ lines[l] # Basket!None
           /\ \A i \in Items : \A x, y \in LineIds :
                  new[x] # Basket!None /\ new[y] # Basket!None /\ new[x].cart = c /\ new[y].cart = c
                  /\ new[x].item = i /\ new[y].item = i => x = y
           /\ Total(Quantities(new), LineIds) <= asked
<1>f. PICK final : final = [i \in Items |-> MergedQuantity(c, guest, i)]
    OBVIOUS
<1>k. PICK kept : kept = KeptItems(c, guest)
    OBVIOUS
<1>n. PICK new : new = MergedLines(c, guest)
    OBVIOUS
<1>i. \A i \in Items : i \in kept <=> Basket!LineOf(guest, i) # {} /\ final[i] > 0
    BY <1>f, <1>k DEF KeptItems
<1>j. kept \subseteq Items
    BY <1>k DEF KeptItems
<1>1. /\ lines \in [LineIds -> Basket!LineRow \cup {Basket!None}]
      /\ \A i \in Items : stock[i] \in 0..MaxStock
    BY DEF CartInv, Basket!TypeOK
<1>2. ASSUME NEW d \in CartIds, NEW i \in Items, Basket!LineOf(d, i) # {}
      PROVE  /\ Basket!Min(Basket!LineOf(d, i)) \in Basket!LineOf(d, i)
             /\ Basket!LineOf(d, i) = {Basket!Min(Basket!LineOf(d, i))}
  <2>1. Basket!LineOf(d, i) \in SUBSET Nat
    BY DEF Basket!LineOf, Basket!LinesIn, CartAssumption
  <2>2. Basket!Min(Basket!LineOf(d, i)) \in Basket!LineOf(d, i)
    BY <1>2, <2>1, MinOf
  <2> QED
    BY <2>2 DEF CartInv, LineAlone
<1>3. \A d \in CartIds, i \in Items, l \in LineIds :
          l \in Basket!LineOf(d, i) <=> lines[l] # Basket!None /\ lines[l].cart = d /\ lines[l].item = i
    BY DEF Basket!LineOf, Basket!LinesIn
<1>4. \A d \in CartIds, i \in Items : Basket!LineOf(d, i) \subseteq LineIds
    BY DEF Basket!LineOf, Basket!LinesIn
\* The line of an item after the merge, and the guest's that it takes in.
<1>5. PICK place : place = [i \in Items |-> PlaceOf(c, guest, i)]
    OBVIOUS
<1>6. PICK mate : mate = [l \in LineIds |-> Basket!Min(Basket!LineOf(guest, lines[l].item))]
    OBVIOUS
<1>7. \A l \in LineIds : lines[l] # Basket!None =>
          /\ lines[l] \in Basket!LineRow /\ lines[l].cart \in CartIds /\ lines[l].item \in Items
          /\ lines[l].quantity \in 1..MaxQuantity
    BY <1>1, CartShapes
<1>8. ASSUME NEW i \in kept
      PROVE  /\ i \in Items /\ Basket!LineOf(guest, i) # {} /\ final[i] > 0 /\ place[i] \in LineIds
             /\ lines[place[i]] # Basket!None /\ lines[place[i]].item = i
             /\ IF Basket!LineOf(c, i) # {} THEN place[i] \in Basket!LineOf(c, i)
                                                 /\ Basket!LineOf(c, i) = {place[i]}
                ELSE place[i] \in Basket!LineOf(guest, i) /\ Basket!LineOf(guest, i) = {place[i]}
  <2>1. i \in Items /\ Basket!LineOf(guest, i) # {} /\ final[i] > 0
    BY <1>i, <1>j
  <2>2. CASE Basket!LineOf(c, i) # {}
    BY <1>2, <1>3, <1>4, <1>5, <2>1, <2>2 DEF PlaceOf
  <2>3. CASE Basket!LineOf(c, i) = {}
    <3>1. place[i] = Basket!Min(Basket!LineOf(guest, i))
      BY <1>5, <2>1, <2>3 DEF PlaceOf
    <3> QED
      BY <1>2, <1>3, <1>4, <2>1, <2>3, <3>1
  <2> QED
    BY <2>1, <2>2, <2>3
<1>9. ASSUME NEW l \in LineIds
      PROVE  new[l] = IF \E i \in kept : l = place[i]
                      THEN [cart |-> c, item |-> lines[l].item, quantity |-> final[lines[l].item]]
                      ELSE IF l \in Basket!LinesIn(guest) THEN Basket!None ELSE lines[l]
  <2>1. \A i \in kept : place[i] = PlaceOf(c, guest, i)
    BY <1>5, <1>j
  <2>2. CASE \E i \in kept : l = place[i]
    <3>1. lines[l].item \in Items
      BY <1>8, <2>2
    <3> QED
      BY <1>f, <1>k, <1>n, <2>1, <2>2, <3>1 DEF MergedLines
  <2>3. CASE ~ \E i \in kept : l = place[i]
    BY <1>k, <1>n, <2>1, <2>3 DEF MergedLines
  <2> QED
    BY <2>2, <2>3
\* Between one and what both carts held.
<1>10. ASSUME NEW i \in Items, Basket!LineOf(guest, i) # {}
       PROVE  /\ final[i] \in 0..MaxQuantity
              /\ final[i] <= Basket!QuantityIn(c, i) + Basket!QuantityIn(guest, i)
              /\ Basket!LineOf(c, i) # {} => final[i] > 0
  <2>1. \A d \in CartIds : IF Basket!LineOf(d, i) = {} THEN Basket!QuantityIn(d, i) = 0
                           ELSE Basket!QuantityIn(d, i) \in 1..MaxQuantity
    <3> SUFFICES ASSUME NEW d \in CartIds
                 PROVE  IF Basket!LineOf(d, i) = {} THEN Basket!QuantityIn(d, i) = 0
                        ELSE Basket!QuantityIn(d, i) \in 1..MaxQuantity
      OBVIOUS
    <3>1. CASE Basket!LineOf(d, i) = {}
      BY <3>1 DEF Basket!QuantityIn
    <3>2. CASE Basket!LineOf(d, i) # {}
      <4>1. PICK k \in LineIds : k = Basket!Min(Basket!LineOf(d, i)) /\ lines[k] # Basket!None
        BY <1>2, <1>3, <1>4, <3>2
      <4>2. Basket!QuantityIn(d, i) = lines[k].quantity
        BY <3>2, <4>1 DEF Basket!QuantityIn
      <4> QED
        BY <1>7, <3>2, <4>1, <4>2
    <3> QED
      BY <3>1, <3>2
  <2>2. PICK e \in Nat, m \in Nat, s \in Nat :
          /\ e = Basket!QuantityIn(c, i) /\ m = Basket!QuantityIn(guest, i) /\ s = stock[i]
          /\ e <= MaxQuantity /\ m >= 1 /\ MaxQuantity >= 1 /\ (Basket!LineOf(c, i) # {} => e > 0)
    BY <1>1, <1>10, <2>1 DEF CartAssumption
  <2>3. final[i] = IF s = 0 THEN e ELSE Basket!Min({e + m, MaxQuantity, s})
    BY <1>f, <2>2 DEF MergedQuantity, Basket!Merged
  <2>4. CASE s = 0
    BY <2>2, <2>3, <2>4 DEF CartAssumption
  <2>5. CASE s # 0
    <3>1. {e + m, MaxQuantity, s} \in SUBSET Nat /\ {e + m, MaxQuantity, s} # {}
      BY DEF CartAssumption
    <3>2. PICK least \in {e + m, MaxQuantity, s} : \A y \in {e + m, MaxQuantity, s} : least <= y
      BY <3>1, LeastMember
    <3>3. PICK mn : mn = Basket!Min({e + m, MaxQuantity, s})
      OBVIOUS
    <3>4. mn \in {e + m, MaxQuantity, s} /\ \A y \in {e + m, MaxQuantity, s} : mn <= y
      BY <3>2, <3>3 DEF Basket!Min
    <3> QED
      BY <2>2, <2>3, <2>5, <3>3, <3>4 DEF CartAssumption
  <2> QED
    BY <2>4, <2>5
<1>11. \A l \in LineIds : \A i \in kept : l = place[i] => lines[l].item = i
    BY <1>8
<1>12. ASSUME NEW l \in LineIds, NEW i \in kept, l = place[i]
       PROVE  /\ lines[l] # Basket!None /\ lines[l].item = i /\ new[l] \in Basket!LineRow /\ new[l] # Basket!None
              /\ new[l].cart = c /\ new[l].item = i /\ new[l].quantity = final[i]
  <2>1. lines[l] # Basket!None /\ lines[l].item = i /\ i \in Items /\ Basket!LineOf(guest, i) # {} /\ final[i] > 0
    BY <1>8, <1>12
  <2>2. new[l] = [cart |-> c, item |-> i, quantity |-> final[i]]
    BY <1>9, <1>12, <2>1
  <2>3. final[i] \in 1..MaxQuantity
    BY <1>10, <2>1 DEF CartAssumption
  <2> QED
    BY <2>1, <2>2, <2>3, CartShapes
<1>13. ASSUME NEW l \in LineIds, ~ \E i \in kept : l = place[i]
       PROVE  new[l] = IF l \in Basket!LinesIn(guest) THEN Basket!None ELSE lines[l]
    BY <1>9, <1>13
<1>14. new \in [LineIds -> Basket!LineRow \cup {Basket!None}]
  <2>1. \A l \in LineIds : new[l] \in Basket!LineRow \cup {Basket!None}
    BY <1>1, <1>12, <1>13
  <2>2. new = [l \in LineIds |-> new[l]]
    BY <1>n DEF MergedLines
  <2> QED
    BY <2>1, <2>2
<1>15. \A l \in LineIds : new[l] # Basket!None =>
           /\ new[l].cart # guest
           /\ \/ new[l] = lines[l]
              \/ new[l].cart = c /\ lines[l] # Basket!None
    BY <1>12, <1>13 DEF Basket!LinesIn
\* A line that ends in the customer's cart is the one its item was placed at, or was there
\* and the guest had none of its item.
<1>16. ASSUME NEW x \in LineIds, new[x] # Basket!None, new[x].cart = c
       PROVE  /\ new[x].item \in Items
              /\ IF new[x].item \in kept THEN x = place[new[x].item]
                 ELSE x \in Basket!LineOf(c, new[x].item)
  <2>1. CASE \E i \in kept : x = place[i]
    BY <1>8, <1>12, <2>1
  <2>2. CASE ~ \E i \in kept : x = place[i]
    <3>1. new[x] = lines[x] /\ lines[x] # Basket!None /\ lines[x].cart = c
      BY <1>13, <1>16, <2>2
    <3>2. PICK i \in Items : i = lines[x].item /\ x \in Basket!LineOf(c, i)
      BY <1>3, <1>7, <3>1
    <3>3. i \notin kept
      BY <1>8, <2>2, <3>2
    <3> QED
      BY <3>1, <3>2, <3>3
  <2> QED
    BY <2>1, <2>2
<1>17. \A i \in Items : \A x, y \in LineIds :
           new[x] # Basket!None /\ new[y] # Basket!None /\ new[x].cart = c /\ new[y].cart = c
           /\ new[x].item = i /\ new[y].item = i => x = y
    BY <1>16 DEF CartInv, LineAlone
<1>18. ASSUME NEW d \in CartIds, NEW i \in Items, NEW k \in Basket!LineOf(d, i)
       PROVE  Basket!Min(Basket!LineOf(d, i)) = k /\ Basket!QuantityIn(d, i) = lines[k].quantity
  <2>1. Basket!Min(Basket!LineOf(d, i)) = k /\ Basket!LineOf(d, i) # {}
    BY <1>2
  <2> QED
    BY <2>1 DEF Basket!QuantityIn
<1> DEFINE f == Quantities(new)
           g == Quantities(lines)
           A == {l \in LineIds : lines[l] # Basket!None /\ lines[l].cart = c /\ Basket!LineOf(guest, lines[l].item) # {}}
<1>19. /\ \A l \in LineIds : f[l] \in Nat /\ (IF new[l] = Basket!None THEN f[l] = 0 ELSE f[l] = new[l].quantity)
       /\ \A l \in LineIds : g[l] \in Nat /\ (IF lines[l] = Basket!None THEN g[l] = 0 ELSE g[l] = lines[l].quantity)
    BY <1>1, <1>14, QuantitiesNat
<1> HIDE DEF f, g
<1>20. ASSUME NEW a \in A
       PROVE  /\ mate[a] \in LineIds \ A /\ lines[mate[a]] # Basket!None /\ lines[mate[a]].item = lines[a].item
              /\ f[a] <= g[a] + g[mate[a]] /\ f[mate[a]] = 0
  <2>1. PICK i \in Items : i = lines[a].item
    BY <1>7
  <2>2. a \in LineIds /\ lines[a] # Basket!None /\ a \in Basket!LineOf(c, i) /\ Basket!LineOf(guest, i) # {}
    BY <1>3, <2>1
  <2>3. PICK m \in LineIds : m = mate[a] /\ m \in Basket!LineOf(guest, i)
    BY <1>2, <1>4, <1>6, <2>1, <2>2
  <2>4. lines[m] # Basket!None /\ lines[m].cart = guest /\ lines[m].item = i /\ m \notin A /\ m # a
    BY <1>3, <2>2, <2>3
  <2>5. i \in kept
    BY <1>i, <1>10, <2>2
  <2>6. a = place[i]
    BY <1>8, <2>2, <2>5
  <2>7. new[a] # Basket!None /\ new[a].quantity = final[i]
    BY <1>12, <2>2, <2>5, <2>6
  <2>8. final[i] <= lines[a].quantity + lines[m].quantity
    BY <1>10, <1>18, <2>2, <2>3
  <2>9. f[a] <= g[a] + g[m]
    BY <1>19, <2>2, <2>4, <2>7, <2>8
  <2>10. ~ \E j \in kept : m = place[j]
    BY <1>8, <2>4, <2>6
  <2>11. new[m] = Basket!None
    BY <1>13, <2>4, <2>10 DEF Basket!LinesIn
  <2>12. f[m] = 0
    BY <1>19, <2>11
  <2> QED
    BY <2>1, <2>3, <2>4, <2>9, <2>12
<1>21. \A a, b \in A : mate[a] = mate[b] => a = b
  <2> SUFFICES ASSUME NEW a \in A, NEW b \in A, mate[a] = mate[b] PROVE a = b
    OBVIOUS
  <2>1. PICK i \in Items : i = lines[a].item /\ i = lines[b].item
    BY <1>7, <1>20
  <2>2. a \in Basket!LineOf(c, i) /\ b \in Basket!LineOf(c, i)
    BY <1>3, <2>1
  <2> QED
    BY <2>2 DEF CartInv, LineAlone
<1>22. ASSUME NEW x \in LineIds \ A PROVE f[x] <= g[x]
  <2>1. CASE \E i \in kept : x = place[i]
    <3>1. PICK i \in kept : x = place[i]
      BY <2>1
    <3>2. lines[x] # Basket!None /\ lines[x].item = i /\ new[x] # Basket!None /\ new[x].quantity = final[i]
      BY <1>12, <3>1
    <3>3. i \in Items /\ Basket!LineOf(guest, i) # {}
      BY <1>8
    <3>4. Basket!LineOf(c, i) = {} /\ x \in Basket!LineOf(guest, i)
      BY <1>3, <1>8, <3>1, <3>2, <3>3
    <3>5. Basket!QuantityIn(c, i) = 0 /\ Basket!QuantityIn(guest, i) = lines[x].quantity
      BY <1>18, <3>3, <3>4 DEF Basket!QuantityIn
    <3>6. final[i] <= Basket!QuantityIn(c, i) + Basket!QuantityIn(guest, i) /\ lines[x].quantity \in 1..MaxQuantity
      BY <1>7, <1>10, <3>2, <3>3
    <3>7. final[i] <= lines[x].quantity
      BY <3>5, <3>6 DEF CartAssumption
    <3> QED
      BY <1>19, <3>2, <3>7
  <2>2. CASE ~ \E i \in kept : x = place[i]
    BY <1>13, <1>19, <2>2
  <2> QED
    BY <2>1, <2>2
<1>23. Total(f, LineIds) <= Total(g, LineIds)
  <2>1. A \in SUBSET LineIds /\ \A l \in LineIds : f[l] \in Nat /\ g[l] \in Nat
    BY <1>19
  <2> HIDE DEF A
  <2>2. (\A a \in A : mate[a] \in LineIds \ A) /\ (\A a \in A : f[a] <= g[a] + g[mate[a]] /\ f[mate[a]] = 0)
    BY <1>20
  <2>3. \A x \in LineIds \ A : f[x] <= g[x]
    BY <1>22
  <2>4. IsFiniteSet(LineIds) /\ \A x \in LineIds : f[x] \in Nat /\ g[x] \in Nat
    BY <2>1 DEF CartAssumption
  <2> QED
    BY <1>21, <2>1, <2>2, <2>3, <2>4, TotalMoved
<1>24. Total(f, LineIds) \in Int /\ Total(g, LineIds) \in Int
  <2>1. (\A l \in LineIds : f[l] \in Int) /\ (\A l \in LineIds : g[l] \in Int)
    BY <1>19
  <2> QED
    BY <2>1, TotalType DEF CartAssumption
<1>25. Total(g, LineIds) <= asked /\ asked \in Int
    BY DEF g, CartInv, UnitsInCarts, Basket!TypeOK, CartAssumption
<1>26. Total(Quantities(new), LineIds) <= asked
    BY <1>23, <1>24, <1>25 DEF f
<1> QED
    BY <1>n, <1>14, <1>15, <1>17, <1>26

\* Carts change, lines and requests do not; whoever is adding keeps what it found.
LEMMA StepCarts ==
    ASSUME CartAssumption, CartInv, UNCHANGED <<carting, stock>>, placed' \subseteq placed, asked' = asked,
           carts' \in [CartIds -> Basket!CartRow \cup {Basket!None}],
           \A d \in CartIds : carts[d] # Basket!None => carts'[d] # Basket!None,
           OneActive', OneOfToken', \A s \in Requests, p \in CartRequest : p = carting[s] /\ p.op = "add" => AddFits(p)',
           lines' \in [LineIds -> Basket!LineRow \cup {Basket!None}],
           LineAlone', Basket!AbandonedEmpty', UnitsInCarts'
    PROVE  CartInv'
<1>1. carting' \in [Requests -> CartRequest] /\ carting' = carting
    BY DEF CartInv
<1>2. ASSUME NEW s \in Requests, carting'[s].op = "add" PROVE AddFits(carting[s])'
  <2>1. PICK p \in CartRequest : p = carting'[s]
    BY <1>1
  <2>2. AddFits(p)'
    BY <1>1, <1>2, <2>1
  <2> QED
    BY <2>1, <2>2 DEF AddFits
<1>3. (\A s \in Requests : CartRequestFits(carting[s])') /\ OneAddPerCustomer'
    BY <1>1, <1>2, CartRequestsKept
<1>4. (\A c \in placed' : carts'[c] # Basket!None) /\ Basket!TypeOK'
    BY DEF CartInv, Basket!TypeOK
<1> QED
    BY <1>1, <1>3, <1>4 DEF CartInv

\* A merge that finds a cart of the guest: the customer's row is written, the guest's given up.
LEMMA StepMergeCarts ==
    ASSUME CartAssumption, CartInv, NEW u \in Customers, NEW g \in Tokens, NEW c \in CartIds, NEW guest \in CartIds,
           carts[c] = Basket!None \/ carts[c].owner = u, Basket!FindActiveCart(u) \subseteq {c},
           carts[guest] # Basket!None, carts[guest].owner = g,
           Basket!Unlocked(u), Basket!CartUnlocked(guest), UNCHANGED <<stock, carting, placed, asked>>,
           NEW row, row = [owner |-> u, status |-> "active"],
           NEW gone, gone = [owner |-> Basket!NoOwner, status |-> "abandoned"],
           carts' = [carts EXCEPT ![c] = row, ![guest] = gone],
           lines' = MergedLines(c, guest)
    PROVE  CartInv'
<1>1. u \in Basket!Owners /\ g \in Basket!Owners /\ u # g
    BY DEF Basket!Owners, CartAssumption
<1>2. c # guest
    BY <1>1
<1>3. row \in Basket!CartRow
    BY <1>1, CartShapes
<1>4. gone \in Basket!CartRow
    BY CartShapes
<1>5. carts \in [CartIds -> Basket!CartRow \cup {Basket!None}]
    BY DEF CartInv, Basket!TypeOK
<1>7. /\ carts' \in [CartIds -> Basket!CartRow \cup {Basket!None}]
      /\ carts'[c] = row /\ carts'[guest] = gone /\ \A d \in CartIds \ {c, guest} : carts'[d] = carts[d]
  <2>1. PICK half \in [CartIds -> Basket!CartRow \cup {Basket!None}] : half = [carts EXCEPT ![c] = row]
    BY <1>3, <1>5
  <2>2. half[c] = row /\ \A d \in CartIds \ {c} : half[d] = carts[d]
    BY <1>5, <2>1
  <2>3. carts' = [half EXCEPT ![guest] = gone]
    BY <2>1
  <2> QED
    BY <1>2, <1>4, <2>2, <2>3
<1>8. /\ row # Basket!None /\ row.owner = u /\ row.status = "active"
      /\ gone # Basket!None /\ gone.owner = Basket!NoOwner /\ gone.status = "abandoned"
    BY <1>3, <1>4, CartShapes
<1>9. Basket!NoOwner \notin Basket!Owners
    BY DEF CartAssumption
<1>10. ASSUME NEW x \in Basket!Owners \ {u, g}
       PROVE  Basket!CartsOf(x)' = Basket!CartsOf(x) /\ Basket!FindActiveCart(x)' = Basket!FindActiveCart(x)
  <2>1. \A d \in CartIds : (carts'[d] # Basket!None /\ carts'[d].owner = x) <=> (carts[d] # Basket!None /\ carts[d].owner = x)
    <3>1. x # u /\ x # g /\ x # Basket!NoOwner
      BY <1>9
    <3>2. (carts[c] # Basket!None /\ carts[c].owner = x) <=> FALSE
      BY <3>1
    <3>3. (carts[guest] # Basket!None /\ carts[guest].owner = x) <=> FALSE
      BY <3>1
    <3> QED
      BY <1>7, <1>8, <3>1, <3>2, <3>3
  <2>2. Basket!CartsOf(x)' = Basket!CartsOf(x)
    BY <2>1 DEF Basket!CartsOf
  <2>3. \A d \in Basket!CartsOf(x) : carts'[d] = carts[d]
    BY <1>7, <1>8, <1>9, <2>1 DEF Basket!CartsOf
  <2> QED
    BY <2>2, <2>3 DEF Basket!FindActiveCart
<1>11. Basket!CartsOf(g) = {guest}
  <2>1. guest \in Basket!CartsOf(g)
    BY DEF Basket!CartsOf
  <2> QED
    BY <2>1 DEF CartInv, OneOfToken
<1>12. Basket!CartsOf(g)' = {}
    BY <1>1, <1>7, <1>8, <1>9, <1>11 DEF Basket!CartsOf
<1>13. Basket!FindActiveCart(u)' \subseteq {c}
    BY <1>1, <1>7, <1>8, <1>9 DEF Basket!FindActiveCart, Basket!CartsOf
<1>14. OneActive'
  <2> SUFFICES ASSUME NEW x \in Customers PROVE \A d, e \in Basket!FindActiveCart(x)' : d = e
    BY DEF OneActive
  <2>1. CASE x = u
    BY <1>13, <2>1
  <2>2. CASE x # u
    <3>1. x \in Basket!Owners \ {u, g}
      BY <2>2 DEF Basket!Owners, CartAssumption
    <3> QED
      BY <1>10, <3>1 DEF CartInv, OneActive
  <2> QED
    BY <2>1, <2>2
<1>15. OneOfToken'
  <2> SUFFICES ASSUME NEW x \in Tokens PROVE \A d, e \in Basket!CartsOf(x)' : d = e
    BY DEF OneOfToken
  <2>1. CASE x = g
    BY <1>12, <2>1
  <2>2. CASE x # g
    <3>1. x \in Basket!Owners \ {u, g}
      BY <2>2 DEF Basket!Owners, CartAssumption
    <3> QED
      BY <1>10, <3>1 DEF CartInv, OneOfToken
  <2> QED
    BY <2>1, <2>2
<1>16. \A s \in Requests, p \in CartRequest : p = carting[s] /\ p.op = "add" =>
          AddFits(p) /\ p.owner \in Basket!Owners \ {u} /\ p.cart # guest
    BY <1>1, CartRequestShape DEF CartInv, CartRequestFits, Basket!Unlocked, Basket!CartUnlocked, CartAssumption
<1>17. \A s \in Requests, p \in CartRequest : p = carting[s] /\ p.op = "add" => AddFits(p)'
  <2> SUFFICES ASSUME NEW s \in Requests, NEW p \in CartRequest, p = carting[s], p.op = "add" PROVE AddFits(p)'
    OBVIOUS
  <2>1. AddFits(p) /\ p.owner \in Basket!Owners \ {u} /\ p.cart # guest
    BY <1>16
  <2>2. CASE p.owner = g
    BY <1>1, <1>11, <1>12, <2>1, <2>2 DEF AddFits, CartAssumption
  <2>3. CASE p.owner # g
    BY <1>10, <2>1, <2>3 DEF AddFits
  <2> QED
    BY <2>2, <2>3
<1>18. PICK new \in [LineIds -> Basket!LineRow \cup {Basket!None}] :
         /\ new = MergedLines(c, guest)
         /\ \A l \in LineIds : new[l] # Basket!None =>
                /\ new[l].cart # guest
                /\ \/ new[l] = lines[l]
                   \/ new[l].cart = c /\ lines[l] # Basket!None
         /\ \A i \in Items : \A x, y \in LineIds :
                new[x] # Basket!None /\ new[y] # Basket!None /\ new[x].cart = c /\ new[y].cart = c
                /\ new[x].item = i /\ new[y].item = i => x = y
         /\ Total(Quantities(new), LineIds) <= asked
    BY <1>2, MergedUnits
<1>19. lines' = new
    BY <1>18
<1>20. UnitsInCarts'
    BY <1>18, <1>19 DEF UnitsInCarts, Quantities
<1>21. (\A d : d # c => Basket!LinesIn(d)' \subseteq Basket!LinesIn(d)) /\ Basket!LinesIn(guest)' = {}
    BY <1>18, <1>19 DEF Basket!LinesIn
<1>22. Basket!AbandonedEmpty'
    BY <1>7, <1>8, <1>21 DEF CartInv, Basket!AbandonedEmpty
<1>23. LineAlone'
  <2> SUFFICES ASSUME NEW d \in CartIds, NEW i \in Items PROVE \A x, y \in Basket!LineOf(d, i)' : x = y
    BY DEF LineAlone
  <2>1. CASE d = c
    BY <1>18, <1>19, <2>1 DEF Basket!LineOf, Basket!LinesIn
  <2>2. CASE d # c
    <3>1. Basket!LineOf(d, i)' \subseteq Basket!LineOf(d, i)
      BY <1>18, <1>19, <2>2 DEF Basket!LineOf, Basket!LinesIn
    <3> QED
      BY <3>1 DEF CartInv, LineAlone
  <2> QED
    BY <2>1, <2>2
<1>24. (\A d \in CartIds : carts[d] # Basket!None => carts'[d] # Basket!None)
       /\ lines' \in [LineIds -> Basket!LineRow \cup {Basket!None}]
    BY <1>7, <1>8, <1>18, <1>19
<1> QED
    BY <1>7, <1>14, <1>15, <1>17, <1>20, <1>22, <1>23, <1>24, StepCarts

LEMMA StepMerge ==
    ASSUME CartAssumption, CartInv, NEW u \in Customers, NEW g \in Tokens, Basket!MergeGuestCartIntoCustomerCart(u, g)
    PROVE  CartInv'
<1>1. PICK c : c = IF Basket!FindActiveCart(u) = {} THEN Basket!Min(Basket!FreeCarts) ELSE Basket!Min(Basket!FindActiveCart(u))
    OBVIOUS
<1>2. PICK guest : guest = Basket!Min(Basket!FindActiveCart(g))
    OBVIOUS
<1>3. /\ Basket!Unlocked(u)
      /\ Basket!FindActiveCart(u) # {} \/ Basket!FreeCarts # {}
      /\ UNCHANGED <<stock, carting, placed, asked>>
    BY DEF Basket!MergeGuestCartIntoCustomerCart
<1>4. IF Basket!FindActiveCart(g) = {}
      THEN carts' = [carts EXCEPT ![c] = [owner |-> u, status |-> "active"]] /\ lines' = lines
      ELSE /\ Basket!CartUnlocked(guest) /\ Basket!CartUnlocked(c)
           /\ carts' = [carts EXCEPT ![c] = [owner |-> u, status |-> "active"],
                                     ![guest] = [owner |-> Basket!NoOwner, status |-> "abandoned"]]
           /\ lines' = MergedLines(c, guest)
  <2>1. CASE Basket!FindActiveCart(g) = {}
    BY <1>1, <2>1 DEF Basket!MergeGuestCartIntoCustomerCart
  <2>2. CASE Basket!FindActiveCart(g) # {}
    <3>1. /\ Basket!CartUnlocked(guest) /\ Basket!CartUnlocked(c)
          /\ carts' = [carts EXCEPT ![c] = [owner |-> u, status |-> "active"],
                                    ![guest] = [owner |-> Basket!NoOwner, status |-> "abandoned"]]
      BY <1>1, <1>2, <2>2 DEF Basket!MergeGuestCartIntoCustomerCart
    <3>2. lines' = MergedLines(c, guest)
      BY <1>1, <1>2, <2>2, SMTT(30)
      DEF Basket!MergeGuestCartIntoCustomerCart, MergedLines, KeptItems, PlaceOf, MergedQuantity
    <3> QED
      BY <2>2, <3>1, <3>2
  <2> QED
    BY <2>1, <2>2
<1>5. /\ c \in CartIds /\ (carts[c] = Basket!None \/ carts[c].owner = u)
      /\ Basket!FindActiveCart(u) \subseteq {c}
  <2>1. Basket!FindActiveCart(u) \in SUBSET Nat /\ Basket!FreeCarts \in SUBSET Nat
    BY DEF Basket!FindActiveCart, Basket!CartsOf, Basket!FreeCarts, CartAssumption
  <2>2. /\ Basket!FindActiveCart(u) # {} => c \in Basket!FindActiveCart(u)
        /\ Basket!FindActiveCart(u) = {} => c \in Basket!FreeCarts
    BY <1>1, <1>3, <2>1, MinOf
  <2> QED
    BY <2>2 DEF Basket!FindActiveCart, Basket!CartsOf, Basket!FreeCarts, CartInv, OneActive
<1>6. u \in Basket!Owners /\ g \in Basket!Owners /\ u # g /\ u \notin Tokens
    BY DEF Basket!Owners, CartAssumption
<1>7. \A s \in Requests, p \in CartRequest : p = carting[s] /\ p.op = "add" =>
          AddFits(p) /\ p.owner \in Basket!Owners \ {u}
    BY <1>3, <1>6, CartRequestShape DEF CartInv, CartRequestFits, Basket!Unlocked
<1>8. CASE Basket!FindActiveCart(g) = {}
  <2> carts' = [carts EXCEPT ![c] = [owner |-> u, status |-> "active"]]
    BY <1>4, <1>8
  <2> u \in Customers => Basket!FindActiveCart(u) \subseteq {c}
    BY <1>5
  <2> u \in Tokens => Basket!CartsOf(u) \subseteq {c}
    BY <1>6
  <2>1. /\ carts' \in [CartIds -> Basket!CartRow \cup {Basket!None}]
        /\ carts'[c] # Basket!None /\ carts'[c].status = "active"
        /\ \A d \in CartIds \ {c} : carts'[d] = carts[d]
        /\ \A x : x # u => Basket!CartsOf(x)' = Basket!CartsOf(x) /\ Basket!FindActiveCart(x)' = Basket!FindActiveCart(x)
        /\ OneActive' /\ OneOfToken'
    BY <1>4, <1>5, <1>6, <1>8, CartWritten
  <2>2. \A s \in Requests, p \in CartRequest : p = carting[s] /\ p.op = "add" => AddFits(p)'
    BY <1>7, <2>1 DEF AddFits
  <2>3. lines' = lines
    BY <1>4, <1>8
  <2>4. /\ lines' \in [LineIds -> Basket!LineRow \cup {Basket!None}]
        /\ LineAlone' /\ (\A d : Basket!LinesIn(d)' \subseteq Basket!LinesIn(d))
    BY <2>3, LinesFewer DEF CartInv, Basket!TypeOK
  <2>5. UnitsInCarts'
    BY <1>3, <2>3 DEF CartInv, UnitsInCarts, Quantities
  <2>6. Basket!AbandonedEmpty'
    BY <2>1, <2>4 DEF CartInv, Basket!AbandonedEmpty
  <2>7. \A d \in CartIds : carts[d] # Basket!None => carts'[d] # Basket!None
    BY <2>1
  <2> QED
    BY <1>3, <2>1, <2>2, <2>4, <2>5, <2>6, <2>7, StepCarts
<1>9. CASE Basket!FindActiveCart(g) # {}
  <2>1. guest \in CartIds /\ carts[guest] # Basket!None /\ carts[guest].owner = g
    <3>1. Basket!FindActiveCart(g) \in SUBSET Nat
      BY DEF Basket!FindActiveCart, Basket!CartsOf, CartAssumption
    <3>2. guest \in Basket!FindActiveCart(g)
      BY <1>2, <1>9, <3>1, MinOf
    <3> QED
      BY <3>2 DEF Basket!FindActiveCart, Basket!CartsOf
  <2>2. PICK row : row = [owner |-> u, status |-> "active"]
    OBVIOUS
  <2>3. PICK gone : gone = [owner |-> Basket!NoOwner, status |-> "abandoned"]
    OBVIOUS
  <2>4. /\ carts' = [carts EXCEPT ![c] = row, ![guest] = gone]
        /\ lines' = MergedLines(c, guest)
        /\ Basket!CartUnlocked(guest)
    BY <1>4, <1>9, <2>2, <2>3
  <2> QED
    BY <1>3, <1>5, <2>1, <2>2, <2>3, <2>4, StepMergeCarts
<1> QED
    BY <1>8, <1>9

LEMMA StepPlace == ASSUME CartAssumption, CartInv, NEW o \in Basket!Owners, Basket!PlaceOrder(o) PROVE CartInv'
<1>1. PICK c \in Basket!FindActiveCart(o) :
        placed' = placed \cup {c} /\ UNCHANGED <<carts, lines, stock, carting, asked>>
    BY DEF Basket!PlaceOrder
<1>2. c \in CartIds /\ carts[c] # Basket!None
    BY DEF Basket!FindActiveCart, Basket!CartsOf
<1>3. carting' \in [Requests -> CartRequest] /\ carting' = carting
    BY <1>1 DEF CartInv
<1>4. ASSUME NEW s \in Requests, carting'[s].op = "add" PROVE AddFits(carting[s])'
  <2>1. AddFits(carting[s])
    BY <1>3, <1>4 DEF CartInv, CartRequestFits
  <2> QED
    BY <1>1, <1>3, <2>1 DEF AddFits, Basket!FindActiveCart, Basket!CartsOf
<1>5. (\A s \in Requests : CartRequestFits(carting[s])') /\ OneAddPerCustomer'
    BY <1>3, <1>4, CartRequestsKept
<1>6. Basket!TypeOK' /\ \A d \in placed' : carts'[d] # Basket!None
    BY <1>1, <1>2 DEF CartInv, Basket!TypeOK
<1>7. OneActive' /\ OneOfToken' /\ LineAlone' /\ Basket!AbandonedEmpty'
    BY <1>1 DEF CartInv, OneActive, OneOfToken, LineAlone, Basket!AbandonedEmpty, Basket!FindActiveCart, Basket!CartsOf,
                Basket!LineOf, Basket!LinesIn
<1>8. UnitsInCarts'
    BY <1>1 DEF CartInv, UnitsInCarts, Quantities
<1> QED
    BY <1>3, <1>5, <1>6, <1>7, <1>8 DEF CartInv

LEMMA StatusSet ==
    ASSUME NEW row \in Basket!CartRow, NEW status \in {"active", "ordered", "abandoned"}
    PROVE  \E new \in Basket!CartRow : new = [row EXCEPT !.status = status] /\ new.owner = row.owner /\ new.status = status
<1>1. [row EXCEPT !.status = status] \in Basket!CartRow
    BY DEF Basket!CartRow
<1>2. [row EXCEPT !.status = status].owner = row.owner /\ [row EXCEPT !.status = status].status = status
    BY DEF Basket!CartRow
<1> QED
    BY <1>1, <1>2

LEMMA StepFinalize == ASSUME CartAssumption, CartInv, NEW c \in CartIds, Basket!FinalizeCartForOrder(c) PROVE CartInv'
<1>1. /\ c \in placed /\ Basket!CartUnlocked(c) /\ placed' = placed \ {c}
      /\ UNCHANGED <<lines, stock, carting, asked>>
    BY DEF Basket!FinalizeCartForOrder
<1>2. carts \in [CartIds -> Basket!CartRow \cup {Basket!None}] /\ carts[c] \in Basket!CartRow
    BY <1>1 DEF CartInv, Basket!TypeOK
<1>3. PICK status \in {"active", "ordered", "abandoned"} :
        status = (IF carts[c].status = "active" THEN "ordered" ELSE carts[c].status)
    BY <1>2, CartShapes
<1>4. carts' = [carts EXCEPT ![c].status = status]
    BY <1>3 DEF Basket!FinalizeCartForOrder
<1>5. PICK new \in Basket!CartRow : /\ new = [carts[c] EXCEPT !.status = status]
                                    /\ new.owner = carts[c].owner /\ new.status = status
  <2>1. PICK row \in Basket!CartRow : row = carts[c]
    BY <1>2
  <2>2. \E new \in Basket!CartRow : new = [row EXCEPT !.status = status] /\ new.owner = row.owner /\ new.status = status
    BY StatusSet, Zenon
  <2> QED
    BY <2>1, <2>2, Zenon
<1>6. carts' = [carts EXCEPT ![c] = new]
    BY <1>4, <1>5
<1>7. /\ carts' \in [CartIds -> Basket!CartRow \cup {Basket!None}]
      /\ carts'[c] = new /\ \A d \in CartIds \ {c} : carts'[d] = carts[d]
    BY <1>2, <1>6
<1>8. carts[c] # Basket!None /\ new # Basket!None
    BY <1>2, CartShapes
<1>9. \A o : Basket!CartsOf(o)' = Basket!CartsOf(o)
  <2>1. \A d \in CartIds : (carts'[d] # Basket!None <=> carts[d] # Basket!None) /\ carts'[d].owner = carts[d].owner
    BY <1>5, <1>7, <1>8
  <2> QED
    BY <2>1 DEF Basket!CartsOf
<1>10. \A o : Basket!FindActiveCart(o)' = Basket!FindActiveCart(o) \ {c}
  <2> SUFFICES ASSUME NEW o PROVE Basket!FindActiveCart(o)' = Basket!FindActiveCart(o) \ {c}
    OBVIOUS
  <2>1. Basket!CartsOf(o)' = Basket!CartsOf(o) /\ Basket!CartsOf(o) \subseteq CartIds
    BY <1>9 DEF Basket!CartsOf
  <2>2. carts'[c].status # "active"
    BY <1>3, <1>5, <1>7
  <2> QED
    BY <1>7, <2>1, <2>2 DEF Basket!FindActiveCart
<1>11. \A s \in Requests, p \in CartRequest : p = carting[s] /\ p.op = "add" => AddFits(p)'
  <2> SUFFICES ASSUME NEW s \in Requests, NEW p \in CartRequest, p = carting[s], p.op = "add" PROVE AddFits(p)'
    OBVIOUS
  <2>1. AddFits(p) /\ p.cart # c
    BY <1>1 DEF CartInv, CartRequestFits, Basket!CartUnlocked
  <2> QED
    BY <1>9, <1>10, <2>1 DEF AddFits
<1>12. OneActive' /\ OneOfToken'
    BY <1>9, <1>10 DEF CartInv, OneActive, OneOfToken
<1>13. LineAlone' /\ (\A d : Basket!LinesIn(d)' \subseteq Basket!LinesIn(d))
    BY <1>1, LinesFewer
<1>14. Basket!AbandonedEmpty'
  <2>1. \A d \in CartIds : carts'[d] # Basket!None /\ carts'[d].status = "abandoned" =>
            carts[d] # Basket!None /\ carts[d].status = "abandoned"
    BY <1>3, <1>5, <1>7, <1>8
  <2> QED
    BY <1>13, <2>1 DEF CartInv, Basket!AbandonedEmpty
<1>15. UnitsInCarts'
    BY <1>1 DEF CartInv, UnitsInCarts, Quantities
<1>16. lines' \in [LineIds -> Basket!LineRow \cup {Basket!None}]
    BY <1>1 DEF CartInv, Basket!TypeOK
<1>17. placed' \subseteq placed /\ asked' = asked /\ (\A d \in CartIds : carts[d] # Basket!None => carts'[d] # Basket!None)
    BY <1>1, <1>7, <1>8
<1> QED
    BY <1>1, <1>7, <1>11, <1>12, <1>13, <1>14, <1>15, <1>16, <1>17, StepCarts

LEMMA CartsStutter ==
    ASSUME CartInv, UNCHANGED <<carts, lines, carting, placed, asked>>, stock' \in [Items -> 0..MaxStock]
    PROVE  CartInv'
<1>1. carting' \in [Requests -> CartRequest] /\ carting' = carting
    BY DEF CartInv
<1>2. ASSUME NEW s \in Requests, carting'[s].op = "add" PROVE AddFits(carting[s])'
  <2>1. AddFits(carting[s])
    BY <1>1, <1>2 DEF CartInv, CartRequestFits
  <2> QED
    BY <1>1, <2>1 DEF AddFits, Basket!FindActiveCart, Basket!CartsOf
<1>3. (\A s \in Requests : CartRequestFits(carting[s])') /\ OneAddPerCustomer'
    BY <1>1, <1>2, CartRequestsKept
<1>4. Basket!TypeOK' /\ \A d \in placed' : carts'[d] # Basket!None
    BY DEF CartInv, Basket!TypeOK
<1>5. OneActive' /\ OneOfToken' /\ LineAlone' /\ Basket!AbandonedEmpty'
    BY DEF CartInv, OneActive, OneOfToken, LineAlone, Basket!AbandonedEmpty, Basket!FindActiveCart, Basket!CartsOf,
           Basket!LineOf, Basket!LinesIn
<1>6. UnitsInCarts'
    BY DEF CartInv, UnitsInCarts, Quantities
<1> QED
    BY <1>1, <1>3, <1>4, <1>5, <1>6 DEF CartInv

LEMMA StepCart == ASSUME CartAssumption, CartInv, [Basket!Next]_Basket!vars PROVE CartInv'
<1> stock \in [Items -> 0..MaxStock]
    BY DEF CartInv, Basket!TypeOK
<1>1. ASSUME NEW r \in Requests, Basket!BeginAddCartItem(r) \/ Basket!BeginTouch(r) PROVE CartInv'
    BY <1>1, StepBeginAdd, StepBeginTouch
<1>2. ASSUME NEW r \in Requests,
             \/ Basket!AddCartItem(r) \/ Basket!UpdateCartItemQuantity(r)
             \/ Basket!RemoveCartItem(r) \/ Basket!ClearCart(r)
      PROVE  CartInv'
    BY <1>2, StepAdd, StepUpdate, StepRemove, StepClear
<1>3. ASSUME NEW u \in Customers, NEW g \in Tokens, Basket!MergeGuestCartIntoCustomerCart(u, g) PROVE CartInv'
    BY <1>3, StepMerge
<1>4. ASSUME NEW o \in Basket!Owners, Basket!PlaceOrder(o) PROVE CartInv'
    BY <1>4, StepPlace
<1>5. ASSUME NEW c \in CartIds, Basket!FinalizeCartForOrder(c) PROVE CartInv'
    BY <1>5, StepFinalize
<1>6. ASSUME NEW i \in Items, Basket!StockChanges(i) PROVE CartInv'
  <2>1. PICK n \in 0..MaxStock : stock' = [stock EXCEPT ![i] = n] /\ UNCHANGED <<carts, lines, carting, placed, asked>>
    BY <1>6 DEF Basket!StockChanges
  <2>2. stock' \in [Items -> 0..MaxStock]
    BY <2>1
  <2> QED
    BY <2>1, <2>2, CartsStutter
<1>7. CASE UNCHANGED Basket!vars
    BY <1>7, CartsStutter DEF Basket!vars
<1> QED
    BY <1>1, <1>2, <1>3, <1>4, <1>5, <1>6, <1>7 DEF Basket!Next

\* One active cart per customer and one cart per guest's cookie, one line per item, nothing
\* left in a merged cart and no unit that nobody asked for, whatever requests to add, change,
\* remove and clear overlap with sign-ins, orders and payments (addCartItem, updateCartItem,
\* mergeGuestCartIntoCustomerCart, finalizeCartForOrder of cart.service.ts).
THEOREM CartsConsistentAlways ==
    ASSUME CartAssumption PROVE Basket!Spec => [](Basket!TypeOK /\ Basket!CartsConsistent)
<1>1. Basket!Init => CartInv
    BY InitCart
<1>2. CartInv /\ [Basket!Next]_Basket!vars => CartInv'
    BY StepCart
<1>3. CartInv => Basket!TypeOK /\ Basket!CartsConsistent
    BY CartsSound
<1> QED
    BY <1>1, <1>2, <1>3, PTL DEF Basket!Spec

-----------------------------------------------------------------------------
(* Prices                                                                   *)

\* Amounts are paise, not below zero, and a stored discount has a readable value; what may be
\* stored, and which carts there are, is open.
PriceAssumption ==
    /\ Lines \in Nat /\ MinPayable \in Nat
    /\ \A c \in Carts : c.amount \in [1..Lines -> Nat]
    /\ \A s \in Settings : s.value \in Nat

\* What the customer sees is what the present cart and setting cost.
ShownFits ==
    shown # Price!None =>
        /\ shown.payable = Price!PayableTotal(shown.method)
        /\ \A other \in Price!Methods \ {shown.method} :
               shown.offer[other] = IF shown.method = "unset" THEN 0 ELSE Price!ToPaymentMethodOffer(shown.method, other)
        /\ DOMAIN shown.offer = Price!Methods \ {shown.method}

OrderAddsUp ==
    order # Price!None =>
        /\ Price!Total(order.amount) \in Int /\ order.discount \in Int
        /\ order.total = Price!Total(order.amount) - order.discount

PriceInv ==
    /\ cart \in Carts /\ setting \in Settings \cup {Price!Disabled, Price!Malformed}
    /\ ShownFits /\ OrderAddsUp
    /\ attempt # Price!None => order # Price!None
    /\ Price!PricedAndPaid

LEMMA SmallerIs == \A a, b \in Int : Price!Smaller(a, b) = IF a <= b THEN a ELSE b
<1> SUFFICES ASSUME NEW a \in Int, NEW b \in Int PROVE Price!Smaller(a, b) = IF a <= b THEN a ELSE b
    OBVIOUS
<1>1. PICK m : m = Price!Min({a, b})
    OBVIOUS
<1>2. \E x \in {a, b} : \A y \in {a, b} : x <= y
    OBVIOUS
<1>3. m \in {a, b} /\ \A y \in {a, b} : m <= y
    BY <1>1, <1>2 DEF Price!Min
<1> QED
    BY <1>1, <1>3 DEF Price!Smaller

\* The sum over the lines, as the module writes it.
LEMMA AmountsSummed ==
    ASSUME Lines \in Nat, NEW f
    PROVE  Price!Total(f) = Total(f, 1..Lines) /\ IsFiniteSet(1..Lines)
<1>1. PICK S : S = 1..Lines
    OBVIOUS
<1>2. IsFiniteSet(S)
    BY <1>1, FS_Interval
<1>3. PICK it : Adds(it, f, S)
    BY <1>2, AddsExist
<1> DEFINE AddsUp(iter) == iter = [s \in SUBSET S |-> IF s = {} THEN 0 ELSE f[CHOOSE x \in s : TRUE] + iter[s \ {CHOOSE x \in s : TRUE}]]
<1>4. Price!Total(f) = (CHOOSE iter : AddsUp(iter))[S]
    BY <1>1 DEF Price!Total, Price!MapThenSumSet, Price!MapThenFoldSet
<1>5. \A iter : AddsUp(iter) <=> Adds(iter, f, S)
    BY Zenon DEF Adds, Pick
<1> HIDE DEF AddsUp
<1>6. PICK fold : fold = CHOOSE iter : AddsUp(iter)
    OBVIOUS
<1>7. AddsUp(fold)
    BY <1>3, <1>5, <1>6, Zenon
<1>8. Adds(fold, f, S)
    BY <1>5, <1>7
<1> QED
    BY <1>1, <1>2, <1>4, <1>6, <1>8, TotalIs

\* What a discount can be: nothing, or up to what leaves the minimum to pay.
LEMMA DiscountBounded ==
    ASSUME PriceAssumption, PriceInv, NEW amount \in Nat, NEW method
    PROVE  Price!CalculateGlobalOnlinePaymentDiscount(amount, method, Price!GetPayOnlineDiscountConfig) \in 0..amount
<1>1. PICK config : config = Price!GetPayOnlineDiscountConfig
    OBVIOUS
<1>2. config.value \in Nat
  <2>1. Price!Disabled.value \in Nat
    BY DEF Price!Disabled
  <2>2. config = Price!Disabled \/ config \in Settings
    BY <1>1 DEF Price!GetPayOnlineDiscountConfig, PriceInv
  <2> QED
    BY <2>1, <2>2 DEF PriceAssumption
<1>3. PICK rest \in Nat : rest = Price!Minus(amount, MinPayable) /\ rest <= amount
  <2>1. Price!Minus(amount, MinPayable) \in Nat /\ Price!Minus(amount, MinPayable) <= amount
    BY DEF Price!Minus, PriceAssumption
  <2> QED
    BY <2>1
<1>4. PICK discount \in Nat : discount = IF config.type = "percentage" THEN (amount * Price!Smaller(config.value, Price!Whole)) \div Price!Whole
                                         ELSE config.value
  <2>1. PICK v \in Nat : v = Price!Smaller(config.value, Price!Whole)
    BY <1>2, SmallerIs DEF Price!Whole
  <2>2. PICK p \in Nat : p = amount * v
    OBVIOUS
  <2>3. p \div 10000 \in Nat
    OBVIOUS
  <2> QED
    BY <1>2, <2>1, <2>2, <2>3 DEF Price!Whole
<1>5. Price!Smaller(discount, rest) \in 0..amount
    BY <1>3, SmallerIs
<1>6. PICK given : given = Price!Smaller(discount, rest)
    OBVIOUS
<1>7. Price!CalculateGlobalOnlinePaymentDiscount(amount, method, config) \in {0, given}
    BY <1>3, <1>4, <1>6 DEF Price!CalculateGlobalOnlinePaymentDiscount
<1> QED
    BY <1>1, <1>5, <1>6, <1>7

LEMMA FillLast ==
    ASSUME NEW left \in Nat, NEW r \in Nat, NEW after \in Nat
    PROVE  /\ Price!Smaller(r, Price!Minus(left, after)) \in 0..r
           /\ Price!Smaller(r, Price!Minus(left, after)) + Price!Smaller(left, after) = Price!Smaller(left, r + after)
<1>1. PICK m \in Nat : m = Price!Minus(left, after) /\ m = IF left > after THEN left - after ELSE 0
  <2>1. Price!Minus(left, after) = (IF left > after THEN left - after ELSE 0)
    BY DEF Price!Minus
  <2>2. Price!Minus(left, after) \in Nat
    BY <2>1
  <2> QED
    BY <2>1, <2>2
<1>2. PICK e \in Nat : e = Price!Smaller(r, m) /\ e = IF r <= m THEN r ELSE m
    BY SmallerIs
<1>3. PICK s \in Nat : s = Price!Smaller(left, after) /\ s = IF left <= after THEN left ELSE after
    BY SmallerIs
<1>4. PICK t \in Nat : t = Price!Smaller(left, r + after) /\ t = IF left <= r + after THEN left ELSE r + after
    BY SmallerIs
<1>5. e \in 0..r /\ e + s = t
    BY <1>1, <1>2, <1>3, <1>4
<1> QED
    BY <1>1, <1>2, <1>3, <1>4, <1>5

\* What is left after the floored shares goes to the lines that have room, the last one
\* first: over the last lines together, as much as fits.
LEMMA LastFirst ==
    ASSUME NEW n \in Nat, NEW room, \A l \in 1..n : room[l] \in Nat, NEW left \in Nat,
           NEW extra, \A l \in 1..n : extra[l] = Price!Smaller(room[l], Price!Minus(left, Total(room, (l + 1)..n)))
    PROVE  /\ \A l \in 1..n : extra[l] \in 0..room[l]
           /\ Total(extra, 1..n) = Price!Smaller(left, Total(room, 1..n))
<1> DEFINE Rest(k) == (n - k + 1)..n
           Good(k) == Total(extra, Rest(k)) = Price!Smaller(left, Total(room, Rest(k)))
           bad == {k \in Nat : k <= n /\ ~Good(k)}
<1>1. \A k \in Nat : k <= n => IsFiniteSet(Rest(k)) /\ Rest(k) \in SUBSET (1..n)
    BY FS_Interval
<1>2. \A l \in 1..n : (l + 1)..n = Rest(n - l) /\ n - l \in Nat /\ n - l <= n
    OBVIOUS
<1>3. \A k \in Nat : k <= n => Total(room, Rest(k)) \in Nat
  <2> SUFFICES ASSUME NEW k \in Nat, k <= n PROVE Total(room, Rest(k)) \in Nat
    OBVIOUS
  <2>1. \A x \in Rest(k) : room[x] \in Nat
    BY <1>1
  <2> HIDE DEF Rest
  <2> QED
    BY <1>1, <2>1, TotalNat
<1>4. ASSUME NEW l \in 1..n
      PROVE  /\ extra[l] \in 0..room[l]
             /\ extra[l] + Price!Smaller(left, Total(room, Rest(n - l))) = Price!Smaller(left, room[l] + Total(room, Rest(n - l)))
  <2>1. PICK after \in Nat : after = Total(room, Rest(n - l))
    BY <1>2, <1>3
  <2>2. extra[l] = Price!Smaller(room[l], Price!Minus(left, after))
    BY <1>2, <2>1
  <2> HIDE DEF Rest, Good, bad
  <2>3. PICK r \in Nat : r = room[l]
    OBVIOUS
  <2>4. PICK e : e = Price!Smaller(r, Price!Minus(left, after))
    OBVIOUS
  <2>5. e \in 0..r /\ e + Price!Smaller(left, after) = Price!Smaller(left, r + after)
    BY <2>4, FillLast
  <2>6. e = extra[l]
    BY <2>2, <2>3, <2>4
  <2> QED
    BY <2>1, <2>3, <2>5, <2>6
<1>5. Good(0)
  <2>1. Rest(0) = {}
    OBVIOUS
  <2> QED
    BY <2>1, TotalEmpty, SmallerIs
<1>6. ASSUME NEW k \in Nat, k < n, Good(k) PROVE Good(k + 1)
  <2>1. PICK l \in 1..n : l = n - k
    BY <1>6
  <2>2. Rest(k + 1) = Rest(k) \cup {l} /\ l \notin Rest(k) /\ n - l = k
    BY <1>6, <2>1
  <2>3. IsFiniteSet(Rest(k)) /\ Rest(k) \subseteq 1..n
    BY <1>1, <1>6
  <2> HIDE DEF Rest
  <2>4. (\A y \in Rest(k) \cup {l} : extra[y] \in Int) /\ (\A y \in Rest(k) \cup {l} : room[y] \in Int)
    <3>1. \A y \in 1..n : extra[y] \in Int /\ room[y] \in Int
      BY <1>4
    <3> QED
      BY <2>3, <3>1
  <2>5. Total(extra, Rest(k) \cup {l}) = extra[l] + Total(extra, Rest(k))
    BY <2>2, <2>3, <2>4, TotalAdd
  <2>6. Total(room, Rest(k) \cup {l}) = room[l] + Total(room, Rest(k))
    BY <2>2, <2>3, <2>4, TotalAdd
  <2>7. extra[l] + Price!Smaller(left, Total(room, Rest(k))) = Price!Smaller(left, room[l] + Total(room, Rest(k)))
    BY <1>4, <2>2
  <2> QED
    BY <1>6, <2>2, <2>5, <2>6, <2>7
<1>7. bad = {}
  <2> SUFFICES ASSUME bad # {} PROVE FALSE
    OBVIOUS
  <2> HIDE DEF Good
  <2>1. PICK k \in bad : \A j \in bad : k <= j
    BY LeastMember
  <2>2. k \in Nat /\ k <= n /\ ~Good(k) /\ k # 0
    BY <1>5
  <2>3. k - 1 \in Nat /\ k - 1 < n /\ k - 1 \notin bad
    BY <2>1, <2>2
  <2>4. Good(k - 1)
    BY <2>3
  <2>5. Good((k - 1) + 1) /\ (k - 1) + 1 = k
    BY <1>6, <2>2, <2>3, <2>4
  <2> QED
    BY <2>2, <2>5
<1>8. Good(n)
  <2>1. n \notin bad
    BY <1>7
  <2> HIDE DEF Good
  <2> QED
    BY <2>1
<1>9. Rest(n) = 1..n
    OBVIOUS
<1> QED
    BY <1>4, <1>8, <1>9

Room(amounts, discount) == [k \in 1..Lines |-> amounts[k] - Price!Shares(amounts, discount)[k]]

\* The parts of a discount, with the room of the later lines as a sum.
LEMMA AllocatedTo ==
    ASSUME Lines \in Nat, NEW amounts, NEW discount
    PROVE  \A l \in 1..Lines :
           Price!AllocateOnlinePaymentDiscountAcrossLines(amounts, discount)[l] =
               Price!Shares(amounts, discount)[l] + Price!Smaller(Room(amounts, discount)[l],
                   Price!Minus(Price!Minus(Price!Smaller(discount, Price!Total(amounts)),
                                           Price!Total(Price!Shares(amounts, discount))),
                               Total(Room(amounts, discount), (l + 1)..Lines)))
<1> SUFFICES ASSUME NEW l \in 1..Lines
             PROVE  Price!AllocateOnlinePaymentDiscountAcrossLines(amounts, discount)[l] =
               Price!Shares(amounts, discount)[l] + Price!Smaller(Room(amounts, discount)[l],
                   Price!Minus(Price!Minus(Price!Smaller(discount, Price!Total(amounts)),
                                           Price!Total(Price!Shares(amounts, discount))),
                               Total(Room(amounts, discount), (l + 1)..Lines)))
    OBVIOUS
<1>s. PICK shares : shares = Price!Shares(amounts, discount)
    OBVIOUS
<1>r. PICK room : room = Room(amounts, discount)
    OBVIOUS
<1>k. \A k \in 1..Lines : room[k] = amounts[k] - shares[k]
    BY <1>s, <1>r DEF Room
<1>1. PICK S : S = (l + 1)..Lines
    OBVIOUS
<1>2. IsFiniteSet(S) /\ S \subseteq 1..Lines
    BY <1>1, FS_Interval
<1>3. PICK it : Adds(it, room, S)
    BY <1>2, AddsExist
<1> DEFINE AddsUp(iter) ==
        iter = [s \in SUBSET S |->
                   IF s = {} THEN 0
                   ELSE (amounts[CHOOSE x \in s : TRUE] - Price!Shares(amounts, discount)[CHOOSE x \in s : TRUE])
                        + iter[s \ {CHOOSE x \in s : TRUE}]]
<1> DEFINE after == (CHOOSE iter : AddsUp(iter))[S]
<1>4. Price!AllocateOnlinePaymentDiscountAcrossLines(amounts, discount)[l] =
          shares[l] + Price!Smaller(amounts[l] - shares[l],
              Price!Minus(Price!Minus(Price!Smaller(discount, Price!Total(amounts)), Price!Total(shares)), after))
    BY <1>1, <1>s DEF Price!AllocateOnlinePaymentDiscountAcrossLines, Price!RoomAfter, Price!MapThenSumSet, Price!MapThenFoldSet
<1>5. \A s \in SUBSET S : s # {} => room[Pick(s)] = amounts[Pick(s)] - Price!Shares(amounts, discount)[Pick(s)]
    BY <1>2, <1>s, <1>k, PickIn
<1>6. ASSUME NEW iter PROVE AddsUp(iter) <=> Adds(iter, room, S)
  <2>1. [s \in SUBSET S |-> IF s = {} THEN 0
                            ELSE (amounts[CHOOSE x \in s : TRUE] - Price!Shares(amounts, discount)[CHOOSE x \in s : TRUE])
                                 + iter[s \ {CHOOSE x \in s : TRUE}]]
        = [s \in SUBSET S |-> IF s = {} THEN 0 ELSE room[Pick(s)] + iter[s \ {Pick(s)}]]
    BY <1>5 DEF Pick
  <2> QED
    BY <2>1, Zenon DEF Adds
<1> HIDE DEF AddsUp
<1>7. PICK fold : fold = CHOOSE iter : AddsUp(iter)
    OBVIOUS
<1>8. AddsUp(fold)
    BY <1>3, <1>6, <1>7, Zenon
<1>9. Adds(fold, room, S)
    BY <1>6, <1>8
<1>10. after = Total(room, S)
    BY <1>2, <1>7, <1>9, TotalIs
<1>11. room[l] = amounts[l] - shares[l]
    BY <1>k
<1> QED
    BY <1>1, <1>4, <1>10, <1>11, <1>s, <1>r

\* The parts of a discount add up to it, and none is more than its line costs.
LEMMA SplitExactly ==
    ASSUME Lines \in Nat, NEW amounts \in [1..Lines -> Nat], NEW discount \in Nat, discount <= Price!Total(amounts),
           NEW parts, parts = Price!AllocateOnlinePaymentDiscountAcrossLines(amounts, discount)
    PROVE  Price!Total(parts) = discount /\ \A l \in 1..Lines : parts[l] \in 0..amounts[l]
<1>1. PICK S : S = 1..Lines /\ IsFiniteSet(S)
    BY AmountsSummed
<1>2. PICK T \in Nat : T = Total(amounts, S) /\ T = Price!Total(amounts)
  <2>1. \A l \in S : amounts[l] \in Nat
    BY <1>1
  <2> QED
    BY <1>1, <2>1, TotalNat, AmountsSummed
<1>3. PICK shares : shares = Price!Shares(amounts, discount)
    OBVIOUS
<1>4. \A l \in S : shares[l] = IF T = 0 THEN 0 ELSE (discount * amounts[l]) \div T
  <2>1. Price!Smaller(discount, T) = discount
    BY <1>2, SmallerIs
  <2> QED
    BY <1>1, <1>2, <1>3, <2>1 DEF Price!Shares
<1>5. ASSUME NEW l \in S PROVE shares[l] \in 0..amounts[l] /\ shares[l] * T <= amounts[l] * discount
  <2>1. PICK a \in Nat : a = amounts[l]
    BY <1>1
  <2>2. CASE T = 0
    <3>1. shares[l] = 0 /\ a * discount \in Nat
      BY <1>4, <2>2
    <3> QED
      BY <2>1, <2>2, <3>1
  <2>3. CASE T # 0
    <3>1. T \in Nat \ {0} /\ discount <= T
      BY <1>2, <2>3
    <3>2. (discount * a) \div T \in 0..a /\ ((discount * a) \div T) * T <= a * discount
      BY <3>1, QuotientUpTo
    <3>3. shares[l] = (discount * a) \div T
      BY <1>4, <2>1, <2>3
    <3> QED
      BY <2>1, <3>2, <3>3
  <2> QED
    BY <2>2, <2>3
<1>6. \A l \in S : amounts[l] \in Nat /\ shares[l] \in Nat /\ shares[l] <= amounts[l]
  <2> SUFFICES ASSUME NEW l \in S PROVE amounts[l] \in Nat /\ shares[l] \in Nat /\ shares[l] <= amounts[l]
    OBVIOUS
  <2>1. amounts[l] \in Nat
    BY <1>1
  <2> QED
    BY <1>5, <2>1
<1>7. PICK part \in Nat : part = Total(shares, S) /\ part = Price!Total(shares)
  <2>1. \A l \in S : shares[l] \in Nat
    BY <1>6
  <2> QED
    BY <1>1, <2>1, TotalNat, AmountsSummed
<1>8. part <= discount
  <2>1. CASE T = 0
    <3>1. \A l \in S : shares[l] \in Int /\ amounts[l] \in Nat
      BY <1>6
    <3>2. Total(shares, S) <= Total(amounts, S)
      BY <1>1, <1>6, <3>1, TotalMonotone
    <3> QED
      BY <1>2, <1>7, <2>1, <3>2
  <2>2. CASE T # 0
    <3>1. \A l \in S : shares[l] \in Int /\ amounts[l] \in Int
      BY <1>6
    <3>2. \A l \in S : shares[l] * T <= amounts[l] * discount + 0
      <4> SUFFICES ASSUME NEW l \in S PROVE shares[l] * T <= amounts[l] * discount + 0
        OBVIOUS
      <4>1. shares[l] * T <= amounts[l] * discount
        BY <1>5
      <4>2. amounts[l] * discount \in Int
        BY <3>1
      <4> QED
        BY <4>1, <4>2
    <3>3. 0 \in Nat /\ discount \in Int
      OBVIOUS
    <3>4. Total(shares, S) * T <= Total(amounts, S) * discount + Cardinality(S) * 0
      BY <1>1, <3>1, <3>2, <3>3, TotalLinear
    <3>5. Cardinality(S) \in Nat
      BY <1>1, FS_CardinalityType
    <3>6. part * T <= T * discount
      BY <1>2, <1>7, <3>4, <3>5
    <3> QED
      BY <2>2, <3>6, Cancels
  <2> QED
    BY <2>1, <2>2
<1>9. PICK room : room = Room(amounts, discount) /\ \A l \in S : room[l] = amounts[l] - shares[l]
  <2>1. \A l \in S : Room(amounts, discount)[l] = amounts[l] - shares[l]
    BY <1>1, <1>3 DEF Room
  <2> QED
    BY <2>1
<1>10. \A l \in S : room[l] \in Nat /\ room[l] = amounts[l] - shares[l] /\ amounts[l] = room[l] + shares[l]
    BY <1>6, <1>9
<1>11. PICK free \in Nat : free = Total(room, S) /\ T = free + part
  <2>1. (\A l \in S : room[l] \in Nat) /\ (\A l \in S : room[l] \in Int /\ shares[l] \in Int)
    BY <1>6, <1>10
  <2>2. Total(amounts, S) = Total(room, S) + Total(shares, S)
    BY <1>1, <1>10, <2>1, TotalPlus
  <2>3. Total(room, S) \in Nat
    BY <1>1, <2>1, TotalNat
  <2> QED
    BY <1>2, <1>7, <2>2, <2>3
<1>12. PICK left \in Nat : left = Price!Minus(Price!Smaller(discount, Price!Total(amounts)), Price!Total(shares))
                           /\ left = discount - part
  <2>1. Price!Smaller(discount, Price!Total(amounts)) = discount
    BY <1>2, SmallerIs
  <2>2. Price!Minus(discount, part) = discount - part
    BY <1>8 DEF Price!Minus
  <2> QED
    BY <1>7, <1>8, <2>1, <2>2
<1>13. PICK extra : extra = [l \in S |-> Price!Smaller(room[l], Price!Minus(left, Total(room, (l + 1)..Lines)))]
    OBVIOUS
<1>14. \A l \in S : parts[l] = shares[l] + extra[l]
  <2> SUFFICES ASSUME NEW l \in 1..Lines PROVE parts[l] = shares[l] + extra[l]
    BY <1>1
  <2>2. parts[l] = shares[l] + Price!Smaller(room[l],
            Price!Minus(Price!Minus(Price!Smaller(discount, Price!Total(amounts)), Price!Total(shares)),
                        Total(room, (l + 1)..Lines)))
    BY <1>3, <1>9, AllocatedTo, SMTT(30)
  <2>3. extra[l] = Price!Smaller(room[l], Price!Minus(left, Total(room, (l + 1)..Lines)))
    BY <1>1, <1>13
  <2> QED
    BY <1>12, <2>2, <2>3
<1>15. (\A l \in S : extra[l] \in 0..room[l]) /\ Total(extra, S) = Price!Smaller(left, free)
  <2>1. \A l \in 1..Lines : room[l] \in Nat
    BY <1>1, <1>10
  <2>2. \A l \in 1..Lines : extra[l] = Price!Smaller(room[l], Price!Minus(left, Total(room, (l + 1)..Lines)))
    BY <1>1, <1>13
  <2>3. (\A l \in 1..Lines : extra[l] \in 0..room[l]) /\ Total(extra, 1..Lines) = Price!Smaller(left, Total(room, 1..Lines))
    BY <2>1, <2>2, LastFirst
  <2> QED
    BY <1>1, <1>11, <2>3
<1>16. Total(extra, S) = left
  <2>1. left <= free
    BY <1>2, <1>11, <1>12
  <2>2. Price!Smaller(left, free) = left
    BY <2>1, SmallerIs
  <2> QED
    BY <1>15, <2>2
<1>17. Total(parts, S) = Total(shares, S) + Total(extra, S)
  <2>1. \A l \in S : shares[l] \in Int /\ extra[l] \in Int
    BY <1>6, <1>10, <1>15
  <2> QED
    BY <1>1, <1>14, <2>1, TotalPlus, SMTT(30)
<1>18. Price!Total(parts) = discount
  <2>1. Price!Total(parts) = Total(parts, S)
    BY <1>1, AmountsSummed
  <2>2. Total(parts, S) = part + left
    BY <1>7, <1>16, <1>17, Zenon
  <2>3. part + left = discount
    BY <1>12
  <2> QED
    BY <2>1, <2>2, <2>3, Zenon
<1>19. ASSUME NEW l \in S PROVE parts[l] \in 0..amounts[l]
  <2>1. /\ amounts[l] \in Nat /\ shares[l] \in Nat /\ room[l] \in Nat /\ extra[l] \in 0..room[l]
        /\ room[l] = amounts[l] - shares[l]
    BY <1>6, <1>10, <1>15
  <2> QED
    BY <1>14, <2>1
<1> QED
    BY <1>1, <1>18, <1>19

LEMMA CartTotal ==
    ASSUME PriceAssumption, cart \in Carts
    PROVE  cart.amount \in [1..Lines -> Nat] /\ Price!Total(cart.amount) \in Nat
<1>1. PICK amounts \in [1..Lines -> Nat] : amounts = cart.amount
    BY DEF PriceAssumption
<1>2. Lines \in Nat /\ \A l \in 1..Lines : amounts[l] \in Nat
    BY DEF PriceAssumption
<1>3. Total(amounts, 1..Lines) \in Nat
    BY <1>2, AmountsSummed, TotalNat
<1> QED
    BY <1>1, <1>2, <1>3, AmountsSummed

LEMMA PayableInt ==
    ASSUME PriceAssumption, PriceInv, NEW method
    PROVE  \E discount \in 0..Price!Total(cart.amount) :
               /\ discount = Price!CalculateGlobalOnlinePaymentDiscount(Price!Total(cart.amount), method, Price!GetPayOnlineDiscountConfig)
               /\ Price!PayableTotal(method) = Price!Total(cart.amount) - discount
<1>1. PICK amount \in Nat : amount = Price!Total(cart.amount)
    BY CartTotal DEF PriceInv
<1>2. PICK discount : discount = Price!CalculateGlobalOnlinePaymentDiscount(amount, method, Price!GetPayOnlineDiscountConfig)
    OBVIOUS
<1>3. discount \in 0..amount
    BY <1>2, DiscountBounded
<1> QED
    BY <1>1, <1>2, <1>3 DEF Price!PayableTotal

LEMMA OrderKept ==
    ASSUME PriceInv, UNCHANGED <<order, attempt>>
    PROVE  OrderAddsUp' /\ Price!PricedAndPaid' /\ (attempt' # Price!None => order' # Price!None)
<1>1. OrderAddsUp'
    BY DEF PriceInv, OrderAddsUp
<1>2. Price!PreviewHonoured'
    BY DEF PriceInv, Price!PricedAndPaid, Price!PreviewHonoured
<1>3. Price!AllocationsExact'
    BY DEF PriceInv, Price!PricedAndPaid, Price!AllocationsExact
<1>4. Price!PaidAsPriced'
    BY DEF PriceInv, Price!PricedAndPaid, Price!PaidAsPriced
<1> QED
    BY <1>1, <1>2, <1>3, <1>4 DEF PriceInv, Price!PricedAndPaid

\* The cart and the setting are as they were, so every price is.
LEMMA PricesKept ==
    ASSUME UNCHANGED <<cart, setting>>
    PROVE  /\ \A m : Price!PayableTotal(m)' = Price!PayableTotal(m)
           /\ \A m, n : Price!ToPaymentMethodOffer(m, n)' = Price!ToPaymentMethodOffer(m, n)
<1>1. \A m : Price!PayableTotal(m)' = Price!PayableTotal(m)
    BY DEF Price!PayableTotal, Price!GetPayOnlineDiscountConfig
<1> QED
    BY <1>1 DEF Price!ToPaymentMethodOffer

LEMMA StepPreview == ASSUME PriceInv, NEW m, Price!Preview(m) PROVE PriceInv'
<1>1. /\ shown' = [method |-> m, payable |-> Price!PayableTotal(m),
                   offer |-> [other \in Price!Methods \ {m} |->
                                  IF m = "unset" THEN 0 ELSE Price!ToPaymentMethodOffer(m, other)],
                   ready |-> /\ m \in Price!ResolveCartPaymentMethods(cart.eligibility)
                             /\ ~Price!IsBelowPrepaidMinimum(m, Price!PayableTotal(m))]
      /\ UNCHANGED <<cart, setting, order, attempt>>
    BY DEF Price!Preview
<1>2. PICK see : see = shown'
    OBVIOUS
<1>3. /\ see.method = m /\ see.payable = Price!PayableTotal(m)
      /\ DOMAIN see.offer = Price!Methods \ {m}
      /\ \A other \in Price!Methods \ {m} :
             see.offer[other] = IF m = "unset" THEN 0 ELSE Price!ToPaymentMethodOffer(m, other)
    BY <1>1, <1>2
<1>4. ShownFits'
    BY <1>1, <1>2, <1>3, PricesKept DEF ShownFits
<1>5. cart' \in Carts /\ setting' \in Settings \cup {Price!Disabled, Price!Malformed}
    BY <1>1 DEF PriceInv
<1> QED
    BY <1>1, <1>4, <1>5, OrderKept DEF PriceInv

LEMMA StepCreateOrder == ASSUME PriceAssumption, PriceInv, NEW m, Price!CreateOrder(m) PROVE PriceInv'
<1>1. PICK T \in Nat : T = Price!Total(cart.amount)
    BY CartTotal DEF PriceInv
<1>2. PICK discount \in 0..T :
        /\ discount = Price!CalculateGlobalOnlinePaymentDiscount(T, m, Price!GetPayOnlineDiscountConfig)
        /\ Price!PayableTotal(m) = T - discount
    BY <1>1, PayableInt
<1>3. PICK new : /\ order' = new
                 /\ new = [method |-> m, total |-> T - discount, discount |-> discount, amount |-> cart.amount,
                           allocated |-> Price!AllocateOnlinePaymentDiscountAcrossLines(cart.amount, discount),
                           eligibility |-> cart.eligibility, preview |-> shown]
    BY <1>1, <1>2 DEF Price!CreateOrder
<1>4. /\ new.method = m /\ new.total = T - discount /\ new.discount = discount /\ new.amount = cart.amount
      /\ new.allocated = Price!AllocateOnlinePaymentDiscountAcrossLines(cart.amount, discount) /\ new.preview = shown
    BY <1>3
<1>5. attempt = Price!None /\ UNCHANGED <<cart, setting, shown, attempt>>
    BY DEF Price!CreateOrder, PriceInv
<1>6. OrderAddsUp'
    BY <1>1, <1>3, <1>4 DEF OrderAddsUp
<1>7. Price!PreviewHonoured'
  <2> SUFFICES ASSUME shown # Price!None
               PROVE  /\ m = shown.method => T - discount = shown.payable
                      /\ m \in DOMAIN shown.offer /\ shown.offer[m] > 0 =>
                             T - discount = shown.payable - shown.offer[m]
    BY <1>3, <1>4 DEF Price!PreviewHonoured
  <2>1. PICK see : see = shown.method
    OBVIOUS
  <2>2. shown.payable = Price!PayableTotal(see)
    BY <2>1 DEF PriceInv, ShownFits
  <2>3. CASE m = see
    BY <1>2, <2>1, <2>2, <2>3 DEF PriceInv, ShownFits
  <2>4. CASE m # see
    <3> SUFFICES ASSUME m \in DOMAIN shown.offer, shown.offer[m] > 0
                 PROVE  T - discount = shown.payable - shown.offer[m]
      BY <2>1, <2>4
    <3>1. PICK all \in Int : all = Price!PayableTotal(see)
      BY <1>1, PayableInt
    <3>2. PICK cost \in Int : cost = Price!PayableTotal(m) /\ cost = T - discount
      BY <1>2
    <3>3. shown.offer[m] = IF see = "unset" THEN 0 ELSE Price!ToPaymentMethodOffer(see, m)
      BY <2>1 DEF PriceInv, ShownFits
    <3>4. Price!ToPaymentMethodOffer(see, m) \in {0, IF all > cost THEN all - cost ELSE 0}
      BY <3>1, <3>2 DEF Price!ToPaymentMethodOffer, Price!Minus
    <3>5. PICK offered : offered = shown.offer[m]
      OBVIOUS
    <3>6. offered > 0 /\ offered \in {0, IF all > cost THEN all - cost ELSE 0}
      BY <3>3, <3>4, <3>5
    <3>7. offered = all - cost
      BY <3>6
    <3> QED
      BY <2>2, <3>1, <3>2, <3>5, <3>7
  <2> QED
    BY <2>3, <2>4
<1>8. Price!AllocationsExact'
  <2>1. PICK amounts \in [1..Lines -> Nat] : amounts = cart.amount
    BY CartTotal DEF PriceInv
  <2>2. PICK parts : parts = Price!AllocateOnlinePaymentDiscountAcrossLines(amounts, discount)
    OBVIOUS
  <2>3. Price!Total(parts) = discount /\ \A l \in 1..Lines : parts[l] \in 0..amounts[l]
    <3>1. Lines \in Nat /\ discount \in Nat /\ discount <= Price!Total(amounts)
      BY <1>1, <2>1 DEF PriceAssumption
    <3> QED
      BY <2>2, <3>1, SplitExactly
  <2>4. new.allocated = parts /\ new.amount = amounts /\ new.discount = discount
    BY <1>4, <2>1, <2>2
  <2> QED
    BY <1>3, <2>3, <2>4 DEF Price!AllocationsExact
<1>9. Price!PaidAsPriced'
    BY <1>5 DEF Price!PaidAsPriced
<1>10. ShownFits'
    BY <1>5, PricesKept DEF ShownFits, PriceInv
<1> QED
    BY <1>5, <1>6, <1>7, <1>8, <1>9, <1>10 DEF PriceInv, Price!PricedAndPaid

LEMMA StepStartPayment ==
    ASSUME PriceAssumption, PriceInv, NEW m \in Price!Methods, Price!StartPayment(m) PROVE PriceInv'
<1>1. /\ order # Price!None /\ Price!AssertOrderAllowsPaymentMethod(m)
      /\ attempt' = [method |-> m, amount |-> order.total] /\ UNCHANGED <<cart, setting, shown, order>>
    BY DEF Price!StartPayment
<1>2. PICK new : new = attempt' /\ new.method = m /\ new.amount = order.total
    BY <1>1
<1>3. ShownFits'
    BY <1>1, PricesKept DEF ShownFits, PriceInv
<1>4. OrderAddsUp' /\ Price!PreviewHonoured' /\ Price!AllocationsExact'
    BY <1>1 DEF PriceInv, OrderAddsUp, Price!PricedAndPaid, Price!PreviewHonoured, Price!AllocationsExact
<1>5. \A l \in 1..Lines : order.eligibility[l] \in {"both", m}
    BY <1>1 DEF Price!AssertOrderAllowsPaymentMethod, Price!ItemsAllow, Price!ResolveCartPaymentMethods, Price!MethodsAllowedBy
<1>6. PICK all \in Int, off \in Int : all = Price!Total(order.amount) /\ off = order.discount /\ order.total = all - off
    BY <1>1 DEF PriceInv, OrderAddsUp
<1>7. m = "cod" => order.total = all
    BY <1>1, <1>6 DEF Price!AssertOrderAllowsPaymentMethod
<1>8. m = "payu" => order.total >= MinPayable
    BY <1>1, <1>6 DEF Price!AssertOrderAllowsPaymentMethod, Price!IsBelowPrepaidMinimum, Price!IsPrepaidPaymentMethod, PriceAssumption
<1>9. Price!PaidAsPriced'
    BY <1>1, <1>2, <1>5, <1>6, <1>7, <1>8 DEF Price!PaidAsPriced
<1> QED
    BY <1>1, <1>3, <1>4, <1>9 DEF PriceInv, Price!PricedAndPaid

LEMMA InitPrice == ASSUME Price!Init PROVE PriceInv
<1> QED
    BY DEF Price!Init, PriceInv, ShownFits, OrderAddsUp, Price!PricedAndPaid, Price!PreviewHonoured,
           Price!AllocationsExact, Price!PaidAsPriced

LEMMA StepPrice == ASSUME PriceAssumption, PriceInv, [Price!Next]_Price!vars PROVE PriceInv'
<1>1. ASSUME NEW m \in Price!Methods \cup {"unset"}, Price!Preview(m) \/ Price!CreateOrder(m) PROVE PriceInv'
    BY <1>1, StepPreview, StepCreateOrder
<1>2. ASSUME NEW m \in Price!Methods, Price!StartPayment(m) PROVE PriceInv'
    BY <1>2, StepStartPayment
<1>3. CASE Price!UpdatePayOnlineDiscountSettings
  <2>1. /\ setting' \in Settings \cup {Price!Disabled, Price!Malformed} /\ shown' = Price!None
        /\ UNCHANGED <<cart, order, attempt>>
    BY <1>3 DEF Price!UpdatePayOnlineDiscountSettings
  <2> QED
    BY <2>1, OrderKept DEF PriceInv, ShownFits
<1>4. CASE Price!ProductEligibilityChanges
  <2>1. cart' \in Carts /\ shown' = Price!None /\ UNCHANGED <<setting, order, attempt>>
    BY <1>4 DEF Price!ProductEligibilityChanges
  <2> QED
    BY <2>1, OrderKept DEF PriceInv, ShownFits
<1>5. CASE UNCHANGED Price!vars
  <2>1. UNCHANGED <<cart, setting, shown, order, attempt>>
    BY <1>5 DEF Price!vars
  <2>2. ShownFits'
    BY <2>1, PricesKept DEF ShownFits, PriceInv
  <2> QED
    BY <2>1, <2>2, OrderKept DEF PriceInv
<1> QED
    BY <1>1, <1>2, <1>3, <1>4, <1>5 DEF Price!Next

\* An order costs what a preview that still holds has shown, its discount is split over the
\* lines to the last paisa and none gets more than it costs, and it is paid by a method that
\* its products and its price allow: for every cart, every setting that can be stored and
\* every minimum (online-payment-discount.ts, order.service.ts, payment.service.ts).
THEOREM PricedAndPaidAlways == ASSUME PriceAssumption PROVE Price!Spec => []Price!PricedAndPaid
<1>1. Price!Init => PriceInv
    BY InitPrice
<1>2. PriceInv /\ [Price!Next]_Price!vars => PriceInv'
    BY StepPrice
<1>3. PriceInv => Price!PricedAndPaid
    BY DEF PriceInv
<1> QED
    BY <1>1, <1>2, <1>3, PTL DEF Price!Spec

-----------------------------------------------------------------------------
(* Products, variants and their SKUs                                         *)

\* Ids count from one, a typed SKU does not look like a generated one, and there are enough
\* SKUs for the rows that exist at the start.
ShopAssumption ==
    /\ \E n, m, k, i \in Nat : /\ ProductIds = 1..n /\ VariantIds = 1..m /\ CategoryIds = 1..k /\ InitialVariants = 1..i
                               /\ n # 0 /\ k # 0 /\ i <= m
    /\ MaxVariantStock \in Nat
    /\ Skus \cap Shop!Generated = {}
    /\ \E f \in [{0} \cup InitialVariants -> Skus] : \A i, j \in {0} \cup InitialVariants : i # j => f[i] # f[j]

ProductEdit == ({"category"} \X CategoryIds) \cup ({"sku"} \X Skus) \cup {<<"text">>}
VariantEdit == ({"stock"} \X (0..MaxVariantStock)) \cup ({"active"} \X BOOLEAN) \cup ({"sku"} \X Skus) \cup {<<"text">>}
Status == {"draft", "active"}

EditRequest ==
    {Shop!Idle}
    \cup [op : {"create"}, category : CategoryIds, sku : Skus, variantSkus : SUBSET Skus, status : Status]
    \cup [op : {"duplicate"}, source : ProductIds, active : SUBSET VariantIds, others : SUBSET VariantIds]
    \cup [op : {"publish"}, ids : SUBSET ProductIds, bulk : BOOLEAN]
    \cup [op : {"update"}, product : ProductIds, edit : ProductEdit, status : Status]
    \cup [op : {"updateVariant"}, variant : VariantIds, edit : VariantEdit, status : Status]
    \cup [op : {"deleteVariant"}, variant : VariantIds]
    \cup [op : {"deleteCategory"}, category : CategoryIds]

\* What a request names is there: rows are only ever marked as deleted.
EditRefers(q) ==
    /\ q.op = "create" => q.sku \notin q.variantSkus
    /\ q.op = "duplicate" => products[q.source] # Shop!None
    /\ q.op = "publish" => \A p \in q.ids : products[p] # Shop!None
    /\ q.op = "update" => products[q.product] # Shop!None
    /\ q.op \in {"updateVariant", "deleteVariant"} => variants[q.variant] # Shop!None

\* A SKU made from an id is only ever reserved by the row with that id.
OwnNames ==
    \A i \in ProductIds \cup VariantIds :
        /\ reservations[[kind |-> "product", id |-> i]] \in {Shop!None, Shop!AsProduct(i)}
        /\ reservations[[kind |-> "variant", id |-> i]] \in {Shop!None, Shop!AsVariant(i)}

NumberedInOrder == \A v, w \in VariantIds : v < w /\ variants[w] # Shop!None => variants[v] # Shop!None
VariantsBelong == \A v \in VariantIds : variants[v] # Shop!None => products[variants[v].product] # Shop!None

NamesInv ==
    /\ Shop!TypeOK /\ editing \in [Admins -> EditRequest]
    /\ \A a \in Admins : EditRefers(editing[a])
    /\ NumberedInOrder /\ VariantsBelong
    /\ OwnNames /\ Shop!SkuOwned

NoOverlap == "overlap" \notin catalogueDrift

\* Where no two requests overlapped, one runs at most, and what it has read is still so.
EditingAlone == NoOverlap => \A a, b \in Admins : editing[a] # Shop!Idle /\ editing[b] # Shop!Idle => a = b
ReadStands(q) ==
    /\ q.op = "publish" => \A p \in q.ids : Shop!Live(p) /\ Shop!ValidateProductActivationReadiness(products, variants, p)
    /\ q.op = "update" => Shop!Live(q.product) /\ q.status = products[q.product].status
    /\ q.op \in {"updateVariant", "deleteVariant"} => Shop!Live(variants[q.variant].product)
    /\ q.op = "updateVariant" => q.status = products[variants[q.variant].product].status
    /\ q.op = "deleteVariant" => Shop!MayRetire(q.variant)
    /\ q.op = "deleteCategory" => Shop!Uncategorised(q.category)

Sellable ==
    NoOverlap => \A p \in Shop!LiveProducts : products[p].status = "active" =>
        /\ ~categories[products[p].category].deleted
        /\ products[p].has_variants => Shop!ActiveIn(variants, p) # {}
StockFollows ==
    catalogueDrift = {} => \A p \in ProductIds : products[p] # Shop!None /\ products[p].has_variants =>
        products[p].stock = Shop!CachedStock(variants, p)

SalesInv ==
    /\ EditingAlone /\ (NoOverlap => \A a \in Admins : ReadStands(editing[a]))
    /\ Sellable /\ StockFollows

LEMMA ProductShape ==
    /\ \A row \in Shop!ProductRow :
        /\ row # Shop!None /\ row.category \in CategoryIds /\ row.sku \in Shop!AllSkus /\ row.status \in Status
        /\ row.has_variants \in BOOLEAN /\ row.stock \in Nat /\ row.display_order \in Nat /\ row.deleted \in BOOLEAN
    /\ \A c \in CategoryIds, s \in Shop!AllSkus, st \in Status, h \in BOOLEAN, n \in Nat, k \in Nat, d \in BOOLEAN :
        [category |-> c, sku |-> s, status |-> st, has_variants |-> h, stock |-> n, display_order |-> k, deleted |-> d]
            \in Shop!ProductRow
<1> QED
    BY DEF Shop!ProductRow, Shop!None, Status

LEMMA VariantShape ==
    /\ \A row \in Shop!VariantRow :
        /\ row # Shop!None /\ row.product \in ProductIds /\ row.sku \in Shop!AllSkus /\ row.stock \in 0..MaxVariantStock
        /\ row.active \in BOOLEAN /\ row.deleted \in BOOLEAN
    /\ \A p \in ProductIds, s \in Shop!AllSkus, n \in 0..MaxVariantStock, a \in BOOLEAN, d \in BOOLEAN :
        [product |-> p, sku |-> s, stock |-> n, active |-> a, deleted |-> d] \in Shop!VariantRow
<1> QED
    BY DEF Shop!VariantRow, Shop!None

LEMMA SkuShape ==
    /\ \A s \in Skus : s \in Shop!AllSkus
    /\ \A i \in ProductIds \cup VariantIds :
        [kind |-> "product", id |-> i] \in Shop!AllSkus /\ [kind |-> "variant", id |-> i] \in Shop!AllSkus
    /\ \A p \in ProductIds : Shop!AsProduct(p) \in Shop!Owner
    /\ \A v \in VariantIds : Shop!AsVariant(v) \in Shop!Owner
    /\ \A p, v : Shop!AsProduct(p) # Shop!AsVariant(v) /\ Shop!AsProduct(p) # Shop!None /\ Shop!AsVariant(v) # Shop!None
    /\ \A p, q : Shop!AsProduct(p) = Shop!AsProduct(q) => p = q
    /\ \A p, q : Shop!AsVariant(p) = Shop!AsVariant(q) => p = q
<1> QED
    BY DEF Shop!AllSkus, Shop!Generated, Shop!Owner, Shop!AsProduct, Shop!AsVariant, Shop!None

LEMMA TypedSkuApart ==
    ASSUME ShopAssumption, NEW s \in Skus, NEW i \in ProductIds \cup VariantIds
    PROVE  s # [kind |-> "product", id |-> i] /\ s # [kind |-> "variant", id |-> i]
<1>1. s \notin Shop!Generated
    BY DEF ShopAssumption
<1> QED
    BY <1>1 DEF Shop!Generated

LEMMA EditRequestShape ==
    ASSUME NEW q \in EditRequest
    PROVE  /\ q.op \in {"idle", "create", "duplicate", "publish", "update", "updateVariant", "deleteVariant", "deleteCategory"}
           /\ q.op = "create" => /\ q.category \in CategoryIds /\ q.sku \in Skus /\ q.variantSkus \in SUBSET Skus
                                 /\ q.status \in Status
           /\ q.op = "duplicate" => /\ q.source \in ProductIds /\ q.active \in SUBSET VariantIds
                                    /\ q.others \in SUBSET VariantIds
           /\ q.op = "publish" => q.ids \in SUBSET ProductIds /\ q.bulk \in BOOLEAN
           /\ q.op = "update" => q.product \in ProductIds /\ q.edit \in ProductEdit /\ q.status \in Status
           /\ q.op = "updateVariant" => q.variant \in VariantIds /\ q.edit \in VariantEdit /\ q.status \in Status
           /\ q.op = "deleteVariant" => q.variant \in VariantIds
           /\ q.op = "deleteCategory" => q.category \in CategoryIds
<1>1. CASE q = Shop!Idle
    BY <1>1 DEF Shop!Idle
<1>2. CASE q \in [op : {"create"}, category : CategoryIds, sku : Skus, variantSkus : SUBSET Skus, status : Status]
    BY <1>2
<1>3. CASE q \in [op : {"duplicate"}, source : ProductIds, active : SUBSET VariantIds, others : SUBSET VariantIds]
    BY <1>3
<1>4. CASE q \in [op : {"publish"}, ids : SUBSET ProductIds, bulk : BOOLEAN]
    BY <1>4
<1>5. CASE q \in [op : {"update"}, product : ProductIds, edit : ProductEdit, status : Status]
    BY <1>5
<1>6. CASE q \in [op : {"updateVariant"}, variant : VariantIds, edit : VariantEdit, status : Status]
    BY <1>6
<1>7. CASE q \in [op : {"deleteVariant"}, variant : VariantIds]
    BY <1>7
<1>8. CASE q \in [op : {"deleteCategory"}, category : CategoryIds]
    BY <1>8
<1> QED
    BY <1>1, <1>2, <1>3, <1>4, <1>5, <1>6, <1>7, <1>8 DEF EditRequest

\* The columns of a row of a product, one by one.
ProductIs(row, category, sku, status, has_variants, units, display_order, deleted) ==
    /\ row.category = category /\ row.sku = sku /\ row.status = status /\ row.has_variants = has_variants
    /\ row.stock = units /\ row.display_order = display_order /\ row.deleted = deleted
VariantIs(row, product, sku, units, active, deleted) ==
    /\ row.product = product /\ row.sku = sku /\ row.stock = units /\ row.active = active /\ row.deleted = deleted

LEMMA ProductStatusSet ==
    ASSUME NEW row \in Shop!ProductRow, NEW x \in Status
    PROVE  \E new \in Shop!ProductRow :
               /\ new = [row EXCEPT !.status = x]
               /\ ProductIs(new, row.category, row.sku, x, row.has_variants, row.stock, row.display_order, row.deleted)
<1>1. [row EXCEPT !.status = x] \in Shop!ProductRow
    BY DEF Shop!ProductRow, Status
<1>2. ProductIs([row EXCEPT !.status = x], row.category, row.sku, x, row.has_variants, row.stock, row.display_order, row.deleted)
    BY DEF Shop!ProductRow, ProductIs
<1> QED
    BY <1>1, <1>2

LEMMA ProductDeletedSet ==
    ASSUME NEW row \in Shop!ProductRow, NEW x \in BOOLEAN
    PROVE  \E new \in Shop!ProductRow :
               /\ new = [row EXCEPT !.deleted = x]
               /\ ProductIs(new, row.category, row.sku, row.status, row.has_variants, row.stock, row.display_order, x)
<1>1. [row EXCEPT !.deleted = x] \in Shop!ProductRow
    BY DEF Shop!ProductRow, Status
<1>2. ProductIs([row EXCEPT !.deleted = x], row.category, row.sku, row.status, row.has_variants, row.stock, row.display_order, x)
    BY DEF Shop!ProductRow, ProductIs
<1> QED
    BY <1>1, <1>2

LEMMA ProductStockSet ==
    ASSUME NEW row \in Shop!ProductRow, NEW x \in Nat
    PROVE  \E new \in Shop!ProductRow :
               /\ new = [row EXCEPT !.stock = x]
               /\ ProductIs(new, row.category, row.sku, row.status, row.has_variants, x, row.display_order, row.deleted)
<1>1. [row EXCEPT !.stock = x] \in Shop!ProductRow
    BY DEF Shop!ProductRow, Status
<1>2. ProductIs([row EXCEPT !.stock = x], row.category, row.sku, row.status, row.has_variants, x, row.display_order, row.deleted)
    BY DEF Shop!ProductRow, ProductIs
<1> QED
    BY <1>1, <1>2

LEMMA ProductOrderSet ==
    ASSUME NEW row \in Shop!ProductRow, NEW x \in Nat
    PROVE  \E new \in Shop!ProductRow :
               /\ new = [row EXCEPT !.display_order = x]
               /\ ProductIs(new, row.category, row.sku, row.status, row.has_variants, row.stock, x, row.deleted)
<1>1. [row EXCEPT !.display_order = x] \in Shop!ProductRow
    BY DEF Shop!ProductRow, Status
<1>2. ProductIs([row EXCEPT !.display_order = x], row.category, row.sku, row.status, row.has_variants, row.stock, x, row.deleted)
    BY DEF Shop!ProductRow, ProductIs
<1> QED
    BY <1>1, <1>2

LEMMA ProductCategorySet ==
    ASSUME NEW row \in Shop!ProductRow, NEW x \in CategoryIds
    PROVE  \E new \in Shop!ProductRow :
               /\ new = [row EXCEPT !.category = x]
               /\ ProductIs(new, x, row.sku, row.status, row.has_variants, row.stock, row.display_order, row.deleted)
<1>1. [row EXCEPT !.category = x] \in Shop!ProductRow
    BY DEF Shop!ProductRow, Status
<1>2. ProductIs([row EXCEPT !.category = x], x, row.sku, row.status, row.has_variants, row.stock, row.display_order, row.deleted)
    BY DEF Shop!ProductRow, ProductIs
<1> QED
    BY <1>1, <1>2

LEMMA ProductSkuSet ==
    ASSUME NEW row \in Shop!ProductRow, NEW x \in Shop!AllSkus
    PROVE  \E new \in Shop!ProductRow :
               /\ new = [row EXCEPT !.sku = x]
               /\ ProductIs(new, row.category, x, row.status, row.has_variants, row.stock, row.display_order, row.deleted)
<1>1. [row EXCEPT !.sku = x] \in Shop!ProductRow
    BY DEF Shop!ProductRow, Status
<1>2. ProductIs([row EXCEPT !.sku = x], row.category, x, row.status, row.has_variants, row.stock, row.display_order, row.deleted)
    BY DEF Shop!ProductRow, ProductIs
<1> QED
    BY <1>1, <1>2

LEMMA VariantStockSet ==
    ASSUME NEW row \in Shop!VariantRow, NEW x \in 0..MaxVariantStock
    PROVE  \E new \in Shop!VariantRow :
               /\ new = [row EXCEPT !.stock = x]
               /\ VariantIs(new, row.product, row.sku, x, row.active, row.deleted)
<1>1. [row EXCEPT !.stock = x] \in Shop!VariantRow
    BY DEF Shop!VariantRow, Status
<1>2. VariantIs([row EXCEPT !.stock = x], row.product, row.sku, x, row.active, row.deleted)
    BY DEF Shop!VariantRow, VariantIs
<1> QED
    BY <1>1, <1>2

LEMMA VariantActiveSet ==
    ASSUME NEW row \in Shop!VariantRow, NEW x \in BOOLEAN
    PROVE  \E new \in Shop!VariantRow :
               /\ new = [row EXCEPT !.active = x]
               /\ VariantIs(new, row.product, row.sku, row.stock, x, row.deleted)
<1>1. [row EXCEPT !.active = x] \in Shop!VariantRow
    BY DEF Shop!VariantRow, Status
<1>2. VariantIs([row EXCEPT !.active = x], row.product, row.sku, row.stock, x, row.deleted)
    BY DEF Shop!VariantRow, VariantIs
<1> QED
    BY <1>1, <1>2

LEMMA VariantSkuSet ==
    ASSUME NEW row \in Shop!VariantRow, NEW x \in Shop!AllSkus
    PROVE  \E new \in Shop!VariantRow :
               /\ new = [row EXCEPT !.sku = x]
               /\ VariantIs(new, row.product, x, row.stock, row.active, row.deleted)
<1>1. [row EXCEPT !.sku = x] \in Shop!VariantRow
    BY DEF Shop!VariantRow, Status
<1>2. VariantIs([row EXCEPT !.sku = x], row.product, x, row.stock, row.active, row.deleted)
    BY DEF Shop!VariantRow, VariantIs
<1> QED
    BY <1>1, <1>2

LEMMA VariantDeletedSet ==
    ASSUME NEW row \in Shop!VariantRow, NEW x \in BOOLEAN
    PROVE  \E new \in Shop!VariantRow :
               /\ new = [row EXCEPT !.deleted = x]
               /\ VariantIs(new, row.product, row.sku, row.stock, row.active, x)
<1>1. [row EXCEPT !.deleted = x] \in Shop!VariantRow
    BY DEF Shop!VariantRow, Status
<1>2. VariantIs([row EXCEPT !.deleted = x], row.product, row.sku, row.stock, row.active, x)
    BY DEF Shop!VariantRow, VariantIs
<1> QED
    BY <1>1, <1>2

LEMMA ShopIds ==
    ASSUME ShopAssumption
    PROVE  /\ ProductIds \in SUBSET (Nat \ {0}) /\ VariantIds \in SUBSET (Nat \ {0})
           /\ 1 \in ProductIds /\ 1 \in CategoryIds /\ InitialVariants \in SUBSET VariantIds
           /\ IsFiniteSet(ProductIds) /\ IsFiniteSet(VariantIds) /\ MaxVariantStock \in Nat
<1>1. PICK n \in Nat, m \in Nat, k \in Nat, i \in Nat :
        /\ ProductIds = 1..n /\ VariantIds = 1..m /\ CategoryIds = 1..k /\ InitialVariants = 1..i
        /\ n # 0 /\ k # 0 /\ i <= m
    BY DEF ShopAssumption
<1>2. IsFiniteSet(1..n) /\ IsFiniteSet(1..m)
    BY FS_Interval
<1> QED
    BY <1>1, <1>2 DEF ShopAssumption

LEMMA FreshProductIs ==
    ASSUME ShopAssumption, \E q \in ProductIds : products[q] = Shop!None
    PROVE  Shop!FreshProduct \in ProductIds /\ products[Shop!FreshProduct] = Shop!None
<1>1. PICK S \in SUBSET Nat : S = {q \in ProductIds : products[q] = Shop!None}
    BY ShopIds
<1>2. \E x \in S : \A y \in S : x <= y
    BY <1>1, LeastMember
<1>3. Shop!FreshProduct \in S
    BY <1>1, <1>2 DEF Shop!FreshProduct, Shop!Min
<1> QED
    BY <1>1, <1>3

LEMMA FreshVariantIs ==
    ASSUME ShopAssumption, \E w \in VariantIds : variants[w] = Shop!None
    PROVE  /\ Shop!FreshVariant \in VariantIds /\ variants[Shop!FreshVariant] = Shop!None
           /\ \A w \in VariantIds : w < Shop!FreshVariant => variants[w] # Shop!None
<1>1. PICK S \in SUBSET Nat : S = {q \in VariantIds : variants[q] = Shop!None}
    BY ShopIds
<1>2. \E x \in S : \A y \in S : x <= y
    BY <1>1, LeastMember
<1>3. PICK v : v = Shop!FreshVariant
    OBVIOUS
<1>4. v \in S /\ \A y \in S : v <= y
    BY <1>1, <1>2, <1>3 DEF Shop!FreshVariant, Shop!Min
<1>5. \A w \in VariantIds : w < v => w \notin S
    BY <1>4, ShopIds
<1> QED
    BY <1>1, <1>3, <1>4, <1>5

\* A new place is a number above every place that is taken.
LEMMA NextPlace ==
    ASSUME ShopAssumption, products \in [ProductIds -> Shop!ProductRow \cup {Shop!None}]
    PROVE  /\ Shop!NextWebsitePosition \in Nat
           /\ \A p \in Shop!LiveProducts : products[p].display_order < Shop!NextWebsitePosition
<1>1. PICK live \in SUBSET ProductIds : live = Shop!LiveProducts
    BY DEF Shop!LiveProducts
<1>2. \A p \in live : products[p].display_order \in Nat
    BY <1>1, ProductShape DEF Shop!LiveProducts, Shop!Live
<1>3. PICK places \in SUBSET Nat : places = {products[p].display_order : p \in live}
    BY <1>2
<1>4. PICK n \in Nat : \A y \in places : y <= n
  <2>1. PICK f : f = [p \in live |-> products[p].display_order]
    OBVIOUS
  <2>2. IsFiniteSet(live) /\ \A p \in live : f[p] \in Nat
    BY <1>2, <2>1, ShopIds, FS_Subset
  <2>3. Total(f, live) \in Nat
    BY <2>2, TotalNat
  <2>4. \A p \in live : f[p] <= Total(f, live)
    BY <2>2, AtMostTotal
  <2> QED
    BY <1>3, <2>1, <2>3, <2>4
<1>5. PICK S \in SUBSET Nat : S = places \cup {0}
  <2>1. places \cup {0} \in SUBSET Nat
    OBVIOUS
  <2> QED
    BY <2>1
<1>6. S # {} /\ \A y \in S : y <= n
    BY <1>4, <1>5
<1>7. PICK top : top = Shop!Max(S)
    OBVIOUS
<1>8. \E x \in S : \A y \in S : x >= y
    BY <1>6, GreatestMember
<1>9. top \in S /\ \A y \in S : top >= y
    BY <1>7, <1>8 DEF Shop!Max
<1>10. Shop!NextWebsitePosition = top + 1
    BY <1>1, <1>3, <1>5, <1>7 DEF Shop!NextWebsitePosition
<1>11. top \in Nat /\ \A p \in live : products[p].display_order \in S
    BY <1>3, <1>5, <1>9
<1> QED
    BY <1>1, <1>2, <1>9, <1>10, <1>11

\* The stock of the active variants of a product, as a sum over ids.
LEMMA StockSummed ==
    ASSUME ShopAssumption, NEW vs, NEW p
    PROVE  /\ Shop!CachedStock(vs, p) = Total([v \in VariantIds |-> vs[v].stock], Shop!ActiveIn(vs, p))
           /\ IsFiniteSet(Shop!ActiveIn(vs, p)) /\ Shop!ActiveIn(vs, p) \in SUBSET VariantIds
<1>1. PICK S \in SUBSET VariantIds : S = Shop!ActiveIn(vs, p)
    BY DEF Shop!ActiveIn, Shop!VariantsIn
<1>2. PICK f : f = [v \in VariantIds |-> vs[v].stock]
    OBVIOUS
<1>3. IsFiniteSet(S)
    BY ShopIds, FS_Subset
<1>4. PICK it : Adds(it, f, S)
    BY <1>3, AddsExist
<1> DEFINE AddsUp(iter) ==
        iter = [s \in SUBSET S |-> IF s = {} THEN 0 ELSE vs[CHOOSE x \in s : TRUE].stock + iter[s \ {CHOOSE x \in s : TRUE}]]
<1>5. Shop!CachedStock(vs, p) = (CHOOSE iter : AddsUp(iter))[S]
    BY <1>1 DEF Shop!CachedStock, Shop!MapThenSumSet, Shop!MapThenFoldSet
<1>6. \A s \in SUBSET S : s # {} => f[Pick(s)] = vs[Pick(s)].stock
    BY <1>2, PickIn
<1>7. ASSUME NEW iter PROVE AddsUp(iter) <=> Adds(iter, f, S)
  <2>1. [s \in SUBSET S |-> IF s = {} THEN 0 ELSE vs[CHOOSE x \in s : TRUE].stock + iter[s \ {CHOOSE x \in s : TRUE}]]
        = [s \in SUBSET S |-> IF s = {} THEN 0 ELSE f[Pick(s)] + iter[s \ {Pick(s)}]]
    BY <1>6 DEF Pick
  <2> QED
    BY <2>1, Zenon DEF Adds
<1> HIDE DEF AddsUp
<1>8. PICK fold : fold = CHOOSE iter : AddsUp(iter)
    OBVIOUS
<1>9. AddsUp(fold)
    BY <1>4, <1>7, <1>8, Zenon
<1>10. fold[S] = Total(f, S)
    BY <1>3, <1>7, <1>9, TotalIs
<1> QED
    BY <1>1, <1>2, <1>3, <1>5, <1>8, <1>10

LEMMA StockNat ==
    ASSUME ShopAssumption, NEW vs \in [VariantIds -> Shop!VariantRow \cup {Shop!None}], NEW p
    PROVE  Shop!CachedStock(vs, p) \in Nat
<1>1. PICK S \in SUBSET VariantIds : S = Shop!ActiveIn(vs, p)
    BY DEF Shop!ActiveIn, Shop!VariantsIn
<1>2. PICK f : f = [v \in VariantIds |-> vs[v].stock]
    OBVIOUS
<1>3. \A v \in S : vs[v] \in Shop!VariantRow
    BY <1>1 DEF Shop!ActiveIn, Shop!VariantsIn
<1>4. \A v \in S : vs[v].stock \in Nat
    BY <1>3, VariantShape, ShopIds
<1>5. \A v \in S : f[v] \in Nat
    BY <1>2, <1>4
<1>6. Total(f, S) \in Nat
    BY <1>1, <1>5, StockSummed, TotalNat
<1> QED
    BY <1>1, <1>2, <1>6, StockSummed

-----------------------------------------------------------------------------
(* Names: what every step keeps                                              *)

RowsTyped ==
    /\ products \in [ProductIds -> Shop!ProductRow \cup {Shop!None}]
    /\ variants \in [VariantIds -> Shop!VariantRow \cup {Shop!None}]
    /\ categories \in [CategoryIds -> Shop!CategoryRow]

\* A step ends a request or leaves them as they are.
EditsEnd ==
    /\ editing' \in [Admins -> EditRequest] /\ \A a \in Admins : editing'[a] \in {editing[a], Shop!Idle}
    /\ catalogueDrift' \subseteq {"overlap", "sale"}

NeverForgets == \A s \in Shop!AllSkus : reservations[s] # Shop!None => reservations'[s] = reservations[s]

RowsStay ==
    /\ \A p \in ProductIds : products[p] # Shop!None => products'[p] # Shop!None
    /\ \A v \in VariantIds : variants[v] # Shop!None => variants'[v] # Shop!None

\* Every row has the SKU it had, or one that is now reserved for it.
RowsNamed ==
    /\ \A p \in ProductIds : products'[p] # Shop!None =>
           \/ products[p] # Shop!None /\ products'[p].sku = products[p].sku
           \/ reservations'[products'[p].sku] = Shop!AsProduct(p)
    /\ \A v \in VariantIds : variants'[v] # Shop!None =>
           \/ variants[v] # Shop!None /\ variants'[v].sku = variants[v].sku
           \/ reservations'[variants'[v].sku] = Shop!AsVariant(v)

ReservationsTyped == reservations \in [Shop!AllSkus -> Shop!Owner \cup {Shop!None}]

LEMMA NamesKept ==
    ASSUME NamesInv, EditsEnd, RowsTyped', ReservationsTyped', NeverForgets, RowsStay, RowsNamed,
           OwnNames', NumberedInOrder', VariantsBelong'
    PROVE  NamesInv'
<1>1. Shop!TypeOK'
  <2>1. DOMAIN editing' = Admins
    BY DEF EditsEnd
  <2> QED
    BY <2>1 DEF Shop!TypeOK, RowsTyped, ReservationsTyped, EditsEnd
<1>2. \A a \in Admins : EditRefers(editing[a])'
  <2> SUFFICES ASSUME NEW a \in Admins PROVE EditRefers(editing[a])'
    OBVIOUS
  <2>1. PICK q \in EditRequest : q = editing'[a]
    BY DEF EditsEnd
  <2>2. CASE q = Shop!Idle
    BY <2>1, <2>2 DEF EditRefers, Shop!Idle
  <2>3. CASE q = editing[a]
    <3>1. EditRefers(q)
      BY <2>3 DEF NamesInv
    <3>2. EditRefers(q)'
      BY <3>1, EditRequestShape DEF EditRefers, RowsStay
    <3> QED
      BY <2>1, <3>2 DEF EditRefers
  <2> QED
    BY <2>1, <2>2, <2>3 DEF EditsEnd
<1>3. Shop!SkuOwned'
  <2>1. ASSUME NEW p \in ProductIds, products'[p] # Shop!None PROVE reservations'[products'[p].sku] = Shop!AsProduct(p)
    <3>1. CASE products[p] # Shop!None /\ products'[p].sku = products[p].sku
      <4>1. products[p].sku \in Shop!AllSkus /\ reservations[products[p].sku] = Shop!AsProduct(p)
        BY <3>1, ProductShape DEF NamesInv, Shop!TypeOK, Shop!SkuOwned, Shop!IsSkuReservedBy
      <4> QED
        BY <3>1, <4>1, SkuShape DEF NeverForgets
    <3> QED
      BY <2>1, <3>1 DEF RowsNamed
  <2>2. ASSUME NEW v \in VariantIds, variants'[v] # Shop!None PROVE reservations'[variants'[v].sku] = Shop!AsVariant(v)
    <3>1. CASE variants[v] # Shop!None /\ variants'[v].sku = variants[v].sku
      <4>1. variants[v].sku \in Shop!AllSkus /\ reservations[variants[v].sku] = Shop!AsVariant(v)
        BY <3>1, VariantShape DEF NamesInv, Shop!TypeOK, Shop!SkuOwned, Shop!IsSkuReservedBy
      <4> QED
        BY <3>1, <4>1, SkuShape DEF NeverForgets
    <3> QED
      BY <2>2, <3>1 DEF RowsNamed
  <2> QED
    BY <2>1, <2>2 DEF Shop!SkuOwned, Shop!IsSkuReservedBy
<1>4. editing' \in [Admins -> EditRequest]
    BY DEF EditsEnd
<1> QED
    BY <1>1, <1>2, <1>3, <1>4 DEF NamesInv

\* Nobody reserves anything, and the rows that there are keep their SKUs.
SameNames ==
    /\ \A p \in ProductIds : (products'[p] = Shop!None) <=> (products[p] = Shop!None)
    /\ \A p \in ProductIds : products[p] # Shop!None => products'[p].sku = products[p].sku
    /\ \A v \in VariantIds : (variants'[v] = Shop!None) <=> (variants[v] = Shop!None)
    /\ \A v \in VariantIds :
           variants[v] # Shop!None => variants'[v].sku = variants[v].sku /\ variants'[v].product = variants[v].product

LEMMA NothingReserved ==
    ASSUME NamesInv, EditsEnd, RowsTyped', SameNames, UNCHANGED reservations
    PROVE  NamesInv'
<1>1. ReservationsTyped' /\ NeverForgets
    BY DEF NamesInv, Shop!TypeOK, ReservationsTyped, NeverForgets
<1>2. RowsStay /\ RowsNamed
    BY DEF SameNames, RowsStay, RowsNamed
<1>3. OwnNames' /\ NumberedInOrder'
    BY DEF NamesInv, OwnNames, NumberedInOrder, SameNames
<1>4. VariantsBelong'
  <2> SUFFICES ASSUME NEW v \in VariantIds, variants'[v] # Shop!None PROVE products'[variants'[v].product] # Shop!None
    BY DEF VariantsBelong
  <2>1. variants[v] # Shop!None /\ variants'[v].product = variants[v].product
    BY DEF SameNames
  <2>2. variants[v].product \in ProductIds /\ products[variants[v].product] # Shop!None
    BY <2>1, VariantShape DEF NamesInv, Shop!TypeOK, VariantsBelong
  <2> QED
    BY <2>1, <2>2 DEF SameNames
<1> QED
    BY <1>1, <1>2, <1>3, <1>4, NamesKept

LEMMA SkuTaken ==
    ASSUME ShopAssumption, NamesInv, NEW sku \in Shop!AllSkus, NEW owner \in Shop!Owner,
           reservations[sku] \in {Shop!None, owner}, sku \in Skus \/ reservations[sku] = owner,
           reservations' = [reservations EXCEPT ![sku] = owner]
    PROVE  ReservationsTyped' /\ NeverForgets /\ OwnNames' /\ reservations'[sku] = owner
<1>1. reservations \in [Shop!AllSkus -> Shop!Owner \cup {Shop!None}]
    BY DEF NamesInv, Shop!TypeOK
<1>2. ReservationsTyped' /\ NeverForgets /\ reservations'[sku] = owner
    BY <1>1 DEF ReservationsTyped, NeverForgets
<1>3. CASE sku \in Skus
  <2>1. ASSUME NEW i \in ProductIds \cup VariantIds
        PROVE  /\ reservations'[[kind |-> "product", id |-> i]] = reservations[[kind |-> "product", id |-> i]]
               /\ reservations'[[kind |-> "variant", id |-> i]] = reservations[[kind |-> "variant", id |-> i]]
    BY <1>1, <1>3, TypedSkuApart, SkuShape
  <2> QED
    BY <1>2, <2>1 DEF NamesInv, OwnNames
<1>4. CASE reservations[sku] = owner
  <2>1. reservations' = reservations
    BY <1>1, <1>4
  <2> QED
    BY <1>2, <2>1 DEF NamesInv, OwnNames
<1> QED
    BY <1>3, <1>4, <1>2

LEMMA CrossingTyped ==
    ASSUME NamesInv, NEW others, Shop!Crossing(others) PROVE catalogueDrift' \subseteq {"overlap", "sale"}
<1> QED
    BY DEF Shop!Crossing, NamesInv, Shop!TypeOK

LEMMA EndsByResponse == ASSUME NamesInv, NEW a \in Admins, Shop!Respond(a) PROVE EditsEnd
<1>1. editing \in [Admins -> EditRequest] /\ Shop!Idle \in EditRequest
    BY DEF NamesInv, EditRequest
<1>2. editing' = [editing EXCEPT ![a] = Shop!Idle] /\ Shop!Crossing(Admins \ {a})
    BY DEF Shop!Respond
<1> QED
    BY <1>1, <1>2, CrossingTyped DEF EditsEnd

LEMMA EndsAtOnce == ASSUME NamesInv, Shop!AtOnce PROVE EditsEnd
<1>1. editing \in [Admins -> EditRequest]
    BY DEF NamesInv
<1> QED
    BY <1>1, CrossingTyped DEF EditsEnd, Shop!AtOnce

LEMMA TypedRows == ASSUME NamesInv PROVE RowsTyped /\ ReservationsTyped /\ editing \in [Admins -> EditRequest]
<1> QED
    BY DEF NamesInv, Shop!TypeOK, RowsTyped, ReservationsTyped

LEMMA NamesUntouched == ASSUME NamesInv, EditsEnd, UNCHANGED <<products, variants, categories, reservations>> PROVE NamesInv'
<1>1. RowsTyped' /\ SameNames
    BY TypedRows DEF RowsTyped, SameNames
<1> QED
    BY <1>1, NothingReserved

LEMMA NamesFail == ASSUME NamesInv, NEW a \in Admins, Shop!Fail(a) PROVE NamesInv'
<1> QED
    BY EndsByResponse, NamesUntouched DEF Shop!Fail

LEMMA NamesBegin ==
    ASSUME NamesInv, NEW a \in Admins, NEW q \in EditRequest, EditRefers(q), Shop!Begin(a, q)
    PROVE  NamesInv'
<1>1. /\ editing' = [editing EXCEPT ![a] = q] /\ Shop!Crossing(Admins)
      /\ UNCHANGED <<products, variants, categories, reservations>>
    BY DEF Shop!Begin
<1>2. editing' \in [Admins -> EditRequest] /\ \A b \in Admins : editing'[b] = editing[b] \/ editing'[b] = q
    BY <1>1, TypedRows
<1>3. \A b \in Admins : EditRefers(editing[b])'
  <2> SUFFICES ASSUME NEW b \in Admins PROVE EditRefers(editing[b])'
    OBVIOUS
  <2>1. PICK r : r = editing'[b] /\ EditRefers(r)
    BY <1>2 DEF NamesInv
  <2>2. EditRefers(r)'
    BY <1>1, <2>1 DEF EditRefers
  <2> QED
    BY <2>1, <2>2 DEF EditRefers
<1>4. Shop!TypeOK'
  <2>1. DOMAIN editing' = Admins
    BY <1>2
  <2> QED
    BY <1>1, <2>1, CrossingTyped DEF NamesInv, Shop!TypeOK
<1>5. NumberedInOrder' /\ VariantsBelong' /\ OwnNames' /\ Shop!SkuOwned'
    BY <1>1 DEF NamesInv, NumberedInOrder, VariantsBelong, OwnNames, Shop!SkuOwned, Shop!IsSkuReservedBy
<1> QED
    BY <1>2, <1>3, <1>4, <1>5 DEF NamesInv

LEMMA NamesBegins ==
    ASSUME ShopAssumption, NamesInv, NEW a \in Admins,
           \/ Shop!BeginCreateProduct(a) \/ Shop!BeginDuplicateProduct(a) \/ Shop!BeginPublish(a)
           \/ Shop!BeginUpdateProduct(a) \/ Shop!BeginUpdateVariant(a) \/ Shop!BeginDeleteVariant(a)
           \/ Shop!BeginDeleteCategory(a)
    PROVE  \E q \in EditRequest : EditRefers(q) /\ ReadStands(q) /\ Shop!Begin(a, q)
<1>1. CASE Shop!BeginCreateProduct(a)
  <2>1. PICK c \in CategoryIds, skus \in SUBSET Skus, active \in BOOLEAN : \E sku \in skus :
          Shop!Begin(a, [op |-> "create", category |-> c, sku |-> sku, variantSkus |-> skus \ {sku},
                         status |-> IF active THEN "active" ELSE "draft"])
    BY <1>1 DEF Shop!BeginCreateProduct
  <2>2. PICK sku \in skus :
          Shop!Begin(a, [op |-> "create", category |-> c, sku |-> sku, variantSkus |-> skus \ {sku},
                         status |-> IF active THEN "active" ELSE "draft"])
    BY <2>1
  <2>3. PICK status \in Status : status = IF active THEN "active" ELSE "draft"
    BY DEF Status
  <2>4. PICK q : q = [op |-> "create", category |-> c, sku |-> sku, variantSkus |-> skus \ {sku}, status |-> status]
    OBVIOUS
  <2>5. q \in EditRequest /\ EditRefers(q) /\ ReadStands(q)
    BY <2>4 DEF EditRequest, EditRefers, ReadStands
  <2> QED
    BY <2>2, <2>3, <2>4, <2>5
<1>2. CASE Shop!BeginDuplicateProduct(a)
  <2>1. PICK p \in Shop!LiveProducts :
          Shop!Begin(a, [op |-> "duplicate", source |-> p, active |-> Shop!ActiveIn(variants, p),
                         others |-> Shop!VariantsIn(variants, p) \ Shop!ActiveIn(variants, p)])
    BY <1>2 DEF Shop!BeginDuplicateProduct
  <2>2. p \in ProductIds /\ products[p] # Shop!None
    BY DEF Shop!LiveProducts, Shop!Live
  <2>3. PICK active \in SUBSET VariantIds, others \in SUBSET VariantIds :
          active = Shop!ActiveIn(variants, p) /\ others = Shop!VariantsIn(variants, p) \ Shop!ActiveIn(variants, p)
    BY DEF Shop!ActiveIn, Shop!VariantsIn
  <2>4. PICK q : q = [op |-> "duplicate", source |-> p, active |-> active, others |-> others]
    OBVIOUS
  <2>5. q \in EditRequest /\ EditRefers(q) /\ ReadStands(q)
    BY <2>2, <2>4 DEF EditRequest, EditRefers, ReadStands
  <2> QED
    BY <2>1, <2>3, <2>4, <2>5
<1>3. CASE Shop!BeginPublish(a)
  <2>1. PICK ids \in SUBSET Shop!LiveProducts, bulk \in BOOLEAN :
          /\ \A p \in ids : Shop!ValidateProductActivationReadiness(products, variants, p)
          /\ Shop!Begin(a, [op |-> "publish", ids |-> ids, bulk |-> bulk])
    BY <1>3 DEF Shop!BeginPublish
  <2>2. PICK q : q = [op |-> "publish", ids |-> ids, bulk |-> bulk]
    OBVIOUS
  <2>3. \A p \in ids : p \in ProductIds /\ products[p] # Shop!None /\ Shop!Live(p)
    BY DEF Shop!LiveProducts, Shop!Live
  <2>4. q \in EditRequest /\ EditRefers(q) /\ ReadStands(q)
    BY <2>1, <2>2, <2>3 DEF EditRequest, EditRefers, ReadStands
  <2> QED
    BY <2>1, <2>2, <2>4
<1>4. CASE Shop!BeginUpdateProduct(a)
  <2>1. PICK p \in Shop!LiveProducts, edit \in ProductEdit :
          Shop!Begin(a, [op |-> "update", product |-> p, edit |-> edit, status |-> products[p].status])
    BY <1>4 DEF Shop!BeginUpdateProduct, ProductEdit
  <2>2. p \in ProductIds /\ products[p] # Shop!None /\ Shop!Live(p)
    BY DEF Shop!LiveProducts, Shop!Live
  <2>3. PICK status \in Status : status = products[p].status
    BY <2>2, TypedRows, ProductShape DEF RowsTyped
  <2>4. PICK q : q = [op |-> "update", product |-> p, edit |-> edit, status |-> status]
    OBVIOUS
  <2>5. q \in EditRequest /\ EditRefers(q) /\ ReadStands(q)
    BY <2>2, <2>3, <2>4 DEF EditRequest, EditRefers, ReadStands
  <2> QED
    BY <2>1, <2>3, <2>4, <2>5
<1>5. CASE Shop!BeginUpdateVariant(a)
  <2>1. PICK p \in Shop!LiveProducts, edit \in VariantEdit :
          \E v \in Shop!VariantsIn(variants, p) :
              Shop!Begin(a, [op |-> "updateVariant", variant |-> v, edit |-> edit, status |-> products[p].status])
    BY <1>5 DEF Shop!BeginUpdateVariant, VariantEdit
  <2>2. PICK v \in Shop!VariantsIn(variants, p) :
          Shop!Begin(a, [op |-> "updateVariant", variant |-> v, edit |-> edit, status |-> products[p].status])
    BY <2>1
  <2>3. /\ p \in ProductIds /\ products[p] # Shop!None /\ Shop!Live(p)
        /\ v \in VariantIds /\ variants[v] # Shop!None /\ variants[v].product = p
    BY DEF Shop!LiveProducts, Shop!Live, Shop!VariantsIn
  <2>4. PICK status \in Status : status = products[p].status
    BY <2>3, TypedRows, ProductShape DEF RowsTyped
  <2>5. PICK q : q = [op |-> "updateVariant", variant |-> v, edit |-> edit, status |-> status]
    OBVIOUS
  <2>6. q \in EditRequest /\ EditRefers(q) /\ ReadStands(q)
    BY <2>3, <2>4, <2>5 DEF EditRequest, EditRefers, ReadStands
  <2> QED
    BY <2>2, <2>4, <2>5, <2>6
<1>6. CASE Shop!BeginDeleteVariant(a)
  <2>1. PICK p \in Shop!LiveProducts : \E v \in Shop!VariantsIn(variants, p) :
          Shop!MayRetire(v) /\ Shop!Begin(a, [op |-> "deleteVariant", variant |-> v])
    BY <1>6 DEF Shop!BeginDeleteVariant
  <2>2. PICK v \in Shop!VariantsIn(variants, p) :
          Shop!MayRetire(v) /\ Shop!Begin(a, [op |-> "deleteVariant", variant |-> v])
    BY <2>1
  <2>3. v \in VariantIds /\ variants[v] # Shop!None /\ variants[v].product = p /\ Shop!Live(p)
    BY DEF Shop!VariantsIn, Shop!LiveProducts
  <2>4. PICK q : q = [op |-> "deleteVariant", variant |-> v]
    OBVIOUS
  <2>5. q \in EditRequest /\ EditRefers(q) /\ ReadStands(q)
    BY <2>2, <2>3, <2>4 DEF EditRequest, EditRefers, ReadStands
  <2> QED
    BY <2>2, <2>4, <2>5
<1>7. CASE Shop!BeginDeleteCategory(a)
  <2>1. PICK c \in CategoryIds :
          Shop!Uncategorised(c) /\ Shop!Begin(a, [op |-> "deleteCategory", category |-> c])
    BY <1>7 DEF Shop!BeginDeleteCategory
  <2>2. PICK q : q = [op |-> "deleteCategory", category |-> c]
    OBVIOUS
  <2>3. q \in EditRequest /\ EditRefers(q) /\ ReadStands(q)
    BY <2>1, <2>2 DEF EditRequest, EditRefers, ReadStands
  <2> QED
    BY <2>1, <2>2, <2>3
<1> QED
    BY <1>1, <1>2, <1>3, <1>4, <1>5, <1>6, <1>7

-----------------------------------------------------------------------------
(* Names: products that are published, withdrawn, trashed, restored, moved    *)

\* The rows of S are written, the other rows are as they were.
ProductsWritten(S) ==
    /\ products' \in [ProductIds -> Shop!ProductRow \cup {Shop!None}]
    /\ \A p \in ProductIds \ S : products'[p] = products[p]
    /\ \A p \in S : /\ p \in ProductIds /\ products[p] \in Shop!ProductRow /\ products'[p] \in Shop!ProductRow
                    /\ products'[p].sku = products[p].sku /\ products'[p].has_variants = products[p].has_variants

LEMMA ExistingRow ==
    ASSUME NamesInv
    PROVE  /\ \A p \in ProductIds : products[p] # Shop!None => products[p] \in Shop!ProductRow
           /\ \A v \in VariantIds : variants[v] # Shop!None =>
                  variants[v] \in Shop!VariantRow /\ variants[v].product \in ProductIds
<1> QED
    BY VariantShape DEF NamesInv, Shop!TypeOK

LEMMA NamesOfWritten ==
    ASSUME NamesInv, EditsEnd, NEW S, ProductsWritten(S), UNCHANGED <<variants, categories, reservations>>
    PROVE  NamesInv'
<1>1. RowsTyped'
    BY TypedRows DEF RowsTyped, ProductsWritten
<1>2. SameNames
  <2>1. ASSUME NEW p \in ProductIds
        PROVE  /\ (products'[p] = Shop!None) <=> (products[p] = Shop!None)
               /\ products[p] # Shop!None => products'[p].sku = products[p].sku
    <3>1. CASE p \in S
      BY <3>1, ProductShape DEF ProductsWritten
    <3>2. CASE p \notin S
      BY <3>2 DEF ProductsWritten
    <3> QED
      BY <3>1, <3>2
  <2> QED
    BY <2>1 DEF SameNames
<1> QED
    BY <1>1, <1>2, NothingReserved

LEMMA PublishWrites ==
    ASSUME ShopAssumption, NamesInv, NEW a \in Admins, Shop!Publish(a)
    PROVE  \E S \in SUBSET ProductIds :
               /\ editing[a].op = "publish" /\ editing[a] \in EditRequest /\ Shop!Respond(a)
               /\ UNCHANGED <<variants, categories, reservations>>
               /\ S \in SUBSET editing[a].ids /\ ProductsWritten(S)
               /\ \A p \in S : ProductIs(products'[p], products[p].category, products[p].sku, "active", products[p].has_variants,
                                         products[p].stock, products[p].display_order, products[p].deleted)
<1>1. PICK q \in EditRequest : q = editing[a]
    BY TypedRows
<1>2. /\ q.op = "publish" /\ Shop!Respond(a) /\ UNCHANGED <<variants, categories, reservations>>
      /\ products' = [p \in ProductIds |-> IF p \in q.ids /\ (q.bulk => Shop!Live(p))
                                           THEN [products[p] EXCEPT !.status = "active"] ELSE products[p]]
    BY <1>1 DEF Shop!Publish
<1>3. q.ids \in SUBSET ProductIds /\ \A p \in q.ids : products[p] # Shop!None
    BY <1>1, <1>2, EditRequestShape DEF NamesInv, EditRefers
<1>4. PICK S \in SUBSET ProductIds : S = {p \in q.ids : q.bulk => Shop!Live(p)}
    BY <1>3
<1>5. \A p \in ProductIds : products'[p] = IF p \in S THEN [products[p] EXCEPT !.status = "active"] ELSE products[p]
    BY <1>2, <1>4
<1>6. ASSUME NEW p \in S
      PROVE  /\ products[p] \in Shop!ProductRow /\ products'[p] \in Shop!ProductRow
             /\ ProductIs(products'[p], products[p].category, products[p].sku, "active", products[p].has_variants,
                          products[p].stock, products[p].display_order, products[p].deleted)
  <2>1. PICK row \in Shop!ProductRow : row = products[p]
    BY <1>3, <1>4, ExistingRow
  <2>2. \E new \in Shop!ProductRow :
          /\ new = [row EXCEPT !.status = "active"]
          /\ ProductIs(new, row.category, row.sku, "active", row.has_variants, row.stock, row.display_order, row.deleted)
    BY ProductStatusSet DEF Status
  <2>3. products'[p] = [row EXCEPT !.status = "active"]
    BY <1>5, <2>1
  <2> QED
    BY <2>1, <2>2, <2>3, Zenon
<1>7. ProductsWritten(S)
  <2>1. \A p \in ProductIds : products'[p] \in Shop!ProductRow \cup {Shop!None}
    BY <1>5, <1>6, TypedRows DEF RowsTyped
  <2>2. products' \in [ProductIds -> Shop!ProductRow \cup {Shop!None}]
    BY <1>2, <2>1
  <2> QED
    BY <1>5, <1>6, <2>2 DEF ProductsWritten, ProductIs
<1> QED
    BY <1>1, <1>2, <1>4, <1>6, <1>7

LEMMA WithdrawWrites ==
    ASSUME NamesInv, Shop!Withdraw
    PROVE  /\ Shop!AtOnce /\ UNCHANGED <<variants, categories, reservations>>
           /\ \E p \in ProductIds :
                  /\ ProductsWritten({p})
                  /\ ProductIs(products'[p], products[p].category, products[p].sku, "draft", products[p].has_variants,
                               products[p].stock, products[p].display_order, products[p].deleted)
<1>1. PICK p \in Shop!LiveProducts : products' = [products EXCEPT ![p].status = "draft"]
    BY DEF Shop!Withdraw
<1>2. p \in ProductIds /\ products[p] # Shop!None /\ products \in [ProductIds -> Shop!ProductRow \cup {Shop!None}]
    BY TypedRows DEF Shop!LiveProducts, Shop!Live, RowsTyped
<1>3. PICK row \in Shop!ProductRow : row = products[p]
    BY <1>2, ExistingRow
<1>4. PICK new \in Shop!ProductRow :
        /\ new = [row EXCEPT !.status = "draft"]
        /\ ProductIs(new, row.category, row.sku, "draft", row.has_variants, row.stock, row.display_order, row.deleted)
    BY ProductStatusSet DEF Status
<1>5. products' = [products EXCEPT ![p] = new]
    BY <1>1, <1>3, <1>4, Zenon
<1>6. ProductsWritten({p})
    BY <1>2, <1>3, <1>4, <1>5 DEF ProductsWritten, ProductIs
<1> QED
    BY <1>2, <1>3, <1>4, <1>5, <1>6 DEF Shop!Withdraw

LEMMA TrashWrites ==
    ASSUME NamesInv, Shop!DeleteProducts
    PROVE  /\ Shop!AtOnce /\ UNCHANGED <<variants, categories, reservations>>
           /\ \E S \in SUBSET ProductIds :
                  /\ ProductsWritten(S)
                  /\ \A p \in S : ProductIs(products'[p], products[p].category, products[p].sku, products[p].status,
                                            products[p].has_variants, products[p].stock, products[p].display_order, TRUE)
<1>1. PICK S \in SUBSET Shop!LiveProducts :
        products' = [p \in ProductIds |-> IF p \in S THEN [products[p] EXCEPT !.deleted = TRUE] ELSE products[p]]
    BY DEF Shop!DeleteProducts
<1>2. \A p \in S : p \in ProductIds /\ products[p] # Shop!None
    BY DEF Shop!LiveProducts, Shop!Live
<1>3. \A p \in ProductIds : products'[p] = IF p \in S THEN [products[p] EXCEPT !.deleted = TRUE] ELSE products[p]
    BY <1>1
<1>4. ASSUME NEW p \in S
      PROVE  /\ products[p] \in Shop!ProductRow /\ products'[p] \in Shop!ProductRow
             /\ ProductIs(products'[p], products[p].category, products[p].sku, products[p].status, products[p].has_variants,
                          products[p].stock, products[p].display_order, TRUE)
  <2>1. PICK row \in Shop!ProductRow : row = products[p]
    BY <1>2, ExistingRow
  <2>2. \E new \in Shop!ProductRow :
          /\ new = [row EXCEPT !.deleted = TRUE]
          /\ ProductIs(new, row.category, row.sku, row.status, row.has_variants, row.stock, row.display_order, TRUE)
    BY ProductDeletedSet
  <2>3. products'[p] = [row EXCEPT !.deleted = TRUE]
    BY <1>2, <1>3, <2>1
  <2> QED
    BY <2>1, <2>2, <2>3, Zenon
<1>5. ProductsWritten(S)
  <2>1. \A p \in ProductIds : products'[p] \in Shop!ProductRow \cup {Shop!None}
    BY <1>3, <1>4, TypedRows DEF RowsTyped
  <2>2. products' \in [ProductIds -> Shop!ProductRow \cup {Shop!None}]
    BY <1>1, <2>1
  <2> QED
    BY <1>2, <1>3, <1>4, <2>2 DEF ProductsWritten, ProductIs
<1>6. S \in SUBSET ProductIds
    BY <1>2
<1> QED
    BY <1>4, <1>5, <1>6 DEF Shop!DeleteProducts

LEMMA RestoreWrites ==
    ASSUME ShopAssumption, NamesInv, Shop!RestoreProduct
    PROVE  /\ Shop!AtOnce /\ UNCHANGED <<variants, categories, reservations>>
           /\ \E p \in ProductIds :
                  /\ products[p].deleted = TRUE /\ ProductsWritten({p})
                  /\ ProductIs(products'[p], products[p].category, products[p].sku, "draft", products[p].has_variants,
                               products[p].stock, Shop!NextWebsitePosition, FALSE)
<1>1. PICK p \in ProductIds :
        /\ products[p] # Shop!None /\ products[p].deleted
        /\ products' = [products EXCEPT ![p].deleted = FALSE, ![p].status = "draft",
                                        ![p].display_order = Shop!NextWebsitePosition]
    BY DEF Shop!RestoreProduct
<1>2. products \in [ProductIds -> Shop!ProductRow \cup {Shop!None}]
    BY TypedRows DEF RowsTyped
<1>3. PICK place \in Nat : place = Shop!NextWebsitePosition
    BY <1>2, NextPlace
<1>4. PICK row \in Shop!ProductRow : row = products[p]
    BY <1>1, ExistingRow
<1>5. PICK live \in Shop!ProductRow :
        /\ live = [row EXCEPT !.deleted = FALSE]
        /\ ProductIs(live, row.category, row.sku, row.status, row.has_variants, row.stock, row.display_order, FALSE)
    BY ProductDeletedSet
<1>6. PICK draft \in Shop!ProductRow :
        /\ draft = [live EXCEPT !.status = "draft"]
        /\ ProductIs(draft, live.category, live.sku, "draft", live.has_variants, live.stock, live.display_order, live.deleted)
    BY ProductStatusSet DEF Status
<1>7. PICK new \in Shop!ProductRow :
        /\ new = [draft EXCEPT !.display_order = place]
        /\ ProductIs(new, draft.category, draft.sku, draft.status, draft.has_variants, draft.stock, place, draft.deleted)
    BY ProductOrderSet
<1>8. ProductIs(new, row.category, row.sku, "draft", row.has_variants, row.stock, place, FALSE)
    BY <1>5, <1>6, <1>7 DEF ProductIs
<1>9. products' = [products EXCEPT ![p] = new]
  <2>1. PICK one : one = [products EXCEPT ![p].deleted = FALSE] /\ one = [products EXCEPT ![p] = live]
    BY <1>4, <1>5, Zenon
  <2>2. one[p] = live
    BY <1>2, <2>1
  <2>3. PICK two : two = [one EXCEPT ![p].status = "draft"] /\ two = [one EXCEPT ![p] = draft]
    BY <1>6, <2>2, Zenon
  <2>4. two[p] = draft
    BY <1>2, <2>1, <2>3
  <2>5. PICK three : three = [two EXCEPT ![p].display_order = place] /\ three = [two EXCEPT ![p] = new]
    BY <1>7, <2>4, Zenon
  <2>6. products' = three
    BY <1>1, <1>3, <2>1, <2>3, <2>5, Zenon
  <2> QED
    BY <1>2, <2>1, <2>3, <2>5, <2>6
<1>10. ProductsWritten({p})
    BY <1>2, <1>4, <1>8, <1>9 DEF ProductsWritten, ProductIs
<1>11. products[p].deleted = TRUE
    BY <1>1, <1>4, ProductShape
<1> QED
    BY <1>2, <1>3, <1>4, <1>8, <1>9, <1>10, <1>11 DEF Shop!RestoreProduct

LEMMA RankNat == ASSUME ShopAssumption, NEW p PROVE Shop!Rank(p) \in Nat
<1>1. PICK S \in SUBSET ProductIds : S = {q \in Shop!LiveProducts : Shop!Before(products, q, p)}
    BY DEF Shop!LiveProducts
<1>2. IsFiniteSet(S)
    BY ShopIds, FS_Subset
<1>3. Cardinality(S) \in Nat
    BY <1>2, FS_CardinalityType
<1>4. Shop!Rank(p) = Cardinality(S) + 1
    BY <1>1 DEF Shop!Rank, Shop!Cardinality, Cardinality
<1> QED
    BY <1>3, <1>4

\* Where a product goes as p and q change places and the others close ranks.
Moved(x, p, q) == IF x = p THEN Shop!Rank(q) ELSE IF x = q THEN Shop!Rank(p) ELSE Shop!Rank(x)

LEMMA MoveWrites ==
    ASSUME ShopAssumption, NamesInv, Shop!MoveWebsiteOrder
    PROVE  /\ Shop!AtOnce /\ UNCHANGED <<variants, categories, reservations>>
           /\ ProductsWritten(Shop!LiveProducts)
           /\ \E p, q \in Shop!LiveProducts :
                  /\ p # q
                  /\ \A x \in Shop!LiveProducts :
                         ProductIs(products'[x], products[x].category, products[x].sku, products[x].status,
                                   products[x].has_variants, products[x].stock, Moved(x, p, q), products[x].deleted)
<1>1. PICK p \in Shop!LiveProducts, q \in Shop!LiveProducts :
        /\ Shop!Rank(q) \in {Shop!Rank(p) - 1, Shop!Rank(p) + 1}
        /\ products' = [x \in ProductIds |->
                          IF Shop!Live(x)
                          THEN [products[x] EXCEPT !.display_order = IF x = p THEN Shop!Rank(q) ELSE IF x = q THEN Shop!Rank(p) ELSE Shop!Rank(x)]
                          ELSE products[x]]
    BY DEF Shop!MoveWebsiteOrder
<1>2. p # q
  <2>1. PICK n \in Nat : n = Shop!Rank(p)
    BY RankNat
  <2> QED
    BY <1>1, <2>1
<1>3. PICK S \in SUBSET ProductIds : S = Shop!LiveProducts
    BY DEF Shop!LiveProducts
<1>4. \A x \in ProductIds :
        products'[x] = IF x \in S THEN [products[x] EXCEPT !.display_order = Moved(x, p, q)] ELSE products[x]
    BY <1>1, <1>3 DEF Moved, Shop!LiveProducts
<1>5. ASSUME NEW x \in S
      PROVE  /\ products[x] \in Shop!ProductRow /\ products'[x] \in Shop!ProductRow
             /\ ProductIs(products'[x], products[x].category, products[x].sku, products[x].status,
                          products[x].has_variants, products[x].stock, Moved(x, p, q), products[x].deleted)
  <2>1. PICK row \in Shop!ProductRow : row = products[x]
    BY <1>3, ExistingRow DEF Shop!LiveProducts, Shop!Live
  <2>2. PICK place \in Nat : place = Moved(x, p, q)
    BY RankNat DEF Moved
  <2>3. \E new \in Shop!ProductRow :
          /\ new = [row EXCEPT !.display_order = place]
          /\ ProductIs(new, row.category, row.sku, row.status, row.has_variants, row.stock, place, row.deleted)
    BY ProductOrderSet
  <2>4. products'[x] = [row EXCEPT !.display_order = place]
    BY <1>4, <2>1, <2>2
  <2> QED
    BY <2>1, <2>2, <2>3, <2>4, Zenon
<1>6. ProductsWritten(S)
  <2>1. \A x \in ProductIds : products'[x] \in Shop!ProductRow \cup {Shop!None}
    BY <1>4, <1>5, TypedRows DEF RowsTyped
  <2>2. products' \in [ProductIds -> Shop!ProductRow \cup {Shop!None}]
    BY <1>1, <2>1
  <2> QED
    BY <1>4, <1>5, <2>2 DEF ProductsWritten, ProductIs
<1> QED
    BY <1>1, <1>2, <1>3, <1>5, <1>6 DEF Shop!MoveWebsiteOrder

LEMMA RefreshWrites ==
    ASSUME ShopAssumption, NamesInv, NEW vs \in [VariantIds -> Shop!VariantRow \cup {Shop!None}], NEW p \in ProductIds,
           products' = Shop!RefreshVariantProductAggregates(vs, p)
    PROVE  \E S \in SUBSET {p} :
               /\ p \in S <=> Shop!Live(p) /\ products[p].has_variants
               /\ ProductsWritten(S)
               /\ p \in S => ProductIs(products'[p], products[p].category, products[p].sku, products[p].status,
                                       products[p].has_variants, Shop!CachedStock(vs, p), products[p].display_order,
                                       products[p].deleted)
<1>1. products \in [ProductIds -> Shop!ProductRow \cup {Shop!None}]
    BY TypedRows DEF RowsTyped
<1>2. CASE Shop!Live(p) /\ products[p].has_variants
  <2>1. PICK stocked \in Nat : stocked = Shop!CachedStock(vs, p)
    BY StockNat
  <2>2. products' = [products EXCEPT ![p].stock = stocked]
    BY <1>2, <2>1 DEF Shop!RefreshVariantProductAggregates
  <2>3. PICK row \in Shop!ProductRow : row = products[p]
    BY <1>2, ExistingRow DEF Shop!Live
  <2>4. PICK new \in Shop!ProductRow :
          /\ new = [row EXCEPT !.stock = stocked]
          /\ ProductIs(new, row.category, row.sku, row.status, row.has_variants, stocked, row.display_order, row.deleted)
    BY ProductStockSet
  <2>5. products' = [products EXCEPT ![p] = new]
    BY <2>2, <2>3, <2>4, Zenon
  <2>6. ProductsWritten({p})
    BY <1>1, <2>3, <2>4, <2>5 DEF ProductsWritten, ProductIs
  <2>7. products'[p] = new
    BY <1>1, <2>5
  <2> QED
    BY <1>2, <2>1, <2>3, <2>4, <2>6, <2>7
<1>3. CASE ~(Shop!Live(p) /\ products[p].has_variants)
  <2>1. products' = products
    BY <1>3 DEF Shop!RefreshVariantProductAggregates
  <2>2. ProductsWritten({})
    BY <1>1, <2>1 DEF ProductsWritten
  <2> QED
    BY <1>3, <2>2
<1> QED
    BY <1>2, <1>3

\* One variant gets a row.
VariantWritten(v, new) ==
    /\ variants' \in [VariantIds -> Shop!VariantRow \cup {Shop!None}]
    /\ \A w \in VariantIds \ {v} : variants'[w] = variants[w]
    /\ variants'[v] = new /\ new \in Shop!VariantRow

LEMMA SellWrites ==
    ASSUME ShopAssumption, NamesInv, Shop!SellVariant
    PROVE  /\ EditsEnd /\ UNCHANGED <<products, categories, reservations>>
           /\ \E v \in VariantIds : \E new :
                  /\ variants[v] \in Shop!VariantRow /\ VariantWritten(v, new)
                  /\ VariantIs(new, variants[v].product, variants[v].sku, variants[v].stock - 1, variants[v].active, variants[v].deleted)
<1>1. PICK v \in VariantIds :
        /\ variants[v] # Shop!None /\ variants[v].stock > 0
        /\ variants' = [variants EXCEPT ![v].stock = @ - 1]
    BY DEF Shop!SellVariant
<1>2. variants \in [VariantIds -> Shop!VariantRow \cup {Shop!None}]
    BY TypedRows DEF RowsTyped
<1>3. PICK row \in Shop!VariantRow : row = variants[v]
    BY <1>1, ExistingRow
<1>4. PICK left \in 0..MaxVariantStock : left = row.stock - 1
    BY <1>1, <1>3, VariantShape, ShopIds, SMTT(30)
<1>5. PICK new \in Shop!VariantRow :
        new = [row EXCEPT !.stock = left] /\ VariantIs(new, row.product, row.sku, left, row.active, row.deleted)
    BY VariantStockSet
<1>6. variants' = [variants EXCEPT ![v].stock = left]
    BY <1>1, <1>3, <1>4
<1>7. variants' = [variants EXCEPT ![v] = new]
    BY <1>3, <1>5, <1>6, Zenon
<1>8. VariantWritten(v, new)
    BY <1>2, <1>5, <1>7 DEF VariantWritten
<1>9. EditsEnd
  <2>1. UNCHANGED editing /\ catalogueDrift' = catalogueDrift \cup {"sale"} \cup (IF Shop!Busy THEN {"overlap"} ELSE {})
    BY DEF Shop!SellVariant
  <2>2. editing \in [Admins -> EditRequest] /\ catalogueDrift \subseteq {"overlap", "sale"}
    BY DEF NamesInv, Shop!TypeOK
  <2> QED
    BY <2>1, <2>2 DEF EditsEnd
<1> QED
    BY <1>3, <1>4, <1>5, <1>8, <1>9 DEF Shop!SellVariant

LEMMA RetireWrites ==
    ASSUME ShopAssumption, NamesInv, NEW a \in Admins, Shop!DeleteVariant(a)
    PROVE  /\ editing[a].op = "deleteVariant" /\ Shop!Respond(a) /\ UNCHANGED <<categories, reservations>>
           /\ \E v \in VariantIds : \E new, vs :
                  /\ v = editing[a].variant /\ variants[v] \in Shop!VariantRow /\ VariantWritten(v, new)
                  /\ VariantIs(new, variants[v].product, variants[v].sku, variants[v].stock, variants[v].active, TRUE)
                  /\ vs = variants' /\ products' = Shop!RefreshVariantProductAggregates(vs, variants[v].product)
<1>1. PICK q \in EditRequest : q = editing[a]
    BY TypedRows
<1>2. PICK vs : /\ vs = [variants EXCEPT ![q.variant].deleted = TRUE] /\ q.op = "deleteVariant" /\ variants' = vs
                /\ products' = Shop!RefreshVariantProductAggregates(vs, variants[q.variant].product)
                /\ Shop!Respond(a) /\ UNCHANGED <<categories, reservations>>
    BY <1>1 DEF Shop!DeleteVariant
<1>3. PICK v \in VariantIds : v = q.variant /\ variants[v] # Shop!None
    BY <1>1, <1>2, EditRequestShape DEF NamesInv, EditRefers
<1>4. PICK row \in Shop!VariantRow : row = variants[v]
    BY <1>3, ExistingRow
<1>5. PICK new \in Shop!VariantRow :
        new = [row EXCEPT !.deleted = TRUE] /\ VariantIs(new, row.product, row.sku, row.stock, row.active, TRUE)
    BY VariantDeletedSet
<1>6. vs = [variants EXCEPT ![v] = new]
    BY <1>2, <1>3, <1>4, <1>5, Zenon
<1>7. VariantWritten(v, new)
    BY <1>2, <1>5, <1>6, TypedRows DEF VariantWritten, RowsTyped
<1> QED
    BY <1>1, <1>2, <1>3, <1>4, <1>5, <1>7

\* One product gets a row.
ProductWritten(p, new) ==
    /\ products' \in [ProductIds -> Shop!ProductRow \cup {Shop!None}]
    /\ \A q \in ProductIds \ {p} : products'[q] = products[q]
    /\ products'[p] = new /\ new \in Shop!ProductRow

LEMMA ProductEdited ==
    ASSUME NEW row \in Shop!ProductRow, NEW edit \in ProductEdit
    PROVE  \E new \in Shop!ProductRow, c \in CategoryIds, s \in Shop!AllSkus :
               /\ new = Shop!EditedProduct(row, edit) /\ (s \in Skus \/ s = row.sku)
               /\ ProductIs(new, c, s, row.status, row.has_variants, row.stock, row.display_order, row.deleted)
<1>0. row.category \in CategoryIds /\ row.sku \in Shop!AllSkus
    BY ProductShape
<1>1. CASE edit \in {"category"} \X CategoryIds
  <2>1. PICK c \in CategoryIds : c = edit[2] /\ edit[1] = "category"
    BY <1>1
  <2>2. PICK new \in Shop!ProductRow :
          /\ new = [row EXCEPT !.category = c]
          /\ ProductIs(new, c, row.sku, row.status, row.has_variants, row.stock, row.display_order, row.deleted)
    BY ProductCategorySet
  <2>3. new = Shop!EditedProduct(row, edit)
    BY <2>1, <2>2 DEF Shop!EditedProduct
  <2> QED
    BY <1>0, <2>2, <2>3
<1>2. CASE edit \in {"sku"} \X Skus
  <2>1. PICK s \in Skus : s = edit[2] /\ edit[1] = "sku"
    BY <1>2
  <2>2. s \in Shop!AllSkus
    BY SkuShape
  <2>3. PICK new \in Shop!ProductRow :
          /\ new = [row EXCEPT !.sku = s]
          /\ ProductIs(new, row.category, s, row.status, row.has_variants, row.stock, row.display_order, row.deleted)
    BY <2>2, ProductSkuSet
  <2>4. new = Shop!EditedProduct(row, edit)
    BY <2>1, <2>3 DEF Shop!EditedProduct
  <2> QED
    BY <1>0, <2>2, <2>3, <2>4
<1>3. CASE edit = <<"text">>
  <2>1. edit[1] # "category" /\ edit[1] # "sku"
    BY <1>3
  <2>2. row = Shop!EditedProduct(row, edit)
    BY <2>1 DEF Shop!EditedProduct
  <2>3. ProductIs(row, row.category, row.sku, row.status, row.has_variants, row.stock, row.display_order, row.deleted)
    BY DEF ProductIs
  <2> QED
    BY <1>0, <2>2, <2>3
<1> QED
    BY <1>1, <1>2, <1>3 DEF ProductEdit

LEMMA VariantEdited ==
    ASSUME NEW row \in Shop!VariantRow, NEW edit \in VariantEdit
    PROVE  \E new \in Shop!VariantRow, s \in Shop!AllSkus, n \in 0..MaxVariantStock, on \in BOOLEAN :
               /\ new = Shop!EditedVariant(row, edit) /\ (s \in Skus \/ s = row.sku)
               /\ VariantIs(new, row.product, s, n, on, row.deleted)
<1>0. row.sku \in Shop!AllSkus /\ row.stock \in 0..MaxVariantStock /\ row.active \in BOOLEAN
    BY VariantShape
<1>1. CASE edit \in {"stock"} \X (0..MaxVariantStock)
  <2>1. PICK n \in 0..MaxVariantStock : n = edit[2] /\ edit[1] = "stock"
    BY <1>1
  <2>2. PICK new \in Shop!VariantRow :
          new = [row EXCEPT !.stock = n] /\ VariantIs(new, row.product, row.sku, n, row.active, row.deleted)
    BY VariantStockSet
  <2>3. new = Shop!EditedVariant(row, edit)
    BY <2>1, <2>2 DEF Shop!EditedVariant
  <2> QED
    BY <1>0, <2>2, <2>3
<1>2. CASE edit \in {"active"} \X BOOLEAN
  <2>1. PICK on \in BOOLEAN : on = edit[2] /\ edit[1] = "active"
    BY <1>2
  <2>2. PICK new \in Shop!VariantRow :
          new = [row EXCEPT !.active = on] /\ VariantIs(new, row.product, row.sku, row.stock, on, row.deleted)
    BY VariantActiveSet
  <2>3. new = Shop!EditedVariant(row, edit)
    BY <2>1, <2>2 DEF Shop!EditedVariant
  <2> QED
    BY <1>0, <2>2, <2>3
<1>3. CASE edit \in {"sku"} \X Skus
  <2>1. PICK s \in Skus : s = edit[2] /\ edit[1] = "sku"
    BY <1>3
  <2>2. s \in Shop!AllSkus
    BY SkuShape
  <2>3. PICK new \in Shop!VariantRow :
          new = [row EXCEPT !.sku = s] /\ VariantIs(new, row.product, s, row.stock, row.active, row.deleted)
    BY <2>2, VariantSkuSet
  <2>4. new = Shop!EditedVariant(row, edit)
    BY <2>1, <2>3 DEF Shop!EditedVariant
  <2> QED
    BY <1>0, <2>2, <2>3, <2>4
<1>4. CASE edit = <<"text">>
  <2>1. edit[1] # "stock" /\ edit[1] # "active" /\ edit[1] # "sku"
    BY <1>4
  <2>2. row = Shop!EditedVariant(row, edit)
    BY <2>1 DEF Shop!EditedVariant
  <2>3. VariantIs(row, row.product, row.sku, row.stock, row.active, row.deleted)
    BY DEF VariantIs
  <2> QED
    BY <1>0, <2>2, <2>3
<1> QED
    BY <1>1, <1>2, <1>3, <1>4 DEF VariantEdit

\* The SKU of a row that is written is reserved for it.
Reserved(sku, owner) ==
    /\ reservations[sku] \in {Shop!None, owner} /\ reservations' = [reservations EXCEPT ![sku] = owner]

LEMMA UpdateWrites ==
    ASSUME NamesInv, NEW a \in Admins, Shop!UpdateProduct(a)
    PROVE  \/ Shop!Fail(a)
           \/ /\ editing[a].op = "update" /\ editing[a] \in EditRequest
              /\ Shop!Respond(a) /\ UNCHANGED <<variants, categories>>
              /\ \E p \in ProductIds, c \in CategoryIds, s \in Shop!AllSkus : \E new, ps :
                     /\ p = editing[a].product /\ products[p] \in Shop!ProductRow /\ ProductWritten(p, new) /\ ps = products'
                     /\ ProductIs(new, c, s, products[p].status, products[p].has_variants, products[p].stock,
                                  products[p].display_order, products[p].deleted)
                     /\ (s \in Skus \/ s = products[p].sku) /\ Reserved(s, Shop!AsProduct(p))
                     /\ editing[a].status = "active" => Shop!ValidateProductActivationReadiness(ps, variants, p)
<1>1. PICK q \in EditRequest : q = editing[a] /\ q.op = "update"
    BY TypedRows DEF Shop!UpdateProduct
<1>2. PICK p \in ProductIds : p = q.product /\ products[p] # Shop!None /\ q.edit \in ProductEdit
    BY <1>1, EditRequestShape DEF NamesInv, EditRefers
<1>3. PICK row \in Shop!ProductRow : row = products[p]
    BY <1>2, ExistingRow
<1>4. PICK new \in Shop!ProductRow, c \in CategoryIds, s \in Shop!AllSkus :
        /\ new = Shop!EditedProduct(row, q.edit) /\ (s \in Skus \/ s = row.sku)
        /\ ProductIs(new, c, s, row.status, row.has_variants, row.stock, row.display_order, row.deleted)
    BY <1>2, ProductEdited
<1>5. PICK ps : ps = [products EXCEPT ![p] = Shop!EditedProduct(@, q.edit)] /\ ps = [products EXCEPT ![p] = new]
    BY <1>3, <1>4, Zenon
<1>6. products \in [ProductIds -> Shop!ProductRow \cup {Shop!None}]
    BY TypedRows DEF RowsTyped
<1>7. ps \in [ProductIds -> Shop!ProductRow \cup {Shop!None}] /\ ps[p] = new /\ new.sku = s
      /\ \A x \in ProductIds \ {p} : ps[x] = products[x]
    BY <1>4, <1>5, <1>6 DEF ProductIs
<1>8. CASE Shop!Fail(a)
    BY <1>8
<1>9. CASE ~Shop!Fail(a)
  <2>1. /\ Shop!MayReserve(s, Shop!AsProduct(p))
        /\ q.status = "active" => Shop!ValidateProductActivationReadiness(ps, variants, p)
        /\ products' = ps /\ reservations' = [reservations EXCEPT ![s] = Shop!AsProduct(p)]
        /\ Shop!Respond(a) /\ UNCHANGED <<variants, categories>>
    BY <1>1, <1>2, <1>5, <1>7, <1>9, Zenon DEF Shop!UpdateProduct
  <2>2. ProductWritten(p, new) /\ Reserved(s, Shop!AsProduct(p))
    BY <1>7, <2>1 DEF ProductWritten, Reserved, Shop!MayReserve
  <2> QED
    BY <1>1, <1>2, <1>3, <1>4, <2>1, <2>2
<1> QED
    BY <1>8, <1>9

LEMMA UpdateVariantWrites ==
    ASSUME NamesInv, NEW a \in Admins, Shop!UpdateVariant(a)
    PROVE  \/ Shop!Fail(a)
           \/ /\ editing[a].op = "updateVariant" /\ editing[a] \in EditRequest
              /\ Shop!Respond(a) /\ UNCHANGED categories
              /\ \E v \in VariantIds, s \in Shop!AllSkus, n \in 0..MaxVariantStock, on \in BOOLEAN : \E new, vs :
                     /\ v = editing[a].variant /\ variants[v] \in Shop!VariantRow /\ VariantWritten(v, new) /\ vs = variants'
                     /\ VariantIs(new, variants[v].product, s, n, on, variants[v].deleted)
                     /\ (s \in Skus \/ s = variants[v].sku) /\ Reserved(s, Shop!AsVariant(v))
                     /\ products' = Shop!RefreshVariantProductAggregates(vs, variants[v].product)
                     /\ editing[a].status = "active" => Shop!ActiveIn(vs, variants[v].product) # {}
<1>1. PICK q \in EditRequest : q = editing[a] /\ q.op = "updateVariant"
    BY TypedRows DEF Shop!UpdateVariant
<1>2. PICK v \in VariantIds : v = q.variant /\ variants[v] # Shop!None /\ q.edit \in VariantEdit
    BY <1>1, EditRequestShape DEF NamesInv, EditRefers
<1>3. PICK row \in Shop!VariantRow : row = variants[v]
    BY <1>2, ExistingRow
<1>4. PICK new \in Shop!VariantRow, s \in Shop!AllSkus, n \in 0..MaxVariantStock, on \in BOOLEAN :
        /\ new = Shop!EditedVariant(row, q.edit) /\ (s \in Skus \/ s = row.sku)
        /\ VariantIs(new, row.product, s, n, on, row.deleted)
    BY <1>2, VariantEdited
<1>5. PICK vs : vs = [variants EXCEPT ![v] = Shop!EditedVariant(@, q.edit)] /\ vs = [variants EXCEPT ![v] = new]
    BY <1>3, <1>4, Zenon
<1>6. variants \in [VariantIds -> Shop!VariantRow \cup {Shop!None}]
    BY TypedRows DEF RowsTyped
<1>7. vs \in [VariantIds -> Shop!VariantRow \cup {Shop!None}] /\ vs[v] = new /\ new.sku = s
      /\ \A x \in VariantIds \ {v} : vs[x] = variants[x]
    BY <1>4, <1>5, <1>6 DEF VariantIs
<1>8. CASE Shop!Fail(a)
    BY <1>8
<1>9. CASE ~Shop!Fail(a)
  <2>1. /\ Shop!MayReserve(s, Shop!AsVariant(v))
        /\ q.status = "active" => Shop!ValidateShippingReadiness(vs, variants[v].product, TRUE)
        /\ variants' = vs /\ products' = Shop!RefreshVariantProductAggregates(vs, variants[v].product)
        /\ reservations' = [reservations EXCEPT ![s] = Shop!AsVariant(v)]
        /\ Shop!Respond(a) /\ UNCHANGED categories
    BY <1>1, <1>2, <1>5, <1>7, <1>9, Zenon DEF Shop!UpdateVariant
  <2>2. VariantWritten(v, new) /\ Reserved(s, Shop!AsVariant(v))
    BY <1>7, <2>1 DEF VariantWritten, Reserved, Shop!MayReserve
  <2>3. q.status = "active" => Shop!ActiveIn(vs, variants[v].product) # {}
    BY <2>1 DEF Shop!ValidateShippingReadiness
  <2> QED
    BY <1>1, <1>2, <1>3, <1>4, <2>1, <2>2, <2>3
<1> QED
    BY <1>8, <1>9

LEMMA CreateVariantWrites ==
    ASSUME ShopAssumption, NamesInv, Shop!CreateVariant
    PROVE  /\ Shop!AtOnce /\ UNCHANGED categories
           /\ \E v \in VariantIds, p \in ProductIds, s \in Skus, on \in BOOLEAN : \E new, vs :
                  /\ v = Shop!FreshVariant /\ variants[v] = Shop!None /\ VariantWritten(v, new) /\ vs = variants'
                  /\ VariantIs(new, p, s, MaxVariantStock, on, FALSE)
                  /\ Shop!Live(p) /\ products[p].has_variants = TRUE /\ Reserved(s, Shop!AsVariant(v))
                  /\ products' = Shop!RefreshVariantProductAggregates(vs, p)
                  /\ products[p].status = "active" => Shop!ActiveIn(vs, p) # {}
<1>1. PICK v : v = Shop!FreshVariant
    OBVIOUS
<1>2. PICK p \in Shop!LiveProducts, s \in Skus, on \in BOOLEAN :
        LET vs == [variants EXCEPT ![v] = [product |-> p, sku |-> s, stock |-> MaxVariantStock, active |-> on, deleted |-> FALSE]]
        IN  /\ \E w \in VariantIds : variants[w] = Shop!None
            /\ products[p].has_variants
            /\ Shop!MayReserve(s, Shop!AsVariant(v))
            /\ products[p].status = "active" => Shop!ValidateShippingReadiness(vs, p, TRUE)
            /\ variants' = vs
            /\ products' = Shop!RefreshVariantProductAggregates(vs, p)
            /\ reservations' = [reservations EXCEPT ![s] = Shop!AsVariant(v)]
    BY <1>1 DEF Shop!CreateVariant
<1>3. PICK new : new = [product |-> p, sku |-> s, stock |-> MaxVariantStock, active |-> on, deleted |-> FALSE]
    OBVIOUS
<1>4. PICK vs : vs = [variants EXCEPT ![v] = new]
    OBVIOUS
<1>5. /\ \E w \in VariantIds : variants[w] = Shop!None
      /\ products[p].has_variants
      /\ Shop!MayReserve(s, Shop!AsVariant(v))
      /\ products[p].status = "active" => Shop!ValidateShippingReadiness(vs, p, TRUE)
      /\ variants' = vs
      /\ products' = Shop!RefreshVariantProductAggregates(vs, p)
      /\ reservations' = [reservations EXCEPT ![s] = Shop!AsVariant(v)]
    BY <1>2, <1>3, <1>4
<1>6. v \in VariantIds /\ variants[v] = Shop!None
    BY <1>1, <1>5, FreshVariantIs
<1>7. p \in ProductIds /\ Shop!Live(p) /\ products[p] \in Shop!ProductRow
    BY ExistingRow DEF Shop!LiveProducts, Shop!Live
<1>8. products[p].has_variants = TRUE
    BY <1>5, <1>7, ProductShape
<1>9. new \in Shop!VariantRow /\ VariantIs(new, p, s, MaxVariantStock, on, FALSE)
  <2>1. s \in Shop!AllSkus /\ MaxVariantStock \in 0..MaxVariantStock
    BY SkuShape, ShopIds
  <2> QED
    BY <1>3, <1>7, <2>1 DEF Shop!VariantRow, VariantIs
<1>10. VariantWritten(v, new)
    BY <1>4, <1>5, <1>6, <1>9, TypedRows DEF VariantWritten, RowsTyped
<1>11. Reserved(s, Shop!AsVariant(v)) /\ (products[p].status = "active" => Shop!ActiveIn(vs, p) # {})
    BY <1>5 DEF Reserved, Shop!MayReserve, Shop!ValidateShippingReadiness
<1>12. Shop!AtOnce /\ UNCHANGED categories
    BY DEF Shop!CreateVariant
<1> QED
    BY <1>1, <1>5, <1>6, <1>7, <1>8, <1>9, <1>10, <1>11, <1>12

-----------------------------------------------------------------------------
(* Names: products that are created and copied                               *)

LEMMA CreateWrites ==
    ASSUME ShopAssumption, NamesInv, NEW a \in Admins, Shop!CreateProduct(a)
    PROVE  \/ Shop!Fail(a)
           \/ /\ editing[a].op = "create" /\ editing[a] \in EditRequest
              /\ Shop!Respond(a) /\ UNCHANGED categories
              /\ \E p \in ProductIds, q \in EditRequest, variantful \in BOOLEAN : \E v, new, ps, vs :
                     /\ q = editing[a] /\ v = Shop!FreshVariant /\ ps = products' /\ vs = variants'
                     /\ products[p] = Shop!None /\ ProductWritten(p, new)
                     /\ variantful = (q.variantSkus # {})
                     /\ ProductIs(new, q.category, q.sku, q.status, variantful, Shop!CachedStock(vs, p),
                                  Shop!NextWebsitePosition, FALSE)
                     /\ variantful => /\ v \in VariantIds /\ variants[v] = Shop!None
                                      /\ \E t \in q.variantSkus, row \in Shop!VariantRow :
                                             VariantWritten(v, row) /\ VariantIs(row, p, t, MaxVariantStock, TRUE, FALSE)
                     /\ ~variantful => UNCHANGED variants
                     /\ reservations[q.sku] \in {Shop!None, Shop!AsProduct(p)}
                     /\ \A s \in q.variantSkus : reservations[s] \in {Shop!None, Shop!AsVariant(v)}
                     /\ reservations' = [s \in Shop!AllSkus |->
                                            IF s = q.sku THEN Shop!AsProduct(p)
                                            ELSE IF s \in q.variantSkus THEN Shop!AsVariant(v) ELSE reservations[s]]
                     /\ q.status = "active" => Shop!ValidateProductActivationReadiness(ps, vs, p)
<1>1. PICK q \in EditRequest : q = editing[a] /\ q.op = "create"
    BY TypedRows DEF Shop!CreateProduct
<1>2. /\ q.category \in CategoryIds /\ q.sku \in Skus /\ q.sku \in Shop!AllSkus /\ q.variantSkus \in SUBSET Skus
      /\ q.status \in Status
    BY <1>1, EditRequestShape, SkuShape
<1>3. PICK variantful \in BOOLEAN : variantful = (q.variantSkus # {})
    OBVIOUS
<1>0. PICK v : v = Shop!FreshVariant
    OBVIOUS
<1>4. PICK p \in ProductIds : p = Shop!FreshProduct /\ products[p] = Shop!None
    BY FreshProductIs DEF Shop!CreateProduct
<1>5. variantful => v \in VariantIds /\ variants[v] = Shop!None
    BY <1>0, <1>1, <1>3, FreshVariantIs DEF Shop!CreateProduct
<1>6. PICK t : t = CHOOSE s \in q.variantSkus : TRUE
    OBVIOUS
<1>7. variantful => t \in q.variantSkus /\ t \in Shop!AllSkus
    BY <1>2, <1>3, <1>6, SkuShape
<1>8. PICK row : row = [product |-> p, sku |-> t, stock |-> MaxVariantStock, active |-> TRUE, deleted |-> FALSE]
    OBVIOUS
<1>9. variantful => row \in Shop!VariantRow /\ VariantIs(row, p, t, MaxVariantStock, TRUE, FALSE)
  <2>1. MaxVariantStock \in 0..MaxVariantStock
    BY ShopIds
  <2> QED
    BY <1>7, <1>8, <2>1 DEF Shop!VariantRow, VariantIs
<1>10. PICK vs : vs = IF variantful THEN [variants EXCEPT ![v] = row] ELSE variants
    OBVIOUS
<1>11. variants \in [VariantIds -> Shop!VariantRow \cup {Shop!None}]
       /\ products \in [ProductIds -> Shop!ProductRow \cup {Shop!None}]
    BY TypedRows DEF RowsTyped
<1>12. vs \in [VariantIds -> Shop!VariantRow \cup {Shop!None}]
  <2>1. CASE variantful
    BY <1>5, <1>9, <1>10, <1>11, <2>1
  <2>2. CASE ~variantful
    BY <1>10, <1>11, <2>2
  <2> QED
    BY <2>1, <2>2
<1>13. PICK stocked \in Nat, place \in Nat : stocked = Shop!CachedStock(vs, p) /\ place = Shop!NextWebsitePosition
    BY <1>11, <1>12, StockNat, NextPlace
<1>14. PICK new : new = [category |-> q.category, sku |-> q.sku, status |-> q.status, has_variants |-> variantful,
                         stock |-> stocked, display_order |-> place, deleted |-> FALSE]
    OBVIOUS
<1>15. new \in Shop!ProductRow /\ ProductIs(new, q.category, q.sku, q.status, variantful, stocked, place, FALSE)
    BY <1>2, <1>14 DEF Shop!ProductRow, ProductIs, Status
<1>16. PICK ps : ps = [products EXCEPT ![p] = new]
    OBVIOUS
<1>17. CASE Shop!Fail(a)
    BY <1>17
<1>18. CASE ~Shop!Fail(a)
  <2>1. vs = IF q.variantSkus # {}
             THEN [variants EXCEPT ![v] = [product |-> p, sku |-> CHOOSE s \in q.variantSkus : TRUE,
                                           stock |-> MaxVariantStock, active |-> TRUE, deleted |-> FALSE]]
             ELSE variants
    BY <1>3, <1>6, <1>8, <1>10
  <2>2. ps = [products EXCEPT ![p] =
                [category |-> q.category, sku |-> q.sku, status |-> q.status, has_variants |-> q.variantSkus # {},
                 stock |-> Shop!CachedStock(vs, p), display_order |-> Shop!NextWebsitePosition, deleted |-> FALSE]]
    BY <1>3, <1>13, <1>14, <1>16
  <2>3. /\ Shop!MayReserve(q.sku, Shop!AsProduct(p)) /\ \A s \in q.variantSkus : Shop!MayReserve(s, Shop!AsVariant(v))
        /\ q.status = "active" => Shop!ValidateProductActivationReadiness(ps, vs, p)
        /\ products' = ps /\ variants' = vs
        /\ reservations' = [s \in Shop!AllSkus |-> IF s = q.sku THEN Shop!AsProduct(p)
                                                   ELSE IF s \in q.variantSkus THEN Shop!AsVariant(v) ELSE reservations[s]]
        /\ Shop!Respond(a) /\ UNCHANGED categories
    BY <1>0, <1>1, <1>4, <1>18, <2>1, <2>2, Zenon DEF Shop!CreateProduct
  <2>4. ProductWritten(p, new)
    BY <1>11, <1>15, <1>16, <2>3 DEF ProductWritten
  <2>5. ASSUME variantful PROVE VariantWritten(v, row)
    BY <1>5, <1>9, <1>10, <1>11, <2>3, <2>5 DEF VariantWritten
  <2>6. ~variantful => UNCHANGED variants
    BY <1>10, <2>3
  <2>7. /\ reservations[q.sku] \in {Shop!None, Shop!AsProduct(p)}
        /\ \A s \in q.variantSkus : reservations[s] \in {Shop!None, Shop!AsVariant(v)}
    BY <2>3 DEF Shop!MayReserve
  <2>8. variantful => /\ v \in VariantIds /\ variants[v] = Shop!None
                      /\ \E s \in q.variantSkus, line \in Shop!VariantRow :
                             VariantWritten(v, line) /\ VariantIs(line, p, s, MaxVariantStock, TRUE, FALSE)
    BY <1>5, <1>7, <1>9, <2>5
  <2> QED
    BY <1>0, <1>1, <1>3, <1>4, <1>13, <1>15, <2>3, <2>4, <2>6, <2>7, <2>8
<1> QED
    BY <1>17, <1>18

LEMMA CardinalityIs == \A S : Shop!Cardinality(S) = Cardinality(S)
<1> QED
    BY DEF Shop!Cardinality, Cardinality

\* The copies of variants get the next free ids, one after the other.
LEMMA CopiesFit ==
    ASSUME ShopAssumption, NumberedInOrder, NEW copied \in SUBSET VariantIds,
           Shop!Cardinality({v \in VariantIds : variants[v] = Shop!None}) >= Shop!Cardinality(copied),
           NEW made, made = {Shop!FreshVariant + Shop!Cardinality({w \in copied : w < v}) : v \in copied}
    PROVE  /\ made \in SUBSET VariantIds /\ \A w \in made : variants[w] = Shop!None
           /\ \A w \in made, u \in VariantIds : u < w /\ variants[u] = Shop!None => u \in made
<1>1. CASE copied = {}
    BY <1>1
<1>2. CASE copied # {}
  <2>1. PICK m \in Nat : VariantIds = 1..m
    BY DEF ShopAssumption
  <2>2. IsFiniteSet(copied) /\ copied \in SUBSET Nat
    BY ShopIds, FS_Subset
  <2>3. PICK free \in SUBSET VariantIds : free = {v \in VariantIds : variants[v] = Shop!None}
    OBVIOUS
  <2>4. PICK some \in Nat, size \in Nat : size = Cardinality(copied) /\ some = Cardinality(free) /\ some >= size
    <3>1. Cardinality(copied) \in Nat /\ Cardinality(free) \in Nat
      BY <2>2, ShopIds, FS_Subset, FS_CardinalityType
    <3> QED
      BY <2>3, <3>1, CardinalityIs
  <2>5. size # 0
    BY <1>2, <2>2, <2>4, FS_EmptySet
  <2>6. free # {}
    BY <2>4, <2>5, FS_EmptySet
  <2>7. PICK first \in VariantIds : /\ first = Shop!FreshVariant /\ variants[first] = Shop!None
                                    /\ \A w \in VariantIds : w < first => variants[w] # Shop!None
    BY <2>3, <2>6, FreshVariantIs
  <2>8. first \in Nat
    BY <2>1, <2>7
  <2>9. free = first..m
    <3>1. \A v \in VariantIds : variants[v] = Shop!None <=> v >= first
      <4>1. ASSUME NEW v \in VariantIds PROVE variants[v] = Shop!None <=> v >= first
        <5>1. v \in Nat /\ (v < first \/ v = first \/ first < v)
          BY <2>1, <2>8
        <5>2. first < v => variants[v] = Shop!None
          BY <2>7 DEF NumberedInOrder
        <5> QED
          BY <2>7, <2>8, <5>1, <5>2
      <4> QED
        BY <4>1
    <3> QED
      BY <2>1, <2>3, <2>7, <2>8, <3>1
  <2>10. some = m - first + 1
    <3>1. Cardinality(first..m) = IF first > m THEN 0 ELSE m - first + 1
      BY <2>1, <2>8, FS_Interval
    <3>2. ~(first > m)
      BY <2>1, <2>7
    <3> QED
      BY <2>4, <2>9, <3>1, <3>2
  <2>11. PICK rank : rank = [v \in copied |-> Cardinality({w \in copied : w < v})]
    OBVIOUS
  <2>12. \A v \in copied : rank[v] = Cardinality({w \in copied : w < v})
    BY <2>11
  <2>13. /\ \A v \in copied : rank[v] \in Nat /\ rank[v] < size
         /\ \A v \in copied, k \in Nat : k < rank[v] => \E u \in copied : rank[u] = k
    BY <2>2, <2>4, <2>12, RanksDense
  <2>14. made = {first + rank[v] : v \in copied}
    BY <2>7, <2>12, CardinalityIs
  <2>15. ASSUME NEW w \in made PROVE w \in first..m
    <3>1. PICK v \in copied : w = first + rank[v]
      BY <2>14
    <3>2. PICK k \in Nat : k = rank[v] /\ k < size
      BY <2>13
    <3> QED
      BY <2>1, <2>4, <2>8, <2>10, <3>1, <3>2
  <2>16. ASSUME NEW w \in made, NEW u \in VariantIds, u < w, variants[u] = Shop!None PROVE u \in made
    <3>1. PICK v \in copied : w = first + rank[v]
      BY <2>14
    <3>2. PICK k \in Nat : k = rank[v]
      BY <2>13
    <3>3. u \in first..m
      BY <2>3, <2>9, <2>16
    <3>4. PICK j \in Nat : j = u - first /\ j < k
      BY <2>1, <2>8, <2>16, <3>1, <3>2, <3>3
    <3>5. PICK x \in copied : rank[x] = j
      BY <2>13, <3>2, <3>4
    <3>6. u = first + j
      BY <2>8, <3>3, <3>4
    <3> QED
      BY <2>14, <3>5, <3>6
  <2> QED
    BY <2>3, <2>9, <2>15, <2>16
<1> QED
    BY <1>1, <1>2

LEMMA CopyWrites ==
    ASSUME ShopAssumption, NamesInv, NEW a \in Admins, Shop!DuplicateProduct(a)
    PROVE  /\ editing[a].op = "duplicate" /\ editing[a] \in EditRequest /\ Shop!Respond(a) /\ UNCHANGED categories
           /\ \E p \in ProductIds, made \in SUBSET VariantIds : \E new, from :
                  /\ products[p] = Shop!None /\ ProductWritten(p, new) /\ from = editing[a].source
                  /\ ProductIs(new, products[from].category, [kind |-> "product", id |-> p], "draft",
                               products[from].has_variants, 0, Shop!NextWebsitePosition, FALSE)
                  /\ variants' \in [VariantIds -> Shop!VariantRow \cup {Shop!None}]
                  /\ \A w \in VariantIds \ made : variants'[w] = variants[w]
                  /\ \A w \in made : /\ variants[w] = Shop!None /\ variants'[w] \in Shop!VariantRow
                                     /\ \E on \in BOOLEAN :
                                            VariantIs(variants'[w], p, [kind |-> "variant", id |-> w], 0, on, FALSE)
                  /\ \A w \in made, u \in VariantIds : u < w /\ variants[u] = Shop!None => u \in made
                  /\ ReservationsTyped'
                  /\ reservations'[[kind |-> "product", id |-> p]] = Shop!AsProduct(p)
                  /\ \A w \in made : reservations'[[kind |-> "variant", id |-> w]] = Shop!AsVariant(w)
                  /\ \A s \in Shop!AllSkus :
                         s # [kind |-> "product", id |-> p] /\ (\A w \in made : s # [kind |-> "variant", id |-> w])
                             => reservations'[s] = reservations[s]
<1>1. PICK q \in EditRequest : q = editing[a] /\ q.op = "duplicate"
    BY TypedRows DEF Shop!DuplicateProduct
<1>2. /\ q.source \in ProductIds /\ products[q.source] \in Shop!ProductRow
      /\ q.active \in SUBSET VariantIds /\ q.others \in SUBSET VariantIds
  <2>1. products[q.source] # Shop!None
    BY <1>1 DEF NamesInv, EditRefers
  <2> QED
    BY <1>1, <2>1, EditRequestShape, ExistingRow
<1>3. PICK p \in ProductIds : p = Shop!FreshProduct /\ products[p] = Shop!None
    BY FreshProductIs DEF Shop!DuplicateProduct
<1>4. PICK copied \in SUBSET VariantIds : copied = q.active \cup q.others
    BY <1>2
<1>5. PICK made : made = {Shop!FreshVariant + Shop!Cardinality({w \in copied : w < v}) : v \in copied}
    OBVIOUS
<1>6. Shop!Cardinality({v \in VariantIds : variants[v] = Shop!None}) >= Shop!Cardinality(copied)
    BY <1>1, <1>4 DEF Shop!DuplicateProduct
<1>7. /\ made \in SUBSET VariantIds /\ \A w \in made : variants[w] = Shop!None
      /\ \A w \in made, u \in VariantIds : u < w /\ variants[u] = Shop!None => u \in made
  <2>1. NumberedInOrder
    BY DEF NamesInv
  <2> QED
    BY <1>5, <1>6, <2>1, CopiesFit, ZenonT(30)
<1>8. made # {} <=> copied # {}
    BY <1>5
<1>9. /\ products' = [products EXCEPT ![p] =
                        [category |-> products[q.source].category, sku |-> [kind |-> "product", id |-> p], status |-> "draft",
                         has_variants |-> products[q.source].has_variants, stock |-> 0,
                         display_order |-> Shop!NextWebsitePosition, deleted |-> FALSE]]
      /\ Shop!Respond(a) /\ UNCHANGED categories
    BY <1>1, <1>3 DEF Shop!DuplicateProduct
<1>10. \E source : variants' = [w \in VariantIds |->
                                   IF copied # {} /\ w \in made
                                   THEN [product |-> p, sku |-> [kind |-> "variant", id |-> w], stock |-> 0,
                                         active |-> source[w] \in q.active, deleted |-> FALSE]
                                   ELSE variants[w]]
  <2>1. PICK source : source = [w \in VariantIds |-> CHOOSE v \in copied : Shop!FreshVariant + Shop!Cardinality({x \in copied : x < v}) = w]
    OBVIOUS
  <2>2. variants' = [w \in VariantIds |->
                       IF copied # {} /\ w \in made
                       THEN [product |-> p, sku |-> [kind |-> "variant", id |-> w], stock |-> 0,
                             active |-> (CHOOSE v \in copied : Shop!FreshVariant + Shop!Cardinality({x \in copied : x < v}) = w) \in q.active,
                             deleted |-> FALSE]
                       ELSE variants[w]]
    BY <1>1, <1>3, <1>4, <1>5 DEF Shop!DuplicateProduct
  <2>3. \A w \in VariantIds : source[w] = CHOOSE v \in copied : Shop!FreshVariant + Shop!Cardinality({x \in copied : x < v}) = w
    BY <2>1
  <2>4. variants' = [w \in VariantIds |->
                       IF copied # {} /\ w \in made
                       THEN [product |-> p, sku |-> [kind |-> "variant", id |-> w], stock |-> 0,
                             active |-> source[w] \in q.active, deleted |-> FALSE]
                       ELSE variants[w]]
    BY <2>2, <2>3, Zenon
  <2> QED
    BY <2>4
<1>11. reservations' = [s \in Shop!AllSkus |->
                          IF s = [kind |-> "product", id |-> p] THEN Shop!AsProduct(p)
                          ELSE IF copied # {} /\ \E w \in made : s = [kind |-> "variant", id |-> w]
                               THEN Shop!AsVariant(s.id) ELSE reservations[s]]
    BY <1>1, <1>3, <1>4, <1>5 DEF Shop!DuplicateProduct
<1>12. products \in [ProductIds -> Shop!ProductRow \cup {Shop!None}] /\ variants \in [VariantIds -> Shop!VariantRow \cup {Shop!None}]
       /\ reservations \in [Shop!AllSkus -> Shop!Owner \cup {Shop!None}]
    BY TypedRows DEF RowsTyped, ReservationsTyped
<1>13. PICK place \in Nat : place = Shop!NextWebsitePosition
    BY <1>12, NextPlace
<1>14. PICK new : new = [category |-> products[q.source].category, sku |-> [kind |-> "product", id |-> p], status |-> "draft",
                         has_variants |-> products[q.source].has_variants, stock |-> 0,
                         display_order |-> place, deleted |-> FALSE]
    OBVIOUS
<1>15. /\ new \in Shop!ProductRow
       /\ ProductIs(new, products[q.source].category, [kind |-> "product", id |-> p], "draft",
                    products[q.source].has_variants, 0, place, FALSE)
  <2>1. PICK c \in CategoryIds, h \in BOOLEAN : c = products[q.source].category /\ h = products[q.source].has_variants
    BY <1>2, ProductShape
  <2>2. [kind |-> "product", id |-> p] \in Shop!AllSkus
    BY SkuShape
  <2>3. new = [category |-> c, sku |-> [kind |-> "product", id |-> p], status |-> "draft", has_variants |-> h,
               stock |-> 0, display_order |-> place, deleted |-> FALSE]
    BY <1>14, <2>1, Zenon
  <2>4. new \in Shop!ProductRow
    BY <2>2, <2>3 DEF Shop!ProductRow
  <2> QED
    BY <2>1, <2>3, <2>4 DEF ProductIs
<1>16. ProductWritten(p, new)
  <2>1. products' = [products EXCEPT ![p] = new]
    BY <1>9, <1>13, <1>14, Zenon
  <2> QED
    BY <1>12, <1>15, <2>1 DEF ProductWritten
<1>17. /\ \A w \in VariantIds \ made : variants'[w] = variants[w]
       /\ \A w \in made : /\ variants'[w] \in Shop!VariantRow
                          /\ \E on \in BOOLEAN : VariantIs(variants'[w], p, [kind |-> "variant", id |-> w], 0, on, FALSE)
  <2>1. \A w \in VariantIds \ made : variants'[w] = variants[w]
    BY <1>10
  <2>2. ASSUME NEW w \in made
        PROVE  /\ variants'[w] \in Shop!VariantRow
               /\ \E on \in BOOLEAN : VariantIs(variants'[w], p, [kind |-> "variant", id |-> w], 0, on, FALSE)
    <3>1. PICK on \in BOOLEAN : variants'[w] = [product |-> p, sku |-> [kind |-> "variant", id |-> w], stock |-> 0,
                                                active |-> on, deleted |-> FALSE]
      <4>1. PICK source :
              variants' = [x \in VariantIds |->
                             IF copied # {} /\ x \in made
                             THEN [product |-> p, sku |-> [kind |-> "variant", id |-> x], stock |-> 0,
                                   active |-> source[x] \in q.active, deleted |-> FALSE]
                             ELSE variants[x]]
        BY <1>10
      <4>2. w \in VariantIds /\ copied # {} /\ w \in made
        BY <1>7, <1>8
      <4>3. PICK on \in BOOLEAN : on = (source[w] \in q.active)
        <5>1. (source[w] \in q.active) \in BOOLEAN
          OBVIOUS
        <5> QED
          BY <5>1, Zenon
      <4>4. variants'[w] = [product |-> p, sku |-> [kind |-> "variant", id |-> w], stock |-> 0,
                            active |-> source[w] \in q.active, deleted |-> FALSE]
        BY <4>1, <4>2, Zenon
      <4> QED
        BY <4>3, <4>4, Zenon
    <3>2. [kind |-> "variant", id |-> w] \in Shop!AllSkus /\ 0 \in 0..MaxVariantStock
      <4>1. [kind |-> "variant", id |-> w] \in Shop!AllSkus
        BY <1>7, SkuShape
      <4>2. MaxVariantStock \in Nat
        BY ShopIds
      <4> QED
        BY <4>1, <4>2
    <3>3. variants'[w] \in Shop!VariantRow
      BY <3>1, <3>2 DEF Shop!VariantRow
    <3> QED
      BY <3>1, <3>3 DEF VariantIs
  <2> QED
    BY <2>1, <2>2
<1>18. variants' \in [VariantIds -> Shop!VariantRow \cup {Shop!None}]
  <2>1. \A w \in VariantIds : variants'[w] \in Shop!VariantRow \cup {Shop!None}
    BY <1>12, <1>17
  <2>2. \E f : variants' = [w \in VariantIds |-> f[w]]
    BY <1>10
  <2> QED
    BY <2>1, <2>2
<1>19. /\ reservations'[[kind |-> "product", id |-> p]] = Shop!AsProduct(p)
       /\ \A w \in made : reservations'[[kind |-> "variant", id |-> w]] = Shop!AsVariant(w)
       /\ \A s \in Shop!AllSkus :
              s # [kind |-> "product", id |-> p] /\ (\A w \in made : s # [kind |-> "variant", id |-> w])
                  => reservations'[s] = reservations[s]
  <2>1. [kind |-> "product", id |-> p] \in Shop!AllSkus
    BY SkuShape
  <2>2. ASSUME NEW w \in made PROVE reservations'[[kind |-> "variant", id |-> w]] = Shop!AsVariant(w)
    <3>1. PICK s \in Shop!AllSkus : s = [kind |-> "variant", id |-> w] /\ s # [kind |-> "product", id |-> p] /\ s.id = w
      <4>1. [kind |-> "variant", id |-> w] \in Shop!AllSkus
        BY <1>7, SkuShape
      <4>2. [kind |-> "variant", id |-> w] # [kind |-> "product", id |-> p] /\ [kind |-> "variant", id |-> w].id = w
        OBVIOUS
      <4> QED
        BY <4>1, <4>2
    <3>2. reservations'[s] = Shop!AsVariant(s.id)
      BY <1>8, <1>11, <3>1
    <3> QED
      BY <3>1, <3>2
  <2> QED
    BY <1>11, <2>1, <2>2
<1>20. ReservationsTyped'
  <2>1. ASSUME NEW s \in Shop!AllSkus PROVE reservations'[s] \in Shop!Owner \cup {Shop!None}
    <3>1. CASE s = [kind |-> "product", id |-> p]
      BY <1>19, <3>1, SkuShape
    <3>2. CASE \E w \in made : s = [kind |-> "variant", id |-> w]
      BY <1>7, <1>19, <3>2, SkuShape
    <3>3. CASE s # [kind |-> "product", id |-> p] /\ \A w \in made : s # [kind |-> "variant", id |-> w]
      BY <1>12, <1>19, <3>3
    <3> QED
      BY <3>1, <3>2, <3>3
  <2>2. \E f : reservations' = [s \in Shop!AllSkus |-> f[s]]
    BY <1>11
  <2> QED
    BY <2>1, <2>2 DEF ReservationsTyped
<1> QED
    BY <1>1, <1>3, <1>7, <1>9, <1>13, <1>15, <1>16, <1>17, <1>18, <1>19, <1>20

-----------------------------------------------------------------------------
(* Names: every step                                                         *)

LEMMA InitNames == ASSUME ShopAssumption, Shop!Init PROVE NamesInv
<1>1. PICK named : named = {0} \cup InitialVariants
    OBVIOUS
<1>2. PICK skuOf : skuOf = CHOOSE f \in [named -> Skus] : \A i, j \in named : i # j => f[i] # f[j]
    OBVIOUS
<1>3. skuOf \in [named -> Skus] /\ \A i, j \in named : i # j => skuOf[i] # skuOf[j]
  <2>1. \E f \in [named -> Skus] : \A i, j \in named : i # j => f[i] # f[j]
    BY <1>1 DEF ShopAssumption
  <2> QED
    BY <1>2, <2>1
<1>4. PICK units \in Nat : units = Shop!Cardinality(InitialVariants) * MaxVariantStock
  <2>1. PICK n \in Nat : n = Shop!Cardinality(InitialVariants)
    BY ShopIds, FS_Subset, FS_CardinalityType, CardinalityIs
  <2> QED
    BY <2>1, ShopIds
<1>5. /\ products = [p \in ProductIds |->
                       IF p = 1 THEN [category |-> 1, sku |-> skuOf[0], status |-> "draft", has_variants |-> TRUE,
                                      stock |-> units, display_order |-> 1, deleted |-> FALSE]
                       ELSE Shop!None]
      /\ variants = [v \in VariantIds |->
                       IF v \in InitialVariants
                       THEN [product |-> 1, sku |-> skuOf[v], stock |-> MaxVariantStock, active |-> TRUE, deleted |-> FALSE]
                       ELSE Shop!None]
      /\ categories = [c \in CategoryIds |-> [active |-> TRUE, deleted |-> FALSE]]
      /\ reservations = [s \in Shop!AllSkus |->
                           IF s = skuOf[0] THEN Shop!AsProduct(1)
                           ELSE IF \E v \in InitialVariants : s = skuOf[v]
                                THEN Shop!AsVariant(CHOOSE v \in InitialVariants : s = skuOf[v]) ELSE Shop!None]
      /\ editing = [a \in Admins |-> Shop!Idle] /\ catalogueDrift = {}
    BY <1>1, <1>2, <1>4 DEF Shop!Init
<1>6. /\ 0 \in named /\ 0 \notin InitialVariants /\ 1 \in ProductIds /\ 1 \in CategoryIds
      /\ InitialVariants \in SUBSET VariantIds /\ InitialVariants \in SUBSET named
  <2>1. 0 \notin VariantIds
    BY ShopIds
  <2> QED
    BY <1>1, <2>1, ShopIds
<1>7. skuOf[0] \in Skus /\ skuOf[0] \in Shop!AllSkus /\ \A v \in InitialVariants : skuOf[v] \in Skus /\ skuOf[v] \in Shop!AllSkus
    BY <1>3, <1>6, SkuShape
<1>8. products \in [ProductIds -> Shop!ProductRow \cup {Shop!None}] /\ products[1] # Shop!None /\ products[1].sku = skuOf[0]
      /\ \A p \in ProductIds : products[p] # Shop!None => p = 1
  <2>1. PICK row : row = [category |-> 1, sku |-> skuOf[0], status |-> "draft", has_variants |-> TRUE,
                          stock |-> units, display_order |-> 1, deleted |-> FALSE]
    OBVIOUS
  <2>2. row \in Shop!ProductRow /\ row.sku = skuOf[0]
    BY <1>6, <1>7, <2>1 DEF Shop!ProductRow
  <2>3. products = [p \in ProductIds |-> IF p = 1 THEN row ELSE Shop!None]
    BY <1>5, <2>1
  <2> QED
    BY <1>6, <2>2, <2>3, ProductShape
<1>9. /\ variants \in [VariantIds -> Shop!VariantRow \cup {Shop!None}]
      /\ \A v \in VariantIds : variants[v] # Shop!None <=> v \in InitialVariants
      /\ \A v \in InitialVariants : variants[v].product = 1 /\ variants[v].sku = skuOf[v]
  <2>1. ASSUME NEW v \in InitialVariants
        PROVE  variants[v] \in Shop!VariantRow /\ variants[v].product = 1 /\ variants[v].sku = skuOf[v]
    <3>1. PICK row : row = [product |-> 1, sku |-> skuOf[v], stock |-> MaxVariantStock, active |-> TRUE, deleted |-> FALSE]
      OBVIOUS
    <3>2. MaxVariantStock \in 0..MaxVariantStock
      BY ShopIds
    <3>3. row \in Shop!VariantRow
      BY <1>6, <1>7, <3>1, <3>2 DEF Shop!VariantRow
    <3> QED
      BY <1>5, <1>6, <3>1, <3>3
  <2>2. \A v \in VariantIds \ InitialVariants : variants[v] = Shop!None
    BY <1>5
  <2>3. \A v \in VariantIds : variants[v] \in Shop!VariantRow \cup {Shop!None}
    BY <2>1, <2>2
  <2>4. variants = [v \in VariantIds |-> variants[v]]
    <3> DEFINE row(v) == IF v \in InitialVariants
                         THEN [product |-> 1, sku |-> skuOf[v], stock |-> MaxVariantStock, active |-> TRUE, deleted |-> FALSE]
                         ELSE Shop!None
    <3>1. variants = [v \in VariantIds |-> row(v)]
      BY <1>5
    <3> HIDE DEF row
    <3> QED
      BY <3>1
  <2> QED
    BY <2>1, <2>2, <2>3, <2>4, VariantShape
<1>10. /\ reservations[skuOf[0]] = Shop!AsProduct(1)
       /\ \A v \in InitialVariants : reservations[skuOf[v]] = Shop!AsVariant(v)
       /\ \A s \in Shop!AllSkus \ Skus : reservations[s] = Shop!None
       /\ reservations \in [Shop!AllSkus -> Shop!Owner \cup {Shop!None}]
  <2>1. ASSUME NEW v \in InitialVariants PROVE reservations[skuOf[v]] = Shop!AsVariant(v)
    <3>1. skuOf[v] # skuOf[0] /\ \A w \in InitialVariants : skuOf[v] = skuOf[w] => w = v
      BY <1>3, <1>6
    <3>2. PICK w : w = CHOOSE x \in InitialVariants : skuOf[v] = skuOf[x]
      OBVIOUS
    <3>3. w \in InitialVariants /\ skuOf[v] = skuOf[w]
      BY <3>2
    <3>4. reservations[skuOf[v]] = Shop!AsVariant(w)
      BY <1>5, <1>7, <3>1, <3>2
    <3> QED
      BY <3>1, <3>3, <3>4
  <2>2. ASSUME NEW s \in Shop!AllSkus, \A v \in InitialVariants : s # skuOf[v], s # skuOf[0] PROVE reservations[s] = Shop!None
    BY <1>5, <2>2
  <2>3. reservations[skuOf[0]] = Shop!AsProduct(1)
    BY <1>5, <1>7
  <2>4. \A s \in Shop!AllSkus \ Skus : reservations[s] = Shop!None
    BY <1>7, <2>2
  <2>5. \A s \in Shop!AllSkus : reservations[s] \in Shop!Owner \cup {Shop!None}
    BY <1>6, <2>1, <2>2, <2>3, SkuShape
  <2>6. reservations = [s \in Shop!AllSkus |-> reservations[s]]
    <3> DEFINE owner(s) == IF s = skuOf[0] THEN Shop!AsProduct(1)
                           ELSE IF \E v \in InitialVariants : s = skuOf[v]
                                THEN Shop!AsVariant(CHOOSE v \in InitialVariants : s = skuOf[v]) ELSE Shop!None
    <3>1. reservations = [s \in Shop!AllSkus |-> owner(s)]
      BY <1>5
    <3> HIDE DEF owner
    <3> QED
      BY <3>1
  <2> QED
    BY <2>1, <2>3, <2>4, <2>5, <2>6
<1>11. Shop!TypeOK /\ editing \in [Admins -> EditRequest]
  <2>1. Shop!Idle \in EditRequest /\ [active |-> TRUE, deleted |-> FALSE] \in Shop!CategoryRow
    BY DEF EditRequest, Shop!CategoryRow
  <2> QED
    BY <1>5, <1>8, <1>9, <1>10, <2>1 DEF Shop!TypeOK
<1>12. \A a \in Admins : EditRefers(editing[a])
    BY <1>5 DEF EditRefers, Shop!Idle
<1>13. NumberedInOrder
  <2>1. PICK m \in Nat, i \in Nat : VariantIds = 1..m /\ InitialVariants = 1..i
    BY DEF ShopAssumption
  <2> QED
    BY <1>9, <2>1 DEF NumberedInOrder
<1>14. VariantsBelong
    BY <1>8, <1>9 DEF VariantsBelong
<1>15. OwnNames
  <2> SUFFICES ASSUME NEW i \in ProductIds \cup VariantIds
               PROVE  /\ reservations[[kind |-> "product", id |-> i]] = Shop!None
                      /\ reservations[[kind |-> "variant", id |-> i]] = Shop!None
    BY DEF OwnNames
  <2>1. \A s \in Skus : s # [kind |-> "product", id |-> i] /\ s # [kind |-> "variant", id |-> i]
    BY TypedSkuApart
  <2> QED
    BY <1>10, <2>1, SkuShape
<1>16. Shop!SkuOwned
    BY <1>8, <1>9, <1>10 DEF Shop!SkuOwned, Shop!IsSkuReservedBy
<1> QED
    BY <1>11, <1>12, <1>13, <1>14, <1>15, <1>16 DEF NamesInv

-----------------------------------------------------------------------------
(* Names: the steps that reserve nothing                                     *)

LEMMA PublishNames == ASSUME ShopAssumption, NamesInv, NEW a \in Admins, Shop!Publish(a) PROVE NamesInv'
<1>1. PICK S \in SUBSET ProductIds : /\ Shop!Respond(a) /\ UNCHANGED <<variants, categories, reservations>>
                                     /\ ProductsWritten(S)
    BY PublishWrites
<1> QED
    BY <1>1, EndsByResponse, NamesOfWritten

LEMMA ShelfNames ==
    ASSUME ShopAssumption, NamesInv, Shop!Withdraw \/ Shop!DeleteProducts \/ Shop!RestoreProduct \/ Shop!MoveWebsiteOrder
    PROVE  NamesInv'
<1>1. /\ Shop!AtOnce /\ UNCHANGED <<variants, categories, reservations>>
      /\ \E S : ProductsWritten(S)
    BY WithdrawWrites, TrashWrites, RestoreWrites, MoveWrites
<1>2. PICK S : ProductsWritten(S)
    BY <1>1
<1> QED
    BY <1>1, <1>2, EndsAtOnce, NamesOfWritten

\* Rows of products with the SKUs they had, and one variant written with the SKU and the
\* product it had.
LEMMA NamesOfVariant ==
    ASSUME NamesInv, EditsEnd, NEW S, ProductsWritten(S), NEW v \in VariantIds, NEW new, VariantWritten(v, new),
           variants[v] \in Shop!VariantRow, new.product = variants[v].product, new.sku = variants[v].sku,
           UNCHANGED <<categories, reservations>>
    PROVE  NamesInv'
<1>1. RowsTyped'
    BY TypedRows DEF RowsTyped, ProductsWritten, VariantWritten
<1>2. \A p \in ProductIds : /\ (products'[p] = Shop!None) <=> (products[p] = Shop!None)
                            /\ products[p] # Shop!None => products'[p].sku = products[p].sku
    BY ProductShape DEF ProductsWritten
<1>3. \A w \in VariantIds :
        /\ (variants'[w] = Shop!None) <=> (variants[w] = Shop!None)
        /\ variants[w] # Shop!None => variants'[w].sku = variants[w].sku /\ variants'[w].product = variants[w].product
    BY VariantShape DEF VariantWritten
<1>4. SameNames
    BY <1>2, <1>3 DEF SameNames
<1> QED
    BY <1>1, <1>4, NothingReserved

LEMMA SellNames == ASSUME ShopAssumption, NamesInv, Shop!SellVariant PROVE NamesInv'
<1>1. EditsEnd /\ UNCHANGED <<products, categories, reservations>>
    BY SellWrites
<1>2. PICK v \in VariantIds : \E new :
        /\ variants[v] \in Shop!VariantRow /\ VariantWritten(v, new)
        /\ VariantIs(new, variants[v].product, variants[v].sku, variants[v].stock - 1, variants[v].active, variants[v].deleted)
    BY SellWrites
<1>3. PICK new :
        /\ variants[v] \in Shop!VariantRow /\ VariantWritten(v, new)
        /\ VariantIs(new, variants[v].product, variants[v].sku, variants[v].stock - 1, variants[v].active, variants[v].deleted)
    BY <1>2
<1>4. ProductsWritten({})
    BY <1>1, TypedRows DEF RowsTyped, ProductsWritten
<1>5. new.product = variants[v].product /\ new.sku = variants[v].sku
    BY <1>3 DEF VariantIs
<1> QED
    BY <1>1, <1>3, <1>4, <1>5, NamesOfVariant

LEMMA RetireNames == ASSUME ShopAssumption, NamesInv, NEW a \in Admins, Shop!DeleteVariant(a) PROVE NamesInv'
<1>1. Shop!Respond(a) /\ UNCHANGED <<categories, reservations>>
    BY RetireWrites
<1>2. PICK v \in VariantIds : \E new, vs :
        /\ variants[v] \in Shop!VariantRow /\ VariantWritten(v, new)
        /\ VariantIs(new, variants[v].product, variants[v].sku, variants[v].stock, variants[v].active, TRUE)
        /\ vs = variants' /\ products' = Shop!RefreshVariantProductAggregates(vs, variants[v].product)
    BY RetireWrites
<1>3. PICK new, vs :
        /\ variants[v] \in Shop!VariantRow /\ VariantWritten(v, new)
        /\ VariantIs(new, variants[v].product, variants[v].sku, variants[v].stock, variants[v].active, TRUE)
        /\ vs = variants' /\ products' = Shop!RefreshVariantProductAggregates(vs, variants[v].product)
    BY <1>2
<1>4. vs \in [VariantIds -> Shop!VariantRow \cup {Shop!None}] /\ variants[v].product \in ProductIds
    BY <1>3, VariantShape DEF VariantWritten
<1>5. PICK p \in ProductIds : p = variants[v].product
    BY <1>4
<1>6. products' = Shop!RefreshVariantProductAggregates(vs, p)
    BY <1>3, <1>5
<1>7. PICK S \in SUBSET {p} : ProductsWritten(S)
    BY <1>4, <1>6, RefreshWrites
<1>8. new.product = variants[v].product /\ new.sku = variants[v].sku
    BY <1>3 DEF VariantIs
<1>9. EditsEnd
    BY <1>1, EndsByResponse
<1> QED
    BY <1>1, <1>3, <1>7, <1>8, <1>9, NamesOfVariant

LEMMA CategoryNames ==
    ASSUME ShopAssumption, NamesInv,
           Shop!UpdateCategoryStatus \/ Shop!RestoreCategory \/ \E a \in Admins : Shop!DeleteCategory(a)
    PROVE  NamesInv'
<1>1. categories \in [CategoryIds -> Shop!CategoryRow]
    BY TypedRows DEF RowsTyped
<1>2. /\ categories' \in [CategoryIds -> Shop!CategoryRow] /\ EditsEnd
      /\ UNCHANGED <<products, variants, reservations>>
  <2>1. CASE Shop!UpdateCategoryStatus
    <3>1. PICK c \in CategoryIds : /\ categories' = [categories EXCEPT ![c].active = ~@]
                                   /\ Shop!AtOnce /\ UNCHANGED <<products, variants, reservations>>
      BY <2>1 DEF Shop!UpdateCategoryStatus
    <3>2. PICK row \in Shop!CategoryRow : row = categories[c]
      BY <1>1
    <3>3. [row EXCEPT !.active = ~@] \in Shop!CategoryRow
      BY DEF Shop!CategoryRow
    <3>4. PICK new \in Shop!CategoryRow : new = [row EXCEPT !.active = ~@]
      BY <3>3
    <3>5. categories' = [categories EXCEPT ![c] = new]
      BY <3>1, <3>2, <3>4, Zenon
    <3> QED
      BY <1>1, <3>1, <3>5, EndsAtOnce
  <2>2. CASE Shop!RestoreCategory
    <3>1. [active |-> FALSE, deleted |-> FALSE] \in Shop!CategoryRow
      BY DEF Shop!CategoryRow
    <3>2. PICK new \in Shop!CategoryRow : new = [active |-> FALSE, deleted |-> FALSE]
      BY <3>1
    <3>3. PICK c \in CategoryIds : /\ categories' = [categories EXCEPT ![c] = new]
                                   /\ Shop!AtOnce /\ UNCHANGED <<products, variants, reservations>>
      BY <2>2, <3>2 DEF Shop!RestoreCategory
    <3> QED
      BY <1>1, <3>3, EndsAtOnce
  <2>3. CASE \E a \in Admins : Shop!DeleteCategory(a)
    <3>1. PICK a \in Admins : Shop!DeleteCategory(a)
      BY <2>3
    <3>2. PICK q \in EditRequest : q = editing[a]
      BY TypedRows
    <3>3. /\ q.op = "deleteCategory" /\ categories' = [categories EXCEPT ![q.category].deleted = TRUE]
          /\ Shop!Respond(a) /\ UNCHANGED <<products, variants, reservations>>
      BY <3>1, <3>2, Zenon DEF Shop!DeleteCategory
    <3>4. PICK c \in CategoryIds : c = q.category
      BY <3>3, EditRequestShape
    <3>5. PICK row \in Shop!CategoryRow : row = categories[c]
      BY <1>1
    <3>6. [row EXCEPT !.deleted = TRUE] \in Shop!CategoryRow
      BY DEF Shop!CategoryRow
    <3>7. PICK new \in Shop!CategoryRow : new = [row EXCEPT !.deleted = TRUE]
      BY <3>6
    <3>8. categories' = [categories EXCEPT ![c] = new]
      BY <3>3, <3>4, <3>5, <3>7, Zenon
    <3> QED
      BY <1>1, <3>3, <3>8, EndsByResponse
  <2> QED
    BY <2>1, <2>2, <2>3
<1>3. RowsTyped' /\ SameNames
    BY <1>2, TypedRows DEF RowsTyped, SameNames
<1> QED
    BY <1>2, <1>3, NothingReserved

-----------------------------------------------------------------------------
(* Names: the steps that reserve SKUs                                        *)

LEMMA UpdateNames == ASSUME ShopAssumption, NamesInv, NEW a \in Admins, Shop!UpdateProduct(a) PROVE NamesInv'
<1>1. CASE Shop!Fail(a)
    BY <1>1, NamesFail
<1>2. CASE ~Shop!Fail(a)
  <2>1. Shop!Respond(a) /\ UNCHANGED <<variants, categories>>
    BY <1>2, UpdateWrites
  <2>2. PICK p \in ProductIds, c \in CategoryIds, s \in Shop!AllSkus : \E new, ps :
            /\ products[p] \in Shop!ProductRow /\ ProductWritten(p, new)
            /\ ProductIs(new, c, s, products[p].status, products[p].has_variants, products[p].stock,
                         products[p].display_order, products[p].deleted)
            /\ (s \in Skus \/ s = products[p].sku) /\ Reserved(s, Shop!AsProduct(p))
    BY <1>2, UpdateWrites
  <2>3. PICK new :
            /\ products[p] \in Shop!ProductRow /\ ProductWritten(p, new) /\ new.sku = s
            /\ (s \in Skus \/ s = products[p].sku) /\ Reserved(s, Shop!AsProduct(p))
    BY <2>2 DEF ProductIs
  <2>4. PICK owner \in Shop!Owner : owner = Shop!AsProduct(p)
    BY SkuShape
  <2>5. s = products[p].sku => reservations[s] = owner
    BY <2>3, <2>4, ProductShape DEF NamesInv, Shop!SkuOwned, Shop!IsSkuReservedBy
  <2>6. reservations[s] \in {Shop!None, owner} /\ reservations' = [reservations EXCEPT ![s] = owner]
    BY <2>3, <2>4 DEF Reserved
  <2>7. s \in Skus \/ reservations[s] = owner
    BY <2>3, <2>5
  <2>8. ReservationsTyped' /\ NeverForgets /\ OwnNames' /\ reservations'[s] = owner
    BY <2>6, <2>7, SkuTaken
  <2>9. RowsTyped' /\ EditsEnd
    BY <2>1, <2>3, TypedRows, EndsByResponse DEF RowsTyped, ProductWritten
  <2>10. RowsStay /\ RowsNamed
    BY <2>1, <2>3, <2>4, <2>8, ProductShape DEF RowsStay, RowsNamed, ProductWritten
  <2>11. NumberedInOrder' /\ VariantsBelong'
    <3>1. NumberedInOrder'
      BY <2>1 DEF NamesInv, NumberedInOrder
    <3>2. VariantsBelong'
      <4> SUFFICES ASSUME NEW v \in VariantIds, variants[v] # Shop!None PROVE products'[variants[v].product] # Shop!None
        BY <2>1 DEF VariantsBelong
      <4>1. variants[v].product \in ProductIds /\ products[variants[v].product] # Shop!None
        BY ExistingRow DEF NamesInv, VariantsBelong
      <4> QED
        BY <4>1, <2>10 DEF RowsStay
    <3> QED
      BY <3>1, <3>2
  <2> QED
    BY <2>8, <2>9, <2>10, <2>11, NamesKept
<1> QED
    BY <1>1, <1>2

\* One variant is written with a SKU that is reserved for it; either it was there, or it is
\* the next one of a product that is.
LEMMA NamesOfReserved ==
    ASSUME ShopAssumption, NamesInv, EditsEnd, NEW S, ProductsWritten(S), NEW v \in VariantIds, NEW new, VariantWritten(v, new),
           NEW s \in Shop!AllSkus, new.sku = s, Reserved(s, Shop!AsVariant(v)),
           s \in Skus \/ (variants[v] \in Shop!VariantRow /\ variants[v].sku = s),
           \/ variants[v] \in Shop!VariantRow /\ new.product = variants[v].product
           \/ v = Shop!FreshVariant /\ variants[v] = Shop!None /\ products[new.product] # Shop!None,
           UNCHANGED categories
    PROVE  NamesInv'
<1>1. PICK owner \in Shop!Owner : owner = Shop!AsVariant(v)
    BY SkuShape
<1>2. reservations[s] \in {Shop!None, owner} /\ reservations' = [reservations EXCEPT ![s] = owner]
    BY <1>1 DEF Reserved
<1>3. variants[v] \in Shop!VariantRow /\ variants[v].sku = s => reservations[s] = owner
    BY <1>1, VariantShape DEF NamesInv, Shop!SkuOwned, Shop!IsSkuReservedBy
<1>4. ReservationsTyped' /\ NeverForgets /\ OwnNames' /\ reservations'[s] = owner
    BY <1>2, <1>3, SkuTaken
<1>5. RowsTyped'
    BY TypedRows DEF RowsTyped, ProductsWritten, VariantWritten
<1>6. \A p \in ProductIds : /\ (products'[p] = Shop!None) <=> (products[p] = Shop!None)
                            /\ products[p] # Shop!None => products'[p].sku = products[p].sku
    BY ProductShape DEF ProductsWritten
<1>7. /\ \A w \in VariantIds \ {v} : variants'[w] = variants[w]
      /\ variants'[v] = new /\ new # Shop!None /\ new.product \in ProductIds
    BY VariantShape DEF VariantWritten
<1>8. RowsStay
    BY <1>6, <1>7 DEF RowsStay
<1>9. RowsNamed
    BY <1>1, <1>4, <1>6, <1>7 DEF RowsNamed
<1>10. VariantsBelong'
  <2> SUFFICES ASSUME NEW w \in VariantIds, variants'[w] # Shop!None PROVE products'[variants'[w].product] # Shop!None
    BY DEF VariantsBelong
  <2>1. variants'[w].product \in ProductIds /\ products[variants'[w].product] # Shop!None
    <3>1. CASE w # v
      BY <1>7, <3>1, ExistingRow DEF NamesInv, VariantsBelong
    <3>2. CASE w = v /\ variants[v] \in Shop!VariantRow /\ new.product = variants[v].product
      BY <1>7, <3>2, VariantShape DEF NamesInv, VariantsBelong
    <3>3. CASE w = v /\ products[new.product] # Shop!None
      BY <1>7, <3>3
    <3> QED
      BY <3>1, <3>2, <3>3
  <2> QED
    BY <1>8, <2>1 DEF RowsStay
<1>11. NumberedInOrder'
  <2> SUFFICES ASSUME NEW u \in VariantIds, NEW w \in VariantIds, u < w, variants'[w] # Shop!None PROVE variants'[u] # Shop!None
    BY DEF NumberedInOrder
  <2>1. CASE w = v /\ variants[v] = Shop!None
    <3>1. w = Shop!FreshVariant
      BY <2>1, VariantShape
    <3>2. variants[u] # Shop!None
      BY <2>1, <3>1, FreshVariantIs
    <3> QED
      BY <1>8, <3>2 DEF RowsStay
  <2>2. CASE w # v \/ variants[v] # Shop!None
    <3>1. variants[w] # Shop!None
      BY <1>7, <2>2
    <3>2. variants[u] # Shop!None
      BY <3>1 DEF NamesInv, NumberedInOrder
    <3> QED
      BY <1>8, <3>2 DEF RowsStay
  <2> QED
    BY <2>1, <2>2
<1> QED
    BY <1>4, <1>5, <1>8, <1>9, <1>10, <1>11, NamesKept

LEMMA UpdateVariantNames == ASSUME ShopAssumption, NamesInv, NEW a \in Admins, Shop!UpdateVariant(a) PROVE NamesInv'
<1>1. CASE Shop!Fail(a)
    BY <1>1, NamesFail
<1>2. CASE ~Shop!Fail(a)
  <2>1. Shop!Respond(a) /\ UNCHANGED categories
    BY <1>2, UpdateVariantWrites
  <2>2. PICK v \in VariantIds, s \in Shop!AllSkus, n \in 0..MaxVariantStock, on \in BOOLEAN : \E new, vs :
            /\ variants[v] \in Shop!VariantRow /\ VariantWritten(v, new) /\ vs = variants'
            /\ VariantIs(new, variants[v].product, s, n, on, variants[v].deleted)
            /\ (s \in Skus \/ s = variants[v].sku) /\ Reserved(s, Shop!AsVariant(v))
            /\ products' = Shop!RefreshVariantProductAggregates(vs, variants[v].product)
    BY <1>2, UpdateVariantWrites
  <2>3. PICK new, vs :
            /\ variants[v] \in Shop!VariantRow /\ VariantWritten(v, new) /\ vs = variants'
            /\ VariantIs(new, variants[v].product, s, n, on, variants[v].deleted)
            /\ (s \in Skus \/ s = variants[v].sku) /\ Reserved(s, Shop!AsVariant(v))
            /\ products' = Shop!RefreshVariantProductAggregates(vs, variants[v].product)
    BY <2>2
  <2>4. vs \in [VariantIds -> Shop!VariantRow \cup {Shop!None}] /\ variants[v].product \in ProductIds
    BY <2>3, VariantShape DEF VariantWritten
  <2>5. PICK p \in ProductIds : p = variants[v].product
    BY <2>4
  <2>6. products' = Shop!RefreshVariantProductAggregates(vs, p)
    BY <2>3, <2>5
  <2>7. PICK S \in SUBSET {p} : ProductsWritten(S)
    BY <2>4, <2>6, RefreshWrites
  <2>8. new.product = variants[v].product /\ new.sku = s
    BY <2>3 DEF VariantIs
  <2>9. EditsEnd
    BY <2>1, EndsByResponse
  <2>10. VariantWritten(v, new) /\ Reserved(s, Shop!AsVariant(v)) /\ variants[v] \in Shop!VariantRow
    BY <2>3
  <2>11. s \in Skus \/ (variants[v] \in Shop!VariantRow /\ variants[v].sku = s)
    BY <2>3
  <2> QED
    BY <2>1, <2>7, <2>8, <2>9, <2>10, <2>11, NamesOfReserved
<1> QED
    BY <1>1, <1>2

LEMMA CreateVariantNames == ASSUME ShopAssumption, NamesInv, Shop!CreateVariant PROVE NamesInv'
<1>1. Shop!AtOnce /\ UNCHANGED categories
    BY CreateVariantWrites
<1>2. PICK v \in VariantIds, p \in ProductIds, s \in Skus, on \in BOOLEAN : \E new, vs :
        /\ v = Shop!FreshVariant /\ variants[v] = Shop!None /\ VariantWritten(v, new) /\ vs = variants'
        /\ VariantIs(new, p, s, MaxVariantStock, on, FALSE)
        /\ Shop!Live(p) /\ Reserved(s, Shop!AsVariant(v))
        /\ products' = Shop!RefreshVariantProductAggregates(vs, p)
    BY CreateVariantWrites
<1>3. PICK new, vs :
        /\ v = Shop!FreshVariant /\ variants[v] = Shop!None /\ VariantWritten(v, new) /\ vs = variants'
        /\ VariantIs(new, p, s, MaxVariantStock, on, FALSE)
        /\ Shop!Live(p) /\ Reserved(s, Shop!AsVariant(v))
        /\ products' = Shop!RefreshVariantProductAggregates(vs, p)
    BY <1>2
<1>4. vs \in [VariantIds -> Shop!VariantRow \cup {Shop!None}]
    BY <1>3 DEF VariantWritten
<1>5. PICK S \in SUBSET {p} : ProductsWritten(S)
    BY <1>3, <1>4, RefreshWrites
<1>6. new.product = p /\ new.sku = s /\ products[p] # Shop!None
    BY <1>3 DEF VariantIs, Shop!Live
<1>7. EditsEnd /\ s \in Shop!AllSkus
    BY <1>1, EndsAtOnce, SkuShape
<1>8. /\ v = Shop!FreshVariant /\ variants[v] = Shop!None /\ VariantWritten(v, new)
      /\ Reserved(s, Shop!AsVariant(v)) /\ products[new.product] # Shop!None
    BY <1>3, <1>6
<1> QED
    BY <1>1, <1>5, <1>6, <1>7, <1>8, NamesOfReserved

-----------------------------------------------------------------------------
(* Names: the steps that make products                                       *)

LEMMA CreateNames == ASSUME ShopAssumption, NamesInv, NEW a \in Admins, Shop!CreateProduct(a) PROVE NamesInv'
<1>1. CASE Shop!Fail(a)
    BY <1>1, NamesFail
<1>2. CASE ~Shop!Fail(a)
  <2>1. editing[a].op = "create" /\ Shop!Respond(a) /\ UNCHANGED categories
    BY <1>2, CreateWrites
  <2>2. PICK p \in ProductIds, q \in EditRequest, variantful \in BOOLEAN : \E v, new, ps, vs :
            /\ q = editing[a] /\ v = Shop!FreshVariant /\ ps = products' /\ vs = variants'
            /\ products[p] = Shop!None /\ ProductWritten(p, new)
            /\ variantful = (q.variantSkus # {})
            /\ ProductIs(new, q.category, q.sku, q.status, variantful, Shop!CachedStock(vs, p),
                         Shop!NextWebsitePosition, FALSE)
            /\ variantful => /\ v \in VariantIds /\ variants[v] = Shop!None
                             /\ \E t \in q.variantSkus, row \in Shop!VariantRow :
                                    VariantWritten(v, row) /\ VariantIs(row, p, t, MaxVariantStock, TRUE, FALSE)
            /\ ~variantful => UNCHANGED variants
            /\ reservations[q.sku] \in {Shop!None, Shop!AsProduct(p)}
            /\ \A s \in q.variantSkus : reservations[s] \in {Shop!None, Shop!AsVariant(v)}
            /\ reservations' = [s \in Shop!AllSkus |->
                                   IF s = q.sku THEN Shop!AsProduct(p)
                                   ELSE IF s \in q.variantSkus THEN Shop!AsVariant(v) ELSE reservations[s]]
            /\ q.status = "active" => Shop!ValidateProductActivationReadiness(ps, vs, p)
    BY <1>2, CreateWrites
  <2>20. PICK v, new, ps, vs :
            /\ q = editing[a] /\ v = Shop!FreshVariant /\ ps = products' /\ vs = variants'
            /\ products[p] = Shop!None /\ ProductWritten(p, new)
            /\ variantful = (q.variantSkus # {})
            /\ ProductIs(new, q.category, q.sku, q.status, variantful, Shop!CachedStock(vs, p),
                         Shop!NextWebsitePosition, FALSE)
            /\ variantful => /\ v \in VariantIds /\ variants[v] = Shop!None
                             /\ \E t \in q.variantSkus, row \in Shop!VariantRow :
                                    VariantWritten(v, row) /\ VariantIs(row, p, t, MaxVariantStock, TRUE, FALSE)
            /\ ~variantful => UNCHANGED variants
            /\ reservations[q.sku] \in {Shop!None, Shop!AsProduct(p)}
            /\ \A s \in q.variantSkus : reservations[s] \in {Shop!None, Shop!AsVariant(v)}
            /\ reservations' = [s \in Shop!AllSkus |->
                                   IF s = q.sku THEN Shop!AsProduct(p)
                                   ELSE IF s \in q.variantSkus THEN Shop!AsVariant(v) ELSE reservations[s]]
            /\ q.status = "active" => Shop!ValidateProductActivationReadiness(ps, vs, p)
    BY <2>2
  <2>3. /\ q = editing[a] /\ v = Shop!FreshVariant
        /\ products[p] = Shop!None /\ ProductWritten(p, new) /\ new.sku = q.sku
        /\ variantful = (q.variantSkus # {})
        /\ variantful => /\ v \in VariantIds /\ variants[v] = Shop!None
                         /\ \E t \in q.variantSkus, row \in Shop!VariantRow :
                                VariantWritten(v, row) /\ VariantIs(row, p, t, MaxVariantStock, TRUE, FALSE)
        /\ ~variantful => UNCHANGED variants
        /\ reservations[q.sku] \in {Shop!None, Shop!AsProduct(p)}
        /\ \A s \in q.variantSkus : reservations[s] \in {Shop!None, Shop!AsVariant(v)}
        /\ reservations' = [s \in Shop!AllSkus |->
                               IF s = q.sku THEN Shop!AsProduct(p)
                               ELSE IF s \in q.variantSkus THEN Shop!AsVariant(v) ELSE reservations[s]]
    BY <2>20, Zenon DEF ProductIs
  <2>4. q.sku \in Skus /\ q.variantSkus \in SUBSET Skus /\ q.sku \notin q.variantSkus
    <3>1. EditRefers(q)
      BY <2>3 DEF NamesInv
    <3> QED
      BY <2>1, <2>3, <3>1, EditRequestShape DEF EditRefers
  <2>5. PICK mine \in Shop!Owner : mine = Shop!AsProduct(p)
    BY SkuShape
  <2>6. PICK its : its = Shop!AsVariant(v) /\ (q.variantSkus # {} => its \in Shop!Owner)
    BY <2>3, SkuShape
  <2>7. /\ reservations' = [s \in Shop!AllSkus |-> IF s = q.sku THEN mine ELSE IF s \in q.variantSkus THEN its ELSE reservations[s]]
        /\ reservations[q.sku] \in {Shop!None, mine} /\ \A s \in q.variantSkus : reservations[s] \in {Shop!None, its}
    BY <2>3, <2>5, <2>6
  <2>8. ReservationsTyped' /\ NeverForgets
    BY <2>5, <2>6, <2>7, TypedRows DEF ReservationsTyped, NeverForgets
  <2>9. OwnNames'
    <3>1. ASSUME NEW i \in ProductIds \cup VariantIds
          PROVE  /\ reservations'[[kind |-> "product", id |-> i]] = reservations[[kind |-> "product", id |-> i]]
                 /\ reservations'[[kind |-> "variant", id |-> i]] = reservations[[kind |-> "variant", id |-> i]]
      BY <2>4, <2>7, TypedSkuApart, SkuShape
    <3> QED
      BY <3>1 DEF NamesInv, OwnNames
  <2>10. \A r \in ProductIds : products[r] # Shop!None => products'[r] = products[r]
    BY <2>3 DEF ProductWritten
  <2>11. products'[p] = new /\ new # Shop!None /\ reservations'[new.sku] = mine
    BY <2>3, <2>4, <2>7, SkuShape, ProductShape DEF ProductWritten
  <2>12. \A r \in ProductIds : products'[r] # Shop!None => r = p \/ (products[r] # Shop!None /\ products'[r] = products[r])
    BY <2>3 DEF ProductWritten
  <2>13. CASE variantful = FALSE
    <3>1. UNCHANGED variants
      BY <2>3, <2>13
    <3>2. RowsTyped' /\ EditsEnd
      BY <2>1, <2>3, <3>1, TypedRows, EndsByResponse DEF RowsTyped, ProductWritten
    <3>3. RowsStay
      BY <3>1, <2>10 DEF RowsStay
    <3>4. RowsNamed
      BY <2>5, <2>11, <2>12, <3>1 DEF RowsNamed
    <3>5. NumberedInOrder'
      BY <3>1 DEF NamesInv, NumberedInOrder
    <3>6. VariantsBelong'
      BY <3>1, <2>10, ExistingRow DEF NamesInv, VariantsBelong
    <3> QED
      BY <2>8, <2>9, <3>2, <3>3, <3>4, <3>5, <3>6, NamesKept
  <2>14. CASE variantful = TRUE
    <3>1. v \in VariantIds /\ variants[v] = Shop!None /\ v = Shop!FreshVariant
      BY <2>3, <2>14
    <3>2. PICK t \in q.variantSkus, row \in Shop!VariantRow :
              VariantWritten(v, row) /\ VariantIs(row, p, t, MaxVariantStock, TRUE, FALSE)
      BY <2>3, <2>14
    <3>3. row.product = p /\ row.sku = t
      BY <3>2 DEF VariantIs
    <3>4. t # q.sku /\ t \in Shop!AllSkus
      BY <2>4, SkuShape
    <3>5. reservations'[t] = its
      BY <2>7, <3>4
    <3>6. /\ variants'[v] = row /\ row # Shop!None
          /\ \A w \in VariantIds : w # v => variants'[w] = variants[w]
      BY <3>2, VariantShape DEF VariantWritten
    <3>7. RowsTyped' /\ EditsEnd
      BY <2>1, <2>3, <3>2, TypedRows, EndsByResponse DEF RowsTyped, ProductWritten, VariantWritten
    <3>8. RowsStay
      BY <3>1, <3>6, <2>10 DEF RowsStay
    <3>9. RowsNamed
      BY <2>5, <2>6, <2>11, <2>12, <3>3, <3>5, <3>6 DEF RowsNamed
    <3>10. NumberedInOrder'
      <4> SUFFICES ASSUME NEW u \in VariantIds, NEW w \in VariantIds, u < w, variants'[w] # Shop!None PROVE variants'[u] # Shop!None
        BY DEF NumberedInOrder
      <4>1. CASE w = v
        <5>1. variants[u] # Shop!None
          BY <3>1, <4>1, FreshVariantIs
        <5> QED
          BY <3>8, <5>1 DEF RowsStay
      <4>2. CASE w # v
        <5>1. variants[u] # Shop!None
          BY <3>6, <4>2 DEF NamesInv, NumberedInOrder
        <5> QED
          BY <3>8, <5>1 DEF RowsStay
      <4> QED
        BY <4>1, <4>2
    <3>11. VariantsBelong'
      <4> SUFFICES ASSUME NEW w \in VariantIds, variants'[w] # Shop!None PROVE products'[variants'[w].product] # Shop!None
        BY DEF VariantsBelong
      <4>1. CASE w = v
        BY <2>11, <3>3, <3>6, <4>1
      <4>2. CASE w # v
        BY <3>6, <4>2, <2>10, ExistingRow DEF NamesInv, VariantsBelong
      <4> QED
        BY <4>1, <4>2
    <3> QED
      BY <2>8, <2>9, <3>7, <3>8, <3>9, <3>10, <3>11, NamesKept
  <2> QED
    BY <2>13, <2>14
<1> QED
    BY <1>1, <1>2

LEMMA CopyNames == ASSUME ShopAssumption, NamesInv, NEW a \in Admins, Shop!DuplicateProduct(a) PROVE NamesInv'
<1>1. Shop!Respond(a) /\ UNCHANGED categories
    BY CopyWrites
<1>2. PICK p \in ProductIds, made \in SUBSET VariantIds : \E new, from :
        /\ products[p] = Shop!None /\ ProductWritten(p, new) /\ from = editing[a].source
        /\ ProductIs(new, products[from].category, [kind |-> "product", id |-> p], "draft",
                     products[from].has_variants, 0, Shop!NextWebsitePosition, FALSE)
        /\ variants' \in [VariantIds -> Shop!VariantRow \cup {Shop!None}]
        /\ \A w \in VariantIds \ made : variants'[w] = variants[w]
        /\ \A w \in made : /\ variants[w] = Shop!None /\ variants'[w] \in Shop!VariantRow
                           /\ \E on \in BOOLEAN :
                                  VariantIs(variants'[w], p, [kind |-> "variant", id |-> w], 0, on, FALSE)
        /\ \A w \in made, u \in VariantIds : u < w /\ variants[u] = Shop!None => u \in made
        /\ ReservationsTyped'
        /\ reservations'[[kind |-> "product", id |-> p]] = Shop!AsProduct(p)
        /\ \A w \in made : reservations'[[kind |-> "variant", id |-> w]] = Shop!AsVariant(w)
        /\ \A s \in Shop!AllSkus :
               s # [kind |-> "product", id |-> p] /\ (\A w \in made : s # [kind |-> "variant", id |-> w])
                   => reservations'[s] = reservations[s]
    BY CopyWrites
<1>20. PICK new, from :
        /\ products[p] = Shop!None /\ ProductWritten(p, new) /\ from = editing[a].source
        /\ ProductIs(new, products[from].category, [kind |-> "product", id |-> p], "draft",
                     products[from].has_variants, 0, Shop!NextWebsitePosition, FALSE)
        /\ variants' \in [VariantIds -> Shop!VariantRow \cup {Shop!None}]
        /\ \A w \in VariantIds \ made : variants'[w] = variants[w]
        /\ \A w \in made : /\ variants[w] = Shop!None /\ variants'[w] \in Shop!VariantRow
                           /\ \E on \in BOOLEAN :
                                  VariantIs(variants'[w], p, [kind |-> "variant", id |-> w], 0, on, FALSE)
        /\ \A w \in made, u \in VariantIds : u < w /\ variants[u] = Shop!None => u \in made
        /\ ReservationsTyped'
        /\ reservations'[[kind |-> "product", id |-> p]] = Shop!AsProduct(p)
        /\ \A w \in made : reservations'[[kind |-> "variant", id |-> w]] = Shop!AsVariant(w)
        /\ \A s \in Shop!AllSkus :
               s # [kind |-> "product", id |-> p] /\ (\A w \in made : s # [kind |-> "variant", id |-> w])
                   => reservations'[s] = reservations[s]
    BY <1>2
<1>3. products[p] = Shop!None /\ ProductWritten(p, new) /\ new.sku = [kind |-> "product", id |-> p]
    BY <1>20 DEF ProductIs
<1>4. /\ variants' \in [VariantIds -> Shop!VariantRow \cup {Shop!None}]
      /\ \A w \in VariantIds \ made : variants'[w] = variants[w]
      /\ \A w \in made : /\ variants[w] = Shop!None /\ variants'[w] \in Shop!VariantRow
                         /\ variants'[w].product = p /\ variants'[w].sku = [kind |-> "variant", id |-> w]
      /\ \A w \in made, u \in VariantIds : u < w /\ variants[u] = Shop!None => u \in made
    BY <1>20 DEF VariantIs
<1>5. /\ ReservationsTyped'
      /\ reservations'[[kind |-> "product", id |-> p]] = Shop!AsProduct(p)
      /\ \A w \in made : reservations'[[kind |-> "variant", id |-> w]] = Shop!AsVariant(w)
      /\ \A s \in Shop!AllSkus :
             s # [kind |-> "product", id |-> p] /\ (\A w \in made : s # [kind |-> "variant", id |-> w])
                 => reservations'[s] = reservations[s]
    BY <1>20
<1>6. OwnNames
    BY DEF NamesInv
<1>7. NeverForgets
  <2> SUFFICES ASSUME NEW s \in Shop!AllSkus, reservations[s] # Shop!None PROVE reservations'[s] = reservations[s]
    BY DEF NeverForgets
  <2>1. CASE s = [kind |-> "product", id |-> p]
    BY <1>5, <1>6, <2>1 DEF OwnNames
  <2>2. CASE \E w \in made : s = [kind |-> "variant", id |-> w]
    BY <1>5, <1>6, <2>2 DEF OwnNames
  <2> QED
    BY <1>5, <2>1, <2>2
<1>8. OwnNames'
  <2> SUFFICES ASSUME NEW i \in ProductIds \cup VariantIds
               PROVE  /\ reservations'[[kind |-> "product", id |-> i]] \in {Shop!None, Shop!AsProduct(i)}
                      /\ reservations'[[kind |-> "variant", id |-> i]] \in {Shop!None, Shop!AsVariant(i)}
    BY DEF OwnNames
  <2>1. /\ reservations[[kind |-> "product", id |-> i]] \in {Shop!None, Shop!AsProduct(i)}
        /\ reservations[[kind |-> "variant", id |-> i]] \in {Shop!None, Shop!AsVariant(i)}
        /\ [kind |-> "product", id |-> i] \in Shop!AllSkus /\ [kind |-> "variant", id |-> i] \in Shop!AllSkus
    BY <1>6, SkuShape DEF OwnNames
  <2>2. \A j : [kind |-> "product", id |-> i] # [kind |-> "variant", id |-> j]
    OBVIOUS
  <2>3. \A j : [kind |-> "product", id |-> i] = [kind |-> "product", id |-> j] => i = j
    OBVIOUS
  <2>4. \A j : [kind |-> "variant", id |-> i] = [kind |-> "variant", id |-> j] => i = j
    OBVIOUS
  <2>5. reservations'[[kind |-> "product", id |-> i]] \in {Shop!None, Shop!AsProduct(i)}
    <3>1. CASE i = p
      BY <1>5, <3>1
    <3>2. CASE i # p
      BY <1>5, <2>1, <2>2, <2>3, <3>2
    <3> QED
      BY <3>1, <3>2
  <2>6. reservations'[[kind |-> "variant", id |-> i]] \in {Shop!None, Shop!AsVariant(i)}
    <3>1. CASE i \in made
      BY <1>5, <3>1
    <3>2. CASE i \notin made
      BY <1>5, <2>1, <2>4, <3>2
    <3> QED
      BY <3>1, <3>2
  <2> QED
    BY <2>5, <2>6
<1>9. RowsTyped' /\ EditsEnd
    BY <1>1, <1>3, <1>4, TypedRows, EndsByResponse DEF RowsTyped, ProductWritten
<1>10. /\ products'[p] = new /\ new # Shop!None
       /\ \A r \in ProductIds : r # p => products'[r] = products[r]
    BY <1>3, ProductShape DEF ProductWritten
<1>11. RowsStay
    BY <1>3, <1>4, <1>10 DEF RowsStay
<1>12. RowsNamed
    BY <1>3, <1>4, <1>5, <1>10 DEF RowsNamed
<1>13. NumberedInOrder'
  <2> SUFFICES ASSUME NEW u \in VariantIds, NEW w \in VariantIds, u < w, variants'[w] # Shop!None PROVE variants'[u] # Shop!None
    BY DEF NumberedInOrder
  <2>1. variants[u] # Shop!None \/ u \in made
    BY <1>4 DEF NamesInv, NumberedInOrder
  <2> QED
    BY <1>4, <1>11, <2>1, VariantShape DEF RowsStay
<1>14. VariantsBelong'
  <2> SUFFICES ASSUME NEW w \in VariantIds, variants'[w] # Shop!None PROVE products'[variants'[w].product] # Shop!None
    BY DEF VariantsBelong
  <2>1. CASE w \in made
    BY <1>4, <1>10, <2>1
  <2>2. CASE w \notin made
    BY <1>4, <1>11, <2>2, ExistingRow DEF NamesInv, VariantsBelong, RowsStay
  <2> QED
    BY <2>1, <2>2
<1> QED
    BY <1>5, <1>7, <1>8, <1>9, <1>11, <1>12, <1>13, <1>14, NamesKept

LEMMA StepNames == ASSUME ShopAssumption, NamesInv, [Shop!Next]_(Shop!vars) PROVE NamesInv'
<1>1. CASE UNCHANGED Shop!vars
    BY <1>1 DEF Shop!vars, NamesInv, Shop!TypeOK, EditRefers, NumberedInOrder, VariantsBelong, OwnNames,
                Shop!SkuOwned, Shop!IsSkuReservedBy
<1>2. ASSUME NEW a \in Admins,
             \/ Shop!BeginCreateProduct(a) \/ Shop!BeginDuplicateProduct(a) \/ Shop!BeginPublish(a)
             \/ Shop!BeginUpdateProduct(a) \/ Shop!BeginUpdateVariant(a) \/ Shop!BeginDeleteVariant(a)
             \/ Shop!BeginDeleteCategory(a)
      PROVE  NamesInv'
  <2>1. PICK q \in EditRequest : EditRefers(q) /\ Shop!Begin(a, q)
    BY <1>2, NamesBegins
  <2> QED
    BY <2>1, NamesBegin
<1>3. ASSUME NEW a \in Admins,
             \/ Shop!CreateProduct(a) \/ Shop!DuplicateProduct(a) \/ Shop!Publish(a) \/ Shop!UpdateProduct(a)
             \/ Shop!UpdateVariant(a) \/ Shop!DeleteVariant(a) \/ Shop!DeleteCategory(a)
      PROVE  NamesInv'
    BY <1>3, CreateNames, CopyNames, PublishNames, UpdateNames, UpdateVariantNames, RetireNames, CategoryNames
<1>4. ASSUME \/ Shop!Withdraw \/ Shop!DeleteProducts \/ Shop!RestoreProduct \/ Shop!MoveWebsiteOrder
             \/ Shop!CreateVariant \/ Shop!SellVariant \/ Shop!UpdateCategoryStatus \/ Shop!RestoreCategory
      PROVE  NamesInv'
    BY <1>4, ShelfNames, CreateVariantNames, SellNames, CategoryNames
<1> QED
    BY <1>1, <1>2, <1>3, <1>4 DEF Shop!Next

\* A SKU names one product or one variant for ever, whatever administrators' requests
\* overlap: what is reserved stays reserved for its owner, every row is written together with
\* the reservation of its SKU, and the ids that end generated SKUs are only ever taken in order.
THEOREM SkuOwnedAlways == ASSUME ShopAssumption PROVE Shop!Spec => [](Shop!TypeOK /\ Shop!SkuOwned)
<1>1. Shop!Init => NamesInv
    BY InitNames
<1>2. NamesInv /\ [Shop!Next]_(Shop!vars) => NamesInv'
    BY StepNames
<1>3. NamesInv => Shop!TypeOK /\ Shop!SkuOwned
    BY DEF NamesInv
<1> QED
    BY <1>1, <1>2, <1>3, PTL DEF Shop!Spec

-----------------------------------------------------------------------------
(* Places on the shelf                                                       *)

\* A product that is on the shelf was there, at the same place.
ShelfKept ==
    \A x \in ProductIds : Shop!Live(x)' => Shop!Live(x) /\ products'[x].display_order = products[x].display_order
\* One product comes behind all the others.
ShelfExtended ==
    \E p \in ProductIds : \A x \in ProductIds : Shop!Live(x)' =>
        \/ Shop!Live(x) /\ products'[x].display_order = products[x].display_order
        \/ x = p /\ products'[x].display_order = Shop!NextWebsitePosition

LEMMA PlacesKept ==
    ASSUME ShopAssumption, NamesInv, Shop!PlacesDistinct, ShelfKept \/ ShelfExtended PROVE Shop!PlacesDistinct'
<1> SUFFICES ASSUME NEW p \in ProductIds, NEW q \in ProductIds, p # q, Shop!Live(p)', Shop!Live(q)'
             PROVE  products'[p].display_order # products'[q].display_order
    BY DEF Shop!PlacesDistinct, Shop!LiveProducts
<1>1. CASE Shop!Live(p) /\ Shop!Live(q) /\ products'[p].display_order = products[p].display_order
           /\ products'[q].display_order = products[q].display_order
    BY <1>1 DEF Shop!PlacesDistinct, Shop!LiveProducts
<1>2. ASSUME NEW x \in ProductIds, Shop!Live(x)
      PROVE  products[x].display_order # Shop!NextWebsitePosition
  <2>1. x \in Shop!LiveProducts
    BY <1>2 DEF Shop!LiveProducts
  <2>2. PICK k \in Nat : k = products[x].display_order
    BY <1>2, ExistingRow, ProductShape DEF Shop!Live
  <2>3. PICK n \in Nat : n = Shop!NextWebsitePosition
    BY NextPlace, TypedRows DEF RowsTyped
  <2>4. k < n
    BY <2>1, <2>2, <2>3, NextPlace, TypedRows DEF RowsTyped
  <2> QED
    BY <2>2, <2>3, <2>4
<1>3. CASE ShelfKept
    BY <1>1, <1>3 DEF ShelfKept
<1>4. CASE ShelfExtended
    BY <1>1, <1>2, <1>4 DEF ShelfExtended
<1> QED
    BY <1>3, <1>4

LEMMA RankGrows ==
    ASSUME ShopAssumption, NamesInv, NEW x \in Shop!LiveProducts, NEW y \in Shop!LiveProducts, Shop!Before(products, x, y)
    PROVE  Shop!Rank(x) # Shop!Rank(y)
<1>1. PICK live \in SUBSET ProductIds : live = Shop!LiveProducts
    BY DEF Shop!LiveProducts
<1>2. \A z \in live : z \in Nat /\ products[z].display_order \in Nat
    BY <1>1, ShopIds, ExistingRow, ProductShape DEF Shop!LiveProducts, Shop!Live
<1>3. PICK X \in SUBSET live : X = {z \in live : Shop!Before(products, z, x)}
    OBVIOUS
<1>4. PICK Y \in SUBSET live : Y = {z \in live : Shop!Before(products, z, y)}
    OBVIOUS
<1>5. x \in live /\ y \in live
    BY <1>1
<1>6. x \in Y /\ x \notin X
    BY <1>2, <1>3, <1>4, <1>5 DEF Shop!Before
<1>7. X \in SUBSET (Y \ {x})
  <2> SUFFICES ASSUME NEW z \in X PROVE z \in Y /\ z # x
    OBVIOUS
  <2>1. z \in live /\ Shop!Before(products, z, x)
    BY <1>3
  <2>2. Shop!Before(products, z, y)
    BY <1>2, <1>5, <2>1 DEF Shop!Before
  <2> QED
    BY <1>4, <1>6, <2>1, <2>2
<1>8. IsFiniteSet(Y) /\ IsFiniteSet(Y \ {x})
  <2>1. Y \in SUBSET ProductIds
    OBVIOUS
  <2> QED
    BY <2>1, ShopIds, FS_Subset, FS_RemoveElement
<1>9. PICK m \in Nat, n \in Nat, k \in Nat : m = Cardinality(X) /\ n = Cardinality(Y \ {x}) /\ k = Cardinality(Y)
    BY <1>7, <1>8, FS_Subset, FS_CardinalityType
<1>10. m <= n /\ n = k - 1
    BY <1>6, <1>7, <1>8, <1>9, FS_Subset, FS_RemoveElement
<1>11. Shop!Rank(x) = m + 1 /\ Shop!Rank(y) = k + 1
    BY <1>1, <1>3, <1>4, <1>9, CardinalityIs DEF Shop!Rank
<1> QED
    BY <1>10, <1>11

LEMMA RanksDistinct ==
    ASSUME ShopAssumption, NamesInv, NEW x \in Shop!LiveProducts, NEW y \in Shop!LiveProducts, x # y
    PROVE  Shop!Rank(x) # Shop!Rank(y)
<1>1. /\ x \in ProductIds /\ y \in ProductIds /\ x \in Nat /\ y \in Nat
      /\ products[x].display_order \in Nat /\ products[y].display_order \in Nat
    BY ShopIds, ExistingRow, ProductShape DEF Shop!LiveProducts, Shop!Live
<1>2. Shop!Before(products, x, y) \/ Shop!Before(products, y, x)
    BY <1>1 DEF Shop!Before
<1> QED
    BY <1>2, RankGrows

LEMMA MovePlaces ==
    ASSUME ShopAssumption, NamesInv, Shop!MoveWebsiteOrder
    PROVE  Shop!PlacesDistinct'
<1>1. PICK live : live = Shop!LiveProducts
    OBVIOUS
<1>2. PICK p, q \in live :
        \A x \in live : ProductIs(products'[x], products[x].category, products[x].sku, products[x].status,
                                  products[x].has_variants, products[x].stock, Moved(x, p, q), products[x].deleted)
    BY <1>1, MoveWrites
<1>3. \A x \in live : products'[x].display_order = Moved(x, p, q)
    BY <1>2 DEF ProductIs
<1>4. \A x \in ProductIds \ live : products'[x] = products[x]
    BY <1>1, MoveWrites DEF ProductsWritten
<1>5. \A x \in ProductIds : Shop!Live(x)' => x \in live
    BY <1>1, <1>4 DEF Shop!Live, Shop!LiveProducts
<1>6. ASSUME NEW x \in live, NEW y \in live, x # y PROVE Moved(x, p, q) # Moved(y, p, q)
  <2>1. PICK a, b, c, d : a = Shop!Rank(x) /\ b = Shop!Rank(y) /\ c = Shop!Rank(p) /\ d = Shop!Rank(q)
    OBVIOUS
  <2>2. /\ a # b /\ (x # p => a # c) /\ (x # q => a # d) /\ (y # p => b # c) /\ (y # q => b # d) /\ (p # q => c # d)
        /\ (x = p => a = c) /\ (x = q => a = d) /\ (y = p => b = c) /\ (y = q => b = d)
    BY <1>1, <1>6, <2>1, RanksDistinct
  <2>3. Moved(x, p, q) = (IF x = p THEN d ELSE IF x = q THEN c ELSE a) /\ Moved(y, p, q) = (IF y = p THEN d ELSE IF y = q THEN c ELSE b)
    BY <2>1 DEF Moved
  <2> QED
    BY <1>6, <2>2, <2>3
<1> QED
    BY <1>3, <1>5, <1>6 DEF Shop!PlacesDistinct, Shop!LiveProducts

-----------------------------------------------------------------------------
(* Sales: what steps that do not overlap keep                                *)

\* Once requests overlapped the history says so, and nothing is ever struck from it.
Unmarked == (NoOverlap' => NoOverlap) /\ (catalogueDrift' = {} => catalogueDrift = {} /\ NoOverlap')
Quiet == NoOverlap' => \A b \in Admins : editing'[b] = Shop!Idle

LEMMA CrossingMarks ==
    ASSUME NEW others, Shop!Crossing(others)
    PROVE  Unmarked /\ (NoOverlap' => \A b \in others : editing[b] = Shop!Idle)
<1> QED
    BY DEF Shop!Crossing, Unmarked, NoOverlap

LEMMA QuietResponse == ASSUME NamesInv, NEW a \in Admins, Shop!Respond(a) PROVE Unmarked /\ Quiet
<1>1. editing' = [editing EXCEPT ![a] = Shop!Idle] /\ Shop!Crossing(Admins \ {a})
    BY DEF Shop!Respond
<1>2. Unmarked /\ (NoOverlap' => \A b \in Admins \ {a} : editing[b] = Shop!Idle)
    BY <1>1, CrossingMarks
<1>3. editing'[a] = Shop!Idle /\ \A b \in Admins \ {a} : editing'[b] = editing[b]
    BY <1>1, TypedRows
<1> QED
    BY <1>2, <1>3 DEF Quiet

LEMMA QuietAtOnce == ASSUME NamesInv, Shop!AtOnce PROVE Unmarked /\ Quiet
<1>1. UNCHANGED editing /\ Shop!Crossing(Admins)
    BY DEF Shop!AtOnce
<1> QED
    BY <1>1, CrossingMarks DEF Quiet

LEMMA QuietSale == ASSUME NamesInv, Shop!SellVariant PROVE Unmarked /\ Quiet /\ catalogueDrift' # {}
<1>1. UNCHANGED editing /\ catalogueDrift' = catalogueDrift \cup {"sale"} \cup (IF Shop!Busy THEN {"overlap"} ELSE {})
    BY DEF Shop!SellVariant
<1> QED
    BY <1>1 DEF Unmarked, Quiet, NoOverlap, Shop!Busy

LEMMA SalesEnd ==
    ASSUME Quiet, Sellable', StockFollows' PROVE SalesInv'
<1>1. EditingAlone'
    BY DEF Quiet, EditingAlone
<1>2. NoOverlap' => \A a \in Admins : ReadStands(editing[a])'
    BY DEF Quiet, ReadStands, Shop!Idle
<1> QED
    BY <1>1, <1>2 DEF SalesInv

LEMMA SalesFail == ASSUME NamesInv, SalesInv, NEW a \in Admins, Shop!Fail(a) PROVE SalesInv'
<1>1. Shop!Respond(a) /\ UNCHANGED <<products, variants, categories, reservations>>
    BY DEF Shop!Fail
<1>2. Unmarked /\ Quiet
    BY <1>1, QuietResponse
<1>3. Sellable'
    BY <1>1, <1>2 DEF SalesInv, Unmarked, Sellable, Shop!LiveProducts, Shop!Live
<1>4. StockFollows'
    BY <1>1, <1>2 DEF SalesInv, Unmarked, StockFollows
<1> QED
    BY <1>2, <1>3, <1>4, SalesEnd

LEMMA SalesBegin ==
    ASSUME NamesInv, SalesInv, NEW a \in Admins, NEW q \in EditRequest, ReadStands(q), Shop!Begin(a, q)
    PROVE  SalesInv'
<1>1. /\ editing' = [editing EXCEPT ![a] = q] /\ Shop!Crossing(Admins)
      /\ UNCHANGED <<products, variants, categories, reservations>>
    BY DEF Shop!Begin
<1>2. Unmarked /\ (NoOverlap' => \A b \in Admins : editing[b] = Shop!Idle)
    BY <1>1, CrossingMarks
<1>3. editing'[a] = q /\ \A b \in Admins : b # a => editing'[b] = editing[b]
    BY <1>1, TypedRows
<1>4. EditingAlone'
    BY <1>2, <1>3 DEF EditingAlone
<1>5. NoOverlap' => \A b \in Admins : ReadStands(editing[b])'
  <2> SUFFICES ASSUME NoOverlap', NEW b \in Admins PROVE ReadStands(editing[b])'
    OBVIOUS
  <2>1. CASE b # a
    BY <1>2, <1>3, <2>1 DEF ReadStands, Shop!Idle
  <2>2. CASE b = a
    <3>1. ReadStands(q)'
      BY <1>1 DEF ReadStands, Shop!Live, Shop!ValidateProductActivationReadiness, Shop!CategoryUsable,
                  Shop!MayRetire, Shop!Uncategorised, Shop!LiveProducts
    <3> QED
      BY <1>3, <2>2, <3>1 DEF ReadStands
  <2> QED
    BY <2>1, <2>2
<1>6. Sellable'
    BY <1>1, <1>2 DEF SalesInv, Unmarked, Sellable, Shop!LiveProducts, Shop!Live
<1>7. StockFollows'
    BY <1>1, <1>2 DEF SalesInv, Unmarked, StockFollows
<1> QED
    BY <1>4, <1>5, <1>6, <1>7 DEF SalesInv

LEMMA SameStock ==
    ASSUME ShopAssumption, NEW vs, NEW vt, NEW p, Shop!ActiveIn(vs, p) = Shop!ActiveIn(vt, p),
           \A v \in Shop!ActiveIn(vs, p) : vs[v].stock = vt[v].stock
    PROVE  Shop!CachedStock(vs, p) = Shop!CachedStock(vt, p)
<1>1. PICK S \in SUBSET VariantIds : S = Shop!ActiveIn(vs, p) /\ IsFiniteSet(S)
    BY StockSummed
<1>2. PICK f, g : f = [v \in VariantIds |-> vs[v].stock] /\ g = [v \in VariantIds |-> vt[v].stock]
    OBVIOUS
<1>3. \A v \in S : f[v] = g[v]
    BY <1>1, <1>2
<1>4. Total(f, S) = Total(g, S)
    BY <1>1, <1>3, TotalSame
<1> QED
    BY <1>1, <1>2, <1>4, StockSummed

\* Of all variants, only such of P are written.
WrittenOf(vs, vt, P) ==
    \A v \in VariantIds : vt[v] = vs[v] \/ ((vs[v] = Shop!None \/ vs[v].product = P) /\ vt[v].product = P)

\* What that leaves of the other products.
LEMMA Elsewhere ==
    ASSUME ShopAssumption, NEW vs, NEW vt, NEW P, NEW p, p # P,
           WrittenOf(vs, vt, P)
    PROVE  Shop!ActiveIn(vt, p) = Shop!ActiveIn(vs, p) /\ Shop!CachedStock(vt, p) = Shop!CachedStock(vs, p)
<1>1. \A v \in VariantIds : v \in Shop!ActiveIn(vt, p) <=> v \in Shop!ActiveIn(vs, p)
    BY DEF WrittenOf, Shop!ActiveIn, Shop!VariantsIn
<1>2. Shop!ActiveIn(vt, p) = Shop!ActiveIn(vs, p)
    BY <1>1 DEF Shop!ActiveIn, Shop!VariantsIn
<1>3. \A v \in Shop!ActiveIn(vs, p) : vs[v].stock = vt[v].stock
    BY <1>2 DEF WrittenOf, Shop!ActiveIn, Shop!VariantsIn
<1> QED
    BY <1>2, <1>3, SameStock

\* Products are written, variants and categories are not: each product offers what it did, or
\* is off the shelf or not on sale, or has all that a product on sale needs.
LEMMA SalesOfProducts ==
    ASSUME ShopAssumption, NamesInv, SalesInv, Unmarked, Quiet, UNCHANGED <<variants, categories>>,
           \A x \in ProductIds : NoOverlap' /\ Shop!Live(x)' /\ products'[x].status = "active" =>
               \/ /\ Shop!Live(x) /\ products[x].status = "active"
                  /\ products'[x].category = products[x].category /\ products'[x].has_variants = products[x].has_variants
               \/ /\ ~categories[products'[x].category].deleted
                  /\ products'[x].has_variants => Shop!ActiveIn(variants, x) # {},
           \A x \in ProductIds : products'[x] # Shop!None =>
               /\ products[x] # Shop!None /\ products'[x].stock = products[x].stock
               /\ products'[x].has_variants = products[x].has_variants
    PROVE  SalesInv'
<1>1. Sellable'
  <2> SUFFICES ASSUME NEW p \in ProductIds, NoOverlap', Shop!Live(p)', products'[p].status = "active"
               PROVE  /\ ~categories[products'[p].category].deleted
                      /\ products'[p].has_variants => Shop!ActiveIn(variants, p) # {}
    BY DEF Sellable, Shop!LiveProducts
  <2> QED
    BY DEF SalesInv, Sellable, Unmarked, Shop!LiveProducts
<1>2. StockFollows'
    BY DEF SalesInv, Unmarked, StockFollows
<1> QED
    BY <1>1, <1>2, SalesEnd

-----------------------------------------------------------------------------
(* Sales: products that are published, withdrawn, trashed, restored, moved   *)

LEMMA PublishSales ==
    ASSUME ShopAssumption, NamesInv, SalesInv, NEW a \in Admins, Shop!Publish(a) PROVE SalesInv' /\ ShelfKept
<1>1. PICK q : q = editing[a] /\ q.op = "publish"
    BY PublishWrites
<1>2. PICK S \in SUBSET ProductIds :
        /\ Shop!Respond(a) /\ UNCHANGED <<variants, categories, reservations>>
        /\ S \in SUBSET q.ids /\ ProductsWritten(S)
        /\ \A p \in S : ProductIs(products'[p], products[p].category, products[p].sku, "active", products[p].has_variants,
                                  products[p].stock, products[p].display_order, products[p].deleted)
    BY <1>1, PublishWrites
<1>3. /\ \A p \in ProductIds \ S : products'[p] = products[p]
      /\ \A p \in S : products[p] # Shop!None /\ products'[p] # Shop!None
    BY <1>2, ProductShape DEF ProductsWritten
<1>4. \A p \in S : /\ products'[p].category = products[p].category /\ products'[p].has_variants = products[p].has_variants
                   /\ products'[p].stock = products[p].stock /\ products'[p].display_order = products[p].display_order
                   /\ products'[p].deleted = products[p].deleted
    BY <1>2 DEF ProductIs
<1>5. Unmarked /\ Quiet
    BY <1>2, QuietResponse
<1>6. NoOverlap' => \A p \in S : /\ ~categories[products[p].category].deleted
                                 /\ products[p].has_variants => Shop!ActiveIn(variants, p) # {}
    BY <1>1, <1>2, <1>5 DEF Unmarked, SalesInv, ReadStands, Shop!ValidateProductActivationReadiness,
                            Shop!CategoryUsable, Shop!ValidateShippingReadiness
<1>7. ShelfKept
    BY <1>3, <1>4 DEF ShelfKept, Shop!Live
<1>8. \A x \in ProductIds : NoOverlap' /\ Shop!Live(x)' /\ products'[x].status = "active" =>
        \/ /\ Shop!Live(x) /\ products[x].status = "active"
           /\ products'[x].category = products[x].category /\ products'[x].has_variants = products[x].has_variants
        \/ /\ ~categories[products'[x].category].deleted
           /\ products'[x].has_variants => Shop!ActiveIn(variants, x) # {}
    BY <1>3, <1>4, <1>6 DEF Shop!Live
<1>9. \A x \in ProductIds : products'[x] # Shop!None =>
        /\ products[x] # Shop!None /\ products'[x].stock = products[x].stock
        /\ products'[x].has_variants = products[x].has_variants
    BY <1>3, <1>4
<1> QED
    BY <1>2, <1>5, <1>7, <1>8, <1>9, SalesOfProducts

\* A step that puts nothing on sale.
LEMMA SalesOfWritten ==
    ASSUME ShopAssumption, NamesInv, SalesInv, Shop!AtOnce, UNCHANGED <<variants, categories, reservations>>,
           NEW S, ProductsWritten(S),
           \A x \in S : /\ products'[x].category = products[x].category /\ products'[x].stock = products[x].stock
                        /\ \/ products'[x].status = "draft" \/ products'[x].deleted = TRUE
                           \/ products'[x].status = products[x].status /\ products'[x].deleted = products[x].deleted
    PROVE  SalesInv'
<1>1. /\ \A p \in ProductIds \ S : products'[p] = products[p]
      /\ \A p \in S : /\ products[p] # Shop!None /\ products'[p] # Shop!None
                      /\ products'[p].has_variants = products[p].has_variants
    BY ProductShape DEF ProductsWritten
<1>2. Unmarked /\ Quiet
    BY QuietAtOnce
<1>3. \A x \in ProductIds : NoOverlap' /\ Shop!Live(x)' /\ products'[x].status = "active" =>
        \/ /\ Shop!Live(x) /\ products[x].status = "active"
           /\ products'[x].category = products[x].category /\ products'[x].has_variants = products[x].has_variants
        \/ /\ ~categories[products'[x].category].deleted
           /\ products'[x].has_variants => Shop!ActiveIn(variants, x) # {}
    BY <1>1 DEF Shop!Live
<1>4. \A x \in ProductIds : products'[x] # Shop!None =>
        /\ products[x] # Shop!None /\ products'[x].stock = products[x].stock
        /\ products'[x].has_variants = products[x].has_variants
    BY <1>1
<1> QED
    BY <1>2, <1>3, <1>4, SalesOfProducts

LEMMA WithdrawSales == ASSUME ShopAssumption, NamesInv, SalesInv, Shop!Withdraw PROVE SalesInv' /\ ShelfKept
<1>1. Shop!AtOnce /\ UNCHANGED <<variants, categories, reservations>>
    BY WithdrawWrites
<1>2. PICK p \in ProductIds :
        /\ ProductsWritten({p})
        /\ ProductIs(products'[p], products[p].category, products[p].sku, "draft", products[p].has_variants,
                     products[p].stock, products[p].display_order, products[p].deleted)
    BY WithdrawWrites
<1>3. /\ \A x \in ProductIds \ {p} : products'[x] = products[x]
      /\ products[p] # Shop!None /\ products'[p].display_order = products[p].display_order
      /\ products'[p].deleted = products[p].deleted
    BY <1>2, ProductShape DEF ProductsWritten, ProductIs
<1>4. ShelfKept
    BY <1>3 DEF ShelfKept, Shop!Live
<1>5. \A x \in {p} : /\ products'[x].category = products[x].category /\ products'[x].stock = products[x].stock
                     /\ products'[x].status = "draft"
    BY <1>2 DEF ProductIs
<1> QED
    BY <1>1, <1>2, <1>4, <1>5, SalesOfWritten

LEMMA TrashSales == ASSUME ShopAssumption, NamesInv, SalesInv, Shop!DeleteProducts PROVE SalesInv' /\ ShelfKept
<1>1. Shop!AtOnce /\ UNCHANGED <<variants, categories, reservations>>
    BY TrashWrites
<1>2. PICK S \in SUBSET ProductIds :
        /\ ProductsWritten(S)
        /\ \A p \in S : ProductIs(products'[p], products[p].category, products[p].sku, products[p].status,
                                  products[p].has_variants, products[p].stock, products[p].display_order, TRUE)
    BY TrashWrites
<1>3. /\ \A x \in ProductIds \ S : products'[x] = products[x]
      /\ \A x \in S : products'[x].deleted = TRUE
    BY <1>2 DEF ProductsWritten, ProductIs
<1>4. ShelfKept
    BY <1>3 DEF ShelfKept, Shop!Live
<1>5. \A x \in S : /\ products'[x].category = products[x].category /\ products'[x].stock = products[x].stock
                   /\ products'[x].deleted = TRUE
    BY <1>2 DEF ProductIs
<1> QED
    BY <1>1, <1>2, <1>4, <1>5, SalesOfWritten

LEMMA RestoreSales == ASSUME ShopAssumption, NamesInv, SalesInv, Shop!RestoreProduct PROVE SalesInv' /\ ShelfExtended
<1>1. Shop!AtOnce /\ UNCHANGED <<variants, categories, reservations>>
    BY RestoreWrites
<1>2. PICK p \in ProductIds :
        /\ ProductsWritten({p})
        /\ ProductIs(products'[p], products[p].category, products[p].sku, "draft", products[p].has_variants,
                     products[p].stock, Shop!NextWebsitePosition, FALSE)
    BY RestoreWrites
<1>3. /\ \A x \in ProductIds \ {p} : products'[x] = products[x]
      /\ products'[p].display_order = Shop!NextWebsitePosition
    BY <1>2 DEF ProductsWritten, ProductIs
<1>4. ShelfExtended
    BY <1>3 DEF ShelfExtended, Shop!Live
<1>5. \A x \in {p} : /\ products'[x].category = products[x].category /\ products'[x].stock = products[x].stock
                     /\ products'[x].status = "draft"
    BY <1>2 DEF ProductIs
<1> QED
    BY <1>1, <1>2, <1>4, <1>5, SalesOfWritten

LEMMA MoveSales == ASSUME ShopAssumption, NamesInv, SalesInv, Shop!MoveWebsiteOrder PROVE SalesInv'
<1>1. Shop!AtOnce /\ UNCHANGED <<variants, categories, reservations>> /\ ProductsWritten(Shop!LiveProducts)
    BY MoveWrites
<1>2. PICK S : S = Shop!LiveProducts
    OBVIOUS
<1>3. PICK p, q \in S :
        \A x \in S : ProductIs(products'[x], products[x].category, products[x].sku, products[x].status,
                               products[x].has_variants, products[x].stock, Moved(x, p, q), products[x].deleted)
    BY <1>2, MoveWrites
<1>4. \A x \in S : /\ products'[x].category = products[x].category /\ products'[x].stock = products[x].stock
                   /\ products'[x].status = products[x].status /\ products'[x].deleted = products[x].deleted
    BY <1>3 DEF ProductIs
<1> QED
    BY <1>1, <1>2, <1>4, SalesOfWritten

LEMMA UpdateSales ==
    ASSUME ShopAssumption, NamesInv, SalesInv, NEW a \in Admins, Shop!UpdateProduct(a) PROVE SalesInv' /\ ShelfKept
<1>1. CASE Shop!Fail(a)
    BY <1>1, SalesFail DEF ShelfKept, Shop!Fail, Shop!Live
<1>2. CASE ~Shop!Fail(a)
  <2>1. PICK q \in EditRequest : q = editing[a] /\ q.op = "update" /\ Shop!Respond(a) /\ UNCHANGED <<variants, categories>>
    BY <1>2, UpdateWrites
  <2>2. PICK p \in ProductIds, c \in CategoryIds, s \in Shop!AllSkus : \E new, ps :
            /\ p = editing[a].product /\ products[p] \in Shop!ProductRow /\ ProductWritten(p, new) /\ ps = products'
            /\ ProductIs(new, c, s, products[p].status, products[p].has_variants, products[p].stock,
                         products[p].display_order, products[p].deleted)
            /\ (s \in Skus \/ s = products[p].sku) /\ Reserved(s, Shop!AsProduct(p))
            /\ editing[a].status = "active" => Shop!ValidateProductActivationReadiness(ps, variants, p)
    BY <1>2, UpdateWrites
  <2>3. PICK new, ps :
            /\ p = editing[a].product /\ products[p] \in Shop!ProductRow /\ ProductWritten(p, new) /\ ps = products'
            /\ ProductIs(new, c, s, products[p].status, products[p].has_variants, products[p].stock,
                         products[p].display_order, products[p].deleted)
            /\ editing[a].status = "active" => Shop!ValidateProductActivationReadiness(ps, variants, p)
    BY <2>2
  <2>4. /\ \A x \in ProductIds \ {p} : products'[x] = products[x]
        /\ products'[p] = new /\ products[p] # Shop!None /\ products'[p] # Shop!None
    BY <2>3, ProductShape DEF ProductWritten
  <2>5. /\ products'[p].status = products[p].status /\ products'[p].has_variants = products[p].has_variants
        /\ products'[p].stock = products[p].stock /\ products'[p].display_order = products[p].display_order
        /\ products'[p].deleted = products[p].deleted
    BY <2>3, <2>4 DEF ProductIs
  <2>6. Unmarked /\ Quiet
    BY <2>1, QuietResponse
  <2>7. NoOverlap' /\ products[p].status = "active" =>
          /\ ~categories[products'[p].category].deleted
          /\ products'[p].has_variants => Shop!ActiveIn(variants, p) # {}
    <3>1. NoOverlap' => q.status = products[p].status
      BY <2>1, <2>3, <2>6 DEF Unmarked, SalesInv, ReadStands
    <3> QED
      BY <2>1, <2>3, <3>1 DEF Shop!ValidateProductActivationReadiness, Shop!CategoryUsable, Shop!ValidateShippingReadiness
  <2>8. ShelfKept
    BY <2>4, <2>5 DEF ShelfKept, Shop!Live
  <2>9. \A x \in ProductIds : NoOverlap' /\ Shop!Live(x)' /\ products'[x].status = "active" =>
          \/ /\ Shop!Live(x) /\ products[x].status = "active"
             /\ products'[x].category = products[x].category /\ products'[x].has_variants = products[x].has_variants
          \/ /\ ~categories[products'[x].category].deleted
             /\ products'[x].has_variants => Shop!ActiveIn(variants, x) # {}
    BY <2>4, <2>5, <2>7 DEF Shop!Live
  <2>10. \A x \in ProductIds : products'[x] # Shop!None =>
          /\ products[x] # Shop!None /\ products'[x].stock = products[x].stock
          /\ products'[x].has_variants = products[x].has_variants
    BY <2>4, <2>5
  <2>11. SalesInv'
    BY <2>1, <2>6, <2>9, <2>10, SalesOfProducts
  <2> QED
    BY <2>8, <2>11
<1> QED
    BY <1>1, <1>2

-----------------------------------------------------------------------------
(* Sales: variants that are written, sold, retired                           *)

\* One variant of P is written, and P's cached stock with it.
LEMMA SalesOfVariants ==
    ASSUME ShopAssumption, NamesInv, SalesInv, Unmarked, Quiet, UNCHANGED categories,
           NEW P \in ProductIds, NEW vs \in [VariantIds -> Shop!VariantRow \cup {Shop!None}], vs = variants',
           WrittenOf(variants, vs, P),
           products' = Shop!RefreshVariantProductAggregates(vs, P),
           NoOverlap' => Shop!Live(P) /\ (products[P].status = "active" /\ products[P].has_variants => Shop!ActiveIn(vs, P) # {})
    PROVE  SalesInv' /\ ShelfKept
<1>1. PICK S \in SUBSET {P} :
        /\ P \in S <=> Shop!Live(P) /\ products[P].has_variants
        /\ ProductsWritten(S)
        /\ P \in S => ProductIs(products'[P], products[P].category, products[P].sku, products[P].status,
                                products[P].has_variants, Shop!CachedStock(vs, P), products[P].display_order,
                                products[P].deleted)
    BY RefreshWrites
<1>2. /\ \A p \in ProductIds \ S : products'[p] = products[p]
      /\ \A p \in S : products[p] # Shop!None /\ products'[p] # Shop!None
    BY <1>1, ProductShape DEF ProductsWritten
<1>3. \A p \in S : /\ products'[p].category = products[p].category /\ products'[p].has_variants = products[p].has_variants
                   /\ products'[p].status = products[p].status /\ products'[p].display_order = products[p].display_order
                   /\ products'[p].deleted = products[p].deleted /\ products'[p].stock = Shop!CachedStock(vs, P)
    BY <1>1 DEF ProductIs
<1>4. ShelfKept
    BY <1>2, <1>3 DEF ShelfKept, Shop!Live
<1>5. \A p \in ProductIds : p # P => Shop!ActiveIn(vs, p) = Shop!ActiveIn(variants, p)
                                     /\ Shop!CachedStock(vs, p) = Shop!CachedStock(variants, p)
    BY Elsewhere
<1>6. Sellable'
  <2> SUFFICES ASSUME NEW p \in ProductIds, NoOverlap', Shop!Live(p)', products'[p].status = "active"
               PROVE  /\ ~categories[products'[p].category].deleted
                      /\ products'[p].has_variants => Shop!ActiveIn(vs, p) # {}
    BY DEF Sellable, Shop!LiveProducts
  <2>1. /\ Shop!Live(p) /\ products[p].status = "active" /\ products'[p].category = products[p].category
        /\ products'[p].has_variants = products[p].has_variants
    BY <1>2, <1>3 DEF Shop!Live
  <2>2. /\ ~categories[products[p].category].deleted
        /\ products[p].has_variants => Shop!ActiveIn(variants, p) # {}
    BY <2>1 DEF SalesInv, Sellable, Unmarked, Shop!LiveProducts
  <2>3. products'[p].has_variants => Shop!ActiveIn(vs, p) # {}
    <3>1. CASE p = P
      BY <2>1, <3>1
    <3>2. CASE p # P
      BY <1>5, <2>1, <2>2, <3>2
    <3> QED
      BY <3>1, <3>2
  <2> QED
    BY <2>1, <2>2, <2>3
<1>7. StockFollows'
  <2> SUFFICES ASSUME catalogueDrift' = {}, NEW p \in ProductIds, products'[p] # Shop!None, products'[p].has_variants
               PROVE  products'[p].stock = Shop!CachedStock(vs, p)
    BY DEF StockFollows
  <2>1. catalogueDrift = {} /\ Shop!Live(P)
    BY DEF Unmarked
  <2>2. CASE p = P
    <3>1. P \in S
      BY <1>1, <1>2, <2>1, <2>2
    <3> QED
      BY <1>3, <2>2, <3>1
  <2>3. CASE p # P
    <3>1. products'[p] = products[p]
      BY <1>2, <2>3
    <3> QED
      BY <1>5, <2>1, <2>3, <3>1 DEF SalesInv, StockFollows
  <2> QED
    BY <2>2, <2>3
<1>8. SalesInv'
    BY <1>6, <1>7, SalesEnd
<1> QED
    BY <1>4, <1>8

LEMMA CreateVariantSales ==
    ASSUME ShopAssumption, NamesInv, SalesInv, Shop!CreateVariant PROVE SalesInv' /\ ShelfKept
<1>1. Shop!AtOnce /\ UNCHANGED categories
    BY CreateVariantWrites
<1>2. PICK v \in VariantIds, p \in ProductIds, s \in Skus, on \in BOOLEAN : \E new, vs :
        /\ variants[v] = Shop!None /\ VariantWritten(v, new) /\ vs = variants'
        /\ VariantIs(new, p, s, MaxVariantStock, on, FALSE)
        /\ Shop!Live(p)
        /\ products' = Shop!RefreshVariantProductAggregates(vs, p)
        /\ products[p].status = "active" => Shop!ActiveIn(vs, p) # {}
    BY CreateVariantWrites
<1>3. PICK new, vs :
        /\ variants[v] = Shop!None /\ VariantWritten(v, new) /\ vs = variants'
        /\ VariantIs(new, p, s, MaxVariantStock, on, FALSE)
        /\ Shop!Live(p)
        /\ products' = Shop!RefreshVariantProductAggregates(vs, p)
        /\ products[p].status = "active" => Shop!ActiveIn(vs, p) # {}
    BY <1>2
<1>4. vs \in [VariantIds -> Shop!VariantRow \cup {Shop!None}]
    BY <1>3 DEF VariantWritten
<1>5. WrittenOf(variants, vs, p)
    BY <1>3 DEF WrittenOf, VariantWritten, VariantIs
<1>6. Unmarked /\ Quiet
    BY <1>1, QuietAtOnce
<1> QED
    BY <1>1, <1>3, <1>4, <1>5, <1>6, SalesOfVariants

LEMMA UpdateVariantSales ==
    ASSUME ShopAssumption, NamesInv, SalesInv, NEW a \in Admins, Shop!UpdateVariant(a) PROVE SalesInv' /\ ShelfKept
<1>1. CASE Shop!Fail(a)
    BY <1>1, SalesFail DEF ShelfKept, Shop!Fail, Shop!Live
<1>2. CASE ~Shop!Fail(a)
  <2>1. PICK q \in EditRequest : q = editing[a] /\ q.op = "updateVariant" /\ Shop!Respond(a) /\ UNCHANGED categories
    BY <1>2, UpdateVariantWrites
  <2>2. PICK v \in VariantIds, s \in Shop!AllSkus, n \in 0..MaxVariantStock, on \in BOOLEAN : \E new, vs :
            /\ v = editing[a].variant /\ variants[v] \in Shop!VariantRow /\ VariantWritten(v, new) /\ vs = variants'
            /\ VariantIs(new, variants[v].product, s, n, on, variants[v].deleted)
            /\ products' = Shop!RefreshVariantProductAggregates(vs, variants[v].product)
            /\ editing[a].status = "active" => Shop!ActiveIn(vs, variants[v].product) # {}
    BY <1>2, UpdateVariantWrites
  <2>3. PICK new, vs :
            /\ v = editing[a].variant /\ variants[v] \in Shop!VariantRow /\ VariantWritten(v, new) /\ vs = variants'
            /\ VariantIs(new, variants[v].product, s, n, on, variants[v].deleted)
            /\ products' = Shop!RefreshVariantProductAggregates(vs, variants[v].product)
            /\ editing[a].status = "active" => Shop!ActiveIn(vs, variants[v].product) # {}
    BY <2>2
  <2>4. vs \in [VariantIds -> Shop!VariantRow \cup {Shop!None}] /\ variants[v].product \in ProductIds
    BY <2>3, VariantShape DEF VariantWritten
  <2>5. PICK p \in ProductIds : p = variants[v].product
    BY <2>4
  <2>6. /\ vs = variants' /\ products' = Shop!RefreshVariantProductAggregates(vs, p)
        /\ q.status = "active" => Shop!ActiveIn(vs, p) # {}
    BY <2>1, <2>3, <2>5
  <2>7. WrittenOf(variants, vs, p)
    BY <2>3, <2>5 DEF WrittenOf, VariantWritten, VariantIs
  <2>8. Unmarked /\ Quiet
    BY <2>1, QuietResponse
  <2>9. NoOverlap' => Shop!Live(p) /\ q.status = products[p].status
    BY <2>1, <2>3, <2>5, <2>8 DEF Unmarked, SalesInv, ReadStands
  <2>10. NoOverlap' => Shop!Live(p) /\ (products[p].status = "active" /\ products[p].has_variants => Shop!ActiveIn(vs, p) # {})
    BY <2>6, <2>9
  <2> QED
    BY <2>1, <2>4, <2>6, <2>7, <2>8, <2>10, SalesOfVariants
<1> QED
    BY <1>1, <1>2

\* Retiring a variant that is not the last active one leaves an active one.
LEMMA OneLeft ==
    ASSUME ShopAssumption, NamesInv, NEW v \in VariantIds, variants[v] \in Shop!VariantRow,
           NEW p \in ProductIds, p = variants[v].product, NEW vs, NEW new,
           \A w \in VariantIds \ {v} : vs[w] = variants[w], vs[v] = new,
           products[p].status = "active", Shop!MayRetire(v), Shop!ActiveIn(variants, p) # {}
    PROVE  Shop!ActiveIn(vs, p) # {}
<1>1. PICK S \in SUBSET VariantIds : S = Shop!ActiveIn(variants, p) /\ IsFiniteSet(S)
    BY StockSummed
<1>2. \A w \in S : w # v => w \in Shop!ActiveIn(vs, p)
    BY <1>1 DEF Shop!ActiveIn, Shop!VariantsIn
<1>3. \E w \in S : w # v
  <2>1. CASE v \notin S
    BY <1>1, <2>1
  <2>2. CASE v \in S
    <3>1. variants[v].active
      BY <1>1, <2>2 DEF Shop!ActiveIn
    <3>2. PICK n \in Nat : n = Cardinality(S)
      BY <1>1, FS_CardinalityType
    <3>3. n > 1
      BY <1>1, <3>1, <3>2, CardinalityIs DEF Shop!MayRetire
    <3>4. S # {v}
      <4>1. Cardinality({v}) = 1
        BY FS_Singleton
      <4> QED
        BY <3>2, <3>3, <4>1
    <3> QED
      BY <2>2, <3>4
  <2> QED
    BY <2>1, <2>2
<1> QED
    BY <1>2, <1>3

LEMMA RetireSales ==
    ASSUME ShopAssumption, NamesInv, SalesInv, NEW a \in Admins, Shop!DeleteVariant(a) PROVE SalesInv' /\ ShelfKept
<1>1. PICK q \in EditRequest : q = editing[a] /\ q.op = "deleteVariant" /\ Shop!Respond(a) /\ UNCHANGED categories
    BY RetireWrites, TypedRows
<1>2. PICK v \in VariantIds : \E new, vs :
        /\ v = editing[a].variant /\ variants[v] \in Shop!VariantRow /\ VariantWritten(v, new)
        /\ VariantIs(new, variants[v].product, variants[v].sku, variants[v].stock, variants[v].active, TRUE)
        /\ vs = variants' /\ products' = Shop!RefreshVariantProductAggregates(vs, variants[v].product)
    BY RetireWrites
<1>3. PICK new, vs :
        /\ v = editing[a].variant /\ variants[v] \in Shop!VariantRow /\ VariantWritten(v, new)
        /\ VariantIs(new, variants[v].product, variants[v].sku, variants[v].stock, variants[v].active, TRUE)
        /\ vs = variants' /\ products' = Shop!RefreshVariantProductAggregates(vs, variants[v].product)
    BY <1>2
<1>4. vs \in [VariantIds -> Shop!VariantRow \cup {Shop!None}] /\ variants[v].product \in ProductIds
    BY <1>3, VariantShape DEF VariantWritten
<1>5. PICK p \in ProductIds : p = variants[v].product
    BY <1>4
<1>6. vs = variants' /\ products' = Shop!RefreshVariantProductAggregates(vs, p)
    BY <1>3, <1>5
<1>7. /\ \A w \in VariantIds \ {v} : vs[w] = variants[w]
      /\ vs[v] = new /\ new.product = p
    BY <1>3, <1>5 DEF VariantWritten, VariantIs
<1>8. WrittenOf(variants, vs, p)
    BY <1>5, <1>7 DEF WrittenOf
<1>9. Unmarked /\ Quiet
    BY <1>1, QuietResponse
<1>10. NoOverlap' => Shop!Live(p) /\ Shop!MayRetire(v)
    BY <1>1, <1>3, <1>5, <1>9 DEF Unmarked, SalesInv, ReadStands
<1>11. NoOverlap' => Shop!Live(p) /\ (products[p].status = "active" /\ products[p].has_variants => Shop!ActiveIn(vs, p) # {})
  <2> SUFFICES ASSUME NoOverlap', products[p].status = "active", products[p].has_variants PROVE Shop!ActiveIn(vs, p) # {}
    BY <1>10
  <2>1. Shop!ActiveIn(variants, p) # {}
    BY <1>9, <1>10 DEF Unmarked, SalesInv, Sellable, Shop!LiveProducts
  <2>2. variants[v] \in Shop!VariantRow
    BY <1>3
  <2> QED
    BY <1>5, <1>7, <1>10, <2>1, <2>2, OneLeft
<1> QED
    BY <1>1, <1>4, <1>6, <1>8, <1>9, <1>11, SalesOfVariants

LEMMA SellSales == ASSUME ShopAssumption, NamesInv, SalesInv, Shop!SellVariant PROVE SalesInv' /\ ShelfKept
<1>1. UNCHANGED <<products, categories, reservations>>
    BY SellWrites
<1>2. PICK v \in VariantIds : \E new :
        /\ variants[v] \in Shop!VariantRow /\ VariantWritten(v, new)
        /\ VariantIs(new, variants[v].product, variants[v].sku, variants[v].stock - 1, variants[v].active, variants[v].deleted)
    BY SellWrites
<1>3. PICK new :
        /\ variants[v] \in Shop!VariantRow /\ VariantWritten(v, new)
        /\ VariantIs(new, variants[v].product, variants[v].sku, variants[v].stock - 1, variants[v].active, variants[v].deleted)
    BY <1>2
<1>4. /\ variants'[v] # Shop!None /\ variants[v] # Shop!None
      /\ variants'[v].product = variants[v].product /\ variants'[v].active = variants[v].active
      /\ variants'[v].deleted = variants[v].deleted
      /\ \A w \in VariantIds \ {v} : variants'[w] = variants[w]
    BY <1>3, VariantShape DEF VariantWritten, VariantIs
<1>5. \A p : Shop!ActiveIn(variants, p)' = Shop!ActiveIn(variants, p)
    BY <1>4 DEF Shop!ActiveIn, Shop!VariantsIn
<1>6. Unmarked /\ Quiet /\ catalogueDrift' # {}
    BY QuietSale
<1>7. Sellable'
    BY <1>1, <1>5, <1>6 DEF SalesInv, Sellable, Unmarked, Shop!LiveProducts, Shop!Live
<1>8. StockFollows'
    BY <1>6 DEF StockFollows
<1>9. ShelfKept
    BY <1>1 DEF ShelfKept, Shop!Live
<1> QED
    BY <1>6, <1>7, <1>8, <1>9, SalesEnd

-----------------------------------------------------------------------------
(* Sales: products that are made, categories that come and go                *)

LEMMA SalesOfNew ==
    ASSUME ShopAssumption, NamesInv, SalesInv, NEW a \in Admins, Shop!Respond(a), UNCHANGED categories,
           NEW p \in ProductIds, NEW new, products[p] = Shop!None, ProductWritten(p, new),
           NEW vs, vs = variants', WrittenOf(variants, vs, p),
           new.stock = Shop!CachedStock(vs, p), new.display_order = Shop!NextWebsitePosition,
           new.status = "active" => /\ ~categories[new.category].deleted
                                    /\ new.has_variants => Shop!ActiveIn(vs, p) # {}
    PROVE  SalesInv' /\ ShelfExtended
<1>1. products'[p] = new /\ \A x \in ProductIds : x # p => products'[x] = products[x]
    BY DEF ProductWritten
<1>2. Unmarked /\ Quiet
    BY QuietResponse
<1>3. \A x \in ProductIds : x # p => Shop!ActiveIn(vs, x) = Shop!ActiveIn(variants, x)
                                     /\ Shop!CachedStock(vs, x) = Shop!CachedStock(variants, x)
    BY Elsewhere
<1>4. ShelfExtended
    BY <1>1 DEF ShelfExtended, Shop!Live
<1>5. Sellable'
  <2> SUFFICES ASSUME NEW x \in ProductIds, NoOverlap', Shop!Live(x)', products'[x].status = "active"
               PROVE  /\ ~categories[products'[x].category].deleted
                      /\ products'[x].has_variants => Shop!ActiveIn(vs, x) # {}
    BY DEF Sellable, Shop!LiveProducts
  <2>1. CASE x = p
    BY <1>1, <2>1
  <2>2. CASE x # p
    <3>1. products'[x] = products[x] /\ Shop!Live(x)
      BY <1>1, <2>2 DEF Shop!Live
    <3> QED
      BY <1>2, <1>3, <2>2, <3>1 DEF SalesInv, Sellable, Unmarked, Shop!LiveProducts
  <2> QED
    BY <2>1, <2>2
<1>6. StockFollows'
  <2> SUFFICES ASSUME catalogueDrift' = {}, NEW x \in ProductIds, products'[x] # Shop!None, products'[x].has_variants
               PROVE  products'[x].stock = Shop!CachedStock(vs, x)
    BY DEF StockFollows
  <2>1. CASE x = p
    BY <1>1, <2>1
  <2>2. CASE x # p
    <3>1. products'[x] = products[x] /\ catalogueDrift = {}
      BY <1>1, <1>2, <2>2 DEF Unmarked
    <3> QED
      BY <1>3, <2>2, <3>1 DEF SalesInv, StockFollows
  <2> QED
    BY <2>1, <2>2
<1>7. SalesInv'
    BY <1>2, <1>5, <1>6, SalesEnd
<1> QED
    BY <1>4, <1>7

LEMMA CreateSales ==
    ASSUME ShopAssumption, NamesInv, SalesInv, NEW a \in Admins, Shop!CreateProduct(a)
    PROVE  SalesInv' /\ (ShelfKept \/ ShelfExtended)
<1>1. CASE Shop!Fail(a)
    BY <1>1, SalesFail DEF ShelfKept, Shop!Fail, Shop!Live
<1>2. CASE ~Shop!Fail(a)
  <2>1. Shop!Respond(a) /\ UNCHANGED categories
    BY <1>2, CreateWrites
  <2>2. PICK p \in ProductIds, q \in EditRequest, variantful \in BOOLEAN : \E v, new, ps, vs :
            /\ q = editing[a] /\ v = Shop!FreshVariant /\ ps = products' /\ vs = variants'
            /\ products[p] = Shop!None /\ ProductWritten(p, new)
            /\ variantful = (q.variantSkus # {})
            /\ ProductIs(new, q.category, q.sku, q.status, variantful, Shop!CachedStock(vs, p),
                         Shop!NextWebsitePosition, FALSE)
            /\ variantful => /\ v \in VariantIds /\ variants[v] = Shop!None
                             /\ \E t \in q.variantSkus, row \in Shop!VariantRow :
                                    VariantWritten(v, row) /\ VariantIs(row, p, t, MaxVariantStock, TRUE, FALSE)
            /\ ~variantful => UNCHANGED variants
            /\ reservations[q.sku] \in {Shop!None, Shop!AsProduct(p)}
            /\ \A s \in q.variantSkus : reservations[s] \in {Shop!None, Shop!AsVariant(v)}
            /\ reservations' = [s \in Shop!AllSkus |->
                                   IF s = q.sku THEN Shop!AsProduct(p)
                                   ELSE IF s \in q.variantSkus THEN Shop!AsVariant(v) ELSE reservations[s]]
            /\ q.status = "active" => Shop!ValidateProductActivationReadiness(ps, vs, p)
    BY <1>2, CreateWrites
  <2>3. PICK v, new, ps, vs :
            /\ q = editing[a] /\ v = Shop!FreshVariant /\ ps = products' /\ vs = variants'
            /\ products[p] = Shop!None /\ ProductWritten(p, new)
            /\ variantful = (q.variantSkus # {})
            /\ ProductIs(new, q.category, q.sku, q.status, variantful, Shop!CachedStock(vs, p),
                         Shop!NextWebsitePosition, FALSE)
            /\ variantful => /\ v \in VariantIds /\ variants[v] = Shop!None
                             /\ \E t \in q.variantSkus, row \in Shop!VariantRow :
                                    VariantWritten(v, row) /\ VariantIs(row, p, t, MaxVariantStock, TRUE, FALSE)
            /\ ~variantful => UNCHANGED variants
            /\ reservations[q.sku] \in {Shop!None, Shop!AsProduct(p)}
            /\ \A s \in q.variantSkus : reservations[s] \in {Shop!None, Shop!AsVariant(v)}
            /\ reservations' = [s \in Shop!AllSkus |->
                                   IF s = q.sku THEN Shop!AsProduct(p)
                                   ELSE IF s \in q.variantSkus THEN Shop!AsVariant(v) ELSE reservations[s]]
            /\ q.status = "active" => Shop!ValidateProductActivationReadiness(ps, vs, p)
    BY <2>2
  <2>4. ProductWritten(p, new) /\ new.stock = Shop!CachedStock(vs, p) /\ new.display_order = Shop!NextWebsitePosition
        /\ new.status = q.status /\ new.has_variants = variantful /\ products[p] = Shop!None
    BY <2>3 DEF ProductIs
  <2>5. WrittenOf(variants, vs, p)
    <3>1. CASE variantful = FALSE
      BY <2>3, <3>1 DEF WrittenOf
    <3>2. CASE variantful = TRUE
      <4>1. PICK t \in q.variantSkus, row \in Shop!VariantRow :
                VariantWritten(v, row) /\ VariantIs(row, p, t, MaxVariantStock, TRUE, FALSE)
        BY <2>3, <3>2
      <4>2. v \in VariantIds /\ variants[v] = Shop!None
        BY <2>3, <3>2
      <4> QED
        BY <2>3, <4>1, <4>2 DEF WrittenOf, VariantWritten, VariantIs
    <3> QED
      BY <3>1, <3>2
  <2>6. ps[p] = new
    BY <2>3 DEF ProductWritten
  <2>7. new.status = "active" => /\ ~categories[new.category].deleted
                                 /\ new.has_variants => Shop!ActiveIn(vs, p) # {}
    BY <2>3, <2>4, <2>6 DEF Shop!ValidateProductActivationReadiness, Shop!CategoryUsable, Shop!ValidateShippingReadiness
  <2>8. vs = variants'
    BY <2>3
  <2> QED
    BY <2>1, <2>4, <2>5, <2>7, <2>8, SalesOfNew
<1> QED
    BY <1>1, <1>2

LEMMA NothingInStock ==
    ASSUME ShopAssumption, NEW vs, NEW p, \A v \in Shop!ActiveIn(vs, p) : vs[v].stock = 0
    PROVE  Shop!CachedStock(vs, p) = 0
<1>1. PICK S \in SUBSET VariantIds : S = Shop!ActiveIn(vs, p) /\ IsFiniteSet(S)
    BY StockSummed
<1>2. PICK f : f = [v \in VariantIds |-> vs[v].stock]
    OBVIOUS
<1>3. \A v \in S : f[v] = 0
    BY <1>1, <1>2
<1>4. PICK n \in Nat : n = Cardinality(S)
    BY <1>1, FS_CardinalityType
<1>5. Total(f, S) = n * 0
    BY <1>1, <1>3, <1>4, TotalConst
<1>6. n * 0 = 0
    OBVIOUS
<1> QED
    BY <1>1, <1>2, <1>5, <1>6, StockSummed

LEMMA CopySales ==
    ASSUME ShopAssumption, NamesInv, SalesInv, NEW a \in Admins, Shop!DuplicateProduct(a) PROVE SalesInv' /\ ShelfExtended
<1>1. Shop!Respond(a) /\ UNCHANGED categories
    BY CopyWrites
<1>2. PICK p \in ProductIds, made \in SUBSET VariantIds : \E new, from :
        /\ products[p] = Shop!None /\ ProductWritten(p, new) /\ from = editing[a].source
        /\ ProductIs(new, products[from].category, [kind |-> "product", id |-> p], "draft",
                     products[from].has_variants, 0, Shop!NextWebsitePosition, FALSE)
        /\ variants' \in [VariantIds -> Shop!VariantRow \cup {Shop!None}]
        /\ \A w \in VariantIds \ made : variants'[w] = variants[w]
        /\ \A w \in made : /\ variants[w] = Shop!None /\ variants'[w] \in Shop!VariantRow
                           /\ \E on \in BOOLEAN :
                                  VariantIs(variants'[w], p, [kind |-> "variant", id |-> w], 0, on, FALSE)
        /\ \A w \in made, u \in VariantIds : u < w /\ variants[u] = Shop!None => u \in made
        /\ ReservationsTyped'
        /\ reservations'[[kind |-> "product", id |-> p]] = Shop!AsProduct(p)
        /\ \A w \in made : reservations'[[kind |-> "variant", id |-> w]] = Shop!AsVariant(w)
        /\ \A s \in Shop!AllSkus :
               s # [kind |-> "product", id |-> p] /\ (\A w \in made : s # [kind |-> "variant", id |-> w])
                   => reservations'[s] = reservations[s]
    BY CopyWrites
<1>3. PICK new, from :
        /\ products[p] = Shop!None /\ ProductWritten(p, new) /\ from = editing[a].source
        /\ ProductIs(new, products[from].category, [kind |-> "product", id |-> p], "draft",
                     products[from].has_variants, 0, Shop!NextWebsitePosition, FALSE)
        /\ variants' \in [VariantIds -> Shop!VariantRow \cup {Shop!None}]
        /\ \A w \in VariantIds \ made : variants'[w] = variants[w]
        /\ \A w \in made : /\ variants[w] = Shop!None /\ variants'[w] \in Shop!VariantRow
                           /\ \E on \in BOOLEAN :
                                  VariantIs(variants'[w], p, [kind |-> "variant", id |-> w], 0, on, FALSE)
        /\ \A w \in made, u \in VariantIds : u < w /\ variants[u] = Shop!None => u \in made
        /\ ReservationsTyped'
        /\ reservations'[[kind |-> "product", id |-> p]] = Shop!AsProduct(p)
        /\ \A w \in made : reservations'[[kind |-> "variant", id |-> w]] = Shop!AsVariant(w)
        /\ \A s \in Shop!AllSkus :
               s # [kind |-> "product", id |-> p] /\ (\A w \in made : s # [kind |-> "variant", id |-> w])
                   => reservations'[s] = reservations[s]
    BY <1>2
<1>4. ProductWritten(p, new) /\ new.stock = 0 /\ new.display_order = Shop!NextWebsitePosition
      /\ new.status = "draft" /\ products[p] = Shop!None
    BY <1>3 DEF ProductIs
<1>5. PICK vs : vs = variants'
    OBVIOUS
<1>6. \A w \in VariantIds \ made : vs[w] = variants[w]
    BY <1>3, <1>5
<1>7. \A w \in made : variants[w] = Shop!None /\ vs[w].product = p /\ vs[w].stock = 0
    BY <1>3, <1>5 DEF VariantIs
<1>8. WrittenOf(variants, vs, p)
    BY <1>6, <1>7 DEF WrittenOf
<1>9. \A w \in Shop!ActiveIn(vs, p) : vs[w].stock = 0
  <2> SUFFICES ASSUME NEW w \in Shop!ActiveIn(vs, p) PROVE w \in made
    BY <1>7
  <2>1. w \in VariantIds /\ vs[w] # Shop!None /\ vs[w].product = p
    BY DEF Shop!ActiveIn, Shop!VariantsIn
  <2> QED
    BY <1>4, <1>6, <2>1 DEF NamesInv, VariantsBelong
<1>10. new.stock = Shop!CachedStock(vs, p)
    BY <1>4, <1>9, NothingInStock
<1>11. new.status # "active"
    BY <1>4
<1> QED
    BY <1>1, <1>4, <1>5, <1>8, <1>10, <1>11, SalesOfNew

LEMMA CategorySales ==
    ASSUME ShopAssumption, NamesInv, SalesInv,
           Shop!UpdateCategoryStatus \/ Shop!RestoreCategory \/ \E a \in Admins : Shop!DeleteCategory(a)
    PROVE  SalesInv' /\ ShelfKept
<1>1. categories \in [CategoryIds -> Shop!CategoryRow]
    BY TypedRows DEF RowsTyped
<1>2. /\ UNCHANGED <<products, variants, reservations>> /\ Unmarked /\ Quiet
      /\ \A c \in CategoryIds : categories'[c].deleted => categories[c].deleted \/ (NoOverlap' => Shop!Uncategorised(c))
  <2>1. CASE Shop!UpdateCategoryStatus
    <3>1. PICK c \in CategoryIds : /\ categories' = [categories EXCEPT ![c].active = ~@]
                                   /\ Shop!AtOnce /\ UNCHANGED <<products, variants, reservations>>
      BY <2>1 DEF Shop!UpdateCategoryStatus
    <3>2. PICK row \in Shop!CategoryRow : row = categories[c]
      BY <1>1
    <3>3. PICK new : new = [row EXCEPT !.active = ~@]
      OBVIOUS
    <3>4. new.deleted = row.deleted
      BY <3>3 DEF Shop!CategoryRow
    <3>5. categories' = [categories EXCEPT ![c] = new]
      BY <3>1, <3>2, <3>3, Zenon
    <3> QED
      BY <1>1, <3>1, <3>2, <3>4, <3>5, QuietAtOnce
  <2>2. CASE Shop!RestoreCategory
    <3>0. PICK new : new = [active |-> FALSE, deleted |-> FALSE]
      OBVIOUS
    <3>1. new = [active |-> FALSE, deleted |-> FALSE] /\ ~new.deleted
      BY <3>0
    <3>2. PICK c \in CategoryIds : /\ categories' = [categories EXCEPT ![c] = new]
                                   /\ Shop!AtOnce /\ UNCHANGED <<products, variants, reservations>>
      BY <2>2, <3>1 DEF Shop!RestoreCategory
    <3> QED
      BY <1>1, <3>1, <3>2, QuietAtOnce
  <2>3. CASE \E a \in Admins : Shop!DeleteCategory(a)
    <3>1. PICK a \in Admins : Shop!DeleteCategory(a)
      BY <2>3
    <3>2. PICK q \in EditRequest : q = editing[a]
      BY TypedRows
    <3>3. /\ q.op = "deleteCategory" /\ categories' = [categories EXCEPT ![q.category].deleted = TRUE]
          /\ Shop!Respond(a) /\ UNCHANGED <<products, variants, reservations>>
      BY <3>1, <3>2, Zenon DEF Shop!DeleteCategory
    <3>4. PICK c \in CategoryIds : c = q.category
      BY <3>3, EditRequestShape
    <3>5. PICK new : new = [categories[c] EXCEPT !.deleted = TRUE]
      OBVIOUS
    <3>6. categories' = [categories EXCEPT ![c] = new]
      BY <3>3, <3>4, <3>5, Zenon
    <3>7. Unmarked /\ Quiet
      BY <3>3, QuietResponse
    <3>8. NoOverlap' => Shop!Uncategorised(c)
      BY <3>2, <3>3, <3>4, <3>7 DEF Unmarked, SalesInv, ReadStands
    <3> QED
      BY <1>1, <3>3, <3>6, <3>7, <3>8
  <2> QED
    BY <2>1, <2>2, <2>3
<1>3. Sellable'
  <2> SUFFICES ASSUME NEW p \in ProductIds, NoOverlap', Shop!Live(p), products[p].status = "active"
               PROVE  /\ ~categories'[products[p].category].deleted
                      /\ products[p].has_variants => Shop!ActiveIn(variants, p) # {}
    BY <1>2 DEF Sellable, Shop!LiveProducts, Shop!Live
  <2>1. p \in Shop!LiveProducts /\ products[p].category \in CategoryIds
    BY ExistingRow, ProductShape DEF Shop!LiveProducts, Shop!Live
  <2>2. PICK c \in CategoryIds : c = products[p].category
    BY <2>1
  <2>3. ~categories[c].deleted /\ (products[p].has_variants => Shop!ActiveIn(variants, p) # {})
    BY <1>2, <2>1, <2>2 DEF SalesInv, Sellable, Unmarked
  <2>4. ~Shop!Uncategorised(c)
    BY <2>1, <2>2 DEF Shop!Uncategorised
  <2> QED
    BY <1>2, <2>2, <2>3, <2>4
<1>4. StockFollows'
    BY <1>2 DEF SalesInv, Unmarked, StockFollows
<1>5. ShelfKept
    BY <1>2 DEF ShelfKept, Shop!Live
<1> QED
    BY <1>2, <1>3, <1>4, <1>5, SalesEnd

LEMMA InitSales == ASSUME ShopAssumption, Shop!Init PROVE SalesInv /\ Shop!PlacesDistinct
<1>1. PICK named : named = {0} \cup InitialVariants
    OBVIOUS
<1>2. PICK skuOf : skuOf = CHOOSE f \in [named -> Skus] : \A i, j \in named : i # j => f[i] # f[j]
    OBVIOUS
<1>3. PICK units : units = Shop!Cardinality(InitialVariants) * MaxVariantStock
    OBVIOUS
<1>4. /\ products = [p \in ProductIds |->
                       IF p = 1 THEN [category |-> 1, sku |-> skuOf[0], status |-> "draft", has_variants |-> TRUE,
                                      stock |-> units, display_order |-> 1, deleted |-> FALSE]
                       ELSE Shop!None]
      /\ variants = [v \in VariantIds |->
                       IF v \in InitialVariants
                       THEN [product |-> 1, sku |-> skuOf[v], stock |-> MaxVariantStock, active |-> TRUE, deleted |-> FALSE]
                       ELSE Shop!None]
      /\ editing = [a \in Admins |-> Shop!Idle] /\ catalogueDrift = {}
    BY <1>1, <1>2, <1>3 DEF Shop!Init
<1>5. 1 \in ProductIds /\ InitialVariants \in SUBSET VariantIds
    BY ShopIds
<1>6. \A p \in ProductIds : /\ products[p] # Shop!None => p = 1
                            /\ p = 1 => products[p].status = "draft" /\ products[p].stock = units
    BY <1>4, <1>5 DEF Shop!None
<1>7. \A v \in VariantIds :
        /\ v \in InitialVariants => /\ variants[v] # Shop!None /\ variants[v].product = 1 /\ variants[v].stock = MaxVariantStock
                                    /\ variants[v].active = TRUE /\ variants[v].deleted = FALSE
        /\ v \notin InitialVariants => variants[v] = Shop!None
    BY <1>4 DEF Shop!None
<1>8. Shop!ActiveIn(variants, 1) = InitialVariants
    BY <1>5, <1>7 DEF Shop!ActiveIn, Shop!VariantsIn
<1>9. Shop!CachedStock(variants, 1) = units
  <2>1. PICK S \in SUBSET VariantIds : S = InitialVariants /\ S = Shop!ActiveIn(variants, 1) /\ IsFiniteSet(S)
    BY <1>5, <1>8, StockSummed
  <2>2. PICK f : f = [v \in VariantIds |-> variants[v].stock]
    OBVIOUS
  <2>3. \A v \in S : f[v] = MaxVariantStock
    BY <1>7, <2>1, <2>2
  <2>4. MaxVariantStock \in Int
    BY ShopIds
  <2>5. Total(f, S) = Cardinality(S) * MaxVariantStock
    BY <2>1, <2>3, <2>4, TotalConst
  <2>6. units = Cardinality(S) * MaxVariantStock
    BY <1>3, <2>1, CardinalityIs
  <2> QED
    BY <2>1, <2>2, <2>5, <2>6, StockSummed
<1>10. Sellable /\ StockFollows
    BY <1>6, <1>9 DEF Sellable, StockFollows, Shop!LiveProducts, Shop!Live
<1>11. EditingAlone /\ (NoOverlap => \A a \in Admins : ReadStands(editing[a]))
    BY <1>4 DEF EditingAlone, ReadStands, Shop!Idle
<1>12. Shop!PlacesDistinct
    BY <1>6 DEF Shop!PlacesDistinct, Shop!LiveProducts, Shop!Live
<1> QED
    BY <1>10, <1>11, <1>12 DEF SalesInv

-----------------------------------------------------------------------------
(* Sales: every step                                                         *)

LEMMA StepSales ==
    ASSUME ShopAssumption, NamesInv, SalesInv, Shop!PlacesDistinct, [Shop!Next]_(Shop!vars)
    PROVE  SalesInv' /\ Shop!PlacesDistinct'
<1>1. CASE UNCHANGED Shop!vars
  <2>1. EditingAlone' /\ (NoOverlap => \A a \in Admins : ReadStands(editing[a]))'
    BY <1>1 DEF SalesInv, EditingAlone, NoOverlap, ReadStands, Shop!vars, Shop!Live, Shop!ValidateProductActivationReadiness,
                Shop!CategoryUsable, Shop!MayRetire, Shop!Uncategorised, Shop!LiveProducts
  <2>2. Sellable' /\ StockFollows'
    BY <1>1 DEF SalesInv, Sellable, StockFollows, NoOverlap, Shop!vars, Shop!LiveProducts, Shop!Live
  <2>3. ShelfKept
    BY <1>1 DEF ShelfKept, Shop!Live, Shop!vars
  <2> QED
    BY <2>1, <2>2, <2>3, PlacesKept DEF SalesInv
<1>2. ASSUME NEW a \in Admins,
             \/ Shop!BeginCreateProduct(a) \/ Shop!BeginDuplicateProduct(a) \/ Shop!BeginPublish(a)
             \/ Shop!BeginUpdateProduct(a) \/ Shop!BeginUpdateVariant(a) \/ Shop!BeginDeleteVariant(a)
             \/ Shop!BeginDeleteCategory(a)
      PROVE  SalesInv' /\ Shop!PlacesDistinct'
  <2>1. PICK q \in EditRequest : ReadStands(q) /\ Shop!Begin(a, q)
    BY <1>2, NamesBegins
  <2>2. ShelfKept
    BY <2>1 DEF Shop!Begin, ShelfKept, Shop!Live
  <2> QED
    BY <2>1, <2>2, SalesBegin, PlacesKept
<1>3. ASSUME NEW a \in Admins,
             \/ Shop!CreateProduct(a) \/ Shop!DuplicateProduct(a) \/ Shop!Publish(a) \/ Shop!UpdateProduct(a)
             \/ Shop!UpdateVariant(a) \/ Shop!DeleteVariant(a) \/ Shop!DeleteCategory(a)
      PROVE  SalesInv' /\ Shop!PlacesDistinct'
  <2>1. SalesInv' /\ (ShelfKept \/ ShelfExtended)
    BY <1>3, CreateSales, CopySales, PublishSales, UpdateSales, UpdateVariantSales, RetireSales, CategorySales
  <2> QED
    BY <2>1, PlacesKept
<1>4. ASSUME \/ Shop!Withdraw \/ Shop!DeleteProducts \/ Shop!RestoreProduct
             \/ Shop!CreateVariant \/ Shop!SellVariant \/ Shop!UpdateCategoryStatus \/ Shop!RestoreCategory
      PROVE  SalesInv' /\ Shop!PlacesDistinct'
  <2>1. SalesInv' /\ (ShelfKept \/ ShelfExtended)
    BY <1>4, WithdrawSales, TrashSales, RestoreSales, CreateVariantSales, SellSales, CategorySales
  <2> QED
    BY <2>1, PlacesKept
<1>5. ASSUME Shop!MoveWebsiteOrder PROVE SalesInv' /\ Shop!PlacesDistinct'
    BY <1>5, MoveSales, MovePlaces
<1> QED
    BY <1>1, <1>2, <1>3, <1>4, <1>5 DEF Shop!Next

LEMMA SalesGive ==
    ASSUME ShopAssumption, NamesInv, SalesInv PROVE Shop!PublishedIsSellable /\ Shop!CachedStockFollows
<1>1. Shop!PublishedIsSellable
    BY DEF SalesInv, Sellable, NoOverlap, Shop!PublishedIsSellable, Shop!ListStorefrontProducts,
           Shop!GetStorefrontProductBySlug
<1>2. ASSUME catalogueDrift = {}, NEW p \in ProductIds, products[p] # Shop!None, products[p].has_variants
      PROVE  /\ products[p].stock = Shop!CachedStock(variants, p)
             /\ products[p].stock > 0 <=> \E v \in Shop!ActiveIn(variants, p) : variants[v].stock > 0
  <2>1. products[p].stock = Shop!CachedStock(variants, p)
    BY <1>2 DEF SalesInv, StockFollows
  <2>2. PICK S \in SUBSET VariantIds : S = Shop!ActiveIn(variants, p) /\ IsFiniteSet(S)
    BY StockSummed
  <2>3. PICK f : f = [v \in VariantIds |-> variants[v].stock]
    OBVIOUS
  <2>4. \A v \in S : variants[v] \in Shop!VariantRow
    BY <2>2, ExistingRow DEF Shop!ActiveIn, Shop!VariantsIn
  <2>5. \A v \in S : f[v] = variants[v].stock /\ f[v] \in Nat
    BY <2>3, <2>4, VariantShape, ShopIds
  <2>6. PICK n \in Nat : n = Shop!CachedStock(variants, p) /\ n = Total(f, S)
    BY <2>2, <2>3, <2>5, StockSummed, TotalNat
  <2>7. CASE \A v \in S : variants[v].stock = 0
    <3>1. n = 0
      BY <2>2, <2>6, <2>7, NothingInStock
    <3> QED
      BY <2>1, <2>2, <2>6, <2>7, <3>1
  <2>8. CASE \E v \in S : variants[v].stock # 0
    <3>1. PICK v \in S : variants[v].stock # 0
      BY <2>8
    <3>2. f[v] <= n
      BY <2>2, <2>5, <2>6, AtMostTotal
    <3>3. n > 0 /\ variants[v].stock > 0
      BY <2>5, <2>6, <3>1, <3>2
    <3> QED
      BY <2>1, <2>2, <2>6, <3>3
  <2> QED
    BY <2>7, <2>8
<1>3. Shop!CachedStockFollows
    BY <1>2 DEF Shop!CachedStockFollows, Shop!ListStorefrontProducts, Shop!GetStorefrontProductBySlug,
                Shop!LiveProducts, Shop!Live
<1> QED
    BY <1>1, <1>3

\* As long as no two requests overlapped, what is on sale keeps its category and a variant to
\* buy, and as long as nothing was sold either, the stock shown is that of the active variants:
\* without overlap one request runs at most, and what it read still stands when it writes.  No
\* two products ever share a place on the shelf, whatever overlaps.
THEOREM PublishedIsSellableAlways ==
    ASSUME ShopAssumption
    PROVE  Shop!Spec => [](Shop!PublishedIsSellable /\ Shop!CachedStockFollows /\ Shop!PlacesDistinct)
<1> DEFINE Held == NamesInv /\ SalesInv /\ Shop!PlacesDistinct
<1>1. Shop!Init => Held
    BY InitNames, InitSales
<1>2. Held /\ [Shop!Next]_(Shop!vars) => Held'
    BY StepNames, StepSales
<1>3. Held => Shop!PublishedIsSellable /\ Shop!CachedStockFollows /\ Shop!PlacesDistinct
    BY SalesGive
<1> HIDE DEF Held
<1> QED
    BY <1>1, <1>2, <1>3, PTL DEF Shop!Spec

-----------------------------------------------------------------------------
(* Images, gallery assets and content blocks                                 *)

\* The keys of a product's own images and of the gallery are apart, and ids count from one.
MediaAssumption ==
    /\ ImageKeys \cap AssetKeys = {} /\ VideoKeys \subseteq AssetKeys
    /\ Media!None \notin Media!Keys
    /\ \E n, m \in Nat : ImageIds = 1..n /\ RowIds = 1..m

BlockEdit == ({"text"} \X BOOLEAN) \cup ({"asset"} \X (AssetKeys \cup {Media!None}))

UploadRequest ==
    {Media!Idle}
    \cup [op : {"attach"}, key : ImageKeys \cup {Media!None}, asset : AssetKeys \cup {Media!None}, primary : BOOLEAN]
    \cup [op : {"choose"}, image : ImageIds, was : BOOLEAN]
    \cup [op : {"delete"}, image : ImageIds, was : BOOLEAN, key : ImageKeys \cup {Media!None}]
    \cup [op : {"remove"}, key : ImageKeys \cup AssetKeys]
    \cup [op : {"register"}, key : AssetKeys]
    \cup [op : {"deleteAsset"}, key : AssetKeys]
    \cup [op : {"create"}, made : SUBSET (Media!BlockRow \cup Media!AssignmentRow)]
    \cup [op : {"update"}, row : RowIds, edit : BlockEdit]

HasKey(i, k) == images[i] # Media!None /\ images[i].key = k
KeysDistinct == \A i, j \in ImageIds, k \in ImageKeys : HasKey(i, k) /\ HasKey(j, k) => i = j

\* What a request names: an upload that is attached still has its object unless an image has
\* had its key, an object is removed only after its row was, and an edit is of a block.
UploadRefers(q) ==
    /\ q.op = "attach" /\ q.key # Media!None =>
           uploads[q.key] # "old" /\ (q.key \in objects \/ \E i \in ImageIds : HasKey(i, q.key))
    /\ q.op \in {"choose", "delete"} => images[q.image] # Media!None
    /\ q.op = "delete" => images[q.image].key = q.key
    /\ q.op = "remove" /\ q.key \in ImageKeys => \E i \in ImageIds : HasKey(i, q.key) /\ images[i].deleted
    /\ q.op = "remove" /\ q.key \in AssetKeys => assets[q.key] = "deleted"
    /\ q.op = "register" => q.key \in objects \/ assets[q.key] = "deleted"
    /\ q.op = "update" => rows[q.row] = Media!None \/ rows[q.row].kind = "block"

\* What the cleanup script is about to remove was too old for any request, and what an image
\* owns of it was read as referenced.
CleanupSafe ==
    cleanup # Media!None =>
        /\ cleanup.past \subseteq ImageKeys /\ \A k \in cleanup.past : uploads[k] = "old"
        /\ cleanup.past \cap Media!OwnKeys \subseteq cleanup.referenced

AssetsStored == \A k \in AssetKeys : assets[k] = "live" => k \in objects
CleanupTyped == cleanup \in {Media!None} \cup [referenced : SUBSET ImageKeys, past : SUBSET ImageKeys]

ObjectsInv ==
    /\ Media!TypeOK /\ uploading \in [Uploaders -> UploadRequest]
    /\ CleanupTyped
    /\ KeysDistinct /\ CleanupSafe
    /\ \A a \in Uploaders : UploadRefers(uploading[a])
    /\ Media!OwnObjectStored
    /\ AssetsStored

Undisturbed == mediaDrift = {}
UploadingAlone == Undisturbed => \A a, b \in Uploaders : uploading[a] # Media!Idle /\ uploading[b] # Media!Idle => a = b

Shown(k) == k # Media!None => assets[k] = "live"
UploadStands(q) ==
    /\ q.op = "attach" => Shown(q.asset)
    /\ q.op \in {"choose", "delete"} => q.image \in Media!LiveImages
    /\ q.op = "delete" => q.was = images[q.image].is_primary
    /\ q.op = "deleteAsset" => ~Media!InUse(q.key)
    /\ q.op = "create" => \A row \in q.made : Shown(row.asset) /\ ~Media!Empty(row)
    /\ q.op = "update" => /\ rows[q.row] # Media!None
                          /\ q.edit[1] = "asset" => Shown(q.edit[2]) /\ (q.edit[2] # Media!None \/ rows[q.row].text)
                          /\ q.edit[1] = "text" => q.edit[2] \/ rows[q.row].asset # Media!None

OnePrimary ==
    Media!LiveImages # {} =>
        \E i \in Media!LiveImages :
            images[i].is_primary = TRUE /\ \A j \in Media!LiveImages : images[j].is_primary = TRUE => j = i
AllShown ==
    /\ \A i \in Media!LiveImages : Shown(images[i].asset)
    /\ \A r \in Media!Rows : Shown(rows[r].asset) /\ ~Media!Empty(rows[r])

IntactInv ==
    /\ UploadingAlone
    /\ Undisturbed => OnePrimary /\ AllShown /\ \A a \in Uploaders : UploadStands(uploading[a])

LEMMA ImageShape ==
    /\ \A row \in Media!ImageRow :
        /\ row # Media!None /\ row.key \in ImageKeys \cup {Media!None} /\ row.asset \in AssetKeys \cup {Media!None}
        /\ row.is_primary \in BOOLEAN /\ row.deleted \in BOOLEAN
    /\ \A k \in ImageKeys \cup {Media!None}, s \in AssetKeys \cup {Media!None}, on \in BOOLEAN, d \in BOOLEAN :
        [key |-> k, asset |-> s, is_primary |-> on, deleted |-> d] \in Media!ImageRow
<1> QED
    BY DEF Media!ImageRow, Media!None

ContentRow == Media!BlockRow \cup Media!AssignmentRow

LEMMA ContentShape ==
    ASSUME MediaAssumption
    PROVE  /\ \A row \in ContentRow :
               /\ row # Media!None /\ row.asset \in AssetKeys \cup {Media!None} /\ row.text \in BOOLEAN
               /\ row.kind = "block" <=> row \in Media!BlockRow
           /\ \A k \in AssetKeys \cup {Media!None}, t \in BOOLEAN :
               [kind |-> "block", asset |-> k, text |-> t] \in Media!BlockRow
           /\ \A k \in VideoKeys : [kind |-> "video", asset |-> k, text |-> TRUE] \in Media!AssignmentRow
<1> QED
    BY DEF MediaAssumption, ContentRow, Media!BlockRow, Media!AssignmentRow, Media!None

LEMMA KeysApart ==
    ASSUME MediaAssumption
    PROVE  /\ \A k \in ImageKeys : k \notin AssetKeys /\ k # Media!None /\ k \in Media!Keys
           /\ \A k \in AssetKeys : k \notin ImageKeys /\ k # Media!None /\ k \in Media!Keys
           /\ \A k \in Media!Keys : k \in ImageKeys \/ k \in AssetKeys
           /\ \A k \in VideoKeys : k \in AssetKeys
<1> QED
    BY DEF MediaAssumption, Media!Keys

LEMMA UploadRequestShape ==
    ASSUME NEW q \in UploadRequest
    PROVE  /\ q.op \in {"idle", "attach", "choose", "delete", "remove", "register", "deleteAsset", "create", "update"}
           /\ q.op = "attach" => /\ q.key \in ImageKeys \cup {Media!None} /\ q.asset \in AssetKeys \cup {Media!None}
                                 /\ q.primary \in BOOLEAN
           /\ q.op = "choose" => q.image \in ImageIds /\ q.was \in BOOLEAN
           /\ q.op = "delete" => q.image \in ImageIds /\ q.was \in BOOLEAN /\ q.key \in ImageKeys \cup {Media!None}
           /\ q.op = "remove" => q.key \in ImageKeys \cup AssetKeys
           /\ q.op \in {"register", "deleteAsset"} => q.key \in AssetKeys
           /\ q.op = "create" => q.made \in SUBSET ContentRow
           /\ q.op = "update" => q.row \in RowIds /\ q.edit \in BlockEdit
<1>1. CASE q = Media!Idle
    BY <1>1 DEF Media!Idle
<1>2. CASE q \in [op : {"attach"}, key : ImageKeys \cup {Media!None}, asset : AssetKeys \cup {Media!None}, primary : BOOLEAN]
    BY <1>2
<1>3. CASE q \in [op : {"choose"}, image : ImageIds, was : BOOLEAN]
    BY <1>3
<1>4. CASE q \in [op : {"delete"}, image : ImageIds, was : BOOLEAN, key : ImageKeys \cup {Media!None}]
    BY <1>4
<1>5. CASE q \in [op : {"remove"}, key : ImageKeys \cup AssetKeys]
    BY <1>5
<1>6. CASE q \in [op : {"register"}, key : AssetKeys]
    BY <1>6
<1>7. CASE q \in [op : {"deleteAsset"}, key : AssetKeys]
    BY <1>7
<1>8. CASE q \in [op : {"create"}, made : SUBSET (Media!BlockRow \cup Media!AssignmentRow)]
    BY <1>8 DEF ContentRow
<1>9. CASE q \in [op : {"update"}, row : RowIds, edit : BlockEdit]
    BY <1>9
<1> QED
    BY <1>1, <1>2, <1>3, <1>4, <1>5, <1>6, <1>7, <1>8, <1>9 DEF UploadRequest

\* The columns of a row of an image, one by one.
ImageIs(row, key, asset, primary, deleted) ==
    row.key = key /\ row.asset = asset /\ row.is_primary = primary /\ row.deleted = deleted

LEMMA ImagePrimarySet ==
    ASSUME NEW row \in Media!ImageRow, NEW x \in BOOLEAN
    PROVE  \E new \in Media!ImageRow :
               new = [row EXCEPT !.is_primary = x] /\ ImageIs(new, row.key, row.asset, x, row.deleted)
<1>1. [row EXCEPT !.is_primary = x] \in Media!ImageRow
    BY DEF Media!ImageRow
<1>2. ImageIs([row EXCEPT !.is_primary = x], row.key, row.asset, x, row.deleted)
    BY DEF Media!ImageRow, ImageIs
<1> QED
    BY <1>1, <1>2

LEMMA ImageDeletedSet ==
    ASSUME NEW row \in Media!ImageRow, NEW x \in BOOLEAN
    PROVE  \E new \in Media!ImageRow :
               new = [row EXCEPT !.deleted = x] /\ ImageIs(new, row.key, row.asset, row.is_primary, x)
<1>1. [row EXCEPT !.deleted = x] \in Media!ImageRow
    BY DEF Media!ImageRow
<1>2. ImageIs([row EXCEPT !.deleted = x], row.key, row.asset, row.is_primary, x)
    BY DEF Media!ImageRow, ImageIs
<1> QED
    BY <1>1, <1>2

LEMMA BlockTextSet ==
    ASSUME NEW row \in Media!BlockRow, NEW x \in BOOLEAN
    PROVE  \E new \in Media!BlockRow : new = [row EXCEPT !["text"] = x] /\ new.asset = row.asset /\ new.text = x
<1>1. [row EXCEPT !["text"] = x] \in Media!BlockRow
    BY DEF Media!BlockRow
<1>2. [row EXCEPT !["text"] = x].asset = row.asset /\ [row EXCEPT !["text"] = x].text = x
    BY DEF Media!BlockRow
<1> QED
    BY <1>1, <1>2

LEMMA BlockAssetSet ==
    ASSUME NEW row \in Media!BlockRow, NEW x \in AssetKeys \cup {Media!None}
    PROVE  \E new \in Media!BlockRow : new = [row EXCEPT !["asset"] = x] /\ new.asset = x /\ new.text = row.text
<1>1. [row EXCEPT !["asset"] = x] \in Media!BlockRow
    BY DEF Media!BlockRow
<1>2. [row EXCEPT !["asset"] = x].asset = x /\ [row EXCEPT !["asset"] = x].text = row.text
    BY DEF Media!BlockRow
<1> QED
    BY <1>1, <1>2

LEMMA MediaIds ==
    ASSUME MediaAssumption
    PROVE  /\ ImageIds \subseteq Nat /\ IsFiniteSet(ImageIds) /\ RowIds \subseteq Nat /\ IsFiniteSet(RowIds)
<1>1. PICK n \in Nat, m \in Nat : ImageIds = 1..n /\ RowIds = 1..m
    BY DEF MediaAssumption
<1> QED
    BY <1>1, FS_Interval

LEMMA FreshImageIs ==
    ASSUME MediaAssumption, NEW i, i = Media!Min({j \in ImageIds : images[j] = Media!None}),
           \E j \in ImageIds : images[j] = Media!None
    PROVE  i \in ImageIds /\ images[i] = Media!None
<1>1. PICK S \in SUBSET Nat : S = {j \in ImageIds : images[j] = Media!None}
    BY MediaIds
<1>2. \E x \in S : \A y \in S : x <= y
    BY <1>1, LeastMember
<1>3. i \in S
    BY <1>1, <1>2 DEF Media!Min
<1> QED
    BY <1>1, <1>3

LEMMA FreshRowIs ==
    ASSUME MediaAssumption, NEW r, r = Media!Min(Media!FreeRows), Media!FreeRows # {}
    PROVE  /\ r \in RowIds /\ rows[r] = Media!None
           /\ \A a \in Uploaders : uploading[a].op = "update" => uploading[a].row # r
<1>1. PICK S \in SUBSET Nat : S = Media!FreeRows
    BY MediaIds DEF Media!FreeRows
<1>2. \E x \in S : \A y \in S : x <= y
    BY <1>1, LeastMember
<1>3. r \in S
    BY <1>1, <1>2 DEF Media!Min
<1> QED
    BY <1>1, <1>3 DEF Media!FreeRows

-----------------------------------------------------------------------------
(* Objects: what every step keeps                                            *)

TablesTyped ==
    /\ uploads \in [Media!Keys -> {"none", "fresh", "expired", "old"}] /\ objects \subseteq Media!Keys
    /\ images \in [ImageIds -> Media!ImageRow \cup {Media!None}]
    /\ assets \in [AssetKeys -> Media!AssetStatus]
    /\ rows \in [RowIds -> ContentRow \cup {Media!None}]

LEMMA TypedMedia ==
    ASSUME ObjectsInv
    PROVE  /\ TablesTyped /\ CleanupTyped /\ uploading \in [Uploaders -> UploadRequest]
           /\ mediaDrift \subseteq {"overlap", "rechosen"}
<1> QED
    BY DEF ObjectsInv, Media!TypeOK, TablesTyped, ContentRow

LEMMA ObjectsKept ==
    ASSUME TablesTyped', CleanupTyped', uploading' \in [Uploaders -> UploadRequest],
           mediaDrift' \subseteq {"overlap", "rechosen"}, KeysDistinct', CleanupSafe',
           \A a \in Uploaders : UploadRefers(uploading[a])', Media!OwnObjectStored', AssetsStored'
    PROVE  ObjectsInv'
<1>1. Media!TypeOK'
  <2>1. DOMAIN uploading' = Uploaders
    OBVIOUS
  <2> QED
    BY <2>1 DEF Media!TypeOK, TablesTyped, ContentRow
<1> QED
    BY <1>1 DEF ObjectsInv

LEMMA OwnKeysAre ==
    ASSUME TablesTyped
    PROVE  /\ Media!OwnKeys \subseteq ImageKeys
           /\ \A k : k \in Media!OwnKeys <=>
                  k # Media!None /\ \E i \in ImageIds : HasKey(i, k) /\ images[i].deleted = FALSE
<1>1. \A i \in ImageIds : images[i] # Media!None =>
        images[i].key \in ImageKeys \cup {Media!None} /\ images[i].deleted \in BOOLEAN
    BY ImageShape DEF TablesTyped
<1>2. \A k : k \in Media!OwnKeys <=> k # Media!None /\ \E i \in Media!LiveImages : images[i].key = k
    BY DEF Media!OwnKeys
<1>3. \A i : i \in Media!LiveImages <=> i \in ImageIds /\ images[i] # Media!None /\ images[i].deleted = FALSE
    BY <1>1 DEF Media!LiveImages
<1> QED
    BY <1>1, <1>2, <1>3 DEF HasKey

\* Rows of images are only ever marked as deleted, and so are assets.
ImagesStay ==
    \A i \in ImageIds : images[i] # Media!None =>
        images'[i] # Media!None /\ images'[i].key = images[i].key /\ (images[i].deleted => images'[i].deleted)
AssetsStay == \A k \in AssetKeys : assets[k] = "deleted" => assets'[k] = "deleted"

LEMMA RefersKept ==
    ASSUME NEW q \in UploadRequest, UploadRefers(q), ImagesStay, AssetsStay,
           q.op = "attach" /\ q.key # Media!None =>
               uploads'[q.key] # "old" /\ (q.key \in objects' \/ q.key \notin objects \/ \E i \in ImageIds : HasKey(i, q.key)),
           q.op = "register" => (q.key \in objects' \/ q.key \notin objects \/ assets[q.key] = "deleted"),
           q.op = "update" => rows'[q.row] = Media!None \/ rows'[q.row].kind = "block"
    PROVE  UploadRefers(q)'
<1>1. \A k : \A i \in ImageIds : HasKey(i, k) => HasKey(i, k)'
    BY DEF ImagesStay, HasKey
<1>2. q.op = "attach" /\ q.key # Media!None =>
        uploads'[q.key] # "old" /\ (q.key \in objects' \/ \E i \in ImageIds : HasKey(i, q.key)')
    BY <1>1 DEF UploadRefers
<1>3. q.op \in {"choose", "delete"} => images'[q.image] # Media!None
    BY UploadRequestShape DEF UploadRefers, ImagesStay
<1>4. q.op = "delete" => images'[q.image].key = q.key
    BY UploadRequestShape DEF UploadRefers, ImagesStay
<1>5. q.op = "remove" /\ q.key \in ImageKeys => \E i \in ImageIds : HasKey(i, q.key)' /\ images'[i].deleted
    BY <1>1 DEF UploadRefers, ImagesStay, HasKey
<1>6. q.op = "remove" /\ q.key \in AssetKeys => assets'[q.key] = "deleted"
    BY DEF UploadRefers, AssetsStay
<1>7. q.op = "register" => q.key \in objects' \/ assets'[q.key] = "deleted"
    BY UploadRequestShape DEF UploadRefers, AssetsStay
<1> QED
    BY <1>2, <1>3, <1>4, <1>5, <1>6, <1>7 DEF UploadRefers, HasKey

-----------------------------------------------------------------------------
(* Objects: uploads and the cleanup script                                   *)

LEMMA UploadObjects ==
    ASSUME MediaAssumption, ObjectsInv, Media!AuthorizeUpload \/ Media!BrowserUploads \/ Media!KeyAges PROVE ObjectsInv'
<1>1. UNCHANGED <<images, assets, rows, uploading, cleanup, mediaDrift>>
    BY DEF Media!AuthorizeUpload, Media!BrowserUploads, Media!KeyAges
<1>2. TablesTyped /\ CleanupTyped
    BY TypedMedia
<1>3. TablesTyped'
    BY <1>1, <1>2 DEF TablesTyped, Media!AuthorizeUpload, Media!BrowserUploads, Media!KeyAges
<1>4. objects \subseteq objects'
    BY DEF Media!AuthorizeUpload, Media!BrowserUploads, Media!KeyAges
<1>5. \A k \in Media!Keys : uploads[k] = "old" => uploads'[k] = "old"
    BY <1>2 DEF TablesTyped, Media!AuthorizeUpload, Media!BrowserUploads, Media!KeyAges
<1>6. ASSUME NEW a \in Uploaders PROVE UploadRefers(uploading[a])'
  <2>1. PICK q \in UploadRequest : q = uploading[a] /\ UploadRefers(q)
    BY TypedMedia DEF ObjectsInv
  <2>2. q.op = "attach" /\ q.key # Media!None => uploads'[q.key] # "old"
    <3> SUFFICES ASSUME q.op = "attach", q.key # Media!None PROVE uploads'[q.key] # "old"
      OBVIOUS
    <3>1. uploads[q.key] # "old" /\ q.key \in Media!Keys
      BY <2>1, KeysApart, UploadRequestShape DEF UploadRefers
    <3>2. CASE Media!AuthorizeUpload
      BY <1>2, <3>1, <3>2 DEF TablesTyped, Media!AuthorizeUpload
    <3>3. CASE Media!BrowserUploads
      BY <3>1, <3>3 DEF Media!BrowserUploads
    <3>4. CASE Media!KeyAges
      <4>1. PICK k \in Media!Keys, age \in {"expired", "old"} :
              uploads' = [uploads EXCEPT ![k] = age]
              /\ (age = "old" => ~\E b \in Uploaders : uploading[b].op \in {"attach", "register"} /\ uploading[b].key = k)
        BY <3>4 DEF Media!KeyAges
      <4>2. age = "old" => q.key # k
        BY <2>1, <4>1
      <4> QED
        BY <1>2, <3>1, <4>1, <4>2 DEF TablesTyped
    <3> QED
      BY <3>2, <3>3, <3>4
  <2>3. q.op = "update" => rows'[q.row] = Media!None \/ rows'[q.row].kind = "block"
    BY <1>1, <2>1 DEF UploadRefers
  <2>4. ImagesStay /\ AssetsStay
    BY <1>1 DEF ImagesStay, AssetsStay
  <2>5. UploadRefers(q)'
    BY <1>4, <2>1, <2>2, <2>3, <2>4, RefersKept
  <2> QED
    BY <1>1, <2>1, <2>5 DEF UploadRefers, HasKey
<1>7. Media!OwnObjectStored' /\ AssetsStored'
    BY <1>1, <1>4 DEF ObjectsInv, Media!OwnObjectStored, AssetsStored, Media!OwnKeys, Media!LiveImages
<1>8. CleanupSafe'
    BY <1>1, <1>2, <1>5, KeysApart DEF ObjectsInv, CleanupSafe, CleanupTyped, Media!OwnKeys, Media!LiveImages
<1>9. KeysDistinct' /\ CleanupTyped'
    BY <1>1, <1>2 DEF ObjectsInv, KeysDistinct, HasKey, CleanupTyped
<1> QED
    BY <1>1, <1>3, <1>6, <1>7, <1>8, <1>9, TypedMedia, ObjectsKept

LEMMA BeginCleanupObjects == ASSUME MediaAssumption, ObjectsInv, Media!BeginCleanup PROVE ObjectsInv'
<1>1. UNCHANGED <<uploads, objects, images, assets, rows, uploading, mediaDrift>>
    BY DEF Media!BeginCleanup
<1>2. TablesTyped
    BY TypedMedia
<1>3. PICK referenced \in SUBSET ImageKeys, past \in SUBSET ImageKeys :
        referenced = Media!OwnKeys /\ past = {k \in ImageKeys : uploads[k] = "old"}
    BY <1>2, OwnKeysAre
<1>4. cleanup' = [referenced |-> referenced, past |-> past]
    BY <1>3 DEF Media!BeginCleanup
<1>5. CleanupTyped' /\ CleanupSafe'
    BY <1>1, <1>3, <1>4 DEF CleanupTyped, CleanupSafe, Media!OwnKeys, Media!LiveImages
<1>6. TablesTyped' /\ KeysDistinct' /\ Media!OwnObjectStored' /\ AssetsStored'
    BY <1>1, <1>2 DEF TablesTyped, ObjectsInv, KeysDistinct, HasKey, Media!OwnObjectStored, AssetsStored,
                      Media!OwnKeys, Media!LiveImages
<1>7. \A a \in Uploaders : UploadRefers(uploading[a])'
    BY <1>1 DEF ObjectsInv, UploadRefers, HasKey
<1> QED
    BY <1>1, <1>5, <1>6, <1>7, TypedMedia, ObjectsKept

LEMMA CleanupObjects == ASSUME MediaAssumption, ObjectsInv, Media!Cleanup PROVE ObjectsInv'
<1>1. UNCHANGED <<uploads, images, assets, rows, uploading, mediaDrift>> /\ cleanup # Media!None /\ cleanup' = Media!None
    BY DEF Media!Cleanup
<1>2. TablesTyped
    BY TypedMedia
<1>3. PICK referenced \in SUBSET ImageKeys, past \in SUBSET ImageKeys :
        referenced = cleanup.referenced /\ past = cleanup.past
    BY <1>1, TypedMedia DEF CleanupTyped
<1>4. objects' = objects \ (past \ referenced)
    BY <1>3 DEF Media!Cleanup
<1>5. /\ \A k \in past : uploads[k] = "old"
      /\ past \cap Media!OwnKeys \subseteq referenced
    BY <1>1, <1>3 DEF ObjectsInv, CleanupSafe
<1>6. TablesTyped' /\ KeysDistinct' /\ CleanupTyped' /\ CleanupSafe'
    BY <1>1, <1>2, <1>4 DEF TablesTyped, ObjectsInv, KeysDistinct, HasKey, CleanupTyped, CleanupSafe
<1>7. Media!OwnObjectStored'
    BY <1>1, <1>4, <1>5 DEF ObjectsInv, Media!OwnObjectStored, Media!OwnKeys, Media!LiveImages
<1>8. AssetsStored'
    BY <1>1, <1>4, KeysApart DEF ObjectsInv, AssetsStored
<1>9. ASSUME NEW a \in Uploaders PROVE UploadRefers(uploading[a])'
  <2>1. PICK q \in UploadRequest : q = uploading[a] /\ UploadRefers(q)
    BY TypedMedia DEF ObjectsInv
  <2>2. q.op = "attach" /\ q.key # Media!None =>
          uploads'[q.key] # "old" /\ (q.key \in objects' \/ q.key \notin objects)
    BY <1>1, <1>4, <1>5, <2>1 DEF UploadRefers
  <2>3. q.op = "register" => (q.key \in objects' \/ q.key \notin objects)
    BY <1>4, KeysApart, UploadRequestShape
  <2>4. q.op = "update" => rows'[q.row] = Media!None \/ rows'[q.row].kind = "block"
    BY <1>1, <2>1 DEF UploadRefers
  <2>5. ImagesStay /\ AssetsStay
    BY <1>1 DEF ImagesStay, AssetsStay
  <2>6. UploadRefers(q)'
    BY <2>1, <2>2, <2>3, <2>4, <2>5, RefersKept
  <2> QED
    BY <1>1, <2>1, <2>6 DEF UploadRefers, HasKey
<1> QED
    BY <1>1, <1>6, <1>7, <1>8, <1>9, TypedMedia, ObjectsKept

-----------------------------------------------------------------------------
(* Objects: requests that begin                                              *)

LEMMA BlockEditShape ==
    ASSUME NEW edit \in BlockEdit
    PROVE  \/ edit[1] = "text" /\ edit[2] \in BOOLEAN
           \/ edit[1] = "asset" /\ edit[2] \in AssetKeys \cup {Media!None}
<1> QED
    BY DEF BlockEdit

\* What an edit would make of a block.
LEMMA EditedBlock ==
    ASSUME MediaAssumption, NEW row \in Media!BlockRow, NEW edit \in BlockEdit
    PROVE  \E new \in Media!BlockRow :
               /\ new = [row EXCEPT ![edit[1]] = edit[2]]
               /\ edit[1] = "text" => new.asset = row.asset /\ new.text = edit[2]
               /\ edit[1] = "asset" => new.asset = edit[2] /\ new.text = row.text
<1>1. CASE edit[1] = "text" /\ edit[2] \in BOOLEAN
  <2>1. PICK x \in BOOLEAN : x = edit[2]
    BY <1>1
  <2>2. PICK new \in Media!BlockRow : new = [row EXCEPT !["text"] = x] /\ new.asset = row.asset /\ new.text = x
    BY BlockTextSet
  <2>3. new = [row EXCEPT ![edit[1]] = edit[2]]
    BY <1>1, <2>1, <2>2, Zenon
  <2> QED
    BY <1>1, <2>1, <2>2, <2>3
<1>2. CASE edit[1] = "asset" /\ edit[2] \in AssetKeys \cup {Media!None}
  <2>1. PICK x \in AssetKeys \cup {Media!None} : x = edit[2]
    BY <1>2
  <2>2. PICK new \in Media!BlockRow : new = [row EXCEPT !["asset"] = x] /\ new.asset = x /\ new.text = row.text
    BY BlockAssetSet
  <2>3. new = [row EXCEPT ![edit[1]] = edit[2]]
    BY <1>2, <2>1, <2>2, Zenon
  <2> QED
    BY <1>2, <2>1, <2>2, <2>3
<1> QED
    BY <1>1, <1>2, BlockEditShape

\* What begins is right about what it read; only a copy of a row is as good as that row.
GoodStart(q) == UploadRefers(q) /\ (AllShown => UploadStands(q))

LEMMA ImageRequestBegins ==
    ASSUME MediaAssumption, ObjectsInv, NEW a \in Uploaders,
           \/ Media!BeginCompleteUpload(a) \/ Media!BeginAttachFromMediaAsset(a)
           \/ Media!BeginUpdateImage(a) \/ Media!BeginDeleteImage(a)
    PROVE  \E q \in UploadRequest : GoodStart(q) /\ Media!Begin(a, q)
<1>1. CASE Media!BeginCompleteUpload(a)
  <2>1. PICK k \in ImageKeys, primary \in BOOLEAN :
          /\ Media!Verified(k)
          /\ Media!Begin(a, [op |-> "attach", key |-> k, asset |-> Media!None, primary |-> primary])
    BY <1>1 DEF Media!BeginCompleteUpload
  <2>2. PICK q : q = [op |-> "attach", key |-> k, asset |-> Media!None, primary |-> primary]
    OBVIOUS
  <2>3. q \in UploadRequest
    BY <2>2 DEF UploadRequest
  <2>4. UploadRefers(q) /\ UploadStands(q)
    BY <2>1, <2>2 DEF UploadRefers, UploadStands, Shown, Media!Verified
  <2> QED
    BY <2>1, <2>2, <2>3, <2>4 DEF GoodStart
<1>2. CASE Media!BeginAttachFromMediaAsset(a)
  <2>1. PICK k \in AssetKeys, primary \in BOOLEAN :
          /\ assets[k] = "live"
          /\ Media!Begin(a, [op |-> "attach", key |-> Media!None, asset |-> k, primary |-> primary])
    BY <1>2 DEF Media!BeginAttachFromMediaAsset
  <2>2. PICK q : q = [op |-> "attach", key |-> Media!None, asset |-> k, primary |-> primary]
    OBVIOUS
  <2>3. q \in UploadRequest
    BY <2>2 DEF UploadRequest
  <2>4. UploadRefers(q) /\ UploadStands(q)
    BY <2>1, <2>2 DEF UploadRefers, UploadStands, Shown
  <2> QED
    BY <2>1, <2>2, <2>3, <2>4 DEF GoodStart
<1>3. CASE Media!BeginUpdateImage(a)
  <2>1. PICK i \in Media!LiveImages : Media!Begin(a, [op |-> "choose", image |-> i, was |-> images[i].is_primary])
    BY <1>3 DEF Media!BeginUpdateImage
  <2>2. i \in ImageIds /\ images[i] \in Media!ImageRow /\ images[i] # Media!None
    BY TypedMedia DEF TablesTyped, Media!LiveImages
  <2>3. PICK was \in BOOLEAN : was = images[i].is_primary
    BY <2>2, ImageShape
  <2>4. PICK q : q = [op |-> "choose", image |-> i, was |-> was]
    OBVIOUS
  <2>5. q \in UploadRequest
    BY <2>2, <2>4 DEF UploadRequest
  <2>6. UploadRefers(q) /\ UploadStands(q)
    BY <2>2, <2>4 DEF UploadRefers, UploadStands
  <2> QED
    BY <2>1, <2>3, <2>4, <2>5, <2>6 DEF GoodStart
<1>4. CASE Media!BeginDeleteImage(a)
  <2>1. PICK i \in Media!LiveImages :
          Media!Begin(a, [op |-> "delete", image |-> i, was |-> images[i].is_primary, key |-> images[i].key])
    BY <1>4 DEF Media!BeginDeleteImage
  <2>2. i \in ImageIds /\ images[i] \in Media!ImageRow /\ images[i] # Media!None
    BY TypedMedia DEF TablesTyped, Media!LiveImages
  <2>3. PICK was \in BOOLEAN, k \in ImageKeys \cup {Media!None} : was = images[i].is_primary /\ k = images[i].key
    BY <2>2, ImageShape
  <2>4. PICK q : q = [op |-> "delete", image |-> i, was |-> was, key |-> k]
    OBVIOUS
  <2>5. q \in UploadRequest
    BY <2>2, <2>4 DEF UploadRequest
  <2>6. UploadRefers(q) /\ UploadStands(q)
    BY <2>2, <2>3, <2>4 DEF UploadRefers, UploadStands
  <2> QED
    BY <2>1, <2>3, <2>4, <2>5, <2>6 DEF GoodStart
<1> QED
    BY <1>1, <1>2, <1>3, <1>4

LEMMA AssetRequestBegins ==
    ASSUME MediaAssumption, ObjectsInv, NEW a \in Uploaders, Media!BeginRegisterAsset(a) \/ Media!BeginDeleteAsset(a)
    PROVE  \E q \in UploadRequest : GoodStart(q) /\ Media!Begin(a, q)
<1>1. CASE Media!BeginRegisterAsset(a)
  <2>1. PICK k \in AssetKeys : Media!Verified(k) /\ Media!Begin(a, [op |-> "register", key |-> k])
    BY <1>1 DEF Media!BeginRegisterAsset
  <2>2. PICK q : q = [op |-> "register", key |-> k]
    OBVIOUS
  <2>3. q \in UploadRequest
    BY <2>2 DEF UploadRequest
  <2>4. UploadRefers(q) /\ UploadStands(q)
    BY <2>1, <2>2 DEF UploadRefers, UploadStands, Media!Verified
  <2> QED
    BY <2>1, <2>2, <2>3, <2>4 DEF GoodStart
<1>2. CASE Media!BeginDeleteAsset(a)
  <2>1. PICK k \in AssetKeys : ~Media!InUse(k) /\ Media!Begin(a, [op |-> "deleteAsset", key |-> k])
    BY <1>2 DEF Media!BeginDeleteAsset
  <2>2. PICK q : q = [op |-> "deleteAsset", key |-> k]
    OBVIOUS
  <2>3. q \in UploadRequest
    BY <2>2 DEF UploadRequest
  <2>4. UploadRefers(q) /\ UploadStands(q)
    BY <2>1, <2>2 DEF UploadRefers, UploadStands
  <2> QED
    BY <2>1, <2>2, <2>3, <2>4 DEF GoodStart
<1> QED
    BY <1>1, <1>2

LEMMA CreateRequestStarts ==
    ASSUME NEW made, made \in SUBSET ContentRow, AllShown => \A row \in made : Shown(row.asset) /\ ~Media!Empty(row),
           NEW q, q = [op |-> "create", made |-> made]
    PROVE  q \in UploadRequest /\ GoodStart(q)
<1>1. q \in UploadRequest
    BY DEF UploadRequest, ContentRow
<1> QED
    BY <1>1 DEF GoodStart, UploadRefers, UploadStands

LEMMA ContentRequestBegins ==
    ASSUME MediaAssumption, ObjectsInv, NEW a \in Uploaders,
           \/ Media!BeginCreateBlock(a) \/ Media!BeginCreateAssignment(a) \/ Media!BeginDuplicate(a)
           \/ Media!BeginUpdateBlock(a)
    PROVE  \E q \in UploadRequest : GoodStart(q) /\ Media!Begin(a, q)
<1>1. CASE Media!BeginCreateBlock(a)
  <2>1. PICK k \in AssetKeys \cup {Media!None}, text \in BOOLEAN :
          /\ k # Media!None => assets[k] = "live"
          /\ k # Media!None \/ text
          /\ Media!Begin(a, [op |-> "create", made |-> {[kind |-> "block", asset |-> k, text |-> text]}])
    BY <1>1 DEF Media!BeginCreateBlock
  <2>2. PICK row : row = [kind |-> "block", asset |-> k, text |-> text]
    OBVIOUS
  <2>3. row \in ContentRow /\ Shown(row.asset) /\ ~Media!Empty(row)
    BY <2>1, <2>2, ContentShape DEF ContentRow, Shown, Media!Empty
  <2>4. PICK q : q = [op |-> "create", made |-> {row}]
    OBVIOUS
  <2>5. q \in UploadRequest /\ GoodStart(q)
    <3>1. {row} \in SUBSET ContentRow /\ \A x \in {row} : Shown(x.asset) /\ ~Media!Empty(x)
      BY <2>3
    <3> QED
      BY <2>4, <3>1, CreateRequestStarts
  <2> QED
    BY <2>1, <2>2, <2>4, <2>5
<1>2. CASE Media!BeginCreateAssignment(a)
  <2>1. PICK k \in VideoKeys :
          assets[k] = "live" /\ Media!Begin(a, [op |-> "create", made |-> {[kind |-> "video", asset |-> k, text |-> TRUE]}])
    BY <1>2 DEF Media!BeginCreateAssignment
  <2>2. PICK row : row = [kind |-> "video", asset |-> k, text |-> TRUE]
    OBVIOUS
  <2>3. row \in ContentRow /\ Shown(row.asset) /\ ~Media!Empty(row)
    BY <2>1, <2>2, ContentShape DEF ContentRow, Shown, Media!Empty
  <2>4. PICK q : q = [op |-> "create", made |-> {row}]
    OBVIOUS
  <2>5. q \in UploadRequest /\ GoodStart(q)
    <3>1. {row} \in SUBSET ContentRow /\ \A x \in {row} : Shown(x.asset) /\ ~Media!Empty(x)
      BY <2>3
    <3> QED
      BY <2>4, <3>1, CreateRequestStarts
  <2> QED
    BY <2>1, <2>2, <2>4, <2>5
<1>3. CASE Media!BeginDuplicate(a)
  <2>1. PICK r \in Media!Rows : Media!Begin(a, [op |-> "create", made |-> {rows[r]}])
    BY <1>3 DEF Media!BeginDuplicate
  <2>2. PICK row \in ContentRow : row = rows[r]
    BY TypedMedia DEF TablesTyped, Media!Rows
  <2>3. AllShown => Shown(row.asset) /\ ~Media!Empty(row)
    BY <2>2 DEF AllShown
  <2>4. PICK q : q = [op |-> "create", made |-> {row}]
    OBVIOUS
  <2>5. q \in UploadRequest /\ GoodStart(q)
    <3>1. {row} \in SUBSET ContentRow /\ (AllShown => \A x \in {row} : Shown(x.asset) /\ ~Media!Empty(x))
      BY <2>3
    <3> QED
      BY <2>4, <3>1, CreateRequestStarts
  <2> QED
    BY <2>1, <2>2, <2>4, <2>5
<1>4. CASE Media!BeginUpdateBlock(a)
  <2>1. PICK r \in Media!Rows, edit \in BlockEdit :
          /\ rows[r].kind = "block"
          /\ edit[1] = "asset" /\ edit[2] # Media!None => assets[edit[2]] = "live"
          /\ ~Media!Empty([rows[r] EXCEPT ![edit[1]] = edit[2]])
          /\ Media!Begin(a, [op |-> "update", row |-> r, edit |-> edit])
    BY <1>4 DEF Media!BeginUpdateBlock, BlockEdit
  <2>2. PICK row \in Media!BlockRow : row = rows[r]
    BY <2>1, TypedMedia, ContentShape DEF TablesTyped, Media!Rows
  <2>3. PICK new \in Media!BlockRow :
          /\ new = [row EXCEPT ![edit[1]] = edit[2]]
          /\ edit[1] = "text" => new.asset = row.asset /\ new.text = edit[2]
          /\ edit[1] = "asset" => new.asset = edit[2] /\ new.text = row.text
    BY EditedBlock
  <2>4. ~Media!Empty(new)
    BY <2>1, <2>2, <2>3
  <2>5. r \in RowIds /\ rows[r] # Media!None
    BY DEF Media!Rows
  <2>6. PICK q : q = [op |-> "update", row |-> r, edit |-> edit]
    OBVIOUS
  <2>7. q \in UploadRequest
    BY <2>5, <2>6 DEF UploadRequest
  <2>8. UploadRefers(q)
    BY <2>1, <2>6 DEF UploadRefers
  <2>9. UploadStands(q)
    BY <2>1, <2>2, <2>3, <2>4, <2>5, <2>6 DEF UploadStands, Shown, Media!Empty
  <2> QED
    BY <2>1, <2>6, <2>7, <2>8, <2>9 DEF GoodStart
<1> QED
    BY <1>1, <1>2, <1>3, <1>4

LEMMA ObjectsBegin ==
    ASSUME MediaAssumption, ObjectsInv, NEW a \in Uploaders, NEW q \in UploadRequest, UploadRefers(q), Media!Begin(a, q)
    PROVE  ObjectsInv'
<1>1. /\ uploading' = [uploading EXCEPT ![a] = q] /\ Media!Crossing(Uploaders)
      /\ UNCHANGED <<uploads, objects, images, assets, rows, cleanup>>
    BY DEF Media!Begin
<1>2. uploading' \in [Uploaders -> UploadRequest] /\ mediaDrift' \subseteq {"overlap", "rechosen"}
    BY <1>1, TypedMedia DEF Media!Crossing
<1>3. TablesTyped' /\ CleanupTyped' /\ KeysDistinct' /\ CleanupSafe' /\ Media!OwnObjectStored' /\ AssetsStored'
    BY <1>1, TypedMedia DEF TablesTyped, CleanupTyped, ObjectsInv, KeysDistinct, HasKey, CleanupSafe,
                            Media!OwnObjectStored, AssetsStored, Media!OwnKeys, Media!LiveImages
<1>4. ASSUME NEW b \in Uploaders PROVE UploadRefers(uploading[b])'
  <2>1. PICK r \in UploadRequest : r = uploading'[b] /\ UploadRefers(r)
    BY <1>1, <1>2, TypedMedia DEF ObjectsInv
  <2>2. UploadRefers(r)'
    BY <1>1, <2>1 DEF UploadRefers, HasKey
  <2> QED
    BY <2>1, <2>2 DEF UploadRefers, HasKey
<1> QED
    BY <1>2, <1>3, <1>4, ObjectsKept

-----------------------------------------------------------------------------
(* Objects: images that are attached, chosen and deleted                     *)

SameImage(old, new) == new.key = old.key /\ new.asset = old.asset /\ new.deleted = old.deleted

\* The rows are those of images; where on is set, no live one of them is primary.
Based(im, on) ==
    /\ im \in [ImageIds -> Media!ImageRow \cup {Media!None}]
    /\ \A j \in ImageIds : images[j] = Media!None => im[j] = Media!None
    /\ \A j \in ImageIds : images[j] # Media!None =>
           /\ im[j] \in Media!ImageRow /\ SameImage(images[j], im[j])
           /\ on = FALSE \/ images[j].deleted = TRUE => im[j].is_primary = images[j].is_primary
           /\ on = TRUE /\ images[j].deleted = FALSE => im[j].is_primary = FALSE

LEMMA LiveImagesAre ==
    ASSUME ObjectsInv
    PROVE  /\ \A i \in ImageIds : images[i] # Media!None => images[i] \in Media!ImageRow
           /\ \A i : i \in Media!LiveImages <=> i \in ImageIds /\ images[i] # Media!None /\ images[i].deleted = FALSE
<1>1. \A i \in ImageIds : images[i] # Media!None => images[i] \in Media!ImageRow /\ images[i].deleted \in BOOLEAN
    BY TypedMedia, ImageShape DEF TablesTyped
<1> QED
    BY <1>1 DEF Media!LiveImages

LEMMA ClearedIs == ASSUME ObjectsInv PROVE Based(Media!WithoutPrimary(images), TRUE)
<1>1. PICK im : im = Media!WithoutPrimary(images)
    OBVIOUS
<1>2. PICK live : live = Media!LiveImages
    OBVIOUS
<1>3. im = [i \in ImageIds |-> IF i \in live THEN [images[i] EXCEPT !.is_primary = FALSE] ELSE images[i]]
    BY <1>1, <1>2 DEF Media!WithoutPrimary
<1>4. ASSUME NEW j \in ImageIds, images[j] # Media!None
      PROVE  /\ im[j] \in Media!ImageRow /\ SameImage(images[j], im[j])
             /\ images[j].deleted = TRUE => im[j].is_primary = images[j].is_primary
             /\ images[j].deleted = FALSE => im[j].is_primary = FALSE
  <2>1. PICK row \in Media!ImageRow : row = images[j]
    BY <1>4, LiveImagesAre
  <2>2. CASE j \in live
    <3>1. PICK new \in Media!ImageRow :
            new = [row EXCEPT !.is_primary = FALSE] /\ ImageIs(new, row.key, row.asset, FALSE, row.deleted)
      BY ImagePrimarySet
    <3>2. im[j] = [images[j] EXCEPT !.is_primary = FALSE]
      BY <1>3, <2>2
    <3>3. im[j] = new
      BY <2>1, <3>1, <3>2, Zenon
    <3>4. images[j].deleted = FALSE
      BY <1>2, <2>2, LiveImagesAre
    <3> QED
      BY <2>1, <3>1, <3>3, <3>4 DEF ImageIs, SameImage
  <2>3. CASE j \notin live
    <3>1. im[j] = images[j]
      BY <1>3, <2>3
    <3>2. images[j].deleted # FALSE
      BY <1>2, <1>4, <2>3, LiveImagesAre
    <3> QED
      BY <2>1, <3>1, <3>2 DEF SameImage
  <2> QED
    BY <2>2, <2>3
<1>5. \A j \in ImageIds : images[j] = Media!None => im[j] = Media!None
    BY <1>2, <1>3, LiveImagesAre
<1>6. im \in [ImageIds -> Media!ImageRow \cup {Media!None}]
  <2>1. \A j \in ImageIds : im[j] \in Media!ImageRow \cup {Media!None}
    BY <1>4, <1>5
  <2> QED
    BY <1>3, <2>1
<1> QED
    BY <1>1, <1>4, <1>5, <1>6 DEF Based

LEMMA UntouchedIs == ASSUME ObjectsInv PROVE Based(images, FALSE)
<1> QED
    BY TypedMedia, LiveImagesAre DEF TablesTyped, Based, SameImage

\* Row i is new; the others are those of images, without their primary one where on is set.
ImageAdded(i, new, on) ==
    /\ i \in ImageIds /\ images[i] = Media!None
    /\ \E base : Based(base, on) /\ images' = [base EXCEPT ![i] = new]

LEMMA AttachWrites ==
    ASSUME MediaAssumption, ObjectsInv, NEW a \in Uploaders, Media!AttachImage(a)
    PROVE  /\ uploading[a].op = "attach" /\ Media!Respond(a) /\ UNCHANGED <<uploads, objects, assets, rows, cleanup>>
           /\ \/ UNCHANGED images
              \/ \E i \in ImageIds, new \in Media!ImageRow, on \in BOOLEAN :
                     /\ ImageAdded(i, new, on) /\ Media!Allowed(images')
                     /\ ImageIs(new, uploading[a].key, uploading[a].asset, on, FALSE)
                     /\ Media!LiveImages = {} => on = TRUE
<1>1. /\ uploading[a].op = "attach" /\ Media!Respond(a) /\ UNCHANGED <<uploads, objects, assets, rows, cleanup>>
      /\ \E j \in ImageIds : images[j] = Media!None
    BY DEF Media!AttachImage
<1>2. PICK q \in UploadRequest : q = uploading[a]
    BY TypedMedia
<1>3. q.key \in ImageKeys \cup {Media!None} /\ q.asset \in AssetKeys \cup {Media!None} /\ q.primary \in BOOLEAN
    BY <1>1, <1>2, UploadRequestShape
<1>4. PICK i : i = Media!Min({j \in ImageIds : images[j] = Media!None})
    OBVIOUS
<1>5. i \in ImageIds /\ images[i] = Media!None
    BY <1>1, <1>4, FreshImageIs
<1>6. PICK on \in BOOLEAN : on = (Media!LiveImages = {} \/ q.primary)
  <2>1. (Media!LiveImages = {} \/ q.primary) \in BOOLEAN
    OBVIOUS
  <2> QED
    BY <2>1, Zenon
<1>7. PICK base : base = IF on THEN Media!WithoutPrimary(images) ELSE images
    OBVIOUS
<1>8. Based(base, on)
    BY <1>6, <1>7, ClearedIs, UntouchedIs
<1>9. PICK new \in Media!ImageRow : new = [key |-> q.key, asset |-> q.asset, is_primary |-> on, deleted |-> FALSE]
    BY <1>3, ImageShape
<1>10. PICK im : im = [base EXCEPT ![i] = new]
    OBVIOUS
<1>11. images' = IF Media!Allowed(im) THEN im ELSE images
    BY <1>2, <1>4, <1>6, <1>7, <1>9, <1>10, Zenon DEF Media!AttachImage
<1>12. CASE ~Media!Allowed(im)
    BY <1>1, <1>11, <1>12
<1>13. CASE Media!Allowed(im)
  <2>1. images' = im
    BY <1>11, <1>13
  <2>2. Media!Allowed(images')
    BY <1>13, <2>1
  <2>3. ImageAdded(i, new, on)
    BY <1>5, <1>8, <1>10, <2>1 DEF ImageAdded
  <2>4. ImageIs(new, uploading[a].key, uploading[a].asset, on, FALSE)
    BY <1>2, <1>9 DEF ImageIs
  <2>5. Media!LiveImages = {} => on = TRUE
    BY <1>6
  <2> QED
    BY <1>1, <1>5, <2>2, <2>3, <2>4, <2>5
<1> QED
    BY <1>12, <1>13

\* Row i of base is replaced.
ImageSet(base, i, new) == i \in ImageIds /\ images[i] # Media!None /\ images' = [base EXCEPT ![i] = new]

LEMMA ChooseWrites ==
    ASSUME MediaAssumption, ObjectsInv, NEW a \in Uploaders, Media!UpdateImage(a)
    PROVE  /\ uploading[a].op = "choose" /\ UNCHANGED <<uploads, objects, assets, rows, cleanup>>
           /\ uploading' = [uploading EXCEPT ![a] = Media!Idle]
           /\ mediaDrift' = mediaDrift \cup (IF uploading[a].was THEN {"rechosen"} ELSE {})
                                       \cup (IF \E b \in Uploaders \ {a} : uploading[b] # Media!Idle THEN {"overlap"} ELSE {})
           /\ \/ UNCHANGED images
              \/ uploading[a].was = TRUE /\ Based(images', TRUE) /\ Media!Allowed(images')
              \/ \E base : \E new \in Media!ImageRow :
                     /\ uploading[a].was = FALSE
                     /\ Based(base, TRUE) /\ ImageSet(base, uploading[a].image, new) /\ Media!Allowed(images')
                     /\ SameImage(base[uploading[a].image], new) /\ new.is_primary = TRUE
<1>1. PICK q \in UploadRequest : q = uploading[a]
    BY TypedMedia
<1>2. q.op = "choose"
    BY <1>1 DEF Media!UpdateImage
<1>3. q.image \in ImageIds /\ q.was \in BOOLEAN /\ images[q.image] # Media!None
    BY <1>1, <1>2, UploadRequestShape DEF ObjectsInv, UploadRefers
<1>4. /\ UNCHANGED <<uploads, objects, assets, rows, cleanup>>
      /\ uploading' = [uploading EXCEPT ![a] = Media!Idle]
      /\ mediaDrift' = mediaDrift \cup (IF q.was THEN {"rechosen"} ELSE {})
                                  \cup (IF \E b \in Uploaders \ {a} : uploading[b] # Media!Idle THEN {"overlap"} ELSE {})
    BY <1>1 DEF Media!UpdateImage
<1>5. PICK base : base = Media!WithoutPrimary(images)
    OBVIOUS
<1>6. Based(base, TRUE)
    BY <1>5, ClearedIs
<1>7. PICK im : im = IF q.was THEN base ELSE [base EXCEPT ![q.image].is_primary = TRUE]
    OBVIOUS
<1>8. images' = IF Media!Allowed(im) THEN im ELSE images
    BY <1>1, <1>5, <1>7, Zenon DEF Media!UpdateImage
<1>9. CASE ~Media!Allowed(im)
    BY <1>1, <1>2, <1>4, <1>8, <1>9
<1>10. CASE Media!Allowed(im)
  <2>1. images' = im /\ Media!Allowed(images')
    BY <1>8, <1>10
  <2>2. CASE q.was = TRUE
    BY <1>1, <1>2, <1>4, <1>6, <1>7, <2>1, <2>2
  <2>3. CASE q.was = FALSE
    <3>1. PICK row \in Media!ImageRow : row = base[q.image]
      BY <1>3, <1>6 DEF Based
    <3>2. PICK new \in Media!ImageRow :
            new = [row EXCEPT !.is_primary = TRUE] /\ ImageIs(new, row.key, row.asset, TRUE, row.deleted)
      BY ImagePrimarySet
    <3>3. images' = [base EXCEPT ![q.image] = new]
      BY <1>7, <2>1, <2>3, <3>1, <3>2, Zenon
    <3>4. ImageSet(base, q.image, new)
      BY <1>3, <3>3 DEF ImageSet
    <3>5. SameImage(base[q.image], new) /\ new.is_primary = TRUE
      BY <3>1, <3>2 DEF SameImage, ImageIs
    <3> QED
      BY <1>1, <1>2, <1>4, <1>6, <2>1, <2>3, <3>4, <3>5
  <2> QED
    BY <1>3, <2>2, <2>3
<1> QED
    BY <1>9, <1>10

LEMMA PrimaryAt ==
    ASSUME NEW im, im \in [ImageIds -> Media!ImageRow \cup {Media!None}], NEW j \in ImageIds, im[j] \in Media!ImageRow
    PROVE  \E on \in Media!ImageRow :
               /\ [im EXCEPT ![j].is_primary = TRUE] = [im EXCEPT ![j] = on]
               /\ SameImage(im[j], on) /\ on.is_primary = TRUE
<1>1. PICK row \in Media!ImageRow : row = im[j]
    OBVIOUS
<1>2. PICK on \in Media!ImageRow :
        on = [row EXCEPT !.is_primary = TRUE] /\ ImageIs(on, row.key, row.asset, TRUE, row.deleted)
    BY ImagePrimarySet
<1>3. [im EXCEPT ![j].is_primary = TRUE] = [im EXCEPT ![j] = on]
    BY <1>1, <1>2, Zenon
<1> QED
    BY <1>1, <1>2, <1>3 DEF SameImage, ImageIs

\* Row i of images is marked as deleted, and not primary any more if it was.
ImageGone(gone, i, was) ==
    /\ gone \in [ImageIds -> Media!ImageRow \cup {Media!None}] /\ i \in ImageIds /\ images[i] # Media!None
    /\ \A j \in ImageIds \ {i} : gone[j] = images[j]
    /\ gone[i] \in Media!ImageRow /\ gone[i].key = images[i].key /\ gone[i].asset = images[i].asset /\ gone[i].deleted = TRUE
    /\ gone[i].is_primary = FALSE \/ (was = FALSE /\ gone[i].is_primary = images[i].is_primary)

LEMMA GoneIs ==
    ASSUME ObjectsInv, NEW i \in ImageIds, images[i] # Media!None, NEW was \in BOOLEAN,
           NEW gone, gone = [images EXCEPT ![i].deleted = TRUE, ![i].is_primary = IF was THEN FALSE ELSE @]
    PROVE  ImageGone(gone, i, was)
<1>1. images \in [ImageIds -> Media!ImageRow \cup {Media!None}]
    BY TypedMedia DEF TablesTyped
<1>2. PICK row \in Media!ImageRow : row = images[i]
    BY LiveImagesAre
<1>3. PICK dead \in Media!ImageRow :
        dead = [row EXCEPT !.deleted = TRUE] /\ ImageIs(dead, row.key, row.asset, row.is_primary, TRUE)
    BY ImageDeletedSet
<1>4. PICK one : one = [images EXCEPT ![i].deleted = TRUE] /\ one = [images EXCEPT ![i] = dead]
    BY <1>2, <1>3, Zenon
<1>5. one[i] = dead /\ \A j \in ImageIds \ {i} : one[j] = images[j]
    BY <1>1, <1>4
<1>6. PICK on \in BOOLEAN : on = IF was THEN FALSE ELSE dead.is_primary
    BY ImageShape
<1>7. PICK new \in Media!ImageRow :
        new = [dead EXCEPT !.is_primary = on] /\ ImageIs(new, dead.key, dead.asset, on, dead.deleted)
    BY ImagePrimarySet
<1>8. gone = [one EXCEPT ![i].is_primary = IF was THEN FALSE ELSE @]
    BY <1>4, ZenonT(30)
<1>9. gone = [one EXCEPT ![i] = new]
    BY <1>5, <1>6, <1>7, <1>8, ZenonT(60)
<1>10. /\ gone \in [ImageIds -> Media!ImageRow \cup {Media!None}]
       /\ gone[i] = new /\ \A j \in ImageIds \ {i} : gone[j] = images[j]
    BY <1>1, <1>4, <1>5, <1>9
<1>11. /\ new.key = images[i].key /\ new.asset = images[i].asset /\ new.deleted = TRUE /\ new.is_primary = on
    BY <1>2, <1>3, <1>7 DEF ImageIs
<1>12. on = FALSE \/ (was = FALSE /\ on = images[i].is_primary)
    BY <1>2, <1>3, <1>6 DEF ImageIs
<1> QED
    BY <1>10, <1>11, <1>12 DEF ImageGone

\* Another live image becomes primary, if there is one and the deleted one was primary.
Replaced(gone, i, was) ==
    \/ images' = gone /\ (was = FALSE \/ Media!LiveImages \ {i} = {})
    \/ /\ was = TRUE
       /\ \E j \in Media!LiveImages \ {i}, on \in Media!ImageRow :
              ImageSet(gone, j, on) /\ SameImage(gone[j], on) /\ on.is_primary = TRUE

LEMMA DeleteWrites ==
    ASSUME MediaAssumption, ObjectsInv, NEW a \in Uploaders, Media!DeleteImage(a)
    PROVE  /\ uploading[a].op = "delete" /\ UNCHANGED <<uploads, objects, assets, rows, cleanup>>
           /\ \/ UNCHANGED images /\ Media!Respond(a)
              \/ /\ IF uploading[a].key = Media!None THEN Media!Respond(a)
                    ELSE Media!Continue(a, [op |-> "remove", key |-> uploading[a].key])
                 /\ Media!Allowed(images')
                 /\ \E gone : /\ ImageGone(gone, uploading[a].image, uploading[a].was)
                              /\ Replaced(gone, uploading[a].image, uploading[a].was)
<1>1. PICK q \in UploadRequest : q = uploading[a]
    BY TypedMedia
<1>2. q.op = "delete" /\ UNCHANGED <<uploads, objects, assets, rows, cleanup>>
    BY <1>1 DEF Media!DeleteImage
<1>3. q.image \in ImageIds /\ q.was \in BOOLEAN /\ images[q.image] # Media!None
    BY <1>1, <1>2, UploadRequestShape DEF ObjectsInv, UploadRefers
<1>4. PICK gone : gone = [images EXCEPT ![q.image].deleted = TRUE, ![q.image].is_primary = IF q.was THEN FALSE ELSE @]
    OBVIOUS
<1>5. ImageGone(gone, q.image, q.was)
    BY <1>3, <1>4, GoneIs
<1>6. PICK im \in IF q.was THEN Media!Promoted(gone, Media!LiveImages \ {q.image}) ELSE {gone} :
        IF Media!Allowed(im)
        THEN /\ images' = im
             /\ IF q.key = Media!None THEN Media!Respond(a) ELSE Media!Continue(a, [op |-> "remove", key |-> q.key])
        ELSE UNCHANGED images /\ Media!Respond(a)
    BY <1>1, <1>4, Zenon DEF Media!DeleteImage
<1>7. CASE ~Media!Allowed(im)
    BY <1>1, <1>2, <1>6, <1>7
<1>8. CASE Media!Allowed(im)
  <2>1. /\ images' = im /\ Media!Allowed(images')
        /\ IF q.key = Media!None THEN Media!Respond(a) ELSE Media!Continue(a, [op |-> "remove", key |-> q.key])
    BY <1>6, <1>8
  <2>2. PICK live : live = Media!LiveImages \ {q.image}
    OBVIOUS
  <2>3. CASE im = gone /\ (q.was = FALSE \/ live = {})
    <3>1. Replaced(gone, q.image, q.was)
      BY <2>1, <2>2, <2>3 DEF Replaced
    <3> QED
      BY <1>1, <1>2, <1>5, <2>1, <3>1
  <2>4. CASE q.was = TRUE /\ live # {}
    <3>1. PICK j \in live : im = [gone EXCEPT ![j].is_primary = TRUE]
      BY <1>6, <2>2, <2>4 DEF Media!Promoted
    <3>2. j \in ImageIds /\ images[j] # Media!None /\ j # q.image /\ images[j] \in Media!ImageRow
      BY <2>2, LiveImagesAre
    <3>3. gone \in [ImageIds -> Media!ImageRow \cup {Media!None}] /\ gone[j] \in Media!ImageRow
      BY <1>5, <3>2 DEF ImageGone
    <3>4. PICK on \in Media!ImageRow :
            /\ [gone EXCEPT ![j].is_primary = TRUE] = [gone EXCEPT ![j] = on]
            /\ SameImage(gone[j], on) /\ on.is_primary = TRUE
      BY <3>2, <3>3, PrimaryAt
    <3>5. ImageSet(gone, j, on)
      BY <2>1, <3>1, <3>2, <3>4 DEF ImageSet
    <3>6. Replaced(gone, q.image, q.was)
      BY <2>2, <2>4, <3>4, <3>5 DEF Replaced
    <3> QED
      BY <1>1, <1>2, <1>5, <2>1, <3>6
  <2>5. (im = gone /\ (q.was = FALSE \/ live = {})) \/ (q.was = TRUE /\ live # {})
    BY <1>3, <1>6, <2>2 DEF Media!Promoted
  <2> QED
    BY <2>3, <2>4, <2>5
<1> QED
    BY <1>7, <1>8

-----------------------------------------------------------------------------
(* Objects: what the steps of a request keep                                 *)

LEMMA RespondKeeps ==
    ASSUME ObjectsInv, NEW a \in Uploaders, Media!Respond(a)
    PROVE  /\ uploading' \in [Uploaders -> UploadRequest] /\ mediaDrift' \subseteq {"overlap", "rechosen"}
           /\ \A b \in Uploaders : uploading'[b] \in {uploading[b], Media!Idle}
<1>1. Media!Idle \in UploadRequest
    BY DEF UploadRequest
<1> QED
    BY <1>1, TypedMedia DEF Media!Respond, Media!Crossing

LEMMA ContinueKeeps ==
    ASSUME ObjectsInv, NEW a \in Uploaders, NEW q \in UploadRequest, Media!Continue(a, q)
    PROVE  /\ uploading' \in [Uploaders -> UploadRequest] /\ mediaDrift' \subseteq {"overlap", "rechosen"}
           /\ uploading'[a] = q /\ \A b \in Uploaders \ {a} : uploading'[b] = uploading[b]
<1> QED
    BY TypedMedia DEF Media!Continue, Media!Crossing

\* Every request is as it was, has ended, or is right about what it refers to now.
RequestsKept ==
    /\ uploading' \in [Uploaders -> UploadRequest] /\ mediaDrift' \subseteq {"overlap", "rechosen"}
    /\ \A b \in Uploaders : uploading'[b] \in {uploading[b], Media!Idle} \/ UploadRefers(uploading[b])'

LEMMA IdleRefers == UploadRefers(Media!Idle)' /\ Media!Idle \in UploadRequest
<1> QED
    BY DEF UploadRefers, Media!Idle, UploadRequest

\* Images are written so that a live one has a key of a live image or of an upload that is stored.
OwnedOrStored ==
    \A i \in ImageIds : images'[i] # Media!None /\ images'[i].deleted = FALSE /\ images'[i].key # Media!None =>
        \/ images[i] # Media!None /\ images[i].deleted = FALSE /\ images[i].key = images'[i].key
        \/ images'[i].key \in objects /\ uploads[images'[i].key] # "old"

LEMMA ObjectsOfImages ==
    ASSUME MediaAssumption, ObjectsInv, UNCHANGED <<uploads, objects, assets, rows, cleanup>>, RequestsKept,
           images' \in [ImageIds -> Media!ImageRow \cup {Media!None}], Media!Allowed(images'), ImagesStay, OwnedOrStored
    PROVE  ObjectsInv'
<1>1. TablesTyped /\ TablesTyped'
    BY TypedMedia DEF TablesTyped
<1>2. CleanupTyped' /\ AssetsStored'
    BY TypedMedia DEF CleanupTyped, ObjectsInv, AssetsStored
<1>3. KeysDistinct'
    BY KeysApart DEF KeysDistinct, HasKey, Media!Allowed
<1>4. \A k \in Media!OwnKeys' : k # Media!None /\ \E i \in ImageIds :
        images'[i] # Media!None /\ images'[i].key = k /\ images'[i].deleted = FALSE
  <2>1. \A i \in ImageIds : images'[i] # Media!None => images'[i].deleted \in BOOLEAN
    BY ImageShape
  <2> QED
    BY <2>1 DEF Media!OwnKeys, Media!LiveImages
<1>5. ASSUME NEW k \in Media!OwnKeys' PROVE k \in Media!OwnKeys \/ (k \in objects /\ uploads[k] # "old")
  <2>1. PICK i \in ImageIds : images'[i] # Media!None /\ images'[i].key = k /\ images'[i].deleted = FALSE /\ k # Media!None
    BY <1>4
  <2>2. CASE images[i] # Media!None /\ images[i].deleted = FALSE /\ images[i].key = images'[i].key
    BY <2>1, <2>2 DEF Media!OwnKeys, Media!LiveImages
  <2>3. CASE images'[i].key \in objects /\ uploads[images'[i].key] # "old"
    BY <2>1, <2>3
  <2> QED
    BY <2>1, <2>2, <2>3 DEF OwnedOrStored
<1>6. Media!OwnObjectStored'
    BY <1>5 DEF ObjectsInv, Media!OwnObjectStored
<1>7. CleanupSafe'
    BY <1>5 DEF ObjectsInv, CleanupSafe
<1>8. AssetsStay
    BY DEF AssetsStay
<1>9. ASSUME NEW b \in Uploaders PROVE UploadRefers(uploading[b])'
  <2>1. CASE UploadRefers(uploading[b])'
    BY <2>1
  <2>2. CASE uploading'[b] = uploading[b]
    <3>1. PICK q \in UploadRequest : q = uploading[b] /\ UploadRefers(q)
      BY TypedMedia DEF ObjectsInv
    <3>2. q.op = "attach" /\ q.key # Media!None => uploads'[q.key] # "old" /\ (q.key \in objects' \/ q.key \notin objects)
      BY <3>1 DEF UploadRefers
    <3>3. q.op = "update" => rows'[q.row] = Media!None \/ rows'[q.row].kind = "block"
      BY <3>1 DEF UploadRefers
    <3>4. UploadRefers(q)'
      BY <1>8, <3>1, <3>2, <3>3, RefersKept
    <3> QED
      BY <2>2, <3>1, <3>4 DEF UploadRefers, HasKey
  <2>3. CASE uploading'[b] = Media!Idle
    BY <2>3 DEF UploadRefers, Media!Idle
  <2> QED
    BY <2>1, <2>2, <2>3 DEF RequestsKept
<1> QED
    BY <1>1, <1>2, <1>3, <1>6, <1>7, <1>9, ObjectsKept DEF RequestsKept

\* Nothing but the requests is written.
LEMMA ObjectsOfResponse ==
    ASSUME MediaAssumption, ObjectsInv, UNCHANGED <<uploads, objects, images, assets, rows, cleanup>>,
           uploading' \in [Uploaders -> UploadRequest], mediaDrift' \subseteq {"overlap", "rechosen"},
           \A b \in Uploaders : uploading'[b] \in {uploading[b], Media!Idle}
    PROVE  ObjectsInv'
<1>1. TablesTyped' /\ CleanupTyped' /\ KeysDistinct' /\ CleanupSafe' /\ Media!OwnObjectStored' /\ AssetsStored'
    BY TypedMedia DEF TablesTyped, CleanupTyped, ObjectsInv, KeysDistinct, HasKey, CleanupSafe,
                            Media!OwnObjectStored, AssetsStored, Media!OwnKeys, Media!LiveImages
<1>2. ASSUME NEW b \in Uploaders PROVE UploadRefers(uploading[b])'
  <2>1. CASE uploading'[b] = uploading[b]
    BY <2>1 DEF ObjectsInv, UploadRefers, HasKey
  <2>2. CASE uploading'[b] = Media!Idle
    BY <2>2 DEF UploadRefers, Media!Idle
  <2> QED
    BY <2>1, <2>2
<1> QED
    BY <1>1, <1>2, ObjectsKept

LEMMA AttachObjects == ASSUME MediaAssumption, ObjectsInv, NEW a \in Uploaders, Media!AttachImage(a) PROVE ObjectsInv'
<1>1. PICK q \in UploadRequest : q = uploading[a] /\ q.op = "attach" /\ UploadRefers(q)
    BY TypedMedia, AttachWrites DEF ObjectsInv
<1>2. Media!Respond(a) /\ UNCHANGED <<uploads, objects, assets, rows, cleanup>>
    BY AttachWrites
<1>3. /\ uploading' \in [Uploaders -> UploadRequest] /\ mediaDrift' \subseteq {"overlap", "rechosen"}
      /\ \A b \in Uploaders : uploading'[b] \in {uploading[b], Media!Idle}
    BY <1>2, RespondKeeps
<1>4. CASE UNCHANGED images
    BY <1>2, <1>3, <1>4, ObjectsOfResponse
<1>5. CASE \E i \in ImageIds, new \in Media!ImageRow, on \in BOOLEAN :
               /\ ImageAdded(i, new, on) /\ Media!Allowed(images')
               /\ ImageIs(new, q.key, q.asset, on, FALSE)
  <2>1. PICK i \in ImageIds, new \in Media!ImageRow, on \in BOOLEAN :
               /\ ImageAdded(i, new, on) /\ Media!Allowed(images')
               /\ ImageIs(new, q.key, q.asset, on, FALSE)
    BY <1>5
  <2>2. PICK base : Based(base, on) /\ images' = [base EXCEPT ![i] = new]
    BY <2>1 DEF ImageAdded
  <2>3. images' \in [ImageIds -> Media!ImageRow \cup {Media!None}]
    BY <2>2 DEF Based
  <2>4. images[i] = Media!None /\ images'[i] = new /\ new.key = q.key
    BY <2>1, <2>2 DEF ImageAdded, Based, ImageIs
  <2>5. \A j \in ImageIds \ {i} :
          /\ images[j] = Media!None => images'[j] = Media!None
          /\ images[j] # Media!None => /\ images'[j] # Media!None /\ images'[j].key = images[j].key
                                       /\ images'[j].deleted = images[j].deleted
    BY <2>2, ImageShape DEF Based, SameImage
  <2>6. ImagesStay
    BY <2>4, <2>5 DEF ImagesStay
  <2>7. q.key # Media!None => q.key \in objects /\ uploads[q.key] # "old"
    <3> SUFFICES ASSUME q.key # Media!None PROVE q.key \in objects /\ uploads[q.key] # "old"
      OBVIOUS
    <3>1. uploads[q.key] # "old" /\ (q.key \in objects \/ \E j \in ImageIds : HasKey(j, q.key))
      BY <1>1 DEF UploadRefers
    <3>2. ~\E j \in ImageIds : HasKey(j, q.key)
      <4> SUFFICES ASSUME NEW j \in ImageIds, HasKey(j, q.key) PROVE FALSE
        OBVIOUS
      <4>1. j # i /\ images'[j] # Media!None /\ images'[j].key = q.key
        BY <2>4, <2>5 DEF HasKey
      <4>2. images'[i] # Media!None /\ images'[i].key = q.key
        BY <2>4, ImageShape
      <4> QED
        BY <2>1, <4>1, <4>2 DEF Media!Allowed
    <3> QED
      BY <3>1, <3>2
  <2>8. OwnedOrStored
    <3> SUFFICES ASSUME NEW j \in ImageIds, images'[j] # Media!None, images'[j].deleted = FALSE, images'[j].key # Media!None
                 PROVE  \/ images[j] # Media!None /\ images[j].deleted = FALSE /\ images[j].key = images'[j].key
                        \/ images'[j].key \in objects /\ uploads[images'[j].key] # "old"
      BY DEF OwnedOrStored
    <3>1. CASE j = i
      BY <2>4, <2>7, <3>1
    <3>2. CASE j # i
      BY <2>5, <3>2
    <3> QED
      BY <3>1, <3>2
  <2>9. RequestsKept
    BY <1>3 DEF RequestsKept
  <2> QED
    BY <1>2, <2>1, <2>3, <2>6, <2>8, <2>9, ObjectsOfImages
<1> QED
    BY <1>1, <1>4, <1>5, AttachWrites

LEMMA ChooseObjects == ASSUME MediaAssumption, ObjectsInv, NEW a \in Uploaders, Media!UpdateImage(a) PROVE ObjectsInv'
<1>1. UNCHANGED <<uploads, objects, assets, rows, cleanup>> /\ uploading' = [uploading EXCEPT ![a] = Media!Idle]
    BY ChooseWrites
<1>2. /\ uploading' \in [Uploaders -> UploadRequest]
      /\ \A b \in Uploaders : uploading'[b] \in {uploading[b], Media!Idle}
    BY <1>1, IdleRefers, TypedMedia
<1>3. mediaDrift' \subseteq {"overlap", "rechosen"}
    BY TypedMedia DEF Media!UpdateImage
<1>4. CASE UNCHANGED images
    BY <1>1, <1>2, <1>3, <1>4, ObjectsOfResponse
<1>5. CASE Media!Allowed(images') /\ \E base : Based(base, TRUE) /\
               \/ images' = base
               \/ \E i \in ImageIds, new \in Media!ImageRow : ImageSet(base, i, new) /\ SameImage(base[i], new)
  <2>1. PICK base : Based(base, TRUE) /\
               \/ images' = base
               \/ \E i \in ImageIds, new \in Media!ImageRow : ImageSet(base, i, new) /\ SameImage(base[i], new)
    BY <1>5
  <2>2. /\ base \in [ImageIds -> Media!ImageRow \cup {Media!None}]
        /\ \A j \in ImageIds : images[j] = Media!None => base[j] = Media!None
        /\ \A j \in ImageIds : images[j] # Media!None => base[j] \in Media!ImageRow /\ SameImage(images[j], base[j])
    BY <2>1 DEF Based
  <2>3. /\ images' \in [ImageIds -> Media!ImageRow \cup {Media!None}]
        /\ \A j \in ImageIds : images[j] = Media!None => images'[j] = Media!None
        /\ \A j \in ImageIds : images[j] # Media!None => images'[j] \in Media!ImageRow /\ SameImage(images[j], images'[j])
    <3>1. CASE images' = base
      BY <2>2, <3>1
    <3>2. CASE \E i \in ImageIds, new \in Media!ImageRow : ImageSet(base, i, new) /\ SameImage(base[i], new)
      <4>1. PICK i \in ImageIds, new \in Media!ImageRow : ImageSet(base, i, new) /\ SameImage(base[i], new)
        BY <3>2
      <4>2. images' = [base EXCEPT ![i] = new] /\ images[i] # Media!None
        BY <4>1 DEF ImageSet
      <4> QED
        BY <2>2, <4>1, <4>2 DEF SameImage
    <3> QED
      BY <2>1, <3>1, <3>2
  <2>4. \A j \in ImageIds : images[j] # Media!None =>
          images'[j] # Media!None /\ images'[j].key = images[j].key /\ images'[j].deleted = images[j].deleted
    BY <2>3, ImageShape DEF SameImage
  <2>5. ImagesStay /\ OwnedOrStored
    BY <2>3, <2>4 DEF ImagesStay, OwnedOrStored
  <2>6. RequestsKept
    BY <1>2, <1>3 DEF RequestsKept
  <2> QED
    BY <1>1, <1>5, <2>3, <2>5, <2>6, ObjectsOfImages
<1>6. UNCHANGED images \/
      (Media!Allowed(images') /\ \E base : Based(base, TRUE) /\
               (\/ images' = base
                \/ \E i \in ImageIds, new \in Media!ImageRow : ImageSet(base, i, new) /\ SameImage(base[i], new)))
  <2>1. CASE UNCHANGED images
    BY <2>1
  <2>2. CASE Based(images', TRUE) /\ Media!Allowed(images')
    BY <2>2
  <2>3. CASE \E base : \E new \in Media!ImageRow :
               /\ Based(base, TRUE) /\ ImageSet(base, uploading[a].image, new) /\ Media!Allowed(images')
               /\ SameImage(base[uploading[a].image], new)
    <3>1. PICK i : i = uploading[a].image
      OBVIOUS
    <3>2. PICK base : \E new \in Media!ImageRow :
               Based(base, TRUE) /\ ImageSet(base, i, new) /\ Media!Allowed(images') /\ SameImage(base[i], new)
      BY <2>3, <3>1
    <3> QED
      BY <3>2 DEF ImageSet
  <2> QED
    BY <2>1, <2>2, <2>3, ChooseWrites
<1> QED
    BY <1>4, <1>5, <1>6

LEMMA DeleteObjects == ASSUME MediaAssumption, ObjectsInv, NEW a \in Uploaders, Media!DeleteImage(a) PROVE ObjectsInv'
<1>1. PICK q \in UploadRequest : q = uploading[a] /\ q.op = "delete" /\ UploadRefers(q)
    BY TypedMedia, DeleteWrites DEF ObjectsInv
<1>2. UNCHANGED <<uploads, objects, assets, rows, cleanup>>
    BY DeleteWrites
<1>3. CASE UNCHANGED images /\ Media!Respond(a)
  <2>1. /\ uploading' \in [Uploaders -> UploadRequest] /\ mediaDrift' \subseteq {"overlap", "rechosen"}
        /\ \A b \in Uploaders : uploading'[b] \in {uploading[b], Media!Idle}
    BY <1>3, RespondKeeps
  <2> QED
    BY <1>2, <1>3, <2>1, ObjectsOfResponse
<1>4. CASE /\ IF q.key = Media!None THEN Media!Respond(a) ELSE Media!Continue(a, [op |-> "remove", key |-> q.key])
           /\ Media!Allowed(images')
           /\ \E gone : ImageGone(gone, q.image, q.was) /\ Replaced(gone, q.image, q.was)
  <2>1. PICK gone : ImageGone(gone, q.image, q.was) /\ Replaced(gone, q.image, q.was)
    BY <1>4
  <2>2. PICK i \in ImageIds : i = q.image /\ images[i] # Media!None /\ images[i].key = q.key
    BY <1>1, UploadRequestShape DEF UploadRefers
  <2>3. /\ gone \in [ImageIds -> Media!ImageRow \cup {Media!None}]
        /\ \A j \in ImageIds \ {i} : gone[j] = images[j]
        /\ gone[i] # Media!None /\ gone[i].key = images[i].key /\ gone[i].deleted = TRUE
    BY <2>1, <2>2, ImageShape DEF ImageGone
  <2>4. /\ images' \in [ImageIds -> Media!ImageRow \cup {Media!None}]
        /\ \A j \in ImageIds : gone[j] = Media!None => images'[j] = Media!None
        /\ \A j \in ImageIds : gone[j] # Media!None =>
               images'[j] # Media!None /\ images'[j].key = gone[j].key /\ images'[j].deleted = gone[j].deleted
    <3>1. CASE images' = gone
      BY <2>3, <3>1
    <3>2. CASE \E j \in Media!LiveImages \ {i}, on \in Media!ImageRow : ImageSet(gone, j, on) /\ SameImage(gone[j], on)
      <4>1. PICK j \in Media!LiveImages \ {i}, on \in Media!ImageRow : ImageSet(gone, j, on) /\ SameImage(gone[j], on)
        BY <3>2
      <4>2. images' = [gone EXCEPT ![j] = on] /\ j \in ImageIds /\ images[j] # Media!None
        BY <4>1 DEF ImageSet
      <4>3. gone[j] # Media!None /\ on # Media!None
        BY <2>3, <4>1, <4>2, ImageShape
      <4> QED
        BY <2>3, <4>1, <4>2, <4>3 DEF SameImage
    <3> QED
      BY <2>1, <2>2, <3>1, <3>2 DEF Replaced
  <2>5. ImagesStay /\ OwnedOrStored
    BY <2>2, <2>3, <2>4 DEF ImagesStay, OwnedOrStored
  <2>6. CASE q.key = Media!None
    <3>1. RequestsKept
      BY <1>4, <2>6, RespondKeeps DEF RequestsKept
    <3> QED
      BY <1>2, <1>4, <2>4, <2>5, <3>1, ObjectsOfImages
  <2>7. CASE q.key # Media!None
    <3>1. q.key \in ImageKeys
      BY <1>1, <2>7, UploadRequestShape
    <3>2. PICK next : next = [op |-> "remove", key |-> q.key]
      OBVIOUS
    <3>3. next \in UploadRequest
      BY <3>1, <3>2 DEF UploadRequest
    <3>4. UploadRefers(next)'
      <4>1. HasKey(i, q.key)' /\ images'[i].deleted
        BY <2>2, <2>3, <2>4 DEF HasKey
      <4> QED
        BY <3>1, <3>2, <4>1, KeysApart DEF UploadRefers
    <3>5. Media!Continue(a, next)
      BY <1>4, <2>7, <3>2
    <3>6. /\ uploading' \in [Uploaders -> UploadRequest] /\ mediaDrift' \subseteq {"overlap", "rechosen"}
          /\ uploading'[a] = next /\ \A b \in Uploaders \ {a} : uploading'[b] = uploading[b]
      BY <3>3, <3>5, ContinueKeeps
    <3>7. UploadRefers(uploading[a])'
      BY <3>4, <3>6 DEF UploadRefers, HasKey
    <3>8. RequestsKept
      <4>1. ASSUME NEW b \in Uploaders PROVE uploading'[b] \in {uploading[b], Media!Idle} \/ UploadRefers(uploading[b])'
        <5>1. CASE b = a
          BY <3>7, <5>1
        <5>2. CASE b # a
          BY <3>6, <5>2
        <5> QED
          BY <5>1, <5>2
      <4> QED
        BY <3>6, <4>1 DEF RequestsKept
    <3> QED
      BY <1>2, <1>4, <2>4, <2>5, <3>8, ObjectsOfImages
  <2> QED
    BY <2>6, <2>7
<1> QED
  <2>1. PICK r : r = uploading[a]
    OBVIOUS
  <2> QED
    BY <1>1, <1>3, <1>4, DeleteWrites

-----------------------------------------------------------------------------
(* Objects: what is removed, registered and shown in content                 *)

StillRight(q) ==
    /\ q.op = "attach" /\ q.key # Media!None =>
           q.key \in objects' \/ q.key \notin objects \/ \E i \in ImageIds : HasKey(i, q.key)
    /\ q.op = "register" => q.key \in objects' \/ q.key \notin objects \/ assets[q.key] = "deleted"
    /\ q.op = "update" => rows'[q.row] = Media!None \/ rows'[q.row].kind = "block"

LEMMA ObjectsOfRest ==
    ASSUME MediaAssumption, ObjectsInv, UNCHANGED <<uploads, images, cleanup>>, TablesTyped', RequestsKept, AssetsStay,
           Media!OwnKeys \subseteq objects', AssetsStored', \A b \in Uploaders : StillRight(uploading[b])
    PROVE  ObjectsInv'
<1>1. CleanupTyped' /\ KeysDistinct' /\ CleanupSafe' /\ Media!OwnObjectStored'
    BY TypedMedia DEF CleanupTyped, ObjectsInv, KeysDistinct, HasKey, CleanupSafe, Media!OwnObjectStored, Media!OwnKeys,
                      Media!LiveImages
<1>2. ImagesStay
    BY DEF ImagesStay
<1>3. ASSUME NEW b \in Uploaders PROVE UploadRefers(uploading[b])'
  <2>1. CASE UploadRefers(uploading[b])'
    BY <2>1
  <2>2. CASE uploading'[b] = uploading[b]
    <3>1. PICK q \in UploadRequest : q = uploading[b] /\ UploadRefers(q) /\ StillRight(q)
      BY TypedMedia DEF ObjectsInv
    <3>2. q.op = "attach" /\ q.key # Media!None =>
            uploads'[q.key] # "old" /\ (q.key \in objects' \/ q.key \notin objects \/ \E i \in ImageIds : HasKey(i, q.key))
      BY <3>1 DEF UploadRefers, StillRight
    <3>3. UploadRefers(q)'
      BY <1>2, <3>1, <3>2, RefersKept DEF StillRight
    <3> QED
      BY <2>2, <3>1, <3>3 DEF UploadRefers, HasKey
  <2>3. CASE uploading'[b] = Media!Idle
    BY <2>3 DEF UploadRefers, Media!Idle
  <2> QED
    BY <2>1, <2>2, <2>3 DEF RequestsKept
<1> QED
    BY <1>1, <1>3, ObjectsKept DEF RequestsKept

LEMMA RemoveObjects == ASSUME MediaAssumption, ObjectsInv, NEW a \in Uploaders, Media!RemoveObject(a) PROVE ObjectsInv'
<1>1. PICK q \in UploadRequest : q = uploading[a] /\ q.op = "remove" /\ UploadRefers(q)
    BY TypedMedia DEF ObjectsInv, Media!RemoveObject
<1>2. /\ Media!Respond(a) /\ UNCHANGED <<uploads, images, assets, rows, cleanup>>
      /\ objects' \in {objects, objects \ {q.key}}
    BY <1>1 DEF Media!RemoveObject
<1>3. TablesTyped'
    BY <1>2, TypedMedia DEF TablesTyped
<1>4. RequestsKept
    BY <1>2, RespondKeeps DEF RequestsKept
<1>5. AssetsStay
    BY <1>2 DEF AssetsStay
<1>6. q.key \in ImageKeys \/ q.key \in AssetKeys
    BY <1>1, UploadRequestShape
<1>7. q.key \notin Media!OwnKeys
  <2>1. CASE q.key \in ImageKeys
    <3>1. PICK i \in ImageIds : HasKey(i, q.key) /\ images[i].deleted
      BY <1>1, <2>1 DEF UploadRefers
    <3>2. ASSUME NEW j \in ImageIds, HasKey(j, q.key), images[j].deleted = FALSE PROVE FALSE
      <4>1. i = j
        BY <2>1, <3>1, <3>2 DEF ObjectsInv, KeysDistinct
      <4> QED
        BY <3>1, <3>2, <4>1
    <3> QED
      BY <3>2, OwnKeysAre, TypedMedia
  <2>2. CASE q.key \in AssetKeys
    BY <2>2, KeysApart, OwnKeysAre, TypedMedia
  <2> QED
    BY <1>6, <2>1, <2>2
<1>8. Media!OwnKeys \subseteq objects'
    BY <1>2, <1>7 DEF ObjectsInv, Media!OwnObjectStored
<1>9. AssetsStored'
    BY <1>1, <1>2 DEF ObjectsInv, AssetsStored, UploadRefers
<1>10. ASSUME NEW b \in Uploaders PROVE StillRight(uploading[b])
  <2>1. PICK r \in UploadRequest : r = uploading[b] /\ UploadRefers(r)
    BY TypedMedia DEF ObjectsInv
  <2>2. r.op = "attach" /\ r.key # Media!None =>
          r.key \in objects' \/ r.key \notin objects \/ \E i \in ImageIds : HasKey(i, r.key)
    BY <1>1, <1>2, <2>1, UploadRequestShape DEF UploadRefers
  <2>3. r.op = "register" => r.key \in objects' \/ r.key \notin objects \/ assets[r.key] = "deleted"
    BY <1>1, <1>2, <2>1, UploadRequestShape DEF UploadRefers
  <2>4. r.op = "update" => rows'[r.row] = Media!None \/ rows'[r.row].kind = "block"
    BY <1>2, <2>1 DEF UploadRefers
  <2> QED
    BY <2>1, <2>2, <2>3, <2>4 DEF StillRight
<1> QED
    BY <1>2, <1>3, <1>4, <1>5, <1>8, <1>9, <1>10, ObjectsOfRest

LEMMA RegisterObjects == ASSUME MediaAssumption, ObjectsInv, NEW a \in Uploaders, Media!RegisterAsset(a) PROVE ObjectsInv'
<1>1. PICK q \in UploadRequest : q = uploading[a] /\ q.op = "register" /\ UploadRefers(q)
    BY TypedMedia DEF ObjectsInv, Media!RegisterAsset
<1>2. /\ Media!Respond(a) /\ UNCHANGED <<uploads, objects, images, rows, cleanup>>
      /\ assets' = IF assets[q.key] = "missing" THEN [assets EXCEPT ![q.key] = "live"] ELSE assets
    BY <1>1 DEF Media!RegisterAsset
<1>3. q.key \in AssetKeys
    BY <1>1, UploadRequestShape
<1>4. TablesTyped'
    BY <1>2, TypedMedia DEF TablesTyped, Media!AssetStatus
<1>5. RequestsKept
    BY <1>2, RespondKeeps DEF RequestsKept
<1>6. AssetsStay /\ AssetsStored'
    BY <1>1, <1>2, TypedMedia DEF ObjectsInv, TablesTyped, AssetsStay, AssetsStored, UploadRefers
<1>7. Media!OwnKeys \subseteq objects'
    BY <1>2 DEF ObjectsInv, Media!OwnObjectStored
<1>8. \A b \in Uploaders : StillRight(uploading[b])
    BY <1>2 DEF ObjectsInv, UploadRefers, StillRight
<1> QED
    BY <1>2, <1>4, <1>5, <1>6, <1>7, <1>8, ObjectsOfRest

LEMMA DeleteAssetObjects == ASSUME MediaAssumption, ObjectsInv, NEW a \in Uploaders, Media!DeleteAsset(a) PROVE ObjectsInv'
<1>1. PICK q \in UploadRequest : q = uploading[a] /\ q.op = "deleteAsset" /\ UploadRefers(q)
    BY TypedMedia DEF ObjectsInv, Media!DeleteAsset
<1>2. PICK next : next = [op |-> "remove", key |-> q.key]
    OBVIOUS
<1>3. /\ Media!Continue(a, next) /\ UNCHANGED <<uploads, objects, images, rows, cleanup>>
      /\ assets' = [assets EXCEPT ![q.key] = "deleted"]
    BY <1>1, <1>2 DEF Media!DeleteAsset
<1>4. q.key \in AssetKeys
    BY <1>1, UploadRequestShape
<1>5. next \in UploadRequest
    BY <1>2, <1>4 DEF UploadRequest
<1>6. /\ uploading' \in [Uploaders -> UploadRequest] /\ mediaDrift' \subseteq {"overlap", "rechosen"}
      /\ uploading'[a] = next /\ \A b \in Uploaders \ {a} : uploading'[b] = uploading[b]
    BY <1>3, <1>5, ContinueKeeps
<1>7. TablesTyped'
    BY <1>3, TypedMedia DEF TablesTyped, Media!AssetStatus
<1>8. AssetsStay /\ AssetsStored' /\ assets'[q.key] = "deleted"
    BY <1>3, <1>4, TypedMedia DEF ObjectsInv, TablesTyped, AssetsStay, AssetsStored
<1>9. UploadRefers(uploading[a])'
  <2>1. UploadRefers(next)'
    BY <1>2, <1>4, <1>8, KeysApart DEF UploadRefers
  <2> QED
    BY <1>6, <2>1 DEF UploadRefers, HasKey
<1>10. RequestsKept
  <2>1. ASSUME NEW b \in Uploaders PROVE uploading'[b] \in {uploading[b], Media!Idle} \/ UploadRefers(uploading[b])'
    <3>1. CASE b = a
      BY <1>9, <3>1
    <3>2. CASE b # a
      BY <1>6, <3>2
    <3> QED
      BY <3>1, <3>2
  <2> QED
    BY <1>6, <2>1 DEF RequestsKept
<1>11. Media!OwnKeys \subseteq objects'
    BY <1>3 DEF ObjectsInv, Media!OwnObjectStored
<1>12. \A b \in Uploaders : StillRight(uploading[b])
    BY <1>3 DEF ObjectsInv, UploadRefers, StillRight
<1> QED
    BY <1>3, <1>7, <1>8, <1>10, <1>11, <1>12, ObjectsOfRest

LEMMA CreateRowWrites ==
    ASSUME MediaAssumption, ObjectsInv, NEW a \in Uploaders, Media!CreateRow(a)
    PROVE  /\ uploading[a].op = "create" /\ Media!Respond(a) /\ UNCHANGED <<uploads, objects, images, assets, cleanup>>
           /\ \E r \in RowIds, row \in ContentRow :
                  /\ rows[r] = Media!None /\ row \in uploading[a].made /\ rows' = [rows EXCEPT ![r] = row]
                  /\ \A b \in Uploaders : uploading[b].op = "update" => uploading[b].row # r
<1>1. PICK q \in UploadRequest : q = uploading[a]
    BY TypedMedia
<1>2. PICK r : r = Media!Min(Media!FreeRows)
    OBVIOUS
<1>3. /\ q.op = "create" /\ Media!FreeRows # {} /\ Media!Respond(a) /\ UNCHANGED <<uploads, objects, images, assets, cleanup>>
      /\ \E row \in q.made : rows' = [rows EXCEPT ![r] = row]
    BY <1>1, <1>2 DEF Media!CreateRow
<1>4. /\ r \in RowIds /\ rows[r] = Media!None
      /\ \A b \in Uploaders : uploading[b].op = "update" => uploading[b].row # r
    BY <1>2, <1>3, FreshRowIs
<1>5. PICK row \in q.made : rows' = [rows EXCEPT ![r] = row]
    BY <1>3
<1>6. row \in ContentRow
    BY <1>1, <1>3, UploadRequestShape
<1> QED
    BY <1>1, <1>3, <1>4, <1>5, <1>6

LEMMA UpdateBlockWrites ==
    ASSUME MediaAssumption, ObjectsInv, NEW a \in Uploaders, Media!UpdateBlock(a)
    PROVE  /\ uploading[a].op = "update" /\ Media!Respond(a) /\ UNCHANGED <<uploads, objects, images, assets, cleanup>>
           /\ \/ UNCHANGED rows /\ rows[uploading[a].row] = Media!None
              \/ \E r \in RowIds, new \in Media!BlockRow :
                     /\ r = uploading[a].row /\ rows[r] \in Media!BlockRow /\ rows' = [rows EXCEPT ![r] = new]
                     /\ uploading[a].edit[1] = "text" => new.asset = rows[r].asset /\ new.text = uploading[a].edit[2]
                     /\ uploading[a].edit[1] = "asset" => new.asset = uploading[a].edit[2] /\ new.text = rows[r].text
<1>1. PICK q \in UploadRequest : q = uploading[a] /\ UploadRefers(q)
    BY TypedMedia DEF ObjectsInv
<1>2. /\ q.op = "update" /\ Media!Respond(a) /\ UNCHANGED <<uploads, objects, images, assets, cleanup>>
      /\ rows' = IF rows[q.row] = Media!None THEN rows ELSE [rows EXCEPT ![q.row][q.edit[1]] = q.edit[2]]
    BY <1>1 DEF Media!UpdateBlock
<1>3. q.row \in RowIds /\ q.edit \in BlockEdit
    BY <1>1, <1>2, UploadRequestShape
<1>4. CASE rows[q.row] = Media!None
    BY <1>1, <1>2, <1>4
<1>5. CASE rows[q.row] # Media!None
  <2>1. PICK row \in Media!BlockRow : row = rows[q.row]
    BY <1>1, <1>2, <1>3, <1>5, TypedMedia, ContentShape DEF UploadRefers, TablesTyped
  <2>2. PICK edit \in BlockEdit : edit = q.edit
    BY <1>3
  <2>3. PICK new \in Media!BlockRow :
          /\ new = [row EXCEPT ![edit[1]] = edit[2]]
          /\ edit[1] = "text" => new.asset = row.asset /\ new.text = edit[2]
          /\ edit[1] = "asset" => new.asset = edit[2] /\ new.text = row.text
    BY EditedBlock
  <2>4. rows' = [rows EXCEPT ![q.row] = new]
    BY <1>2, <1>5, <2>1, <2>2, <2>3, Zenon
  <2>5. PICK r \in RowIds : r = q.row
    BY <1>3
  <2>6. /\ edit[1] = "text" => new.asset = row.asset /\ new.text = edit[2]
        /\ edit[1] = "asset" => new.asset = edit[2] /\ new.text = row.text
    BY <2>3
  <2>7. /\ q.edit[1] = "text" => new.asset = rows[r].asset /\ new.text = q.edit[2]
        /\ q.edit[1] = "asset" => new.asset = q.edit[2] /\ new.text = rows[r].text
    BY <2>1, <2>2, <2>5, <2>6
  <2>8. rows[r] \in Media!BlockRow /\ rows' = [rows EXCEPT ![r] = new]
    BY <2>1, <2>4, <2>5, Zenon
  <2> QED
    BY <1>1, <1>2, <2>5, <2>7, <2>8, Zenon
<1> QED
    BY <1>4, <1>5

\* Content changes, and nothing else but requests that end.
LEMMA ObjectsOfContent ==
    ASSUME MediaAssumption, ObjectsInv, UNCHANGED <<uploads, objects, images, assets, cleanup>>,
           rows' \in [RowIds -> ContentRow \cup {Media!None}], RequestsKept,
           \A b \in Uploaders : uploading[b].op = "update" =>
               rows'[uploading[b].row] = Media!None \/ rows'[uploading[b].row].kind = "block"
    PROVE  ObjectsInv'
<1>1. TablesTyped' /\ AssetsStay /\ AssetsStored' /\ Media!OwnKeys \subseteq objects'
    BY TypedMedia DEF TablesTyped, AssetsStay, ObjectsInv, AssetsStored, Media!OwnObjectStored
<1>2. \A b \in Uploaders : StillRight(uploading[b])
    BY DEF StillRight
<1> QED
    BY <1>1, <1>2, ObjectsOfRest

LEMMA ContentObjects ==
    ASSUME MediaAssumption, ObjectsInv,
           (\E a \in Uploaders : Media!CreateRow(a) \/ Media!UpdateBlock(a)) \/ Media!DeleteRow
    PROVE  ObjectsInv'
<1>1. rows \in [RowIds -> ContentRow \cup {Media!None}]
    BY TypedMedia DEF TablesTyped
<1>2. \A b \in Uploaders : uploading[b].op = "update" =>
        rows[uploading[b].row] = Media!None \/ rows[uploading[b].row].kind = "block"
    BY DEF ObjectsInv, UploadRefers
<1>3. ASSUME NEW a \in Uploaders, Media!CreateRow(a) PROVE ObjectsInv'
  <2>1. Media!Respond(a) /\ UNCHANGED <<uploads, objects, images, assets, cleanup>>
    BY <1>3, CreateRowWrites
  <2>2. PICK r \in RowIds, row \in ContentRow :
          /\ rows' = [rows EXCEPT ![r] = row]
          /\ \A b \in Uploaders : uploading[b].op = "update" => uploading[b].row # r
    BY <1>3, CreateRowWrites
  <2>3. /\ rows' \in [RowIds -> ContentRow \cup {Media!None}]
        /\ \A b \in Uploaders : uploading[b].op = "update" =>
               rows'[uploading[b].row] = Media!None \/ rows'[uploading[b].row].kind = "block"
    <3>1. \A s : s # r => rows'[s] = rows[s]
      BY <1>1, <2>2
    <3> QED
      BY <1>1, <1>2, <2>2, <3>1
  <2>4. RequestsKept
    BY <2>1, RespondKeeps DEF RequestsKept
  <2> QED
    BY <2>1, <2>3, <2>4, ObjectsOfContent
<1>4. ASSUME NEW a \in Uploaders, Media!UpdateBlock(a) PROVE ObjectsInv'
  <2>1. Media!Respond(a) /\ UNCHANGED <<uploads, objects, images, assets, cleanup>>
    BY <1>4, UpdateBlockWrites
  <2>2. UNCHANGED rows \/ \E r \in RowIds, new \in Media!BlockRow : rows' = [rows EXCEPT ![r] = new]
    BY <1>4, UpdateBlockWrites
  <2>3. /\ rows' \in [RowIds -> ContentRow \cup {Media!None}]
        /\ \A b \in Uploaders : uploading[b].op = "update" =>
               rows'[uploading[b].row] = Media!None \/ rows'[uploading[b].row].kind = "block"
    <3>1. CASE UNCHANGED rows
      BY <1>1, <1>2, <3>1
    <3>2. CASE \E r \in RowIds, new \in Media!BlockRow : rows' = [rows EXCEPT ![r] = new]
      <4>1. PICK r \in RowIds, new \in Media!BlockRow : rows' = [rows EXCEPT ![r] = new]
        BY <3>2
      <4>2. new \in ContentRow /\ new.kind = "block"
        BY ContentShape DEF ContentRow
      <4>3. \A b \in Uploaders : uploading[b].op = "update" => uploading[b].row \in RowIds
        BY TypedMedia, UploadRequestShape
      <4>4. \A s \in RowIds : rows'[s] = IF s = r THEN new ELSE rows[s]
        BY <1>1, <4>1
      <4> QED
        BY <1>1, <1>2, <4>1, <4>2, <4>3, <4>4
    <3> QED
      BY <2>2, <3>1, <3>2
  <2>4. RequestsKept
    BY <2>1, RespondKeeps DEF RequestsKept
  <2> QED
    BY <2>1, <2>3, <2>4, ObjectsOfContent
<1>5. ASSUME Media!DeleteRow PROVE ObjectsInv'
  <2>1. PICK r \in RowIds : rows' = [rows EXCEPT ![r] = Media!None]
    BY <1>5 DEF Media!DeleteRow, Media!Rows
  <2>2. UNCHANGED <<uploads, objects, images, assets, uploading, cleanup>> /\ Media!Crossing(Uploaders)
    BY <1>5 DEF Media!DeleteRow
  <2>3. /\ rows' \in [RowIds -> ContentRow \cup {Media!None}]
        /\ \A b \in Uploaders : uploading[b].op = "update" =>
               rows'[uploading[b].row] = Media!None \/ rows'[uploading[b].row].kind = "block"
    <3>1. \A b \in Uploaders : uploading[b].op = "update" => uploading[b].row \in RowIds
      BY TypedMedia, UploadRequestShape
    <3>2. \A s \in RowIds : rows'[s] = IF s = r THEN Media!None ELSE rows[s]
      BY <1>1, <2>1
    <3> QED
      BY <1>1, <1>2, <2>1, <3>1, <3>2
  <2>4. RequestsKept
    BY <2>2, TypedMedia DEF RequestsKept, Media!Crossing
  <2> QED
    BY <2>2, <2>3, <2>4, ObjectsOfContent
<1> QED
    BY <1>3, <1>4, <1>5

LEMMA InitObjects == ASSUME MediaAssumption, Media!Init PROVE ObjectsInv
<1>1. TablesTyped /\ uploading \in [Uploaders -> UploadRequest] /\ mediaDrift = {} /\ cleanup = Media!None
    BY DEF Media!Init, TablesTyped, Media!AssetStatus, UploadRequest
<1>2. \A i \in ImageIds : images[i] = Media!None
    BY DEF Media!Init
<1>3. Media!LiveImages = {} /\ Media!OwnKeys = {}
    BY <1>2 DEF Media!LiveImages, Media!OwnKeys
<1>4. KeysDistinct /\ CleanupSafe /\ CleanupTyped /\ Media!OwnObjectStored
    BY <1>1, <1>2, <1>3 DEF KeysDistinct, HasKey, CleanupSafe, CleanupTyped, Media!OwnObjectStored
<1>5. AssetsStored
    BY DEF Media!Init, AssetsStored
<1>6. \A a \in Uploaders : UploadRefers(uploading[a])
    BY DEF Media!Init, UploadRefers, Media!Idle
<1>7. Media!TypeOK
  <2>1. DOMAIN uploading = Uploaders
    BY <1>1
  <2> QED
    BY <1>1, <2>1 DEF Media!TypeOK, TablesTyped, ContentRow
<1> QED
    BY <1>1, <1>4, <1>5, <1>6, <1>7 DEF ObjectsInv

LEMMA MediaBegins ==
    ASSUME MediaAssumption, ObjectsInv, NEW a \in Uploaders,
           \/ Media!BeginCompleteUpload(a) \/ Media!BeginAttachFromMediaAsset(a) \/ Media!BeginUpdateImage(a)
           \/ Media!BeginDeleteImage(a) \/ Media!BeginRegisterAsset(a) \/ Media!BeginDeleteAsset(a)
           \/ Media!BeginCreateBlock(a) \/ Media!BeginCreateAssignment(a) \/ Media!BeginDuplicate(a)
           \/ Media!BeginUpdateBlock(a)
    PROVE  \E q \in UploadRequest : GoodStart(q) /\ Media!Begin(a, q)
<1> QED
    BY ImageRequestBegins, AssetRequestBegins, ContentRequestBegins

LEMMA StepObjects == ASSUME MediaAssumption, ObjectsInv, [Media!Next]_(Media!vars) PROVE ObjectsInv'
<1>1. CASE UNCHANGED Media!vars
  <2>1. UNCHANGED <<uploads, objects, images, assets, rows, cleanup, uploading, mediaDrift>>
    BY <1>1 DEF Media!vars
  <2> QED
    BY <2>1, TypedMedia, ObjectsOfResponse
<1>2. ASSUME NEW a \in Uploaders,
             \/ Media!BeginCompleteUpload(a) \/ Media!BeginAttachFromMediaAsset(a) \/ Media!BeginUpdateImage(a)
             \/ Media!BeginDeleteImage(a) \/ Media!BeginRegisterAsset(a) \/ Media!BeginDeleteAsset(a)
             \/ Media!BeginCreateBlock(a) \/ Media!BeginCreateAssignment(a) \/ Media!BeginDuplicate(a)
             \/ Media!BeginUpdateBlock(a)
      PROVE  ObjectsInv'
  <2>1. PICK q \in UploadRequest : GoodStart(q) /\ Media!Begin(a, q)
    BY <1>2, MediaBegins
  <2> QED
    BY <2>1, ObjectsBegin DEF GoodStart
<1>3. ASSUME NEW a \in Uploaders,
             \/ Media!AttachImage(a) \/ Media!UpdateImage(a) \/ Media!DeleteImage(a) \/ Media!RemoveObject(a)
             \/ Media!RegisterAsset(a) \/ Media!DeleteAsset(a)
      PROVE  ObjectsInv'
    BY <1>3, AttachObjects, ChooseObjects, DeleteObjects, RemoveObjects, RegisterObjects, DeleteAssetObjects
<1>4. ASSUME (\E a \in Uploaders : Media!CreateRow(a) \/ Media!UpdateBlock(a)) \/ Media!DeleteRow PROVE ObjectsInv'
    BY <1>4, ContentObjects
<1>5. ASSUME \/ Media!AuthorizeUpload \/ Media!BrowserUploads \/ Media!KeyAges \/ Media!BeginCleanup \/ Media!Cleanup
      PROVE  ObjectsInv'
    BY <1>5, UploadObjects, BeginCleanupObjects, CleanupObjects
<1> QED
    BY <1>1, <1>2, <1>3, <1>4, <1>5 DEF Media!Next

\* Whatever requests overlap and whenever the cleanup script runs, an image that was uploaded
\* for a product keeps its object while it is attached: no two rows ever have one key, an
\* object is removed only after its row was deleted, and the script only removes what was
\* uploaded too long ago for any request.
THEOREM OwnObjectStoredAlways == ASSUME MediaAssumption PROVE Media!Spec => [](Media!TypeOK /\ Media!OwnObjectStored)
<1>1. Media!Init => ObjectsInv
    BY InitObjects
<1>2. ObjectsInv /\ [Media!Next]_(Media!vars) => ObjectsInv'
    BY StepObjects
<1>3. ObjectsInv => Media!TypeOK /\ Media!OwnObjectStored
    BY DEF ObjectsInv
<1> QED
    BY <1>1, <1>2, <1>3, PTL DEF Media!Spec

-----------------------------------------------------------------------------
(* The gallery: what steps that do not overlap keep                          *)

\* As long as no request overlapped, a step leaves at most one request, with only its object
\* to remove.
MediaQuiet ==
    Undisturbed' => /\ Undisturbed
                    /\ \A a, b \in Uploaders : uploading'[a] # Media!Idle /\ uploading'[b] # Media!Idle => a = b
                    /\ \A b \in Uploaders : uploading'[b].op \in {"idle", "remove"}

LEMMA MediaCrossing ==
    ASSUME NEW others, Media!Crossing(others)
    PROVE  Undisturbed' => Undisturbed /\ \A b \in others : uploading[b] = Media!Idle
<1> QED
    BY DEF Media!Crossing, Undisturbed

LEMMA QuietEnd == ASSUME ObjectsInv, NEW a \in Uploaders, Media!Respond(a) PROVE MediaQuiet
<1>1. uploading' = [uploading EXCEPT ![a] = Media!Idle] /\ Media!Crossing(Uploaders \ {a})
    BY DEF Media!Respond
<1>2. Undisturbed' => Undisturbed /\ \A b \in Uploaders \ {a} : uploading[b] = Media!Idle
    BY <1>1, MediaCrossing
<1>3. uploading'[a] = Media!Idle /\ \A b \in Uploaders \ {a} : uploading'[b] = uploading[b]
    BY <1>1, TypedMedia
<1>4. Media!Idle.op = "idle"
    BY DEF Media!Idle
<1> QED
    BY <1>2, <1>3, <1>4 DEF MediaQuiet

LEMMA QuietContinued ==
    ASSUME ObjectsInv, NEW a \in Uploaders, NEW q \in UploadRequest, q.op = "remove", Media!Continue(a, q) PROVE MediaQuiet
<1>1. uploading' = [uploading EXCEPT ![a] = q] /\ Media!Crossing(Uploaders \ {a})
    BY DEF Media!Continue
<1>2. Undisturbed' => Undisturbed /\ \A b \in Uploaders \ {a} : uploading[b] = Media!Idle
    BY <1>1, MediaCrossing
<1>3. uploading'[a] = q /\ \A b \in Uploaders \ {a} : uploading'[b] = uploading[b]
    BY <1>1, TypedMedia
<1>4. Media!Idle.op = "idle"
    BY DEF Media!Idle
<1> QED
    BY <1>2, <1>3, <1>4 DEF MediaQuiet

LEMMA QuietChosen ==
    ASSUME MediaAssumption, ObjectsInv, NEW a \in Uploaders, Media!UpdateImage(a)
    PROVE  MediaQuiet /\ (Undisturbed' => uploading[a].was = FALSE)
<1>1. PICK was \in BOOLEAN : was = uploading[a].was
  <2>1. PICK q \in UploadRequest : q = uploading[a]
    BY TypedMedia
  <2>2. q.was \in BOOLEAN
    BY <2>1, ChooseWrites, UploadRequestShape
  <2> QED
    BY <2>1, <2>2
<1>2. /\ uploading' = [uploading EXCEPT ![a] = Media!Idle]
      /\ mediaDrift' = mediaDrift \cup (IF was THEN {"rechosen"} ELSE {})
                                  \cup (IF \E b \in Uploaders \ {a} : uploading[b] # Media!Idle THEN {"overlap"} ELSE {})
    BY <1>1, ChooseWrites
<1>3. Undisturbed' => Undisturbed /\ was = FALSE /\ \A b \in Uploaders \ {a} : uploading[b] = Media!Idle
    BY <1>2 DEF Undisturbed
<1>4. uploading'[a] = Media!Idle /\ \A b \in Uploaders \ {a} : uploading'[b] = uploading[b]
    BY <1>2, TypedMedia
<1>5. Media!Idle.op = "idle"
    BY DEF Media!Idle
<1> QED
    BY <1>1, <1>3, <1>4, <1>5 DEF MediaQuiet

LEMMA QuietDeleted == ASSUME ObjectsInv, Media!DeleteRow PROVE MediaQuiet
<1>1. UNCHANGED uploading /\ Media!Crossing(Uploaders)
    BY DEF Media!DeleteRow
<1>2. Undisturbed' => Undisturbed /\ \A b \in Uploaders : uploading[b] = Media!Idle
    BY <1>1, MediaCrossing
<1> QED
    BY <1>1, <1>2 DEF MediaQuiet, Media!Idle

LEMMA IntactEnd == ASSUME MediaQuiet, Undisturbed' => OnePrimary' /\ AllShown' PROVE IntactInv'
<1>1. UploadingAlone'
    BY DEF MediaQuiet, UploadingAlone
<1>2. Undisturbed' => \A a \in Uploaders : UploadStands(uploading[a])'
    BY DEF MediaQuiet, UploadStands
<1> QED
    BY <1>1, <1>2 DEF IntactInv

\* Nothing is written that the gallery shows.
LEMMA IntactOfEnd == ASSUME IntactInv, MediaQuiet, UNCHANGED <<images, assets, rows>> PROVE IntactInv'
<1>1. Undisturbed' => OnePrimary /\ AllShown
    BY DEF IntactInv, MediaQuiet
<1>2. Undisturbed' => OnePrimary' /\ AllShown'
    BY <1>1 DEF OnePrimary, AllShown, Shown, Media!LiveImages, Media!Rows, Media!Empty
<1> QED
    BY <1>2, IntactEnd

LEMMA IntactElsewhere == ASSUME IntactInv, UNCHANGED <<images, assets, rows, uploading, mediaDrift>> PROVE IntactInv'
<1> QED
    BY DEF IntactInv, UploadingAlone, Undisturbed, OnePrimary, AllShown, Shown, UploadStands, Media!LiveImages, Media!Rows,
           Media!Empty, Media!InUse, Media!InUseByImage

LEMMA IntactBegin ==
    ASSUME ObjectsInv, IntactInv, NEW a \in Uploaders, NEW q \in UploadRequest, GoodStart(q), Media!Begin(a, q)
    PROVE  IntactInv'
<1>1. /\ uploading' = [uploading EXCEPT ![a] = q] /\ Media!Crossing(Uploaders)
      /\ UNCHANGED <<uploads, objects, images, assets, rows, cleanup>>
    BY DEF Media!Begin
<1>2. Undisturbed' => Undisturbed /\ \A b \in Uploaders : uploading[b] = Media!Idle
    BY <1>1, MediaCrossing
<1>3. uploading'[a] = q /\ \A b \in Uploaders \ {a} : uploading'[b] = uploading[b]
    BY <1>1, TypedMedia
<1>4. UploadingAlone'
    BY <1>2, <1>3 DEF UploadingAlone
<1>5. Undisturbed' => OnePrimary /\ AllShown /\ UploadStands(q)
    BY <1>2 DEF IntactInv, GoodStart
<1>6. Undisturbed' => OnePrimary' /\ AllShown' /\ UploadStands(q)'
    BY <1>1, <1>5 DEF OnePrimary, AllShown, Shown, UploadStands, Media!LiveImages, Media!Rows,
           Media!Empty, Media!InUse, Media!InUseByImage
<1>7. ASSUME Undisturbed', NEW b \in Uploaders PROVE UploadStands(uploading[b])'
  <2>1. CASE b = a
    BY <1>3, <1>6, <1>7, <2>1 DEF UploadStands, Shown, Media!LiveImages, Media!Rows, Media!Empty, Media!InUse,
           Media!InUseByImage
  <2>2. CASE b # a
    BY <1>2, <1>3, <1>7, <2>2 DEF UploadStands, Media!Idle
  <2> QED
    BY <2>1, <2>2
<1> QED
    BY <1>4, <1>6, <1>7 DEF IntactInv

-----------------------------------------------------------------------------
(* The gallery: images that are attached, chosen and deleted                 *)

LEMMA NextLive ==
    ASSUME images' \in [ImageIds -> Media!ImageRow \cup {Media!None}]
    PROVE  \A x : x \in Media!LiveImages' <=> x \in ImageIds /\ images'[x] # Media!None /\ images'[x].deleted = FALSE
<1>1. \A x \in ImageIds : images'[x] # Media!None => images'[x].deleted \in BOOLEAN
    BY ImageShape
<1> QED
    BY <1>1 DEF Media!LiveImages

\* A live image shows what a live image showed, or something that can be shown.
LEMMA ShownByImages ==
    ASSUME AllShown, UNCHANGED <<assets, rows>>,
           \A x \in Media!LiveImages' : Shown(images'[x].asset) \/
               \E y \in Media!LiveImages : images'[x].asset = images[y].asset
    PROVE  AllShown'
<1>1. \A x \in Media!LiveImages' : Shown(images'[x].asset)
    BY DEF AllShown
<1>2. \A x \in Media!LiveImages' : Shown(images[x].asset)'
    BY <1>1 DEF Shown
<1>3. \A r \in Media!Rows' : Shown(rows[r].asset)' /\ ~Media!Empty(rows[r])'
    BY DEF AllShown, Shown, Media!Rows, Media!Empty
<1> QED
    BY <1>2, <1>3 DEF AllShown

LEMMA AttachIntact ==
    ASSUME MediaAssumption, ObjectsInv, IntactInv, NEW a \in Uploaders, Media!AttachImage(a) PROVE IntactInv'
<1>1. PICK q \in UploadRequest : q = uploading[a] /\ q.op = "attach"
    BY TypedMedia, AttachWrites
<1>2. Media!Respond(a) /\ UNCHANGED <<assets, rows>>
    BY AttachWrites
<1>3. MediaQuiet
    BY <1>2, QuietEnd
<1>4. CASE UNCHANGED images
    BY <1>2, <1>3, <1>4, IntactOfEnd
<1>5. CASE \E i \in ImageIds, new \in Media!ImageRow, on \in BOOLEAN :
               ImageAdded(i, new, on) /\ ImageIs(new, q.key, q.asset, on, FALSE) /\ (Media!LiveImages = {} => on = TRUE)
  <2>1. PICK i \in ImageIds, new \in Media!ImageRow, on \in BOOLEAN :
               ImageAdded(i, new, on) /\ ImageIs(new, q.key, q.asset, on, FALSE) /\ (Media!LiveImages = {} => on = TRUE)
    BY <1>5
  <2>2. PICK base : Based(base, on) /\ images' = [base EXCEPT ![i] = new]
    BY <2>1 DEF ImageAdded
  <2>3. /\ images' \in [ImageIds -> Media!ImageRow \cup {Media!None}]
        /\ images'[i] = new /\ images[i] = Media!None /\ new # Media!None
        /\ new.asset = q.asset /\ new.is_primary = on /\ new.deleted = FALSE
    BY <2>1, <2>2, ImageShape DEF Based, ImageAdded, ImageIs
  <2>4. \A j \in ImageIds \ {i} :
          /\ images[j] = Media!None => images'[j] = Media!None
          /\ images[j] # Media!None => /\ images'[j] # Media!None /\ images'[j].asset = images[j].asset
                                       /\ images'[j].deleted = images[j].deleted
                                       /\ on = FALSE => images'[j].is_primary = images[j].is_primary
                                       /\ on = TRUE /\ images[j].deleted = FALSE => images'[j].is_primary = FALSE
    BY <2>2, ImageShape DEF Based, SameImage
  <2>5. \A x : x \in Media!LiveImages' <=> x = i \/ x \in Media!LiveImages
    BY <2>3, <2>4, NextLive, LiveImagesAre
  <2>6. i \notin Media!LiveImages /\ \A x \in Media!LiveImages : x \in ImageIds \ {i} /\ images[x] # Media!None /\ images[x].deleted = FALSE
    BY <2>3, LiveImagesAre
  <2>7. Undisturbed' => OnePrimary /\ AllShown /\ Shown(q.asset)
    BY <1>1, <1>3 DEF IntactInv, MediaQuiet, UploadStands
  <2>8. Undisturbed' => OnePrimary'
    <3>1. CASE on = TRUE
      BY <2>3, <2>4, <2>5, <2>6, <3>1 DEF OnePrimary
    <3>2. CASE on = FALSE
      <4> SUFFICES ASSUME Undisturbed' PROVE OnePrimary'
        OBVIOUS
      <4>1. PICK p \in Media!LiveImages :
              images[p].is_primary = TRUE /\ \A j \in Media!LiveImages : images[j].is_primary = TRUE => j = p
        BY <2>1, <2>7, <3>2 DEF OnePrimary
      <4>2. p \in Media!LiveImages' /\ images'[p].is_primary = TRUE
        BY <2>4, <2>5, <2>6, <3>2, <4>1
      <4>3. \A j \in Media!LiveImages' : images'[j].is_primary = TRUE => j = p
        BY <2>3, <2>4, <2>5, <2>6, <3>2, <4>1
      <4> QED
        BY <4>2, <4>3 DEF OnePrimary
    <3> QED
      BY <3>1, <3>2
  <2>9. Undisturbed' => AllShown'
    <3>1. \A x \in Media!LiveImages' : images'[x].asset = q.asset \/ \E y \in Media!LiveImages : images'[x].asset = images[y].asset
      BY <2>3, <2>4, <2>5, <2>6
    <3> QED
      BY <1>2, <2>7, <3>1, ShownByImages
  <2> QED
    BY <1>3, <2>8, <2>9, IntactEnd
<1> QED
    BY <1>1, <1>4, <1>5, AttachWrites

LEMMA ChooseIntact ==
    ASSUME MediaAssumption, ObjectsInv, IntactInv, NEW a \in Uploaders, Media!UpdateImage(a) PROVE IntactInv'
<1>1. PICK q \in UploadRequest : q = uploading[a] /\ q.op = "choose"
    BY TypedMedia, ChooseWrites
<1>2. UNCHANGED <<assets, rows>>
    BY ChooseWrites
<1>3. MediaQuiet /\ (Undisturbed' => q.was = FALSE)
    BY <1>1, QuietChosen
<1>4. CASE UNCHANGED images
    BY <1>2, <1>3, <1>4, IntactOfEnd
<1>5. CASE q.was = TRUE
    BY <1>3, <1>5, IntactEnd
<1>6. CASE \E base : \E new \in Media!ImageRow :
               /\ Based(base, TRUE) /\ ImageSet(base, q.image, new)
               /\ SameImage(base[q.image], new) /\ new.is_primary = TRUE
  <2>1. PICK base : \E new \in Media!ImageRow :
               /\ Based(base, TRUE) /\ ImageSet(base, q.image, new)
               /\ SameImage(base[q.image], new) /\ new.is_primary = TRUE
    BY <1>6
  <2>2. PICK new \in Media!ImageRow :
               /\ Based(base, TRUE) /\ ImageSet(base, q.image, new)
               /\ SameImage(base[q.image], new) /\ new.is_primary = TRUE
    BY <2>1
  <2>3. PICK i \in ImageIds : i = q.image /\ images[i] # Media!None /\ images' = [base EXCEPT ![i] = new]
    BY <2>2 DEF ImageSet
  <2>4. /\ images' \in [ImageIds -> Media!ImageRow \cup {Media!None}] /\ images'[i] = new /\ new.is_primary = TRUE
        /\ \A j \in ImageIds : images[j] = Media!None => images'[j] = Media!None
        /\ \A j \in ImageIds : images[j] # Media!None =>
               /\ images'[j] # Media!None /\ images'[j].asset = images[j].asset /\ images'[j].deleted = images[j].deleted
               /\ j # i /\ images[j].deleted = FALSE => images'[j].is_primary = FALSE
    BY <2>2, <2>3, ImageShape DEF Based, SameImage
  <2>5. \A x : x \in Media!LiveImages' <=> x \in Media!LiveImages
    BY <2>4, NextLive, LiveImagesAre
  <2>6. \A x \in Media!LiveImages : x \in ImageIds /\ images[x] # Media!None /\ images[x].deleted = FALSE
    BY LiveImagesAre
  <2>7. Undisturbed' => AllShown /\ i \in Media!LiveImages
    BY <1>1, <1>3, <2>3 DEF IntactInv, MediaQuiet, UploadStands
  <2>8. Undisturbed' => OnePrimary'
    BY <2>4, <2>5, <2>6, <2>7 DEF OnePrimary
  <2>9. Undisturbed' => AllShown'
    BY <1>2, <2>4, <2>5, <2>6, <2>7, ShownByImages
  <2> QED
    BY <1>3, <2>8, <2>9, IntactEnd
<1> QED
    BY <1>1, <1>4, <1>5, <1>6, ChooseWrites

LEMMA DeleteIntact ==
    ASSUME MediaAssumption, ObjectsInv, IntactInv, NEW a \in Uploaders, Media!DeleteImage(a) PROVE IntactInv'
<1>1. PICK q \in UploadRequest : q = uploading[a] /\ q.op = "delete"
    BY TypedMedia, DeleteWrites
<1>2. UNCHANGED <<assets, rows>>
    BY DeleteWrites
<1>3. PICK i \in ImageIds, was \in BOOLEAN, k \in ImageKeys \cup {Media!None} : i = q.image /\ was = q.was /\ k = q.key
    BY <1>1, UploadRequestShape
<1>4. CASE UNCHANGED images /\ Media!Respond(a)
    BY <1>2, <1>4, QuietEnd, IntactOfEnd
<1>5. CASE /\ IF k = Media!None THEN Media!Respond(a) ELSE Media!Continue(a, [op |-> "remove", key |-> k])
           /\ \E gone : ImageGone(gone, i, was) /\ Replaced(gone, i, was)
  <2>1. MediaQuiet
    <3>1. CASE k = Media!None
      BY <1>5, <3>1, QuietEnd
    <3>2. CASE k # Media!None
      <4>1. PICK next : next = [op |-> "remove", key |-> k]
        OBVIOUS
      <4>2. next \in UploadRequest /\ next.op = "remove"
        BY <3>2, <4>1 DEF UploadRequest
      <4>3. Media!Continue(a, next)
        BY <1>5, <3>2, <4>1
      <4> QED
        BY <4>2, <4>3, QuietContinued
    <3> QED
      BY <3>1, <3>2
  <2>2. PICK gone : ImageGone(gone, i, was) /\ Replaced(gone, i, was)
    BY <1>5
  <2>3. /\ gone \in [ImageIds -> Media!ImageRow \cup {Media!None}] /\ images[i] # Media!None
        /\ \A j \in ImageIds \ {i} : gone[j] = images[j]
        /\ gone[i] # Media!None /\ gone[i].deleted = TRUE
    BY <2>2, ImageShape DEF ImageGone
  <2>4. Undisturbed' => /\ OnePrimary /\ AllShown /\ i \in Media!LiveImages
                        /\ was = images[i].is_primary
    BY <1>1, <1>3, <2>1 DEF IntactInv, MediaQuiet, UploadStands
  <2>5. CASE images' = gone /\ (was = FALSE \/ Media!LiveImages \ {i} = {})
    <3>1. \A x : x \in Media!LiveImages' <=> x \in Media!LiveImages /\ x # i
      BY <2>3, <2>5, NextLive, LiveImagesAre
    <3>2. \A x \in Media!LiveImages' : x \in Media!LiveImages /\ x # i /\ images'[x] = images[x]
      BY <2>3, <2>5, <3>1, LiveImagesAre
    <3>3. Undisturbed' => OnePrimary'
      <4>1. CASE Media!LiveImages \ {i} = {}
        BY <3>1, <4>1 DEF OnePrimary
      <4>2. CASE Media!LiveImages \ {i} # {}
        <5> SUFFICES ASSUME Undisturbed' PROVE OnePrimary'
          OBVIOUS
        <5>1. PICK p \in Media!LiveImages :
                images[p].is_primary = TRUE /\ \A j \in Media!LiveImages : images[j].is_primary = TRUE => j = p
          BY <2>4, <4>2 DEF OnePrimary
        <5>2. p # i
          BY <2>4, <2>5, <4>2, <5>1
        <5> QED
          BY <3>1, <3>2, <5>1, <5>2 DEF OnePrimary
      <4> QED
        BY <4>1, <4>2
    <3>4. Undisturbed' => AllShown'
      BY <1>2, <2>4, <3>2, ShownByImages
    <3> QED
      BY <2>1, <3>3, <3>4, IntactEnd
  <2>6. CASE was = TRUE /\ \E j \in Media!LiveImages \ {i}, on \in Media!ImageRow :
               ImageSet(gone, j, on) /\ SameImage(gone[j], on) /\ on.is_primary = TRUE
    <3>1. PICK j \in Media!LiveImages \ {i}, on \in Media!ImageRow :
               ImageSet(gone, j, on) /\ SameImage(gone[j], on) /\ on.is_primary = TRUE
      BY <2>6
    <3>2. j \in ImageIds /\ j # i /\ images[j] # Media!None /\ images' = [gone EXCEPT ![j] = on] /\ gone[j] = images[j]
      BY <2>3, <3>1 DEF ImageSet
    <3>3. /\ images' \in [ImageIds -> Media!ImageRow \cup {Media!None}]
          /\ images'[j] = on /\ on # Media!None /\ on.asset = images[j].asset /\ on.deleted = images[j].deleted
          /\ images'[i] # Media!None /\ images'[i].deleted = TRUE
          /\ \A x \in ImageIds \ {i, j} : images'[x] = images[x]
      BY <2>3, <3>1, <3>2, ImageShape DEF SameImage
    <3>4. ASSUME NEW x PROVE x \in Media!LiveImages' <=> x \in Media!LiveImages /\ x # i
      <4>1. x \in Media!LiveImages' <=> x \in ImageIds /\ images'[x] # Media!None /\ images'[x].deleted = FALSE
        BY <3>3, NextLive
      <4>2. x \in Media!LiveImages <=> x \in ImageIds /\ images[x] # Media!None /\ images[x].deleted = FALSE
        BY LiveImagesAre
      <4>3. CASE x = i
        BY <3>3, <4>1, <4>3
      <4>4. CASE x = j
        BY <3>2, <3>3, <4>1, <4>2, <4>4
      <4>5. CASE x # i /\ x # j
        BY <3>3, <4>1, <4>2, <4>5
      <4> QED
        BY <4>3, <4>4, <4>5
    <3>5. \A x \in Media!LiveImages : x \in ImageIds
      BY LiveImagesAre
    <3>6. Undisturbed' => OnePrimary'
      <4> SUFFICES ASSUME Undisturbed' PROVE OnePrimary'
        OBVIOUS
      <4>1. \A x \in Media!LiveImages : images[x].is_primary = TRUE => x = i
        BY <2>4, <2>6 DEF OnePrimary
      <4>2. j \in Media!LiveImages' /\ images'[j].is_primary = TRUE
        BY <3>1, <3>2, <3>3, <3>4
      <4>3. \A x \in Media!LiveImages' : images'[x].is_primary = TRUE => x = j
        BY <3>3, <3>4, <3>5, <4>1
      <4> QED
        BY <4>2, <4>3 DEF OnePrimary
    <3>7. Undisturbed' => AllShown'
      <4>1. \A x \in Media!LiveImages' : \E y \in Media!LiveImages : images'[x].asset = images[y].asset
        BY <3>1, <3>3, <3>4, <3>5
      <4> QED
        BY <1>2, <2>4, <4>1, ShownByImages
    <3> QED
      BY <2>1, <3>6, <3>7, IntactEnd
  <2> QED
    BY <2>2, <2>5, <2>6 DEF Replaced
<1>6. \/ UNCHANGED images /\ Media!Respond(a)
      \/ /\ IF uploading[a].key = Media!None THEN Media!Respond(a)
            ELSE Media!Continue(a, [op |-> "remove", key |-> uploading[a].key])
         /\ Media!Allowed(images')
         /\ \E gone : /\ ImageGone(gone, uploading[a].image, uploading[a].was)
                      /\ Replaced(gone, uploading[a].image, uploading[a].was)
    BY DeleteWrites
<1>7. uploading[a].key = k /\ uploading[a].image = i /\ uploading[a].was = was
    BY <1>1, <1>3
<1> QED
    BY <1>4, <1>5, <1>6, <1>7, Zenon

-----------------------------------------------------------------------------
(* The gallery: assets, content blocks and videos                            *)

LEMMA AssetIntact ==
    ASSUME MediaAssumption, ObjectsInv, IntactInv, NEW a \in Uploaders, Media!RegisterAsset(a) \/ Media!DeleteAsset(a)
    PROVE  IntactInv'
<1>1. PICK q \in UploadRequest : q = uploading[a] /\ q.op \in {"register", "deleteAsset"}
    BY TypedMedia DEF Media!RegisterAsset, Media!DeleteAsset
<1>2. PICK k \in AssetKeys : k = q.key
    BY <1>1, UploadRequestShape
<1>3. UNCHANGED <<images, rows>>
    BY DEF Media!RegisterAsset, Media!DeleteAsset
<1>4. MediaQuiet
  <2>1. CASE Media!RegisterAsset(a)
    BY <2>1, QuietEnd DEF Media!RegisterAsset
  <2>2. CASE Media!DeleteAsset(a)
    <3>1. PICK next : next = [op |-> "remove", key |-> k]
      OBVIOUS
    <3>2. next \in UploadRequest /\ next.op = "remove"
      BY <3>1 DEF UploadRequest
    <3>3. Media!Continue(a, next)
      BY <1>1, <1>2, <2>2, <3>1 DEF Media!DeleteAsset
    <3> QED
      BY <3>2, <3>3, QuietContinued
  <2> QED
    BY <2>1, <2>2
<1>5. Undisturbed' => OnePrimary /\ AllShown /\ UploadStands(q)
    BY <1>1, <1>4 DEF IntactInv, MediaQuiet
<1>6. Undisturbed' => OnePrimary'
    BY <1>3, <1>5 DEF OnePrimary, Media!LiveImages
<1>7. Undisturbed' => \A i \in Media!LiveImages : Shown(images[i].asset) /\ Shown(images[i].asset)'
  <2> SUFFICES ASSUME Undisturbed', NEW i \in Media!LiveImages, images[i].asset # Media!None
               PROVE  assets[images[i].asset] = "live" /\ assets'[images[i].asset] = "live"
    BY <1>3, <1>5 DEF AllShown, Shown
  <2>1. i \in ImageIds /\ images[i] \in Media!ImageRow
    BY LiveImagesAre
  <2>2. PICK s \in AssetKeys : s = images[i].asset
    BY <2>1, ImageShape
  <2>3. assets[s] = "live"
    BY <1>5, <2>2 DEF AllShown, Shown
  <2>4. assets'[s] = "live"
    <3>1. CASE Media!RegisterAsset(a)
      BY <1>1, <1>2, <2>3, <3>1, TypedMedia DEF TablesTyped, Media!RegisterAsset
    <3>2. CASE Media!DeleteAsset(a)
      <4>1. q.op = "deleteAsset" /\ assets' = [assets EXCEPT ![k] = "deleted"]
        BY <1>1, <1>2, <3>2 DEF Media!DeleteAsset
      <4>2. s # k
        BY <1>2, <1>5, <2>2, <4>1 DEF UploadStands, Media!InUse, Media!InUseByImage
      <4> QED
        BY <2>3, <4>1, <4>2, TypedMedia DEF TablesTyped
    <3> QED
      BY <3>1, <3>2
  <2> QED
    BY <2>2, <2>3, <2>4
<1>8. Undisturbed' => \A r \in Media!Rows : Shown(rows[r].asset)' /\ ~Media!Empty(rows[r])'
  <2> SUFFICES ASSUME Undisturbed', NEW r \in Media!Rows, rows[r].asset # Media!None PROVE assets'[rows[r].asset] = "live"
    BY <1>3, <1>5 DEF AllShown, Shown, Media!Empty
  <2>1. r \in RowIds /\ rows[r] \in ContentRow
    BY TypedMedia DEF TablesTyped, Media!Rows
  <2>2. PICK s \in AssetKeys : s = rows[r].asset
    BY <2>1, ContentShape
  <2>3. assets[s] = "live"
    BY <1>5, <2>2 DEF AllShown, Shown
  <2>4. assets'[s] = "live"
    <3>1. CASE Media!RegisterAsset(a)
      BY <1>1, <1>2, <2>3, <3>1, TypedMedia DEF TablesTyped, Media!RegisterAsset
    <3>2. CASE Media!DeleteAsset(a)
      <4>1. q.op = "deleteAsset" /\ assets' = [assets EXCEPT ![k] = "deleted"]
        BY <1>1, <1>2, <3>2 DEF Media!DeleteAsset
      <4>2. s # k
        BY <1>2, <1>5, <2>2, <4>1 DEF UploadStands, Media!InUse
      <4> QED
        BY <2>3, <4>1, <4>2, TypedMedia DEF TablesTyped
    <3> QED
      BY <3>1, <3>2
  <2> QED
    BY <2>2, <2>4
<1>9. Undisturbed' => AllShown'
  <2>1. Media!LiveImages' = Media!LiveImages /\ Media!Rows' = Media!Rows
    BY <1>3 DEF Media!LiveImages, Media!Rows
  <2> QED
    BY <1>3, <1>7, <1>8, <2>1 DEF AllShown, Shown, Media!Empty
<1> QED
    BY <1>4, <1>6, <1>9, IntactEnd

\* Every row is as it was, or one that can be shown.
LEMMA ShownByRows ==
    ASSUME OnePrimary, AllShown, UNCHANGED <<images, assets>>,
           \A s \in RowIds : rows'[s] # Media!None =>
               (rows[s] # Media!None /\ rows'[s] = rows[s]) \/ (Shown(rows'[s].asset) /\ ~Media!Empty(rows'[s]))
    PROVE  OnePrimary' /\ AllShown'
<1>1. OnePrimary'
    BY DEF OnePrimary, Media!LiveImages
<1>2. \A i \in Media!LiveImages' : Shown(images[i].asset)'
    BY DEF AllShown, Shown, Media!LiveImages
<1>3. ASSUME NEW s \in Media!Rows' PROVE Shown(rows[s].asset)' /\ ~Media!Empty(rows[s])'
  <2>1. s \in RowIds /\ rows'[s] # Media!None
    BY DEF Media!Rows
  <2>2. CASE rows[s] # Media!None /\ rows'[s] = rows[s]
    BY <2>1, <2>2 DEF AllShown, Shown, Media!Rows, Media!Empty
  <2>3. CASE Shown(rows'[s].asset) /\ ~Media!Empty(rows'[s])
    BY <2>3 DEF Shown, Media!Empty
  <2> QED
    BY <2>1, <2>2, <2>3
<1> QED
    BY <1>1, <1>2, <1>3 DEF AllShown

LEMMA CreateRowIntact ==
    ASSUME MediaAssumption, ObjectsInv, IntactInv, NEW a \in Uploaders, Media!CreateRow(a) PROVE IntactInv'
<1>1. Media!Respond(a) /\ UNCHANGED <<images, assets>> /\ uploading[a].op = "create"
    BY CreateRowWrites
<1>2. PICK r \in RowIds, row \in ContentRow : row \in uploading[a].made /\ rows' = [rows EXCEPT ![r] = row]
    BY CreateRowWrites
<1>3. MediaQuiet
    BY <1>1, QuietEnd
<1>4. Undisturbed' => OnePrimary /\ AllShown /\ Shown(row.asset) /\ ~Media!Empty(row)
    BY <1>1, <1>2, <1>3 DEF IntactInv, MediaQuiet, UploadStands
<1>5. \A s \in RowIds : rows'[s] = rows[s] \/ rows'[s] = row
    BY <1>2, TypedMedia DEF TablesTyped
<1>6. Undisturbed' => OnePrimary' /\ AllShown'
    BY <1>1, <1>4, <1>5, ShownByRows
<1> QED
    BY <1>3, <1>6, IntactEnd

LEMMA UpdateBlockIntact ==
    ASSUME MediaAssumption, ObjectsInv, IntactInv, NEW a \in Uploaders, Media!UpdateBlock(a) PROVE IntactInv'
<1>1. PICK q \in UploadRequest : q = uploading[a] /\ q.op = "update"
    BY TypedMedia, UpdateBlockWrites
<1>2. Media!Respond(a) /\ UNCHANGED <<images, assets>>
    BY UpdateBlockWrites
<1>3. MediaQuiet
    BY <1>2, QuietEnd
<1>4. Undisturbed' => OnePrimary /\ AllShown /\ UploadStands(q)
    BY <1>1, <1>3 DEF IntactInv, MediaQuiet
<1>5. CASE UNCHANGED rows
    BY <1>2, <1>3, <1>5, IntactOfEnd
<1>6. CASE \E r \in RowIds, new \in Media!BlockRow :
               /\ r = q.row /\ rows[r] \in Media!BlockRow /\ rows' = [rows EXCEPT ![r] = new]
               /\ q.edit[1] = "text" => new.asset = rows[r].asset /\ new.text = q.edit[2]
               /\ q.edit[1] = "asset" => new.asset = q.edit[2] /\ new.text = rows[r].text
  <2>1. PICK r \in RowIds, new \in Media!BlockRow :
               /\ r = q.row /\ rows[r] \in Media!BlockRow /\ rows' = [rows EXCEPT ![r] = new]
               /\ q.edit[1] = "text" => new.asset = rows[r].asset /\ new.text = q.edit[2]
               /\ q.edit[1] = "asset" => new.asset = q.edit[2] /\ new.text = rows[r].text
    BY <1>6
  <2>2. PICK row \in Media!BlockRow : row = rows[r]
    BY <2>1
  <2>3. PICK column, value : column = q.edit[1] /\ value = q.edit[2]
    OBVIOUS
  <2>4. (column = "text" /\ value \in BOOLEAN) \/ column = "asset"
    BY <1>1, <2>3, UploadRequestShape, BlockEditShape
  <2>5. Undisturbed' => /\ Shown(row.asset) /\ ~Media!Empty(row)
                        /\ column = "asset" => Shown(value) /\ (value # Media!None \/ row.text)
                        /\ column = "text" => value \/ row.asset # Media!None
    <3>1. row # Media!None
      BY ContentShape DEF ContentRow
    <3> QED
      BY <1>1, <1>4, <2>1, <2>2, <2>3, <3>1 DEF AllShown, UploadStands, Media!Rows
  <2>6. /\ column = "text" => new.asset = row.asset /\ new.text = value
        /\ column = "asset" => new.asset = value /\ new.text = row.text
    BY <2>1, <2>2, <2>3
  <2>7. Undisturbed' => Shown(new.asset) /\ ~Media!Empty(new)
    BY <2>4, <2>5, <2>6 DEF Media!Empty
  <2>8. \A s \in RowIds : rows'[s] = rows[s] \/ rows'[s] = new
    BY <2>1, TypedMedia DEF TablesTyped
  <2>9. Undisturbed' => OnePrimary' /\ AllShown'
    BY <1>2, <1>4, <2>7, <2>8, ShownByRows
  <2> QED
    BY <1>3, <2>9, IntactEnd
<1> QED
    BY <1>1, <1>5, <1>6, UpdateBlockWrites

LEMMA DeleteRowIntact == ASSUME MediaAssumption, ObjectsInv, IntactInv, Media!DeleteRow PROVE IntactInv'
<1>1. UNCHANGED <<images, assets>>
    BY DEF Media!DeleteRow
<1>2. PICK r \in RowIds : rows' = [rows EXCEPT ![r] = Media!None]
    BY DEF Media!DeleteRow, Media!Rows
<1>3. MediaQuiet
    BY QuietDeleted
<1>4. \A s \in RowIds : rows'[s] = rows[s] \/ rows'[s] = Media!None
    BY <1>2, TypedMedia DEF TablesTyped
<1>5. Undisturbed' => OnePrimary /\ AllShown
    BY <1>3 DEF IntactInv, MediaQuiet
<1>6. Undisturbed' => OnePrimary' /\ AllShown'
    BY <1>1, <1>4, <1>5, ShownByRows
<1> QED
    BY <1>3, <1>6, IntactEnd

LEMMA InitIntact == ASSUME MediaAssumption, Media!Init PROVE IntactInv
<1>1. UploadingAlone /\ \A a \in Uploaders : UploadStands(uploading[a])
    BY DEF Media!Init, UploadingAlone, UploadStands, Media!Idle
<1>2. OnePrimary /\ AllShown
    BY DEF Media!Init, OnePrimary, AllShown, Media!LiveImages, Media!Rows
<1> QED
    BY <1>1, <1>2 DEF IntactInv

LEMMA StepIntact == ASSUME MediaAssumption, ObjectsInv, IntactInv, [Media!Next]_(Media!vars) PROVE IntactInv'
<1>1. CASE \/ UNCHANGED Media!vars \/ Media!AuthorizeUpload \/ Media!BrowserUploads \/ Media!KeyAges
           \/ Media!BeginCleanup \/ Media!Cleanup
  <2>1. UNCHANGED <<images, assets, rows, uploading, mediaDrift>>
    BY <1>1 DEF Media!vars, Media!AuthorizeUpload, Media!BrowserUploads, Media!KeyAges, Media!BeginCleanup, Media!Cleanup
  <2> QED
    BY <2>1, IntactElsewhere
<1>2. ASSUME NEW a \in Uploaders,
             \/ Media!BeginCompleteUpload(a) \/ Media!BeginAttachFromMediaAsset(a) \/ Media!BeginUpdateImage(a)
             \/ Media!BeginDeleteImage(a) \/ Media!BeginRegisterAsset(a) \/ Media!BeginDeleteAsset(a)
             \/ Media!BeginCreateBlock(a) \/ Media!BeginCreateAssignment(a) \/ Media!BeginDuplicate(a)
             \/ Media!BeginUpdateBlock(a)
      PROVE  IntactInv'
  <2>1. PICK q \in UploadRequest : GoodStart(q) /\ Media!Begin(a, q)
    BY <1>2, MediaBegins
  <2> QED
    BY <2>1, IntactBegin
<1>3. ASSUME NEW a \in Uploaders, Media!RemoveObject(a) PROVE IntactInv'
  <2>1. Media!Respond(a) /\ UNCHANGED <<images, assets, rows>>
    BY <1>3 DEF Media!RemoveObject
  <2> QED
    BY <2>1, QuietEnd, IntactOfEnd
<1>4. ASSUME NEW a \in Uploaders,
             \/ Media!AttachImage(a) \/ Media!UpdateImage(a) \/ Media!DeleteImage(a)
             \/ Media!RegisterAsset(a) \/ Media!DeleteAsset(a) \/ Media!CreateRow(a) \/ Media!UpdateBlock(a)
      PROVE  IntactInv'
    BY <1>4, AttachIntact, ChooseIntact, DeleteIntact, AssetIntact, CreateRowIntact, UpdateBlockIntact
<1>5. ASSUME Media!DeleteRow PROVE IntactInv'
    BY <1>5, DeleteRowIntact
<1> QED
    BY <1>1, <1>2, <1>3, <1>4, <1>5 DEF Media!Next

LEMMA MediaCardinality == \A S : Media!Cardinality(S) = Cardinality(S)
<1> QED
    BY DEF Media!Cardinality, Cardinality

LEMMA IntactGallery == ASSUME MediaAssumption, ObjectsInv, IntactInv PROVE Media!GalleryIntact
<1> SUFFICES ASSUME mediaDrift = {}
             PROVE  /\ Media!LiveImages # {} => Media!Cardinality(Media!Primaries(images) \cap Media!LiveImages) = 1
                    /\ \A k \in {images[i].asset : i \in Media!LiveImages} \cup {rows[r].asset : r \in Media!Rows} :
                           k # Media!None => assets[k] = "live" /\ k \in objects
                    /\ \A r \in Media!Rows : ~Media!Empty(rows[r])
    BY DEF Media!GalleryIntact
<1>1. OnePrimary /\ AllShown
    BY DEF IntactInv, Undisturbed
<1>2. ASSUME Media!LiveImages # {} PROVE Media!Cardinality(Media!Primaries(images) \cap Media!LiveImages) = 1
  <2>1. PICK i \in Media!LiveImages :
          images[i].is_primary = TRUE /\ \A j \in Media!LiveImages : images[j].is_primary = TRUE => j = i
    BY <1>1, <1>2 DEF OnePrimary
  <2>2. \A j \in Media!LiveImages : j \in ImageIds /\ images[j] # Media!None /\ images[j].is_primary \in BOOLEAN
    BY LiveImagesAre, ImageShape
  <2>3. Media!Primaries(images) \cap Media!LiveImages = {i}
    BY <2>1, <2>2 DEF Media!Primaries
  <2>4. Media!Cardinality({i}) = 1
    BY FS_Singleton, MediaCardinality
  <2> QED
    BY <2>3, <2>4
<1>3. ASSUME NEW k \in {images[i].asset : i \in Media!LiveImages} \cup {rows[r].asset : r \in Media!Rows}, k # Media!None
      PROVE  assets[k] = "live" /\ k \in objects
  <2>1. assets[k] = "live"
    BY <1>1, <1>3 DEF AllShown, Shown
  <2>2. k \in AssetKeys
    <3>1. \A i \in Media!LiveImages : images[i].asset \in AssetKeys \cup {Media!None}
      BY LiveImagesAre, ImageShape
    <3>2. \A r \in Media!Rows : rows[r].asset \in AssetKeys \cup {Media!None}
      BY TypedMedia, ContentShape DEF TablesTyped, Media!Rows
    <3> QED
      BY <1>3, <3>1, <3>2
  <2> QED
    BY <2>1, <2>2 DEF ObjectsInv, AssetsStored
<1> QED
    BY <1>1, <1>2, <1>3 DEF AllShown

\* As long as requests do not overlap and no primary image is chosen once more, a product with
\* images has exactly one primary one, all that shows a gallery asset finds it live and its
\* object stored, and no content block is empty: what a request read still stands when it
\* writes, for it is the only one.
THEOREM GalleryIntactAlways == ASSUME MediaAssumption PROVE Media!Spec => []Media!GalleryIntact
<1>1. Media!Init => ObjectsInv /\ IntactInv
    BY InitObjects, InitIntact
<1>2. ObjectsInv /\ IntactInv /\ [Media!Next]_(Media!vars) => ObjectsInv' /\ IntactInv'
    BY StepObjects, StepIntact
<1>3. ObjectsInv /\ IntactInv => Media!GalleryIntact
    BY IntactGallery
<1> QED
    BY <1>1, <1>2, <1>3, PTL DEF Media!Spec
=============================================================================
