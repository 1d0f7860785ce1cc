------------------------------ MODULE Catalogue ------------------------------
(***************************************************************************)
(* Products, variants, categories and SKU reservations under concurrent    *)
(* administrators (ProductModels, CategoryModels).                         *)
(*                                                                         *)
(* Most handlers read and validate first, outside any transaction, and     *)
(* write later.  Such a handler is two actions: one that fills             *)
(* requests[a] with what the administrator's request read, and one that    *)
(* runs its transaction from that record.  A handler that locks or reads   *)
(* nothing it depends on is one action.                                    *)
(*                                                                         *)
(* Status archived behaves as draft.  Prices, slugs, pet types, texts and  *)
(* measurements are not modelled; a simple product keeps no stock here.    *)
(***************************************************************************)
EXTENDS Naturals, FiniteSets, FiniteSetsExt

CONSTANTS ProductIds, VariantIds, CategoryIds, \* initial segments of Nat \ {0}
          InitialVariants, \* variants of product 1 at the start
          Skus,        \* SKUs an administrator may type
          Admins,      \* requests served at the same time
          MaxStock,    \* bound on the stock of a variant
          MaxPlace     \* bound on display_order, which grows with every restore

VARIABLES products, variants, categories,
          reservations, \* catalog_sku_reservations: who owns a SKU
          requests,     \* what each administrator's request has read
          drift         \* history: did requests overlap, was a variant sold

vars == <<products, variants, categories, reservations, requests, drift>>

None == [missing |-> TRUE]
Idle == [op |-> "idle"]

Generated == [kind : {"product", "variant"}, id : ProductIds \cup VariantIds]
AllSkus == Skus \cup Generated
Owner == [type : {"product"}, id : ProductIds] \cup [type : {"variant"}, id : VariantIds]

ProductRow == [category : CategoryIds, sku : AllSkus, status : {"draft", "active"}, has_variants : BOOLEAN,
               stock : Nat, display_order : Nat, deleted : BOOLEAN]
VariantRow == [product : ProductIds, sku : AllSkus, stock : 0..MaxStock, active : BOOLEAN, deleted : BOOLEAN]
CategoryRow == [active : BOOLEAN, deleted : BOOLEAN]

-----------------------------------------------------------------------------
(* What a handler can see                                                  *)

Live(p) == products[p] # None /\ ~products[p].deleted
LiveProducts == {p \in ProductIds : Live(p)}
VariantsIn(vs, p) == {v \in VariantIds : vs[v] # None /\ vs[v].product = p /\ ~vs[v].deleted}
ActiveIn(vs, p) == {v \in VariantsIn(vs, p) : vs[v].active}
Busy == \E a \in Admins : requests[a] # Idle

\* A Sequelize model is paranoid: Category.findByPk does not find a deleted row.
CategoryUsable(c) == ~categories[c].deleted /\ categories[c].active

ValidateShippingReadiness(vs, p, variantful) == variantful => ActiveIn(vs, p) # {}
ValidateProductActivationReadiness(ps, vs, p) ==
    CategoryUsable(ps[p].category) /\ ValidateShippingReadiness(vs, p, ps[p].has_variants)

CachedStock(vs, p) == MapThenSumSet(LAMBDA v : vs[v].stock, ActiveIn(vs, p))
RefreshVariantProductAggregates(vs, p) ==
    IF Live(p) /\ products[p].has_variants THEN [products EXCEPT ![p].stock = CachedStock(vs, p)] ELSE products

\* What a visitor sees: the products listed, and the variants offered on one's page.
ListStorefrontProducts == {p \in LiveProducts : products[p].status = "active" /\ CategoryUsable(products[p].category)}
GetStorefrontProductBySlug(p) == [variants |-> ActiveIn(variants, p), inStock |-> products[p].stock > 0]

NextByCount == Cardinality(LiveProducts) + 1 \* mutant: position after the number of products
NextWebsitePosition == Max({products[p].display_order : p \in LiveProducts} \cup {0}) + 1
-----------------------------------------------------------------------------
(* SKUs: catalog_sku_reservations has the SKU as its key and never forgets *)

MayReserveByType(sku, owner) == reservations[sku] = None \/ reservations[sku].type = owner.type \* mutant
MayReserve(sku, owner) == reservations[sku] \in {None, owner}
IsSkuReservedBy(sku, owner) == reservations[sku] = owner

AsProduct(p) == [type |-> "product", id |-> p]
AsVariant(v) == [type |-> "variant", id |-> v]

-----------------------------------------------------------------------------
(* Requests                                                                *)

\* History only: a step taken while another request is between its reads and its
\* writes overlaps it.
Crossing(others) == drift' = IF \E a \in others : requests[a] # Idle THEN drift \cup {"overlap"} ELSE drift

Begin(a, request) ==
    /\ requests[a] = Idle
    /\ requests' = [requests EXCEPT ![a] = request]
    /\ Crossing(Admins)
    /\ UNCHANGED <<products, variants, categories, reservations>>

Respond(a) == requests' = [requests EXCEPT ![a] = Idle] /\ Crossing(Admins \ {a})
AtOnce == Crossing(Admins) /\ UNCHANGED requests

Fail(a) == Respond(a) /\ UNCHANGED <<products, variants, categories, reservations>>

-----------------------------------------------------------------------------
(* Creating and copying products                                           *)

BeginCreateProduct(a) ==
    \E c \in CategoryIds, skus \in {s \in SUBSET Skus : Cardinality(s) \in 1..2}, active \in BOOLEAN :
        \E sku \in skus :
            /\ ~categories[c].deleted
            /\ Begin(a, [op |-> "create", category |-> c, sku |-> sku, variantSkus |-> skus \ {sku},
                         status |-> IF active THEN "active" ELSE "draft"])

FreshProduct == Min({p \in ProductIds : products[p] = None})
FreshVariant == Min({v \in VariantIds : variants[v] = None})

\* One transaction: it reserves the SKUs and writes the product, its variant and the
\* aggregates, and rolls all of it back when the product was to be active and is not ready.
CreateProduct(a) ==
    LET r == requests[a]
        variantful == r.variantSkus # {}
        p == FreshProduct
        v == FreshVariant
        vs == IF variantful
              THEN [variants EXCEPT ![v] = [product |-> p, sku |-> CHOOSE s \in r.variantSkus : TRUE,
                                            stock |-> MaxStock, active |-> TRUE, deleted |-> FALSE]]
              ELSE variants
        row == [category |-> r.category, sku |-> r.sku, status |-> r.status, has_variants |-> variantful,
                stock |-> CachedStock(vs, p), display_order |-> NextWebsitePosition, deleted |-> FALSE]
        ps == [products EXCEPT ![p] = row]
        free == MayReserve(r.sku, AsProduct(p)) /\ \A s \in r.variantSkus : MayReserve(s, AsVariant(v))
        ready == r.status = "active" => ValidateProductActivationReadiness(ps, vs, p)
    IN  /\ r.op = "create"
        /\ \E q \in ProductIds : products[q] = None
        /\ NextWebsitePosition <= MaxPlace
        /\ variantful => \E w \in VariantIds : variants[w] = None
        /\ IF free /\ ready
           THEN /\ products' = ps
                /\ variants' = vs
                /\ reservations' = [s \in AllSkus |-> IF s = r.sku THEN AsProduct(p)
                                                      ELSE IF s \in r.variantSkus THEN AsVariant(v) ELSE reservations[s]]
                /\ Respond(a)
                /\ UNCHANGED categories
           ELSE Fail(a)

BeginDuplicateProduct(a) ==
    \E p \in LiveProducts :
        Begin(a, [op |-> "duplicate", source |-> p, active |-> ActiveIn(variants, p),
                  others |-> VariantsIn(variants, p) \ ActiveIn(variants, p)])

\* The copy is a draft without stock; its SKUs end in the new row's id.
DuplicateProduct(a) ==
    LET r == requests[a]
        copied == r.active \cup r.others
        p == FreshProduct
        first == FreshVariant
        place(v) == first + Cardinality({w \in copied : w < v})
        made == {place(v) : v \in copied}
        source(w) == CHOOSE v \in copied : place(v) = w
        sku(kind, id) == [kind |-> kind, id |-> id]
        vs == [w \in VariantIds |->
                 IF copied # {} /\ w \in made
                 THEN [product |-> p, sku |-> sku("variant", w), stock |-> 0,
                       active |-> source(w) \in r.active, deleted |-> FALSE]
                 ELSE variants[w]]
    IN  /\ r.op = "duplicate"
        /\ \E q \in ProductIds : products[q] = None
        /\ NextWebsitePosition <= MaxPlace
        /\ Cardinality({v \in VariantIds : variants[v] = None}) >= Cardinality(copied)
        /\ variants' = vs
        /\ products' = [products EXCEPT ![p] =
                          [category |-> products[r.source].category, sku |-> sku("product", p), status |-> "draft",
                           has_variants |-> products[r.source].has_variants, stock |-> 0,
                           display_order |-> NextWebsitePosition, deleted |-> FALSE]]
        /\ reservations' = [s \in AllSkus |->
                              IF s = sku("product", p) THEN AsProduct(p)
                              ELSE IF copied # {} /\ \E w \in made : s = sku("variant", w)
                                   THEN AsVariant(s.id) ELSE reservations[s]]
        /\ Respond(a)
        /\ UNCHANGED categories

-----------------------------------------------------------------------------
(* Publishing, editing, trashing and restoring products                    *)

\* updateProductStatus and bulkUpdateStatus check that each product is ready...
BeginPublish(a) ==
    \E ids \in SUBSET LiveProducts \ {{}}, bulk \in BOOLEAN :
        /\ bulk \/ \E p \in ids : ids = {p} /\ products[p].status = "draft"
        /\ \A p \in ids : ValidateProductActivationReadiness(products, variants, p)
        /\ Begin(a, [op |-> "publish", ids |-> ids, bulk |-> bulk])

\* ...and write the status later.  The bulk statement skips rows deleted meanwhile, the
\* update of a loaded row does not.
Publish(a) ==
    LET r == requests[a] IN
    /\ r.op = "publish"
    /\ products' = [p \in ProductIds |-> IF p \in r.ids /\ (r.bulk => Live(p))
                                         THEN [products[p] EXCEPT !.status = "active"] ELSE products[p]]
    /\ Respond(a)
    /\ UNCHANGED <<variants, categories, reservations>>

\* updateProductStatus to draft or archived
Withdraw ==
    \E p \in LiveProducts :
        /\ products[p].status = "active"
        /\ products' = [products EXCEPT ![p].status = "draft"]
        /\ AtOnce
        /\ UNCHANGED <<variants, categories, reservations>>

\* Sequelize writes the columns that differ from the row it loaded, so an edit changes one
\* column here and leaves the others as they are when it is written.
BeginUpdateProduct(a) ==
    \E p \in LiveProducts, edit \in ({"category"} \X CategoryIds) \cup ({"sku"} \X Skus) \cup {<<"text">>} :
        /\ edit[1] = "category" => edit[2] # products[p].category /\ ~categories[edit[2]].deleted
        /\ edit[1] = "sku" => edit[2] # products[p].sku
        /\ Begin(a, [op |-> "update", product |-> p, edit |-> edit, status |-> products[p].status])

EditedProduct(row, edit) ==
    CASE edit[1] = "category" -> [row EXCEPT !.category = edit[2]]
      [] edit[1] = "sku" -> [row EXCEPT !.sku = edit[2]]
      [] OTHER -> row

\* The transaction of updateProduct: a new SKU is reserved, the old one stays reserved.
\* The row must be ready if it was active when the request read it.
UpdateProduct(a) ==
    LET r == requests[a]
        ps == [products EXCEPT ![r.product] = EditedProduct(@, r.edit)]
        sku == ps[r.product].sku
        ready == r.status = "active" => ValidateProductActivationReadiness(ps, variants, r.product)
    IN  /\ r.op = "update"
        /\ IF MayReserve(sku, AsProduct(r.product)) /\ ready
           THEN /\ products' = ps
                /\ reservations' = [reservations EXCEPT ![sku] = AsProduct(r.product)]
                /\ Respond(a)
                /\ UNCHANGED <<variants, categories>>
           ELSE Fail(a)

\* deleteProduct and bulkDeleteProducts
DeleteProducts ==
    \E ids \in SUBSET LiveProducts \ {{}} :
        /\ products' = [p \in ProductIds |-> IF p \in ids THEN [products[p] EXCEPT !.deleted = TRUE] ELSE products[p]]
        /\ AtOnce
        /\ UNCHANGED <<variants, categories, reservations>>

\* restoreProduct re-checks everything on the locked row; the category only has to exist.
RestoreProduct ==
    \E p \in ProductIds :
        /\ products[p] # None
        /\ products[p].deleted
        /\ NextWebsitePosition <= MaxPlace
        /\ IsSkuReservedBy(products[p].sku, AsProduct(p))
        /\ \A v \in VariantIds : variants[v] # None /\ variants[v].product = p
               => IsSkuReservedBy(variants[v].sku, AsVariant(v))
        /\ products' = [products EXCEPT ![p].deleted = FALSE, ![p].status = "draft",
                                        ![p].display_order = NextWebsitePosition]
        /\ AtOnce
        /\ UNCHANGED <<variants, categories, reservations>>

\* moveWebsiteOrder locks every product and renumbers all of them.
Before(ps, p, q) == ps[p].display_order < ps[q].display_order \/ (ps[p].display_order = ps[q].display_order /\ p > q)
Rank(p) == Cardinality({q \in LiveProducts : Before(products, q, p)}) + 1
MoveWebsiteOrder ==
    \E p \in LiveProducts, q \in LiveProducts :
        /\ Rank(q) \in {Rank(p) - 1, Rank(p) + 1}
        /\ products' = [x \in ProductIds |->
                          IF Live(x)
                          THEN [products[x] EXCEPT !.display_order = IF x = p THEN Rank(q) ELSE IF x = q THEN Rank(p) ELSE Rank(x)]
                          ELSE products[x]]
        /\ AtOnce
        /\ UNCHANGED <<variants, categories, reservations>>

-----------------------------------------------------------------------------
(* Variants                                                                *)

\* createVariant needs only that the product takes variants, which never changes.
CreateVariant ==
    LET v == FreshVariant IN
    \E p \in LiveProducts, sku \in Skus, active \in BOOLEAN :
        LET vs == [variants EXCEPT ![v] = [product |-> p, sku |-> sku, stock |-> MaxStock, active |-> active, deleted |-> FALSE]]
        IN  /\ \E w \in VariantIds : variants[w] = None
            /\ products[p].has_variants
            /\ MayReserve(sku, AsVariant(v))
            /\ products[p].status = "active" => ValidateShippingReadiness(vs, p, TRUE)
            /\ variants' = vs
            /\ products' = RefreshVariantProductAggregates(vs, p)
            /\ reservations' = [reservations EXCEPT ![sku] = AsVariant(v)]
            /\ AtOnce
            /\ UNCHANGED categories

MayRetireAny(v) == LET p == variants[v].product IN \* mutant: the count ignores which variants are active
    variants[v].active /\ products[p].status = "active" => Cardinality(VariantsIn(variants, p)) > 1
\* The count that protects the last active variant of an active product.
MayRetire(v) ==
    LET p == variants[v].product IN
    variants[v].active /\ products[p].status = "active" => Cardinality(ActiveIn(variants, p)) > 1

BeginUpdateVariant(a) ==
    \E p \in LiveProducts, edit \in ({"stock"} \X (0..MaxStock)) \cup ({"active"} \X BOOLEAN) \cup ({"sku"} \X Skus) \cup {<<"text">>} :
        \E v \in VariantsIn(variants, p) :
            /\ edit[1] # "text" => variants[v][edit[1]] # edit[2]
            /\ edit = <<"active", FALSE>> => MayRetire(v)
            /\ Begin(a, [op |-> "updateVariant", variant |-> v, edit |-> edit, status |-> products[p].status])

EditedVariant(row, edit) ==
    CASE edit[1] = "stock" -> [row EXCEPT !.stock = edit[2]]
      [] edit[1] = "active" -> [row EXCEPT !.active = edit[2]]
      [] edit[1] = "sku" -> [row EXCEPT !.sku = edit[2]]
      [] OTHER -> row

\* The transaction of updateVariant checks the readiness again, on the status read before.
UpdateVariant(a) ==
    LET r == requests[a]
        v == r.variant
        p == variants[v].product
        vs == [variants EXCEPT ![v] = EditedVariant(@, r.edit)]
        ready == r.status = "active" => ValidateShippingReadiness(vs, p, TRUE)
    IN  /\ r.op = "updateVariant"
        /\ IF MayReserve(vs[v].sku, AsVariant(v)) /\ ready
           THEN /\ variants' = vs
                /\ products' = RefreshVariantProductAggregates(vs, p)
                /\ reservations' = [reservations EXCEPT ![vs[v].sku] = AsVariant(v)]
                /\ Respond(a)
                /\ UNCHANGED categories
           ELSE Fail(a)

BeginDeleteVariant(a) ==
    \E p \in LiveProducts : \E v \in VariantsIn(variants, p) :
        MayRetire(v) /\ Begin(a, [op |-> "deleteVariant", variant |-> v])

DeleteVariantUnrefreshed(a) == \* mutant: the cached stock is not refreshed
    /\ requests[a].op = "deleteVariant"
    /\ variants' = [variants EXCEPT ![requests[a].variant].deleted = TRUE]
    /\ Respond(a)
    /\ UNCHANGED <<products, categories, reservations>>
\* The transaction of deleteVariant does not.
DeleteVariant(a) ==
    LET r == requests[a]
        vs == [variants EXCEPT ![r.variant].deleted = TRUE]
    IN  /\ r.op = "deleteVariant"
        /\ variants' = vs
        /\ products' = RefreshVariantProductAggregates(vs, variants[r.variant].product)
        /\ Respond(a)
        /\ UNCHANGED <<categories, reservations>>

\* An order is confirmed: the unit is taken from the locked variant and nothing else is written.
SellVariant ==
    \E v \in VariantIds :
        /\ variants[v] # None /\ ~variants[v].deleted /\ variants[v].stock > 0
        /\ Live(variants[v].product)
        /\ variants' = [variants EXCEPT ![v].stock = @ - 1]
        /\ drift' = drift \cup {"sale"} \cup (IF Busy THEN {"overlap"} ELSE {})
        /\ UNCHANGED <<products, categories, reservations, requests>>

-----------------------------------------------------------------------------
(* Categories                                                              *)

UpdateCategoryStatus ==
    \E c \in CategoryIds :
        /\ ~categories[c].deleted
        /\ categories' = [categories EXCEPT ![c].active = ~@]
        /\ AtOnce
        /\ UNCHANGED <<products, variants, reservations>>

\* deleteCategory counts the products of the category...
Uncategorised(c) == ~\E p \in LiveProducts : products[p].category = c

BeginDeleteCategory(a) ==
    \E c \in CategoryIds :
        ~categories[c].deleted /\ Uncategorised(c) /\ Begin(a, [op |-> "deleteCategory", category |-> c])

\* ...and soft-deletes it later.
DeleteCategory(a) ==
    /\ requests[a].op = "deleteCategory"
    /\ categories' = [categories EXCEPT ![requests[a].category].deleted = TRUE]
    /\ Respond(a)
    /\ UNCHANGED <<products, variants, reservations>>

RestoreCategory ==
    \E c \in CategoryIds :
        /\ categories[c].deleted
        /\ categories' = [categories EXCEPT ![c] = [active |-> FALSE, deleted |-> FALSE]]
        /\ AtOnce
        /\ UNCHANGED <<products, variants, reservations>>

-----------------------------------------------------------------------------
Init ==
    LET named == {0} \cup InitialVariants \* 0 stands for product 1
        skuOf == CHOOSE f \in [named -> Skus] : \A i, j \in named : i # j => f[i] # f[j]
    IN
    /\ products = [p \in ProductIds |->
                     IF p = 1 THEN [category |-> 1, sku |-> skuOf[0], status |-> "draft", has_variants |-> TRUE,
                                    stock |-> Cardinality(InitialVariants) * MaxStock, display_order |-> 1, deleted |-> FALSE]
                     ELSE None]
    /\ variants = [v \in VariantIds |->
                     IF v \in InitialVariants
                     THEN [product |-> 1, sku |-> skuOf[v], stock |-> MaxStock, active |-> TRUE, deleted |-> FALSE]
                     ELSE None]
    /\ categories = [c \in CategoryIds |-> [active |-> TRUE, deleted |-> FALSE]]
    /\ reservations = [s \in AllSkus |-> IF s = skuOf[0] THEN AsProduct(1)
                                         ELSE IF \E v \in InitialVariants : s = skuOf[v]
                                              THEN AsVariant(CHOOSE v \in InitialVariants : s = skuOf[v])
                                              ELSE None]
    /\ requests = [a \in Admins |-> Idle]
    /\ drift = {}

Next ==
    \/ \E a \in Admins :
           \/ BeginCreateProduct(a) \/ CreateProduct(a)
           \/ BeginDuplicateProduct(a) \/ DuplicateProduct(a)
           \/ BeginPublish(a) \/ Publish(a)
           \/ BeginUpdateProduct(a) \/ UpdateProduct(a)
           \/ BeginUpdateVariant(a) \/ UpdateVariant(a)
           \/ BeginDeleteVariant(a) \/ DeleteVariant(a)
           \/ BeginDeleteCategory(a) \/ DeleteCategory(a)
    \/ Withdraw \/ DeleteProducts \/ RestoreProduct \/ MoveWebsiteOrder
    \/ CreateVariant \/ SellVariant
    \/ UpdateCategoryStatus \/ RestoreCategory

Spec == Init /\ [][Next]_vars

-----------------------------------------------------------------------------
TypeOK ==
    /\ products \in [ProductIds -> ProductRow \cup {None}]
    /\ variants \in [VariantIds -> VariantRow \cup {None}]
    /\ categories \in [CategoryIds -> CategoryRow]
    /\ reservations \in [AllSkus -> Owner \cup {None}]
    /\ DOMAIN requests = Admins
    /\ drift \subseteq {"overlap", "sale"}

\* A SKU names one product or one variant for ever: every row, deleted ones included,
\* holds the reservation of its SKU, so a trashed product can always come back.
SkuOwned ==
    /\ \A p \in ProductIds : products[p] # None => IsSkuReservedBy(products[p].sku, AsProduct(p))
    /\ \A v \in VariantIds : variants[v] # None => IsSkuReservedBy(variants[v].sku, AsVariant(v))

\* Creating, copying, restoring, trashing and moving products never gives two products
\* of the storefront the same place.
PlacesDistinct ==
    \A p, q \in LiveProducts : p # q => products[p].display_order # products[q].display_order

\* As long as no two requests overlapped, a product that is on sale keeps its category, and
\* if it has variants, the page of a listed product offers one.
PublishedIsSellable ==
    "overlap" \notin drift =>
        /\ \A p \in LiveProducts : products[p].status = "active" => ~categories[products[p].category].deleted
        /\ \A p \in ListStorefrontProducts :
               products[p].has_variants => GetStorefrontProductBySlug(p).variants # {}

\* As long as nothing was sold and no two requests overlapped, the stock shown for a product
\* is the stock of its active variants, and a listed product is in stock exactly when one of
\* them can be bought.
CachedStockFollows ==
    drift = {} =>
        /\ \A p \in LiveProducts : products[p].has_variants => products[p].stock = CachedStock(variants, p)
        /\ \A p \in ListStorefrontProducts :
               LET page == GetStorefrontProductBySlug(p) IN
               products[p].has_variants => (page.inStock <=> \E v \in page.variants : variants[v].stock > 0)
=============================================================================
