---------------------------- MODULE MCStorefront ----------------------------
(***************************************************************************)
(* Instances of the storefront's components for TLC.  A behaviour drives   *)
(* one of the instances, chosen at the start, and leaves the variables of  *)
(* the others alone: the components share no state.                        *)
(***************************************************************************)
EXTENDS Naturals

CONSTANTS ann, gus,      \* a customer, a guest
          soap,          \* an item
          ska, skb, skc, \* SKUs
          up1, up2,      \* keys of uploads for a product
          pic, clip      \* keys of an image and a video of the gallery

VARIABLES driven, \* the instance that runs
          products, variants, categories, reservations, editing, catalogueDrift,
          uploads, objects, images, assets, rows, uploading, cleanup, mediaDrift,
          carts, lines, stock, carting, placed, asked,
          cart, setting, shown, order, attempt

catalogue == <<products, variants, categories, reservations, editing, catalogueDrift>>
media == <<uploads, objects, images, assets, rows, uploading, cleanup, mediaDrift>>
shopping == <<carts, lines, stock, carting, placed, asked>>
pricing == <<cart, setting, shown, order, attempt>>
vars == <<driven, catalogue, media, shopping, pricing>>

Skus == {ska, skb, skc}

\* One product with two variants in stock: selling, editing and retiring variants.
Variants == INSTANCE Catalogue WITH
    ProductIds <- {1}, VariantIds <- {1, 2}, InitialVariants <- {1, 2}, CategoryIds <- {1}, Admins <- {1},
    MaxStock <- 1, MaxPlace <- 3, requests <- editing, drift <- catalogueDrift
\* Two products: SKUs and places move between them.
Products == INSTANCE Catalogue WITH
    ProductIds <- {1, 2}, VariantIds <- {1, 2}, InitialVariants <- {1}, CategoryIds <- {1}, Admins <- {1},
    MaxStock <- 0, MaxPlace <- 3, requests <- editing, drift <- catalogueDrift

\* A product's own image, a gallery image and a content block.
Gallery == INSTANCE ProductMedia WITH
    ImageKeys <- {up1}, AssetKeys <- {pic}, VideoKeys <- {}, ImageIds <- {1, 2}, RowIds <- {1}, Admins <- {1},
    requests <- uploading, drift <- mediaDrift
\* Two uploads.
Uploads == INSTANCE ProductMedia WITH
    ImageKeys <- {up1, up2}, AssetKeys <- {}, VideoKeys <- {}, ImageIds <- {1, 2}, RowIds <- {}, Admins <- {1},
    requests <- uploading, drift <- mediaDrift
\* A video that two products use.
Videos == INSTANCE ProductMedia WITH
    ImageKeys <- {}, AssetKeys <- {clip}, VideoKeys <- {clip}, ImageIds <- {}, RowIds <- {1, 2}, Admins <- {1},
    requests <- uploading, drift <- mediaDrift

\* A customer and a guest with a cart each, which one sign-in merges.
Shopping == INSTANCE Cart WITH
    Customers <- {ann}, Tokens <- {gus}, Items <- {soap}, CartIds <- 1..2, LineIds <- 1..2, Requests <- 1..2,
    MaxQuantity <- 2, MaxStock <- 2, MaxAsked <- 3, requests <- carting

\* Three lines of amounts 0 to 3 paise, a minimum of 2 paise.
PricedCarts ==
    [amount : [1..3 -> 0..3],
     eligibility : {<<"both", "both", "both">>, <<"payu", "both", "both">>,
                    <<"cod", "both", "both">>, <<"cod", "both", "payu">>}]
Discounts ==
    {[enabled |-> TRUE, type |-> "percentage", value |-> 5000],
     [enabled |-> TRUE, type |-> "percentage", value |-> 10000],
     [enabled |-> TRUE, type |-> "fixed", value |-> 4]}
Prices == INSTANCE Pricing WITH Lines <- 3, MinPayable <- 2, Carts <- PricedCarts, Settings <- Discounts

\* The names are all different, and none is a SKU that the program generates or a record
\* that stands for nothing.
ASSUME NamesDiffer ==
    /\ ann # gus /\ ann # Shopping!NoOwner /\ gus # Shopping!NoOwner
    /\ ska # skb /\ ska # skc /\ skb # skc
    /\ Skus \cap (Variants!Generated \cup Products!Generated) = {}
    /\ {up1, up2} \cap {pic, clip} = {} /\ Gallery!None \notin {up1, up2, pic, clip}

NoCatalogue ==
    products = 0 /\ variants = 0 /\ categories = 0 /\ reservations = 0 /\ editing = 0 /\ catalogueDrift = 0
NoMedia ==
    /\ uploads = 0 /\ objects = 0 /\ images = 0 /\ assets = 0 /\ rows = 0
    /\ uploading = 0 /\ cleanup = 0 /\ mediaDrift = 0
NoShopping == carts = 0 /\ lines = 0 /\ stock = 0 /\ carting = 0 /\ placed = 0 /\ asked = 0
NoPricing == cart = 0 /\ setting = 0 /\ shown = 0 /\ order = 0 /\ attempt = 0

Init ==
    \/ /\ NoMedia /\ NoShopping /\ NoPricing
       /\ \/ driven = "variants" /\ Variants!Init
          \/ driven = "products" /\ Products!Init
    \/ /\ NoCatalogue /\ NoShopping /\ NoPricing
       /\ \/ driven = "gallery" /\ Gallery!Init
          \/ driven = "uploads" /\ Uploads!Init
          \/ driven = "videos" /\ Videos!Init
    \/ driven = "carts" /\ Shopping!Init /\ NoCatalogue /\ NoMedia /\ NoPricing
    \/ driven = "prices" /\ Prices!Init /\ NoCatalogue /\ NoMedia /\ NoShopping

Next ==
    /\ \/ driven = "variants" /\ Variants!Next /\ UNCHANGED <<media, shopping, pricing>>
       \/ driven = "products" /\ Products!Next /\ UNCHANGED <<media, shopping, pricing>>
       \/ driven = "gallery" /\ Gallery!Next /\ UNCHANGED <<catalogue, shopping, pricing>>
       \/ driven = "uploads" /\ Uploads!Next /\ UNCHANGED <<catalogue, shopping, pricing>>
       \/ driven = "videos" /\ Videos!Next /\ UNCHANGED <<catalogue, shopping, pricing>>
       \/ driven = "carts" /\ Shopping!Next /\ UNCHANGED <<catalogue, media, pricing>>
       \/ driven = "prices" /\ Prices!Next /\ UNCHANGED <<catalogue, media, shopping>>
    /\ UNCHANGED driven

Spec == Init /\ [][Next]_vars

-----------------------------------------------------------------------------
\* A SKU names one product or one variant for ever, trashed ones included.
SkuOwned ==
    /\ driven = "variants" => Variants!TypeOK /\ Variants!SkuOwned
    /\ driven = "products" => Products!TypeOK /\ Products!SkuOwned

\* Without overlapping requests, what is on sale has a category and a variant to buy,
\* and a place of its own.
PublishedIsSellable ==
    /\ driven = "variants" => Variants!PublishedIsSellable /\ Variants!PlacesDistinct
    /\ driven = "products" => Products!PublishedIsSellable /\ Products!PlacesDistinct

\* Without overlapping requests and sales, the stock shown is that of the active variants.
CachedStockFollows == driven = "variants" => Variants!CachedStockFollows

\* An attached image of a product keeps its object, whatever the cleanup script does.
OwnObjectStored ==
    /\ driven = "gallery" => Gallery!OwnObjectStored
    /\ driven = "uploads" => Uploads!OwnObjectStored

\* Without overlapping requests, one image is primary, gallery assets in use can be shown
\* and no content block is empty.
GalleryIntact ==
    /\ driven = "gallery" => Gallery!TypeOK /\ Gallery!GalleryIntact
    /\ driven = "uploads" => Uploads!TypeOK /\ Uploads!GalleryIntact
    /\ driven = "videos" => Videos!TypeOK /\ Videos!GalleryIntact

\* One active cart per customer, one line per item, and no unit that nobody asked for,
\* whatever requests and sign-ins overlap.
CartsConsistent == driven = "carts" => Shopping!TypeOK /\ Shopping!CartsConsistent

\* Orders cost what the preview showed, their discount is split exactly, and they are paid
\* by a method that their price and their products allow.
PricedAndPaid == driven = "prices" => Prices!PricedAndPaid
=============================================================================
