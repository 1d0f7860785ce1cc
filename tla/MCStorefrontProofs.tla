------------------------- MODULE MCStorefrontProofs -------------------------
(***************************************************************************)
(* The invariants that TLC checks of the instances of MCStorefront, from   *)
(* the general theorems of StorefrontProofs.  Each instance of MCStorefront*)
(* has a twin among the instances below: its definitions expand to the     *)
(* same formulas, so a behaviour that drives it is one of its twin's.      *)
(***************************************************************************)
EXTENDS MCStorefront, FiniteSetTheorems, TLAPS

\* One product, an image of its own and one of the gallery; a cart; an order.
Single == INSTANCE StorefrontProofs WITH
    Customers <- {ann}, Tokens <- {gus}, Items <- {soap}, CartIds <- 1..2, LineIds <- 1..2, Requests <- 1..2,
    MaxQuantity <- 2, MaxStock <- 2, MaxAsked <- 3,
    Lines <- 3, MinPayable <- 2, Carts <- PricedCarts, Settings <- Discounts,
    ProductIds <- {1}, VariantIds <- {1, 2}, InitialVariants <- {1, 2}, CategoryIds <- {1}, Admins <- {1},
    MaxVariantStock <- 1, MaxPlace <- 3,
    ImageKeys <- {up1}, AssetKeys <- {pic}, VideoKeys <- {}, ImageIds <- {1, 2}, RowIds <- {1}, Uploaders <- {1}
\* Two products, two uploads.
Pair == INSTANCE StorefrontProofs WITH
    Customers <- {ann}, Tokens <- {gus}, Items <- {soap}, CartIds <- 1..2, LineIds <- 1..2, Requests <- 1..2,
    MaxQuantity <- 2, MaxStock <- 2, MaxAsked <- 3,
    Lines <- 3, MinPayable <- 2, Carts <- PricedCarts, Settings <- Discounts,
    ProductIds <- {1, 2}, VariantIds <- {1, 2}, InitialVariants <- {1}, CategoryIds <- {1}, Admins <- {1},
    MaxVariantStock <- 0, MaxPlace <- 3,
    ImageKeys <- {up1, up2}, AssetKeys <- {}, VideoKeys <- {}, ImageIds <- {1, 2}, RowIds <- {}, Uploaders <- {1}
\* A video that two products use.
Footage == INSTANCE StorefrontProofs WITH
    Customers <- {ann}, Tokens <- {gus}, Items <- {soap}, CartIds <- 1..2, LineIds <- 1..2, Requests <- 1..2,
    MaxQuantity <- 2, MaxStock <- 2, MaxAsked <- 3,
    Lines <- 3, MinPayable <- 2, Carts <- PricedCarts, Settings <- Discounts,
    ProductIds <- {1, 2}, VariantIds <- {1, 2}, InitialVariants <- {1}, CategoryIds <- {1}, Admins <- {1},
    MaxVariantStock <- 0, MaxPlace <- 3,
    ImageKeys <- {}, AssetKeys <- {clip}, VideoKeys <- {clip}, ImageIds <- {}, RowIds <- {1, 2}, Uploaders <- {1}

-----------------------------------------------------------------------------
(* What the general theorems assume of the constants                       *)

LEMMA CartFits == Single!CartAssumption
<1>1. \A S : IsFiniteSet(S) => Single!IsFiniteSet(S)
    BY Zenon DEF Single!IsFiniteSet, IsFiniteSet
<1>2. IsFiniteSet(1..2)
  <2>1. \A a, b \in Int : IsFiniteSet(a..b)
    BY FS_Interval
  <2>2. 1 \in Int /\ 2 \in Int
    OBVIOUS
  <2> QED
    BY <2>1, <2>2, Zenon
<1> QED
    BY <1>1, <1>2, NamesDiffer DEF Single!CartAssumption, Single!Basket!NoOwner, Single!Basket!Owners, Shopping!NoOwner

LEMMA PriceFits == Single!PriceAssumption
<1>1. \A c \in PricedCarts : c.amount \in [1..3 -> 0..3]
    BY DEF PricedCarts
<1>2. \A s \in Discounts : s.value \in Nat
    BY DEF Discounts
<1> QED
    BY <1>1, <1>2 DEF Single!PriceAssumption

LEMMA ShopFits == Single!ShopAssumption /\ Pair!ShopAssumption
<1>1. {1} = 1..1 /\ {1, 2} = 1..2
    OBVIOUS
<1>2. PICK f \in [{0} \cup {1, 2} -> Skus] : f[0] = ska /\ f[1] = skb /\ f[2] = skc
  <2> DEFINE f == [i \in {0} \cup {1, 2} |-> IF i = 0 THEN ska ELSE IF i = 1 THEN skb ELSE skc]
  <2>1. f \in [{0} \cup {1, 2} -> Skus] /\ f[0] = ska /\ f[1] = skb /\ f[2] = skc
    BY DEF Skus
  <2> QED
    BY <2>1, Zenon
<1>3. PICK g \in [{0} \cup {1} -> Skus] : g[0] = ska /\ g[1] = skb
  <2> DEFINE g == [i \in {0} \cup {1} |-> IF i = 0 THEN ska ELSE skb]
  <2>1. g \in [{0} \cup {1} -> Skus] /\ g[0] = ska /\ g[1] = skb
    BY DEF Skus
  <2> QED
    BY <2>1, Zenon
<1>4. Skus \cap Single!Shop!Generated = {} /\ Skus \cap Pair!Shop!Generated = {}
    BY NamesDiffer DEF Single!Shop!Generated, Pair!Shop!Generated, Variants!Generated, Products!Generated
<1>5. \A i, j \in {0} \cup {1, 2} : i # j => f[i] # f[j]
    BY <1>2, NamesDiffer
<1>6. \A i, j \in {0} \cup {1} : i # j => g[i] # g[j]
    BY <1>3, NamesDiffer
<1>7. \E h \in [{0} \cup {1, 2} -> Skus] : \A i, j \in {0} \cup {1, 2} : i # j => h[i] # h[j]
    BY <1>2, <1>5, Zenon
<1>8. \E h \in [{0} \cup {1} -> Skus] : \A i, j \in {0} \cup {1} : i # j => h[i] # h[j]
    BY <1>3, <1>6, Zenon
<1>9. Single!ShopAssumption
    BY <1>1, <1>4, <1>7 DEF Single!ShopAssumption
<1>10. Pair!ShopAssumption
    BY <1>1, <1>4, <1>8 DEF Pair!ShopAssumption
<1> QED
    BY <1>9, <1>10

LEMMA MediaFits == Single!MediaAssumption /\ Pair!MediaAssumption /\ Footage!MediaAssumption
<1>1. {1} = 1..1 /\ {1, 2} = 1..2 /\ {} = 1..0
    OBVIOUS
<1> QED
    BY <1>1, NamesDiffer DEF Single!MediaAssumption, Pair!MediaAssumption, Footage!MediaAssumption,
       Single!Media!None, Pair!Media!None, Footage!Media!None, Gallery!None,
       Single!Media!Keys, Pair!Media!Keys, Footage!Media!Keys

-----------------------------------------------------------------------------
(* The prices of twins are the same                                        *)

LEMMA SameTotal == \A amounts : Prices!Total(amounts) = Single!Price!Total(amounts)
<1> QED
    BY Zenon DEF Prices!Total, Single!Price!Total, Prices!MapThenSumSet, Single!Price!MapThenSumSet,
       Prices!MapThenFoldSet, Single!Price!MapThenFoldSet

LEMMA SameDiscount == \A amount, method, config :
    Prices!CalculateGlobalOnlinePaymentDiscount(amount, method, config) =
    Single!Price!CalculateGlobalOnlinePaymentDiscount(amount, method, config)
<1> QED
    BY SMT DEF Prices!CalculateGlobalOnlinePaymentDiscount, Single!Price!CalculateGlobalOnlinePaymentDiscount,
       Prices!IsPrepaidPaymentMethod, Single!Price!IsPrepaidPaymentMethod, Prices!Smaller, Single!Price!Smaller,
       Prices!Minus, Single!Price!Minus, Prices!Whole, Single!Price!Whole, Prices!Min, Single!Price!Min

LEMMA SameParts == \A amounts, discount :
    Prices!AllocateOnlinePaymentDiscountAcrossLines(amounts, discount) =
    Single!Price!AllocateOnlinePaymentDiscountAcrossLines(amounts, discount)
<1>1. \A l, amounts, shares : Prices!RoomAfter(l, amounts, shares) = Single!Price!RoomAfter(l, amounts, shares)
    BY Zenon DEF Prices!RoomAfter, Single!Price!RoomAfter, Prices!MapThenSumSet, Single!Price!MapThenSumSet,
       Prices!MapThenFoldSet, Single!Price!MapThenFoldSet
<1>2. \A a, b : Prices!Smaller(a, b) = Single!Price!Smaller(a, b) /\ Prices!Minus(a, b) = Single!Price!Minus(a, b)
    BY SMT DEF Prices!Smaller, Single!Price!Smaller, Prices!Minus, Single!Price!Minus, Prices!Min, Single!Price!Min
<1>3. \A amounts, discount : Prices!Shares(amounts, discount) = Single!Price!Shares(amounts, discount)
    BY <1>2, SameTotal, SMT DEF Prices!Shares, Single!Price!Shares
<1> QED
    BY <1>1, <1>2, <1>3, SameTotal, SMT
    DEF Prices!AllocateOnlinePaymentDiscountAcrossLines, Single!Price!AllocateOnlinePaymentDiscountAcrossLines

LEMMA SamePayable == \A method : Prices!PayableTotal(method) = Single!Price!PayableTotal(method)
<1> QED
    BY SameTotal, SameDiscount, SMT DEF Prices!PayableTotal, Single!Price!PayableTotal,
       Prices!GetPayOnlineDiscountConfig, Single!Price!GetPayOnlineDiscountConfig,
       Prices!Malformed, Single!Price!Malformed, Prices!Disabled, Single!Price!Disabled

LEMMA SamePreview == \A method : Prices!Preview(method) => Single!Price!Preview(method)
<1> QED
    BY SamePayable, ZenonT(30) DEF Prices!Preview, Single!Price!Preview, Prices!None, Single!Price!None,
       Prices!Methods, Single!Price!Methods, Prices!ToPaymentMethodOffer, Single!Price!ToPaymentMethodOffer,
       Prices!ResolveCartPaymentMethods, Single!Price!ResolveCartPaymentMethods,
       Prices!MethodsAllowedBy, Single!Price!MethodsAllowedBy,
       Prices!IsBelowPrepaidMinimum, Single!Price!IsBelowPrepaidMinimum,
       Prices!IsPrepaidPaymentMethod, Single!Price!IsPrepaidPaymentMethod, Prices!Minus, Single!Price!Minus

LEMMA SameCreateOrder == \A method : Prices!CreateOrder(method) => Single!Price!CreateOrder(method)
<1>1. \A method, total :
          Prices!IsBelowPrepaidMinimum(method, total) = Single!Price!IsBelowPrepaidMinimum(method, total)
    BY DEF Prices!IsBelowPrepaidMinimum, Single!Price!IsBelowPrepaidMinimum,
       Prices!IsPrepaidPaymentMethod, Single!Price!IsPrepaidPaymentMethod
<1>2. \A eligibility :
          Prices!ResolveCartPaymentMethods(eligibility) = Single!Price!ResolveCartPaymentMethods(eligibility)
    BY DEF Prices!ResolveCartPaymentMethods, Single!Price!ResolveCartPaymentMethods,
       Prices!MethodsAllowedBy, Single!Price!MethodsAllowedBy, Prices!Methods, Single!Price!Methods
<1> QED
    BY <1>1, <1>2, SameTotal, SameDiscount, SameParts, SMT
    DEF Prices!CreateOrder, Single!Price!CreateOrder, Prices!None, Single!Price!None,
        Prices!GetPayOnlineDiscountConfig, Single!Price!GetPayOnlineDiscountConfig,
        Prices!Malformed, Single!Price!Malformed, Prices!Disabled, Single!Price!Disabled

-----------------------------------------------------------------------------
(* Twins                                                                   *)

\* Variants is the instance Single!Shop of the general theorems.
LEMMA SameVariants ==
    /\ Variants!Init => Single!Shop!Init
    /\ Variants!Next => Single!Shop!Next
<1>1. Variants!Init => Single!Shop!Init
    BY Zenon DEF
       Variants!None, Variants!Idle, Variants!Generated, Variants!AllSkus, Variants!AsProduct,
       Variants!AsVariant, Variants!Init, Variants!Cardinality, Single!Shop!None, Single!Shop!Idle,
       Single!Shop!Generated, Single!Shop!AllSkus, Single!Shop!AsProduct, Single!Shop!AsVariant,
       Single!Shop!Init, Single!Shop!Cardinality
<1>2. ASSUME Variants!Next PROVE Single!Shop!Next
    BY <1>2, Zenon DEF
       Variants!None, Variants!Idle, Variants!Generated, Variants!AllSkus, Variants!Live,
       Variants!LiveProducts, Variants!VariantsIn, Variants!ActiveIn, Variants!Busy,
       Variants!CategoryUsable, Variants!ValidateShippingReadiness,
       Variants!ValidateProductActivationReadiness, Variants!CachedStock,
       Variants!RefreshVariantProductAggregates, Variants!NextWebsitePosition, Variants!MayReserve,
       Variants!IsSkuReservedBy, Variants!AsProduct, Variants!AsVariant, Variants!Crossing,
       Variants!Begin, Variants!Respond, Variants!AtOnce, Variants!Fail, Variants!BeginCreateProduct,
       Variants!FreshProduct, Variants!FreshVariant, Variants!CreateProduct,
       Variants!BeginDuplicateProduct, Variants!DuplicateProduct, Variants!BeginPublish,
       Variants!Publish, Variants!Withdraw, Variants!BeginUpdateProduct, Variants!EditedProduct,
       Variants!UpdateProduct, Variants!DeleteProducts, Variants!RestoreProduct, Variants!Before,
       Variants!Rank, Variants!MoveWebsiteOrder, Variants!CreateVariant, Variants!MayRetire,
       Variants!BeginUpdateVariant, Variants!EditedVariant, Variants!UpdateVariant,
       Variants!BeginDeleteVariant, Variants!DeleteVariant, Variants!SellVariant,
       Variants!UpdateCategoryStatus, Variants!Uncategorised, Variants!BeginDeleteCategory,
       Variants!DeleteCategory, Variants!RestoreCategory, Variants!Next, Variants!Min, Variants!Max,
       Variants!MapThenSumSet, Variants!MapThenFoldSet, Variants!Cardinality, Single!Shop!None,
       Single!Shop!Idle, Single!Shop!Generated, Single!Shop!AllSkus, Single!Shop!Live,
       Single!Shop!LiveProducts, Single!Shop!VariantsIn, Single!Shop!ActiveIn, Single!Shop!Busy,
       Single!Shop!CategoryUsable, Single!Shop!ValidateShippingReadiness,
       Single!Shop!ValidateProductActivationReadiness, Single!Shop!CachedStock,
       Single!Shop!RefreshVariantProductAggregates, Single!Shop!NextWebsitePosition,
       Single!Shop!MayReserve, Single!Shop!IsSkuReservedBy, Single!Shop!AsProduct,
       Single!Shop!AsVariant, Single!Shop!Crossing, Single!Shop!Begin, Single!Shop!Respond,
       Single!Shop!AtOnce, Single!Shop!Fail, Single!Shop!BeginCreateProduct, Single!Shop!FreshProduct,
       Single!Shop!FreshVariant, Single!Shop!CreateProduct, Single!Shop!BeginDuplicateProduct,
       Single!Shop!DuplicateProduct, Single!Shop!BeginPublish, Single!Shop!Publish,
       Single!Shop!Withdraw, Single!Shop!BeginUpdateProduct, Single!Shop!EditedProduct,
       Single!Shop!UpdateProduct, Single!Shop!DeleteProducts, Single!Shop!RestoreProduct,
       Single!Shop!Before, Single!Shop!Rank, Single!Shop!MoveWebsiteOrder, Single!Shop!CreateVariant,
       Single!Shop!MayRetire, Single!Shop!BeginUpdateVariant, Single!Shop!EditedVariant,
       Single!Shop!UpdateVariant, Single!Shop!BeginDeleteVariant, Single!Shop!DeleteVariant,
       Single!Shop!SellVariant, Single!Shop!UpdateCategoryStatus, Single!Shop!Uncategorised,
       Single!Shop!BeginDeleteCategory, Single!Shop!DeleteCategory, Single!Shop!RestoreCategory,
       Single!Shop!Next, Single!Shop!Min, Single!Shop!Max, Single!Shop!MapThenSumSet,
       Single!Shop!MapThenFoldSet, Single!Shop!Cardinality
<1> QED
    BY <1>1, <1>2

\* Products is the instance Pair!Shop of the general theorems.
LEMMA SameProducts ==
    /\ Products!Init => Pair!Shop!Init
    /\ Products!Next => Pair!Shop!Next
<1>1. Products!Init => Pair!Shop!Init
    BY Zenon DEF
       Products!None, Products!Idle, Products!Generated, Products!AllSkus, Products!AsProduct,
       Products!AsVariant, Products!Init, Products!Cardinality, Pair!Shop!None, Pair!Shop!Idle,
       Pair!Shop!Generated, Pair!Shop!AllSkus, Pair!Shop!AsProduct, Pair!Shop!AsVariant, Pair!Shop!Init,
       Pair!Shop!Cardinality
<1>2. ASSUME Products!Next PROVE Pair!Shop!Next
    BY <1>2, Zenon DEF
       Products!None, Products!Idle, Products!Generated, Products!AllSkus, Products!Live,
       Products!LiveProducts, Products!VariantsIn, Products!ActiveIn, Products!Busy,
       Products!CategoryUsable, Products!ValidateShippingReadiness,
       Products!ValidateProductActivationReadiness, Products!CachedStock,
       Products!RefreshVariantProductAggregates, Products!NextWebsitePosition, Products!MayReserve,
       Products!IsSkuReservedBy, Products!AsProduct, Products!AsVariant, Products!Crossing,
       Products!Begin, Products!Respond, Products!AtOnce, Products!Fail, Products!BeginCreateProduct,
       Products!FreshProduct, Products!FreshVariant, Products!CreateProduct,
       Products!BeginDuplicateProduct, Products!DuplicateProduct, Products!BeginPublish,
       Products!Publish, Products!Withdraw, Products!BeginUpdateProduct, Products!EditedProduct,
       Products!UpdateProduct, Products!DeleteProducts, Products!RestoreProduct, Products!Before,
       Products!Rank, Products!MoveWebsiteOrder, Products!CreateVariant, Products!MayRetire,
       Products!BeginUpdateVariant, Products!EditedVariant, Products!UpdateVariant,
       Products!BeginDeleteVariant, Products!DeleteVariant, Products!SellVariant,
       Products!UpdateCategoryStatus, Products!Uncategorised, Products!BeginDeleteCategory,
       Products!DeleteCategory, Products!RestoreCategory, Products!Next, Products!Min, Products!Max,
       Products!MapThenSumSet, Products!MapThenFoldSet, Products!Cardinality, Pair!Shop!None,
       Pair!Shop!Idle, Pair!Shop!Generated, Pair!Shop!AllSkus, Pair!Shop!Live, Pair!Shop!LiveProducts,
       Pair!Shop!VariantsIn, Pair!Shop!ActiveIn, Pair!Shop!Busy, Pair!Shop!CategoryUsable,
       Pair!Shop!ValidateShippingReadiness, Pair!Shop!ValidateProductActivationReadiness,
       Pair!Shop!CachedStock, Pair!Shop!RefreshVariantProductAggregates, Pair!Shop!NextWebsitePosition,
       Pair!Shop!MayReserve, Pair!Shop!IsSkuReservedBy, Pair!Shop!AsProduct, Pair!Shop!AsVariant,
       Pair!Shop!Crossing, Pair!Shop!Begin, Pair!Shop!Respond, Pair!Shop!AtOnce, Pair!Shop!Fail,
       Pair!Shop!BeginCreateProduct, Pair!Shop!FreshProduct, Pair!Shop!FreshVariant,
       Pair!Shop!CreateProduct, Pair!Shop!BeginDuplicateProduct, Pair!Shop!DuplicateProduct,
       Pair!Shop!BeginPublish, Pair!Shop!Publish, Pair!Shop!Withdraw, Pair!Shop!BeginUpdateProduct,
       Pair!Shop!EditedProduct, Pair!Shop!UpdateProduct, Pair!Shop!DeleteProducts,
       Pair!Shop!RestoreProduct, Pair!Shop!Before, Pair!Shop!Rank, Pair!Shop!MoveWebsiteOrder,
       Pair!Shop!CreateVariant, Pair!Shop!MayRetire, Pair!Shop!BeginUpdateVariant,
       Pair!Shop!EditedVariant, Pair!Shop!UpdateVariant, Pair!Shop!BeginDeleteVariant,
       Pair!Shop!DeleteVariant, Pair!Shop!SellVariant, Pair!Shop!UpdateCategoryStatus,
       Pair!Shop!Uncategorised, Pair!Shop!BeginDeleteCategory, Pair!Shop!DeleteCategory,
       Pair!Shop!RestoreCategory, Pair!Shop!Next, Pair!Shop!Min, Pair!Shop!Max, Pair!Shop!MapThenSumSet,
       Pair!Shop!MapThenFoldSet, Pair!Shop!Cardinality
<1> QED
    BY <1>1, <1>2

\* Gallery is the instance Single!Media of the general theorems.
LEMMA SameGallery ==
    /\ Gallery!Init => Single!Media!Init
    /\ Gallery!Next => Single!Media!Next
<1>1. Gallery!Init => Single!Media!Init
    BY Zenon DEF
       Gallery!None, Gallery!Idle, Gallery!Keys, Gallery!Init, Single!Media!None, Single!Media!Idle,
       Single!Media!Keys, Single!Media!Init
<1>2. ASSUME Gallery!Next PROVE Single!Media!Next
    BY <1>2, Zenon DEF
       Gallery!None, Gallery!Idle, Gallery!Keys, Gallery!LiveImages, Gallery!Primaries, Gallery!Rows,
       Gallery!OwnKeys, Gallery!Crossing, Gallery!Begin, Gallery!Respond, Gallery!Continue,
       Gallery!AuthorizeUpload, Gallery!BrowserUploads, Gallery!KeyAges, Gallery!Verified,
       Gallery!BeginCompleteUpload, Gallery!BeginAttachFromMediaAsset, Gallery!WithoutPrimary,
       Gallery!Allowed, Gallery!AttachImage, Gallery!BeginUpdateImage, Gallery!UpdateImage,
       Gallery!BeginDeleteImage, Gallery!Promoted, Gallery!DeleteImage, Gallery!RemoveObject,
       Gallery!BeginRegisterAsset, Gallery!RegisterAsset, Gallery!InUseByImage, Gallery!InUse,
       Gallery!BeginDeleteAsset, Gallery!DeleteAsset, Gallery!BeginCreateBlock,
       Gallery!BeginCreateAssignment, Gallery!BeginDuplicate, Gallery!FreeRows, Gallery!CreateRow,
       Gallery!Empty, Gallery!BeginUpdateBlock, Gallery!UpdateBlock, Gallery!DeleteRow,
       Gallery!BeginCleanup, Gallery!Cleanup, Gallery!Next, Gallery!Min, Gallery!Cardinality,
       Single!Media!None, Single!Media!Idle, Single!Media!Keys, Single!Media!LiveImages,
       Single!Media!Primaries, Single!Media!Rows, Single!Media!OwnKeys, Single!Media!Crossing,
       Single!Media!Begin, Single!Media!Respond, Single!Media!Continue, Single!Media!AuthorizeUpload,
       Single!Media!BrowserUploads, Single!Media!KeyAges, Single!Media!Verified,
       Single!Media!BeginCompleteUpload, Single!Media!BeginAttachFromMediaAsset,
       Single!Media!WithoutPrimary, Single!Media!Allowed, Single!Media!AttachImage,
       Single!Media!BeginUpdateImage, Single!Media!UpdateImage, Single!Media!BeginDeleteImage,
       Single!Media!Promoted, Single!Media!DeleteImage, Single!Media!RemoveObject,
       Single!Media!BeginRegisterAsset, Single!Media!RegisterAsset, Single!Media!InUseByImage,
       Single!Media!InUse, Single!Media!BeginDeleteAsset, Single!Media!DeleteAsset,
       Single!Media!BeginCreateBlock, Single!Media!BeginCreateAssignment, Single!Media!BeginDuplicate,
       Single!Media!FreeRows, Single!Media!CreateRow, Single!Media!Empty, Single!Media!BeginUpdateBlock,
       Single!Media!UpdateBlock, Single!Media!DeleteRow, Single!Media!BeginCleanup,
       Single!Media!Cleanup, Single!Media!Next, Single!Media!Min, Single!Media!Cardinality
<1> QED
    BY <1>1, <1>2

\* Uploads is the instance Pair!Media of the general theorems.
LEMMA SameUploads ==
    /\ Uploads!Init => Pair!Media!Init
    /\ Uploads!Next => Pair!Media!Next
<1>1. Uploads!Init => Pair!Media!Init
    BY Zenon DEF
       Uploads!None, Uploads!Idle, Uploads!Keys, Uploads!Init, Pair!Media!None, Pair!Media!Idle,
       Pair!Media!Keys, Pair!Media!Init
<1>2. ASSUME Uploads!Next PROVE Pair!Media!Next
    BY <1>2, Zenon DEF
       Uploads!None, Uploads!Idle, Uploads!Keys, Uploads!LiveImages, Uploads!Primaries, Uploads!Rows,
       Uploads!OwnKeys, Uploads!Crossing, Uploads!Begin, Uploads!Respond, Uploads!Continue,
       Uploads!AuthorizeUpload, Uploads!BrowserUploads, Uploads!KeyAges, Uploads!Verified,
       Uploads!BeginCompleteUpload, Uploads!BeginAttachFromMediaAsset, Uploads!WithoutPrimary,
       Uploads!Allowed, Uploads!AttachImage, Uploads!BeginUpdateImage, Uploads!UpdateImage,
       Uploads!BeginDeleteImage, Uploads!Promoted, Uploads!DeleteImage, Uploads!RemoveObject,
       Uploads!BeginRegisterAsset, Uploads!RegisterAsset, Uploads!InUseByImage, Uploads!InUse,
       Uploads!BeginDeleteAsset, Uploads!DeleteAsset, Uploads!BeginCreateBlock,
       Uploads!BeginCreateAssignment, Uploads!BeginDuplicate, Uploads!FreeRows, Uploads!CreateRow,
       Uploads!Empty, Uploads!BeginUpdateBlock, Uploads!UpdateBlock, Uploads!DeleteRow,
       Uploads!BeginCleanup, Uploads!Cleanup, Uploads!Next, Uploads!Min, Uploads!Cardinality,
       Pair!Media!None, Pair!Media!Idle, Pair!Media!Keys, Pair!Media!LiveImages, Pair!Media!Primaries,
       Pair!Media!Rows, Pair!Media!OwnKeys, Pair!Media!Crossing, Pair!Media!Begin, Pair!Media!Respond,
       Pair!Media!Continue, Pair!Media!AuthorizeUpload, Pair!Media!BrowserUploads, Pair!Media!KeyAges,
       Pair!Media!Verified, Pair!Media!BeginCompleteUpload, Pair!Media!BeginAttachFromMediaAsset,
       Pair!Media!WithoutPrimary, Pair!Media!Allowed, Pair!Media!AttachImage,
       Pair!Media!BeginUpdateImage, Pair!Media!UpdateImage, Pair!Media!BeginDeleteImage,
       Pair!Media!Promoted, Pair!Media!DeleteImage, Pair!Media!RemoveObject,
       Pair!Media!BeginRegisterAsset, Pair!Media!RegisterAsset, Pair!Media!InUseByImage,
       Pair!Media!InUse, Pair!Media!BeginDeleteAsset, Pair!Media!DeleteAsset,
       Pair!Media!BeginCreateBlock, Pair!Media!BeginCreateAssignment, Pair!Media!BeginDuplicate,
       Pair!Media!FreeRows, Pair!Media!CreateRow, Pair!Media!Empty, Pair!Media!BeginUpdateBlock,
       Pair!Media!UpdateBlock, Pair!Media!DeleteRow, Pair!Media!BeginCleanup, Pair!Media!Cleanup,
       Pair!Media!Next, Pair!Media!Min, Pair!Media!Cardinality
<1> QED
    BY <1>1, <1>2

\* Videos is the instance Footage!Media of the general theorems.
LEMMA SameVideos ==
    /\ Videos!Init => Footage!Media!Init
    /\ Videos!Next => Footage!Media!Next
<1>1. Videos!Init => Footage!Media!Init
    BY Zenon DEF
       Videos!None, Videos!Idle, Videos!Keys, Videos!Init, Footage!Media!None, Footage!Media!Idle,
       Footage!Media!Keys, Footage!Media!Init
<1>2. ASSUME Videos!Next PROVE Footage!Media!Next
    BY <1>2, Zenon DEF
       Videos!None, Videos!Idle, Videos!Keys, Videos!LiveImages, Videos!Primaries, Videos!Rows,
       Videos!OwnKeys, Videos!Crossing, Videos!Begin, Videos!Respond, Videos!Continue,
       Videos!AuthorizeUpload, Videos!BrowserUploads, Videos!KeyAges, Videos!Verified,
       Videos!BeginCompleteUpload, Videos!BeginAttachFromMediaAsset, Videos!WithoutPrimary,
       Videos!Allowed, Videos!AttachImage, Videos!BeginUpdateImage, Videos!UpdateImage,
       Videos!BeginDeleteImage, Videos!Promoted, Videos!DeleteImage, Videos!RemoveObject,
       Videos!BeginRegisterAsset, Videos!RegisterAsset, Videos!InUseByImage, Videos!InUse,
       Videos!BeginDeleteAsset, Videos!DeleteAsset, Videos!BeginCreateBlock,
       Videos!BeginCreateAssignment, Videos!BeginDuplicate, Videos!FreeRows, Videos!CreateRow,
       Videos!Empty, Videos!BeginUpdateBlock, Videos!UpdateBlock, Videos!DeleteRow, Videos!BeginCleanup,
       Videos!Cleanup, Videos!Next, Videos!Min, Videos!Cardinality, Footage!Media!None,
       Footage!Media!Idle, Footage!Media!Keys, Footage!Media!LiveImages, Footage!Media!Primaries,
       Footage!Media!Rows, Footage!Media!OwnKeys, Footage!Media!Crossing, Footage!Media!Begin,
       Footage!Media!Respond, Footage!Media!Continue, Footage!Media!AuthorizeUpload,
       Footage!Media!BrowserUploads, Footage!Media!KeyAges, Footage!Media!Verified,
       Footage!Media!BeginCompleteUpload, Footage!Media!BeginAttachFromMediaAsset,
       Footage!Media!WithoutPrimary, Footage!Media!Allowed, Footage!Media!AttachImage,
       Footage!Media!BeginUpdateImage, Footage!Media!UpdateImage, Footage!Media!BeginDeleteImage,
       Footage!Media!Promoted, Footage!Media!DeleteImage, Footage!Media!RemoveObject,
       Footage!Media!BeginRegisterAsset, Footage!Media!RegisterAsset, Footage!Media!InUseByImage,
       Footage!Media!InUse, Footage!Media!BeginDeleteAsset, Footage!Media!DeleteAsset,
       Footage!Media!BeginCreateBlock, Footage!Media!BeginCreateAssignment,
       Footage!Media!BeginDuplicate, Footage!Media!FreeRows, Footage!Media!CreateRow,
       Footage!Media!Empty, Footage!Media!BeginUpdateBlock, Footage!Media!UpdateBlock,
       Footage!Media!DeleteRow, Footage!Media!BeginCleanup, Footage!Media!Cleanup, Footage!Media!Next,
       Footage!Media!Min, Footage!Media!Cardinality
<1> QED
    BY <1>1, <1>2

\* Shopping is the instance Single!Basket of the general theorems.
LEMMA SameShopping ==
    /\ Shopping!Init => Single!Basket!Init
    /\ Shopping!Next => Single!Basket!Next
<1>1. Shopping!Init => Single!Basket!Init
    BY Zenon DEF
       Shopping!None, Shopping!Idle, Shopping!Init, Single!Basket!None, Single!Basket!Idle,
       Single!Basket!Init
<1>2. ASSUME Shopping!Next PROVE Single!Basket!Next
    BY <1>2, Zenon DEF
       Shopping!Owners, Shopping!None, Shopping!NoOwner, Shopping!Idle, Shopping!CartsOf,
       Shopping!FindActiveCart, Shopping!LinesIn, Shopping!LineOf, Shopping!FreeCarts,
       Shopping!FreeLines, Shopping!Without, Shopping!Unlocked, Shopping!CartUnlocked,
       Shopping!FindCart, Shopping!BeginAddCartItem, Shopping!CartFor, Shopping!AddCartItem,
       Shopping!Touch, Shopping!BeginTouch, Shopping!Found, Shopping!UpdateCartItemQuantity,
       Shopping!RemoveCartItem, Shopping!ClearCart, Shopping!Merged, Shopping!QuantityIn,
       Shopping!MergeGuestCartIntoCustomerCart, Shopping!Available, Shopping!PlaceOrder,
       Shopping!FinalizeCartForOrder, Shopping!StockChanges, Shopping!Next, Shopping!Min,
       Single!Basket!Owners, Single!Basket!None, Single!Basket!NoOwner, Single!Basket!Idle,
       Single!Basket!CartsOf, Single!Basket!FindActiveCart, Single!Basket!LinesIn, Single!Basket!LineOf,
       Single!Basket!FreeCarts, Single!Basket!FreeLines, Single!Basket!Without, Single!Basket!Unlocked,
       Single!Basket!CartUnlocked, Single!Basket!FindCart, Single!Basket!BeginAddCartItem,
       Single!Basket!CartFor, Single!Basket!AddCartItem, Single!Basket!Touch, Single!Basket!BeginTouch,
       Single!Basket!Found, Single!Basket!UpdateCartItemQuantity, Single!Basket!RemoveCartItem,
       Single!Basket!ClearCart, Single!Basket!Merged, Single!Basket!QuantityIn,
       Single!Basket!MergeGuestCartIntoCustomerCart, Single!Basket!Available, Single!Basket!PlaceOrder,
       Single!Basket!FinalizeCartForOrder, Single!Basket!StockChanges, Single!Basket!Next,
       Single!Basket!Min
<1> QED
    BY <1>1, <1>2

\* Prices is the instance Single!Price of the general theorems.
LEMMA SamePrices ==
    /\ Prices!Init => Single!Price!Init
    /\ Prices!Next => Single!Price!Next
<1>1. Prices!Init => Single!Price!Init
    BY Zenon DEF
       Prices!None, Prices!Disabled, Prices!Malformed, Prices!Init, Single!Price!None,
       Single!Price!Disabled, Single!Price!Malformed, Single!Price!Init
<1>2. Prices!Next => Single!Price!Next
    BY SamePreview, SameCreateOrder, SMT DEF Prices!Next, Single!Price!Next,
       Prices!None, Prices!Methods, Prices!Disabled, Prices!Malformed, Prices!IsPrepaidPaymentMethod,
       Prices!IsBelowPrepaidMinimum, Prices!MethodsAllowedBy, Prices!ResolveCartPaymentMethods,
       Prices!UpdatePayOnlineDiscountSettings, Prices!ProductEligibilityChanges, Prices!ItemsAllow,
       Prices!AssertOrderAllowsPaymentMethod, Prices!StartPayment, Single!Price!None,
       Single!Price!Methods, Single!Price!Disabled, Single!Price!Malformed,
       Single!Price!IsPrepaidPaymentMethod, Single!Price!IsBelowPrepaidMinimum,
       Single!Price!MethodsAllowedBy, Single!Price!ResolveCartPaymentMethods,
       Single!Price!UpdatePayOnlineDiscountSettings, Single!Price!ProductEligibilityChanges,
       Single!Price!ItemsAllow, Single!Price!AssertOrderAllowsPaymentMethod, Single!Price!StartPayment
<1> QED
    BY <1>1, <1>2

-----------------------------------------------------------------------------
(* Behaviours of the twins                                                 *)

LEMMA StepsVariants ==
    [Next]_vars => /\ driven = "variants" => [Single!Shop!Next]_(Single!Shop!vars)
                   /\ (driven = "variants")' <=> driven = "variants"
<1> QED
    BY SameVariants DEF Next, vars, catalogue, Single!Shop!vars

LEMMA RunsVariants == Spec => (driven = "variants" => Single!Shop!Spec)
<1>1. Init => (driven = "variants" => Single!Shop!Init)
    BY SameVariants DEF Init
<1> QED
    BY <1>1, StepsVariants, PTL DEF Spec, Single!Shop!Spec

LEMMA StepsProducts ==
    [Next]_vars => /\ driven = "products" => [Pair!Shop!Next]_(Pair!Shop!vars)
                   /\ (driven = "products")' <=> driven = "products"
<1> QED
    BY SameProducts DEF Next, vars, catalogue, Pair!Shop!vars

LEMMA RunsProducts == Spec => (driven = "products" => Pair!Shop!Spec)
<1>1. Init => (driven = "products" => Pair!Shop!Init)
    BY SameProducts DEF Init
<1> QED
    BY <1>1, StepsProducts, PTL DEF Spec, Pair!Shop!Spec

LEMMA StepsGallery ==
    [Next]_vars => /\ driven = "gallery" => [Single!Media!Next]_(Single!Media!vars)
                   /\ (driven = "gallery")' <=> driven = "gallery"
<1> QED
    BY SameGallery DEF Next, vars, media, Single!Media!vars

LEMMA RunsGallery == Spec => (driven = "gallery" => Single!Media!Spec)
<1>1. Init => (driven = "gallery" => Single!Media!Init)
    BY SameGallery DEF Init
<1> QED
    BY <1>1, StepsGallery, PTL DEF Spec, Single!Media!Spec

LEMMA StepsUploads ==
    [Next]_vars => /\ driven = "uploads" => [Pair!Media!Next]_(Pair!Media!vars)
                   /\ (driven = "uploads")' <=> driven = "uploads"
<1> QED
    BY SameUploads DEF Next, vars, media, Pair!Media!vars

LEMMA RunsUploads == Spec => (driven = "uploads" => Pair!Media!Spec)
<1>1. Init => (driven = "uploads" => Pair!Media!Init)
    BY SameUploads DEF Init
<1> QED
    BY <1>1, StepsUploads, PTL DEF Spec, Pair!Media!Spec

LEMMA StepsVideos ==
    [Next]_vars => /\ driven = "videos" => [Footage!Media!Next]_(Footage!Media!vars)
                   /\ (driven = "videos")' <=> driven = "videos"
<1> QED
    BY SameVideos DEF Next, vars, media, Footage!Media!vars

LEMMA RunsVideos == Spec => (driven = "videos" => Footage!Media!Spec)
<1>1. Init => (driven = "videos" => Footage!Media!Init)
    BY SameVideos DEF Init
<1> QED
    BY <1>1, StepsVideos, PTL DEF Spec, Footage!Media!Spec

LEMMA StepsShopping ==
    [Next]_vars => /\ driven = "carts" => [Single!Basket!Next]_(Single!Basket!vars)
                   /\ (driven = "carts")' <=> driven = "carts"
<1> QED
    BY SameShopping DEF Next, vars, shopping, Single!Basket!vars

LEMMA RunsShopping == Spec => (driven = "carts" => Single!Basket!Spec)
<1>1. Init => (driven = "carts" => Single!Basket!Init)
    BY SameShopping DEF Init
<1> QED
    BY <1>1, StepsShopping, PTL DEF Spec, Single!Basket!Spec

LEMMA StepsPrices ==
    [Next]_vars => /\ driven = "prices" => [Single!Price!Next]_(Single!Price!vars)
                   /\ (driven = "prices")' <=> driven = "prices"
<1> QED
    BY SamePrices DEF Next, vars, pricing, Single!Price!vars

LEMMA RunsPrices == Spec => (driven = "prices" => Single!Price!Spec)
<1>1. Init => (driven = "prices" => Single!Price!Init)
    BY SamePrices DEF Init
<1> QED
    BY <1>1, StepsPrices, PTL DEF Spec, Single!Price!Spec

-----------------------------------------------------------------------------
\* A SKU names one product or one variant for ever, whatever administrators' requests overlap.
THEOREM StorefrontSkuOwned == Spec => []SkuOwned
<1>1. Single!Shop!Spec => [](Single!Shop!TypeOK /\ Single!Shop!SkuOwned)
    BY Single!SkuOwnedAlways, ShopFits
<1>2. Single!Shop!TypeOK /\ Single!Shop!SkuOwned => Variants!TypeOK /\ Variants!SkuOwned
    BY Zenon DEF
       Variants!None, Variants!Generated, Variants!AllSkus, Variants!Owner, Variants!ProductRow,
       Variants!VariantRow, Variants!CategoryRow, Variants!IsSkuReservedBy, Variants!AsProduct,
       Variants!AsVariant, Variants!TypeOK, Variants!SkuOwned, Single!Shop!None, Single!Shop!Generated,
       Single!Shop!AllSkus, Single!Shop!Owner, Single!Shop!ProductRow, Single!Shop!VariantRow,
       Single!Shop!CategoryRow, Single!Shop!IsSkuReservedBy, Single!Shop!AsProduct,
       Single!Shop!AsVariant, Single!Shop!TypeOK, Single!Shop!SkuOwned
<1>3. Pair!Shop!Spec => [](Pair!Shop!TypeOK /\ Pair!Shop!SkuOwned)
    BY Pair!SkuOwnedAlways, ShopFits
<1>4. Pair!Shop!TypeOK /\ Pair!Shop!SkuOwned => Products!TypeOK /\ Products!SkuOwned
    BY Zenon DEF
       Products!None, Products!Generated, Products!AllSkus, Products!Owner, Products!ProductRow,
       Products!VariantRow, Products!CategoryRow, Products!IsSkuReservedBy, Products!AsProduct,
       Products!AsVariant, Products!TypeOK, Products!SkuOwned, Pair!Shop!None, Pair!Shop!Generated,
       Pair!Shop!AllSkus, Pair!Shop!Owner, Pair!Shop!ProductRow, Pair!Shop!VariantRow,
       Pair!Shop!CategoryRow, Pair!Shop!IsSkuReservedBy, Pair!Shop!AsProduct, Pair!Shop!AsVariant,
       Pair!Shop!TypeOK, Pair!Shop!SkuOwned
<1>5. (driven = "variants" => Variants!TypeOK /\ Variants!SkuOwned) /\ (driven = "products" => Products!TypeOK /\ Products!SkuOwned) => SkuOwned
    BY DEF SkuOwned
<1> QED
    BY <1>1, <1>2, <1>3, <1>4, <1>5, RunsVariants, StepsVariants, RunsProducts, StepsProducts, PTL DEF Spec

\* Without overlapping requests, what is on sale has a category and a variant to buy; two
\* products never share a place on the shelf.
THEOREM StorefrontPublishedIsSellable == Spec => []PublishedIsSellable
<1>1. Single!Shop!Spec => [](Single!Shop!PublishedIsSellable /\ Single!Shop!CachedStockFollows /\ Single!Shop!PlacesDistinct)
    BY Single!PublishedIsSellableAlways, ShopFits
<1>2. Single!Shop!PublishedIsSellable /\ Single!Shop!PlacesDistinct => Variants!PublishedIsSellable /\ Variants!PlacesDistinct
    BY Zenon DEF
       Variants!None, Variants!Live, Variants!LiveProducts, Variants!VariantsIn, Variants!ActiveIn,
       Variants!CategoryUsable, Variants!ListStorefrontProducts, Variants!GetStorefrontProductBySlug,
       Variants!PlacesDistinct, Variants!PublishedIsSellable, Single!Shop!None, Single!Shop!Live,
       Single!Shop!LiveProducts, Single!Shop!VariantsIn, Single!Shop!ActiveIn,
       Single!Shop!CategoryUsable, Single!Shop!ListStorefrontProducts,
       Single!Shop!GetStorefrontProductBySlug, Single!Shop!PlacesDistinct,
       Single!Shop!PublishedIsSellable
<1>3. Pair!Shop!Spec => [](Pair!Shop!PublishedIsSellable /\ Pair!Shop!CachedStockFollows /\ Pair!Shop!PlacesDistinct)
    BY Pair!PublishedIsSellableAlways, ShopFits
<1>4. Pair!Shop!PublishedIsSellable /\ Pair!Shop!PlacesDistinct => Products!PublishedIsSellable /\ Products!PlacesDistinct
    BY Zenon DEF
       Products!None, Products!Live, Products!LiveProducts, Products!VariantsIn, Products!ActiveIn,
       Products!CategoryUsable, Products!ListStorefrontProducts, Products!GetStorefrontProductBySlug,
       Products!PlacesDistinct, Products!PublishedIsSellable, Pair!Shop!None, Pair!Shop!Live,
       Pair!Shop!LiveProducts, Pair!Shop!VariantsIn, Pair!Shop!ActiveIn, Pair!Shop!CategoryUsable,
       Pair!Shop!ListStorefrontProducts, Pair!Shop!GetStorefrontProductBySlug, Pair!Shop!PlacesDistinct,
       Pair!Shop!PublishedIsSellable
<1>5. (driven = "variants" => Variants!PublishedIsSellable /\ Variants!PlacesDistinct) /\ (driven = "products" => Products!PublishedIsSellable /\ Products!PlacesDistinct) => PublishedIsSellable
    BY DEF PublishedIsSellable
<1> QED
    BY <1>1, <1>2, <1>3, <1>4, <1>5, RunsVariants, StepsVariants, RunsProducts, StepsProducts, PTL DEF Spec

\* Without overlapping requests and sales, the stock shown is that of the active variants.
THEOREM StorefrontCachedStockFollows == Spec => []CachedStockFollows
<1>1. Single!Shop!Spec => [](Single!Shop!PublishedIsSellable /\ Single!Shop!CachedStockFollows /\ Single!Shop!PlacesDistinct)
    BY Single!PublishedIsSellableAlways, ShopFits
<1>2. Single!Shop!CachedStockFollows => Variants!CachedStockFollows
    BY Zenon DEF
       Variants!None, Variants!Live, Variants!LiveProducts, Variants!VariantsIn, Variants!ActiveIn,
       Variants!CategoryUsable, Variants!CachedStock, Variants!ListStorefrontProducts,
       Variants!GetStorefrontProductBySlug, Variants!CachedStockFollows, Variants!MapThenSumSet,
       Variants!MapThenFoldSet, Single!Shop!None, Single!Shop!Live, Single!Shop!LiveProducts,
       Single!Shop!VariantsIn, Single!Shop!ActiveIn, Single!Shop!CategoryUsable,
       Single!Shop!CachedStock, Single!Shop!ListStorefrontProducts,
       Single!Shop!GetStorefrontProductBySlug, Single!Shop!CachedStockFollows,
       Single!Shop!MapThenSumSet, Single!Shop!MapThenFoldSet
<1>3. (driven = "variants" => Variants!CachedStockFollows) => CachedStockFollows
    BY DEF CachedStockFollows
<1> QED
    BY <1>1, <1>2, <1>3, RunsVariants, StepsVariants, PTL DEF Spec

\* An attached image of a product keeps its object, whatever the cleanup script does.
THEOREM StorefrontOwnObjectStored == Spec => []OwnObjectStored
<1>1. Single!Media!Spec => [](Single!Media!TypeOK /\ Single!Media!OwnObjectStored)
    BY Single!OwnObjectStoredAlways, MediaFits
<1>2. Single!Media!OwnObjectStored => Gallery!OwnObjectStored
    BY Zenon DEF
       Gallery!None, Gallery!LiveImages, Gallery!OwnKeys, Gallery!OwnObjectStored, Single!Media!None,
       Single!Media!LiveImages, Single!Media!OwnKeys, Single!Media!OwnObjectStored
<1>3. Pair!Media!Spec => [](Pair!Media!TypeOK /\ Pair!Media!OwnObjectStored)
    BY Pair!OwnObjectStoredAlways, MediaFits
<1>4. Pair!Media!OwnObjectStored => Uploads!OwnObjectStored
    BY Zenon DEF
       Uploads!None, Uploads!LiveImages, Uploads!OwnKeys, Uploads!OwnObjectStored, Pair!Media!None,
       Pair!Media!LiveImages, Pair!Media!OwnKeys, Pair!Media!OwnObjectStored
<1>5. (driven = "gallery" => Gallery!OwnObjectStored) /\ (driven = "uploads" => Uploads!OwnObjectStored) => OwnObjectStored
    BY DEF OwnObjectStored
<1> QED
    BY <1>1, <1>2, <1>3, <1>4, <1>5, RunsGallery, StepsGallery, RunsUploads, StepsUploads, PTL DEF Spec

\* Without overlapping requests, one image is primary, gallery assets in use can be shown and
\* no content block is empty.
THEOREM StorefrontGalleryIntact == Spec => []GalleryIntact
<1>1. Single!Media!Spec => [](Single!Media!TypeOK /\ Single!Media!OwnObjectStored)
    BY Single!OwnObjectStoredAlways, MediaFits
<1>2. Single!Media!Spec => []Single!Media!GalleryIntact
    BY Single!GalleryIntactAlways, MediaFits
<1>3. Single!Media!TypeOK /\ Single!Media!GalleryIntact => Gallery!TypeOK /\ Gallery!GalleryIntact
    BY Zenon DEF
       Gallery!None, Gallery!Keys, Gallery!ImageRow, Gallery!AssetStatus, Gallery!BlockRow,
       Gallery!AssignmentRow, Gallery!LiveImages, Gallery!Primaries, Gallery!Rows, Gallery!Empty,
       Gallery!TypeOK, Gallery!GalleryIntact, Gallery!Cardinality, Single!Media!None, Single!Media!Keys,
       Single!Media!ImageRow, Single!Media!AssetStatus, Single!Media!BlockRow,
       Single!Media!AssignmentRow, Single!Media!LiveImages, Single!Media!Primaries, Single!Media!Rows,
       Single!Media!Empty, Single!Media!TypeOK, Single!Media!GalleryIntact, Single!Media!Cardinality
<1>4. Pair!Media!Spec => [](Pair!Media!TypeOK /\ Pair!Media!OwnObjectStored)
    BY Pair!OwnObjectStoredAlways, MediaFits
<1>5. Pair!Media!Spec => []Pair!Media!GalleryIntact
    BY Pair!GalleryIntactAlways, MediaFits
<1>6. Pair!Media!TypeOK /\ Pair!Media!GalleryIntact => Uploads!TypeOK /\ Uploads!GalleryIntact
    BY Zenon DEF
       Uploads!None, Uploads!Keys, Uploads!ImageRow, Uploads!AssetStatus, Uploads!BlockRow,
       Uploads!AssignmentRow, Uploads!LiveImages, Uploads!Primaries, Uploads!Rows, Uploads!Empty,
       Uploads!TypeOK, Uploads!GalleryIntact, Uploads!Cardinality, Pair!Media!None, Pair!Media!Keys,
       Pair!Media!ImageRow, Pair!Media!AssetStatus, Pair!Media!BlockRow, Pair!Media!AssignmentRow,
       Pair!Media!LiveImages, Pair!Media!Primaries, Pair!Media!Rows, Pair!Media!Empty,
       Pair!Media!TypeOK, Pair!Media!GalleryIntact, Pair!Media!Cardinality
<1>7. Footage!Media!Spec => [](Footage!Media!TypeOK /\ Footage!Media!OwnObjectStored)
    BY Footage!OwnObjectStoredAlways, MediaFits
<1>8. Footage!Media!Spec => []Footage!Media!GalleryIntact
    BY Footage!GalleryIntactAlways, MediaFits
<1>9. Footage!Media!TypeOK /\ Footage!Media!GalleryIntact => Videos!TypeOK /\ Videos!GalleryIntact
    BY Zenon DEF
       Videos!None, Videos!Keys, Videos!ImageRow, Videos!AssetStatus, Videos!BlockRow,
       Videos!AssignmentRow, Videos!LiveImages, Videos!Primaries, Videos!Rows, Videos!Empty,
       Videos!TypeOK, Videos!GalleryIntact, Videos!Cardinality, Footage!Media!None, Footage!Media!Keys,
       Footage!Media!ImageRow, Footage!Media!AssetStatus, Footage!Media!BlockRow,
       Footage!Media!AssignmentRow, Footage!Media!LiveImages, Footage!Media!Primaries,
       Footage!Media!Rows, Footage!Media!Empty, Footage!Media!TypeOK, Footage!Media!GalleryIntact,
       Footage!Media!Cardinality
<1>10. (driven = "gallery" => Gallery!TypeOK /\ Gallery!GalleryIntact) /\ (driven = "uploads" => Uploads!TypeOK /\ Uploads!GalleryIntact) /\ (driven = "videos" => Videos!TypeOK /\ Videos!GalleryIntact) => GalleryIntact
    BY DEF GalleryIntact
<1> QED
    BY <1>1, <1>2, <1>3, <1>4, <1>5, <1>6, <1>7, <1>8, <1>9, <1>10, RunsGallery, StepsGallery, RunsUploads, StepsUploads, RunsVideos, StepsVideos, PTL DEF Spec

\* One active cart per customer, one line per item and no unit that nobody asked for, whatever
\* requests and sign-ins overlap.
THEOREM StorefrontCartsConsistent == Spec => []CartsConsistent
<1>1. Single!Basket!Spec => [](Single!Basket!TypeOK /\ Single!Basket!CartsConsistent)
    BY Single!CartsConsistentAlways, CartFits
<1>2. Single!Basket!TypeOK /\ Single!Basket!CartsConsistent => Shopping!TypeOK /\ Shopping!CartsConsistent
    BY Zenon DEF
       Shopping!Owners, Shopping!None, Shopping!NoOwner, Shopping!CartRow, Shopping!LineRow,
       Shopping!CartsOf, Shopping!FindActiveCart, Shopping!LinesIn, Shopping!LineOf, Shopping!TypeOK,
       Shopping!OneCart, Shopping!LinesDistinct, Shopping!AbandonedEmpty, Shopping!UnitsAccounted,
       Shopping!CartsConsistent, Shopping!MapThenSumSet, Shopping!MapThenFoldSet, Shopping!Cardinality,
       Single!Basket!Owners, Single!Basket!None, Single!Basket!NoOwner, Single!Basket!CartRow,
       Single!Basket!LineRow, Single!Basket!CartsOf, Single!Basket!FindActiveCart,
       Single!Basket!LinesIn, Single!Basket!LineOf, Single!Basket!TypeOK, Single!Basket!OneCart,
       Single!Basket!LinesDistinct, Single!Basket!AbandonedEmpty, Single!Basket!UnitsAccounted,
       Single!Basket!CartsConsistent, Single!Basket!MapThenSumSet, Single!Basket!MapThenFoldSet,
       Single!Basket!Cardinality
<1>3. (driven = "carts" => Shopping!TypeOK /\ Shopping!CartsConsistent) => CartsConsistent
    BY DEF CartsConsistent
<1> QED
    BY <1>1, <1>2, <1>3, RunsShopping, StepsShopping, PTL DEF Spec

\* Orders cost what the preview showed, their discount is split exactly, and they are paid by a
\* method that their price and their products allow.
THEOREM StorefrontPricedAndPaid == Spec => []PricedAndPaid
<1>1. Single!Price!Spec => []Single!Price!PricedAndPaid
    BY Single!PricedAndPaidAlways, PriceFits
<1>2. Single!Price!PricedAndPaid => Prices!PricedAndPaid
    BY Zenon DEF
       Prices!None, Prices!Total, Prices!PreviewHonoured, Prices!AllocationsExact, Prices!PaidAsPriced,
       Prices!PricedAndPaid, Prices!MapThenSumSet, Prices!MapThenFoldSet, Single!Price!None,
       Single!Price!Total, Single!Price!PreviewHonoured, Single!Price!AllocationsExact,
       Single!Price!PaidAsPriced, Single!Price!PricedAndPaid, Single!Price!MapThenSumSet,
       Single!Price!MapThenFoldSet
<1>3. (driven = "prices" => Prices!PricedAndPaid) => PricedAndPaid
    BY DEF PricedAndPaid
<1> QED
    BY <1>1, <1>2, <1>3, RunsPrices, StepsPrices, PTL DEF Spec
=============================================================================
