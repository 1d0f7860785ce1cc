CONSTANTS
    ann = ann  gus = gus  soap = soap
    ska = ska  skb = skb  skc = skc
    up1 = up1  up2 = up2  pic = pic  clip = clip
SPECIFICATION Spec
INVARIANTS
    SkuOwned
    PublishedIsSellable
    CachedStockFollows
    OwnObjectStored
    GalleryIntact
    CartsConsistent
    PricedAndPaid
CHECK_DEADLOCK FALSE
