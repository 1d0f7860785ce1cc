------------------------------- MODULE Schema -------------------------------
(***************************************************************************)
(* The tables of the database, as data: for each, the tables that the      *)
(* foreign keys of its CREATE refer to, with what happens to its rows when *)
(* the row they refer to is deleted, and the parts of its CREATE that a    *)
(* later migration adds to a database made by an older CREATE.  The other  *)
(* columns, keys and checks tell no two states apart.                      *)
(***************************************************************************)
EXTENDS Naturals, Sequences

LOCAL Restrict(table) == <<table, "restrict">>
LOCAL Cascade(table) == <<table, "cascade">>
LOCAL SetNull(table) == <<table, "set null">>
LOCAL Table(name, refers, holds) == [name |-> name, refers |-> refers, holds |-> holds]

Measures == {"weight_grams", "length_cm", "width_cm", "height_cm"}

UsersTable == Table("users", {}, {"role super_admin", "id not numbered by MySQL"})
AuthSessionsTable == Table("auth_sessions", {Restrict("users")}, {})
AddressesTable == Table("addresses", {Restrict("users")}, {"coordinates"})
CategoriesTable == Table("categories", {}, {"show_on_homepage"})
ProductsTable ==
    Table("products", {Restrict("categories")},
          Measures \cup {"price may be zero", "brand", "how_to_use", "display_order"})
ProductVariantsTable == Table("product_variants", {Restrict("products")}, Measures)
\* Without the key to media_assets, a later table.
ProductImagesTable == Table("product_images", {Restrict("products")}, {"media_asset_id"})
\* Without the key to coupons, a later table.
CartsTable == Table("carts", {SetNull("users")}, {"coupon_id"})
CartItemsTable ==
    Table("cart_items", {Cascade("carts"), Restrict("products"), Restrict("product_variants")}, {})
\* Without the key to coupons, a later table.
OrdersTable ==
    Table("orders", {Restrict("users"), SetNull("carts")},
          {"coordinates", "user_id may be null", "guest access", "cart_id", "commerce_exception",
           "payment_status partially_refunded", "coupon_id"})
OrderItemsTable ==
    Table("order_items", {Restrict("orders"), SetNull("products"), SetNull("product_variants")},
          {"discount_allocated_paise"})
OrderNotesTable == Table("order_notes", {Restrict("orders"), Restrict("users")}, {})
PaymentsTable ==
    Table("payments", {Restrict("orders")}, {"status cancelled", "status partially_refunded"})
ShipmentsTable ==
    Table("shipments", {Restrict("orders"), Restrict("replacements")},
          {"provider columns", "fk_shipments_replacement_id"})
ShipmentTrackingEventsTable == Table("shipment_tracking_events", {Cascade("shipments")}, {})
ReturnRequestsTable ==
    Table("return_requests", {Restrict("orders"), Restrict("order_items"), Restrict("users")},
          {"quantity", "quantity required", "status cancelled"})
ReturnNotesTable == Table("return_notes", {Restrict("return_requests"), Restrict("users")}, {})
ContactEnquiriesTable == Table("contact_enquiries", {}, {"order_number"})
StoreSettingsTable == Table("store_settings", {}, {})
AuthChallengesTable == Table("auth_challenges", {Cascade("users")}, {})
PasswordResetTokensTable == Table("password_reset_tokens", {Cascade("users")}, {})
WishlistsTable == Table("wishlists", {Restrict("users"), Restrict("products")}, {})
RefundsTable ==
    Table("refunds", {Restrict("orders"), Restrict("payments"), Restrict("return_requests"), Restrict("users")}, {})
ReplacementsTable ==
    Table("replacements",
          {Restrict("return_requests"), Restrict("orders"), Restrict("order_items"), Restrict("products"),
           Restrict("product_variants"), Restrict("users")}, {})
MediaAssetsTable == Table("media_assets", {Restrict("users")}, {"media_type"})
NewsletterSubscribersTable == Table("newsletter_subscribers", {}, {})
NotificationLogTable ==
    Table("notification_log", {},
          {"shipment events", "return shipment events", "return shipments", "admin events"})
ProductFeaturesTable == Table("product_features", {Restrict("products")}, {})
ProductReviewsTable ==
    Table("product_reviews", {Restrict("products"), Restrict("users"), Restrict("order_items")}, {"review_source"})
ProductContentBlocksTable == Table("product_content_blocks", {Restrict("products"), Restrict("media_assets")}, {})
ProductSpecificationsTable == Table("product_specifications", {Restrict("products")}, {})
ProductFaqsTable == Table("product_faqs", {Restrict("products")}, {})
ProductMediaAssignmentsTable ==
    Table("product_media_assignments", {Restrict("products"), Restrict("media_assets")}, {})
OrderDocumentsTable == Table("order_documents", {Restrict("orders")}, {})
ReturnShipmentsTable == Table("return_shipments", {Restrict("return_requests")}, {})
ReturnShipmentTrackingEventsTable ==
    Table("return_shipment_tracking_events", {Cascade("return_shipments")}, {})
AnnouncementBarItemsTable == Table("announcement_bar_items", {}, {"link_label"})
WelcomePopupsTable ==
    Table("welcome_popups", {}, {"cta_mode", "display_delay_ms", "dismissal_cooldown_days"})
CouponsTable == Table("coupons", {}, {})
CouponProductsTable == Table("coupon_products", {Cascade("coupons"), Cascade("products")}, {})
CouponCategoriesTable == Table("coupon_categories", {Cascade("coupons"), Cascade("categories")}, {})
CouponRedemptionsTable ==
    Table("coupon_redemptions", {Restrict("coupons"), Restrict("orders"), Restrict("users")}, {})
BreezeCheckoutSessionsTable ==
    Table("breeze_checkout_sessions",
          {Restrict("users"), Restrict("carts"), Restrict("orders"), Restrict("payments")},
          {"order_intent", "processing_status released"})
BreezeWebhookEventsTable == Table("breeze_webhook_events", {}, {})
BreezeReconciliationAlertsTable == Table("breeze_reconciliation_alerts", {}, {})
BreezeAdminActionsTable == Table("breeze_admin_actions", {Restrict("users")}, {})

BusinessTables ==
    {UsersTable, AuthSessionsTable, AddressesTable, CategoriesTable, ProductsTable, ProductVariantsTable,
     ProductImagesTable, CartsTable, CartItemsTable, OrdersTable, OrderItemsTable, OrderNotesTable,
     PaymentsTable, ShipmentsTable, ShipmentTrackingEventsTable, ReturnRequestsTable, ReturnNotesTable,
     ContactEnquiriesTable, StoreSettingsTable, AuthChallengesTable, PasswordResetTokensTable,
     WishlistsTable, RefundsTable, ReplacementsTable, MediaAssetsTable, NewsletterSubscribersTable,
     NotificationLogTable, ProductFeaturesTable, ProductReviewsTable, ProductContentBlocksTable,
     ProductSpecificationsTable, ProductFaqsTable, ProductMediaAssignmentsTable, OrderDocumentsTable,
     ReturnShipmentsTable, ReturnShipmentTrackingEventsTable, AnnouncementBarItemsTable,
     WelcomePopupsTable, CouponsTable, CouponProductsTable, CouponCategoriesTable,
     CouponRedemptionsTable, BreezeCheckoutSessionsTable, BreezeWebhookEventsTable,
     BreezeReconciliationAlertsTable, BreezeAdminActionsTable}
TableNames == {t.name : t \in BusinessTables}
=============================================================================
