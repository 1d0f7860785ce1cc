--------------------------- MODULE MigrationPlan ----------------------------
(***************************************************************************)
(* The migrations, in the order of their names: the statements each runs   *)
(* and the ones its rollback runs.  A statement is atomic; it adds parts   *)
(* to a table, or takes them away, in one of these ways:                   *)
(*   adds       the parts, none of which may be there                      *)
(*   probes     adds the parts unless they are all there                   *)
(*   leaves     the same, but the migration ends there if they are         *)
(*   restates   an enumeration or a row, whatever it was                   *)
(*   drops      the parts, all of which must be there                      *)
(*   clears     the parts that are there                                   *)
(* Before it, the migration may throw for rows that the new schema cannot  *)
(* hold.                                                                   *)
(***************************************************************************)
EXTENDS Schema, SequencesExt

LOCAL Statement(how, table, adds, takes) ==
    [how |-> how, table |-> table, adds |-> adds, takes |-> takes, refers |-> {}, throws |-> FALSE]
LOCAL Adds(table, parts) == Statement("adds", table, parts, {})
LOCAL Probes(table, parts) == Statement("probes", table, parts, {})
LOCAL Leaves(table, parts) == Statement("leaves", table, parts, {})
LOCAL Restates(table, parts, without) == Statement("restates", table, parts, without)
LOCAL Drops(table, parts) == Statement("drops", table, {}, parts)
LOCAL Clears(table, parts) == Statement("clears", table, {}, parts)
LOCAL Refers(statement, tables) == [statement EXCEPT !.refers = tables]
LOCAL OrThrows(statement) == [statement EXCEPT !.throws = TRUE]

LOCAL Migration(up, down) == [up |-> up, down |-> down]

CreateInitialSchemaTable(table) ==
    Refers(Adds(table.name, {"table"} \cup table.holds), {r[1] : r \in table.refers})
DropInitialSchemaTable(table) == Clears(table.name, {"table"} \cup table.holds)
CreateTable(table) == Migration(<<CreateInitialSchemaTable(table)>>, <<DropInitialSchemaTable(table)>>)
CreateNumberedTable(table) ==
    Migration(<<CreateInitialSchemaTable(table), Restates("id_sequences", {table.name}, {})>>,
               <<Clears("id_sequences", {table.name}), DropInitialSchemaTable(table)>>)

\* 014: replacements does not exist yet, so the key to it waits for 039.
CreateShipments ==
    CreateTable([ShipmentsTable EXCEPT !.refers = {r \in @ : r[1] # "replacements"},
                                       !.holds = @ \ {"fk_shipments_replacement_id"}])

AddSuperAdminRole ==
    Migration(<<Restates("users", {"role super_admin"}, {})>>, <<OrThrows(Clears("users", {"role super_admin"}))>>)

CreateIdSequences ==
    Migration(<<Probes("id_sequences", {"table"}), Restates("id_sequences", TableNames, {})>>,
               <<Clears("id_sequences", {"table"} \cup TableNames)>>)
\* MODIFY of every table's id; only a database as old as users' first CREATE has another.
RemoveAutoIncrement ==
    Migration(<<Restates("users", {"id not numbered by MySQL"}, {})>>,
               <<Clears("users", {"id not numbered by MySQL"})>>)
AddShippingDimensionsToProducts ==
    Migration(<<Probes("products", Measures), Probes("product_variants", Measures)>>,
               <<Drops("products", Measures), Drops("product_variants", Measures)>>)
CreateCatalogSkuReservations ==
    Migration(<<Adds("catalog_sku_reservations", {"table"}), OrThrows(Adds("catalog_sku_reservations", {"SKUs in use"}))>>,
               <<Clears("catalog_sku_reservations", {"table", "SKUs in use"})>>)
AllowZeroProductPriceCache ==
    Migration(<<Probes("products", {"price may be zero"})>>, <<Drops("products", {"price may be zero"})>>)
AddCoordinates ==
    Migration(<<Probes("addresses", {"coordinates"}), Probes("orders", {"coordinates"})>>,
               <<Drops("orders", {"coordinates"}), Drops("addresses", {"coordinates"})>>)
AllowGuestOrders ==
    Migration(<<Probes("orders", {"user_id may be null"})>>, <<OrThrows(Clears("orders", {"user_id may be null"}))>>)
AddGuestOrderAccess ==
    Migration(<<Probes("orders", {"guest access"})>>, <<OrThrows(Drops("orders", {"guest access"}))>>)
AddOrderContactEmail ==
    Migration(<<Adds("orders", {"contact_email"})>>, <<Drops("orders", {"contact_email"})>>)
\* On a database made by the current CREATE this narrows the enumeration until 037.
AddPaymentCancelledStatus ==
    Migration(<<Restates("payments", {"status cancelled"}, {"status partially_refunded"})>>,
              <<OrThrows(Clears("payments", {"status cancelled", "status partially_refunded"}))>>)
AddOrderCartId == Migration(<<Probes("orders", {"cart_id"})>>, <<Drops("orders", {"cart_id"})>>)
AddOrderCommerceException ==
    Migration(<<Probes("orders", {"commerce_exception"})>>, <<OrThrows(Drops("orders", {"commerce_exception"}))>>)
\* The column, what it is for existing rows, and only then that it must be given.
AddReturnRequestQuantity ==
    Migration(<<Leaves("return_requests", {"quantity"}), Restates("return_requests", {}, {}),
                 Adds("return_requests", {"quantity required"})>>,
               <<Drops("return_requests", {"quantity", "quantity required"})>>)
AddPartiallyRefundedStatus ==
    Migration(<<Restates("payments", {"status cancelled", "status partially_refunded"}, {}),
                Restates("orders", {"payment_status partially_refunded"}, {})>>,
              <<OrThrows(Clears("payments", {"status partially_refunded"})),
                Clears("orders", {"payment_status partially_refunded"})>>)
UpgradeShipmentsForIthink ==
    Migration(<<OrThrows(Probes("shipments", {"provider columns"})),
                 Refers(Probes("shipments", {"fk_shipments_replacement_id"}), {"replacements"})>>,
               <<Drops("shipments", {"fk_shipments_replacement_id"}), Drops("shipments", {"provider columns"})>>)
AddReturnItemReceived ==
    Migration(<<Probes("return_requests", {"item_received_at"})>>, <<Drops("return_requests", {"item_received_at"})>>)
AddMediaAssetIdToProductImages ==
    Migration(<<Probes("product_images", {"media_asset_id"}),
                 Refers(Probes("product_images", {"fk_product_images_media_asset_id"}), {"media_assets"})>>,
               <<Drops("product_images", {"media_asset_id", "fk_product_images_media_asset_id"})>>)
AddBrandToProducts == Migration(<<Probes("products", {"brand"})>>, <<Drops("products", {"brand"})>>)
AddShowOnHomepageToCategories ==
    Migration(<<Probes("categories", {"show_on_homepage"})>>, <<Drops("categories", {"show_on_homepage"})>>)
AddOrderNumberToContactEnquiries ==
    Migration(<<Probes("contact_enquiries", {"order_number"})>>, <<Drops("contact_enquiries", {"order_number"})>>)
AddMediaTypeToMediaAssets ==
    Migration(<<Probes("media_assets", {"media_type"})>>, <<Drops("media_assets", {"media_type"})>>)
AddUsageCareSafetyToProducts ==
    Migration(<<Probes("products", {"how_to_use"})>>, <<Drops("products", {"how_to_use"})>>)
AddReviewSourceToProductReviews ==
    Migration(<<Probes("product_reviews", {"review_source"})>>, <<Drops("product_reviews", {"review_source"})>>)
\* On a database made by the current CREATE, 057 and 062 narrow the enumeration until 066.
AddShipmentNotificationEvents ==
    Migration(<<Restates("notification_log", {"shipment events"}, {"return shipment events", "admin events"})>>,
              <<OrThrows(Clears("notification_log", {"shipment events", "return shipment events", "admin events"}))>>)
AddShipmentEtaFields ==
    Migration(<<Probes("shipments", {"delivery_tat"})>>, <<Drops("shipments", {"delivery_tat"})>>)
AddReturnShipmentNotificationEvents ==
    Migration(<<Restates("notification_log", {"shipment events", "return shipment events"}, {"admin events"}),
                Restates("notification_log", {"return shipments"}, {})>>,
              <<OrThrows(Clears("notification_log", {"return shipments"})),
                Clears("notification_log", {"return shipment events", "admin events"})>>)
AddReturnCancellation ==
    Migration(<<Probes("return_requests", {"cancelled_at", "status cancelled"})>>,
              <<OrThrows(Clears("return_requests", {"cancelled_at", "status cancelled"}))>>)
AddReturnPickupAddressSnapshot ==
    Migration(<<Probes("return_requests", {"pickup address"})>>, <<Drops("return_requests", {"pickup address"})>>)
AddReviewDateToProductReviews ==
    Migration(<<Probes("product_reviews", {"review_date"})>>, <<Drops("product_reviews", {"review_date"})>>)
AddAdminNotificationEvents ==
    Migration(<<Restates("notification_log", {"shipment events", "return shipment events", "admin events"}, {})>>,
              <<OrThrows(Clears("notification_log", {"admin events"}))>>)
AddProductDisplayOrder ==
    Migration(<<Probes("products", {"display_order"})>>, <<Drops("products", {"display_order"})>>)
\* Rows only, in one transaction; the rollbacks of 068 and 070 do nothing.
NormalizeWebsiteProductOrder == Migration(<<Restates("products", {}, {})>>, <<>>)
MigrateOrderNumbersToMpm == Migration(<<Restates("id_sequences", {"order_numbers"}, {})>>, <<>>)
AddLinkLabelToAnnouncementBarItems ==
    Migration(<<Probes("announcement_bar_items", {"link_label"})>>, <<Drops("announcement_bar_items", {"link_label"})>>)
AddWelcomePopupCtaAndTiming ==
    Migration(<<Probes("welcome_popups", {"cta_mode"}), Probes("welcome_popups", {"display_delay_ms"}),
                Probes("welcome_popups", {"dismissal_cooldown_days"})>>,
              <<Clears("welcome_popups", {"dismissal_cooldown_days"}), Clears("welcome_popups", {"display_delay_ms"}),
                Clears("welcome_popups", {"cta_mode"})>>)
AddCouponToCarts ==
    Migration(<<Probes("carts", {"coupon_id"}), Refers(Probes("carts", {"fk_carts_coupon_id"}), {"coupons"})>>,
              <<Drops("carts", {"coupon_id", "fk_carts_coupon_id"})>>)
AddCouponToOrders ==
    Migration(<<Probes("orders", {"coupon_id"}), Refers(Probes("orders", {"fk_orders_coupon_id"}), {"coupons"})>>,
              <<Drops("orders", {"coupon_id", "fk_orders_coupon_id"})>>)
AddDiscountAllocationToOrderItems ==
    Migration(<<Probes("order_items", {"discount_allocated_paise"})>>,
              <<Drops("order_items", {"discount_allocated_paise"})>>)
AddCouponToWelcomePopups ==
    Migration(<<Refers(Probes("welcome_popups", {"coupon_id"}), {"coupons"})>>, <<Drops("welcome_popups", {"coupon_id"})>>)
AddPaymentMethodEligibilityToCoupons ==
    Migration(<<Probes("coupons", {"payment_method_eligibility"})>>, <<Drops("coupons", {"payment_method_eligibility"})>>)
EligibilityProbedOnce == \* mutant: the first table's column stands for both tables
    Migration(<<Leaves("products", {"payment_method_eligibility"}), Probes("order_items", {"eligibility snapshot"})>>,
              <<Drops("order_items", {"eligibility snapshot"}), Drops("products", {"payment_method_eligibility"})>>)
AddPaymentMethodEligibilityToProducts ==
    Migration(<<Probes("products", {"payment_method_eligibility"}), Probes("order_items", {"eligibility snapshot"})>>,
              <<Drops("order_items", {"eligibility snapshot"}), Drops("products", {"payment_method_eligibility"})>>)
AddOnlinePaymentDiscountToOrders ==
    Migration(<<Probes("orders", {"online payment discount"}), Probes("order_items", {"online payment discount"})>>,
              <<Drops("order_items", {"online payment discount"}), Drops("orders", {"online payment discount"})>>)
AddBridgeColumnsToBreezeCheckoutSessions ==
    Migration(<<Refers(Probes("breeze_checkout_sessions", {"order_intent"}), {"payments"})>>,
              <<Clears("breeze_checkout_sessions", {"order_intent"})>>)
\* The rollback first moves rows from "released" to a value the older enumeration holds.
AddReleasedStatusToBreezeCheckoutSessions ==
    Migration(<<Probes("breeze_checkout_sessions", {"processing_status released"})>>,
              <<Clears("breeze_checkout_sessions", {"processing_status released"})>>)

MigrationFileNames ==
    <<CreateTable(UsersTable), CreateTable(AuthSessionsTable), CreateTable(AddressesTable),
      CreateTable(CategoriesTable), CreateTable(ProductsTable), CreateTable(ProductVariantsTable),
      CreateTable(ProductImagesTable), CreateTable(CartsTable), CreateTable(CartItemsTable),
      CreateTable(OrdersTable), CreateTable(OrderItemsTable), CreateTable(OrderNotesTable),
      CreateTable(PaymentsTable), CreateShipments, CreateTable(ReturnRequestsTable),
      CreateTable(ReturnNotesTable), CreateTable(ContactEnquiriesTable), CreateTable(StoreSettingsTable),
      AddSuperAdminRole, CreateTable(AuthChallengesTable), CreateTable(PasswordResetTokensTable),
      CreateIdSequences, RemoveAutoIncrement, AddShippingDimensionsToProducts, CreateCatalogSkuReservations,
      AllowZeroProductPriceCache, CreateNumberedTable(WishlistsTable), AddCoordinates, AllowGuestOrders,
      AddGuestOrderAccess, AddOrderContactEmail, AddPaymentCancelledStatus, AddOrderCartId,
      AddOrderCommerceException, CreateNumberedTable(RefundsTable), AddReturnRequestQuantity,
      AddPartiallyRefundedStatus, CreateNumberedTable(ReplacementsTable), UpgradeShipmentsForIthink,
      CreateNumberedTable(ShipmentTrackingEventsTable), AddReturnItemReceived,
      CreateNumberedTable(MediaAssetsTable), AddMediaAssetIdToProductImages, AddBrandToProducts,
      CreateNumberedTable(NewsletterSubscribersTable), CreateNumberedTable(NotificationLogTable),
      AddShowOnHomepageToCategories, AddOrderNumberToContactEnquiries, CreateNumberedTable(ProductFeaturesTable),
      AddMediaTypeToMediaAssets, CreateNumberedTable(ProductMediaAssignmentsTable),
      CreateNumberedTable(ProductSpecificationsTable), AddUsageCareSafetyToProducts,
      CreateNumberedTable(ProductContentBlocksTable), CreateNumberedTable(ProductReviewsTable),
      CreateNumberedTable(ProductFaqsTable), AddReviewSourceToProductReviews, AddShipmentNotificationEvents,
      AddShipmentEtaFields, CreateNumberedTable(OrderDocumentsTable), CreateNumberedTable(ReturnShipmentsTable),
      CreateNumberedTable(ReturnShipmentTrackingEventsTable), AddReturnShipmentNotificationEvents,
      AddReturnCancellation, AddReturnPickupAddressSnapshot, AddReviewDateToProductReviews,
      AddAdminNotificationEvents, AddProductDisplayOrder, NormalizeWebsiteProductOrder,
      CreateNumberedTable(AnnouncementBarItemsTable), MigrateOrderNumbersToMpm,
      AddLinkLabelToAnnouncementBarItems, CreateNumberedTable(WelcomePopupsTable), AddWelcomePopupCtaAndTiming,
      CreateNumberedTable(CouponsTable), CreateNumberedTable(CouponProductsTable),
      CreateNumberedTable(CouponCategoriesTable), CreateNumberedTable(CouponRedemptionsTable),
      AddCouponToCarts, AddCouponToOrders, AddDiscountAllocationToOrderItems, AddCouponToWelcomePopups,
      AddPaymentMethodEligibilityToCoupons, AddPaymentMethodEligibilityToProducts,
      AddOnlinePaymentDiscountToOrders, CreateNumberedTable(BreezeCheckoutSessionsTable),
      CreateNumberedTable(BreezeWebhookEventsTable), AddBridgeColumnsToBreezeCheckoutSessions,
      AddReleasedStatusToBreezeCheckoutSessions, CreateNumberedTable(BreezeReconciliationAlertsTable),
      CreateNumberedTable(BreezeAdminActionsTable)>>

\* What each release left behind: its CREATEs made bare tables, and its sequences
\* were those of its tables.  The n-th has the first n - 1 migrations.
NoTables == [t \in TableNames \cup {"id_sequences", "catalog_sku_reservations"} |-> {}]
LeftByRelease ==
    LET Left(parts, s) ==
            CASE s.table = "id_sequences" ->
                    s.adds \cap ({t \in DOMAIN parts : "table" \in parts[t]} \cup {"table", "order_numbers"})
              [] s.table # "id_sequences" /\ "table" \in s.adds -> {"table"}
              [] OTHER -> s.adds
        After(parts, s) == [parts EXCEPT ![s.table] = @ \cup Left(parts, s)]
    IN FoldLeft(LAMBDA releases, m : Append(releases, FoldLeft(After, Last(releases), m.up)),
                <<NoTables>>, MigrationFileNames)
=============================================================================
