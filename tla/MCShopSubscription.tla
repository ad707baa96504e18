------------------------- MODULE MCShopSubscription -------------------------
EXTENDS ShopSubscription
CONSTANTS h1, h2
=============================================================================
