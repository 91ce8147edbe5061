SPECIFICATION PricingSpec
CONSTANTS
  socks = socks
  caps = caps
  box = box
  wear = wear
  Nothing = Nothing
  Line = {socks, caps, box}
  ProductOf <- MCProductOf
  BundleOf <- MCBundleOf
  CategoryOf <- MCCategoryOf
  Offer <- MCOffers
  Coupon <- MCCoupons
  Method <- MCMethods
  Price = {0, 3, 7}
  Quote = {}
  MaxQty = 2
INVARIANTS RewardIsCheapest AllocationsAddUp PaidBeforeFree ShownOfferExplains
