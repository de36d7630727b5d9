SPECIFICATION FairSpec
CONSTANTS
    Features <- MCFeatures
    Tokens <- MCTokens
    Accounts <- MCAccounts
    InitialRates <- MCInitialRates
    InitialLimits <- MCInitialLimits
    RateBatches <- MCRateBatches
    LimitChoices <- MCLimitChoices
    Recipients = {"fees"}
    Self = "escrow"
    InitialBalance = 80
    Skim <- MCNoSkim
    DonationSizes = {60}
    Blockable = {"bob"}
    Callers <- MCCallers
    Horizon = 5
    Buyers = {"ann","bob"}
    Sellers = {"shop","bob"}
    Resolvers = {"judge"}
    OrderIds = {1}
    ProductAmounts = {34, 67}
    ShippingAmounts = {10}
    HandlingChoices = {0, 1}
    FlatCaps = {1}
    Splits = {9, 44}
    FEATURE = "order"
    Day = 1
    CONFIRM_WINDOW = 1
    DISPUTE_BACKSTOP = 1
    MIN_HANDLING_DAYS = 1
    MAX_HANDLING_DAYS = 1
    MaxUint96 = 1
    LastOpen = 1
INVARIANTS TypeOK OwedIsExact EndsAreJustified ExitsPayable Solvent
PROPERTIES SettlementPaysInFull SurplusKept EachOrderIsALife EveryOrderEnds
