SPECIFICATION Spec
CONSTANTS
    Features <- MCFeatures
    Tokens <- MCTokens
    Accounts <- MCAccounts
    InitialRates <- MCInitialRates
    InitialLimits <- MCInitialLimits
    RateBatches = {}
    LimitChoices <- MCLimitChoices
    Recipients = {"fees"}
    Self = "escrow"
    InitialBalance = 101
    Skim <- MCNoSkim
    DonationSizes = {67}
    Blockable = {}
    Callers = {"passer"}
    Horizon = 4
    Sellers = {"sel"}
    Buyers = {"ann", "bob"}
    Users = {}
    Merchants = {}
    Resolvers = {"judge"}
    Delegates = {}
    TradeIds = {1}
    Vouchers <- AllAds
    SignedVouchers <- RealAds
    Amounts = {50}
    WindowChoices = {}
    FEATURE_PLATFORM = "platform"
    FEATURE_GAS = "gas"
    PAYMENT_WINDOW = 1
    MIN_AUTO_RELEASE_WINDOW = 1
    MAX_AUTO_RELEASE_WINDOW = 1
    DISPUTE_BACKSTOP = 1
    MaxUint96 = 67
    LastOpen = 2
INVARIANTS OwedIsExact LockedIsExact FilledIsExact

