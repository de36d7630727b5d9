SPECIFICATION FairSpec
CONSTANTS
    Features <- MCFeatures
    Tokens <- TwoTokens
    Accounts <- MCAccounts
    InitialRates <- TwoRates
    InitialLimits <- TwoLimits
    RateBatches <- MCRateBatches
    LimitChoices = {}
    Recipients = {"fees"}
    Self = "escrow"
    InitialBalance = 67
    Skim <- OneSkims
    DonationSizes = {}
    Blockable = {"sel"}
    Callers = {"passer"}
    Horizon = 5
    Sellers = {"sel"}
    Buyers = {"ann"}
    Users = {"sel"}
    Merchants = {"merchant"}
    Resolvers = {"judge"}
    Delegates <- BuyAdDelegates
    TradeIds = {1}
    Vouchers <- PoolAds
    SignedVouchers <- PoolSigned
    Amounts = {67}
    WindowChoices = {2}
    FEATURE_PLATFORM = "platform"
    FEATURE_GAS = "gas"
    PAYMENT_WINDOW = 1
    MIN_AUTO_RELEASE_WINDOW = 1
    MAX_AUTO_RELEASE_WINDOW = 2
    DISPUTE_BACKSTOP = 1
    MaxUint96 = 67
    LastOpen = 1
INVARIANTS TypeOK Solvent BuyAdsAreNeverArmed
PROPERTIES SettlementPaysInFull EndsAreJustified KeepersEndTrades
