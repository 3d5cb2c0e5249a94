SPECIFICATION BothSpec
CONSTANTS
    None = None
    Candles <- MarketCandles
    Never = 1000
    CooloffBars = 1
    MaxSetupBars = 2
    MaxBarsInTrade = 4
    MaxLossPct = 8
    StopLossMult = 2
    TakeProfitMult = 2
    TrailingMult = 1
    TrailingActivationMult = 1
    MinRefMoveMult = 2
    ConfirmBars = 2
    MinExpansion = 2
    ReverseSignal = FALSE
    TradeMode = "FLIP"
    ExitOnRegimeFlip = TRUE
    Horizon = 9
    MaxEvaluations = 3
INVARIANTS TypeOK StateConsistent SetupNotStale ExtremesBracket RiskLimits RestartChangesNothing
PROPERTIES CooloffRespected
CHECK_DEADLOCK FALSE
