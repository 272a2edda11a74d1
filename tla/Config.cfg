CONSTANTS
    Symbols <- SomeSymbols
    Part <- Parts
    Start <- Starts
    BaseArgs <- Args
    UserExtras <- ShortExtras
    CustomExtras <- LongExtras
SPECIFICATION Spec
INVARIANTS TypeOK LayersWin CustomVersionWins ExtraArgsDecide
CHECK_DEADLOCK FALSE
