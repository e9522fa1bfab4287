SPECIFICATION Spec
CONSTANTS
    Player = {"ann", "ben"}
    Item = {"lamp"}
    Bed = {"bunk", "cot"}
    House = "house"
    Patience = 2
    Crashes = 1
    Kicks = 1
    Named = {"ben"}
    Themes <- HouseThemes
    None = None
    Trader = {"anna", "carl"}
    account <- OwnAccount
    Price = {1}
    Amount = {1, 2}
    Fee = 1
    MaxOffersEach = 2
    MaxOffers = 2
    MaxChecks = 1
    Start <- Belongings
    StartCoins = 1
INVARIANTS Conserved HousesSound
PROPERTIES GoodsKept OthersNeverTake ExpiredLeave PutOutAfterLetters
CHECK_DEADLOCK FALSE
