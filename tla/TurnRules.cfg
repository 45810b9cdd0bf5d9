SPECIFICATION MCSpec
CONSTANTS
    Places <- MCPlaces
    Npcs = {"n1", "n2"}
    MaxHp = 3
    Blows = {1, 3}
    Items = {"i1"}
    BasePrice <- MCBasePrice
    BuyModifier <- MCBuyModifier
    SellModifier <- MCSellModifier
    Bands = {"neutral", "trusted"}
    QuestIds = {"q1", "q2"}
    Stages = {"s1", "s2"}
    FirstStage = "s1"
    Objectives = {"o"}
    NoTarget = "-"
    Exits <- MCExits
    Start = "inn"
    Facts = {"clue", "mark"}
    Clues <- MCClues
    Mark = "mark"
    LockAt = "vault"
    Triggers <- MCTriggers
    Consequences = {"c1", "c2"}
    Due <- MCDue
    Effects <- MCEffects
    Schedule <- MCSchedule
    Coins = 10
    Shop <- MCShop
    Merchants = {"n1", "n2"}
    MaxClock = 2
INVARIANTS
    TypeOK
    LifeConsistent
    TriggersHeard
    ConsequencesOnce
    OneHolder
PROPERTIES
    NoWayBack
    QuestsInOrder
    MoneyNeedsMargin
CHECK_DEADLOCK FALSE
