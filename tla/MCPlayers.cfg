SPECIFICATION Spec
CONSTANTS
    horse = horse  bear = bear
    grass = grass  pool = pool  puddle = puddle  fire = fire  flames = flames
    rat = rat  hero = hero  guest = guest
    ann = ann  ben = ben  cid = cid  bag = bag  pouch = pouch  coin = coin
    Offer <- Offers
    Families <- SomeFamilies
    Slot = {"boots", "ring"}
    Mount = {horse, bear}
    MountSpeed <- Speeds
    DefaultDrunk = 2
    Beast = beast
    None = None
    Nil = Nil
    Player = {ann, ben, cid}
    Access = {ann}
    account <- Accounts
    Normal = {"help"}
    Private = {"100", "101"}
    Address = {"p1", "p2"}
    Guild = {"knights", "rankless"}
    Rankless = {"rankless"}
    Limits = {1, 2}
    Themes <- CompanyThemes
    Null = Null
INVARIANTS ConditionsSound CompanySound ScreensSound
CHECK_DEADLOCK FALSE
