CONSTANTS
    Accounts <- TwoAccounts
    Ports <- TwoPorts
    Inventories <- TwoLists
    Slots <- FourSlots
    SchedulePeriod = 2
    Rotation = 2
    Stall = 1
    SlowWindow = 2
    Cooldown = 2
SPECIFICATION FairSpec
INVARIANTS TypeOK CooldownIsServed LinesAsScheduled
PROPERTIES MinimumRun SlotIsFilled
