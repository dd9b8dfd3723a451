CONSTANTS
    Items = {a, b, c}
    Size = 4
    Word = 8
    MaxWrites = 10
    Raw = Raw
    NoItem = NoItem
SPECIFICATION FairSpec
INVARIANTS TypeOK NoSlotRace NothingLeaks SizeGuessIsBound
PROPERTIES ImplementsBoundedQueue AllArrive
CHECK_DEADLOCK FALSE
