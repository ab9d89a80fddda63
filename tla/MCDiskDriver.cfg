SPECIFICATION FairSpec
CONSTANTS
    sdhc = sdhc
    sdsc = sdsc
    Card = {sdhc, sdsc}
    NoCard = NoCard
    Kind <- MCKind
    Sectors = 3
    BlockLen = 2
    DWord = 6
    Value = {v1, v2}
    MaxCount = 2
INVARIANTS RightSector
PROPERTIES DeviceSpec CallReturns
