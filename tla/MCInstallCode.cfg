SPECIFICATION IcSpec
CONSTANTS
    Self <- MCSelf
    Keys <- MCKeys
    Kinds <- SlipKinds
    Typos <- MCTypos
INVARIANTS
    OnlyThePrintedKey
    CopiedLinesPair
