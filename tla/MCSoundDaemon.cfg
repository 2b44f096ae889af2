SPECIFICATION FairSpec
CONSTANTS
    Sounds = {"ets", "tdm"}
    Nil = Nil
    MaxWrites = 6
INVARIANTS DrainerWaits
PROPERTIES DropIsRepetition ListDrains
