SPECIFICATION FairSpec
CONSTANTS
    Movies = {m1, m2}
    NoMovie = NoMovie
    Cells = {c1}
    MaxRows = 2
    MaxFetches = 3
    MaxScreens = 2
    MaxLookups = 2
INVARIANT TypeOK
INVARIANT RowsExist
 
INVARIANT DetailIsTapped
INVARIANT PageIsOfScreen
 
CHECK_DEADLOCK FALSE
