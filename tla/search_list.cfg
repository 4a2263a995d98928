SPECIFICATION FairSpec
CONSTANTS
    MaxEdits = 4
    MaxPage = 2
INVARIANT TypeOK
INVARIANT RowsCovered
INVARIANT WholeReplies
INVARIANT FreshList
INVARIANT PlaceholderGone
PROPERTY TableSettles
CHECK_DEADLOCK FALSE
