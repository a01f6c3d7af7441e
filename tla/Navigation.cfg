\* Links, back and forward, page loads and a reconnection while navigations
\* and frames are on the way, dropped, lost and overtaken.
CONSTANTS
    Routes <- Site
    NotFound = FALSE
    Urls <- Links
    MaxMoves = 3
    MaxLost = 1
SPECIFICATION FairSpec
INVARIANTS
    PageShowsRoute
    QueryIsNotAnothers
PROPERTY AddressReached
\* The user may stop.
CHECK_DEADLOCK FALSE
