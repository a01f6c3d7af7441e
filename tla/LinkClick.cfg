\* One click on a link that a component rendered.
CONSTANTS
    Routes <- Site
    NotFound = FALSE
    Urls <- Links
    MaxMoves = 1
    MaxLost = 0
SPECIFICATION Spec
INVARIANT LinksStayInDocument
CHECK_DEADLOCK FALSE
