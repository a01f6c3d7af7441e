\* Three subscribers that come and go, two publishers, channels that fill up.
CONSTANTS
    Channels = {c1, c2, c3}
    Publishers = {p1, p2}
    ChannelSize = 1
    MaxMessages = 1
SPECIFICATION Spec
SYMMETRY Symmetry
INVARIANTS
    ListHoldsOpenChannels
    UnracedPublishIsExact
\* Everybody may have unsubscribed, and everything have been published.
CHECK_DEADLOCK FALSE
