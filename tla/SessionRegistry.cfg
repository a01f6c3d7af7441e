\* Three clients, one on WebTransport and two on WebSocket, one pool slot.
CONSTANTS
    Conns = {c1, c2, c3}
    WebTransport = {c1}
    PoolSize = 1
SPECIFICATION FairSpec
INVARIANTS
    RegistryInv
    GaugeAgreesAtRest
    NothingLeftBehind
PROPERTIES
    ShutdownEndsWebTransport
    LifeSteps
    LifeProgress
\* A server whose connections have all ended does nothing more.
CHECK_DEADLOCK FALSE
