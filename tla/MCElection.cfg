SPECIFICATION FairSpec
\* everyone is done, or waits for one that has failed
CHECK_DEADLOCK FALSE
CONSTANTS
    Connectors = {1, 2, 3, 4}
    Channels <- MCChannels
    Endpoints <- MCEndpoints
    Owner <- MCOwner
    Peer <- MCPeer
    Index <- MCIndex
    NoEndpoint = NoEndpoint
    Sessions <- MCSessions
INVARIANTS
    GreatestLeads
    ConsensusTree
    NoMisbehavior
    CommMsgsKept
PROPERTIES
    EveryoneConnects
