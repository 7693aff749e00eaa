CONSTANTS
    Handles = {1}
    Unknown = 2
    Self <- MCSelf
    Peers <- MCPeers
    Receives <- MCReceives
    Tags = {1}
    AnyJob = 98
    AnyRank = 99
    Members <- MCMembers
    MaxMessages = 2
    MaxReceives = 2
    MaxSends = 0
SPECIFICATION ServicesSpec
INVARIANTS ExchangesHold MatchingHolds InterfacesHold ContactHolds
PROPERTIES ExchangeCompletes ServedOrHeld
CHECK_DEADLOCK FALSE
