SPECIFICATION FairSpec
CONSTANTS
    HeaderSize = 2
    PacketSizes = {1}
    PingSize = 1
    BufferSize = 4
    SystemBuffer = 100
    SendPingAfter = 1
    DisconnectAfter = 4
    Punctual = TRUE
    MaxSent <- MCMaxSent
INVARIANTS
    TypeOK
    TimeoutIsSilence
PROPERTIES
    IsPacketQueue
    SilenceEndsConnection
CHECK_DEADLOCK FALSE
