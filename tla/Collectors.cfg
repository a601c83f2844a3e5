SPECIFICATION FairSpec
CONSTANTS
    r1 = r1
    r2 = r2
    Receivers = {r1, r2}
    RingLimit = 1
    BatchSize = 2
    QueueMax = 1
    MaxInputs = 2
    MaxStops = 2
    Transports = {"UDP", "TCP", "TLS"}
    RecvMax = 4
    MaxBeats = 1
    Priority <- MCPriority
    Versions <- MCVersions
    KeyOf <- MCKeyOf
    Datagrams <- MCDatagrams
    TcpLines <- MCTcpLines
    Packets <- MCPackets
    LayoutSize <- MCLayoutSize
    XmlTexts <- MCXmlTexts
    EmptyXml = EmptyXml
    NoText = NoText
    NotANumber = NotANumber
    SysmonChannel = SysmonChannel
    EndpointEvents = {"DnsQuery", "ImageLoad"}
    Kinds = {"syslog", "netflow", "winlog", "agent"}
    Meant <- MCMeant
INVARIANTS
    MessagesConserved
    EventsConserved
    FramingExact
    EventsFaithful
    RecordsOwnLayout
PROPERTIES
    StopReturns
    QuietWhenIdle
