SPECIFICATION Spec
CONSTANTS
    g1 = g1
    g2 = g2
    c1 = c1
    c2 = c2
    c3 = c3
    phone = phone
    tablet = tablet
    None = None
    Gateways <- TwoGateways
    Conns <- TwoConns
    GatewayOf <- Apart
    Devices <- OneDevice
    QueueCap = 2
    MaxLogins = 2
    MaxReaders = 1
    MaxFaults = 0
PROPERTY OfflineDeletesOwnKeys
CHECK_DEADLOCK FALSE
