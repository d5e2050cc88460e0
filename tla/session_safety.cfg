SPECIFICATION Spec
CONSTANTS
    g1 = g1
    g2 = g2
    c1 = c1
    c2 = c2
    c3 = c3
    phone = phone
    tablet = tablet
    None = None
    Gateways <- OneGateway
    Conns <- TwoConns
    GatewayOf <- Together
    Devices <- TwoDevices
    QueueCap = 1
    MaxLogins = 3
    MaxReaders = 0
    MaxFaults = 0
SYMMETRY SessionSymmetry
INVARIANTS IndexIsSound
CHECK_DEADLOCK FALSE
