------------------------------ MODULE MCSession -----------------------------
EXTENDS Session, TLC

CONSTANTS g1, g2, c1, c2, c3, phone, tablet

OneGateway == {g1}
TwoGateways == {g1, g2}
TwoConns == {c1, c2}
ThreeConns == {c1, c2, c3}
OneDevice == {phone}
TwoDevices == {phone, tablet}

Together == [c \in Conns |-> g1]
Apart == [c \in Conns |-> IF c = c1 THEN g1 ELSE g2]

\* Where all connections are on one gateway
SessionSymmetry == Permutations(Devices) \cup Permutations(Conns)
=============================================================================
