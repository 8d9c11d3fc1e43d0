\* Every client, with and without authentication; the target may refuse.
CONSTANTS
    Clients <- SomeClients
    Expected <- SomeExpected
    ReplyCodes = {0, 5}
SPECIFICATION FairSpec
INVARIANTS Aligned DestinationKept ParsersAgree RightVerdict
PROPERTY HandshakeCompletes
\* A handshake ends for good.
CHECK_DEADLOCK FALSE
