SPECIFICATION FairSpec
CONSTANTS
    Senders = {peer}
    Rounds = 3
    Paced = TRUE
    SetupFaults = 2
    AcceptFaults = 2
    peer = peer
INVARIANTS TypeOK SenderMetReceiver
PROPERTIES ConnectedSenderReturns HandshakeCompletes FailedReceiverWaitsAgain
CHECK_DEADLOCK FALSE
