SPECIFICATION Spec
CONSTANTS
    MaxFd = 2
    Sockets = {1, 2, 3}
    Messages = {hello}
    MaxQueue = 1
    Preparers = {owner}
    Receivers = {listener}
    Senders = {sender}
    Polite = TRUE
    owner = owner
    listener = listener
    sender = sender
    hello = hello
INVARIANTS TypeOK NoSocketLost StartedIsBound
PROPERTY ClosesOnlyItsSocket
CHECK_DEADLOCK FALSE
