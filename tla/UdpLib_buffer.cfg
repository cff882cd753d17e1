SPECIFICATION Spec
CONSTANTS
    MaxFd = 1
    Sockets = {1, 2, 3}
    Messages = {hello}
    MaxQueue = 1
    Preparers = {owner}
    Receivers = {listener}
    Senders = {sender}
    Polite = TRUE
    owner = owner
    listener = listener
    sender = sender
    hello = hello
PROPERTY CallbackGetsDatagram
CHECK_DEADLOCK FALSE
