\* One thread, the one given its destination, and one restart of the
\* receiver; the receiver may share the client's host or have its own.
CONSTANTS
    NThreads = 1
    ClientHost = ClientHost
    ServerHost = ServerHost
    MaxRestarts = 1
SPECIFICATION Spec
INVARIANT ServesAnnouncedFile
\* The processes really block for ever in recvfrom, accept and pthread_join.
CHECK_DEADLOCK FALSE
