\* NUM_THREADS scaled to 3: thread 0 is the one given its destination,
\* thread 1's ports collide with the receiver's when both share a host,
\* thread 2 is any other thread.
CONSTANTS
    NThreads = 3
    ClientHost = ClientHost
    ServerHost = ServerHost
    MaxRestarts = 0
SPECIFICATION Spec
PROPERTY ClientTerminates
\* The processes really block for ever in recvfrom, accept and pthread_join.
CHECK_DEADLOCK FALSE
