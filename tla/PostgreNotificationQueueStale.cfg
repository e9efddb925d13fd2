\* The end of an old callback forgets the queue of the new listener.
CONSTANTS
    k1 = k1
    k2 = k2
    k3 = k3
    q1 = q1
    q2 = q2
    q3 = q3
    Clients <- MCClients
    Queues <- MCQueues
    None = None
    MaxQueue = 2
SPECIFICATION Spec
INVARIANTS
    SerialAndBounded
