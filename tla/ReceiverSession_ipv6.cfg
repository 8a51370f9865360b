CONSTANTS
    Senders <- SendersIPv6
    MaxSessions = 2
    MaxPackets = 3
SPECIFICATION Spec
INVARIANT OneSessionPerSource
