CONSTANTS
    Senders <- SendersIPv4
    MaxSessions = 2
    MaxPackets = 6
SPECIFICATION Spec
INVARIANTS
    ExitStatusPerSpec ThreadsNeverOutliveReceiver
    RoutedToOwnSession OneSessionPerSource
PROPERTIES ShutdownCompletes
