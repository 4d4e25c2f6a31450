SPECIFICATION FairSpec
CONSTANTS
    g1 = g1
    g2 = g2
    g3 = g3
    Guilds <- MCGuilds
    Events <- MCEvents
    IngressCapacity = 1
    SpillCapacity = 1
    QueueCapacity = 1
    OverflowCapacity = 1
    Permits = 2
    MaxSends = 3
    MaxWorkers = 3
    MaxPanics = 1
INVARIANTS TypeOK OneHandlerPerGuild NoSilentLoss DeadWorkerCostsOneEvent
PROPERTIES EveryEventHandled
CHECK_DEADLOCK FALSE
