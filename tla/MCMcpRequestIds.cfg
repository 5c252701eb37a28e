SPECIFICATION MCSpec
CONSTANTS
    c1 = c1
    c2 = c2
    c3 = c3
    first = first
    second = second
    third = third
    p1 = p1
    p2 = p2
    p3 = p3
    id1 = id1
    id1s = id1s
    id2 = id2
    host1 = host1
    read = read
    write = write
    h1 = h1
    h2 = h2
    NoCall = NoCall
    NoRow = NoRow
    NoKey = NoKey
    NoTool = NoTool
    Calls <- AllCalls
    Keys <- AllKeys
    Hashes <- AllHashes
    Connections <- AllConnections
    Processes <- AllProcesses
    Ids <- AllIds
    Spelling <- Spellings
    HostKeys <- AllHostKeys
    Tools <- AllTools
    Required <- WriteIsGuarded
    Stalls <- NoStalls
    LateFaults = FALSE
INVARIANT ExecutedForItself
CHECK_DEADLOCK FALSE
