SPECIFICATION FairSpec
CONSTANTS
    api = api
    worker = worker
    viewer = viewer
    agent = agent
    Process <- MCProcess
    Client <- MCClient
    Home <- MCHome
    Stopping = {}
    Releasing = {worker}
    IdleTicks = 1
    MaxGen = 2
    MaxFaults = 0
CHECK_DEADLOCK FALSE
PROPERTIES CallsReturn CleanupConverges
