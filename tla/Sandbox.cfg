SPECIFICATION Spec
CONSTANTS
    api = api
    worker = worker
    viewer = viewer
    agent = agent
    Process <- MCProcess
    Client <- MCClient
    Home <- MCHome
    Stopping = {api}
    Releasing = {worker}
    IdleTicks = 1
    MaxGen = 2
    MaxFaults = 1
INVARIANTS TypeOK QuiescedIsEmpty
CHECK_DEADLOCK FALSE
