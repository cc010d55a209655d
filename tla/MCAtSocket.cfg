CONSTANTS
    u1 = u1
    Users = {u1}
    socket_num = 2
    MaxPkts = 2
    MaxEvents = 3
    MaxConn = 3
SPECIFICATION Spec
INVARIANTS
    StructureOK
    NoStuckReader
    LeftoversOnly
    PollMissesOnlyByRace
    ConnectedHasLink
