\* The message path: two message goroutines, a push, one device of the peer.
SPECIFICATION Spec
CONSTANTS
    me = me
    d1 = d1
    self = self
    peer = peer
    u0 = u0
    u1 = u1
    a0 = a0
    i1 = i1
    i2 = i2
    MemberOf <- MCMemberOf
    DeviceOf <- MCDeviceOf
    DateOf <- MCDateOf
    Members = {self, peer}
    OwnDevice = me
    Creator = peer
    None = None
    TargetOf <- MCTargetOf
    Devices = {me, d1}
    UserMsgs = {u0, u1}
    AckMsgs = {a0}
    InfoMsgs = {}
    Workers = {live, replay}
    MaxSessions = 1
INVARIANTS TypeOK BacklogAttributed NoWaitingAck OpenMeansRead CountedOnce AckedOnce
PROPERTY SyncedRowsAreStable
