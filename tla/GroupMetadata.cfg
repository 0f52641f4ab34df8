\* The metadata path: two names of different dates, and
\* everything that can wait in the backlog of a device; listed twice.
SPECIFICATION FairSpec
CONSTANTS
    me = me
    d1 = d1
    self = self
    peer = peer
    u0 = u0
    u1 = u1
    a0 = a0
    i1 = i1
    i2 = i2
    MemberOf <- MCMemberOf
    DeviceOf <- MCDeviceOf
    DateOf <- MCDateOf
    Members = {self, peer}
    OwnDevice = me
    Creator = peer
    None = None
    TargetOf <- MCTargetOf
    Devices = {me, d1}
    UserMsgs = {u1}
    AckMsgs = {}
    InfoMsgs = {i1, i2}
    Workers = {live}
    MaxSessions = 1
INVARIANT NewestNameAfterReplay
 
