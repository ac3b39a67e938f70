SPECIFICATION Spec
CONSTANTS
    MaxFrames = 3
    a = a
    b = b
    gw = gw
    us = us
    zero = zero
    home = home
    lab = lab
    web = web
    auto = auto
    Unspecified = Unspecified
    Unusable = Unusable
    NoIp = NoIp
    NoDhcp = NoDhcp
    NoFile = NoFile
    LocalMac = us
    Macs <- MCMacs
    NotHosts <- MCNotHosts
    Ips <- MCIps
    Private <- MCPrivate
    Apipa <- MCApipa
    Expected <- MCExpected
    FrameSet <- MCFrames
    LeaseFiles <- MCLeaseFiles
INVARIANTS
    NotAliveAndGone
CHECK_DEADLOCK FALSE
