SPECIFICATION Spec
CONSTANTS
    MaxFrames = 4
    a = a
    b = b
    gw = gw
    us = us
    zero = zero
    home = home
    lab = lab
    web = web
    auto = auto
    Unspecified = Unspecified
    Unusable = Unusable
    NoIp = NoIp
    NoDhcp = NoDhcp
    NoFile = NoFile
    LocalMac = us
    Macs <- MCMacs
    NotHosts <- MCNotHosts
    Ips <- MCIps
    Private <- MCPrivate
    Apipa <- MCApipa
    Expected <- MCExpected
    FrameSet <- MCFrames
    LeaseFiles <- MCLeaseFiles
INVARIANTS
    OwnedIsClaimed
    LeaseIsLastWord
    DuplicatesMutual
    L2OnlyIsSilent
    RouterNotAccused
CHECK_DEADLOCK FALSE
