SPECIFICATION Spec
CONSTANTS
    MaxEvents = 2
    MaxScans = 2
    Unspecified = Unspecified
    Unusable = Unusable
    NoIp = NoIp
    NoDhcp = NoDhcp
    NoFilter = NoFilter
    Nobody = Nobody
    LocalMac = 1
    Macs <- MCMacs
    NotHosts = {}
    Ips <- MCIps
    Private <- MCPrivate
    Apipa <- MCApipa
    Events <- MCEvents
    LeaseFile <- MCLeaseFile
    Baseline <- MCBaseline
    Queries <- MCQueries
    Net24 <- MCNet24
PROPERTIES
    StaysKnown
