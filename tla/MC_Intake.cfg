SPECIFICATION Spec
CONSTANTS
    Hostname = 12
    Unset = Unset
    Bytes <- MCBytes
    Payloads <- MCPayloads
    Sized <- MCSized
    PlainPayload <- MCPlainPayload
    a1 = a1
    a2 = a2
    m1 = m1
    m2 = m2
    Unspecified = Unspecified
    Unusable = Unusable
    NoIp = NoIp
    NoDhcp = NoDhcp
    NoMac = NoMac
    Mangled = Mangled
    Plain = Plain
    LocalMac = m1
    NotHosts = {}
    Macs <- MCClients
    Ips <- MCIps
    Files <- MCFiles
    home = home
    lab = lab
    auto = auto
    None = None
    Fronts = {"cli", "tui"}
    Names <- MCNames
    Subnets <- MCSubnets
    ApipaNets <- MCApipaNets
    Systems <- MCSystems
    PlainSystem <- MCPlainSystem
    MacDigits = 3
    vm = vm
    acme = acme
    other = other
    NoVendor = NoVendor
    Digits <- MCDigits
    Addresses <- MCAddresses
    Ouis <- MCOuis
    Vendors <- MCVendors
    Builtin <- MCBuiltin
    OuiFiles <- MCOuiFiles
INVARIANTS
    InBounds
    ResultIsMeant
    LeasesAsWritten
    ScanAsAsked
    LongestNames
PROPERTIES
    ParserEnds
