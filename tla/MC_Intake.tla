------------------------------ MODULE MC_Intake -----------------------------
(* Small inputs for each reader.                                            *)
EXTENDS Intake, TLC

(* Every payload of at most five bytes behind a proper header, those of six *)
(* in which an option of one byte fits twice, and every one of at most two  *)
(* behind any header.  The options of four bytes (50, 51 and 54) are one    *)
(* option of two, 53 has its one byte.                                      *)
Proper == [long |-> TRUE, cookie |-> TRUE, op |-> 2, hlen |-> 6]

MCBytes == {0, 1, 2, 12, 50, 53, 255}

Bufs(n) == UNION {[1..k -> MCBytes] : k \in 0..n}

MCPayloads ==
    [header : {Proper}, buf : Bufs(5) \cup [1..6 -> {1, 2, 12, 53}]] \cup
    [header : [long : BOOLEAN, cookie : BOOLEAN, op : {1, 2, 3}, hlen : {6, 16}], buf : Bufs(2)]

MCSized == (50 :> 2) @@ (53 :> 1)

MCPlainPayload == [header |-> Proper, buf |-> <<>>]

(* Files for two devices and two addresses: every one of at most four lines *)
(* of ISC's format, times and comments included, of five if they all count; *)
(* of at most three lines of dnsmasq's; and mixtures.                       *)
Assigned(m, a)  == [type |-> "entry", mac |-> m, ip |-> a]
Lease(a)        == [type |-> "lease", ip |-> a]
HardwareOf(m)   == [type |-> "hardware", mac |-> m]
BindingState    == [type |-> "other"]
Time            == Assigned(Plain, NoIp)
Remark          == Assigned(Mangled, NoIp)
Closing         == [type |-> "close"]
Empty           == [type |-> "blank"]

CONSTANTS a1, a2, m1, m2

MCClients == {m1, m2}
MCIps     == {a1, a2}

CountingLines == {Lease(a1), Lease(a2), HardwareOf(m1), HardwareOf(m2), Closing}
IscLines      == CountingLines \cup {Lease(NoIp), HardwareOf(NoMac), BindingState, Time}
DnsmasqLines  == {Assigned(m1, a1), Assigned(m2, a2), Assigned(m1, a2),
                  Assigned(Mangled, a1), Time}

FilesOf(lines, n) == UNION {[1..k -> lines] : k \in 0..n}

MCFiles ==
    FilesOf(IscLines, 4) \cup [1..5 -> CountingLines] \cup FilesOf(DnsmasqLines, 3)
       \cup FilesOf({Empty, Closing, Lease(a1), HardwareOf(m1), Assigned(m1, a1),
                       Assigned(m2, a2), Remark}, 4)

(* A loopback, two ethernet interfaces and one without a hardware address.  *)
(* The first ethernet interface is up or down, with no address, one of the  *)
(* system's own, or one of the network; the second is up or not there.      *)
Card(n, isUp, lo, hw, nets) == [mac |-> hw, name |-> n, up |-> isUp, loopback |-> lo, v4 |-> nets]

CONSTANTS home, lab, auto

MCSubnets   == {home, lab, auto}
MCApipaNets == {auto}
MCNames     == 1..4

Loopback == Card(4, TRUE, TRUE, TRUE, <<lab>>)
Tunnel   == Card(3, TRUE, FALSE, FALSE, <<lab>>)

MCSystems ==
    {<<Loopback, Card(2, isUp, FALSE, TRUE, nets)>> \o rest \o <<Tunnel>> :
        isUp \in BOOLEAN,
        nets \in {<<>>, <<auto>>, <<home>>, <<auto, home>>},
        rest \in {<<>>, <<Card(1, TRUE, FALSE, TRUE, <<>>)>>, <<Card(1, TRUE, FALSE, TRUE, <<lab>>)>>}}

MCPlainSystem == CHOOSE sys \in MCSystems : TRUE

(* MACs of three digits, prefixes of one to four, one of them built in; the *)
(* file has at most three lines.                                            *)
Reg(p, v) == [prefix |-> p, vendor |-> v]

CONSTANTS vm, acme, other

MCDigits    == {0, 1}
MCAddresses == [1..3 -> MCDigits]
MCVendors   == {vm, acme, other}
MCOuis      == {<<0>>, <<0, 1>>, <<1, 0>>, <<1, 0, 1>>, <<1, 0, 1, 1>>}
MCBuiltin   == <<Reg(<<1, 0>>, vm)>>
MCOuiFiles  == UNION {[1..k -> {Reg(p, v) : p \in MCOuis, v \in {acme, other}}] : k \in 0..3}
=============================================================================
