---------------------------- MODULE DhcpOptions -----------------------------
(***************************************************************************)
(* The parser of a DHCP payload (dhcp.rs, parse): the checks of the BOOTP  *)
(* header, then the iterator over the options, one option per step, and    *)
(* what is kept of each.  What comes out is the observation Inventory      *)
(* applies.                                                                *)
(*                                                                         *)
(* The header is a record of what the code looks at.  The options are a    *)
(* sequence of bytes; a number is kept as the bytes it consists of.        *)
(***************************************************************************)
EXTENDS Naturals, Sequences, FiniteSets

CONSTANTS Bytes,      \* 0..255
          Payloads,   \* [header |-> ..., buf |-> Seq(Bytes)]
          Sized,      \* code :> length for the options kept if they have it
          Hostname,   \* 12: kept whatever its length
          Unset       \* None

Pad == 0
End == 255

Header == [long : BOOLEAN,      \* at least 240 bytes
           cookie : BOOLEAN,    \* the magic cookie is there
           op : {1, 2, 3},      \* 3: any other
           hlen : Nat]

ASSUME DhcpAssumption ==
    /\ Bytes \subseteq Nat
    /\ Payloads \subseteq [header : Header, buf : Seq(Bytes)]
    /\ DOMAIN Sized \subseteq Bytes \ {Pad, End, Hostname}
    /\ Sized \in [DOMAIN Sized -> Nat \ {0}]
    /\ Hostname \in Bytes \ {Pad, End}
    /\ Unset \notin Seq(Bytes)

VARIABLES
    payload,
    stage,     \* "header", "next" (the iterator runs), "item", "some" or "none"
    client,    \* whose MAC is the client's: "chaddr" or "frame"
    pos,       \* Options::pos
    first, past,  \* the data of the option last returned, while stage = "item"
    obs        \* the observation: option code to its data

dhcpVars == <<payload, stage, client, pos, first, past, obs>>

Kept == DOMAIN Sized \cup {Hostname}

buf == payload.buf

(* The byte at an offset from 0.                                           *)
ByteAt(k) == buf[k + 1]
HasByte(k) == k < Len(buf)

-----------------------------------------------------------------------------
DhcpInit ==
    /\ payload \in Payloads
    /\ stage = "header"
    /\ client = "frame"
    /\ pos = 0 /\ first = 0 /\ past = 0
    /\ obs = [c \in Kept |-> Unset]

IsBootp(h) == h.long /\ h.cookie /\ h.op \in {1, 2}

(* The header: not BOOTP, or on to the options.  Only a hardware address   *)
(* of six bytes is one, or else the frame's sender is taken.               *)
ReadHeader ==
    /\ stage = "header"
    /\ stage' = IF IsBootp(payload.header) THEN "next" ELSE "none"
    /\ client' = IF stage' = "next" /\ payload.header.hlen = 6 THEN "chaddr" ELSE client
    /\ UNCHANGED <<payload, pos, first, past, obs>>

(* Options::next.  A pad is skipped.                                       *)
SkipPad ==
    /\ stage = "next"
    /\ HasByte(pos) /\ ByteAt(pos) = Pad
    /\ pos' = pos + 1
    /\ UNCHANGED <<payload, stage, client, first, past, obs>>

(* Fault: a length that reaches past the end is believed.                  *)
NextOptionUnchecked ==
    /\ stage = "next"
    /\ HasByte(pos) /\ ByteAt(pos) \notin {Pad, End}
    /\ HasByte(pos + 1)
    /\ first' = pos + 2
    /\ past' = first' + ByteAt(pos + 1)
    /\ pos' = past'
    /\ stage' = "item"
    /\ UNCHANGED <<payload, client, obs>>

(* Fault: the position stays at the option that is returned.               *)
NextOptionStays ==
    /\ stage = "next"
    /\ HasByte(pos) /\ ByteAt(pos) \notin {Pad, End}
    /\ HasByte(pos + 1)
    /\ first' = pos + 2
    /\ past' = first' + ByteAt(pos + 1)
    /\ past' <= Len(buf)
    /\ stage' = "item"
    /\ UNCHANGED <<payload, client, pos, obs>>

(* An option whose code, length and data are all there is returned.        *)
NextOption ==
    /\ stage = "next"
    /\ HasByte(pos) /\ ByteAt(pos) \notin {Pad, End}
    /\ HasByte(pos + 1)
    /\ first' = pos + 2
    /\ past' = first' + ByteAt(pos + 1)
    /\ past' <= Len(buf)
    /\ pos' = past'
    /\ stage' = "item"
    /\ UNCHANGED <<payload, client, obs>>

(* The buffer is over, the end option is met, or an option is cut short.   *)
NoMoreOptions ==
    /\ stage = "next"
    /\ \/ ~HasByte(pos)
       \/ HasByte(pos) /\ ByteAt(pos) = End
       \/ HasByte(pos) /\ ByteAt(pos) \notin {Pad, End} /\ ~HasByte(pos + 1)
       \/ /\ HasByte(pos) /\ ByteAt(pos) \notin {Pad, End} /\ HasByte(pos + 1)
          /\ pos + 2 + ByteAt(pos + 1) > Len(buf)
    /\ stage' = "some"
    /\ UNCHANGED <<payload, client, pos, first, past, obs>>

Data == [i \in 1 .. past - first |-> buf[first + i]]
Code == ByteAt(first - 2)

(* Fault: a length that does not fit the option is taken all the same.     *)
KeepAnyLength ==
    /\ stage = "item"
    /\ obs' = [c \in Kept |-> IF c = Code /\ Data # <<>> THEN Data ELSE obs[c]]
    /\ stage' = "next"
    /\ UNCHANGED <<payload, client, pos, first, past>>

(* parse's match: an option of the right length is kept, in the place of   *)
(* an earlier one.  An empty host name is none, and takes an earlier away  *)
(* (so does one that is not UTF-8, which is left out).                     *)
Keep ==
    /\ stage = "item"
    /\ obs' = [c \in Kept |->
                 CASE c = Code /\ c \in DOMAIN Sized /\ past - first = Sized[c] -> Data
                   [] c = Code /\ c = Hostname -> IF past = first THEN Unset ELSE Data
                   [] OTHER -> obs[c]]
    /\ stage' = "next"
    /\ UNCHANGED <<payload, client, pos, first, past>>

DhcpStep == ReadHeader \/ SkipPad \/ NextOption \/ NoMoreOptions \/ Keep

DhcpDone == stage \in {"some", "none"} /\ UNCHANGED dhcpVars

DhcpNext == DhcpStep \/ DhcpDone

(* One thread parses, and nothing it does waits.                           *)
DhcpSpec == DhcpInit /\ [][DhcpNext]_dhcpVars /\ WF_dhcpVars(DhcpStep)

-----------------------------------------------------------------------------
(* What the options are, without a parser: an option or a pad begins at    *)
(* the first byte and right after another one, and nowhere else.           *)
FollowedBy(k) ==
    CASE ~HasByte(k) -> {}
      [] HasByte(k) /\ ByteAt(k) = Pad -> {k + 1}
      [] HasByte(k + 1) /\ ByteAt(k) \notin {Pad, End} ->
            {n \in {k + 2 + ByteAt(k + 1)} : n <= Len(buf)}
      [] OTHER -> {}

Follows(S) == UNION {FollowedBy(k) : k \in S}

Boundaries ==
    {k \in 0 .. Len(buf) :
        \A S \in SUBSET (0 .. Len(buf)) : (0 \in S /\ Follows(S) \subseteq S) => k \in S}

(* Where the complete options of a code begin.                             *)
OptionsOf(c) ==
    {k \in Boundaries : HasByte(k) /\ ByteAt(k) = c /\ FollowedBy(k) # {}}

LastOf(S) == CHOOSE k \in S : \A j \in S : j <= k

DataOf(k) == SubSeq(buf, k + 3, k + 2 + ByteAt(k + 1))

Meant(c) ==
    LET all  == OptionsOf(c)
        fits == {k \in all : c = Hostname \/ ByteAt(k + 1) = Sized[c]}
    IN IF fits = {} \/ DataOf(LastOf(fits)) = <<>> THEN Unset ELSE DataOf(LastOf(fits))

-----------------------------------------------------------------------------
(* Properties.                                                             *)
DhcpTypeOK ==
    /\ payload \in [header : Header, buf : Seq(Bytes)]
    /\ stage \in {"header", "next", "item", "some", "none"}
    /\ client \in {"chaddr", "frame"}
    /\ {pos, first, past} \subseteq Nat
    /\ obs \in [Kept -> (Seq(Bytes) \ {<<>>}) \cup {Unset}]

(* dhcp.rs:282: whatever the lengths in a packet say, no option reaches    *)
(* beyond the buffer: slicing it would panic in the capture thread.        *)
InBounds ==
    /\ pos <= Len(buf)
    /\ stage = "item" => first <= past /\ past <= Len(buf)

(* What is kept is, for every code, the last complete option of it with a  *)
(* proper length, and no byte inside another option's data is taken for    *)
(* one (tests of dhcp.rs:246-288).  The client is who chaddr says, not the *)
(* frame, unless chaddr is no ethernet address (dhcp.rs:79).               *)
ResultIsMeant ==
    stage = "some" =>
        /\ \A c \in Kept : obs[c] = Meant(c)
        /\ client = "chaddr" <=> payload.header.hlen = 6

(* Every packet is done with: the iterator moves on with every option.     *)
ParserEnds == (stage = "next") ~> (stage = "some")
=============================================================================
