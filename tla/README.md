# A verification project for ipscan

ipscan is a Linux tool that finds devices on the local link which an ordinary
IP scan misses: hosts outside the expected subnet, hosts without IPv4, hosts
that DHCP knows nothing of. This directory holds TLA+ specifications of its
core, the TLC models that check them on small instances, and proofs checked by
TLAPS. Source paths below are relative to `src/src/`.

Contents: [the system](#the-system) · [modules](#modules) ·
[runs](#runs-and-bounds) · [fairness](#fairness) · [proofs](#proofs) ·
[where code and text disagree](#where-the-code-and-its-text-disagree) ·
[not modelled](#what-is-not-modelled) · [plan](#plan)

## The system

| Component | Source | State | Operations |
|---|---|---|---|
| stop flag | `scan.rs` 20-24, 463-472 | `STOP`, one static of the process | cleared by `start`; raised by `stop`, `Drop`, `on_sigint`; polled by every thread |
| scan handle | `scan.rs` 124-263 | three join handles, `Arc<Mutex<Inventory>>`, progress | `start`, `findings`, `stop`, `join_driver`, `Drop` |
| capture thread | `capture.rs` 61-105, `rawsock.rs` | packet socket and its kernel queue, `KERNEL_DROPS` (a static) | receive, dissect, send events, read the kernel's drop counter |
| collector thread | `scan.rs` 188-197 | receiving end of the channel | apply one event under the lock |
| driver thread | `scan.rs` 266-339, `arp.rs` 182-246, `ndp.rs` | loop counters, `ScanProgress` | listen, ping `ff02::1`, sweep, collect |
| targets and blocks | `scan.rs` 374-441, `arp.rs` 152-180, 285-348 | none (pure) | `build_targets`, `dedup_nets`, `slash24_blocks`, `block_addrs` |
| dissection | `capture.rs` 107-171 | none (pure) | one frame to zero, one or two events |
| inventory | `inventory.rs` | hosts by MAC, leases without a host | `apply`, `apply_dhcp`, `merge_lease_file` |
| correlation | `correlate.rs` | none (pure) | `flags_for`, `duplicate_ips`, `analyze` |
| command line | `main.rs` | loop of `run` | start, join, report, repeat with `--watch` |
| interactive front end | `tui/app.rs`, `tui/mod.rs` | screens, form, table, the handle of the current scan | edit, launch, cancel, refresh, whitelist, quit |
| interface selection, sender | `iface.rs`, `arp.rs` 49-94 | none; reads the system's interfaces | `resolve`, `list_ifaces`, `for_target` |
| DHCP parser | `dhcp.rs` 40-166 | the iterator's position | `parse`, `Options::next` |
| lease file parsers | `dhcp.rs` 168-230 | the open block of an ISC file | `parse_leases_file`, `parse_dnsmasq`, `parse_isc` |
| vendor table | `oui.rs` | prefixes by length | `load`, `lookup` |
| options, reports, helpers | `cli.rs`, `report.rs`, `tui/export.rs`, ... | none | parsing, formatting, I/O |

How they interact. A front end calls `ScanHandle::start`. It clears `STOP` and
`KERNEL_DROPS`, opens the socket, loads the lease file and spawns three
threads. The capture thread reads frames from the kernel and sends events over
an unbounded channel; the collector folds them into the inventory; the driver
sends probes and reads the inventory once, to turn the hosts heard so far into
targets. The front end asks for `findings` (a snapshot under the lock) at any
moment. Dropping the handle raises `STOP` and joins the three threads. SIGINT
raises `STOP` at any moment.

What is hard about it:

* one flag and one counter serve every scan of the process, one after another:
  each reset is a chance to forget an order to stop or a loss;
* `drop` waits for a chain: the collector ends only when the capture thread has
  dropped its Sender, which it does only after it saw `STOP`;
* every loop of the driver has early returns, and errors and a panic leave it in
  the middle;
* the kernel loses frames silently and its counter is reset by each read;
* the inventory is a fold over events whose order the network chooses, and its
  flags accuse people's devices: what they rest on has to be evidence;
* the sweep promises two opposite things, to leave out every ignored address and
  to leave out nothing else;
* the interactive form turns rows of three roles, an interface, a scope and a
  whitelist into one configuration, and its table is recomputed every 250 ms under
  the hands of whoever is pressing keys;
* the parsers read bytes and files that others write, in a thread whose panic
  nobody would notice, or while the file is being written;
* the interfaces of the machine change between two readings of them.

`PROJECT.json` lists each of these hazards at its line, with the properties that
watch over it.

Correct means, per component: *handle*: no thread outlives its handle, an order
to stop is seen by everyone, drop returns; *capture*: no event lost, duplicated
or reordered, every frame the kernel dropped is accounted for once; *driver*: it
ends, goes quiet on `STOP`, and is silent when passive; *sweep*: ignored
addresses get nothing, all others exactly `--passes` probes; *inventory and
correlation*: ownership and leases are what the frames said, a flag stands on
evidence; *parsers*: they end, stay inside their input, make nothing up and lose
nothing; *interfaces*: a scan runs on the one named, and sends from the address asked
for; *form*: what is fired is what the rows say; *table*: a key acts on the row that is
drawn, and what is marked as known stays away; *front ends*: whatever way out, nothing is left running, and an
incomplete report is announced as one.

## Modules

    StopFlag ── Capture ──┐                         Dissect ── Inventory ── Correlate ── Listening
            └── Driver ───┴─ ScanHandle ─┬ CliMain
                   ▲             │      └ TuiApp     Nets ── Targets ── Sweep
                   │             └ implements EventStream            │
                   └─────────────── implemented by ──────────────────┘

    Inventory ── LeaseFile ─┐      Targets   ── TuiForm
    DhcpOptions ────────────┼─ Intake
    Interfaces ─────────────┤      Correlate ── TuiTable
    Vendor ─────────────────┘

**StopFlag** holds `STOP` and the numbering of scans: scan `s` is the `s`-th call
of `start`. Everything else about threads is indexed by scan, `STOP` is not.

**Capture** is the kernel queue (external: bounded; a frame that finds it full is
counted), the capture loop and the collector. `rx[s]` is the position in
`rx_loop`: `check` is the loop head, `recv` the blocking call with its 200 ms
timeout, `flush` the last read of the counters, `close` the end of scope, where
the socket and the Sender go away. The counters are read every 2048 turns of the
loop; the model may read them on any turn. `inv[s]` is the sequence of events
applied so far. `captured`, `lost` and `arrived` are history.

**Driver** is `run_layers` with the loops of `sweep` inside it. A *unit* is what
goes out between two looks at `STOP`: a train of echo requests, or one pass over
one block. A sleep is a state that may be left at any time. The configuration
keeps what the control flow reads; `--rate 0`, which makes a `Duration`
conversion panic, is `paced = FALSE`.

**ScanHandle** composes them: `StartReset`, `StartOpen`, `StartFail` and
`StartSpawn` are the stages of `start`, because SIGINT, and from the open socket
on frames, come in between; the other errors of `start` leave the same state as
these. `DropSignal` and `DropJoined` are the two halves of `Drop`. The three
joins are one guard: nobody can see in which order they returned. `StartReset` asks of its
caller only that it is one thread, which is not inside another call: `start` itself does
not look for an earlier handle, so a front end that forgets to drop it first is a
behaviour, in which the threads of the old scan live on (`NoZombie`). `Begin` is `start`
by a front end that holds none; only ScanHandle's own next-state relation, the handle
with a well-behaved owner, is restricted to it.

**EventStream** is the abstract promise of the receiving half: the inventory is a
prefix of the captured events, it grows one at a time, catches up, and closes
when nothing is missing. `ScanHandle!StreamSpec` is the refinement: the stream of
`s` is open until its collector has ended.

**CliMain** is the loop of `main::run` as a client of ScanHandle. An error of
`start` leaves it, an error of the driver unwinds through `drop`. `CliUsesHandle` proves
that its behaviours are behaviours of ScanHandle (it drops a handle before it starts
another scan), so everything proved of ScanHandle holds for it.

**TuiApp** is the event loop of `tui/mod.rs` with the methods of `App` that start,
cancel, replace and read scans: the second client of ScanHandle. One thread draws,
reads keys and joins threads, so `ui` says where it is: `loop` is the event loop,
`drop` and `start` are the two halves of `launch`, `quit`, `leave` and `exit` the way
out. `mode` is what a key means (a command, text, or the end after a message about
permissions), `form` the configuration on the screen as one value, `shown` where the table comes
from (a scan, and how many of its events). A failed `start` leaves the old table on the
screen with no handle behind it, as in the code. That `launch` drops the old handle before
it calls `start` is all that keeps two scans apart here. Keys that only move the focus or
filter have no action here: the actions allow every key at every focus. TuiForm and
TuiTable look inside form and table. No SIGINT handler
is installed in this mode; Ctrl-C is a key.

**Dissect**, **Inventory**, **Correlate** translate the data path: a frame to
events, an event to a change of the inventory, an inventory to flags. MACs and
addresses are model values; "private", "APIPA" and "expected" are sets of
addresses; time stamps, hostnames and lease times are left out because no flag
depends on them. **Listening** composes them with the channel and records, in
history variables of its own, what the frames *said*: `claims` (ARP senders and
DHCP grants), `used` (IPv4 sources), `lastWord` (the last ACK not released). The
properties compare the program's digest with that record.

**Nets**, **Targets** translate the arithmetic of networks and the choice of
targets; **Lists** is the filters (`retain`, `filter`) and the sum they use, written as
recursive functions of the number of elements done, as `DedupNets` is, because that is a
form the proofs can speak about for every list. Addresses have `Width` bits and blocks are networks of length
`BlockLen`; the code has 32 and 24. **Sweep** runs one sweep down to the single
address, with the progress counters and sends that fail half way. Its last
property maps it to Driver: `Driver` counts only blocks with an address left to
probe, so skipping an empty block is a stutter. `Coverage` has one exception that is not
an ignored range: an address at the edge of a piece of a larger requested network
(`PieceOf`), see [below](#where-the-code-and-its-text-disagree).

**TuiForm** looks inside the form: its rows and fields, the keys that move the cursor
and change what is under it (`handle_form_key`, `cycle_focused`, `activate_focused`,
`commit_edit`), and `build_config`, `build_config_single` and `finish_config`, which
make a configuration of it. It extends Targets, so its properties speak of the addresses
that are probed. `request` is what the running scan was given; whatever hosts it hears
before it sweeps (`Heard`), whose /24s the scope Auto adds, are among what it probes
(`Wire`). A row's text is a network,
blank, or something that does not parse; the rate, the passes and the other numbers of
the advanced drawer pass through to the scan and are left out, their places for the
cursor are not.

**TuiTable** looks inside the table: findings, filter, the switch for flagged rows, the
index of the selected row, the whitelist, and the keys of `handle_results_key`, over an
inventory that the collector fills meanwhile (Correlate with Inventory). `turn` is the
place in the event loop: draw, perhaps refresh, then at most one key. `drawn` and
`target` remember the row last drawn as selected and the one the key acted on. Of the
inputs it keeps what the table depends on: an event per device and address, a lease file,
a filter as the set of what it matches. `Sorted` puts each finding at its rank: one more
than the number of findings before it.

**DhcpOptions** is `parse` byte by byte: the checks of the header, then one option per
step. `stage = "item"` is the iterator's `Some` with the bounds of its slice, before the
match arm has looked at it. A number is kept as the bytes it consists of, because nothing
depends on its value. Its result is what Inventory applies. What it is compared with
(`Meant`) reads no byte in turn: `Boundaries` is the least set of positions that holds the
first option and with each option the one after it.

**LeaseFile** is the two parsers line by line and the choice between them, followed by
the merge into an inventory. A line is what a parser can tell of it. In ISC's format the
variables `ip` and `mac` live from one line to the next: that is where a block that was
cut short could leak into its neighbour. "Nothing lost" speaks of a file that keeps to the
format its first line is taken for. An ISC file may hold anything beside its blocks (times,
states, comments of four words) as long as no line has a MAC for its second word, by which
dnsmasq's lines are told. The exception is a file that the first line puts in the wrong
format: the code loses it, see [below](#where-the-code-and-its-text-disagree).

**Interfaces** is `resolve` and `list_ifaces` with the steps of both front ends that use
them, and a system whose interfaces change at any moment in between
(`SystemChanges`, external). `baseline` is what becomes legitimate by default, `local`
what the scan knows of its interface. `asRead` and `unchanged` are history: the machine as
it was when the default was read, and whether the scan found the same. The default of a
scan on a named interface is what that interface had at the first reading, and what the
scan finds if nothing has changed (`DefaultIsItsSubnet`). If something has, a scan without
`--iface` may run on one interface and judge by the subnet of another. The list of the selector is a set, of which only
the entry that sorts first is ever distinguished.

**Vendor** is the loading of the vendor table, line by line, and the lookup. MACs and
prefixes are sequences of digits. That no prefix is built in twice is read off the table
(`oui.rs` 11-25).

**Intake** puts the four readers, DhcpOptions, LeaseFile, Interfaces and Vendor, next to
each other. They share no state, in the code as here; `reader` says which of them is
looked at while the others have the plainest input.

Definitions whose comment starts with "Fault" are not part of any specification.
Each is a plausible mistake in the definition that follows it (a guard dropped,
a reset forgotten); substituting it must break the property named with it in
`PROJECT.json`, which shows that the property can fail.

## Runs and bounds

| Run | Model | Question |
|---|---|---|
| `two_scans` | `MC_TwoScans.cfg` | Do two scans in succession share the flag and the counter safely? |
| `driver` | `MC_Driver.cfg` | Does the driver go quiet on `STOP` and end, under every configuration, and does `drop` return? |
| `cli` | `MC_Cli.cfg` | Does the command line warn of losses, leave nothing behind, and end? Do thread, channel and collector implement `EventStream`, liveness included? |
| `tui` | `MC_Tui.cfg` | Is every thread of a scan gone before the next starts, does no launch wait for a sweep, do form and table belong to their scan, does the interface stay responsive and leave nothing behind, whatever keys are pressed? |
| `listening` | `MC_Listening.cfg` | Do inventory and flags agree with what the frames said? |
| `sweep` | `MC_Sweep.cfg` | Is exactly the right set of addresses probed, the right number of times? |
| `form` | `MC_Form.cfg` | Is the cursor always on something, is no ignored row probed, and does `s` sweep one row alone, after any keys and whatever was heard? |
| `table` | `MC_Table.cfg` | Does a key act on the row drawn, does a marked network disappear, do rows stay while the table is recomputed, and does a lost selection come back? |
| `intake` | `MC_Intake.cfg` | Is what the program reads, DHCP payloads, lease files, the machine's interfaces and vendor prefixes, understood as it is meant, whatever state it is in? |
| `cli_watch`, `no_lease`, `stays_known` | `MC_CliWatch.cfg`, `MC_NoLease.cfg`, `MC_StaysKnown.cfg` | Each refutes one sentence of the documentation, see below |

Bounds, and why they are enough to meet the interesting cases:

* `MaxScans = 2`: what one scan leaves for another it leaves for the next.
* `QueueCap = 1`, `MaxFrames` 1 to 3 (each scan): with two frames
  the queue overflows, with three it does so before and after a read of the
  counters. One frame produces two events, the other none.
* `MaxBlocks` 1 or 2, passes 0, 1 and 2: the loops are left at their head, in the
  middle and at their end.
* `driver`: one scan, one frame, and every combination of the switches with 0, 1 and 2
  passes over up to two blocks. That an earlier scan changes nothing for liveness is
  shown by `tui`, which has two (the command line never gets to its second).
* `tui`: two scans, one frame each, and a form that may change between a configuration
  that is in order and one with an unreadable range; the drivers listen and ping, and a
  ping may fail. Blocks (`MaxBlocks = 0`) are left to `driver`: the interface sees only
  whether the driver has ended.
* `listening`: up to four frames out of nineteen, in every order, with every delay
  of the collector. Two devices, a router, our own interface and the zero MAC;
  one address inside the expected subnet, a private one outside, a public one and
  an APIPA one; no lease file, an empty one, one with a lease. Four frames reach
  ACK, RELEASE, ACK and a claim by somebody else.
* `sweep`: six-bit addresses in blocks of eight, two blocks for each private
  network and for APIPA. This has a network larger than a block, a block, a pair
  (/31) and a single address (/32), each both asked for and ignored.

* `form`: the addresses of `sweep`, up to two rows (`MaxRows`), so that a row is
  inserted, removed and swept beside another, and one network lies inside the other; two
  interfaces, one of them without a subnet; three texts to type. The hosts heard before a
  sweep own no address, one in the network that may be ignored, two in different private
  networks, or three, among them an APIPA address.
* `table`: three devices, one of them without IPv4 and listed as an orphan lease; two
  events per run and two scans (`MaxEvents`, `MaxScans`). Two rows are enough for every
  order, for a filter that hides one and for an index beyond the end.
* `intake`, payloads: every buffer of up to five bytes over the seven values the parser
  tells apart, and those of six in which an option of one byte occurs twice, behind a
  proper header, and every header before a short buffer. The options of four bytes are
  one of two; lengths 0, 1, 2 and ones far beyond the end occur.
* `intake`, lease files: every file of up to four lines of ISC's format over two devices,
  of five if each line counts (a block needs four; a cut block and the start of the next
  fit), up to three of dnsmasq's, up to four mixed. Both formats are met with lines of four
  words that are no lease: times and comments.
* `intake`, interfaces: a loopback, a tunnel without a MAC, and two cards of which one is
  up or down, with no address, one of each kind or both, and the other comes and goes.
* `intake`, vendors: prefixes of one to four digits for MACs of three (a file may hold a
  prefix longer than any MAC), up to three lines, repeated or overlapping.

Deadlock is checked wherever nobody may stop. `cli`, `tui` and `listening` end on their
own (`run` and `run_tui` return; the bound on frames is reached), so it is off there. In
`intake` a reader that is done stutters (`DhcpDone`, `LeaseOver`, `Loaded`).

The unbounded counters of the code (frames, scans) are bounded by `MaxFrames` and
`MaxScans`. No width matters: the 64-bit counters cannot overflow, the 32-bit
arithmetic of addresses is exact.

## Fairness

Weak fairness for each thread of a scan (the operating system schedules them;
`recv` has a timeout and every sleep a deadline, so each thread can always take
its next step), for the rest of `start` and of `drop` once begun, and in
`CliMain` and `TuiApp` for the main thread. `TuiApp` asks fairness of "the capture
thread of some scan", and so for the other threads: at most one scan is alive at a time
(`NoZombie`), so this is fairness of that scan's thread. Keys are never obliged. None for the owner of a handle, for Ctrl-C or for
the network: nobody has to start, stop or drop a scan, interrupt it, or send a
frame. A transmission that blocks for ever is excluded.

`TuiTable` asks weak fairness of the event loop, whose poll for a key waits at most
100 ms, and strong fairness of the refresh: while there is a scan the 250 ms after which
the loop refreshes pass again and again, whatever is pressed. `Intake` asks weak
fairness of the thread that parses a payload: it is sequential and waits for nobody.

## Proofs

Everything that a passing run checks of single states and steps is also proved, for every
value of the constants. What remains with TLC alone is listed at the end of this section.

| Module | About | For any |
|---|---|---|
| `ScanHandle_proofs` | ScanHandle with StopFlag, Capture and Driver; CliMain; TuiApp | number of scans, frames, events, blocks and passes, capacity of the queue, configuration, form, order of keys |
| `Lists_proofs`, `Targets_proofs` | lemmas: loops over lists, powers of two, networks, the choice of targets | list, width of address, length of a block, request |
| `Sweep_proofs` | Sweep, and that it implements Driver | the same, and number of passes |
| `Listening_proofs` | Dissect, Inventory and Correlate under Listening | devices, addresses, frames, delay of the collector |
| `TuiForm_proofs` | TuiForm | interfaces, rows, order of keys |
| `TuiTable_proofs` | TuiTable | finite set of devices; events, lease file, filters, order of keys |
| `Intake_proofs` | DhcpOptions, LeaseFile, Interfaces, Vendor | payload, file, machine and changes to it |

The assumptions are those the modules name: `MaxScansAssumption` (a scan may be
started), `CaptureAssumption` (dissection gives sequences of events, the queue has room
for a frame), `DriverAssumption` (configurations have the switches of `ScanConfig`),
`TuiAssumption` (a form asks for configurations a scan may have), `NetsAssumption` (a block
is no longer than an address), `TableAssumption` (finitely many devices, which are numbers;
the network around an address consists of addresses), `VendorAssumption` (the prefixes
built in differ), and for the others that the inputs have their types and the values
standing for "none" are none of them.

Two arguments recur. *Loops over lists.* TLAPS offers no induction that these provers can
use for an operator, but a set of numbers that has 0 and with each number the next is all
of `Nat` (`Induction`, from the well-foundedness of `<`). `LoopExists` draws from it that a loop
of n turns has its sequence of values; with that, what `Only`, `Total`, `DedupNets` and
`FlattenSeq` return is an induction over the turns, about a property of the list so far
(`Drawn`, `Deduped`, `Joined`). *Powers of two.* The provers know no law of
exponentiation, but the library has the number of subsets of a finite set: `PowerIs` takes
2^n as that of `1 .. n`, and `PowerNext` and `PowerAdds` follow.

| Theorem | Argument |
|---|---|
| `TypeCorrect`, `TypeOKHolds` | `TypeOK` is not inductive: `passes - 1` is a natural number only because a pass is sent while one is left. `TypeInv` adds that. |
| `NoZombieHolds` | Inductive with types. `DropJoined` is the step that matters: it needs all three joins. |
| `StopStickyHolds` | `NoZombie` before `StartReset`: with `owner = "none"` nobody is alive to miss the order. |
| `StreamConservedHolds` | Inductive; that events move from the head of the channel to the end of the inventory is lemma `MoveHead` on sequences. |
| `DropsAccountedHolds` | `DropsInv` extends it to the time of `start`, and says that a scan not begun has lost nothing and that an old socket is closed. It needs `NoZombie`: a surviving capture thread would add its losses to a foreign counter. |
| `AtMostOneLateUnitHolds`, `SilentWhenPassiveHolds` | `SendInv`: a driver about to decide has sent nothing late while `STOP` is down, one past the decision at most one; a passive driver never gets beyond the gate; a scan not spawned has sent nothing. It rests on `StopSticky`'s reason, `NoZombie`: the flag does not go down under a live driver. |
| `StreamSafetyHolds` | Each step of ScanHandle is `Deliver`, `Fold`, `Close` or a stutter of EventStream, given `StreamConserved`. |
| `CliTypeCorrect` | From the invariants of the handle, which hold of CliMain by the lemma `CliUsesHandle`: at `start` its main thread holds no handle (`MainOwner`). |
| `ExitLeavesNothingHolds` | `MainOwner` ties the position in `run` to the state of the handle; with `NoZombie`. |
| `WarningCoversReportHolds` | `WarnInv`: until `STOP` is raised by the drop that follows the findings, the capture thread is still in its loop, so its last read of the counters is yet to come; after that read the losses known at the findings are in `KERNEL_DROPS`. |
| `TuiNoZombieHolds`, `TuiTypeCorrect`, `TuiLeavesNothingHolds` | `PlaceInv` ties the place of the UI thread to the state of its handle. It is proved together with the invariants of the handle: the type of the table rests on that of the inventory, and the handle's invariants on a client that has dropped its handle before it starts a scan, which `PlaceInv` says of `launch`. |
| `LaunchNeverWaitsHolds` | `Spawned` (a held handle has a driver) turns "not running" into "ended"; an ended driver stays so (`Mellows`). |
| `FormIsRunningHolds` | `FormLocked`: an edit that is open excludes a running scan and a launch under way, and what a launch was given is what the form shows. |
| `TableGrowsHolds` | `TableInv`: while its handle exists the table is empty or of the latest scan, and never ahead of the inventory, which only grows. |
| `OwnedIsClaimedHolds`, `LeaseIsLastWordHolds`, `LeaseIsOwnedHolds` | `ListenInv` speaks of the time in between: what was said is in the inventory or still in the channel, and the last word about a lease is the last such event of the channel, or else what the inventory holds. Lemmas say what one event does to one host; the channel only loses its head and grows at its end. |
| `L2OnlyIsSilentHolds`, `RouterNotAccusedHolds`, `NoLeaseNeedsFileHolds` | From `ListenInv` and the definition of each flag: flags read the inventory, `ListenInv` says what that stands for. |
| `DuplicatesMutualHolds` | From `ListenInv`'s types alone: `duplicate_ips` is symmetric among owners. |
| `DhcpStaysInBounds`, `DhcpTypeCorrect` | `InBounds` with types is inductive: the length is compared before the slice is taken. |
| `NothingMadeUpHolds` | `BlockInv`: what the open block holds was said since the line that opened it, with no other opening between. |
| `NothingLostHolds` | `ReadInv`: every line or block before `at` that says a lease has it in the list, whatever lines without a MAC are between. |
| `FileIsBaselineHolds`, `LeasesAsWrittenHolds` | The merge has a last entry for each MAC listed: the last of a finite, nonempty set of places, by a well-founded minimum. |
| `ResultIsMeantHolds` | `MeantInv`: the iterator is at a boundary of the options, what is kept so far is what the options before it say, the last of a code counting, and `chaddr` is read if and only if it has six bytes. It rests on `BoundsInv`: an option whose slice was taken ends where the next begins. |
| `LongestNamesHolds` | Its invariant (`TableInv` of Vendor): a prefix has the vendor of the first line, among those read, that it occurs in; once the lengths are sorted they are exactly those that occur. As they fall, the first that hits is the longest that fits. |
| `SweepInvariant` | `SweepInv` ties the wire to the bookkeeping. `ListsInv`: the blocks to come lie apart. `CurrentInv`: each address of the block in hand has had all its passes but `passes`, and lies in no ignored range and no block to come. `ProbedInv`: blocks to come have had no probe. `CountInv`: `total` is `sent`, what is left of this block, and `--passes` times the sum of the blocks to come. `ReachInv`: what is to be probed has been, is in hand, or is to come. |
| `NoOverProbingHolds`, `ProgressHonestHolds` | Parts of `SweepInv`. They rest on `TargetsAre`: of two networks one lies in the other or they are disjoint (`Nested`), so a list in which none contains another is disjoint, and with it the list of its blocks (`BlocksAre`, `AllBlocksAre`). |
| `CoverageHolds` | From `ReachInv` and `TargetsAre`: a requested network that is neither APIPA nor covered is contained in a target. |
| `ImplementsDriverHolds` | Step by step. Skipping a block without addresses leaves the number of live blocks as it is (`LiveTail`); that number is bounded by the addresses, because the blocks are apart (`LiveBound`). |
| `IgnoredRowsSilentHolds`, `SingleIsAloneHolds` | `LockInvariant`: while a scan runs nothing that changes the form is allowed, its request excludes every row marked as ignored but the one fired, and the request of a row fired by itself is for that row only. Then by `TargetsAre`: what is probed lies in a requested network and in no excluded one, whatever was heard. |
| `KeyHitsHighlightedHolds` | `LoopInv`: from the drawing to the key only a refresh changes what is selected. |
| `MarkedDisappearsHolds`, `RowsStayHolds` | `Sorted` lists every finding, and each once: MAC and severity order the findings totally (`OrdersFindings`), and in a finite total order each place is taken exactly once (`Places`). `RowsInv`: the table lists no device the inventory does not, and no event makes that forget one (`ApplyKeeps`). |
| `FocusValidHolds`, `FormTypeCorrect` | `FormInv` adds that rows fit the form. `ItemsAre` says which places `form_items` lists, so each key is a question about a set: after `d` the cursor is on the row that moved up, on the last row, or off the rows. |
| `LocalSenderIsOursHolds`, `NeverApipaHolds`, `RunsOnTheNamedHolds`, `DefaultIsItsSubnetHolds`, together `ScanAsAskedHolds`; `IfaceTypeCorrect` | `IfaceInv` adds that the selector's list is clean and holds what the selector names, that a running scan passed `validate_spa`, and that the default is what the first reading says of the interface asked for (`DefaultInv`). Names are unique, so the same machine gives the same answer twice (`SaysResolved`). The first of the candidates exists by a well-founded minimum. |

Proved without a run of their own, because the proofs cover every instance: the type
invariants of CliMain, TuiApp, Listening, DhcpOptions, LeaseFile, Interfaces and TuiForm,
and `SilentWhenPassive`, `LeaseIsOwned` and `NoLeaseNeedsFile`. The
type invariants of Sweep, TuiTable and Vendor are part of the invariants above.

Checked with TLC only: liveness (`DropReturns`, `DriverEnds`, `CliTerminates`,
`TuiResponds`, the fair half of `StreamSpec`, `ParserEnds`, `CursorReturns`), which is out
of reach of the prover; and the three runs that refute a sentence.

## Where the code and its text disagree

Runs with a counterexample, each against a quoted sentence:

1. `cli_watch`: `--watch` "repeats the cycles" (`cli.rs` 71). `run` drops the handle
   before it tests `STOP`, and drop has just raised it: the first cycle is the last.
2. `no_lease`: `NO_LEASE` is "alive, no lease", orphan leases are those "whose MAC never
   showed up any other way" (README 81, `inventory.rs` 70). The lease file is merged
   before any host is known and never looked at again: a present host that it lists is
   reported as both.
3. `stays_known`: the whitelist "lives in the session" (README 139). The next refresh
   accuses the device again.

Seen while modelling, and visible in the definitions named, without a run of their own:

* `STOP` is a static because "the SIGINT handler must reach it" (`scan.rs` 20-22). Ctrl-C
  between the installation of the handler and the first line of `start` is erased
  (`Interrupt`, then `StartReset`).
* `LEASE_MISMATCH` is "DHCP handed out X, the device uses Y" (README 82). Ownership only
  grows (`HostAck`, `LeaseFlags`); a device that moved to its new lease is accused of the
  old one.
* "Likely subnets must be swept BEFORE the large exhaustive blocks" (`scan.rs` 427). Such a
  subnet is dropped when a later network contains it, and its place in the order with it
  (`DedupStep`).
* Of an ignored range "nothing coming from them is flagged" (`cli.rs` 25). It only joins
  what is expected (`main.rs` 42): every flag but `OUTSIDE_SUBNET` is raised (`FlagsFor`).
* Without a local subnet there is "nothing to call an anomaly" (`tui/app.rs` 176). With
  nothing expected every private address is outside (`Foreign`).
* A `[>]` row is swept, "yes, first" (README 112). A row smaller than a /24 is merged into a
  larger one around it, and loses its addresses at .0 and .255 (`DedupStep`, `ProbeAddrs`).
  The same happens to a larger row: of 10.0.0.64/32 beside 10.0.0.64/26 nothing is probed,
  because a network's own first and last address are left out. `Coverage` states exactly this:
  such edges are lost, and nothing else.
* A `[ ]` row "stays hidden" (README 111). While it is swept alone, with `s`, it is not
  legitimate, and its own devices are reported (`BuildConfigSingle`).
* "If no range is left as `[ ]`, the interface subnet becomes the baseline" (README 117).
  Not if there is an ignored row or a whitelisted network (`FinishConfig`).
* The legitimate subnets default "to the interface's own subnet" (`cli.rs` 20). With
  `--tui -i X` the form keeps the subnet of the first interface (`TuiForm!Init`), and in
  both front ends the subnet is that of an earlier reading than the one the scan runs on
  (`CliBaseline`, `TuiLaunches`, then `Start`).
* The lease file says "who holds a lease" (README 89). An ISC block counts whatever its
  `binding state` (`CloseBlock`).
* The selector lists interfaces that are "up" (`iface.rs` 103). Nobody asks (`ListIfaces`).
* `DUPLICATE_IP` is "two distinct MACs claiming the same IPv4" (`correlate.rs` 26), but
  a host that owns no address is looked up by those it forwards, and a router that was
  only heard forwarding gets its clients' conflict. `DuplicatesMutual` is stated for owners.
* The exhaustive sweep is "the whole private space" (README 41), but .0 and .255 of
  each /24 are left out although they are hosts of a larger network (`arp.rs` 293);
  `Coverage` speaks of `ProbeAddrs`, which leave them out.
* The interactive front end does not show `KERNEL_DROPS`, nor an error of the driver.
  `--rate 0` ends the driver by a panic that `join_driver` reads as success.
* A dnsmasq file whose first line has no MAC (a lease for IPv6, a DUID without colons) is
  taken for ISC's and gives no lease at all (`dhcp.rs` 176). `NothingLost` excepts it.

## What is not modelled

* The byte layout of frames (the `pnet` crate, `ndp.rs`, `build_request` in `arp.rs`):
  which field means what is taken over, where it lies is not.
* `report.rs`, `theme.rs`, `export.rs`, `clipboard.rs`, `probe.rs`: formatting and
  single acts of I/O. Of the drawing only the row shown as selected is kept; the help
  overlay and the notices are left out.
* The socket options: settings of the operating system; their failures are `StartFail`.
* The filter of already reported findings in `--watch`: no second cycle reaches it.
* Poisoning of the inventory's mutex: nothing panics while it is held.
* Parsing of the command line (`clap`) and of the texts in the form: a text parses or
  it does not.
* External, modelled from their use: the kernel's packet queue, the list of interfaces,
  `ipnet`, `Ipv4Addr`.

Some steps are merged or left out, and no property depends on them: the read of the
kernel's counter and its addition to `KERNEL_DROPS` are one step; `recv` and `stats` do not
fail; `run` is not left by an error of the JSON report; after Esc in TuiTable, events may
arrive for longer than in the code, where `STOP` ends the capture thread too.

Four hazards have no property: a frame the kernel drops between the last read of the
counters and the close of the socket is counted nowhere (`capture.rs` 104), an accepted
loss; Ctrl-C before `start` (`scan.rs` 138), the edges of a small range
(`scan.rs` 434) and a lease file whose first line misleads (`dhcp.rs` 176) are where the
code falls short, as the previous section says.

## Plan

Done, in this order: threads, flag and counters (StopFlag, Capture, Driver, ScanHandle,
EventStream); the command line (CliMain); the data path (Dissect, Inventory, Correlate,
Listening); the sweep (Nets, Targets, Sweep, which implements Driver); the life of scans
in the interactive front end (TuiApp), its form (TuiForm) and table (TuiTable); the
parsers (DhcpOptions, LeaseFile), the interfaces and the vendor table, run together as
Intake.

The proofs came in the same order: ScanHandle and its clients, Listening, the readers, the
form's cursor; then the lists and networks, the sweep with its refinement, what the form's
configurations probe, the table.

Left:

1. The composition of TuiForm and TuiTable with TuiApp: the form of the one as the
   configuration of the other, and the theorems about both carried over to it.
2. A theorem that the targets of a sweep stay in wire order: what the user asked for first
   goes out first, but for a network that a later one absorbs (`DedupStep`).
3. `run_layers` with the sweep of Sweep in place of Driver's counted blocks, so that
   `NoOverProbing` holds of a whole scan.
