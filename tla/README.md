# Verification of the CH32X035 WCH-Link firmware

The repository is the firmware of a USB debug probe: a CH32X035 that speaks the
WCH-Link protocol over USB to a host tool (MounRiver Studio, OpenOCD, wlink) and
the two-wire RVSWD protocol to a target chip. This directory holds TLA+ models
of its parts, TLC configurations that check them and TLAPS proofs.

    tlc -config usb_any_host.cfg WchlinkUsb        # one of the runs below
    tlapm WchlinkTransferProofs.tla                # the proofs of a module

## 1. Inventory

Paths are below `src/src` unless they begin otherwise.

| Component | State | Operations | Interacts with | Correct when |
|---|---|---|---|---|
| USB port driver (`third_party/cherryusb_port`) | per endpoint: enabled, stalled, active, buffer, bytes left | start_read, start_write, abort_in, clear_stall, open, close, interrupt | runs the adapter's callbacks in the USB interrupt | a started transfer completes, is aborted or is dropped by a reset, once |
| USB adapter (`wchlink/usb`) | pending and armed flags, reply deadline, four buffers | one iteration of the main loop, six callbacks, event handler | port driver; session, by call | commands executed once and in turn, replies neither lost, repeated nor blocking, no buffer used twice |
| Session and commands (`wchlink/session`) | transfer and target state, direct-DMI resume status | execute a command, poll a data phase | called by the adapter; calls the target ports | a command leaves no state of another session behind |
| Transfer (`session/wchlink_transfer.c`) | data phase, chunk counters, partial-write cache | prepare, start, finish, write_data, read_data, abort | target ports | what is answered as programmed is in the flash, nothing else is written |
| Target ports (`target/wchlink_target_ports.c`) | connection, locked module, family hint | connect, loader, flash, memory, reset | RVSWD, flash, registry | the module in use is that of the chip connected |
| Connect and registry (`target/rvswd_target_connect.c`) | frame format and speed while probing | identify, known-mode connect, automatic detection | transport, modules | a failed attempt leaves nothing of itself |
| RVSWD operations (`wchlink/rvswd`) | abstract command state of the target | halt, resume, memory read and write, reset | transport | every word is written once, autoexec never left on |
| Transport (`wchlink/transport`) | frame format, line state | DMI read and write with retries | GPIO | a value returned as good was sent by the target |
| Flash drivers (`wchlink/flash`) | unlock state and byte-access mode of the target | erase, program, rewrite, option bytes | RVSWD | the mode is left as it was found |
| Wire protocol (`wchlink/protocol`) | none | encode and decode | session | |
| Time base (`bsp/bsp_delay.c`) | SysTick | read the time | adapter, LED, button | a time is never torn, deadlines are kept |
| Status LED, button, SBU mux (`status`, `drv`, `main.c`) | LED state and deadlines, debounce state | timer tick, set_state, button poll | main loop, timer interrupt | results are shown, then given up |

What is hard in this code:

* The main loop and the USB interrupt share flags with few critical sections; a
  third actor, the host, may stop at any point of an exchange, reset the bus,
  clear a halt or start over.
* A data phase spans many commands and packets. Its state (loader, program,
  verify, partial write, read) has to survive or die with the right ones, and
  the lengths of packets, chunks and pages do not divide each other.
* The target fails at any transaction, and each layer retries, falls back or
  restores on its own.
* Time is a wrapping 32-bit number computed from a counter read in two halves.

`PROJECT.json` lists the hazards one by one, each at its line, with the
properties that cover it or the reason why none does.

## 2. Modules

| Module | Models |
|---|---|
| `WchlinkUsb` | `wchlink_usb.c` on the bulk endpoints of the port driver |
| `UsbMailbox` | what the adapter promises about commands, without flags, endpoints or interrupts |
| `WchlinkUsbProofs` | proofs about `WchlinkUsb`: with any host, that it implements `UsbMailbox`, and with a host that keeps to the protocol |
| `WchlinkTransfer` | `wchlink_transfer.c` with the commands that drive it and the target ports as it calls them |
| `MCTransfer` | the loader profiles of the target families, for the runs of `WchlinkTransfer` |
| `WchlinkTransferProofs` | proofs about `WchlinkTransfer`: cursors, loader, order of the phases; then its data: checksums, the image in the flash, partial writes |
| `WchlinkSession` | the commands around a session, the connection with its attempts, the status a resume leaves (`wchlink_command*.c`, `wchlink_direct_dmi_resume.c`, `rvswd_target_connect.c`, `wchlink_target_ports.c`) |
| `WchlinkSessionProofs` | proofs about `WchlinkSession` |
| `RvswdDmi` | memory access, resume, reset, loader execution and CH58X/CH59X flash over the target's debug module (`wchlink/rvswd`, `rvswd_target_<family>.c`, `rvswd_flash_ch58x_59x.c`), under the transport's retries |
| `RvswdDmiAccessProofs` | proofs about single accesses of `RvswdDmi`: from which facts an access leads to which |
| `RvswdDmiProgramProofs` | proofs about its programs: each can be annotated with facts, from what an operation starts with to what it promises |
| `RvswdDmiProofs` | the inductive invariant of `RvswdDmi`, and from it each of its properties |
| `RvswdFlash` | erasing and rewriting the option bytes of the CH32 targets (`rvswd_flash_ch32.c`, `rvswd_flash_option.c`, the V20X erase) |
| `RvswdFlashProofs` | proofs about `RvswdFlash`, with the annotations of the driver programs |
| `BspTime` | `read_counter`, `counter_to_units` and the deadline of a reply |
| `BspTimeProofs` | proofs about `BspTime`, for counters of every width |

Each module takes the layer below it by what the calls of its code may return.
From the host down: `WchlinkUsb` hands commands and packets to a session;
`WchlinkSession` runs commands, and abstracts a data phase to the fact that it
is open, for which module; `WchlinkTransfer` follows the data of a phase, and
abstracts the target ports to calls that succeed, fail, or fail after having had
their effect; `RvswdDmi` and `RvswdFlash` are those calls, access by access.

Definitions named `<Name>_<What>` with a comment that begins with "Fault:" are
faulty variants of `<Name>`. No specification uses them; they are kept so that
each property can be shown to catch a plausible bug.

### WchlinkUsb

The variables are the adapter's flags under their names, `active` (the port
driver's endpoints with a transfer in progress), the four buffers, the position
`pc` of the main loop, `op` (the data phase the session has open, all that
`wchlink_session_next_data_io` tells the adapter) and the host. A packet is the
number of the command it belongs to.

The main loop, `wchlink_usb_process`, is cut wherever an interrupt can be told
apart: at each access to a flag that a callback writes and at each endpoint
call. So `wchlink_arm_request` is `ArmRequest` (test of the flags and start of
the read) and `ArmRequestDone` (the flag set after the read was started), each
service function is two to four steps, and the body of a command is
`CheckRequest`, `ProcessCommand`, `ArmResponse`, `WriteResponse`. What runs with
the interrupt disabled is one step. The callbacks (`CommandReceived`,
`ReplyRead`, `DataRead`, `DataReceived`), `BusReset`, `Configure` and
`ClearHalt` may come between any two steps.

### WchlinkTransfer

The variables are the fields of `struct wchlink_transfer`, the target (words of
the loader in its RAM, whether that loader was initialised, its data buffer, the
flash), and the host's flash tool. Lengths are in words. A word of data is the
number of its image and its position in it, so that a word lost, repeated or put
in the wrong place can be seen; the checksum is the sequence of words summed.
The main loop runs a command or a packet to its end before it takes the next,
so each is one action; each outcome (refused, failed at the target, done) is an
action or a disjunct of its own. Each call of a target port may fail, and a
failure may have had its effect all the same. `LoaderRun` is the code that
runs on the target: assumed to have done its work when it returns 0 and was
downloaded whole and initialised, and anything or nothing otherwise. What it may
return besides is a parameter (`LoaderValues`), and `DataStatus` is the byte
the host gets: 0, 8 and 16 have one of their own, of any other value it is the low
byte, which may look like another status (finding 4).

### WchlinkSession

A command is one action, because the main loop runs it to its end and a bus
reset waits for it; a connection is one step per attempt (`LongProbe`,
`ShortAttempt`, `KnownAttempt` and their failures), because the target may be
plugged, unplugged or exchanged at any time (`TargetChanges`), also between
attempts. `chip` is the module the target belongs to, `locked` that it hides its
chip id; on a legacy chip `locked` is what lies at the address where a CH32 has
its option status. Every access may fail, and one that succeeds needs a target
that understands the frame format in use (`Answers`). The order of the registry
does not show, because the matchers of the modules are disjoint. Replies are
told apart as done, failed, chip information and status of a resume. Left out:
the power switch, `family_hint_active` (only the LED reads it), the code of a
failed connection, `info.family`; fast timing is false in every profile.

### RvswdDmi and RvswdFlash

A driver function is a straight line of register accesses, each of which may
fail and then returns, jumps to the cleanup, or is ignored. Each function is
written as a sequence of accesses (`WriteStreaming`, `Resume`, `OptionErase`,
...), functions that call others concatenate them, and one interpreter
(`Step...`) runs them one access per step, so that every place where the link
may fail is a step with all its outcomes: done, failed without effect, failed
with its effect, and in `RvswdDmi` done twice, for the transport repeats a write
whose acknowledgement it did not understand (`rvswd_transport.c:164`). The
debug module and the flash controller are not code of the repository. They are
modelled by what the drivers rely on: `cmderr` is sticky, an access while a
command executes sets it, autoexec repeats the last command on each access to
`DATA0`; mode and lock bits, unlock sequences in two keys, erase on a start bit. A wait
for the flash ends or its access fails, except on a V20X that is `held`: BSY is set
before anything was started, every wait then times out on a sound link, and
starting an erase ends it.

Kept short: the consecutive writes of the program buffer and the four unlock
writes are one step, as is a byte access of the CH58X/CH59X; a block and a page
are two words with a neighbour on each side; polling is one step that ends or
gives up. A register transfer is over before the next frame, other commands keep
the module busy for as long as they like, but not longer than the 16 or 64
frames after which an access is given up (`Settled`); a resumed hart starts at
once.

### BspTime

SysTick runs between any two reads of it; the conversion is the loop of the
code, bit by bit. A reply is armed, expires or is read; ages are counted in
ticks as a history.

## 3. Runs

| Run | Question | Bounds |
|---|---|---|
| `usb_any_host` | With any host: flags and endpoints in step, no buffer shared, no acknowledged command lost, no reply to an earlier configuration, `UsbMailbox` implemented; and a pending reply never blocks commands for good | 3 commands, 1 packet per phase, 1 bus reset, 1 cleared halt |
| `usb_patient_host` | With a host that keeps to the protocol: data reaches its operation, a reply answers the last command, the command endpoint listens again and again, every exchange ends | 4 commands, 3 packets |
| `usb_rearm_race` | finding: see below | 3 commands |
| `transfer_images` | An image, on each loader profile, failing target calls: answered words are in the flash, checksums cover what is read, cursors on the image, nothing else is written, no flash phase without an initialised loader, every flash phase ends | image of up to 5 words, chunk of 4, packet of up to 2, flash of 8; loader values 0, 8, 16, 257 |
| `transfer_result_byte` | finding | image of up to 2 words, chunk of 2; loader values 0, 4, 8 |
| `transfer_any_host` | Commands in any order: loader whole when ready, buffer with one user, a partial write keeps what it read of its page | image of 1 word, chunk, page and flash of 2, loader of 2, 1 partial write; all three are proved for every size |
| `transfer_patch_loses_page` | finding | image of up to 2 words, chunk of 2, 1 partial write |
| `session` | Commands in any order, a target exchanged at any time: line format and speed fit the module connected, phases and loaders end with their session, the status of a resume is for the next command only, no module taken by elimination, every connection ends | 4 modules: CH32 with and without a check of the id, legacy with short and with long frames; 2 attempts and 2 cycles where the code has 4, 20 and 3 |
| `session_stop_info` | finding | 2 modules, 1 attempt each |
| `rvswd_dmi` | What a success of an operation means, neighbours untouched, autoexec off again, a failed resume taken back and diagnosed, loaders started with their own arguments, locked debug module not written, page erased before it is programmed | 6 families, 3 operations in a row, 3 accesses that fail, repeat or end in an error |
| `rvswd_flash` | What a success of an erase or option-byte command means, only requested bytes change, code flash erased only on request, locked again after option bytes were changed, no mode left selected but by a V20X erase, no failure without a cause | 4 families, 3 commands in a row, 2 failing accesses |
| `reply_deadline` | Time never torn, lifetime of a reply kept when its deadline does not wrap | halves of 3 bits, 2 ticks a unit: the counter goes through all its values and wraps |

Why these bounds are enough for the cases that matter. Three commands are one
abandoned, one that meets its leftovers, and one that meets an adapter that has
lost a step on the second. An image of five words over a chunk of four and
packets of one and two words has a full chunk, a last chunk shorter than a page,
a packet that crosses the end of the chunk and one that crosses the end of the
image; two words per packet give an odd tail to the page fill. In a connection
an attempt that is not the last and one that is are all that the code tells
apart, and two cycles let the target change between them. Three operations on a
target are one that fails and leaves something behind, one that meets it and one
after that; two or three faults are the fault, a fault of the cleanup after it,
and one of the fallback. Two words are a first and a last word of a block; an
address in the middle goes through the same loop. Three bits let the low half of
the counter carry into the high half, and the unit wrap, within a few dozen
ticks. Commands in any order multiply the states, so that `transfer_any_host` has one page
of flash, which may be cached or not; that pages in other sectors never come from the
cache is left to the proof. `MaxDrift` is how long one reading of the time is interrupted, at most the whole
counter less one low half (`TimeAssumption`): with one tick more TLC finds a torn
time, the high half having come around to what it was. In the device that is
thousands of years.

Only the USB runs check deadlock: their host may always idle. In the others the
host may have sent everything it is allowed to send.

`WchlinkSession` has no bound on commands: its state is finite.

Fairness. `DeviceSpec` and `FairSpec` of `WchlinkUsb` assume that the main loop
goes on (`for (;;)` in `main.c:79`, which calls nothing that waits for the host)
and that an unread reply is at some time found expired, since time passes and
the loop looks at it in each iteration. Strong fairness is needed there: the
loop is at that point again and again, not always. `FairSpec` adds a host that
ends what it began; a packet on an armed endpoint completes when the host goes
on. `FairSpec` of `WchlinkTransfer` assumes that the flash tool keeps sending
and reading, for a phase cannot end without it. `Spec` of `WchlinkSession`
assumes that the main loop goes on with a connection: it runs inside one call.
The other modules assume nothing.

What the drivers' properties exempt. `RvswdDmi` promises little once a write has
taken effect twice or a write that was to switch something off was lost; its
premise is then `Undisturbed`, and `AutoexecOff` and `FailureLeavesNoTrace`,
which have no such premise, say what is left behind and that the operation failed. Of the V20X's
single word accesses, and of reads by Access Memory, the code looks at no error
and the properties promise nothing (`unchecked`). `RvswdFlash` exempts a
clean-up write that failed itself (`dirty`) and the MER that a V20X erase leaves
(finding 10). It asks for a locked controller only of commands that changed the
option bytes: `rvswd_flash_ch32_erase_all` and the V20X erase do not lock it again.
`FailsForCause` takes a write protection error for a cause even when an earlier
command left it (finding 13). What a property exempts it cannot catch; where that
is a hazard of `PROJECT.json`, the hazard says so.

## 4. Findings

The first four are runs that TLC must find violated.

1. `usb_rearm_race`, `wchlink_usb.c:191`. `request_armed` is set after the read
   was started, with interrupts on. A command that completes in between runs its
   callback first; the flag is then set with no transfer behind it, and
   `wchlink_arm_request` skips the endpoint until a bus reset. The command itself
   is executed (`AcceptedCommandKept` holds), the next one is never received. The
   window is a few instructions, longer when the LED timer interrupts it; the
   patient host is assumed not to hit it (`MaySend`). The other endpoints set
   their flag before they start the transfer.
2. `transfer_patch_loses_page`, `wchlink_transfer.c:215`. An address frame
   declares the page cache valid, all erased. When the image is given up, the
   next partial write in sector 0 takes the rest of its page from there and
   erases what it should keep.
3. `session_stop_info`, `wchlink_command_target.c:374`. STOP resets the session,
   which forgets the module, and then reads the chip information, which fails
   without a module: a legacy target's host gets an empty answer instead of the
   20 bytes that the comment at `:376` describes. The test
   (`command_transfer_fixture.c:814`) keeps the module across the reset.
4. `transfer_result_byte`, `wchlink_transfer.c:600`. Of a loader's value other
   than 0, 8 and 16 the low byte is the reply: 4, or any value that ends in 0x04,
   is answered 0x04, "done", and the phase goes on. The comment at `:592` speaks
   of three standard values that are converted. The codes of failed calls do not
   end in 0x04 (0x15, 0xe00a, 0xe101 to 0xe403, the memory errors, 0xffffffff),
   so it takes a loader that returns such a value; the repository does not say
   which values its loaders, which the host sends, may return.

The others were met while modelling. The models contain them, and the properties
are stated so that they hold in spite of them.

5. `rvswd_flash_option.c:434`, `:602`. The comment at `rvswd_target_v20x.c:289`
   says that a CH32V203 keeps `STATR.BSY` set until an erase is started. The V20X
   erase therefore does not wait first; the programs that protect and unprotect
   do, and on such a target time out without having done anything, whereas
   `target/README.md:5` has the switching of the protection among what is
   confirmed. One of the two is wrong or too wide, and only the chip can tell. The
   model lets each V20X, after each reset, be of either kind (`BusyBeforeErase`);
   `FailsForCause` says what such a failure leaves.
6. `usb_ch32x035_dc_usbfs.c:862`. Clearing a halt on an endpoint that was
   listening drops its transfer and tells nobody: the adapter believes that it
   listens, and no command arrives until the next bus reset, whereas `:867` says
   that a new endpoint session starts. (`FlagsTrackEndpoints` is weaker once
   `halts` is not 0; `CommandEndpointListens` is checked with `MaxHalt = 0`.)
7. `wchlink_transfer.c:350`. A loader of fixed length is ready with its last
   word; 0x02 then opens the flash phase without the initialisation that the
   comment at `:293` says comes first. (`FlashAfterInitialize` is checked and proved for a
   host in the order of the flash tools, `Orderly = TRUE`.) Such a host may also
   open, with a second 0x07, a phase in which nothing remains to be programmed:
   it swallows data and answers nothing (`:332`).
8. `wchlink_usb.c:483`. The deadline wraps with the microsecond counter, the
   comparison does not know: every 71.6 minutes, for 100 ms (500 ms at the end
   of a session), a reply is retired at the next look, whereas `:561` gives every
   reply its lifetime. (`UnwrappedReplyKept` is about the other deadlines.)
9. `rvswd_flash_ch58x_59x.c:395-403`. `rewrite_page` enables code mode between
   erasing and programming; that replaces the program buffer, and `access.mode`
   still says "write" from before, so that `open` and the first bytes of its
   command run the wrong program and report success. `program_page` resets the
   mode for the same reason (`:308`). The comment at `:204` says that both start
   from an opened command port.
10. `rvswd_target_v20x.c:328-373`. The cleanup of the V20X erase is skipped until
   its start bit was acknowledged. A failure before leaves MER selected, for the
   next command to start with, which the comment at `:365` wants to prevent.
11. `wchlink_command_target.c:113-160`. A direct DMI command (and, once a hint has
   named a module, the memory-type and Program End commands) asks for no
   connection. After a session has released the debug lines
   (`rvswd_phy_gpio.c:304`: "no IO feeds a target without power") the first one
   drives SWDIO again and leaves it so. A reset without a target answers success.
12. `rvswd_target_connect.c:97-102`. A protected CH32 whose debug module names
    one family is taken for the family the host named: the hint wins.
    `IdentityProved` allows for it.
13. `rvswd_flash_option.c:322`, `:734`. A write protection error left by a
    refused erase makes the next option write give up after it has erased the
    option bytes, which leaves the target protected; and whether to protect is
    decided by the protection loaded at the last reset, not by the bytes.
14. `rvswd_transport.c:164`. A write is repeated when only its acknowledgement was
    lost, which runs a command twice, or stores a word twice under autoexec.
    `rvswd_debug.c:75` writes `DATA0` before it clears `cmderr`: when the module
    is still busy, the old `DATA0` goes into the register. A reset that fails after
    `ndmreset` was set leaves the target in reset (`rvswd_reset.c:14`).
15. `status_led.c:94`. A result deadline of 0 means none and is also what the sum
    may be when the millisecond counter wraps; and `status_led_set_state` reads
    the time before it disables interrupts. Nothing depends on the LED.

## 5. Proofs

**WchlinkUsb**, for every number of commands, packets, bus resets and halts and
for every host (assumption `UsbAssumption`: the bounds are naturals, at least one
command and one packet). The flags of one endpoint are not an
invariant by themselves: whether a flag may be set without its transfer depends
on where the main loop is. `Inv` therefore adds to `TypeOK`, for each endpoint, what
holds at each position of the loop (`RequestInv`, `ResponseInv`, `DataInInv`,
`DataOutInv`), what command the loop holds (`CommandInv`) and that an open phase
has packets left (`PhaseInv`). From it follow `TypeCorrect`, `FlagsInStep`,
`NoSharing`, `CommandsKept`, `RepliesRetired`. `Refinement` shows that every
step of the adapter is a step of `UsbMailbox` or changes nothing there.

With a patient host on a bus without resets and cleared halts (`CalmHost`, the
host of `usb_patient_host`; still any number of commands and packets) `HostInv`
ties what the host waits for to the adapter: `CalmInv` says that the endpoints
listen when the host may use them, `ReplyInv` where the answer to the last
command is while the host waits for it, `WindowInv` which packets of which
operation may be under way, `OpInv` that the session's open operation is the
host's. The last is needed because the adapter asks the session for its data
phase anew in each iteration, before and after the command that ends it. From it follow
`DataMeetsItsOperation` and `ReplyIsForLastCommand`.

**WchlinkTransfer**, for every size of packet, chunk, loader, flash and image,
every profile and hosts in any order (`TransferAssumption`: sizes are not zero,
a chunk is a whole number of packets and the flash of chunks, as the C constants
are). `ChunkOnImage` speaks only of the flash phase and is not inductive:
`RangeInv` says for all phases that what remains ends where the image ends.
`LoaderInv` counts the words of the loader in the target while it is sent. The
lemmas about division (`RoundUpWithin`, `PageInSector`) and about one packet
(`PacketFacts`: a packet never leaves its transfer, and the words stored follow
it up to the end of the chunk) carry the arithmetic. From `Inv`: `TypeCorrect`,
`CursorsStayOnImage`, `ReadyIsWhole`, `OneUser`, and the action property
`FlashKept`. `FlashIsInitialized` proves `FlashAfterInitialize` for hosts that keep
to the order of the phases, from an invariant of its own (`HostInv`): a host that
sends chunks has a target, and nothing has undone the loader's initialisation
without stopping it.

The second half follows the words themselves, for images of every length.
`ChecksumOfRun` and `PatchKeepsPage` hold for any host: `CollectInv` says which
words of which image the buffer holds while a chunk is collected, and `SumInv`
that the checksum is the sequence of exactly those words, the page fill
included. `AnsweredStaysProgrammed` is for hosts in the order of the phases and
for those any image, loader profile and failure, provided that no non-zero value of
the loader ends in the byte 0x04 (`ComplaintsDiffer`, a premise of the theorem;
without it the run `transfer_result_byte` is the counterexample): `StartInv` and `AheadInv` place the image and say that what
lies ahead of the cursor is erased or irrelevant, `SentInv` says that what the host has sent
and not yet been answered for is in the buffer, and the chunk a run programs
begins where the answered words end. The attempt to prove `ReadPageIsKept` as it
first was failed for a reason: a reply "patched" that nobody has read, followed
by an erase that fails, may meet a second partial write half done.
`PartialAnswered` now says which partial write a reply belongs to.

**WchlinkSession**, for every set of modules, every number of attempts and
cycles and a target that changes at any time (`SessionAssumption`: the modules
are among those of the registry, the counts are not zero). `LineFitsModule`
alone is not inductive: a connection changes the frame format and the speed
while it tries, and would break it if it started from a connected session.
`WhileConnecting` says that it does not, that the erase which may follow a
connection has one, and that no status of a resume waits meanwhile.
There is one lemma per action. `LineAlwaysFits`, `PhasesEndWithSession` and
`StatusIsNext` follow from `SessionInvariant`; `ModuleTakenForReason` looks at
the three steps that can end in a connection and at what they found
(`FoundForReason`), every other command keeping `connected` or clearing it.

**BspTime**, for counters of every width, every divisor of one unit and all
lifetimes. What the loop of `counter_to_units` computes is an induction over its
bits, and the induction theorems of the library cannot be applied by the provers
installed here. The proofs take the least counterexample instead (`WFMin` for `<`
on the naturals, lemma `SetInduction`), and the powers of two from the number of
subsets of a set (`FS_SUBSET`). `ShiftedLast` is the invariant of the loop: after
each bit the quotient and the remainder are those of the bits taken so far, and
the remainder shifted left still fits a half. `ConversionDivides` is the result: the function is
`counter \div TicksPerUnit`, modulo the width of a half. On it rest `NoTornTime`
(`ReadingInv`: how far the counter has gone since each half was read, with the
carries in between) and `ReplyKeepsLifetime` (`AgeInv`: a pending reply
was armed `age` ticks ago, at the time its deadline was computed from, whatever
carried or wrapped since). `NoTornTime` showed that the assumption on `MaxDrift`
was too weak as it first stood (see the bounds above).

**RvswdFlash**, for every set of the four families, all values of the option
bytes and any number of commands and failing accesses (`FamiliesAssumption`,
`BoundsAssumption`; `ValuesAssumption`: no option byte value is the erased one).
What holds before an access depends on the accesses before it, in eleven
programs of 13 to 47 accesses. The proof annotates them instead of
writing an assertion per access, in four steps:

1. *Facts.* A fact names a statement about the state ("armed": the locks are
   open and `idle_control` keeps them open); `Holds(F)` is what a set of facts says.
   `DriveFact` is what the cleanup label relies on, whichever access jumps there.
   "freed" (BSY is not held) is given by any wait that passed and by the start of an
   erase; a wait may time out on a sound link only where it is not yet known.
2. *Flow.* `Flow(op, f, F, x, G)` says, from the text of the access `x` alone, when
   it may lead from the facts `F` to the facts `G`. `Carries` says that a program
   can be annotated so; `CarriesConcat` composes annotations as the driver
   functions call one another, and `ProgramsCarry` concludes that each program of
   each family leads from the facts of a command's start (`FirstFacts`) to those
   of its success (`FinalFacts`). No state appears in this step.
3. *Soundness.* One lemma per kind of access: if `Holds(F)` and the flow allows
   it, then after the access `Holds(G)` (`Result`), and a failed access leaves what
   the cleanup or the next command needs (`Returnable`, `FailFlow`).
4. *Invariant.* `FlashInv`: within a program the facts of its annotation hold
   (`Notes`), after a failure the command is at its clean-up write with a reason to
   fail (`FailedInv`; that the jump ends there takes the least of the later
   positions, as in `BspTime`), and between commands `RestInv`, the properties with
   what the next command relies on.

From `FlashInvariance`: `SuccessDoesWhatWasAsked`, `ControllerIsRestored`,
`FailuresHaveACause`, and by the facts before each step `BytesChangeAsRequested` and
`CodeIsErasedOnRequest`. `FailuresHaveACause` rests on two facts: every lock check
meets its lock open, and an option command that changed a byte has passed a wait,
so that BSY, held or not, is no cause once something was erased. A failed V20X erase is the one place where a command
starts with a mode selected (`Left`). What a later V20X command that reads its
`idle_control` then may erase is exempt from `CodeErasedOnlyOnRequest` (finding 10), in the theorem as in
the run.

**RvswdDmi**, for every set of families and of operations, any number of
operations in a row and any number of faults (`FamiliesAssumption`,
`BoundsAssumption`, nothing else). All seven properties of the run are proved.
The method is that of `RvswdFlash`, with three things that are harder: a write
may take effect twice, the debug module has an error of its own that most
accesses do not look at, and what one operation leaves behind (autoexec, an
error, a request, a lock, a hart still in a loader) is there when the next begins.

1. *Facts and annotations* (`RvswdDmiAccessProofs`). An annotation is a pair of
   sets of facts: those known whatever `cmderr` says, and those known only when it
   says "none", for a command that met an error has done nothing, and the code
   learns of it accesses later. `Holds` makes most facts conditional on `Guard`:
   nothing was repeated or lost that they rely on. A few, the open facts
   (`OpenSays`: autoexec off or its loss on record, the diagnosis that of the
   access that failed, a request taken back), hold with no such condition;
   `AutoexecOff` and `FailureLeavesNoTrace` come from these.
2. *Rules.* `Flow(f, op, x, A, B)` says, from the text of the access `x` alone,
   when it may lead from `A` to `B`: what it needs so as to do no harm (`Asks`;
   for instance that a resume which starts a loader has all its arguments set,
   that a word is stored at no neighbour's address), what it gives (`WriteGives`,
   `CommandGives`, `ByteGives`, ...), and what a failed access must know for the
   label it goes to (`Exits`, `Returns`). One lemma per kind of access shows that
   the step of the interpreter obeys its rule in each of its outcomes: passed,
   failed with or without effect, done twice. `SettleHolds` and `HaltHolds` say
   that no annotation is broken by what the module and the hart do in between.
3. *Programs* (`RvswdDmiProgramProofs`). One lemma per function of the drivers,
   composed as the functions call one another, up to `ProgramsCarry`: the program of each
   operation on each family leads from `First` to `Final`. Loops and retries are
   gone by then, for a program is a sequence with labels; `E` gives the facts expected
   at a label, and every access which may go there is shown to know them. The lemma about a piece
   is stated for all facts that the piece leaves alone (`Frame`), so that
   a caller keeps its own: the mailbox while the arguments are set, the
   arguments while the stack is.
4. *Invariant* (`RvswdDmiProofs`). `DmiInv`: while a program runs, some annotation
   of the next access holds and leads by the rule to that of the position after it
   (`Placed`); between operations `Rested`, that is, the neighbours are untouched,
   autoexec is off or recorded, and success or failure mean what the properties say.
   The properties alone are far from inductive: that autoexec is off at the
   end, for example, needs to be known of a clean-up write to which any of a dozen
   failed accesses may have jumped, with the module possibly still busy with the
   repeated command.

`SuccessAlways`, `NeighboursAlways`, `AutoexecAlways`, `FailureAlways` and
`PageAlways` follow from `DmiInv` in the state; `LoaderArmed` and
`WrittenUnlocked` from what the rule of the next access asks. Where the code promises
less, so do the facts: of a V20X that was careless (`Careless`: register writes
whose errors nobody looks at) no register is known, and the theorem keeps the
exemptions that section 3 names.

Only model-checked: all liveness (`CommandNotBlocked`, `ExchangeEnds`,
`CommandEndpointListens`, `FlashPhaseEnds`, `ConnectionEnds`), which is out of
the prover's reach. Every safety and action property that a passing run checks
is stated by a theorem.

## 6. Not modelled

* In the adapter: descriptors, the CDC loopback (its flags and endpoints are its
  own), ENTER_ISP and commands without a reply, the packets within a transfer.
  The packet test of `wchlink_usb.c:527` and the copy that follows are one step;
  a command cannot be received in between because the endpoint is closed.
* In the transfer: packets that are not whole words or exceed 256 bytes (dropped
  by the code), the bytes of a tail, target addresses of buffers, the diagnostics
  of error replies. The host reads the reply of a chunk before it goes on.
* In the session: contents of replies, the power switch, the code of a failed
  connection.
* Below the ports: block reads, delays, the bits, parity and timing of a frame
  (GPIO), the encoding of option bytes beyond "requested, erased or old".
* Loader code on the target is assumed (`LoaderRun`; in `RvswdDmi` a loader that
  ran leaves its result).
* Status LED, button, SBU multiplexer and drivers: they set pins and show
  results, and no other part reads them. Vendor code (`src/sdk`, `src/toolchains`,
  which are most of the lines of the repository) and board set-up have no state
  of this program.

## 7. What remains

In order of importance, for whoever extends this:

1. `UsbPort`: the packets of a transfer, toggles and stalls, implementing the
   whole transfers that `WchlinkUsb` uses.
2. An abstract specification of the target ports, implemented by `RvswdDmi` and
   used by `WchlinkTransfer` in place of its free choice of outcomes.
3. `StatusLed` and the button: deadlines written by the main loop and the timer
   interrupt, with the clock of `BspTime`.
4. Proofs: the refinement of item 2, for which `Final` of `RvswdDmiAccessProofs`
   already says what a successful operation promises.
