----------------------------- MODULE WchlinkSession -----------------------------
(***************************************************************************)
(* The session of a debug host: its commands (session/wchlink_command.c,   *)
(* wchlink_command_target.c, wchlink_command_transfer.c), the status that  *)
(* a resume leaves for the next read (wchlink_direct_dmi_resume.c), and    *)
(* the connection to the target (target/wchlink_target_ports.c and         *)
(* rvswd_target_connect.c), which tries frame formats, attempts and target *)
(* modules in turn.                                                        *)
(*                                                                         *)
(* The main loop runs a command to its end before it takes the next, and a *)
(* bus reset seen by the interrupt waits for it.  A command is one action, *)
(* but for a connection, which takes one step per attempt: the target may  *)
(* be plugged, unplugged or exchanged at any time, also between attempts.  *)
(* Every access of the target may fail; one that succeeds needs a target   *)
(* that understands the frames sent.                                       *)
(*                                                                         *)
(* Of the transfer only what ties it to the session is kept: which phase   *)
(* is open, what the cursor is for, for which module a loader was loaded.  *)
(* WchlinkTransfer has the rest.  The code of a failed connection, the     *)
(* power switch and family_hint_active, which nothing reads, are left out. *)
(***************************************************************************)
EXTENDS Naturals

CONSTANTS
  Modules,        \* target modules of the registry
  ShortProbes,    \* rvswd_target_connect_short_probe_count
  ProbeCycles,    \* rvswd_target_connect_long_probe_cycle_count
  KnownAttempts   \* attempts with a known frame format

AllModules == {"X03X", "L103", "V20X", "V30X", "CH58X", "CH59X"}

ASSUME SessionAssumption ==
  /\ Modules \subseteq AllModules
  /\ ShortProbes \in Nat \ {0} /\ ProbeCycles \in Nat \ {0}
  /\ KnownAttempts \in Nat \ {0}

VARIABLES
  chip, locked,             \* the target plugged in, and whether its read
                            \* protection is on
  \* struct wchlink_target_ports
  family_hint, requested_speed, connected, module, chip_id,
  packet_mode, fast_timing, \* its struct rvswd_transport
  pins,                     \* debug pins driven by the link
  \* struct wchlink_command_context
  legacy_info_query_seen, status_pending,
  \* struct wchlink_transfer: the phases, what the cursor is for, the module
  \* whose loader was loaded
  in_state, out_state, cursor, loader, loader_ready,
  \* the connection under way: its step, the command it is for, its counters
  at, purpose, cycle, attempt,
  reply                     \* what the last command answered

target == <<chip, locked>>
host == <<family_hint, requested_speed>>
ports == <<connected, module, chip_id>>
transport == <<packet_mode, fast_timing>>
context == <<legacy_info_query_seen, status_pending>>
transfer == <<in_state, out_state, cursor, loader, loader_ready>>
progress == <<at, purpose, cycle, attempt>>
vars == <<target, host, ports, transport, pins, context, transfer,
          progress, reply>>

-----------------------------------------------------------------------------
(* The registry *)

NoModule == "none"
Slot == Modules \cup {NoModule}

\* rvswd_target_registry_module_from_family: a family without a module, and
\* the generic family a host sends when it knows none, give no module.
Families == Slot
ModuleOf(family) == family

Mode(m) == IF m = "CH58X" THEN "long" ELSE "short"
Legacy(m) == m \in {"CH58X", "CH59X"}
ModeOf(m) == IF m = NoModule THEN "short" ELSE Mode(m)

\* SetSpeed: 0 stands for never requested, 3 for the slowest.
Speeds == {0, 1, 3}
Fast(speed) == speed # 3

\* What a command answers, as far as a property tells answers apart.
Replies == {"done", "failed", "info", "resumed"}

Init ==
  /\ chip \in Slot /\ locked \in BOOLEAN /\ (locked => chip # NoModule)
  /\ family_hint = NoModule /\ requested_speed = 0
  /\ connected = FALSE /\ module = NoModule /\ chip_id = NoModule
  /\ packet_mode = "short" /\ fast_timing = FALSE
  /\ pins = {}
  /\ legacy_info_query_seen = FALSE /\ status_pending = FALSE
  /\ in_state = "idle" /\ out_state = "idle" /\ cursor = "none"
  /\ loader = NoModule /\ loader_ready = FALSE
  /\ at = "idle" /\ purpose = "none" /\ cycle = 0 /\ attempt = 0
  /\ reply = "done"

\* The world: targets come, go and are exchanged.
TargetChanges ==
  /\ chip' \in Slot /\ locked' \in BOOLEAN /\ (locked' => chip' # NoModule)
  /\ UNCHANGED <<host, ports, transport, pins, context, transfer,
                 progress, reply>>

\* Whether the target understands the frames sent; an access that succeeds
\* needs that, and any access leaves SWDIO driven.
Answers == chip # NoModule /\ Mode(chip) = packet_mode
Access(ok) == (ok => Answers) /\ pins' = pins \cup {"SWDIO"}

\* Fault: a command leaves the status of a resume to a later one.
Begins_KeepsStatus == at = "idle" /\ UNCHANGED <<status_pending, progress>>

\* wchlink_command_process: a command runs between two others, and every one
\* but the read of DMSTATUS drops the status that a resume left.
Begins == at = "idle" /\ status_pending' = FALSE /\ UNCHANGED progress

Outcome(ok) == reply' = IF ok THEN "done" ELSE "failed"

-----------------------------------------------------------------------------
(* The end of a session *)

ClearOperation ==
  /\ in_state' = "idle" /\ out_state' = "idle" /\ cursor' = "none"
  /\ loader' = NoModule /\ loader_ready' = FALSE

Disconnect == connected' = FALSE /\ module' = NoModule /\ pins' = {}

\* Fault: the transfer survives the session.
CommandReset_KeepsTransfer ==
  /\ Disconnect
  /\ legacy_info_query_seen' = FALSE
  /\ UNCHANGED <<transfer, chip_id, host, transport>>

\* wchlink_command_reset.
CommandReset ==
  /\ Disconnect
  /\ legacy_info_query_seen' = FALSE
  /\ ClearOperation
  /\ UNCHANGED <<chip_id, host, transport>>

\* IDENTIFY, switching the power off, and a bus reset, which the main loop takes
\* between commands.
EndSession ==
  /\ Begins /\ CommandReset
  /\ reply' = "done"
  /\ UNCHANGED target

\* STOP: the legacy information is asked for after the reset, when there is no
\* module left to give it.
UsesLegacyInfo == module # NoModule /\ Legacy(module)
Stop ==
  /\ Begins /\ CommandReset
  /\ reply' = IF legacy_info_query_seen /\ UsesLegacyInfo THEN "failed" ELSE "done"
  /\ UNCHANGED target

-----------------------------------------------------------------------------
(* Connecting *)

\* wchlink_target_ports_init and the head of the connection: a known module
\* goes straight to its frame format.
TargetInit(family) ==
  /\ connected' = FALSE /\ chip_id' = NoModule
  /\ module' = ModuleOf(family)
  /\ packet_mode' = ModeOf(module')
  /\ fast_timing' = FALSE
  /\ pins' = {"SWCLK"}
  /\ at' = IF module' = NoModule THEN "long" ELSE "known"
  /\ cycle' = 0 /\ attempt' = 0

StartsConnection(for) ==
  /\ at = "idle" /\ status_pending' = FALSE
  /\ purpose' = for
  /\ UNCHANGED <<target, requested_speed, reply>>

Connect ==
  /\ StartsConnection("connect")
  /\ TargetInit(family_hint)
  /\ legacy_info_query_seen' = FALSE /\ ClearOperation
  /\ UNCHANGED family_hint

\* SET_CHIP_TYPE connects when there is no connection, without a reset.
SetChipType ==
  /\ ~connected
  /\ StartsConnection("chip_type")
  /\ TargetInit(family_hint)
  /\ UNCHANGED <<family_hint, legacy_info_query_seen, transfer>>

\* Both commands that erase the whole flash connect first when they have to;
\* flash command 0x01 clears the operation before, CLEAR_CODE_FLASH, which
\* brings the family, after.
EraseFlash ==
  /\ StartsConnection("erase")
  /\ ClearOperation
  /\ IF connected
     THEN at' = "erase" /\ UNCHANGED <<ports, transport, pins, cycle, attempt>>
     ELSE TargetInit(family_hint)
  /\ UNCHANGED <<family_hint, legacy_info_query_seen>>

ClearCodeFlash(family) ==
  /\ StartsConnection("clear")
  /\ IF connected
     THEN /\ at' = "erase"
          /\ UNCHANGED <<ports, transport, pins, cycle, attempt, family_hint>>
     ELSE TargetInit(family) /\ family_hint' = family
  /\ UNCHANGED <<legacy_info_query_seen, transfer>>

\* rvswd_target_connect_identify: the modules found, with the chip id read.  The
\* ids of the modules differ, so only the chip's own module takes its id.  A
\* CH32 with read protection hides its id (a V30X shows it in the debug module):
\* then the host's module is taken on its word when it sees the protection.  On
\* a CH58X or CH59X, which has no protection, locked says what lies there.
IdReadable(m) == ~locked \/ Legacy(m) \/ m = "V30X"
Named == {[module |-> m, id |-> m] :
            m \in {c \in Modules : c = chip /\ Mode(c) = packet_mode /\ IdReadable(c)}}

\* Fault: every module is taken on its word.
Identified_AnyModule ==
  Named \cup {[module |-> m, id |-> NoModule] :
                m \in {h \in Modules : Mode(h) = packet_mode /\ ~Legacy(h)
                                       /\ locked /\ Answers}}

Identified ==
  Named \cup {[module |-> m, id |-> NoModule] :
                m \in {h \in Modules : h = module /\ Mode(h) = packet_mode
                                       /\ ~Legacy(h) /\ locked /\ Answers}}

\* The module found is locked in, and the speed requested is set again.
Connected(found) ==
  /\ module' = found.module /\ chip_id' = found.id /\ connected' = TRUE
  /\ fast_timing' = (requested_speed # 0 /\ Fast(requested_speed))
  /\ IF purpose \in {"erase", "clear"}
     THEN at' = "erase" /\ UNCHANGED <<purpose, reply>>
     ELSE at' = "idle" /\ purpose' = "none" /\ reply' = "done"
  /\ cycle' = 0 /\ attempt' = 0
  /\ UNCHANGED packet_mode

ConnectStep ==
  UNCHANGED <<target, host, context, transfer>>

\* 202 long frames wake a CH58X; whatever they return, short frames follow.
LongProbe ==
  /\ at = "long" /\ ConnectStep
  /\ pins' = pins \cup {"SWDIO"}
  /\ packet_mode' = "short"
  /\ at' = "short" /\ attempt' = 0
  /\ UNCHANGED <<ports, fast_timing, purpose, cycle, reply>>

\* An attempt with short frames: unlock, halt, identify.
ShortAttempt ==
  /\ at = "short" /\ ConnectStep
  /\ pins' = pins \cup {"SWDIO"}
  /\ \E found \in Identified : Connected(found)

ShortAttemptFails ==
  /\ at = "short" /\ ConnectStep
  /\ pins' = pins \cup {"SWDIO"}
  /\ IF attempt + 1 < ShortProbes
     THEN attempt' = attempt + 1 /\ UNCHANGED <<at, cycle, packet_mode>>
     ELSE IF cycle + 1 < ProbeCycles
     THEN at' = "long" /\ cycle' = cycle + 1 /\ attempt' = 0 /\ packet_mode' = "long"
     ELSE at' = "known" /\ cycle' = 0 /\ attempt' = 0 /\ packet_mode' = "long"
  /\ UNCHANGED <<ports, fast_timing, purpose, reply>>

\* An attempt with the frame format of the module: unlock, halt, signature or
\* version of the debug module, identify.
KnownAttempt ==
  /\ at = "known" /\ ConnectStep
  /\ pins' = pins \cup {"SWDIO"}
  /\ \E found \in Identified : Connected(found)

\* Fault: after the last attempt with long frames they are tried again.
KnownAttemptFails_Again ==
  /\ at = "known" /\ ConnectStep
  /\ pins' = pins \cup {"SWDIO"}
  /\ attempt' = IF attempt + 1 < KnownAttempts THEN attempt + 1 ELSE 0
  /\ packet_mode' = IF attempt + 1 < KnownAttempts THEN packet_mode ELSE "long"
  /\ UNCHANGED <<at, purpose, cycle, ports, fast_timing, reply>>

\* After the last attempt with short frames come long ones; after those the
\* connection has failed, and the module stays the host's.
KnownAttemptFails ==
  /\ at = "known" /\ ConnectStep
  /\ pins' = pins \cup {"SWDIO"}
  /\ IF attempt + 1 < KnownAttempts
     THEN attempt' = attempt + 1 /\ UNCHANGED <<at, purpose, packet_mode, connected, reply>>
     ELSE IF packet_mode = "short"
     THEN /\ attempt' = 0 /\ packet_mode' = "long"
          /\ UNCHANGED <<at, purpose, connected, reply>>
     ELSE /\ at' = "idle" /\ purpose' = "none" /\ attempt' = 0
          /\ connected' = FALSE /\ reply' = "failed"
          /\ UNCHANGED packet_mode
  /\ UNCHANGED <<cycle, module, chip_id, fast_timing>>

\* The erase of the two erase commands.
EraseAll(ok) ==
  /\ at = "erase" /\ Access(ok)
  /\ at' = "idle" /\ purpose' = "none" /\ Outcome(ok)
  /\ IF ok /\ purpose = "clear" THEN ClearOperation ELSE UNCHANGED transfer
  /\ UNCHANGED <<target, host, ports, transport, context, cycle, attempt>>

-----------------------------------------------------------------------------
(* Commands to a target *)

\* Fault: a hint given in a session moves the transport to its frame format.
SetFamilyHint_Always(family) ==
  /\ family_hint' = family
  /\ IF connected THEN UNCHANGED module ELSE module' = ModuleOf(family)
  /\ packet_mode' = ModeOf(ModuleOf(family))

\* The hint chooses module and frame format, but not while connected.
SetFamilyHint(family) ==
  /\ family_hint' = family
  /\ IF connected
     THEN UNCHANGED <<module, packet_mode>>
     ELSE module' = ModuleOf(family) /\ packet_mode' = ModeOf(module')

SetSpeed(family, speed) ==
  /\ Begins
  /\ SetFamilyHint(family)
  /\ requested_speed' = speed /\ fast_timing' = Fast(speed)
  /\ reply' = "done"
  /\ UNCHANGED <<target, connected, chip_id, pins,
                 legacy_info_query_seen, transfer>>

\* INFO: the legacy layout needs no access, the other reads four words; without
\* a module there is nothing to read.
Info(ok) ==
  /\ Begins
  /\ legacy_info_query_seen' = (legacy_info_query_seen \/ UsesLegacyInfo)
  /\ IF module = NoModule THEN ~ok /\ UNCHANGED pins
     ELSE IF Legacy(module) THEN ok /\ UNCHANGED pins
     ELSE Access(ok)
  /\ reply' = IF ok THEN "info" ELSE "failed"
  /\ UNCHANGED <<target, host, ports, transport, transfer>>

\* A command that accesses the target through its module when this holds, and
\* is otherwise answered at once.
TargetCommand(reaches, answer) ==
  /\ Begins
  /\ IF reaches
     THEN \E ok \in BOOLEAN : Access(ok) /\ Outcome(ok)
     ELSE reply' = answer /\ UNCHANGED pins
  /\ UNCHANGED <<target, host, ports, transport, legacy_info_query_seen,
                 transfer>>

\* CONFIG: protection and option bytes; a legacy target is never protected.
Config ==
  \/ TargetCommand(connected, "failed")
  \/ connected /\ UsesLegacyInfo /\ TargetCommand(FALSE, "done")

\* Memory allocation: nothing asks for a connection, the module is enough;
\* SET_CHIP_TYPE with a connection reads it too.
MemoryType == TargetCommand(module # NoModule, "failed")

\* The resets answer a host without a target as if they had done it.
Reset == TargetCommand(connected, "done")

\* QE, power on, HOLD, RESET_LOW, Prepare, the device mode, unknown and short
\* commands.
Plain ==
  \/ TargetCommand(FALSE, "done")
  \/ TargetCommand(FALSE, "failed")

-----------------------------------------------------------------------------
(* Debug module accesses of the host, with or without a session *)

DmiUnchanged ==
  UNCHANGED <<target, host, ports, transport, legacy_info_query_seen,
              transfer, progress>>

\* A read of DMSTATUS right after a resume is answered from its status.
DmiReadStored ==
  /\ at = "idle" /\ status_pending
  /\ status_pending' = FALSE /\ reply' = "done"
  /\ UNCHANGED pins /\ DmiUnchanged

DmiReadStatus(ok) ==
  /\ at = "idle" /\ ~status_pending
  /\ Access(ok) /\ Outcome(ok)
  /\ UNCHANGED status_pending /\ DmiUnchanged

DmiAccess(ok) ==
  /\ at = "idle" /\ status_pending' = FALSE
  /\ Access(ok) /\ Outcome(ok)
  /\ DmiUnchanged

\* A write of DMCONTROL that asks for a resume waits for it, and keeps the
\* status for a host that does not poll.
DmiResume(ok) ==
  /\ at = "idle" /\ Access(ok)
  /\ status_pending' = ok
  /\ reply' = IF ok THEN "resumed" ELSE "failed"
  /\ DmiUnchanged

-----------------------------------------------------------------------------
(* Transfers *)

TransferCommand ==
  UNCHANGED <<target, host, ports, transport, legacy_info_query_seen>>

PrepareWrite ==
  /\ Begins /\ TransferCommand
  /\ in_state' = "idle" /\ out_state' = "idle" /\ cursor' = "write"
  /\ loader' = NoModule /\ loader_ready' = FALSE
  /\ reply' = "done" /\ UNCHANGED pins

PrepareRead ==
  /\ Begins /\ TransferCommand
  /\ in_state' = "idle" /\ out_state' = "idle" /\ cursor' = "read"
  /\ loader' = NoModule /\ loader_ready' = FALSE
  /\ reply' = "done" /\ UNCHANGED pins

BeginRead ==
  /\ Begins /\ TransferCommand
  /\ in_state' = IF connected /\ cursor = "read" THEN "reading" ELSE in_state
  /\ reply' = "done"
  /\ UNCHANGED <<pins, out_state, cursor, loader, loader_ready>>

PartialWrite ==
  /\ Begins /\ TransferCommand
  /\ out_state' = IF connected THEN "partial" ELSE out_state
  /\ Outcome(connected)
  /\ UNCHANGED <<pins, in_state, cursor, loader, loader_ready>>

StartLoader ==
  /\ Begins /\ TransferCommand
  /\ IF connected /\ cursor = "write"
     THEN /\ out_state' = "loader" /\ loader' = module /\ loader_ready' = FALSE
          /\ reply' = "done"
     ELSE reply' = "failed" /\ UNCHANGED <<out_state, loader, loader_ready>>
  /\ UNCHANGED <<pins, in_state, cursor>>

\* 0x07 and 0x0b initialise a loader that is whole: one of variable length when
\* some of it came.
FinishLoader(whole, ok) ==
  /\ Begins /\ TransferCommand
  /\ whole => loader_ready \/ (loader # NoModule /\ Legacy(loader))
  /\ loader # NoModule /\ ~Legacy(loader) => (whole = loader_ready)
  /\ ok => whole
  /\ IF whole THEN Access(ok) ELSE UNCHANGED pins
  /\ out_state' = IF ok THEN "flash" ELSE "idle"
  /\ loader_ready' = IF whole THEN ok ELSE loader_ready
  /\ Outcome(ok)
  /\ UNCHANGED <<in_state, cursor, loader>>

StartFlash ==
  /\ Begins /\ TransferCommand
  /\ IF loader_ready /\ cursor = "write"
     THEN out_state' = "flash" /\ reply' = "done"
     ELSE reply' = "failed" /\ UNCHANGED out_state
  /\ UNCHANGED <<pins, in_state, cursor, loader, loader_ready>>

\* 0x08: the target is reset and halted by its module, the transfer aborted
\* whether that succeeds or not.
ProgramEnd ==
  /\ Begins /\ TransferCommand
  /\ IF module # NoModule
     THEN \E ok \in BOOLEAN : Access(ok) /\ Outcome(ok)
     ELSE reply' = "failed" /\ UNCHANGED pins
  /\ ClearOperation

\* Data of a phase: it goes on or ends; the last word of a loader of fixed
\* length makes it ready, the end of an image ends its cursor.
DataOut ==
  /\ at = "idle" /\ pins' = pins \cup {"SWDIO"}
  /\ \/ out_state = "partial" /\ out_state' = "idle" /\ UNCHANGED <<cursor, loader_ready>>
     \/ /\ out_state = "loader" /\ ~Legacy(loader)
        /\ out_state' = "idle" /\ loader_ready' \in BOOLEAN /\ UNCHANGED cursor
     \/ /\ out_state = "flash" /\ cursor = "write"
        /\ out_state' = "idle" /\ cursor' \in {"write", "none"} /\ UNCHANGED loader_ready
     \/ out_state # "idle" /\ UNCHANGED <<out_state, cursor, loader_ready>>
  /\ UNCHANGED <<target, host, ports, transport, context, progress,
                 in_state, loader, reply>>

DataIn ==
  /\ at = "idle" /\ in_state = "reading"
  /\ pins' = pins \cup {"SWDIO"}
  /\ \/ in_state' = "idle" /\ cursor' = "none"
     \/ UNCHANGED <<in_state, cursor>>
  /\ UNCHANGED <<target, host, ports, transport, context, progress,
                 out_state, loader, loader_ready, reply>>

\* A new command while the host has not taken its data: the adapter aborts the
\* transfer (the data may also be the reply of a data phase).
AbandonData ==
  /\ at = "idle" /\ ClearOperation
  /\ UNCHANGED <<target, host, ports, transport, pins, context, progress,
                 reply>>

-----------------------------------------------------------------------------

Connecting ==
  \/ LongProbe \/ ShortAttempt \/ ShortAttemptFails \/ KnownAttempt \/ KnownAttemptFails
  \/ \E ok \in BOOLEAN : EraseAll(ok)

Next ==
  \/ TargetChanges \/ Connecting
  \/ EndSession \/ Stop
  \/ Connect \/ SetChipType \/ EraseFlash
  \/ \E family \in Families : ClearCodeFlash(family)
  \/ \E family \in Families, speed \in Speeds : SetSpeed(family, speed)
  \/ Config \/ MemoryType \/ Reset \/ Plain \/ DmiReadStored
  \/ \E ok \in BOOLEAN : Info(ok) \/ DmiReadStatus(ok) \/ DmiAccess(ok) \/ DmiResume(ok)
  \/ PrepareWrite \/ PrepareRead \/ BeginRead \/ PartialWrite \/ StartLoader
  \/ \E whole, ok \in BOOLEAN : FinishLoader(whole, ok)
  \/ StartFlash \/ ProgramEnd \/ DataOut \/ DataIn \/ AbandonData

\* The main loop does not leave a connection unfinished.
Spec == Init /\ [][Next]_vars /\ WF_vars(Connecting)

-----------------------------------------------------------------------------
(* Properties *)

TargetType == chip \in Slot /\ locked \in BOOLEAN
PortsType ==
  /\ family_hint \in Families /\ requested_speed \in Speeds
  /\ connected \in BOOLEAN /\ module \in Slot /\ chip_id \in Slot
  /\ packet_mode \in {"short", "long"} /\ fast_timing \in BOOLEAN
  /\ pins \in SUBSET {"SWCLK", "SWDIO"}
TransferType ==
  /\ in_state \in {"idle", "reading"}
  /\ out_state \in {"idle", "loader", "flash", "partial"}
  /\ cursor \in {"none", "read", "write"}
  /\ loader \in Slot /\ loader_ready \in BOOLEAN
CommandType ==
  /\ legacy_info_query_seen \in BOOLEAN /\ status_pending \in BOOLEAN
  /\ at \in {"idle", "long", "short", "known", "erase"}
  /\ purpose \in {"none", "connect", "chip_type", "erase", "clear"}
  /\ cycle \in Nat /\ attempt \in Nat
  /\ reply \in Replies
TypeOK == TargetType /\ PortsType /\ TransferType /\ CommandType

\* However it was reached, and whatever speed and family the host asked for
\* since, a connected target is talked to in its module's frame format and at
\* the speed requested: connecting tried other formats and slowed the line down.
LineFitsModule ==
  connected =>
    /\ module # NoModule /\ packet_mode = Mode(module)
    /\ requested_speed # 0 => fast_timing = Fast(requested_speed)

\* No phase of a transfer outlives the session it was opened in, and a loader
\* that is ready is the one of the module connected: the commands that connect
\* without a reset find nothing of an earlier target.
PhaseNeedsSession ==
  /\ in_state # "idle" \/ out_state # "idle" => connected
  /\ loader # NoModule => connected /\ loader = module
  /\ loader_ready \/ out_state \in {"loader", "flash"} => loader # NoModule

\* The status kept by a resume is there only for the command that follows it
\* ("it must not leak across other commands", wchlink_command.c:120).
StatusFollowsResume == status_pending => reply = "resumed"

\* The inductive invariant: beside the parts above, what holds while a
\* connection is under way.
WhileConnecting ==
  /\ at \in {"long", "short", "known"} => ~connected
  /\ at = "erase" => connected
  /\ at # "idle" => ~status_pending
Inv == TypeOK /\ LineFitsModule /\ PhaseNeedsSession /\ StatusFollowsResume
         /\ WhileConnecting

\* A module is locked in only when it has read its own id from the target, or
\* when it is the host's and the target hides its id: never by elimination.
TakesModule ==
  connected' /\ ~connected =>
    \/ module' = chip /\ chip_id' = chip
    \/ module' = module /\ locked
IdentityProved == [][TakesModule]_vars

\* A connection attempt ends, with or without a target: the tries of the three
\* frame sequences do not feed each other.
ConnectionEnds == at # "idle" ~> at = "idle"

\* The comment of STOP (wchlink_command_target.c:376): a host that asked a
\* legacy target for its information gets it again with STOP.
StopGivesInfo ==
  [][Stop /\ connected /\ legacy_info_query_seen /\ UsesLegacyInfo => reply' = "info"]_vars

=============================================================================
