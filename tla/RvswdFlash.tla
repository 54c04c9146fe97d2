----------------------------- MODULE RvswdFlash -----------------------------
(***************************************************************************)
(* The flash drivers of the CH32 targets: erasing the code flash           *)
(* (flash/rvswd_flash_ch32.c, target/rvswd_target_v20x.c) and rewriting    *)
(* the option bytes (flash/rvswd_flash_option.c).  A driver function is a  *)
(* straight line of accesses to the registers of the target's flash        *)
(* controller, every one of which may fail; a failure either returns or    *)
(* goes to the function's "cleanup" label.  The module writes each         *)
(* function as the sequence of its accesses (a program) and runs them with *)
(* one interpreter, one access per step.                                   *)
(*                                                                         *)
(* An access fails when the debug link does.  A write that is reported as  *)
(* failed may have reached the target all the same                         *)
(* (rvswd_debug.c:145), so both outcomes are steps.  The flash controller  *)
(* itself is not code of this repository; it is modelled by what the       *)
(* drivers rely on.                                                        *)
(***************************************************************************)
EXTENDS Naturals, Sequences, FiniteSets

CONSTANTS
    Families,     \* target families of the instance
    UserValues,   \* values of the USER option byte (memory type and flags)
    RestValues,   \* values of the DATA and write protection option bytes
    Protecting,   \* those of them that write protect the code flash
    MaxFaults,    \* bound: accesses that fail in a behaviour
    MaxCommands   \* bound: commands the host sends in a behaviour

ASSUME FamiliesAssumption == Families \subseteq {"X03X", "L103", "V20X", "V30X"}
ASSUME BoundsAssumption == MaxFaults \in Nat /\ MaxCommands \in Nat
ASSUME ValuesAssumption ==
    /\ UserValues \cap {"erased"} = {} /\ RestValues \cap {"erased"} = {}
    /\ UserValues # {} /\ RestValues # {} /\ Protecting \subseteq RestValues

VARIABLES
    family,    \* family of the connected target
    \* the target's flash controller
    ctlr,      \* bits that are set in FLASH_CTLR
    keyed,     \* key registers that hold the first key of an unlock sequence
    sealed,    \* a V20X erased since its last reset: it takes no key sequence
    held,      \* STATR.BSY is set although nothing has been started (V20X)
    wrperr,    \* STATR.WRPRTERR
    wprot,     \* write protection of the code flash as loaded by the last reset
    code,      \* the code flash holds an application
    image,     \* the option bytes: RDP, USER and the DATA and WRP bytes
    buffer,    \* page buffer of the fast programming mode
    obr,       \* read protection as loaded by the last reset
    \* the driver
    cmd,       \* command in progress, or the last one
    pc,        \* next access of its program, 0 when no command runs
    control,   \* local: last value read from FLASH_CTLR
    idle,      \* local idle_control
    words,     \* local option_words
    good,      \* local success
    flash_code, \* operation->flash_code: the access that failed, 0 for none
    \* bookkeeping of the model
    before,    \* option bytes when the command started
    faults, commands,
    dirty      \* a clean-up write failed since the last reset

target == <<ctlr, keyed, sealed, held, wrperr, wprot, code, image, buffer, obr>>
locals == <<control, idle, words, good, flash_code>>
vars == <<family, target, cmd, pc, locals, before, faults, commands, dirty>>

Modes == {"MER", "OPTER", "OPTPG", "FTPG", "BUFLOAD", "BUFRST"}
Locks == {"LOCK", "FLOCK"}
ControlBits == Modes \cup Locks \cup {"OPTWRE"}
Slots == {"rdp", "user", "rest"}
Blank == [s \in Slots |-> "erased"]
Images == [rdp : {"protected", "unprotected", "erased"},
           user : UserValues \cup {"erased"}, rest : RestValues \cup {"erased"}]

\* profile->option_write and profile->memory_type_supported of the families.
HalfwordWrite(f) == f \in {"V20X", "V30X"}
MemoryTypeSupported(f) == f \in {"V20X", "V30X"}
OptionBytesSupported(f) == f # "V20X"

-----------------------------------------------------------------------------
(* Programs.  "fail" says where a failed access goes: the function returns  *)
(* or jumps to its cleanup label.                                           *)

Wait(f)        == <<[do |-> "wait", fail |-> f]>>
ReadCtlr(f)    == <<[do |-> "read", fail |-> f]>>
Key(reg, n, when, f) == [do |-> "key", reg |-> reg, key |-> n, when |-> when, fail |-> f]
Unlocked(off, on, f) == <<[do |-> "check", off |-> off, on |-> on, fail |-> f]>>
Idle(clear)    == <<[do |-> "idle", clear |-> clear, fail |-> "return"]>>
Write(bits, f) == <<[do |-> "ctl", bits |-> bits, fail |-> f]>>
Protected(f)   == <<[do |-> "wrp", fail |-> f]>>
Cleanup(clear, set) == <<[do |-> "clean", clear |-> clear, set |-> set, fail |-> "return"]>>
Reset          == <<[do |-> "reset", fail |-> "return"]>>

\* Two writes of the keys to one key register; `when`: the bits of the control
\* word read last for which the code writes them at all.
Keys(reg, when, f) == <<Key(reg, 1, when, f), Key(reg, 2, when, f)>>

\* rvswd_flash_option_unlock with the fast mode.
OptionUnlock(f) == Keys("main", {}, f) \o Keys("fast", {}, f) \o Keys("option", {}, f)

\* Fault: every family unlocks like the ones that need no option unlock
\* and the fast mode is forgotten.
EraseUnlock_MainOnly(fam) == Keys("main", {"LOCK"}, "return")

\* The unlock of rvswd_flash_ch32_erase_all by profile->erase_unlock.
EraseUnlock(fam) ==
    IF fam = "L103"
    THEN Keys("main", Locks, "return") \o Keys("option", Locks, "return")
           \o Keys("fast", Locks, "return")
    ELSE Keys("main", {"LOCK"}, "return") \o Keys("fast", {"FLOCK"}, "return")

\* Fault: the clean-up takes the start bit back and leaves MER.
EraseAllCh32_KeepsMode(fam) ==
    Wait("return") \o ReadCtlr("return") \o EraseUnlock(fam) \o ReadCtlr("return")
      \o Unlocked(Locks, {}, "return") \o Idle({})
      \o Write({"MER"}, "cleanup") \o Write({"MER", "STRT"}, "cleanup")
      \o Wait("cleanup") \o Protected("cleanup") \o Cleanup({}, {"MER"})

\* rvswd_flash_ch32_erase_all
EraseAllCh32(fam) ==
    Wait("return") \o ReadCtlr("return") \o EraseUnlock(fam) \o ReadCtlr("return")
      \o Unlocked(Locks, {}, "return") \o Idle({"MER"})
      \o <<[do |-> "clearstatus", fail |-> "cleanup"]>>
      \o Write({}, "cleanup") \o Write({"MER"}, "cleanup") \o Write({"MER", "STRT"}, "cleanup")
      \o Wait("cleanup") \o Protected("cleanup") \o Cleanup({}, {})

\* rvswd_target_v20x_erase_all: nothing is cleaned up before the start bit has
\* been written, and a completed erase is followed by a reset.
EraseAllV20x ==
    Keys("main", {}, "return") \o Keys("fast", {}, "return") \o ReadCtlr("return")
      \o Idle({"MER"}) \o Write({"MER"}, "return") \o ReadCtlr("return")
      \o <<[do |-> "start", fail |-> "return"]>>
      \o Wait("cleanup") \o Protected("cleanup") \o Cleanup({}, {}) \o Reset

\* Erasing the option bytes, the part the three option programs share.
OptionErase(off, clear) ==
    Wait("return") \o ReadCtlr("return") \o OptionUnlock("return") \o ReadCtlr("return")
      \o Unlocked(off, {"OPTWRE"}, "return") \o Idle(clear)
      \o Write({"OPTER"}, "cleanup") \o Write({"OPTER", "STRT"}, "cleanup")
      \o Wait("cleanup") \o Protected("cleanup") \o ReadCtlr("cleanup")

Halfword(slot) ==
    Write({"OPTPG"}, "cleanup") \o <<[do |-> "half", slot |-> slot, fail |-> "cleanup"]>>
      \o Wait("cleanup") \o Protected("cleanup")

\* Fault: the locks are not set again.
WriteHalfword_Unlocked ==
    OptionErase(Locks, {"OPTPG", "OPTER"}) \o OptionUnlock("cleanup") \o ReadCtlr("cleanup")
      \o Idle({"OPTPG", "OPTER"}) \o Halfword("rdp") \o Halfword("user") \o Halfword("rest")
      \o Cleanup({"OPTWRE"}, {})

\* rvswd_flash_option_write_halfword; the eight half words are three slots.
WriteHalfword ==
    OptionErase(Locks, {"OPTPG", "OPTER"}) \o OptionUnlock("cleanup") \o ReadCtlr("cleanup")
      \o Unlocked(Locks, {"OPTWRE"}, "cleanup") \o Idle({"OPTPG", "OPTER"})
      \o Halfword("rdp") \o Halfword("user") \o Halfword("rest")
      \o Cleanup({"OPTWRE"}, Locks)

FastModes == {"OPTER", "FTPG", "BUFLOAD", "BUFRST"}
LoadWord(slots) ==
    Write({"FTPG"}, "cleanup") \o <<[do |-> "word", slots |-> slots, fail |-> "cleanup"]>>
      \o Write({"FTPG", "BUFLOAD"}, "cleanup") \o Wait("cleanup") \o Write({}, "cleanup")

\* Fault: the loop over the words ends one word early.
WriteFastBuffer_OneWord ==
    OptionErase(Locks, FastModes)
      \o Keys("main", {"LOCK"}, "cleanup") \o Keys("fast", {"FLOCK"}, "cleanup")
      \o ReadCtlr("cleanup") \o Idle(FastModes \cup {"OPTWRE"})
      \o Write({"FTPG", "BUFRST"}, "cleanup") \o Wait("cleanup")
      \o LoadWord({"rdp", "user"}) \o Write({"FTPG", "STRT"}, "cleanup") \o Wait("cleanup")
      \o Cleanup({"OPTWRE"}, Locks)

\* rvswd_flash_option_write_fast_buffer; word 0 holds RDP and USER, the other
\* three words are one slot.
WriteFastBuffer ==
    OptionErase(Locks, FastModes)
      \o Keys("main", {"LOCK"}, "cleanup") \o Keys("fast", {"FLOCK"}, "cleanup")
      \o ReadCtlr("cleanup") \o Unlocked(Locks, {}, "cleanup") \o Idle(FastModes \cup {"OPTWRE"})
      \o Write({"FTPG"}, "cleanup") \o Write({"FTPG", "BUFRST"}, "cleanup")
      \o Wait("cleanup") \o Write({}, "cleanup")
      \o LoadWord({"rdp", "user"}) \o LoadWord({"rest"})
      \o Write({"FTPG"}, "cleanup") \o <<[do |-> "address", fail |-> "cleanup"]>>
      \o Write({"FTPG", "STRT"}, "cleanup") \o Wait("cleanup") \o Protected("cleanup")
      \o Cleanup({"OPTWRE"}, Locks)

\* rvswd_flash_option_unprotect: only RDP is written back, and it neither checks
\* nor restores the lock of the fast mode.
Unprotect ==
    OptionErase({"LOCK"}, {"OPTPG", "OPTER"}) \o OptionUnlock("cleanup") \o ReadCtlr("cleanup")
      \o Unlocked({"LOCK"}, {"OPTWRE"}, "cleanup") \o Idle({"OPTPG", "OPTER"})
      \o Halfword("rdp") \o Cleanup({"OPTWRE"}, {"LOCK"})

WriteWords(f) == IF HalfwordWrite(f) THEN WriteHalfword ELSE WriteFastBuffer
ReadWords == <<[do |-> "image", fail |-> "return"]>>
Verify == <<[do |-> "verify", fail |-> "return"]>>
\* rvswd_flash_read_protected inside set_read_protected: before, it ends the
\* command when there is nothing to do, after, it must show the new state.
Status(when, p) == <<[do |-> "status", when |-> when, protect |-> p, fail |-> "return"]>>

\* rvswd_flash_set_read_protected; the other operations in turn.
SetReadProtected(p, f) ==
    Status("before", p)
      \o (IF p \/ HalfwordWrite(f) THEN ReadWords \o WriteWords(f) ELSE Unprotect)
      \o Reset \o Status("after", p)
Operations == {"erase_all", "protect", "unprotect", "set_option_bytes", "set_memory_type"}
ProgramOf(op, f) ==
    CASE op = "erase_all" -> IF f = "V20X" THEN EraseAllV20x ELSE EraseAllCh32(f)
      [] op = "protect" -> SetReadProtected(TRUE, f)
      [] op = "unprotect" -> SetReadProtected(FALSE, f)
      [] op = "set_option_bytes" -> WriteWords(f) \o Reset \o Verify
      [] op = "set_memory_type" -> ReadWords \o WriteWords(f) \o Reset \o Verify
Programs == [op \in Operations |-> [f \in Families |-> ProgramOf(op, f)]]

Commands == [op : {"erase_all", "protect", "unprotect"}]
            \cup [op : {"set_option_bytes"}, user : UserValues, rest : RestValues]
            \cup [op : {"set_memory_type"}, user : UserValues]

\* The function pointers of the family's rvswd_target_flash_ops and
\* rvswd_flash_set_memory_type's first check.
Supported(op, f) ==
    /\ op = "set_option_bytes" => OptionBytesSupported(f)
    /\ op = "set_memory_type" => MemoryTypeSupported(f)

\* What the command makes of the option words it read (or builds).
NewWords(c, read) ==
    CASE c.op = "protect" -> [read EXCEPT !["rdp"] = "protected"]
      [] c.op = "unprotect" -> [read EXCEPT !["rdp"] = "unprotected"]
      [] c.op = "set_option_bytes" ->
            [s \in Slots |-> CASE s = "rdp" -> "unprotected" [] s = "user" -> c.user [] s = "rest" -> c.rest]
      [] c.op = "set_memory_type" -> [read EXCEPT !["user"] = c.user]
      [] OTHER -> read

-----------------------------------------------------------------------------
(* The flash controller. *)

\* A control write: locked, the controller takes only the lock bits.
CtlrAfter(bits) ==
    IF "LOCK" \in ctlr
    THEN ctlr \cup (bits \cap Locks)
    ELSE (bits \cap (Modes \cup Locks)) \cup (ctlr \cap (Locks \cup (bits \cap {"OPTWRE"})))

\* Option bytes that take the read protection away make the controller erase
\* the code flash (rvswd_flash_option.c:778).
Lifts == obr /\ image'.rdp = "unprotected" /\ image.rdp # "unprotected"

\* The start bit runs what the mode bits select: an erase of the code flash, an
\* erase of the option bytes, or the programming of the page buffer.
Starts(bits) == "STRT" \in bits /\ "LOCK" \notin ctlr

\* STATR.BSY before anything is started: the comment on the V20X erase says
\* that a CH32V203 has it set until an erase is started.  Not every V20X need
\* behave so.
BusyBeforeErase == IF family = "V20X" THEN BOOLEAN ELSE {FALSE}

Control(bits) ==
    /\ ctlr' = CtlrAfter(bits)
    /\ held' = (held /\ ~(Starts(bits) /\ bits \cap {"MER", "OPTER"} # {}))
    /\ wrperr' = (wrperr \/ (Starts(bits) /\ "MER" \in bits /\ wprot))
    /\ image' = IF ~Starts(bits) THEN image
                ELSE IF "OPTER" \in bits THEN (IF "OPTWRE" \in ctlr THEN Blank ELSE image)
                ELSE IF "FTPG" \in bits THEN buffer ELSE image
    /\ code' = (code /\ ~(Starts(bits) /\ "MER" \in bits /\ ~wprot) /\ ~Lifts)
    /\ sealed' = (sealed \/ (family = "V20X" /\ Starts(bits) /\ "MER" \in bits /\ ~wprot))
    /\ buffer' = IF "BUFRST" \in bits /\ "LOCK" \notin ctlr THEN Blank ELSE buffer
    /\ UNCHANGED <<keyed, wprot, obr>>

\* A key register takes its two keys in order and clears its lock.
KeyWritten(reg, n) ==
    /\ IF sealed \/ n = 1 \/ reg \notin keyed
       THEN ctlr' = ctlr
       ELSE ctlr' = CASE reg = "main" -> ctlr \ {"LOCK"}
                      [] reg = "fast" -> ctlr \ {"FLOCK"}
                      [] reg = "option" -> IF "LOCK" \in ctlr THEN ctlr ELSE ctlr \cup {"OPTWRE"}
    /\ keyed' = IF n = 1 THEN keyed \cup {reg} ELSE keyed \ {reg}
    /\ UNCHANGED <<sealed, held, wrperr, wprot, code, image, buffer, obr>>

\* Half word programming of erased option bytes.
HalfWritten(slot) ==
    /\ image' = IF "OPTPG" \in ctlr /\ "OPTWRE" \in ctlr /\ image[slot] = "erased"
                THEN [image EXCEPT ![slot] = words[slot]] ELSE image
    /\ code' = (code /\ ~Lifts)
    /\ UNCHANGED <<ctlr, keyed, sealed, held, wrperr, wprot, buffer, obr>>

WordWritten(slots) ==
    /\ buffer' = [s \in Slots |-> IF s \in slots /\ "FTPG" \in ctlr THEN words[s] ELSE buffer[s]]
    /\ UNCHANGED <<ctlr, keyed, sealed, held, wrperr, wprot, code, image, obr>>

\* A reset locks the controller and loads the option bytes.
ResetDone ==
    /\ ctlr' = Locks /\ keyed' = {} /\ held' \in BusyBeforeErase /\ wrperr' = FALSE
    /\ obr' = (image.rdp # "unprotected") /\ wprot' = (image.rest \in Protecting)
    /\ sealed' = FALSE /\ buffer' = Blank
    /\ UNCHANGED <<code, image>>

-----------------------------------------------------------------------------
(* The interpreter. *)

Program == Programs[cmd.op][family]
Step == Program[pc]
Running == pc # 0

Return(ok) == pc' = 0 /\ good' = ok /\ UNCHANGED flash_code
Next1 == IF pc < Len(Program) THEN pc' = pc + 1 /\ UNCHANGED <<good, flash_code>> ELSE Return(good)

\* The cleanup of the function that is running: the next one of the program.
CleanupOf(n) == CHOOSE m \in n + 1..Len(Program) :
                    /\ Program[m].do = "clean"
                    /\ \A k \in n + 1..m - 1 : Program[k].do # "clean"
Fail ==
    /\ pc' = IF Step.fail = "return" THEN 0 ELSE CleanupOf(pc)
    /\ good' = FALSE /\ flash_code' = pc

\* A register access: it succeeds, it fails without an effect or, for a write,
\* it fails with its effect.
Breaks == faults < MaxFaults /\ faults' = faults + 1 /\ Fail
Access(Effect) ==
    \/ Effect /\ Next1 /\ UNCHANGED faults
    \/ (Effect \/ UNCHANGED target) /\ Breaks
Quiet == UNCHANGED <<control, idle, words, dirty>>

\* rvswd_flash_ch32_wait_ready: polls until BSY is clear, gives up on the first
\* read that fails, and after its timeout when the controller stays busy.  A
\* controller that does not finish what was started counts as a fault; one
\* whose BSY is set with nothing started lets the wait time out without any.
StepWait ==
    /\ Running /\ Step.do = "wait"
    /\ \/ ~held /\ Next1 /\ UNCHANGED faults
       \/ held /\ Fail /\ UNCHANGED faults
       \/ Breaks
    /\ Quiet /\ UNCHANGED target

StepRead ==
    /\ Running /\ Step.do = "read"
    /\ Access(UNCHANGED target)
    /\ control' = ctlr
    /\ UNCHANGED <<idle, words, dirty>>

StepKey ==
    /\ Running /\ Step.do = "key"
    /\ IF Step.when # {} /\ Step.when \cap control = {}
       THEN Next1 /\ UNCHANGED <<target, faults>>
       ELSE Access(KeyWritten(Step.reg, Step.key))
    /\ Quiet

StepCheck ==
    /\ Running /\ Step.do = "check"
    /\ IF control \cap Step.off = {} /\ Step.on \subseteq control THEN Next1 ELSE Fail
    /\ Quiet /\ UNCHANGED <<target, faults>>

StepIdle ==
    /\ Running /\ Step.do = "idle"
    /\ idle' = control \ Step.clear /\ Next1
    /\ UNCHANGED <<target, control, words, faults, dirty>>

StepControl ==
    /\ Running /\ Step.do \in {"ctl", "start"}
    /\ Access(Control(IF Step.do = "start" THEN control \cup {"STRT"} ELSE idle \cup Step.bits))
    /\ Quiet

StepStatus ==
    /\ Running /\ Step.do = "wrp"
    /\ IF wrperr THEN Fail ELSE Next1
    /\ Quiet /\ UNCHANGED <<target, faults>>

StepClearStatus ==
    /\ Running /\ Step.do = "clearstatus"
    /\ \/ Access(wrperr' = FALSE
                 /\ UNCHANGED <<ctlr, keyed, sealed, held, wprot, code, image, buffer, obr>>)
       \/ ~wrperr /\ Next1 /\ UNCHANGED <<target, faults>>
    /\ Quiet

StepData ==
    /\ Running /\ Step.do \in {"half", "word", "address"}
    /\ Access(CASE Step.do = "half" -> HalfWritten(Step.slot)
                [] Step.do = "word" -> WordWritten(Step.slots)
                [] Step.do = "address" -> UNCHANGED target)
    /\ Quiet

\* The cleanup label: the mode bits go back, the locks are set again.  A failed
\* write makes the function fail too.
StepCleanup ==
    /\ Running /\ Step.do = "clean"
    /\ \/ /\ Control((idle \ Step.clear) \cup Step.set) /\ UNCHANGED <<dirty, faults>>
          /\ IF good THEN Next1 ELSE Return(FALSE)
       \/ /\ faults < MaxFaults /\ faults' = faults + 1 /\ dirty' = TRUE
          /\ pc' = 0 /\ good' = FALSE /\ flash_code' = IF flash_code = 0 THEN pc ELSE flash_code
          /\ \/ Control((idle \ Step.clear) \cup Step.set)
             \/ UNCHANGED target
    /\ UNCHANGED <<control, idle, words>>

\* rvswd_reset_and_halt: the reset pulse may have been given although a later
\* access of it fails.
StepReset ==
    /\ Running /\ Step.do = "reset"
    /\ \/ ResetDone /\ dirty' = FALSE /\ ((Next1 /\ UNCHANGED faults) \/ Breaks)
       \/ UNCHANGED <<target, dirty>> /\ Breaks
    /\ UNCHANGED <<control, idle, words>>

StepImage ==
    /\ Running /\ Step.do = "image"
    /\ Access(UNCHANGED target)
    /\ words' = NewWords(cmd, image)
    /\ UNCHANGED <<control, idle, dirty>>

StepProtected ==
    /\ Running /\ Step.do = "status"
    /\ \/ /\ UNCHANGED faults
          /\ IF obr = Step.protect
             THEN Return(TRUE)
             ELSE IF Step.when = "before" THEN Next1 ELSE Fail
       \/ Breaks
    /\ Quiet /\ UNCHANGED target

StepVerify ==
    /\ Running /\ Step.do = "verify"
    /\ \/ UNCHANGED faults /\ IF image = words THEN Next1 ELSE Fail
       \/ Breaks
    /\ Quiet /\ UNCHANGED target

\* Fault: option words of the command before are kept.
Command_StaleWords ==
    /\ ~Running /\ commands < MaxCommands /\ commands' = commands + 1
    /\ \E c \in Commands :
          /\ Supported(c.op, family)
          /\ cmd' = c /\ before' = image /\ UNCHANGED words
    /\ pc' = 1 /\ good' = TRUE /\ flash_code' = 0 /\ control' = {} /\ idle' = {}
    /\ UNCHANGED <<family, target, faults, dirty>>

\* The host sends the next command to the target ports.
Command ==
    /\ ~Running /\ commands < MaxCommands /\ commands' = commands + 1
    /\ \E c \in Commands :
          /\ Supported(c.op, family)
          /\ cmd' = c /\ before' = image /\ words' = NewWords(c, Blank)
    /\ pc' = 1 /\ good' = TRUE /\ flash_code' = 0 /\ control' = {} /\ idle' = {}
    /\ UNCHANGED <<family, target, faults, dirty>>

Init ==
    /\ family \in Families
    /\ ctlr = Locks /\ keyed = {} /\ sealed = FALSE /\ held \in BusyBeforeErase /\ wrperr = FALSE
    /\ code = TRUE /\ buffer = Blank
    /\ image \in [rdp : {"protected", "unprotected"}, user : UserValues, rest : RestValues]
    /\ wprot = (image.rest \in Protecting)
    /\ obr = (image.rdp # "unprotected")
    /\ cmd = [op |-> "erase_all"] /\ pc = 0 /\ before = image
    /\ control = {} /\ idle = {} /\ words = Blank /\ good = TRUE /\ flash_code = 0
    /\ faults = 0 /\ commands = 0 /\ dirty = FALSE

Next ==
    \/ Command
    \/ /\ UNCHANGED <<family, cmd, before, commands>>
       /\ \/ StepWait \/ StepRead \/ StepKey \/ StepCheck \/ StepIdle \/ StepControl
          \/ StepStatus \/ StepClearStatus \/ StepData \/ StepCleanup
          \/ StepReset \/ StepImage \/ StepProtected \/ StepVerify

Spec == Init /\ [][Next]_vars

-----------------------------------------------------------------------------
(* Properties. *)

Request == NewWords(cmd, before)
Ended == ~Running /\ commands > 0

(* A command that reports success has done what it was asked: the code flash *)
(* is erased (and a V20X takes the next unlock sequence), the option bytes   *)
(* are the requested ones and loaded.  Neither protecting nor unprotecting   *)
(* verifies the bytes next to RDP: they are kept, but for the unprotect of   *)
(* the fast-buffer families, which leaves them erased.                       *)
SuccessMeansRequested ==
    Ended /\ good =>
        CASE cmd.op = "erase_all" -> ~code /\ ~sealed
          [] cmd.op \in {"protect", "unprotect"} ->
                /\ obr = (cmd.op = "protect")
                /\ \A s \in {"user", "rest"} :
                      \/ image[s] = before[s]
                      \/ cmd.op = "unprotect" /\ ~HalfwordWrite(family) /\ image[s] = "erased"
          [] OTHER -> image = Request /\ obr = (image.rdp # "unprotected")

(* Whatever fails, an option byte only ever changes to its erased value or   *)
(* to the one this command is to write: words of an earlier command, a page  *)
(* buffer that was not cleared or a read that came too late show here.  With *)
(* mode bits left behind by a failed clean-up write nothing is promised.     *)
OnlyRequestedBytes ==
    [][dirty \/ \A s \in Slots : image'[s] \in {image[s], "erased", Request[s]}]_vars

(* The code flash is erased by an erase command, or by the controller when   *)
(* the command takes the read protection away, and by no other option write. *)
(* Exempt are mode bits left behind: by a failed clean-up write, or by the   *)
(* V20X erase, which leaves MER set when it fails before its start bit.      *)
CodeErasedOnlyOnRequest ==
    [][code /\ ~code' => \/ cmd.op = "erase_all" \/ (obr /\ Request.rdp = "unprotected")
                         \/ dirty \/ (family = "V20X" /\ "MER" \in idle)]_vars

(* No command leaves an erase or program mode selected for the next one to  *)
(* start, on any path out of it; the one exception is MER, which the V20X    *)
(* erase leaves when an access fails before its start bit is known written.  *)
(* A command that has changed the option bytes leaves the controller locked  *)
(* and the option bytes not writable.  (Erases, and option commands that     *)
(* fail before they erase, do not lock it again.)  Exempt is what follows a  *)
(* failed clean-up write, up to the next reset.                              *)
ControllerRestored ==
    Ended /\ ~dirty =>
        /\ \/ ctlr \cap Modes = {}
           \/ family = "V20X" /\ faults # 0 /\ ctlr \cap Modes = {"MER"}
        /\ image # before => "LOCK" \in ctlr /\ "OPTWRE" \notin ctlr

(* With a link that never failed, a command fails for one of two reasons.    *)
(* The code flash is write protected and the controller reports that it has  *)
(* refused an erase, in this command or, for the option bytes, in an earlier *)
(* one, for only rvswd_flash_ch32_erase_all clears the error.  Or BSY was    *)
(* set before anything was started: that stops no erase of the code flash,   *)
(* and an option command then gives up with the option bytes as it found     *)
(* them.                                                                     *)
(* Every lock check finds its lock open, whatever the commands before left.  *)
FailsForCause ==
    Ended /\ ~good /\ faults = 0 =>
        (wrperr /\ wprot) \/ (held /\ cmd.op # "erase_all" /\ image = before)

=============================================================================
