------------------------------ MODULE RvswdDmi ------------------------------
(***************************************************************************)
(* The operations the target ports run over the debug module interface of  *)
(* a halted target: reading and writing its memory (rvswd/rvswd_memory.c), *)
(* resuming and resetting it (rvswd_debug.c, rvswd_reset.c), running a     *)
(* loader in its RAM (target/rvswd_target_<family>.c), and erasing or      *)
(* rewriting the flash of a CH58x or CH59x through its command port        *)
(* (flash/rvswd_flash_ch58x_59x.c).                                        *)
(*                                                                         *)
(* An operation is a straight line of DMI accesses, each of which may      *)
(* fail: it is written as a program, the sequence of its accesses, and one *)
(* interpreter runs every program one access per step.  The debug module   *)
(* is not code of this repository; it is modelled by what the programs     *)
(* rely on (RISC-V debug 0.13): an access while a command executes sets    *)
(* cmderr, cmderr is sticky and blocks commands, autoexec repeats the last *)
(* command on every access to DATA0.                                       *)
(*                                                                         *)
(* The transport repeats a write up to 16 times until it is acknowledged   *)
(* (rvswd_transport.c:164).  A write whose acknowledgement was damaged has *)
(* its effect twice; one that is given up may have had it or not.          *)
(***************************************************************************)
EXTENDS Naturals, Sequences, FiniteSets

CONSTANTS
    Families,   \* target families of the instance
    Ops,        \* operations the instance runs
    MaxFaults,  \* bound: accesses that fail or take effect twice
    MaxOps      \* bound: operations in a behaviour

AllFamilies == {"X03X", "L103", "V20X", "V30X", "CH58X", "CH59X"}
Operations == {"write", "write32", "read", "resume", "reset_halt", "reset_run",
               "soft_reset_run", "initialize", "program", "verify", "erase_all", "rewrite_page"}

ASSUME FamiliesAssumption == Families \subseteq AllFamilies /\ Ops \subseteq Operations
ASSUME BoundsAssumption == MaxFaults \in Nat /\ MaxOps \in Nat

VARIABLES
    family,   \* family of the connected target
    dm,       \* its debug module, hart, memory and flash command port
    cmd,      \* operation in progress, or the last one
    pc, step, \* next access of its program: its position, 0 when none runs
    mode,     \* local access.mode of the CH58x byte accesses
    value,    \* value the operation read last
    good,     \* its result
    diag,     \* operation->dmi_status: the link status it reports
    \* bookkeeping of the model
    cause,    \* link status of the access that made the operation fail
    twice,    \* a write of this operation took effect twice
    unchecked, \* an access met a command that was unfinished or refused, unnoticed
    lost,     \* what an operation lost: a write that was to switch something off,
              \* a loader it started and gave up
    faults, ops

locals == <<mode, value, good, diag, cause>>
marks == <<twice, unchecked, lost>>
vars == <<family, dm, cmd, pc, step, locals, marks, faults, ops>>

\* Target memory: the block a1, a2 an operation writes and its neighbours, the
\* loader's mailbox word and one peripheral register.
Addresses == {"a0", "a1", "a2", "a3", "mailbox", "peripheral"}
After(a) == CASE a = "a0" -> "a1" [] a = "a1" -> "a2" [] a = "a2" -> "a3" [] OTHER -> "end"
Regs == {"x2", "x5", "x8", "x9", "x10", "x11", "x12", "x13", "x14", "dcsr", "csr300", "dpc"}
Memory == [a \in Addresses |-> a]

\* The abstract commands the code uses: a register transfer, with or without
\* running the program buffer, its execution alone, and memory accesses.
SetReg(r) == [op |-> "set", reg |-> r, run |-> FALSE]
SetRun(r) == [op |-> "set", reg |-> r, run |-> TRUE]
GetReg(r) == [op |-> "get", reg |-> r, run |-> FALSE]
Run == [op |-> "run", reg |-> "x8", run |-> TRUE]
ReadMem == [op |-> "readmem", reg |-> "x8", run |-> FALSE]
WriteMem == [op |-> "writemem", reg |-> "x8", run |-> FALSE]

-----------------------------------------------------------------------------
(* The debug module and the target behind it. *)

Raise(d, e) == IF d.cmderr = "none" THEN [d EXCEPT !.cmderr = e] ELSE d

\* The flash command port: control 0 ends a command, control 5 begins one, the
\* first data byte is its code, the next three are its address.
ControlByte(d, v) ==
    CASE v = "open" -> [d EXCEPT !.pcmd = "none"]
      [] v = "begin" -> [d EXCEPT !.pcmd = "await", !.pn = 0]
      [] v = "end" ->
            [d EXCEPT !.pcmd = "none",
                      !.page = IF d.pcmd = "erase" /\ d.pn = 3 THEN "erasing"
                               ELSE IF d.pcmd = "program" /\ d.page = "filled" THEN "programming"
                               ELSE @,
                      !.stray = @ \/ (d.pcmd = "erase" /\ d.pn > 3)]
DataByte(d, v) ==
    IF d.pcmd = "await" THEN [d EXCEPT !.pcmd = v] ELSE [d EXCEPT !.pn = IF @ < 4 THEN @ + 1 ELSE 4]
ByteWritten(d, reg, v) == IF reg = "control" THEN ControlByte(d, v) ELSE DataByte(d, v)
WordWritten(d) ==
    IF d.pcmd # "program" \/ d.pn < 3 THEN d
    ELSE IF d.pn > 3 THEN [d EXCEPT !.stray = TRUE]
    ELSE [d EXCEPT !.page = CASE @ = "erased" /\ d.regs["x14"] = "w1" -> "half"
                              [] @ = "half" /\ d.regs["x14"] = "w2" -> "filled"
                              [] OTHER -> "mixed"]

\* The programs the code loads into the program buffer.
RunBuffer(d) ==
    LET r == d.regs IN
    CASE d.prog = "stream" /\ r["x10"] = "&data0" /\ r["x11"] = "&data1" /\ d.data1 \in Addresses ->
            [d EXCEPT !.mem[d.data1] = d.data0, !.data1 = After(d.data1),
                      !.regs["x8"] = d.data0, !.regs["x9"] = d.data1]
      [] d.prog = "store" /\ r["x9"] \in Addresses -> [d EXCEPT !.mem[r["x9"]] = r["x8"]]
      [] d.prog = "load" /\ r["x8"] \in Addresses -> [d EXCEPT !.regs["x8"] = d.mem[r["x8"]]]
      [] d.prog = "code" -> d
      [] d.prog = "page" -> WordWritten(d)
      [] OTHER -> Raise(d, "exception")

\* A command that executes or accesses memory keeps the module busy for a
\* while; a register transfer is over before the next frame.
Exec(d, c) ==
    IF d.hart # "halted" THEN Raise(d, "haltresume")
    ELSE LET t == CASE c.op = "set" -> [d EXCEPT !.regs[c.reg] = d.data0]
                    [] c.op = "get" -> [d EXCEPT !.data0 = d.regs[c.reg]]
                    [] c.op = "readmem" /\ d.data1 \in Addresses -> [d EXCEPT !.data0 = d.mem[d.data1]]
                    [] c.op = "writemem" /\ d.data1 \in Addresses -> [d EXCEPT !.mem[d.data1] = d.data0]
                    [] c.op = "run" -> d
                    [] OTHER -> Raise(d, "exception")
             u == IF c.run THEN RunBuffer(t) ELSE t
         IN [u EXCEPT !.busy = c.op \notin {"set", "get"} \/ c.run]
AutoExec(d) == IF d.auto /\ d.cmderr = "none" THEN Exec(d, d.last) ELSE d

\* DMCONTROL: a resume starts the hart at dpc; releasing ndmreset lets it run
\* from the reset vector unless a halt is requested.
Control(d, v) ==
    LET leaving == d.hart = "reset" /\ v \in {"halt", "resume", "idle"}
        e == IF leaving THEN [d EXCEPT !.regs["dpc"] = "vector"] ELSE d
    IN [e EXCEPT
          !.request = CASE v = "idle" -> "none" [] v = "resume" -> "resume"
                        [] v = "halt" -> "halt" [] OTHER -> "reset",
          !.hart = CASE v \in {"reset", "reset_halt"} -> "reset"
                     [] leaving -> IF v = "halt" THEN "halted" ELSE "running"
                     [] v = "resume" /\ @ = "halted" ->
                           IF d.regs["dpc"] = "entry" THEN "loader" ELSE "running"
                     [] OTHER -> @]

\* Registers that belong to the command while it executes.
Abstract == {"DATA0", "DATA1", "ABSTRACTCS", "ABSTRACTAUTO", "COMMAND", "PROGBUF"}
DmiWrite(d, reg, v) ==
    IF d.busy /\ reg \in Abstract THEN Raise(d, "busy")
    ELSE CASE reg = "DATA0" -> AutoExec([d EXCEPT !.data0 = v])
           [] reg = "DATA1" -> [d EXCEPT !.data1 = v]
           [] reg = "ABSTRACTCS" -> [d EXCEPT !.cmderr = "none"]
           [] reg = "ABSTRACTAUTO" -> [d EXCEPT !.auto = (v = "on")]
           [] reg = "COMMAND" -> IF d.cmderr = "none" THEN Exec([d EXCEPT !.last = v], v) ELSE d
           [] reg = "PROGBUF" -> [d EXCEPT !.prog = v]
           [] reg = "CONTROL" -> Control(d, v)
           [] reg = "UNLOCK" -> [d EXCEPT !.locked = FALSE]
           [] OTHER -> d
\* Reading DATA0 while a command executes is an error too.
DmiRead(d) == IF d.busy THEN Raise(d, "busy") ELSE AutoExec(d)

-----------------------------------------------------------------------------
(* Programs.  "fail" names the label a failed access goes to; "return" ends  *)
(* the operation.                                                            *)

Access(do, reg, v, f) == [do |-> do, reg |-> reg, val |-> v, fail |-> f]
W(reg, v, f) == <<Access("write", reg, v, f)>>
Clean(reg, v) == <<Access("clean", reg, v, "return")>>
Wait(f)  == <<Access("wait", "", "", f)>>
Check(f) == <<Access("check", "", "", f)>>
Idle(f)  == Wait(f) \o Check(f)
Probe(f) == <<Access("probe", "", "", f)>>
Status(f) == <<Access("abstractcs", "", "", f)>>
Read(f)  == <<Access("read", "", "", f)>>
Hart(s, f) == <<Access("hart", s, "", f)>>
Byte(rw, reg, v) == <<Access("byte", reg, [rw |-> rw, val |-> v], "return")>>
Label(l) == <<Access("label", l, "", "return")>>
Goto(l)  == <<Access("goto", "", "", l)>>
Done     == <<Access("done", "", "", "return")>>
GiveUp   == <<Access("giveup", "", "", "return")>>
NewTry   == <<Access("newtry", "", "", "return")>>

Clear(f) == W("ABSTRACTCS", "clear", f)

\* Fault: the error of the command is not looked at.
WriteReg_Unchecked(r, v, f) == W("DATA0", v, f) \o Clear(f) \o W("COMMAND", SetReg(r), f)

\* rvswd_debug_write_raw_gpr and rvswd_debug_write_register
WriteReg(r, v, f) == W("DATA0", v, f) \o Clear(f) \o W("COMMAND", SetReg(r), f) \o Status(f)
ReadReg(r, f) == Clear(f) \o W("COMMAND", GetReg(r), f) \o Status(f) \o Read(f)

\* rvswd_memory_read32_synchronized, rvswd_memory_read32_access_memory
ReadSync(a) ==
    Clear("return") \o W("PROGBUF", "load", "return") \o W("DATA0", a, "return")
      \o W("COMMAND", SetRun("x8"), "return") \o Idle("return")
      \o W("COMMAND", GetReg("x8"), "return") \o Idle("return") \o Read("return")
Once(a, f) == W("DATA1", a, f) \o W("COMMAND", ReadMem, f) \o Read(f)
ReadAccess(a) ==
    Once(a, "second") \o Goto("got") \o Label("second") \o Once(a, "third") \o Goto("got")
      \o Label("third") \o Once(a, "return") \o Label("got")

\* rvswd_memory_write32_direct, of the X03X; Cleared ends the operation.
WriteDirect(a, v) ==
    Clear("return") \o W("DATA1", a, "return") \o W("DATA0", v, "return")
      \o W("COMMAND", WriteMem, "return") \o Wait("return") \o Check("cleanup")
Cleared == Done \o Label("cleanup") \o Clean("ABSTRACTCS", "clear") \o GiveUp

\* rvswd_memory_write32_slow, rvswd_memory_write_slow
Write32Slow(a, v) ==
    Clear("return") \o W("PROGBUF", "store", "return") \o W("DATA0", a, "return")
      \o W("COMMAND", SetReg("x9"), "return") \o Idle("return") \o W("DATA0", v, "return")
      \o W("COMMAND", SetRun("x8"), "return") \o Idle("return")
SlowWord(a, v) ==
    Clear("return") \o W("DATA0", a, "return") \o W("COMMAND", SetReg("x9"), "return")
      \o W("DATA0", v, "return") \o W("COMMAND", SetRun("x8"), "return") \o Idle("return")
WriteSlow ==
    W("ABSTRACTAUTO", "off", "return") \o Clear("return") \o W("PROGBUF", "store", "return")
      \o SlowWord("a1", "w1") \o SlowWord("a2", "w2") \o Status("return")

\* Fault: a word that is lost in the middle leaves autoexec on.
WriteStreaming_LeavesAutoexec ==
    W("ABSTRACTAUTO", "off", "retry") \o Clear("retry") \o Probe("retry") \o W("PROGBUF", "stream", "retry")
      \o WriteReg("x10", "&data0", "retry") \o WriteReg("x11", "&data1", "retry")
      \o W("DATA1", "a1", "retry") \o W("DATA0", "w1", "retry") \o W("COMMAND", Run, "retry")
      \o Idle("retry") \o W("ABSTRACTAUTO", "on", "retry") \o W("DATA0", "w2", "retry")
      \o Idle("abandon") \o Done
      \o Label("abandon") \o Clean("ABSTRACTAUTO", "off") \o Clean("ABSTRACTCS", "clear")
      \o Label("retry")

\* Fault: the last word is not waited for.
WriteStreaming_NotChecked ==
    W("ABSTRACTAUTO", "off", "retry") \o Clear("retry") \o Probe("retry") \o W("PROGBUF", "stream", "retry")
      \o WriteReg("x10", "&data0", "retry") \o WriteReg("x11", "&data1", "retry")
      \o W("DATA1", "a1", "retry") \o W("DATA0", "w1", "retry") \o W("COMMAND", Run, "retry")
      \o Idle("retry") \o W("ABSTRACTAUTO", "on", "retry") \o W("DATA0", "w2", "abandon")
      \o W("ABSTRACTAUTO", "off", "abandon") \o Done
      \o Label("abandon") \o Clean("ABSTRACTAUTO", "off") \o Clean("ABSTRACTCS", "clear")
      \o Label("retry")

\* rvswd_memory_write_streaming: the first word by an explicit command, every
\* further one by autoexec.
WriteStreaming ==
    W("ABSTRACTAUTO", "off", "retry") \o Clear("retry") \o Probe("retry") \o W("PROGBUF", "stream", "retry")
      \o WriteReg("x10", "&data0", "retry") \o WriteReg("x11", "&data1", "retry")
      \o W("DATA1", "a1", "retry") \o W("DATA0", "w1", "retry") \o W("COMMAND", Run, "retry")
      \o Idle("retry") \o W("ABSTRACTAUTO", "on", "retry") \o W("DATA0", "w2", "abandon")
      \o W("ABSTRACTAUTO", "off", "abandon") \o Idle("abandon") \o Done
      \o Label("abandon") \o Clean("ABSTRACTAUTO", "off") \o Clean("ABSTRACTCS", "clear")
      \o Label("retry")

\* rvswd_target_v20x_write32_access_memory
WriteAccess(a, v) ==
    W("DATA1", a, "return") \o W("DATA0", v, "return") \o W("COMMAND", WriteMem, "return")

\* rvswd_memory_write_streaming_retry and the V20X's own retry
Retry == Clean("ABSTRACTAUTO", "off") \o Clean("ABSTRACTCS", "clear") \o NewTry

\* The function pointers of the family's rvswd_memory_ops.
ReadWord(f, a) == IF f \in {"CH58X", "CH59X"} THEN ReadSync(a) ELSE ReadAccess(a)
Write32(f, a, v) ==
    CASE f = "X03X" -> WriteDirect(a, v) [] f = "V20X" -> WriteAccess(a, v) [] OTHER -> Write32Slow(a, v)
WriteBlock(f) ==
    CASE f = "X03X" -> WriteDirect("a1", "w1") \o WriteDirect("a2", "w2") \o Cleared
      [] f = "V20X" -> WriteStreaming \o Retry \o WriteAccess("a1", "w1") \o WriteAccess("a2", "w2")
      [] f \in {"L103", "V30X"} -> WriteStreaming \o Retry \o WriteSlow
      [] OTHER -> WriteSlow

\* rvswd_debug_restore_unlock; memory writes restore it for the family whose
\* loader loses it (profile->loader_clears_debug_unlock).
Unlock == W("UNLOCK", "", "return")
\* Fault: a memory write relies on the unlock of the connect.
UnlockForWrite_Never(f) == <<>>
UnlockForWrite(f) == IF f = "X03X" THEN Unlock ELSE <<>>

\* rvswd_debug_resume, rvswd_reset.c
Resume ==
    W("DMOD", "", "return") \o W("CONTROL", "resume", "release") \o Hart("running", "release")
      \o W("CONTROL", "idle", "release") \o Done
      \o Label("release") \o Clean("CONTROL", "idle") \o GiveUp
ResetAndHalt ==
    W("CONTROL", "reset_halt", "return") \o W("CONTROL", "halt", "return") \o Hart("halted", "return")
ResetAndRun == W("CONTROL", "reset", "return") \o W("CONTROL", "idle", "return")
SoftResetAndRun == ResetAndRun \o W("CONTROL", "resume", "return")

DebugControl == WriteReg("dcsr", "debug", "return")

\* The loader prepare functions, one peripheral register for all of them.
Prepare(f) ==
    CASE f = "X03X" -> ReadAccess("peripheral") \o Write32Slow("peripheral", "set")
                         \o ReadAccess("peripheral") \o Write32Slow("peripheral", "set")
      [] f = "L103" -> DebugControl \o Write32Slow("peripheral", "set")
      [] f = "V20X" -> DebugControl \o WriteAccess("peripheral", "set")
      [] OTHER -> <<>>

\* The loader execute functions: the arguments, the control registers of the
\* family and the entry point, then a resume and the wait for the loader's
\* ebreak.  "first" is the initialize mode.
Arguments == WriteReg("x10", "mode", "return") \o WriteReg("x11", "address", "return")
               \o WriteReg("x12", "length", "return")
Stack == WriteReg("x2", "stack", "return")
Entry == WriteReg("dpc", "entry", "return")
Interrupts == WriteReg("csr300", "zero", "return")
Go == W("CONTROL", "resume", "return")
StartLoader(f, first) ==
    CASE f = "X03X" -> (IF first THEN DebugControl ELSE Interrupts) \o Arguments \o Stack \o Entry \o Go
      [] f = "L103" -> Arguments \o Stack \o DebugControl \o Interrupts \o Entry \o Go
      [] f = "V20X" -> Arguments \o Interrupts \o Stack \o Entry \o Go
      [] OTHER -> Arguments \o WriteReg("x13", "data", "return") \o Stack \o DebugControl \o Interrupts
                    \o Entry \o W("CONTROL", "halt", "return") \o W("CONTROL", "halt", "return")
                    \o W("CONTROL", "idle", "return") \o Go \o W("CONTROL", "idle", "return")
Execute(f, first) == StartLoader(f, first) \o Hart("halted", "return") \o ReadReg("x10", "return")

\* wchlink_target_ports_execute_loader: a verify run finds its checksum in the
\* mailbox, a program run of the X03X its length; it is written before anything
\* else.
NeedsMail(f, op) == op = "verify" \/ (op = "program" /\ f = "X03X")
ExecuteLoader(f, op) ==
    LET first == op = "initialize" IN
    (IF NeedsMail(f, op) THEN UnlockForWrite(f) \o Write32(f, "mailbox", "mail") ELSE <<>>)
      \o Unlock \o (IF first THEN Prepare(f) ELSE <<>>) \o Execute(f, first)
      \o Cleared

\* rvswd_flash_ch58x_59x.c: code mode and the byte protocol of the command port.
EnableCodeMode ==
    WriteReg("x13", "&key", "return") \o WriteReg("x10", "57", "return")
      \o WriteReg("x11", "a8", "return") \o WriteReg("x12", "e0", "return")
      \o W("ABSTRACTAUTO", "off", "return") \o Clear("return") \o W("PROGBUF", "code", "return")
      \o W("COMMAND", Run, "return") \o Idle("return")
Write8(reg, v) == Byte("write8", reg, v)
Read8(reg) == Byte("read8", reg, "")
Issue(c) == Write8("control", "end") \o Write8("control", "begin") \o Write8("data", c)
End == Read8("control") \o Write8("control", "end")
Begin(c) == Issue("six") \o End \o Issue(c)
Open == Write8("control", "open") \o Begin("init") \o End
Out == Read8("control") \o Write8("data", "address")
PageAddress == Out \o Out \o Out
In == Read8("control") \o Read8("data")
WaitReady == End \o Begin("status") \o In \o In \o <<Access("ready", "", "", "return")>> \o End

\* Fault: the erase is taken for finished when its command was accepted.
EraseCommand_NoWait == Begin("erase") \o PageAddress \o End

EraseCommand == Begin("erase") \o PageAddress \o WaitReady
PageWord(v) ==
    W("DATA0", v, "return") \o W("COMMAND", SetRun("x14"), "return") \o Idle("return")
ProgramPage ==
    <<Access("nomode", "", "", "return")>> \o WriteReg("x13", "&word", "return")
      \o WriteReg("x5", "count", "return") \o W("ABSTRACTAUTO", "off", "return") \o Clear("return")
      \o W("PROGBUF", "page", "return") \o PageWord("w1") \o PageWord("w2")
RewritePage ==
    EnableCodeMode \o Open \o EraseCommand
      \o EnableCodeMode \o Open \o Begin("program") \o PageAddress \o ProgramPage \o WaitReady

\* rvswd_flash_ch58x_59x_erase_all: the stub is the block that is written.
EraseAll(f) == WriteBlock(f) \o EnableCodeMode \o Unlock \o Execute(f, FALSE)

IsCh5(f) == f \in {"CH58X", "CH59X"}
Program(f, op) ==
    CASE op = "write" -> UnlockForWrite(f) \o WriteBlock(f)
      [] op = "write32" -> UnlockForWrite(f) \o Write32(f, "a1", "w1") \o Cleared
      [] op = "read" -> ReadWord(f, "a1")
      [] op = "resume" -> Resume
      [] op = "reset_halt" -> ResetAndHalt
      [] op = "reset_run" -> ResetAndRun
      [] op = "soft_reset_run" -> SoftResetAndRun
      [] op \in {"initialize", "program", "verify"} -> ExecuteLoader(f, op)
      [] op = "erase_all" -> EraseAll(f)
      [] op = "rewrite_page" -> RewritePage

\* The next label of that name after access i; "return" is 0.
Target(p, i) ==
    IF p[i].fail = "return" THEN 0
    ELSE CHOOSE j \in i..Len(p) :
            /\ p[j].do = "label" /\ p[j].reg = p[i].fail
            /\ \A k \in i..(j - 1) : ~(p[k].do = "label" /\ p[k].reg = p[i].fail)
Programs ==
    [f \in Families |-> [op \in Ops |->
        LET p == Program(f, op)
        IN [i \in 1..Len(p) |->
              [do |-> p[i].do, reg |-> p[i].reg, val |-> p[i].val, fail |-> Target(p, i),
               next |-> IF i < Len(p) THEN i + 1 ELSE 0]]]]
Supported(f, op) == op \in {"erase_all", "rewrite_page"} => IsCh5(f)

-----------------------------------------------------------------------------
(* The interpreter. *)

Running == pc # 0
\* What a position of a program is when no program runs.
NoStep == [do |-> "none", reg |-> "", val |-> "", fail |-> 0, next |-> 0]
Return(result) == pc' = 0 /\ good' = result
Next1 == IF step.next # 0 THEN pc' = step.next /\ good' = good ELSE Return(TRUE)
Fail(status) ==
    /\ cause' = status
    /\ IF step.fail = 0 THEN Return(FALSE) ELSE pc' = step.fail /\ good' = good
Break == faults < MaxFaults /\ faults' = faults + 1
Passed == Next1 /\ diag' = "ok" /\ UNCHANGED cause
Refused == Fail("ok") /\ diag' = "ok"
\* An access is given up after sixteen frames: the command of the debug module
\* that it may have met has ended by then.
Settled(d) == [d EXCEPT !.busy = FALSE]
Broken == Break /\ Fail("failed") /\ diag' = "failed"
Is(do) == Running /\ step.do = do

\* What a write may leave when it took effect twice: the second copy finds the
\* command of the first one still executing, or not.
Doubled(d, reg, v) ==
    LET once == DmiWrite(d, reg, v)
    IN {DmiWrite(once, reg, v), DmiWrite([once EXCEPT !.busy = FALSE], reg, v)}
LostOff == IF step.reg = "ABSTRACTAUTO" /\ step.val = "off" THEN {"autoexec"}
           ELSE IF step.reg = "CONTROL" /\ step.val = "idle" THEN {"request"} ELSE {}
Arrived == lost' = IF step.reg = "ABSTRACTAUTO" THEN lost \ {"autoexec"} ELSE lost

\* rvswd_operation_write_dmi.  The command it starts may end with an error.
StepWrite ==
    /\ Is("write") /\ UNCHANGED <<mode, value>>
    /\ unchecked' = (unchecked \/ (dm.busy /\ step.reg \in Abstract))
    /\ LET after == DmiWrite(dm, step.reg, step.val) IN
       \/ dm' = after /\ Passed /\ Arrived /\ UNCHANGED <<faults, twice>>
       \/ /\ dm' \in Doubled(dm, step.reg, step.val) /\ dm' # after
          /\ twice' = TRUE /\ Break /\ Passed /\ Arrived
       \/ /\ step.reg = "COMMAND" /\ dm.cmderr = "none" /\ ~dm.busy
          /\ dm' = [dm EXCEPT !.cmderr = "exception", !.last = step.val]
          /\ Break /\ Passed /\ UNCHANGED <<twice, lost>>
       \/ dm' = Settled(after) /\ Broken /\ Arrived /\ UNCHANGED twice
       \/ dm' = Settled(dm) /\ Broken /\ lost' = lost \cup LostOff /\ UNCHANGED twice

\* Fault: a clean-up goes through rvswd_operation_write_dmi and reports itself.
StepClean_Captured ==
    /\ Is("clean") /\ Next1 /\ UNCHANGED <<mode, value, cause, twice, unchecked>>
    /\ diag' = "ok" /\ dm' = DmiWrite(dm, step.reg, step.val) /\ Arrived /\ UNCHANGED faults

\* rvswd_operation_cleanup_write_dmi: whatever it meets, the operation goes on
\* with the diagnosis it had.
StepClean ==
    /\ Is("clean") /\ Next1 /\ UNCHANGED <<mode, value, diag, cause, twice, unchecked>>
    /\ \/ dm' = DmiWrite(dm, step.reg, step.val) /\ Arrived /\ UNCHANGED faults
       \/ dm' = Settled(dm) /\ Break /\ lost' = lost \cup LostOff

\* rvswd_debug_wait_abstract_idle: reads ABSTRACTCS until the busy bit is gone,
\* gives up on a link error that is not worth a retry or after its timeout.
StepWait ==
    /\ Is("wait") /\ UNCHANGED <<mode, value, marks>>
    /\ \/ ~dm.busy /\ dm' = dm /\ Passed /\ UNCHANGED faults
       \/ dm' = Settled(dm) /\ Broken

\* The cmderr field of the ABSTRACTCS that was read last.
StepCheck ==
    /\ Is("check") /\ UNCHANGED <<dm, mode, value, marks, faults, diag>>
    /\ IF dm.cmderr = "none" THEN Next1 /\ UNCHANGED cause ELSE Fail("ok")

\* One read of ABSTRACTCS, without a wait.
StepStatus ==
    /\ Is("abstractcs") /\ UNCHANGED <<dm, mode, value, marks>>
    /\ \/ (IF dm.cmderr = "none" THEN Passed ELSE Refused) /\ UNCHANGED faults
       \/ Broken

\* A read whose value does not matter here (HARTINFO).
StepProbe ==
    /\ Is("probe") /\ UNCHANGED <<dm, mode, value, marks>>
    /\ \/ Passed /\ UNCHANGED faults
       \/ Broken

StepRead ==
    /\ Is("read") /\ UNCHANGED <<mode, twice, lost>>
    /\ \/ dm' = DmiRead(dm) /\ value' = dm.data0 /\ unchecked' = (unchecked \/ dm.busy \/ dm.cmderr # "none")
             /\ Passed /\ UNCHANGED faults
       \/ dm' \in {Settled(dm), Settled(DmiRead(dm))} /\ Broken /\ UNCHANGED <<value, unchecked>>

\* rvswd_debug_wait_dmstatus and the poll of rvswd_debug_resume.
StepHart ==
    /\ Is("hart") /\ UNCHANGED <<dm, mode, value, marks>>
    /\ LET there == IF step.reg = "halted" THEN dm.hart = "halted" ELSE dm.hart \in {"running", "loader"}
       IN \/ there /\ Passed /\ UNCHANGED faults
          \/ ~there /\ ~(dm.hart = "loader" \/ dm.request = "halt") /\ Refused /\ UNCHANGED faults
          \/ Broken

\* rvswd_flash_ch58x_59x_prepare_byte_access: nothing when the mode is the one
\* the buffer is believed to hold.
PrepareByte(rw) ==
    IF mode = rw THEN dm
    ELSE [dm EXCEPT !.regs["x13"] = "&debug", !.cmderr = "none", !.prog = rw]

\* One byte access; the accesses it is made of are one step.  A buffer that
\* holds another program is executed all the same, without reaching the port.
ByteDone(d, rw, v) ==
    IF d.cmderr # "none" THEN d
    ELSE IF d.prog = "write8" /\ rw = "write8" THEN ByteWritten(d, step.reg, v)
    ELSE IF d.prog = "code" THEN [d EXCEPT !.regs["x11"] = step.reg] ELSE d
StepByte ==
    /\ Is("byte") /\ ~dm.busy /\ UNCHANGED <<value, unchecked, lost>>
    /\ LET rw == step.val.rw
           ready == PrepareByte(rw)
           after == ByteDone(ready, rw, step.val.val)
       IN /\ mode' = rw
          /\ \/ /\ dm.hart = "halted" /\ ready.cmderr = "none" /\ dm' = after /\ Passed
                /\ UNCHANGED <<faults, twice>>
             \/ /\ ~(dm.hart = "halted" /\ ready.cmderr = "none") /\ dm' = ready /\ Refused
                /\ UNCHANGED <<faults, twice>>
             \/ /\ dm.hart = "halted" /\ rw = "write8" /\ dm' = ByteDone(after, rw, step.val.val)
                /\ dm' # after /\ twice' = TRUE /\ Break /\ Passed
             \/ dm' \in {dm, ready, after} /\ Broken /\ UNCHANGED twice

\* The status byte of the flash says that the command is finished.
StepReady ==
    /\ Is("ready") /\ UNCHANGED <<mode, value, marks>>
    /\ \/ /\ dm' = [dm EXCEPT !.page = CASE @ = "erasing" -> "erased"
                                        [] @ = "programming" -> "new" [] OTHER -> @]
          /\ Passed /\ UNCHANGED faults
       \/ Broken /\ UNCHANGED dm

\* Bookkeeping of the programs: labels, returns, the start of a second attempt
\* with fresh diagnostics, and the local access mode.
StepLocal ==
    /\ Running /\ step.do \in {"label", "goto", "done", "giveup", "newtry", "nomode"}
    /\ CASE step.do = "goto" -> pc' = step.fail /\ good' = good
         [] step.do = "done" -> Return(TRUE)
         [] step.do = "giveup" -> Return(FALSE)
         [] OTHER -> Next1
    /\ diag' = IF step.do = "newtry" THEN "ok" ELSE diag
    /\ mode' = IF step.do = "nomode" THEN "none" ELSE mode
    /\ UNCHANGED <<dm, value, cause, marks, faults>>

-----------------------------------------------------------------------------

\* Words of an earlier operation are told apart from those of this one, and so
\* are its resume request, which is a pulse, and the page it worked on.  What
\* the streaming program needs, and its next address, stay as they were left.
Relabelled(d) ==
    [d EXCEPT !.data0 = "stale",
              !.regs = [r \in Regs |-> IF @[r] \in {"&data0", "&data1"} THEN @[r] ELSE "stale"],
              !.mem = Memory, !.busy = FALSE,
              !.request = IF @ = "resume" THEN "none" ELSE @,
              !.page = "old", !.stray = FALSE]

Command ==
    /\ ~Running /\ ops < MaxOps /\ ops' = ops + 1
    /\ cmd' \in {op \in Ops : Supported(family, op)}
    /\ dm' = Relabelled(dm) /\ pc' = 1
    /\ mode' = "none" /\ value' = "none" /\ good' = TRUE /\ diag' = "ok" /\ cause' = "ok"
    /\ twice' = FALSE /\ unchecked' = FALSE /\ lost' = (lost \cap {"autoexec"}) \cup (IF dm.hart = "loader" THEN {"loader"} ELSE {})
    /\ UNCHANGED <<family, faults>>

\* A command of the debug module ends.
Settle == dm.busy /\ dm' = [dm EXCEPT !.busy = FALSE]
\* The hart halts: on request, or because the loader has returned.
Halt ==
    \/ dm.hart = "running" /\ dm.request = "halt" /\ dm' = [dm EXCEPT !.hart = "halted"]
    \/ /\ dm.hart = "loader"
       /\ dm' = [dm EXCEPT !.hart = "halted", !.regs["x10"] = "result", !.regs["dpc"] = "returned",
                           !.locked = (family = "X03X")]

Init ==
    /\ family \in Families
    /\ dm = [data0 |-> "stale", data1 |-> "stale", regs |-> [r \in Regs |-> "stale"],
             auto |-> FALSE, cmderr |-> "none", busy |-> FALSE, last |-> Run, prog |-> "none",
             mem |-> Memory, hart |-> "halted", request |-> "halt", locked |-> FALSE,
             pcmd |-> "none", pn |-> 0, page |-> "old", stray |-> FALSE]
    /\ cmd = CHOOSE op \in Ops : TRUE
    /\ pc = 0 /\ mode = "none" /\ value = "none" /\ good = TRUE
    /\ diag = "ok" /\ cause = "ok" /\ twice = FALSE /\ unchecked = FALSE /\ lost = {}
    /\ faults = 0 /\ ops = 0 /\ step = NoStep

Next ==
    /\ \/ Command
       \/ Running /\ (Settle \/ Halt) /\ UNCHANGED <<family, cmd, pc, locals, marks, faults, ops>>
       \/ /\ UNCHANGED <<family, cmd, ops>>
          /\ \/ StepWrite \/ StepClean \/ StepWait \/ StepCheck \/ StepStatus \/ StepProbe \/ StepRead
             \/ StepHart \/ StepByte \/ StepReady \/ StepLocal
    /\ step' = IF pc' = 0 THEN NoStep ELSE Programs[family'][cmd'][pc']

Spec == Init /\ [][Next]_vars

-----------------------------------------------------------------------------
(* Properties. *)

Ended == ~Running /\ ops > 0
\* No write took effect twice, no write that was to switch something off was
\* lost, and no loader of an earlier command, given up by it, still ran.
Undisturbed == ~twice /\ lost = {}

(* An operation that reports success has done its work: the block or the word *)
(* is in the target's memory, the value read is the target's, the hart is     *)
(* where the reset or the resume left it, the loader ran and its result was   *)
(* read, the page holds the new words and was erased before.  Of a V20X's     *)
(* single accesses, and of reads by Access Memory, this is not promised:      *)
(* nobody looks at cmderr or the busy bit after them.                         *)
SuccessMeansDone ==
    Ended /\ good /\ Undisturbed =>
        CASE cmd = "write" -> \/ dm.mem["a1"] = "w1" /\ dm.mem["a2"] = "w2"
                              \/ family = "V20X" /\ dm.cmderr # "none"
          [] cmd = "write32" -> dm.mem["a1"] = "w1" \/ (family = "V20X" /\ dm.cmderr # "none")
          [] cmd = "read" -> value = "a1" \/ unchecked
          [] cmd = "resume" -> dm.hart \in {"running", "loader"} /\ dm.request = "none"
          [] cmd = "reset_halt" -> dm.hart = "halted" /\ dm.regs["dpc"] = "vector"
          [] cmd \in {"reset_run", "soft_reset_run"} ->
                dm.hart = "running" /\ dm.regs["dpc"] = "vector" /\ dm.request # "reset"
          [] cmd \in {"initialize", "program", "verify", "erase_all"} -> dm.hart = "halted" /\ value = "result"
          [] cmd = "rewrite_page" -> dm.page = "new" /\ ~dm.stray

(* The words next to the block, and the pages next to the page, are never     *)
(* touched, whatever fails on the way and in whatever state the operation     *)
(* before left the debug module.                                              *)
NeighboursUntouched == Undisturbed => dm.mem["a0"] = "a0" /\ dm.mem["a3"] = "a3" /\ ~dm.stray

(* Autoexec is off between operations, unless a write that was to turn it off *)
(* was lost; an operation other than the V20X's block write then reports      *)
(* failure.  Left on, it repeats the last command in the next operation.      *)
AutoexecOff ==
    Ended /\ dm.auto => "autoexec" \in lost /\ (good /\ cmd = "write" => family = "V20X")

(* The hart only ever starts a loader with every argument register, the stack *)
(* and the mailbox set by this very operation, and with its code unlocked.    *)
(* Nobody waits for a V20X's single word writes, or looks at their errors: of *)
(* its mailbox and of registers written right after them nothing is promised. *)
LoaderArguments ==
    [][Undisturbed /\ dm.hart = "halted" /\ dm'.hart = "loader" =>
          /\ cmd \in {"initialize", "program", "verify", "erase_all"} /\ ~dm.locked
          /\ \/ family = "V20X" /\ unchecked
             \/ /\ dm.regs["x10"] = "mode" /\ dm.regs["x11"] = "address"
                /\ dm.regs["x12"] = "length" /\ dm.regs["x2"] = "stack"
                /\ IsCh5(family) \/ family = "V30X" => dm.regs["x13"] = "data"
                /\ dm.regs["dcsr"] = "debug" \/ (family \in {"X03X", "V20X"} /\ cmd # "initialize")
                /\ NeedsMail(family, cmd) /\ family # "V20X" => dm.mem["mailbox"] = "mail"
                /\ cmd = "erase_all" => dm.mem["a1"] = "w1" /\ dm.mem["a2"] = "w2"]_vars

(* A target whose loader relocks its debug module is only written after the   *)
(* unlock sequence was repeated.                                              *)
NeverWrittenLocked == [][Undisturbed /\ Running /\ dm.locked => dm'.mem = dm.mem]_vars

(* A resume that failed has taken its request back (rvswd_debug.c:171), and   *)
(* the diagnosis it reports is still that of the access that failed, not of   *)
(* the clean-up after it (rvswd_operation.c:47).                              *)
FailureLeavesNoTrace ==
    Ended /\ ~good =>
        /\ diag = cause
        /\ cmd = "resume" /\ dm.request = "resume" => "request" \in lost

(* A page is programmed once, in order, and only after its erase was finished *)
(* and seen to be.                                                            *)
PageErasedFirst == Undisturbed => dm.page # "mixed"

=============================================================================
