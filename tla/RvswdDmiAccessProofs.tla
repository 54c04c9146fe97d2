------------------------ MODULE RvswdDmiAccessProofs ------------------------
(***************************************************************************)
(* What one access of an RvswdDmi program does to what is known of the     *)
(* debug module, for every family, every operation and any number of       *)
(* faults.                                                                 *)
(*                                                                         *)
(* A program is annotated: before each of its accesses a set of facts is   *)
(* known, some whatever the error of the debug module, some only when it   *)
(* has none.  Holds says that an annotation is true of the state; the      *)
(* rules below (Asks, Gives, Fails, Flow) say from which facts an access   *)
(* leads to which, and the lemmas that every step of the interpreter that  *)
(* executes an access obeys them: it passes and makes what the rule gives  *)
(* (Goes), or fails and keeps what the rule lets a failure keep (Stops).   *)
(*                                                                         *)
(* A write that took effect twice, and a lost write that was to switch     *)
(* something off, end what can be known; the open facts hold even then,    *)
(* and are what AutoexecOff and FailureLeavesNoTrace come from.            *)
(***************************************************************************)
EXTENDS RvswdDmi, Integers, SequenceTheorems, WellFoundedInduction, TLAPS

-----------------------------------------------------------------------------
(* Facts.                                                                  *)

\* The families whose block write streams words with autoexec on.
Streaming == {"L103", "V20X", "V30X"}
\* The operations that run a loader.
LoaderOps == {"initialize", "program", "verify", "erase_all"}

\* A fact is a pair: what it is about, and what it says of it.
Yes(t) == <<t, "yes">>
Idling == <<"busy", "no">>
Mute == <<"auto", "no">>
Fine == <<"diag", "ok">>

\* The neighbours of the block and of the page are untouched.
Kept == dm.mem["a0"] = "a0" /\ dm.mem["a3"] = "a3" /\ ~dm.stray /\ dm.page # "mixed"
\* Autoexec is off, or the write that was to switch it off is on record as lost.
Calm == dm.auto => "autoexec" \in lost
\* The diagnosis is that of the access that failed.
Told == diag = cause
\* The resume request is taken back, or the write that was to do so is on record as lost.
Released == dm.request = "resume" => "request" \in lost
\* The one family that does not look at the errors of its register writes.
Careless == family = "V20X" /\ unchecked

\* facts that hold whatever happened
OpenSays(g) ==
  /\ g = Yes("steady") => ~dm.busy
  /\ g = Yes("off") => ~dm.auto
  /\ g = Yes("calm") => Calm
  /\ g = Fine => diag = "ok"
  /\ g = Yes("told") => Told
  /\ g = Yes("released") => Released
\* Facts about the data registers, the program buffer and autoexec.
ModuleSays(g) ==
  /\ g = Idling => ~dm.busy
  /\ g = Mute => ~dm.auto
  /\ g = Yes("auto") => dm.auto
  /\ g[1] = "data0" => dm.data0 = g[2]
  /\ g[1] = "loose" => dm.data0 = g[2] \/ Careless
  /\ g[1] = "data1" => dm.data1 = g[2]
  /\ g = Yes("aim") => dm.data1 \notin {"a0", "a3"}
  /\ g[1] = "prog" => dm.prog = g[2]
  /\ g = Yes("last") => dm.last = Run
\* The registers that are loader arguments and nothing else.
Arguments4 == {"x2", "x11", "x12", "x13", "dcsr"}
\* Facts about the registers of the hart: what a V20X that was careless wrote is not known.
RegisterSays(g) ==
  /\ g[1] \in {"x8", "x9"} => dm.regs[g[1]] = g[2]
  /\ g[1] \in Arguments4 => dm.regs[g[1]] = g[2] \/ Careless
  /\ g[1] = "x10" => (dm.hart # "loader" /\ dm.regs["x10"] = g[2]) \/ Careless
  /\ g[1] = "dpc" => dm.hart # "loader" /\ dm.regs["dpc"] = g[2]
\* Facts about where the hart is and what it is asked to do.
HartSays(g) ==
  /\ g = Yes("halted") => dm.hart = "halted"
  /\ g = Yes("reset") => dm.hart = "reset"
  /\ g = Yes("running") => dm.hart = "running" /\ dm.request \notin {"halt", "reset"}
  /\ g = Yes("free") => dm.hart # "loader" /\ dm.regs["dpc"] # "entry"
  /\ g = Yes("started") => dm.hart = "loader" \/ (dm.hart = "halted" /\ dm.regs["x10"] = "result")
  /\ g = Yes("done") => dm.hart = "halted" /\ dm.regs["x10"] = "result"
  /\ g = Yes("unlocked") => ~dm.locked /\ dm.hart # "loader"
  /\ g[1] = "request" => dm.request = g[2]
\* The words an operation writes.
Blocks == {"a1", "a2", "mailbox"}
\* Facts about the memory.
MemorySays(g) ==
  /\ g = Yes("kept") => Kept
  /\ g[1] \in Blocks => dm.mem[g[1]] = g[2]
\* Facts about the flash command port and its page.
PortSays(g) ==
  /\ g[1] = "port" => dm.pcmd = g[2]
  /\ g[1] = "pn" => dm.pn = g[2]
  /\ g = Yes("closed") => dm.pcmd \notin {"erase", "program"}
  /\ g[1] = "page" => dm.page = g[2]
\* Facts about the locals of the operation.
LocalSays(g) ==
  /\ g[1] = "mode" => mode = g[2]
  /\ g = Yes("sync") => mode = "none" \/ mode = dm.prog
  /\ g[1] = "value" => value = g[2]
  /\ g = Yes("answer") => value = "a1" \/ unchecked
\* A fact is true.
Says(g) == ModuleSays(g) /\ RegisterSays(g) /\ HartSays(g) /\ MemorySays(g) /\ PortSays(g) /\
             LocalSays(g)

\* Nothing an annotation relies on was lost: no write took effect twice, and either nothing was
\* lost, or at most a write that was to switch autoexec off, if the annotation is of code that
\* switches it off itself.
Guard(F) == ~twice /\ (IF Yes("sure") \in F THEN lost \subseteq {"autoexec"} ELSE lost = {})
\* An annotation is a pair of sets of facts: A.s is known whatever the error, A.p when the debug
\* module has none.  It holds when its open facts are true and, if nothing was lost, all of them.
Holds(A) ==
  /\ \A g \in A.s : OpenSays(g) /\ (Guard(A.s) => Says(g))
  /\ dm.cmderr = "none" => \A g \in A.p : OpenSays(g) /\ (Guard(A.s) => Says(g))

\* ------------- flow
Keep(g, F, ts) == g \in F /\ g[1] \notin ts
\* A: before; g: after; sure: whatever the error
From(A, sure) == IF sure THEN A.s ELSE A.s \cup A.p
Report == {"diag", "told"}
\* A word of data with autoexec off.
Data0(f, v, A, g, sure) ==
  \/ Keep(g, From(A, sure), {"data0", "loose", "steady"} \cup Report)
  \/ g = Yes("steady") /\ Yes("off") \in A.s /\ (sure => g \in A.s)
  \/ g = <<"data0", v>> /\ (sure => Idling \in A.s)
  \/ g = <<"loose", v>> /\ (sure => Idling \in A.s \/ f = "V20X")
  \/ g = Idling /\ ~sure
\* A word of data with autoexec on: the last command stores it.
Stream(v, A, g, sure) ==
  \/ Keep(g, From(A, sure),
          {"data0", "loose", "data1", "aim", "x8", "x9", "a2", "busy", "steady"} \cup Report)
  \/ g = <<"a2", v>> /\ ~sure /\ Yes("auto") \in From(A, FALSE)
\* An address.
Data1(v, A, g, sure) ==
  \/ Keep(g, From(A, sure), {"data1", "aim"} \cup Report)
  \/ g = <<"data1", v>> /\ (sure => Idling \in A.s)
  \/ g = Yes("aim") /\ v \notin {"a0", "a3"} /\ (sure => Idling \in A.s \/ g \in A.s)
  \/ g = Idling /\ ~sure
\* A program.
Progbuf(v, A, g, sure) ==
  \/ Keep(g, From(A, sure), {"prog", "sync"} \cup Report)
  \/ g = <<"prog", v>> /\ (sure => Idling \in A.s)
  \/ g = Yes("sync") /\ <<"mode", "none">> \in A.s
  \/ g = Idling /\ ~sure
\* The error is cleared.
ClearError(A, g, sure) ==
  \/ Keep(g, A.s, Report)
  \/ g \in {Idling, Yes("steady")} /\ ~sure
\* Autoexec is switched.
Autoexec(v, A, g, sure) ==
  \/ Keep(g, From(A, sure), {"auto", "off", "calm"} \cup Report)
  \/ v = "off" /\ g \in {Yes("off"), Yes("calm")} /\
       (sure => Yes("steady") \in A.s \/ Yes("off") \in A.s)
  \/ v = "off" /\ g = Mute /\ (sure => Yes("steady") \in A.s \/ Idling \in A.s \/ Mute \in A.s)
  \/ v = "on" /\ g = Yes("auto") /\ (sure => Idling \in A.s)
  \/ g = Idling /\ ~sure
\* What a request to the hart may change.
HartThings == {"halted", "reset", "running", "free", "started", "done", "unlocked", "x10", "dpc",
               "request", "released"}
\* A request to the hart.
ControlGives(v, F, g) ==
  \/ Keep(g, F, HartThings \cup Report)
  \/ v \in {"idle", "halt"}
       /\ \/ g[1] \in {"x10", "dpc"} /\ g \in F /\ Yes("halted") \in F
          \/ g \in F \cap {Yes("halted"), Yes("started"), Yes("done"), Yes("unlocked"), Yes("free")}
          \/ g = <<"dpc", "vector">> /\ Yes("reset") \in F
  \/ v = "idle" /\ \/ g \in {Yes("released"), <<"request", "none">>}
                   \/ g = Yes("running") /\ (Yes("reset") \in F \/ g \in F)
  \/ v = "halt" /\ g = Yes("halted") /\ Yes("reset") \in F
  \/ v = "resume" /\ \/ g = Yes("running") /\ (Yes("free") \in F \/ g \in F)
                     \/ g = Yes("started") /\ Yes("halted") \in F /\ <<"dpc", "entry">> \in F
                     \/ g = <<"dpc", "vector">> /\ g \in F /\ Yes("running") \in F
  \/ v \in {"reset", "reset_halt"} /\ g = Yes("reset")
\* commands: they run when there is no error
SetTouched(r) == {r, "last"} \cup Report
  \cup (IF r = "x10" THEN {"started", "done"} ELSE {}) \cup (IF r = "dpc" THEN {"free"} ELSE {})
\* A register is written.
SetGives(r, A, g, sure) ==
  \/ Keep(g, From(A, sure), SetTouched(r))
  \/ ~sure /\ \/ g \in {Yes("halted"), Idling, Yes("steady")}
              \/ g[1] = r /\ (<<"data0", g[2]>> \in From(A, sure)
                               \/ (r \in Arguments4 \cup {"x10"} /\
                                   <<"loose", g[2]>> \in From(A, sure)))
\* A register is read.
GetGives(r, A, g, sure) ==
  \/ Keep(g, From(A, sure), {"data0", "loose", "last"} \cup Report)
  \/ ~sure /\ \/ g \in {Yes("halted"), Idling, Yes("steady")}
              \/ g[1] = "data0" /\ r = "x8" /\ <<r, g[2]>> \in From(A, sure)
              \/ g = <<"data0", "result">> /\ r = "x10" /\ Yes("done") \in From(A, sure)
\* What every command that keeps the module busy changes.
Ran == {"last", "busy", "steady"} \cup Report
\* A word is read.
FetchGives(A, g, sure) ==
  \/ Keep(g, From(A, sure), {"data0", "loose"} \cup Ran)
  \/ ~sure /\ g = <<"data0", "a1">> /\ {<<"data1", "a1">>, <<"a1", "a1">>} \subseteq From(A, sure)
\* A word is written.
StoreGives(A, g, sure) ==
  \/ Keep(g, From(A, sure), Blocks \cup Ran)
  \/ ~sure /\ g[1] \in Blocks
       /\ \/ <<"data1", g[1]>> \in From(A, sure) /\ <<"data0", g[2]>> \in From(A, sure)
          \/ g \in From(A, sure) /\ \E b \in Blocks \ {g[1]} : <<"data1", b>> \in From(A, sure)
\* The first word is streamed.
RunStreamGives(A, g, sure) ==
  \/ Keep(g, From(A, sure), Blocks \cup {"data1", "aim", "x8", "x9"} \cup Ran)
  \/ ~sure /\ \/ g = Yes("last")
              \/ g = <<"data1", "a2">>
              \/ g[1] = "a1" /\ <<"data0", g[2]>> \in From(A, sure)
\* A word is stored by the program buffer.
RunStoreGives(A, g, sure) ==
  \/ Keep(g, From(A, sure), Blocks \cup {"x8"} \cup Ran)
  \/ g[1] \in Blocks /\ g \in From(A, sure) /\
       \E b \in (Blocks \cup {"peripheral"}) \ {g[1]} : <<"x9", b>> \in From(A, FALSE)
  \/ ~sure /\ g[1] \in Blocks /\ <<"x9", g[1]>> \in From(A, FALSE) /\
       <<"data0", g[2]>> \in From(A, sure)
\* A word is loaded by it.
RunLoadGives(A, g, sure) ==
  \/ Keep(g, From(A, sure), {"x8"} \cup Ran)
  \/ ~sure /\ g = <<"x8", "a1">> /\ {<<"data0", "a1">>, <<"a1", "a1">>} \subseteq From(A, sure)
\* The code mode program runs.
RunCodeGives(A, g, sure) ==
  Keep(g, From(A, sure), Ran)
\* A word of the page is written.
RunPageGives(A, g, sure) ==
  \/ Keep(g, From(A, sure), {"page"} \cup Ran)
  \/ ~sure /\ \/ g = <<"page", "half">> /\ <<"page", "erased">> \in From(A, sure)
              \/ g = <<"page", "filled">> /\ <<"page", "half">> \in From(A, sure)
\* What a command gives.
CommandGives(v, A, g, sure) ==
  \/ \E r \in Regs : v = SetReg(r) /\ SetGives(r, A, g, sure)
  \/ \E r \in Regs : v = GetReg(r) /\ GetGives(r, A, g, sure)
  \/ v = ReadMem /\ FetchGives(A, g, sure)
  \/ v = WriteMem /\ StoreGives(A, g, sure)
  \/ v = Run /\ <<"prog", "stream">> \in A.s /\ RunStreamGives(A, g, sure)
  \/ v = Run /\ <<"prog", "code">> \in A.s /\ RunCodeGives(A, g, sure)
  \/ v = SetRun("x8") /\ <<"prog", "store">> \in A.s /\ RunStoreGives(A, g, sure)
  \/ v = SetRun("x8") /\ <<"prog", "load">> \in A.s /\ RunLoadGives(A, g, sure)
  \/ v = SetRun("x14") /\ <<"prog", "page">> \in A.s /\ RunPageGives(A, g, sure)
\* What it needs to be harmless.
CommandAsks(f, v, A) ==
  LET F == A.s \cup A.p IN
  \/ \E r \in Regs : v \in {SetReg(r), GetReg(r)}
  \/ v = ReadMem
  \/ v = WriteMem /\ Yes("aim") \in A.s /\ (f = "X03X" => Yes("unlocked") \in A.s)
  \/ v = Run /\ <<"prog", "stream">> \in A.s /\ <<"data1", "a1">> \in F /\ f # "X03X"
  \/ v = Run /\ <<"prog", "code">> \in A.s
  \/ v = SetRun("x8") /\ <<"prog", "store">> \in A.s
       /\ (\E b \in Blocks \cup {"peripheral"} : <<"x9", b>> \in F) /\
            (f = "X03X" => Yes("unlocked") \in A.s)
  \/ v = SetRun("x8") /\ <<"prog", "load">> \in A.s
  \/ v = SetRun("x14") /\ <<"prog", "page">> \in A.s /\ <<"port", "program">> \in F /\
       <<"pn", 3>> \in F
       /\ \/ <<"page", "erased">> \in F /\ <<"data0", "w1">> \in F
          \/ <<"page", "half">> \in F /\ <<"data0", "w2">> \in F
\* What must be known when a resume starts a loader: LoaderArguments, as facts.
LoaderReady(f, op, S) ==
  /\ op \in LoaderOps /\ Yes("halted") \in S
  /\ {<<"x10", "mode">>, <<"x11", "address">>, <<"x12", "length">>, <<"x2", "stack">>} \subseteq S
  /\ f = "X03X" => Yes("unlocked") \in S
  /\ IsCh5(f) \/ f = "V30X" => <<"x13", "data">> \in S
  /\ <<"dcsr", "debug">> \in S \/ (f \in {"X03X", "V20X"} /\ op # "initialize")
  /\ NeedsMail(f, op) /\ f # "V20X" => <<"mailbox", "mail">> \in S
  /\ op = "erase_all" => <<"a1", "w1">> \in S /\ <<"a2", "w2">> \in S
\* What must be known when a word is streamed by autoexec.
StreamReady(A) == {Yes("last"), <<"prog", "stream">>, <<"data1", "a2">>, Idling,
                   Yes("sure")} \subseteq A.s
\* What a write needs.
WriteAsks(f, op, x, A) ==
  \/ x.reg = "DATA0" /\ (Mute \in A.s \/ StreamReady(A))
  \/ x.reg \in {"DATA1", "PROGBUF", "ABSTRACTCS", "UNLOCK", "DMOD"}
  \/ x.reg = "ABSTRACTAUTO" /\ Yes("sure") \in A.s /\ x.val \in {"on", "off"} /\
       (x.val = "on" => f \in Streaming)
  \/ x.reg = "COMMAND" /\ CommandAsks(f, x.val, A)
  \/ x.reg = "CONTROL" /\ x.val \in {"idle", "halt", "reset", "reset_halt"}
  \/ x.reg = "CONTROL" /\ x.val = "resume"
       /\ (Yes("free") \in A.s \/ Yes("running") \in A.s \/ LoaderReady(f, op, A.s))
\* What it gives.
WriteGives(f, x, A, g, sure) ==
  \/ g = Fine
  \/ x.reg = "DATA0" /\ Mute \in A.s /\ Data0(f, x.val, A, g, sure)
  \/ x.reg = "DATA0" /\ StreamReady(A) /\ Stream(x.val, A, g, sure)
  \/ x.reg = "DATA1" /\ Data1(x.val, A, g, sure)
  \/ x.reg = "PROGBUF" /\ Progbuf(x.val, A, g, sure)
  \/ x.reg = "ABSTRACTCS" /\ ClearError(A, g, sure)
  \/ x.reg = "ABSTRACTAUTO" /\ Autoexec(x.val, A, g, sure)
  \/ x.reg = "COMMAND" /\ CommandGives(x.val, A, g, sure)
  \/ x.reg = "CONTROL" /\ ControlGives(x.val, From(A, sure), g)
  \/ x.reg = "UNLOCK" /\
       (Keep(g, From(A, sure), Report) \/
        (g = Yes("unlocked") /\ (Yes("free") \in A.s \/ Yes("halted") \in A.s)))
  \/ x.reg = "DMOD" /\ Keep(g, From(A, sure), Report)
\* What a read of DATA0 gives.
ReadGives(A, g, sure) ==
  \/ Keep(g, From(A, sure), {"value", "answer", "steady"} \cup Report)
  \/ g = Yes("steady") /\ Yes("off") \in A.s /\ (sure => g \in A.s)
  \/ g[1] = "value" /\ <<"data0", g[2]>> \in From(A, sure)
  \/ g = Idling /\ ~sure
  \/ g = Yes("answer") /\ <<"data0", "a1">> \in A.s \cup A.p
  \/ g = Fine
\* What a byte may change at the port,
PortThings == {"port", "pn", "page", "closed"}
\* and on the way to it.
ByteThings == {"prog", "mode", "sync", "x11", "x13"}
\* the write reaches the port
Reached(b, S) == b.rw = "write8" /\ Yes("sync") \in S /\
                   ~(<<"prog", "code">> \in S /\ <<"mode", "write8">> \in S)
\* It is swallowed by another program in the buffer.
Unreached(b, S) == b.rw = "read8" \/ (<<"prog", "code">> \in S /\ <<"mode", "write8">> \in S)
\* What a byte that reaches the port gives.
Port(reg, v, S, g) ==
  \/ reg = "control" /\ v = "end"
       /\ \/ g \in {<<"port", "none">>, Yes("closed")}
          \/ g[1] = "page" /\ g \in S /\ Yes("closed") \in S
          \/ g = <<"page", "erasing">> /\ <<"port", "erase">> \in S /\ <<"pn", 3>> \in S
          \/ g = <<"page", "programming">> /\ <<"port", "program">> \in S /\
               <<"page", "filled">> \in S
  \/ reg = "control" /\ v = "open" /\
       (g \in {<<"port", "none">>, Yes("closed")} \/ (g[1] = "page" /\ g \in S))
  \/ reg = "control" /\ v = "begin"
       /\ (g \in {<<"port", "await">>, <<"pn", 0>>, Yes("closed")} \/ (g[1] = "page" /\ g \in S))
  \/ reg = "data"
       /\ \/ g[1] = "page" /\ g \in S
          \/ <<"port", "await">> \in S /\ (g = <<"port", v>> \/ (g[1] = "pn" /\ g \in S)
                                            \/ (g = Yes("closed") /\ v \notin {"erase", "program"}))
          \/ \E c \in {"erase", "program"} : <<"port", c>> \in S
               /\ (g = <<"port", c>> \/ \E n \in 0..2 : g = <<"pn", n + 1>> /\ <<"pn", n>> \in S)
\* What a byte access needs.
ByteAsks(b, reg, S) ==
  /\ b.rw = "write8" /\ reg = "control" => b.val \in {"open", "begin", "end"}
  /\ \/ Unreached(b, S)
     \/ /\ Reached(b, S)
        /\ reg \in {"data", "control"}
        /\ reg = "control" /\ b.val = "end" =>
             Yes("closed") \in S \/ (<<"port", "erase">> \in S /\ <<"pn", 3>> \in S) \/
               <<"port", "program">> \in S
\* What it gives.
ByteGives(b, reg, S, g) ==
  \/ g = Fine
  \/ Keep(g, S, ByteThings \cup PortThings \cup Report)
  \/ g \in {Idling, Yes("steady"), Yes("halted")}
  \/ Unreached(b, S) /\ g[1] \in PortThings /\ g \in S
  \/ Reached(b, S) /\ Port(reg, b.val, S, g)
  \/ g = <<"mode", b.rw>>
  \/ g = Yes("sync") /\
       (Yes("sync") \in S \/ \E m \in {"none", "read8", "write8"} : m # b.rw /\ <<"mode", m>> \in S)
  \/ g = <<"prog", "code">> /\ b.rw = "write8" /\ <<"prog", "code">> \in S /\
       <<"mode", "write8">> \in S

\* g holds after the access, whatever the error (sure) or when there is none
Gives(f, x, A, g, sure) ==
  \/ x.do = "write" /\ WriteGives(f, x, A, g, sure)
  \/ x.do = "wait" /\ (Keep(g, From(A, sure), Report) \/ g \in {Idling, Yes("steady"), Fine})
  \/ x.do = "check" /\ g \in A.s \cup A.p
  \/ x.do = "abstractcs" /\ (Keep(g, A.s \cup A.p, Report) \/ g = Fine)
  \/ x.do = "probe" /\ (Keep(g, From(A, sure), Report) \/ g = Fine)
  \/ x.do = "read" /\ ReadGives(A, g, sure)
  \/ x.do = "hart" /\ \/ Keep(g, From(A, sure), Report) \/ g = Fine
                      \/ x.reg = "halted" /\ g = Yes("halted")
                      \/ x.reg = "halted" /\ g = Yes("done") /\ Yes("started") \in From(A, sure)
  \/ x.do = "byte" /\ ByteGives(x.val, x.reg, A.s, g)
  \/ x.do = "ready" /\ \/ Keep(g, From(A, sure), {"page"} \cup Report) \/ g = Fine
                       \/ g = <<"page", "erased">> /\ <<"page", "erasing">> \in From(A, sure)
                       \/ g = <<"page", "new">> /\ <<"page", "programming">> \in From(A, sure)
  \/ x.do = "newtry" /\ \/ Keep(g, From(A, sure), Report) \/ g = Fine
  \/ x.do = "nomode" /\ \/ Keep(g, From(A, sure), {"mode", "sync"})
                        \/ g \in {Yes("sync"), <<"mode", "none">>}
  \/ x.do = "label" /\ g \in A.s
  \/ x.do = "clean" /\ \/ x.reg = "ABSTRACTAUTO" /\ (\/ Keep(g, A.s, {"calm", "auto"})
                                                     \/ g = Yes("calm") /\ Yes("steady") \in A.s)
                       \/ x.reg = "ABSTRACTCS" /\ g \in A.s
                       \/ x.reg = "CONTROL" /\ (Keep(g, A.s, HartThings) \/ g = Yes("released"))
\* what the jumps to a label know
E(f, op, l) ==
  IF l \in {"retry", "abandon"} THEN {Yes("sure"), Yes("kept"), Yes("steady"), Idling, Yes("told")}
  ELSE IF l \in {"cleanup", "release"} THEN {Yes("kept"), Yes("told"), Yes("calm")}
  ELSE {Yes("kept"), Yes("calm"), Mute}
       \cup (IF op = "read" THEN {<<"a1", "a1">>}
             ELSE {Yes("free"), Yes("unlocked"), Yes("off"), Yes("sure")})
       \cup (IF l = "got" THEN (IF op = "read" THEN {Yes("answer")} ELSE {}) ELSE {Idling})
\* What a program that ends well knows whatever the error.
FinalS(f, op) ==
  {Yes("kept"), Yes("calm")} \cup
  IF op = "write" THEN (IF f = "V20X" THEN {} ELSE {Yes("off"), <<"a1", "w1">>, <<"a2", "w2">>})
  ELSE IF op = "write32" THEN (IF f = "V20X" THEN {} ELSE {<<"a1", "w1">>})
  ELSE IF op = "read" THEN {Yes("answer")}
  ELSE IF op = "resume" THEN {Yes("running"), <<"request", "none">>}
  ELSE IF op = "reset_halt" THEN {Yes("halted"), <<"dpc", "vector">>}
  ELSE IF op \in {"reset_run", "soft_reset_run"} THEN {Yes("running"), <<"dpc", "vector">>}
  ELSE IF op \in LoaderOps THEN {Yes("halted"), <<"value", "result">>}
  ELSE {<<"page", "new">>}
\* What it knows besides when there is none.
FinalP(f, op) ==
  FinalS(f, op) \cup
  IF f = "V20X" /\ op = "write" THEN {<<"a1", "w1">>, <<"a2", "w2">>}
  ELSE IF f = "V20X" /\ op = "write32" THEN {<<"a1", "w1">>} ELSE {}
\* What the next access needs.
Asks(f, op, x, A) ==
  /\ Yes("kept") \in A.s
  /\ \/ x.do = "write" /\ WriteAsks(f, op, x, A)
     \/ x.do = "check" /\ Fine \in A.s
     \/ x.do = "read" /\ Mute \in A.s
     \/ x.do = "byte" /\ x.fail = "return" /\ ByteAsks(x.val, x.reg, A.s)
     \/ x.do \in {"wait", "abstractcs", "probe", "hart", "newtry", "nomode"}
     \/ x.do = "ready" /\ Yes("closed") \in A.s
     \/ x.do = "label" /\ A.s \subseteq E(f, op, x.reg) /\ A.p \subseteq E(f, op, x.reg)
     \/ x.do = "goto" /\ x.fail # "return" /\ E(f, op, x.fail) \subseteq A.s
     \/ x.do = "done" /\ FinalS(f, op) \subseteq A.s /\ FinalP(f, op) \subseteq A.s \cup A.p
     \/ x.do = "giveup" /\ {Yes("told"), Yes("calm")} \subseteq A.s /\
          (op = "resume" => Yes("released") \in A.s)
     \/ x.do = "clean" /\ \/ x.reg = "ABSTRACTAUTO" /\ x.val = "off" /\
                               {Yes("sure"), Yes("steady")} \subseteq A.s
                          \/ x.reg = "ABSTRACTCS"
                          \/ x.reg = "CONTROL" /\ x.val = "idle"
\* facts where a failed access goes on
Settling == {"write", "wait", "read"}
Fails(f, x, A, g) ==
  \/ g = Yes("told")
  \/ g \in A.s /\ g[1] # "diag" /\ (x.do \in Settling => Gives(f, x, A, g, TRUE))
  \/ g \in {Idling, Yes("steady")} /\ x.do \in Settling
\* What must be known where a failed access ends the operation.
Returns(op, x, S) ==
  /\ op = "resume" => (Yes("released") \in S /\ x.do = "write" /\ x.reg # "CONTROL")
  /\ \/ Yes("calm") \in S /\ ~(x.do = "write" /\ x.reg = "ABSTRACTAUTO")
     \/ x.do = "write" /\ x.reg = "ABSTRACTAUTO" /\ x.val = "off" /\
          (Yes("steady") \in S \/ Yes("off") \in S)
\* The accesses that may fail.
Jumps == {"write", "wait", "check", "abstractcs", "probe", "read", "hart", "byte", "ready"}
\* A failed access knows what its label expects.
Exits(f, op, x, A) ==
  x.do \in Jumps => IF x.fail = "return" THEN Returns(op, x, A.s)
    ELSE \A g \in E(f, op, x.fail) : Fails(f, x, A, g)
\* The accesses that do not lead to the next one.
Lasts == {"goto", "done", "giveup"}
\* The access x leads from what A says to what B says.
Flow(f, op, x, A, B) ==
  /\ Asks(f, op, x, A) /\ Exits(f, op, x, A)
  /\ \/ x.do \in Lasts
     \/ /\ Yes("sure") \in B.s => Yes("sure") \in A.s
        /\ (\A g \in B.s : Gives(f, x, A, g, TRUE)) /\ (\A g \in B.p : Gives(f, x, A, g, FALSE))
     \/ /\ x.do = "newtry" /\ Yes("calm") \in A.s /\ Yes("sure") \notin B.s
        /\ \A g \in B.s \cup B.p : g = Mute \/ Gives(f, x, A, g, TRUE)
\* What is known when an operation starts.
FirstS(f, op) ==
  {Yes("steady"), Yes("calm"), Fine, Yes("told"), Yes("released"), Yes("kept"), Idling,
   <<"a1", "a1">>,
   Yes("free"), <<"page", "old">>, <<"mode", "none">>, Yes("sync")}
  \cup (IF f \in Streaming /\ op # "write" THEN {Mute} ELSE {Yes("sure")})
  \cup (IF f \in Streaming THEN {} ELSE {Mute, Yes("off")})
  \cup (IF f = "X03X" THEN {} ELSE {Yes("unlocked")})

-----------------------------------------------------------------------------
(* The debug module, command by command.                                   *)

\* The fields of the record of the debug module.
Fields == {"data0", "data1", "regs", "auto", "cmderr", "busy", "last", "prog", "mem",
           "hart", "request", "locked", "pcmd", "pn", "page", "stray"}
\* What is assumed of the record of the debug module.
IsDm(d) ==
  /\ DOMAIN d = Fields
  /\ DOMAIN d.regs = Regs /\ DOMAIN d.mem = Addresses
  /\ {d.busy, d.auto, d.locked, d.stray} \subseteq BOOLEAN
  /\ d.hart \in {"halted", "running", "loader", "reset"}

\* An error is noted and nothing else changes (cmderr of RISC-V debug 0.13).
LEMMA RaiseIs ==
  ASSUME NEW d, IsDm(d), NEW e, e # "none"
  PROVE  /\ IsDm(Raise(d, e)) /\ Raise(d, e).cmderr # "none"
         /\ \A k \in Fields \ {"cmderr"} : Raise(d, e)[k] = d[k]
BY DEF Raise, IsDm, Fields

\* The streaming program of rvswd_memory_write_streaming stores DATA0 at the address in DATA1
\* and leaves the next address there.
LEMMA RunStreamIs ==
  ASSUME NEW d, d.prog = "stream",
         d.regs["x10"] = "&data0" /\ d.regs["x11"] = "&data1" /\ d.data1 \in Addresses
  PROVE  RunBuffer(d) = [d EXCEPT !.mem[d.data1] = d.data0, !.data1 = After(d.data1),
                      !.regs["x8"] = d.data0, !.regs["x9"] = d.data1]
BY Zenon DEF RunBuffer

\* Without its two pointers, or past the memory, the streaming program ends in an exception.
LEMMA RunStreamFails ==
  ASSUME NEW d, d.prog = "stream",
         ~(d.regs["x10"] = "&data0" /\ d.regs["x11"] = "&data1" /\ d.data1 \in Addresses)
  PROVE  RunBuffer(d) = Raise(d, "exception")
BY Zenon DEF RunBuffer

\* The store program of rvswd_memory_write_slow stores x8 at the address in x9.
LEMMA RunStoreIs ==
  ASSUME NEW d, d.prog = "store"
  PROVE  RunBuffer(d) = IF d.regs["x9"] \in Addresses
           THEN [d EXCEPT !.mem[d.regs["x9"]] = d.regs["x8"]]
           ELSE Raise(d, "exception")
BY Zenon DEF RunBuffer

\* The load program of rvswd_memory_read32_synchronized replaces the address in x8 by the word
\* there.
LEMMA RunLoadIs ==
  ASSUME NEW d, d.prog = "load"
  PROVE  RunBuffer(d) = IF d.regs["x8"] \in Addresses
           THEN [d EXCEPT !.regs["x8"] = d.mem[d.regs["x8"]]]
           ELSE Raise(d, "exception")
BY Zenon DEF RunBuffer

\* Running the code mode program of the CH58x changes nothing that is modelled.
LEMMA RunCodeIs ==
  ASSUME NEW d, d.prog = "code"
  PROVE  RunBuffer(d) = d
BY Zenon DEF RunBuffer

\* The page program of the CH58x writes one word to the flash port.
LEMMA RunPageIs ==
  ASSUME NEW d, d.prog = "page"
  PROVE  RunBuffer(d) = WordWritten(d)
BY Zenon DEF RunBuffer

\* Anything else in the program buffer ends in an exception.
LEMMA RunElse ==
  ASSUME NEW d, d.prog \notin {"stream", "store", "load", "code", "page"}
  PROVE  RunBuffer(d) = Raise(d, "exception")
BY Zenon DEF RunBuffer

\* Fields that no command changes.
Solid == {"auto", "last", "prog", "hart", "request", "locked", "pcmd", "pn"}
\* Nothing outside what commands work on differs.
SameSolid(d, e) == \A k \in Solid : e[k] = d[k]

\* A word written to the flash port changes the page, and nothing solid.
LEMMA WordWrittenFrame ==
  ASSUME NEW d, IsDm(d)
  PROVE  IsDm(WordWritten(d)) /\ SameSolid(d, WordWritten(d)) /\ WordWritten(d).cmderr = d.cmderr
<1> DEFINE p == WordWritten(d).page
<1>1. \/ WordWritten(d) = d \/ WordWritten(d) = [d EXCEPT !.stray = TRUE]
      \/ WordWritten(d) = [d EXCEPT !.page = p]
  BY DEF WordWritten, IsDm, Fields
<1> HIDE DEF p
<1> QED BY <1>1 DEF IsDm, SameSolid, Fields, Solid

\* The program buffer changes nothing solid and clears no error.
LEMMA RunBufferFrame ==
  ASSUME NEW d, IsDm(d)
  PROVE  IsDm(RunBuffer(d)) /\ SameSolid(d, RunBuffer(d)) /\
           (RunBuffer(d).cmderr = "none" => d.cmderr = "none")
<1>1. IsDm(Raise(d, "exception")) /\ SameSolid(d, Raise(d, "exception")) /\
        Raise(d, "exception").cmderr # "none"
  BY RaiseIs DEF SameSolid, IsDm, Fields, Solid
<1>2. CASE d.prog = "stream"
  <2>1. CASE d.regs["x10"] = "&data0" /\ d.regs["x11"] = "&data1" /\ d.data1 \in Addresses
    <3> DEFINE e1 == [d EXCEPT !.mem[d.data1] = d.data0]
               e2 == [e1 EXCEPT !.data1 = After(d.data1)]
               e3 == [e2 EXCEPT !.regs["x8"] = d.data0]
               e4 == [e3 EXCEPT !.regs["x9"] = d.data1]
    <3>1. IsDm(e1) /\ SameSolid(d, e1) /\ e1.cmderr = d.cmderr
      BY DEF SameSolid, IsDm, Fields, Solid
    <3> HIDE DEF e1
    <3>2. IsDm(e2) /\ SameSolid(e1, e2) /\ e2.cmderr = e1.cmderr
      BY <3>1 DEF SameSolid, IsDm, Fields, Solid
    <3> HIDE DEF e2
    <3>3. IsDm(e3) /\ SameSolid(e2, e3) /\ e3.cmderr = e2.cmderr
      BY <3>2 DEF SameSolid, IsDm, Fields, Solid
    <3> HIDE DEF e3
    <3>4. IsDm(e4) /\ SameSolid(e3, e4) /\ e4.cmderr = e3.cmderr
      BY <3>3 DEF SameSolid, IsDm, Fields, Solid
    <3>5. RunBuffer(d) = e4  BY <1>2, <2>1, RunStreamIs DEF e1, e2, e3
    <3> HIDE DEF e4
    <3> QED BY <3>1, <3>2, <3>3, <3>4, <3>5 DEF SameSolid
  <2> QED BY <1>1, <1>2, <2>1, RunStreamFails
<1>3. CASE d.prog = "store"
  BY <1>1, <1>3, RunStoreIs DEF SameSolid, IsDm, Fields, Solid
<1>4. CASE d.prog = "load"
  BY <1>1, <1>4, RunLoadIs DEF SameSolid, IsDm, Fields, Solid
<1>5. CASE d.prog = "code"
  BY <1>5, RunCodeIs DEF SameSolid
<1>6. CASE d.prog = "page"
  BY <1>6, RunPageIs, WordWrittenFrame
<1>7. CASE d.prog \notin {"stream", "store", "load", "code", "page"}
  BY <1>1, <1>7, RunElse
<1> QED BY <1>2, <1>3, <1>4, <1>5, <1>6, <1>7

\* The command before the program buffer.
Transfer(d, c) ==
  CASE c.op = "set" -> [d EXCEPT !.regs[c.reg] = d.data0]
    [] c.op = "get" -> [d EXCEPT !.data0 = d.regs[c.reg]]
    [] c.op = "readmem" /\ d.data1 \in Addresses -> [d EXCEPT !.data0 = d.mem[d.data1]]
    [] c.op = "writemem" /\ d.data1 \in Addresses -> [d EXCEPT !.mem[d.data1] = d.data0]
    [] c.op = "run" -> d
    [] OTHER -> Raise(d, "exception")

\* Neither does a register transfer or a memory access.
LEMMA TransferFrame ==
  ASSUME NEW d, IsDm(d), NEW c
  PROVE  IsDm(Transfer(d, c)) /\ SameSolid(d, Transfer(d, c)) /\
           (Transfer(d, c).cmderr = "none" => d.cmderr = "none")
<1>1. IsDm(Raise(d, "exception")) /\ SameSolid(d, Raise(d, "exception")) /\
        Raise(d, "exception").cmderr # "none"
  BY RaiseIs DEF SameSolid, IsDm, Fields, Solid
<1>2. CASE c.op = "set"
  <2>1. Transfer(d, c) = [d EXCEPT !.regs[c.reg] = d.data0]  BY <1>2, Zenon DEF Transfer
  <2> QED BY <2>1 DEF SameSolid, IsDm, Fields, Solid
<1>3. CASE c.op = "get"
  <2>1. Transfer(d, c) = [d EXCEPT !.data0 = d.regs[c.reg]]  BY <1>3, Zenon DEF Transfer
  <2> QED BY <2>1 DEF SameSolid, IsDm, Fields, Solid
<1>4. CASE c.op = "readmem" /\ d.data1 \in Addresses
  <2>1. Transfer(d, c) = [d EXCEPT !.data0 = d.mem[d.data1]]  BY <1>4, Zenon DEF Transfer
  <2> QED BY <2>1 DEF SameSolid, IsDm, Fields, Solid
<1>5. CASE c.op = "writemem" /\ d.data1 \in Addresses
  <2>1. Transfer(d, c) = [d EXCEPT !.mem[d.data1] = d.data0]  BY <1>5, Zenon DEF Transfer
  <2> QED BY <2>1 DEF SameSolid, IsDm, Fields, Solid
<1>6. CASE c.op = "run"
  <2>1. Transfer(d, c) = d  BY <1>6, Zenon DEF Transfer
  <2> QED BY <2>1 DEF SameSolid
<1>7. CASE ~(c.op \in {"set", "get", "run"} \/
             (c.op \in {"readmem", "writemem"} /\ d.data1 \in Addresses))
  <2>1. Transfer(d, c) = Raise(d, "exception")  BY <1>7, Zenon DEF Transfer
  <2> QED BY <1>1, <2>1
<1> QED BY <1>2, <1>3, <1>4, <1>5, <1>6, <1>7

\* A command is a transfer, then the program buffer if asked for, and fails on a running hart.
LEMMA ExecIs ==
  ASSUME NEW d, NEW c
  PROVE  Exec(d, c) = IF d.hart # "halted" THEN Raise(d, "haltresume")
           ELSE [(IF c.run THEN RunBuffer(Transfer(d, c)) ELSE Transfer(d, c))
                   EXCEPT !.busy = (c.op \notin {"set", "get"} \/ c.run)]
BY Zenon DEF Exec, Transfer

\* A command changes nothing solid, clears no error and needs a halted hart.
LEMMA ExecFrame ==
  ASSUME NEW d, IsDm(d), NEW c
  PROVE  /\ IsDm(Exec(d, c)) /\ SameSolid(d, Exec(d, c))
         /\ Exec(d, c).cmderr = "none" => d.cmderr = "none" /\ d.hart = "halted"
<1>1. IsDm(Raise(d, "haltresume")) /\ SameSolid(d, Raise(d, "haltresume")) /\
        Raise(d, "haltresume").cmderr # "none"
  BY RaiseIs DEF SameSolid, IsDm, Fields, Solid
<1> DEFINE t == Transfer(d, c)
           u == IF c.run THEN RunBuffer(t) ELSE t
<1>2. IsDm(t) /\ SameSolid(d, t) /\ (t.cmderr = "none" => d.cmderr = "none")
  BY TransferFrame
<1> HIDE DEF t
<1>3. IsDm(u) /\ SameSolid(d, u) /\ (u.cmderr = "none" => d.cmderr = "none")
  BY <1>2, RunBufferFrame DEF SameSolid
<1>4. d.hart = "halted" => Exec(d, c) = [u EXCEPT !.busy = (c.op \notin {"set", "get"} \/ c.run)]
  BY ExecIs DEF t
<1> HIDE DEF u
<1>5. d.hart = "halted"
        => IsDm(Exec(d, c)) /\ SameSolid(d, Exec(d, c)) /\
          (Exec(d, c).cmderr = "none" => d.cmderr = "none")
  BY <1>3, <1>4 DEF SameSolid, IsDm, Fields, Solid
<1> QED BY <1>1, <1>5, ExecIs

\* e differs from d at most in the fields ks.
Alike(d, e, ks) == \A k \in Fields \ ks : e[k] = d[k]

\* A command that does not execute: the module is busy, has an error, or the
\* hart does not halt; or its execution fails for another reason.
Missed(d, e) == Alike(d, e, {"cmderr", "last", "busy"}) /\ (~d.busy => ~e.busy) /\ e.cmderr # "none"

\* The module may have finished its command in between.
Eased(e, d) == Alike(e, d, {"busy"}) /\ (~e.busy => ~d.busy)

\* What a command does that executes.
SetDone(d, e, r) ==
  /\ Alike(d, e, {"regs", "busy", "last"}) /\ ~e.busy
  /\ e.regs = [d.regs EXCEPT ![r] = d.data0]
\* What reading a register leaves.
GetDone(d, e, r) ==
  /\ Alike(d, e, {"data0", "busy", "last"}) /\ ~e.busy
  /\ e.data0 = d.regs[r]
\* What reading a word leaves.
FetchDone(d, e) ==
  /\ Alike(d, e, {"data0", "busy", "last", "cmderr"})
  /\ d.data1 \in Addresses => e.data0 = d.mem[d.data1]
\* What writing a word leaves.
StoreDone(d, e) ==
  /\ Alike(d, e, {"mem", "busy", "last", "cmderr"})
  /\ IF d.data1 \in Addresses THEN e.mem = [d.mem EXCEPT ![d.data1] = d.data0]
     ELSE e.mem = d.mem /\ e.cmderr # "none"
\* What a word of the streaming program leaves.
StreamDone(d, e) ==
  /\ Alike(d, e, {"mem", "data1", "regs", "busy", "last", "cmderr"}) /\ e.last = Run
  /\ \A r \in Regs \ {"x8", "x9"} : e.regs[r] = d.regs[r]
  /\ e.cmderr = "none" => e.data1 = After(d.data1)
  /\ IF e.cmderr = "none" THEN e.mem = [d.mem EXCEPT ![d.data1] = d.data0]
     ELSE e.mem = d.mem \/ e.mem = [d.mem EXCEPT ![d.data1] = d.data0]
\* What a word of the store program leaves.
RunStoreDone(d, e) ==
  /\ Alike(d, e, {"mem", "regs", "busy", "last", "cmderr"})
  /\ e.regs = [d.regs EXCEPT !["x8"] = d.data0]
  /\ IF d.regs["x9"] \in Addresses THEN e.mem = [d.mem EXCEPT ![d.regs["x9"]] = d.data0]
     ELSE e.mem = d.mem /\ e.cmderr # "none"
\* What the load program leaves.
RunLoadDone(d, e) ==
  /\ Alike(d, e, {"regs", "busy", "last", "cmderr"})
  /\ \A r \in Regs \ {"x8"} : e.regs[r] = d.regs[r]
  /\ d.data0 \in Addresses => e.regs["x8"] = d.mem[d.data0]
\* What a word of the page program leaves.
RunPageDone(d, e) ==
  /\ Alike(d, e, {"regs", "stray", "page", "busy", "last", "cmderr"})
  /\ \A r \in Regs \ {"x14"} : e.regs[r] = d.regs[r]
  /\ d.pcmd = "program" /\ d.pn = 3 =>
       /\ e.stray = d.stray
       /\ d.page = "erased" /\ d.data0 = "w1" => e.page = "half"
       /\ d.page = "half" /\ d.data0 = "w2" => e.page = "filled"

\* A command starts.
Begun(d, c) == [d EXCEPT !.last = c]
\* A command that is written starts, and is the one autoexec repeats.
Start(d, c) == Exec(Begun(d, c), c)

\* Only the last command changes before a command executes.
LEMMA BegunIs ==
  ASSUME NEW d, IsDm(d), NEW c
  PROVE  IsDm(Begun(d, c)) /\ Alike(d, Begun(d, c), {"last"}) /\ Begun(d, c).last = c
BY DEF Begun, IsDm, Fields, Alike

\* A write of COMMAND misses, or executes the command.
LEMMA CommandCases ==
  ASSUME NEW d, IsDm(d), NEW c, NEW e, e = DmiWrite(d, "COMMAND", c)
  PROVE  \/ Missed(d, e)
         \/ ~d.busy /\ d.cmderr = "none" /\ d.hart = "halted" /\ e = Start(d, c)
<1>1. IsDm(Begun(d, c)) /\ Begun(d, c).hart = d.hart /\ Begun(d, c).cmderr = d.cmderr
  BY BegunIs DEF Fields, Alike
<1>2. e = IF d.busy THEN Raise(d, "busy") ELSE IF d.cmderr = "none" THEN Start(d, c) ELSE d
  BY Zenon DEF DmiWrite, Abstract, Start, Begun
<1>3. CASE d.busy
  BY <1>2, <1>3, RaiseIs DEF Missed, Alike, Fields
<1>4. CASE ~d.busy /\ d.cmderr # "none"
  BY <1>2, <1>4 DEF Missed, Alike, Fields
<1>5. CASE ~d.busy /\ d.cmderr = "none"
  <2>1. CASE d.hart # "halted"
    <3>1. e = Raise(Begun(d, c), "haltresume")  BY <1>1, <1>2, <1>5, <2>1, ExecIs DEF Start
    <3> QED BY <1>1, <3>1, RaiseIs, BegunIs DEF Missed, Alike, Fields
  <2> QED BY <1>2, <1>5, <2>1
<1> QED BY <1>3, <1>4, <1>5

\* Executing a command without and with the program buffer.
LEMMA ExecHalted ==
  ASSUME NEW d, IsDm(d), d.hart = "halted", NEW c, c.run = FALSE,
         NEW t, t = Transfer(Begun(d, c), c), NEW e, e = Start(d, c)
  PROVE  IsDm(t) /\ IsDm(e) /\ Alike(t, e, {"busy"}) /\ (c.op \in {"set", "get"} => ~e.busy)
<1>1. IsDm(Begun(d, c)) /\ Begun(d, c).hart = "halted"
  BY BegunIs DEF Fields, Alike
<1>2. e = [t EXCEPT !.busy = (c.op \notin {"set", "get"} \/ c.run)]
  BY <1>1, ExecIs DEF Start
<1>3. IsDm(t) /\ IsDm(e)  BY <1>1, TransferFrame, ExecFrame DEF Start
<1> QED BY <1>2, <1>3 DEF Alike, IsDm, Fields

\* A command that runs the program buffer does what the buffer does to the transferred state.
LEMMA ExecBuffer ==
  ASSUME NEW d, IsDm(d), d.hart = "halted", NEW c, c.run = TRUE,
         NEW t, t = Transfer(Begun(d, c), c), NEW e, e = Start(d, c)
  PROVE  IsDm(t) /\ IsDm(e) /\ Alike(RunBuffer(t), e, {"busy"})
<1>1. IsDm(Begun(d, c)) /\ Begun(d, c).hart = "halted"
  BY BegunIs DEF Fields, Alike
<1>2. e = [RunBuffer(t) EXCEPT !.busy = (c.op \notin {"set", "get"} \/ c.run)]
  BY <1>1, ExecIs DEF Start
<1>3. IsDm(t) /\ IsDm(RunBuffer(t)) /\ IsDm(e)
  BY <1>1, TransferFrame, RunBufferFrame, ExecFrame DEF Start
<1> QED BY <1>2, <1>3 DEF Alike, IsDm, Fields

\* The command that writes a register does so.
LEMMA SetExec ==
  ASSUME NEW d, IsDm(d), d.hart = "halted", NEW r \in Regs, NEW e, e = Start(d, SetReg(r))
  PROVE  SetDone(d, e, r)
<1> DEFINE c == SetReg(r)
           d1 == Begun(d, c)
           t == Transfer(d1, c)
<1>1. c.op = "set" /\ c.reg = r /\ c.run = FALSE  BY DEF SetReg
<1>2. e = Start(d, c) OBVIOUS
<1>3. t = Transfer(Begun(d, c), c)  OBVIOUS
<1> HIDE DEF c, t
<1>4. IsDm(t) /\ Alike(t, e, {"busy"}) /\ ~e.busy
  BY <1>1, <1>2, <1>3, ExecHalted
<1>5. IsDm(d1) /\ Alike(d, d1, {"last"})  BY BegunIs
<1>6. t = Transfer(d1, c)  BY <1>3
<1> HIDE DEF d1
<1>7. t = [d1 EXCEPT !.regs[r] = d1.data0]  BY <1>1, <1>6, Zenon DEF Transfer
<1> QED BY <1>4, <1>5, <1>7 DEF SetDone, Alike, IsDm, Fields

\* The command that reads a register does so.
LEMMA GetExec ==
  ASSUME NEW d, IsDm(d), d.hart = "halted", NEW r \in Regs, NEW e, e = Start(d, GetReg(r))
  PROVE  GetDone(d, e, r)
<1> DEFINE c == GetReg(r)
           d1 == Begun(d, c)
           t == Transfer(d1, c)
<1>1. c.op = "get" /\ c.reg = r /\ c.run = FALSE  BY DEF GetReg
<1>2. e = Start(d, c) OBVIOUS
<1>3. t = Transfer(Begun(d, c), c)  OBVIOUS
<1> HIDE DEF c, t
<1>4. IsDm(t) /\ Alike(t, e, {"busy"}) /\ ~e.busy
  BY <1>1, <1>2, <1>3, ExecHalted
<1>5. IsDm(d1) /\ Alike(d, d1, {"last"})  BY BegunIs
<1>6. t = Transfer(d1, c)  BY <1>3
<1> HIDE DEF d1
<1>7. t = [d1 EXCEPT !.data0 = d1.regs[r]]  BY <1>1, <1>6, Zenon DEF Transfer
<1> QED BY <1>4, <1>5, <1>7 DEF GetDone, Alike, IsDm, Fields

\* The Access Memory read of rvswd_memory_read32_access_memory reads the word.
LEMMA FetchExec ==
  ASSUME NEW d, IsDm(d), d.hart = "halted", NEW e, e = Start(d, ReadMem)
  PROVE  FetchDone(d, e)
<1> DEFINE c == ReadMem
           d1 == Begun(d, c)
           t == Transfer(d1, c)
<1>1. c.op = "readmem" /\ c.run = FALSE  BY DEF ReadMem
<1>2. e = Start(d, c) OBVIOUS
<1>3. t = Transfer(Begun(d, c), c)  OBVIOUS
<1> HIDE DEF c, t
<1>4. IsDm(t) /\ Alike(t, e, {"busy"})
  BY <1>1, <1>2, <1>3, ExecHalted
<1>5. IsDm(d1) /\ Alike(d, d1, {"last"})  BY BegunIs
<1>6. t = Transfer(d1, c)  BY <1>3
<1> HIDE DEF d1
<1>7. CASE d1.data1 \in Addresses
  <2>1. t = [d1 EXCEPT !.data0 = d1.mem[d1.data1]]  BY <1>1, <1>7, <1>6, Zenon DEF Transfer
  <2> QED BY <1>4, <1>5, <2>1 DEF FetchDone, Alike, IsDm, Fields
<1>8. CASE d1.data1 \notin Addresses
  <2>1. t = Raise(d1, "exception")  BY <1>1, <1>8, <1>6, Zenon DEF Transfer
  <2>2. Alike(d1, t, {"cmderr"})  BY <1>4, <1>5, <2>1, RaiseIs DEF Alike
  <2> QED BY <1>4, <1>5, <1>8, <2>2 DEF FetchDone, Alike, Fields
<1> QED BY <1>7, <1>8

\* The Access Memory write of the X03X and the V20X writes the word.
LEMMA StoreExec ==
  ASSUME NEW d, IsDm(d), d.hart = "halted", NEW e, e = Start(d, WriteMem)
  PROVE  StoreDone(d, e)
<1> DEFINE c == WriteMem
           d1 == Begun(d, c)
           t == Transfer(d1, c)
<1>1. c.op = "writemem" /\ c.run = FALSE  BY DEF WriteMem
<1>2. e = Start(d, c) OBVIOUS
<1>3. t = Transfer(Begun(d, c), c)  OBVIOUS
<1> HIDE DEF c, t
<1>4. IsDm(t) /\ Alike(t, e, {"busy"})
  BY <1>1, <1>2, <1>3, ExecHalted
<1>5. IsDm(d1) /\ Alike(d, d1, {"last"})  BY BegunIs
<1>6. t = Transfer(d1, c)  BY <1>3
<1> HIDE DEF d1
<1>7. CASE d1.data1 \in Addresses
  <2>1. t = [d1 EXCEPT !.mem[d1.data1] = d1.data0]  BY <1>1, <1>7, <1>6, Zenon DEF Transfer
  <2> QED BY <1>4, <1>5, <1>7, <2>1 DEF StoreDone, Alike, IsDm, Fields
<1>8. CASE d1.data1 \notin Addresses
  <2>1. t = Raise(d1, "exception")  BY <1>1, <1>8, <1>6, Zenon DEF Transfer
  <2>2. Alike(d1, t, {"cmderr"}) /\ t.cmderr # "none"  BY <1>4, <1>5, <2>1, RaiseIs DEF Alike
  <2> QED BY <1>4, <1>5, <1>8, <2>2 DEF StoreDone, Alike, Fields
<1> QED BY <1>7, <1>8

\* The program buffer runs after a register was set.
LEMMA SetRunHalted ==
  ASSUME NEW d, IsDm(d), d.hart = "halted", NEW r \in Regs, NEW e, e = Start(d, SetRun(r))
  PROVE  \E t : /\ IsDm(t) /\ Alike(d, t, {"regs", "last"}) /\
                     t.regs = [d.regs EXCEPT ![r] = d.data0]
                /\ Alike(RunBuffer(t), e, {"busy"})
<1> DEFINE c == SetRun(r)
           d1 == Begun(d, c)
           t == Transfer(d1, c)
<1>1. c.op = "set" /\ c.reg = r /\ c.run = TRUE  BY DEF SetRun
<1>2. e = Start(d, c) OBVIOUS
<1>3. t = Transfer(Begun(d, c), c)  OBVIOUS
<1> HIDE DEF c, t
<1>4. IsDm(t) /\ Alike(RunBuffer(t), e, {"busy"})
  BY <1>1, <1>2, <1>3, ExecBuffer
<1>5. IsDm(d1) /\ Alike(d, d1, {"last"})  BY BegunIs
<1>6. t = Transfer(d1, c)  BY <1>3
<1> HIDE DEF d1
<1>7. t = [d1 EXCEPT !.regs[r] = d1.data0]  BY <1>1, <1>6, Zenon DEF Transfer
<1>8. Alike(d, t, {"regs", "last"}) /\ t.regs = [d.regs EXCEPT ![r] = d.data0]
  BY <1>4, <1>5, <1>7 DEF Alike, IsDm, Fields
<1> QED BY <1>4, <1>5, <1>8

\* A write of x8 that runs the store program writes the word.
LEMMA RunStoreExec ==
  ASSUME NEW d, IsDm(d), d.hart = "halted", d.prog = "store", NEW e, e = Start(d, SetRun("x8"))
  PROVE  RunStoreDone(d, e)
<1>1. PICK t : /\ IsDm(t) /\ Alike(d, t, {"regs", "last"}) /\
                    t.regs = [d.regs EXCEPT !["x8"] = d.data0]
               /\ Alike(RunBuffer(t), e, {"busy"})
  BY SetRunHalted DEF Regs
<1>2. t.prog = "store" /\ t.regs["x9"] = d.regs["x9"] /\ t.regs["x8"] = d.data0
  BY <1>1 DEF Alike, Fields, IsDm, Regs
<1>3. CASE d.regs["x9"] \in Addresses
  <2>1. RunBuffer(t) = [t EXCEPT !.mem[t.regs["x9"]] = t.regs["x8"]]  BY <1>2, <1>3, RunStoreIs
  <2> QED BY <1>1, <1>2, <1>3, <2>1 DEF RunStoreDone, Alike, IsDm, Fields
<1>4. CASE d.regs["x9"] \notin Addresses
  <2>1. RunBuffer(t) = Raise(t, "exception")  BY <1>2, <1>4, RunStoreIs
  <2>2. Alike(t, RunBuffer(t), {"cmderr"}) /\ RunBuffer(t).cmderr # "none"
    BY <1>1, <2>1, RaiseIs DEF Alike
  <2> QED BY <1>1, <1>4, <2>2 DEF RunStoreDone, Alike, Fields
<1> QED BY <1>3, <1>4

\* A write of x8 that runs the load program reads the word.
LEMMA RunLoadExec ==
  ASSUME NEW d, IsDm(d), d.hart = "halted", d.prog = "load", NEW e, e = Start(d, SetRun("x8"))
  PROVE  RunLoadDone(d, e)
<1>1. PICK t : /\ IsDm(t) /\ Alike(d, t, {"regs", "last"}) /\
                    t.regs = [d.regs EXCEPT !["x8"] = d.data0]
               /\ Alike(RunBuffer(t), e, {"busy"})
  BY SetRunHalted DEF Regs
<1>2. t.prog = "load" /\ t.regs["x8"] = d.data0 /\ \A r \in Regs \ {"x8"} : t.regs[r] = d.regs[r]
  BY <1>1 DEF Alike, Fields, IsDm, Regs
<1>3. CASE d.data0 \in Addresses
  <2>1. RunBuffer(t) = [t EXCEPT !.regs["x8"] = t.mem[t.regs["x8"]]]  BY <1>2, <1>3, RunLoadIs
  <2>2. \A r \in Regs \ {"x8"} : RunBuffer(t).regs[r] = d.regs[r]
    BY <1>1, <1>2, <2>1 DEF IsDm, Fields
  <2> QED BY <1>1, <1>2, <1>3, <2>1, <2>2 DEF RunLoadDone, Alike, IsDm, Fields, Regs
<1>4. CASE d.data0 \notin Addresses
  <2>1. RunBuffer(t) = Raise(t, "exception")  BY <1>2, <1>4, RunLoadIs
  <2>2. Alike(t, RunBuffer(t), {"cmderr"}) /\ RunBuffer(t).cmderr # "none"
    BY <1>1, <2>1, RaiseIs DEF Alike
  <2>3. e.regs = t.regs  BY <1>1, <2>2 DEF Alike, Fields
  <2>4. Alike(d, e, {"regs", "busy", "last", "cmderr"})  BY <1>1, <2>2 DEF Alike, Fields
  <2> QED BY <1>2, <1>4, <2>3, <2>4 DEF RunLoadDone
<1> QED BY <1>3, <1>4

\* A write of x14 that runs the page program writes the word to the page.
LEMMA RunPageExec ==
  ASSUME NEW d, IsDm(d), d.hart = "halted", d.prog = "page", NEW e, e = Start(d, SetRun("x14"))
  PROVE  RunPageDone(d, e)
<1>1. PICK t : /\ IsDm(t) /\ Alike(d, t, {"regs", "last"}) /\
                    t.regs = [d.regs EXCEPT !["x14"] = d.data0]
               /\ Alike(RunBuffer(t), e, {"busy"})
  BY SetRunHalted DEF Regs
<1>2. t.prog = "page" /\ t.regs["x14"] = d.data0 /\ \A r \in Regs \ {"x14"} : t.regs[r] = d.regs[r]
  BY <1>1 DEF Alike, Fields, IsDm, Regs
<1>3. RunBuffer(t) = WordWritten(t)  BY <1>2, RunPageIs
<1>4. Alike(t, WordWritten(t), {"stray", "page"})
  BY <1>1 DEF WordWritten, Alike, IsDm, Fields
<1>5. t.pcmd = "program" /\ t.pn = 3 =>
        /\ WordWritten(t).stray = t.stray
        /\ t.page = "erased" /\ d.data0 = "w1" => WordWritten(t).page = "half"
        /\ t.page = "half" /\ d.data0 = "w2" => WordWritten(t).page = "filled"
  <2> SUFFICES ASSUME t.pcmd = "program", t.pn = 3
               PROVE  /\ WordWritten(t).stray = t.stray
                      /\ t.page = "erased" /\ d.data0 = "w1" => WordWritten(t).page = "half"
                      /\ t.page = "half" /\ d.data0 = "w2" => WordWritten(t).page = "filled"
    OBVIOUS
  <2> DEFINE p == CASE t.page = "erased" /\ t.regs["x14"] = "w1" -> "half"
                    [] t.page = "half" /\ t.regs["x14"] = "w2" -> "filled"
                    [] OTHER -> "mixed"
  <2>1. WordWritten(t) = [t EXCEPT !.page = p]  BY DEF WordWritten
  <2>2. t.page = "erased" /\ d.data0 = "w1" => p = "half"  BY <1>2, Zenon
  <2>3. t.page = "half" /\ d.data0 = "w2" => p = "filled"  BY <1>2, Zenon
  <2> HIDE DEF p
  <2> QED BY <1>1, <2>1, <2>2, <2>3 DEF IsDm, Fields
<1>6. e.regs = t.regs /\ e.stray = WordWritten(t).stray /\ e.page = WordWritten(t).page
  BY <1>1, <1>3, <1>4 DEF Alike, Fields
<1>7. t.pcmd = d.pcmd /\ t.pn = d.pn /\ t.page = d.page /\ t.stray = d.stray
  BY <1>1 DEF Alike, Fields
<1>8. Alike(d, e, {"regs", "stray", "page", "busy", "last", "cmderr"})
  BY <1>1, <1>3, <1>4 DEF Alike, Fields
<1> QED BY <1>2, <1>5, <1>6, <1>7, <1>8 DEF RunPageDone

\* The command Run executes the program buffer alone.
LEMMA RunHalted ==
  ASSUME NEW d, IsDm(d), d.hart = "halted", NEW e, e = Start(d, Run)
  PROVE  /\ IsDm(Begun(d, Run)) /\ Alike(d, Begun(d, Run), {"last"}) /\ Begun(d, Run).last = Run
         /\ Alike(RunBuffer(Begun(d, Run)), e, {"busy"})
<1> DEFINE c == Run
           d1 == Begun(d, c)
           t == Transfer(d1, c)
<1>1. c.op = "run" /\ c.run = TRUE  BY DEF Run
<1>2. e = Start(d, c) OBVIOUS
<1>3. t = Transfer(Begun(d, c), c)  OBVIOUS
<1>4. t = d1  BY <1>1, Zenon DEF Transfer
<1> HIDE DEF c, t
<1>5. Alike(RunBuffer(t), e, {"busy"})  BY <1>1, <1>2, <1>3, ExecBuffer
<1>6. IsDm(d1) /\ Alike(d, d1, {"last"}) /\ d1.last = c  BY BegunIs
<1> QED BY <1>4, <1>5, <1>6 DEF c

\* A run of the code mode program only keeps the module busy.
LEMMA RunCodeExec ==
  ASSUME NEW d, IsDm(d), d.hart = "halted", d.prog = "code", NEW e, e = Start(d, Run)
  PROVE  Alike(d, e, {"last", "busy"})
<1> DEFINE d1 == Begun(d, Run)
<1>1. IsDm(d1) /\ Alike(d, d1, {"last"}) /\ Alike(RunBuffer(d1), e, {"busy"})  BY RunHalted
<1> HIDE DEF d1
<1>2. d1.prog = "code"  BY <1>1 DEF Alike, Fields
<1>3. RunBuffer(d1) = d1  BY <1>2, RunCodeIs
<1> QED BY <1>1, <1>3 DEF Alike

\* A run of the streaming program, by command or by autoexec, stores one word and moves on.
LEMMA StreamRuns ==
  ASSUME NEW d1, IsDm(d1), d1.hart = "halted", d1.prog = "stream", d1.last = Run, NEW e,
         e = Exec(d1, Run)
  PROVE  StreamDone(d1, e)
<1>1. Run.op = "run" /\ Run.run = TRUE  BY DEF Run
<1>2. Transfer(d1, Run) = d1  BY <1>1, Zenon DEF Transfer
<1>3. IsDm(RunBuffer(d1))  BY RunBufferFrame
<1>4. e = [RunBuffer(d1) EXCEPT !.busy = TRUE]  BY <1>1, <1>2, ExecIs
<1>5. Alike(RunBuffer(d1), e, {"busy"})  BY <1>3, <1>4 DEF Alike, IsDm, Fields
<1>6. CASE d1.regs["x10"] = "&data0" /\ d1.regs["x11"] = "&data1" /\ d1.data1 \in Addresses
  <2> DEFINE a == After(d1.data1)
             e1 == [d1 EXCEPT !.mem[d1.data1] = d1.data0]
             e2 == [e1 EXCEPT !.data1 = a]
             e3 == [e2 EXCEPT !.regs["x8"] = d1.data0]
             e4 == [e3 EXCEPT !.regs["x9"] = d1.data1]
  <2>5. RunBuffer(d1) = e4  BY <1>6, RunStreamIs DEF e1, e2, e3
  <2> HIDE DEF a
  <2>1. Alike(d1, e1, {"mem"}) /\ e1.mem = [d1.mem EXCEPT ![d1.data1] = d1.data0] /\ IsDm(e1)
    BY DEF Alike, IsDm, Fields
  <2> HIDE DEF e1
  <2>2. Alike(e1, e2, {"data1"}) /\ e2.data1 = a /\ IsDm(e2)  BY <2>1 DEF Alike, IsDm, Fields
  <2> HIDE DEF e2
  <2>3. Alike(e2, e3, {"regs"}) /\ IsDm(e3) /\ \A r \in Regs \ {"x8"} : e3.regs[r] = e2.regs[r]
    BY <2>2 DEF Alike, IsDm, Fields
  <2> HIDE DEF e3
  <2>4. Alike(e3, e4, {"regs"}) /\ \A r \in Regs \ {"x9"} : e4.regs[r] = e3.regs[r]
    BY <2>3 DEF Alike, IsDm, Fields
  <2> HIDE DEF e4
  <2>6. Alike(d1, e4, {"mem", "data1", "regs"}) /\ e4.data1 = a /\
          e4.mem = [d1.mem EXCEPT ![d1.data1] = d1.data0]
        /\ \A r \in Regs \ {"x8", "x9"} : e4.regs[r] = d1.regs[r]
    BY <2>1, <2>2, <2>3, <2>4 DEF Alike, Fields
  <2> QED BY <1>5, <2>5, <2>6 DEF StreamDone, Alike, Fields, a
<1>7. CASE ~(d1.regs["x10"] = "&data0" /\ d1.regs["x11"] = "&data1" /\ d1.data1 \in Addresses)
  <2>1. RunBuffer(d1) = Raise(d1, "exception")  BY <1>7, RunStreamFails
  <2>2. Alike(d1, RunBuffer(d1), {"cmderr"}) /\ RunBuffer(d1).cmderr # "none"
    BY <2>1, RaiseIs DEF Alike
  <2> QED BY <1>5, <2>2 DEF StreamDone, Alike, Fields
<1> QED BY <1>6, <1>7

\* So does the explicit command that starts the stream.
LEMMA StreamExec ==
  ASSUME NEW d, IsDm(d), d.hart = "halted", d.prog = "stream", NEW e, e = Start(d, Run)
  PROVE  StreamDone(d, e)
<1> DEFINE d1 == Begun(d, Run)
<1>1. IsDm(d1) /\ Alike(d, d1, {"last"}) /\ d1.last = Run  BY BegunIs
<1>2. e = Exec(d1, Run)  BY DEF Start
<1> HIDE DEF d1
<1>3. d1.prog = "stream" /\ d1.hart = "halted"  BY <1>1 DEF Alike, Fields
<1>4. StreamDone(d1, e)  BY <1>1, <1>2, <1>3, StreamRuns
<1> QED BY <1>1, <1>4 DEF StreamDone, Alike, Fields

-----------------------------------------------------------------------------
(* Facts after a command.                                                  *)

\* Facts

\* The step changes at most the fields and locals ks and the registers rs.
Changes(ks, rs) ==
  /\ family' = family /\ (unchecked => unchecked')
  /\ "mode" \in ks \/ mode' = mode
  /\ "value" \in ks \/ value' = value
  /\ \A k \in Fields \ (ks \cup {"regs"}) : dm'[k] = dm[k]
  /\ \A r \in Regs \ rs : dm'.regs[r] = dm.regs[r]

\* Fields and registers no fact is named after.
Nameless == {"cmderr", "mem", "hart", "locked", "pcmd", "stray", "x5", "x14", "csr300"}

\* The fact g does not depend on what changes.
Apart(g, ks, rs) ==
  LET t == g[1] IN
  /\ t \in Nameless \/ t \notin ks \cup rs
  /\ t = "loose" => "data0" \notin ks
  /\ t = "aim" => "data1" \notin ks
  /\ t = "sync" => ks \cap {"mode", "prog"} = {}
  /\ t = "answer" => "value" \notin ks
  /\ t = "port" => "pcmd" \notin ks
  /\ t = "closed" => "pcmd" \notin ks
  /\ g = Yes("kept") => ks \cap {"mem", "page", "stray"} = {}
  /\ t \in Blocks => "mem" \notin ks
  /\ t \in {"x10", "dpc", "halted", "reset", "running", "free", "started", "done", "unlocked"}
       => "hart" \notin ks
  /\ t = "running" => "request" \notin ks
  /\ t = "unlocked" => "locked" \notin ks
  /\ t = "free" => "dpc" \notin rs
  /\ t \in {"started", "done"} => "x10" \notin rs

\* A fact stays true when nothing it speaks of changes.
LEMMA KeepSays ==
  ASSUME NEW g, Says(g), NEW ks, NEW rs, Changes(ks, rs), Apart(g, ks, rs)
  PROVE  Says(g)'
<1>1. ModuleSays(g)'
  BY DEF Says, ModuleSays, Changes, Apart, Nameless, Careless, Idling, Yes, Mute, Fields
<1>2. RegisterSays(g)'
  BY DEF Says, RegisterSays, Changes, Apart, Nameless, Careless, Regs, Arguments4, Fields
<1>3. HartSays(g)'
  BY DEF Says, HartSays, Changes, Apart, Nameless, Regs, Yes, Fields
<1>4. MemorySays(g)'
  BY DEF Says, MemorySays, Changes, Apart, Nameless, Kept, Yes, Fields, Blocks
<1>5. PortSays(g)'
  BY DEF Says, PortSays, Changes, Apart, Nameless, Yes, Fields
<1>6. LocalSays(g)'
  BY DEF Says, LocalSays, Changes, Apart, Nameless, Yes, Fields
<1> QED BY <1>1, <1>2, <1>3, <1>4, <1>5, <1>6 DEF Says

\* Every fact of F is true.
AllSay(F) == \A h \in F : Says(h)
\* The frame of a write.
Steady == family' = family /\ (unchecked => unchecked') /\ mode' = mode /\ value' = value

\* A fact about one thing only.
LEMMA BusySays ==
  ASSUME NEW g, g[1] = "busy", g = Idling => ~dm'.busy
  PROVE  Says(g)'
BY DEF Says, ModuleSays, RegisterSays, HartSays, MemorySays, PortSays, LocalSays, Yes, Idling, Mute,
   Arguments4, Blocks

\* Facts about the data registers and the program buffer follow from their new values.
LEMMA DataSays ==
  ASSUME NEW g, \/ g[1] = "data0" /\ dm'.data0 = g[2]
                \/ g[1] = "loose" /\ (dm'.data0 = g[2] \/ Careless')
                \/ g[1] = "data1" /\ dm'.data1 = g[2]
                \/ g[1] = "aim" /\ dm'.data1 \notin {"a0", "a3"}
                \/ g[1] = "prog" /\ dm'.prog = g[2]
                \/ g[1] = "auto" /\ (g = Mute => ~dm'.auto) /\ (g = Yes("auto") => dm'.auto)
                \/ g[1] = "last" /\ dm'.last = Run
  PROVE  Says(g)'
BY DEF Says, ModuleSays, RegisterSays, HartSays, MemorySays, PortSays, LocalSays, Yes, Idling, Mute,
   Arguments4, Blocks

\* So do facts about the registers of the hart,
LEMMA RegSays ==
  ASSUME NEW g, \/ g[1] \in {"x8", "x9"} /\ dm'.regs[g[1]] = g[2]
                \/ g[1] \in Arguments4 /\ (dm'.regs[g[1]] = g[2] \/ Careless')
                \/ g[1] = "x10" /\ ((dm'.hart # "loader" /\ dm'.regs["x10"] = g[2]) \/ Careless')
                \/ g[1] = "dpc" /\ dm'.hart # "loader" /\ dm'.regs["dpc"] = g[2]
                \/ g[1] \notin {"x8", "x9", "x10", "dpc"} \cup Arguments4 /\ g[1] \in Regs
  PROVE  Says(g)'
BY DEF Says, ModuleSays, RegisterSays, HartSays, MemorySays, PortSays, LocalSays, Yes, Idling, Mute,
   Arguments4, Blocks, Regs

\* facts about where the hart is,
LEMMA HaltSays ==
  ASSUME NEW g, \/ g[1] = "halted" /\ dm'.hart = "halted"
                \/ g[1] = "reset" /\ dm'.hart = "reset"
                \/ g[1] = "running" /\ dm'.hart = "running" /\ dm'.request \notin {"halt", "reset"}
                \/ g[1] = "free" /\ dm'.hart # "loader" /\ dm'.regs["dpc"] # "entry"
                \/ g[1] = "started" /\
                     (dm'.hart = "loader" \/ (dm'.hart = "halted" /\ dm'.regs["x10"] = "result"))
                \/ g[1] = "done" /\ dm'.hart = "halted" /\ dm'.regs["x10"] = "result"
                \/ g[1] = "unlocked" /\ ~dm'.locked /\ dm'.hart # "loader"
                \/ g[1] = "request" /\ dm'.request = g[2]
  PROVE  Says(g)'
BY DEF Says, ModuleSays, RegisterSays, HartSays, MemorySays, PortSays, LocalSays, Yes, Idling, Mute,
   Arguments4, Blocks

\* facts about the memory and the flash port,
LEMMA BlockSays ==
  ASSUME NEW g, \/ g[1] = "kept" /\ Kept'
                \/ g[1] \in Blocks /\ dm'.mem[g[1]] = g[2]
                \/ g[1] = "port" /\ dm'.pcmd = g[2]
                \/ g[1] = "pn" /\ dm'.pn = g[2]
                \/ g[1] = "closed" /\ dm'.pcmd \notin {"erase", "program"}
                \/ g[1] = "page" /\ dm'.page = g[2]
  PROVE  Says(g)'
BY DEF Says, ModuleSays, RegisterSays, HartSays, MemorySays, PortSays, LocalSays, Yes, Idling, Mute,
   Arguments4, Blocks

\* and facts about the locals of the operation.
LEMMA OwnSays ==
  ASSUME NEW g, \/ g[1] = "mode" /\ mode' = g[2]
                \/ g[1] = "sync" /\ (mode' = "none" \/ mode' = dm'.prog)
                \/ g[1] = "value" /\ value' = g[2]
                \/ g[1] = "answer" /\ (value' = "a1" \/ unchecked')
                \/ g[1] \in {"steady", "off", "calm", "diag", "told", "released", "sure"}
  PROVE  Says(g)'
BY DEF Says, ModuleSays, RegisterSays, HartSays, MemorySays, PortSays, LocalSays, Yes, Idling, Mute,
   Arguments4, Blocks

\* What the annotation of a register write promises is true after it.
LEMMA SetSays ==
  ASSUME NEW A, NEW g, NEW sure \in BOOLEAN, NEW r \in Regs, SetGives(r, A, g, sure),
         IsDm(dm), Steady, dm.hart = "halted", SetDone(dm, dm', r), AllSay(A.s \cup A.p)
  PROVE  Says(g)'
<1>1. /\ Changes({"busy", "last"}, {r}) /\ ~dm'.busy /\ dm'.regs[r] = dm.data0 /\
           dm'.hart = "halted"
  BY DEF SetDone, Alike, IsDm, Changes, Steady, Fields
<1>2. CASE Keep(g, From(A, sure), SetTouched(r)) /\ g[1] # "busy"
  <2>1. Says(g)  BY <1>2 DEF Keep, From, AllSay
  <2>2. g[1] \notin SetTouched(r)  BY <1>2 DEF Keep
  <2>3. Apart(g, {"busy", "last"}, {r})  BY <1>2, <2>2 DEF Apart, SetTouched
  <2> QED BY <1>1, <2>1, <2>3, KeepSays
<1>3. CASE g[1] = "busy"
  BY <1>1, <1>3, BusySays
<1>4. CASE g \in {Yes("halted"), Yes("steady")}
  BY <1>1, <1>4, HaltSays, OwnSays DEF Yes
<1>5. CASE g[1] = r /\ (<<"data0", g[2]>> \in A.s \cup A.p
                               \/ (r \in Arguments4 \cup {"x10"} /\
                                   <<"loose", g[2]>> \in A.s \cup A.p))
  <2>1. dm.data0 = g[2] \/ (r \in Arguments4 \cup {"x10"} /\ Careless)
    BY <1>5 DEF AllSay, Says, ModuleSays
  <2> QED BY <1>1, <1>5, <2>1, RegSays DEF Careless, Steady, Arguments4
<1> QED BY <1>2, <1>3, <1>4, <1>5 DEF SetGives, From, Idling

\* What the annotation of a register read promises is true after it.
LEMMA GetSays ==
  ASSUME NEW A, NEW g, NEW sure \in BOOLEAN, NEW r \in Regs, GetGives(r, A, g, sure),
         IsDm(dm), Steady, dm.hart = "halted", GetDone(dm, dm', r), AllSay(A.s \cup A.p)
  PROVE  Says(g)'
<1>1. /\ Changes({"data0", "busy", "last"}, {}) /\ ~dm'.busy /\ dm'.data0 = dm.regs[r] /\
           dm'.hart = "halted"
  BY DEF GetDone, Alike, IsDm, Changes, Steady, Fields
<1>2. CASE Keep(g, From(A, sure), {"data0", "loose", "last"} \cup Report) /\ g[1] # "busy"
  <2>1. Says(g)  BY <1>2 DEF Keep, From, AllSay
  <2>2. g[1] \notin {"data0", "loose", "last"}  BY <1>2 DEF Keep
  <2>3. Apart(g, {"data0", "busy", "last"}, {})  BY <1>2, <2>2 DEF Apart
  <2> QED BY <1>1, <2>1, <2>3, KeepSays
<1>3. CASE g[1] = "busy"
  BY <1>1, <1>3, BusySays
<1>4. CASE g \in {Yes("halted"), Yes("steady")}
  BY <1>1, <1>4, HaltSays, OwnSays DEF Yes
<1>5. CASE g[1] = "data0" /\ r = "x8" /\ <<r, g[2]>> \in A.s \cup A.p
  <2>1. dm.regs["x8"] = g[2]  BY <1>5 DEF AllSay, Says, RegisterSays
  <2> QED BY <1>1, <1>5, <2>1, DataSays
<1>6. CASE g = <<"data0", "result">> /\ r = "x10" /\ Yes("done") \in A.s \cup A.p
  <2>1. dm.regs["x10"] = "result"  BY <1>6 DEF AllSay, Says, HartSays
  <2> QED BY <1>1, <1>6, <2>1, DataSays
<1> QED BY <1>2, <1>3, <1>4, <1>5, <1>6 DEF GetGives, From, Idling

\* What the annotation of an Access Memory read promises is true after it.
LEMMA FetchSays ==
  ASSUME NEW A, NEW g, NEW sure \in BOOLEAN, FetchGives(A, g, sure),
         IsDm(dm), Steady, FetchDone(dm, dm'), AllSay(A.s \cup A.p)
  PROVE  Says(g)'
<1>1. Changes({"data0", "busy", "last", "cmderr"}, {})
  BY DEF FetchDone, Alike, IsDm, Changes, Steady, Fields
<1>2. CASE Keep(g, From(A, sure), {"data0", "loose"} \cup Ran)
  <2>1. Says(g)  BY <1>2 DEF Keep, From, AllSay
  <2>2. g[1] \notin {"data0", "loose", "last", "busy"}  BY <1>2 DEF Keep, Ran
  <2>3. Apart(g, {"data0", "busy", "last", "cmderr"}, {})  BY <2>2 DEF Apart, Nameless
  <2> QED BY <1>1, <2>1, <2>3, KeepSays
<1>3. CASE g = <<"data0", "a1">> /\ {<<"data1", "a1">>, <<"a1", "a1">>} \subseteq A.s \cup A.p
  <2>1. dm.data1 = "a1"  BY <1>3 DEF AllSay, Says, ModuleSays
  <2>2. dm.mem["a1"] = "a1"
    <3>1. Says(<<"a1", "a1">>)  BY <1>3 DEF AllSay
    <3> QED BY <3>1 DEF Says, MemorySays, Blocks
  <2> QED BY <1>3, <2>1, <2>2, DataSays DEF FetchDone, Addresses
<1> QED BY <1>2, <1>3 DEF FetchGives, From

\* What the annotation of an Access Memory write promises is true after it; the neighbours are
\* safe because the address in DATA1 is not theirs.
LEMMA StoreSays ==
  ASSUME NEW A, NEW g, NEW sure \in BOOLEAN, StoreGives(A, g, sure), sure \/ dm'.cmderr = "none",
         IsDm(dm), Steady, StoreDone(dm, dm'), AllSay(A.s \cup A.p),
         Yes("aim") \in A.s
  PROVE  Says(g)'
<1>1. Changes({"mem", "busy", "last", "cmderr"}, {})
  BY DEF StoreDone, Alike, IsDm, Changes, Steady, Fields
<1>2. CASE Keep(g, From(A, sure), Blocks \cup Ran)
  <2>1. Says(g)  BY <1>2 DEF Keep, From, AllSay
  <2>2. g[1] \notin Blocks \cup {"last", "busy"}  BY <1>2 DEF Keep, Ran
  <2>4. CASE g = Yes("kept")
    <3>1. dm.data1 \notin {"a0", "a3"}
      BY DEF AllSay, Says, ModuleSays
    <3>2. Kept  BY <2>1, <2>4 DEF Says, MemorySays
    <3>3. dm'.mem["a0"] = dm.mem["a0"] /\ dm'.mem["a3"] = dm.mem["a3"]
      BY <3>1 DEF StoreDone, IsDm, Addresses
    <3>4. Kept'  BY <1>1, <3>2, <3>3 DEF Kept, Changes, Fields
    <3> QED BY <2>4, <3>4, BlockSays DEF Yes
  <2>5. CASE g # Yes("kept")
    <3>1. Apart(g, {"mem", "busy", "last", "cmderr"}, {})  BY <2>2, <2>5 DEF Apart, Nameless
    <3> QED BY <1>1, <2>1, <3>1, KeepSays
  <2> QED BY <2>4, <2>5
<1>3. CASE ~sure /\ g[1] \in Blocks
       /\ \/ <<"data1", g[1]>> \in A.s \cup A.p /\ <<"data0", g[2]>> \in A.s \cup A.p
          \/ g \in A.s \cup A.p /\ \E b \in Blocks \ {g[1]} : <<"data1", b>> \in A.s \cup A.p
  <2>1. dm'.mem = [dm.mem EXCEPT ![dm.data1] = dm.data0] /\ DOMAIN dm.mem = Addresses
    BY <1>3 DEF StoreDone, IsDm
  <2>2. CASE <<"data1", g[1]>> \in A.s \cup A.p /\ <<"data0", g[2]>> \in A.s \cup A.p
    <3>1. dm.data1 = g[1] /\ dm.data0 = g[2]  BY <2>2 DEF AllSay, Says, ModuleSays
    <3>2. dm'.mem[g[1]] = g[2]  BY <1>3, <2>1, <3>1 DEF Blocks, Addresses
    <3> QED BY <1>3, <3>2, BlockSays
  <2>3. CASE g \in A.s \cup A.p /\ \E b \in Blocks \ {g[1]} : <<"data1", b>> \in A.s \cup A.p
    <3>1. dm.data1 # g[1]  BY <2>3 DEF AllSay, Says, ModuleSays
    <3>2. dm.mem[g[1]] = g[2]  BY <1>3, <2>3 DEF AllSay, Says, MemorySays
    <3>3. dm'.mem[g[1]] = g[2]  BY <1>3, <2>1, <3>1, <3>2 DEF Blocks, Addresses
    <3> QED BY <1>3, <3>3, BlockSays
  <2> QED BY <1>3, <2>2, <2>3
<1> QED BY <1>2, <1>3 DEF StoreGives, From

\* What the annotation of the first streamed word promises is true after it.
LEMMA StreamSays ==
  ASSUME NEW A, NEW g, NEW sure \in BOOLEAN, RunStreamGives(A, g, sure),
         sure \/ dm'.cmderr = "none",
         IsDm(dm), Steady, StreamDone(dm, dm'), AllSay(A.s \cup A.p),
         <<"data1", "a1">> \in A.s \cup A.p
  PROVE  Says(g)'
<1>1. Changes({"mem", "data1", "busy", "last", "cmderr"}, {"x8", "x9"})
  BY DEF StreamDone, Alike, IsDm, Changes, Steady, Fields
<1>2. dm.data1 = "a1"  BY DEF AllSay, Says, ModuleSays
<1>3. CASE Keep(g, From(A, sure), Blocks \cup {"data1", "aim", "x8", "x9"} \cup Ran)
  <2>1. Says(g)  BY <1>3 DEF Keep, From, AllSay
  <2>2. g[1] \notin Blocks \cup {"data1", "aim", "x8", "x9", "last", "busy"}  BY <1>3 DEF Keep, Ran
  <2>4. CASE g = Yes("kept")
    <3>2. Kept  BY <2>1, <2>4 DEF Says, MemorySays
    <3>3. dm'.mem["a0"] = dm.mem["a0"] /\ dm'.mem["a3"] = dm.mem["a3"]
      BY <1>2 DEF StreamDone, IsDm, Addresses
    <3>4. Kept'  BY <1>1, <3>2, <3>3 DEF Kept, Changes, Fields
    <3> QED BY <2>4, <3>4, BlockSays DEF Yes
  <2>5. CASE g # Yes("kept")
    <3>1. Apart(g, {"mem", "data1", "busy", "last", "cmderr"}, {"x8", "x9"})
      BY <2>2, <2>5 DEF Apart, Nameless
    <3> QED BY <1>1, <2>1, <3>1, KeepSays
  <2> QED BY <2>4, <2>5
<1>4. CASE g = Yes("last")
  BY <1>4, DataSays DEF StreamDone, Yes
<1>5. CASE ~sure /\ g = <<"data1", "a2">>
  <2>1. After("a1") = "a2"  BY Zenon DEF After
  <2> QED BY <1>2, <1>5, <2>1, DataSays DEF StreamDone
<1>6. CASE ~sure /\ g[1] = "a1" /\ <<"data0", g[2]>> \in A.s \cup A.p
  <2>1. dm.data0 = g[2]  BY <1>6 DEF AllSay, Says, ModuleSays
  <2>2. dm'.mem["a1"] = g[2]  BY <1>2, <1>6, <2>1 DEF StreamDone, IsDm, Addresses
  <2> QED BY <1>6, <2>2, BlockSays DEF Blocks
<1> QED BY <1>3, <1>4, <1>5, <1>6 DEF RunStreamGives, From

\* What the annotation of a stored word promises is true after it.
LEMMA RunStoreSays ==
  ASSUME NEW A, NEW g, NEW sure \in BOOLEAN, RunStoreGives(A, g, sure), sure \/ dm'.cmderr = "none",
         IsDm(dm), Steady, RunStoreDone(dm, dm'), AllSay(A.s \cup A.p),
         \E b \in Blocks \cup {"peripheral"} : <<"x9", b>> \in A.s \cup A.p
  PROVE  Says(g)'
<1>1. Changes({"mem", "busy", "last", "cmderr"}, {"x8"})
  BY DEF RunStoreDone, Alike, IsDm, Changes, Steady, Fields
<1>2. \A b : <<"x9", b>> \in A.s \cup A.p => dm.regs["x9"] = b
  BY DEF AllSay, Says, RegisterSays
<1>3. /\ dm.regs["x9"] \in Blocks \cup {"peripheral"} /\ DOMAIN dm.mem = Addresses
      /\ dm'.mem = [dm.mem EXCEPT ![dm.regs["x9"]] = dm.data0]
  BY <1>2 DEF RunStoreDone, IsDm, Blocks, Addresses
<1>4. CASE Keep(g, From(A, sure), Blocks \cup {"x8"} \cup Ran)
  <2>1. Says(g)  BY <1>4 DEF Keep, From, AllSay
  <2>2. g[1] \notin Blocks \cup {"x8", "last", "busy"}  BY <1>4 DEF Keep, Ran
  <2>4. CASE g = Yes("kept")
    <3>2. Kept  BY <2>1, <2>4 DEF Says, MemorySays
    <3>3. dm'.mem["a0"] = dm.mem["a0"] /\ dm'.mem["a3"] = dm.mem["a3"]
      BY <1>3 DEF Addresses, Blocks
    <3>4. Kept'  BY <1>1, <3>2, <3>3 DEF Kept, Changes, Fields
    <3> QED BY <2>4, <3>4, BlockSays DEF Yes
  <2>5. CASE g # Yes("kept")
    <3>1. Apart(g, {"mem", "busy", "last", "cmderr"}, {"x8"})  BY <2>2, <2>5 DEF Apart, Nameless
    <3> QED BY <1>1, <2>1, <3>1, KeepSays
  <2> QED BY <2>4, <2>5
<1>5. CASE g[1] \in Blocks /\ g \in A.s \cup A.p /\
             \E b \in (Blocks \cup {"peripheral"}) \ {g[1]} : <<"x9", b>> \in A.s \cup A.p
  <2>1. dm.regs["x9"] # g[1]  BY <1>2, <1>5
  <2>2. dm.mem[g[1]] = g[2]  BY <1>5 DEF AllSay, Says, MemorySays
  <2>3. dm'.mem[g[1]] = g[2]  BY <1>3, <1>5, <2>1, <2>2 DEF Blocks, Addresses
  <2> QED BY <1>5, <2>3, BlockSays
<1>6. CASE g[1] \in Blocks /\ <<"x9", g[1]>> \in A.s \cup A.p /\ <<"data0", g[2]>> \in A.s \cup A.p
  <2>1. dm.regs["x9"] = g[1] /\ dm.data0 = g[2]  BY <1>2, <1>6 DEF AllSay, Says, ModuleSays
  <2>2. dm'.mem[g[1]] = g[2]  BY <1>3, <1>6, <2>1 DEF Blocks, Addresses
  <2> QED BY <1>6, <2>2, BlockSays
<1> QED BY <1>4, <1>5, <1>6 DEF RunStoreGives, From

\* What the annotation of a loaded word promises is true after it.
LEMMA RunLoadSays ==
  ASSUME NEW A, NEW g, NEW sure \in BOOLEAN, RunLoadGives(A, g, sure),
         IsDm(dm), Steady, RunLoadDone(dm, dm'), AllSay(A.s \cup A.p)
  PROVE  Says(g)'
<1>1. Changes({"busy", "last", "cmderr"}, {"x8"})
  BY DEF RunLoadDone, Alike, IsDm, Changes, Steady, Fields
<1>2. CASE Keep(g, From(A, sure), {"x8"} \cup Ran)
  <2>1. Says(g)  BY <1>2 DEF Keep, From, AllSay
  <2>2. g[1] \notin {"x8", "last", "busy"}  BY <1>2 DEF Keep, Ran
  <2>3. Apart(g, {"busy", "last", "cmderr"}, {"x8"})  BY <2>2 DEF Apart, Nameless
  <2> QED BY <1>1, <2>1, <2>3, KeepSays
<1>3. CASE g = <<"x8", "a1">> /\ {<<"data0", "a1">>, <<"a1", "a1">>} \subseteq A.s \cup A.p
  <2>1. dm.data0 = "a1"  BY <1>3 DEF AllSay, Says, ModuleSays
  <2>2. dm.mem["a1"] = "a1"
    <3>1. Says(<<"a1", "a1">>)  BY <1>3 DEF AllSay
    <3> QED BY <3>1 DEF Says, MemorySays, Blocks
  <2> QED BY <1>3, <2>1, <2>2, RegSays DEF RunLoadDone, Addresses
<1> QED BY <1>2, <1>3 DEF RunLoadGives, From

\* What the annotation of the code mode program promises is true after it.
LEMMA RunCodeSays ==
  ASSUME NEW A, NEW g, NEW sure \in BOOLEAN, RunCodeGives(A, g, sure),
         IsDm(dm), Steady, Alike(dm, dm', {"last", "busy"}), AllSay(A.s \cup A.p)
  PROVE  Says(g)'
<1>1. Changes({"busy", "last"}, {})
  BY DEF Alike, IsDm, Changes, Steady, Fields
<1>2. Says(g)  BY DEF RunCodeGives, Keep, From, AllSay
<1>3. g[1] \notin {"last", "busy"}  BY DEF RunCodeGives, Keep, Ran
<1>4. Apart(g, {"busy", "last"}, {})  BY <1>3 DEF Apart
<1> QED BY <1>1, <1>2, <1>4, KeepSays

\* What the annotation of a page word promises is true after it: words reach the port in order,
\* so the page is not mixed.
LEMMA RunPageSays ==
  ASSUME NEW A, NEW g, NEW sure \in BOOLEAN, RunPageGives(A, g, sure),
         IsDm(dm), Steady, RunPageDone(dm, dm'), AllSay(A.s \cup A.p),
         <<"port", "program">> \in A.s \cup A.p, <<"pn", 3>> \in A.s \cup A.p,
         \/ <<"page", "erased">> \in A.s \cup A.p /\ <<"data0", "w1">> \in A.s \cup A.p
         \/ <<"page", "half">> \in A.s \cup A.p /\ <<"data0", "w2">> \in A.s \cup A.p
  PROVE  Says(g)'
<1>1. Changes({"stray", "page", "busy", "last", "cmderr"}, {"x14"})
  BY DEF RunPageDone, Alike, IsDm, Changes, Steady, Fields
<1>2. dm.pcmd = "program" /\ dm.pn = 3
  BY DEF AllSay, Says, PortSays
<1>3. \A v : /\ <<"page", v>> \in A.s \cup A.p => dm.page = v
             /\ <<"data0", v>> \in A.s \cup A.p => dm.data0 = v
  BY DEF AllSay, Says, PortSays, ModuleSays
<1>4. /\ dm'.stray = dm.stray /\ dm'.page \in {"half", "filled"}
      /\ dm.page = "erased" => dm'.page = "half"
      /\ dm.page = "half" => dm'.page = "filled"
  BY <1>2, <1>3 DEF RunPageDone
<1>5. CASE Keep(g, From(A, sure), {"page"} \cup Ran)
  <2>1. Says(g)  BY <1>5 DEF Keep, From, AllSay
  <2>2. g[1] \notin {"page", "last", "busy"}  BY <1>5 DEF Keep, Ran
  <2>4. CASE g = Yes("kept")
    <3>2. Kept  BY <2>1, <2>4 DEF Says, MemorySays
    <3>4. Kept'  BY <1>1, <1>4, <3>2 DEF Kept, Changes, Fields
    <3> QED BY <2>4, <3>4, BlockSays DEF Yes
  <2>5. CASE g # Yes("kept")
    <3>1. Apart(g, {"stray", "page", "busy", "last", "cmderr"}, {"x14"})
      BY <2>2, <2>5 DEF Apart, Nameless
    <3> QED BY <1>1, <2>1, <3>1, KeepSays
  <2> QED BY <2>4, <2>5
<1>6. CASE \/ g = <<"page", "half">> /\ <<"page", "erased">> \in A.s \cup A.p
           \/ g = <<"page", "filled">> /\ <<"page", "half">> \in A.s \cup A.p
  <2>1. CASE g = <<"page", "half">> /\ <<"page", "erased">> \in A.s \cup A.p
    BY <1>3, <1>4, <2>1, BlockSays
  <2>2. CASE g = <<"page", "filled">> /\ <<"page", "half">> \in A.s \cup A.p
    BY <1>3, <1>4, <2>2, BlockSays
  <2> QED BY <1>6, <2>1, <2>2
<1> QED BY <1>5, <1>6 DEF RunPageGives, From

-----------------------------------------------------------------------------
(* The registers of the debug module.                                      *)

\* A write of DATA0 sets it and lets autoexec repeat the last command, unless the module is busy.
LEMMA Data0Is ==
  ASSUME NEW d, NEW v
  PROVE  DmiWrite(d, "DATA0", v) = IF d.busy THEN Raise(d, "busy")
           ELSE AutoExec([d EXCEPT !.data0 = v])
BY Zenon DEF DmiWrite, Abstract

\* A write of DATA1 sets it, unless the module is busy.
LEMMA Data1Is ==
  ASSUME NEW d, NEW v
  PROVE  DmiWrite(d, "DATA1", v) = IF d.busy THEN Raise(d, "busy") ELSE [d EXCEPT !.data1 = v]
BY Zenon DEF DmiWrite, Abstract

\* A write of ABSTRACTCS clears the error, unless the module is busy.
LEMMA ClearIs ==
  ASSUME NEW d, NEW v
  PROVE  DmiWrite(d, "ABSTRACTCS", v) = IF d.busy THEN Raise(d, "busy")
           ELSE [d EXCEPT !.cmderr = "none"]
BY Zenon DEF DmiWrite, Abstract

\* A write of ABSTRACTAUTO switches autoexec, unless the module is busy.
LEMMA AutoIs ==
  ASSUME NEW d, NEW v
  PROVE  DmiWrite(d, "ABSTRACTAUTO", v) = IF d.busy THEN Raise(d, "busy")
           ELSE [d EXCEPT !.auto = (v = "on")]
BY Zenon DEF DmiWrite, Abstract

\* A write of the program buffer loads a program, unless the module is busy.
LEMMA ProgbufIs ==
  ASSUME NEW d, NEW v
  PROVE  DmiWrite(d, "PROGBUF", v) = IF d.busy THEN Raise(d, "busy") ELSE [d EXCEPT !.prog = v]
BY Zenon DEF DmiWrite, Abstract

\* A write of COMMAND starts it, unless the module is busy or an error is pending.
LEMMA CommandIs ==
  ASSUME NEW d, NEW v
  PROVE  DmiWrite(d, "COMMAND", v) = IF d.busy THEN Raise(d, "busy") ELSE IF d.cmderr = "none"
           THEN Start(d, v) ELSE d
BY Zenon DEF DmiWrite, Abstract, Start, Begun

\* A write of DMCONTROL acts whatever the module does.
LEMMA ControlIs ==
  ASSUME NEW d, NEW v
  PROVE  DmiWrite(d, "CONTROL", v) = Control(d, v)
BY Zenon DEF DmiWrite, Abstract

\* The unlock sequence of rvswd_debug_restore_unlock unlocks.
LEMMA UnlockIs ==
  ASSUME NEW d, NEW v
  PROVE  DmiWrite(d, "UNLOCK", v) = [d EXCEPT !.locked = FALSE]
BY Zenon DEF DmiWrite, Abstract

\* The write of rvswd_debug_resume to the mode register changes nothing that is modelled.
LEMMA DmodIs ==
  ASSUME NEW d, NEW v
  PROVE  DmiWrite(d, "DMOD", v) = d
BY Zenon DEF DmiWrite, Abstract

\* Control changes the requests, the hart and its program counter.
LEMMA ControlFrame ==
  ASSUME NEW d, IsDm(d), NEW v,
         NEW e, e = Control(d, v)
  PROVE  /\ IsDm(e) /\ Alike(d, e, {"request", "hart", "regs"})
         /\ \A r \in Regs \ {"dpc"} : e.regs[r] = d.regs[r]
         /\ e.regs["dpc"] = IF d.hart = "reset" /\ v \in {"halt", "resume", "idle"}
              THEN "vector" ELSE d.regs["dpc"]
         /\ v = "idle" => e.request = "none"
         /\ v = "resume" => e.request = "resume"
         /\ v = "halt" => e.request = "halt"
         /\ v \notin {"idle", "resume", "halt"} => e.request = "reset"
         /\ v \in {"reset", "reset_halt"} => e.hart = "reset"
         /\ v = "halt" => e.hart = IF d.hart = "reset" THEN "halted" ELSE d.hart
         /\ v = "idle" => e.hart = IF d.hart = "reset" THEN "running" ELSE d.hart
         /\ v = "resume" => e.hart = IF d.hart = "reset" THEN "running"
                                     ELSE IF d.hart = "halted" THEN IF d.regs["dpc"] = "entry"
                                       THEN "loader" ELSE "running"
                                     ELSE d.hart
<1> DEFINE leaving == d.hart = "reset" /\ v \in {"halt", "resume", "idle"}
           e1 == IF leaving THEN [d EXCEPT !.regs["dpc"] = "vector"] ELSE d
           rq == CASE v = "idle" -> "none" [] v = "resume" -> "resume"
                        [] v = "halt" -> "halt" [] OTHER -> "reset"
           ht == CASE v \in {"reset", "reset_halt"} -> "reset"
                     [] leaving -> IF v = "halt" THEN "halted" ELSE "running"
                     [] v = "resume" /\ e1.hart = "halted" ->
                           IF d.regs["dpc"] = "entry" THEN "loader" ELSE "running"
                     [] OTHER -> e1.hart
<1>1. e = [e1 EXCEPT !.request = rq, !.hart = ht]
  BY Zenon DEF Control
<1>2. IsDm(e1) /\ Alike(d, e1, {"regs"}) /\ (\A r \in Regs \ {"dpc"} : e1.regs[r] = d.regs[r])
      /\ e1.regs["dpc"] = IF leaving THEN "vector" ELSE d.regs["dpc"]
  BY DEF IsDm, Alike, Fields, Regs
<1>3. e1.hart = d.hart  BY <1>2 DEF Alike, Fields
<1>4. /\ v = "idle" => rq = "none"
      /\ v = "resume" => rq = "resume"
      /\ v = "halt" => rq = "halt"
      /\ v \notin {"idle", "resume", "halt"} => rq = "reset"
  BY Zenon
<1>5. /\ v \in {"reset", "reset_halt"} => ht = "reset"
      /\ leaving => ht = IF v = "halt" THEN "halted" ELSE "running"
  <2>1. CASE v \in {"reset", "reset_halt"}
    <3>1. ~leaving  BY <2>1
    <3>2. ht = "reset"  BY <2>1, <3>1, Zenon
    <3> QED BY <3>1, <3>2
  <2>2. CASE leaving
    <3>1. v \notin {"reset", "reset_halt"}  BY <2>2
    <3>2. e1.hart # "halted"  BY <1>3, <2>2
    <3> HIDE DEF leaving, e1
    <3>3. ht = IF v = "halt" THEN "halted" ELSE "running"  BY <2>2, <3>1, <3>2, Zenon
    <3> QED BY <3>1, <3>3
  <2> QED BY <2>1, <2>2
<1>6. ~leaving /\ v = "resume" /\ d.hart = "halted" => ht = IF d.regs["dpc"] = "entry"
        THEN "loader" ELSE "running"
  BY <1>3, Zenon
<1>7. ~leaving /\ v \notin {"reset", "reset_halt"} /\ ~(v = "resume" /\ d.hart = "halted")
        => ht = d.hart
  BY <1>3, Zenon
<1> HIDE DEF e1, rq, ht
<1>8. IsDm(e) /\ Alike(e1, e, {"request", "hart"}) /\ e.request = rq /\ e.hart = ht
  <2>1. ht \in {"halted", "running", "loader", "reset"}
    BY <1>5, <1>6, <1>7 DEF IsDm
  <2> QED BY <1>1, <1>2, <2>1 DEF IsDm, Alike, Fields
<1>9. Alike(d, e, {"request", "hart", "regs"}) /\ e.regs = e1.regs
  BY <1>2, <1>8 DEF Alike, Fields
<1> QED BY <1>2, <1>4, <1>5, <1>6, <1>7, <1>8, <1>9

\* The commands differ.
LEMMA CommandsDiffer ==
  ASSUME NEW r \in Regs, NEW q \in Regs
  PROVE  /\ SetReg(r) \notin {GetReg(q), SetRun(q), Run, ReadMem, WriteMem}
         /\ GetReg(r) \notin {SetRun(q), Run, ReadMem, WriteMem}
         /\ SetRun(r) \notin {Run, ReadMem, WriteMem} /\ Run \notin {ReadMem, WriteMem}
         /\ ReadMem # WriteMem
         /\ SetReg(r) = SetReg(q) => r = q
         /\ GetReg(r) = GetReg(q) => r = q
         /\ SetRun("x8") # SetRun("x14")
BY DEF SetReg, GetReg, SetRun, Run, ReadMem, WriteMem

\* What is promised whatever the error is true when the command ended with an error at once.
LEMMA MissedSays ==
  ASSUME NEW v, NEW A, NEW g, CommandGives(v, A, g, TRUE),
         IsDm(dm), Steady, Missed(dm, dm'), AllSay(A.s)
  PROVE  Says(g)'
<1>1. g \in A.s /\ g[1] # "last"
  BY DEF CommandGives, SetGives, GetGives, FetchGives, StoreGives, RunStreamGives, RunStoreGives,
         RunLoadGives, RunCodeGives, RunPageGives, Keep, From, Ran, SetTouched, Blocks, Yes
<1>2. Changes({"cmderr", "last", "busy"}, {})  BY DEF Missed, Alike, IsDm, Changes, Steady, Fields
<1>3. CASE g[1] # "busy"
  <2>1. Apart(g, {"cmderr", "last", "busy"}, {})  BY <1>1, <1>3 DEF Apart, Nameless
  <2> QED BY <1>1, <1>2, <2>1, KeepSays DEF AllSay
<1>4. CASE g[1] = "busy"
  <2>1. g = Idling => ~dm'.busy  BY <1>1 DEF AllSay, Says, ModuleSays, Missed
  <2> QED BY <1>4, <2>1, BusySays
<1> QED BY <1>3, <1>4

\* A command that misses or executes does so however long it takes.
LEMMA MissedEased ==
  ASSUME NEW d, NEW e, NEW d1, Missed(d, e), Eased(e, d1)
  PROVE  Missed(d, d1)
BY DEF Missed, Eased, Alike, Fields

\* What a command leaves is the same once it has ended.
LEMMA DoneEased ==
  ASSUME NEW d, NEW e, NEW d1, Eased(e, d1)
  PROVE  /\ \A r \in Regs : SetDone(d, e, r) => SetDone(d, d1, r)
         /\ \A r \in Regs : GetDone(d, e, r) => GetDone(d, d1, r)
         /\ FetchDone(d, e) => FetchDone(d, d1)
         /\ StoreDone(d, e) => StoreDone(d, d1)
         /\ StreamDone(d, e) => StreamDone(d, d1)
         /\ RunStoreDone(d, e) => RunStoreDone(d, d1)
         /\ RunLoadDone(d, e) => RunLoadDone(d, d1)
         /\ RunPageDone(d, e) => RunPageDone(d, d1)
         /\ Alike(d, e, {"last", "busy"}) => Alike(d, d1, {"last", "busy"})
<1>1. /\ ~e.busy => ~d1.busy
      /\ d1.regs = e.regs /\ d1.data0 = e.data0 /\ d1.data1 = e.data1 /\ d1.mem = e.mem /\
           d1.cmderr = e.cmderr
      /\ d1.last = e.last /\ d1.stray = e.stray /\ d1.page = e.page
      /\ \A ks : "busy" \in ks /\ Alike(d, e, ks) => Alike(d, d1, ks)
  BY DEF Eased, Alike, Fields
<1> QED
  BY <1>1, Zenon DEF SetDone, GetDone, FetchDone, StoreDone, StreamDone, RunStoreDone, RunLoadDone,
     RunPageDone

\* What the annotation of a command promises is true after its write.
LEMMA CommandSays ==
  ASSUME NEW f, NEW v, NEW A, NEW g, NEW sure \in BOOLEAN, CommandGives(v, A, g, sure),
         CommandAsks(f, v, A),
         IsDm(dm), Steady, NEW e, e = DmiWrite(dm, "COMMAND", v), Eased(e, dm'), AllSay(A.s),
         dm.cmderr = "none" => AllSay(A.p), sure \/ dm'.cmderr = "none"
  PROVE  Says(g)'
<1>1. CASE Missed(dm, e)
  <2>1. Missed(dm, dm')  BY <1>1, MissedEased
  <2> QED BY <2>1, MissedSays DEF Missed
<1>2. CASE ~dm.busy /\ dm.cmderr = "none" /\ dm.hart = "halted" /\ e = Start(dm, v)
  <2>1. AllSay(A.s \cup A.p)  BY <1>2 DEF AllSay
  <2>2. \A p : <<"prog", p>> \in A.s => dm.prog = p  BY DEF AllSay, Says, ModuleSays
  <2>3. ASSUME NEW r \in Regs, v = SetReg(r), SetGives(r, A, g, sure)  PROVE Says(g)'
    <3>1. SetDone(dm, dm', r)  BY <1>2, <2>3, SetExec, DoneEased
    <3> QED BY <1>2, <2>1, <2>3, <3>1, SetSays
  <2>4. ASSUME NEW r \in Regs, v = GetReg(r), GetGives(r, A, g, sure)  PROVE Says(g)'
    <3>1. GetDone(dm, dm', r)  BY <1>2, <2>4, GetExec, DoneEased
    <3> QED BY <1>2, <2>1, <2>4, <3>1, GetSays
  <2>5. CASE v = ReadMem /\ FetchGives(A, g, sure)
    BY <1>2, <2>1, <2>5, FetchExec, FetchSays, DoneEased
  <2>6. CASE v = WriteMem /\ StoreGives(A, g, sure)
    <3>1. Yes("aim") \in A.s  BY <2>6, CommandsDiffer DEF CommandAsks, Regs
    <3> QED BY <1>2, <2>1, <2>6, <3>1, StoreExec, StoreSays, DoneEased
  <2>7. CASE v = Run /\ <<"prog", "stream">> \in A.s /\ RunStreamGives(A, g, sure)
    <3>1. dm.prog = "stream"  BY <2>2, <2>7
    <3>2. <<"data1", "a1">> \in A.s \cup A.p
      BY <2>2, <2>7, <3>1, CommandsDiffer DEF CommandAsks, Regs
    <3> QED BY <1>2, <2>1, <2>7, <3>1, <3>2, StreamExec, StreamSays, DoneEased
  <2>8. CASE v = Run /\ <<"prog", "code">> \in A.s /\ RunCodeGives(A, g, sure)
    BY <1>2, <2>1, <2>2, <2>8, RunCodeExec, RunCodeSays, DoneEased
  <2>9. CASE v = SetRun("x8") /\ <<"prog", "store">> \in A.s /\ RunStoreGives(A, g, sure)
    <3>1. dm.prog = "store"  BY <2>2, <2>9
    <3>2. \E b \in Blocks \cup {"peripheral"} : <<"x9", b>> \in A.s \cup A.p
      BY <2>2, <2>9, <3>1, CommandsDiffer DEF CommandAsks, Regs
    <3> QED BY <1>2, <2>1, <2>9, <3>1, <3>2, RunStoreExec, RunStoreSays, DoneEased
  <2>10. CASE v = SetRun("x8") /\ <<"prog", "load">> \in A.s /\ RunLoadGives(A, g, sure)
    BY <1>2, <2>1, <2>2, <2>10, RunLoadExec, RunLoadSays, DoneEased
  <2>11. CASE v = SetRun("x14") /\ <<"prog", "page">> \in A.s /\ RunPageGives(A, g, sure)
    <3>1. /\ <<"port", "program">> \in A.s \cup A.p /\ <<"pn", 3>> \in A.s \cup A.p
          /\ \/ <<"page", "erased">> \in A.s \cup A.p /\ <<"data0", "w1">> \in A.s \cup A.p
             \/ <<"page", "half">> \in A.s \cup A.p /\ <<"data0", "w2">> \in A.s \cup A.p
      BY <2>11, CommandsDiffer DEF CommandAsks, Regs
    <3>2. dm.prog = "page"  BY <2>2, <2>11
    <3> QED BY <1>2, <2>1, <2>11, <3>1, <3>2, RunPageExec, RunPageSays, DoneEased
  <2> QED BY <2>3, <2>4, <2>5, <2>6, <2>7, <2>8, <2>9, <2>10, <2>11 DEF CommandGives
<1> QED BY <1>1, <1>2, CommandCases

-----------------------------------------------------------------------------
(* Facts after a write.                                                    *)

\* What the facts of A say now: those that hold whatever the error, and the
\* others when there is none.
Known(A) == AllSay(A.s) /\ (dm.cmderr = "none" => AllSay(A.p))

\* A write the module does not take is an error.
LEMMA BusyWrite ==
  ASSUME NEW d, IsDm(d), d.busy, NEW e, e = Raise(d, "busy"), NEW d1, Eased(e, d1)
  PROVE  Alike(d, d1, {"cmderr", "busy"}) /\ d1.cmderr # "none"
BY RaiseIs DEF Eased, Alike, Fields

\* Facts that do not depend on what a simple write changes.
LEMMA KeepSimple ==
  ASSUME NEW g, Says(g), NEW ks, Changes(ks \cup {"cmderr", "busy"}, {}), ~dm.busy => ~dm'.busy,
         Apart(g, ks, {})
  PROVE  Says(g)'
<1>1. CASE g[1] # "busy"
  <2>1. Apart(g, ks \cup {"cmderr", "busy"}, {})
    BY <1>1 DEF Apart, Nameless, Blocks, Yes
  <2> QED BY <2>1, KeepSays
<1>2. CASE g[1] = "busy"
  <2>1. g = Idling => ~dm'.busy  BY DEF Says, ModuleSays
  <2> QED BY <1>2, <2>1, BusySays
<1> QED BY <1>1, <1>2

\* What the annotation of a write of DATA1 promises is true after it.
LEMMA Data1Says ==
  ASSUME NEW v, NEW A, NEW g, NEW sure \in BOOLEAN, Data1(v, A, g, sure),
         IsDm(dm), Steady, NEW e, e = DmiWrite(dm, "DATA1", v), Eased(e, dm'),
         Known(A), sure \/ dm'.cmderr = "none"
  PROVE  Says(g)'
<1>1. \/ dm.busy /\ Alike(dm, dm', {"cmderr", "busy"}) /\ dm'.cmderr # "none"
      \/ ~dm.busy /\ Alike(dm, dm', {"data1", "busy"}) /\ ~dm'.busy /\ dm'.data1 = v
  <2>1. CASE dm.busy
    BY <2>1, Data1Is, BusyWrite
  <2>2. CASE ~dm.busy
    BY <2>2, Data1Is DEF Eased, Alike, IsDm, Fields
  <2> QED BY <2>1, <2>2
<1>2. Changes({"data1", "cmderr", "busy"}, {}) /\ (~dm.busy => ~dm'.busy)
  BY <1>1 DEF Alike, Changes, Steady, Fields
<1>3. ~sure => dm.cmderr = "none" /\ ~dm.busy
  BY <1>1 DEF Alike, Fields
<1>4. \A h : h \in From(A, sure) => Says(h)  BY <1>3 DEF From, Known, AllSay
<1>5. CASE Keep(g, From(A, sure), {"data1", "aim"} \cup Report)
  <2>1. Says(g)  BY <1>4, <1>5 DEF Keep
  <2>2. Apart(g, {"data1"}, {})  BY <1>5 DEF Apart, Keep, Nameless, Blocks, Yes
  <2>3. {"data1"} \cup {"cmderr", "busy"} = {"data1", "cmderr", "busy"}  OBVIOUS
  <2> QED BY <1>2, <2>1, <2>2, <2>3, KeepSimple
<1>6. CASE g = <<"data1", v>> /\ (sure => Idling \in A.s)
  BY <1>1, <1>3, <1>6, DataSays DEF Known, AllSay, Says, ModuleSays
<1>7. CASE g = Yes("aim") /\ v \notin {"a0", "a3"} /\ (sure => Idling \in A.s \/ g \in A.s)
  <2>1. dm'.data1 \notin {"a0", "a3"}
    BY <1>1, <1>3, <1>7 DEF Known, AllSay, Says, ModuleSays, Alike, Fields
  <2> QED BY <1>7, <2>1, DataSays DEF Yes
<1>8. CASE g = Idling /\ ~sure
  BY <1>1, <1>3, <1>8, BusySays DEF Idling
<1> QED BY <1>5, <1>6, <1>7, <1>8 DEF Data1

\* What the annotation of a load of the program buffer promises is true after it.
LEMMA ProgbufSays ==
  ASSUME NEW v, NEW A, NEW g, NEW sure \in BOOLEAN, Progbuf(v, A, g, sure),
         IsDm(dm), Steady, NEW e, e = DmiWrite(dm, "PROGBUF", v), Eased(e, dm'),
         Known(A), sure \/ dm'.cmderr = "none"
  PROVE  Says(g)'
<1>1. \/ dm.busy /\ Alike(dm, dm', {"cmderr", "busy"}) /\ dm'.cmderr # "none"
      \/ ~dm.busy /\ Alike(dm, dm', {"prog", "busy"}) /\ ~dm'.busy /\ dm'.prog = v
  <2>1. CASE dm.busy
    BY <2>1, ProgbufIs, BusyWrite
  <2>2. CASE ~dm.busy
    BY <2>2, ProgbufIs DEF Eased, Alike, IsDm, Fields
  <2> QED BY <2>1, <2>2
<1>2. Changes({"prog", "cmderr", "busy"}, {}) /\ (~dm.busy => ~dm'.busy)
  BY <1>1 DEF Alike, Changes, Steady, Fields
<1>3. ~sure => dm.cmderr = "none" /\ ~dm.busy
  BY <1>1 DEF Alike, Fields
<1>4. \A h : h \in From(A, sure) => Says(h)  BY <1>3 DEF From, Known, AllSay
<1>5. CASE Keep(g, From(A, sure), {"prog", "sync"} \cup Report)
  <2>1. Says(g)  BY <1>4, <1>5 DEF Keep
  <2>2. Apart(g, {"prog"}, {})  BY <1>5 DEF Apart, Keep, Nameless, Blocks, Yes
  <2>3. {"prog"} \cup {"cmderr", "busy"} = {"prog", "cmderr", "busy"}  OBVIOUS
  <2> QED BY <1>2, <2>1, <2>2, <2>3, KeepSimple
<1>6. CASE g = <<"prog", v>> /\ (sure => Idling \in A.s)
  BY <1>1, <1>3, <1>6, DataSays DEF Known, AllSay, Says, ModuleSays
<1>7. CASE g = Yes("sync") /\ <<"mode", "none">> \in A.s
  <2>1. mode = "none"  BY <1>7 DEF Known, AllSay, Says, LocalSays
  <2> QED BY <1>7, <2>1, OwnSays DEF Yes, Steady
<1>8. CASE g = Idling /\ ~sure
  BY <1>1, <1>3, <1>8, BusySays DEF Idling
<1> QED BY <1>5, <1>6, <1>7, <1>8 DEF Progbuf

\* What the annotation of a cleared error promises is true after it.
LEMMA ClearSays ==
  ASSUME NEW v, NEW A, NEW g, NEW sure \in BOOLEAN, ClearError(A, g, sure),
         IsDm(dm), Steady, NEW e, e = DmiWrite(dm, "ABSTRACTCS", v), Eased(e, dm'),
         Known(A), sure \/ dm'.cmderr = "none"
  PROVE  Says(g)'
<1>1. \/ dm.busy /\ Alike(dm, dm', {"cmderr", "busy"}) /\ dm'.cmderr # "none"
      \/ ~dm.busy /\ Alike(dm, dm', {"cmderr", "busy"}) /\ ~dm'.busy
  <2>1. CASE dm.busy
    BY <2>1, ClearIs, BusyWrite
  <2>2. CASE ~dm.busy
    BY <2>2, ClearIs DEF Eased, Alike, IsDm, Fields
  <2> QED BY <2>1, <2>2
<1>2. Changes({} \cup {"cmderr", "busy"}, {}) /\ (~dm.busy => ~dm'.busy)
  BY <1>1 DEF Alike, Changes, Steady, Fields
<1>3. ~sure => ~dm'.busy
  BY <1>1
<1>5. CASE Keep(g, A.s, Report)
  <2>1. Says(g)  BY <1>5 DEF Keep, Known, AllSay
  <2>2. Apart(g, {}, {})  BY DEF Apart
  <2> QED BY <1>2, <2>1, <2>2, KeepSimple
<1>8. CASE g \in {Idling, Yes("steady")} /\ ~sure
  BY <1>3, <1>8, BusySays, OwnSays DEF Idling, Yes
<1> QED BY <1>5, <1>8 DEF ClearError

\* What the annotation of a switch of autoexec promises is true after it.
LEMMA AutoSays ==
  ASSUME NEW v \in {"on", "off"}, NEW A, NEW g, NEW sure \in BOOLEAN, Autoexec(v, A, g, sure),
         IsDm(dm), Steady, NEW e, e = DmiWrite(dm, "ABSTRACTAUTO", v), Eased(e, dm'),
         Known(A), \A h \in A.s : OpenSays(h), sure \/ dm'.cmderr = "none"
  PROVE  Says(g)'
<1>1. \/ dm.busy /\ Alike(dm, dm', {"cmderr", "busy"}) /\ dm'.cmderr # "none"
      \/ ~dm.busy /\ Alike(dm, dm', {"auto", "busy"}) /\ ~dm'.busy /\ dm'.auto = (v = "on")
  <2>1. CASE dm.busy
    BY <2>1, AutoIs, BusyWrite
  <2>2. CASE ~dm.busy
    BY <2>2, AutoIs DEF Eased, Alike, IsDm, Fields
  <2> QED BY <2>1, <2>2
<1>2. Changes({"auto", "cmderr", "busy"}, {}) /\ (~dm.busy => ~dm'.busy)
  BY <1>1 DEF Alike, Changes, Steady, Fields
<1>3. ~sure => dm.cmderr = "none" /\ ~dm.busy
  BY <1>1 DEF Alike, Fields
<1>4. \A h : h \in From(A, sure) => Says(h)  BY <1>3 DEF From, Known, AllSay
<1>5. CASE Keep(g, From(A, sure), {"auto", "off", "calm"} \cup Report)
  <2>1. Says(g)  BY <1>4, <1>5 DEF Keep
  <2>2. Apart(g, {"auto"}, {})  BY <1>5 DEF Apart, Keep, Nameless, Blocks, Yes
  <2>3. {"auto"} \cup {"cmderr", "busy"} = {"auto", "cmderr", "busy"}  OBVIOUS
  <2> QED BY <1>2, <2>1, <2>2, <2>3, KeepSimple
<1>6. CASE g \in {Yes("off"), Yes("calm")}
  BY <1>6, OwnSays DEF Yes
<1>7. CASE v = "off" /\ g = Mute /\
             (sure => Yes("steady") \in A.s \/ Idling \in A.s \/ Mute \in A.s)
  <2>1. ~dm'.auto
    BY <1>1, <1>3, <1>7 DEF Known, AllSay, Says, ModuleSays, OpenSays, Alike, Fields
  <2>2. g[1] = "auto" /\ g # Yes("auto")  BY <1>7 DEF Mute, Yes
  <2> QED BY <2>1, <2>2, DataSays
<1>8. CASE v = "on" /\ g = Yes("auto") /\ (sure => Idling \in A.s)
  <2>1. dm'.auto
    BY <1>1, <1>3, <1>8 DEF Known, AllSay, Says, ModuleSays
  <2>2. g[1] = "auto" /\ g # Mute  BY <1>8 DEF Mute, Yes
  <2> QED BY <2>1, <2>2, DataSays
<1>9. CASE g = Idling /\ ~sure
  BY <1>1, <1>3, <1>9, BusySays DEF Idling
<1> QED BY <1>5, <1>6, <1>7, <1>8, <1>9 DEF Autoexec

\* What the annotation of the unlock sequence promises is true after it.
LEMMA UnlockSays ==
  ASSUME NEW v, NEW A, NEW g, NEW sure \in BOOLEAN,
         \/ Keep(g, From(A, sure), Report)
         \/ g = Yes("unlocked") /\ (Yes("free") \in A.s \/ Yes("halted") \in A.s),
         IsDm(dm), Steady, NEW e, e = DmiWrite(dm, "UNLOCK", v), Eased(e, dm'),
         Known(A), sure \/ dm'.cmderr = "none"
  PROVE  Says(g)'
<1>1. Alike(dm, dm', {"locked", "busy"}) /\ ~dm'.locked /\ (~dm.busy => ~dm'.busy)
  BY UnlockIs DEF Eased, Alike, IsDm, Fields
<1>2. Changes({"locked", "cmderr", "busy"}, {})
  BY <1>1 DEF Alike, Changes, Steady, Fields
<1>3. ~sure => dm.cmderr = "none"
  BY <1>1 DEF Alike, Fields
<1>4. \A h : h \in From(A, sure) => Says(h)  BY <1>3 DEF From, Known, AllSay
<1>5. CASE Keep(g, From(A, sure), Report) /\ g # Yes("unlocked")
  <2>1. Says(g)  BY <1>4, <1>5 DEF Keep
  <2>2. CASE g[1] = "unlocked"
    BY <1>5, <2>2 DEF Says, ModuleSays, RegisterSays, HartSays, MemorySays, PortSays, LocalSays,
       Yes, Idling, Mute, Arguments4, Blocks
  <2>3. CASE g[1] # "unlocked"
    <3>2. Apart(g, {"locked"}, {})  BY <1>5, <2>3 DEF Apart, Keep, Nameless, Blocks, Yes
    <3>3. {"locked"} \cup {"cmderr", "busy"} = {"locked", "cmderr", "busy"}  OBVIOUS
    <3> QED BY <1>1, <1>2, <2>1, <3>2, <3>3, KeepSimple
  <2> QED BY <2>2, <2>3
<1>6. CASE g = Yes("unlocked") /\
             (Yes("free") \in A.s \/ Yes("halted") \in A.s \/ g \in From(A, sure))
  <2>1. dm.hart # "loader"
    <3>1. Yes("free") \in A.s \/ Yes("halted") \in A.s => dm.hart # "loader"
      BY DEF Known, AllSay, Says, HartSays, Yes
    <3>2. g \in From(A, sure) => dm.hart # "loader"
      BY <1>4, <1>6 DEF Says, HartSays, Yes
    <3> QED BY <1>6, <3>1, <3>2
  <2>2. dm'.hart = dm.hart  BY <1>1 DEF Alike, Fields
  <2> QED BY <1>1, <1>6, <2>1, <2>2, HaltSays DEF Yes
<1> QED BY <1>5, <1>6 DEF Keep

\* What the annotation of the write to the mode register promises is true after it.
LEMMA DmodSays ==
  ASSUME NEW v, NEW A, NEW g, NEW sure \in BOOLEAN, Keep(g, From(A, sure), Report),
         IsDm(dm), Steady, NEW e, e = DmiWrite(dm, "DMOD", v), Eased(e, dm'),
         Known(A), sure \/ dm'.cmderr = "none"
  PROVE  Says(g)'
<1>1. Alike(dm, dm', {"busy"}) /\ (~dm.busy => ~dm'.busy)
  BY DmodIs DEF Eased, Alike
<1>2. Changes({} \cup {"cmderr", "busy"}, {})
  BY <1>1 DEF Alike, Changes, Steady, Fields
<1>3. ~sure => dm.cmderr = "none"
  BY <1>1 DEF Alike, Fields
<1>4. Says(g)  BY <1>3 DEF From, Known, AllSay, Keep
<1>5. Apart(g, {}, {})  BY DEF Apart
<1> QED BY <1>1, <1>2, <1>4, <1>5, KeepSimple

\* Writes of DATA0 without autoexec.
LEMMA Data0Says ==
  ASSUME NEW v, NEW A, NEW g, NEW sure \in BOOLEAN, Data0(family, v, A, g, sure), Mute \in A.s,
         IsDm(dm), Steady, NEW e, e = DmiWrite(dm, "DATA0", v), Eased(e, dm'),
         unchecked' = (unchecked \/ dm.busy),
         Known(A), sure \/ dm'.cmderr = "none"
  PROVE  Says(g)'
<1>0. ~dm.auto  BY DEF Known, AllSay, Says, ModuleSays
<1>1. \/ dm.busy /\ Alike(dm, dm', {"cmderr", "busy"}) /\ dm'.cmderr # "none"
      \/ ~dm.busy /\ Alike(dm, dm', {"data0", "busy"}) /\ ~dm'.busy /\ dm'.data0 = v
  <2>1. CASE dm.busy
    BY <2>1, Data0Is, BusyWrite
  <2>2. CASE ~dm.busy
    <3> DEFINE d1 == [dm EXCEPT !.data0 = v]
    <3>1. Alike(dm, d1, {"data0"}) /\ d1.data0 = v  BY DEF Alike, IsDm, Fields
    <3>2. e = AutoExec(d1)  BY <2>2, Data0Is
    <3> HIDE DEF d1
    <3>3. e = d1  BY <1>0, <3>1, <3>2 DEF AutoExec, Alike, Fields
    <3> QED BY <2>2, <3>1, <3>3 DEF Eased, Alike, Fields
  <2> QED BY <2>1, <2>2
<1>2. Changes({"data0", "cmderr", "busy"}, {}) /\ (~dm.busy => ~dm'.busy)
  BY <1>1 DEF Alike, Changes, Steady, Fields
<1>3. ~sure => dm.cmderr = "none" /\ ~dm.busy
  BY <1>1 DEF Alike, Fields
<1>4. \A h : h \in From(A, sure) => Says(h)  BY <1>3 DEF From, Known, AllSay
<1>5. CASE Keep(g, From(A, sure), {"data0", "loose", "steady"} \cup Report)
  <2>1. Says(g)  BY <1>4, <1>5 DEF Keep
  <2>2. Apart(g, {"data0"}, {})  BY <1>5 DEF Apart, Keep, Nameless, Blocks, Yes
  <2>3. {"data0"} \cup {"cmderr", "busy"} = {"data0", "cmderr", "busy"}  OBVIOUS
  <2> QED BY <1>2, <2>1, <2>2, <2>3, KeepSimple
<1>6. CASE g = <<"data0", v>> /\ (sure => Idling \in A.s)
  BY <1>1, <1>3, <1>6, DataSays DEF Known, AllSay, Says, ModuleSays
<1>7. CASE g = <<"loose", v>> /\ (sure => Idling \in A.s \/ family = "V20X")
  <2>1. CASE ~dm.busy
    BY <1>1, <1>7, <2>1, DataSays
  <2>2. CASE dm.busy
    <3>1. sure /\ Idling \notin A.s  BY <1>3, <2>2 DEF Known, AllSay, Says, ModuleSays
    <3>2. Careless'  BY <1>7, <2>2, <3>1 DEF Careless, Steady
    <3> QED BY <1>7, <3>2, DataSays
  <2> QED BY <2>1, <2>2
<1>8. CASE g = Idling /\ ~sure
  BY <1>1, <1>3, <1>8, BusySays DEF Idling
<1>9. CASE g = Yes("steady")
  BY <1>9, OwnSays DEF Yes
<1> QED BY <1>5, <1>6, <1>7, <1>8, <1>9 DEF Data0

\* Writes of DATA0 that store a word of the block.
LEMMA StreamWriteSays ==
  ASSUME NEW v, NEW A, NEW g, NEW sure \in BOOLEAN, Stream(v, A, g, sure), StreamReady(A),
         IsDm(dm), Steady, NEW e, e = DmiWrite(dm, "DATA0", v), Eased(e, dm'),
         Known(A), sure \/ dm'.cmderr = "none"
  PROVE  Says(g)'
<1>0. dm.last = Run /\ dm.prog = "stream" /\ dm.data1 = "a2" /\ ~dm.busy
  BY DEF StreamReady, Known, AllSay, Says, ModuleSays, Yes, Idling
<1> DEFINE d1 == [dm EXCEPT !.data0 = v]
<1>1. IsDm(d1) /\ Alike(dm, d1, {"data0"}) /\ d1.data0 = v  BY DEF Alike, IsDm, Fields
<1>2. e = AutoExec(d1)  BY <1>0, Data0Is
<1> HIDE DEF d1
<1>3. \/ StreamDone(d1, e)
      \/ Alike(d1, e, {"cmderr"}) /\ (dm.auto => e.cmderr # "none") /\
           (e.cmderr = "none" => dm.cmderr = "none")
  <2>1. CASE d1.auto /\ d1.cmderr = "none" /\ d1.hart = "halted"
    <3>1. e = Exec(d1, Run)  BY <1>0, <1>1, <1>2, <2>1 DEF AutoExec, Alike, Fields
    <3>2. d1.last = Run /\ d1.prog = "stream"  BY <1>0, <1>1 DEF Alike, Fields
    <3> QED BY <1>1, <2>1, <3>1, <3>2, StreamRuns
  <2>2. CASE d1.auto /\ d1.cmderr = "none" /\ d1.hart # "halted"
    <3>1. e = Raise(d1, "haltresume")  BY <1>2, <2>2, ExecIs DEF AutoExec
    <3> QED BY <1>1, <3>1, RaiseIs DEF Alike
  <2>3. CASE ~(d1.auto /\ d1.cmderr = "none")
    <3>1. e = d1  BY <1>2, <2>3 DEF AutoExec
    <3> QED BY <1>1, <2>3, <3>1 DEF Alike, Fields
  <2> QED BY <2>1, <2>2, <2>3
<1>4. /\ Changes({"data0", "mem", "data1", "busy", "cmderr"}, {"x8", "x9"}) /\
           DOMAIN dm.mem = Addresses
      /\ dm'.mem \in {dm.mem, [dm.mem EXCEPT !["a2"] = v]} /\ dm'.cmderr = e.cmderr
  <2>1. /\ \A k \in Fields \ {"data0", "mem", "data1", "busy", "cmderr", "regs"} : e[k] = dm[k]
        /\ \A r \in Regs \ {"x8", "x9"} : e.regs[r] = dm.regs[r]
        /\ e.mem \in {dm.mem, [dm.mem EXCEPT !["a2"] = v]}
    BY <1>0, <1>1, <1>3 DEF StreamDone, Alike, Fields
  <2> QED BY <2>1 DEF Eased, Alike, Fields, Changes, Steady, IsDm
<1>5. ~sure => dm.cmderr = "none" /\ (dm.auto => dm'.mem["a2"] = v)
  <2>1. dm'.mem = e.mem  BY DEF Eased, Alike, Fields
  <2>2. ~sure => dm.cmderr = "none"
    <3>1. d1.cmderr # "none" => e = d1  BY <1>2 DEF AutoExec
    <3> QED BY <1>1, <1>4, <3>1 DEF Alike, Fields
  <2>3. ASSUME ~sure, dm.auto  PROVE e.mem = [dm.mem EXCEPT !["a2"] = v]
    BY <1>0, <1>1, <1>3, <1>4, <2>3 DEF StreamDone, Alike, Fields
  <2> QED BY <1>4, <2>1, <2>2, <2>3 DEF Addresses
<1>6. \A h : h \in From(A, sure) => Says(h)  BY <1>5 DEF From, Known, AllSay
<1>7. CASE Keep(g, From(A, sure),
                {"data0", "loose", "data1", "aim", "x8", "x9", "a2", "busy", "steady"} \cup Report)
  <2>1. Says(g)  BY <1>6, <1>7 DEF Keep
  <2>2. g[1] \notin {"data0", "loose", "data1", "aim", "x8", "x9", "a2", "busy"}  BY <1>7 DEF Keep
  <2>3. CASE g = Yes("kept")
    <3>2. Kept  BY <2>1, <2>3 DEF Says, MemorySays
    <3>3. dm'.mem["a0"] = dm.mem["a0"] /\ dm'.mem["a3"] = dm.mem["a3"]
      BY <1>4 DEF Addresses
    <3>4. Kept'  BY <1>4, <3>2, <3>3 DEF Kept, Changes, Fields
    <3> QED BY <2>3, <3>4, BlockSays DEF Yes
  <2>4. CASE g[1] \in Blocks
    <3>1. dm.mem[g[1]] = g[2]  BY <2>1, <2>4 DEF Says, MemorySays
    <3>2. dm'.mem[g[1]] = g[2]  BY <1>4, <2>2, <2>4, <3>1 DEF Addresses, Blocks
    <3> QED BY <2>4, <3>2, BlockSays
  <2>5. CASE g # Yes("kept") /\ g[1] \notin Blocks
    <3>1. Apart(g, {"data0", "mem", "data1", "busy", "cmderr"}, {"x8", "x9"})
      BY <2>2, <2>5 DEF Apart, Nameless
    <3> QED BY <1>4, <2>1, <3>1, KeepSays
  <2> QED BY <2>3, <2>4, <2>5
<1>8. CASE g = <<"a2", v>> /\ ~sure /\ Yes("auto") \in From(A, FALSE)
  <2>1. dm.auto  BY <1>5, <1>6, <1>8 DEF Says, ModuleSays, Yes, From
  <2> QED BY <1>5, <1>8, <2>1, BlockSays DEF Blocks
<1> QED BY <1>7, <1>8 DEF Stream

\* What a write of DMCONTROL does.
ControlDone(d, e, v) ==
  /\ Alike(d, e, {"request", "hart", "regs", "busy"}) /\ (~d.busy => ~e.busy)
  /\ \A r \in Regs \ {"dpc"} : e.regs[r] = d.regs[r]
  /\ e.regs["dpc"] = IF d.hart = "reset" /\ v \in {"halt", "resume", "idle"} THEN "vector"
       ELSE d.regs["dpc"]
  /\ v = "idle" => e.request = "none"
  /\ v = "resume" => e.request = "resume"
  /\ v \in {"reset", "reset_halt"} => e.hart = "reset"
  /\ v = "halt" => e.hart = IF d.hart = "reset" THEN "halted" ELSE d.hart
  /\ v = "idle" => e.hart = IF d.hart = "reset" THEN "running" ELSE d.hart
  /\ v = "resume" => e.hart = IF d.hart = "reset" THEN "running"
                              ELSE IF d.hart = "halted" THEN IF d.regs["dpc"] = "entry"
                                THEN "loader" ELSE "running"
                              ELSE d.hart

\* A write of DMCONTROL, once whatever command was running has ended, is what ControlDone describes.
LEMMA ControlIsDone ==
  ASSUME NEW d, IsDm(d), NEW v, NEW e, e = DmiWrite(d, "CONTROL", v), NEW d1, Eased(e, d1)
  PROVE  ControlDone(d, d1, v)
<1>1. e = Control(d, v)  BY ControlIs
<1>2. ControlDone(d, e, v)  BY <1>1, ControlFrame DEF ControlDone, Alike, Fields
<1>3. d1.regs = e.regs /\ d1.hart = e.hart /\ d1.request = e.request /\ (~e.busy => ~d1.busy)
      /\ Alike(d, d1, {"request", "hart", "regs", "busy"})
  BY <1>2 DEF ControlDone, Eased, Alike, Fields
<1> QED BY <1>2, <1>3, Zenon DEF ControlDone

\* What the annotation of a write of DMCONTROL promises is true after it.
LEMMA ControlSays ==
  ASSUME NEW v, v \in {"idle", "halt", "resume", "reset", "reset_halt"}, NEW F, NEW g,
         ControlGives(v, F, g),
         IsDm(dm), Steady, ControlDone(dm, dm', v), AllSay(F)
  PROVE  Says(g)'
<1>1. Changes({"request", "hart", "busy"}, {"dpc"}) /\ (~dm.busy => ~dm'.busy)
  BY DEF ControlDone, Alike, Changes, Steady, Fields
<1>2. CASE Keep(g, F, HartThings \cup Report) /\ g[1] # "busy"
  <2>1. Says(g)  BY <1>2 DEF Keep, AllSay
  <2>2. Apart(g, {"request", "hart", "busy"}, {"dpc"})
    BY <1>2 DEF Apart, Keep, HartThings, Nameless, Blocks, Yes
  <2> QED BY <1>1, <2>1, <2>2, KeepSays
<1>3. CASE g \in F /\ g[1] = "busy"
  <2>1. g = Idling => ~dm'.busy  BY <1>1, <1>3 DEF AllSay, Says, ModuleSays
  <2> QED BY <1>3, <2>1, BusySays
<1>4. CASE v \in {"idle", "halt"} /\ g[1] \in {"x10", "dpc"} /\ g \in F /\ Yes("halted") \in F
  <2>1. Says(g) /\ dm.hart = "halted"  BY <1>4 DEF AllSay, Says, HartSays, Yes
  <2>2. dm'.hart = "halted" /\ dm'.regs["dpc"] = dm.regs["dpc"] /\ dm'.regs["x10"] = dm.regs["x10"]
        /\ (Careless => Careless')
    BY <1>4, <2>1 DEF ControlDone, Regs, Steady, Careless
  <2>3. dm.regs[g[1]] = g[2] \/ (g[1] = "x10" /\ Careless)
    BY <1>4, <2>1 DEF Says, RegisterSays
  <2> QED BY <1>4, <2>2, <2>3, RegSays
<1>5. CASE v \in {"idle", "halt"} /\
             g \in F \cap {Yes("halted"), Yes("started"), Yes("done"), Yes("unlocked"), Yes("free")}
  <2>1. Says(g)  BY <1>5 DEF AllSay
  <2>2. /\ dm'.hart = IF dm.hart = "reset" THEN (IF v = "idle" THEN "running" ELSE "halted")
             ELSE dm.hart
        /\ dm'.regs["x10"] = dm.regs["x10"] /\ dm'.locked = dm.locked
        /\ dm'.regs["dpc"] \in {dm.regs["dpc"], "vector"}
    BY <1>5 DEF ControlDone, Regs, Alike, Fields
  <2>3. HartSays(g)  BY <2>1 DEF Says
  <2>4. CASE g = Yes("halted")
    <3>1. dm'.hart = "halted" /\ g[1] = "halted"  BY <2>2, <2>3, <2>4 DEF HartSays, Yes
    <3> QED BY <3>1, HaltSays
  <2>5. CASE g = Yes("started")
    <3>1. (dm'.hart = "loader" \/ (dm'.hart = "halted" /\ dm'.regs["x10"] = "result")) /\
            g[1] = "started"
      BY <2>2, <2>3, <2>5 DEF HartSays, Yes
    <3> QED BY <3>1, HaltSays
  <2>6. CASE g = Yes("done")
    <3>1. dm'.hart = "halted" /\ dm'.regs["x10"] = "result" /\ g[1] = "done"
      BY <2>2, <2>3, <2>6 DEF HartSays, Yes
    <3> QED BY <3>1, HaltSays
  <2>7. CASE g = Yes("unlocked")
    <3>1. ~dm'.locked /\ dm'.hart # "loader" /\ g[1] = "unlocked"
      BY <2>2, <2>3, <2>7 DEF HartSays, Yes
    <3> QED BY <3>1, HaltSays
  <2>8. CASE g = Yes("free")
    <3>1. dm'.hart # "loader" /\ dm'.regs["dpc"] # "entry" /\ g[1] = "free"
      BY <2>2, <2>3, <2>8 DEF HartSays, Yes
    <3> QED BY <3>1, HaltSays
  <2> QED BY <1>5, <2>4, <2>5, <2>6, <2>7, <2>8
<1>6. CASE v \in {"idle", "halt"} /\ g = <<"dpc", "vector">> /\ Yes("reset") \in F
  <2>1. dm.hart = "reset"  BY <1>6 DEF AllSay, Says, HartSays, Yes
  <2>2. dm'.hart # "loader" /\ dm'.regs["dpc"] = "vector"
    BY <1>6, <2>1 DEF ControlDone
  <2> QED BY <1>6, <2>2, RegSays
<1>7. CASE v = "idle" /\ \/ g \in {Yes("released"), <<"request", "none">>}
                         \/ g = Yes("running") /\ (Yes("reset") \in F \/ g \in F)
  <2>1. CASE g = Yes("released")
    BY <2>1, OwnSays DEF Yes
  <2>2. CASE g = <<"request", "none">>
    BY <1>7, <2>2, HaltSays DEF ControlDone
  <2>3. CASE g = Yes("running") /\ (Yes("reset") \in F \/ g \in F)
    <3>1. dm.hart \in {"reset", "running"}  BY <2>3 DEF AllSay, Says, HartSays, Yes
    <3>2. dm'.hart = "running" /\ dm'.request = "none"  BY <1>7, <3>1 DEF ControlDone
    <3> QED BY <2>3, <3>2, HaltSays DEF Yes
  <2> QED BY <1>7, <2>1, <2>2, <2>3
<1>8. CASE v = "halt" /\ g = Yes("halted") /\ Yes("reset") \in F
  <2>1. dm.hart = "reset"  BY <1>8 DEF AllSay, Says, HartSays, Yes
  <2>2. dm'.hart = "halted"  BY <1>8, <2>1 DEF ControlDone
  <2> QED BY <1>8, <2>2, HaltSays DEF Yes
<1>9. CASE v = "resume" /\ g = Yes("running") /\ (Yes("free") \in F \/ g \in F)
  <2>1. dm.hart = "running" \/ (dm.hart # "loader" /\ dm.regs["dpc"] # "entry")
    BY <1>9 DEF AllSay, Says, HartSays, Yes
  <2>2. dm'.hart = "running" /\ dm'.request = "resume"  BY <1>9, <2>1 DEF ControlDone, IsDm
  <2> QED BY <1>9, <2>2, HaltSays DEF Yes
<1>10. CASE v = "resume" /\ g = Yes("started") /\ Yes("halted") \in F /\ <<"dpc", "entry">> \in F
  <2>1. dm.hart = "halted" /\ dm.regs["dpc"] = "entry"
    BY <1>10 DEF AllSay, Says, HartSays, RegisterSays, Yes
  <2>2. dm'.hart = "loader"  BY <1>10, <2>1 DEF ControlDone
  <2>3. g[1] = "started"  BY <1>10 DEF Yes
  <2> QED BY <2>2, <2>3, HaltSays
<1>11. CASE v = "resume" /\ g = <<"dpc", "vector">> /\ g \in F /\ Yes("running") \in F
  <2>1. dm.hart = "running" /\ dm.regs["dpc"] = "vector"
    BY <1>11 DEF AllSay, Says, HartSays, RegisterSays, Yes
  <2>2. dm'.hart = "running" /\ dm'.regs["dpc"] = "vector"  BY <1>11, <2>1 DEF ControlDone
  <2> QED BY <1>11, <2>2, RegSays
<1>12. CASE v \in {"reset", "reset_halt"} /\ g = Yes("reset")
  BY <1>12, HaltSays DEF Yes, ControlDone
<1> QED
  BY <1>2, <1>3, <1>4, <1>5, <1>6, <1>7, <1>8, <1>9, <1>10, <1>11, <1>12 DEF ControlGives, Keep

\* A write of an operation: a fact it gives holds after it.
LEMMA WriteSays ==
  ASSUME NEW op, NEW x, NEW A, NEW g, NEW sure \in BOOLEAN,
         WriteGives(family, x, A, g, sure), WriteAsks(family, op, x, A),
         IsDm(dm), Steady, NEW e, e = DmiWrite(dm, x.reg, x.val), Eased(e, dm'),
         unchecked' = (unchecked \/ (dm.busy /\ x.reg \in Abstract)),
         Known(A), \A h \in A.s : OpenSays(h), sure \/ dm'.cmderr = "none"
  PROVE  Says(g)'
<1>1. CASE g = Fine
  BY <1>1, OwnSays DEF Fine
<1>2. CASE x.reg = "DATA0" /\ Mute \in A.s /\ Data0(family, x.val, A, g, sure)
  BY <1>2, Data0Says DEF Abstract
<1>3. CASE x.reg = "DATA0" /\ StreamReady(A) /\ Stream(x.val, A, g, sure)
  BY <1>3, StreamWriteSays
<1>4. CASE x.reg = "DATA1" /\ Data1(x.val, A, g, sure)
  BY <1>4, Data1Says
<1>5. CASE x.reg = "PROGBUF" /\ Progbuf(x.val, A, g, sure)
  BY <1>5, ProgbufSays
<1>6. CASE x.reg = "ABSTRACTCS" /\ ClearError(A, g, sure)
  BY <1>6, ClearSays
<1>7. CASE x.reg = "ABSTRACTAUTO" /\ Autoexec(x.val, A, g, sure)
  <2>1. x.val \in {"on", "off"}  BY <1>7 DEF WriteAsks
  <2> QED BY <1>7, <2>1, AutoSays
<1>8. CASE x.reg = "COMMAND" /\ CommandGives(x.val, A, g, sure)
  <2>1. CommandAsks(family, x.val, A)  BY <1>8 DEF WriteAsks
  <2> QED BY <1>8, <2>1, CommandSays DEF Known
<1>9. CASE x.reg = "CONTROL" /\ ControlGives(x.val, From(A, sure), g)
  <2>1. x.val \in {"idle", "halt", "resume", "reset", "reset_halt"}  BY <1>9 DEF WriteAsks
  <2>2. ControlDone(dm, dm', x.val)  BY <1>9, ControlIsDone
  <2>3. AllSay(From(A, sure))  BY <2>2 DEF ControlDone, Alike, Fields, Known, AllSay, From
  <2> QED BY <1>9, <2>1, <2>2, <2>3, ControlSays
<1>10. CASE x.reg = "UNLOCK" /\
              (Keep(g, From(A, sure), Report) \/
               (g = Yes("unlocked") /\ (Yes("free") \in A.s \/ Yes("halted") \in A.s)))
  BY <1>10, UnlockSays
<1>11. CASE x.reg = "DMOD" /\ Keep(g, From(A, sure), Report)
  BY <1>11, DmodSays
<1> QED BY <1>1, <1>2, <1>3, <1>4, <1>5, <1>6, <1>7, <1>8, <1>9, <1>10, <1>11 DEF WriteGives

-----------------------------------------------------------------------------
(* What is true whatever happened.                                         *)

\* The registers the programs write.
Registers == Abstract \cup {"CONTROL", "UNLOCK", "DMOD"}
\* Writes after which the module is busy only if it was before.
Short(d, reg, v) ==
  \/ reg \notin {"DATA0", "COMMAND"}
  \/ reg = "DATA0" /\ ~d.auto
  \/ reg = "COMMAND" /\ \E r \in Regs : v \in {SetReg(r), GetReg(r)}
\* What a write does to autoexec, the request and the busy bit, however often
\* it takes effect.
Opens(d, e, reg, v) ==
  /\ reg # "ABSTRACTAUTO" => e.auto = d.auto
  /\ reg = "ABSTRACTAUTO" /\ v = "off" /\ (~d.busy \/ ~d.auto \/ e.cmderr = "none") => ~e.auto
  /\ reg # "CONTROL" => e.request = d.request
  /\ reg = "CONTROL" /\ v = "idle" => e.request = "none"
  /\ Short(d, reg, v) => /\ ~d.busy => ~e.busy
                         /\ reg \in Abstract /\ e.cmderr = "none" => ~e.busy
  /\ reg # "ABSTRACTCS" /\ e.cmderr = "none" => d.cmderr = "none"

\* What a write does to autoexec, the request and the error is the same once a command has ended.
LEMMA OpensEased ==
  ASSUME NEW d, NEW e, NEW e1, NEW reg, NEW v, Opens(d, e, reg, v), Eased(e, e1)
  PROVE  Opens(d, e1, reg, v)
<1>1. e1.auto = e.auto /\ e1.request = e.request /\ e1.cmderr = e.cmderr /\ (~e.busy => ~e1.busy)
  BY DEF Eased, Alike, Fields
<1> QED BY <1>1, Zenon DEF Opens

\* A write that took effect twice does no more to them than one that took effect once.
LEMMA OpensTwice ==
  ASSUME NEW d, NEW o, NEW o1, NEW e, NEW reg, NEW v, Opens(d, o, reg, v), Eased(o, o1),
         Opens(o1, e, reg, v)
  PROVE  Opens(d, e, reg, v)
<1>1. o1.auto = o.auto /\ o1.request = o.request /\ o1.cmderr = o.cmderr /\ (~o.busy => ~o1.busy)
  BY DEF Eased, Alike, Fields
<1>2. Short(d, reg, v) => Short(o1, reg, v)
  BY <1>1 DEF Short, Opens
<1> QED BY <1>1, <1>2 DEF Opens

\* A write that a busy module refuses changes none of them but the error.
LEMMA OpensBusy ==
  ASSUME NEW d, IsDm(d), NEW reg \in Abstract, NEW v, d.busy, NEW e, e = Raise(d, "busy")
  PROVE  IsDm(e) /\ Opens(d, e, reg, v)
<1>1. IsDm(e) /\ e.cmderr # "none" /\ e.auto = d.auto /\ e.request = d.request /\ e.busy = d.busy
  BY RaiseIs DEF Fields
<1> QED BY <1>1 DEF Opens, Abstract

\* A command changes none of them but the error.
LEMMA OpensCommand ==
  ASSUME NEW d, IsDm(d), NEW v, NEW e, e = DmiWrite(d, "COMMAND", v)
  PROVE  IsDm(e) /\ Opens(d, e, "COMMAND", v)
<1>1. CASE d.busy
  BY <1>1, CommandIs, OpensBusy DEF Abstract
<1>2. CASE ~d.busy /\ d.cmderr # "none"
  <2>1. e = d  BY <1>2, CommandIs
  <2> QED BY <1>2, <2>1 DEF Opens
<1>3. CASE ~d.busy /\ d.cmderr = "none"
  <2>1. e = Start(d, v)  BY <1>3, CommandIs
  <2>2. IsDm(e) /\ e.auto = d.auto /\ e.request = d.request
    BY <2>1, BegunIs, ExecFrame DEF Start, SameSolid, Solid, Alike, Fields
  <2>3. ASSUME NEW r \in Regs, v \in {SetReg(r), GetReg(r)}  PROVE ~e.busy
    <3>1. CASE Missed(d, e)
      BY <1>3, <3>1 DEF Missed
    <3>2. CASE d.hart = "halted"
      <4>1. CASE v = SetReg(r)
        <5>1. SetDone(d, e, r)  BY <2>1, <3>2, <4>1, SetExec
        <5> QED BY <5>1 DEF SetDone
      <4>2. CASE v = GetReg(r)
        <5>1. GetDone(d, e, r)  BY <2>1, <3>2, <4>2, GetExec
        <5> QED BY <5>1 DEF GetDone
      <4> QED BY <2>3, <4>1, <4>2
    <3> QED BY <3>1, <3>2, CommandCases
  <2> QED BY <1>3, <2>2, <2>3 DEF Opens, Short
<1> QED BY <1>1, <1>2, <1>3

\* Neither does a word of data.
LEMMA OpensData0 ==
  ASSUME NEW d, IsDm(d), NEW v, NEW e, e = DmiWrite(d, "DATA0", v)
  PROVE  IsDm(e) /\ Opens(d, e, "DATA0", v)
<1>1. CASE d.busy
  BY <1>1, Data0Is, OpensBusy DEF Abstract
<1>2. CASE ~d.busy
  <2> DEFINE d1 == [d EXCEPT !.data0 = v]
  <2>1. IsDm(d1) /\ Alike(d, d1, {"data0"})  BY DEF Alike, IsDm, Fields
  <2>2. e = AutoExec(d1)  BY <1>2, Data0Is
  <2> HIDE DEF d1
  <2>3. d1.auto = d.auto /\ d1.busy = d.busy /\ d1.cmderr = d.cmderr /\ d1.request = d.request
    BY <2>1 DEF Alike, Fields
  <2>4. CASE d1.auto /\ d1.cmderr = "none"
    <3>1. e = Exec(d1, d1.last)  BY <2>2, <2>4 DEF AutoExec
    <3>2. IsDm(e) /\ e.auto = d1.auto /\ e.request = d1.request
      BY <2>1, <3>1, ExecFrame DEF SameSolid, Solid
    <3> QED BY <1>2, <2>3, <2>4, <3>2 DEF Opens, Short
  <2>5. CASE ~(d1.auto /\ d1.cmderr = "none")
    <3>1. e = d1  BY <2>2, <2>5 DEF AutoExec
    <3> QED BY <1>2, <2>1, <2>3, <3>1 DEF Opens
  <2> QED BY <2>4, <2>5
<1> QED BY <1>1, <1>2

\* Every write obeys the frame of its register.
LEMMA OpensWrite ==
  ASSUME NEW d, IsDm(d), NEW reg \in Registers, NEW v, NEW e, e = DmiWrite(d, reg, v)
  PROVE  IsDm(e) /\ Opens(d, e, reg, v)
<1>1. CASE reg = "COMMAND"
  BY <1>1, OpensCommand
<1>2. CASE reg = "DATA0"
  BY <1>2, OpensData0
<1>3. CASE reg \in {"DATA1", "ABSTRACTCS", "ABSTRACTAUTO", "PROGBUF"} /\ d.busy
  BY <1>3, Data1Is, ClearIs, AutoIs, ProgbufIs, OpensBusy DEF Abstract
<1>4. CASE reg = "DATA1" /\ ~d.busy
  <2>1. e = [d EXCEPT !.data1 = v]  BY <1>4, Data1Is
  <2> QED BY <1>4, <2>1 DEF Opens, IsDm, Fields
<1>5. CASE reg = "ABSTRACTCS" /\ ~d.busy
  <2>1. e = [d EXCEPT !.cmderr = "none"]  BY <1>5, ClearIs
  <2> QED BY <1>5, <2>1 DEF Opens, IsDm, Fields
<1>6. CASE reg = "ABSTRACTAUTO" /\ ~d.busy
  <2>1. e = [d EXCEPT !.auto = (v = "on")]  BY <1>6, AutoIs
  <2> QED BY <1>6, <2>1 DEF Opens, IsDm, Fields
<1>7. CASE reg = "PROGBUF" /\ ~d.busy
  <2>1. e = [d EXCEPT !.prog = v]  BY <1>7, ProgbufIs
  <2> QED BY <1>7, <2>1 DEF Opens, IsDm, Fields
<1>8. CASE reg = "CONTROL"
  <2>1. e = Control(d, v)  BY <1>8, ControlIs
  <2>2. IsDm(e) /\ Alike(d, e, {"request", "hart", "regs"}) /\ (v = "idle" => e.request = "none")
    BY <2>1, ControlFrame
  <2> QED BY <1>8, <2>2 DEF Opens, Alike, Fields, Abstract
<1>9. CASE reg = "UNLOCK"
  <2>1. e = [d EXCEPT !.locked = FALSE]  BY <1>9, UnlockIs
  <2> QED BY <1>9, <2>1 DEF Opens, IsDm, Fields, Abstract
<1>10. CASE reg = "DMOD"
  <2>1. e = d  BY <1>10, DmodIs
  <2> QED BY <1>10, <2>1 DEF Opens, Abstract
<1> QED BY <1>1, <1>2, <1>3, <1>4, <1>5, <1>6, <1>7, <1>8, <1>9, <1>10 DEF Registers, Abstract

\* Every open fact of F is true.
AllOpen(F) == \A h \in F : OpenSays(h)
\* The facts that are true whatever happened.
Sayings == {Yes("steady"), Yes("off"), Yes("calm"), Fine, Yes("told"), Yes("released")}

\* No other fact is constrained when something was lost.
LEMMA OtherOpen ==
  ASSUME NEW g, g \notin Sayings
  PROVE  OpenSays(g) /\ OpenSays(g)'
BY DEF Sayings, OpenSays

\* Of the open facts a command keeps all but the reports, and makes one.
LEMMA CommandSayings ==
  ASSUME NEW v, NEW A, NEW sure \in BOOLEAN, NEW g \in Sayings, CommandGives(v, A, g, sure)
  PROVE  /\ g \notin {Fine, Yes("told")}
         /\ g = Yes("steady") => \E r \in Regs : v \in {SetReg(r), GetReg(r)}
         /\ g \in From(A, sure) \/ (g = Yes("steady") /\ ~sure)
<1>1. g[1] \notin Regs \cup Blocks \cup {"data0", "data1", "page", "last", "x8"} /\
        g \notin {Yes("halted"), Idling, Yes("last")}
      /\ (g \in {Fine, Yes("told")} => g[1] \in Report) /\ (g = Yes("steady") => g[1] = "steady")
  BY DEF Sayings, Yes, Fine, Regs, Blocks, Idling, Report
<1> DEFINE Good == g[1] \notin Report /\ g \in From(A, sure)
<1>2. ASSUME NEW r \in Regs, SetGives(r, A, g, sure)  PROVE Good \/ (g = Yes("steady") /\ ~sure)
  BY <1>1, <1>2 DEF SetGives, Keep, SetTouched
<1>3. ASSUME NEW r \in Regs, GetGives(r, A, g, sure)  PROVE Good \/ (g = Yes("steady") /\ ~sure)
  <2>1. g # <<"data0", "result">>  BY <1>1
  <2> QED BY <1>1, <1>3, <2>1 DEF GetGives, Keep
<1>4. ASSUME \/ FetchGives(A, g, sure) \/ StoreGives(A, g, sure) \/ RunStreamGives(A, g, sure) \/
                  RunStoreGives(A, g, sure)
             \/ RunLoadGives(A, g, sure) \/ RunCodeGives(A, g, sure) \/ RunPageGives(A, g, sure)
      PROVE  Good /\ g[1] # "steady"
  <2>1. CASE FetchGives(A, g, sure)
    BY <1>1, <2>1 DEF FetchGives, Keep, Ran
  <2>2. CASE StoreGives(A, g, sure)
    BY <1>1, <2>2 DEF StoreGives, Keep, Ran
  <2>3. CASE RunStreamGives(A, g, sure)
    BY <1>1, <2>3 DEF RunStreamGives, Keep, Ran, Blocks
  <2>4. CASE RunStoreGives(A, g, sure)
    BY <1>1, <2>4 DEF RunStoreGives, Keep, Ran
  <2>5. CASE RunLoadGives(A, g, sure)
    BY <1>1, <2>5 DEF RunLoadGives, Keep, Ran
  <2>6. CASE RunCodeGives(A, g, sure)
    BY <1>1, <2>6 DEF RunCodeGives, Keep, Ran
  <2>7. CASE RunPageGives(A, g, sure)
    BY <1>1, <2>7 DEF RunPageGives, Keep, Ran
  <2> QED BY <1>4, <2>1, <2>2, <2>3, <2>4, <2>5, <2>6, <2>7
<1>5. \/ \E r \in Regs : v \in {SetReg(r), GetReg(r)} /\
           (SetGives(r, A, g, sure) \/ GetGives(r, A, g, sure))
      \/ Good /\ g[1] # "steady"
  BY <1>4 DEF CommandGives
<1> QED BY <1>1, <1>2, <1>3, <1>5 DEF Yes, Fine, Report

\* Where a write takes its open facts from.
LEMMA WriteSayings ==
  ASSUME NEW op, NEW x, NEW A, NEW sure \in BOOLEAN, NEW g \in Sayings \ {Fine},
         WriteGives(family, x, A, g, sure)
  PROVE  /\ g # Yes("told")
         /\ g = Yes("released")
              => (IF x.reg = "CONTROL" THEN x.val = "idle" ELSE g \in From(A, sure))
         /\ g = Yes("off") /\ x.reg # "ABSTRACTAUTO" => g \in From(A, sure)
         /\ g = Yes("calm") /\ x.reg # "ABSTRACTAUTO" => g \in From(A, sure)
         /\ g \in {Yes("off"), Yes("calm")} /\ x.reg = "ABSTRACTAUTO" =>
              x.val = "off" /\ (sure => Yes("steady") \in A.s \/ Yes("off") \in A.s)
         /\ g = Yes("steady") => /\ (sure => g \in A.s)
                                 /\ \/ x.reg = "DATA0" /\ Yes("off") \in A.s
                                    \/ x.reg = "COMMAND" /\
                                         \E r \in Regs : x.val \in {SetReg(r), GetReg(r)}
                                    \/ x.reg \notin {"DATA0", "COMMAND"}
                                 /\ g \in From(A, sure) \/ x.reg \in Abstract
         /\ g # Yes("steady") /\ x.reg = "ABSTRACTCS" => g \in A.s
<1>1. CASE x.reg = "COMMAND" /\ CommandGives(x.val, A, g, sure)
  <2>1. /\ g # Yes("told")
        /\ g = Yes("steady") => \E r \in Regs : x.val \in {SetReg(r), GetReg(r)}
        /\ g \in From(A, sure) \/ (g = Yes("steady") /\ ~sure)
    BY <1>1, CommandSayings
  <2>2. Yes("steady") \notin {Yes("off"), Yes("calm"), Yes("released")}  BY DEF Yes
  <2>3. sure /\ g = Yes("steady") => g \in A.s  BY <2>1 DEF From
  <2> QED BY <1>1, <2>1, <2>2, <2>3 DEF Abstract
<1> DEFINE Inside == g \in From(A, sure) /\ g[1] \notin Report
<1>2. g[1] \in {"steady", "off", "calm", "told", "released"} /\ g = Yes(g[1])
  BY DEF Sayings, Yes
<1>3. CASE x.reg = "DATA0" /\ Data0(family, x.val, A, g, sure)
  <2>1. (Inside /\ g[1] # "steady") \/
          (g[1] = "steady" /\ Yes("off") \in A.s /\ (sure => g \in A.s))
    BY <1>2, <1>3 DEF Data0, Keep, Yes, Idling
  <2> QED BY <1>2, <1>3, <2>1 DEF Yes, Report, Abstract
<1>4. CASE x.reg = "DATA0" /\ Stream(x.val, A, g, sure)
  <2>1. Inside /\ g[1] # "steady"
    <3>1. g # <<"a2", x.val>>  BY <1>2 DEF Yes
    <3> QED BY <1>4, <3>1 DEF Stream, Keep
  <2> QED BY <1>2, <1>4, <2>1 DEF Yes, Report
<1>5. CASE \/ x.reg = "DATA1" /\ Data1(x.val, A, g, sure)
           \/ x.reg = "PROGBUF" /\ Progbuf(x.val, A, g, sure)
           \/ x.reg = "UNLOCK" /\ (Keep(g, From(A, sure), Report) \/ g = Yes("unlocked"))
           \/ x.reg = "DMOD" /\ Keep(g, From(A, sure), Report)
  <2>1. Inside
    BY <1>2, <1>5 DEF Data1, Progbuf, Keep, Yes, Idling
  <2> QED BY <1>2, <1>5, <2>1 DEF Yes, Report, From
<1>6. CASE x.reg = "ABSTRACTCS" /\ ClearError(A, g, sure)
  <2>1. (Inside /\ g \in A.s) \/ (g[1] = "steady" /\ ~sure)
    BY <1>2, <1>6 DEF ClearError, Keep, Yes, Idling, From
  <2> QED BY <1>2, <1>6, <2>1 DEF Yes, Report, From, Abstract
<1>7. CASE x.reg = "ABSTRACTAUTO" /\ Autoexec(x.val, A, g, sure)
  <2>1. \/ Inside /\ g[1] \notin {"off", "calm"}
        \/ g[1] \in {"off", "calm"} /\ x.val = "off" /\
             (sure => Yes("steady") \in A.s \/ Yes("off") \in A.s)
    BY <1>2, <1>7 DEF Autoexec, Keep, Yes, Idling, Mute
  <2> QED BY <1>2, <1>7, <2>1 DEF Yes, Report, From
<1>8. CASE x.reg = "CONTROL" /\ ControlGives(x.val, From(A, sure), g)
  <2>1. \/ Inside /\ g[1] # "released"
        \/ g[1] = "released" /\ x.val = "idle"
    <3>1. g \notin {Yes("halted"), Yes("started"), Yes("done"), Yes("unlocked"), Yes("free"),
                    Yes("running"), Yes("reset")}
          /\ g[1] \notin {"x10", "dpc", "request"}
      BY <1>2 DEF Yes
    <3>2. \/ Keep(g, From(A, sure), HartThings \cup Report)
          \/ x.val = "idle" /\ g = Yes("released")
      BY <1>8, <3>1 DEF ControlGives
    <3>3. g = Yes("released") => g[1] = "released"  BY DEF Yes
    <3> QED BY <3>2, <3>3 DEF Keep, HartThings
  <2> QED BY <1>2, <1>8, <2>1 DEF Yes, Report, From
<1> QED BY <1>1, <1>3, <1>4, <1>5, <1>6, <1>7, <1>8 DEF WriteGives

\* A write of an operation: a fact it gives about autoexec, the busy bit, the
\* request and the report holds after it, however often it took effect.
LEMMA WriteOpen ==
  ASSUME NEW op, NEW x, NEW A, NEW g, NEW sure \in BOOLEAN,
         WriteGives(family, x, A, g, sure),
         Opens(dm, dm', x.reg, x.val), g = Fine => diag' = "ok",
         lost \ {"autoexec"} \subseteq lost', x.reg # "ABSTRACTAUTO" => lost \subseteq lost',
         AllOpen(A.s), dm.cmderr = "none" => AllOpen(A.p), sure \/ dm'.cmderr = "none"
  PROVE  OpenSays(g)'
<1>0. CASE g \notin Sayings
  BY <1>0, OtherOpen
<1>1. CASE g = Fine
  BY <1>1 DEF OpenSays, Fine, Yes
<1> SUFFICES ASSUME g \in Sayings \ {Fine}  PROVE OpenSays(g)'
  BY <1>0, <1>1
<1>2. g \in From(A, sure) /\ (x.reg = "ABSTRACTCS" => g \in A.s) => OpenSays(g)
  BY DEF Opens, From, AllOpen
<1>3. CASE g = Yes("released")
  <2>1. CASE x.reg = "CONTROL"
    <3>1. dm'.request = "none"  BY <1>3, <2>1, WriteSayings DEF Opens
    <3> QED BY <1>3, <3>1 DEF OpenSays, Released, Yes, Fine
  <2>2. CASE x.reg # "CONTROL"
    <3>1. g \in From(A, sure) /\ (x.reg = "ABSTRACTCS" => g \in A.s)
      BY <1>3, <2>2, WriteSayings DEF Yes
    <3>2. Released  BY <1>2, <1>3, <3>1 DEF OpenSays, Yes, Fine
    <3>3. dm'.request = dm.request  BY <2>2 DEF Opens
    <3> QED BY <1>3, <3>2, <3>3 DEF OpenSays, Released, Yes, Fine
  <2> QED BY <2>1, <2>2
<1>4. CASE g \in {Yes("off"), Yes("calm")} /\ x.reg = "ABSTRACTAUTO"
  <2>1. x.val = "off" /\ (sure => Yes("steady") \in A.s \/ Yes("off") \in A.s)
    BY <1>4, WriteSayings
  <2>2. sure => ~dm.busy \/ ~dm.auto
    BY <2>1 DEF AllOpen, OpenSays, Yes, Fine
  <2>3. ~dm'.auto  BY <1>4, <2>1, <2>2 DEF Opens
  <2> QED BY <1>4, <2>3 DEF OpenSays, Calm, Yes, Fine
<1>5. CASE g \in {Yes("off"), Yes("calm")} /\ x.reg # "ABSTRACTAUTO"
  <2>1. g \in From(A, sure) /\ (x.reg = "ABSTRACTCS" => g \in A.s)
    BY <1>5, WriteSayings DEF Yes
  <2>2. OpenSays(g)  BY <1>2, <2>1
  <2>3. dm'.auto = dm.auto  BY <1>5 DEF Opens
  <2> QED BY <1>5, <2>2, <2>3 DEF OpenSays, Calm, Yes, Fine
<1>6. CASE g = Yes("steady")
  <2>1. /\ (sure => g \in A.s)
        /\ \/ x.reg = "DATA0" /\ Yes("off") \in A.s
           \/ x.reg = "COMMAND" /\ \E r \in Regs : x.val \in {SetReg(r), GetReg(r)}
           \/ x.reg \notin {"DATA0", "COMMAND"}
        /\ g \in From(A, sure) \/ x.reg \in Abstract
    BY <1>6, WriteSayings
  <2>2. Yes("off") \in A.s => ~dm.auto  BY DEF AllOpen, OpenSays, Yes, Fine
  <2>3. Short(dm, x.reg, x.val)  BY <2>1, <2>2 DEF Short
  <2>4. sure => ~dm.busy  BY <1>6, <2>1 DEF AllOpen, OpenSays, Yes, Fine
  <2>5. ~sure /\ x.reg \notin Abstract => ~dm.busy
    <3>1. x.reg # "ABSTRACTCS" \/ x.reg \in Abstract  BY DEF Abstract
    <3> QED BY <1>2, <1>6, <2>1, <3>1 DEF OpenSays, Yes, Fine
  <2>6. ~dm'.busy  BY <2>3, <2>4, <2>5 DEF Opens
  <2> QED BY <1>6, <2>6 DEF OpenSays, Yes, Fine
<1> QED BY <1>3, <1>4, <1>5, <1>6, WriteSayings DEF Sayings

\* What a step from a state where A holds makes of the fact g.
Grants(A, g) == OpenSays(g)' /\ (Guard(A.s) /\ ~twice' => Says(g)')
\* The step passes, and what the access x gives holds after it.
Goes(x, A) ==
  /\ Next1
  /\ \A sure \in BOOLEAN : \A g :
       Gives(family, x, A, g, sure) /\ (sure \/ dm'.cmderr = "none") => Grants(A, g)
\* The step fails, and what a failure keeps holds after it.
Stops(x, A) ==
  /\ \E status : Fail(status)
  /\ diag' = cause'
  /\ x.fail # "return" => \A g : Fails(family, x, A, g) => Grants(A, g)
  /\ Returns(cmd, x, A.s) => Calm' /\ (cmd = "resume" => Released')
  /\ Guard(A.s) /\ ~twice' => Kept'
\* What is lost stays lost, except that autoexec may be switched off at last.
LostStep(x) == lost \ {"autoexec"} \subseteq lost' /\
                 (x.reg # "ABSTRACTAUTO" => lost \subseteq lost')
\* The interpreter's next access is x.
Current(x) == step.do = x.do /\ step.reg = x.reg /\ step.val = x.val

\* What an annotation says open holds always, the rest when nothing was lost.
LEMMA HoldsKnown ==
  ASSUME NEW A, Holds(A)
  PROVE  /\ AllOpen(A.s) /\ (dm.cmderr = "none" => AllOpen(A.p))
         /\ Guard(A.s) => Known(A)
BY DEF Holds, AllOpen, Known, AllSay

\* Settling changes the busy bit only.
LEMMA SettledIs ==
  ASSUME NEW d, IsDm(d)
  PROVE  IsDm(Settled(d)) /\ Eased(d, Settled(d)) /\ ~Settled(d).busy
BY DEF Settled, IsDm, Eased, Alike, Fields

\* A module is an eased copy of itself.
LEMMA EasedSelf ==
  ASSUME NEW d
  PROVE  Eased(d, d)
BY DEF Eased, Alike

\* A fact is kept when at most a command of the debug module ends.
LEMMA CalmDown ==
  ASSUME NEW g, Steady, Eased(dm, dm'), Says(g) \/ (g = Idling /\ ~dm'.busy) \/ g \in Sayings
  PROVE  Says(g)'
<1>1. CASE Says(g)
  <2>1. Changes({} \cup {"cmderr", "busy"}, {}) /\ (~dm.busy => ~dm'.busy) /\ Apart(g, {}, {})
    BY DEF Changes, Apart, Eased, Alike, Steady, Fields
  <2> QED BY <1>1, <2>1, KeepSimple
<1>2. CASE g = Idling /\ ~dm'.busy
  BY <1>2, BusySays DEF Idling
<1>3. CASE g \in Sayings
  BY <1>3, OwnSays DEF Sayings, Yes, Fine
<1> QED BY <1>1, <1>2, <1>3

\* A write never loses the neighbours.
LEMMA WriteKeeps ==
  ASSUME NEW op, NEW x, NEW A, WriteAsks(family, op, x, A), Yes("kept") \in A.s
  PROVE  WriteGives(family, x, A, Yes("kept"), TRUE)
<1> DEFINE g == Yes("kept")
<1>1. g[1] = "kept"  BY DEF Yes
<1> HIDE DEF g
<1>2. /\ x.reg = "DATA0"
           => (Mute \in A.s /\ Data0(family, x.val, A, g, TRUE)) \/
             (StreamReady(A) /\ Stream(x.val, A, g, TRUE))
      /\ x.reg = "DATA1" => Data1(x.val, A, g, TRUE)
      /\ x.reg = "PROGBUF" => Progbuf(x.val, A, g, TRUE)
      /\ x.reg = "ABSTRACTCS" => ClearError(A, g, TRUE)
      /\ x.reg = "ABSTRACTAUTO" => Autoexec(x.val, A, g, TRUE)
      /\ Keep(g, From(A, TRUE), Report)
      /\ x.reg = "CONTROL" => ControlGives(x.val, From(A, TRUE), g)
  BY <1>1 DEF WriteAsks, Data0, Stream, Data1, Progbuf, ClearError, Autoexec, Keep, From, Report, g,
     ControlGives, HartThings
<1>3. x.reg = "COMMAND" => CommandGives(x.val, A, g, TRUE)
  BY <1>1 DEF WriteAsks, CommandAsks, CommandGives, SetGives, GetGives, FetchGives, StoreGives,
     RunStreamGives, RunStoreGives,
         RunLoadGives, RunCodeGives, RunPageGives, Keep, From, Ran, SetTouched, Regs, Blocks, Report, g
<1> QED BY <1>2, <1>3 DEF WriteGives, WriteAsks, g

-----------------------------------------------------------------------------
(* The steps: writes,                                                      *)

\* A write that passes makes what its annotation promises, even when it took effect twice or its
\* command ended with an error.
LEMMA WriteGoes ==
  ASSUME NEW x, NEW A, Holds(A), Asks(family, cmd, x, A), x.do = "write", IsDm(dm),
         family' = family,
         UNCHANGED <<mode, value>>, unchecked' = (unchecked \/ (dm.busy /\ x.reg \in Abstract)),
         diag' = "ok",
         LostStep(x), IsDm(dm'), Opens(dm, dm', x.reg, x.val), Next1,
         \/ twice'
         \/ dm' = DmiWrite(dm, x.reg, x.val)
         \/ x.reg = "COMMAND" /\ Missed(dm, dm')
  PROVE  Goes(x, A)
<1> SUFFICES ASSUME NEW sure \in BOOLEAN, NEW g, Gives(family, x, A, g, sure),
                    sure \/ dm'.cmderr = "none"
             PROVE  Grants(A, g)
  BY DEF Goes
<1>1. WriteGives(family, x, A, g, sure) /\ WriteAsks(family, cmd, x, A)
  BY DEF Gives, Asks
<1>2. OpenSays(g)'
  BY <1>1, HoldsKnown, WriteOpen DEF LostStep
<1>3. ASSUME Guard(A.s), ~twice'  PROVE Says(g)'
  <2>1. Known(A) /\ Steady /\ \A h \in A.s : OpenSays(h)
    BY <1>3, HoldsKnown DEF Steady, AllOpen
  <2>2. CASE dm' = DmiWrite(dm, x.reg, x.val)
    BY <1>1, <2>1, <2>2, EasedSelf, WriteSays
  <2>3. CASE x.reg = "COMMAND" /\ Missed(dm, dm')
    <3>1. sure  BY <2>3 DEF Missed
    <3>2. CASE g = Fine
      BY <3>2, OwnSays DEF Fine
    <3>3. CASE g # Fine
      <4>1. CommandGives(x.val, A, g, TRUE)  BY <1>1, <2>3, <3>1, <3>3 DEF WriteGives
      <4> QED BY <2>1, <2>3, <4>1, MissedSays DEF Known
    <3> QED BY <3>2, <3>3
  <2> QED BY <1>3, <2>2, <2>3
<1> QED BY <1>2, <1>3 DEF Grants

\* A write that is given up.
LEMMA WriteStops ==
  ASSUME NEW x, NEW A, Holds(A), Asks(family, cmd, x, A), x.do = "write", Current(x), IsDm(dm),
         UNCHANGED <<family, cmd>>,
         UNCHANGED <<mode, value, twice>>,
         unchecked' = (unchecked \/ (dm.busy /\ x.reg \in Abstract)),
         Broken, NEW e, e = DmiWrite(dm, x.reg, x.val),
         \/ dm' = Settled(e) /\ Arrived
         \/ dm' = Settled(dm) /\ lost' = lost \cup LostOff
  PROVE  IsDm(dm') /\ LostStep(x) /\ Stops(x, A)
<1>1. WriteAsks(family, cmd, x, A) /\ Yes("kept") \in A.s /\ x.reg \in Registers
  BY DEF Asks, WriteAsks, Registers, Abstract
<1>2. IsDm(e) /\ Opens(dm, e, x.reg, x.val)  BY <1>1, OpensWrite
<1>3. LostStep(x)  BY DEF LostStep, Arrived, Current
<1>4. IsDm(dm') /\ ~dm'.busy
  BY <1>2, SettledIs
<1>5. \/ dm' = Settled(e) /\ Arrived /\ Eased(e, dm') /\ Opens(dm, dm', x.reg, x.val)
      \/ dm' = Settled(dm) /\ lost' = lost \cup LostOff /\ Eased(dm, dm')
  <2>1. CASE dm' = Settled(e) /\ Arrived
    <3>1. Eased(e, dm')  BY <1>2, <2>1, SettledIs
    <3> QED BY <1>2, <2>1, <3>1, OpensEased
  <2>2. CASE dm' = Settled(dm) /\ lost' = lost \cup LostOff
    BY <2>2, SettledIs
  <2> QED BY <2>1, <2>2
<1>6. Steady  BY DEF Steady
<1>7. ASSUME NEW g, g \in A.s, WriteGives(family, x, A, g, TRUE), g[1] # "diag"
      PROVE  Grants(A, g)
  <2>0. g # Fine  BY <1>7 DEF Fine
  <2>1. CASE dm' = Settled(e) /\ Arrived /\ Eased(e, dm') /\ Opens(dm, dm', x.reg, x.val)
    <3>1. OpenSays(g)'
      BY <1>3, <1>7, <2>0, <2>1, HoldsKnown, WriteOpen DEF LostStep
    <3>2. ASSUME Guard(A.s)  PROVE Says(g)'
      BY <1>1, <1>6, <1>7, <2>1, <3>2, HoldsKnown, WriteSays DEF AllOpen
    <3> QED BY <3>1, <3>2 DEF Grants
  <2>2. CASE dm' = Settled(dm) /\ lost' = lost \cup LostOff /\ Eased(dm, dm')
    <3>1. OpenSays(g)'
      <4>1. CASE g \notin Sayings
        BY <4>1, OtherOpen
      <4>2. CASE g \in Sayings
        <5>1. OpenSays(g)  BY <1>7, HoldsKnown DEF AllOpen
        <5>2. dm'.auto = dm.auto /\ dm'.request = dm.request  BY <2>2 DEF Eased, Alike, Fields
        <5>3. diag' = "failed" /\ cause' = "failed"  BY DEF Broken, Fail
        <5> QED BY <1>4, <2>0, <2>2, <5>1, <5>2, <5>3 DEF OpenSays, Calm, Released, Told
      <4> QED BY <4>1, <4>2
    <3>2. Guard(A.s) => Says(g)
      BY <1>7, HoldsKnown DEF Known, AllSay
    <3> QED BY <1>6, <2>2, <3>1, <3>2, CalmDown DEF Grants
  <2> QED BY <1>5, <2>1, <2>2
<1>8. \A g : Fails(family, x, A, g) => Grants(A, g)
  <2> SUFFICES ASSUME NEW g, Fails(family, x, A, g)  PROVE Grants(A, g)
    OBVIOUS
  <2>1. CASE g = Yes("told")
    BY <2>1, OwnSays DEF Grants, OpenSays, Told, Yes, Fine, Broken, Fail
  <2>2. CASE g \in {Idling, Yes("steady")}
    BY <1>4, <2>2, BusySays, OwnSays DEF Grants, OpenSays, Yes, Idling, Fine
  <2>3. CASE g \in A.s /\ g[1] # "diag" /\ Gives(family, x, A, g, TRUE)
    BY <1>7, <2>3 DEF Gives
  <2> QED BY <2>1, <2>2, <2>3 DEF Fails, Settling
<1>9. Guard(A.s) => Kept'
  <2>1. WriteGives(family, x, A, Yes("kept"), TRUE)  BY <1>1, WriteKeeps
  <2>2. Grants(A, Yes("kept"))  BY <1>1, <1>7, <2>1 DEF Yes
  <2> QED BY <2>2 DEF Grants, Says, MemorySays, Yes, Guard
<1>10. ASSUME Returns(cmd, x, A.s)  PROVE Calm' /\ (cmd = "resume" => Released')
  <2>1. CASE Yes("calm") \in A.s /\ x.reg # "ABSTRACTAUTO"
    <3>1. Calm  BY <2>1, HoldsKnown DEF AllOpen, OpenSays, Yes, Fine
    <3>2. dm'.auto = dm.auto  BY <1>5, <2>1 DEF Eased, Alike, Fields, Opens
    <3>3. Yes("released") \in A.s => Released  BY HoldsKnown DEF AllOpen, OpenSays, Yes, Fine
    <3>4. x.reg # "CONTROL" => dm'.request = dm.request
      BY <1>5, <2>1 DEF Eased, Alike, Fields, Opens
    <3> QED BY <1>3, <1>10, <2>1, <3>1, <3>2, <3>3, <3>4 DEF Calm, Released, LostStep, Returns
  <2>2. CASE x.reg = "ABSTRACTAUTO" /\ x.val = "off" /\
               (Yes("steady") \in A.s \/ Yes("off") \in A.s)
    <3>1. ~dm.busy \/ ~dm.auto  BY <2>2, HoldsKnown DEF AllOpen, OpenSays, Yes, Fine
    <3>2. Calm'
      <4>1. CASE Opens(dm, dm', x.reg, x.val)
        BY <2>2, <3>1, <4>1 DEF Opens, Calm
      <4>2. CASE lost' = lost \cup LostOff
        BY <2>2, <4>2 DEF LostOff, Calm, Current
      <4> QED BY <1>5, <4>1, <4>2
    <3>3. Yes("released") \in A.s => Released  BY HoldsKnown DEF AllOpen, OpenSays, Yes, Fine
    <3>4. dm'.request = dm.request  BY <1>5, <2>2 DEF Eased, Alike, Fields, Opens
    <3> QED BY <1>3, <1>10, <2>2, <3>2, <3>3, <3>4 DEF Released, LostStep, Returns
  <2> QED BY <1>10, <2>1, <2>2 DEF Returns
<1>11. (\E status : Fail(status)) /\ diag' = cause'
  BY DEF Broken, Fail
<1> QED BY <1>3, <1>4, <1>8, <1>9, <1>10, <1>11 DEF Stops

\* StepWrite: rvswd_operation_write_dmi passes and makes what is promised, or fails and keeps what
\* a failure keeps, whether the write arrived or not.
LEMMA WriteEffect ==
  ASSUME NEW x, NEW A, Holds(A), Asks(family, cmd, x, A), x.do = "write", Current(x), IsDm(dm),
         UNCHANGED <<family, cmd>>,
         StepWrite
  PROVE  IsDm(dm') /\ LostStep(x) /\ (twice => twice') /\ (Goes(x, A) \/ Stops(x, A))
<1>1. x.reg \in Registers
  BY DEF Asks, WriteAsks, Registers, Abstract
<1> DEFINE after == DmiWrite(dm, step.reg, step.val)
<1>2. after = DmiWrite(dm, x.reg, x.val)  BY DEF Current
<1>3. IsDm(after) /\ Opens(dm, after, x.reg, x.val)  BY <1>1, <1>2, OpensWrite
<1>4. /\ UNCHANGED <<mode, value>> /\ unchecked' = (unchecked \/ (dm.busy /\ x.reg \in Abstract))
      /\ \/ dm' = after /\ Passed /\ Arrived /\ UNCHANGED <<faults, twice>>
         \/ /\ dm' \in Doubled(dm, step.reg, step.val) /\ dm' # after
            /\ twice' = TRUE /\ Break /\ Passed /\ Arrived
         \/ /\ step.reg = "COMMAND" /\ dm.cmderr = "none" /\ ~dm.busy
            /\ dm' = [dm EXCEPT !.cmderr = "exception", !.last = step.val]
            /\ Break /\ Passed /\ UNCHANGED <<twice, lost>>
         \/ dm' = Settled(after) /\ Broken /\ Arrived /\ UNCHANGED twice
         \/ dm' = Settled(dm) /\ Broken /\ lost' = lost \cup LostOff /\ UNCHANGED twice
  BY DEF StepWrite, Current
<1> HIDE DEF after
<1>5. CASE dm' = after /\ Passed /\ Arrived /\ UNCHANGED <<faults, twice>>
  <2>1. LostStep(x) /\ Next1 /\ diag' = "ok"  BY <1>5 DEF LostStep, Arrived, Current, Passed
  <2> QED BY <1>2, <1>3, <1>4, <1>5, <2>1, WriteGoes
<1>6. CASE dm' \in Doubled(dm, step.reg, step.val) /\ dm' # after /\ twice' = TRUE /\ Break /\
             Passed /\ Arrived
  <2>1. LostStep(x) /\ Next1 /\ diag' = "ok"  BY <1>6 DEF LostStep, Arrived, Current, Passed
  <2>2. PICK o \in {after, Settled(after)} : dm' = DmiWrite(o, x.reg, x.val)
    BY <1>6 DEF Doubled, Settled, after, Current
  <2>3. IsDm(o) /\ Eased(after, o)  BY <1>3, <2>2, SettledIs, EasedSelf
  <2>4. IsDm(dm') /\ Opens(o, dm', x.reg, x.val)  BY <1>1, <2>2, <2>3, OpensWrite
  <2>5. Opens(dm, dm', x.reg, x.val)  BY <1>3, <2>3, <2>4, OpensTwice
  <2> QED BY <1>4, <1>6, <2>1, <2>4, <2>5, WriteGoes
<1>7. CASE /\ step.reg = "COMMAND" /\ dm.cmderr = "none" /\ ~dm.busy
           /\ dm' = [dm EXCEPT !.cmderr = "exception", !.last = step.val]
           /\ Break /\ Passed /\ UNCHANGED <<twice, lost>>
  <2>1. LostStep(x) /\ Next1 /\ diag' = "ok" /\ x.reg = "COMMAND"
    BY <1>7 DEF LostStep, Current, Passed
  <2>2. IsDm(dm') /\ Missed(dm, dm') /\ Alike(dm, dm', {"cmderr", "last"})
    BY <1>7 DEF IsDm, Missed, Alike, Fields
  <2>3. Opens(dm, dm', x.reg, x.val)
    BY <2>1, <2>2 DEF Opens, Missed, Alike, Fields
  <2> QED BY <1>4, <1>7, <2>1, <2>2, <2>3, WriteGoes
<1>8. CASE Broken /\ UNCHANGED twice /\
             ((dm' = Settled(after) /\ Arrived) \/ (dm' = Settled(dm) /\ lost' = lost \cup LostOff))
  BY <1>2, <1>4, <1>8, WriteStops
<1> QED BY <1>4, <1>5, <1>6, <1>7, <1>8

-----------------------------------------------------------------------------
(* waits, checks,                                                          *)

\* A fact is kept when nothing but the error and the busy bit changes.
LEMMA KeepGrants ==
  ASSUME NEW A, NEW g, Holds(A), g \in A.s \/ (dm.cmderr = "none" /\ g \in A.p), g[1] \notin Report,
         Steady, Alike(dm, dm', {"cmderr", "busy"}), ~dm.busy => ~dm'.busy, lost \subseteq lost'
  PROVE  Grants(A, g)
<1>1. OpenSays(g) /\ (Guard(A.s) => Says(g))  BY DEF Holds
<1>2. Says(g) => Says(g)'
  <2>1. Changes({} \cup {"cmderr", "busy"}, {}) /\ Apart(g, {}, {})
    BY DEF Changes, Apart, Alike, Steady, Fields
  <2> QED BY <2>1, KeepSimple
<1>3. g # Fine /\ g # Yes("told")  BY DEF Report, Fine, Yes
<1>4. dm'.auto = dm.auto /\ dm'.request = dm.request  BY DEF Alike, Fields
<1>5. OpenSays(g)'
  BY <1>1, <1>3, <1>4 DEF OpenSays, Calm, Released
<1> QED BY <1>1, <1>2, <1>5 DEF Grants

\* A step that reports success leaves the diagnosis clean.
LEMMA FineGrants ==
  ASSUME NEW A, diag' = "ok"
  PROVE  Grants(A, Fine)
BY OwnSays DEF Grants, OpenSays, Fine, Yes

\* A step that reports its own cause leaves the diagnosis told.
LEMMA ToldGrants ==
  ASSUME NEW A, diag' = cause'
  PROVE  Grants(A, Yes("told"))
BY OwnSays DEF Grants, OpenSays, Told, Fine, Yes

\* A step after which no command runs leaves the module idle.
LEMMA IdleGrants ==
  ASSUME NEW A, NEW g \in {Idling, Yes("steady")}, ~dm'.busy
  PROVE  Grants(A, g)
BY BusySays, OwnSays DEF Grants, OpenSays, Fine, Yes, Idling

\* A step that fails without touching more than the error and the busy bit.
LEMMA QuietStops ==
  ASSUME NEW x, NEW A, Holds(A), Asks(family, cmd, x, A), x.do # "write", UNCHANGED <<family, cmd>>,
         Steady, Alike(dm, dm', {"cmderr", "busy"}), ~dm.busy => ~dm'.busy, lost' = lost,
         \E status : Fail(status), diag' = cause', x.do \in Settling => ~dm'.busy
  PROVE  Stops(x, A)
<1>1. \A g : Fails(family, x, A, g) => Grants(A, g)
  <2> SUFFICES ASSUME NEW g, Fails(family, x, A, g)  PROVE Grants(A, g)
    OBVIOUS
  <2>1. CASE g \in {Idling, Yes("steady")} /\ x.do \in Settling
    BY <2>1, IdleGrants
  <2>2. CASE g \in A.s /\ g[1] # "diag"
    <3>1. CASE g[1] = "told"
      <4>1. CASE g = Yes("told")
        BY <4>1, ToldGrants
      <4>2. CASE g # Yes("told")
        <5>1. g \notin Sayings  BY <3>1, <4>2 DEF Sayings, Yes, Fine
        <5> QED BY <3>1, <5>1, OtherOpen, OwnSays DEF Grants
      <4> QED BY <4>1, <4>2
    <3> QED BY <2>2, <3>1, KeepGrants DEF Report
  <2>3. CASE g = Yes("told")
    BY <2>3, ToldGrants
  <2> QED BY <2>1, <2>2, <2>3 DEF Fails
<1>2. Guard(A.s) => Kept'
  <2>1. Grants(A, Yes("kept"))  BY KeepGrants DEF Asks, Report, Yes
  <2>2. Guard(A.s) => Kept
    BY HoldsKnown DEF Asks, Known, AllSay, Says, MemorySays, Yes
  <2>3. dm'.mem = dm.mem /\ dm'.stray = dm.stray /\ dm'.page = dm.page  BY DEF Alike, Fields
  <2> QED BY <2>2, <2>3 DEF Kept
<1>3. ASSUME Returns(cmd, x, A.s)  PROVE Calm' /\ (cmd = "resume" => Released')
  <2>1. Yes("calm") \in A.s /\ cmd # "resume"  BY <1>3 DEF Returns
  <2>2. Calm  BY <2>1, HoldsKnown DEF AllOpen, OpenSays, Yes, Fine
  <2>3. dm'.auto = dm.auto  BY DEF Alike, Fields
  <2> QED BY <2>1, <2>2, <2>3 DEF Calm
<1> QED BY <1>1, <1>2, <1>3 DEF Stops

\* StepWait: after rvswd_debug_wait_abstract_idle no command runs.
LEMMA WaitEffect ==
  ASSUME NEW x, NEW A, Holds(A), Asks(family, cmd, x, A), x.do = "wait", Current(x), IsDm(dm),
         UNCHANGED <<family, cmd>>,
         StepWait
  PROVE  IsDm(dm') /\ LostStep(x) /\ (twice => twice') /\ (Goes(x, A) \/ Stops(x, A))
<1>1. UNCHANGED <<mode, value, twice, unchecked, lost>> /\ Steady /\ LostStep(x)
  BY DEF StepWait, marks, Steady, LostStep
<1>2. CASE ~dm.busy /\ dm' = dm /\ Passed
  <2>1. ASSUME NEW sure \in BOOLEAN, NEW g, Gives(family, x, A, g, sure),
               sure \/ dm'.cmderr = "none"
        PROVE Grants(A, g)
    <3>1. Keep(g, From(A, sure), Report) \/ g \in {Idling, Yes("steady"), Fine}
      BY <2>1 DEF Gives
    <3>2. CASE Keep(g, From(A, sure), Report)
      BY <1>1, <1>2, <2>1, <3>2, KeepGrants DEF Keep, From, Alike
    <3>3. CASE g \in {Idling, Yes("steady"), Fine}
      BY <1>2, <3>3, IdleGrants, FineGrants DEF Passed
    <3> QED BY <3>1, <3>2, <3>3
  <2>2. Goes(x, A)  BY <1>2, <2>1 DEF Goes, Passed
  <2> QED BY <1>1, <1>2, <2>2
<1>3. CASE dm' = Settled(dm) /\ Broken
  <2>1. IsDm(dm') /\ Eased(dm, dm') /\ ~dm'.busy  BY <1>3, SettledIs
  <2>2. Alike(dm, dm', {"cmderr", "busy"})  BY <2>1 DEF Eased, Alike
  <2>3. (\E status : Fail(status)) /\ diag' = cause'  BY <1>3 DEF Broken, Fail
  <2>4. Stops(x, A)  BY <1>1, <2>1, <2>2, <2>3, QuietStops
  <2> QED BY <1>1, <2>1, <2>4
<1> QED BY <1>2, <1>3 DEF StepWait

\* A module that did not change differs nowhere.
LEMMA SameAlike ==
  ASSUME dm' = dm
  PROVE  Alike(dm, dm', {"cmderr", "busy"}) /\ (~dm.busy => ~dm'.busy)
BY DEF Alike

\* StepCheck: an error of the command sends the operation away with a clean link status.
LEMMA CheckEffect ==
  ASSUME NEW x, NEW A, Holds(A), Asks(family, cmd, x, A), x.do = "check", Current(x), IsDm(dm),
         UNCHANGED <<family, cmd>>,
         StepCheck
  PROVE  IsDm(dm') /\ LostStep(x) /\ (twice => twice') /\ (Goes(x, A) \/ Stops(x, A))
<1>1. UNCHANGED <<dm, diag, mode, value, twice, unchecked, lost>> /\ Steady /\ LostStep(x)
  BY DEF StepCheck, marks, Steady, LostStep
<1>2. CASE dm.cmderr = "none" /\ Next1 /\ cause' = cause
  <2>1. ASSUME NEW sure \in BOOLEAN, NEW g, Gives(family, x, A, g, sure)  PROVE Grants(A, g)
    <3>1. g \in A.s \cup A.p
      BY <2>1 DEF Gives
    <3>2. CASE g[1] \notin Report
      BY <1>1, <1>2, <3>1, <3>2, SameAlike, KeepGrants
    <3>3. CASE g[1] \in Report
      <4>1. OpenSays(g)  BY <1>2, <3>1 DEF Holds
      <4>2. g \notin {Yes("steady"), Yes("off"), Yes("calm"), Yes("released")}
        BY <3>3 DEF Report, Yes
      <4>3. OpenSays(g)'  BY <1>1, <1>2, <4>1, <4>2 DEF OpenSays, Told
      <4> QED BY <3>3, <4>3, OwnSays DEF Grants, Report
    <3> QED BY <3>2, <3>3
  <2>2. Goes(x, A)  BY <1>2, <2>1 DEF Goes
  <2> QED BY <1>1, <2>2
<1>3. CASE Fail("ok")
  <2>1. diag = "ok"
    <3>1. Fine \in A.s  BY DEF Asks
    <3> QED BY <3>1, HoldsKnown DEF AllOpen, OpenSays
  <2>2. diag' = cause'  BY <1>1, <1>3, <2>1 DEF Fail
  <2>3. Stops(x, A)  BY <1>1, <1>3, <2>2, SameAlike, QuietStops DEF Settling
  <2> QED BY <1>1, <2>3
<1> QED BY <1>2, <1>3 DEF StepCheck

\* StepStatus: one read of ABSTRACTCS passes when there is no error.
LEMMA StatusEffect ==
  ASSUME NEW x, NEW A, Holds(A), Asks(family, cmd, x, A), x.do = "abstractcs", Current(x), IsDm(dm),
         UNCHANGED <<family, cmd>>,
         StepStatus
  PROVE  IsDm(dm') /\ LostStep(x) /\ (twice => twice') /\ (Goes(x, A) \/ Stops(x, A))
<1>1. UNCHANGED <<dm, mode, value, twice, unchecked, lost>> /\ Steady /\ LostStep(x)
  BY DEF StepStatus, marks, Steady, LostStep
<1>2. CASE dm.cmderr = "none" /\ Passed
  <2>1. ASSUME NEW sure \in BOOLEAN, NEW g, Gives(family, x, A, g, sure)  PROVE Grants(A, g)
    <3>1. Keep(g, A.s \cup A.p, Report) \/ g = Fine
      BY <2>1 DEF Gives
    <3> QED BY <1>1, <1>2, <3>1, SameAlike, KeepGrants, FineGrants DEF Keep, Passed
  <2>2. Goes(x, A)  BY <1>2, <2>1 DEF Goes, Passed
  <2> QED BY <1>1, <2>2
<1>3. CASE Refused \/ Broken
  <2>2. (\E status : Fail(status)) /\ diag' = cause'  BY <1>3 DEF Fail, Refused, Broken
  <2>3. Stops(x, A)  BY <1>1, <2>2, SameAlike, QuietStops DEF Settling
  <2> QED BY <1>1, <2>3
<1> QED BY <1>2, <1>3 DEF StepStatus

\* StepProbe: a read whose value does not matter changes nothing.
LEMMA ProbeEffect ==
  ASSUME NEW x, NEW A, Holds(A), Asks(family, cmd, x, A), x.do = "probe", Current(x), IsDm(dm),
         UNCHANGED <<family, cmd>>,
         StepProbe
  PROVE  IsDm(dm') /\ LostStep(x) /\ (twice => twice') /\ (Goes(x, A) \/ Stops(x, A))
<1>1. UNCHANGED <<dm, mode, value, twice, unchecked, lost>> /\ Steady /\ LostStep(x)
  BY DEF StepProbe, marks, Steady, LostStep
<1>2. CASE Passed
  <2>1. ASSUME NEW sure \in BOOLEAN, NEW g, Gives(family, x, A, g, sure),
               sure \/ dm'.cmderr = "none"
        PROVE Grants(A, g)
    <3>1. Keep(g, From(A, sure), Report) \/ g = Fine
      BY <2>1 DEF Gives
    <3> QED BY <1>1, <1>2, <2>1, <3>1, SameAlike, KeepGrants, FineGrants DEF Keep, Passed, From
  <2>2. Goes(x, A)  BY <1>2, <2>1 DEF Goes, Passed
  <2> QED BY <1>1, <2>2
<1>3. CASE Broken
  <2>2. (\E status : Fail(status)) /\ diag' = cause'  BY <1>3 DEF Fail, Broken
  <2>3. Stops(x, A)  BY <1>1, <2>2, SameAlike, QuietStops DEF Settling
  <2> QED BY <1>1, <2>3
<1> QED BY <1>2, <1>3 DEF StepProbe

\* StepHart: the wait for the hart passes only when the hart is there.
LEMMA HartEffect ==
  ASSUME NEW x, NEW A, Holds(A), Asks(family, cmd, x, A), x.do = "hart", Current(x), IsDm(dm),
         UNCHANGED <<family, cmd>>,
         StepHart
  PROVE  IsDm(dm') /\ LostStep(x) /\ (twice => twice') /\ (Goes(x, A) \/ Stops(x, A))
<1>1. UNCHANGED <<dm, mode, value, twice, unchecked, lost>> /\ Steady /\ LostStep(x)
  BY DEF StepHart, marks, Steady, LostStep
<1>2. CASE Passed /\ (x.reg = "halted" => dm.hart = "halted")
  <2>1. ASSUME NEW sure \in BOOLEAN, NEW g, Gives(family, x, A, g, sure),
               sure \/ dm'.cmderr = "none"
        PROVE Grants(A, g)
    <3>1. \/ Keep(g, From(A, sure), Report) \/ g = Fine
          \/ x.reg = "halted" /\ g = Yes("halted")
          \/ x.reg = "halted" /\ g = Yes("done") /\ Yes("started") \in From(A, sure)
      BY <2>1 DEF Gives
    <3>2. CASE Keep(g, From(A, sure), Report) \/ g = Fine
      BY <1>1, <1>2, <2>1, <3>2, SameAlike, KeepGrants, FineGrants DEF Keep, Passed, From
    <3>3. CASE x.reg = "halted" /\ g = Yes("halted")
      BY <1>1, <1>2, <3>3, HaltSays DEF Grants, OpenSays, Yes, Fine
    <3>4. CASE x.reg = "halted" /\ g = Yes("done") /\ Yes("started") \in From(A, sure)
      <4>1. Guard(A.s) => Says(Yes("started"))
        BY <1>1, <2>1, <3>4 DEF Holds, From
      <4>2. g[1] = "done" /\ g \notin Sayings  BY <3>4 DEF Yes, Sayings, Fine
      <4>3. Guard(A.s) => dm.regs["x10"] = "result" /\ dm.hart = "halted"
        BY <1>2, <3>4, <4>1 DEF Says, HartSays, Yes
      <4> QED BY <1>1, <4>2, <4>3, HaltSays, OtherOpen DEF Grants
    <3> QED BY <3>1, <3>2, <3>3, <3>4
  <2>2. Goes(x, A)  BY <1>2, <2>1 DEF Goes, Passed
  <2> QED BY <1>1, <2>2
<1>3. CASE Refused \/ Broken
  <2>2. (\E status : Fail(status)) /\ diag' = cause'  BY <1>3 DEF Fail, Refused, Broken
  <2>3. Stops(x, A)  BY <1>1, <2>2, SameAlike, QuietStops DEF Settling
  <2> QED BY <1>1, <2>3
<1> QED BY <1>2, <1>3 DEF StepHart, Current

-----------------------------------------------------------------------------
(* reads,                                                                  *)

\* A read of DATA0 without autoexec changes no more than the error.
LEMMA ReadIs ==
  ASSUME NEW d, IsDm(d), NEW e, e = DmiRead(d)
  PROVE  /\ IsDm(e) /\ e.auto = d.auto /\ e.request = d.request
         /\ e.cmderr = "none" => d.cmderr = "none" /\ ~d.busy
         /\ ~d.auto => Alike(d, e, {"cmderr"})
<1>1. CASE d.busy
  BY <1>1, RaiseIs DEF DmiRead, Alike, Fields
<1>2. CASE ~d.busy /\ d.auto /\ d.cmderr = "none"
  <2>1. e = Exec(d, d.last)  BY <1>2 DEF DmiRead, AutoExec
  <2>2. IsDm(e) /\ e.auto = d.auto /\ e.request = d.request  BY <2>1, ExecFrame DEF SameSolid, Solid
  <2> QED BY <1>2, <2>2
<1>3. CASE ~d.busy /\ ~(d.auto /\ d.cmderr = "none")
  <2>1. e = d  BY <1>3 DEF DmiRead, AutoExec
  <2> QED BY <1>3, <2>1 DEF Alike
<1> QED BY <1>1, <1>2, <1>3

\* Facts about the report, the request and autoexec that a read leaves.
LEMMA ReadOpen ==
  ASSUME NEW g, OpenSays(g), g[1] \notin Report \cup {"steady"}, dm'.auto = dm.auto,
         dm'.request = dm.request, lost' = lost
  PROVE  OpenSays(g)'
BY DEF OpenSays, Calm, Released, Report, Yes, Fine

\* A read of DATA0 that passes returns what DATA0 held.
LEMMA ReadPasses ==
  ASSUME NEW x, NEW A, Holds(A), Asks(family, cmd, x, A), x.do = "read", IsDm(dm),
         UNCHANGED <<family, cmd>>,
         UNCHANGED <<mode, twice, lost>>,
         dm' = DmiRead(dm), value' = dm.data0,
         unchecked' = (unchecked \/ dm.busy \/ dm.cmderr # "none"), Passed,
         NEW sure \in BOOLEAN, NEW g, ReadGives(A, g, sure), sure \/ dm'.cmderr = "none"
  PROVE  Grants(A, g)
<1>1. /\ dm'.auto = dm.auto /\ dm'.request = dm.request
      /\ dm'.cmderr = "none" => dm.cmderr = "none" /\ ~dm.busy
      /\ ~dm.auto => Alike(dm, dm', {"cmderr"})
  BY ReadIs
<1>2. Guard(A.s) => ~dm.auto
  BY HoldsKnown DEF Asks, Known, AllSay, Says, ModuleSays
<1>3. \A h : h \in From(A, sure) => OpenSays(h) /\ (Guard(A.s) => Says(h))
  BY <1>1 DEF From, Holds
<1>4. Guard(A.s) => Changes({"value", "cmderr", "busy"}, {}) /\ (~dm.busy => ~dm'.busy)
  BY <1>1, <1>2 DEF Changes, Alike, Fields
<1>5. CASE Keep(g, From(A, sure), {"value", "answer", "steady"} \cup Report)
  <2>1. OpenSays(g)'  BY <1>1, <1>3, <1>5, ReadOpen DEF Keep
  <2>2. ASSUME Guard(A.s)  PROVE Says(g)'
    <3>1. Apart(g, {"value"}, {})  BY <1>5 DEF Apart, Keep, Nameless, Blocks, Yes
    <3>2. {"value"} \cup {"cmderr", "busy"} = {"value", "cmderr", "busy"}  OBVIOUS
    <3> QED BY <1>3, <1>4, <1>5, <2>2, <3>1, <3>2, KeepSimple DEF Keep
  <2> QED BY <2>1, <2>2 DEF Grants
<1>6. CASE g = Yes("steady") /\ Yes("off") \in A.s /\ (sure => g \in A.s)
  <2>1. ~dm.auto  BY <1>6, HoldsKnown DEF AllOpen, OpenSays, Yes, Fine
  <2>2. sure => ~dm.busy  BY <1>6, HoldsKnown DEF AllOpen, OpenSays, Yes, Fine
  <2>3. ~dm'.busy  BY <1>1, <2>1, <2>2 DEF Alike, Fields
  <2> QED BY <1>6, <2>3, IdleGrants
<1>7. CASE g[1] = "value" /\ <<"data0", g[2]>> \in From(A, sure)
  <2>1. Guard(A.s) => dm.data0 = g[2]  BY <1>3, <1>7 DEF Says, ModuleSays
  <2>2. g \notin Sayings  BY <1>7 DEF Sayings, Yes, Fine
  <2> QED BY <1>7, <2>1, <2>2, OtherOpen, OwnSays DEF Grants
<1>8. CASE g = Idling /\ ~sure
  <2>1. Guard(A.s) => ~dm'.busy  BY <1>1, <1>2, <1>8 DEF Alike, Fields
  <2>2. g \notin Sayings /\ g[1] = "busy"  BY <1>8 DEF Sayings, Yes, Fine, Idling
  <2> QED BY <2>1, <2>2, OtherOpen, BusySays DEF Grants
<1>9. CASE g = Yes("answer") /\ <<"data0", "a1">> \in A.s \cup A.p
  <2>1. Guard(A.s) /\ dm.cmderr = "none" => dm.data0 = "a1"
    BY <1>9 DEF Holds, Says, ModuleSays
  <2>2. g \notin Sayings /\ g[1] = "answer"  BY <1>9 DEF Sayings, Yes, Fine
  <2> QED BY <2>1, <2>2, OtherOpen, OwnSays DEF Grants
<1>10. CASE g = Fine
  BY <1>10, FineGrants DEF Passed
<1> QED BY <1>5, <1>6, <1>7, <1>8, <1>9, <1>10 DEF ReadGives

\* StepRead: the value that is read is the one the annotation promises.
LEMMA ReadEffect ==
  ASSUME NEW x, NEW A, Holds(A), Asks(family, cmd, x, A), x.do = "read", Current(x), IsDm(dm),
         UNCHANGED <<family, cmd>>,
         StepRead
  PROVE  IsDm(dm') /\ LostStep(x) /\ (twice => twice') /\ (Goes(x, A) \/ Stops(x, A))
<1>1. UNCHANGED <<mode, twice, lost>> /\ LostStep(x)
  BY DEF StepRead, LostStep
<1>2. CASE /\ dm' = DmiRead(dm) /\ value' = dm.data0
           /\ unchecked' = (unchecked \/ dm.busy \/ dm.cmderr # "none") /\ Passed
  <2>1. ASSUME NEW sure \in BOOLEAN, NEW g, Gives(family, x, A, g, sure),
               sure \/ dm'.cmderr = "none"
        PROVE Grants(A, g)
    <3>1. ReadGives(A, g, sure)  BY <2>1 DEF Gives
    <3> QED BY <1>1, <1>2, <2>1, <3>1, ReadPasses
  <2>2. Goes(x, A)  BY <1>2, <2>1 DEF Goes, Passed
  <2>3. IsDm(dm')  BY <1>2, ReadIs
  <2> QED BY <1>1, <2>2, <2>3
<1>3. CASE dm' \in {Settled(dm), Settled(DmiRead(dm))} /\ Broken /\ UNCHANGED <<value, unchecked>>
  <2> DEFINE e == DmiRead(dm)
  <2>1. /\ IsDm(e) /\ e.auto = dm.auto /\ e.request = dm.request
        /\ ~dm.auto => Alike(dm, e, {"cmderr"})
    BY ReadIs
  <2> HIDE DEF e
  <2>2. PICK d \in {dm, e} : dm' = Settled(d)  BY <1>3 DEF e
  <2>3. IsDm(dm') /\ Eased(d, dm') /\ ~dm'.busy  BY <2>1, <2>2, SettledIs
  <2>4. /\ dm'.auto = dm.auto /\ dm'.request = dm.request
        /\ ~dm.auto => Alike(dm, dm', {"cmderr", "busy"})
    BY <2>1, <2>2, <2>3 DEF Eased, Alike, Fields
  <2>5. (\E status : Fail(status)) /\ diag' = cause'  BY <1>3 DEF Broken, Fail
  <2>6. Steady  BY <1>1, <1>3 DEF Steady
  <2>7. CASE ~dm.auto
    <3>1. Stops(x, A)  BY <1>1, <2>3, <2>4, <2>5, <2>6, <2>7, QuietStops
    <3> QED BY <1>1, <2>3, <3>1
  <2>8. CASE dm.auto
    <3>1. ~Guard(A.s)
      BY <2>8, HoldsKnown DEF Asks, Known, AllSay, Says, ModuleSays
    <3>2. ASSUME NEW g, Fails(family, x, A, g)  PROVE OpenSays(g)'
      <4>1. CASE g \in {Idling, Yes("steady"), Yes("told")}
        BY <2>3, <2>5, <4>1 DEF OpenSays, Yes, Idling, Fine, Told
      <4>2. CASE g \in A.s /\ ReadGives(A, g, TRUE) /\ g[1] # "diag" /\ g # Yes("steady")
        <5>1. g[1] \notin Report \cup {"steady"} \/ g \notin Sayings
          <6>1. g \in {Yes("answer"), Idling} => g \notin Sayings  BY DEF Yes, Idling, Fine, Sayings
          <6>2. g # Fine  BY <4>2 DEF Fine
          <6>3. g[1] = "value" => g[1] \notin Report \cup {"steady"}  BY DEF Report
          <6> QED BY <4>2, <6>1, <6>2, <6>3 DEF ReadGives, Keep
        <5>2. OpenSays(g)  BY <4>2, HoldsKnown DEF AllOpen
        <5> QED BY <1>1, <2>4, <5>1, <5>2, ReadOpen, OtherOpen
      <4> QED BY <3>2, <4>1, <4>2 DEF Fails, Gives, Settling
    <3>3. ASSUME Returns(cmd, x, A.s)  PROVE Calm' /\ (cmd = "resume" => Released')
      <4>1. Yes("calm") \in A.s /\ cmd # "resume"  BY <3>3 DEF Returns
      <4>2. Calm  BY <4>1, HoldsKnown DEF AllOpen, OpenSays, Yes, Fine
      <4> QED BY <1>1, <2>4, <4>1, <4>2 DEF Calm
    <3>4. Stops(x, A)  BY <2>5, <3>1, <3>2, <3>3 DEF Stops, Grants
    <3> QED BY <1>1, <2>3, <3>4
  <2> QED BY <2>7, <2>8
<1> QED BY <1>2, <1>3 DEF StepRead

\* StepReady: the flash is ready only when its erase or its program run is over.
LEMMA ReadyEffect ==
  ASSUME NEW x, NEW A, Holds(A), Asks(family, cmd, x, A), x.do = "ready", Current(x), IsDm(dm),
         UNCHANGED <<family, cmd>>,
         StepReady
  PROVE  IsDm(dm') /\ LostStep(x) /\ (twice => twice') /\ (Goes(x, A) \/ Stops(x, A))
<1>1. UNCHANGED <<mode, value, twice, unchecked, lost>> /\ Steady /\ LostStep(x)
  BY DEF StepReady, marks, Steady, LostStep
<1> DEFINE p == CASE dm.page = "erasing" -> "erased" [] dm.page = "programming" -> "new" [] OTHER -> dm.page
<1>2. CASE dm' = [dm EXCEPT !.page = p] /\ Passed
  <2>1. dm.page = "erasing" => p = "erased"  BY Zenon
  <2>2. dm.page = "programming" => p = "new"  BY Zenon
  <2>3. dm.page \notin {"erasing", "programming"} => p = dm.page  BY Zenon
  <2> HIDE DEF p
  <2>4. IsDm(dm') /\ Alike(dm, dm', {"page"}) /\ dm'.page = p  BY <1>2 DEF IsDm, Alike, Fields
  <2>5. ASSUME NEW sure \in BOOLEAN, NEW g, Gives(family, x, A, g, sure),
               sure \/ dm'.cmderr = "none"
        PROVE Grants(A, g)
    <3>0. dm'.cmderr = dm.cmderr  BY <2>4 DEF Alike, Fields
    <3>1. \A h : h \in From(A, sure) => OpenSays(h) /\ (Guard(A.s) => Says(h))
      BY <2>5, <3>0 DEF From, Holds
    <3>2. CASE Keep(g, From(A, sure), {"page"} \cup Report)
      <4>1. OpenSays(g) /\ (Guard(A.s) => Says(g)) /\ g[1] \notin {"page"} \cup Report
        BY <3>1, <3>2 DEF Keep
      <4>2. OpenSays(g)'
        <5>1. dm'.auto = dm.auto /\ dm'.request = dm.request /\ dm'.busy = dm.busy
          BY <2>4 DEF Alike, Fields
        <5>2. g # Fine /\ g # Yes("told")  BY <4>1 DEF Report, Yes, Fine
        <5> QED BY <1>1, <4>1, <5>1, <5>2 DEF OpenSays, Calm, Released
      <4>3. Changes({"page"}, {})  BY <1>1, <2>4 DEF Changes, Alike, Steady, Fields
      <4>4. CASE g = Yes("kept")
        <5>1. Kept => Kept'  BY <2>1, <2>2, <2>3, <2>4 DEF Kept, Alike, Fields
        <5>2. Says(g) => Kept  BY <4>4 DEF Says, MemorySays
        <5> QED BY <4>1, <4>2, <4>4, <5>1, <5>2, BlockSays DEF Grants, Yes
      <4>5. CASE g # Yes("kept")
        <5>1. Apart(g, {"page"}, {})  BY <4>1, <4>5 DEF Apart, Nameless
        <5> QED BY <4>1, <4>2, <4>3, <5>1, KeepSays DEF Grants
      <4> QED BY <4>4, <4>5
    <3>3. CASE g = Fine
      BY <1>2, <3>3, FineGrants DEF Passed
    <3>4. CASE \/ g = <<"page", "erased">> /\ <<"page", "erasing">> \in From(A, sure)
               \/ g = <<"page", "new">> /\ <<"page", "programming">> \in From(A, sure)
      <4>1. g \notin Sayings /\ g[1] = "page"  BY <3>4 DEF Sayings, Yes, Fine
      <4>2. Guard(A.s) => dm'.page = g[2]
        BY <2>1, <2>2, <2>4, <3>1, <3>4 DEF Says, PortSays
      <4> QED BY <4>1, <4>2, OtherOpen, BlockSays DEF Grants
    <3> QED BY <2>5, <3>2, <3>3, <3>4 DEF Gives
  <2>6. Goes(x, A)  BY <1>2, <2>5 DEF Goes, Passed
  <2> QED BY <1>1, <2>4, <2>6
<1>3. CASE Broken /\ UNCHANGED dm
  <2>2. (\E status : Fail(status)) /\ diag' = cause'  BY <1>3 DEF Fail, Broken
  <2>3. Stops(x, A)  BY <1>1, <1>3, <2>2, SameAlike, QuietStops DEF Settling
  <2> QED BY <1>1, <1>3, <2>3
<1>4. StepReady => \/ dm' = [dm EXCEPT !.page = p] /\ Passed
                   \/ Broken /\ UNCHANGED dm
  BY Zenon DEF StepReady
<1> QED BY <1>2, <1>3, <1>4

-----------------------------------------------------------------------------
(* bytes of the flash port,                                                *)

\* A byte written to the flash command port.
Port4 == {"pcmd", "pn", "page", "stray"}

\* What a byte written to the flash port does to the command it belongs to.
LEMMA ByteWrittenIs ==
  ASSUME NEW d, IsDm(d), NEW reg, NEW v, reg = "control" => v \in {"open", "begin", "end"}, NEW e,
         e = ByteWritten(d, reg, v)
  PROVE  /\ IsDm(e) /\ Alike(d, e, Port4)
         /\ ~(reg = "control" /\ v = "end") => e.page = d.page /\ e.stray = d.stray
         /\ reg = "control" /\ v = "open" => e.pcmd = "none"
         /\ reg = "control" /\ v = "begin" => e.pcmd = "await" /\ e.pn = 0
         /\ reg = "control" /\ v = "end" =>
              /\ e.pcmd = "none"
              /\ e.page = IF d.pcmd = "erase" /\ d.pn = 3 THEN "erasing"
                          ELSE IF d.pcmd = "program" /\ d.page = "filled" THEN "programming"
                            ELSE d.page
              /\ e.stray = (d.stray \/ (d.pcmd = "erase" /\ d.pn > 3))
         /\ reg # "control" =>
              IF d.pcmd = "await" THEN e.pcmd = v /\ e.pn = d.pn
              ELSE e.pcmd = d.pcmd /\ e.pn = IF d.pn < 4 THEN d.pn + 1 ELSE 4
<1>1. CASE reg = "control" /\ v = "open"
  <2>1. e = [d EXCEPT !.pcmd = "none"]  BY <1>1, Zenon DEF ByteWritten, ControlByte
  <2> QED BY <1>1, <2>1 DEF IsDm, Alike, Fields, Port4
<1>2. CASE reg = "control" /\ v = "begin"
  <2>1. e = [d EXCEPT !.pcmd = "await", !.pn = 0]  BY <1>2, Zenon DEF ByteWritten, ControlByte
  <2> QED BY <1>2, <2>1 DEF IsDm, Alike, Fields, Port4
<1>3. CASE reg = "control" /\ v = "end"
  <2> DEFINE p == IF d.pcmd = "erase" /\ d.pn = 3 THEN "erasing"
                          ELSE IF d.pcmd = "program" /\ d.page = "filled" THEN "programming"
                            ELSE d.page
             q == d.stray \/ (d.pcmd = "erase" /\ d.pn > 3)
             d1 == [d EXCEPT !.pcmd = "none"]
             d2 == [d1 EXCEPT !.page = p]
  <2>1. d1.page = d.page /\ d1.stray = d.stray /\ IsDm(d1) /\ Alike(d, d1, Port4) /\
          d1.pcmd = "none"
    BY DEF IsDm, Alike, Fields, Port4
  <2>2. e = [d EXCEPT !.pcmd = "none",
                !.page = IF d.pcmd = "erase" /\ d.pn = 3 THEN "erasing"
                               ELSE IF d.pcmd = "program" /\ d.page = "filled" THEN "programming"
                               ELSE @,
                      !.stray = @ \/ (d.pcmd = "erase" /\ d.pn > 3)]
    BY <1>3, Zenon DEF ByteWritten, ControlByte
  <2>3. e = [d2 EXCEPT !.stray = d2.stray \/ (d.pcmd = "erase" /\ d.pn > 3)]
    BY <2>1, <2>2
  <2> HIDE DEF d1, p
  <2>4. IsDm(d2) /\ Alike(d1, d2, Port4) /\ d2.pcmd = "none" /\ d2.stray = d1.stray /\ d2.page = p
    BY <2>1 DEF IsDm, Alike, Fields, Port4
  <2> HIDE DEF d2
  <2>5. IsDm(e) /\ Alike(d2, e, Port4) /\ e.pcmd = "none" /\ e.page = p /\ e.stray = q
    BY <2>1, <2>3, <2>4 DEF IsDm, Alike, Fields, Port4
  <2>6. Alike(d, e, Port4)  BY <2>1, <2>4, <2>5 DEF Alike
  <2> QED BY <1>3, <2>5, <2>6 DEF p
<1>4. CASE reg # "control"
  <2>1. e = IF d.pcmd = "await" THEN [d EXCEPT !.pcmd = v]
          ELSE [d EXCEPT !.pn = IF d.pn < 4 THEN d.pn + 1 ELSE 4]
    BY <1>4 DEF ByteWritten, DataByte
  <2> QED BY <1>4, <2>1 DEF IsDm, Alike, Fields, Port4
<1> QED BY <1>1, <1>2, <1>3, <1>4

\* The preparation of the program buffer for a byte access.
LEMMA PreparedIs ==
  ASSUME IsDm(dm), NEW rw, NEW e, e = PrepareByte(rw)
  PROVE  /\ IsDm(e) /\ Alike(dm, e, {"regs", "cmderr", "prog"})
         /\ \A r \in Regs \ {"x13"} : e.regs[r] = dm.regs[r]
         /\ mode = rw => e = dm
         /\ mode # rw => e.prog = rw
<1>1. CASE mode = rw
  BY <1>1 DEF PrepareByte, Alike
<1>2. CASE mode # rw
  <2> DEFINE d1 == [dm EXCEPT !.regs["x13"] = "&debug"]
  <2>1. IsDm(d1) /\ Alike(dm, d1, {"regs"}) /\ \A r \in Regs \ {"x13"} : d1.regs[r] = dm.regs[r]
    BY DEF IsDm, Alike, Fields
  <2>2. e = [d1 EXCEPT !.cmderr = "none", !.prog = rw]  BY <1>2 DEF PrepareByte
  <2> HIDE DEF d1
  <2> QED BY <1>2, <2>1, <2>2 DEF IsDm, Alike, Fields
<1> QED BY <1>1, <1>2

\* What a byte access may change.
Byted == {"regs", "cmderr", "prog"} \cup Port4
\* What a byte access may change.
ByteFrame(d, e) ==
  /\ IsDm(e) /\ Alike(d, e, Byted) /\ \A r \in Regs \ {"x11", "x13"} : e.regs[r] = d.regs[r]

\* A byte access reaches the port only with the write program in the buffer and no error.
LEMMA ByteDoneIs ==
  ASSUME NEW d, IsDm(d), NEW rw, NEW v,
         rw = "write8" /\ step.reg = "control" => v \in {"open", "begin", "end"},
         NEW e, e = ByteDone(d, rw, v)
  PROVE  /\ ByteFrame(d, e) /\ e.prog = d.prog /\ e.cmderr = d.cmderr
         /\ IF d.cmderr = "none" /\ d.prog = "write8" /\ rw = "write8"
              THEN e = ByteWritten(d, step.reg, v)
            ELSE Alike(d, e, {"regs"})
<1>1. CASE d.cmderr = "none" /\ d.prog = "write8" /\ rw = "write8"
  <2>1. e = ByteWritten(d, step.reg, v)  BY <1>1 DEF ByteDone
  <2>2. IsDm(e) /\ Alike(d, e, Port4)  BY <1>1, <2>1, ByteWrittenIs
  <2> QED BY <1>1, <2>1, <2>2 DEF ByteFrame, Alike, Fields, Byted, Port4
<1>2. CASE ~(d.cmderr = "none" /\ d.prog = "write8" /\ rw = "write8") /\ d.cmderr = "none" /\
             d.prog = "code"
  <2>1. e = [d EXCEPT !.regs["x11"] = step.reg]  BY <1>2 DEF ByteDone
  <2> QED BY <1>2, <2>1 DEF ByteFrame, IsDm, Alike, Fields, Byted, Port4
<1>3. CASE ~(d.cmderr = "none" /\ d.prog = "write8" /\ rw = "write8") /\
             ~(d.cmderr = "none" /\ d.prog = "code")
  <2>1. e = d  BY <1>3 DEF ByteDone
  <2> QED BY <1>3, <2>1 DEF ByteFrame, Alike
<1> QED BY <1>1, <1>2, <1>3

\* The two halves of a byte access.
LEMMA ByteIs ==
  ASSUME IsDm(dm), NEW b, NEW S, ByteAsks(b, step.reg, S),
         NEW ready, ready = PrepareByte(b.rw), NEW after, after = ByteDone(ready, b.rw, b.val)
  PROVE  /\ ByteFrame(dm, ready) /\ ByteFrame(dm, after) /\
              Alike(dm, ready, {"regs", "cmderr", "prog"})
         /\ mode # b.rw => after.prog = b.rw
         /\ mode = b.rw => after.prog = dm.prog
         /\ AllSay(S) /\ Unreached(b, S) => Alike(dm, after, {"regs", "cmderr", "prog"})
         /\ AllSay(S) /\ Reached(b, S) =>
              IF ready.cmderr = "none" THEN after = ByteWritten(ready, step.reg, b.val)
              ELSE Alike(dm, after, {"regs", "cmderr", "prog"})
<1>1. /\ IsDm(ready) /\ Alike(dm, ready, {"regs", "cmderr", "prog"})
      /\ \A r \in Regs \ {"x13"} : ready.regs[r] = dm.regs[r]
      /\ mode = b.rw => ready = dm
      /\ mode # b.rw => ready.prog = b.rw
  BY PreparedIs
<1>2. b.rw = "write8" /\ step.reg = "control" => b.val \in {"open", "begin", "end"}
  BY DEF ByteAsks
<1>3. /\ ByteFrame(ready, after) /\ after.prog = ready.prog /\ after.cmderr = ready.cmderr
      /\ IF ready.cmderr = "none" /\ ready.prog = "write8" /\ b.rw = "write8"
           THEN after = ByteWritten(ready, step.reg, b.val)
         ELSE Alike(ready, after, {"regs"})
  BY <1>1, <1>2, ByteDoneIs
<1>4. ByteFrame(dm, ready)  BY <1>1 DEF ByteFrame, Alike, Byted
<1>5. ByteFrame(dm, after)  BY <1>3, <1>4 DEF ByteFrame, Alike
<1>6. Alike(ready, after, {"regs"}) => Alike(dm, after, {"regs", "cmderr", "prog"})
  BY <1>1 DEF Alike
<1>7. ASSUME AllSay(S), Unreached(b, S)  PROVE ~(ready.prog = "write8" /\ b.rw = "write8")
  <2>1. <<"prog", "code">> \in S => dm.prog = "code"  BY <1>7 DEF AllSay, Says, ModuleSays
  <2>2. <<"mode", "write8">> \in S => mode = "write8"  BY <1>7 DEF AllSay, Says, LocalSays
  <2> QED BY <1>1, <1>7, <2>1, <2>2 DEF Unreached
<1>8. ASSUME AllSay(S), Reached(b, S)  PROVE ready.prog = "write8" /\ b.rw = "write8"
  <2>1. mode = "none" \/ mode = dm.prog  BY <1>8 DEF AllSay, Says, LocalSays, Reached
  <2> QED BY <1>1, <1>8, <2>1 DEF Reached
<1> QED BY <1>1, <1>3, <1>4, <1>5, <1>6, <1>7, <1>8

\* What the facts say of the command port before the byte, and what one byte
\* makes of it.
LEMMA PortSaysNow ==
  ASSUME NEW S, AllSay(S)
  PROVE  /\ \A v : <<"port", v>> \in S => dm.pcmd = v
         /\ \A n : <<"pn", n>> \in S => dm.pn = n
         /\ \A v : <<"page", v>> \in S => dm.page = v
         /\ Yes("closed") \in S => dm.pcmd \notin {"erase", "program"}
         /\ Yes("kept") \in S => Kept
BY DEF AllSay, Says, PortSays, MemorySays, Yes

\* No byte disturbs the neighbours, wherever the access ends.
LEMMA ByteKept ==
  ASSUME IsDm(dm), NEW b, NEW S, ByteAsks(b, step.reg, S), AllSay(S), Yes("kept") \in S,
         NEW ready, ready = PrepareByte(b.rw), NEW after, after = ByteDone(ready, b.rw, b.val),
         dm' \in {dm, ready, after}
  PROVE  Kept'
<1>1. /\ IsDm(ready) /\ Alike(dm, ready, {"regs", "cmderr", "prog"})
      /\ Unreached(b, S) => Alike(dm, after, {"regs", "cmderr", "prog"})
      /\ Reached(b, S) =>
              IF ready.cmderr = "none" THEN after = ByteWritten(ready, step.reg, b.val)
              ELSE Alike(dm, after, {"regs", "cmderr", "prog"})
  BY ByteIs DEF ByteFrame
<1>2. Kept  BY PortSaysNow
<1>3. CASE dm' = dm \/ Alike(dm, dm', {"regs", "cmderr", "prog"})
  BY <1>2, <1>3 DEF Kept, Alike, Fields
<1>4. CASE dm' = ByteWritten(ready, step.reg, b.val) /\ Reached(b, S)
  <2>1. step.reg = "control" => b.val \in {"open", "begin", "end"}
    BY <1>4 DEF ByteAsks, Reached
  <2>2. ready.mem = dm.mem /\ ready.page = dm.page /\ ready.stray = dm.stray /\
          ready.pcmd = dm.pcmd /\ ready.pn = dm.pn
    BY <1>1 DEF Alike, Fields
  <2>3. /\ Alike(ready, dm', Port4)
        /\ ~(step.reg = "control" /\ b.val = "end")
             => dm'.page = ready.page /\ dm'.stray = ready.stray
        /\ step.reg = "control" /\ b.val = "end" =>
              /\ dm'.page = IF ready.pcmd = "erase" /\ ready.pn = 3 THEN "erasing"
                          ELSE IF ready.pcmd = "program" /\ ready.page = "filled"
                            THEN "programming" ELSE ready.page
              /\ dm'.stray = (ready.stray \/ (ready.pcmd = "erase" /\ ready.pn > 3))
    BY <1>1, <1>4, <2>1, ByteWrittenIs
  <2>4. step.reg = "control" /\ b.val = "end" => ~(dm.pcmd = "erase" /\ dm.pn > 3)
    <3>1. ~Unreached(b, S)  BY <1>4 DEF Reached, Unreached
    <3>2. step.reg = "control" /\ b.val = "end" =>
            Yes("closed") \in S \/ (<<"port", "erase">> \in S /\ <<"pn", 3>> \in S) \/
              <<"port", "program">> \in S
      BY <3>1 DEF ByteAsks
    <3> QED BY <3>2, PortSaysNow
  <2>5. dm'.mem = dm.mem  BY <2>2, <2>3 DEF Alike, Fields, Port4
  <2> QED BY <1>2, <2>2, <2>3, <2>4, <2>5 DEF Kept
<1>5. Unreached(b, S) \/ Reached(b, S)  BY DEF ByteAsks
<1> QED BY <1>1, <1>3, <1>4, <1>5

\* What a byte that went through leaves.
LEMMA ByteSays ==
  ASSUME IsDm(dm), NEW b, NEW S, ByteAsks(b, step.reg, S), AllSay(S),
         NEW g, ByteGives(b, step.reg, S, g), UNCHANGED <<family, value, unchecked>>,
         ~dm.busy, dm.hart = "halted", mode' = b.rw,
         NEW ready, ready = PrepareByte(b.rw), ready.cmderr = "none",
         dm' = ByteDone(ready, b.rw, b.val)
  PROVE  Says(g)'
<1> DEFINE after == ByteDone(ready, b.rw, b.val)
<1>0. dm' = after  OBVIOUS
<1> HIDE DEF after
<1>1. /\ IsDm(ready) /\ ByteFrame(dm, dm') /\ Alike(dm, ready, {"regs", "cmderr", "prog"})
      /\ mode # b.rw => dm'.prog = b.rw
      /\ mode = b.rw => dm'.prog = dm.prog
      /\ Unreached(b, S) => Alike(dm, dm', {"regs", "cmderr", "prog"})
      /\ Reached(b, S) => dm' = ByteWritten(ready, step.reg, b.val)
  BY <1>0, ByteIs DEF ByteFrame, after
<1>2. /\ ~dm'.busy /\ dm'.hart = "halted"
      /\ Changes({"cmderr", "prog", "mode"} \cup Port4, {"x11", "x13"})
  BY <1>1 DEF ByteFrame, Alike, Fields, Changes, Byted, Port4
<1>3. CASE g[1] \in {"diag", "steady"}
  BY <1>3, OwnSays
<1>4. CASE Keep(g, S, ByteThings \cup PortThings \cup Report)
  <2>1. Says(g) /\ g[1] \notin ByteThings \cup PortThings  BY <1>4 DEF Keep, AllSay
  <2>2. CASE g = Yes("kept")
    <3>1. Yes("kept") \in S  BY <1>4, <2>2 DEF Keep
    <3>2. Kept'  BY <1>0, <3>1, ByteKept DEF after
    <3> QED BY <2>2, <3>2, BlockSays DEF Yes
  <2>3. CASE g # Yes("kept")
    <3>1. Apart(g, {"cmderr", "prog", "mode"} \cup Port4, {"x11", "x13"})
      BY <2>1, <2>3 DEF Apart, Nameless, Byted, Port4, ByteThings, PortThings, Blocks, Regs
    <3> QED BY <1>2, <2>1, <3>1, KeepSays
  <2> QED BY <2>2, <2>3
<1>5. CASE g \in {Idling, Yes("halted")}
  BY <1>2, <1>5, BusySays, HaltSays DEF Idling, Yes
<1>6. CASE Unreached(b, S) /\ g[1] \in PortThings /\ g \in S
  <2>1. Says(g)  BY <1>6 DEF AllSay
  <2>2. dm'.pcmd = dm.pcmd /\ dm'.pn = dm.pn /\ dm'.page = dm.page
    BY <1>1, <1>6 DEF Alike, Fields
  <2>3. g[1] = "closed" => g = Yes("closed") \/ Says(g)'
    BY DEF Says, ModuleSays, RegisterSays, HartSays, MemorySays, PortSays, LocalSays, Yes, Idling,
       Mute, Arguments4, Blocks
  <2> QED BY <1>6, <2>1, <2>2, <2>3, BlockSays DEF PortThings, Says, PortSays
<1>7. CASE Reached(b, S) /\ Port(step.reg, b.val, S, g)
  <2>1. step.reg = "control" => b.val \in {"open", "begin", "end"}
    BY <1>7 DEF ByteAsks, Reached
  <2>2. ready.page = dm.page /\ ready.stray = dm.stray /\ ready.pcmd = dm.pcmd /\ ready.pn = dm.pn
    BY <1>1 DEF Alike, Fields
  <2>3. /\ ~(step.reg = "control" /\ b.val = "end") => dm'.page = dm.page
        /\ step.reg = "control" /\ b.val = "open" => dm'.pcmd = "none"
        /\ step.reg = "control" /\ b.val = "begin" => dm'.pcmd = "await" /\ dm'.pn = 0
        /\ step.reg = "control" /\ b.val = "end" =>
              /\ dm'.pcmd = "none"
              /\ dm'.page = IF dm.pcmd = "erase" /\ dm.pn = 3 THEN "erasing"
                          ELSE IF dm.pcmd = "program" /\ dm.page = "filled" THEN "programming"
                            ELSE dm.page
        /\ step.reg # "control" =>
              IF dm.pcmd = "await" THEN dm'.pcmd = b.val /\ dm'.pn = dm.pn
              ELSE dm'.pcmd = dm.pcmd /\ dm'.pn = IF dm.pn < 4 THEN dm.pn + 1 ELSE 4
    BY <1>1, <1>7, <2>1, <2>2, ByteWrittenIs
  <2>4. g[1] = "page" /\ g \in S => dm.page = g[2]  BY DEF AllSay, Says, PortSays
  <2>5. g[1] = "pn" /\ g \in S => dm.pn = g[2]  BY DEF AllSay, Says, PortSays
  <2>6. CASE step.reg = "control" /\ b.val = "end"
    <3>1. Yes("closed") \in S => dm'.page = dm.page  BY <2>3, <2>6, PortSaysNow
    <3>2. g = <<"page", "erasing">> /\ <<"port", "erase">> \in S /\ <<"pn", 3>> \in S
            => dm'.page = "erasing"
      BY <2>3, <2>6, PortSaysNow
    <3>3. g = <<"page", "programming">> /\ <<"port", "program">> \in S /\
            <<"page", "filled">> \in S => dm'.page = "programming"
      BY <2>3, <2>6, PortSaysNow
    <3>4. \/ g \in {<<"port", "none">>, Yes("closed")}
          \/ g[1] = "page" /\ g \in S /\ Yes("closed") \in S
          \/ g = <<"page", "erasing">> /\ <<"port", "erase">> \in S /\ <<"pn", 3>> \in S
          \/ g = <<"page", "programming">> /\ <<"port", "program">> \in S /\
               <<"page", "filled">> \in S
      BY <1>7, <2>6 DEF Port
    <3> QED BY <2>3, <2>4, <2>6, <3>1, <3>2, <3>3, <3>4, BlockSays DEF Yes
  <2>7. CASE step.reg = "control" /\ b.val \in {"open", "begin"}
    <3>1. \/ b.val = "open" /\ g \in {<<"port", "none">>, Yes("closed")}
          \/ b.val = "begin" /\ g \in {<<"port", "await">>, <<"pn", 0>>, Yes("closed")}
          \/ g[1] = "page" /\ g \in S
      BY <1>7, <2>7 DEF Port
    <3> QED BY <2>3, <2>4, <2>7, <3>1, BlockSays DEF Yes
  <2>8. CASE step.reg = "data"
    <3>1. \/ g[1] = "page" /\ g \in S
          \/ <<"port", "await">> \in S /\ (g = <<"port", b.val>> \/ (g[1] = "pn" /\ g \in S)
                                            \/ (g = Yes("closed") /\
                                                b.val \notin {"erase", "program"}))
          \/ \E c \in {"erase", "program"} : <<"port", c>> \in S
               /\ (g = <<"port", c>> \/ \E n \in 0..2 : g = <<"pn", n + 1>> /\ <<"pn", n>> \in S)
      BY <1>7, <2>8 DEF Port
    <3>2. CASE g[1] = "page" /\ g \in S
      BY <2>3, <2>4, <2>8, <3>2, BlockSays
    <3>3. CASE <<"port", "await">> \in S /\ (g = <<"port", b.val>> \/ (g[1] = "pn" /\ g \in S)
                                            \/ (g = Yes("closed") /\
                                                b.val \notin {"erase", "program"}))
      <4>1. dm.pcmd = "await"  BY <3>3, PortSaysNow
      <4> QED BY <2>3, <2>5, <2>8, <3>3, <4>1, BlockSays DEF Yes
    <3>4. ASSUME NEW c \in {"erase", "program"}, <<"port", c>> \in S,
                 g = <<"port", c>> \/ \E n \in 0..2 : g = <<"pn", n + 1>> /\ <<"pn", n>> \in S
          PROVE  Says(g)'
      <4>1. dm.pcmd = c  BY <3>4, PortSaysNow
      <4>2. dm'.pcmd = c /\ dm'.pn = IF dm.pn < 4 THEN dm.pn + 1 ELSE 4
        BY <2>3, <2>8, <3>4, <4>1
      <4>3. CASE g = <<"port", c>>
        BY <4>2, <4>3, BlockSays
      <4>4. ASSUME NEW n \in 0..2, g = <<"pn", n + 1>>, <<"pn", n>> \in S  PROVE Says(g)'
        <5>1. dm.pn = n  BY <4>4, PortSaysNow
        <5>2. dm'.pn = n + 1  BY <4>2, <5>1
        <5> QED BY <4>4, <5>2, BlockSays
      <4> QED BY <3>4, <4>3, <4>4
    <3> QED BY <3>1, <3>2, <3>3, <3>4
  <2> QED BY <1>7, <2>1, <2>6, <2>7, <2>8 DEF Port
<1>8. CASE g = <<"mode", b.rw>>
  BY <1>8, OwnSays
<1>9. CASE g = Yes("sync") /\
             (Yes("sync") \in S \/ \E m \in {"none", "read8", "write8"} : m # b.rw /\
              <<"mode", m>> \in S)
  <2>1. Yes("sync") \in S => mode = "none" \/ mode = dm.prog  BY DEF AllSay, Says, LocalSays
  <2>2. \A m : <<"mode", m>> \in S => mode = m  BY DEF AllSay, Says, LocalSays
  <2>3. mode' = "none" \/ mode' = dm'.prog
    BY <1>1, <1>9, <2>1, <2>2
  <2> QED BY <1>9, <2>3, OwnSays DEF Yes
<1>10. CASE g = <<"prog", "code">> /\ b.rw = "write8" /\ <<"prog", "code">> \in S /\
              <<"mode", "write8">> \in S
  <2>1. dm.prog = "code"  BY <1>10 DEF AllSay, Says, ModuleSays
  <2>2. mode = "write8"  BY <1>10 DEF AllSay, Says, LocalSays
  <2> QED BY <1>1, <1>10, <2>1, <2>2, DataSays
<1> QED BY <1>3, <1>4, <1>5, <1>6, <1>7, <1>8, <1>9, <1>10 DEF ByteGives, Fine, Yes

\* StepByte: one byte access of rvswd_flash_ch58x_59x.c, done once or twice or given up.
LEMMA ByteEffect ==
  ASSUME NEW x, NEW A, Holds(A), Asks(family, cmd, x, A), x.do = "byte", Current(x), IsDm(dm),
         UNCHANGED <<family, cmd>>,
         StepByte
  PROVE  IsDm(dm') /\ LostStep(x) /\ (twice => twice') /\ (Goes(x, A) \/ Stops(x, A))
<1> DEFINE b == x.val
           ready == PrepareByte(b.rw)
           after == ByteDone(ready, b.rw, b.val)
<1>1. /\ ByteAsks(b, step.reg, A.s) /\ Yes("kept") \in A.s /\ x.fail = "return" /\ step.reg = x.reg
  BY DEF Asks, Current
<1>2. /\ ~dm.busy /\ UNCHANGED <<value, unchecked, lost>> /\ mode' = b.rw
      /\ \/ /\ dm.hart = "halted" /\ ready.cmderr = "none" /\ dm' = after /\ Passed
            /\ UNCHANGED <<faults, twice>>
         \/ /\ dm' = ready /\ Refused
            /\ UNCHANGED <<faults, twice>>
         \/ /\ b.rw = "write8" /\ dm' = ByteDone(after, b.rw, b.val)
            /\ twice' = TRUE /\ Break /\ Passed
         \/ dm' \in {dm, ready, after} /\ Broken /\ UNCHANGED twice
  BY DEF StepByte, Current
<1>3. ByteFrame(dm, ready) /\ ByteFrame(dm, after)
  BY <1>1, ByteIs
<1>4. b.rw = "write8" /\ step.reg = "control" => b.val \in {"open", "begin", "end"}
  BY <1>1 DEF ByteAsks
<1>5. ByteFrame(after, ByteDone(after, b.rw, b.val))
  BY <1>3, <1>4, ByteDoneIs DEF ByteFrame
<1>6. ByteFrame(dm, ByteDone(after, b.rw, b.val))
  BY <1>3, <1>5 DEF ByteFrame, Alike
<1>7. ByteFrame(dm, dm)
  BY DEF ByteFrame, Alike
<1>8. Guard(A.s) => AllSay(A.s)  BY HoldsKnown DEF Known
<1> HIDE DEF b, ready, after
<1>9. ByteFrame(dm, dm')  BY <1>2, <1>3, <1>6, <1>7
<1>10. IsDm(dm') /\ dm'.auto = dm.auto /\ dm'.busy = dm.busy /\ dm'.request = dm.request
  BY <1>9 DEF ByteFrame, Alike, Fields, Byted, Port4
<1>11. LostStep(x)  BY <1>2 DEF LostStep
<1>12. ASSUME NEW g, ByteGives(b, x.reg, A.s, g), diag' = "ok"  PROVE OpenSays(g)'
  <2>1. CASE g = Fine \/ g \in {Idling, Yes("steady"), Yes("halted")} \/
               g[1] \in {"mode", "sync", "prog"}
    BY <1>2, <1>10, <1>12, <2>1 DEF OpenSays, Fine, Yes, Idling
  <2>2. CASE g \in A.s /\ g[1] \notin Report
    <3>1. OpenSays(g)  BY <2>2, HoldsKnown DEF AllOpen
    <3>2. g # Fine /\ g # Yes("told")  BY <2>2 DEF Report, Yes, Fine
    <3> QED BY <1>2, <1>10, <3>1, <3>2 DEF OpenSays, Calm, Released
  <2>3. CASE g[1] \in PortThings
    <3>1. g \notin Sayings  BY <2>3 DEF PortThings, Sayings, Yes, Fine
    <3> QED BY <3>1, OtherOpen
  <2>4. Port(x.reg, b.val, A.s, g) => g[1] \in PortThings
    BY DEF Port, PortThings, Yes
  <2> QED BY <1>12, <2>1, <2>2, <2>3, <2>4 DEF ByteGives, Keep, Yes
<1>13. CASE dm.hart = "halted" /\ ready.cmderr = "none" /\ dm' = after /\ Passed /\ twice' = twice
  <2>1. ASSUME NEW g, ByteGives(b, x.reg, A.s, g), Guard(A.s)  PROVE Says(g)'
    <3>1. AllSay(A.s) /\ ByteGives(b, step.reg, A.s, g)  BY <1>1, <1>8, <2>1
    <3> QED BY <1>1, <1>2, <1>13, <2>1, <3>1, ByteSays DEF ready, after
  <2>2. \A g, sure : Gives(family, x, A, g, sure) => ByteGives(b, x.reg, A.s, g)
    BY DEF Gives, b
  <2>3. Goes(x, A)  BY <1>12, <1>13, <2>1, <2>2 DEF Goes, Grants, Passed
  <2> QED BY <1>10, <1>11, <1>13, <2>3
<1>14. CASE twice' = TRUE /\ Passed
  <2>2. \A g, sure : Gives(family, x, A, g, sure) => ByteGives(b, x.reg, A.s, g)
    BY DEF Gives, b
  <2>3. Goes(x, A)  BY <1>12, <1>14, <2>2 DEF Goes, Grants, Passed
  <2> QED BY <1>10, <1>11, <1>14, <2>3
<1>15. CASE dm' \in {dm, ready, after} /\ (Broken \/ Refused) /\ twice' = twice
  <2>1. (\E status : Fail(status)) /\ diag' = cause'  BY <1>15 DEF Broken, Refused, Fail
  <2>2. Guard(A.s) => Kept'
    BY <1>1, <1>8, <1>15, ByteKept DEF ready, after
  <2>3. ASSUME Returns(cmd, x, A.s)  PROVE Calm' /\ (cmd = "resume" => Released')
    <3>1. Yes("calm") \in A.s /\ cmd # "resume"  BY <2>3 DEF Returns
    <3>2. Calm  BY <3>1, HoldsKnown DEF AllOpen, OpenSays, Yes, Fine
    <3> QED BY <1>2, <1>10, <3>1, <3>2 DEF Calm
  <2>4. Stops(x, A)  BY <1>1, <2>1, <2>2, <2>3 DEF Stops
  <2> QED BY <1>10, <1>11, <1>15, <2>4
<1> QED BY <1>2, <1>13, <1>14, <1>15

-----------------------------------------------------------------------------
(* clean-ups and local steps.                                              *)

\* The report is what it was.
LEMMA ReportGrants ==
  ASSUME NEW A, NEW g, OpenSays(g), g[1] \in Report, UNCHANGED <<diag, cause>>
  PROVE  Grants(A, g)
<1>1. g \notin {Yes("steady"), Yes("off"), Yes("calm"), Yes("released")}  BY DEF Report, Yes
<1>2. OpenSays(g)'  BY <1>1 DEF OpenSays, Told
<1> QED BY <1>2, OwnSays DEF Grants, Report

\* StepClean of ABSTRACTAUTO: autoexec is off, or the write that was to switch it off is on record.
LEMMA CleanAuto ==
  ASSUME NEW x, NEW A, Holds(A), Asks(family, cmd, x, A), x.do = "clean", Current(x), IsDm(dm),
         UNCHANGED <<family, cmd>>,
         StepClean, x.reg = "ABSTRACTAUTO"
  PROVE  IsDm(dm') /\ LostStep(x) /\ (twice => twice') /\ Goes(x, A)
<1>1. x.val = "off" /\ Yes("steady") \in A.s  BY DEF Asks
<1>2. ~dm.busy  BY <1>1, HoldsKnown DEF AllOpen, OpenSays, Yes, Fine
<1>3. Next1 /\ UNCHANGED <<mode, value, diag, cause, twice, unchecked>>
  BY DEF StepClean
<1>4. /\ IsDm(dm') /\ Alike(dm, dm', {"auto", "busy"}) /\ ~dm'.busy /\ (~dm.auto => ~dm'.auto)
      /\ Calm' /\ lost \ {"autoexec"} \subseteq lost'
  <2>1. CASE dm' = DmiWrite(dm, x.reg, x.val) /\ Arrived
    <3>1. dm' = [dm EXCEPT !.auto = (x.val = "on")]  BY <1>2, <2>1, AutoIs
    <3> QED BY <1>1, <1>2, <2>1, <3>1 DEF IsDm, Alike, Fields, Calm, Arrived
  <2>2. CASE dm' = Settled(dm) /\ lost' = lost \cup LostOff
    <3>1. IsDm(dm') /\ Eased(dm, dm') /\ ~dm'.busy  BY <2>2, SettledIs
    <3>2. LostOff = {"autoexec"}  BY <1>1 DEF LostOff, Current
    <3> QED BY <2>2, <3>1, <3>2 DEF Eased, Alike, Fields, Calm
  <2> QED BY <2>1, <2>2 DEF StepClean, Current
<1>5. ASSUME NEW g,
             Keep(g, A.s, {"calm", "auto"}) \/ (g = Yes("calm") /\ Yes("steady") \in A.s)
      PROVE Grants(A, g)
  <2>1. CASE g = Yes("calm")
    BY <1>4, <2>1, OwnSays DEF Grants, OpenSays, Yes, Fine
  <2>2. CASE Keep(g, A.s, {"calm", "auto"})
    <3>1. OpenSays(g) /\ (Guard(A.s) => Says(g))  BY <2>2 DEF Holds, Keep
    <3>2. CASE g[1] \in Report
      BY <1>3, <3>1, <3>2, ReportGrants
    <3>3. CASE g[1] \notin Report
      <4>1. OpenSays(g)'
        <5>1. g \notin {Fine, Yes("told"), Yes("calm")}  BY <2>2, <3>3 DEF Report, Yes, Fine, Keep
        <5>2. dm'.request = dm.request  BY <1>4 DEF Alike, Fields
        <5> QED BY <1>4, <3>1, <5>1, <5>2 DEF OpenSays, Released
      <4>2. Changes({"auto"} \cup {"cmderr", "busy"}, {}) /\ (~dm.busy => ~dm'.busy)
        BY <1>3, <1>4 DEF Changes, Alike, Fields
      <4>3. Apart(g, {"auto"}, {})  BY <2>2 DEF Apart, Keep, Nameless, Blocks, Yes
      <4> QED BY <3>1, <4>1, <4>2, <4>3, KeepSimple DEF Grants
    <3> QED BY <3>2, <3>3
  <2> QED BY <1>5, <2>1, <2>2
<1>6. Goes(x, A)  BY <1>3, <1>5 DEF Goes, Gives
<1> QED BY <1>3, <1>4, <1>6 DEF LostStep

\* StepClean of ABSTRACTCS: the error is cleared or not; nothing else is touched.
LEMMA CleanClear ==
  ASSUME NEW x, NEW A, Holds(A), Asks(family, cmd, x, A), x.do = "clean", Current(x), IsDm(dm),
         UNCHANGED <<family, cmd>>,
         StepClean, x.reg = "ABSTRACTCS"
  PROVE  IsDm(dm') /\ LostStep(x) /\ (twice => twice') /\ Goes(x, A)
<1>3. Next1 /\ UNCHANGED <<mode, value, diag, cause, twice, unchecked>>
  BY DEF StepClean
<1>4. IsDm(dm') /\ Alike(dm, dm', {"cmderr", "busy"}) /\ (~dm.busy => ~dm'.busy) /\
        lost \subseteq lost'
  <2>1. CASE dm' = DmiWrite(dm, x.reg, x.val) /\ Arrived
    <3>1. CASE dm.busy
      <4>1. dm' = Raise(dm, "busy")  BY <2>1, <3>1, ClearIs
      <4> QED BY <2>1, <3>1, <4>1, RaiseIs DEF Alike, Arrived, Current
    <3>2. CASE ~dm.busy
      <4>1. dm' = [dm EXCEPT !.cmderr = "none"]  BY <2>1, <3>2, ClearIs
      <4> QED BY <2>1, <3>2, <4>1 DEF Alike, Arrived, Current, IsDm, Fields
    <3> QED BY <3>1, <3>2
  <2>2. CASE dm' = Settled(dm) /\ lost' = lost \cup LostOff
    BY <2>2, SettledIs DEF Eased, Alike
  <2> QED BY <2>1, <2>2 DEF StepClean, Current
<1>5. ASSUME NEW g, g \in A.s  PROVE Grants(A, g)
  <2>1. CASE g[1] \in Report
    BY <1>3, <1>5, <2>1, ReportGrants DEF Holds
  <2>2. CASE g[1] \notin Report
    BY <1>3, <1>4, <1>5, <2>2, KeepGrants DEF Steady
  <2> QED BY <2>1, <2>2
<1>6. Goes(x, A)  BY <1>3, <1>5 DEF Goes, Gives
<1> QED BY <1>3, <1>4, <1>6 DEF LostStep

\* StepClean of DMCONTROL: the request is taken back, or the write that was to do so is on record.
LEMMA CleanControl ==
  ASSUME NEW x, NEW A, Holds(A), Asks(family, cmd, x, A), x.do = "clean", Current(x), IsDm(dm),
         UNCHANGED <<family, cmd>>,
         StepClean, x.reg = "CONTROL"
  PROVE  IsDm(dm') /\ LostStep(x) /\ (twice => twice') /\ Goes(x, A)
<1>1. x.val = "idle"  BY DEF Asks
<1>3. Next1 /\ UNCHANGED <<mode, value, diag, cause, twice, unchecked>>
  BY DEF StepClean
<1>4. /\ IsDm(dm') /\ Alike(dm, dm', {"request", "hart", "regs", "busy"}) /\ (~dm.busy => ~dm'.busy)
      /\ \A r \in Regs \ {"dpc"} : dm'.regs[r] = dm.regs[r]
      /\ Released' /\ lost \subseteq lost'
  <2>1. CASE dm' = DmiWrite(dm, x.reg, x.val) /\ Arrived
    <3>1. ControlDone(dm, dm', "idle")  BY <1>1, <2>1, EasedSelf, ControlIsDone
    <3>2. IsDm(dm')  BY <1>1, <2>1, OpensWrite DEF Registers
    <3> QED BY <2>1, <3>1, <3>2 DEF ControlDone, Released, Arrived, Current
  <2>2. CASE dm' = Settled(dm) /\ lost' = lost \cup LostOff
    <3>1. IsDm(dm') /\ Eased(dm, dm') /\ ~dm'.busy  BY <2>2, SettledIs
    <3>2. LostOff = {"request"}  BY <1>1 DEF LostOff, Current
    <3>3. dm'.regs = dm.regs  BY <3>1 DEF Eased, Alike, Fields
    <3> QED BY <2>2, <3>1, <3>2, <3>3 DEF Eased, Alike, Fields, Released
  <2> QED BY <2>1, <2>2 DEF StepClean, Current
<1>5. ASSUME NEW g, Keep(g, A.s, HartThings) \/ g = Yes("released")  PROVE Grants(A, g)
  <2>1. CASE g = Yes("released")
    BY <1>4, <2>1, OwnSays DEF Grants, OpenSays, Yes, Fine
  <2>2. CASE Keep(g, A.s, HartThings)
    <3>1. OpenSays(g) /\ (Guard(A.s) => Says(g))  BY <2>2 DEF Holds, Keep
    <3>2. CASE g[1] \in Report
      BY <1>3, <3>1, <3>2, ReportGrants
    <3>3. CASE g[1] \notin Report
      <4>1. OpenSays(g)'
        <5>1. g \notin {Fine, Yes("told"), Yes("released")}
          BY <2>2, <3>3 DEF Report, Yes, Fine, Keep, HartThings
        <5>2. dm'.auto = dm.auto  BY <1>4 DEF Alike, Fields
        <5> QED BY <1>4, <3>1, <5>1, <5>2 DEF OpenSays, Calm
      <4>2. Changes({"request", "hart", "busy"}, {"dpc"}) /\ (~dm.busy => ~dm'.busy)
        BY <1>3, <1>4 DEF Changes, Alike, Fields
      <4>3. CASE g[1] # "busy"
        <5>1. Apart(g, {"request", "hart", "busy"}, {"dpc"})
          BY <2>2, <4>3 DEF Apart, Keep, HartThings, Nameless, Blocks, Yes
        <5> QED BY <3>1, <4>1, <4>2, <5>1, KeepSays DEF Grants
      <4>4. CASE g[1] = "busy"
        <5>1. Guard(A.s) => (g = Idling => ~dm'.busy)  BY <3>1, <4>2 DEF Says, ModuleSays
        <5> QED BY <4>1, <4>4, <5>1, BusySays DEF Grants
      <4> QED BY <4>3, <4>4
    <3> QED BY <3>2, <3>3
  <2> QED BY <1>5, <2>1, <2>2
<1>6. Goes(x, A)  BY <1>3, <1>5 DEF Goes, Gives
<1> QED BY <1>3, <1>4, <1>6 DEF LostStep

\* Labels, the new attempt and the forgotten access mode.
LEMMA LocalGoes ==
  ASSUME NEW x, NEW A, Holds(A), Asks(family, cmd, x, A), x.do \in {"label", "newtry", "nomode"},
         Current(x), IsDm(dm),
         UNCHANGED <<family, cmd>>, StepLocal
  PROVE  IsDm(dm') /\ LostStep(x) /\ (twice => twice') /\ Goes(x, A)
<1>1. UNCHANGED <<dm, value, cause, twice, unchecked, lost>> /\ LostStep(x)
  BY DEF StepLocal, marks, LostStep
<1>2. step.do \in {"label", "newtry", "nomode"}  BY DEF Current
<1>3. Next1
  BY <1>2, Zenon DEF StepLocal
<1>4. CASE x.do = "label"
  <2>1. UNCHANGED <<mode, diag>>  BY <1>4 DEF StepLocal, Current
  <2>2. ASSUME NEW g, g \in A.s  PROVE Grants(A, g)
    BY <1>1, <2>1, <2>2, ReportGrants, KeepGrants, SameAlike DEF Holds, Steady
  <2> QED BY <1>1, <1>3, <1>4, <2>2 DEF Goes, Gives
<1>5. CASE x.do = "newtry"
  <2>1. mode' = mode /\ diag' = "ok"  BY <1>5 DEF StepLocal, Current
  <2>2. ASSUME NEW g, NEW sure \in BOOLEAN, Keep(g, From(A, sure), Report) \/ g = Fine,
               sure \/ dm'.cmderr = "none"
        PROVE Grants(A, g)
    BY <1>1, <2>1, <2>2, FineGrants, KeepGrants, SameAlike DEF Keep, From, Steady
  <2>3. \A g, sure : Gives(family, x, A, g, sure) => Keep(g, From(A, sure), Report) \/ g = Fine
    BY <1>5 DEF Gives
  <2> QED BY <1>1, <1>3, <2>2, <2>3 DEF Goes
<1>6. CASE x.do = "nomode"
  <2>1. mode' = "none" /\ diag' = diag  BY <1>6 DEF StepLocal, Current
  <2>2. ASSUME NEW g, NEW sure \in BOOLEAN,
               Keep(g, From(A, sure), {"mode", "sync"}) \/ g \in {Yes("sync"), <<"mode", "none">>},
               sure \/ dm'.cmderr = "none"
        PROVE Grants(A, g)
    <3>1. CASE Keep(g, From(A, sure), {"mode", "sync"})
      <4>1. OpenSays(g) /\ (Guard(A.s) => Says(g))  BY <1>1, <2>2, <3>1 DEF Keep, From, Holds
      <4>2. OpenSays(g)'  BY <1>1, <2>1, <4>1 DEF OpenSays, Calm, Told, Released
      <4>3. Changes({"mode"}, {}) /\ Apart(g, {"mode"}, {})
        BY <1>1, <3>1 DEF Changes, Apart, Keep, Nameless, Blocks, Yes
      <4> QED BY <4>1, <4>2, <4>3, KeepSays DEF Grants
    <3>2. CASE g \in {Yes("sync"), <<"mode", "none">>}
      BY <2>1, <3>2, OwnSays DEF Grants, OpenSays, Yes, Fine
    <3> QED BY <2>2, <3>1, <3>2
  <2>3. \A g, sure : Gives(family, x, A, g, sure)
          => Keep(g, From(A, sure), {"mode", "sync"}) \/ g \in {Yes("sync"), <<"mode", "none">>}
    BY <1>6 DEF Gives
  <2> QED BY <1>1, <1>3, <2>2, <2>3 DEF Goes
<1> QED BY <1>1, <1>4, <1>5, <1>6

-----------------------------------------------------------------------------
(* From one access to the next.                                            *)

\* One annotation implies another.
Covers(A, B) == B.s \subseteq A.s /\ B.p \subseteq A.s \cup A.p

\* What holds, holds of every weaker annotation.
LEMMA HoldsCovers ==
  ASSUME NEW A, NEW B, Holds(A), Covers(A, B)
  PROVE  Holds(B)
<1>1. Guard(B.s) => Guard(A.s)  BY DEF Covers, Guard
<1> QED BY <1>1 DEF Covers, Holds

\* What is known after a step was known before it.
LEMMA GuardBack ==
  ASSUME NEW x, NEW A, Asks(family, cmd, x, A), LostStep(x), twice => twice',
         lost \subseteq lost' \/ x.do \in {"write", "clean"},
         NEW S, Yes("sure") \in S => Yes("sure") \in A.s, Guard(S)'
  PROVE  Guard(A.s) /\ ~twice'
<1>1. ~twice'  BY DEF Guard
<1>2. lost \subseteq lost' \/ Yes("sure") \in A.s
  BY DEF Asks, WriteAsks, LostStep
<1> QED BY <1>1, <1>2 DEF Guard, LostStep

\* After an access that passes the annotation of the next position holds.
LEMMA GoesOn ==
  ASSUME NEW x, NEW A, NEW B, Asks(family, cmd, x, A), Flow(family, cmd, x, A, B),
         x.do \notin Lasts,
         LostStep(x), twice => twice', lost \subseteq lost' \/ x.do \in {"write", "clean"},
         Goes(x, A), Holds(A),
         x.do = "newtry" => UNCHANGED <<dm, lost>>
  PROVE  Holds(B)'
<1>1. CASE /\ Yes("sure") \in B.s => Yes("sure") \in A.s
           /\ \A g \in B.s : Gives(family, x, A, g, TRUE)
           /\ \A g \in B.p : Gives(family, x, A, g, FALSE)
  <2>1. Guard(B.s)' => Guard(A.s) /\ ~twice'
    BY <1>1, GuardBack DEF Guard
  <2>2. \A g \in B.s : Grants(A, g)  BY <1>1 DEF Goes
  <2>3. dm'.cmderr = "none" => \A g \in B.p : Grants(A, g)  BY <1>1 DEF Goes
  <2> QED BY <2>1, <2>2, <2>3 DEF Holds, Grants
<1>2. CASE /\ x.do = "newtry" /\ Yes("calm") \in A.s /\ Yes("sure") \notin B.s
           /\ \A g \in B.s \cup B.p : g = Mute \/ Gives(family, x, A, g, TRUE)
  <2>1. Guard(B.s)' => Guard(A.s) /\ ~twice'
    BY <1>2, GuardBack DEF Guard
  <2>2. \A g \in B.s \cup B.p : g # Mute => Grants(A, g)  BY <1>2 DEF Goes
  <2>3. OpenSays(Mute)' /\ (Guard(B.s)' => Says(Mute)')
    <3>1. Calm  BY <1>2, HoldsKnown DEF AllOpen, OpenSays, Yes, Fine
    <3>2. Guard(B.s)' => ~dm'.auto  BY <1>2, <3>1 DEF Guard, Calm
    <3>3. Mute \notin Sayings  BY DEF Mute, Sayings, Yes, Fine
    <3> QED BY <3>2, <3>3, OtherOpen, DataSays DEF Mute, Yes
  <2> QED BY <2>1, <2>2, <2>3 DEF Holds, Grants
<1> QED BY <1>1, <1>2 DEF Flow

\* After an access that fails what its label expects holds.
LEMMA JumpsTo ==
  ASSUME NEW x, NEW A, NEW B, Asks(family, cmd, x, A), Exits(family, cmd, x, A), x.do \in Jumps,
         x.fail # "return",
         B.s \subseteq E(family, cmd, x.fail), B.p \subseteq E(family, cmd, x.fail),
         LostStep(x), twice => twice', lost \subseteq lost' \/ x.do \in {"write", "clean"},
         Stops(x, A)
  PROVE  Holds(B)'
<1>1. \A g \in B.s \cup B.p : Fails(family, x, A, g) /\ Grants(A, g)
  BY DEF Exits, Stops
<1>2. Yes("sure") \in B.s => Yes("sure") \in A.s
  <2>1. Yes("sure") \notin {Idling, Yes("steady"), Yes("told")}  BY DEF Yes, Idling
  <2> QED BY <1>1, <2>1 DEF Fails
<1>3. Guard(B.s)' => Guard(A.s) /\ ~twice'
  BY <1>2, GuardBack DEF Guard
<1> QED BY <1>1, <1>3 DEF Holds, Grants

\* An operation that returns an error.
Abandoned ==
  /\ Calm /\ diag = cause /\ (cmd = "resume" => Released)
  /\ Undisturbed => Kept

\* After an access that fails and returns, the operation is abandoned as it should be.
LEMMA Returned ==
  ASSUME NEW x, NEW A, Asks(family, cmd, x, A), Exits(family, cmd, x, A), x.do \in Jumps,
         x.fail = "return",
         LostStep(x), twice => twice', lost \subseteq lost' \/ x.do \in {"write", "clean"},
         Stops(x, A), cmd' = cmd
  PROVE  Abandoned'
<1>1. Returns(cmd, x, A.s)  BY DEF Exits
<1>2. Undisturbed' => Guard(A.s) /\ ~twice'
  <2> DEFINE S == {}
  <2>1. Yes("sure") \notin S  OBVIOUS
  <2> HIDE DEF S
  <2>2. Undisturbed' => Guard(S)'  BY <2>1 DEF Undisturbed, Guard
  <2> QED BY <2>1, <2>2, GuardBack
<1> QED BY <1>1, <1>2 DEF Stops, Abandoned

\* An operation that ends well.
Final(f, op) == [s |-> FinalS(f, op), p |-> FinalP(f, op)]
\* What an operation that reports success has done.
Achieved ==
  /\ Calm
  /\ cmd = "write" /\ family # "V20X" => ~dm.auto
  /\ Undisturbed =>
       /\ Kept
       /\ CASE cmd = "write" -> (dm.mem["a1"] = "w1" /\ dm.mem["a2"] = "w2") \/
                 (family = "V20X" /\ dm.cmderr # "none")
          [] cmd = "write32" -> dm.mem["a1"] = "w1" \/ (family = "V20X" /\ dm.cmderr # "none")
          [] cmd = "read" -> value = "a1" \/ unchecked
          [] cmd = "resume" -> dm.hart \in {"running", "loader"} /\ dm.request = "none"
          [] cmd = "reset_halt" -> dm.hart = "halted" /\ dm.regs["dpc"] = "vector"
          [] cmd \in {"reset_run", "soft_reset_run"} ->
                dm.hart = "running" /\ dm.regs["dpc"] = "vector" /\ dm.request # "reset"
          [] cmd \in {"initialize", "program", "verify", "erase_all"} -> dm.hart = "halted" /\
            value = "result"
          [] cmd = "rewrite_page" -> dm.page = "new" /\ ~dm.stray

\* The last annotation of a program says so.
LEMMA FinalAchieved ==
  ASSUME Holds(Final(family, cmd)), cmd \in Operations
  PROVE  Achieved
<1> DEFINE F == Final(family, cmd)
<1>0. F.s = FinalS(family, cmd) /\ F.p = FinalP(family, cmd)  BY DEF Final
<1> HIDE DEF F
<1>1. AllOpen(FinalS(family, cmd))  BY <1>0, HoldsKnown DEF F
<1>2. Calm
  <2>1. Yes("calm") \in FinalS(family, cmd)  BY DEF FinalS
  <2> QED BY <1>1, <2>1 DEF AllOpen, OpenSays, Yes, Fine
<1>3. cmd = "write" /\ family # "V20X" => ~dm.auto
  <2>1. cmd = "write" /\ family # "V20X" => Yes("off") \in FinalS(family, cmd)  BY DEF FinalS
  <2> QED BY <1>1, <2>1 DEF AllOpen, OpenSays, Yes, Fine
<1>4. ASSUME Undisturbed
      PROVE  /\ \A g \in FinalS(family, cmd) : Says(g)
             /\ dm.cmderr = "none" => \A g \in FinalP(family, cmd) : Says(g)
  BY <1>0, <1>4 DEF Holds, Undisturbed, Guard, F
<1>5. ASSUME Undisturbed  PROVE Kept
  BY <1>4, <1>5 DEF FinalS, Says, MemorySays
<1> DEFINE D == CASE cmd = "write" -> (dm.mem["a1"] = "w1" /\ dm.mem["a2"] = "w2") \/
                       (family = "V20X" /\ dm.cmderr # "none")
          [] cmd = "write32" -> dm.mem["a1"] = "w1" \/ (family = "V20X" /\ dm.cmderr # "none")
          [] cmd = "read" -> value = "a1" \/ unchecked
          [] cmd = "resume" -> dm.hart \in {"running", "loader"} /\ dm.request = "none"
          [] cmd = "reset_halt" -> dm.hart = "halted" /\ dm.regs["dpc"] = "vector"
          [] cmd \in {"reset_run", "soft_reset_run"} ->
                dm.hart = "running" /\ dm.regs["dpc"] = "vector" /\ dm.request # "reset"
          [] cmd \in {"initialize", "program", "verify", "erase_all"} -> dm.hart = "halted" /\
            value = "result"
          [] cmd = "rewrite_page" -> dm.page = "new" /\ ~dm.stray
<1>6. ASSUME Undisturbed  PROVE D
  <2>1. CASE cmd = "write"
    <3>1. family # "V20X" => dm.mem["a1"] = "w1" /\ dm.mem["a2"] = "w2"
      <4>1. family # "V20X"
              => <<"a1", "w1">> \in FinalS(family, cmd) /\ <<"a2", "w2">> \in FinalS(family, cmd)
        BY <2>1 DEF FinalS
      <4> QED BY <1>4, <1>6, <4>1 DEF Says, MemorySays, Blocks
    <3>2. dm.cmderr = "none" /\ family = "V20X" => dm.mem["a1"] = "w1" /\ dm.mem["a2"] = "w2"
      <4>1. family = "V20X"
              => <<"a1", "w1">> \in FinalP(family, cmd) /\ <<"a2", "w2">> \in FinalP(family, cmd)
        BY <2>1 DEF FinalP
      <4> QED BY <1>4, <1>6, <4>1 DEF Says, MemorySays, Blocks
    <3>3. \/ dm.mem["a1"] = "w1" /\ dm.mem["a2"] = "w2"
          \/ family = "V20X" /\ dm.cmderr # "none"
      BY <3>1, <3>2
    <3> QED BY <2>1, <3>3, Zenon
  <2>2. CASE cmd = "write32"
    <3>1. family # "V20X" => dm.mem["a1"] = "w1"
      <4>1. family # "V20X" => <<"a1", "w1">> \in FinalS(family, cmd)  BY <2>2 DEF FinalS
      <4> QED BY <1>4, <1>6, <4>1 DEF Says, MemorySays, Blocks
    <3>2. dm.cmderr = "none" /\ family = "V20X" => dm.mem["a1"] = "w1"
      <4>1. family = "V20X" => <<"a1", "w1">> \in FinalP(family, cmd)  BY <2>2 DEF FinalP
      <4> QED BY <1>4, <1>6, <4>1 DEF Says, MemorySays, Blocks
    <3> QED BY <2>2, <3>1, <3>2
  <2>3. CASE cmd = "read"
    <3>1. Yes("answer") \in FinalS(family, cmd)  BY <2>3 DEF FinalS
    <3>2. value = "a1" \/ unchecked  BY <1>4, <1>6, <3>1 DEF Says, LocalSays
    <3> QED BY <2>3, <3>2
  <2>4. CASE cmd = "resume"
    <3>1. Yes("running") \in FinalS(family, cmd) /\ <<"request", "none">> \in FinalS(family, cmd)
      BY <2>4 DEF FinalS
    <3>2. dm.hart = "running" /\ dm.request = "none"  BY <1>4, <1>6, <3>1 DEF Says, HartSays
    <3> QED BY <2>4, <3>2
  <2>5. CASE cmd = "reset_halt"
    <3>1. Yes("halted") \in FinalS(family, cmd) /\ <<"dpc", "vector">> \in FinalS(family, cmd)
      BY <2>5 DEF FinalS
    <3>2. dm.hart = "halted"  BY <1>4, <1>6, <3>1 DEF Says, HartSays
    <3>3. dm.regs["dpc"] = "vector"  BY <1>4, <1>6, <3>1 DEF Says, RegisterSays
    <3> QED BY <2>5, <3>2, <3>3
  <2>6. CASE cmd \in {"reset_run", "soft_reset_run"}
    <3>1. Yes("running") \in FinalS(family, cmd) /\ <<"dpc", "vector">> \in FinalS(family, cmd)
      BY <2>6 DEF FinalS
    <3>2. dm.hart = "running" /\ dm.request # "reset"  BY <1>4, <1>6, <3>1 DEF Says, HartSays
    <3>3. dm.regs["dpc"] = "vector"  BY <1>4, <1>6, <3>1 DEF Says, RegisterSays
    <3> QED BY <2>6, <3>2, <3>3
  <2>7. CASE cmd \in {"initialize", "program", "verify", "erase_all"}
    <3>1. Yes("halted") \in FinalS(family, cmd) /\ <<"value", "result">> \in FinalS(family, cmd)
      BY <2>7 DEF FinalS, LoaderOps
    <3>2. dm.hart = "halted"  BY <1>4, <1>6, <3>1 DEF Says, HartSays
    <3>3. value = "result"  BY <1>4, <1>6, <3>1 DEF Says, LocalSays
    <3> QED BY <2>7, <3>2, <3>3
  <2>8. CASE cmd = "rewrite_page"
    <3>1. <<"page", "new">> \in FinalS(family, cmd)  BY <2>8 DEF FinalS, LoaderOps
    <3>2. dm.page = "new"  BY <1>4, <1>6, <3>1 DEF Says, PortSays
    <3> QED BY <1>5, <1>6, <2>8, <3>2 DEF Kept
  <2> QED BY <2>1, <2>2, <2>3, <2>4, <2>5, <2>6, <2>7, <2>8 DEF Operations
<1> QED BY <1>2, <1>3, <1>5, <1>6 DEF Achieved

-----------------------------------------------------------------------------
(* The target's own steps, and the start of an operation.                  *)

\* What holds of the position of a program holds while commands of the debug
\* module end and the hart halts.
LEMMA SettleHolds ==
  ASSUME NEW A, Holds(A), IsDm(dm), Settle,
         UNCHANGED <<family, mode, value, diag, cause, twice, unchecked, lost>>
  PROVE  IsDm(dm') /\ Holds(A)'
<1>1. IsDm(dm') /\ Eased(dm, dm') /\ ~dm'.busy
  <2>1. dm' = Settled(dm)  BY DEF Settle, Settled
  <2> QED BY <2>1, SettledIs
<1>2. dm'.cmderr = dm.cmderr /\ dm'.auto = dm.auto /\ dm'.request = dm.request
  BY <1>1 DEF Eased, Alike, Fields
<1>3. Steady  BY DEF Steady
<1>4. \A g : Says(g) => Says(g)'
  BY <1>1, <1>3, CalmDown
<1>5. \A g : OpenSays(g) => OpenSays(g)'
  BY <1>1, <1>2 DEF OpenSays, Calm, Told, Released
<1>6. Guard(A.s)' => Guard(A.s)  BY DEF Guard
<1> QED BY <1>1, <1>2, <1>4, <1>5, <1>6 DEF Holds

\* The hart halts on request, or the loader returns: no annotation is disturbed.
LEMMA HaltHolds ==
  ASSUME NEW A, Holds(A), IsDm(dm), Halt,
         UNCHANGED <<family, mode, value, diag, cause, twice, unchecked, lost>>
  PROVE  IsDm(dm') /\ Holds(A)'
<1>1. /\ IsDm(dm') /\ Alike(dm, dm', {"hart", "regs", "locked"})
      /\ \A r \in Regs \ {"x10", "dpc"} : dm'.regs[r] = dm.regs[r]
      /\ dm'.hart = "halted"
      /\ \/ dm.hart = "running" /\ dm.request = "halt" /\ dm'.regs = dm.regs /\
              dm'.locked = dm.locked
         \/ dm.hart = "loader" /\ dm'.regs["x10"] = "result" /\ dm'.regs["dpc"] = "returned"
  <2>1. CASE dm.hart = "running" /\ dm.request = "halt" /\ dm' = [dm EXCEPT !.hart = "halted"]
    BY <2>1 DEF IsDm, Alike, Fields
  <2>2. CASE /\ dm.hart = "loader"
             /\ dm' = [dm EXCEPT !.hart = "halted", !.regs["x10"] = "result",
                       !.regs["dpc"] = "returned",
                           !.locked = (family = "X03X")]
    <3> DEFINE d1 == [dm EXCEPT !.hart = "halted"]
               d2 == [d1 EXCEPT !.regs["x10"] = "result"]
               d3 == [d2 EXCEPT !.regs["dpc"] = "returned"]
    <3>1. IsDm(d1) /\ Alike(dm, d1, {"hart"}) /\ d1.hart = "halted"  BY DEF IsDm, Alike, Fields
    <3>0. d1.regs = dm.regs  OBVIOUS
    <3> HIDE DEF d1
    <3>2. IsDm(d2) /\ Alike(d1, d2, {"regs"}) /\ d2.regs["x10"] = "result" /\
            \A r \in Regs \ {"x10"} : d2.regs[r] = d1.regs[r]
      BY <3>1 DEF IsDm, Alike, Fields, Regs
    <3>4. dm' = [d3 EXCEPT !.locked = (family = "X03X")]  BY <2>2 DEF d1
    <3> HIDE DEF d2
    <3>3. IsDm(d3) /\ Alike(d2, d3, {"regs"}) /\ d3.regs["dpc"] = "returned" /\
            \A r \in Regs \ {"dpc"} : d3.regs[r] = d2.regs[r]
      BY <3>2 DEF IsDm, Alike, Fields, Regs
    <3> HIDE DEF d3
    <3>5. IsDm(dm') /\ Alike(d3, dm', {"locked"})  BY <3>3, <3>4 DEF IsDm, Alike, Fields
    <3>6. dm'.regs = d3.regs  BY <3>5 DEF Alike, Fields
    <3>7. \A r \in Regs \ {"x10", "dpc"} : dm'.regs[r] = dm.regs[r]  BY <3>0, <3>2, <3>3, <3>6
    <3>8. dm'.regs["x10"] = "result" /\ dm'.regs["dpc"] = "returned"  BY <3>2, <3>3, <3>6 DEF Regs
    <3>9. Alike(dm, dm', {"hart", "regs", "locked"}) /\ dm'.hart = "halted"
      BY <3>1, <3>2, <3>3, <3>5 DEF Alike, Fields
    <3> QED BY <2>2, <3>5, <3>7, <3>8, <3>9
  <2> QED BY <2>1, <2>2 DEF Halt
<1>2. \A k \in Fields \ {"hart", "regs", "locked"} : dm'[k] = dm[k]  BY <1>1 DEF Alike
<1>3. ASSUME NEW g, Says(g)  PROVE Says(g)'
  <2>1. ModuleSays(g)'
    BY <1>2, <1>3 DEF Says, ModuleSays, Careless, Fields
  <2>2. RegisterSays(g)'
    <3>1. g[1] \in {"x8", "x9"} \cup Arguments4 => dm'.regs[g[1]] = dm.regs[g[1]]
      BY <1>1 DEF Regs, Arguments4
    <3> QED BY <1>1, <1>3, <3>1 DEF Says, RegisterSays, Careless
  <2>3. HartSays(g)'
    BY <1>1, <1>2, <1>3 DEF Says, HartSays, Fields
  <2>4. MemorySays(g)'
    BY <1>2, <1>3 DEF Says, MemorySays, Kept, Fields
  <2>5. PortSays(g)' /\ LocalSays(g)'
    BY <1>2, <1>3 DEF Says, PortSays, LocalSays, Fields
  <2> QED BY <2>1, <2>2, <2>3, <2>4, <2>5 DEF Says
<1>4. dm'.cmderr = dm.cmderr /\ dm'.auto = dm.auto /\ dm'.request = dm.request /\ dm'.busy = dm.busy
  BY <1>2 DEF Fields
<1>5. \A g : OpenSays(g) => OpenSays(g)'
  BY <1>4 DEF OpenSays, Calm, Told, Released
<1>6. Guard(A.s)' => Guard(A.s)  BY DEF Guard
<1> QED BY <1>1, <1>3, <1>4, <1>5, <1>6 DEF Holds

\* An operation starts with what the one before left.
Sides == (family \notin Streaming => ~dm.auto) /\ (family # "X03X" => ~dm.locked)
\* What an operation starts with.
First(f, op) == [s |-> FirstS(f, op), p |-> FirstS(f, op)]

\* What an operation takes over from the one before.
LEMMA RelabelledIs ==
  ASSUME NEW d, IsDm(d), NEW e, e = Relabelled(d)
  PROVE  /\ IsDm(e) /\ Alike(d, e, {"data0", "regs", "mem", "busy", "request", "page", "stray"})
         /\ e.data0 = "stale" /\ e.mem = Memory /\ ~e.busy /\ e.page = "old" /\ ~e.stray
         /\ \A r \in Regs : e.regs[r] \in {"&data0", "&data1", "stale"}
         /\ e.request # "resume"
<1> DEFINE d1 == [d EXCEPT !.data0 = "stale"]
           rs == [r \in Regs |-> IF d1.regs[r] \in {"&data0", "&data1"} THEN d1.regs[r]
                  ELSE "stale"]
           d2 == [d1 EXCEPT !.regs = rs]
           d3 == [d2 EXCEPT !.mem = Memory, !.busy = FALSE]
           d4 == [d3 EXCEPT !.request = IF d3.request = "resume" THEN "none" ELSE d3.request]
<1>1. e = [d4 EXCEPT !.page = "old", !.stray = FALSE]
  BY DEF Relabelled
<1>2. IsDm(d1) /\ Alike(d, d1, {"data0"}) /\ d1.data0 = "stale"  BY DEF IsDm, Alike, Fields
<1>3. \A r \in Regs : rs[r] \in {"&data0", "&data1", "stale"}  OBVIOUS
<1>4. DOMAIN rs = Regs  OBVIOUS
<1> HIDE DEF d1, rs
<1>5. IsDm(d2) /\ Alike(d1, d2, {"regs"}) /\ d2.regs = rs  BY <1>2, <1>4 DEF IsDm, Alike, Fields
<1> HIDE DEF d2
<1>6. IsDm(d3) /\ Alike(d2, d3, {"mem", "busy"}) /\ d3.mem = Memory /\ ~d3.busy
  BY <1>5 DEF IsDm, Alike, Fields, Memory
<1> HIDE DEF d3
<1>7. IsDm(d4) /\ Alike(d3, d4, {"request"}) /\ d4.request # "resume"
  BY <1>6 DEF IsDm, Alike, Fields
<1> HIDE DEF d4
<1>8. IsDm(e) /\ Alike(d4, e, {"page", "stray"}) /\ e.page = "old" /\ ~e.stray
  BY <1>1, <1>7 DEF IsDm, Alike, Fields
<1>9. e.regs = rs /\ e.mem = Memory /\ e.data0 = "stale" /\ ~e.busy /\ e.request # "resume"
  BY <1>2, <1>5, <1>6, <1>7, <1>8 DEF Alike, Fields
<1>10. Alike(d, e, {"data0", "regs", "mem", "busy", "request", "page", "stray"})
  BY <1>2, <1>5, <1>6, <1>7, <1>8 DEF Alike
<1> QED BY <1>3, <1>8, <1>9, <1>10

\* A command makes the first annotation of its program true, whatever the operation before left.
LEMMA CommandHolds ==
  ASSUME IsDm(dm), Calm, Sides, Command, NEW f, f = family, NEW op, cmd' = op
  PROVE  IsDm(dm') /\ Holds(First(f, op))'
<1> DEFINE F == FirstS(f, op)
<1>1. /\ IsDm(dm') /\ Alike(dm, dm', {"data0", "regs", "mem", "busy", "request", "page", "stray"})
      /\ dm'.mem = Memory /\ ~dm'.busy /\ dm'.page = "old" /\ ~dm'.stray
      /\ \A r \in Regs : dm'.regs[r] \in {"&data0", "&data1", "stale"}
      /\ dm'.request # "resume"
  BY RelabelledIs DEF Command
<1>2. /\ mode' = "none" /\ diag' = "ok" /\ cause' = "ok" /\ family' = family
      /\ lost' = (lost \cap {"autoexec"}) \cup (IF dm.hart = "loader" THEN {"loader"} ELSE {})
  BY DEF Command
<1>3. dm'.auto = dm.auto /\ dm'.hart = dm.hart /\ dm'.locked = dm.locked  BY <1>1 DEF Alike, Fields
<1>4. Guard(F)' => dm.hart # "loader"
  BY <1>2 DEF Guard
<1>5. \A g \in F :
        \/ g \in {Yes("steady"), Yes("calm"), Fine, Yes("told"), Yes("released"), Yes("kept"),
                  Idling, <<"a1", "a1">>,
                  Yes("free"), <<"page", "old">>, <<"mode", "none">>, Yes("sync")}
        \/ g = Mute /\ (f \notin Streaming \/ Yes("sure") \notin F)
        \/ g = Yes("sure")
        \/ g = Yes("off") /\ f \notin Streaming
        \/ g = Yes("unlocked") /\ f # "X03X"
  <2>1. f \in Streaming /\ op # "write" => Yes("sure") \notin F
    BY DEF FirstS, Yes, Mute, Fine, Idling, Streaming
  <2> QED BY <2>1 DEF FirstS
<1> HIDE DEF F
<1>6. ASSUME NEW g \in F  PROVE OpenSays(g)' /\ (Guard(F)' => Says(g)')
  <2>1. CASE g \in {Yes("steady"), Fine, Yes("told"), Yes("released"), Yes("calm")}
    <3>1. Calm'  BY <1>2, <1>3 DEF Calm
    <3> QED BY <1>1, <1>2, <2>1, <3>1, OwnSays DEF OpenSays, Yes, Fine, Told, Released
  <2>2. CASE g \in {Idling, <<"mode", "none">>, Yes("sync"), Yes("sure")}
    <3>1. g \notin Sayings  BY <2>2 DEF Sayings, Yes, Fine, Idling
    <3> QED BY <1>1, <1>2, <2>2, <3>1, OtherOpen, BusySays, OwnSays DEF Yes, Idling
  <2>3. CASE g \in {Yes("kept"), <<"a1", "a1">>, <<"page", "old">>}
    <3>1. g \notin Sayings  BY <2>3 DEF Sayings, Yes, Fine
    <3>2. Kept' /\ dm'.mem["a1"] = "a1"  BY <1>1 DEF Kept, Memory, Addresses
    <3> QED BY <1>1, <2>3, <3>1, <3>2, OtherOpen, BlockSays DEF Yes, Blocks
  <2>4. CASE g = Yes("free")
    <3>1. g \notin Sayings  BY <2>4 DEF Sayings, Yes, Fine
    <3>2. dm'.regs["dpc"] # "entry"  BY <1>1 DEF Regs
    <3> QED BY <1>3, <1>4, <2>4, <3>1, <3>2, OtherOpen, HaltSays DEF Yes
  <2>5. CASE g = Mute /\ (f \notin Streaming \/ Yes("sure") \notin F)
    <3>1. g \notin Sayings  BY <2>5 DEF Sayings, Yes, Fine, Mute
    <3>2. Guard(F)' => ~dm'.auto
      BY <1>2, <1>3, <2>5 DEF Guard, Calm, Sides
    <3> QED BY <2>5, <3>1, <3>2, OtherOpen, DataSays DEF Mute, Yes
  <2>6. CASE g = Yes("off") /\ f \notin Streaming
    BY <1>3, <2>6, OwnSays DEF OpenSays, Yes, Fine, Sides
  <2>7. CASE g = Yes("unlocked") /\ f # "X03X"
    <3>1. g \notin Sayings  BY <2>7 DEF Sayings, Yes, Fine
    <3> QED BY <1>3, <1>4, <2>7, <3>1, OtherOpen, HaltSays DEF Yes, Sides
  <2> QED BY <1>5, <2>1, <2>2, <2>3, <2>4, <2>5, <2>6, <2>7
<1>7. First(f, op).s = F /\ First(f, op).p = F  BY DEF First, F
<1> QED BY <1>1, <1>6, <1>7 DEF Holds

-----------------------------------------------------------------------------
(* Locks, memory and loaders.                                              *)

\* Commands that cannot change the memory with the program buffer loaded.
QuietCommand(prog, v) ==
  \/ \E r \in Regs : v \in {SetReg(r), GetReg(r)}
  \/ v = ReadMem
  \/ v = Run /\ prog = "code"
  \/ v = SetRun("x8") /\ prog = "load"
  \/ v = SetRun("x14") /\ prog = "page"
\* The write touches no memory.
Harmless(d, reg, v) == (reg = "COMMAND" => QuietCommand(d.prog, v)) /\ (reg = "DATA0" => ~d.auto)
\* What no write does.
Spares(d, e, reg, v) ==
  /\ ~d.locked => ~e.locked
  /\ reg # "CONTROL" => e.hart = d.hart
  /\ reg # "PROGBUF" => e.prog = d.prog
  /\ Harmless(d, reg, v) => e.mem = d.mem

\* A command touches the memory only when it stores or streams.
LEMMA SparesCommand ==
  ASSUME NEW d, IsDm(d), NEW v, NEW e, e = DmiWrite(d, "COMMAND", v)
  PROVE  Spares(d, e, "COMMAND", v)
<1>1. CASE Missed(d, e)
  BY <1>1 DEF Missed, Spares, Alike, Fields
<1>2. CASE d.hart = "halted" /\ e = Start(d, v)
  <2>1. e.locked = d.locked /\ e.hart = d.hart /\ e.prog = d.prog
    BY <1>2, BegunIs, ExecFrame DEF Start, SameSolid, Solid, Alike, Fields
  <2>2. ASSUME QuietCommand(d.prog, v)  PROVE e.mem = d.mem
    <3>1. ASSUME NEW r \in Regs, v = SetReg(r)  PROVE e.mem = d.mem
      <4>1. SetDone(d, e, r)  BY <1>2, <3>1, SetExec
      <4> QED BY <4>1 DEF SetDone, Alike, Fields
    <3>2. ASSUME NEW r \in Regs, v = GetReg(r)  PROVE e.mem = d.mem
      <4>1. GetDone(d, e, r)  BY <1>2, <3>2, GetExec
      <4> QED BY <4>1 DEF GetDone, Alike, Fields
    <3>3. CASE v = ReadMem
      <4>1. FetchDone(d, e)  BY <1>2, <3>3, FetchExec
      <4> QED BY <4>1 DEF FetchDone, Alike, Fields
    <3>4. CASE v = Run /\ d.prog = "code"
      <4>1. Alike(d, e, {"last", "busy"})  BY <1>2, <3>4, RunCodeExec
      <4> QED BY <4>1 DEF Alike, Fields
    <3>5. CASE v = SetRun("x8") /\ d.prog = "load"
      <4>1. RunLoadDone(d, e)  BY <1>2, <3>5, RunLoadExec
      <4> QED BY <4>1 DEF RunLoadDone, Alike, Fields
    <3>6. CASE v = SetRun("x14") /\ d.prog = "page"
      <4>1. RunPageDone(d, e)  BY <1>2, <3>6, RunPageExec
      <4> QED BY <4>1 DEF RunPageDone, Alike, Fields
    <3> QED BY <2>2, <3>1, <3>2, <3>3, <3>4, <3>5, <3>6 DEF QuietCommand
  <2> QED BY <2>1, <2>2 DEF Spares, Harmless
<1> QED BY <1>1, <1>2, CommandCases

\* A write touches the memory only by a storing command or by autoexec, and never locks.
LEMMA SparesWrite ==
  ASSUME NEW d, IsDm(d), NEW reg \in Registers, NEW v, NEW e, e = DmiWrite(d, reg, v)
  PROVE  Spares(d, e, reg, v)
<1>1. CASE reg = "COMMAND"
  BY <1>1, SparesCommand
<1>2. CASE reg = "DATA0" /\ ~d.busy
  <2> DEFINE d1 == [d EXCEPT !.data0 = v]
  <2>1. IsDm(d1) /\ Alike(d, d1, {"data0"})  BY DEF Alike, IsDm, Fields
  <2>2. e = AutoExec(d1)  BY <1>2, Data0Is
  <2> HIDE DEF d1
  <2>3. d1.auto = d.auto /\ d1.locked = d.locked /\ d1.hart = d.hart /\ d1.prog = d.prog /\
          d1.mem = d.mem
    BY <2>1 DEF Alike, Fields
  <2>4. CASE d1.auto /\ d1.cmderr = "none"
    <3>1. e = Exec(d1, d1.last)  BY <2>2, <2>4 DEF AutoExec
    <3>2. e.locked = d1.locked /\ e.hart = d1.hart /\ e.prog = d1.prog
      BY <2>1, <3>1, ExecFrame DEF SameSolid, Solid
    <3> QED BY <1>2, <2>3, <2>4, <3>2 DEF Spares, Harmless
  <2>5. CASE ~(d1.auto /\ d1.cmderr = "none")
    <3>1. e = d1  BY <2>2, <2>5 DEF AutoExec
    <3> QED BY <2>3, <3>1 DEF Spares
  <2> QED BY <2>4, <2>5
<1>3. CASE reg \in {"DATA0", "DATA1", "ABSTRACTCS", "ABSTRACTAUTO", "PROGBUF"} /\ d.busy
  <2>1. CASE reg = "DATA0"
    <3>1. e = Raise(d, "busy")  BY <1>3, <2>1, Data0Is
    <3> QED BY <3>1, RaiseIs DEF Spares, Fields
  <2>2. CASE reg = "DATA1"
    BY <1>3, <2>2, Data1Is, RaiseIs DEF Spares, Fields
  <2>3. CASE reg = "ABSTRACTCS"
    BY <1>3, <2>3, ClearIs, RaiseIs DEF Spares, Fields
  <2>4. CASE reg = "ABSTRACTAUTO"
    BY <1>3, <2>4, AutoIs, RaiseIs DEF Spares, Fields
  <2>5. CASE reg = "PROGBUF"
    BY <1>3, <2>5, ProgbufIs, RaiseIs DEF Spares, Fields
  <2> QED BY <1>3, <2>1, <2>2, <2>3, <2>4, <2>5
<1>4. CASE reg = "DATA1" /\ ~d.busy
  <2>1. e = [d EXCEPT !.data1 = v]  BY <1>4, Data1Is
  <2> QED BY <2>1 DEF Spares, IsDm, Fields
<1>5. CASE reg = "ABSTRACTCS" /\ ~d.busy
  <2>1. e = [d EXCEPT !.cmderr = "none"]  BY <1>5, ClearIs
  <2> QED BY <2>1 DEF Spares, IsDm, Fields
<1>6. CASE reg = "ABSTRACTAUTO" /\ ~d.busy
  <2>1. e = [d EXCEPT !.auto = (v = "on")]  BY <1>6, AutoIs
  <2> QED BY <2>1 DEF Spares, IsDm, Fields
<1>7. CASE reg = "PROGBUF" /\ ~d.busy
  <2>1. e = [d EXCEPT !.prog = v]  BY <1>7, ProgbufIs
  <2> QED BY <1>7, <2>1 DEF Spares, IsDm, Fields
<1>8. CASE reg = "CONTROL"
  <2>1. e = Control(d, v)  BY <1>8, ControlIs
  <2>2. Alike(d, e, {"request", "hart", "regs"})  BY <2>1, ControlFrame
  <2> QED BY <1>8, <2>2 DEF Spares, Alike, Fields
<1>9. CASE reg = "UNLOCK"
  <2>1. e = [d EXCEPT !.locked = FALSE]  BY <1>9, UnlockIs
  <2> QED BY <2>1 DEF Spares, IsDm, Fields
<1>10. CASE reg = "DMOD"
  <2>1. e = d  BY <1>10, DmodIs
  <2> QED BY <2>1 DEF Spares
<1> QED BY <1>1, <1>2, <1>3, <1>4, <1>5, <1>6, <1>7, <1>8, <1>9, <1>10 DEF Registers, Abstract

\* The same holds once the command has ended.
LEMMA SparesEased ==
  ASSUME NEW d, NEW e, NEW e1, NEW reg, NEW v, Spares(d, e, reg, v), Eased(e, e1)
  PROVE  Spares(d, e1, reg, v)
BY DEF Spares, Eased, Alike, Fields

\* Harm is no nearer the second time.
LEMMA SparesTwice ==
  ASSUME NEW d, NEW o, NEW e, NEW reg, NEW v, Spares(d, o, reg, v), Opens(d, o, reg, v),
         Spares(o, e, reg, v)
  PROVE  Spares(d, e, reg, v)
BY DEF Spares, Harmless, Opens

\* The start of a loader: a resume of a halted hart at the entry point.
LEMMA LoaderStarts ==
  ASSUME NEW d, IsDm(d), NEW v \in {"idle", "halt", "resume", "reset", "reset_halt"},
         NEW e, e = DmiWrite(d, "CONTROL", v), e.hart = "loader", d.hart # "loader"
  PROVE  v = "resume" /\ d.hart = "halted" /\ d.regs["dpc"] = "entry"
<1>1. e = Control(d, v)  BY ControlIs
<1>2. v = "resume"
  <2>1. v = "idle" => e.hart # "loader"  BY <1>1, ControlFrame
  <2>2. v = "halt" => e.hart # "loader"  BY <1>1, ControlFrame
  <2>3. v \in {"reset", "reset_halt"} => e.hart # "loader"  BY <1>1, ControlFrame
  <2> QED BY <2>1, <2>2, <2>3
<1> QED BY <1>1, <1>2, ControlFrame

\* What no step of an operation does to the locks, the memory and the hart.
SafeStep(A) ==
  /\ family \notin Streaming /\ ~dm.auto => ~dm'.auto
  /\ ~dm.locked => ~dm'.locked
  /\ Guard(A.s) /\ dm.locked => dm'.mem = dm.mem
  /\ Guard(A.s) /\ dm.hart = "halted" /\ dm'.hart = "loader" => LoaderReady(family, cmd, A.s)

\* A step that changes none of the four is safe.
LEMMA QuietSafe ==
  ASSUME NEW A, Alike(dm, dm', Fields \ {"auto", "locked", "mem", "hart"})
  PROVE  SafeStep(A)
BY DEF SafeStep, Alike, Fields

\* A write that passes or fails is safe: a loader starts only from a resume whose annotation has
\* its arguments, and the memory of a locked target is never written.
LEMMA WriteSafe ==
  ASSUME NEW x, NEW A, Holds(A), Asks(family, cmd, x, A), x.do = "write", IsDm(dm), Sides,
         Opens(dm, dm', x.reg, x.val), Spares(dm, dm', x.reg, x.val),
         x.reg = "CONTROL" /\ dm.hart = "halted" /\ dm'.hart = "loader"
           => x.val = "resume" /\ dm.regs["dpc"] = "entry"
  PROVE  SafeStep(A)
<1>1. WriteAsks(family, cmd, x, A)  BY DEF Asks
<1>2. family \notin Streaming /\ ~dm.auto => ~dm'.auto
  <2>1. x.reg = "ABSTRACTAUTO" /\ family \notin Streaming => x.val = "off"  BY <1>1 DEF WriteAsks
  <2> QED BY <2>1 DEF Opens
<1>3. ~dm.locked => ~dm'.locked  BY DEF Spares
<1>4. Guard(A.s) => AllSay(A.s)  BY HoldsKnown DEF Known
<1>5. ASSUME Guard(A.s), dm.locked  PROVE dm'.mem = dm.mem
  <2>1. family = "X03X" /\ ~dm.auto  BY <1>5 DEF Sides, Streaming
  <2>2. Yes("unlocked") \notin A.s  BY <1>4, <1>5 DEF AllSay, Says, HartSays
  <2>3. \A v : <<"prog", v>> \in A.s => dm.prog = v  BY <1>4, <1>5 DEF AllSay, Says, ModuleSays
  <2>4. ASSUME CommandAsks(family, x.val, A)  PROVE QuietCommand(dm.prog, x.val)
    <3>1. \/ \E r \in Regs : x.val \in {SetReg(r), GetReg(r)}
          \/ x.val = ReadMem
          \/ x.val = Run /\ <<"prog", "code">> \in A.s
          \/ x.val = SetRun("x8") /\ <<"prog", "load">> \in A.s
          \/ x.val = SetRun("x14") /\ <<"prog", "page">> \in A.s
      BY <2>1, <2>2, <2>4, Zenon DEF CommandAsks
    <3> QED BY <2>3, <3>1, Zenon DEF QuietCommand
  <2>5. Harmless(dm, x.reg, x.val)
    BY <1>1, <2>1, <2>4 DEF Harmless, WriteAsks
  <2> QED BY <2>5 DEF Spares
<1>6. ASSUME Guard(A.s), dm.hart = "halted",
             dm'.hart = "loader"
      PROVE LoaderReady(family, cmd, A.s)
  <2>1. x.reg = "CONTROL" /\ x.val = "resume" /\ dm.regs["dpc"] = "entry"  BY <1>6 DEF Spares
  <2>2. Yes("free") \notin A.s /\ Yes("running") \notin A.s
    BY <1>4, <1>6, <2>1 DEF AllSay, Says, HartSays
  <2> QED BY <1>1, <2>1, <2>2 DEF WriteAsks
<1> QED BY <1>2, <1>3, <1>5, <1>6 DEF SafeStep

\* The end of a command is safe.
LEMMA SettledSafe ==
  ASSUME NEW A, IsDm(dm), dm' = Settled(dm)
  PROVE  SafeStep(A)
<1>1. Eased(dm, dm')  BY SettledIs
<1> QED BY <1>1, QuietSafe DEF Eased, Alike, Fields

\* StepWrite is safe, done once, twice, or given up.
LEMMA StepWriteSafe ==
  ASSUME NEW x, NEW A, Holds(A), Asks(family, cmd, x, A), x.do = "write", Current(x), IsDm(dm),
         Sides, StepWrite
  PROVE  SafeStep(A)
<1>1. x.reg \in Registers /\
        (x.reg = "CONTROL" => x.val \in {"idle", "halt", "resume", "reset", "reset_halt"})
  BY DEF Asks, WriteAsks, Registers, Abstract
<1> DEFINE after == DmiWrite(dm, step.reg, step.val)
<1>2. after = DmiWrite(dm, x.reg, x.val)  BY DEF Current
<1>3. IsDm(after) /\ Opens(dm, after, x.reg, x.val) /\ Spares(dm, after, x.reg, x.val)
  BY <1>1, <1>2, OpensWrite, SparesWrite
<1>4. x.reg = "CONTROL" /\ dm.hart = "halted" =>
        /\ after.hart = "loader" => x.val = "resume" /\ dm.regs["dpc"] = "entry"
        /\ x.val = "resume" => after.hart # "halted"
  BY <1>1, <1>2, LoaderStarts, ControlIs, ControlFrame
<1>5. /\ \/ dm' \in {after, Settled(after), Settled(dm)}
         \/ dm' \in Doubled(dm, step.reg, step.val)
         \/ dm' = [dm EXCEPT !.cmderr = "exception", !.last = step.val]
  BY DEF StepWrite
<1> HIDE DEF after
<1>6. \A o \in {after, Settled(after)} : IsDm(o) /\ Eased(after, o)
  BY <1>3, SettledIs, EasedSelf
<1>7. CASE dm' \in {after, Settled(after)}
  <2>1. Opens(dm, dm', x.reg, x.val) /\ Spares(dm, dm', x.reg, x.val)
    BY <1>3, <1>6, <1>7, OpensEased, SparesEased
  <2>2. dm'.hart = after.hart  BY <1>6, <1>7 DEF Eased, Alike, Fields
  <2> QED BY <1>4, <2>1, <2>2, WriteSafe
<1>8. CASE dm' \in Doubled(dm, step.reg, step.val)
  <2>1. PICK o \in {after, Settled(after)} : dm' = DmiWrite(o, x.reg, x.val)
    BY <1>8 DEF Doubled, Settled, after, Current
  <2>2. IsDm(o) /\ Eased(after, o)  BY <1>6, <2>1
  <2>3. Opens(o, dm', x.reg, x.val) /\ Spares(o, dm', x.reg, x.val)
    BY <1>1, <2>1, <2>2, OpensWrite, SparesWrite
  <2>4. Opens(dm, o, x.reg, x.val) /\ Spares(dm, o, x.reg, x.val)
    BY <1>3, <2>2, OpensEased, SparesEased
  <2>5. Opens(dm, dm', x.reg, x.val) /\ Spares(dm, dm', x.reg, x.val)
    BY <1>3, <2>2, <2>3, <2>4, OpensTwice, SparesTwice
  <2>6. o.hart = after.hart  BY <2>2 DEF Eased, Alike, Fields
  <2>7. x.reg = "CONTROL" /\ dm.hart = "halted" /\ dm'.hart = "loader"
          => x.val = "resume" /\ dm.regs["dpc"] = "entry"
    <3>1. CASE o.hart = "loader"
      BY <1>4, <2>6, <3>1
    <3>2. CASE o.hart # "loader" /\ x.reg = "CONTROL" /\ dm.hart = "halted" /\ dm'.hart = "loader"
      <4>1. x.val = "resume" /\ o.hart = "halted"  BY <1>1, <2>1, <2>2, <3>2, LoaderStarts
      <4> QED BY <1>4, <2>6, <3>2, <4>1
    <3> QED BY <3>1, <3>2
  <2> QED BY <2>5, <2>7, WriteSafe
<1>9. CASE dm' = [dm EXCEPT !.cmderr = "exception", !.last = step.val]
  <2>1. Alike(dm, dm', {"cmderr", "last"})  BY <1>9 DEF Alike, IsDm, Fields
  <2> QED BY <2>1, QuietSafe DEF Alike, Fields
<1> QED BY <1>5, <1>7, <1>8, <1>9, SettledSafe

\* StepClean is safe.
LEMMA StepCleanSafe ==
  ASSUME NEW x, NEW A, Holds(A), Asks(family, cmd, x, A), x.do = "clean", Current(x), IsDm(dm),
         Sides, StepClean
  PROVE  SafeStep(A)
<1>1. x.reg \in Registers /\ x.reg \in {"ABSTRACTAUTO", "ABSTRACTCS", "CONTROL"}
      /\ (x.reg = "ABSTRACTAUTO" => x.val = "off") /\ (x.reg = "CONTROL" => x.val = "idle")
  BY DEF Asks, Registers, Abstract
<1>2. dm' = DmiWrite(dm, x.reg, x.val) \/ dm' = Settled(dm)
  BY DEF StepClean, Current
<1>3. CASE dm' = DmiWrite(dm, x.reg, x.val)
  <2>1. Opens(dm, dm', x.reg, x.val) /\ Spares(dm, dm', x.reg, x.val)
    BY <1>1, <1>3, OpensWrite, SparesWrite
  <2>2. x.reg = "CONTROL" => (dm'.hart = "loader" => dm.hart = "loader")
    BY <1>1, <1>3, LoaderStarts
  <2>3. dm'.mem = dm.mem  BY <1>1, <2>1 DEF Spares, Harmless
  <2>4. ~dm.auto => ~dm'.auto  BY <1>1, <2>1 DEF Opens
  <2>5. dm.hart = "halted" => dm'.hart # "loader"  BY <2>1, <2>2 DEF Spares
  <2> QED BY <2>1, <2>3, <2>4, <2>5 DEF SafeStep, Spares
<1> QED BY <1>2, <1>3, SettledSafe

\* StepRead is safe, as autoexec is off.
LEMMA StepReadSafe ==
  ASSUME NEW x, NEW A, Holds(A), Asks(family, cmd, x, A), x.do = "read", Current(x), IsDm(dm),
         Sides, StepRead
  PROVE  SafeStep(A)
<1> DEFINE e == DmiRead(dm)
<1>1. IsDm(e) /\ e.auto = dm.auto /\ (~dm.auto => Alike(dm, e, {"cmderr"}))
  BY ReadIs
<1>2. e.locked = dm.locked /\ e.hart = dm.hart
  <2>1. CASE dm.busy
    BY <2>1, RaiseIs DEF DmiRead, Fields
  <2>2. CASE ~dm.busy /\ dm.auto /\ dm.cmderr = "none"
    <3>1. e = Exec(dm, dm.last)  BY <2>2 DEF DmiRead, AutoExec
    <3> HIDE DEF e
    <3> QED BY <3>1, ExecFrame DEF SameSolid, Solid
  <2>3. CASE ~dm.busy /\ ~(dm.auto /\ dm.cmderr = "none")
    BY <2>3 DEF DmiRead, AutoExec
  <2> QED BY <2>1, <2>2, <2>3
<1>3. dm' \in {e, Settled(e), Settled(dm)}
  BY DEF StepRead
<1> HIDE DEF e
<1>4. CASE dm' \in {e, Settled(e)}
  <2>1. Eased(e, dm')  BY <1>1, <1>4, SettledIs, EasedSelf
  <2>2. dm'.auto = dm.auto /\ dm'.locked = dm.locked /\ dm'.hart = dm.hart /\ dm'.mem = e.mem
    BY <1>1, <1>2, <2>1 DEF Eased, Alike, Fields
  <2>3. Guard(A.s) => ~dm.auto
    BY HoldsKnown DEF Asks, Known, AllSay, Says, ModuleSays
  <2>4. Guard(A.s) => dm'.mem = dm.mem  BY <1>1, <2>2, <2>3 DEF Alike, Fields
  <2> QED BY <2>2, <2>4 DEF SafeStep
<1> QED BY <1>3, <1>4, SettledSafe

\* The steps that write no register of the module are safe.
LEMMA StepOtherSafe ==
  ASSUME NEW x, NEW A, Holds(A), Asks(family, cmd, x, A), Current(x), IsDm(dm),
         StepWait \/ StepCheck \/ StepStatus \/ StepProbe \/ StepHart \/ StepByte \/ StepReady \/
           StepLocal
  PROVE  SafeStep(A)
<1>1. CASE StepByte
  <2> DEFINE b == x.val
             ready == PrepareByte(b.rw)
             after == ByteDone(ready, b.rw, b.val)
  <2>1. ByteAsks(b, step.reg, A.s)  BY <1>1 DEF Asks, Current, StepByte, Is
  <2>2. dm' \in {dm, ready, after, ByteDone(after, b.rw, b.val)}
    BY <1>1 DEF StepByte, Current
  <2>3. ByteFrame(dm, ready) /\ ByteFrame(dm, after)
    BY <2>1, ByteIs
  <2>4. b.rw = "write8" /\ step.reg = "control" => b.val \in {"open", "begin", "end"}
    BY <2>1 DEF ByteAsks
  <2>5. ByteFrame(after, ByteDone(after, b.rw, b.val))
    BY <2>3, <2>4, ByteDoneIs DEF ByteFrame
  <2>6. ByteFrame(dm, ByteDone(after, b.rw, b.val))
    BY <2>3, <2>5 DEF ByteFrame, Alike
  <2>7. ByteFrame(dm, dm)
    BY DEF ByteFrame, Alike
  <2> HIDE DEF b, ready, after
  <2>8. ByteFrame(dm, dm')  BY <2>2, <2>3, <2>6, <2>7
  <2> QED BY <2>8, QuietSafe DEF ByteFrame, Alike, Byted, Port4, Fields
<1>2. CASE StepReady
  <2> DEFINE p == CASE dm.page = "erasing" -> "erased" [] dm.page = "programming" -> "new" [] OTHER -> dm.page
  <2>1. dm' = dm \/ dm' = [dm EXCEPT !.page = p]
    BY <1>2, Zenon DEF StepReady
  <2> HIDE DEF p
  <2>2. Alike(dm, dm', {"page"})  BY <2>1 DEF Alike, IsDm, Fields
  <2> QED BY <2>2, QuietSafe DEF Alike, Fields
<1>3. CASE StepWait
  <2>1. dm' = dm \/ dm' = Settled(dm)  BY <1>3 DEF StepWait
  <2> QED BY <2>1, SettledSafe, QuietSafe DEF Alike
<1>4. CASE dm' = dm
  BY <1>4, QuietSafe DEF Alike
<1>5. StepCheck \/ StepStatus \/ StepProbe \/ StepHart \/ StepLocal => dm' = dm
  BY DEF StepCheck, StepStatus, StepProbe, StepHart, StepLocal
<1> QED BY <1>1, <1>2, <1>3, <1>4, <1>5

=============================================================================
