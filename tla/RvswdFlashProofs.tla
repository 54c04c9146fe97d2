--------------------------- MODULE RvswdFlashProofs ---------------------------
(***************************************************************************)
(* Proofs about RvswdFlash, for any set of families, any option byte       *)
(* values, and any number of commands and of failing accesses: a command   *)
(* that reports success has done what it was asked, option bytes change    *)
(* only to what was requested, the code flash is erased only on request,   *)
(* no mode is left selected but MER by a V20X erase that failed, changed   *)
(* option bytes are left locked, and a command that fails with an intact   *)
(* link has met the write protection or a BSY nobody set.                  *)
(*                                                                         *)
(* What holds before an access of a driver depends on the accesses before  *)
(* it.  The proof therefore annotates the programs.  A fact is a name for  *)
(* a statement about the state ("main": the unlock sequence of the main    *)
(* lock has been taken); Holds(F) is what the facts F say together.        *)
(* Flow(op, f, F, x, G) is what the text of the access x must satisfy to   *)
(* lead from the facts F to the facts G, and ProgramsCarry shows that each *)
(* driver's program can be annotated from the facts of a command's start   *)
(* to those of its success.  The rest shows that the flow is sound: an     *)
(* access that succeeds establishes its G, one that fails leaves what the  *)
(* cleanup label or the next command needs.                                *)
(***************************************************************************)
EXTENDS RvswdFlash, Integers, SequenceTheorems, WellFoundedInduction, TLAPS

-----------------------------------------------------------------------------
(* The facts.                                                              *)

\* Whether the program writes all the option bytes, or RDP alone.
WritesAll(op, f) == op # "unprotect" \/ HalfwordWrite(f)

\* The same for the command in progress.
Full == WritesAll(cmd.op, family)

\* The modes a command may find: none, but for a V20X erase that failed.
Left == IF family = "V20X" /\ faults # 0 THEN {"MER"} ELSE {}

\* The mode bit of the erase that an operation starts.
EraseMode(op) == IF op = "erase_all" THEN "MER" ELSE "OPTER"

\* The modes among `bits`, unless a clean-up write has failed.
Selected(bits, modes) == ~dirty => bits \cap Modes \subseteq modes

\* The words of the slots that the program writes are the requested ones.
WordsRequested == \A s \in (IF Full THEN Slots ELSE {"rdp"}) : words[s] = Request[s]

\* "quiet": the command has not touched the target's flash yet.
QuietFact ==
  /\ image = before
  /\ Selected(ctlr, Left) /\ Selected(control, Left)
  /\ faults = 0 => ~sealed

\* "drive": idle_control is valid, and the clean-up write works from here; an
\* option program has seen BSY clear.
DriveFact ==
  /\ Selected(idle, Left) /\ Selected(control, Left \cup {EraseMode(cmd.op)})
  /\ "LOCK" \in idle => "LOCK" \in ctlr
  /\ IF cmd.op = "erase_all" THEN image = before \/ dirty ELSE WordsRequested /\ ~held

\* "over": the clean-up write is done; what it leaves.
OverFact ==
  /\ Selected(ctlr, Left)
  /\ image # before => dirty \/ ("LOCK" \in ctlr /\ "OPTWRE" \notin ctlr)
  /\ cmd.op # "erase_all" => WordsRequested

\* The slots hold their words, the other ones are erased.
WrittenUpTo(bytes, slots) ==
  \A s \in Slots : bytes[s] = IF s \in slots THEN words[s] ELSE "erased"

\* Where in its function the command is, and the option words; "freed": BSY
\* has been seen clear.
StageFacts(F) ==
  /\ "quiet" \in F => QuietFact
  /\ "drive" \in F => DriveFact
  /\ "over" \in F => OverFact
  /\ "words" \in F => WordsRequested
  /\ "freed" \in F => ~held

\* The control word read last, the key sequences and the locks.  "checked":
\* the function has seen that the locks are open; "armed": they are, and
\* idle_control keeps them so; "unlocked": idle_control holds no mode of the
\* fast programming either.
LockFacts(F) ==
  /\ "read" \in F => ctlr \cap Locks \subseteq control
  /\ "same" \in F => control = ctlr
  /\ "main key" \in F => "main" \in keyed \/ "LOCK" \notin ctlr
  /\ "fast key" \in F => "fast" \in keyed \/ "FLOCK" \notin ctlr
  /\ "option key" \in F => "option" \in keyed
  /\ "main" \in F => sealed \/ "LOCK" \notin ctlr
  /\ "fast" \in F => sealed \/ "FLOCK" \notin ctlr
  /\ "option" \in F => sealed \/ "OPTWRE" \in ctlr
  /\ "checked" \in F => /\ "LOCK" \notin ctlr /\ "OPTWRE" \in ctlr
                        /\ Full => "FLOCK" \notin ctlr
  /\ "armed" \in F => /\ "LOCK" \notin ctlr \cup idle /\ "OPTWRE" \in ctlr \cap idle
                      /\ Full => "FLOCK" \notin ctlr \cup idle
  /\ "unlocked" \in F => "LOCK" \notin ctlr \cup idle /\ idle \cap FastModes = {}

\* The mode bits that are set in the controller or were read from it.
ModeFacts(F) ==
  /\ "erasing" \in F => Selected(ctlr, Left \cup {EraseMode(cmd.op)})
  /\ "optpg" \in F => "OPTPG" \in ctlr
  /\ "ftpg" \in F => "FTPG" \in ctlr
  /\ "mer" \in F => sealed \/ "MER" \in ctlr
  /\ "mer read" \in F => sealed \/ "MER" \in control

\* How far the option bytes and the page buffer are written.
ByteFacts(F) ==
  /\ "image0" \in F => WrittenUpTo(image, {})
  /\ "image1" \in F => WrittenUpTo(image, {"rdp"})
  /\ "image2" \in F => WrittenUpTo(image, {"rdp", "user"})
  /\ "image3" \in F => WrittenUpTo(image, Slots)
  /\ "buffer0" \in F => WrittenUpTo(buffer, {})
  /\ "buffer2" \in F => WrittenUpTo(buffer, {"rdp", "user"})
  /\ "buffer3" \in F => WrittenUpTo(buffer, Slots)

\* The erase of the code flash and the reset that loads the option bytes.
EraseFacts(F) ==
  /\ "tried" \in F => (~code \/ wrperr) /\ ~held
  /\ "wiped" \in F => ~code
  /\ "loaded" \in F => ~sealed /\ obr = (image.rdp # "unprotected")

\* What the facts F say of the state.
Holds(F) == StageFacts(F) /\ LockFacts(F) /\ ModeFacts(F) /\ ByteFacts(F) /\ EraseFacts(F)

-----------------------------------------------------------------------------
(* The flow of the facts through an access.  F holds before the access x,  *)
(* G after it; the operation op and the family f are those of the command. *)

\* The facts `gained` if the facts `needed` are there.
Gain(F, needed, gained) == {g \in gained : needed \subseteq F}

\* The facts about the option bytes.
ImageFacts == {"image0", "image1", "image2", "image3"}

\* The facts about the page buffer.
BufferFacts == {"buffer0", "buffer2", "buffer3"}

\* BSY clears while something runs; with nothing started, a wait of a command
\* that has not touched the target may time out, but none of a V20X erase does.
WaitFlow(op, f, F, G) ==
  /\ G \subseteq F \cup {"freed"}
  /\ IF "drive" \in F THEN op = "erase_all" => "tried" \in F
     ELSE "quiet" \in F /\ (op = "erase_all" => f # "V20X")

\* A control word that is read is the controller's.
ReadFlow(op, F, x, G) ==
  /\ "drive" \in F => "erasing" \in F
  /\ G \subseteq (F \ {"mer read"}) \cup {"read", "same"} \cup Gain(F, {"mer"}, {"mer read"})

\* The fact that the first key of a register has been taken.
KeyOf(reg) ==
  IF reg = "main" THEN "main key" ELSE IF reg = "fast" THEN "fast key" ELSE "option key"

\* Whether the code writes the keys of the register when its lock is closed.
ClosedLockAsked(reg, when) ==
  \/ reg = "main" /\ "LOCK" \in when
  \/ reg = "fast" /\ "FLOCK" \in when

\* Keys are written before idle_control is read, or while it keeps the locks
\* open.  A second key opens its lock if both keys are sure to be written.
KeyFlow(op, F, x, G) ==
  /\ IF "drive" \in F THEN "armed" \in F ELSE "quiet" \in F
  /\ x.key \in {1, 2} /\ x.reg \in {"main", "fast", "option"}
  /\ LET sure == x.when = {} \/ (ClosedLockAsked(x.reg, x.when) /\ "read" \in F)
         kept == F \ {"same", "checked", "over"}
     IN IF x.key = 1 THEN G \subseteq kept \cup {g \in {KeyOf(x.reg)} : sure}
        ELSE G \subseteq (kept \ {KeyOf(x.reg)})
               \cup {g \in Gain(F, {KeyOf(x.reg), "main"}, {"option"}) : x.reg = "option" /\ sure}
               \cup {g \in Gain(F, {KeyOf(x.reg)}, {x.reg}) : x.reg # "option" /\ sure}

\* A check asks for no lock that was not unlocked before it.
CheckFlow(op, f, F, x, G) ==
  /\ "same" \in F /\ x.off \subseteq Locks /\ x.on \subseteq {"OPTWRE"}
  /\ \/ /\ "quiet" \in F /\ "main" \in F /\ x.fail = "return"
        /\ "FLOCK" \in x.off => "fast" \in F
        /\ x.on # {} => "option" \in F
        /\ op # "erase_all" => /\ "LOCK" \in x.off /\ x.on = {"OPTWRE"}
                               /\ WritesAll(op, f) => "FLOCK" \in x.off
        /\ G \subseteq F \cup {g \in {"checked"} : op # "erase_all"}
     \/ /\ "drive" \in F /\ "armed" \in F
        /\ "FLOCK" \in x.off => WritesAll(op, f)
        /\ G \subseteq F

\* idle_control takes the mode of the erase out before a write uses it.
IdleFlow(op, F, x, G) ==
  /\ "same" \in F
  /\ \/ /\ "quiet" \in F /\ op = "erase_all"
        /\ G \subseteq (F \ {"quiet", "words", "freed", "armed", "unlocked"})
              \cup {"drive", "erasing"}
     \/ /\ "quiet" \in F /\ op # "erase_all" /\ {"checked", "words", "freed"} \subseteq F /\ "OPTWRE" \notin x.clear
        /\ G \subseteq (F \ {"quiet", "words", "freed", "checked", "unlocked"}) \cup {"drive", "erasing", "armed"}
     \/ /\ {"drive", "armed"} \subseteq F /\ "OPTER" \in x.clear /\ op # "erase_all"
        /\ G \subseteq (F \ {"quiet", "words", "armed", "unlocked"})
              \cup {g \in {"armed"} : "OPTWRE" \notin x.clear}
              \cup {g \in {"unlocked"} : FastModes \subseteq x.clear}

\* A control write starts only an erase of its own operation, or the
\* programming of a complete page buffer.
ControlFlow(op, f, F, bits, G) ==
  /\ "drive" \in F /\ bits \subseteq Modes \cup {"STRT"}
  /\ "MER" \in bits => op = "erase_all"
  /\ "STRT" \in bits =>
       bits = {EraseMode(op), "STRT"}
       \/ (bits = {"FTPG", "STRT"} /\ {"unlocked", "buffer3"} \subseteq F /\ op # "erase_all"
           /\ WritesAll(op, f))
  /\ G \subseteq (F \cap {"drive", "main", "armed", "unlocked", "mer read", "tried", "wiped"})
       \cup {g \in F \cap {"erasing"} : bits \subseteq {EraseMode(op), "STRT"}}
       \cup {g \in F \cap ImageFacts : "STRT" \notin bits}
       \cup {g \in F \cap BufferFacts : "STRT" \notin bits /\ "BUFRST" \notin bits /\ "unlocked" \in F}
       \cup {g \in Gain(F, {"armed"}, {"optpg"}) : "OPTPG" \in bits}
       \cup {g \in Gain(F, {"unlocked"}, {"ftpg"}) : "FTPG" \in bits}
       \cup {g \in Gain(F, {"main"}, {"mer"}) : "MER" \in bits}
       \cup {g \in Gain(F, {"main"}, {"tried"}) : bits = {"MER", "STRT"}}
       \cup {g \in Gain(F, {"armed"}, {"image0"}) : bits = {"OPTER", "STRT"}}
       \cup {g \in Gain(F, {"unlocked", "buffer3"}, {"image3"}) : bits = {"FTPG", "STRT"}}
       \cup {g \in Gain(F, {"unlocked"}, {"buffer0"}) : "BUFRST" \in bits}

\* The start bit of the V20X erase goes into the control word just read.
StartFlow(op, F, G) ==
  /\ op = "erase_all" /\ {"drive", "same", "erasing", "main", "mer read"} \subseteq F
  /\ G \subseteq (F \cap {"drive", "main", "erasing", "mer read", "wiped"}) \cup {"tried"}

\* Half words are written in order, into erased option bytes.
HalfFlow(op, f, F, x, G) ==
  /\ op # "erase_all" /\ "drive" \in F
  /\ x.slot \in (IF WritesAll(op, f) THEN Slots ELSE {"rdp"})
  /\ LET sure == {"armed", "optpg"} IN
     G \subseteq (F \cap {"drive", "armed"})
       \cup {g \in Gain(F, sure \cup {"image0"}, {"image1"}) : x.slot = "rdp"}
       \cup {g \in Gain(F, sure \cup {"image1"}, {"image2"}) : x.slot = "user"}
       \cup {g \in Gain(F, sure \cup {"image2"}, {"image3"}) : x.slot = "rest"}

\* Words are loaded in order, into a page buffer that was cleared.
WordFlow(op, F, x, G) ==
  /\ "drive" \in F
  /\ G \subseteq (F \cap {"drive", "unlocked"})
       \cup {g \in Gain(F, {"ftpg", "buffer0"}, {"buffer2"}) : x.slots = {"rdp", "user"}}
       \cup {g \in Gain(F, {"ftpg", "buffer2"}, {"buffer3"}) : x.slots = {"rest"}}

\* The clean-up write of an option program locks the controller.
CleanFlow(op, F, x, G) ==
  /\ "drive" \in F /\ x.set \subseteq Locks
  /\ IF op = "erase_all" THEN x.set = {} ELSE "OPTWRE" \in x.clear /\ "LOCK" \in x.set
  /\ G \subseteq (F \cap (ImageFacts \cup {"wiped"})) \cup {"over"}

\* What is known when the program of a command has succeeded.
FinalFacts(op, f) ==
  IF op = "erase_all" THEN {"over", "wiped"} \cup {g \in {"loaded"} : f = "V20X"}
  ELSE {"over", "loaded", IF WritesAll(op, f) THEN "image3" ELSE "image1"}

\* The read protection is compared before anything is written and after the
\* reset.
StatusFlow(op, f, F, x, G) ==
  /\ op \in {"protect", "unprotect"} /\ x.protect = (op = "protect") /\ G \subseteq F
  /\ IF x.when = "before" THEN "quiet" \in F ELSE FinalFacts(op, f) \subseteq F

\* A failed access goes to the cleanup label exactly when idle_control is
\* valid; the V20X erase alone returns without it, with no mode but MER set.
FailFlow(op, f, F, x) ==
  IF "drive" \in F
  THEN \/ x.fail = "cleanup"
       \/ /\ x.fail = "return" /\ op = "erase_all" /\ f = "V20X" /\ "erasing" \in F
          /\ x.do \in {"read", "start"} \/ (x.do = "ctl" /\ x.bits \subseteq {"MER", "STRT"})
  ELSE x.fail = "return" /\ ("quiet" \in F \/ "over" \in F)

\* The access x leads from the facts F to the facts G.
Flow(op, f, F, x, G) ==
  /\ "drive" \in F /\ x.do # "clean" => "drive" \in G
  /\ x.do \in {"idle", "clean"} \/ FailFlow(op, f, F, x)
  /\ \/ x.do = "wait" /\ WaitFlow(op, f, F, G)
     \/ x.do = "read" /\ ReadFlow(op, F, x, G)
     \/ x.do = "key" /\ KeyFlow(op, F, x, G)
     \/ x.do = "check" /\ CheckFlow(op, f, F, x, G)
     \/ x.do = "idle" /\ IdleFlow(op, F, x, G)
     \/ x.do = "ctl" /\ ControlFlow(op, f, F, x.bits, G)
     \/ x.do = "start" /\ StartFlow(op, F, G)
     \/ x.do = "wrp" /\ x.fail = "cleanup" /\ G \subseteq F \cup Gain(F, {"tried"}, {"wiped"})
     \/ x.do = "clearstatus" /\ "drive" \in F /\ G \subseteq F \ {"tried"}
     \/ x.do = "half" /\ HalfFlow(op, f, F, x, G)
     \/ x.do = "word" /\ WordFlow(op, F, x, G)
     \/ x.do = "address" /\ G \subseteq F
     \/ x.do = "clean" /\ CleanFlow(op, F, x, G)
     \/ x.do = "reset" /\ x.fail = "return" /\ "over" \in F
           /\ G \subseteq (F \cap (ImageFacts \cup {"over", "wiped"})) \cup {"loaded"}
     \/ x.do = "image" /\ "quiet" \in F /\ G \subseteq {"quiet", "words"}
     \/ x.do = "status" /\ StatusFlow(op, f, F, x, G)
     \/ x.do = "verify" /\ op \in {"set_option_bytes", "set_memory_type"}
           /\ FinalFacts(op, f) \subseteq F /\ G \subseteq F

\* What is known when a command starts.
FirstFacts(op, f) ==
  {"quiet"} \cup {g \in {"words"} : op = "set_option_bytes" \/ ~WritesAll(op, f)}

-----------------------------------------------------------------------------
(* Annotated programs.                                                     *)

\* h holds the facts before each access of the program p.
Annotates(h, op, f, F, p, G) ==
  /\ h[1] = F /\ h[Len(p) + 1] = G
  /\ \A i \in 1 .. Len(p) : Flow(op, f, h[i], p[i], h[i + 1])

\* The program p leads from the facts F to the facts G.
Carries(op, f, F, p, G) == (\E S : p \in Seq(S)) /\ \E h : Annotates(h, op, f, F, p, G)

\* A program of one access.
LEMMA CarriesOne ==
  ASSUME NEW op, NEW f, NEW F, NEW G, NEW x, Flow(op, f, F, x, G)
  PROVE  Carries(op, f, F, <<x>>, G)
<1> DEFINE h == [i \in 1 .. 2 |-> IF i = 1 THEN F ELSE G]
<1>1. <<x>> \in Seq({x}) /\ Len(<<x>>) = 1 /\ <<x>>[1] = x  OBVIOUS
<1>2. h[1] = F /\ h[2] = G  OBVIOUS
<1> DEFINE p == <<x>>
<1>3. /\ p \in Seq({x})
      /\ Len(p) + 1 = 2 /\ \A i \in 1 .. Len(p) : i = 1 /\ p[i] = x /\ i + 1 = 2
  BY <1>1
<1> HIDE DEF h, p
<1>4. \A i \in 1 .. Len(p) : Flow(op, f, h[i], p[i], h[i + 1])
  BY <1>2, <1>3
<1>5. Carries(op, f, F, p, G)
  BY <1>2, <1>3, <1>4 DEF Carries, Annotates
<1> QED BY <1>5 DEF p

\* Programs one after the other.
LEMMA CarriesConcat ==
  ASSUME NEW op, NEW f, NEW F, NEW G, NEW H, NEW p, NEW q,
         Carries(op, f, F, p, G), Carries(op, f, G, q, H)
  PROVE  Carries(op, f, F, p \o q, H)
<1>1. PICK S, T : p \in Seq(S) /\ q \in Seq(T)  BY DEF Carries, Annotates
<1>2. p \in Seq(S \cup T) /\ q \in Seq(S \cup T)  BY <1>1, SeqMonotonic
<1>3. /\ p \o q \in Seq(S \cup T) /\ Len(p \o q) = Len(p) + Len(q)
      /\ \A i \in 1 .. Len(p) + Len(q) :
           (p \o q)[i] = IF i <= Len(p) THEN p[i] ELSE q[i - Len(p)]
  BY <1>2, ConcatProperties
<1>4. PICK h : /\ h[1] = F /\ h[Len(p) + 1] = G
               /\ \A i \in 1 .. Len(p) : Flow(op, f, h[i], p[i], h[i + 1])
  BY DEF Carries, Annotates
<1>5. PICK k : /\ k[1] = G /\ k[Len(q) + 1] = H
               /\ \A i \in 1 .. Len(q) : Flow(op, f, k[i], q[i], k[i + 1])
  BY DEF Carries, Annotates
<1> DEFINE l == [i \in 1 .. Len(p) + Len(q) + 1 |-> IF i <= Len(p) THEN h[i] ELSE k[i - Len(p)]]
<1>6. Len(p) \in Nat /\ Len(q) \in Nat  BY <1>1, LenProperties
<1>7. \A i \in 1 .. Len(p) : l[i] = h[i] /\ l[i + 1] = h[i + 1]
  BY <1>4, <1>5, <1>6
<1>8. \A i \in Len(p) + 1 .. Len(p) + Len(q) :
        /\ i - Len(p) \in 1 .. Len(q)
        /\ l[i] = k[i - Len(p)] /\ l[i + 1] = k[(i - Len(p)) + 1]
  BY <1>6
<1>9. l[1] = F /\ l[Len(p) + Len(q) + 1] = H  BY <1>4, <1>5, <1>6
<1> HIDE DEF l
<1>10. ASSUME NEW i \in 1 .. Len(p \o q)
       PROVE  Flow(op, f, l[i], (p \o q)[i], l[i + 1])
  <2>1. CASE i \in 1 .. Len(p)
    <3>1. (p \o q)[i] = p[i]  BY <1>3, <1>6, <2>1
    <3> QED BY <1>4, <1>7, <2>1, <3>1
  <2>2. CASE i \in Len(p) + 1 .. Len(p) + Len(q)
    <3>1. (p \o q)[i] = q[i - Len(p)]  BY <1>3, <1>6, <2>2
    <3> QED BY <1>5, <1>8, <2>2, <3>1
  <2> QED BY <1>3, <1>6, <2>1, <2>2
<1> QED BY <1>3, <1>9, <1>10 DEF Carries, Annotates

\* A program of two accesses.
LEMMA CarriesTwo ==
  ASSUME NEW op, NEW f, NEW F, NEW G, NEW H, NEW x, NEW y,
         Flow(op, f, F, x, G), Flow(op, f, G, y, H)
  PROVE  Carries(op, f, F, <<x, y>>, H)
<1>1. Carries(op, f, F, <<x>>, G) /\ Carries(op, f, G, <<y>>, H)  BY CarriesOne
<1>2. <<x>> \o <<y>> = <<x, y>>
  <2>1. /\ <<x>> \in Seq({x, y}) /\ <<y>> \in Seq({x, y}) /\ <<x, y>> \in Seq({x, y})
        /\ Len(<<x>>) = 1 /\ Len(<<y>>) = 1 /\ Len(<<x, y>>) = 2
        /\ <<x>>[1] = x /\ <<y>>[1] = y /\ <<x, y>>[1] = x /\ <<x, y>>[2] = y
    OBVIOUS
  <2> DEFINE p == <<x>>
             q == <<y>>
             r == <<x, y>>
  <2> HIDE DEF p, q, r
  <2>2. /\ p \o q \in Seq({x, y}) /\ Len(p \o q) = 2
        /\ (p \o q)[1] = x /\ (p \o q)[2] = y
    BY <2>1, ConcatProperties DEF p, q
  <2>3. /\ r \in Seq({x, y}) /\ Len(r) = 2
        /\ \A i \in 1 .. Len(p \o q) : (p \o q)[i] = r[i]
    <3>1. r \in Seq({x, y}) /\ Len(r) = 2 /\ r[1] = x /\ r[2] = y
      BY <2>1 DEF r
    <3>2. \A i \in 1 .. 2 : i = 1 \/ i = 2
      OBVIOUS
    <3> QED BY <2>2, <3>1, <3>2
  <2>4. p \o q = r
    BY <2>2, <2>3, SeqEqual
  <2> QED BY <2>4 DEF p, q, r
<1> QED BY <1>1, <1>2, CarriesConcat

-----------------------------------------------------------------------------
(* The programs of the drivers, one lemma per function.                    *)

\* rvswd_flash_option_unlock with closed locks takes all three sequences.
LEMMA OptionUnlockCarries ==
  ASSUME NEW op, NEW f
  PROVE  Carries(op, f, {"quiet", "words", "freed"}, OptionUnlock("return"),
                 {"quiet", "words", "freed", "main", "fast", "option"})
<1>1. Carries(op, f, {"quiet", "words", "freed"}, Keys("main", {}, "return"), {"quiet", "words", "freed", "main"})
  <2>1. Flow(op, f, {"quiet", "words", "freed"}, Key("main", 1, {}, "return"),
             {"quiet", "words", "freed", "main key"})
    BY DEF Flow, FailFlow, Gain, Key, KeyFlow, KeyOf
  <2>2. Flow(op, f, {"quiet", "words", "freed", "main key"}, Key("main", 2, {}, "return"),
             {"quiet", "words", "freed", "main"})
    BY DEF Flow, FailFlow, Gain, Key, KeyFlow, KeyOf
  <2> QED BY <2>1, <2>2, CarriesTwo DEF Keys
<1>2. Carries(op, f, {"quiet", "words", "freed", "main"}, Keys("fast", {}, "return"),
              {"quiet", "words", "freed", "main", "fast"})
  <2>1. Flow(op, f, {"quiet", "words", "freed", "main"}, Key("fast", 1, {}, "return"),
             {"quiet", "words", "freed", "main", "fast key"})
    BY DEF Flow, FailFlow, Gain, Key, KeyFlow, KeyOf
  <2>2. Flow(op, f, {"quiet", "words", "freed", "main", "fast key"}, Key("fast", 2, {}, "return"),
             {"quiet", "words", "freed", "main", "fast"})
    BY DEF Flow, FailFlow, Gain, Key, KeyFlow, KeyOf
  <2> QED BY <2>1, <2>2, CarriesTwo DEF Keys
<1>3. Carries(op, f, {"quiet", "words", "freed", "main", "fast"}, Keys("option", {}, "return"),
              {"quiet", "words", "freed", "main", "fast", "option"})
  <2>1. Flow(op, f, {"quiet", "words", "freed", "main", "fast"}, Key("option", 1, {}, "return"),
             {"quiet", "words", "freed", "main", "fast", "option key"})
    BY DEF Flow, FailFlow, Gain, Key, KeyFlow, KeyOf
  <2>2. Flow(op, f, {"quiet", "words", "freed", "main", "fast", "option key"},
             Key("option", 2, {}, "return"), {"quiet", "words", "freed", "main", "fast", "option"})
    BY DEF Flow, FailFlow, Gain, Key, KeyFlow, KeyOf
  <2> QED BY <2>1, <2>2, CarriesTwo DEF Keys
<1> QED BY <1>1, <1>2, <1>3, CarriesConcat DEF OptionUnlock

\* Keys that are written again while the locks are open change nothing.
LEMMA KeysWhileArmed ==
  ASSUME NEW op, NEW f, NEW reg \in {"main", "fast", "option"}, NEW when,
         NEW E \in {{"drive", "armed", "erasing", "image0"},
                   {"drive", "armed", "erasing", "image0", "same"}}
  PROVE  Carries(op, f, E, Keys(reg, when, "cleanup"), {"drive", "armed", "erasing", "image0"})
<1> DEFINE F == {"drive", "armed", "erasing", "image0"}
<1>1. Flow(op, f, E, Key(reg, 1, when, "cleanup"), F)
  BY DEF Flow, FailFlow, Gain, Key, KeyFlow, KeyOf
<1>2. Flow(op, f, F, Key(reg, 2, when, "cleanup"), F)
  BY DEF Flow, FailFlow, Gain, Key, KeyFlow, KeyOf
<1> QED BY <1>1, <1>2, CarriesTwo DEF Keys

\* The shared part of the option programs ends with erased option bytes and
\* with locks that idle_control keeps open.
LEMMA OptionEraseCarries ==
  ASSUME NEW op, NEW f, NEW off, NEW clear, op # "erase_all",
         off \subseteq Locks, "LOCK" \in off, WritesAll(op, f) => "FLOCK" \in off,
         "OPTWRE" \notin clear
  PROVE  Carries(op, f, {"quiet", "words"}, OptionErase(off, clear), {"drive", "armed", "erasing", "image0", "same"})
<1>1. Carries(op, f, {"quiet", "words"}, Wait("return"),
       {"quiet", "words", "freed"})
  BY CarriesOne DEF Flow, FailFlow, Gain, Wait, WaitFlow
<1>2. Carries(op, f, {"quiet", "words", "freed"}, ReadCtlr("return"),
       {"quiet", "words", "freed"})
  BY CarriesOne DEF Flow, FailFlow, Gain, ReadCtlr, ReadFlow
<1>3. Carries(op, f, {"quiet", "words", "freed"}, OptionUnlock("return"),
       {"quiet", "words", "freed", "main", "fast", "option"})
  BY OptionUnlockCarries
<1>4. Carries(op, f, {"quiet", "words", "freed", "main", "fast", "option"}, ReadCtlr("return"),
       {"quiet", "words", "freed", "main", "fast", "option", "same"})
  BY CarriesOne DEF Flow, FailFlow, Gain, ReadCtlr, ReadFlow
<1>5. Carries(op, f, {"quiet", "words", "freed", "main", "fast", "option", "same"}, Unlocked(off, {"OPTWRE"}, "return"),
       {"quiet", "words", "freed", "same", "checked"})
  BY CarriesOne DEF Flow, FailFlow, Gain, Unlocked, CheckFlow, WritesAll
<1>6. Carries(op, f, {"quiet", "words", "freed", "same", "checked"}, Idle(clear),
       {"drive", "armed", "erasing"})
  BY CarriesOne DEF Flow, FailFlow, Gain, Idle, IdleFlow
<1>7. Carries(op, f, {"drive", "armed", "erasing"}, Write({"OPTER"}, "cleanup"),
       {"drive", "armed", "erasing"})
  BY CarriesOne DEF Flow, FailFlow, Gain, Write, ControlFlow, Modes, EraseMode,
     ImageFacts, BufferFacts
<1>8. Carries(op, f, {"drive", "armed", "erasing"}, Write({"OPTER", "STRT"}, "cleanup"),
       {"drive", "armed", "erasing", "image0"})
  BY CarriesOne DEF Flow, FailFlow, Gain, Write, ControlFlow, Modes, EraseMode,
     ImageFacts, BufferFacts
<1>9. Carries(op, f, {"drive", "armed", "erasing", "image0"}, Wait("cleanup"),
       {"drive", "armed", "erasing", "image0"})
  BY CarriesOne DEF Flow, FailFlow, Gain, Wait, WaitFlow
<1>10. Carries(op, f, {"drive", "armed", "erasing", "image0"}, Protected("cleanup"),
       {"drive", "armed", "erasing", "image0"})
  BY CarriesOne DEF Flow, FailFlow, Gain, Protected
<1>11. Carries(op, f, {"drive", "armed", "erasing", "image0"}, ReadCtlr("cleanup"),
       {"drive", "armed", "erasing", "image0", "same"})
  BY CarriesOne DEF Flow, FailFlow, Gain, ReadCtlr, ReadFlow
<1> QED BY <1>1, <1>2, <1>3, <1>4, <1>5, <1>6, <1>7, <1>8, <1>9, <1>10, <1>11,
    CarriesConcat DEF OptionErase

\* The second unlock of the option programs.
LEMMA OptionUnlockAgain ==
  ASSUME NEW op, NEW f
  PROVE  Carries(op, f, {"drive", "armed", "erasing", "image0", "same"}, OptionUnlock("cleanup"),
                 {"drive", "armed", "erasing", "image0"})
BY KeysWhileArmed, CarriesConcat DEF OptionUnlock

\* One half word of the option bytes.
LEMMA HalfwordCarries ==
  ASSUME NEW op, NEW f, op # "erase_all", NEW slot \in Slots, NEW F, NEW G,
         \/ slot = "rdp" /\ F = "image0" /\ G = "image1"
         \/ slot = "user" /\ F = "image1" /\ G = "image2" /\ WritesAll(op, f)
         \/ slot = "rest" /\ F = "image2" /\ G = "image3" /\ WritesAll(op, f)
  PROVE  Carries(op, f, {"drive", "armed", F}, Halfword(slot), {"drive", "armed", G})
<1>1. Carries(op, f, {"drive", "armed", F}, Write({"OPTPG"}, "cleanup"),
              {"drive", "armed", "optpg", F})
  BY CarriesOne DEF Flow, FailFlow, Gain, Write, ControlFlow, Modes, EraseMode,
     ImageFacts, BufferFacts
<1>2. Carries(op, f, {"drive", "armed", "optpg", F},
              <<[do |-> "half", slot |-> slot, fail |-> "cleanup"]>>, {"drive", "armed", G})
  BY CarriesOne DEF Flow, FailFlow, Gain, HalfFlow, Slots, ImageFacts
<1>3. Carries(op, f, {"drive", "armed", G}, Wait("cleanup"), {"drive", "armed", G})
  BY CarriesOne DEF Flow, FailFlow, Gain, Wait, WaitFlow
<1>4. Carries(op, f, {"drive", "armed", G}, Protected("cleanup"), {"drive", "armed", G})
  BY CarriesOne DEF Flow, FailFlow, Gain, Protected
<1> QED BY <1>1, <1>2, <1>3, <1>4, CarriesConcat DEF Halfword

\* rvswd_flash_option_write_halfword writes all slots.
LEMMA WriteHalfwordCarries ==
  ASSUME NEW op, NEW f, op # "erase_all", WritesAll(op, f)
  PROVE  Carries(op, f, {"quiet", "words"}, WriteHalfword, {"over", "image3"})
<1>1. Carries(op, f, {"quiet", "words"}, OptionErase(Locks, {"OPTPG", "OPTER"}),
       {"drive", "armed", "erasing", "image0", "same"})
  BY OptionEraseCarries DEF Locks
<1>2. Carries(op, f, {"drive", "armed", "erasing", "image0", "same"}, OptionUnlock("cleanup"),
       {"drive", "armed", "erasing", "image0"})
  BY OptionUnlockAgain
<1>3. Carries(op, f, {"drive", "armed", "erasing", "image0"}, ReadCtlr("cleanup"),
       {"drive", "armed", "erasing", "image0", "same"})
  BY CarriesOne DEF Flow, FailFlow, Gain, ReadCtlr, ReadFlow
<1>4. Carries(op, f, {"drive", "armed", "erasing", "image0", "same"}, Unlocked(Locks, {"OPTWRE"}, "cleanup"),
       {"drive", "armed", "erasing", "image0", "same"})
  BY CarriesOne DEF Flow, FailFlow, Gain, Unlocked, CheckFlow, WritesAll
<1>5. Carries(op, f, {"drive", "armed", "erasing", "image0", "same"}, Idle({"OPTPG", "OPTER"}),
       {"drive", "armed", "image0"})
  BY CarriesOne DEF Flow, FailFlow, Gain, Idle, IdleFlow
<1>6. Carries(op, f, {"drive", "armed", "image0"}, Halfword("rdp"),
       {"drive", "armed", "image1"})
  BY HalfwordCarries DEF Slots
<1>7. Carries(op, f, {"drive", "armed", "image1"}, Halfword("user"),
       {"drive", "armed", "image2"})
  BY HalfwordCarries DEF Slots
<1>8. Carries(op, f, {"drive", "armed", "image2"}, Halfword("rest"),
       {"drive", "armed", "image3"})
  BY HalfwordCarries DEF Slots
<1>9. Carries(op, f, {"drive", "armed", "image3"}, Cleanup({"OPTWRE"}, Locks),
       {"over", "image3"})
  BY CarriesOne DEF Flow, FailFlow, Gain, Cleanup, CleanFlow, ImageFacts, Locks
<1> QED BY <1>1, <1>2, <1>3, <1>4, <1>5, <1>6, <1>7, <1>8, <1>9,
    CarriesConcat DEF WriteHalfword

\* rvswd_flash_option_unprotect writes RDP.
LEMMA UnprotectCarries ==
  ASSUME NEW op, NEW f, op # "erase_all", ~WritesAll(op, f)
  PROVE  Carries(op, f, {"quiet", "words"}, Unprotect, {"over", "image1"})
<1>1. Carries(op, f, {"quiet", "words"}, OptionErase({"LOCK"}, {"OPTPG", "OPTER"}),
       {"drive", "armed", "erasing", "image0", "same"})
  BY OptionEraseCarries DEF Locks
<1>2. Carries(op, f, {"drive", "armed", "erasing", "image0", "same"}, OptionUnlock("cleanup"),
       {"drive", "armed", "erasing", "image0"})
  BY OptionUnlockAgain
<1>3. Carries(op, f, {"drive", "armed", "erasing", "image0"}, ReadCtlr("cleanup"),
       {"drive", "armed", "erasing", "image0", "same"})
  BY CarriesOne DEF Flow, FailFlow, Gain, ReadCtlr, ReadFlow
<1>4. Carries(op, f, {"drive", "armed", "erasing", "image0", "same"}, Unlocked({"LOCK"}, {"OPTWRE"}, "cleanup"),
       {"drive", "armed", "erasing", "image0", "same"})
  BY CarriesOne DEF Flow, FailFlow, Gain, Unlocked, CheckFlow, WritesAll, Locks
<1>5. Carries(op, f, {"drive", "armed", "erasing", "image0", "same"}, Idle({"OPTPG", "OPTER"}),
       {"drive", "armed", "image0"})
  BY CarriesOne DEF Flow, FailFlow, Gain, Idle, IdleFlow
<1>6. Carries(op, f, {"drive", "armed", "image0"}, Halfword("rdp"),
       {"drive", "armed", "image1"})
  BY HalfwordCarries DEF Slots
<1>7. Carries(op, f, {"drive", "armed", "image1"}, Cleanup({"OPTWRE"}, {"LOCK"}),
       {"over", "image1"})
  BY CarriesOne DEF Flow, FailFlow, Gain, Cleanup, CleanFlow, ImageFacts, Locks
<1> QED BY <1>1, <1>2, <1>3, <1>4, <1>5, <1>6, <1>7, CarriesConcat DEF Unprotect

\* One word of the page buffer.
LEMMA LoadWordCarries ==
  ASSUME NEW op, NEW f, op # "erase_all", NEW slots, NEW F, NEW G,
         \/ slots = {"rdp", "user"} /\ F = "buffer0" /\ G = "buffer2"
         \/ slots = {"rest"} /\ F = "buffer2" /\ G = "buffer3"
  PROVE  Carries(op, f, {"drive", "unlocked", F}, LoadWord(slots), {"drive", "unlocked", G})
<1>1. Carries(op, f, {"drive", "unlocked", F}, Write({"FTPG"}, "cleanup"),
              {"drive", "unlocked", "ftpg", F})
  BY CarriesOne DEF Flow, FailFlow, Gain, Write, ControlFlow, Modes, EraseMode,
     ImageFacts, BufferFacts
<1>2. Carries(op, f, {"drive", "unlocked", "ftpg", F},
              <<[do |-> "word", slots |-> slots, fail |-> "cleanup"]>>, {"drive", "unlocked", G})
  BY CarriesOne DEF Flow, FailFlow, Gain, WordFlow, BufferFacts
<1>3. Carries(op, f, {"drive", "unlocked", G}, Write({"FTPG", "BUFLOAD"}, "cleanup"),
              {"drive", "unlocked", G})
  BY CarriesOne DEF Flow, FailFlow, Gain, Write, ControlFlow, Modes, EraseMode,
     ImageFacts, BufferFacts
<1>4. Carries(op, f, {"drive", "unlocked", G}, Wait("cleanup"), {"drive", "unlocked", G})
  BY CarriesOne DEF Flow, FailFlow, Gain, Wait, WaitFlow
<1>5. Carries(op, f, {"drive", "unlocked", G}, Write({}, "cleanup"), {"drive", "unlocked", G})
  BY CarriesOne DEF Flow, FailFlow, Gain, Write, ControlFlow, Modes, EraseMode,
     ImageFacts, BufferFacts
<1> QED BY <1>1, <1>2, <1>3, <1>4, <1>5, CarriesConcat DEF LoadWord

\* rvswd_flash_option_write_fast_buffer programs a complete page buffer.
LEMMA WriteFastBufferCarries ==
  ASSUME NEW op, NEW f, op # "erase_all", WritesAll(op, f)
  PROVE  Carries(op, f, {"quiet", "words"}, WriteFastBuffer, {"over", "image3"})
<1>1. Carries(op, f, {"quiet", "words"}, OptionErase(Locks, FastModes),
       {"drive", "armed", "erasing", "image0", "same"})
  BY OptionEraseCarries DEF Locks, FastModes
<1>2. Carries(op, f, {"drive", "armed", "erasing", "image0", "same"}, Keys("main", {"LOCK"}, "cleanup"),
       {"drive", "armed", "erasing", "image0"})
  BY KeysWhileArmed
<1>3. Carries(op, f, {"drive", "armed", "erasing", "image0"}, Keys("fast", {"FLOCK"}, "cleanup"),
       {"drive", "armed", "erasing", "image0"})
  BY KeysWhileArmed
<1>4. Carries(op, f, {"drive", "armed", "erasing", "image0"}, ReadCtlr("cleanup"),
       {"drive", "armed", "erasing", "image0", "same"})
  BY CarriesOne DEF Flow, FailFlow, Gain, ReadCtlr, ReadFlow
<1>5. Carries(op, f, {"drive", "armed", "erasing", "image0", "same"}, Unlocked(Locks, {}, "cleanup"),
       {"drive", "armed", "erasing", "image0", "same"})
  BY CarriesOne DEF Flow, FailFlow, Gain, Unlocked, CheckFlow, WritesAll
<1>6. Carries(op, f, {"drive", "armed", "erasing", "image0", "same"}, Idle(FastModes \cup {"OPTWRE"}),
       {"drive", "unlocked"})
  BY CarriesOne DEF Flow, FailFlow, Gain, Idle, IdleFlow, FastModes
<1>7. Carries(op, f, {"drive", "unlocked"}, Write({"FTPG"}, "cleanup"),
       {"drive", "unlocked"})
  BY CarriesOne DEF Flow, FailFlow, Gain, Write, ControlFlow, Modes, EraseMode,
     ImageFacts, BufferFacts
<1>8. Carries(op, f, {"drive", "unlocked"}, Write({"FTPG", "BUFRST"}, "cleanup"),
       {"drive", "unlocked", "buffer0"})
  BY CarriesOne DEF Flow, FailFlow, Gain, Write, ControlFlow, Modes, EraseMode,
     ImageFacts, BufferFacts
<1>9. Carries(op, f, {"drive", "unlocked", "buffer0"}, Wait("cleanup"),
       {"drive", "unlocked", "buffer0"})
  BY CarriesOne DEF Flow, FailFlow, Gain, Wait, WaitFlow
<1>10. Carries(op, f, {"drive", "unlocked", "buffer0"}, Write({}, "cleanup"),
       {"drive", "unlocked", "buffer0"})
  BY CarriesOne DEF Flow, FailFlow, Gain, Write, ControlFlow, Modes, EraseMode,
     ImageFacts, BufferFacts
<1>11. Carries(op, f, {"drive", "unlocked", "buffer0"}, LoadWord({"rdp", "user"}),
       {"drive", "unlocked", "buffer2"})
  BY LoadWordCarries
<1>12. Carries(op, f, {"drive", "unlocked", "buffer2"}, LoadWord({"rest"}),
       {"drive", "unlocked", "buffer3"})
  BY LoadWordCarries
<1>13. Carries(op, f, {"drive", "unlocked", "buffer3"}, Write({"FTPG"}, "cleanup"),
       {"drive", "unlocked", "buffer3"})
  BY CarriesOne DEF Flow, FailFlow, Gain, Write, ControlFlow, Modes, EraseMode,
     ImageFacts, BufferFacts
<1>14. Carries(op, f, {"drive", "unlocked", "buffer3"}, <<[do |-> "address", fail |-> "cleanup"]>>,
       {"drive", "unlocked", "buffer3"})
  BY CarriesOne DEF Flow, FailFlow, Gain, Flow
<1>15. Carries(op, f, {"drive", "unlocked", "buffer3"}, Write({"FTPG", "STRT"}, "cleanup"),
       {"drive", "image3"})
  BY CarriesOne DEF Flow, FailFlow, Gain, Write, ControlFlow, Modes, EraseMode,
     ImageFacts, BufferFacts
<1>16. Carries(op, f, {"drive", "image3"}, Wait("cleanup"),
       {"drive", "image3"})
  BY CarriesOne DEF Flow, FailFlow, Gain, Wait, WaitFlow
<1>17. Carries(op, f, {"drive", "image3"}, Protected("cleanup"),
       {"drive", "image3"})
  BY CarriesOne DEF Flow, FailFlow, Gain, Protected
<1>18. Carries(op, f, {"drive", "image3"}, Cleanup({"OPTWRE"}, Locks),
       {"over", "image3"})
  BY CarriesOne DEF Flow, FailFlow, Gain, Cleanup, CleanFlow, ImageFacts, Locks
<1> QED BY <1>1, <1>2, <1>3, <1>4, <1>5, <1>6, <1>7, <1>8, <1>9, <1>10, <1>11, <1>12,
    <1>13, <1>14, <1>15, <1>16, <1>17, <1>18, CarriesConcat DEF WriteFastBuffer

\* The unlock by the control word opens the main and the fast lock.
LEMMA EraseUnlockCarries ==
  ASSUME NEW op, NEW f, NEW fam
  PROVE  Carries(op, f, {"quiet", "read"}, EraseUnlock(fam), {"quiet", "main", "fast"})
<1>1. ASSUME NEW when, "LOCK" \in when
      PROVE  Carries(op, f, {"quiet", "read"}, Keys("main", when, "return"),
                     {"quiet", "read", "main"})
  <2>1. Flow(op, f, {"quiet", "read"}, Key("main", 1, when, "return"),
             {"quiet", "read", "main key"})
    BY <1>1 DEF Flow, FailFlow, Gain, Key, KeyFlow, KeyOf, ClosedLockAsked
  <2>2. Flow(op, f, {"quiet", "read", "main key"}, Key("main", 2, when, "return"),
             {"quiet", "read", "main"})
    BY <1>1 DEF Flow, FailFlow, Gain, Key, KeyFlow, KeyOf, ClosedLockAsked
  <2> QED BY <2>1, <2>2, CarriesTwo DEF Keys
<1>2. ASSUME NEW when
      PROVE  Carries(op, f, {"quiet", "read", "main"}, Keys("option", when, "return"),
                     {"quiet", "read", "main"})
  <2>1. Flow(op, f, {"quiet", "read", "main"}, Key("option", 1, when, "return"),
             {"quiet", "read", "main"})
    BY DEF Flow, FailFlow, Gain, Key, KeyFlow, KeyOf, ClosedLockAsked
  <2>2. Flow(op, f, {"quiet", "read", "main"}, Key("option", 2, when, "return"),
             {"quiet", "read", "main"})
    BY DEF Flow, FailFlow, Gain, Key, KeyFlow, KeyOf, ClosedLockAsked
  <2> QED BY <2>1, <2>2, CarriesTwo DEF Keys
<1>3. ASSUME NEW when, "FLOCK" \in when
      PROVE  Carries(op, f, {"quiet", "read", "main"}, Keys("fast", when, "return"),
                     {"quiet", "main", "fast"})
  <2>1. Flow(op, f, {"quiet", "read", "main"}, Key("fast", 1, when, "return"),
             {"quiet", "read", "main", "fast key"})
    BY <1>3 DEF Flow, FailFlow, Gain, Key, KeyFlow, KeyOf, ClosedLockAsked
  <2>2. Flow(op, f, {"quiet", "read", "main", "fast key"}, Key("fast", 2, when, "return"),
             {"quiet", "main", "fast"})
    BY <1>3 DEF Flow, FailFlow, Gain, Key, KeyFlow, KeyOf, ClosedLockAsked
  <2> QED BY <2>1, <2>2, CarriesTwo DEF Keys
<1>4. CASE fam = "L103"
  <2>1. "LOCK" \in Locks /\ "FLOCK" \in Locks  BY DEF Locks
  <2> QED BY <1>1, <1>2, <1>3, <1>4, <2>1, CarriesConcat DEF EraseUnlock
<1>5. CASE fam # "L103"
  <2>1. "LOCK" \in {"LOCK"} /\ "FLOCK" \in {"FLOCK"}  OBVIOUS
  <2> QED BY <1>1, <1>3, <1>5, <2>1, CarriesConcat DEF EraseUnlock
<1> QED BY <1>4, <1>5

\* rvswd_flash_ch32_erase_all succeeds with an erased code flash.
LEMMA EraseAllCh32Carries ==
  ASSUME NEW op, NEW f, NEW fam, op = "erase_all", f # "V20X"
  PROVE  Carries(op, f, {"quiet"}, EraseAllCh32(fam), {"over", "wiped"})
<1>1. Carries(op, f, {"quiet"}, Wait("return"),
       {"quiet"})
  BY CarriesOne DEF Flow, FailFlow, Gain, Wait, WaitFlow
<1>2. Carries(op, f, {"quiet"}, ReadCtlr("return"),
       {"quiet", "read"})
  BY CarriesOne DEF Flow, FailFlow, Gain, ReadCtlr, ReadFlow
<1>3. Carries(op, f, {"quiet", "read"}, EraseUnlock(fam),
       {"quiet", "main", "fast"})
  BY EraseUnlockCarries
<1>4. Carries(op, f, {"quiet", "main", "fast"}, ReadCtlr("return"),
       {"quiet", "main", "fast", "same"})
  BY CarriesOne DEF Flow, FailFlow, Gain, ReadCtlr, ReadFlow
<1>5. Carries(op, f, {"quiet", "main", "fast", "same"}, Unlocked(Locks, {}, "return"),
       {"quiet", "main", "same"})
  BY CarriesOne DEF Flow, FailFlow, Gain, Unlocked, CheckFlow, WritesAll
<1>6. Carries(op, f, {"quiet", "main", "same"}, Idle({"MER"}),
       {"drive", "main"})
  BY CarriesOne DEF Flow, FailFlow, Gain, Idle, IdleFlow
<1>7. Carries(op, f, {"drive", "main"}, <<[do |-> "clearstatus", fail |-> "cleanup"]>>,
       {"drive", "main"})
  BY CarriesOne DEF Flow, FailFlow, Gain
<1>8. Carries(op, f, {"drive", "main"}, Write({}, "cleanup"),
       {"drive", "main"})
  BY CarriesOne DEF Flow, FailFlow, Gain, Write, ControlFlow, Modes, EraseMode,
     ImageFacts, BufferFacts
<1>9. Carries(op, f, {"drive", "main"}, Write({"MER"}, "cleanup"),
       {"drive", "main"})
  BY CarriesOne DEF Flow, FailFlow, Gain, Write, ControlFlow, Modes, EraseMode,
     ImageFacts, BufferFacts
<1>10. Carries(op, f, {"drive", "main"}, Write({"MER", "STRT"}, "cleanup"),
       {"drive", "tried"})
  BY CarriesOne DEF Flow, FailFlow, Gain, Write, ControlFlow, Modes, EraseMode,
     ImageFacts, BufferFacts
<1>11. Carries(op, f, {"drive", "tried"}, Wait("cleanup"),
       {"drive", "tried"})
  BY CarriesOne DEF Flow, FailFlow, Gain, Wait, WaitFlow
<1>12. Carries(op, f, {"drive", "tried"}, Protected("cleanup"),
       {"drive", "wiped"})
  BY CarriesOne DEF Flow, FailFlow, Gain, Protected
<1>13. Carries(op, f, {"drive", "wiped"}, Cleanup({}, {}),
       {"over", "wiped"})
  BY CarriesOne DEF Flow, FailFlow, Gain, Cleanup, CleanFlow, ImageFacts
<1> QED BY <1>1, <1>2, <1>3, <1>4, <1>5, <1>6, <1>7, <1>8, <1>9, <1>10, <1>11, <1>12,
    <1>13, CarriesConcat DEF EraseAllCh32

\* rvswd_target_v20x_erase_all succeeds with an erased code flash and a reset
\* controller.
LEMMA EraseAllV20xCarries ==
  ASSUME NEW op, NEW f, op = "erase_all", f = "V20X"
  PROVE  Carries(op, f, {"quiet"}, EraseAllV20x, {"over", "wiped", "loaded"})
<1>1. Carries(op, f, {"quiet"}, Keys("main", {}, "return"),
       {"quiet", "main"})
  <2>1. Flow(op, f, {"quiet"}, Key("main", 1, {}, "return"), {"quiet", "main key"})
    BY DEF Flow, FailFlow, Gain, Key, KeyFlow, KeyOf
  <2>2. Flow(op, f, {"quiet", "main key"}, Key("main", 2, {}, "return"), {"quiet", "main"})
    BY DEF Flow, FailFlow, Gain, Key, KeyFlow, KeyOf
  <2> QED BY <2>1, <2>2, CarriesTwo DEF Keys
<1>2. Carries(op, f, {"quiet", "main"}, Keys("fast", {}, "return"),
       {"quiet", "main"})
  <2>1. Flow(op, f, {"quiet", "main"}, Key("fast", 1, {}, "return"), {"quiet", "main"})
    BY DEF Flow, FailFlow, Gain, Key, KeyFlow, KeyOf
  <2>2. Flow(op, f, {"quiet", "main"}, Key("fast", 2, {}, "return"), {"quiet", "main"})
    BY DEF Flow, FailFlow, Gain, Key, KeyFlow, KeyOf
  <2> QED BY <2>1, <2>2, CarriesTwo DEF Keys
<1>3. Carries(op, f, {"quiet", "main"}, ReadCtlr("return"),
       {"quiet", "main", "same"})
  BY CarriesOne DEF Flow, FailFlow, Gain, ReadCtlr, ReadFlow
<1>4. Carries(op, f, {"quiet", "main", "same"}, Idle({"MER"}),
       {"drive", "main", "erasing"})
  BY CarriesOne DEF Flow, FailFlow, Gain, Idle, IdleFlow
<1>5. Carries(op, f, {"drive", "main", "erasing"}, Write({"MER"}, "return"),
       {"drive", "main", "erasing", "mer"})
  BY CarriesOne DEF Flow, FailFlow, Gain, Write, ControlFlow, Modes, EraseMode,
     ImageFacts, BufferFacts
<1>6. Carries(op, f, {"drive", "main", "erasing", "mer"}, ReadCtlr("return"),
       {"drive", "main", "erasing", "same", "mer read"})
  BY CarriesOne DEF Flow, FailFlow, Gain, ReadCtlr, ReadFlow
<1>7. Carries(op, f, {"drive", "main", "erasing", "same", "mer read"}, <<[do |-> "start", fail |-> "return"]>>,
       {"drive", "tried"})
  BY CarriesOne DEF Flow, FailFlow, Gain, StartFlow
<1>8. Carries(op, f, {"drive", "tried"}, Wait("cleanup"),
       {"drive", "tried"})
  BY CarriesOne DEF Flow, FailFlow, Gain, Wait, WaitFlow
<1>9. Carries(op, f, {"drive", "tried"}, Protected("cleanup"),
       {"drive", "wiped"})
  BY CarriesOne DEF Flow, FailFlow, Gain, Protected
<1>10. Carries(op, f, {"drive", "wiped"}, Cleanup({}, {}),
       {"over", "wiped"})
  BY CarriesOne DEF Flow, FailFlow, Gain, Cleanup, CleanFlow, ImageFacts
<1>11. Carries(op, f, {"over", "wiped"}, Reset,
       {"over", "wiped", "loaded"})
  BY CarriesOne DEF Flow, FailFlow, Gain, Reset, ImageFacts
<1> QED BY <1>1, <1>2, <1>3, <1>4, <1>5, <1>6, <1>7, <1>8, <1>9, <1>10, <1>11,
    CarriesConcat DEF EraseAllV20x

\* profile->option_write of every family writes all slots.
LEMMA WriteWordsCarries ==
  ASSUME NEW op, NEW f, op # "erase_all", WritesAll(op, f)
  PROVE  Carries(op, f, {"quiet", "words"}, WriteWords(f), {"over", "image3"})
BY WriteHalfwordCarries, WriteFastBufferCarries DEF WriteWords

\* The reset loads the option bytes and keeps them.
LEMMA ResetCarries ==
  ASSUME NEW op, NEW f, NEW bytes \in {"image1", "image3"}
  PROVE  Carries(op, f, {"over", bytes}, Reset, {"over", "loaded", bytes})
BY CarriesOne DEF Flow, FailFlow, Gain, Reset, ImageFacts

\* rvswd_flash_set_read_protected, for both settings and all families.
LEMMA SetReadProtectedCarries ==
  ASSUME NEW op \in {"protect", "unprotect"}, NEW f
  PROVE  Carries(op, f, FirstFacts(op, f), SetReadProtected(op = "protect", f), FinalFacts(op, f))
<1> DEFINE bytes == IF WritesAll(op, f) THEN "image3" ELSE "image1"
<1>1. Carries(op, f, FirstFacts(op, f), Status("before", op = "protect"), FirstFacts(op, f))
  BY CarriesOne DEF Flow, FailFlow, Gain, Status, StatusFlow, FirstFacts
<1>2. Carries(op, f, FirstFacts(op, f),
              IF op = "protect" \/ HalfwordWrite(f) THEN ReadWords \o WriteWords(f) ELSE Unprotect,
              {"over", bytes})
  <2>1. CASE WritesAll(op, f)
    <3>1. FirstFacts(op, f) = {"quiet"}  BY <2>1 DEF FirstFacts
    <3>2. Carries(op, f, {"quiet"}, ReadWords, {"quiet", "words"})
      BY CarriesOne DEF Flow, FailFlow, Gain, ReadWords
    <3>3. op = "protect" \/ HalfwordWrite(f)  BY <2>1 DEF WritesAll
    <3> QED BY <2>1, <3>1, <3>2, <3>3, WriteWordsCarries, CarriesConcat
  <2>2. CASE ~WritesAll(op, f)
    <3>1. FirstFacts(op, f) = {"quiet", "words"}  BY <2>2 DEF FirstFacts
    <3>2. ~(op = "protect" \/ HalfwordWrite(f))  BY <2>2 DEF WritesAll
    <3> QED BY <2>2, <3>1, <3>2, UnprotectCarries
  <2> QED BY <2>1, <2>2
<1>3. Carries(op, f, {"over", bytes}, Reset, {"over", "loaded", bytes})
  BY ResetCarries
<1>4. FinalFacts(op, f) = {"over", "loaded", bytes}  BY DEF FinalFacts
<1>5. Carries(op, f, FinalFacts(op, f), Status("after", op = "protect"), FinalFacts(op, f))
  BY <1>4, CarriesOne DEF Flow, FailFlow, Gain, Status, StatusFlow
<1> HIDE DEF bytes
<1> QED BY <1>1, <1>2, <1>3, <1>4, <1>5, CarriesConcat DEF SetReadProtected

\* Every driver's program leads from the facts of a command's start to those
\* of its success (rvswd_flash_ch32.c, rvswd_target_v20x.c,
\* rvswd_flash_option.c): no register write meets a closed lock, every mode
\* bit is selected before its start bit, and a failed access goes where the
\* controller is cleaned up.
LEMMA ProgramsCarry ==
  ASSUME NEW op \in Operations, NEW f \in Families, Supported(op, f)
  PROVE  Carries(op, f, FirstFacts(op, f), Programs[op][f], FinalFacts(op, f))
<1>4. Programs[op][f] = ProgramOf(op, f)  BY DEF Programs
<1>1. CASE op = "erase_all"
  <2>1. FirstFacts(op, f) = {"quiet"}  BY <1>1 DEF FirstFacts, WritesAll
  <2>2. CASE f = "V20X"
    <3>1. ProgramOf(op, f) = EraseAllV20x  BY <1>1, <2>2, Zenon DEF ProgramOf
    <3>2. FinalFacts(op, f) = {"over", "wiped", "loaded"}  BY <1>1, <2>2 DEF FinalFacts
    <3> QED BY <1>1, <2>1, <2>2, <1>4, <3>1, <3>2, EraseAllV20xCarries
  <2>3. CASE f # "V20X"
    <3>1. ProgramOf(op, f) = EraseAllCh32(f)  BY <1>1, <2>3, Zenon DEF ProgramOf
    <3>2. FinalFacts(op, f) = {"over", "wiped"}  BY <1>1, <2>3 DEF FinalFacts
    <3> QED BY <1>1, <2>1, <2>3, <1>4, <3>1, <3>2, EraseAllCh32Carries
  <2> QED BY <2>2, <2>3
<1>2. CASE op \in {"protect", "unprotect"}
  <2>1. ProgramOf(op, f) = SetReadProtected(op = "protect", f)  BY <1>2, Zenon DEF ProgramOf
  <2> QED BY <1>2, <1>4, <2>1, SetReadProtectedCarries
<1>3. CASE op \in {"set_option_bytes", "set_memory_type"}
  <2>1. WritesAll(op, f)  BY <1>3 DEF WritesAll
  <2>2. FinalFacts(op, f) = {"over", "loaded", "image3"}  BY <1>3, <2>1 DEF FinalFacts
  <2>3. Carries(op, f, {"quiet", "words"}, WriteWords(f), {"over", "image3"})
    BY <1>3, <2>1, WriteWordsCarries
  <2>4. Carries(op, f, {"over", "image3"}, Reset, {"over", "loaded", "image3"})
    BY ResetCarries
  <2>5. Carries(op, f, {"over", "loaded", "image3"}, Verify, {"over", "loaded", "image3"})
    BY <1>3, <2>2, CarriesOne DEF Flow, FailFlow, Gain, Verify
  <2>6. Carries(op, f, {"quiet"}, ReadWords, {"quiet", "words"})
    BY CarriesOne DEF Flow, FailFlow, Gain, ReadWords
  <2>7. CASE op = "set_option_bytes"
    <3>1. ProgramOf(op, f) = WriteWords(f) \o Reset \o Verify  BY <2>7, Zenon DEF ProgramOf
    <3>2. FirstFacts(op, f) = {"quiet", "words"}  BY <2>7 DEF FirstFacts
    <3> QED BY <2>2, <2>3, <2>4, <2>5, <1>4, <3>1, <3>2, CarriesConcat
  <2>8. CASE op = "set_memory_type"
    <3>1. ProgramOf(op, f) = ReadWords \o WriteWords(f) \o Reset \o Verify
      BY <2>8, Zenon DEF ProgramOf
    <3>2. FirstFacts(op, f) = {"quiet"}  BY <2>8, <2>1 DEF FirstFacts
    <3>3. Carries(op, f, {"quiet"}, ReadWords \o WriteWords(f), {"over", "image3"})
      BY <2>3, <2>6, CarriesConcat
    <3>4. Carries(op, f, {"quiet"}, ReadWords \o WriteWords(f) \o Reset,
                  {"over", "loaded", "image3"})
      BY <2>4, <3>3, CarriesConcat
    <3> QED BY <2>2, <2>5, <1>4, <3>1, <3>2, <3>4, CarriesConcat
  <2> QED BY <1>3, <2>7, <2>8
<1> QED BY <1>1, <1>2, <1>3 DEF Operations

-----------------------------------------------------------------------------
(* What holds throughout, and what a failing access leaves.                *)

\* b has a value for each slot of the option bytes.
IsBytes(b) == b = [s \in Slots |-> b[s]]

\* What holds of the flash controller and of the bookkeeping in every state:
\* an error comes from the write protection, a sealed V20X is erased, BSY is
\* set with nothing started on an unerased V20X at most, a locked controller
\* has no mode selected.
ControllerInv ==
  /\ wrperr => wprot
  /\ sealed => ~wprot /\ ~code /\ family = "V20X"
  /\ held => family = "V20X" /\ ~sealed
  /\ "LOCK" \in ctlr => "OPTWRE" \notin ctlr /\ Selected(ctlr, Left)
  /\ faults = 0 => ~dirty

\* What holds in every state, the types included.
Core ==
  /\ family \in Families /\ cmd \in Commands /\ Supported(cmd.op, family) /\ faults \in Nat
  /\ ctlr \subseteq ControlBits /\ control \subseteq ControlBits /\ idle \subseteq ControlBits
  /\ sealed \in BOOLEAN /\ held \in BOOLEAN /\ wrperr \in BOOLEAN /\ wprot \in BOOLEAN
  /\ code \in BOOLEAN /\ obr \in BOOLEAN /\ dirty \in BOOLEAN
  /\ IsBytes(image) /\ IsBytes(before) /\ IsBytes(words) /\ IsBytes(buffer)
  /\ ControllerInv

\* What a command may leave when it fails.
Returnable ==
  /\ Selected(ctlr, IF family = "V20X" THEN {"MER"} ELSE {})
  /\ image # before => dirty \/ ("LOCK" \in ctlr /\ "OPTWRE" \notin ctlr)

\* What holds after the access x has failed: it depends on where it goes.
Kept(x) == /\ x.fail = "return" => Returnable
           /\ x.fail = "cleanup" => DriveFact

\* The frame of every step of a program.
Same == UNCHANGED <<family, cmd, before>> /\ faults' \in {faults, faults + 1}

\* The access x is about to run with the facts F.
Doing(x, F, G) == Core /\ Holds(F) /\ Flow(cmd.op, family, F, x, G)

\* The access x has had its effect; G holds if the function goes on, and
\* Kept(x) if it does not.
Result(x, G) == Core /\ Holds(G) /\ Kept(x)

-----------------------------------------------------------------------------
(* The flow is sound: one lemma per kind of access.                        *)

\* The facts at an access are what its failure needs.
LEMMA KeptAfter ==
  ASSUME NEW x, NEW F, StageFacts(F)', ModeFacts(F)', FailFlow(cmd.op, family, F, x)'
  PROVE  Kept(x)'
<1>1. Left' \subseteq IF family' = "V20X" THEN {"MER"} ELSE {}  BY DEF Left
<1>2. "quiet" \in F => Returnable'
  BY <1>1 DEF StageFacts, QuietFact, Returnable, Selected
<1>3. "over" \in F => Returnable'
  BY <1>1 DEF StageFacts, OverFact, Returnable, Selected
<1>4. {"drive", "erasing"} \subseteq F /\ cmd'.op = "erase_all" /\ family' = "V20X" => Returnable'
  BY <1>1 DEF StageFacts, ModeFacts, DriveFact, Returnable, Selected, EraseMode
<1> QED BY <1>2, <1>3, <1>4 DEF FailFlow, Kept, StageFacts

\* A step that changes nothing of the target keeps the facts, whether a fault
\* is counted or not.
LEMMA FaultKeeps ==
  ASSUME Core, Same, UNCHANGED target,
         UNCHANGED <<control, idle, words, dirty>>,
         NEW F, Holds(F)
  PROVE  Core' /\ Holds(F)'
<1>1. faults' \in Nat /\ (faults' = 0 => faults = 0) /\ Left \subseteq Left'
  BY DEF Core, Same, Left
<1>2. Core'
  BY <1>1 DEF Core, Same, target, ControllerInv, Selected, IsBytes
<1>3. StageFacts(F)'
  BY <1>1 DEF Core, Holds, Same, target, StageFacts, QuietFact, DriveFact, OverFact, Selected,
              WordsRequested, Full, Request
<1>4. LockFacts(F)'  BY DEF Holds, Same, target, LockFacts, Full
<1>6. ModeFacts(F)'
  BY <1>1 DEF Holds, Same, target, ModeFacts, Selected, EraseMode
<1>5. ByteFacts(F)' /\ EraseFacts(F)'
  BY DEF Holds, Same, target, ByteFacts, EraseFacts, WrittenUpTo
<1> QED BY <1>2, <1>3, <1>4, <1>5, <1>6 DEF Holds

\* Fewer facts hold when more do.
LEMMA HoldsLess ==
  ASSUME NEW F, NEW G, G \subseteq F, Holds(F)'
  PROVE  Holds(G)'
<1>1. StageFacts(G)' /\ ModeFacts(G)'  BY DEF Holds, StageFacts, ModeFacts
<1>2. LockFacts(G)'  BY DEF Holds, LockFacts
<1>3. ByteFacts(G)' /\ EraseFacts(G)'  BY DEF Holds, ByteFacts, EraseFacts
<1> QED BY <1>1, <1>2, <1>3 DEF Holds

\* An access without an effect on the target: waiting, and failing.
LEMMA UnchangedEffect ==
  ASSUME NEW x, NEW F, NEW G, Doing(x, F, G), Same,
         UNCHANGED target,
         UNCHANGED <<control, idle, words, dirty>>, x.do \notin {"idle", "clean"}
  PROVE  Result(x, F)' /\ (G \subseteq F => Result(x, G)')
<1>1. Core' /\ Holds(F)'  BY FaultKeeps DEF Doing
<1>2. G \subseteq F => Holds(G)'  BY <1>1, HoldsLess
<1>3. FailFlow(cmd.op, family, F, x)  BY DEF Doing, Flow
<1> QED BY <1>1, <1>2, <1>3, KeptAfter DEF Result, Holds, Same, FailFlow

\* Reading FLASH_CTLR.
LEMMA ReadEffect ==
  ASSUME NEW x, NEW F, NEW G, Doing(x, F, G), Same, x.do = "read", UNCHANGED target,
         control' = ctlr, UNCHANGED <<idle, words, dirty>>
  PROVE  Result(x, G)'
<1>1. faults' \in Nat /\ (faults' = 0 => faults = 0) /\ Left \subseteq Left'
  BY DEF Doing, Core, Same, Left
<1>2. ReadFlow(cmd.op, F, x, G) /\ FailFlow(cmd.op, family, F, x)  BY DEF Doing, Flow
<1>3. Core'
  BY <1>1 DEF Doing, Core, Same, target, ControllerInv, Selected, IsBytes
<1>4. StageFacts(F)'
  BY <1>1, <1>2 DEF Doing, Core, Holds, Same, target, StageFacts, QuietFact, DriveFact,
     OverFact,
              ReadFlow, ModeFacts, Selected, WordsRequested, Full, Request
<1>5. StageFacts(G)'  BY <1>2, <1>4 DEF ReadFlow, StageFacts, Gain
<1>6. LockFacts(G)'
  BY <1>2 DEF Doing, Holds, Same, target, LockFacts, Full, ReadFlow, Gain
<1>7. ModeFacts(G)'
  BY <1>1, <1>2 DEF Doing, Holds, Same, target, ModeFacts, Selected, ReadFlow, Gain,
     EraseMode
<1>8. ByteFacts(G)' /\ EraseFacts(G)'
  BY <1>2 DEF Doing, Holds, Same, target, ByteFacts, EraseFacts, WrittenUpTo, ReadFlow, Gain
<1>9. Kept(x)'
  <2>1. ModeFacts(F \ {"mer read"})'
    BY <1>1, <1>2 DEF Doing, Holds, Same, target, ModeFacts, Selected, EraseMode
  <2>2. StageFacts(F \ {"mer read"})'  BY <1>4 DEF StageFacts
  <2>3. FailFlow(cmd.op, family, F \ {"mer read"}, x)'  BY <1>2 DEF FailFlow, Same
  <2> QED BY <2>1, <2>2, <2>3, KeptAfter
<1> QED BY <1>3, <1>5, <1>6, <1>7, <1>8, <1>9 DEF Result, Holds

\* A step counts at most one fault more.
LEMMA SameFaults ==
  ASSUME Core, Same
  PROVE  faults' \in Nat /\ (faults' = 0 => faults = 0) /\ Left \subseteq Left'
BY DEF Core, Same, Left

\* What a key does to the control word.
LEMMA KeyControl ==
  ASSUME NEW reg \in {"main", "fast", "option"}, NEW n \in {1, 2}, KeyWritten(reg, n)
  PROVE  /\ \/ ctlr' = ctlr
            \/ reg = "main" /\ ctlr' = ctlr \ {"LOCK"}
            \/ reg = "fast" /\ ctlr' = ctlr \ {"FLOCK"}
            \/ reg = "option" /\ "LOCK" \notin ctlr /\ ctlr' = ctlr \cup {"OPTWRE"}
         /\ ~sealed /\ n = 2 /\ reg \in keyed =>
              /\ reg = "main" => ctlr' = ctlr \ {"LOCK"}
              /\ reg = "fast" => ctlr' = ctlr \ {"FLOCK"}
              /\ reg = "option" /\ "LOCK" \notin ctlr => ctlr' = ctlr \cup {"OPTWRE"}
         /\ keyed' = IF n = 1 THEN keyed \cup {reg} ELSE keyed \ {reg}
         /\ UNCHANGED <<sealed, held, wrperr, wprot, code, image, buffer, obr>>
<1>1. CASE reg = "main"
  <2>1. \/ ctlr' = ctlr /\ (sealed \/ n = 1 \/ reg \notin keyed)
        \/ ctlr' = ctlr \ {"LOCK"}
    BY <1>1, Zenon DEF KeyWritten
  <2> QED BY <1>1, <2>1 DEF KeyWritten
<1>2. CASE reg = "fast"
  <2>1. \/ ctlr' = ctlr /\ (sealed \/ n = 1 \/ reg \notin keyed)
        \/ ctlr' = ctlr \ {"FLOCK"}
    BY <1>2, Zenon DEF KeyWritten
  <2> QED BY <1>2, <2>1 DEF KeyWritten
<1>3. CASE reg = "option"
  <2>1. \/ ctlr' = ctlr /\ (sealed \/ n = 1 \/ reg \notin keyed)
        \/ ctlr' = IF "LOCK" \in ctlr THEN ctlr ELSE ctlr \cup {"OPTWRE"}
    BY <1>3, Zenon DEF KeyWritten
  <2> QED BY <1>3, <2>1 DEF KeyWritten
<1> QED BY <1>1, <1>2, <1>3

\* Facts about the locks, put together.
LEMMA LockJoin ==
  ASSUME NEW F, NEW G, NEW H, G \subseteq F \cup H, LockFacts(F)', H # {} => LockFacts(H)'
  PROVE  LockFacts(G)'
BY DEF LockFacts

\* Writing a key, or not writing it because its lock was read as open.
LEMMA KeyEffect ==
  ASSUME NEW x, NEW F, NEW G, Doing(x, F, G), Same, x.do = "key",
         UNCHANGED <<control, idle, words, dirty>>,
         \/ KeyWritten(x.reg, x.key)
         \/ x.when # {} /\ x.when \cap control = {} /\ UNCHANGED target
  PROVE  Result(x, G)'
<1>1. faults' \in Nat /\ (faults' = 0 => faults = 0) /\ Left \subseteq Left'
  BY SameFaults DEF Doing
<1>2. KeyFlow(cmd.op, F, x, G) /\ FailFlow(cmd.op, family, F, x)  BY DEF Doing, Flow
<1>3. x.reg \in {"main", "fast", "option"} /\ x.key \in {1, 2}  BY <1>2 DEF KeyFlow
<1>4. /\ UNCHANGED <<sealed, held, wrperr, wprot, code, image, buffer, obr>>
      /\ keyed \ {x.reg} \subseteq keyed'
      /\ \/ ctlr' = ctlr
         \/ x.reg = "main" /\ ctlr' = ctlr \ {"LOCK"}
         \/ x.reg = "fast" /\ ctlr' = ctlr \ {"FLOCK"}
         \/ x.reg = "option" /\ "LOCK" \notin ctlr /\ ctlr' = ctlr \cup {"OPTWRE"}
  BY <1>3, KeyControl DEF target
<1>5. Core'
  BY <1>1, <1>4 DEF Doing, Core, Same, ControllerInv, Selected, IsBytes, ControlBits, Modes
<1>6. DEFINE H == F \ {"same", "checked", "over"}
<1>7. StageFacts(H)'
  <2>1. "quiet" \in F => QuietFact'
    BY <1>1, <1>4 DEF Doing, Core, Holds, Same, StageFacts, QuietFact, Selected, Modes
  <2>2. "drive" \in F => DriveFact'
    BY <1>1, <1>2, <1>4 DEF Doing, Core, Holds, Same, StageFacts, DriveFact, Selected,
       Modes,
                     EraseMode, LockFacts, WordsRequested, Full, Request, KeyFlow
  <2>3. "words" \in F => WordsRequested'
    BY <1>4 DEF Doing, Holds, StageFacts, WordsRequested, Same, Full, Request
  <2>4. "freed" \in F => ~held'  BY <1>4 DEF Doing, Holds, StageFacts
  <2> QED BY <2>1, <2>2, <2>3, <2>4 DEF StageFacts
<1>8. ModeFacts(H)'
  BY <1>1, <1>4 DEF Doing, Holds, Same, ModeFacts, Selected, Modes, EraseMode
<1>9. Kept(x)'
  <2>1. FailFlow(cmd.op, family, H, x)'  BY <1>2 DEF FailFlow, KeyFlow, Same
  <2> QED BY <1>7, <1>8, <2>1, KeptAfter
<1>10. G \subseteq H \cup {"main key", "fast key", "option key", "main", "fast", "option"}
  BY <1>2 DEF KeyFlow, KeyOf, Gain
<1>11. StageFacts(G)' /\ ModeFacts(G)'
  BY <1>7, <1>8, <1>10 DEF StageFacts, ModeFacts
<1>12. ByteFacts(G)' /\ EraseFacts(G)'
  BY <1>4, <1>10 DEF Doing, Holds, Same, ByteFacts, EraseFacts, WrittenUpTo
<1>13. LockFacts(G)'
  <2>1. LockFacts(H \ {KeyOf(x.reg)})'
    <3>1. CASE x.reg = "main"
      BY <1>4, <3>1 DEF Doing, Holds, Same, LockFacts, Full, KeyOf
    <3>2. CASE x.reg = "fast"
      BY <1>4, <3>2 DEF Doing, Holds, Same, LockFacts, Full, KeyOf
    <3>3. CASE x.reg = "option"
      BY <1>4, <3>3 DEF Doing, Holds, Same, LockFacts, Full, KeyOf, Locks
    <3> QED BY <1>3, <3>1, <3>2, <3>3
  <2> DEFINE sure == x.when = {} \/ (ClosedLockAsked(x.reg, x.when) /\ "read" \in F)
  <2>2. \/ x.when # {} /\ x.when \cap control = {} /\ UNCHANGED target
        \/ /\ keyed' = IF x.key = 1 THEN keyed \cup {x.reg} ELSE keyed \ {x.reg}
           /\ ~sealed /\ x.key = 2 /\ x.reg \in keyed =>
                /\ x.reg = "main" => ctlr' = ctlr \ {"LOCK"}
                /\ x.reg = "fast" => ctlr' = ctlr \ {"FLOCK"}
                /\ x.reg = "option" /\ "LOCK" \notin ctlr => ctlr' = ctlr \cup {"OPTWRE"}
    BY <1>3, KeyControl
  <2>3. ASSUME x.when # {}, x.when \cap control = {}, UNCHANGED target, sure
        PROVE  /\ x.reg = "main" => "LOCK" \notin ctlr'
               /\ x.reg = "fast" => "FLOCK" \notin ctlr'
               /\ x.reg # "option"
    BY <2>3 DEF ClosedLockAsked, Doing, Holds, LockFacts, Locks, target
  <2>4. CASE x.key = 1
    <3>1. G \subseteq (H \ {KeyOf(x.reg)}) \cup {g \in {KeyOf(x.reg)} : g \in F \/ sure}
      BY <1>2, <2>4 DEF KeyFlow
    <3>2. KeyOf(x.reg) \in F \/ sure => LockFacts({KeyOf(x.reg)})'
      <4>1. CASE UNCHANGED target /\ KeyOf(x.reg) \in F
        BY <1>3, <4>1 DEF Doing, Holds, LockFacts, KeyOf, target
      <4>2. CASE x.when # {} /\ x.when \cap control = {} /\ UNCHANGED target /\ sure
        BY <1>3, <2>3, <4>2 DEF LockFacts, KeyOf
      <4>3. CASE keyed' = keyed \cup {x.reg}
        BY <1>3, <4>3 DEF LockFacts, KeyOf
      <4> QED BY <2>2, <2>4, <4>1, <4>2, <4>3
    <3> QED BY <2>1, <3>1, <3>2, LockJoin
  <2>5. CASE x.key = 2
    <3> DEFINE gain == /\ sure /\ KeyOf(x.reg) \in F
                       /\ x.reg = "option" => "main" \in F
    <3>1. G \subseteq (H \ {KeyOf(x.reg)}) \cup {g \in {x.reg} : gain}
      BY <1>2, <1>3, <2>5 DEF KeyFlow, Gain
    <3>2. gain => LockFacts({x.reg})'
      <4>1. CASE x.when # {} /\ x.when \cap control = {} /\ UNCHANGED target /\ sure
        BY <1>3, <2>3, <4>1 DEF LockFacts
      <4>2. CASE sealed
        BY <1>3, <1>4, <4>2 DEF LockFacts
      <4>3. ASSUME ~sealed, gain,
                   ~sealed /\ x.key = 2 /\ x.reg \in keyed =>
                     /\ x.reg = "main" => ctlr' = ctlr \ {"LOCK"}
                     /\ x.reg = "fast" => ctlr' = ctlr \ {"FLOCK"}
                     /\ x.reg = "option" /\ "LOCK" \notin ctlr => ctlr' = ctlr \cup {"OPTWRE"}
            PROVE  LockFacts({x.reg})'
        BY <1>3, <1>4, <2>5, <4>3 DEF Doing, Holds, LockFacts, KeyOf
      <4> QED BY <2>2, <4>1, <4>2, <4>3
    <3> QED BY <2>1, <3>1, <3>2, LockJoin
  <2> QED BY <1>3, <2>4, <2>5
<1> QED BY <1>5, <1>9, <1>11, <1>12, <1>13 DEF Result, Holds

\* A lock check: with a link that never failed, it finds the locks open.
LEMMA CheckEffect ==
  ASSUME NEW x, NEW F, NEW G, Doing(x, F, G), Same, x.do = "check",
         UNCHANGED target, UNCHANGED <<control, idle, words, dirty>>
  PROVE  /\ faults = 0 => control \cap x.off = {} /\ x.on \subseteq control
         /\ control \cap x.off = {} /\ x.on \subseteq control => Result(x, G)'
         /\ Result(x, F)'
<1>1. CheckFlow(cmd.op, family, F, x, G) /\ FailFlow(cmd.op, family, F, x)  BY DEF Doing, Flow
<1>2. Core' /\ Holds(F)'  BY FaultKeeps DEF Doing, target
<1>3. Kept(x)'  BY <1>1, <1>2, KeptAfter DEF Holds, Same, FailFlow
<1>4. ASSUME faults = 0
      PROVE  control \cap x.off = {} /\ x.on \subseteq control
  <2>1. x.off \subseteq Locks /\ x.on \subseteq {"OPTWRE"} /\ control = ctlr
    BY <1>1 DEF CheckFlow, Doing, Holds, LockFacts
  <2>2. /\ "LOCK" \notin ctlr
        /\ "FLOCK" \in x.off => "FLOCK" \notin ctlr
        /\ x.on # {} => "OPTWRE" \in ctlr
    <3>1. CASE /\ "quiet" \in F /\ "main" \in F
               /\ "FLOCK" \in x.off => "fast" \in F
               /\ x.on # {} => "option" \in F
      BY <1>4, <3>1 DEF Doing, Holds, StageFacts, QuietFact, LockFacts
    <3>2. CASE "armed" \in F /\ ("FLOCK" \in x.off => Full)
      BY <3>2 DEF Doing, Holds, LockFacts
    <3> QED BY <1>1, <3>1, <3>2 DEF CheckFlow, Full
  <2> QED BY <2>1, <2>2 DEF Locks
<1>5. ASSUME control \cap x.off = {}, x.on \subseteq control
      PROVE  Holds(G)'
  <2>1. CASE G \subseteq F
    BY <1>2, <2>1, HoldsLess
  <2>2. CASE /\ cmd.op # "erase_all" /\ G \subseteq F \cup {"checked"}
             /\ "LOCK" \in x.off /\ x.on = {"OPTWRE"} /\ (Full => "FLOCK" \in x.off)
    <3>1. LockFacts({"checked"})'
      BY <1>1, <1>5, <2>2 DEF CheckFlow, Doing, Holds, LockFacts, target, Same, Full
    <3>2. LockFacts(G)'  BY <1>2, <2>2, <3>1, LockJoin DEF Holds
    <3>3. StageFacts(G)' /\ ModeFacts(G)'  BY <1>2, <2>2 DEF Holds, StageFacts, ModeFacts
    <3>4. ByteFacts(G)' /\ EraseFacts(G)'  BY <1>2, <2>2 DEF Holds, ByteFacts, EraseFacts
    <3> QED BY <3>2, <3>3, <3>4 DEF Holds
  <2> QED BY <1>1, <2>1, <2>2 DEF CheckFlow, Full
<1> QED BY <1>2, <1>3, <1>4, <1>5 DEF Result

\* Computing idle_control.
LEMMA IdleEffect ==
  ASSUME NEW x, NEW F, NEW G, Doing(x, F, G), Same, x.do = "idle",
         UNCHANGED target, idle' = control \ x.clear, UNCHANGED <<control, words, dirty>>
  PROVE  Core' /\ Holds(G)'
<1>1. faults' \in Nat /\ (faults' = 0 => faults = 0) /\ Left \subseteq Left'
  BY SameFaults DEF Doing
<1>2. IdleFlow(cmd.op, F, x, G)  BY DEF Doing, Flow
<1>3. Core'
  BY <1>1 DEF Doing, Core, Same, target, ControllerInv, Selected, IsBytes
<1>4. G \subseteq (F \ {"quiet", "words", "armed", "unlocked"})
                    \cup {"drive", "erasing", "armed", "unlocked"}
  BY <1>2 DEF IdleFlow
<1>5. DriveFact'
  <2>1. CASE "quiet" \in F /\ cmd.op = "erase_all"
    BY <1>1, <1>2, <2>1 DEF Doing, Holds, Same, target, StageFacts, QuietFact, DriveFact,
       Selected,
                     IdleFlow, LockFacts
  <2>2. CASE "quiet" \in F /\ cmd.op # "erase_all" /\ "words" \in F
    BY <1>1, <1>2, <2>2 DEF Doing, Holds, Same, target, StageFacts, QuietFact, DriveFact,
       Selected,
                     IdleFlow, LockFacts, WordsRequested, Full, Request
  <2>3. CASE "drive" \in F /\ "OPTER" \in x.clear /\ cmd.op # "erase_all"
    BY <1>1, <1>2, <2>3 DEF Doing, Holds, Same, target, StageFacts, DriveFact, Selected,
                     IdleFlow, LockFacts, WordsRequested, Full, Request, EraseMode
  <2> QED BY <1>2, <2>1, <2>2, <2>3 DEF IdleFlow
<1>6. StageFacts(G)'
  <2>1. "over" \in F => OverFact'
    BY <1>1 DEF Doing, Holds, Same, target, StageFacts, OverFact, Selected,
                     WordsRequested, Full, Request
  <2>2. "freed" \in F => ~held'  BY DEF Doing, Holds, StageFacts, target
  <2> QED BY <1>4, <1>5, <2>1, <2>2 DEF StageFacts
<1>7. ModeFacts(G)'
  <2>1. "erasing" \in G /\ "quiet" \in F => Selected(ctlr, Left)
    BY DEF Doing, Holds, StageFacts, QuietFact
  <2>2. "erasing" \in G => "quiet" \in F \/ "erasing" \in F
    BY <1>2 DEF IdleFlow
  <2>3. "erasing" \in G => Selected(ctlr, Left \cup {EraseMode(cmd.op)})
    BY <2>1, <2>2 DEF Doing, Holds, ModeFacts, Selected
  <2>4. "erasing" \in G => Selected(ctlr, Left \cup {EraseMode(cmd.op)})'
    BY <1>1, <2>3 DEF Selected, Same, target, EraseMode
  <2> QED BY <1>4, <2>4 DEF Doing, Holds, ModeFacts, Same, target
<1>8. LockFacts(G)'
  <2>1. LockFacts(F \ {"armed", "unlocked"})'
    BY DEF Doing, Holds, Same, target, LockFacts, Full
  <2>2. "armed" \in G => LockFacts({"armed"})'
    BY <1>2 DEF IdleFlow, Doing, Holds, Same, target, LockFacts, Full
  <2>3. "unlocked" \in G => LockFacts({"unlocked"})'
    BY <1>2 DEF IdleFlow, Doing, Holds, Same, target, LockFacts, Full
  <2> QED BY <1>4, <2>1, <2>2, <2>3 DEF LockFacts
<1>9. ByteFacts(G)' /\ EraseFacts(G)'
  BY <1>4 DEF Doing, Holds, Same, target, ByteFacts, EraseFacts, WrittenUpTo
<1> QED BY <1>3, <1>6, <1>7, <1>8, <1>9 DEF Holds

\* The control word after a write.
LEMMA ControlBitsAfter ==
  ASSUME NEW bits, bits \subseteq ControlBits \cup {"STRT"}, Core, Control(bits)
  PROVE  /\ ctlr' \subseteq ControlBits
         /\ \A l \in Locks : l \in ctlr' <=> l \in ctlr \/ l \in bits
         /\ "OPTWRE" \in ctlr' <=> "OPTWRE" \in ctlr /\ "OPTWRE" \in bits
         /\ ctlr' \cap Modes = IF "LOCK" \in ctlr THEN ctlr \cap Modes ELSE bits \cap Modes
BY DEF Control, CtlrAfter, ControlBits, Locks, Modes, Core, ControllerInv

\* What a control write does to the rest of the controller.
LEMMA ControlMoves ==
  ASSUME NEW bits, Core, Control(bits)
  PROVE  /\ sealed => sealed'
         /\ wrperr => wrperr'
         /\ code' => code
         /\ UNCHANGED <<keyed, wprot, obr>>
         /\ ~Starts(bits) => UNCHANGED <<code, image, sealed, wrperr>>
         /\ "OPTER" \notin bits /\ "FTPG" \notin bits => UNCHANGED image
         /\ "BUFRST" \notin bits => UNCHANGED buffer
         /\ Starts(bits) /\ "MER" \in bits => ~code' \/ wrperr'
         /\ sealed' \in BOOLEAN /\ wrperr' \in BOOLEAN /\ code' \in BOOLEAN
         /\ sealed' => sealed \/ (~wprot /\ ~code' /\ family = "V20X")
         /\ wrperr' => wrperr \/ wprot
         /\ image' \in {image, buffer, Blank} /\ buffer' \in {buffer, Blank}
         /\ held' \in BOOLEAN /\ (held' => held /\ ~sealed')
         /\ Starts(bits) /\ "MER" \in bits => ~held'
<1>1. /\ sealed => sealed'
      /\ wrperr => wrperr'
      /\ UNCHANGED <<keyed, wprot, obr>>
      /\ sealed' \in BOOLEAN /\ wrperr' \in BOOLEAN
      /\ wrperr' => wrperr \/ wprot
      /\ image' \in {image, buffer, Blank} /\ buffer' \in {buffer, Blank}
  BY DEF Control, Core
<1>2. "OPTER" \notin bits /\ "FTPG" \notin bits => UNCHANGED image
  BY DEF Control
<1>3. ~Starts(bits) => UNCHANGED image /\ ~Lifts
  BY DEF Control, Lifts
<1>4. code' = (code /\ ~(Starts(bits) /\ "MER" \in bits /\ ~wprot) /\ ~Lifts)
  BY DEF Control
<1>5. /\ sealed' = (sealed \/ (family = "V20X" /\ Starts(bits) /\ "MER" \in bits /\ ~wprot))
      /\ wrperr' = (wrperr \/ (Starts(bits) /\ "MER" \in bits /\ wprot))
  BY DEF Control
<1>11. held' = (held /\ ~(Starts(bits) /\ bits \cap {"MER", "OPTER"} # {}))
  BY DEF Control
<1> HIDE DEF Starts, Lifts
<1>12. /\ held' \in BOOLEAN /\ (held' => held)
       /\ Starts(bits) /\ "MER" \in bits => ~held'
  BY <1>11
<1>13. held' => ~sealed'  BY <1>5, <1>12 DEF Core, ControllerInv
<1>6. (code' => code) /\ code' \in BOOLEAN  BY <1>4 DEF Core
<1>7. ~Starts(bits) => UNCHANGED <<code, sealed, wrperr>>  BY <1>3, <1>4, <1>5 DEF Core
<1>8. Starts(bits) /\ "MER" \in bits => ~code' \/ wrperr'  BY <1>4, <1>5 DEF Core
<1>9. sealed' => sealed \/ (~wprot /\ ~code' /\ family = "V20X")  BY <1>4, <1>5 DEF Core
<1>10. "BUFRST" \notin bits => UNCHANGED buffer  BY DEF Control
<1> QED BY <1>1, <1>2, <1>3, <1>6, <1>7, <1>8, <1>9, <1>10, <1>12, <1>13

\* A control write keeps what holds throughout.
LEMMA ControlCore ==
  ASSUME NEW bits, bits \subseteq ControlBits \cup {"STRT"}, Core, Same, Control(bits),
         UNCHANGED <<control, idle, words>>, dirty' \in {dirty, TRUE}, dirty' # dirty => faults' # 0,
         "LOCK" \in bits => "LOCK" \in ctlr \/ ("OPTWRE" \notin bits /\ Selected(bits, Left))
  PROVE  Core'
<1>1. faults' \in Nat /\ (faults' = 0 => faults = 0) /\ Left \subseteq Left'
  BY SameFaults
<1>2. /\ ctlr' \subseteq ControlBits
      /\ "LOCK" \in ctlr' => "OPTWRE" \notin ctlr'
      /\ "LOCK" \in ctlr' => Selected(ctlr, Left)'
  BY <1>1, ControlBitsAfter DEF Locks, Selected, Core, ControllerInv
<1>3. IsBytes(image)' /\ IsBytes(buffer)'
  <2>1. Blank = [s \in Slots |-> Blank[s]]  BY DEF Blank
  <2> QED BY <2>1, ControlMoves DEF Core, IsBytes
<1>4. /\ wrperr' => wprot'
      /\ sealed' => ~wprot' /\ ~code' /\ family' = "V20X"
      /\ held' => family' = "V20X" /\ ~sealed'
      /\ {sealed', held', wrperr', wprot', code', obr'} \subseteq BOOLEAN
  BY ControlMoves DEF Core, ControllerInv, Same
<1>5. (faults' = 0 => ~dirty') /\ dirty' \in BOOLEAN  BY <1>1 DEF Core, ControllerInv
<1> QED BY <1>1, <1>2, <1>3, <1>4, <1>5 DEF Core, ControllerInv, Same, IsBytes

\* A control write of a program.
LEMMA ControlEffect ==
  ASSUME NEW x, NEW F, NEW G, Doing(x, F, G), Same, x.do = "ctl",
         Control(idle \cup x.bits), UNCHANGED <<control, idle, words, dirty>>
  PROVE  Result(x, G)'
<1> DEFINE bits == idle \cup x.bits
<1>1. faults' \in Nat /\ (faults' = 0 => faults = 0) /\ Left \subseteq Left'
  BY SameFaults DEF Doing
<1>2. ControlFlow(cmd.op, family, F, x.bits, G) /\ FailFlow(cmd.op, family, F, x)  BY DEF Doing, Flow
<1>3. x.bits \subseteq Modes \cup {"STRT"} /\ "drive" \in F /\ DriveFact
  BY <1>2 DEF ControlFlow, Doing, Holds, StageFacts
<1>4. bits \subseteq ControlBits \cup {"STRT"} /\ (\A l \in Locks \cup {"OPTWRE"} : l \in bits <=> l \in idle)
  BY <1>3 DEF Doing, Core, ControlBits, Locks, Modes
<1>5. "LOCK" \in bits => "LOCK" \in ctlr
  BY <1>3, <1>4 DEF DriveFact, Locks
<1>6. /\ ctlr' \subseteq ControlBits
      /\ \A l \in Locks : l \in ctlr' <=> l \in ctlr \/ l \in idle
      /\ "OPTWRE" \in ctlr' <=> "OPTWRE" \in ctlr /\ "OPTWRE" \in idle
      /\ ctlr' \cap Modes = IF "LOCK" \in ctlr THEN ctlr \cap Modes ELSE bits \cap Modes
  BY <1>4, ControlBitsAfter DEF Doing
<1>7. Core'
  BY <1>1, <1>4, <1>5, ControlCore DEF Doing, Core
<1>8. "STRT" \in bits => "STRT" \in x.bits
  BY DEF Doing, Core, ControlBits, Modes, Locks
<1>9. cmd.op = "erase_all" /\ ~dirty => UNCHANGED image
  <2>1. ASSUME cmd.op = "erase_all", ~dirty, "STRT" \in x.bits
        PROVE  "OPTER" \notin bits /\ "FTPG" \notin bits
    BY <1>2, <1>3, <2>1 DEF ControlFlow, DriveFact, Selected, Modes, Left, EraseMode
  <2> QED BY <1>8, <2>1, ControlMoves DEF Doing, Starts
<1>10. DriveFact'
  <2>1. held' => held  BY ControlMoves DEF Doing
  <2> QED BY <1>1, <1>3, <1>6, <1>9, <2>1 DEF Same, DriveFact, Selected, EraseMode, Locks,
       WordsRequested, Full, Request
<1>11. G \subseteq {"drive", "main", "armed", "unlocked", "mer read", "tried", "wiped", "erasing",
                    "optpg", "ftpg", "mer"} \cup ImageFacts \cup BufferFacts
  BY <1>2 DEF ControlFlow, Gain, ImageFacts, BufferFacts
<1>12. StageFacts(G)'
  BY <1>10, <1>11 DEF StageFacts, ImageFacts, BufferFacts
<1>13. LockFacts(G)'
  <2>1. G \cap {"main", "armed", "unlocked"} \subseteq F
    BY <1>2 DEF ControlFlow, Gain, ImageFacts, BufferFacts
  <2>2. LockFacts(F \cap {"main", "armed", "unlocked"})'
    BY <1>5, <1>6, ControlMoves DEF Doing, Holds, LockFacts, Same, Full, Locks
  <2>3. G \subseteq (F \cap {"main", "armed", "unlocked"})
              \cup (({"drive", "mer read", "tried", "wiped", "erasing", "optpg", "ftpg", "mer"}
                      \cup ImageFacts) \cup BufferFacts)
    BY <1>11, <2>1
  <2>4. LockFacts(({"drive", "mer read", "tried", "wiped", "erasing", "optpg", "ftpg", "mer"}
                      \cup ImageFacts) \cup BufferFacts)'
    BY DEF LockFacts, ImageFacts, BufferFacts
  <2> HIDE DEF bits
  <2> QED BY <2>2, <2>3, <2>4, LockJoin
<1>14. x.bits \subseteq {EraseMode(cmd.op), "STRT"} =>
         Selected(ctlr, Left \cup {EraseMode(cmd.op)})'
  BY <1>1, <1>3, <1>6 DEF Doing, Core, ControllerInv, Selected, DriveFact, Same,
     EraseMode, Modes
<1>15. ModeFacts(G)'
  <2>1. "erasing" \in G => x.bits \subseteq {EraseMode(cmd.op), "STRT"}
    BY <1>2 DEF ControlFlow, Gain, ImageFacts, BufferFacts
  <2>2. "optpg" \in G => "LOCK" \notin ctlr /\ "OPTPG" \in x.bits
    BY <1>2 DEF ControlFlow, Gain, ImageFacts, BufferFacts, Doing, Holds, LockFacts
  <2>3. "ftpg" \in G => "LOCK" \notin ctlr /\ "FTPG" \in x.bits
    BY <1>2 DEF ControlFlow, Gain, ImageFacts, BufferFacts, Doing, Holds, LockFacts
  <2>4. "mer" \in G => (sealed \/ "LOCK" \notin ctlr) /\ "MER" \in x.bits
    BY <1>2 DEF ControlFlow, Gain, ImageFacts, BufferFacts, Doing, Holds, LockFacts
  <2>5. "mer read" \in G => sealed \/ "MER" \in control
    BY <1>2 DEF ControlFlow, Gain, ImageFacts, BufferFacts, Doing, Holds, ModeFacts
  <2>6. sealed => sealed'  BY ControlMoves DEF Doing
  <2> QED BY <1>6, <1>14, <2>1, <2>2, <2>3, <2>4, <2>5, <2>6 DEF ModeFacts, Modes
<1>16. ByteFacts(G)'
  <2>1. UNCHANGED words  OBVIOUS
  <2>2. ASSUME NEW g \in G \cap ImageFacts
        PROVE  ByteFacts({g})'
    <3>1. CASE "STRT" \notin x.bits
      <4>1. g \in F  BY <1>2, <2>2, <3>1 DEF ControlFlow, Gain, ImageFacts, BufferFacts
      <4>2. UNCHANGED image  BY <1>8, <3>1, ControlMoves DEF Doing, Starts
      <4> QED BY <2>2, <4>1, <4>2 DEF Doing, Holds, ByteFacts, WrittenUpTo, ImageFacts
    <3>2. CASE g = "image0" /\ "armed" \in F /\ x.bits = {"OPTER", "STRT"}
      <4>1. Starts(bits) /\ "OPTWRE" \in ctlr
        BY <3>2 DEF Doing, Holds, LockFacts, Starts
      <4>2. image' = Blank  BY <3>2, <4>1 DEF Control
      <4> QED BY <3>2, <4>2 DEF ByteFacts, WrittenUpTo, Blank
    <3>3. CASE g = "image3" /\ {"unlocked", "buffer3"} \subseteq F /\ x.bits = {"FTPG", "STRT"}
      <4>1. Starts(bits) /\ "OPTER" \notin bits
        BY <3>3 DEF Doing, Holds, LockFacts, Starts, FastModes
      <4>2. image' = buffer  BY <3>3, <4>1 DEF Control
      <4> QED BY <3>3, <4>2 DEF Doing, Holds, ByteFacts, WrittenUpTo
    <3>4. \/ "STRT" \notin x.bits
          \/ g = "image0" /\ "armed" \in F /\ x.bits = {"OPTER", "STRT"}
          \/ g = "image3" /\ {"unlocked", "buffer3"} \subseteq F /\ x.bits = {"FTPG", "STRT"}
      BY <1>2, <2>2 DEF ControlFlow, Gain, ImageFacts, BufferFacts
    <3> QED BY <3>1, <3>2, <3>3, <3>4
  <2>3. ASSUME NEW g \in G \cap BufferFacts
        PROVE  ByteFacts({g})'
    <3>1. CASE g \in F /\ "unlocked" \in F /\ "BUFRST" \notin x.bits
      <4>1. "BUFRST" \notin bits
        BY <3>1 DEF Doing, Holds, LockFacts, FastModes
      <4>2. UNCHANGED buffer  BY <4>1, ControlMoves DEF Doing
      <4> QED BY <2>3, <3>1, <4>2 DEF Doing, Holds, ByteFacts, WrittenUpTo, BufferFacts
    <3>2. CASE g = "buffer0" /\ "unlocked" \in F /\ "BUFRST" \in x.bits
      <4>1. buffer' = Blank
        BY <3>2 DEF Control, Doing, Holds, LockFacts
      <4> QED BY <3>2, <4>1 DEF ByteFacts, WrittenUpTo, Blank
    <3> QED BY <1>2, <2>3, <3>1, <3>2 DEF ControlFlow, Gain, ImageFacts, BufferFacts
  <2> QED BY <2>2, <2>3 DEF ByteFacts, ImageFacts, BufferFacts
<1>17. EraseFacts(G)'
  <2>1. "loaded" \notin G  BY <1>11 DEF ImageFacts, BufferFacts
  <2>2. "wiped" \in G => ~code
    BY <1>2 DEF ControlFlow, Gain, ImageFacts, BufferFacts, Doing, Holds, EraseFacts
  <2>3. "tried" \in G => \/ (~code \/ wrperr) /\ ~held
                         \/ x.bits = {"MER", "STRT"} /\ (sealed \/ "LOCK" \notin ctlr)
    BY <1>2 DEF ControlFlow, Gain, ImageFacts, BufferFacts, Doing, Holds, EraseFacts,
       LockFacts
  <2>4. sealed => ~code /\ ~held  BY DEF Doing, Core, ControllerInv
  <2> QED BY <2>1, <2>2, <2>3, <2>4, ControlMoves DEF Doing, EraseFacts, Starts
<1>18. Kept(x)'
  <2>1. CASE x.bits \subseteq {EraseMode(cmd.op), "STRT"}
    <3>1. StageFacts({"drive", "erasing"})' /\ ModeFacts({"drive", "erasing"})'
      BY <1>10, <1>14, <2>1 DEF StageFacts, ModeFacts
    <3>2. FailFlow(cmd.op, family, {"drive", "erasing"}, x)'
      BY <1>2, <1>3 DEF FailFlow, Same
    <3> QED BY <3>1, <3>2, KeptAfter
  <2>2. CASE ~(x.bits \subseteq {EraseMode(cmd.op), "STRT"})
    <3>1. StageFacts({"drive"})' /\ ModeFacts({"drive"})'
      BY <1>10 DEF StageFacts, ModeFacts
    <3>2. FailFlow(cmd.op, family, {"drive"}, x)'
      BY <1>2, <1>3, <2>2 DEF FailFlow, Same, EraseMode
    <3> QED BY <3>1, <3>2, KeptAfter
  <2> QED BY <2>1, <2>2
<1> QED BY <1>7, <1>12, <1>13, <1>15, <1>16, <1>17, <1>18 DEF Result, Holds

\* The start bit of the V20X erase.
LEMMA StartEffect ==
  ASSUME NEW x, NEW F, NEW G, Doing(x, F, G), Same, x.do = "start",
         Control(control \cup {"STRT"}), UNCHANGED <<control, idle, words, dirty>>
  PROVE  Result(x, G)'
<1> DEFINE bits == control \cup {"STRT"}
<1>1. faults' \in Nat /\ (faults' = 0 => faults = 0) /\ Left \subseteq Left'
  BY SameFaults DEF Doing
<1>2. StartFlow(cmd.op, F, G) /\ FailFlow(cmd.op, family, F, x)  BY DEF Doing, Flow
<1>3. /\ DriveFact /\ control = ctlr /\ Selected(ctlr, Left \cup {"MER"})
      /\ sealed \/ "LOCK" \notin ctlr
      /\ sealed \/ "MER" \in control
      /\ cmd.op = "erase_all"
  BY <1>2 DEF StartFlow, Doing, Holds, StageFacts, LockFacts, ModeFacts, EraseMode
<1>4. bits \subseteq ControlBits \cup {"STRT"} /\ (\A l \in Locks \cup {"OPTWRE"} : l \in bits <=> l \in ctlr)
  BY <1>3 DEF Doing, Core, ControlBits, Locks
<1>5. /\ \A l \in Locks : l \in ctlr' <=> l \in ctlr
      /\ ctlr' \cap Modes = ctlr \cap Modes
  <2>1. bits \cap Modes = ctlr \cap Modes  BY <1>3 DEF Modes
  <2> QED BY <1>4, <2>1, ControlBitsAfter DEF Doing
<1>6. Core'
  BY <1>1, <1>4, ControlCore DEF Doing, Core, Locks
<1>7. ~dirty => UNCHANGED image
  <2>1. ~dirty => "OPTER" \notin bits /\ "FTPG" \notin bits
    BY <1>3 DEF Selected, Modes, Left
  <2> QED BY <2>1, ControlMoves DEF Doing
<1>8. DriveFact'
  BY <1>1, <1>3, <1>5, <1>7 DEF Same, DriveFact, Selected, EraseMode, Locks
<1>9. Selected(ctlr, Left \cup {"MER"})'
  BY <1>1, <1>3, <1>5 DEF Selected
<1>10. G \subseteq {"drive", "main", "erasing", "mer read", "wiped", "tried"}
  BY <1>2 DEF StartFlow
<1>11. StageFacts(G)' /\ ByteFacts(G)'  BY <1>8, <1>10 DEF StageFacts, ByteFacts
<1>12. LockFacts(G)' /\ ModeFacts(G)'
  <2>1. sealed => sealed'  BY ControlMoves DEF Doing
  <2>2. sealed' \/ "LOCK" \notin ctlr'  BY <1>3, <1>5, <2>1 DEF Locks
  <2>3. sealed' \/ "MER" \in control'  BY <1>3, <2>1
  <2> QED BY <1>3, <1>9, <1>10, <2>2, <2>3 DEF LockFacts, ModeFacts, Same, EraseMode
<1>13. EraseFacts(G)'
  <2>1. sealed => ~code /\ ~held  BY DEF Doing, Core, ControllerInv
  <2>2. "wiped" \in G => ~code  BY <1>2 DEF StartFlow, Doing, Holds, EraseFacts
  <2>3. ~sealed => Starts(bits) /\ "MER" \in bits  BY <1>3 DEF Starts
  <2>4. /\ (code' => code) /\ (held' => held)
        /\ Starts(bits) /\ "MER" \in bits => (~code' \/ wrperr') /\ ~held'
    BY ControlMoves DEF Doing
  <2>5. (~code' \/ wrperr') /\ ~held'  BY <2>1, <2>3, <2>4
  <2> QED BY <1>10, <2>2, <2>4, <2>5 DEF EraseFacts
<1>14. Kept(x)'
  <2>1. StageFacts({"drive", "erasing"})' /\ ModeFacts({"drive", "erasing"})'
    BY <1>3, <1>8, <1>9 DEF StageFacts, ModeFacts, Same, EraseMode
  <2>2. FailFlow(cmd.op, family, {"drive", "erasing"}, x)'
    BY <1>2 DEF FailFlow, StartFlow, Same
  <2> QED BY <2>1, <2>2, KeptAfter
<1> QED BY <1>6, <1>11, <1>12, <1>13, <1>14 DEF Result, Holds

\* The clean-up write, on the way of success or after a failure.
LEMMA CleanControl ==
  ASSUME NEW x, NEW F, NEW G, Core, DriveFact, CleanFlow(cmd.op, F, x, G), Same,
         Control((idle \ x.clear) \cup x.set), UNCHANGED <<control, idle, words>>,
         dirty' \in {dirty, TRUE}, dirty' # dirty => faults' # 0
  PROVE  /\ Core' /\ OverFact'
         /\ UNCHANGED <<image, words, code>> /\ (wrperr => wrperr')
<1> DEFINE bits == (idle \ x.clear) \cup x.set
<1>1. faults' \in Nat /\ (faults' = 0 => faults = 0) /\ Left \subseteq Left'
  BY SameFaults
<1>2. x.set \subseteq Locks /\ (cmd.op # "erase_all" => "OPTWRE" \in x.clear /\ "LOCK" \in x.set)
  BY DEF CleanFlow
<1>3. bits \subseteq ControlBits /\ "STRT" \notin bits /\ bits \cap Modes \subseteq idle
  BY <1>2 DEF Core, ControlBits, Modes, Locks
<1>4. /\ \A l \in Locks : l \in ctlr' <=> l \in ctlr \/ l \in bits
      /\ "OPTWRE" \in ctlr' <=> "OPTWRE" \in ctlr /\ "OPTWRE" \in bits
      /\ ctlr' \cap Modes = IF "LOCK" \in ctlr THEN ctlr \cap Modes ELSE bits \cap Modes
  BY <1>3, ControlBitsAfter
<1>5. UNCHANGED <<code, image, sealed, wrperr>>
  BY <1>3, ControlMoves DEF Starts
<1>6. cmd.op # "erase_all" => "LOCK" \in bits /\ "OPTWRE" \notin bits
  BY <1>2 DEF Locks
<1>7. Selected(bits, Left)
  BY <1>3 DEF DriveFact, Selected
<1>8. "LOCK" \in bits => "LOCK" \in ctlr \/ "OPTWRE" \notin bits
  <2>1. CASE cmd.op = "erase_all"
    BY <2>1 DEF CleanFlow, DriveFact
  <2> QED BY <1>6, <2>1
<1>9. Core'
  BY <1>1, <1>3, <1>7, <1>8, ControlCore
<1>10. OverFact'
  <2>1. Selected(ctlr, Left)'
    BY <1>1, <1>4, <1>7 DEF Selected, Core, ControllerInv
  <2>2. image' # before' => dirty' \/ ("LOCK" \in ctlr' /\ "OPTWRE" \notin ctlr')
    BY <1>4, <1>5, <1>6 DEF DriveFact, Same, Locks, Core
  <2>3. cmd'.op # "erase_all" => WordsRequested'
    BY DEF DriveFact, Same, WordsRequested, Full, Request
  <2> QED BY <2>1, <2>2, <2>3 DEF OverFact
<1> QED BY <1>5, <1>9, <1>10

\* The clean-up write on the way of success.
LEMMA CleanEffect ==
  ASSUME NEW x, NEW F, NEW G, Doing(x, F, G), Same, x.do = "clean",
         Control((idle \ x.clear) \cup x.set), UNCHANGED <<control, idle, words, dirty>>
  PROVE  Core' /\ Holds(G)'
<1>1. CleanFlow(cmd.op, F, x, G) /\ DriveFact
  BY DEF Doing, Flow, CleanFlow, Holds, StageFacts
<1>2. /\ Core' /\ OverFact'
      /\ UNCHANGED <<image, words, code>>
  BY <1>1, CleanControl DEF Doing
<1>3. G \subseteq (F \cap (ImageFacts \cup {"wiped"})) \cup {"over"}  BY <1>1 DEF CleanFlow
<1>4. StageFacts(G)'  BY <1>2, <1>3 DEF StageFacts, ImageFacts
<1>5. LockFacts(G)' /\ ModeFacts(G)'  BY <1>3 DEF LockFacts, ModeFacts, ImageFacts
<1>6. ByteFacts(G)' /\ EraseFacts(G)'
  BY <1>2, <1>3 DEF Doing, Holds, ByteFacts, EraseFacts, WrittenUpTo, ImageFacts
<1> QED BY <1>2, <1>4, <1>5, <1>6 DEF Holds

\* Programming a half word.
LEMMA HalfEffect ==
  ASSUME NEW x, NEW F, NEW G, Doing(x, F, G), Same, x.do = "half",
         HalfWritten(x.slot), UNCHANGED <<control, idle, words, dirty>>
  PROVE  Result(x, G)'
<1>1. faults' \in Nat /\ (faults' = 0 => faults = 0) /\ Left \subseteq Left'
  BY SameFaults DEF Doing
<1>2. HalfFlow(cmd.op, family, F, x, G) /\ FailFlow(cmd.op, family, F, x)  BY DEF Doing, Flow
<1>3. /\ image' = IF "OPTPG" \in ctlr /\ "OPTWRE" \in ctlr /\ image[x.slot] = "erased"
                  THEN [image EXCEPT ![x.slot] = words[x.slot]] ELSE image
      /\ code' = (code /\ ~Lifts)
      /\ UNCHANGED <<ctlr, keyed, sealed, held, wrperr, wprot, buffer, obr>>
  BY DEF HalfWritten
<1>4. DriveFact /\ cmd.op # "erase_all" /\ x.slot \in Slots
  BY <1>2 DEF HalfFlow, Doing, Holds, StageFacts, Slots
<1>5. (code' => code) /\ code' \in BOOLEAN
  <2> HIDE DEF Lifts
  <2> QED BY <1>3 DEF Doing, Core
<1>6. IsBytes(image)'
  <2>1. \A i, w : IsBytes(i) => IsBytes([i EXCEPT ![x.slot] = w])
    BY <1>4 DEF IsBytes
  <2> QED BY <1>3, <2>1 DEF Doing, Core, IsBytes
<1>7. Core'
  BY <1>1, <1>3, <1>5, <1>6 DEF Doing, Core, Same, ControllerInv, Selected, IsBytes
<1>8. DriveFact'
  BY <1>1, <1>3, <1>4 DEF Same, DriveFact, Selected, EraseMode, WordsRequested, Full,
     Request
<1>9. G \subseteq (F \cap {"drive", "armed"}) \cup (G \cap ImageFacts)
  BY <1>2 DEF HalfFlow, Gain, ImageFacts
<1>10. StageFacts(G)' /\ ModeFacts(G)' /\ EraseFacts(G)'
  BY <1>8, <1>9 DEF StageFacts, ModeFacts, EraseFacts, ImageFacts
<1>11. LockFacts(G)'
  BY <1>3, <1>9 DEF Doing, Holds, LockFacts, ImageFacts, Same, Full
<1>12. ByteFacts(G)'
  <2>1. ASSUME NEW g \in G \cap ImageFacts
        PROVE  ByteFacts({g})'
    <3>1. /\ "armed" \in F /\ "optpg" \in F
          /\ \/ g = "image1" /\ x.slot = "rdp" /\ "image0" \in F
             \/ g = "image2" /\ x.slot = "user" /\ "image1" \in F
             \/ g = "image3" /\ x.slot = "rest" /\ "image2" \in F
      BY <1>2, <2>1 DEF HalfFlow, Gain, ImageFacts
    <3>2. "OPTPG" \in ctlr /\ "OPTWRE" \in ctlr
      BY <3>1 DEF Doing, Holds, LockFacts, ModeFacts
    <3>3. image[x.slot] = "erased"
      BY <3>1 DEF Doing, Holds, ByteFacts, WrittenUpTo, Slots
    <3>4. \A s \in Slots : image'[s] = IF s = x.slot THEN words[s] ELSE image[s]
      BY <1>3, <1>4, <3>2, <3>3 DEF Doing, Core, IsBytes
    <3> QED BY <3>1, <3>4 DEF Doing, Holds, ByteFacts, WrittenUpTo, Slots
  <2> QED BY <1>9, <2>1 DEF ByteFacts, ImageFacts
<1>13. Kept(x)'
  <2>1. StageFacts({"drive"})' /\ ModeFacts({"drive"})'
    BY <1>8 DEF StageFacts, ModeFacts
  <2>2. FailFlow(cmd.op, family, {"drive"}, x)'
    BY <1>2 DEF FailFlow, HalfFlow, Same
  <2> QED BY <2>1, <2>2, KeptAfter
<1> QED BY <1>7, <1>10, <1>11, <1>12, <1>13 DEF Result, Holds

\* Loading a word of the page buffer.
LEMMA WordEffect ==
  ASSUME NEW x, NEW F, NEW G, Doing(x, F, G), Same, x.do = "word",
         WordWritten(x.slots), UNCHANGED <<control, idle, words, dirty>>
  PROVE  Result(x, G)'
<1>1. faults' \in Nat /\ (faults' = 0 => faults = 0) /\ Left \subseteq Left'
  BY SameFaults DEF Doing
<1>2. WordFlow(cmd.op, F, x, G) /\ FailFlow(cmd.op, family, F, x)  BY DEF Doing, Flow
<1>3. /\ buffer' = [s \in Slots |-> IF s \in x.slots /\ "FTPG" \in ctlr THEN words[s] ELSE buffer[s]]
      /\ UNCHANGED <<ctlr, keyed, sealed, held, wrperr, wprot, code, image, obr>>
  BY DEF WordWritten
<1>4. IsBytes(buffer)'  BY <1>3 DEF IsBytes
<1>5. Core'
  BY <1>1, <1>3, <1>4 DEF Doing, Core, Same, ControllerInv, Selected, IsBytes
<1>6. DriveFact /\ "drive" \in F
  BY <1>2 DEF WordFlow, Doing, Holds, StageFacts
<1>7. DriveFact'
  BY <1>1, <1>3, <1>6 DEF Same, DriveFact, Selected, EraseMode, WordsRequested, Full,
     Request
<1>8. G \subseteq (F \cap {"drive", "unlocked"}) \cup (G \cap BufferFacts)
  BY <1>2 DEF WordFlow, Gain, BufferFacts
<1>9. StageFacts(G)' /\ ModeFacts(G)' /\ EraseFacts(G)'
  BY <1>7, <1>8 DEF StageFacts, ModeFacts, EraseFacts, BufferFacts
<1>10. LockFacts(G)'
  BY <1>3, <1>8 DEF Doing, Holds, LockFacts, BufferFacts
<1>11. ByteFacts(G)'
  <2>1. ASSUME NEW g \in G \cap BufferFacts
        PROVE  ByteFacts({g})'
    <3>1. /\ "ftpg" \in F
          /\ \/ g = "buffer2" /\ x.slots = {"rdp", "user"} /\ "buffer0" \in F
             \/ g = "buffer3" /\ x.slots = {"rest"} /\ "buffer2" \in F
      BY <1>2, <2>1 DEF WordFlow, Gain, BufferFacts
    <3>2. "FTPG" \in ctlr
      BY <3>1 DEF Doing, Holds, ModeFacts
    <3>3. \A s \in Slots : buffer'[s] = IF s \in x.slots THEN words[s] ELSE buffer[s]
      BY <1>3, <3>2
    <3> QED BY <3>1, <3>3 DEF Doing, Holds, ByteFacts, WrittenUpTo, Slots
  <2> QED BY <1>8, <2>1 DEF ByteFacts, BufferFacts
<1>12. Kept(x)'
  <2>1. StageFacts({"drive"})' /\ ModeFacts({"drive"})'
    BY <1>7 DEF StageFacts, ModeFacts
  <2>2. FailFlow(cmd.op, family, {"drive"}, x)'
    BY <1>2, <1>6 DEF FailFlow, Same
  <2> QED BY <2>1, <2>2, KeptAfter
<1> QED BY <1>5, <1>9, <1>10, <1>11, <1>12 DEF Result, Holds

\* Looking at the write protection error.
LEMMA StatusEffect ==
  ASSUME NEW x, NEW F, NEW G, Doing(x, F, G), Same, x.do = "wrp",
         UNCHANGED target, UNCHANGED <<control, idle, words, dirty>>
  PROVE  (~wrperr => Result(x, G)') /\ Result(x, F)'
<1>1. x.fail = "cleanup" /\ FailFlow(cmd.op, family, F, x) /\ G \subseteq F \cup Gain(F, {"tried"}, {"wiped"})
  BY DEF Doing, Flow
<1>2. Core' /\ Holds(F)'  BY FaultKeeps DEF Doing, target
<1>3. Kept(x)'  BY <1>1, <1>2, KeptAfter DEF Holds, Same, FailFlow
<1>4. ASSUME ~wrperr
      PROVE  Holds(G)'
  <2>1. EraseFacts(G)'  BY <1>1, <1>2, <1>4 DEF Holds, EraseFacts, Gain, target
  <2>2. StageFacts(G)' /\ ModeFacts(G)'  BY <1>1, <1>2 DEF Holds, StageFacts, ModeFacts, Gain
  <2>3. LockFacts(G)'  BY <1>1, <1>2 DEF Holds, LockFacts, Gain
  <2>4. ByteFacts(G)'  BY <1>1, <1>2 DEF Holds, ByteFacts, Gain
  <2> QED BY <2>1, <2>2, <2>3, <2>4 DEF Holds
<1> QED BY <1>2, <1>3, <1>4 DEF Result

\* Clearing the write protection error.
LEMMA ClearStatusEffect ==
  ASSUME NEW x, NEW F, NEW G, Doing(x, F, G), Same, x.do = "clearstatus",
         wrperr' = FALSE, UNCHANGED <<ctlr, keyed, sealed, held, wprot, code, image, buffer, obr>>,
         UNCHANGED <<control, idle, words, dirty>>
  PROVE  Result(x, G)'
<1>1. faults' \in Nat /\ (faults' = 0 => faults = 0) /\ Left \subseteq Left'
  BY SameFaults DEF Doing
<1>2. FailFlow(cmd.op, family, F, x) /\ "drive" \in F /\ G \subseteq F \ {"tried"}  BY DEF Doing, Flow
<1>3. Core'
  BY <1>1 DEF Doing, Core, Same, ControllerInv, Selected, IsBytes
<1>4. StageFacts(F)'
  BY <1>1 DEF Doing, Core, Holds, Same, StageFacts, QuietFact, DriveFact, OverFact,
     Selected,
              WordsRequested, Full, Request
<1>5. ModeFacts(F)'
  BY <1>1 DEF Doing, Holds, Same, ModeFacts, Selected, EraseMode
<1>6. LockFacts(F)'  BY DEF Doing, Holds, Same, LockFacts, Full
<1>7. ByteFacts(F)' /\ EraseFacts(F \ {"tried"})'
  BY DEF Doing, Holds, Same, ByteFacts, EraseFacts, WrittenUpTo
<1>8. Kept(x)'  BY <1>2, <1>4, <1>5, KeptAfter DEF Same, FailFlow
<1>9. Holds(G)'
  <2>1. StageFacts(G)' /\ ModeFacts(G)'  BY <1>2, <1>4, <1>5 DEF StageFacts, ModeFacts
  <2>2. LockFacts(G)'  BY <1>2, <1>6 DEF LockFacts
  <2>3. ByteFacts(G)' /\ EraseFacts(G)'  BY <1>2, <1>7 DEF ByteFacts, EraseFacts
  <2> QED BY <2>1, <2>2, <2>3 DEF Holds
<1> QED BY <1>3, <1>8, <1>9 DEF Result

\* The reset: the controller is locked and loads the option bytes.
LEMMA ResetEffect ==
  ASSUME NEW x, NEW F, NEW G, Doing(x, F, G), Same, x.do = "reset",
         ResetDone, dirty' = FALSE, UNCHANGED <<control, idle, words>>
  PROVE  Result(x, G)'
<1>1. /\ x.fail = "return" /\ OverFact
      /\ G \subseteq (F \cap (ImageFacts \cup {"over", "wiped"})) \cup {"loaded"}
  BY DEF Doing, Flow, Holds, StageFacts
<1>2. /\ ctlr' = Locks /\ wrperr' = FALSE /\ sealed' = FALSE /\ buffer' = Blank
      /\ obr' = (image.rdp # "unprotected") /\ wprot' = (image.rest \in Protecting)
      /\ held' \in BusyBeforeErase
      /\ UNCHANGED <<code, image>>
  BY DEF ResetDone
<1>3. /\ "LOCK" \in ctlr' /\ "OPTWRE" \notin ctlr' /\ ctlr' \cap Modes = {} /\ ctlr' \subseteq ControlBits
  BY <1>2 DEF Locks, Modes, ControlBits
<1>4. IsBytes(buffer)'  BY <1>2 DEF IsBytes, Blank
<1>5. Core'
  <2>1. obr' \in BOOLEAN /\ wprot' \in BOOLEAN /\ sealed' \in BOOLEAN /\ wrperr' \in BOOLEAN
        /\ held' \in BOOLEAN
    <3>1. (image.rdp # "unprotected") \in BOOLEAN /\ (image.rest \in Protecting) \in BOOLEAN
      OBVIOUS
    <3>2. obr' \in BOOLEAN  BY <1>2, <3>1, Zenon
    <3>3. wprot' \in BOOLEAN  BY <1>2, <3>1, Zenon
    <3>4. sealed' \in BOOLEAN /\ wrperr' \in BOOLEAN /\ held' \in BOOLEAN
      BY <1>2 DEF BusyBeforeErase
    <3> QED BY <3>2, <3>3, <3>4
  <2>2. ControllerInv'
    BY <1>2, <1>3 DEF ControllerInv, Selected, BusyBeforeErase, Doing, Same
  <2> QED BY <1>2, <1>3, <1>4, <2>1, <2>2, SameFaults DEF Doing, Core, Same, IsBytes
<1>6. OverFact'
  BY <1>1, <1>2, <1>3 DEF OverFact, Selected, Same, WordsRequested, Full, Request
<1>7. StageFacts(G)' /\ LockFacts(G)' /\ ModeFacts(G)'
  BY <1>1, <1>6 DEF StageFacts, LockFacts, ModeFacts, ImageFacts
<1>8. ByteFacts(G)' /\ EraseFacts(G)'
  BY <1>1, <1>2 DEF Doing, Holds, ByteFacts, EraseFacts, WrittenUpTo, ImageFacts
<1>9. Kept(x)'
  BY <1>1, <1>3, <1>6 DEF Kept, Returnable, Selected, OverFact
<1> QED BY <1>5, <1>7, <1>8, <1>9 DEF Result, Holds

-----------------------------------------------------------------------------
(* The words that are written, and the end of a command.                   *)

\* The words of a command, by its operation.
LEMMA NewWordsOf ==
  ASSUME NEW c \in Commands, NEW read, IsBytes(read)
  PROVE  /\ c.op \in Operations
         /\ IsBytes(NewWords(c, read))
         /\ c.op \in {"protect", "unprotect"} =>
              \A s \in Slots : NewWords(c, read)[s] =
                IF s = "rdp" THEN (IF c.op = "protect" THEN "protected" ELSE "unprotected")
                ELSE read[s]
         /\ c.op = "set_option_bytes" => \A r : NewWords(c, r) = NewWords(c, read)
<1>1. c.op \in Operations  BY DEF Commands, Operations
<1>2. CASE c.op = "erase_all"
  <2>1. NewWords(c, read) = read  BY <1>2, Zenon DEF NewWords
  <2> QED BY <1>1, <1>2, <2>1
<1>3. CASE c.op = "protect"
  <2>1. NewWords(c, read) = [read EXCEPT !["rdp"] = "protected"]  BY <1>3, Zenon DEF NewWords
  <2> QED BY <1>1, <1>3, <2>1 DEF IsBytes, Slots
<1>4. CASE c.op = "unprotect"
  <2>1. NewWords(c, read) = [read EXCEPT !["rdp"] = "unprotected"]  BY <1>4, Zenon DEF NewWords
  <2> QED BY <1>1, <1>4, <2>1 DEF IsBytes, Slots
<1>5. CASE c.op = "set_option_bytes"
  <2> DEFINE w == [s \in Slots |-> CASE s = "rdp" -> "unprotected" [] s = "user" -> c.user
                                     [] s = "rest" -> c.rest]
  <2>1. \A r : NewWords(c, r) = w  BY <1>5, Zenon DEF NewWords
  <2>2. w \in [Slots -> {w[s] : s \in Slots}]  BY Zenon
  <2> HIDE DEF w
  <2>3. IsBytes(w)  BY <2>2 DEF IsBytes
  <2> QED BY <1>1, <1>5, <2>1, <2>3
<1>6. CASE c.op = "set_memory_type"
  <2>1. NewWords(c, read) = [read EXCEPT !["user"] = c.user]  BY <1>6, Zenon DEF NewWords
  <2> QED BY <1>1, <1>6, <2>1 DEF IsBytes, Slots
<1> QED BY <1>1, <1>2, <1>3, <1>4, <1>5, <1>6 DEF Operations

\* Reading the option bytes and computing the words.
LEMMA ImageEffect ==
  ASSUME NEW x, NEW F, NEW G, Doing(x, F, G), Same, x.do = "image",
         UNCHANGED target, words' = NewWords(cmd, image), UNCHANGED <<control, idle, dirty>>
  PROVE  Result(x, G)'
<1>1. faults' \in Nat /\ (faults' = 0 => faults = 0) /\ Left \subseteq Left'
  BY SameFaults DEF Doing
<1>2. QuietFact /\ FailFlow(cmd.op, family, F, x) /\ G \subseteq {"quiet", "words"} /\ "drive" \notin F
  BY DEF Doing, Flow, Holds, StageFacts
<1>3. IsBytes(words)'
  BY NewWordsOf DEF Doing, Core, IsBytes
<1>4. Core'
  BY <1>1, <1>3 DEF Doing, Core, Same, target, ControllerInv, Selected, IsBytes
<1>5. QuietFact'
  BY <1>1, <1>2 DEF Same, target, QuietFact, Selected
<1>6. WordsRequested'
  <2>1. words' = Request'  BY <1>2 DEF QuietFact, Request, Same, target
  <2> QED BY <2>1 DEF WordsRequested
<1>7. Holds(G)'
  BY <1>2, <1>5, <1>6 DEF Holds, StageFacts, LockFacts, ModeFacts, ByteFacts, EraseFacts
<1>8. Kept(x)'
  <2>1. StageFacts({"quiet"})' /\ ModeFacts({"quiet"})'  BY <1>5 DEF StageFacts, ModeFacts
  <2>2. FailFlow(cmd.op, family, {"quiet"}, x)'  BY <1>2 DEF FailFlow, Same
  <2> QED BY <2>1, <2>2, KeptAfter
<1> QED BY <1>4, <1>7, <1>8 DEF Result

\* What SuccessMeansRequested promises of a command that succeeded.
Done ==
  CASE cmd.op = "erase_all" -> ~code /\ ~sealed
    [] cmd.op \in {"protect", "unprotect"} ->
          /\ obr = (cmd.op = "protect")
          /\ \A s \in {"user", "rest"} :
                \/ image[s] = before[s]
                \/ cmd.op = "unprotect" /\ ~HalfwordWrite(family) /\ image[s] = "erased"
    [] OTHER -> image = Request /\ obr = (image.rdp # "unprotected")

\* The facts at the end of an option program, as statements about the bytes.
LEMMA FinalBytes ==
  ASSUME NEW G, G = FinalFacts(cmd.op, family)', Core', Holds(G)', cmd'.op # "erase_all"
  PROVE  /\ ~sealed' /\ Selected(ctlr, Left)' /\ (obr = (image.rdp # "unprotected"))'
         /\ (image # before => dirty \/ ("LOCK" \in ctlr /\ "OPTWRE" \notin ctlr))'
         /\ (image.rdp = Request.rdp)'
         /\ Full' => (image = words)' /\ (image = Request)'
         /\ ~Full' => \A s \in Slots \ {"rdp"} : image'[s] = "erased"
<1>1. OverFact' /\ ~sealed' /\ (obr = (image.rdp # "unprotected"))'
  BY DEF FinalFacts, Holds, StageFacts, EraseFacts
<1>2. CASE Full'
  <2>1. \A s \in Slots : image'[s] = words'[s]
    BY <1>2 DEF FinalFacts, Holds, ByteFacts, WrittenUpTo, Full
  <2>2. \A s \in Slots : words'[s] = Request'[s]
    BY <1>1, <1>2 DEF OverFact, WordsRequested
  <2>3. IsBytes(Request)' /\ IsBytes(image)' /\ IsBytes(words)'
    BY NewWordsOf DEF Core, Request, IsBytes
  <2>4. (image = words)' /\ (image = Request)'
    BY <2>1, <2>2, <2>3 DEF IsBytes
  <2> QED BY <1>1, <1>2, <2>4 DEF OverFact
<1>3. CASE ~Full'
  <2>1. \A s \in Slots : image'[s] = IF s = "rdp" THEN words'[s] ELSE "erased"
    BY <1>3 DEF FinalFacts, Holds, ByteFacts, WrittenUpTo, Full
  <2>2. words'["rdp"] = Request'["rdp"]
    BY <1>1, <1>3 DEF OverFact, WordsRequested
  <2> QED BY <1>1, <1>3, <2>1, <2>2 DEF OverFact, Slots
<1> QED BY <1>2, <1>3

\* A program that has succeeded has done what was asked.
LEMMA FinalDone ==
  ASSUME NEW G, G = FinalFacts(cmd.op, family)', Core', Holds(G)'
  PROVE  /\ Done' /\ ~sealed' /\ Selected(ctlr, Left)'
         /\ (image # before => dirty \/ ("LOCK" \in ctlr /\ "OPTWRE" \notin ctlr))'
<1>1. CASE cmd'.op = "erase_all"
  <2>1. /\ OverFact' /\ ~code' /\ (family' = "V20X" => ~sealed')
    BY <1>1 DEF FinalFacts, Holds, StageFacts, EraseFacts
  <2>2. ~sealed'  BY <2>1 DEF Core, ControllerInv
  <2>3. Done'  BY <1>1, <2>1, <2>2, Zenon DEF Done
  <2> QED BY <2>1, <2>2, <2>3 DEF OverFact
<1>2. CASE cmd'.op \in {"protect", "unprotect"}
  <2>1. /\ Request'.rdp = (IF cmd'.op = "protect" THEN "protected" ELSE "unprotected")
        /\ \A s \in Slots \ {"rdp"} : Request'[s] = before'[s]
    BY <1>2, NewWordsOf DEF Core, Request, Slots
  <2>2. obr' = (cmd'.op = "protect")
    BY <1>2, <2>1, FinalBytes
  <2>3. \A s \in {"user", "rest"} :
          \/ image'[s] = before'[s]
          \/ cmd'.op = "unprotect" /\ ~HalfwordWrite(family') /\ image'[s] = "erased"
    BY <1>2, <2>1, FinalBytes DEF Full, WritesAll, Slots
  <2>4. Done'  BY <1>2, <2>2, <2>3, Zenon DEF Done
  <2> QED BY <1>2, <2>4, FinalBytes
<1>3. CASE cmd'.op \in {"set_option_bytes", "set_memory_type"}
  <2>1. image' = Request' /\ (obr = (image.rdp # "unprotected"))'
    BY <1>3, FinalBytes DEF Full, WritesAll
  <2>2. Done'  BY <1>3, <2>1, Zenon DEF Done
  <2> QED BY <1>3, <2>2, FinalBytes
<1> QED BY <1>1, <1>2, <1>3, NewWordsOf DEF Core, Operations

-----------------------------------------------------------------------------
(* The inductive invariant.                                                *)

\* The annotation of the program of an operation and a family.
Notes(op, f) ==
  CHOOSE h : Annotates(h, op, f, FirstFacts(op, f), Programs[op][f], FinalFacts(op, f))

\* Between two commands: what the properties say, and what the next command
\* relies on.
RestInv ==
  /\ Selected(ctlr, Left) /\ (faults = 0 => ~sealed)
  /\ SuccessMeansRequested /\ ControllerRestored /\ FailsForCause

\* After a failure the program is at its clean-up write, with a valid
\* idle_control and a reason to fail.
FailedInv == Step.do = "clean" /\ DriveFact /\ (faults = 0 => wrperr)

\* The inductive invariant: within a program, the facts of its annotation
\* hold.
FlashInv ==
  /\ Core /\ good \in BOOLEAN /\ pc \in Nat
  /\ ~Running => RestInv
  /\ Running => /\ pc \in 1 .. Len(Program)
                /\ good => \E F : F = Notes(cmd.op, family)[pc] /\ Holds(F)
                /\ ~good => FailedInv

\* The annotation exists and fits its program.
LEMMA NotesFit ==
  ASSUME NEW op \in Operations, NEW f \in Families, Supported(op, f)
  PROVE  /\ Len(Programs[op][f]) \in Nat \ {0}
         /\ Notes(op, f)[1] = FirstFacts(op, f)
         /\ Notes(op, f)[Len(Programs[op][f]) + 1] = FinalFacts(op, f)
         /\ \A i \in 1 .. Len(Programs[op][f]) :
              Flow(op, f, Notes(op, f)[i], Programs[op][f][i], Notes(op, f)[i + 1])
<1> DEFINE p == Programs[op][f]
           First == FirstFacts(op, f)
           Final == FinalFacts(op, f)
<1>1. (\E S : p \in Seq(S)) /\ \E h : Annotates(h, op, f, First, p, Final)
  BY ProgramsCarry DEF Carries
<1>2. Annotates(Notes(op, f), op, f, First, p, Final)  BY <1>1, Zenon DEF Notes
<1>3. Len(p) \in Nat  BY <1>1, LenProperties
<1>4. First # Final  BY DEF FirstFacts, FinalFacts
<1> HIDE DEF p, First, Final
<1>5. Len(p) # 0  BY <1>2, <1>4 DEF Annotates
<1> QED BY <1>2, <1>3, <1>5 DEF Annotates, p, First, Final

\* Less-than on the numbers is well-founded: a set of them has a least one.
LEMMA LeastOf ==
  ASSUME NEW U, U \subseteq Nat, U # {}
  PROVE  \E m \in U : \A k \in U : ~(k < m)
<1> DEFINE R == {r \in Nat \X Nat : r[1] < r[2]}
<1>1. OpToRel(<, Nat) = R  BY DEF OpToRel
<1> HIDE DEF R
<1>2. IsWellFoundedOn(R, Nat)  BY <1>1, NatLessThanWellFounded, Zenon
<1>3. PICK m \in U : \A k \in U : ~(<<k, m>> \in R)  BY <1>2, WFMin
<1> QED BY <1>3 DEF R

\* From an access that may jump to the cleanup label there is a label to jump
\* to.
LEMMA FirstClean ==
  ASSUME Core, NEW i \in 1 .. Len(Program), Program[i].do # "clean",
         "drive" \in Notes(cmd.op, family)[i]
  PROVE  CleanupOf(i) \in i + 1 .. Len(Program) /\ Program[CleanupOf(i)].do = "clean"
<1> DEFINE h == Notes(cmd.op, family)
           n == Len(Program)
<1>1. /\ n \in Nat \ {0} /\ "drive" \notin h[n + 1]
      /\ \A j \in 1 .. n : "drive" \in h[j] /\ Program[j].do # "clean" => "drive" \in h[j + 1]
  <2>1. cmd.op \in Operations /\ family \in Families /\ Supported(cmd.op, family)
    BY NewWordsOf DEF Core
  <2>2. "drive" \notin FinalFacts(cmd.op, family)  BY DEF FinalFacts
  <2>3. /\ n \in Nat \ {0} /\ h[n + 1] = FinalFacts(cmd.op, family)
        /\ \A j \in 1 .. n : Flow(cmd.op, family, h[j], Program[j], h[j + 1])
    BY <2>1, NotesFit DEF Program
  <2>4. \A F, x, G : Flow(cmd.op, family, F, x, G) /\ "drive" \in F /\ x.do # "clean" => "drive" \in G
    BY DEF Flow
  <2> HIDE DEF h, n
  <2> QED BY <2>2, <2>3, <2>4
<1> HIDE DEF h, n
<1>2. \E j \in i + 1 .. n : Program[j].do = "clean"
  <2> DEFINE U == {j \in i .. n + 1 : "drive" \notin h[j]}
  <2>1. n + 1 \in U /\ U \subseteq Nat  BY <1>1 DEF n
  <2>2. PICK j \in U : \A k \in U : ~(k < j)
    BY <2>1, LeastOf
  <2>3. j # i  BY <2>2 DEF h
  <2>4. j - 1 \in i .. n /\ j - 1 \notin U /\ (j - 1) + 1 = j
    BY <1>1, <2>1, <2>2, <2>3
  <2>5. "drive" \in h[j - 1]  BY <1>1, <2>4
  <2>6. Program[j - 1].do = "clean"  BY <1>1, <2>2, <2>4, <2>5
  <2> QED BY <2>4, <2>6
<1>3. PICK m \in i + 1 .. n :
        Program[m].do = "clean" /\ \A k \in i + 1 .. m - 1 : Program[k].do # "clean"
  <2> DEFINE C == {j \in i + 1 .. n : Program[j].do = "clean"}
  <2>1. C # {} /\ C \subseteq Nat  BY <1>1, <1>2
  <2>2. PICK m \in C : \A k \in C : ~(k < m)
    BY <2>1, LeastOf
  <2> QED BY <1>1, <2>1, <2>2
<1> QED BY <1>3 DEF CleanupOf, n

\* An access that succeeds, at the end of the program too.
LEMMA Proceeds ==
  ASSUME NEW G, Core, pc \in 1 .. Len(Program), good = TRUE, Next1, Same, Core', Holds(G)',
         G = Notes(cmd.op, family)[pc + 1]
  PROVE  FlashInv'
<1>1. Program' = Program /\ Notes(cmd.op, family)' = Notes(cmd.op, family)  BY DEF Program, Same
<1>2. /\ Len(Program) \in Nat
      /\ Notes(cmd.op, family)[Len(Program) + 1] = FinalFacts(cmd.op, family)
  BY NotesFit, NewWordsOf DEF Core, Program
<1>3. CASE pc < Len(Program)
  <2>1. pc' = pc + 1 /\ good' = TRUE  BY <1>3 DEF Next1
  <2> QED BY <1>1, <1>2, <1>3, <2>1 DEF FlashInv, Running
<1>4. CASE ~(pc < Len(Program))
  <2>1. pc' = 0 /\ good' = TRUE  BY <1>4 DEF Next1, Return
  <2>2. G = FinalFacts(cmd.op, family)'  BY <1>2, <1>4 DEF Same
  <2>3. /\ Done' /\ ~sealed' /\ Selected(ctlr, Left)'
        /\ (image # before => dirty \/ ("LOCK" \in ctlr /\ "OPTWRE" \notin ctlr))'
    BY <2>2, FinalDone
  <2>4. SuccessMeansRequested'  BY <2>3, Zenon DEF SuccessMeansRequested, Done
  <2>5. ControllerRestored' /\ FailsForCause'
    BY <2>1, <2>3 DEF ControllerRestored, FailsForCause, Selected, Left
  <2> QED BY <2>1, <2>3, <2>4, <2>5 DEF FlashInv, Running, RestInv
<1> QED BY <1>3, <1>4

\* Why the access x may have failed: the link, a refused erase, or a BSY that
\* was set before an option program started anything.
Cause(x) ==
  \/ faults # 0
  \/ wrperr /\ x.fail = "cleanup"
  \/ held /\ cmd.op # "erase_all" /\ QuietFact /\ x.fail = "return"

\* An access that fails.
LEMMA Stops ==
  ASSUME NEW x, NEW F, NEW G, Doing(x, F, G), pc \in 1 .. Len(Program), x = Program[pc],
         F = Notes(cmd.op, family)[pc], x.do \notin {"clean", "idle"},
         Fail, Same, Core', Kept(x)', Cause(x)'
  PROVE  FlashInv'
<1>1. good' = FALSE /\ Program' = Program  BY DEF Fail, Program, Same
<1>2. CASE x.fail = "return"
  <2>1. pc' = 0  BY <1>2 DEF Fail, Step
  <2>2. Returnable' /\ (faults' # 0 \/ (held' /\ cmd'.op # "erase_all" /\ QuietFact'))
    BY <1>2 DEF Kept, Cause
  <2>3. SuccessMeansRequested'  BY <1>1, Zenon DEF SuccessMeansRequested
  <2>4. Selected(ctlr, Left)' /\ (faults' = 0 => ~sealed')
    BY <2>2 DEF Returnable, QuietFact, Selected, Left
  <2>5. ControllerRestored'
    BY <2>2, <2>4 DEF Returnable, ControllerRestored, Selected, Left
  <2>6. FailsForCause'  BY <2>2 DEF QuietFact, FailsForCause
  <2> QED BY <1>1, <2>1, <2>3, <2>4, <2>5, <2>6 DEF FlashInv, Running, RestInv
<1>3. CASE x.fail # "return"
  <2>1. FailFlow(cmd.op, family, F, x)  BY DEF Doing, Flow
  <2>2. x.fail = "cleanup" /\ "drive" \in F  BY <1>3, <2>1 DEF FailFlow
  <2>3. CleanupOf(pc) \in pc + 1 .. Len(Program) /\ Program[CleanupOf(pc)].do = "clean"
    BY <2>2, FirstClean DEF Doing
  <2>4. Len(Program) \in Nat  BY NotesFit, NewWordsOf DEF Doing, Core, Program
  <2>5. pc' = CleanupOf(pc)  BY <1>3 DEF Fail, Step
  <2>6. pc' \in 1 .. Len(Program) /\ Step'.do = "clean"
    BY <1>1, <2>3, <2>4, <2>5 DEF Step
  <2>7. FailedInv'
    BY <2>2, <2>6 DEF FailedInv, Kept, Cause, Core, ControllerInv
  <2>8. pc' \in Nat /\ Running'  BY <2>4, <2>6 DEF Running
  <2>9. pc' \in 1 .. Len(Program')  BY <1>1, <2>6
  <2>10. good' \in BOOLEAN /\ ~good'  BY <1>1
  <2> QED BY <2>7, <2>8, <2>9, <2>10 DEF FlashInv
<1> QED BY <1>2, <1>3

-----------------------------------------------------------------------------
(* One lemma per action: it preserves the invariant.                       *)

\* The program is at the access x, between the facts F and G.
At(x, F, G) ==
  /\ Doing(x, F, G) /\ good = TRUE /\ pc \in 1 .. Len(Program) /\ x = Program[pc]
  /\ F = Notes(cmd.op, family)[pc] /\ G = Notes(cmd.op, family)[pc + 1]

\* The frame of the interpreter's actions.
Inside == UNCHANGED <<family, cmd, before, commands>>

\* A step that succeeds without a fault.
LEMMA Succeeds ==
  ASSUME NEW x, NEW F, NEW G, At(x, F, G), Inside, Next1, UNCHANGED faults, Core', Holds(G)'
  PROVE  FlashInv'
BY Proceeds DEF At, Doing, Same, Inside

\* A step in which the link fails, with or without its effect on the target.
LEMMA Breaking ==
  ASSUME NEW x, NEW F, NEW G, At(x, F, G), Inside, x.do \notin {"clean", "idle"}, Breaks,
         Core', Kept(x)'
  PROVE  FlashInv'
<1>1. Same /\ Cause(x)'  BY DEF At, Doing, Core, Same, Inside, Breaks, Cause
<1> QED BY <1>1, Stops DEF At, Breaks

\* A step in which the link fails without an effect.
LEMMA BreaksQuietly ==
  ASSUME NEW x, NEW F, NEW G, At(x, F, G), Inside, x.do \notin {"clean", "idle"}, Breaks, Quiet,
         UNCHANGED target
  PROVE  FlashInv'
<1>1. Same  BY DEF Same, Inside, Breaks
<1>2. Result(x, F)'  BY <1>1, UnchangedEffect DEF At, Quiet
<1> QED BY <1>2, Breaking DEF Result

\* Polling BSY.
LEMMA WaitStep ==
  ASSUME NEW x, NEW F, NEW G, At(x, F, G), Inside, StepWait
  PROVE  FlashInv'
<1>1. /\ x.do = "wait" /\ Quiet /\ UNCHANGED target
      /\ WaitFlow(cmd.op, family, F, G) /\ FailFlow(cmd.op, family, F, x)
  BY DEF StepWait, Step, At, Doing, Flow
<1>2. CASE ~held /\ Next1 /\ UNCHANGED faults
  <2>1. Same  BY <1>2 DEF Same, Inside
  <2>2. Result(x, F)'  BY <1>1, <2>1, UnchangedEffect DEF At, Quiet
  <2>3. Holds(G)'
    <3>1. Holds(G \ {"freed"})'
      BY <1>1, <2>2, HoldsLess DEF Result, WaitFlow
    <3>2. ~held'  BY <1>1, <1>2 DEF target
    <3>3. StageFacts(G)' /\ ModeFacts(G)'
      BY <3>1, <3>2 DEF Holds, StageFacts, ModeFacts
    <3>4. LockFacts(G)'  BY <3>1 DEF Holds, LockFacts
    <3>5. ByteFacts(G)' /\ EraseFacts(G)'  BY <3>1 DEF Holds, ByteFacts, EraseFacts
    <3> QED BY <3>3, <3>4, <3>5 DEF Holds
  <2> QED BY <1>2, <2>2, <2>3, Succeeds DEF Result
<1>3. CASE held /\ Fail /\ UNCHANGED faults
  <2>1. Same  BY <1>3 DEF Same, Inside
  <2>2. Result(x, F)'  BY <1>1, <2>1, UnchangedEffect DEF At, Quiet
  <2>3. "drive" \notin F
    BY <1>1, <1>3 DEF WaitFlow, At, Doing, Holds, StageFacts, DriveFact, EraseFacts
  <2>4. cmd.op # "erase_all"
    BY <1>1, <1>3, <2>3 DEF WaitFlow, At, Doing, Core, ControllerInv
  <2>5. QuietFact' /\ x.fail = "return"
    BY <1>1, <2>2, <2>3 DEF WaitFlow, FailFlow, Result, Holds, StageFacts
  <2>6. Cause(x)'  BY <1>1, <1>3, <2>1, <2>4, <2>5 DEF target, Same, Cause
  <2> QED BY <1>1, <1>3, <2>1, <2>2, <2>5, <2>6, Stops DEF At, Result
<1>4. CASE Breaks
  BY <1>1, <1>4, BreaksQuietly
<1> QED BY <1>2, <1>3, <1>4 DEF StepWait

\* Reading FLASH_CTLR.
LEMMA ReadStep ==
  ASSUME NEW x, NEW F, NEW G, At(x, F, G), Inside, StepRead
  PROVE  FlashInv'
<1>1. x.do = "read" /\ Same /\ UNCHANGED target
  BY DEF StepRead, Step, At, Access, Same, Inside, Breaks
<1>2. Result(x, G)'  BY <1>1, ReadEffect DEF At, StepRead
<1>3. CASE Next1 /\ UNCHANGED faults
  BY <1>2, <1>3, Succeeds DEF Result
<1>4. CASE Breaks
  BY <1>1, <1>2, <1>4, Breaking DEF Result
<1> QED BY <1>3, <1>4 DEF StepRead, Access

\* Writing a key.
LEMMA KeyStep ==
  ASSUME NEW x, NEW F, NEW G, At(x, F, G), Inside, StepKey
  PROVE  FlashInv'
<1>1. x.do = "key" /\ Quiet /\ x = Step  BY DEF StepKey, Step, At
<1>2. \/ x.when # {} /\ x.when \cap control = {} /\ Next1 /\ UNCHANGED <<target, faults>>
      \/ KeyWritten(x.reg, x.key) /\ Next1 /\ UNCHANGED faults
      \/ KeyWritten(x.reg, x.key) /\ Breaks
      \/ UNCHANGED target /\ Breaks
  BY <1>1 DEF StepKey, Access
<1>3. Same  BY <1>2 DEF Same, Inside, Breaks
<1>4. ASSUME \/ KeyWritten(x.reg, x.key)
             \/ x.when # {} /\ x.when \cap control = {} /\ UNCHANGED target
      PROVE  Result(x, G)'
  BY <1>1, <1>3, <1>4, KeyEffect DEF At, Quiet
<1>5. CASE x.when # {} /\ x.when \cap control = {} /\ Next1 /\ UNCHANGED <<target, faults>>
  BY <1>4, <1>5, Succeeds DEF Result
<1>6. CASE KeyWritten(x.reg, x.key) /\ Next1 /\ UNCHANGED faults
  BY <1>4, <1>6, Succeeds DEF Result
<1>7. CASE KeyWritten(x.reg, x.key) /\ Breaks
  BY <1>1, <1>4, <1>7, Breaking DEF Result
<1>8. CASE UNCHANGED target /\ Breaks
  BY <1>1, <1>8, BreaksQuietly DEF target
<1> QED BY <1>2, <1>5, <1>6, <1>7, <1>8

\* Checking the locks.
LEMMA CheckStep ==
  ASSUME NEW x, NEW F, NEW G, At(x, F, G), Inside, StepCheck
  PROVE  FlashInv'
<1>1. /\ x.do = "check" /\ Quiet /\ UNCHANGED <<target, faults>>
      /\ IF control \cap x.off = {} /\ x.on \subseteq control THEN Next1 ELSE Fail
  BY DEF StepCheck, Step, At
<1>2. Same  BY <1>1 DEF Same, Inside
<1>3. /\ faults = 0 => control \cap x.off = {} /\ x.on \subseteq control
      /\ control \cap x.off = {} /\ x.on \subseteq control => Result(x, G)'
      /\ Result(x, F)'
  BY <1>1, <1>2, CheckEffect DEF At, Quiet
<1>4. CASE control \cap x.off = {} /\ x.on \subseteq control
  BY <1>1, <1>3, <1>4, Succeeds DEF Result
<1>5. CASE ~(control \cap x.off = {} /\ x.on \subseteq control)
  <2>1. Fail /\ Cause(x)'  BY <1>1, <1>3, <1>5 DEF Cause
  <2> QED BY <1>1, <1>2, <1>3, <2>1, Stops DEF At, Result
<1> QED BY <1>4, <1>5

\* Computing idle_control.
LEMMA IdleStep ==
  ASSUME NEW x, NEW F, NEW G, At(x, F, G), Inside, StepIdle
  PROVE  FlashInv'
<1>1. /\ x.do = "idle" /\ idle' = control \ x.clear /\ Next1
      /\ UNCHANGED <<target, control, words, faults, dirty>>
  BY DEF StepIdle, Step, At
<1>2. Core' /\ Holds(G)'  BY <1>1, IdleEffect DEF At, Same, Inside
<1> QED BY <1>1, <1>2, Succeeds

\* Writing FLASH_CTLR.
LEMMA ControlStep ==
  ASSUME NEW x, NEW F, NEW G, At(x, F, G), Inside, StepControl
  PROVE  FlashInv'
<1> DEFINE bits == IF x.do = "start" THEN control \cup {"STRT"} ELSE idle \cup x.bits
<1>1. x.do \in {"ctl", "start"} /\ Quiet /\ x = Step  BY DEF StepControl, Step, At
<1>2. \/ Control(bits) /\ Next1 /\ UNCHANGED faults
      \/ Control(bits) /\ Breaks
      \/ UNCHANGED target /\ Breaks
  BY <1>1 DEF StepControl, Access
<1>3. Same  BY <1>2 DEF Same, Inside, Breaks
<1>4. ASSUME Control(bits)
      PROVE  Result(x, G)'
  <2>1. CASE x.do = "ctl"
    BY <1>1, <1>3, <1>4, <2>1, ControlEffect DEF At, Quiet
  <2>2. CASE x.do = "start"
    BY <1>1, <1>3, <1>4, <2>2, StartEffect DEF At, Quiet
  <2> QED BY <1>1, <2>1, <2>2
<1> HIDE DEF bits
<1>5. CASE Control(bits) /\ Next1 /\ UNCHANGED faults
  BY <1>4, <1>5, Succeeds DEF Result
<1>6. CASE Control(bits) /\ Breaks
  BY <1>1, <1>4, <1>6, Breaking DEF Result
<1>7. CASE UNCHANGED target /\ Breaks
  BY <1>1, <1>7, BreaksQuietly DEF target
<1> QED BY <1>2, <1>5, <1>6, <1>7

\* Looking at the write protection error.
LEMMA StatusStep ==
  ASSUME NEW x, NEW F, NEW G, At(x, F, G), Inside, StepStatus
  PROVE  FlashInv'
<1>1. /\ x.do = "wrp" /\ Quiet /\ UNCHANGED <<target, faults>>
      /\ IF wrperr THEN Fail ELSE Next1
  BY DEF StepStatus, Step, At
<1>2. Same /\ x.fail = "cleanup"  BY <1>1 DEF Same, Inside, At, Doing, Flow
<1>3. (~wrperr => Result(x, G)') /\ Result(x, F)'
  BY <1>1, <1>2, StatusEffect DEF At, Quiet
<1>4. CASE wrperr
  <2>1. Fail /\ Cause(x)'  BY <1>1, <1>2, <1>4 DEF Cause, target
  <2> QED BY <1>1, <1>2, <1>3, <2>1, Stops DEF At, Result
<1>5. CASE ~wrperr
  BY <1>1, <1>3, <1>5, Succeeds DEF Result
<1> QED BY <1>4, <1>5

\* Clearing the write protection error.
LEMMA ClearStatusStep ==
  ASSUME NEW x, NEW F, NEW G, At(x, F, G), Inside, StepClearStatus
  PROVE  FlashInv'
<1> DEFINE Clears == /\ wrperr' = FALSE
                     /\ UNCHANGED <<ctlr, keyed, sealed, held, wprot, code, image, buffer, obr>>
<1>1. x.do = "clearstatus" /\ Quiet  BY DEF StepClearStatus, Step, At
<1>2. \/ Clears /\ Next1 /\ UNCHANGED faults
      \/ Clears /\ Breaks
      \/ UNCHANGED target /\ Breaks
      \/ ~wrperr /\ Next1 /\ UNCHANGED <<target, faults>>
  BY DEF StepClearStatus, Access
<1>3. ~wrperr /\ UNCHANGED target => Clears  BY DEF target, At, Doing, Core
<1>4. Same  BY <1>2 DEF Same, Inside, Breaks
<1>5. Clears => Result(x, G)'
  BY <1>1, <1>4, ClearStatusEffect DEF At, Quiet
<1> HIDE DEF Clears
<1>6. CASE Clears /\ Next1 /\ UNCHANGED faults
  BY <1>5, <1>6, Succeeds DEF Result
<1>7. CASE Clears /\ Breaks
  BY <1>1, <1>5, <1>7, Breaking DEF Result
<1>8. CASE UNCHANGED target /\ Breaks
  BY <1>1, <1>8, BreaksQuietly DEF target
<1> QED BY <1>2, <1>3, <1>6, <1>7, <1>8

\* Writing a half word, a word of the page buffer or its address.
LEMMA DataStep ==
  ASSUME NEW x, NEW F, NEW G, At(x, F, G), Inside, StepData
  PROVE  FlashInv'
<1> DEFINE Writes == CASE x.do = "half" -> HalfWritten(x.slot)
                       [] x.do = "word" -> WordWritten(x.slots)
                       [] x.do = "address" -> UNCHANGED target
<1>1. x.do \in {"half", "word", "address"} /\ Quiet /\ x = Step  BY DEF StepData, Step, At
<1>2. Access(Writes) => \/ Writes /\ Next1 /\ UNCHANGED faults
                        \/ Writes /\ Breaks
                        \/ UNCHANGED target /\ Breaks
  BY Zenon DEF Access
<1>3. Access(Writes)  BY <1>1, Zenon DEF StepData
<1>4. (Next1 /\ UNCHANGED faults) \/ Breaks => Same  BY DEF Same, Inside, Breaks
<1>5. ASSUME Writes, Same
      PROVE  Result(x, G)'
  <2>1. CASE x.do = "half"
    <3>1. HalfWritten(x.slot)  BY <1>5, <2>1, Zenon
    <3> HIDE DEF Writes
    <3> QED BY <1>1, <1>5, <2>1, <3>1, HalfEffect DEF At, Quiet
  <2>2. CASE x.do = "word"
    <3>1. WordWritten(x.slots)  BY <1>5, <2>2, Zenon
    <3> HIDE DEF Writes
    <3> QED BY <1>1, <1>5, <2>2, <3>1, WordEffect DEF At, Quiet
  <2>3. CASE x.do = "address"
    <3>1. UNCHANGED target  BY <1>5, <2>3, Zenon
    <3>2. G \subseteq F  BY <2>3 DEF At, Doing, Flow
    <3> HIDE DEF Writes
    <3> QED BY <1>1, <1>5, <2>3, <3>1, <3>2, UnchangedEffect DEF At, Quiet, target
  <2> HIDE DEF Writes
  <2> QED BY <1>1, <2>1, <2>2, <2>3
<1> HIDE DEF Writes
<1>6. CASE Writes /\ Next1 /\ UNCHANGED faults
  BY <1>4, <1>5, <1>6, Succeeds DEF Result
<1>7. CASE Writes /\ Breaks
  BY <1>1, <1>4, <1>5, <1>7, Breaking DEF Result
<1>8. CASE UNCHANGED target /\ Breaks
  BY <1>1, <1>8, BreaksQuietly DEF target
<1> QED BY <1>2, <1>3, <1>6, <1>7, <1>8

\* Resetting the target.
LEMMA ResetStep ==
  ASSUME NEW x, NEW F, NEW G, At(x, F, G), Inside, StepReset
  PROVE  FlashInv'
<1>1. x.do = "reset" /\ UNCHANGED <<control, idle, words>>  BY DEF StepReset, Step, At
<1>2. \/ ResetDone /\ dirty' = FALSE /\ ((Next1 /\ UNCHANGED faults) \/ Breaks)
      \/ UNCHANGED <<target, dirty>> /\ Breaks
  BY DEF StepReset
<1>3. Same  BY <1>2 DEF Same, Inside, Breaks
<1>4. ResetDone /\ dirty' = FALSE => Result(x, G)'
  BY <1>1, <1>3, ResetEffect DEF At
<1>5. CASE ResetDone /\ dirty' = FALSE /\ Next1 /\ UNCHANGED faults
  BY <1>4, <1>5, Succeeds DEF Result
<1>6. CASE ResetDone /\ dirty' = FALSE /\ Breaks
  BY <1>1, <1>4, <1>6, Breaking DEF Result
<1>7. CASE UNCHANGED <<target, dirty>> /\ Breaks
  BY <1>1, <1>7, BreaksQuietly DEF target, Quiet
<1> QED BY <1>2, <1>5, <1>6, <1>7

\* Reading the option bytes.
LEMMA ImageStep ==
  ASSUME NEW x, NEW F, NEW G, At(x, F, G), Inside, StepImage
  PROVE  FlashInv'
<1>1. x.do = "image" /\ Same /\ UNCHANGED target
  BY DEF StepImage, Step, At, Access, Same, Inside, Breaks
<1>2. Result(x, G)'  BY <1>1, ImageEffect DEF At, StepImage
<1>3. CASE Next1 /\ UNCHANGED faults
  BY <1>2, <1>3, Succeeds DEF Result
<1>4. CASE Breaks
  BY <1>1, <1>2, <1>4, Breaking DEF Result
<1> QED BY <1>3, <1>4 DEF StepImage, Access

\* Comparing the option bytes with the words.
LEMMA VerifyStep ==
  ASSUME NEW x, NEW F, NEW G, At(x, F, G), Inside, StepVerify
  PROVE  FlashInv'
<1>1. x.do = "verify" /\ Quiet /\ UNCHANGED target  BY DEF StepVerify, Step, At
<1>2. /\ cmd.op \in {"set_option_bytes", "set_memory_type"}
      /\ FinalFacts(cmd.op, family) \subseteq F /\ G \subseteq F
  BY <1>1 DEF At, Doing, Flow
<1>3. CASE UNCHANGED faults
  <2>1. Same  BY <1>3 DEF Same, Inside
  <2>2. Result(x, F)' /\ Result(x, G)'
    BY <1>1, <1>2, <2>1, UnchangedEffect DEF At, Quiet, target
  <2>3. image = words
    <3>1. PICK H : H = FinalFacts(cmd.op, family)  OBVIOUS
    <3>2. Holds(H)' /\ Core'  BY <1>2, <2>2, <3>1, HoldsLess DEF Result
    <3>3. H = FinalFacts(cmd.op, family)' /\ cmd'.op # "erase_all" /\ Full'
      BY <1>2, <2>1, <3>1 DEF Same, Full, WritesAll
    <3> QED BY <1>1, <3>2, <3>3, FinalBytes DEF target, Quiet
  <2>4. Next1  BY <1>3, <2>3 DEF StepVerify, Breaks, At, Doing, Core
  <2> QED BY <1>3, <2>2, <2>4, Succeeds DEF Result
<1>4. CASE Breaks
  BY <1>1, <1>4, BreaksQuietly DEF target
<1> QED BY <1>3, <1>4 DEF StepVerify

\* Reading the read protection, before the write and after it.
LEMMA ProtectedStep ==
  ASSUME NEW x, NEW F, NEW G, At(x, F, G), Inside, StepProtected
  PROVE  FlashInv'
<1>1. x.do = "status" /\ Quiet /\ UNCHANGED target /\ x = Step  BY DEF StepProtected, Step, At
<1>2. StatusFlow(cmd.op, family, F, x, G)  BY <1>1 DEF At, Doing, Flow
<1>3. CASE Breaks
  BY <1>1, <1>3, BreaksQuietly DEF target
<1>4. ASSUME UNCHANGED faults,
             IF obr = x.protect THEN Return(TRUE) ELSE IF x.when = "before" THEN Next1 ELSE Fail
      PROVE  FlashInv'
  <2>1. Same  BY <1>4 DEF Same, Inside
  <2>2. Core' /\ Holds(F)' /\ Holds(G)'
    BY <1>1, <1>2, <2>1, UnchangedEffect DEF At, Quiet, target, Result, StatusFlow
  <2>3. CASE x.when = "before"
    <3>1. CASE obr # x.protect
      BY <1>4, <2>2, <2>3, <3>1, Succeeds
    <3>2. CASE obr = x.protect
      <4>1. pc' = 0 /\ good' = TRUE  BY <1>4, <3>2 DEF Return
      <4>2. QuietFact'  BY <1>2, <2>2, <2>3 DEF StatusFlow, Holds, StageFacts
      <4>3. Done'
        <5>1. cmd'.op \in {"protect", "unprotect"} /\ obr' = (cmd'.op = "protect")
          BY <1>1, <1>2, <2>1, <3>2 DEF StatusFlow, Same, target
        <5>2. image' = before'  BY <4>2 DEF QuietFact
        <5> QED BY <5>1, <5>2, Zenon DEF Done
      <4>4. SuccessMeansRequested'  BY <4>3, Zenon DEF SuccessMeansRequested, Done
      <4>5. ControllerRestored' /\ FailsForCause'
        BY <4>1, <4>2 DEF QuietFact, ControllerRestored, FailsForCause, Selected, Left
      <4> QED BY <2>2, <4>1, <4>2, <4>4, <4>5 DEF FlashInv, Running, RestInv, QuietFact
    <3> QED BY <3>1, <3>2
  <2>4. CASE x.when # "before"
    <3>1. PICK H : H = FinalFacts(cmd.op, family)  OBVIOUS
    <3>2. Holds(H)' /\ H = FinalFacts(cmd.op, family)'
      BY <1>2, <2>1, <2>2, <2>4, <3>1, HoldsLess DEF StatusFlow, Same
    <3>3. /\ Done' /\ ~sealed' /\ Selected(ctlr, Left)'
          /\ (image # before => dirty \/ ("LOCK" \in ctlr /\ "OPTWRE" \notin ctlr))'
      BY <2>2, <3>2, FinalDone
    <3>4. obr = x.protect
      <4>1. cmd'.op \in {"protect", "unprotect"} /\ x.protect = (cmd'.op = "protect")
        BY <1>2, <2>1 DEF StatusFlow, Same
      <4>2. obr' = (cmd'.op = "protect")  BY <3>3, <4>1, Zenon DEF Done
      <4> QED BY <1>1, <4>1, <4>2 DEF target
    <3>5. pc' = 0 /\ good' = TRUE  BY <1>4, <3>4 DEF Return
    <3>6. SuccessMeansRequested'  BY <3>3, Zenon DEF SuccessMeansRequested, Done
    <3>7. ControllerRestored' /\ FailsForCause'
      BY <3>3, <3>5 DEF ControllerRestored, FailsForCause, Selected, Left
    <3> QED BY <2>2, <3>3, <3>5, <3>6, <3>7 DEF FlashInv, Running, RestInv
  <2> QED BY <2>3, <2>4
<1> QED BY <1>1, <1>3, <1>4 DEF StepProtected

\* The cleanup label.
LEMMA CleanupStep ==
  ASSUME FlashInv, Inside, StepCleanup,
         NEW x, NEW F, NEW G, x = Program[pc],
         F = Notes(cmd.op, family)[pc], G = Notes(cmd.op, family)[pc + 1],
         Flow(cmd.op, family, F, x, G)
  PROVE  FlashInv'
<1> DEFINE bits == (idle \ x.clear) \cup x.set
<1>1. /\ x.do = "clean" /\ x = Step /\ Core /\ pc \in 1 .. Len(Program)
      /\ UNCHANGED <<control, idle, words>> /\ good \in BOOLEAN
      /\ good => Holds(F)
      /\ ~good => FailedInv
  BY DEF StepCleanup, Step, FlashInv
<1>2. CleanFlow(cmd.op, F, x, G)  BY <1>1 DEF Flow
<1>3. DriveFact
  BY <1>1, <1>2 DEF FailedInv, CleanFlow, Holds, StageFacts
<1>4. CASE Control(bits) /\ UNCHANGED <<dirty, faults>> /\ good /\ Next1
  <2>1. Same  BY <1>4 DEF Same, Inside
  <2>2. Doing(x, F, G)  BY <1>1, <1>4 DEF Doing
  <2>3. Core' /\ Holds(G)'  BY <1>1, <1>4, <2>1, <2>2, CleanEffect
  <2> QED BY <1>1, <1>4, <2>1, <2>3, Proceeds
<1>5. CASE Control(bits) /\ UNCHANGED <<dirty, faults>> /\ ~good /\ Return(FALSE)
  <2>1. Same  BY <1>5 DEF Same, Inside
  <2>2. Core' /\ OverFact' /\ (wrperr => wrperr')
    BY <1>1, <1>2, <1>3, <1>5, <2>1, CleanControl
  <2>3. pc' = 0 /\ good' = FALSE  BY <1>5 DEF Return
  <2>4. faults' = 0 => wrperr'  BY <1>1, <1>5, <2>2 DEF FailedInv
  <2>5. SuccessMeansRequested'  BY <2>3, Zenon DEF SuccessMeansRequested
  <2>6. ControllerRestored' /\ FailsForCause'
    BY <2>2, <2>4 DEF OverFact, ControllerRestored, FailsForCause, Selected, Left, Core,
       ControllerInv
  <2>7. Selected(ctlr, Left)' /\ (faults' = 0 => ~sealed')
    BY <2>2, <2>4 DEF OverFact, Core, ControllerInv
  <2> QED BY <2>2, <2>3, <2>5, <2>6, <2>7 DEF FlashInv, Running, RestInv
<1>6. CASE /\ faults' = faults + 1 /\ dirty' = TRUE /\ pc' = 0 /\ good' = FALSE
           /\ Control(bits) \/ UNCHANGED target
  <2>1. Same /\ faults' \in Nat /\ faults' # 0  BY <1>1, <1>6 DEF Same, Inside, Core
  <2>2. Core'
    <3>1. CASE Control(bits)
      BY <1>1, <1>2, <1>3, <1>6, <2>1, <3>1, CleanControl
    <3>2. CASE UNCHANGED target
      BY <1>1, <1>6, <2>1, <3>2 DEF Core, Same, target, ControllerInv, Selected, IsBytes
    <3> QED BY <1>6, <3>1, <3>2
  <2>3. SuccessMeansRequested'  BY <1>6, Zenon DEF SuccessMeansRequested
  <2> QED BY <1>6, <2>1, <2>2, <2>3 DEF FlashInv, Running, RestInv, Selected,
      ControllerRestored,
                                     FailsForCause
<1> QED BY <1>1, <1>4, <1>5, <1>6 DEF StepCleanup

\* The next command starts with the facts that its program expects.
LEMMA CommandStep ==
  ASSUME FlashInv, Command
  PROVE  FlashInv'
<1>1. PICK c \in Commands :
        /\ Supported(c.op, family)
        /\ cmd' = c /\ before' = image /\ words' = NewWords(c, Blank)
  BY DEF Command
<1>2. /\ Core /\ RestInv /\ ~Running
      /\ pc' = 1 /\ good' = TRUE /\ control' = {} /\ idle' = {}
      /\ UNCHANGED <<family, target, faults, dirty>>
  BY DEF Command, FlashInv
<1>3. Left' = Left  BY <1>2 DEF Left
<1>4. IsBytes(Blank)  BY DEF IsBytes, Blank
<1>5. Core'
  <2>1. IsBytes(words)'  BY <1>1, <1>4, NewWordsOf DEF IsBytes
  <2> QED BY <1>1, <1>2, <1>3, <2>1 DEF Core, target, ControllerInv, Selected, IsBytes
<1>6. QuietFact'
  BY <1>1, <1>2, <1>3 DEF QuietFact, RestInv, Selected, target
<1>7. cmd'.op = "set_option_bytes" \/ ~WritesAll(cmd'.op, family') => WordsRequested'
  <2>1. Request' = NewWords(c, image)  BY <1>1 DEF Request
  <2>2. CASE c.op = "set_option_bytes"
    BY <1>1, <1>2, <1>4, <2>1, <2>2, NewWordsOf DEF WordsRequested
  <2>3. CASE ~WritesAll(c.op, family')
    <3>1. c.op = "unprotect"  BY <2>3 DEF WritesAll
    <3>2. words'["rdp"] = "unprotected" /\ Request'["rdp"] = "unprotected"
      BY <1>1, <1>2, <1>4, <2>1, <3>1, NewWordsOf DEF Core, Slots
    <3> QED BY <1>1, <2>3, <3>2 DEF WordsRequested, Full
  <2> QED BY <1>1, <2>2, <2>3
<1>8. PICK F : F = FirstFacts(cmd'.op, family')  OBVIOUS
<1>9. Holds(F)'
  BY <1>6, <1>7, <1>8 DEF FirstFacts, Holds, StageFacts, LockFacts, ModeFacts, ByteFacts,
     EraseFacts
<1>10. F = Notes(cmd.op, family)'[pc'] /\ pc' \in 1 .. Len(Program')
  BY <1>1, <1>2, <1>8, NotesFit, NewWordsOf DEF Core, Program
<1> QED BY <1>2, <1>5, <1>9, <1>10 DEF FlashInv, Running

\* The initial states satisfy the invariant.
LEMMA FlashInit ==
  ASSUME Init
  PROVE  FlashInv
<1>1. IsBytes(Blank)  BY DEF IsBytes, Blank
<1>2. IsBytes(image)  BY DEF Init, IsBytes, Slots
<1>3. cmd \in Commands /\ cmd.op = "erase_all"  BY DEF Init, Commands
<1>4. Supported(cmd.op, family)  BY <1>3 DEF Supported
<1>5. /\ wprot \in BOOLEAN /\ obr \in BOOLEAN
  <2>1. (image.rdp # "unprotected") \in BOOLEAN /\ (image.rest \in Protecting) \in BOOLEAN
    OBVIOUS
  <2>2. wprot = (image.rest \in Protecting) /\ obr = (image.rdp # "unprotected")  BY DEF Init
  <2> QED BY <2>1, <2>2, Zenon
<1>6. ctlr \subseteq ControlBits /\ ctlr \cap Modes = {} /\ "OPTWRE" \notin ctlr
  BY DEF Init, Locks, ControlBits, Modes
<1>7. Core
  BY <1>1, <1>2, <1>3, <1>4, <1>5, <1>6 DEF Init, Core, ControllerInv, Selected, IsBytes,
     BusyBeforeErase
<1>8. RestInv
  <2>1. ~Ended  BY DEF Init, Ended
  <2>2. SuccessMeansRequested  BY <2>1, Zenon DEF SuccessMeansRequested
  <2> QED BY <1>6, <2>1, <2>2 DEF Init, RestInv, ControllerRestored, FailsForCause, Selected
<1> QED BY <1>7, <1>8 DEF Init, FlashInv, Running

\* A stuttering step keeps the invariant.
LEMMA FlashStutter ==
  ASSUME FlashInv, UNCHANGED vars
  PROVE  FlashInv'
<1>1. /\ UNCHANGED <<family, cmd, pc, before, faults, commands, dirty>>
      /\ UNCHANGED <<control, idle, words, good, flash_code>>
      /\ UNCHANGED <<ctlr, keyed, sealed, held, wrperr, wprot, code, image, buffer, obr>>
  BY DEF vars, target, locals
<1>2. Core'  BY <1>1 DEF FlashInv, Core, ControllerInv, Selected, Left, IsBytes
<1>3. ~Running' => RestInv'
  <2>1. SuccessMeansRequested => SuccessMeansRequested'
    BY <1>1, Zenon DEF SuccessMeansRequested, Ended, Running, Request, HalfwordWrite
  <2>2. ControllerRestored' = ControllerRestored /\ FailsForCause' = FailsForCause
    BY <1>1 DEF ControllerRestored, FailsForCause, Ended, Running
  <2> QED BY <1>1, <2>1, <2>2 DEF FlashInv, RestInv, Selected, Left, Running
<1>4. Program' = Program /\ Step' = Step  BY <1>1 DEF Program, Step
<1>5. FailedInv => FailedInv'
  BY <1>1, <1>4 DEF FailedInv, DriveFact, Selected, Left, EraseMode, WordsRequested, Full,
     Request
<1>6. ASSUME NEW F, Holds(F)
      PROVE  Holds(F)'
  <2>1. Same /\ Core  BY <1>1 DEF Same, FlashInv
  <2>2. UNCHANGED target  BY <1>1 DEF target
  <2> QED BY <1>1, <1>6, <2>1, <2>2, FaultKeeps
<1> QED BY <1>1, <1>2, <1>3, <1>4, <1>5, <1>6 DEF FlashInv, Running

\* Every step keeps the invariant.
LEMMA FlashStep ==
  ASSUME FlashInv, Next
  PROVE  FlashInv'
<1>1. CASE Command  BY <1>1, CommandStep
<1>2. ASSUME Inside, Running, NEW x, x = Program[pc],
             NEW F, F = Notes(cmd.op, family)[pc], NEW G, G = Notes(cmd.op, family)[pc + 1],
             \/ StepWait \/ StepRead \/ StepKey \/ StepCheck \/ StepIdle \/ StepControl
             \/ StepStatus \/ StepClearStatus \/ StepData \/ StepCleanup
             \/ StepReset \/ StepImage \/ StepProtected \/ StepVerify
      PROVE  FlashInv'
  <2>1. Core /\ pc \in 1 .. Len(Program)  BY <1>2 DEF FlashInv
  <2>2. Flow(cmd.op, family, F, x, G)
    BY <1>2, <2>1, NotesFit, NewWordsOf DEF Core, Program
  <2>3. CASE StepCleanup
    BY <1>2, <2>2, <2>3, CleanupStep
  <2>4. CASE ~StepCleanup
    <3>1. x.do # "clean"
      BY <1>2, <2>4 DEF StepWait, StepRead, StepKey, StepCheck, StepIdle, StepControl,
         StepStatus,
           StepClearStatus, StepData, StepReset, StepImage, StepProtected, StepVerify, Step
    <3>2. good = TRUE  BY <1>2, <3>1 DEF FlashInv, FailedInv, Step
    <3>3. At(x, F, G)  BY <1>2, <2>1, <2>2, <3>2 DEF At, Doing, FlashInv
    <3> QED BY <1>2, <2>4, <3>3, WaitStep, ReadStep, KeyStep, CheckStep, IdleStep,
        ControlStep,
               StatusStep, ClearStatusStep, DataStep, ResetStep, ImageStep, ProtectedStep, VerifyStep
  <2> QED BY <2>3, <2>4
<1>3. CASE ~Command
  <2>1. Inside  BY <1>3 DEF Next, Inside
  <2>2. Running
    BY <1>3 DEF Next, StepWait, StepRead, StepKey, StepCheck, StepIdle, StepControl,
       StepStatus,
         StepClearStatus, StepData, StepCleanup, StepReset, StepImage, StepProtected, StepVerify
  <2> QED BY <1>2, <1>3, <2>1, <2>2 DEF Next
<1> QED BY <1>1, <1>3

\* In every reachable state the facts of the running program hold, and
\* between commands what the properties say: no interleaving of commands and
\* failing accesses leads a driver to an access it is not annotated for.
THEOREM FlashInvariance == Spec => []FlashInv
<1>1. Init => FlashInv  BY FlashInit
<1>2. FlashInv /\ [Next]_vars => FlashInv'  BY FlashStep, FlashStutter
<1> QED BY <1>1, <1>2, PTL DEF Spec

-----------------------------------------------------------------------------
(* What a step may do to the option bytes and to the code flash.           *)

\* The step condition of OnlyRequestedBytes.
OnlyRequested == dirty \/ \A s \in Slots : image'[s] \in {image[s], "erased", Request[s]}

\* The step condition of CodeErasedOnlyOnRequest.
ErasedOnRequest ==
  code /\ ~code' => \/ cmd.op = "erase_all" \/ (obr /\ Request.rdp = "unprotected")
                    \/ dirty \/ (family = "V20X" /\ "MER" \in idle)

\* The controller erases the code flash by itself only when the request takes
\* the read protection away.
LEMMA LiftOnRequest ==
  ASSUME OnlyRequested, Lifts
  PROVE  dirty \/ (obr /\ Request.rdp = "unprotected")
BY DEF OnlyRequested, Lifts, Slots

\* A control write of a program.
LEMMA ControlOnRequest ==
  ASSUME NEW x, NEW F, NEW G, Doing(x, F, G), x.do = "ctl", Control(idle \cup x.bits)
  PROVE  OnlyRequested /\ ErasedOnRequest
<1> DEFINE bits == idle \cup x.bits
<1>1. ControlFlow(cmd.op, family, F, x.bits, G)  BY DEF Doing, Flow
<1>2. DriveFact /\ x.bits \subseteq Modes \cup {"STRT"}
  BY <1>1 DEF ControlFlow, Doing, Holds, StageFacts
<1>3. "STRT" \notin idle  BY DEF Doing, Core, ControlBits, Modes, Locks
<1>4. OnlyRequested
  <2>1. CASE UNCHANGED image
    BY <2>1 DEF OnlyRequested
  <2>2. CASE image' = Blank
    BY <2>2 DEF OnlyRequested, Blank
  <2>3. CASE Starts(bits) /\ "OPTER" \notin bits /\ "FTPG" \in bits /\ ~dirty /\ image' = buffer
    <3>1. "STRT" \in x.bits  BY <1>3, <2>3 DEF Starts
    <3>2. cmd.op # "erase_all"
      BY <1>1, <1>2, <2>3, <3>1 DEF ControlFlow, EraseMode, DriveFact, Selected, Modes, Left
    <3>3. {"unlocked", "buffer3"} \subseteq F /\ Full
      BY <1>1, <2>3, <3>1, <3>2 DEF ControlFlow, EraseMode, Full
    <3>4. \A s \in Slots : buffer[s] = words[s] /\ words[s] = Request[s]
      BY <1>2, <3>2, <3>3 DEF Doing, Holds, ByteFacts, WrittenUpTo, DriveFact,
         WordsRequested
    <3> QED BY <2>3, <3>4 DEF OnlyRequested
  <2> QED BY <2>1, <2>2, <2>3 DEF Control, OnlyRequested
<1>5. ErasedOnRequest
  <2>1. CASE Starts(bits) /\ "MER" \in bits
    <3>1. "MER" \in x.bits => cmd.op = "erase_all"  BY <1>1 DEF ControlFlow
    <3>2. "MER" \in idle => dirty \/ family = "V20X"
      BY <1>2 DEF DriveFact, Selected, Modes, Left
    <3> QED BY <2>1, <3>1, <3>2 DEF ErasedOnRequest
  <2>2. CASE ~(Starts(bits) /\ "MER" \in bits)
    <3>1. code /\ ~code' => Lifts  BY <2>2 DEF Control
    <3> QED BY <1>4, <3>1, LiftOnRequest DEF ErasedOnRequest
  <2> QED BY <2>1, <2>2
<1> QED BY <1>4, <1>5

\* The start bit of the V20X erase.
LEMMA StartOnRequest ==
  ASSUME NEW x, NEW F, NEW G, Doing(x, F, G), x.do = "start", Control(control \cup {"STRT"})
  PROVE  OnlyRequested /\ ErasedOnRequest
<1> DEFINE bits == control \cup {"STRT"}
<1>1. cmd.op = "erase_all" /\ control = ctlr /\ Selected(ctlr, Left \cup {"MER"})
  BY DEF Doing, Flow, StartFlow, Holds, LockFacts, ModeFacts, EraseMode
<1>2. ~dirty => "OPTER" \notin bits /\ "FTPG" \notin bits
  BY <1>1 DEF Selected, Modes, Left
<1>3. ~dirty => UNCHANGED image  BY <1>2, ControlMoves DEF Doing
<1> QED BY <1>1, <1>3 DEF OnlyRequested, ErasedOnRequest

\* Programming a half word.
LEMMA HalfOnRequest ==
  ASSUME NEW x, NEW F, NEW G, Doing(x, F, G), x.do = "half", HalfWritten(x.slot)
  PROVE  OnlyRequested /\ ErasedOnRequest
<1>1. HalfFlow(cmd.op, family, F, x, G)  BY DEF Doing, Flow
<1>2. words[x.slot] = Request[x.slot] /\ x.slot \in Slots
  BY <1>1 DEF HalfFlow, Doing, Holds, StageFacts, DriveFact, WordsRequested, Full, Slots
<1>3. OnlyRequested
  <2>1. \A s \in Slots : image'[s] \in {image[s], IF s = x.slot THEN words[s] ELSE image[s]}
    BY <1>2 DEF HalfWritten, Doing, Core, IsBytes
  <2> QED BY <1>2, <2>1 DEF OnlyRequested
<1>4. code /\ ~code' => Lifts  BY DEF HalfWritten
<1> QED BY <1>3, <1>4, LiftOnRequest DEF ErasedOnRequest

\* Every step.
LEMMA StepOnRequest ==
  ASSUME FlashInv, [Next]_vars
  PROVE  OnlyRequested /\ ErasedOnRequest
<1>1. CASE UNCHANGED <<image, code>>
  BY <1>1 DEF OnlyRequested, ErasedOnRequest
<1>2. ASSUME Inside, Running, NEW x, x = Program[pc],
             NEW F, F = Notes(cmd.op, family)[pc], NEW G, G = Notes(cmd.op, family)[pc + 1],
             StepControl \/ StepData \/ StepCleanup
      PROVE  OnlyRequested /\ ErasedOnRequest
  <2>1. Core /\ pc \in 1 .. Len(Program) /\ x = Step  BY <1>2 DEF FlashInv, Step
  <2>2. Flow(cmd.op, family, F, x, G)
    BY <1>2, <2>1, NotesFit, NewWordsOf DEF Core, Program
  <2>3. x.do # "clean" => Doing(x, F, G)
    BY <2>1, <2>2, <1>2 DEF FlashInv, FailedInv, Doing
  <2>4. CASE StepControl
    <3>1. x.do \in {"ctl", "start"}  BY <2>1, <2>4 DEF StepControl
    <3>2. \/ UNCHANGED target
          \/ Control(IF x.do = "start" THEN control \cup {"STRT"} ELSE idle \cup x.bits)
      BY <2>1, <2>4 DEF StepControl, Access
    <3> QED BY <1>1, <2>3, <3>1, <3>2, ControlOnRequest, StartOnRequest DEF target
  <2>5. CASE StepData
    <3>1. UNCHANGED target => UNCHANGED <<image, code>>  BY DEF target
    <3>2. CASE x.do = "half"
      <4>1. HalfWritten(x.slot) \/ UNCHANGED target
        BY <2>1, <2>5, <3>2, Zenon DEF StepData, Access
      <4> QED BY <1>1, <2>3, <3>1, <3>2, <4>1, HalfOnRequest
    <3>3. CASE x.do = "word"
      <4>1. WordWritten(x.slots) \/ UNCHANGED target
        BY <2>1, <2>5, <3>3, Zenon DEF StepData, Access
      <4> QED BY <1>1, <3>1, <4>1 DEF WordWritten
    <3>4. CASE x.do = "address"
      <4>1. UNCHANGED target
        BY <2>1, <2>5, <3>4, Zenon DEF StepData, Access
      <4> QED BY <1>1, <3>1, <4>1
    <3>5. x.do \in {"half", "word", "address"}  BY <2>1, <2>5 DEF StepData
    <3> QED BY <3>2, <3>3, <3>4, <3>5
  <2>6. CASE StepCleanup
    <3>1. x.do = "clean"  BY <2>1, <2>6 DEF StepCleanup
    <3>2. CleanFlow(cmd.op, F, x, G)  BY <2>2, <3>1 DEF Flow
    <3>3. x.set \subseteq Locks  BY <3>2 DEF CleanFlow
    <3>4. ~Starts((idle \ x.clear) \cup x.set)
      BY <2>1, <3>3 DEF Starts, Core, ControlBits, Modes, Locks
    <3>5. Control((idle \ x.clear) \cup x.set) \/ UNCHANGED target
      BY <2>1, <2>6 DEF StepCleanup
    <3> QED BY <1>1, <2>1, <3>4, <3>5, ControlMoves DEF target
  <2> QED BY <1>2, <2>4, <2>5, <2>6
<1>3. CASE Next /\ ~(Running /\ Inside /\ (StepControl \/ StepData \/ StepCleanup))
  <2>1. UNCHANGED <<image, code>>
    <3>1. CASE Command
      BY <3>1 DEF Command, target
    <3>2. CASE ~Command
      <4>1. /\ \/ StepWait \/ StepRead \/ StepCheck \/ StepIdle \/ StepStatus \/ StepReset
               \/ StepImage \/ StepProtected \/ StepVerify \/ StepKey \/ StepClearStatus
        BY <1>3, <3>2 DEF Next, Inside, StepControl, StepData, StepCleanup
      <4>2. StepKey => UNCHANGED target \/ KeyWritten(Step.reg, Step.key)
        BY DEF StepKey, Access
      <4>3. StepKey => UNCHANGED <<image, code>>  BY <4>2 DEF KeyWritten, target
      <4>4. StepClearStatus => UNCHANGED <<image, code>>  BY DEF StepClearStatus, Access, target
      <4>5. StepReset => UNCHANGED <<image, code>>  BY DEF StepReset, ResetDone, target
      <4>6. StepRead \/ StepImage => UNCHANGED target  BY DEF StepRead, StepImage, Access
      <4>7. StepWait \/ StepCheck \/ StepIdle \/ StepStatus \/ StepProtected \/ StepVerify =>
              UNCHANGED <<image, code>>
        BY DEF StepWait, StepCheck, StepIdle, StepStatus, StepProtected, StepVerify, target
      <4> QED BY <4>1, <4>3, <4>4, <4>5, <4>6, <4>7 DEF target
    <3> QED BY <3>1, <3>2
  <2> QED BY <1>1, <2>1
<1> QED BY <1>1, <1>2, <1>3 DEF vars, target

-----------------------------------------------------------------------------
(* The properties.                                                         *)

\* A command that reports success has erased the code flash, or has made the
\* option bytes the requested ones and loaded them, whatever earlier commands
\* and failures left (rvswd_flash_set_read_protected,
\* rvswd_flash_set_option_bytes and the erases).
THEOREM SuccessDoesWhatWasAsked == Spec => []SuccessMeansRequested
<1>1. FlashInv => SuccessMeansRequested
  BY Zenon DEF FlashInv, RestInv, SuccessMeansRequested, Ended
<1> QED BY <1>1, FlashInvariance, PTL

\* Unless a clean-up write failed since the last reset, no command leaves an
\* erase or program mode selected, on any of its paths, except MER by a V20X
\* erase after a failed access; and a command that has changed the option bytes
\* leaves the controller locked and them not writable.  That an erase locks the
\* controller again is not claimed: it does not.
THEOREM ControllerIsRestored == Spec => []ControllerRestored
<1>1. FlashInv => ControllerRestored
  BY DEF FlashInv, RestInv, ControllerRestored, Ended
<1> QED BY <1>1, FlashInvariance, PTL

\* With a link that never failed a command fails only because the code flash is
\* write protected and an erase was refused, or, for an option command, because
\* BSY was set before anything was started, with the option bytes untouched:
\* every lock check of every driver finds its lock open, and no V20X erase
\* waits for a BSY that only its start bit clears.
THEOREM FailuresHaveACause == Spec => []FailsForCause
<1>1. FlashInv => FailsForCause
  BY DEF FlashInv, RestInv, FailsForCause, Ended
<1> QED BY <1>1, FlashInvariance, PTL

\* No step changes an option byte to anything but its erased value or the
\* value of the command in progress, however many commands failed before it.
THEOREM BytesChangeAsRequested == Spec => OnlyRequestedBytes
<1>1. FlashInv /\ [Next]_vars => [OnlyRequested]_vars
  BY StepOnRequest
<1>2. Spec => [][OnlyRequested]_vars  BY <1>1, FlashInvariance, PTL DEF Spec
<1> QED BY <1>2 DEF OnlyRequestedBytes, OnlyRequested

\* No step erases the code flash unless the command erases it or takes the
\* read protection away.
THEOREM CodeIsErasedOnRequest == Spec => CodeErasedOnlyOnRequest
<1>1. FlashInv /\ [Next]_vars => [ErasedOnRequest]_vars
  BY StepOnRequest
<1>2. Spec => [][ErasedOnRequest]_vars  BY <1>1, FlashInvariance, PTL DEF Spec
<1> QED BY <1>2 DEF CodeErasedOnlyOnRequest, ErasedOnRequest

=============================================================================
