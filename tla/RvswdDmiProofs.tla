--------------------------- MODULE RvswdDmiProofs ---------------------------
(***************************************************************************)
(* RvswdDmi for every value of its constants: the annotation of the next   *)
(* access always holds (DmiInv), and from it every safety property of the  *)
(* module.                                                                 *)
(*                                                                         *)
(* An annotation is not an invariant of the state alone: which facts are   *)
(* known depends on the position in the program.  The invariant therefore  *)
(* says that some annotation of the next access holds that leads, by the   *)
(* rule of that access, to the one chosen for the position after it; a     *)
(* step then follows the rule, and a failed one arrives at a label whose   *)
(* annotation asks for no more than the failure knows.                     *)
(***************************************************************************)
EXTENDS RvswdDmiProgramProofs

-----------------------------------------------------------------------------
(* The inductive invariant.                                                *)

\* What an operation promises is nothing it starts with.
LEMMA FinalIsNews ==
  ASSUME NEW f \in AllFamilies, NEW op \in Operations, Supported(f, op)
  PROVE  ~Covers(First(f, op), Final(f, op))
<1>1. Covers(First(f, op), Final(f, op)) => FinalP(f, op) \subseteq FirstS(f, op)
  BY DEF Covers, First, Final
<1> DEFINE News == {Yes("answer"), Yes("running"), Yes("halted"), <<"a1", "w1">>, <<"page", "new">>}
<1>2. \A g \in News : g \notin FirstS(f, op)
  <2>1. \A g \in FirstS(f, op) :
          g \in {Yes("steady"), Yes("calm"), Fine, Yes("told"), Yes("released"), Yes("kept"),
                 Idling, <<"a1", "a1">>,
                 Yes("free"), <<"page", "old">>, <<"mode", "none">>, Yes("sync"), Mute, Yes("sure"), Yes("off"), Yes("unlocked")}
    BY DEF FirstS
  <2>2. \A g \in News :
          g \notin {Yes("steady"), Yes("calm"), Fine, Yes("told"), Yes("released"), Yes("kept"),
                    Idling, <<"a1", "a1">>,
                 Yes("free"), <<"page", "old">>, <<"mode", "none">>, Yes("sync"), Mute, Yes("sure"), Yes("off"), Yes("unlocked")}
    BY DEF Yes, Fine, Idling, Mute
  <2> QED BY <2>1, <2>2
<1>3. \E g \in News : g \in FinalP(f, op)
  <2>1. op \in {"write", "write32"} => <<"a1", "w1">> \in FinalP(f, op)  BY DEF FinalP, FinalS
  <2>2. op = "read" => Yes("answer") \in FinalP(f, op)  BY DEF FinalP, FinalS
  <2>3. op \in {"resume", "reset_run", "soft_reset_run"} => Yes("running") \in FinalP(f, op)
    BY DEF FinalP, FinalS
  <2>4. op = "reset_halt" \/ op \in LoaderOps => Yes("halted") \in FinalP(f, op)
    BY DEF FinalP, FinalS, LoaderOps
  <2>5. op = "rewrite_page" => <<"page", "new">> \in FinalP(f, op)  BY DEF FinalP, FinalS, LoaderOps
  <2> QED BY <2>1, <2>2, <2>3, <2>4, <2>5 DEF Operations, LoaderOps
<1> QED BY <1>1, <1>2, <1>3

\* What is known before each access of a program.
Notes(f, op) == CHOOSE h : Annotates(h, f, op, {}, First(f, op), Program(f, op), Final(f, op))

\* Every program has annotations, and is not empty.
LEMMA NotesFit ==
  ASSUME NEW f \in AllFamilies, NEW op \in Operations, Supported(f, op)
  PROVE  /\ \E S : Program(f, op) \in Seq(S)
         /\ Len(Program(f, op)) \in Nat \ {0}
         /\ Annotates(Notes(f, op), f, op, {}, First(f, op), Program(f, op), Final(f, op))
<1>1. \E S : Program(f, op) \in Seq(S)  BY ProgramsCarry DEF Carries
<1>2. \E h : Annotates(h, f, op, {}, First(f, op), Program(f, op), Final(f, op))
  BY ProgramsCarry DEF Carries
<1>3. Annotates(Notes(f, op), f, op, {}, First(f, op), Program(f, op), Final(f, op))
  BY <1>2, Zenon DEF Notes
<1>4. Len(Program(f, op)) # 0
  <2>1. SUFFICES ASSUME Len(Program(f, op)) = 0  PROVE Covers(First(f, op), Final(f, op))
    BY FinalIsNews
  <2>2. Covers(First(f, op), Notes(f, op)[1]) /\
          Covers(Notes(f, op)[Len(Program(f, op)) + 1], Final(f, op))
    BY <1>3 DEF Annotates
  <2>3. Covers(Notes(f, op)[1], Final(f, op))
    BY <2>1, <2>2
  <2> QED BY <2>2, <2>3, CoversAll
<1>5. Len(Program(f, op)) \in Nat  BY <1>1
<1> QED BY <1>1, <1>3, <1>4, <1>5

\* Where an operation is: an annotation of its next access holds, and leads to
\* that of the access after it.
Placed ==
  /\ cmd \in Ops /\ Supported(family, cmd) /\ pc \in 1 .. Len(Program(family, cmd))
  /\ step = Compiled(Program(family, cmd), pc)
  /\ \E C, D : Holds(C) /\ Flow(family, cmd, Program(family, cmd)[pc], C, D) /\
       Covers(D, Notes(family, cmd)[pc + 1])
\* Between the operations: what the last one has done, or that it left no trace.
Rested ==
  /\ step = NoStep /\ Calm /\ (Undisturbed => Kept)
  /\ ops > 0 => (good => Achieved) /\ (~good => Abandoned)
\* The inductive invariant.
DmiInv ==
  /\ family \in Families /\ IsDm(dm) /\ Sides
  /\ Running => Placed
  /\ ~Running => Rested

\* What is known of the next access of a program that runs.
LEMMA Known1 ==
  ASSUME DmiInv, Running
  PROVE  /\ family \in AllFamilies /\ cmd \in Operations /\ Supported(family, cmd)
         /\ \E x, C, D : /\ x = Program(family, cmd)[pc] /\ Current(x)
                         /\ Holds(C) /\ Flow(family, cmd, x, C, D) /\
                              Covers(D, Notes(family, cmd)[pc + 1])
BY FamiliesAssumption DEF DmiInv, Placed, Compiled, Current

\* The last annotation of a program says what is achieved, in the next state.
LEMMA AchievedNext == (Holds(Final(family, cmd)) /\ cmd \in Operations => Achieved)'
<1>1. Holds(Final(family, cmd)) /\ cmd \in Operations => Achieved
  BY FinalAchieved
<1> QED BY <1>1, PTL

\* What holds after a step, holds then of every weaker annotation.
LEMMA CoversNext ==
  ASSUME NEW A, NEW B, Holds(A)', Covers(A, B)
  PROVE  Holds(B)'
<1>1. Guard(B.s)' => Guard(A.s)'  BY DEF Covers, Guard
<1> QED BY <1>1 DEF Covers, Holds

\* The steps that are accesses of a program.
Steps == StepWrite \/ StepClean \/ StepWait \/ StepCheck \/ StepStatus \/ StepProbe \/ StepRead
           \/ StepHart \/ StepByte \/ StepReady \/ StepLocal
\* Such a step passes, fails or ends the operation.
Leads(x, A) ==
  \/ x.do \notin Lasts /\ Goes(x, A)
  \/ x.do \in Jumps /\ Stops(x, A)
  \/ x.do \in Lasts /\ StepLocal

\* Every access keeps the module well formed, its losses on record, and is safe.
LEMMA StepLeads ==
  ASSUME NEW x, NEW A, Holds(A), Asks(family, cmd, x, A), Current(x), IsDm(dm), Sides,
         UNCHANGED <<family, cmd>>, Steps
  PROVE  /\ IsDm(dm') /\ LostStep(x) /\ (twice => twice') /\ SafeStep(A)
         /\ lost \subseteq lost' \/ x.do \in {"write", "clean"}
         /\ x.do = "newtry" => UNCHANGED <<dm, lost>>
         /\ Leads(x, A)
<1>1. CASE StepWrite
  <2>1. x.do = "write"  BY <1>1 DEF StepWrite, Is, Current
  <2>2. IsDm(dm') /\ LostStep(x) /\ (twice => twice') /\ (Goes(x, A) \/ Stops(x, A))
    BY <1>1, <2>1, WriteEffect
  <2>3. SafeStep(A)  BY <1>1, <2>1, StepWriteSafe
  <2> QED BY <2>1, <2>2, <2>3 DEF Leads, Jumps, Lasts
<1>2. CASE StepClean
  <2>1. x.do = "clean"  BY <1>2 DEF StepClean, Is, Current
  <2>2. x.reg = "ABSTRACTAUTO" \/ x.reg = "ABSTRACTCS" \/ x.reg = "CONTROL"  BY <2>1 DEF Asks
  <2>3. IsDm(dm') /\ LostStep(x) /\ (twice => twice') /\ Goes(x, A)
    BY <1>2, <2>1, <2>2, CleanAuto, CleanClear, CleanControl
  <2>4. SafeStep(A)  BY <1>2, <2>1, StepCleanSafe
  <2> QED BY <2>1, <2>3, <2>4 DEF Leads, Lasts
<1>3. CASE StepWait
  <2>1. x.do = "wait" /\ lost' = lost  BY <1>3 DEF StepWait, Is, Current, marks
  <2>2. IsDm(dm') /\ LostStep(x) /\ (twice => twice') /\ (Goes(x, A) \/ Stops(x, A))
    BY <1>3, <2>1, WaitEffect
  <2>3. SafeStep(A)  BY <1>3, StepOtherSafe
  <2> QED BY <2>1, <2>2, <2>3 DEF Leads, Jumps, Lasts
<1>4. CASE StepCheck
  <2>1. x.do = "check" /\ lost' = lost  BY <1>4 DEF StepCheck, Is, Current, marks
  <2>2. IsDm(dm') /\ LostStep(x) /\ (twice => twice') /\ (Goes(x, A) \/ Stops(x, A))
    BY <1>4, <2>1, CheckEffect
  <2>3. SafeStep(A)  BY <1>4, StepOtherSafe
  <2> QED BY <2>1, <2>2, <2>3 DEF Leads, Jumps, Lasts
<1>5. CASE StepStatus
  <2>1. x.do = "abstractcs" /\ lost' = lost  BY <1>5 DEF StepStatus, Is, Current, marks
  <2>2. IsDm(dm') /\ LostStep(x) /\ (twice => twice') /\ (Goes(x, A) \/ Stops(x, A))
    BY <1>5, <2>1, StatusEffect
  <2>3. SafeStep(A)  BY <1>5, StepOtherSafe
  <2> QED BY <2>1, <2>2, <2>3 DEF Leads, Jumps, Lasts
<1>6. CASE StepProbe
  <2>1. x.do = "probe" /\ lost' = lost  BY <1>6 DEF StepProbe, Is, Current, marks
  <2>2. IsDm(dm') /\ LostStep(x) /\ (twice => twice') /\ (Goes(x, A) \/ Stops(x, A))
    BY <1>6, <2>1, ProbeEffect
  <2>3. SafeStep(A)  BY <1>6, StepOtherSafe
  <2> QED BY <2>1, <2>2, <2>3 DEF Leads, Jumps, Lasts
<1>7. CASE StepRead
  <2>1. x.do = "read" /\ lost' = lost  BY <1>7 DEF StepRead, Is, Current
  <2>2. IsDm(dm') /\ LostStep(x) /\ (twice => twice') /\ (Goes(x, A) \/ Stops(x, A))
    BY <1>7, <2>1, ReadEffect
  <2>3. SafeStep(A)  BY <1>7, <2>1, StepReadSafe
  <2> QED BY <2>1, <2>2, <2>3 DEF Leads, Jumps, Lasts
<1>8. CASE StepHart
  <2>1. x.do = "hart" /\ lost' = lost  BY <1>8 DEF StepHart, Is, Current, marks
  <2>2. IsDm(dm') /\ LostStep(x) /\ (twice => twice') /\ (Goes(x, A) \/ Stops(x, A))
    BY <1>8, <2>1, HartEffect
  <2>3. SafeStep(A)  BY <1>8, StepOtherSafe
  <2> QED BY <2>1, <2>2, <2>3 DEF Leads, Jumps, Lasts
<1>9. CASE StepByte
  <2>1. x.do = "byte" /\ lost' = lost  BY <1>9 DEF StepByte, Is, Current
  <2>2. IsDm(dm') /\ LostStep(x) /\ (twice => twice') /\ (Goes(x, A) \/ Stops(x, A))
    BY <1>9, <2>1, ByteEffect
  <2>3. SafeStep(A)  BY <1>9, StepOtherSafe
  <2> QED BY <2>1, <2>2, <2>3 DEF Leads, Jumps, Lasts
<1>10. CASE StepReady
  <2>1. x.do = "ready" /\ lost' = lost  BY <1>10 DEF StepReady, Is, Current, marks
  <2>2. IsDm(dm') /\ LostStep(x) /\ (twice => twice') /\ (Goes(x, A) \/ Stops(x, A))
    BY <1>10, <2>1, ReadyEffect
  <2>3. SafeStep(A)  BY <1>10, StepOtherSafe
  <2> QED BY <2>1, <2>2, <2>3 DEF Leads, Jumps, Lasts
<1>11. CASE StepLocal
  <2>1. /\ x.do \in {"label", "newtry", "nomode"} \/ x.do \in Lasts
        /\ dm' = dm /\ lost' = lost /\ twice' = twice
    BY <1>11 DEF StepLocal, Current, marks, Lasts
  <2>2. x.do \in {"label", "newtry", "nomode"} => Leads(x, A)
    BY <1>11, LocalGoes DEF Leads, Lasts
  <2>3. x.do \in Lasts => Leads(x, A)
    BY <1>11 DEF Leads
  <2>4. SafeStep(A)  BY <1>11, StepOtherSafe
  <2>5. LostStep(x)  BY <2>1 DEF LostStep
  <2> QED BY <2>1, <2>2, <2>3, <2>4, <2>5
<1> QED BY <1>1, <1>2, <1>3, <1>4, <1>5, <1>6, <1>7, <1>8, <1>9, <1>10, <1>11 DEF Steps

-----------------------------------------------------------------------------
(* The program goes on.                                                    *)

\* A program goes on at an access whose annotation holds.
LEMMA Arrives ==
  ASSUME family \in Families, cmd \in Ops, Supported(family, cmd), UNCHANGED <<family, cmd>>,
         NEW i \in 1 .. Len(Program(family, cmd)), pc' = i, Len(Program(family, cmd)) \in Nat,
         step' = IF pc' = 0 THEN NoStep ELSE Programs[family'][cmd'][pc'],
         NEW C, NEW D, Holds(C)', Flow(family, cmd, Program(family, cmd)[i], C, D),
         Covers(D, Notes(family, cmd)[i + 1])
  PROVE  Placed'
<1>1. i # 0  OBVIOUS
<1>2. step' = Compiled(Program(family, cmd), i)
  BY <1>1, CompiledIs
<1>3. cmd' \in Ops /\ Supported(family', cmd') /\ pc' \in 1 .. Len(Program(family', cmd'))
  OBVIOUS
<1>4. step' = Compiled(Program(family', cmd'), pc')
  BY <1>2
<1>5. Holds(C)' /\ Flow(family', cmd', Program(family', cmd')[pc'], C, D) /\
        Covers(D, Notes(family', cmd')[pc' + 1])
  OBVIOUS
<1> QED BY <1>3, <1>4, <1>5 DEF Placed

\* It goes on at the next access, or ends with what it promises.
LEMMA Proceeds ==
  ASSUME DmiInv, Running, UNCHANGED <<family, cmd, ops>>, Next1,
         step' = IF pc' = 0 THEN NoStep ELSE Programs[family'][cmd'][pc'],
         NEW D, Holds(D)', Covers(D, Notes(family, cmd)[pc + 1])
  PROVE  (Running' => Placed') /\ (~Running' => Rested')
<1>1. family \in Families /\ family \in AllFamilies /\ cmd \in Ops /\ cmd \in Operations /\
        Supported(family, cmd)
  BY FamiliesAssumption DEF DmiInv, Placed
<1>2. pc \in 1 .. Len(Program(family, cmd)) /\ step = Compiled(Program(family, cmd), pc)
  BY DEF DmiInv, Placed
<1>3. /\ Len(Program(family, cmd)) \in Nat \ {0}
      /\ Annotates(Notes(family, cmd), family, cmd, {}, First(family, cmd), Program(family, cmd),
                   Final(family, cmd))
  BY <1>1, NotesFit
<1>4. step.next = IF pc < Len(Program(family, cmd)) THEN pc + 1 ELSE 0  BY <1>2 DEF Compiled
<1>5. CASE pc < Len(Program(family, cmd))
  <2>0. pc + 1 # 0  BY <1>2, <1>3
  <2>1. pc' = pc + 1  BY <1>4, <1>5, <2>0 DEF Next1
  <2>2. PICK i \in 1 .. Len(Program(family, cmd)) : i = pc + 1  BY <1>2, <1>3, <1>5
  <2>3. Passes(family, cmd, Program(family, cmd)[i], Notes(family, cmd)[i],
               Notes(family, cmd)[i + 1])
    BY <1>3 DEF Annotates
  <2>4. PICK E1, E2 : /\ Covers(Notes(family, cmd)[i], E1) /\
                           Flow(family, cmd, Program(family, cmd)[i], E1, E2)
                      /\ Covers(E2, Notes(family, cmd)[i + 1])
    BY <2>3, Zenon DEF Passes
  <2>5. Covers(D, Notes(family, cmd)[i])  BY <2>2
  <2>6. Covers(D, E1)  BY <2>4, <2>5 DEF Covers
  <2>7. Holds(E1)'  BY <2>6, CoversNext
  <2>8. pc' = i  BY <2>1, <2>2
  <2>9. Len(Program(family, cmd)) \in Nat  BY <1>3
  <2>10. Placed'  BY <1>1, <2>4, <2>7, <2>8, <2>9, Arrives
  <2> QED BY <2>8, <2>10 DEF Running
<1>6. CASE ~(pc < Len(Program(family, cmd)))
  <2>1. pc' = 0 /\ good' = TRUE  BY <1>4, <1>6 DEF Next1, Return
  <2>2. pc = Len(Program(family, cmd))  BY <1>2, <1>3, <1>6
  <2>3. Covers(Notes(family, cmd)[pc + 1], Final(family, cmd))  BY <1>3, <2>2 DEF Annotates
  <2>4. PICK F : F = Final(family, cmd)  OBVIOUS
  <2>5. Covers(D, F)  BY <2>3, <2>4 DEF Covers
  <2>6. Holds(F)'  BY <2>5, CoversNext
  <2>7. Holds(Final(family, cmd))'  BY <2>4, <2>6
  <2>8. Achieved'  BY <1>1, <2>7, AchievedNext
  <2>9. step' = NoStep  BY <2>1
  <2> QED BY <2>1, <2>8, <2>9 DEF Running, Rested, Achieved
<1> QED BY <1>5, <1>6

\* The label a failed access goes to is in the program.
LEMMA LabelThere ==
  ASSUME DmiInv, Running, NEW x, x = Program(family, cmd)[pc], x.fail # "return"
  PROVE  step.fail # 0
<1>1. family \in AllFamilies /\ cmd \in Operations /\ Supported(family, cmd)
  BY FamiliesAssumption DEF DmiInv, Placed
<1>2. pc \in 1 .. Len(Program(family, cmd)) /\ step = Compiled(Program(family, cmd), pc)
  BY DEF DmiInv, Placed
<1>3. /\ \E S : Program(family, cmd) \in Seq(S)
      /\ Len(Program(family, cmd)) \in Nat \ {0}
      /\ Annotates(Notes(family, cmd), family, cmd, {}, First(family, cmd), Program(family, cmd),
                   Final(family, cmd))
  BY <1>1, NotesFit
<1>4. PICK S, p, n : p \in Seq(S) /\ p = Program(family, cmd) /\ n \in 1 .. Len(p) /\ n = pc
  BY <1>2, <1>3
<1>5. Lands(p, n, {}) /\ p[n].fail # "return"
  BY <1>3, <1>4 DEF Annotates
<1>6. Target(p, n) \in 1 .. Len(p)
  BY <1>4, <1>5, TargetIs
<1>7. step.fail = Target(p, n)  BY <1>2, <1>4 DEF Compiled
<1> QED BY <1>4, <1>6, <1>7

\* It goes to a label.
LEMMA JumpsOn ==
  ASSUME DmiInv, Running, UNCHANGED <<family, cmd, ops>>,
         step' = IF pc' = 0 THEN NoStep ELSE Programs[family'][cmd'][pc'],
         NEW x, x = Program(family, cmd)[pc], x.fail # "return", pc' = step.fail,
         \A B : B.s \subseteq E(family, cmd, x.fail) /\ B.p \subseteq E(family, cmd, x.fail)
           => Holds(B)'
  PROVE  Running' /\ Placed'
<1>1. family \in Families /\ family \in AllFamilies /\ cmd \in Ops /\ cmd \in Operations /\
        Supported(family, cmd)
  BY FamiliesAssumption DEF DmiInv, Placed
<1>2. pc \in 1 .. Len(Program(family, cmd)) /\ step = Compiled(Program(family, cmd), pc)
  BY DEF DmiInv, Placed
<1>3. /\ \E S : Program(family, cmd) \in Seq(S)
      /\ Len(Program(family, cmd)) \in Nat \ {0}
      /\ Annotates(Notes(family, cmd), family, cmd, {}, First(family, cmd), Program(family, cmd),
                   Final(family, cmd))
  BY <1>1, NotesFit
<1>4. PICK S, p, n : p \in Seq(S) /\ p = Program(family, cmd) /\ n \in 1 .. Len(p) /\ n = pc
  BY <1>2, <1>3
<1>5. Lands(p, n, {}) /\ p[n].fail # "return"
  BY <1>3, <1>4 DEF Annotates
<1>6. Target(p, n) \in 1 .. Len(p) /\ p[Target(p, n)].do = "label" /\
        p[Target(p, n)].reg = p[n].fail
  BY <1>4, <1>5, TargetIs
<1>7. PICK i \in 1 .. Len(Program(family, cmd)) : i = Target(p, n)  BY <1>4, <1>6
<1>8. pc' = i  BY <1>2, <1>4, <1>7 DEF Compiled
<1>9. Passes(family, cmd, Program(family, cmd)[i], Notes(family, cmd)[i], Notes(family, cmd)[i + 1])
  BY <1>3 DEF Annotates
<1>10. PICK E1, E2 : /\ Covers(Notes(family, cmd)[i], E1) /\
                          Flow(family, cmd, Program(family, cmd)[i], E1, E2)
                     /\ Covers(E2, Notes(family, cmd)[i + 1])
  BY <1>9, Zenon DEF Passes
<1>11. Program(family, cmd)[i].do = "label" /\ Program(family, cmd)[i].reg = x.fail
  BY <1>4, <1>6, <1>7
<1>12. E1.s \subseteq E(family, cmd, x.fail) /\ E1.p \subseteq E(family, cmd, x.fail)
  BY <1>10, <1>11 DEF Flow, Asks
<1>13. Holds(E1)'  BY <1>12
<1>14. Len(Program(family, cmd)) \in Nat  BY <1>3
<1>15. Placed'  BY <1>1, <1>8, <1>10, <1>13, <1>14, Arrives
<1> QED BY <1>8, <1>15 DEF Running

\* One access of a program keeps the invariant.
LEMMA ProgramStep ==
  ASSUME DmiInv, Steps, UNCHANGED <<family, cmd, ops>>,
         step' = IF pc' = 0 THEN NoStep ELSE Programs[family'][cmd'][pc']
  PROVE  DmiInv'
<1>0. Running
  BY DEF Steps, StepWrite, StepClean, StepWait, StepCheck, StepStatus, StepProbe, StepRead,
                      StepHart, StepByte, StepReady, StepLocal, Is
<1>1. /\ family \in AllFamilies /\ cmd \in Operations /\ Supported(family, cmd)
      /\ \E x, C, D : /\ x = Program(family, cmd)[pc] /\ Current(x)
                      /\ Holds(C) /\ Flow(family, cmd, x, C, D) /\
                           Covers(D, Notes(family, cmd)[pc + 1])
  BY <1>0, Known1
<1>2. PICK x, A, B : /\ x = Program(family, cmd)[pc] /\ Current(x)
                     /\ Holds(A) /\ Flow(family, cmd, x, A, B) /\
                          Covers(B, Notes(family, cmd)[pc + 1])
  BY <1>1, Zenon
<1>3. Asks(family, cmd, x, A) /\ Exits(family, cmd, x, A)  BY <1>2 DEF Flow
<1>4. IsDm(dm) /\ Sides /\ family \in Families /\ Placed  BY <1>0 DEF DmiInv
<1>5. /\ IsDm(dm') /\ LostStep(x) /\ (twice => twice') /\ SafeStep(A)
      /\ lost \subseteq lost' \/ x.do \in {"write", "clean"}
      /\ x.do = "newtry" => UNCHANGED <<dm, lost>>
      /\ Leads(x, A)
  BY <1>2, <1>3, <1>4, StepLeads
<1>6. Sides'  BY <1>4, <1>5 DEF Sides, SafeStep
<1>7. step = Compiled(Program(family, cmd), pc)  BY <1>4 DEF Placed
<1>8. (x.fail = "return") => step.fail = 0  BY <1>2, <1>7 DEF Compiled, Target
<1>9. (Running' => Placed') /\ (~Running' => Rested')
  <2>1. CASE x.do \notin Lasts /\ Goes(x, A)
    <3>1. Holds(B)'  BY <1>2, <1>3, <1>5, <2>1, GoesOn
    <3>2. Next1  BY <2>1 DEF Goes
    <3> QED BY <1>0, <1>2, <3>1, <3>2, Proceeds
  <2>2. CASE x.do \in Jumps /\ Stops(x, A) /\ x.fail # "return"
    <3>1. ASSUME NEW F, F.s \subseteq E(family, cmd, x.fail) /\ F.p \subseteq E(family, cmd, x.fail)
          PROVE  Holds(F)'
      BY <1>3, <1>5, <2>2, <3>1, JumpsTo
    <3>2. step.fail # 0  BY <1>0, <1>2, <2>2, LabelThere
    <3>3. pc' = step.fail  BY <2>2, <3>2 DEF Stops, Fail
    <3> QED BY <1>0, <1>2, <2>2, <3>1, <3>3, JumpsOn
  <2>3. CASE x.do \in Jumps /\ Stops(x, A) /\ x.fail = "return"
    <3>1. Abandoned'  BY <1>3, <1>5, <2>3, Returned
    <3>2. pc' = 0 /\ good' = FALSE  BY <1>8, <2>3 DEF Stops, Fail, Return
    <3>3. step' = NoStep  BY <3>2
    <3> QED BY <3>1, <3>2, <3>3 DEF Running, Rested, Abandoned
  <2>4. CASE x.do = "goto" /\ StepLocal
    <3>1. pc' = step.fail /\ UNCHANGED <<dm, mode, value, diag, cause, twice, unchecked, lost>>
      BY <1>2, <2>4 DEF StepLocal, Current, marks
    <3>2. x.fail # "return" /\ E(family, cmd, x.fail) \subseteq A.s  BY <1>3, <2>4 DEF Asks
    <3>3. Holds(A)'
      BY <1>2, <3>1 DEF Holds, OpenSays, Says, Guard, ModuleSays, RegisterSays, HartSays,
         MemorySays, PortSays, LocalSays,
            Calm, Told, Released, Careless, Kept
    <3>4. ASSUME NEW F, F.s \subseteq E(family, cmd, x.fail) /\ F.p \subseteq E(family, cmd, x.fail)
          PROVE  Holds(F)'
      <4>1. Covers(A, F)  BY <3>2, <3>4 DEF Covers
      <4> QED BY <3>3, <4>1, CoversNext
    <3> QED BY <1>0, <1>2, <3>1, <3>2, <3>4, JumpsOn
  <2>5. CASE x.do = "done" /\ StepLocal
    <3>1. /\ pc' = 0 /\ good' = TRUE
          /\ UNCHANGED <<dm, mode, value, diag, cause, twice, unchecked, lost>>
      BY <1>2, <2>5 DEF StepLocal, Current, marks, Return
    <3>2. PICK F : F = Final(family, cmd)  OBVIOUS
    <3>3. Covers(A, F)  BY <1>3, <2>5, <3>2 DEF Asks, Covers, Final
    <3>4. Holds(Final(family, cmd))  BY <1>2, <3>2, <3>3, HoldsCovers
    <3>5. Achieved  BY <1>1, <3>4, FinalAchieved
    <3>6. Achieved'  BY <3>1, <3>5 DEF Achieved, Undisturbed, Calm, Kept
    <3>7. step' = NoStep  BY <3>1
    <3> QED BY <3>1, <3>6, <3>7 DEF Running, Rested, Achieved
  <2>6. CASE x.do = "giveup" /\ StepLocal
    <3>1. /\ pc' = 0 /\ good' = FALSE
          /\ UNCHANGED <<dm, mode, value, diag, cause, twice, unchecked, lost>>
      BY <1>2, <2>6 DEF StepLocal, Current, marks, Return
    <3>2. {Yes("told"), Yes("calm"), Yes("kept")} \subseteq A.s /\
            (cmd = "resume" => Yes("released") \in A.s)
      BY <1>3, <2>6 DEF Asks
    <3>3. Calm /\ Told /\ (cmd = "resume" => Released)
      BY <1>2, <3>2 DEF Holds, OpenSays
    <3>4. Undisturbed => Kept
      <4>1. Undisturbed => Guard(A.s)  BY DEF Undisturbed, Guard
      <4> QED BY <1>2, <3>2, <4>1 DEF Holds, Says, MemorySays
    <3>5. Abandoned  BY <3>3, <3>4 DEF Abandoned, Told
    <3>6. Abandoned'  BY <3>1, <3>5 DEF Abandoned, Undisturbed, Calm, Kept, Released
    <3>7. step' = NoStep  BY <3>1
    <3> QED BY <3>1, <3>6, <3>7 DEF Running, Rested, Abandoned
  <2> QED BY <1>5, <2>1, <2>2, <2>3, <2>4, <2>5, <2>6 DEF Leads, Lasts
<1> QED BY <1>4, <1>5, <1>6, <1>9 DEF DmiInv

-----------------------------------------------------------------------------
(* The invariant is one.                                                   *)

\* The target is halted and nothing was done: the invariant holds at first.
THEOREM InitDmi == Init => DmiInv
<1> SUFFICES ASSUME Init  PROVE DmiInv
  OBVIOUS
<1>1. IsDm(dm)
  <2>1. dm.regs = [r \in Regs |-> "stale"] /\ dm.mem = Memory /\ DOMAIN dm = Fields
    BY DEF Init, Fields
  <2>2. DOMAIN dm.regs = Regs /\ DOMAIN dm.mem = Addresses  BY <2>1 DEF Memory
  <2>3. ~dm.busy /\ ~dm.auto /\ ~dm.locked /\ ~dm.stray /\ dm.hart = "halted"
        /\ {dm.busy, dm.auto, dm.locked, dm.stray} \subseteq BOOLEAN
    BY DEF Init
  <2> QED BY <2>1, <2>2, <2>3 DEF IsDm
<1>2. Sides /\ Calm  BY DEF Init, Sides, Calm
<1>3. Kept  BY DEF Init, Kept, Memory, Addresses
<1>4. ~Running /\ Rested
  BY <1>2, <1>3 DEF Init, Running, Rested
<1> QED BY <1>1, <1>2, <1>4 DEF Init, DmiInv

\* A command starts its program.
LEMMA CommandStep ==
  ASSUME DmiInv, Command, step' = IF pc' = 0 THEN NoStep ELSE Programs[family'][cmd'][pc']
  PROVE  DmiInv'
<1>1. ~Running /\ family' = family /\ pc' = 1 /\ cmd' \in Ops /\ Supported(family, cmd')
  BY DEF Command
<1>2. family \in Families /\ family \in AllFamilies /\ IsDm(dm) /\ Sides /\ Calm
  BY <1>1, FamiliesAssumption DEF DmiInv, Rested
<1>3. PICK f \in AllFamilies, op \in Operations : f = family /\ op = cmd'
  BY <1>1, <1>2, FamiliesAssumption
<1>4. IsDm(dm') /\ Holds(First(f, op))'  BY <1>2, <1>3, CommandHolds
<1>5. Sides'
  <2>1. dm'.auto = dm.auto /\ dm'.locked = dm.locked
    BY <1>2, RelabelledIs DEF Command, Alike, Fields
  <2> QED BY <1>1, <1>2, <2>1 DEF Sides
<1>6. /\ Len(Program(f, op)) \in Nat \ {0}
      /\ Annotates(Notes(f, op), f, op, {}, First(f, op), Program(f, op), Final(f, op))
  BY <1>1, <1>3, NotesFit
<1>7. PICK i \in 1 .. Len(Program(f, op)) : i = 1  BY <1>6
<1>8. Passes(f, op, Program(f, op)[i], Notes(f, op)[i], Notes(f, op)[i + 1])
  BY <1>6 DEF Annotates
<1>9. PICK C, D : /\ Covers(Notes(f, op)[i], C) /\ Flow(f, op, Program(f, op)[i], C, D) /\
                       Covers(D, Notes(f, op)[i + 1])
  BY <1>8, Zenon DEF Passes
<1>10. Covers(First(f, op), C)
  <2>1. Covers(First(f, op), Notes(f, op)[i])  BY <1>6, <1>7 DEF Annotates
  <2> QED BY <1>9, <2>1, CoversAll
<1>11. Holds(C)'
  <2>1. PICK F : F = First(f, op)  OBVIOUS
  <2>2. Holds(F)' /\ Covers(F, C)  BY <1>4, <1>10, <2>1
  <2> QED BY <2>2, CoversNext
<1>12. step' = Compiled(Program(f, op), i)  BY <1>1, <1>2, <1>3, <1>7, CompiledIs
<1>13. /\ cmd' \in Ops /\ Supported(family', cmd') /\ pc' \in 1 .. Len(Program(family', cmd'))
       /\ step' = Compiled(Program(family', cmd'), pc')
  BY <1>1, <1>3, <1>7, <1>12
<1>14. Holds(C)' /\ Flow(family', cmd', Program(family', cmd')[pc'], C, D) /\
         Covers(D, Notes(family', cmd')[pc' + 1])
  BY <1>1, <1>3, <1>7, <1>9, <1>11
<1>15. Placed'  BY <1>13, <1>14 DEF Placed
<1> QED BY <1>1, <1>2, <1>4, <1>5, <1>15 DEF DmiInv, Running

\* The target acts on its own.
LEMMA TargetStep ==
  ASSUME DmiInv, Running, Settle \/ Halt, UNCHANGED <<family, cmd, pc, locals, marks, faults, ops>>,
         step' = IF pc' = 0 THEN NoStep ELSE Programs[family'][cmd'][pc']
  PROVE  DmiInv'
<1>1. Placed /\ IsDm(dm) /\ Sides /\ family \in Families  BY DEF DmiInv
<1>2. UNCHANGED <<family, cmd, mode, value, diag, cause, twice, unchecked, lost>> /\ pc' = pc
  BY DEF locals, marks
<1>3. PICK C, D : Holds(C) /\ Flow(family, cmd, Program(family, cmd)[pc], C, D) /\
             Covers(D, Notes(family, cmd)[pc + 1])
  BY <1>1 DEF Placed
<1>4. IsDm(dm') /\ Holds(C)'
  BY <1>1, <1>2, <1>3, SettleHolds, HaltHolds
<1>5. dm'.auto = dm.auto /\ (family # "X03X" /\ ~dm.locked => ~dm'.locked)
  <2>1. CASE Settle  BY <1>1, <2>1 DEF Settle, IsDm, Fields
  <2>2. CASE Halt  BY <1>1, <2>2 DEF Halt, IsDm, Fields
  <2> QED BY <2>1, <2>2
<1>6. Sides'  BY <1>1, <1>2, <1>5 DEF Sides
<1>7. step' = step
  <2>1. PICK i \in 1 .. Len(Program(family, cmd)) : i = pc /\ family \in Families /\ cmd \in Ops
    BY <1>1 DEF Placed
  <2>2. Programs[family][cmd][i] = Compiled(Program(family, cmd), i)  BY <2>1, CompiledIs
  <2> QED BY <1>1, <1>2, <2>1, <2>2 DEF Placed, Running
<1>8. Holds(C)' /\ Flow(family', cmd', Program(family', cmd')[pc'], C, D) /\
        Covers(D, Notes(family', cmd')[pc' + 1])
  BY <1>2, <1>3, <1>4
<1>9. /\ cmd' \in Ops /\ Supported(family', cmd') /\ pc' \in 1 .. Len(Program(family', cmd'))
      /\ step' = Compiled(Program(family', cmd'), pc')
  BY <1>1, <1>2, <1>7 DEF Placed
<1>10. Placed'  BY <1>8, <1>9 DEF Placed
<1> QED BY <1>1, <1>2, <1>4, <1>6, <1>10 DEF DmiInv, Running

\* Nothing changes.
LEMMA IdleStep ==
  ASSUME DmiInv, UNCHANGED vars
  PROVE  DmiInv'
<1>1. UNCHANGED <<family, dm, cmd, pc, step, mode, value, good, diag, cause, twice, unchecked, lost, ops>>
  BY DEF vars, locals, marks
<1>2. Calm' = Calm /\ Kept' = Kept /\ Undisturbed' = Undisturbed /\ Released' = Released /\
        Sides' = Sides
  BY <1>1 DEF Calm, Kept, Undisturbed, Released, Sides
<1>3. ASSUME Running  PROVE Placed'
  <2>1. PICK C, D : Holds(C) /\ Flow(family, cmd, Program(family, cmd)[pc], C, D) /\
               Covers(D, Notes(family, cmd)[pc + 1])
    BY <1>3 DEF DmiInv, Placed
  <2>2. Holds(C)'
    BY <1>1, <2>1 DEF Holds, OpenSays, Says, Guard, ModuleSays, RegisterSays, HartSays, MemorySays,
       PortSays, LocalSays,
            Calm, Told, Released, Careless, Kept
  <2>3. Holds(C)' /\ Flow(family', cmd', Program(family', cmd')[pc'], C, D) /\
          Covers(D, Notes(family', cmd')[pc' + 1])
    BY <1>1, <2>1, <2>2
  <2>4. /\ cmd' \in Ops /\ Supported(family', cmd') /\ pc' \in 1 .. Len(Program(family', cmd'))
        /\ step' = Compiled(Program(family', cmd'), pc')
    BY <1>1, <1>3 DEF DmiInv, Placed
  <2> QED BY <2>3, <2>4 DEF Placed
<1>4. ASSUME ~Running  PROVE Rested'
  <2>1. Achieved' = Achieved /\ Abandoned' = Abandoned  BY <1>1, <1>2, Zenon DEF Achieved, Abandoned
  <2> QED BY <1>1, <1>2, <1>4, <2>1 DEF DmiInv, Rested
<1>5. family' \in Families /\ IsDm(dm') /\ Sides'  BY <1>1, <1>2 DEF DmiInv
<1>6. Running' = Running  BY <1>1 DEF Running
<1> QED BY <1>3, <1>4, <1>5, <1>6 DEF DmiInv

\* Every access of every program, the target's own steps and the start of a command keep the
\* invariant.
THEOREM NextDmi == DmiInv /\ [Next]_vars => DmiInv'
<1> SUFFICES ASSUME DmiInv, [Next]_vars  PROVE DmiInv'
  OBVIOUS
<1>1. CASE Command /\ step' = IF pc' = 0 THEN NoStep ELSE Programs[family'][cmd'][pc']
  BY <1>1, CommandStep
<1>2. CASE /\ Running /\ (Settle \/ Halt) /\
                UNCHANGED <<family, cmd, pc, locals, marks, faults, ops>>
           /\ step' = IF pc' = 0 THEN NoStep ELSE Programs[family'][cmd'][pc']
  BY <1>2, TargetStep
<1>3. CASE /\ UNCHANGED <<family, cmd, ops>> /\ Steps
           /\ step' = IF pc' = 0 THEN NoStep ELSE Programs[family'][cmd'][pc']
  BY <1>3, ProgramStep
<1>4. CASE UNCHANGED vars
  BY <1>4, IdleStep
<1> QED BY <1>1, <1>2, <1>3, <1>4 DEF Next, Steps

-----------------------------------------------------------------------------
(* The properties.                                                         *)

\* Between the accesses an annotation of the next one holds, and between the operations the last
\* one has done its work or left no trace (the programs of rvswd_memory.c, rvswd_debug.c,
\* rvswd_reset.c, rvswd_target_*.c and rvswd_flash_ch58x_59x.c).
THEOREM AlwaysDmi == Spec => []DmiInv
BY InitDmi, NextDmi, PTL DEF Spec

\* What holds at rest and between the accesses.
LEMMA KeptThroughout ==
  ASSUME DmiInv, Undisturbed
  PROVE  Kept
<1>1. CASE Running
  <2>1. PICK x, C, D : Holds(C) /\ Flow(family, cmd, x, C, D)
    BY <1>1, Known1
  <2>2. Yes("kept") \in C.s  BY <2>1 DEF Flow, Asks
  <2>3. Guard(C.s)  BY DEF Undisturbed, Guard
  <2> QED BY <2>1, <2>2, <2>3 DEF Holds, Says, MemorySays
<1>2. CASE ~Running
  BY <1>2 DEF DmiInv, Rested
<1> QED BY <1>1, <1>2

\* The words and pages next to the one an operation writes are never touched, whatever fails and
\* whatever state the operation before left the debug module in (rvswd_memory.c,
\* rvswd_flash_ch58x_59x.c).
THEOREM NeighboursAlways == Spec => []NeighboursUntouched
<1>1. DmiInv => NeighboursUntouched
  BY KeptThroughout DEF Kept, NeighboursUntouched
<1> QED BY <1>1, AlwaysDmi, PTL

\* A page is programmed once, in order, and only after its erase was seen to be finished
\* (rvswd_flash_ch58x_59x.c).
THEOREM PageAlways == Spec => []PageErasedFirst
<1>1. DmiInv => PageErasedFirst
  BY KeptThroughout DEF Kept, PageErasedFirst
<1> QED BY <1>1, AlwaysDmi, PTL

\* Autoexec is off between operations unless the write that was to switch it off was lost, and a
\* streaming write that leaves it on has reported failure, the V20X's apart
\* (rvswd_memory_write_streaming and its retry).
THEOREM AutoexecAlways == Spec => []AutoexecOff
<1>1. DmiInv => AutoexecOff
  <2> SUFFICES ASSUME DmiInv, Ended,
                      dm.auto
               PROVE "autoexec" \in lost /\ (good /\ cmd = "write" => family = "V20X")
    BY DEF AutoexecOff
  <2>1. Calm /\ (good => Achieved)  BY DEF DmiInv, Rested, Ended
  <2> QED BY <2>1 DEF Calm, Achieved
<1> QED BY <1>1, AlwaysDmi, PTL

\* A failed operation reports the link status of the access that failed, and a failed resume has
\* taken its request back (rvswd_operation.c, rvswd_debug_resume).
THEOREM FailureAlways == Spec => []FailureLeavesNoTrace
<1>1. DmiInv => FailureLeavesNoTrace
  <2> SUFFICES ASSUME DmiInv, Ended, ~good
               PROVE  diag = cause /\
                        (cmd = "resume" /\ dm.request = "resume" => "request" \in lost)
    BY DEF FailureLeavesNoTrace
  <2>1. Abandoned  BY DEF DmiInv, Rested, Ended
  <2> QED BY <2>1 DEF Abandoned, Released
<1> QED BY <1>1, AlwaysDmi, PTL

\* An operation that reports success has done its work on the target: memory written or read, hart
\* resumed or reset, loader run, page rewritten.
THEOREM SuccessAlways == Spec => []SuccessMeansDone
<1>1. DmiInv => SuccessMeansDone
  <2> SUFFICES ASSUME DmiInv  PROVE SuccessMeansDone
    OBVIOUS
  <2>1. Ended /\ good => Achieved  BY DEF DmiInv, Rested, Ended
  <2> QED BY <2>1, Zenon DEF Achieved, SuccessMeansDone
<1> QED BY <1>1, AlwaysDmi, PTL

\* What a step that is an access of a program may not do.
LEMMA ProgramSafe ==
  ASSUME DmiInv, Steps, UNCHANGED <<family, cmd, ops>>
  PROVE  \E A : Holds(A) /\ SafeStep(A)
<1>1. Running
  BY DEF Steps, StepWrite, StepClean, StepWait, StepCheck, StepStatus, StepProbe, StepRead,
                      StepHart, StepByte, StepReady, StepLocal, Is
<1>2. \E x, C, D : /\ x = Program(family, cmd)[pc] /\ Current(x)
                   /\ Holds(C) /\ Flow(family, cmd, x, C, D) /\
                        Covers(D, Notes(family, cmd)[pc + 1])
  BY <1>1, Known1
<1>3. PICK x, A, B : Current(x) /\ Holds(A) /\ Flow(family, cmd, x, A, B)
  BY <1>2
<1>4. Asks(family, cmd, x, A)  BY <1>3 DEF Flow
<1>5. IsDm(dm) /\ Sides  BY DEF DmiInv
<1>6. SafeStep(A)  BY <1>3, <1>4, <1>5, StepLeads
<1> QED BY <1>3, <1>6

\* What a step other than an access leaves alone.
LEMMA OwnStep ==
  ASSUME DmiInv, Settle \/ Halt
  PROVE  dm'.mem = dm.mem /\ (dm.hart = "halted" => dm'.hart # "loader")
<1>1. IsDm(dm)  BY DEF DmiInv
<1>2. CASE Settle  BY <1>1, <1>2 DEF Settle, IsDm, Fields
<1>3. CASE Halt  BY <1>1, <1>3 DEF Halt, IsDm, Fields
<1> QED BY <1>2, <1>3

\* A command starts when no program runs and does not move the hart.
LEMMA CommandLeaves ==
  ASSUME DmiInv, Command
  PROVE  ~Running /\ dm'.hart = dm.hart
<1>1. IsDm(dm)  BY DEF DmiInv
<1> QED BY <1>1, RelabelledIs DEF Command, Alike, Fields

\* The memory of a target whose loader relocked the debug module is written only after the unlock
\* sequence was sent again (rvswd_debug_restore_unlock).
THEOREM WrittenUnlocked == Spec => NeverWrittenLocked
<1>1. DmiInv /\ [Next]_vars
        => (Undisturbed /\ Running /\ dm.locked => dm'.mem = dm.mem) \/ UNCHANGED vars
  <2> SUFFICES ASSUME DmiInv, Next, Undisturbed, Running, dm.locked  PROVE dm'.mem = dm.mem
    OBVIOUS
  <2>1. CASE Command  BY <2>1, CommandLeaves
  <2>2. CASE Settle \/ Halt  BY <2>2, OwnStep
  <2>3. CASE Steps /\ UNCHANGED <<family, cmd, ops>>
    <3>1. PICK A : SafeStep(A)  BY <2>3, ProgramSafe
    <3>2. Guard(A.s)  BY DEF Undisturbed, Guard
    <3> QED BY <3>1, <3>2 DEF SafeStep
  <2> QED BY <2>1, <2>2, <2>3 DEF Next, Steps
<1> QED BY <1>1, AlwaysDmi, PTL DEF Spec, NeverWrittenLocked

\* What is known when the loader starts.
Armed ==
  /\ cmd \in {"initialize", "program", "verify", "erase_all"} /\ ~dm.locked
  /\ \/ family = "V20X" /\ unchecked
     \/ /\ dm.regs["x10"] = "mode" /\ dm.regs["x11"] = "address"
        /\ dm.regs["x12"] = "length" /\ dm.regs["x2"] = "stack"
        /\ IsCh5(family) \/ family = "V30X" => dm.regs["x13"] = "data"
        /\ dm.regs["dcsr"] = "debug" \/ (family \in {"X03X", "V20X"} /\ cmd # "initialize")
        /\ NeedsMail(family, cmd) /\ family # "V20X" => dm.mem["mailbox"] = "mail"
        /\ cmd = "erase_all" => dm.mem["a1"] = "w1" /\ dm.mem["a2"] = "w2"

\* The annotation of a resume that starts a loader says that its arguments are set.
LEMMA ReadyIsArmed ==
  ASSUME NEW A, Holds(A), Guard(A.s), LoaderReady(family, cmd, A.s), Sides
  PROVE  Armed
<1>1. \A g \in A.s : Says(g)  BY DEF Holds
<1>2. cmd \in {"initialize", "program", "verify", "erase_all"}  BY DEF LoaderReady, LoaderOps
<1>3. ~dm.locked
  <2>1. family = "X03X" => Yes("unlocked") \in A.s  BY DEF LoaderReady
  <2> QED BY <1>1, <2>1 DEF Says, HartSays, Sides
<1>4. \A r \in Arguments4 : \A v : <<r, v>> \in A.s => dm.regs[r] = v \/ Careless
  <2> SUFFICES ASSUME NEW r \in Arguments4, NEW v,
                      <<r, v>> \in A.s  PROVE dm.regs[r] = v \/ Careless
    OBVIOUS
  <2>1. RegisterSays(<<r, v>>)  BY <1>1 DEF Says
  <2> QED BY <2>1 DEF RegisterSays
<1>5. dm.regs["x10"] = "mode" \/ Careless
  <2>1. RegisterSays(<<"x10", "mode">>)  BY <1>1 DEF Says, LoaderReady
  <2> QED BY <2>1 DEF RegisterSays
<1>6. dm.regs["x11"] = "address" \/ Careless  BY <1>4 DEF LoaderReady, Arguments4
<1>7. dm.regs["x12"] = "length" \/ Careless  BY <1>4 DEF LoaderReady, Arguments4
<1>8. dm.regs["x2"] = "stack" \/ Careless  BY <1>4 DEF LoaderReady, Arguments4
<1>9. (IsCh5(family) \/ family = "V30X") => dm.regs["x13"] = "data" \/ Careless
  BY <1>4 DEF LoaderReady, Arguments4
<1>10. dm.regs["dcsr"] = "debug" \/ (family \in {"X03X", "V20X"} /\ cmd # "initialize") \/ Careless
  BY <1>4 DEF LoaderReady, Arguments4
<1>11. \A b \in Blocks : \A v : <<b, v>> \in A.s => dm.mem[b] = v
  <2> SUFFICES ASSUME NEW b \in Blocks, NEW v, <<b, v>> \in A.s  PROVE dm.mem[b] = v
    OBVIOUS
  <2>1. MemorySays(<<b, v>>)  BY <1>1 DEF Says
  <2> QED BY <2>1 DEF MemorySays
<1>12. NeedsMail(family, cmd) /\ family # "V20X" => dm.mem["mailbox"] = "mail"
  BY <1>11 DEF LoaderReady, Blocks
<1>13. cmd = "erase_all" => dm.mem["a1"] = "w1" /\ dm.mem["a2"] = "w2"
  BY <1>11 DEF LoaderReady, Blocks
<1> QED BY <1>2, <1>3, <1>5, <1>6, <1>7, <1>8, <1>9, <1>10, <1>12, <1>13 DEF Armed, Careless

\* A loader starts only with every argument register, the stack and the mailbox set by this very
\* operation and with the module unlocked (rvswd_target_<family>.c, wchlink_target_ports.c).
THEOREM LoaderArmed == Spec => LoaderArguments
<1>1. DmiInv /\ [Next]_vars
        => (Undisturbed /\ dm.hart = "halted" /\ dm'.hart = "loader" => Armed) \/ UNCHANGED vars
  <2> SUFFICES ASSUME DmiInv, Next, Undisturbed, dm.hart = "halted",
                      dm'.hart = "loader"
               PROVE Armed
    OBVIOUS
  <2>1. CASE Command  BY <2>1, CommandLeaves
  <2>2. CASE Settle \/ Halt  BY <2>2, OwnStep
  <2>3. CASE Steps /\ UNCHANGED <<family, cmd, ops>>
    <3>1. PICK A : Holds(A) /\ SafeStep(A)  BY <2>3, ProgramSafe
    <3>2. Guard(A.s)  BY DEF Undisturbed, Guard
    <3>3. LoaderReady(family, cmd, A.s)  BY <3>1, <3>2 DEF SafeStep
    <3>4. Sides  BY DEF DmiInv
    <3> QED BY <3>1, <3>2, <3>3, <3>4, ReadyIsArmed
  <2> QED BY <2>1, <2>2, <2>3 DEF Next, Steps
<1> QED BY <1>1, AlwaysDmi, PTL DEF Spec, LoaderArguments, Armed

=============================================================================
