------------------------- MODULE WchlinkSessionProofs -------------------------
(***************************************************************************)
(* Proofs about WchlinkSession, for every set of modules and every number  *)
(* of attempts: the type invariant, that the line fits the module, that no *)
(* phase of a transfer outlives its session, that the status of a resume   *)
(* belongs to the command after it, and that a module is only taken for a  *)
(* reason.  One lemma per action shows that it preserves the inductive     *)
(* invariant Inv.                                                          *)
(***************************************************************************)
EXTENDS WchlinkSession, TLAPS

-----------------------------------------------------------------------------
(* The steps *)

\* EndSession keeps the invariant.
LEMMA EndSessionInv ==
  ASSUME Inv, EndSession
  PROVE Inv'
<1> USE DEF Inv, EndSession, Begins, CommandReset, Disconnect, ClearOperation,
        Slot, NoModule, Families, Speeds, Replies,
        vars, target, host, ports, transport, context, transfer, progress
<1>1. TypeOK'
  <2>1. TargetType'  BY DEF TypeOK, TargetType
  <2>2. PortsType'  BY DEF TypeOK, TargetType, PortsType, TransferType
  <2>3. TransferType'  BY DEF TypeOK, PortsType, TransferType
  <2>4. CommandType' BY DEF TypeOK, CommandType
  <2> QED BY <2>1, <2>2, <2>3, <2>4 DEF TypeOK
<1>2. LineFitsModule'  BY SessionAssumption DEF AllModules, TypeOK, TargetType, PortsType, CommandType, LineFitsModule, WhileConnecting
<1>3. PhaseNeedsSession'  BY DEF TypeOK, PortsType, TransferType, CommandType, LineFitsModule, PhaseNeedsSession, WhileConnecting
<1>4. StatusFollowsResume'  BY DEF TypeOK, CommandType, StatusFollowsResume, WhileConnecting
<1>5. WhileConnecting'  BY DEF TypeOK, PortsType, CommandType, WhileConnecting
<1> QED BY <1>1, <1>2, <1>3, <1>4, <1>5

\* Stop keeps the invariant.
LEMMA StopInv ==
  ASSUME Inv, Stop
  PROVE Inv'
<1> USE DEF Inv, Stop, Begins, CommandReset, Disconnect, ClearOperation,
        Slot, NoModule, Families, Speeds, Replies,
        vars, target, host, ports, transport, context, transfer, progress
<1>1. TypeOK'
  <2>1. TargetType'  BY DEF TypeOK, TargetType
  <2>2. PortsType'  BY DEF TypeOK, TargetType, PortsType, TransferType
  <2>3. TransferType'  BY DEF TypeOK, PortsType, TransferType
  <2>4. CommandType' BY DEF TypeOK, CommandType
  <2> QED BY <2>1, <2>2, <2>3, <2>4 DEF TypeOK
<1>2. LineFitsModule'  BY SessionAssumption DEF AllModules, TypeOK, TargetType, PortsType, CommandType, LineFitsModule, WhileConnecting
<1>3. PhaseNeedsSession'  BY DEF TypeOK, PortsType, TransferType, CommandType, LineFitsModule, PhaseNeedsSession, WhileConnecting
<1>4. StatusFollowsResume'  BY DEF TypeOK, CommandType, StatusFollowsResume, WhileConnecting
<1>5. WhileConnecting'  BY DEF TypeOK, PortsType, CommandType, WhileConnecting
<1> QED BY <1>1, <1>2, <1>3, <1>4, <1>5

\* Connect keeps the invariant.
LEMMA ConnectInv ==
  ASSUME Inv, Connect
  PROVE Inv'
<1> USE DEF Inv, Connect, StartsConnection, TargetInit, ModuleOf, ModeOf, Mode, ClearOperation,
        Slot, NoModule, Families, Speeds, Replies,
        vars, target, host, ports, transport, context, transfer, progress
<1>1. TypeOK'
  <2>1. TargetType'  BY DEF TypeOK, TargetType
  <2>2. PortsType'  BY DEF TypeOK, TargetType, PortsType, TransferType
  <2>3. TransferType'  BY DEF TypeOK, PortsType, TransferType
  <2>4. CommandType' BY DEF TypeOK, CommandType
  <2> QED BY <2>1, <2>2, <2>3, <2>4 DEF TypeOK
<1>2. LineFitsModule'  BY SessionAssumption DEF AllModules, TypeOK, TargetType, PortsType, CommandType, LineFitsModule, WhileConnecting
<1>3. PhaseNeedsSession'  BY DEF TypeOK, PortsType, TransferType, CommandType, LineFitsModule, PhaseNeedsSession, WhileConnecting
<1>4. StatusFollowsResume'  BY DEF TypeOK, CommandType, StatusFollowsResume, WhileConnecting
<1>5. WhileConnecting'  BY DEF TypeOK, PortsType, CommandType, WhileConnecting
<1> QED BY <1>1, <1>2, <1>3, <1>4, <1>5

\* SetChipType keeps the invariant.
LEMMA SetChipTypeInv ==
  ASSUME Inv, SetChipType
  PROVE Inv'
<1> USE DEF Inv, SetChipType, StartsConnection, TargetInit, ModuleOf, ModeOf, Mode, ClearOperation,
        Slot, NoModule, Families, Speeds, Replies,
        vars, target, host, ports, transport, context, transfer, progress
<1>1. TypeOK'
  <2>1. TargetType'  BY DEF TypeOK, TargetType
  <2>2. PortsType'  BY DEF TypeOK, TargetType, PortsType, TransferType
  <2>3. TransferType'  BY DEF TypeOK, PortsType, TransferType
  <2>4. CommandType' BY DEF TypeOK, CommandType
  <2> QED BY <2>1, <2>2, <2>3, <2>4 DEF TypeOK
<1>2. LineFitsModule'  BY SessionAssumption DEF AllModules, TypeOK, TargetType, PortsType, CommandType, LineFitsModule, WhileConnecting
<1>3. PhaseNeedsSession'  BY DEF TypeOK, PortsType, TransferType, CommandType, LineFitsModule, PhaseNeedsSession, WhileConnecting
<1>4. StatusFollowsResume'  BY DEF TypeOK, CommandType, StatusFollowsResume, WhileConnecting
<1>5. WhileConnecting'  BY DEF TypeOK, PortsType, CommandType, WhileConnecting
<1> QED BY <1>1, <1>2, <1>3, <1>4, <1>5

\* EraseFlash keeps the invariant.
LEMMA EraseFlashInv ==
  ASSUME Inv, EraseFlash
  PROVE Inv'
<1> USE DEF Inv, EraseFlash, StartsConnection, TargetInit, ModuleOf, ModeOf, Mode, ClearOperation,
        Slot, NoModule, Families, Speeds, Replies,
        vars, target, host, ports, transport, context, transfer, progress
<1>1. TypeOK'
  <2>1. TargetType'  BY DEF TypeOK, TargetType
  <2>2. PortsType'  BY DEF TypeOK, TargetType, PortsType, TransferType
  <2>3. TransferType'  BY DEF TypeOK, PortsType, TransferType
  <2>4. CommandType'
    <3>1. CASE connected  BY <3>1 DEF TypeOK, CommandType
    <3>2. CASE ~connected
      <4>1. at' \in {"long", "known"} /\ cycle' = 0 /\ attempt' = 0  BY <3>2
      <4> QED BY <4>1 DEF TypeOK, CommandType
    <3> QED BY <3>1, <3>2
  <2> QED BY <2>1, <2>2, <2>3, <2>4 DEF TypeOK
<1>2. LineFitsModule'  BY SessionAssumption DEF AllModules, TypeOK, TargetType, PortsType, CommandType, LineFitsModule, WhileConnecting
<1>3. PhaseNeedsSession'  BY DEF TypeOK, PortsType, TransferType, CommandType, LineFitsModule, PhaseNeedsSession, WhileConnecting
<1>4. StatusFollowsResume'  BY DEF TypeOK, CommandType, StatusFollowsResume, WhileConnecting
<1>5. WhileConnecting'  BY DEF TypeOK, PortsType, CommandType, WhileConnecting
<1> QED BY <1>1, <1>2, <1>3, <1>4, <1>5

\* ClearCodeFlash keeps the invariant.
LEMMA ClearCodeFlashInv ==
  ASSUME Inv, NEW family \in Families, ClearCodeFlash(family)
  PROVE Inv'
<1> USE DEF Inv, ClearCodeFlash, StartsConnection, TargetInit, ModuleOf, ModeOf, Mode, ClearOperation,
        Slot, NoModule, Families, Speeds, Replies,
        vars, target, host, ports, transport, context, transfer, progress
<1>1. TypeOK'
  <2>1. TargetType'  BY DEF TypeOK, TargetType
  <2>2. PortsType'  BY DEF TypeOK, TargetType, PortsType, TransferType
  <2>3. TransferType'  BY DEF TypeOK, PortsType, TransferType
  <2>4. CommandType'
    <3>1. CASE connected  BY <3>1 DEF TypeOK, CommandType
    <3>2. CASE ~connected
      <4>1. at' \in {"long", "known"} /\ cycle' = 0 /\ attempt' = 0  BY <3>2
      <4> QED BY <4>1 DEF TypeOK, CommandType
    <3> QED BY <3>1, <3>2
  <2> QED BY <2>1, <2>2, <2>3, <2>4 DEF TypeOK
<1>2. LineFitsModule'  BY SessionAssumption DEF AllModules, TypeOK, TargetType, PortsType, CommandType, LineFitsModule, WhileConnecting
<1>3. PhaseNeedsSession'  BY DEF TypeOK, PortsType, TransferType, CommandType, LineFitsModule, PhaseNeedsSession, WhileConnecting
<1>4. StatusFollowsResume'  BY DEF TypeOK, CommandType, StatusFollowsResume, WhileConnecting
<1>5. WhileConnecting'  BY DEF TypeOK, PortsType, CommandType, WhileConnecting
<1> QED BY <1>1, <1>2, <1>3, <1>4, <1>5

\* LongProbe keeps the invariant.
LEMMA LongProbeInv ==
  ASSUME Inv, LongProbe
  PROVE Inv'
<1> USE DEF Inv, LongProbe, ConnectStep,
        Slot, NoModule, Families, Speeds, Replies,
        vars, target, host, ports, transport, context, transfer, progress
<1>1. TypeOK'
  <2>1. TargetType'  BY DEF TypeOK, TargetType
  <2>2. PortsType'  BY DEF TypeOK, TargetType, PortsType, TransferType
  <2>3. TransferType'  BY DEF TypeOK, PortsType, TransferType
  <2>4. CommandType' BY DEF TypeOK, CommandType
  <2> QED BY <2>1, <2>2, <2>3, <2>4 DEF TypeOK
<1>2. LineFitsModule'  BY SessionAssumption DEF AllModules, TypeOK, TargetType, PortsType, CommandType, LineFitsModule, WhileConnecting
<1>3. PhaseNeedsSession'  BY DEF TypeOK, PortsType, TransferType, CommandType, LineFitsModule, PhaseNeedsSession, WhileConnecting
<1>4. StatusFollowsResume'  BY DEF TypeOK, CommandType, StatusFollowsResume, WhileConnecting
<1>5. WhileConnecting'  BY DEF TypeOK, PortsType, CommandType, WhileConnecting
<1> QED BY <1>1, <1>2, <1>3, <1>4, <1>5

\* ShortAttempt keeps the invariant.
LEMMA ShortAttemptInv ==
  ASSUME Inv, ShortAttempt
  PROVE Inv'
<1> USE DEF Inv, ShortAttempt, ConnectStep, Connected, Identified, Named, Mode, Fast, IdReadable,
        Slot, NoModule, Families, Speeds, Replies,
        vars, target, host, ports, transport, context, transfer, progress
<1>1. TypeOK'
  <2>1. TargetType'  BY DEF TypeOK, TargetType
  <2>2. PortsType'  BY DEF TypeOK, TargetType, PortsType, TransferType
  <2>3. TransferType'  BY DEF TypeOK, PortsType, TransferType
  <2>4. CommandType' BY DEF TypeOK, CommandType
  <2> QED BY <2>1, <2>2, <2>3, <2>4 DEF TypeOK
<1>2. LineFitsModule'  BY SessionAssumption DEF AllModules, TypeOK, TargetType, PortsType, CommandType, LineFitsModule, WhileConnecting
<1>3. PhaseNeedsSession'  BY DEF TypeOK, PortsType, TransferType, CommandType, LineFitsModule, PhaseNeedsSession, WhileConnecting
<1>4. StatusFollowsResume'  BY DEF TypeOK, CommandType, StatusFollowsResume, WhileConnecting
<1>5. WhileConnecting'  BY DEF TypeOK, PortsType, CommandType, WhileConnecting
<1> QED BY <1>1, <1>2, <1>3, <1>4, <1>5

\* ShortAttemptFails keeps the invariant.
LEMMA ShortAttemptFailsInv ==
  ASSUME Inv, ShortAttemptFails
  PROVE Inv'
<1> USE DEF Inv, ShortAttemptFails, ConnectStep,
        Slot, NoModule, Families, Speeds, Replies,
        vars, target, host, ports, transport, context, transfer, progress
<1>1. TypeOK'
  <2>1. TargetType'  BY DEF TypeOK, TargetType
  <2>2. PortsType'  BY DEF TypeOK, TargetType, PortsType, TransferType
  <2>3. TransferType'  BY DEF TypeOK, PortsType, TransferType
  <2>4. CommandType' BY DEF TypeOK, CommandType
  <2> QED BY <2>1, <2>2, <2>3, <2>4 DEF TypeOK
<1>2. LineFitsModule'  BY SessionAssumption DEF AllModules, TypeOK, TargetType, PortsType, CommandType, LineFitsModule, WhileConnecting
<1>3. PhaseNeedsSession'  BY DEF TypeOK, PortsType, TransferType, CommandType, LineFitsModule, PhaseNeedsSession, WhileConnecting
<1>4. StatusFollowsResume'  BY DEF TypeOK, CommandType, StatusFollowsResume, WhileConnecting
<1>5. WhileConnecting'  BY DEF TypeOK, PortsType, CommandType, WhileConnecting
<1> QED BY <1>1, <1>2, <1>3, <1>4, <1>5

\* KnownAttempt keeps the invariant.
LEMMA KnownAttemptInv ==
  ASSUME Inv, KnownAttempt
  PROVE Inv'
<1> USE DEF Inv, KnownAttempt, ConnectStep, Connected, Identified, Named, Mode, Fast, IdReadable,
        Slot, NoModule, Families, Speeds, Replies,
        vars, target, host, ports, transport, context, transfer, progress
<1>1. TypeOK'
  <2>1. TargetType'  BY DEF TypeOK, TargetType
  <2>2. PortsType'  BY DEF TypeOK, TargetType, PortsType, TransferType
  <2>3. TransferType'  BY DEF TypeOK, PortsType, TransferType
  <2>4. CommandType' BY DEF TypeOK, CommandType
  <2> QED BY <2>1, <2>2, <2>3, <2>4 DEF TypeOK
<1>2. LineFitsModule'  BY SessionAssumption DEF AllModules, TypeOK, TargetType, PortsType, CommandType, LineFitsModule, WhileConnecting
<1>3. PhaseNeedsSession'  BY DEF TypeOK, PortsType, TransferType, CommandType, LineFitsModule, PhaseNeedsSession, WhileConnecting
<1>4. StatusFollowsResume'  BY DEF TypeOK, CommandType, StatusFollowsResume, WhileConnecting
<1>5. WhileConnecting'  BY DEF TypeOK, PortsType, CommandType, WhileConnecting
<1> QED BY <1>1, <1>2, <1>3, <1>4, <1>5

\* KnownAttemptFails keeps the invariant.
LEMMA KnownAttemptFailsInv ==
  ASSUME Inv, KnownAttemptFails
  PROVE Inv'
<1> USE DEF Inv, KnownAttemptFails, ConnectStep,
        Slot, NoModule, Families, Speeds, Replies,
        vars, target, host, ports, transport, context, transfer, progress
<1>1. TypeOK'
  <2>1. TargetType'  BY DEF TypeOK, TargetType
  <2>2. PortsType'  BY DEF TypeOK, TargetType, PortsType, TransferType
  <2>3. TransferType'  BY DEF TypeOK, PortsType, TransferType
  <2>4. CommandType' BY DEF TypeOK, CommandType
  <2> QED BY <2>1, <2>2, <2>3, <2>4 DEF TypeOK
<1>2. LineFitsModule'  BY SessionAssumption DEF AllModules, TypeOK, TargetType, PortsType, CommandType, LineFitsModule, WhileConnecting
<1>3. PhaseNeedsSession'  BY DEF TypeOK, PortsType, TransferType, CommandType, LineFitsModule, PhaseNeedsSession, WhileConnecting
<1>4. StatusFollowsResume'  BY DEF TypeOK, CommandType, StatusFollowsResume, WhileConnecting
<1>5. WhileConnecting'  BY DEF TypeOK, PortsType, CommandType, WhileConnecting
<1> QED BY <1>1, <1>2, <1>3, <1>4, <1>5

\* EraseAll keeps the invariant.
LEMMA EraseAllInv ==
  ASSUME Inv, NEW ok \in BOOLEAN, EraseAll(ok)
  PROVE Inv'
<1> USE DEF Inv, EraseAll, Access, Outcome, ClearOperation,
        Slot, NoModule, Families, Speeds, Replies,
        vars, target, host, ports, transport, context, transfer, progress
<1>1. TypeOK'
  <2>1. TargetType'  BY DEF TypeOK, TargetType
  <2>2. PortsType'  BY DEF TypeOK, TargetType, PortsType, TransferType
  <2>3. TransferType'  BY DEF TypeOK, PortsType, TransferType
  <2>4. CommandType' BY DEF TypeOK, CommandType
  <2> QED BY <2>1, <2>2, <2>3, <2>4 DEF TypeOK
<1>2. LineFitsModule'  BY SessionAssumption DEF AllModules, TypeOK, TargetType, PortsType, CommandType, LineFitsModule, WhileConnecting
<1>3. PhaseNeedsSession'  BY DEF TypeOK, PortsType, TransferType, CommandType, LineFitsModule, PhaseNeedsSession, WhileConnecting
<1>4. StatusFollowsResume'  BY DEF TypeOK, CommandType, StatusFollowsResume, WhileConnecting
<1>5. WhileConnecting'  BY DEF TypeOK, PortsType, CommandType, WhileConnecting
<1> QED BY <1>1, <1>2, <1>3, <1>4, <1>5

\* SetSpeed keeps the invariant.
LEMMA SetSpeedInv ==
  ASSUME Inv, NEW family \in Families, NEW speed \in Speeds, SetSpeed(family, speed)
  PROVE Inv'
<1> USE DEF Inv, SetSpeed, Begins, SetFamilyHint, ModuleOf, ModeOf, Mode, Fast,
        Slot, NoModule, Families, Speeds, Replies,
        vars, target, host, ports, transport, context, transfer, progress
<1>1. TypeOK'
  <2>1. TargetType'  BY DEF TypeOK, TargetType
  <2>2. PortsType'  BY DEF TypeOK, TargetType, PortsType, TransferType
  <2>3. TransferType'  BY DEF TypeOK, PortsType, TransferType
  <2>4. CommandType' BY DEF TypeOK, CommandType
  <2> QED BY <2>1, <2>2, <2>3, <2>4 DEF TypeOK
<1>2. LineFitsModule'  BY SessionAssumption DEF AllModules, TypeOK, TargetType, PortsType, CommandType, LineFitsModule, WhileConnecting
<1>3. PhaseNeedsSession'  BY DEF TypeOK, PortsType, TransferType, CommandType, LineFitsModule, PhaseNeedsSession, WhileConnecting
<1>4. StatusFollowsResume'  BY DEF TypeOK, CommandType, StatusFollowsResume, WhileConnecting
<1>5. WhileConnecting'  BY DEF TypeOK, PortsType, CommandType, WhileConnecting
<1> QED BY <1>1, <1>2, <1>3, <1>4, <1>5

\* Info keeps the invariant.
LEMMA InfoInv ==
  ASSUME Inv, NEW ok \in BOOLEAN, Info(ok)
  PROVE Inv'
<1> USE DEF Inv, Info, Begins, UsesLegacyInfo, Access,
        Slot, NoModule, Families, Speeds, Replies,
        vars, target, host, ports, transport, context, transfer, progress
<1>1. TypeOK'
  <2>1. TargetType'  BY DEF TypeOK, TargetType
  <2>2. PortsType'  BY DEF TypeOK, TargetType, PortsType, TransferType
  <2>3. TransferType'  BY DEF TypeOK, PortsType, TransferType
  <2>4. CommandType' BY DEF TypeOK, CommandType
  <2> QED BY <2>1, <2>2, <2>3, <2>4 DEF TypeOK
<1>2. LineFitsModule'  BY SessionAssumption DEF AllModules, TypeOK, TargetType, PortsType, CommandType, LineFitsModule, WhileConnecting
<1>3. PhaseNeedsSession'  BY DEF TypeOK, PortsType, TransferType, CommandType, LineFitsModule, PhaseNeedsSession, WhileConnecting
<1>4. StatusFollowsResume'  BY DEF TypeOK, CommandType, StatusFollowsResume, WhileConnecting
<1>5. WhileConnecting'  BY DEF TypeOK, PortsType, CommandType, WhileConnecting
<1> QED BY <1>1, <1>2, <1>3, <1>4, <1>5

\* DmiReadStored keeps the invariant.
LEMMA DmiReadStoredInv ==
  ASSUME Inv, DmiReadStored
  PROVE Inv'
<1> USE DEF Inv, DmiReadStored, DmiUnchanged,
        Slot, NoModule, Families, Speeds, Replies,
        vars, target, host, ports, transport, context, transfer, progress
<1>1. TypeOK'
  <2>1. TargetType'  BY DEF TypeOK, TargetType
  <2>2. PortsType'  BY DEF TypeOK, TargetType, PortsType, TransferType
  <2>3. TransferType'  BY DEF TypeOK, PortsType, TransferType
  <2>4. CommandType' BY DEF TypeOK, CommandType
  <2> QED BY <2>1, <2>2, <2>3, <2>4 DEF TypeOK
<1>2. LineFitsModule'  BY SessionAssumption DEF AllModules, TypeOK, TargetType, PortsType, CommandType, LineFitsModule, WhileConnecting
<1>3. PhaseNeedsSession'  BY DEF TypeOK, PortsType, TransferType, CommandType, LineFitsModule, PhaseNeedsSession, WhileConnecting
<1>4. StatusFollowsResume'  BY DEF TypeOK, CommandType, StatusFollowsResume, WhileConnecting
<1>5. WhileConnecting'  BY DEF TypeOK, PortsType, CommandType, WhileConnecting
<1> QED BY <1>1, <1>2, <1>3, <1>4, <1>5

\* DmiReadStatus keeps the invariant.
LEMMA DmiReadStatusInv ==
  ASSUME Inv, NEW ok \in BOOLEAN, DmiReadStatus(ok)
  PROVE Inv'
<1> USE DEF Inv, DmiReadStatus, DmiUnchanged, Access, Outcome,
        Slot, NoModule, Families, Speeds, Replies,
        vars, target, host, ports, transport, context, transfer, progress
<1>1. TypeOK'
  <2>1. TargetType'  BY DEF TypeOK, TargetType
  <2>2. PortsType'  BY DEF TypeOK, TargetType, PortsType, TransferType
  <2>3. TransferType'  BY DEF TypeOK, PortsType, TransferType
  <2>4. CommandType' BY DEF TypeOK, CommandType
  <2> QED BY <2>1, <2>2, <2>3, <2>4 DEF TypeOK
<1>2. LineFitsModule'  BY SessionAssumption DEF AllModules, TypeOK, TargetType, PortsType, CommandType, LineFitsModule, WhileConnecting
<1>3. PhaseNeedsSession'  BY DEF TypeOK, PortsType, TransferType, CommandType, LineFitsModule, PhaseNeedsSession, WhileConnecting
<1>4. StatusFollowsResume'  BY DEF TypeOK, CommandType, StatusFollowsResume, WhileConnecting
<1>5. WhileConnecting'  BY DEF TypeOK, PortsType, CommandType, WhileConnecting
<1> QED BY <1>1, <1>2, <1>3, <1>4, <1>5

\* DmiAccess keeps the invariant.
LEMMA DmiAccessInv ==
  ASSUME Inv, NEW ok \in BOOLEAN, DmiAccess(ok)
  PROVE Inv'
<1> USE DEF Inv, DmiAccess, DmiUnchanged, Access, Outcome,
        Slot, NoModule, Families, Speeds, Replies,
        vars, target, host, ports, transport, context, transfer, progress
<1>1. TypeOK'
  <2>1. TargetType'  BY DEF TypeOK, TargetType
  <2>2. PortsType'  BY DEF TypeOK, TargetType, PortsType, TransferType
  <2>3. TransferType'  BY DEF TypeOK, PortsType, TransferType
  <2>4. CommandType' BY DEF TypeOK, CommandType
  <2> QED BY <2>1, <2>2, <2>3, <2>4 DEF TypeOK
<1>2. LineFitsModule'  BY SessionAssumption DEF AllModules, TypeOK, TargetType, PortsType, CommandType, LineFitsModule, WhileConnecting
<1>3. PhaseNeedsSession'  BY DEF TypeOK, PortsType, TransferType, CommandType, LineFitsModule, PhaseNeedsSession, WhileConnecting
<1>4. StatusFollowsResume'  BY DEF TypeOK, CommandType, StatusFollowsResume, WhileConnecting
<1>5. WhileConnecting'  BY DEF TypeOK, PortsType, CommandType, WhileConnecting
<1> QED BY <1>1, <1>2, <1>3, <1>4, <1>5

\* DmiResume keeps the invariant.
LEMMA DmiResumeInv ==
  ASSUME Inv, NEW ok \in BOOLEAN, DmiResume(ok)
  PROVE Inv'
<1> USE DEF Inv, DmiResume, DmiUnchanged, Access, Outcome,
        Slot, NoModule, Families, Speeds, Replies,
        vars, target, host, ports, transport, context, transfer, progress
<1>1. TypeOK'
  <2>1. TargetType'  BY DEF TypeOK, TargetType
  <2>2. PortsType'  BY DEF TypeOK, TargetType, PortsType, TransferType
  <2>3. TransferType'  BY DEF TypeOK, PortsType, TransferType
  <2>4. CommandType' BY DEF TypeOK, CommandType
  <2> QED BY <2>1, <2>2, <2>3, <2>4 DEF TypeOK
<1>2. LineFitsModule'  BY SessionAssumption DEF AllModules, TypeOK, TargetType, PortsType, CommandType, LineFitsModule, WhileConnecting
<1>3. PhaseNeedsSession'  BY DEF TypeOK, PortsType, TransferType, CommandType, LineFitsModule, PhaseNeedsSession, WhileConnecting
<1>4. StatusFollowsResume'  BY DEF TypeOK, CommandType, StatusFollowsResume, WhileConnecting
<1>5. WhileConnecting'  BY DEF TypeOK, PortsType, CommandType, WhileConnecting
<1> QED BY <1>1, <1>2, <1>3, <1>4, <1>5

\* PrepareWrite keeps the invariant.
LEMMA PrepareWriteInv ==
  ASSUME Inv, PrepareWrite
  PROVE Inv'
<1> USE DEF Inv, PrepareWrite, Begins, TransferCommand, ClearOperation, Outcome, Access,
        Slot, NoModule, Families, Speeds, Replies,
        vars, target, host, ports, transport, context, transfer, progress
<1>1. TypeOK'
  <2>1. TargetType'  BY DEF TypeOK, TargetType
  <2>2. PortsType'  BY DEF TypeOK, TargetType, PortsType, TransferType
  <2>3. TransferType'  BY DEF TypeOK, PortsType, TransferType
  <2>4. CommandType' BY DEF TypeOK, CommandType
  <2> QED BY <2>1, <2>2, <2>3, <2>4 DEF TypeOK
<1>2. LineFitsModule'  BY SessionAssumption DEF AllModules, TypeOK, TargetType, PortsType, CommandType, LineFitsModule, WhileConnecting
<1>3. PhaseNeedsSession'  BY DEF TypeOK, PortsType, TransferType, CommandType, LineFitsModule, PhaseNeedsSession, WhileConnecting
<1>4. StatusFollowsResume'  BY DEF TypeOK, CommandType, StatusFollowsResume, WhileConnecting
<1>5. WhileConnecting'  BY DEF TypeOK, PortsType, CommandType, WhileConnecting
<1> QED BY <1>1, <1>2, <1>3, <1>4, <1>5

\* PrepareRead keeps the invariant.
LEMMA PrepareReadInv ==
  ASSUME Inv, PrepareRead
  PROVE Inv'
<1> USE DEF Inv, PrepareRead, Begins, TransferCommand, ClearOperation, Outcome, Access,
        Slot, NoModule, Families, Speeds, Replies,
        vars, target, host, ports, transport, context, transfer, progress
<1>1. TypeOK'
  <2>1. TargetType'  BY DEF TypeOK, TargetType
  <2>2. PortsType'  BY DEF TypeOK, TargetType, PortsType, TransferType
  <2>3. TransferType'  BY DEF TypeOK, PortsType, TransferType
  <2>4. CommandType' BY DEF TypeOK, CommandType
  <2> QED BY <2>1, <2>2, <2>3, <2>4 DEF TypeOK
<1>2. LineFitsModule'  BY SessionAssumption DEF AllModules, TypeOK, TargetType, PortsType, CommandType, LineFitsModule, WhileConnecting
<1>3. PhaseNeedsSession'  BY DEF TypeOK, PortsType, TransferType, CommandType, LineFitsModule, PhaseNeedsSession, WhileConnecting
<1>4. StatusFollowsResume'  BY DEF TypeOK, CommandType, StatusFollowsResume, WhileConnecting
<1>5. WhileConnecting'  BY DEF TypeOK, PortsType, CommandType, WhileConnecting
<1> QED BY <1>1, <1>2, <1>3, <1>4, <1>5

\* BeginRead keeps the invariant.
LEMMA BeginReadInv ==
  ASSUME Inv, BeginRead
  PROVE Inv'
<1> USE DEF Inv, BeginRead, Begins, TransferCommand, ClearOperation, Outcome, Access,
        Slot, NoModule, Families, Speeds, Replies,
        vars, target, host, ports, transport, context, transfer, progress
<1>1. TypeOK'
  <2>1. TargetType'  BY DEF TypeOK, TargetType
  <2>2. PortsType'  BY DEF TypeOK, TargetType, PortsType, TransferType
  <2>3. TransferType'  BY DEF TypeOK, PortsType, TransferType
  <2>4. CommandType' BY DEF TypeOK, CommandType
  <2> QED BY <2>1, <2>2, <2>3, <2>4 DEF TypeOK
<1>2. LineFitsModule'  BY SessionAssumption DEF AllModules, TypeOK, TargetType, PortsType, CommandType, LineFitsModule, WhileConnecting
<1>3. PhaseNeedsSession'  BY DEF TypeOK, PortsType, TransferType, CommandType, LineFitsModule, PhaseNeedsSession, WhileConnecting
<1>4. StatusFollowsResume'  BY DEF TypeOK, CommandType, StatusFollowsResume, WhileConnecting
<1>5. WhileConnecting'  BY DEF TypeOK, PortsType, CommandType, WhileConnecting
<1> QED BY <1>1, <1>2, <1>3, <1>4, <1>5

\* PartialWrite keeps the invariant.
LEMMA PartialWriteInv ==
  ASSUME Inv, PartialWrite
  PROVE Inv'
<1> USE DEF Inv, PartialWrite, Begins, TransferCommand, ClearOperation, Outcome, Access,
        Slot, NoModule, Families, Speeds, Replies,
        vars, target, host, ports, transport, context, transfer, progress
<1>1. TypeOK'
  <2>1. TargetType'  BY DEF TypeOK, TargetType
  <2>2. PortsType'  BY DEF TypeOK, TargetType, PortsType, TransferType
  <2>3. TransferType'  BY DEF TypeOK, PortsType, TransferType
  <2>4. CommandType' BY DEF TypeOK, CommandType
  <2> QED BY <2>1, <2>2, <2>3, <2>4 DEF TypeOK
<1>2. LineFitsModule'  BY SessionAssumption DEF AllModules, TypeOK, TargetType, PortsType, CommandType, LineFitsModule, WhileConnecting
<1>3. PhaseNeedsSession'  BY DEF TypeOK, PortsType, TransferType, CommandType, LineFitsModule, PhaseNeedsSession, WhileConnecting
<1>4. StatusFollowsResume'  BY DEF TypeOK, CommandType, StatusFollowsResume, WhileConnecting
<1>5. WhileConnecting'  BY DEF TypeOK, PortsType, CommandType, WhileConnecting
<1> QED BY <1>1, <1>2, <1>3, <1>4, <1>5

\* StartLoader keeps the invariant.
LEMMA StartLoaderInv ==
  ASSUME Inv, StartLoader
  PROVE Inv'
<1> USE DEF Inv, StartLoader, Begins, TransferCommand, ClearOperation, Outcome, Access,
        Slot, NoModule, Families, Speeds, Replies,
        vars, target, host, ports, transport, context, transfer, progress
<1>1. TypeOK'
  <2>1. TargetType'  BY DEF TypeOK, TargetType
  <2>2. PortsType'  BY DEF TypeOK, TargetType, PortsType, TransferType
  <2>3. TransferType'  BY DEF TypeOK, PortsType, TransferType
  <2>4. CommandType' BY DEF TypeOK, CommandType
  <2> QED BY <2>1, <2>2, <2>3, <2>4 DEF TypeOK
<1>2. LineFitsModule'  BY SessionAssumption DEF AllModules, TypeOK, TargetType, PortsType, CommandType, LineFitsModule, WhileConnecting
<1>3. PhaseNeedsSession'  BY DEF TypeOK, PortsType, TransferType, CommandType, LineFitsModule, PhaseNeedsSession, WhileConnecting
<1>4. StatusFollowsResume'  BY DEF TypeOK, CommandType, StatusFollowsResume, WhileConnecting
<1>5. WhileConnecting'  BY DEF TypeOK, PortsType, CommandType, WhileConnecting
<1> QED BY <1>1, <1>2, <1>3, <1>4, <1>5

\* FinishLoader keeps the invariant.
LEMMA FinishLoaderInv ==
  ASSUME Inv, NEW whole \in BOOLEAN, NEW ok \in BOOLEAN, FinishLoader(whole, ok)
  PROVE Inv'
<1> USE DEF Inv, FinishLoader, Begins, TransferCommand, ClearOperation, Outcome, Access,
        Slot, NoModule, Families, Speeds, Replies,
        vars, target, host, ports, transport, context, transfer, progress
<1>1. TypeOK'
  <2>1. TargetType'  BY DEF TypeOK, TargetType
  <2>2. PortsType'  BY DEF TypeOK, TargetType, PortsType, TransferType
  <2>3. TransferType'  BY DEF TypeOK, PortsType, TransferType
  <2>4. CommandType' BY DEF TypeOK, CommandType
  <2> QED BY <2>1, <2>2, <2>3, <2>4 DEF TypeOK
<1>2. LineFitsModule'  BY SessionAssumption DEF AllModules, TypeOK, TargetType, PortsType, CommandType, LineFitsModule, WhileConnecting
<1>3. PhaseNeedsSession'  BY DEF TypeOK, PortsType, TransferType, CommandType, LineFitsModule, PhaseNeedsSession, WhileConnecting
<1>4. StatusFollowsResume'  BY DEF TypeOK, CommandType, StatusFollowsResume, WhileConnecting
<1>5. WhileConnecting'  BY DEF TypeOK, PortsType, CommandType, WhileConnecting
<1> QED BY <1>1, <1>2, <1>3, <1>4, <1>5

\* StartFlash keeps the invariant.
LEMMA StartFlashInv ==
  ASSUME Inv, StartFlash
  PROVE Inv'
<1> USE DEF Inv, StartFlash, Begins, TransferCommand, ClearOperation, Outcome, Access,
        Slot, NoModule, Families, Speeds, Replies,
        vars, target, host, ports, transport, context, transfer, progress
<1>1. TypeOK'
  <2>1. TargetType'  BY DEF TypeOK, TargetType
  <2>2. PortsType'  BY DEF TypeOK, TargetType, PortsType, TransferType
  <2>3. TransferType'  BY DEF TypeOK, PortsType, TransferType
  <2>4. CommandType' BY DEF TypeOK, CommandType
  <2> QED BY <2>1, <2>2, <2>3, <2>4 DEF TypeOK
<1>2. LineFitsModule'  BY SessionAssumption DEF AllModules, TypeOK, TargetType, PortsType, CommandType, LineFitsModule, WhileConnecting
<1>3. PhaseNeedsSession'  BY DEF TypeOK, PortsType, TransferType, CommandType, LineFitsModule, PhaseNeedsSession, WhileConnecting
<1>4. StatusFollowsResume'  BY DEF TypeOK, CommandType, StatusFollowsResume, WhileConnecting
<1>5. WhileConnecting'  BY DEF TypeOK, PortsType, CommandType, WhileConnecting
<1> QED BY <1>1, <1>2, <1>3, <1>4, <1>5

\* ProgramEnd keeps the invariant.
LEMMA ProgramEndInv ==
  ASSUME Inv, ProgramEnd
  PROVE Inv'
<1> USE DEF Inv, ProgramEnd, Begins, TransferCommand, ClearOperation, Outcome, Access,
        Slot, NoModule, Families, Speeds, Replies,
        vars, target, host, ports, transport, context, transfer, progress
<1>1. TypeOK'
  <2>1. TargetType'  BY DEF TypeOK, TargetType
  <2>2. PortsType'  BY DEF TypeOK, TargetType, PortsType, TransferType
  <2>3. TransferType'  BY DEF TypeOK, PortsType, TransferType
  <2>4. CommandType' BY DEF TypeOK, CommandType
  <2> QED BY <2>1, <2>2, <2>3, <2>4 DEF TypeOK
<1>2. LineFitsModule'  BY SessionAssumption DEF AllModules, TypeOK, TargetType, PortsType, CommandType, LineFitsModule, WhileConnecting
<1>3. PhaseNeedsSession'  BY DEF TypeOK, PortsType, TransferType, CommandType, LineFitsModule, PhaseNeedsSession, WhileConnecting
<1>4. StatusFollowsResume'  BY DEF TypeOK, CommandType, StatusFollowsResume, WhileConnecting
<1>5. WhileConnecting'  BY DEF TypeOK, PortsType, CommandType, WhileConnecting
<1> QED BY <1>1, <1>2, <1>3, <1>4, <1>5

\* DataOut keeps the invariant.
LEMMA DataOutInv ==
  ASSUME Inv, DataOut
  PROVE Inv'
<1> USE DEF Inv, DataOut,
        Slot, NoModule, Families, Speeds, Replies,
        vars, target, host, ports, transport, context, transfer, progress
<1>1. TypeOK'
  <2>1. TargetType'  BY DEF TypeOK, TargetType
  <2>2. PortsType'  BY DEF TypeOK, TargetType, PortsType, TransferType
  <2>3. TransferType'  BY DEF TypeOK, PortsType, TransferType
  <2>4. CommandType' BY DEF TypeOK, CommandType
  <2> QED BY <2>1, <2>2, <2>3, <2>4 DEF TypeOK
<1>2. LineFitsModule'  BY SessionAssumption DEF AllModules, TypeOK, TargetType, PortsType, CommandType, LineFitsModule, WhileConnecting
<1>3. PhaseNeedsSession'  BY DEF TypeOK, PortsType, TransferType, CommandType, LineFitsModule, PhaseNeedsSession, WhileConnecting
<1>4. StatusFollowsResume'  BY DEF TypeOK, CommandType, StatusFollowsResume, WhileConnecting
<1>5. WhileConnecting'  BY DEF TypeOK, PortsType, CommandType, WhileConnecting
<1> QED BY <1>1, <1>2, <1>3, <1>4, <1>5

\* DataIn keeps the invariant.
LEMMA DataInInv ==
  ASSUME Inv, DataIn
  PROVE Inv'
<1> USE DEF Inv, DataIn,
        Slot, NoModule, Families, Speeds, Replies,
        vars, target, host, ports, transport, context, transfer, progress
<1>1. TypeOK'
  <2>1. TargetType'  BY DEF TypeOK, TargetType
  <2>2. PortsType'  BY DEF TypeOK, TargetType, PortsType, TransferType
  <2>3. TransferType'  BY DEF TypeOK, PortsType, TransferType
  <2>4. CommandType' BY DEF TypeOK, CommandType
  <2> QED BY <2>1, <2>2, <2>3, <2>4 DEF TypeOK
<1>2. LineFitsModule'  BY SessionAssumption DEF AllModules, TypeOK, TargetType, PortsType, CommandType, LineFitsModule, WhileConnecting
<1>3. PhaseNeedsSession'  BY DEF TypeOK, PortsType, TransferType, CommandType, LineFitsModule, PhaseNeedsSession, WhileConnecting
<1>4. StatusFollowsResume'  BY DEF TypeOK, CommandType, StatusFollowsResume, WhileConnecting
<1>5. WhileConnecting'  BY DEF TypeOK, PortsType, CommandType, WhileConnecting
<1> QED BY <1>1, <1>2, <1>3, <1>4, <1>5

\* AbandonData keeps the invariant.
LEMMA AbandonDataInv ==
  ASSUME Inv, AbandonData
  PROVE Inv'
<1> USE DEF Inv, AbandonData, ClearOperation,
        Slot, NoModule, Families, Speeds, Replies,
        vars, target, host, ports, transport, context, transfer, progress
<1>1. TypeOK'
  <2>1. TargetType'  BY DEF TypeOK, TargetType
  <2>2. PortsType'  BY DEF TypeOK, TargetType, PortsType, TransferType
  <2>3. TransferType'  BY DEF TypeOK, PortsType, TransferType
  <2>4. CommandType' BY DEF TypeOK, CommandType
  <2> QED BY <2>1, <2>2, <2>3, <2>4 DEF TypeOK
<1>2. LineFitsModule'  BY SessionAssumption DEF AllModules, TypeOK, TargetType, PortsType, CommandType, LineFitsModule, WhileConnecting
<1>3. PhaseNeedsSession'  BY DEF TypeOK, PortsType, TransferType, CommandType, LineFitsModule, PhaseNeedsSession, WhileConnecting
<1>4. StatusFollowsResume'  BY DEF TypeOK, CommandType, StatusFollowsResume, WhileConnecting
<1>5. WhileConnecting'  BY DEF TypeOK, PortsType, CommandType, WhileConnecting
<1> QED BY <1>1, <1>2, <1>3, <1>4, <1>5

\* TargetCommand keeps the invariant.
LEMMA TargetCommandInv ==
  ASSUME Inv, NEW reaches \in BOOLEAN, NEW answer \in {"done", "failed"}, TargetCommand(reaches, answer)
  PROVE Inv'
<1> USE DEF Inv, TargetCommand, Begins, Access, Outcome,
        Slot, NoModule, Families, Speeds, Replies,
        vars, target, host, ports, transport, context, transfer, progress
<1>1. TypeOK'
  <2>1. TargetType'  BY DEF TypeOK, TargetType
  <2>2. PortsType'  BY DEF TypeOK, TargetType, PortsType, TransferType
  <2>3. TransferType'  BY DEF TypeOK, PortsType, TransferType
  <2>4. CommandType' BY DEF TypeOK, CommandType
  <2> QED BY <2>1, <2>2, <2>3, <2>4 DEF TypeOK
<1>2. LineFitsModule'  BY SessionAssumption DEF AllModules, TypeOK, TargetType, PortsType, CommandType, LineFitsModule, WhileConnecting
<1>3. PhaseNeedsSession'  BY DEF TypeOK, PortsType, TransferType, CommandType, LineFitsModule, PhaseNeedsSession, WhileConnecting
<1>4. StatusFollowsResume'  BY DEF TypeOK, CommandType, StatusFollowsResume, WhileConnecting
<1>5. WhileConnecting'  BY DEF TypeOK, PortsType, CommandType, WhileConnecting
<1> QED BY <1>1, <1>2, <1>3, <1>4, <1>5

\* TargetChanges keeps the invariant.
LEMMA TargetChangesInv ==
  ASSUME Inv, TargetChanges
  PROVE Inv'
<1> USE DEF Inv, TargetChanges,
        Slot, NoModule, Families, Speeds, Replies,
        vars, target, host, ports, transport, context, transfer, progress
<1>1. TypeOK'
  <2>1. TargetType'  BY DEF TypeOK, TargetType
  <2>2. PortsType'  BY DEF TypeOK, TargetType, PortsType, TransferType
  <2>3. TransferType'  BY DEF TypeOK, PortsType, TransferType
  <2>4. CommandType' BY DEF TypeOK, CommandType
  <2> QED BY <2>1, <2>2, <2>3, <2>4 DEF TypeOK
<1>2. LineFitsModule'  BY SessionAssumption DEF AllModules, TypeOK, TargetType, PortsType, CommandType, LineFitsModule, WhileConnecting
<1>3. PhaseNeedsSession'  BY DEF TypeOK, PortsType, TransferType, CommandType, LineFitsModule, PhaseNeedsSession, WhileConnecting
<1>4. StatusFollowsResume'  BY DEF TypeOK, CommandType, StatusFollowsResume, WhileConnecting
<1>5. WhileConnecting'  BY DEF TypeOK, PortsType, CommandType, WhileConnecting
<1> QED BY <1>1, <1>2, <1>3, <1>4, <1>5

\* Each step of a connection keeps the invariant.
LEMMA ConnectingInv ==
  ASSUME Inv, Connecting
  PROVE Inv'
BY LongProbeInv, ShortAttemptInv, ShortAttemptFailsInv, KnownAttemptInv,
   KnownAttemptFailsInv, EraseAllInv
   DEF Connecting

\* A command that reaches the target through its module keeps the invariant.
LEMMA TargetCommandsInv ==
  ASSUME Inv, Config \/ MemoryType \/ Reset \/ Plain
  PROVE Inv'
<1>1. connected \in BOOLEAN  BY DEF Inv, TypeOK, PortsType
<1>2. (module # NoModule) \in BOOLEAN  OBVIOUS
<1>3. CASE Config  BY <1>1, <1>3, TargetCommandInv DEF Config
<1>4. CASE MemoryType  BY <1>2, <1>4, TargetCommandInv DEF MemoryType
<1>5. CASE Reset  BY <1>1, <1>5, TargetCommandInv DEF Reset
<1>6. CASE Plain  BY <1>6, TargetCommandInv DEF Plain
<1> QED BY <1>3, <1>4, <1>5, <1>6

\* A step that leaves every variable keeps the invariant.
LEMMA StutterInv ==
  ASSUME Inv, UNCHANGED vars
  PROVE Inv'
BY DEF Inv, TypeOK, TargetType, PortsType, TransferType, CommandType,
       LineFitsModule, PhaseNeedsSession, StatusFollowsResume,
       WhileConnecting, vars, target, host, ports, transport, context,
       transfer, progress

\* The initial states satisfy the invariant.
LEMMA InitInv == Init => Inv
<1> SUFFICES ASSUME Init PROVE Inv  OBVIOUS
<1> USE DEF Init
<1>1. TargetType /\ PortsType
  BY DEF TargetType, PortsType, Slot, Families, Speeds
<1>2. TransferType /\ CommandType
  BY DEF TransferType, CommandType, Slot, Replies
<1>3. LineFitsModule /\ PhaseNeedsSession /\ StatusFollowsResume /\ WhileConnecting
  BY DEF LineFitsModule, PhaseNeedsSession, StatusFollowsResume, WhileConnecting
<1> QED BY <1>1, <1>2, <1>3 DEF Inv, TypeOK

\* Every step keeps the invariant.
LEMMA NextInv ==
  ASSUME Inv, [Next]_vars
  PROVE Inv'
<1>1. CASE UNCHANGED vars  BY <1>1, StutterInv
<1>2. CASE Next
  <2>1. CASE TargetChanges \/ Connecting  BY <2>1, TargetChangesInv, ConnectingInv
  <2>2. CASE EndSession \/ Stop  BY <2>2, EndSessionInv, StopInv
  <2>3. CASE \/ Connect \/ SetChipType \/ EraseFlash
             \/ \E family \in Families : ClearCodeFlash(family)
    BY <2>3, ConnectInv, SetChipTypeInv, EraseFlashInv, ClearCodeFlashInv
  <2>4. CASE \E family \in Families, speed \in Speeds : SetSpeed(family, speed)
    BY <2>4, SetSpeedInv
  <2>5. CASE Config \/ MemoryType \/ Reset \/ Plain  BY <2>5, TargetCommandsInv
  <2>6. CASE \/ DmiReadStored
             \/ \E ok \in BOOLEAN : Info(ok) \/ DmiReadStatus(ok) \/ DmiAccess(ok) \/ DmiResume(ok)
    BY <2>6, DmiReadStoredInv, InfoInv, DmiReadStatusInv, DmiAccessInv, DmiResumeInv
  <2>7. CASE PrepareWrite \/ PrepareRead \/ BeginRead \/ PartialWrite \/ StartLoader
    BY <2>7, PrepareWriteInv, PrepareReadInv, BeginReadInv, PartialWriteInv, StartLoaderInv
  <2>8. CASE \/ \E whole, ok \in BOOLEAN : FinishLoader(whole, ok)
             \/ StartFlash \/ ProgramEnd
    BY <2>8, FinishLoaderInv, StartFlashInv, ProgramEndInv
  <2>9. CASE DataOut \/ DataIn \/ AbandonData
    BY <2>9, DataOutInv, DataInInv, AbandonDataInv
  <2> QED BY <1>2, <2>1, <2>2, <2>3, <2>4, <2>5, <2>6, <2>7, <2>8, <2>9 DEF Next
<1> QED BY <1>1, <1>2

-----------------------------------------------------------------------------
(* Theorems *)

\* The invariant holds in every state of the session.
THEOREM SessionInvariant == Spec => []Inv
<1>1. Init => Inv  BY InitInv
<1>2. Inv /\ [Next]_vars => Inv'  BY NextInv
<1> QED BY <1>1, <1>2, PTL DEF Spec

\* Every variable stays in its range.
THEOREM SessionTypes == Spec => []TypeOK
<1>1. Inv => TypeOK  BY DEF Inv
<1> QED BY <1>1, SessionInvariant, PTL

\* A connected target is talked to in its module's frame format, at the speed
\* requested, whatever was tried and asked for on the way.
THEOREM LineAlwaysFits == Spec => []LineFitsModule
<1>1. Inv => LineFitsModule  BY DEF Inv
<1> QED BY <1>1, SessionInvariant, PTL

\* No phase of a transfer outlives its session, and a loader is the connected
\* module's.
THEOREM PhasesEndWithSession == Spec => []PhaseNeedsSession
<1>1. Inv => PhaseNeedsSession  BY DEF Inv
<1> QED BY <1>1, SessionInvariant, PTL

\* The status of a resume waits for the next command alone.
THEOREM StatusIsNext == Spec => []StatusFollowsResume
<1>1. Inv => StatusFollowsResume  BY DEF Inv
<1> QED BY <1>1, SessionInvariant, PTL

\* An attempt that connects takes a module for a reason.
LEMMA FoundForReason ==
  ASSUME UNCHANGED chip, UNCHANGED locked, NEW found \in Identified, Connected(found)
  PROVE TakesModule
BY DEF Identified, Named, Connected, TakesModule

\* A step of a connection takes a module for a reason.
LEMMA ConnectingTakes ==
  ASSUME Connecting
  PROVE TakesModule
<1>1. CASE ShortAttempt
  BY <1>1, FoundForReason DEF ShortAttempt, ConnectStep, target
<1>2. CASE KnownAttempt
  BY <1>2, FoundForReason DEF KnownAttempt, ConnectStep, target
<1>3. CASE LongProbe  BY <1>3 DEF LongProbe, ports, TakesModule
<1>4. CASE ShortAttemptFails  BY <1>4 DEF ShortAttemptFails, ports, TakesModule
<1>5. CASE KnownAttemptFails  BY <1>5 DEF KnownAttemptFails, TakesModule
<1>6. CASE \E ok \in BOOLEAN : EraseAll(ok)
  BY <1>6 DEF EraseAll, ports, TakesModule
<1> QED BY <1>1, <1>2, <1>3, <1>4, <1>5, <1>6 DEF Connecting

\* A command never connects by itself.
LEMMA CommandTakes ==
  ASSUME Next, ~Connecting
  PROVE TakesModule
<1> USE DEF TakesModule, ports
<1>1. CASE TargetChanges  BY <1>1 DEF TargetChanges
<1>2. CASE EndSession \/ Stop
  BY <1>2 DEF EndSession, Stop, CommandReset, Disconnect
<1>3. CASE \/ Connect \/ SetChipType \/ EraseFlash
           \/ \E family \in Families : ClearCodeFlash(family)
  BY <1>3 DEF Connect, SetChipType, EraseFlash, ClearCodeFlash, TargetInit
<1>4. CASE \E family \in Families, speed \in Speeds : SetSpeed(family, speed)
  BY <1>4 DEF SetSpeed
<1>5. CASE Config \/ MemoryType \/ Reset \/ Plain
  BY <1>5 DEF Config, MemoryType, Reset, Plain, TargetCommand
<1>6. CASE \/ DmiReadStored
           \/ \E ok \in BOOLEAN : Info(ok) \/ DmiReadStatus(ok) \/ DmiAccess(ok) \/ DmiResume(ok)
  BY <1>6 DEF DmiReadStored, Info, DmiReadStatus, DmiAccess, DmiResume, DmiUnchanged
<1>7. CASE PrepareWrite \/ PrepareRead \/ BeginRead \/ PartialWrite \/ StartLoader
  BY <1>7 DEF PrepareWrite, PrepareRead, BeginRead, PartialWrite, StartLoader,
              TransferCommand
<1>8. CASE \/ \E whole, ok \in BOOLEAN : FinishLoader(whole, ok)
           \/ StartFlash \/ ProgramEnd
  BY <1>8 DEF FinishLoader, StartFlash, ProgramEnd, TransferCommand
<1>9. CASE DataOut \/ DataIn \/ AbandonData
  BY <1>9 DEF DataOut, DataIn, AbandonData
<1> QED BY <1>1, <1>2, <1>3, <1>4, <1>5, <1>6, <1>7, <1>8, <1>9 DEF Next

\* A module is locked in only when it has read its own id from the target, or
\* when it is the host's and the target hides its id.
THEOREM ModuleTakenForReason == Spec => IdentityProved
<1>1. [Next]_vars => [TakesModule]_vars
  <2>1. Next => TakesModule  BY ConnectingTakes, CommandTakes
  <2> QED BY <2>1
<1> QED BY <1>1, PTL DEF Spec, IdentityProved

===============================================================================
