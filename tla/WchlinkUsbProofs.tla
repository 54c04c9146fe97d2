--------------------------- MODULE WchlinkUsbProofs ---------------------------
(***************************************************************************)
(* Proofs about WchlinkUsb: the inductive invariant Inv, the safety        *)
(* properties that follow from it, and the refinement of UsbMailbox, for   *)
(* every number of commands, packets, bus resets and cleared halts, and    *)
(* for every host.                                                         *)
(***************************************************************************)
EXTENDS WchlinkUsb, TLAPS

-----------------------------------------------------------------------------
(* Lemmas about the values and the endpoints *)

\* The literals that the actions assign belong to their types.
LEMMA Literals ==
  /\ NoOperation \in Operation
  /\ 0 \in CommandId /\ 0 \in 0 .. MaxReset /\ 0 \in 0 .. MaxHalt
  /\ 0 \in 0 .. MaxPacket /\ MaxPacket \in 0 .. MaxPacket /\ MaxPacket > 0
  BY UsbAssumption DEF Operation, NoOperation, CommandId, PhaseKind

\* The four endpoints are endpoints.
LEMMA Endpoints ==
  /\ "cmd_out" \in Endpoint /\ "cmd_in" \in Endpoint
  /\ "data_out" \in Endpoint /\ "data_in" \in Endpoint
  BY DEF Endpoint

\* Starting or stopping a transfer changes its own endpoint and no other.
LEMMA StartStop ==
  ASSUME active \in [Endpoint -> BOOLEAN], NEW e \in Endpoint
  PROVE  /\ Start(e) => /\ active' \in [Endpoint -> BOOLEAN] /\ active'[e]
                        /\ \A d \in Endpoint \ {e} : active'[d] = active[d]
         /\ Stop(e) => /\ active' \in [Endpoint -> BOOLEAN] /\ ~active'[e]
                       /\ \A d \in Endpoint \ {e} : active'[d] = active[d]
  BY DEF Start, Stop

\* The fields of an operation.
LEMMA OperationFields ==
  ASSUME op \in Operation
  PROVE  /\ op.id \in CommandId /\ op.kind \in PhaseKind
         /\ op.left \in 0 .. MaxPacket /\ op.reply \in BOOLEAN
         /\ op = [id |-> op.id, kind |-> op.kind, left |-> op.left,
                  reply |-> op.reply]
  BY DEF Operation

\* A submitted packet leaves an operation whose open phase has packets left.
LEMMA SubmitOperation ==
  TypeOK /\ PhaseInv /\ SubmitDataOut
    => op' \in Operation /\ (op'.kind # "none" => op'.left > 0)
<1> SUFFICES ASSUME TypeOK, PhaseInv, SubmitDataOut
             PROVE  op' \in Operation /\ (op'.kind # "none" => op'.left > 0)
  OBVIOUS
<1>1. /\ op.id \in CommandId /\ op.kind \in PhaseKind
      /\ op.left \in 0 .. MaxPacket /\ op.reply \in BOOLEAN
      /\ op = [id |-> op.id, kind |-> op.kind, left |-> op.left,
               reply |-> op.reply]
  BY OperationFields DEF TypeOK
<1>2. 0 \in 0 .. MaxPacket /\ "none" \in PhaseKind
  BY Literals DEF PhaseKind
<1>3. CASE op' = op
  BY <1>3 DEF TypeOK, PhaseInv
<1>4. ASSUME NEW b \in BOOLEAN, op.left > 1,
             op' = [op EXCEPT !.left = @ - 1, !.reply = b]
      PROVE  op' \in Operation /\ (op'.kind # "none" => op'.left > 0)
  <2>1. op.left - 1 \in 0 .. MaxPacket /\ op.left - 1 > 0
    BY <1>1, <1>4, UsbAssumption
  <2> QED
    BY <1>1, <1>4, <2>1 DEF Operation
<1>5. ASSUME NEW b \in BOOLEAN,
             op' = [op EXCEPT !.kind = "none", !.left = 0, !.reply = b]
      PROVE  op' \in Operation /\ (op'.kind # "none" => op'.left > 0)
  BY <1>1, <1>2, <1>5 DEF Operation
<1>6. (op.reply \/ op.kind = "flash") \in BOOLEAN
  BY <1>1
<1> QED
  BY <1>3, <1>4, <1>5, <1>6 DEF SubmitDataOut

\* So does a packet produced for the host.
LEMMA PollOperation ==
  TypeOK /\ PhaseInv /\ PollDataIn
    => /\ op' \in Operation /\ (op'.kind # "none" => op'.left > 0)
       /\ in_packet' \in [id : CommandId, last : BOOLEAN]
<1> SUFFICES ASSUME TypeOK, PhaseInv, PollDataIn
             PROVE  /\ op' \in Operation /\ (op'.kind # "none" => op'.left > 0)
                    /\ in_packet' \in [id : CommandId, last : BOOLEAN]
  OBVIOUS
<1>1. /\ op.id \in CommandId /\ op.kind \in PhaseKind
      /\ op.left \in 0 .. MaxPacket /\ op.reply \in BOOLEAN
      /\ op = [id |-> op.id, kind |-> op.kind, left |-> op.left,
               reply |-> op.reply]
  BY OperationFields DEF TypeOK
<1>2. 0 \in 0 .. MaxPacket /\ "none" \in PhaseKind
  BY Literals DEF PhaseKind
<1>3. op.kind # "none" => op.left > 0
  BY DEF PhaseInv
<1>4. CASE /\ op' = [op EXCEPT !.reply = FALSE]
           /\ in_packet' = [id |-> op.id, last |-> op.kind = "none"]
  BY <1>1, <1>3, <1>4 DEF Operation
<1>5. CASE /\ ~op.reply
           /\ op' = [op EXCEPT !.left = @ - 1,
                               !.kind = IF op.left = 1 THEN "none" ELSE @]
           /\ in_packet' = [id |-> op.id, last |-> op.left = 1]
  <2>1. op.left > 0
    BY <1>5, <1>3 DEF PollDataIn, PhaseInv, WantsIn
  <2>2. op.left - 1 \in 0 .. MaxPacket
    BY <2>1, <1>1, UsbAssumption
  <2>3. op.left # 1 => op.left - 1 > 0
    BY <2>1, <1>1, UsbAssumption
  <2> QED
    BY <2>2, <2>3, <1>1, <1>2, <1>5 DEF Operation
<1>6. CASE op' = [op EXCEPT !.left = 0, !.kind = "none"] /\ UNCHANGED in_packet
  BY <1>1, <1>2, <1>6 DEF Operation, TypeOK
<1> QED
  BY <1>4, <1>5, <1>6 DEF PollDataIn

-----------------------------------------------------------------------------
(* Type correctness: per action, the variables it changes and the rest.    *)

\* Every step keeps the types.
LEMMA TypeNext == TypeOK /\ PhaseInv /\ [Next]_vars => TypeOK'
<1> SUFFICES ASSUME TypeOK, PhaseInv, [Next]_vars PROVE TypeOK'
  OBVIOUS
<1>1. CASE Top
  <2>1. /\ session_reset_pending' \in BOOLEAN
        /\ tail' \in BOOLEAN
    BY <1>1 DEF Top, TypeOK
  <2>2. pc' \in MainStep
    BY <1>1 DEF Top, TypeOK, MainStep
  <2>3. ret' \in {"timeout", "abandon", "process", "data_in"}
    BY <1>1 DEF Top, TypeOK
  <2>4. op' \in Operation
    BY <1>1, Literals DEF Top, TypeOK
  <2>5. UNCHANGED <<configured, request_pending, request_armed,
     response_pending, response_recovery_pending, response_expiring,
     data_in_pending, data_out_active, data_out_pending, active, request,
     response, in_packet, out_packet, command, taken, sent, phase, left,
     replied, mark, resets, halts>>
    BY <1>1 DEF Top, requestFlags, responseFlags, dataOutFlags, buffers, task,
       host, events
  <2> QED
    BY <2>1, <2>2, <2>3, <2>4, <2>5 DEF TypeOK
<1>2. CASE ArmRequest
  <2>1. active' \in [Endpoint -> BOOLEAN]
    BY <1>2, StartStop, Endpoints DEF ArmRequest, TypeOK
  <2>2. pc' \in MainStep
    BY <1>2 DEF ArmRequest, TypeOK, MainStep
  <2>3. UNCHANGED <<configured, session_reset_pending, request_pending,
     request_armed, response_pending, response_recovery_pending,
     response_expiring, data_in_pending, data_out_active, data_out_pending,
     request, response, in_packet, out_packet, ret, tail, command, taken, op,
     sent, phase, left, replied, mark, resets, halts>>
    BY <1>2 DEF ArmRequest, bus, requestFlags, responseFlags, dataOutFlags,
       buffers, task, host, events
  <2> QED
    BY <2>1, <2>2, <2>3 DEF TypeOK
<1>3. CASE ArmRequestDone
  <2>1. request_armed' \in BOOLEAN
    BY <1>3 DEF ArmRequestDone, TypeOK
  <2>2. pc' \in MainStep
    BY <1>3 DEF ArmRequestDone, TypeOK, MainStep
  <2>3. UNCHANGED <<configured, session_reset_pending, request_pending,
     response_pending, response_recovery_pending, response_expiring,
     data_in_pending, data_out_active, data_out_pending, active, request,
     response, in_packet, out_packet, ret, tail, command, taken, op, sent,
     phase, left, replied, mark, resets, halts>>
    BY <1>3 DEF ArmRequestDone, bus, responseFlags, dataOutFlags, buffers,
       task, host, events
  <2> QED
    BY <2>1, <2>2, <2>3 DEF TypeOK
<1>4. CASE ExpireResponse
  <2>1. /\ response_pending' \in BOOLEAN
        /\ response_expiring' \in BOOLEAN
    BY <1>4 DEF ExpireResponse, TypeOK
  <2>2. pc' \in MainStep
    BY <1>4 DEF ExpireResponse, TypeOK, MainStep
  <2>3. UNCHANGED <<configured, session_reset_pending, request_pending,
     request_armed, response_recovery_pending, data_in_pending,
     data_out_active, data_out_pending, active, request, response, in_packet,
     out_packet, ret, tail, command, taken, op, sent, phase, left, replied,
     mark, resets, halts>>
    BY <1>4 DEF ExpireResponse, bus, requestFlags, dataOutFlags, buffers, task,
       host, events
  <2> QED
    BY <2>1, <2>2, <2>3 DEF TypeOK
<1>5. CASE KeepResponse
  <2>1. pc' \in MainStep
    BY <1>5 DEF KeepResponse, TypeOK, MainStep
  <2>2. UNCHANGED <<configured, session_reset_pending, request_pending,
     request_armed, response_pending, response_recovery_pending,
     response_expiring, data_in_pending, data_out_active, data_out_pending,
     active, request, response, in_packet, out_packet, ret, tail, command,
     taken, op, sent, phase, left, replied, mark, resets, halts>>
    BY <1>5 DEF KeepResponse, bus, requestFlags, responseFlags, dataOutFlags,
       buffers, task, host, events
  <2> QED
    BY <2>1, <2>2 DEF TypeOK
<1>6. CASE AbortExpiredResponse
  <2>1. active' \in [Endpoint -> BOOLEAN]
    BY <1>6, StartStop, Endpoints DEF AbortExpiredResponse, TypeOK
  <2>2. pc' \in MainStep
    BY <1>6 DEF AbortExpiredResponse, TypeOK, MainStep
  <2>3. ret' \in {"timeout", "abandon", "process", "data_in"}
    BY <1>6 DEF AbortExpiredResponse, TypeOK
  <2>4. UNCHANGED <<configured, session_reset_pending, request_pending,
     request_armed, response_pending, response_recovery_pending,
     response_expiring, data_in_pending, data_out_active, data_out_pending,
     request, response, in_packet, out_packet, tail, command, taken, op, sent,
     phase, left, replied, mark, resets, halts>>
    BY <1>6 DEF AbortExpiredResponse, bus, requestFlags, responseFlags,
       dataOutFlags, buffers, task, host, events
  <2> QED
    BY <2>1, <2>2, <2>3, <2>4 DEF TypeOK
<1>7. CASE ServiceAbandonedDataIn
  <2>1. pc' \in MainStep
    BY <1>7 DEF ServiceAbandonedDataIn, TypeOK, MainStep
  <2>2. op' \in Operation
    BY <1>7, Literals DEF ServiceAbandonedDataIn, TypeOK
  <2>3. UNCHANGED <<configured, session_reset_pending, request_pending,
     request_armed, response_pending, response_recovery_pending,
     response_expiring, data_in_pending, data_out_active, data_out_pending,
     active, request, response, in_packet, out_packet, ret, tail, command,
     taken, sent, phase, left, replied, mark, resets, halts>>
    BY <1>7 DEF ServiceAbandonedDataIn, bus, requestFlags, responseFlags,
       dataOutFlags, buffers, task, host, events
  <2> QED
    BY <2>1, <2>2, <2>3 DEF TypeOK
<1>8. CASE RetireDataIn
  <2>1. data_in_pending' \in BOOLEAN
    BY <1>8 DEF RetireDataIn, TypeOK
  <2>2. pc' \in MainStep
    BY <1>8 DEF RetireDataIn, TypeOK, MainStep
  <2>3. UNCHANGED <<configured, session_reset_pending, request_pending,
     request_armed, response_pending, response_recovery_pending,
     response_expiring, data_out_active, data_out_pending, active, request,
     response, in_packet, out_packet, ret, tail, command, taken, op, sent,
     phase, left, replied, mark, resets, halts>>
    BY <1>8 DEF RetireDataIn, bus, requestFlags, responseFlags, dataOutFlags,
       buffers, task, host, events
  <2> QED
    BY <2>1, <2>2, <2>3 DEF TypeOK
<1>9. CASE AbortDataIn
  <2>1. active' \in [Endpoint -> BOOLEAN]
    BY <1>9, StartStop, Endpoints DEF AbortDataIn, TypeOK
  <2>2. pc' \in MainStep
    BY <1>9 DEF AbortDataIn, TypeOK, MainStep
  <2>3. UNCHANGED <<configured, session_reset_pending, request_pending,
     request_armed, response_pending, response_recovery_pending,
     response_expiring, data_in_pending, data_out_active, data_out_pending,
     request, response, in_packet, out_packet, ret, tail, command, taken, op,
     sent, phase, left, replied, mark, resets, halts>>
    BY <1>9 DEF AbortDataIn, bus, requestFlags, responseFlags, dataOutFlags,
       buffers, task, host, events
  <2> QED
    BY <2>1, <2>2, <2>3 DEF TypeOK
<1>10. CASE RecoverResponse
  <2>1. /\ response_pending' \in BOOLEAN
        /\ response_recovery_pending' \in BOOLEAN
    BY <1>10 DEF RecoverResponse, TypeOK
  <2>2. pc' \in MainStep
    BY <1>10 DEF RecoverResponse, TypeOK, MainStep, AfterDataOut
  <2>3. UNCHANGED <<configured, session_reset_pending, request_pending,
     request_armed, response_expiring, data_in_pending, data_out_active,
     data_out_pending, active, request, response, in_packet, out_packet, ret,
     tail, command, taken, op, sent, phase, left, replied, mark, resets,
     halts>>
    BY <1>10 DEF RecoverResponse, bus, requestFlags, dataOutFlags, buffers,
       task, host, events
  <2> QED
    BY <2>1, <2>2, <2>3 DEF TypeOK
<1>11. CASE AbortAbandonedResponse
  <2>1. active' \in [Endpoint -> BOOLEAN]
    BY <1>11, StartStop, Endpoints DEF AbortAbandonedResponse, TypeOK
  <2>2. pc' \in MainStep
    BY <1>11 DEF AbortAbandonedResponse, TypeOK, MainStep
  <2>3. UNCHANGED <<configured, session_reset_pending, request_pending,
     request_armed, response_pending, response_recovery_pending,
     response_expiring, data_in_pending, data_out_active, data_out_pending,
     request, response, in_packet, out_packet, ret, tail, command, taken, op,
     sent, phase, left, replied, mark, resets, halts>>
    BY <1>11 DEF AbortAbandonedResponse, bus, requestFlags, responseFlags,
       dataOutFlags, buffers, task, host, events
  <2> QED
    BY <2>1, <2>2, <2>3 DEF TypeOK
<1>12. CASE TakeDataOut
  <2>1. data_out_pending' \in BOOLEAN
    BY <1>12 DEF TakeDataOut, TypeOK
  <2>2. pc' \in MainStep
    BY <1>12 DEF TakeDataOut, TypeOK, MainStep
  <2>3. UNCHANGED <<configured, session_reset_pending, request_pending,
     request_armed, response_pending, response_recovery_pending,
     response_expiring, data_in_pending, data_out_active, active, request,
     response, in_packet, out_packet, ret, tail, command, taken, op, sent,
     phase, left, replied, mark, resets, halts>>
    BY <1>12 DEF TakeDataOut, bus, requestFlags, responseFlags, buffers, task,
       host, events
  <2> QED
    BY <2>1, <2>2, <2>3 DEF TypeOK
<1>13. CASE SubmitDataOut
  <2>1. pc' \in MainStep
    BY <1>13 DEF SubmitDataOut, TypeOK, MainStep
  <2>2. op' \in Operation
    BY <1>13, SubmitOperation
  <2>3. UNCHANGED <<configured, session_reset_pending, request_pending,
     request_armed, response_pending, response_recovery_pending,
     response_expiring, data_in_pending, data_out_active, data_out_pending,
     active, request, response, in_packet, out_packet, ret, tail, command,
     taken, sent, phase, left, replied, mark, resets, halts>>
    BY <1>13 DEF SubmitDataOut, bus, requestFlags, responseFlags, dataOutFlags,
       buffers, task, host, events
  <2> QED
    BY <2>1, <2>2, <2>3 DEF TypeOK
<1>14. CASE RearmDataOut
  <2>1. data_out_active' \in BOOLEAN
    BY <1>14 DEF RearmDataOut, TypeOK
  <2>2. pc' \in MainStep
    BY <1>14 DEF RearmDataOut, TypeOK, MainStep, AfterDataOut
  <2>3. UNCHANGED <<configured, session_reset_pending, request_pending,
     request_armed, response_pending, response_recovery_pending,
     response_expiring, data_in_pending, data_out_pending, active, request,
     response, in_packet, out_packet, ret, tail, command, taken, op, sent,
     phase, left, replied, mark, resets, halts>>
    BY <1>14 DEF RearmDataOut, bus, requestFlags, responseFlags, buffers, task,
       host, events
  <2> QED
    BY <2>1, <2>2, <2>3 DEF TypeOK
<1>15. CASE StartDataOut
  <2>1. data_out_active' \in BOOLEAN
    BY <1>15 DEF StartDataOut, TypeOK
  <2>2. active' \in [Endpoint -> BOOLEAN]
    BY <1>15, StartStop, Endpoints DEF StartDataOut, TypeOK
  <2>3. pc' \in MainStep
    BY <1>15 DEF StartDataOut, TypeOK, MainStep, AfterDataOut
  <2>4. UNCHANGED <<configured, session_reset_pending, request_pending,
     request_armed, response_pending, response_recovery_pending,
     response_expiring, data_in_pending, data_out_pending, request, response,
     in_packet, out_packet, ret, tail, command, taken, op, sent, phase, left,
     replied, mark, resets, halts>>
    BY <1>15 DEF StartDataOut, bus, requestFlags, responseFlags, buffers, task,
       host, events
  <2> QED
    BY <2>1, <2>2, <2>3, <2>4 DEF TypeOK
<1>16. CASE ServiceDataIn
  <2>1. pc' \in MainStep
    BY <1>16 DEF ServiceDataIn, TypeOK, MainStep, AfterDataIn
  <2>2. UNCHANGED <<configured, session_reset_pending, request_pending,
     request_armed, response_pending, response_recovery_pending,
     response_expiring, data_in_pending, data_out_active, data_out_pending,
     active, request, response, in_packet, out_packet, ret, tail, command,
     taken, op, sent, phase, left, replied, mark, resets, halts>>
    BY <1>16 DEF ServiceDataIn, bus, requestFlags, responseFlags, dataOutFlags,
       buffers, task, host, events
  <2> QED
    BY <2>1, <2>2 DEF TypeOK
<1>17. CASE PollDataIn
  <2>1. data_in_pending' \in BOOLEAN
    BY <1>17 DEF PollDataIn, TypeOK
  <2>2. op' \in Operation /\ in_packet' \in [id : CommandId, last : BOOLEAN]
    BY <1>17, PollOperation
  <2>3. pc' \in MainStep
    BY <1>17 DEF PollDataIn, TypeOK, MainStep, AfterDataIn
  <2>4. UNCHANGED <<configured, session_reset_pending, request_pending,
     request_armed, response_pending, response_recovery_pending,
     response_expiring, data_out_active, data_out_pending, active, request,
     response, out_packet, ret, tail, command, taken, sent, phase, left,
     replied, mark, resets, halts>>
    BY <1>17 DEF PollDataIn, bus, requestFlags, responseFlags, dataOutFlags,
       task, host, events
  <2> QED
    BY <2>1, <2>2, <2>3, <2>4 DEF TypeOK
<1>18. CASE StartDataIn
  <2>1. data_in_pending' \in BOOLEAN
    BY <1>18 DEF StartDataIn, TypeOK
  <2>2. active' \in [Endpoint -> BOOLEAN]
    BY <1>18, StartStop, Endpoints DEF StartDataIn, TypeOK
  <2>3. pc' \in MainStep
    BY <1>18 DEF StartDataIn, TypeOK, MainStep, AfterDataIn
  <2>4. UNCHANGED <<configured, session_reset_pending, request_pending,
     request_armed, response_pending, response_recovery_pending,
     response_expiring, data_out_active, data_out_pending, request, response,
     in_packet, out_packet, ret, tail, command, taken, op, sent, phase, left,
     replied, mark, resets, halts>>
    BY <1>18 DEF StartDataIn, bus, requestFlags, responseFlags, dataOutFlags,
       buffers, task, host, events
  <2> QED
    BY <2>1, <2>2, <2>3, <2>4 DEF TypeOK
<1>19. CASE CheckRequest
  <2>1. request_pending' \in BOOLEAN
    BY <1>19 DEF CheckRequest, TypeOK
  <2>2. pc' \in MainStep
    BY <1>19 DEF CheckRequest, TypeOK, MainStep
  <2>3. ret' \in {"timeout", "abandon", "process", "data_in"}
    BY <1>19 DEF CheckRequest, TypeOK
  <2>4. command' \in CommandId
    BY <1>19 DEF CheckRequest, TypeOK, task
  <2>5. taken' \in CommandId
    BY <1>19 DEF CheckRequest, TypeOK, task
  <2>6. UNCHANGED <<configured, session_reset_pending, request_armed,
     response_pending, response_recovery_pending, response_expiring,
     data_in_pending, data_out_active, data_out_pending, active, request,
     response, in_packet, out_packet, tail, op, sent, phase, left, replied,
     mark, resets, halts>>
    BY <1>19 DEF CheckRequest, bus, responseFlags, dataOutFlags, buffers, host,
       events
  <2> QED
    BY <2>1, <2>2, <2>3, <2>4, <2>5, <2>6 DEF TypeOK
<1>20. CASE ProcessCommand
  <2>1. response' \in [id : CommandId, kind : Outcome]
    BY <1>20 DEF ProcessCommand, TypeOK, Outcome
  <2>2. pc' \in MainStep
    BY <1>20 DEF ProcessCommand, TypeOK, MainStep
  <2>3. op' \in Operation
    BY <1>20, Literals DEF ProcessCommand, TypeOK, Operation, PhaseKind,
       Outcome
  <2>4. UNCHANGED <<configured, session_reset_pending, request_pending,
     request_armed, response_pending, response_recovery_pending,
     response_expiring, data_in_pending, data_out_active, data_out_pending,
     active, request, in_packet, out_packet, ret, tail, command, taken, sent,
     phase, left, replied, mark, resets, halts>>
    BY <1>20 DEF ProcessCommand, bus, requestFlags, responseFlags,
       dataOutFlags, task, host, events
  <2> QED
    BY <2>1, <2>2, <2>3, <2>4 DEF TypeOK
<1>21. CASE ArmResponse
  <2>1. /\ response_pending' \in BOOLEAN
        /\ response_expiring' \in BOOLEAN
    BY <1>21 DEF ArmResponse, TypeOK
  <2>2. pc' \in MainStep
    BY <1>21 DEF ArmResponse, TypeOK, MainStep
  <2>3. UNCHANGED <<configured, session_reset_pending, request_pending,
     request_armed, response_recovery_pending, data_in_pending,
     data_out_active, data_out_pending, active, request, response, in_packet,
     out_packet, ret, tail, command, taken, op, sent, phase, left, replied,
     mark, resets, halts>>
    BY <1>21 DEF ArmResponse, bus, requestFlags, dataOutFlags, buffers, task,
       host, events
  <2> QED
    BY <2>1, <2>2, <2>3 DEF TypeOK
<1>22. CASE WriteResponse
  <2>1. /\ response_pending' \in BOOLEAN
        /\ response_expiring' \in BOOLEAN
        /\ tail' \in BOOLEAN
    BY <1>22 DEF WriteResponse, TypeOK
  <2>2. active' \in [Endpoint -> BOOLEAN]
    BY <1>22, StartStop, Endpoints DEF WriteResponse, TypeOK
  <2>3. pc' \in MainStep
    BY <1>22 DEF WriteResponse, TypeOK, MainStep
  <2>4. ret' \in {"timeout", "abandon", "process", "data_in"}
    BY <1>22 DEF WriteResponse, TypeOK
  <2>5. command' \in CommandId
    BY <1>22, Literals DEF WriteResponse, TypeOK
  <2>6. UNCHANGED <<configured, session_reset_pending, request_pending,
     request_armed, response_recovery_pending, data_in_pending,
     data_out_active, data_out_pending, request, response, in_packet,
     out_packet, taken, op, sent, phase, left, replied, mark, resets, halts>>
    BY <1>22 DEF WriteResponse, bus, requestFlags, dataOutFlags, buffers, host,
       events
  <2> QED
    BY <2>1, <2>2, <2>3, <2>4, <2>5, <2>6 DEF TypeOK
<1>23. CASE CommandReceived
  <2>1. /\ request_pending' \in BOOLEAN
        /\ request_armed' \in BOOLEAN
        /\ response_recovery_pending' \in BOOLEAN
    BY <1>23 DEF CommandReceived, TypeOK
  <2>2. active' \in [Endpoint -> BOOLEAN]
    BY <1>23, StartStop, Endpoints DEF CommandReceived, TypeOK
  <2>3. request' \in CommandId
    BY <1>23, UsbAssumption DEF CommandReceived, TypeOK, CommandId
  <2>4. sent' \in CommandId
    BY <1>23, UsbAssumption DEF CommandReceived, TypeOK, CommandId
  <2>5. phase' \in {"idle", "reply", "out", "status", "in"}
    BY <1>23 DEF CommandReceived, TypeOK
  <2>6. left' \in 0 .. MaxPacket
    BY <1>23, Literals DEF CommandReceived, TypeOK
  <2>7. UNCHANGED <<configured, session_reset_pending, response_pending,
     response_expiring, data_in_pending, data_out_active, data_out_pending,
     response, in_packet, out_packet, pc, ret, tail, command, taken, op,
     replied, mark, resets, halts>>
    BY <1>23 DEF CommandReceived, bus, dataOutFlags, task, events
  <2> QED
    BY <2>1, <2>2, <2>3, <2>4, <2>5, <2>6, <2>7 DEF TypeOK
<1>24. CASE ReplyRead
  <2>1. /\ response_pending' \in BOOLEAN
        /\ response_recovery_pending' \in BOOLEAN
        /\ response_expiring' \in BOOLEAN
    BY <1>24 DEF ReplyRead, TypeOK
  <2>2. active' \in [Endpoint -> BOOLEAN]
    BY <1>24, StartStop, Endpoints DEF ReplyRead, TypeOK
  <2>3. phase' \in {"idle", "reply", "out", "status", "in"}
    BY <1>24 DEF ReplyRead, TypeOK
  <2>4. left' \in 0 .. MaxPacket
    BY <1>24, Literals DEF ReplyRead, TypeOK
  <2>5. replied' \in CommandId
    BY <1>24, Literals DEF ReplyRead, TypeOK
  <2>6. UNCHANGED <<configured, session_reset_pending, request_pending,
     request_armed, data_in_pending, data_out_active, data_out_pending,
     request, response, in_packet, out_packet, pc, ret, tail, command, taken,
     op, sent, mark, resets, halts>>
    BY <1>24 DEF ReplyRead, bus, requestFlags, dataOutFlags, buffers, task,
       events
  <2> QED
    BY <2>1, <2>2, <2>3, <2>4, <2>5, <2>6 DEF TypeOK
<1>25. CASE DataReceived
  <2>1. /\ data_out_active' \in BOOLEAN
        /\ data_out_pending' \in BOOLEAN
    BY <1>25 DEF DataReceived, TypeOK
  <2>2. active' \in [Endpoint -> BOOLEAN]
    BY <1>25, StartStop, Endpoints DEF DataReceived, TypeOK
  <2>3. out_packet' \in CommandId
    BY <1>25 DEF DataReceived, TypeOK
  <2>4. phase' \in {"idle", "reply", "out", "status", "in"}
    BY <1>25 DEF DataReceived, TypeOK
  <2>5. left' \in 0 .. MaxPacket
    BY <1>25, Literals DEF DataReceived, TypeOK, PhaseInv
  <2>6. UNCHANGED <<configured, session_reset_pending, request_pending,
     request_armed, response_pending, response_recovery_pending,
     response_expiring, data_in_pending, request, response, in_packet, pc, ret,
     tail, command, taken, op, sent, replied, mark, resets, halts>>
    BY <1>25 DEF DataReceived, bus, requestFlags, responseFlags, task, events
  <2> QED
    BY <2>1, <2>2, <2>3, <2>4, <2>5, <2>6 DEF TypeOK
<1>26. CASE DataRead
  <2>1. data_in_pending' \in BOOLEAN
    BY <1>26 DEF DataRead, TypeOK
  <2>2. active' \in [Endpoint -> BOOLEAN]
    BY <1>26, StartStop, Endpoints DEF DataRead, TypeOK
  <2>3. phase' \in {"idle", "reply", "out", "status", "in"}
    BY <1>26 DEF DataRead, TypeOK
  <2>4. left' \in 0 .. MaxPacket
    BY <1>26, Literals DEF DataRead, TypeOK, PhaseInv
  <2>5. UNCHANGED <<configured, session_reset_pending, request_pending,
     request_armed, response_pending, response_recovery_pending,
     response_expiring, data_out_active, data_out_pending, request, response,
     in_packet, out_packet, pc, ret, tail, command, taken, op, sent, replied,
     mark, resets, halts>>
    BY <1>26 DEF DataRead, bus, requestFlags, responseFlags, dataOutFlags,
       buffers, task, events
  <2> QED
    BY <2>1, <2>2, <2>3, <2>4, <2>5 DEF TypeOK
<1>27. CASE BusReset
  <2>1. /\ configured' \in BOOLEAN
        /\ session_reset_pending' \in BOOLEAN
        /\ request_pending' \in BOOLEAN
        /\ request_armed' \in BOOLEAN
        /\ response_pending' \in BOOLEAN
        /\ response_recovery_pending' \in BOOLEAN
        /\ response_expiring' \in BOOLEAN
        /\ data_in_pending' \in BOOLEAN
        /\ data_out_active' \in BOOLEAN
        /\ data_out_pending' \in BOOLEAN
    BY <1>27 DEF BusReset, TypeOK, ClearFlags
  <2>2. active' \in [Endpoint -> BOOLEAN]
    BY <1>27 DEF BusReset, TypeOK
  <2>3. phase' \in {"idle", "reply", "out", "status", "in"}
    BY <1>27 DEF BusReset, TypeOK
  <2>4. left' \in 0 .. MaxPacket
    BY <1>27, Literals DEF BusReset, TypeOK
  <2>5. mark' \in CommandId
    BY <1>27 DEF BusReset, TypeOK
  <2>6. resets' \in 0 .. MaxReset
    BY <1>27, UsbAssumption DEF BusReset, TypeOK
  <2>7. UNCHANGED <<request, response, in_packet, out_packet, pc, ret, tail,
     command, taken, op, sent, replied, halts>>
    BY <1>27 DEF BusReset, buffers, task
  <2> QED
    BY <2>1, <2>2, <2>3, <2>4, <2>5, <2>6, <2>7 DEF TypeOK
<1>28. CASE Configure
  <2>1. /\ configured' \in BOOLEAN
        /\ request_pending' \in BOOLEAN
        /\ request_armed' \in BOOLEAN
        /\ response_pending' \in BOOLEAN
        /\ response_recovery_pending' \in BOOLEAN
        /\ response_expiring' \in BOOLEAN
        /\ data_in_pending' \in BOOLEAN
        /\ data_out_active' \in BOOLEAN
        /\ data_out_pending' \in BOOLEAN
    BY <1>28 DEF Configure, TypeOK, ClearFlags
  <2>2. UNCHANGED <<session_reset_pending, active, request, response,
     in_packet, out_packet, pc, ret, tail, command, taken, op, sent, phase,
     left, replied, mark, resets, halts>>
    BY <1>28 DEF Configure, buffers, task, host, events
  <2> QED
    BY <2>1, <2>2 DEF TypeOK
<1>29. ASSUME NEW e \in Endpoint, ClearHalt(e) PROVE TypeOK'
  <2>1. active' \in [Endpoint -> BOOLEAN]
    BY <1>29, StartStop DEF ClearHalt, TypeOK
  <2>2. halts' \in 0 .. MaxHalt
    BY <1>29, UsbAssumption DEF ClearHalt, TypeOK
  <2>3. UNCHANGED <<bus, requestFlags, responseFlags, data_in_pending,
                    dataOutFlags, buffers, pc, ret, tail, task, op, host,
                    resets>>
    BY <1>29 DEF ClearHalt
  <2> QED
    BY <2>1, <2>2, <2>3
    DEF TypeOK, bus, requestFlags, responseFlags, dataOutFlags, buffers, task,
        host
<1>30. CASE UNCHANGED vars
  BY <1>30
  DEF vars, TypeOK, bus, requestFlags, responseFlags, dataOutFlags, buffers,
      task, host, events
<1> QED
  BY <1>1, <1>2, <1>3, <1>4, <1>5, <1>6, <1>7, <1>8, <1>9, <1>10, <1>11, <1>12,
     <1>13, <1>14, <1>15, <1>16, <1>17, <1>18, <1>19, <1>20, <1>21, <1>22,
     <1>23, <1>24, <1>25, <1>26, <1>27, <1>28, <1>29, <1>30 DEF Next, Main,
     Interrupt

\* Every step keeps packets left in an open phase.
LEMMA PhaseNext == Inv /\ [Next]_vars => PhaseInv'
<1> SUFFICES ASSUME Inv, [Next]_vars PROVE PhaseInv'
  OBVIOUS
<1> USE Literals DEF Inv, TypeOK, PhaseInv, WantsIn, NoOperation, AfterDataOut,
        AfterDataIn, bus, requestFlags, responseFlags, dataOutFlags, buffers,
        task, host, events
<1>1. CASE Top
  BY <1>1 DEF Top
<1>2. CASE ArmRequest
  BY <1>2 DEF ArmRequest
<1>3. CASE ArmRequestDone
  BY <1>3 DEF ArmRequestDone
<1>4. CASE ExpireResponse
  BY <1>4 DEF ExpireResponse
<1>5. CASE KeepResponse
  BY <1>5 DEF KeepResponse
<1>6. CASE AbortExpiredResponse
  BY <1>6 DEF AbortExpiredResponse
<1>7. CASE ServiceAbandonedDataIn
  BY <1>7 DEF ServiceAbandonedDataIn
<1>8. CASE RetireDataIn
  BY <1>8 DEF RetireDataIn
<1>9. CASE AbortDataIn
  BY <1>9 DEF AbortDataIn
<1>10. CASE RecoverResponse
  BY <1>10 DEF RecoverResponse
<1>11. CASE AbortAbandonedResponse
  BY <1>11 DEF AbortAbandonedResponse
<1>12. CASE TakeDataOut
  BY <1>12 DEF TakeDataOut
<1>13. CASE SubmitDataOut
  BY SubmitOperation, <1>13 DEF SubmitDataOut
<1>14. CASE RearmDataOut
  BY <1>14 DEF RearmDataOut
<1>15. CASE StartDataOut
  BY <1>15 DEF StartDataOut
<1>16. CASE ServiceDataIn
  BY <1>16 DEF ServiceDataIn
<1>17. CASE PollDataIn
  BY PollOperation, <1>17 DEF PollDataIn
<1>18. CASE StartDataIn
  BY <1>18 DEF StartDataIn
<1>19. CASE CheckRequest
  BY <1>19 DEF CheckRequest
<1>20. CASE ProcessCommand
  BY <1>20 DEF ProcessCommand, Outcome
<1>21. CASE ArmResponse
  BY <1>21 DEF ArmResponse
<1>22. CASE WriteResponse
  BY <1>22 DEF WriteResponse
<1>23. CASE CommandReceived
  BY <1>23 DEF CommandReceived
<1>24. CASE ReplyRead
  BY <1>24 DEF ReplyRead
<1>25. CASE DataReceived
  BY <1>25 DEF DataReceived
<1>26. CASE DataRead
  BY <1>26 DEF DataRead
<1>27. CASE BusReset
  BY <1>27 DEF BusReset, ClearFlags
<1>28. CASE Configure
  BY <1>28 DEF Configure, ClearFlags
<1>29. ASSUME NEW e \in Endpoint, ClearHalt(e) PROVE PhaseInv'
  BY <1>29 DEF ClearHalt
<1>30. CASE UNCHANGED vars
  BY <1>30 DEF vars
<1> QED
  BY <1>1, <1>2, <1>3, <1>4, <1>5, <1>6, <1>7, <1>8, <1>9, <1>10, <1>11, <1>12,
     <1>13, <1>14, <1>15, <1>16, <1>17, <1>18, <1>19, <1>20, <1>21, <1>22,
     <1>23, <1>24, <1>25, <1>26, <1>27, <1>28, <1>29, <1>30 DEF Next, Main,
     Interrupt

-----------------------------------------------------------------------------
(* Flags, endpoints and commands *)

\* Every step keeps the flags in step with the endpoints and the commands in
\* their order.
LEMMA FlagNext == Inv /\ [Next]_vars => FlagInv'
<1> SUFFICES ASSUME Inv, [Next]_vars PROVE FlagInv'
  OBVIOUS
<1> USE UsbAssumption, StartStop, Endpoints
    DEF Inv, FlagInv, TypeOK, RequestInv, ResponseInv, DataInInv, DataOutInv,
        CommandInv, AcceptedCommandKept, StaleReplyRetired, Busy, CanStart,
        CommandId, AfterDataOut, AfterDataIn, bus, requestFlags,
        responseFlags, dataOutFlags, buffers, task, host, events
<1>1. CASE Top
  BY <1>1 DEF Top
<1>2. CASE ArmRequest
  BY <1>2 DEF ArmRequest
<1>3. CASE ArmRequestDone
  BY <1>3 DEF ArmRequestDone
<1>4. CASE ExpireResponse
  BY <1>4 DEF ExpireResponse
<1>5. CASE KeepResponse
  BY <1>5 DEF KeepResponse
<1>6. CASE AbortExpiredResponse
  BY <1>6 DEF AbortExpiredResponse
<1>7. CASE ServiceAbandonedDataIn
  BY <1>7 DEF ServiceAbandonedDataIn
<1>8. CASE RetireDataIn
  BY <1>8 DEF RetireDataIn
<1>9. CASE AbortDataIn
  BY <1>9 DEF AbortDataIn
<1>10. CASE RecoverResponse
  BY <1>10 DEF RecoverResponse
<1>11. CASE AbortAbandonedResponse
  BY <1>11 DEF AbortAbandonedResponse
<1>12. CASE TakeDataOut
  BY <1>12 DEF TakeDataOut
<1>13. CASE SubmitDataOut
  BY <1>13 DEF SubmitDataOut
<1>14. CASE RearmDataOut
  BY <1>14 DEF RearmDataOut
<1>15. CASE StartDataOut
  BY <1>15 DEF StartDataOut
<1>16. CASE ServiceDataIn
  BY <1>16 DEF ServiceDataIn
<1>17. CASE PollDataIn
  BY <1>17 DEF PollDataIn
<1>18. CASE StartDataIn
  BY <1>18 DEF StartDataIn
<1>19. CASE CheckRequest
  BY <1>19 DEF CheckRequest
<1>20. CASE ProcessCommand
  BY <1>20 DEF ProcessCommand
<1>21. CASE ArmResponse
  BY <1>21 DEF ArmResponse
<1>22. CASE WriteResponse
  BY <1>22 DEF WriteResponse
<1>23. CASE CommandReceived
  BY <1>23 DEF CommandReceived
<1>24. CASE ReplyRead
  BY <1>24 DEF ReplyRead
<1>25. CASE DataReceived
  BY <1>25 DEF DataReceived
<1>26. CASE DataRead
  BY <1>26 DEF DataRead
<1>27. CASE BusReset
  BY <1>27 DEF BusReset, ClearFlags
<1>28. CASE Configure
  BY <1>28 DEF Configure, ClearFlags
<1>29. ASSUME NEW e \in Endpoint, ClearHalt(e) PROVE FlagInv'
  BY <1>29 DEF ClearHalt
<1>30. CASE UNCHANGED vars
  BY <1>30 DEF vars
<1> QED
  BY <1>1, <1>2, <1>3, <1>4, <1>5, <1>6, <1>7, <1>8, <1>9, <1>10, <1>11, <1>12,
     <1>13, <1>14, <1>15, <1>16, <1>17, <1>18, <1>19, <1>20, <1>21, <1>22,
     <1>23, <1>24, <1>25, <1>26, <1>27, <1>28, <1>29, <1>30 DEF Next, Main,
     Interrupt

\* The initial state satisfies the invariant.
LEMMA InitInv == Init => Inv
<1> SUFFICES ASSUME Init PROVE Inv
  OBVIOUS
<1>1. active \in [Endpoint -> BOOLEAN]
  BY DEF Init
<1>2. /\ response \in [id : CommandId, kind : Outcome]
      /\ in_packet \in [id : CommandId, last : BOOLEAN]
  BY Literals DEF Init, Outcome
<1>3. TypeOK
  BY <1>1, <1>2, Literals DEF Init, TypeOK, MainStep
<1>4. PhaseInv
  BY DEF Init, PhaseInv, NoOperation
<1>5. FlagInv
  BY Endpoints
  DEF Init, FlagInv, RequestInv, ResponseInv, DataInInv, DataOutInv,
      CommandInv, AcceptedCommandKept, StaleReplyRetired, Busy
<1> QED
  BY <1>3, <1>4, <1>5 DEF Inv

\* The invariant holds in every reachable state.
THEOREM Invariance == Spec => []Inv
<1>1. Inv /\ [Next]_vars => Inv'
  BY TypeNext, PhaseNext, FlagNext DEF Inv
<1> QED
  BY InitInv, <1>1, PTL DEF Spec

-----------------------------------------------------------------------------
(* The safety properties *)

\* The adapter's state stays within its types.
THEOREM TypeCorrect == Spec => []TypeOK
<1>1. Inv => TypeOK
  BY DEF Inv
<1> QED
  BY Invariance, <1>1, PTL

\* No pair of a flag and its endpoint comes apart, whatever the order of
\* callbacks, aborts and bus resets.
THEOREM FlagsInStep == Spec => []FlagsTrackEndpoints
<1>1. Inv => FlagsTrackEndpoints
  BY DEF Inv, FlagInv, RequestInv, ResponseInv, DataInInv, DataOutInv,
         FlagsTrackEndpoints
<1> QED
  BY Invariance, <1>1, PTL

\* No buffer is used by the main loop and by its endpoint at once.
THEOREM NoSharing == Spec => []BuffersNotShared
<1>1. Inv => BuffersNotShared
  BY DEF Inv, FlagInv, RequestInv, ResponseInv, DataInInv, DataOutInv, Busy,
         BuffersNotShared
<1> QED
  BY Invariance, <1>1, PTL

\* No acknowledged command is lost or taken out of turn.
THEOREM CommandsKept == Spec => []AcceptedCommandKept
<1>1. Inv => AcceptedCommandKept
  BY DEF Inv, FlagInv
<1> QED
  BY Invariance, <1>1, PTL

\* No reply to a command from before a bus reset survives the next command.
THEOREM RepliesRetired == Spec => []StaleReplyRetired
<1>1. Inv => StaleReplyRetired
  BY DEF Inv, FlagInv
<1> QED
  BY Invariance, <1>1, PTL

-----------------------------------------------------------------------------
(* Refinement of the mailbox *)

\* Every step of the adapter is a step of the mailbox or leaves it alone.
LEMMA MailStep ==
  Inv /\ Inv' /\ [Next]_vars => [Mailbox!MailNext]_(Mailbox!mailVars)
<1> SUFFICES ASSUME Inv, Inv', [Next]_vars
             PROVE  [Mailbox!MailNext]_(Mailbox!mailVars)
  OBVIOUS
<1> USE UsbAssumption, StartStop, Endpoints
    DEF Inv, FlagInv, TypeOK, RequestInv, ResponseInv, CommandInv, Busy,
        CommandId, CanStart, Mailbox!MailNext, Mailbox!mailVars, bus,
        requestFlags, responseFlags, dataOutFlags, buffers, task, host, events
<1>1. CASE Top
  BY <1>1 DEF Top
<1>2. CASE ArmRequest
  BY <1>2 DEF ArmRequest
<1>3. CASE ArmRequestDone
  BY <1>3 DEF ArmRequestDone
<1>4. CASE ExpireResponse
  BY <1>4 DEF ExpireResponse
<1>5. CASE KeepResponse
  BY <1>5 DEF KeepResponse
<1>6. CASE AbortExpiredResponse
  BY <1>6 DEF AbortExpiredResponse, Mailbox!Collect
<1>7. CASE ServiceAbandonedDataIn
  BY <1>7 DEF ServiceAbandonedDataIn
<1>8. CASE RetireDataIn
  BY <1>8 DEF RetireDataIn
<1>9. CASE AbortDataIn
  BY <1>9 DEF AbortDataIn
<1>10. CASE RecoverResponse
  BY <1>10 DEF RecoverResponse
<1>11. CASE AbortAbandonedResponse
  BY <1>11 DEF AbortAbandonedResponse, Mailbox!Collect
<1>12. CASE TakeDataOut
  BY <1>12 DEF TakeDataOut
<1>13. CASE SubmitDataOut
  BY <1>13 DEF SubmitDataOut
<1>14. CASE RearmDataOut
  BY <1>14 DEF RearmDataOut
<1>15. CASE StartDataOut
  BY <1>15 DEF StartDataOut
<1>16. CASE ServiceDataIn
  BY <1>16 DEF ServiceDataIn
<1>17. CASE PollDataIn
  BY <1>17 DEF PollDataIn
<1>18. CASE StartDataIn
  BY <1>18 DEF StartDataIn
<1>19. CASE CheckRequest
  BY <1>19 DEF CheckRequest, Mailbox!TakeUp
<1>20. CASE ProcessCommand
  BY <1>20 DEF ProcessCommand
<1>21. CASE ArmResponse
  BY <1>21 DEF ArmResponse
<1>22. CASE WriteResponse
  BY <1>22 DEF WriteResponse, Mailbox!Answer
<1>23. CASE CommandReceived
  BY <1>23 DEF CommandReceived, Mailbox!Accept
<1>24. CASE ReplyRead
  BY <1>24 DEF ReplyRead, Mailbox!Collect
<1>25. CASE DataReceived
  BY <1>25 DEF DataReceived
<1>26. CASE DataRead
  BY <1>26 DEF DataRead
<1>27. CASE BusReset
  BY <1>27 DEF BusReset, ClearFlags, Mailbox!Reset
<1>28. CASE Configure
  BY <1>28 DEF Configure, ClearFlags, Mailbox!Reset
<1>29. ASSUME NEW e \in Endpoint, ClearHalt(e) PROVE [Mailbox!MailNext]_(Mailbox!mailVars)
  BY <1>29 DEF ClearHalt, Mailbox!Collect
<1>30. CASE UNCHANGED vars
  BY <1>30 DEF vars
<1> QED
  BY <1>1, <1>2, <1>3, <1>4, <1>5, <1>6, <1>7, <1>8, <1>9, <1>10, <1>11, <1>12,
     <1>13, <1>14, <1>15, <1>16, <1>17, <1>18, <1>19, <1>20, <1>21, <1>22,
     <1>23, <1>24, <1>25, <1>26, <1>27, <1>28, <1>29, <1>30 DEF Next, Main,
     Interrupt

\* The adapter implements the mailbox: a command is executed once and in
\* turn, no answer is overwritten, none is given twice.
THEOREM Refinement == Spec => MailboxSpec
<1>1. Init => Mailbox!MailInit
  BY Endpoints DEF Init, Mailbox!MailInit
<1> QED
  BY <1>1, Invariance, MailStep, PTL DEF Spec, MailboxSpec, Mailbox!MailSpec

-----------------------------------------------------------------------------
(***************************************************************************)
(* Proofs about WchlinkUsb with a patient host: one that sends its next    *)
(* command when the exchange before has ended, with no bus reset and no    *)
(* cleared halt.  The data phase that the host believes to be open is the  *)
(* session's own, so replies and data packets meet the command that they   *)
(* belong to, for every number of commands and packets.                    *)
(***************************************************************************)

CalmHost == Patient /\ MaxReset = 0 /\ MaxHalt = 0

-----------------------------------------------------------------------------
(* The inductive invariant: what the host waits for, and what the session  *)
(* and the buffers hold.                                                   *)

\* Data packets of the open operation between the session and the host.
InFlight == IF data_in_pending THEN 1 ELSE 0

\* A data OUT packet waits for the session.
Holding == data_out_pending \/ pc = "submit_data"

\* The command has run and the host has not read its reply yet.
Replying == pc \in {"respond", "write"} \/ active["cmd_in"]

\* Neither the session nor the endpoint has a packet for the host.
InRest == ~data_in_pending /\ ~WantsIn

\* Nothing is recovered or abandoned.
CalmInv ==
  /\ ~session_reset_pending /\ mark = 0 /\ resets = 0 /\ halts = 0
  /\ ~response_recovery_pending
  /\ pc \notin {"timeout_abort", "retire", "retire_abort", "recover_abort"}
  /\ pc # "top" => configured
  /\ pc \in {"arm", "armed"} => ret # "data_in"
  /\ pc = "check" => ~tail
  /\ ~configured => /\ sent = 0 /\ phase = "idle"
                    /\ ~Holding /\ InRest /\ ~response_pending

\* A host that waits for a reply has its command at one place.
ReplyInv ==
  /\ phase = "reply" <=> request_pending \/ Busy \/ response_pending
  /\ request_pending => ~Busy /\ ~response_pending
  /\ Busy => command = sent
  /\ Replying => response.id = sent

\* A waiting data OUT packet is the open operation's, and the command that
\* may already wait behind it is not looked at before the packet.
WindowInv ==
  /\ pc = "submit_data" => ~data_out_pending
  /\ Holding =>
       /\ out_packet = op.id /\ InRest
       /\ phase # "in" /\ (phase = "reply" => request_pending)
       /\ request_pending => ~RequestWindow
       /\ op.kind = "flash" => phase = "status"

\* The session's operation once the command that the host waits for has run.
AnsweredOp ==
  /\ ~op.reply
  /\ response.kind \in {"loader", "flash", "read"} => op.id = sent
  /\ response.kind \in {"loader", "flash"}
       => ~data_in_pending /\ op.kind = response.kind
  /\ response.kind = "read" =>
       /\ op.kind \in {"read", "none"}
       /\ op.kind = "read" => op.left + InFlight = MaxPacket
  /\ response.kind \in {"plain", "clear"} => InRest

\* The session's operation is the one the host's phase is about.
OpInv ==
  /\ phase = "idle" => InRest
  /\ phase = "reply" => IF Replying THEN AnsweredOp ELSE InRest
  /\ phase = "out" =>
       /\ InRest /\ op.id = sent
       /\ response.kind \in {"loader", "flash"}
       /\ op.kind \in {response.kind, "none"}
  /\ phase = "status" =>
       /\ response.kind = "flash"
       /\ op.id = sent /\ op.kind \in {"flash", "none"}
       /\ ~(data_in_pending /\ op.reply)
  /\ phase = "in" =>
       /\ op.id = sent /\ op.kind \in {"read", "none"} /\ ~op.reply
       /\ op.kind = "read" => op.left + InFlight = left
  /\ data_in_pending => in_packet.id = sent

HostInv == CalmInv /\ ReplyInv /\ WindowInv /\ OpInv

-----------------------------------------------------------------------------
(* Lemmas about the operation *)

\* A command that waits finds no data phase that answers.
LEMMA RequestAlone ==
  ASSUME Inv, HostInv, request_pending
  PROVE  InRest
BY DEF HostInv, ReplyInv, OpInv, Replying, Busy, Inv, TypeOK, FlagInv, ResponseInv, CalmInv

\* What a submitted packet does to the fields of the operation.
LEMMA SubmitFields ==
  ASSUME Inv, SubmitDataOut
  PROVE  /\ op'.id = op.id
         /\ op'.kind \in {op.kind, "none"}
         /\ op'.reply => op.reply \/ op.kind = "flash"
         /\ op.reply => op'.reply
         /\ op.kind \in {"read", "none"} => op' = op
<1>1. /\ op.id \in CommandId /\ op.kind \in PhaseKind
      /\ op.left \in 0 .. MaxPacket /\ op.reply \in BOOLEAN
      /\ op = [id |-> op.id, kind |-> op.kind, left |-> op.left,
               reply |-> op.reply]
  BY OperationFields DEF Inv, TypeOK
<1>2. CASE op' = op
  BY <1>2, <1>1
<1>3. CASE /\ op.kind \in {"loader", "flash"}
           /\ op' = [op EXCEPT !.left = @ - 1,
                               !.reply = @ \/ op.kind = "flash"]
  BY <1>1, <1>3
<1>4. CASE /\ op.kind \in {"loader", "flash"}
           /\ op' = [op EXCEPT !.kind = "none", !.left = 0,
                               !.reply = @ \/ op.kind = "flash"]
  BY <1>1, <1>4
<1> QED
  BY <1>2, <1>3, <1>4 DEF SubmitDataOut, WantsOut

\* What producing a packet does to them: the status is taken, or a packet of
\* a read, or the read ends without one.
LEMMA PollFields ==
  ASSUME Inv, PollDataIn
  PROVE  /\ op'.id = op.id /\ ~op'.reply
         /\ \/ /\ op.reply /\ op'.kind = op.kind /\ op'.left = op.left
               /\ data_in_pending' /\ in_packet'.id = op.id
            \/ /\ ~op.reply /\ op.kind = "read" /\ op'.left = op.left - 1
               /\ op'.kind \in {"read", "none"}
               /\ data_in_pending' /\ in_packet'.id = op.id
            \/ /\ ~op.reply /\ op.kind = "read" /\ op'.kind = "none"
               /\ UNCHANGED <<data_in_pending, in_packet>>
<1>1. /\ op.id \in CommandId /\ op.kind \in PhaseKind
      /\ op.left \in 0 .. MaxPacket /\ op.reply \in BOOLEAN
      /\ op = [id |-> op.id, kind |-> op.kind, left |-> op.left,
               reply |-> op.reply]
  BY OperationFields DEF Inv, TypeOK
<1>2. op.reply \/ op.kind = "read"
  BY DEF Inv, PhaseInv, PollDataIn, WantsIn
<1>3. CASE /\ op.reply
           /\ op' = [op EXCEPT !.reply = FALSE]
           /\ in_packet' = [id |-> op.id, last |-> op.kind = "none"]
           /\ data_in_pending' = TRUE
  BY <1>1, <1>3
<1>4. CASE /\ ~op.reply
           /\ op' = [op EXCEPT !.left = @ - 1,
                               !.kind = IF op.left = 1 THEN "none" ELSE @]
           /\ in_packet' = [id |-> op.id, last |-> op.left = 1]
           /\ data_in_pending' = TRUE
  BY <1>1, <1>2, <1>4
<1>5. CASE /\ ~op.reply
           /\ op' = [op EXCEPT !.left = 0, !.kind = "none"]
           /\ UNCHANGED <<in_packet, data_in_pending>>
  BY <1>1, <1>2, <1>5
<1> QED
  BY <1>3, <1>4, <1>5 DEF PollDataIn

-----------------------------------------------------------------------------
(* Every step keeps the invariant. *)

\* Nothing gets abandoned, recovered or reset.
LEMMA CalmNext ==
  CalmHost /\ Inv /\ Inv' /\ HostInv /\ [Next]_vars => CalmInv'
<1> SUFFICES ASSUME CalmHost, Inv, Inv', HostInv, [Next]_vars PROVE CalmInv'
  OBVIOUS
<1> USE UsbAssumption, Literals, StartStop, Endpoints
    DEF CalmHost, HostInv, CalmInv, ReplyInv, WindowInv, OpInv,
        Inv, TypeOK, PhaseInv, FlagInv, RequestInv, ResponseInv, DataInInv,
        DataOutInv, CommandInv, Holding, InRest, WantsIn, Busy, NoOperation,
        CanStart, AfterDataOut, AfterDataIn, CommandId, bus, requestFlags,
        responseFlags, dataOutFlags, buffers, task, host, events
<1>1. CASE Top
  BY <1>1 DEF Top
<1>2. CASE ArmRequest
  BY <1>2 DEF ArmRequest
<1>3. CASE ArmRequestDone
  BY <1>3 DEF ArmRequestDone
<1>4. CASE ExpireResponse
  BY <1>4 DEF ExpireResponse
<1>5. CASE KeepResponse
  BY <1>5 DEF KeepResponse
<1>6. CASE AbortExpiredResponse
  BY <1>6 DEF AbortExpiredResponse
<1>7. CASE ServiceAbandonedDataIn
  BY <1>7, RequestAlone DEF ServiceAbandonedDataIn
<1>8. CASE RetireDataIn
  BY <1>8 DEF RetireDataIn
<1>9. CASE AbortDataIn
  BY <1>9 DEF AbortDataIn
<1>10. CASE RecoverResponse
  BY <1>10 DEF RecoverResponse
<1>11. CASE AbortAbandonedResponse
  BY <1>11 DEF AbortAbandonedResponse
<1>12. CASE TakeDataOut
  BY <1>12 DEF TakeDataOut
<1>13. CASE SubmitDataOut
  BY <1>13 DEF SubmitDataOut
<1>14. CASE RearmDataOut
  BY <1>14 DEF RearmDataOut
<1>15. CASE StartDataOut
  BY <1>15 DEF StartDataOut
<1>16. CASE ServiceDataIn
  BY <1>16 DEF ServiceDataIn
<1>17. CASE PollDataIn
  BY <1>17 DEF PollDataIn
<1>18. CASE StartDataIn
  BY <1>18 DEF StartDataIn
<1>19. CASE CheckRequest
  BY <1>19 DEF CheckRequest
<1>20. CASE ProcessCommand
  BY <1>20 DEF ProcessCommand
<1>21. CASE ArmResponse
  BY <1>21 DEF ArmResponse
<1>22. CASE WriteResponse
  BY <1>22 DEF WriteResponse
<1>23. CASE CommandReceived
  BY <1>23 DEF CommandReceived, MaySend, Quiet
<1>24. CASE ReplyRead
  BY <1>24 DEF ReplyRead
<1>25. CASE DataReceived
  BY <1>25 DEF DataReceived
<1>26. CASE DataRead
  BY <1>26 DEF DataRead
<1>27. CASE BusReset
  BY <1>27 DEF BusReset, ClearFlags
<1>28. CASE Configure
  BY <1>28 DEF Configure, ClearFlags
<1>29. ASSUME NEW e \in Endpoint, ClearHalt(e) PROVE CalmInv'
  BY <1>29 DEF ClearHalt
<1>30. CASE UNCHANGED vars
  BY <1>30 DEF vars
<1> QED
  BY <1>1, <1>2, <1>3, <1>4, <1>5, <1>6, <1>7, <1>8, <1>9, <1>10, <1>11,
     <1>12, <1>13, <1>14, <1>15, <1>16, <1>17, <1>18, <1>19, <1>20, <1>21,
     <1>22, <1>23, <1>24, <1>25, <1>26, <1>27, <1>28, <1>29, <1>30
     DEF Next, Main, Interrupt

\* The command stays at one place until its reply is read.
LEMMA ReplyNext ==
  CalmHost /\ Inv /\ Inv' /\ HostInv /\ [Next]_vars => ReplyInv'
<1> SUFFICES ASSUME CalmHost, Inv, Inv', HostInv, [Next]_vars PROVE ReplyInv'
  OBVIOUS
<1> USE UsbAssumption, Literals, StartStop, Endpoints
    DEF CalmHost, HostInv, CalmInv, ReplyInv,
        Inv, TypeOK, PhaseInv, FlagInv, RequestInv, ResponseInv, DataInInv,
        DataOutInv, CommandInv, Replying, Busy,
        CanStart, AfterDataOut, AfterDataIn, CommandId, bus, requestFlags,
        responseFlags, dataOutFlags, buffers, task, host, events
<1>1. CASE Top
  BY <1>1 DEF Top
<1>2. CASE ArmRequest
  BY <1>2 DEF ArmRequest
<1>3. CASE ArmRequestDone
  BY <1>3 DEF ArmRequestDone
<1>4. CASE ExpireResponse
  BY <1>4 DEF ExpireResponse
<1>5. CASE KeepResponse
  BY <1>5 DEF KeepResponse
<1>6. CASE AbortExpiredResponse
  BY <1>6 DEF AbortExpiredResponse
<1>7. CASE ServiceAbandonedDataIn
  BY <1>7 DEF ServiceAbandonedDataIn
<1>8. CASE RetireDataIn
  BY <1>8 DEF RetireDataIn
<1>9. CASE AbortDataIn
  BY <1>9 DEF AbortDataIn
<1>10. CASE RecoverResponse
  BY <1>10 DEF RecoverResponse
<1>11. CASE AbortAbandonedResponse
  BY <1>11 DEF AbortAbandonedResponse
<1>12. CASE TakeDataOut
  BY <1>12 DEF TakeDataOut
<1>13. CASE SubmitDataOut
  BY <1>13 DEF SubmitDataOut
<1>14. CASE RearmDataOut
  BY <1>14 DEF RearmDataOut
<1>15. CASE StartDataOut
  BY <1>15 DEF StartDataOut
<1>16. CASE ServiceDataIn
  BY <1>16 DEF ServiceDataIn
<1>17. CASE PollDataIn
  BY <1>17 DEF PollDataIn
<1>18. CASE StartDataIn
  BY <1>18 DEF StartDataIn
<1>19. CASE CheckRequest
  BY <1>19 DEF CheckRequest
<1>20. CASE ProcessCommand
  BY <1>20 DEF ProcessCommand
<1>21. CASE ArmResponse
  BY <1>21 DEF ArmResponse
<1>22. CASE WriteResponse
  BY <1>22 DEF WriteResponse
<1>23. CASE CommandReceived
  BY <1>23 DEF CommandReceived, MaySend, Quiet
<1>24. CASE ReplyRead
  BY <1>24 DEF ReplyRead
<1>25. CASE DataReceived
  BY <1>25 DEF DataReceived
<1>26. CASE DataRead
  BY <1>26 DEF DataRead
<1>27. CASE BusReset
  BY <1>27 DEF BusReset, ClearFlags
<1>28. CASE Configure
  BY <1>28 DEF Configure, ClearFlags
<1>29. ASSUME NEW e \in Endpoint, ClearHalt(e) PROVE ReplyInv'
  BY <1>29 DEF ClearHalt
<1>30. CASE UNCHANGED vars
  BY <1>30 DEF vars
<1> QED
  BY <1>1, <1>2, <1>3, <1>4, <1>5, <1>6, <1>7, <1>8, <1>9, <1>10, <1>11,
     <1>12, <1>13, <1>14, <1>15, <1>16, <1>17, <1>18, <1>19, <1>20, <1>21,
     <1>22, <1>23, <1>24, <1>25, <1>26, <1>27, <1>28, <1>29, <1>30
     DEF Next, Main, Interrupt

\* A data OUT packet keeps its operation until the session has it.
LEMMA WindowNext ==
  CalmHost /\ Inv /\ Inv' /\ HostInv /\ [Next]_vars => WindowInv'
<1> SUFFICES ASSUME CalmHost, Inv, Inv', HostInv, [Next]_vars PROVE WindowInv'
  OBVIOUS
<1> USE UsbAssumption, Literals, StartStop, Endpoints
    DEF CalmHost, HostInv, CalmInv, ReplyInv, WindowInv, OpInv,
        Inv, TypeOK, PhaseInv, FlagInv, RequestInv, ResponseInv, DataInInv,
        DataOutInv, CommandInv, Holding, InRest, WantsIn, Busy, RequestWindow, Replying,
        CanStart, AfterDataOut, AfterDataIn, CommandId, bus, requestFlags,
        responseFlags, dataOutFlags, buffers, task, host, events
<1>1. CASE Top
  BY <1>1 DEF Top
<1>2. CASE ArmRequest
  BY <1>2 DEF ArmRequest
<1>3. CASE ArmRequestDone
  BY <1>3 DEF ArmRequestDone
<1>4. CASE ExpireResponse
  BY <1>4 DEF ExpireResponse
<1>5. CASE KeepResponse
  BY <1>5 DEF KeepResponse
<1>6. CASE AbortExpiredResponse
  BY <1>6 DEF AbortExpiredResponse
<1>7. CASE ServiceAbandonedDataIn
  BY <1>7 DEF ServiceAbandonedDataIn
<1>8. CASE RetireDataIn
  BY <1>8 DEF RetireDataIn
<1>9. CASE AbortDataIn
  BY <1>9 DEF AbortDataIn
<1>10. CASE RecoverResponse
  BY <1>10 DEF RecoverResponse
<1>11. CASE AbortAbandonedResponse
  BY <1>11 DEF AbortAbandonedResponse
<1>12. CASE TakeDataOut
  BY <1>12 DEF TakeDataOut
<1>13. CASE SubmitDataOut
  BY <1>13, SubmitFields DEF SubmitDataOut
<1>14. CASE RearmDataOut
  BY <1>14 DEF RearmDataOut
<1>15. CASE StartDataOut
  BY <1>15 DEF StartDataOut
<1>16. CASE ServiceDataIn
  BY <1>16 DEF ServiceDataIn
<1>17. CASE PollDataIn
  BY <1>17 DEF PollDataIn
<1>18. CASE StartDataIn
  BY <1>18 DEF StartDataIn
<1>19. CASE CheckRequest
  BY <1>19 DEF CheckRequest
<1>20. CASE ProcessCommand
  BY <1>20 DEF ProcessCommand
<1>21. CASE ArmResponse
  BY <1>21 DEF ArmResponse
<1>22. CASE WriteResponse
  BY <1>22 DEF WriteResponse
<1>23. CASE CommandReceived
  BY <1>23 DEF CommandReceived, MaySend, Quiet
<1>24. CASE ReplyRead
  BY <1>24 DEF ReplyRead
<1>25. CASE DataReceived
  BY <1>25 DEF DataReceived
<1>26. CASE DataRead
  BY <1>26 DEF DataRead
<1>27. CASE BusReset
  BY <1>27 DEF BusReset, ClearFlags
<1>28. CASE Configure
  BY <1>28 DEF Configure, ClearFlags
<1>29. ASSUME NEW e \in Endpoint, ClearHalt(e) PROVE WindowInv'
  BY <1>29 DEF ClearHalt
<1>30. CASE UNCHANGED vars
  BY <1>30 DEF vars
<1> QED
  BY <1>1, <1>2, <1>3, <1>4, <1>5, <1>6, <1>7, <1>8, <1>9, <1>10, <1>11,
     <1>12, <1>13, <1>14, <1>15, <1>16, <1>17, <1>18, <1>19, <1>20, <1>21,
     <1>22, <1>23, <1>24, <1>25, <1>26, <1>27, <1>28, <1>29, <1>30
     DEF Next, Main, Interrupt

\* The operation stays the one that the phase of the host is about.
LEMMA OpNext ==
  CalmHost /\ Inv /\ Inv' /\ HostInv /\ [Next]_vars => OpInv'
<1> SUFFICES ASSUME CalmHost, Inv, Inv', HostInv, [Next]_vars PROVE OpInv'
  OBVIOUS
<1> USE UsbAssumption, Literals, StartStop, Endpoints
    DEF CalmHost, HostInv, CalmInv, ReplyInv, WindowInv, OpInv,
        Inv, TypeOK, PhaseInv, FlagInv, RequestInv, ResponseInv, DataInInv,
        DataOutInv, CommandInv, Holding, InRest, WantsIn, WantsOut, Busy, Replying, InFlight, AnsweredOp,
        CanStart, AfterDataOut, AfterDataIn, CommandId, bus, requestFlags,
        responseFlags, dataOutFlags, buffers, task, host, events
<1>1. CASE Top
  BY <1>1 DEF Top
<1>2. CASE ArmRequest
  BY <1>2 DEF ArmRequest
<1>3. CASE ArmRequestDone
  BY <1>3 DEF ArmRequestDone
<1>4. CASE ExpireResponse
  BY <1>4 DEF ExpireResponse
<1>5. CASE KeepResponse
  BY <1>5 DEF KeepResponse
<1>6. CASE AbortExpiredResponse
  BY <1>6 DEF AbortExpiredResponse
<1>7. CASE ServiceAbandonedDataIn
  BY <1>7 DEF ServiceAbandonedDataIn
<1>8. CASE RetireDataIn
  BY <1>8 DEF RetireDataIn
<1>9. CASE AbortDataIn
  BY <1>9 DEF AbortDataIn
<1>10. CASE RecoverResponse
  BY <1>10 DEF RecoverResponse
<1>11. CASE AbortAbandonedResponse
  BY <1>11 DEF AbortAbandonedResponse
<1>12. CASE TakeDataOut
  BY <1>12 DEF TakeDataOut
<1>13. CASE SubmitDataOut
  BY <1>13, SubmitFields DEF SubmitDataOut
<1>14. CASE RearmDataOut
  BY <1>14 DEF RearmDataOut
<1>15. CASE StartDataOut
  BY <1>15 DEF StartDataOut
<1>16. CASE ServiceDataIn
  BY <1>16 DEF ServiceDataIn
<1>17. CASE PollDataIn
  <2>1. UNCHANGED <<phase, active, response, sent, left>> /\ ~data_in_pending
    BY <1>17 DEF PollDataIn
  <2>2. (pc' \in {"respond", "write"}) = FALSE /\ pc = "poll"
    BY <1>17 DEF PollDataIn
  <2>3. CASE phase \in {"idle", "out"}
    BY <1>17, <2>1, <2>2, <2>3, PollFields DEF PollDataIn
  <2>4. CASE phase = "status"
    BY <1>17, <2>1, <2>2, <2>4, PollFields DEF PollDataIn
  <2>5. CASE phase = "in"
    <3>1. op.kind = "read" /\ ~op.reply /\ op.left = left /\ op.id = sent
      BY <1>17, <2>1, <2>2, <2>5, PollFields, OperationFields
    <3>2. /\ op'.id = sent /\ ~op'.reply /\ op'.kind \in {"read", "none"}
          /\ op'.kind = "read" => op'.left + InFlight' = left
          /\ data_in_pending' => in_packet'.id = sent
      BY <1>17, <2>1, <3>1, PollFields, OperationFields
    <3> QED
      BY <2>1, <2>2, <2>5, <3>1, <3>2
  <2>6. CASE phase = "reply"
    <3>0. response.kind \in Outcome /\ op.left \in Nat /\ (op.reply \/ op.kind = "read")
      BY PollFields, <1>17, OperationFields
    <3>1. op.kind = "read" /\ ~op.reply /\ op.left = MaxPacket /\ op.id = sent
      BY <2>1, <2>2, <2>6, <3>0 DEF Outcome
    <3>2. /\ op'.id = sent /\ ~op'.reply /\ op'.kind \in {"read", "none"}
          /\ op'.kind = "read" => op'.left + InFlight' = MaxPacket
          /\ data_in_pending' => in_packet'.id = sent
      BY <1>17, <2>1, <3>1, PollFields, OperationFields
    <3> QED
      BY <2>1, <2>2, <2>6, <3>1, <3>2
  <2> QED
    BY <2>3, <2>4, <2>5, <2>6
<1>18. CASE StartDataIn
  BY <1>18 DEF StartDataIn
<1>19. CASE CheckRequest
  BY <1>19 DEF CheckRequest
<1>20. CASE ProcessCommand
  <2>1. UNCHANGED <<phase, active, sent, left, data_in_pending>> /\ command = sent /\ phase = "reply"
    BY <1>20 DEF ProcessCommand
  <2>2. ~Replying /\ InRest /\ Replying'
    BY <1>20, <2>1 DEF ProcessCommand
  <2>3. PICK o \in Outcome :
          /\ response' = [id |-> command, kind |-> o]
          /\ op' = CASE o = "plain" -> op
                     [] o = "clear" -> NoOperation
                     [] o = "read"  -> [id |-> command, kind |-> o,
                                        left |-> MaxPacket, reply |-> FALSE]
                     [] OTHER       -> [id |-> command, kind |-> o,
                                        left |-> MaxPacket, reply |-> op.reply]
    BY <1>20 DEF ProcessCommand
  <2>4. CASE o \in {"plain", "clear"}
    BY <2>1, <2>2, <2>3, <2>4 DEF NoOperation
  <2>5. CASE o = "read"
    BY <2>1, <2>2, <2>3, <2>5
  <2>6. CASE o \in {"loader", "flash"}
    BY <2>1, <2>2, <2>3, <2>6
  <2> QED
    BY <2>4, <2>5, <2>6 DEF Outcome
<1>21. CASE ArmResponse
  BY <1>21 DEF ArmResponse
<1>22. CASE WriteResponse
  BY <1>22 DEF WriteResponse
<1>23. CASE CommandReceived
  BY <1>23 DEF CommandReceived, MaySend, Quiet
<1>24. CASE ReplyRead
  <2>1. UNCHANGED <<op, response, sent, data_in_pending, in_packet, pc>> /\ phase = "reply" /\ Replying
    BY <1>24 DEF ReplyRead
  <2>2. ~Replying' /\ response.kind \in Outcome
    BY <1>24 DEF ReplyRead
  <2>3. CASE response.kind \in {"plain", "clear"}
    BY <1>24, <2>1, <2>2, <2>3 DEF ReplyRead
  <2>4. CASE response.kind \in {"loader", "flash"}
    BY <1>24, <2>1, <2>2, <2>4 DEF ReplyRead
  <2>5. CASE response.kind = "read"
    BY <1>24, <2>1, <2>2, <2>5 DEF ReplyRead
  <2> QED
    BY <2>2, <2>3, <2>4, <2>5 DEF Outcome
<1>25. CASE DataReceived
  BY <1>25 DEF DataReceived
<1>26. CASE DataRead
  <2>1. data_in_pending /\ ~data_in_pending' /\ UNCHANGED <<op, response, sent, pc>>
    BY <1>26 DEF DataRead
  <2>2. op.left \in Nat
    BY OperationFields
  <2>3. CASE phase = "in"
    BY <1>26, <2>1, <2>2, <2>3 DEF DataRead
  <2>4. CASE phase = "status"
    BY <1>26, <2>1, <2>4 DEF DataRead
  <2> QED
    BY <1>26, <2>3, <2>4 DEF DataRead
<1>27. CASE BusReset
  BY <1>27 DEF BusReset, ClearFlags
<1>28. CASE Configure
  BY <1>28 DEF Configure, ClearFlags
<1>29. ASSUME NEW e \in Endpoint, ClearHalt(e) PROVE OpInv'
  BY <1>29 DEF ClearHalt
<1>30. CASE UNCHANGED vars
  BY <1>30 DEF vars
<1> QED
  BY <1>1, <1>2, <1>3, <1>4, <1>5, <1>6, <1>7, <1>8, <1>9, <1>10, <1>11,
     <1>12, <1>13, <1>14, <1>15, <1>16, <1>17, <1>18, <1>19, <1>20, <1>21,
     <1>22, <1>23, <1>24, <1>25, <1>26, <1>27, <1>28, <1>29, <1>30
     DEF Next, Main, Interrupt

-----------------------------------------------------------------------------
(* The theorems *)

\* Initially nothing is open.
LEMMA InitHostInv == Init => HostInv
BY DEF Init, HostInv, CalmInv, ReplyInv, WindowInv, OpInv, Holding, InRest,
       WantsIn, Replying, Busy, NoOperation, Endpoint

\* With a patient host the session's operation is the host's, in every
\* reachable state.
THEOREM HostInvariance == CalmHost => (Spec => [](Inv /\ HostInv))
<1> SUFFICES ASSUME CalmHost PROVE Spec => [](Inv /\ HostInv)
  OBVIOUS
<1>1. Inv /\ Inv' /\ HostInv /\ [Next]_vars => HostInv'
  BY CalmNext, ReplyNext, WindowNext, OpNext DEF HostInv
<1> QED
  BY InitHostInv, Invariance, <1>1, PTL DEF Spec

\* A data OUT packet reaches the operation it was sent for, even when the
\* next command waits behind it, and a data IN packet that the host takes
\* comes from the host's own operation.
THEOREM DataMeetsItsOperation == CalmHost => (Spec => []DataReachesItsOperation)
<1> SUFFICES ASSUME CalmHost PROVE Spec => []DataReachesItsOperation
  OBVIOUS
<1>1. Inv /\ HostInv => DataReachesItsOperation
  BY DEF Inv, FlagInv, DataInInv, HostInv, CalmInv, WindowInv, OpInv, Holding,
         DataReachesItsOperation
<1> QED
  BY HostInvariance, <1>1, PTL

\* The reply that the host reads answers its last command.
THEOREM ReplyIsForLastCommand == CalmHost => (Spec => ReplyAnswersLastCommand)
<1> SUFFICES ASSUME CalmHost PROVE Spec => ReplyAnswersLastCommand
  OBVIOUS
<1>1. ASSUME Inv, HostInv, [Next]_vars, phase = "reply", phase' # "reply"
      PROVE  replied' = sent
  <2> USE <1>1 DEF bus, requestFlags, responseFlags, dataOutFlags, buffers,
          task, host, events
  <2>1. CASE ReplyRead
    BY <2>1 DEF ReplyRead, HostInv, ReplyInv, Replying
  <2>2. ~BusReset
    BY UsbAssumption DEF BusReset, HostInv, CalmInv, CalmHost
  <2>3. CASE CommandReceived \/ DataReceived \/ DataRead \/ Configure
             \/ \E e \in Endpoint : ClearHalt(e)
    BY <2>3 DEF CommandReceived, DataReceived, DataRead, Configure, ClearHalt
  <2>4. CASE Top \/ ArmRequest \/ ArmRequestDone \/ ExpireResponse
             \/ KeepResponse \/ AbortExpiredResponse \/ ServiceAbandonedDataIn
             \/ RetireDataIn \/ AbortDataIn
    BY <2>4 DEF Top, ArmRequest, ArmRequestDone, ExpireResponse, KeepResponse,
       AbortExpiredResponse, ServiceAbandonedDataIn, RetireDataIn, AbortDataIn
  <2>5. CASE RecoverResponse \/ AbortAbandonedResponse \/ TakeDataOut
             \/ SubmitDataOut \/ RearmDataOut \/ StartDataOut \/ ServiceDataIn
             \/ PollDataIn \/ StartDataIn
    BY <2>5 DEF RecoverResponse, AbortAbandonedResponse, TakeDataOut,
       SubmitDataOut, RearmDataOut, StartDataOut, ServiceDataIn, PollDataIn,
       StartDataIn
  <2>6. CASE CheckRequest \/ ProcessCommand \/ ArmResponse \/ WriteResponse
    BY <2>6 DEF CheckRequest, ProcessCommand, ArmResponse, WriteResponse
  <2>7. CASE UNCHANGED vars
    BY <2>7 DEF vars
  <2> QED
    BY <2>1, <2>2, <2>3, <2>4, <2>5, <2>6, <2>7 DEF Next, Main, Interrupt
<1>2. Inv /\ HostInv /\ [Next]_vars
        => [phase = "reply" /\ phase' # "reply" => replied' = sent]_vars
  BY <1>1
<1> QED
  BY HostInvariance, <1>2, PTL DEF Spec, ReplyAnswersLastCommand
=============================================================================
