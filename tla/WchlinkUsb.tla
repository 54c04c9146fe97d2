------------------------------ MODULE WchlinkUsb ------------------------------
(***************************************************************************)
(* The USB adapter (src/wchlink/usb/wchlink_usb.c) on top of the port      *)
(* driver's bulk endpoints (third_party/cherryusb_port).                   *)
(*                                                                         *)
(* Two actors of the device share the adapter's flags: the main loop,      *)
(* wchlink_usb_process, and the USB interrupt, whose callbacks set and     *)
(* clear flags between any two instructions of the loop.  The main loop is *)
(* cut at every point where an interrupt can be told apart: each access to *)
(* a flag that a callback writes, each endpoint call.  What runs with the  *)
(* interrupt disabled is one step.  A third actor, the host, completes the *)
(* transfers that the device has armed.                                    *)
(*                                                                         *)
(* Abstracted: packets are identified by the command they belong to; a     *)
(* transfer of an endpoint completes as a whole; the session is reduced to *)
(* the data phase it has open (what wchlink_session_next_data_io tells the *)
(* adapter); the response deadline may pass at any time (BspTime has the   *)
(* clock).  The CDC loopback shares no flag with the rest and is left out. *)
(***************************************************************************)
EXTENDS Naturals

CONSTANTS
  MaxCommand,  \* bound: commands the host sends
  MaxPacket,   \* packets of a data phase
  MaxReset,    \* bound: bus resets
  MaxHalt,     \* bound: CLEAR_FEATURE(ENDPOINT_HALT) requests
  Patient      \* TRUE: the host keeps to the command/reply/data order

ASSUME UsbAssumption ==
  /\ MaxCommand \in Nat \ {0}
  /\ MaxPacket \in Nat \ {0}
  /\ MaxReset \in Nat
  /\ MaxHalt \in Nat
  /\ Patient \in BOOLEAN

VARIABLES
  \* flags of the adapter, written by the main loop and by the callbacks
  configured, session_reset_pending,
  request_pending, request_armed,
  response_pending, response_recovery_pending, response_expiring,
  data_in_pending, data_out_active, data_out_pending,
  \* the port driver: endpoints with a transfer in progress, and buffers
  active, request, response, in_packet, out_packet,
  \* the main loop: position, return point of wchlink_arm_request, second
  \* half of the iteration, the copied request, last request taken
  pc, ret, tail, command, taken,
  \* the session's open data phase
  op,
  \* the host: last command sent, what it waits for, packets left in the
  \* phase, last reply it read, last command sent before
  \* the latest bus reset
  sent, phase, left, replied, mark,
  \* events so far
  resets, halts

bus == <<configured, session_reset_pending>>
requestFlags == <<request_pending, request_armed>>
responseFlags == <<response_pending, response_recovery_pending,
                   response_expiring>>
dataOutFlags == <<data_out_active, data_out_pending>>
buffers == <<request, response, in_packet, out_packet>>
task == <<command, taken>>
host == <<sent, phase, left, replied, mark>>
events == <<resets, halts>>
vars == <<bus, requestFlags, responseFlags, data_in_pending, dataOutFlags,
          active, buffers, pc, ret, tail, task, op, host, events>>

-----------------------------------------------------------------------------
(* Values *)

CommandId == 0 .. MaxCommand            \* 0: none
Endpoint == {"cmd_out", "cmd_in", "data_out", "data_in"}

\* What a command does to the data phase, as its reply tells the host:
\* nothing, close it, or open one of the three kinds.
Outcome == {"plain", "clear", "loader", "flash", "read"}
PhaseKind == {"none", "loader", "flash", "read"}

Operation == [id : CommandId, kind : PhaseKind, left : 0 .. MaxPacket,
              reply : BOOLEAN]
NoOperation == [id |-> 0, kind |-> "none", left |-> 0, reply |-> FALSE]

MainStep == {"top", "arm", "armed", "timeout", "timeout_abort", "abandon",
             "retire", "retire_abort", "recover", "recover_abort", "submit",
             "submit_data", "rearm_out", "start_out", "data_in", "poll",
             "start_in", "check", "process", "respond", "write"}

\* wchlink_transfer_next_io, as wchlink_session_next_data_io passes it on.
WantsIn == op.reply \/ op.kind = "read"
WantsOut == op.kind \in {"loader", "flash"}

-----------------------------------------------------------------------------
(* Port driver.  An endpoint is enabled exactly while the device is        *)
(* configured: the bus reset interrupt closes all endpoints and clears     *)
(* `configured`, SET_CONFIGURATION opens them and sets it.                 *)

CanStart(e) == configured /\ ~active[e]
Start(e) == active' = [active EXCEPT ![e] = TRUE]
Stop(e) == active' = [active EXCEPT ![e] = FALSE]

-----------------------------------------------------------------------------
(* Main loop, first half: housekeeping before the request is looked at.    *)

\* The first tests of wchlink_usb_process.  The reset of the session closes
\* whatever data phase was open.
Top ==
  /\ pc = "top"
  /\ session_reset_pending' = FALSE
  /\ op' = IF session_reset_pending THEN NoOperation ELSE op
  /\ tail' = FALSE
  /\ IF configured THEN pc' = "arm" /\ ret' = "timeout"
                   ELSE UNCHANGED <<pc, ret>>
  /\ UNCHANGED <<configured, requestFlags, responseFlags, data_in_pending,
                 dataOutFlags, active, buffers, task, host, events>>

\* Fault: the endpoint is armed although a request still waits in the buffer.
ArmRequest_Pending ==
  /\ pc = "arm"
  /\ IF ~request_armed /\ CanStart("cmd_out")
       THEN Start("cmd_out") /\ pc' = "armed"
       ELSE pc' = ret /\ UNCHANGED active
  /\ UNCHANGED <<bus, requestFlags, responseFlags, data_in_pending,
                 dataOutFlags, buffers, ret, tail, task, op, host, events>>

\* wchlink_arm_request: the read is started, and the flag that says so is
\* set by the NEXT step.
ArmRequest ==
  /\ pc = "arm"
  /\ IF ~request_armed /\ ~request_pending /\ CanStart("cmd_out")
       THEN Start("cmd_out") /\ pc' = "armed"
       ELSE pc' = ret /\ UNCHANGED active
  /\ UNCHANGED <<bus, requestFlags, responseFlags, data_in_pending,
                 dataOutFlags, buffers, ret, tail, task, op, host, events>>

ArmRequestDone ==
  /\ pc = "armed"
  /\ request_armed' = TRUE
  /\ pc' = ret
  /\ UNCHANGED <<bus, request_pending, responseFlags, data_in_pending,
                 dataOutFlags, active, buffers, ret, tail, task, op, host,
                 events>>

\* wchlink_service_response_timeout.  The deadline of a reply may have passed
\* or not; a patient host reads its replies in time.
ExpireResponse ==
  /\ pc = "timeout"
  /\ response_pending /\ response_expiring /\ ~Patient
  /\ response_pending' = FALSE
  /\ response_expiring' = FALSE
  /\ pc' = "timeout_abort"
  /\ UNCHANGED <<bus, requestFlags, response_recovery_pending,
                 data_in_pending, dataOutFlags, active, buffers, ret, tail,
                 task, op, host, events>>

KeepResponse ==
  /\ pc = "timeout"
  /\ pc' = "abandon"
  /\ UNCHANGED <<bus, requestFlags, responseFlags, data_in_pending,
                 dataOutFlags, active, buffers, ret, tail, task, op, host,
                 events>>

AbortExpiredResponse ==
  /\ pc = "timeout_abort"
  /\ Stop("cmd_in")
  /\ pc' = "arm" /\ ret' = "abandon"
  /\ UNCHANGED <<bus, requestFlags, responseFlags, data_in_pending,
                 dataOutFlags, buffers, tail, task, op, host, events>>

\* wchlink_service_abandoned_data_in: a new command ends the data phase whose
\* IN side is still open.  The producer stops first, then the flag and the
\* endpoint are recovered.
ServiceAbandonedDataIn ==
  /\ pc = "abandon"
  /\ IF request_pending /\ (data_in_pending \/ WantsIn)
       THEN op' = NoOperation /\ pc' = "retire"
       ELSE pc' = "recover" /\ UNCHANGED op
  /\ UNCHANGED <<bus, requestFlags, responseFlags, data_in_pending,
                 dataOutFlags, active, buffers, ret, tail, task, host, events>>

RetireDataIn ==
  /\ pc = "retire"
  /\ data_in_pending' = FALSE
  /\ pc' = IF data_in_pending THEN "retire_abort" ELSE "recover"
  /\ UNCHANGED <<bus, requestFlags, responseFlags, dataOutFlags, active,
                 buffers, ret, tail, task, op, host, events>>

AbortDataIn ==
  /\ pc = "retire_abort"
  /\ Stop("data_in")
  /\ pc' = "recover"
  /\ UNCHANGED <<bus, requestFlags, responseFlags, data_in_pending,
                 dataOutFlags, buffers, ret, tail, task, op, host, events>>

-----------------------------------------------------------------------------
(* wchlink_service_data_out: called before the request is looked at and,   *)
(* after service_data_in, at the end of the iteration (tail).              *)

AfterDataOut == IF tail THEN "top" ELSE "data_in"

\* Fault: data OUT is left for after the command when one waits.
RecoverResponse_DataLate ==
  /\ pc = "recover"
  /\ IF configured /\ response_recovery_pending
       THEN /\ response_recovery_pending' = FALSE
            /\ response_pending' = FALSE
            /\ pc' = "recover_abort"
       ELSE /\ pc' = IF configured /\ (tail \/ ~request_pending)
                       THEN "submit" ELSE AfterDataOut
            /\ UNCHANGED <<response_pending, response_recovery_pending>>
  /\ UNCHANGED <<bus, requestFlags, response_expiring, data_in_pending,
                 dataOutFlags, active, buffers, ret, tail, task, op, host,
                 events>>

RecoverResponse ==
  /\ pc = "recover"
  /\ IF configured /\ response_recovery_pending
       THEN /\ response_recovery_pending' = FALSE
            /\ response_pending' = FALSE
            /\ pc' = "recover_abort"
       ELSE /\ pc' = IF configured THEN "submit" ELSE AfterDataOut
            /\ UNCHANGED <<response_pending, response_recovery_pending>>
  /\ UNCHANGED <<bus, requestFlags, response_expiring, data_in_pending,
                 dataOutFlags, active, buffers, ret, tail, task, op, host,
                 events>>

\* Fault: the flags are recovered, the endpoint is not.
AbortAbandonedResponse_FlagsOnly ==
  /\ pc = "recover_abort"
  /\ pc' = "submit"
  /\ UNCHANGED <<bus, requestFlags, responseFlags, data_in_pending,
                 dataOutFlags, active, buffers, ret, tail, task, op, host,
                 events>>

AbortAbandonedResponse ==
  /\ pc = "recover_abort"
  /\ Stop("cmd_in")
  /\ pc' = "submit"
  /\ UNCHANGED <<bus, requestFlags, responseFlags, data_in_pending,
                 dataOutFlags, buffers, ret, tail, task, op, host, events>>

TakeDataOut ==
  /\ pc = "submit"
  /\ data_out_pending' = FALSE
  /\ pc' = IF data_out_pending THEN "submit_data" ELSE "rearm_out"
  /\ UNCHANGED <<bus, requestFlags, responseFlags, data_in_pending,
                 data_out_active, active, buffers, ret, tail, task, op, host,
                 events>>

\* Fault: a packet outside a data OUT phase is counted.
SubmitDataOut_AnyTime ==
  /\ pc = "submit_data"
  /\ op' = [op EXCEPT !.left = @ - 1, !.kind = IF op.left = 1 THEN "none" ELSE @]
  /\ pc' = "rearm_out"
  /\ UNCHANGED <<bus, requestFlags, responseFlags, data_in_pending,
                 dataOutFlags, active, buffers, ret, tail, task, host, events>>

\* wchlink_session_submit_data_out.  Outside a data OUT phase the packet is
\* ignored.  A loader phase counts packets and answers nothing; one of
\* variable length stays open until the next command.  In a flash phase each
\* packet stands for a chunk, programmed and answered, and a failed chunk
\* ends the phase.
SubmitDataOut ==
  /\ pc = "submit_data"
  /\ \/ /\ ~WantsOut \/ (op.kind = "loader" /\ op.left = 1)
        /\ UNCHANGED op
     \/ /\ WantsOut /\ op.left > 1
        /\ op' = [op EXCEPT !.left = @ - 1, !.reply = @ \/ op.kind = "flash"]
     \/ /\ op.kind = "flash" \/ (op.kind = "loader" /\ op.left = 1)
        /\ op' = [op EXCEPT !.kind = "none", !.left = 0,
                            !.reply = @ \/ op.kind = "flash"]
  /\ pc' = "rearm_out"
  /\ UNCHANGED <<bus, requestFlags, responseFlags, data_in_pending,
                 dataOutFlags, active, buffers, ret, tail, task, host, events>>

\* Fault: the buffer is armed again while a packet waits in it.
RearmDataOut_Pending ==
  /\ pc = "rearm_out"
  /\ IF WantsOut /\ ~data_out_active
       THEN data_out_active' = TRUE /\ pc' = "start_out"
       ELSE pc' = AfterDataOut /\ UNCHANGED data_out_active
  /\ UNCHANGED <<bus, requestFlags, responseFlags, data_in_pending,
                 data_out_pending, active, buffers, ret, tail, task, op, host,
                 events>>

\* Here, unlike in wchlink_arm_request, the flag is set before the read is
\* started and taken back when that fails.
RearmDataOut ==
  /\ pc = "rearm_out"
  /\ IF WantsOut /\ ~data_out_active /\ ~data_out_pending
       THEN data_out_active' = TRUE /\ pc' = "start_out"
       ELSE pc' = AfterDataOut /\ UNCHANGED data_out_active
  /\ UNCHANGED <<bus, requestFlags, responseFlags, data_in_pending,
                 data_out_pending, active, buffers, ret, tail, task, op, host,
                 events>>

StartDataOut ==
  /\ pc = "start_out"
  /\ IF CanStart("data_out")
       THEN Start("data_out") /\ UNCHANGED data_out_active
       ELSE data_out_active' = FALSE /\ UNCHANGED active
  /\ pc' = AfterDataOut
  /\ UNCHANGED <<bus, requestFlags, responseFlags, data_in_pending,
                 data_out_pending, buffers, ret, tail, task, op, host, events>>

-----------------------------------------------------------------------------
(* wchlink_service_data_in *)

AfterDataIn == IF tail THEN "recover" ELSE "check"

ServiceDataIn ==
  /\ pc = "data_in"
  /\ pc' = IF configured /\ ~data_in_pending /\ WantsIn THEN "poll"
           ELSE AfterDataIn
  /\ UNCHANGED <<bus, requestFlags, responseFlags, data_in_pending,
                 dataOutFlags, active, buffers, ret, tail, task, op, host,
                 events>>

\* wchlink_session_poll_data_in: a pending status goes before the data of a
\* read; a read of the target may fail, which ends the phase with no packet.
PollDataIn ==
  /\ pc = "poll"
  /\ \/ /\ op.reply
        /\ op' = [op EXCEPT !.reply = FALSE]
        /\ in_packet' = [id |-> op.id, last |-> op.kind = "none"]
        /\ data_in_pending' = TRUE /\ pc' = "start_in"
     \/ /\ ~op.reply
        /\ op' = [op EXCEPT !.left = @ - 1,
                            !.kind = IF op.left = 1 THEN "none" ELSE @]
        /\ in_packet' = [id |-> op.id, last |-> op.left = 1]
        /\ data_in_pending' = TRUE /\ pc' = "start_in"
     \/ /\ ~op.reply
        /\ op' = [op EXCEPT !.left = 0, !.kind = "none"]
        /\ pc' = AfterDataIn
        /\ UNCHANGED <<in_packet, data_in_pending>>
  /\ UNCHANGED <<bus, requestFlags, responseFlags, dataOutFlags, active,
                 request, response, out_packet, ret, tail, task, host, events>>

StartDataIn ==
  /\ pc = "start_in"
  /\ IF CanStart("data_in")
       THEN Start("data_in") /\ UNCHANGED data_in_pending
       ELSE data_in_pending' = FALSE /\ UNCHANGED active
  /\ pc' = AfterDataIn
  /\ UNCHANGED <<bus, requestFlags, responseFlags, dataOutFlags, buffers, ret,
                 tail, task, op, host, events>>

-----------------------------------------------------------------------------
(* Main loop, second half: the request.                                    *)

\* Fault: a request is taken while a reply is still in its endpoint.
CheckRequest_ReplyLeft ==
  /\ pc = "check"
  /\ IF request_pending
       THEN /\ command' = request /\ taken' = request
            /\ request_pending' = FALSE
            /\ pc' = "arm" /\ ret' = "process"
       ELSE pc' = "top" /\ UNCHANGED <<request_pending, task, ret>>
  /\ UNCHANGED <<bus, request_armed, responseFlags, data_in_pending,
                 dataOutFlags, active, buffers, tail, op, host, events>>

\* Fault: the request stays marked as pending after it was copied.
CheckRequest_Twice ==
  /\ pc = "check"
  /\ IF request_pending /\ ~response_pending
       THEN command' = request /\ taken' = request /\ pc' = "process"
       ELSE pc' = "top" /\ UNCHANGED task
  /\ UNCHANGED <<bus, requestFlags, responseFlags, data_in_pending, ret,
                 dataOutFlags, active, buffers, tail, op, host, events>>

\* The request is copied, and its endpoint is armed again before the command
\* runs.
CheckRequest ==
  /\ pc = "check"
  /\ IF request_pending /\ ~response_pending
       THEN /\ command' = request /\ taken' = request
            /\ request_pending' = FALSE
            /\ pc' = "arm" /\ ret' = "process"
       ELSE pc' = "top" /\ UNCHANGED <<request_pending, task, ret>>
  /\ UNCHANGED <<bus, request_armed, responseFlags, data_in_pending,
                 dataOutFlags, active, buffers, tail, op, host, events>>

\* Fault: a command that fails leaves the previous reply in the buffer.
ProcessCommand_OldReply ==
  /\ pc = "process"
  /\ pc' = "respond"
  /\ \/ response' = [id |-> command, kind |-> "plain"]
     \/ UNCHANGED response
  /\ UNCHANGED <<bus, requestFlags, responseFlags, data_in_pending,
                 dataOutFlags, active, request, in_packet, out_packet, ret,
                 tail, task, op, host, events>>

\* wchlink_session_process.  A command leaves the data phase alone, closes
\* it, or opens one; only wchlink_transfer_prepare_* drops a status that is
\* still to be read.
ProcessCommand ==
  /\ pc = "process"
  /\ \E o \in Outcome :
       /\ response' = [id |-> command, kind |-> o]
       /\ op' = CASE o = "plain" -> op
                  [] o = "clear" -> NoOperation
                  [] o = "read"  -> [id |-> command, kind |-> o,
                                     left |-> MaxPacket, reply |-> FALSE]
                  [] OTHER       -> [id |-> command, kind |-> o,
                                     left |-> MaxPacket, reply |-> op.reply]
  /\ pc' = "respond"
  /\ UNCHANGED <<bus, requestFlags, responseFlags, data_in_pending,
                 dataOutFlags, active, request, in_packet, out_packet, ret,
                 tail, task, host, events>>

\* Fault: the reply has no lifetime.
ArmResponse_NoLifetime ==
  /\ pc = "respond"
  /\ response_pending' = TRUE
  /\ pc' = "write"
  /\ UNCHANGED <<bus, requestFlags, response_recovery_pending,
                 response_expiring, data_in_pending, dataOutFlags, active,
                 buffers, ret, tail, task, op, host, events>>

ArmResponse ==
  /\ pc = "respond"
  /\ response_pending' = TRUE
  /\ response_expiring' = TRUE
  /\ pc' = "write"
  /\ UNCHANGED <<bus, requestFlags, response_recovery_pending,
                 data_in_pending, dataOutFlags, active, buffers, ret, tail,
                 task, op, host, events>>

WriteResponse ==
  /\ pc = "write"
  /\ tail' = TRUE
  /\ command' = 0
  /\ IF CanStart("cmd_in")
       THEN /\ Start("cmd_in")
            /\ pc' = "data_in"
            /\ UNCHANGED <<response_pending, response_expiring, ret>>
       ELSE /\ response_pending' = FALSE
            /\ response_expiring' = FALSE
            /\ pc' = "arm" /\ ret' = "data_in"
            /\ UNCHANGED active
  /\ UNCHANGED <<bus, requestFlags, response_recovery_pending,
                 data_in_pending, dataOutFlags, buffers, taken, op, host,
                 events>>

Main ==
  \/ Top \/ ArmRequest \/ ArmRequestDone
  \/ ExpireResponse \/ KeepResponse \/ AbortExpiredResponse
  \/ ServiceAbandonedDataIn \/ RetireDataIn \/ AbortDataIn
  \/ RecoverResponse \/ AbortAbandonedResponse \/ TakeDataOut \/ SubmitDataOut
  \/ RearmDataOut \/ StartDataOut
  \/ ServiceDataIn \/ PollDataIn \/ StartDataIn
  \/ CheckRequest \/ ProcessCommand \/ ArmResponse \/ WriteResponse

-----------------------------------------------------------------------------
(* USB interrupt.  A transfer that the host completes runs its callback.   *)

\* Nothing that the host waits for can come any more: it gives up after its
\* own timeout.
Quiet ==
  /\ ~session_reset_pending
  /\ command = 0 /\ ~request_pending /\ ~response_pending
  /\ ~data_out_pending /\ pc # "submit_data"
  /\ phase \in {"status", "in"} => ~data_in_pending /\ ~WantsIn
  /\ phase = "out" => ~active["data_out"] /\ ~WantsOut

\* The steps between the test of data_out_pending and the test of
\* request_pending in the same iteration.
RequestWindow ==
  ~tail /\ pc \in {"rearm_out", "start_out", "data_in", "poll", "start_in",
                   "check"}

\* When the host may send its next command.  A patient one waits for the end
\* of the exchange, does not hit the two instructions of
\* wchlink_arm_request after SET_CONFIGURATION, and does not complete a data
\* packet and a command within one RequestWindow, which is shorter than the
\* packets on the wire.
MaySend ==
  Patient => /\ phase = "idle" \/ Quiet
             /\ pc # "armed"
             /\ ~(data_out_pending /\ RequestWindow)

\* Fault: the callback leaves request_armed set.
CommandReceived_StaysArmed ==
  /\ active["cmd_out"]
  /\ sent < MaxCommand /\ MaySend
  /\ Stop("cmd_out")
  /\ response_recovery_pending' = (response_recovery_pending \/ response_pending)
  /\ request' = sent + 1
  /\ request_pending' = TRUE
  /\ sent' = sent + 1
  /\ phase' = "reply" /\ left' = 0
  /\ UNCHANGED <<bus, request_armed, response_pending, response_expiring,
                 data_in_pending, dataOutFlags, response, in_packet, out_packet,
                 pc, ret, tail, task, op, replied, mark, events>>

\* wchlink_out_callback
CommandReceived ==
  /\ active["cmd_out"]
  /\ sent < MaxCommand /\ MaySend
  /\ Stop("cmd_out")
  /\ request_armed' = FALSE
  /\ response_recovery_pending' = (response_recovery_pending \/ response_pending)
  /\ request' = sent + 1
  /\ request_pending' = TRUE
  /\ sent' = sent + 1
  /\ phase' = "reply" /\ left' = 0
  /\ UNCHANGED <<bus, response_pending, response_expiring, data_in_pending,
                 dataOutFlags, response, in_packet, out_packet, pc, ret, tail,
                 task, op, replied, mark, events>>

\* wchlink_in_callback.  The reply tells the host which phase follows.
ReplyRead ==
  /\ active["cmd_in"] /\ phase = "reply"
  /\ Stop("cmd_in")
  /\ response_pending' = FALSE
  /\ response_recovery_pending' = FALSE
  /\ response_expiring' = FALSE
  /\ replied' = response.id
  /\ phase' = CASE response.kind \in {"loader", "flash"} -> "out"
                [] response.kind = "read" -> "in"
                [] OTHER -> "idle"
  /\ left' = IF response.kind \in {"plain", "clear"} THEN 0 ELSE MaxPacket
  /\ UNCHANGED <<bus, requestFlags, data_in_pending, dataOutFlags, buffers,
                 pc, ret, tail, task, op, sent, mark, events>>

\* Fault: the callback leaves data_out_active set.
DataReceived_StaysActive ==
  /\ active["data_out"] /\ phase = "out"
  /\ Stop("data_out")
  /\ data_out_pending' = TRUE
  /\ out_packet' = sent
  /\ left' = left - 1
  /\ phase' = IF response.kind = "flash" THEN "status"
              ELSE IF left = 1 THEN "idle" ELSE "out"
  /\ UNCHANGED <<bus, requestFlags, responseFlags, data_in_pending, request,
                 data_out_active, response, in_packet, pc, ret, tail, task, op,
                 sent, replied, mark, events>>

\* wchlink_data_out_callback.  In a flash phase the host reads the status of
\* each chunk before it sends the next one.
DataReceived ==
  /\ active["data_out"] /\ phase = "out"
  /\ Stop("data_out")
  /\ data_out_active' = FALSE
  /\ data_out_pending' = TRUE
  /\ out_packet' = sent
  /\ left' = left - 1
  /\ phase' = IF response.kind = "flash" THEN "status"
              ELSE IF left = 1 THEN "idle" ELSE "out"
  /\ UNCHANGED <<bus, requestFlags, responseFlags, data_in_pending, request,
                 response, in_packet, pc, ret, tail, task, op, sent, replied,
                 mark, events>>

\* wchlink_data_in_callback
DataRead ==
  /\ active["data_in"] /\ phase \in {"status", "in"}
  /\ Stop("data_in")
  /\ data_in_pending' = FALSE
  /\ left' = IF phase = "in" THEN left - 1 ELSE IF in_packet.last THEN 0 ELSE left
  /\ phase' = IF phase = "in" THEN (IF left = 1 THEN "idle" ELSE "in")
              ELSE IF in_packet.last \/ left = 0 THEN "idle" ELSE "out"
  /\ UNCHANGED <<bus, requestFlags, responseFlags, dataOutFlags, buffers, pc,
                 ret, tail, task, op, sent, replied, mark, events>>

\* The resets of the adapter's flags in wchlink_event_handler.
ClearFlags ==
  /\ request_pending' = FALSE /\ request_armed' = FALSE
  /\ response_pending' = FALSE /\ response_recovery_pending' = FALSE
  /\ response_expiring' = FALSE
  /\ data_in_pending' = FALSE
  /\ data_out_active' = FALSE /\ data_out_pending' = FALSE

\* x035_usb_handle_bus_reset, then USBD_EVENT_RESET.
BusReset ==
  /\ resets < MaxReset
  /\ resets' = resets + 1
  /\ active' = [e \in Endpoint |-> FALSE]
  /\ configured' = FALSE
  /\ ClearFlags
  /\ session_reset_pending' = TRUE
  /\ phase' = "idle" /\ left' = 0 /\ mark' = sent
  /\ UNCHANGED <<buffers, pc, ret, tail, task, op, sent, replied, halts>>

\* SET_CONFIGURATION: the endpoints are opened, then USBD_EVENT_CONFIGURED.
\* Enumeration takes milliseconds: since the bus reset the loop has left the
\* instruction it was at, unless it is inside a long RVSWD transaction.
Configure ==
  /\ ~configured
  /\ pc \in {"top", "submit_data", "poll", "process"}
  /\ configured' = TRUE
  /\ ClearFlags
  /\ UNCHANGED <<session_reset_pending, active, buffers, pc, ret, tail, task,
                 op, host, events>>

\* CLEAR_FEATURE(ENDPOINT_HALT): usbd_ep_clear_stall drops the transfer; the
\* adapter is not told.
ClearHalt(e) ==
  /\ configured /\ halts < MaxHalt
  /\ halts' = halts + 1
  /\ Stop(e)
  /\ UNCHANGED <<bus, requestFlags, responseFlags, data_in_pending,
                 dataOutFlags, buffers, pc, ret, tail, task, op, host, resets>>

Interrupt ==
  \/ CommandReceived \/ ReplyRead \/ DataReceived \/ DataRead
  \/ BusReset \/ Configure \/ \E e \in Endpoint : ClearHalt(e)

-----------------------------------------------------------------------------
(* Specification *)

Init ==
  /\ configured = FALSE /\ session_reset_pending = FALSE
  /\ request_pending = FALSE /\ request_armed = FALSE
  /\ response_pending = FALSE /\ response_recovery_pending = FALSE
  /\ response_expiring = FALSE
  /\ data_in_pending = FALSE
  /\ data_out_active = FALSE /\ data_out_pending = FALSE
  /\ active = [e \in Endpoint |-> FALSE]
  /\ request = 0
  /\ response = [id |-> 0, kind |-> "plain"]
  /\ in_packet = [id |-> 0, last |-> FALSE]
  /\ out_packet = 0
  /\ pc = "top" /\ ret = "timeout" /\ tail = FALSE
  /\ command = 0 /\ taken = 0
  /\ op = NoOperation
  /\ sent = 0 /\ phase = "idle" /\ left = 0 /\ replied = 0 /\ mark = 0
  /\ resets = 0 /\ halts = 0

Next == Main \/ Interrupt

Spec == Init /\ [][Next]_vars

\* The device's own progress: the loop never stops, and time passes, so that
\* the test of the deadline cannot fail for ever.
DeviceFairness ==
  /\ WF_vars(Main)
  /\ SF_vars(ExpireResponse)

\* A host that has a transfer submitted completes it when the device is
\* ready, and enumeration completes.
HostFairness ==
  /\ WF_vars(Configure)
  /\ WF_vars(ReplyRead)
  /\ WF_vars(DataReceived)
  /\ WF_vars(DataRead)

DeviceSpec == Spec /\ DeviceFairness
FairSpec == Spec /\ DeviceFairness /\ HostFairness

-----------------------------------------------------------------------------
(* Properties *)

\* The adapter's state stays within its types.
TypeOK ==
  /\ configured \in BOOLEAN /\ session_reset_pending \in BOOLEAN
  /\ request_pending \in BOOLEAN /\ request_armed \in BOOLEAN
  /\ response_pending \in BOOLEAN /\ response_recovery_pending \in BOOLEAN
  /\ response_expiring \in BOOLEAN
  /\ data_in_pending \in BOOLEAN
  /\ data_out_active \in BOOLEAN /\ data_out_pending \in BOOLEAN
  /\ active \in [Endpoint -> BOOLEAN]
  /\ request \in CommandId
  /\ response \in [id : CommandId, kind : Outcome]
  /\ in_packet \in [id : CommandId, last : BOOLEAN]
  /\ out_packet \in CommandId
  /\ pc \in MainStep
  /\ ret \in {"timeout", "abandon", "process", "data_in"}
  /\ tail \in BOOLEAN
  /\ command \in CommandId /\ taken \in CommandId
  /\ op \in Operation
  /\ sent \in CommandId
  /\ phase \in {"idle", "reply", "out", "status", "in"}
  /\ left \in 0 .. MaxPacket
  /\ replied \in CommandId /\ mark \in CommandId
  /\ resets \in 0 .. MaxReset /\ halts \in 0 .. MaxHalt

\* An endpoint with a transfer in progress has its flag set, and while the
\* host has cleared no halt a set flag has its transfer, except between the
\* two writes that change the pair.  Only request_armed may outlive the
\* transfer (see CommandEndpointListens).  A pair that came apart would leave
\* an endpoint that no service function of wchlink_usb.c arms or aborts again.
FlagsTrackEndpoints ==
  /\ active["cmd_in"] /\ pc \notin {"timeout_abort", "recover_abort"}
       => response_pending
  /\ active["data_in"] /\ pc # "retire_abort" => data_in_pending
  /\ active["data_out"] => data_out_active
  /\ active["cmd_out"] /\ pc # "armed" => request_armed
  /\ halts = 0 =>
       /\ response_pending => active["cmd_in"] \/ pc = "write"
       /\ data_in_pending => active["data_in"] \/ pc = "start_in"
       /\ data_out_active => active["data_out"] \/ pc = "start_out"

\* The endpoint's DMA and the main loop never use the same buffer: a request
\* that waits is not received over, a reply is not rebuilt while it is being
\* sent, a data packet is not received over while the session reads it, and
\* a data packet is not produced over one that is being sent.
BuffersNotShared ==
  /\ request_pending => ~active["cmd_out"]
  /\ pc = "process" => ~active["cmd_in"]
  /\ data_out_pending \/ pc = "submit_data" => ~active["data_out"]
  /\ pc = "poll" => ~active["data_in"]

\* A command whose packet was acknowledged is taken up exactly in its turn:
\* it waits in the request buffer or was taken, and every command before it
\* in this configuration was taken.  Only a bus reset may drop one.
AcceptedCommandKept ==
  sent > mark =>
    \/ taken = sent
    \/ request_pending /\ request = sent /\ (taken = sent - 1 \/ mark = sent - 1)

\* Once a command of the current configuration has been taken up, no reply
\* to a command from before the bus reset is left in the endpoint
\* (wchlink_response_recovery_pending and its comment in the callback).
StaleReplyRetired == taken > mark /\ active["cmd_in"] => response.id > mark

\* The adapter implements the mailbox.
Mailbox == INSTANCE UsbMailbox WITH
  inbox <- IF request_pending THEN request ELSE 0,
  work <- command,
  outbox <- IF active["cmd_in"] THEN response.id ELSE 0

MailboxSpec == Mailbox!MailSpec

\* With a patient host and no bus reset, the reply the host reads is the one
\* to its last command.  (A command that a bus reset overtakes while it runs
\* still answers, into the next configuration.)
ReplyAnswersLastCommand ==
  [][phase = "reply" /\ phase' # "reply" => replied' = sent]_vars

\* With a patient host, a data OUT packet reaches the operation it was sent
\* for, and the data IN packet offered comes from the host's own operation.
DataReachesItsOperation ==
  /\ pc = "submit_data" => out_packet = op.id
  /\ phase \in {"status", "in"} /\ active["data_in"] => in_packet.id = sent

\* With a patient host, no exchange hangs: the host gets to the end of it,
\* or the device is at rest with nothing more to come.
ExchangeEnds == (phase # "idle") ~> (phase = "idle" \/ Quiet)

\* With any host, one that has gone away included, a command that arrived is
\* taken up or dropped by a bus reset: an unread reply does not hold it up
\* for ever (the comment of wchlink_service_response_timeout).
CommandNotBlocked == request_pending ~> ~request_pending

\* "Callbacks only set flags, the main loop decides when an endpoint is armed
\* again" (wchlink_usb.c:520), and "after halt is cleared a new endpoint
\* session starts" (usb_ch32x035_dc_usbfs.c:867): a configured device listens
\* for commands again and again.
CommandEndpointListens ==
  []<>(active["cmd_out"] \/ request_pending \/ ~configured)

-----------------------------------------------------------------------------
(* The inductive invariant behind the safety properties (proved in         *)
(* WchlinkUsbProofs).                                                      *)

\* A command is in the loop's hands, from the copy of the request to the
\* write of the reply.
Busy ==
  \/ pc \in {"process", "respond", "write"}
  \/ pc \in {"arm", "armed"} /\ ret = "process"

RequestInv ==
  /\ request_pending => ~active["cmd_out"] /\ request = sent /\ mark < sent
  /\ active["cmd_out"] /\ pc # "armed" => request_armed
  /\ ~configured => mark = sent /\ \A e \in Endpoint : ~active[e]
  /\ mark <= sent

ResponseInv ==
  /\ active["cmd_in"] /\ pc \notin {"timeout_abort", "recover_abort"}
       => response_pending
  /\ pc \in {"timeout_abort", "recover_abort"} => ~response_pending
  /\ Busy /\ pc # "write" => ~response_pending
  /\ pc = "write" => ~active["cmd_in"] /\ (configured => response_pending)
  /\ halts = 0 /\ response_pending => active["cmd_in"] \/ pc = "write"

DataInInv ==
  /\ active["data_in"] /\ pc # "retire_abort" => data_in_pending
  /\ pc \in {"retire_abort", "poll"} => ~data_in_pending
  /\ pc = "start_in" =>
       ~active["data_in"] /\ (configured => data_in_pending)
  /\ halts = 0 /\ data_in_pending => active["data_in"] \/ pc = "start_in"

DataOutInv ==
  /\ active["data_out"] => data_out_active
  /\ data_out_pending \/ pc = "submit_data" => ~data_out_active
  /\ pc = "start_out" =>
       ~active["data_out"] /\ (configured => data_out_active)
  /\ halts = 0 /\ data_out_active => active["data_out"] \/ pc = "start_out"

CommandInv ==
  /\ Busy => command # 0 /\ command = taken
  /\ ~Busy => command = 0
  /\ pc \in {"respond", "write"} => response.id = command

\* An open phase, of the session or of the host, has packets left.
PhaseInv ==
  /\ op.kind # "none" => op.left > 0
  /\ pc = "poll" => WantsIn
  /\ phase \in {"out", "in"} => left > 0

FlagInv ==
  /\ RequestInv /\ ResponseInv /\ DataInInv /\ DataOutInv /\ CommandInv
  /\ AcceptedCommandKept /\ StaleReplyRetired

Inv == TypeOK /\ PhaseInv /\ FlagInv
=============================================================================
