------------------------------ MODULE UsbMailbox ------------------------------
(***************************************************************************)
(* What the USB adapter promises its host about commands, without flags,   *)
(* endpoints or interrupts: one place for a command that arrived, one for  *)
(* the command being executed and one for the answer.  Commands are        *)
(* numbered in the order the host sends them.  Nothing is ever overwritten *)
(* or repeated: a command is executed once, while no earlier answer is     *)
(* left, and an answer is read at most once or dropped.                    *)
(***************************************************************************)
EXTENDS Naturals

CONSTANT MaxCommand

VARIABLES
  sent,     \* number of the last command the host sent
  inbox,    \* the command that waits, 0 if none
  work,     \* the command being executed, 0 if none
  outbox    \* the answer that waits, 0 if none

mailVars == <<sent, inbox, work, outbox>>

MailInit == sent = 0 /\ inbox = 0 /\ work = 0 /\ outbox = 0

\* The host's command is accepted only into an empty place.
Accept ==
  /\ inbox = 0 /\ sent < MaxCommand
  /\ sent' = sent + 1 /\ inbox' = sent + 1
  /\ UNCHANGED <<work, outbox>>

\* A command is taken up when no other is in work and no answer is left.
TakeUp ==
  /\ inbox # 0 /\ work = 0 /\ outbox = 0
  /\ work' = inbox /\ inbox' = 0
  /\ UNCHANGED <<sent, outbox>>

\* The answer of the command in work is offered to the host, or cannot be.
Answer ==
  /\ work # 0 /\ outbox = 0
  /\ work' = 0 /\ outbox' \in {work, 0}
  /\ UNCHANGED <<sent, inbox>>

\* The host reads the answer, or it expires, or a later command displaces it.
Collect ==
  /\ outbox # 0 /\ outbox' = 0
  /\ UNCHANGED <<sent, inbox, work>>

\* A bus reset empties both boxes; a command in work is not interrupted.
Reset ==
  /\ inbox' = 0 /\ outbox' = 0
  /\ UNCHANGED <<sent, work>>

MailNext == Accept \/ TakeUp \/ Answer \/ Collect \/ Reset

MailSpec == MailInit /\ [][MailNext]_mailVars
=============================================================================
