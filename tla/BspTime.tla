-------------------------------- MODULE BspTime --------------------------------
(***************************************************************************)
(* The time base (src/bsp/bsp_delay.c) and the lifetime it gives to a      *)
(* reply of the command endpoint (wchlink_usb.c:481-502, 558-565).         *)
(*                                                                         *)
(* SysTick counts in two halves, CNTH and CNTL, that are read one after    *)
(* the other while it runs; the 64 bits are divided by hand into a number  *)
(* of units of one half, which wraps.  A deadline is such a number.        *)
(* The reader is the main loop: it reads the time to arm a reply and to    *)
(* see whether the reply has expired; ticks pass between any two reads.    *)
(***************************************************************************)
EXTENDS Naturals

CONSTANTS
  Bits,         \* bits of one half of the counter (32)
  TicksPerUnit, \* ticks of a microsecond
  Lifetimes,    \* the lifetimes of replies, in units
  MaxDrift,     \* bound: ticks during one reading of the time; with more of
                \* them the high half could come back to where it was
  MaxAge        \* bound: ticks for which the age of a reply is told apart

Half == 2 ^ Bits
Size == Half * Half

ASSUME TimeAssumption ==
  /\ Bits \in Nat \ {0}
  /\ TicksPerUnit \in 1 .. Half \div 2
  /\ Lifetimes \subseteq 1 .. Half - 1
  /\ MaxDrift \in Nat /\ MaxDrift <= Size - Half
  /\ MaxAge \in Nat /\ \A lifetime \in Lifetimes : lifetime * TicksPerUnit < MaxAge

VARIABLES
  counter,    \* SysTick
  pc,         \* the step of read_counter
  purpose,    \* what the time is read for
  before, low,\* its locals
  wchlink_response_pending, wchlink_response_deadline_us,
  \* history: ticks since the reading began, the lifetime of the reply, the
  \* time at which it was armed, ticks since then
  drift, lifetime, armed_at, age

reading == <<before, low>>
response == <<wchlink_response_pending, wchlink_response_deadline_us,
              lifetime, armed_at>>
vars == <<counter, pc, purpose, reading, response, drift, age>>

CNTH == counter \div Half
CNTL == counter % Half

-----------------------------------------------------------------------------
(* counter_to_units: long division, one bit of the low half at a time; the *)
(* remainder is a half wide.                                               *)

Bit(n, k) == (n \div 2 ^ k) % 2

\* One turn of the loop: the next bit is shifted into the remainder.
ShiftIn(last, bit, divisor) ==
  LET next == (2 * last.remainder + bit) % Half
      fits == next >= divisor
  IN  [remainder |-> IF fits THEN next - divisor ELSE next,
       result |-> 2 * last.result + (IF fits THEN 1 ELSE 0)]

counter_to_units(high, lo, divisor) ==
  LET step[k \in 0 .. Bits] ==
        IF k = 0 THEN [remainder |-> high % divisor, result |-> 0]
        ELSE ShiftIn(step[k - 1], Bit(lo, Bits - k), divisor)
  IN  step[Bits].result

\* The time the locals of read_counter stand for.
Now == counter_to_units(before, low, TicksPerUnit)

-----------------------------------------------------------------------------
Init ==
  /\ counter = 0
  /\ pc = "idle" /\ purpose = "expire" /\ before = 0 /\ low = 0
  /\ wchlink_response_pending = FALSE /\ wchlink_response_deadline_us = 0
  /\ drift = 0 /\ age = 0 /\ armed_at = 0 /\ lifetime \in Lifetimes

Tick ==
  /\ pc # "idle" => drift < MaxDrift
  /\ counter' = (counter + 1) % Size
  /\ drift' = IF pc = "idle" THEN 0 ELSE drift + 1
  /\ age' = IF age < MaxAge THEN age + 1 ELSE age
  /\ UNCHANGED <<pc, purpose, reading, response>>

\* wchlink_service_response_timeout looks at the time only for a pending reply.
CheckExpiry ==
  /\ pc = "idle" /\ wchlink_response_pending
  /\ pc' = "high" /\ purpose' = "expire" /\ drift' = 0
  /\ UNCHANGED <<counter, reading, response, age>>

\* A command is answered: its policy chooses the lifetime.
Answer ==
  /\ pc = "idle" /\ ~wchlink_response_pending
  /\ pc' = "high" /\ purpose' = "arm" /\ drift' = 0
  /\ lifetime' \in Lifetimes
  /\ UNCHANGED <<counter, reading, wchlink_response_pending,
                 wchlink_response_deadline_us, armed_at, age>>

ReadHigh ==
  /\ pc = "high"
  /\ before' = CNTH /\ pc' = "low"
  /\ UNCHANGED <<counter, purpose, low, response, drift, age>>

ReadLow ==
  /\ pc = "low"
  /\ low' = CNTL /\ pc' = "again"
  /\ age' = IF purpose = "arm" THEN 0 ELSE age
  /\ UNCHANGED <<counter, purpose, before, response, drift>>

\* Fault: the high half is not read again.
Same_Unchecked == TRUE

\* CNTH is what it was before CNTL was read.
Same == before = CNTH

ReadAgain ==
  /\ pc = "again" /\ ~Same
  /\ pc' = "high"
  /\ UNCHANGED <<counter, purpose, reading, response, drift, age>>

\* Fault: the reply expires one unit early.
Expire_Early ==
  /\ pc = "again" /\ Same /\ purpose = "expire"
  /\ pc' = "idle"
  /\ wchlink_response_pending' =
       (wchlink_response_pending /\ Now + 1 < wchlink_response_deadline_us)
  /\ UNCHANGED <<counter, purpose, reading, wchlink_response_deadline_us,
                 lifetime, armed_at, drift, age>>

\* The time is known: a reply whose deadline is not ahead is retired.
Expire ==
  /\ pc = "again" /\ Same /\ purpose = "expire"
  /\ pc' = "idle"
  /\ wchlink_response_pending' =
       (wchlink_response_pending /\ Now < wchlink_response_deadline_us)
  /\ UNCHANGED <<counter, purpose, reading, wchlink_response_deadline_us,
                 lifetime, armed_at, drift, age>>

\* The time is known: the reply gets its deadline.
Arm ==
  /\ pc = "again" /\ Same /\ purpose = "arm"
  /\ pc' = "idle"
  /\ wchlink_response_pending' = TRUE
  /\ wchlink_response_deadline_us' = (Now + lifetime) % Half
  /\ armed_at' = Now
  /\ UNCHANGED <<counter, purpose, reading, lifetime, drift, age>>

\* The host reads the reply.
HostReads ==
  /\ wchlink_response_pending
  /\ wchlink_response_pending' = FALSE
  /\ UNCHANGED <<counter, pc, purpose, reading, wchlink_response_deadline_us,
                 lifetime, armed_at, drift, age>>

Next ==
  \/ Tick \/ CheckExpiry \/ Answer \/ ReadHigh \/ ReadLow \/ ReadAgain
  \/ Expire \/ Arm \/ HostReads

Spec == Init /\ [][Next]_vars

-----------------------------------------------------------------------------
(* Properties *)

\* A time that is used was the time at some moment of its reading: the halves
\* are never taken from two sides of a carry.
TimeNotTorn ==
  pc = "again" /\ Same =>
    (counter + Size - (before * Half + low)) % Size <= drift

\* The reply is retired by the time check.
Retired == pc = "again" /\ wchlink_response_pending /\ ~wchlink_response_pending' /\ pc' = "idle"

\* Every reply has its lifetime, 100 ms or 500 ms, to be read (usb.c:561),
\* short of the unit in which it was armed, provided that its deadline did not
\* wrap.  (When it did, the next look at the time retires the reply.)
UnwrappedReplyKept ==
  [][Retired /\ armed_at <= wchlink_response_deadline_us
       => age > (lifetime - 1) * TicksPerUnit]_vars
=============================================================================
