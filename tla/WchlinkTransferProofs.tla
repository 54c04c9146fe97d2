------------------------- MODULE WchlinkTransferProofs -------------------------
(***************************************************************************)
(* Proofs about the data phases of the session.                            *)
(***************************************************************************)
EXTENDS WchlinkTransfer, TLAPS

USE TransferAssumption

-----------------------------------------------------------------------------
(* Arithmetic *)

LEMMA SmallerFacts ==
  ASSUME NEW a \in Nat, NEW b \in Nat
  PROVE  /\ Smaller(a, b) \in Nat
         /\ Smaller(a, b) <= a /\ Smaller(a, b) <= b
         /\ Smaller(a, b) = a \/ Smaller(a, b) = b
BY DEF Smaller

LEMMA DivFacts ==
  ASSUME NEW n \in Nat, NEW d \in Nat \ {0}
  PROVE  /\ n \div d \in Nat /\ n % d \in 0 .. d - 1
         /\ n = d * (n \div d) + (n % d)
OBVIOUS

LEMMA Monotone ==
  ASSUME NEW a \in Nat, NEW b \in Nat, NEW d \in Nat, a <= b
  PROVE  a * d <= b * d /\ a * d \in Nat
OBVIOUS

LEMMA RoundUpNat ==
  ASSUME NEW n \in Nat, NEW unit \in Nat \ {0}
  PROVE  /\ RoundUp(n, unit) \in Nat
         /\ n <= RoundUp(n, unit)
         /\ RoundUp(n, unit) < n + unit
<1> DEFINE q == (n + unit - 1) \div unit
<1>1. n + unit - 1 \in Nat  OBVIOUS
<1>2. /\ q \in Nat /\ (n + unit - 1) % unit \in 0 .. unit - 1
      /\ n + unit - 1 = unit * q + ((n + unit - 1) % unit)
  BY <1>1, DivFacts
<1>3. unit * q = q * unit  BY <1>2
<1>4. q * unit \in Nat  BY <1>2, Monotone
<1> QED BY <1>2, <1>3, <1>4 DEF RoundUp

LEMMA RoundUpWithin ==
  ASSUME NEW n \in Nat, NEW unit \in Nat \ {0}, NEW k \in Nat, n <= k * unit
  PROVE  RoundUp(n, unit) <= k * unit
<1> DEFINE q == (n + unit - 1) \div unit
<1>1. n + unit - 1 \in Nat  OBVIOUS
<1>2. q \in Nat  BY <1>1, DivFacts
<1>3. q * unit < n + unit  BY RoundUpNat DEF RoundUp
<1>4. CASE q <= k  BY <1>2, <1>4, Monotone DEF RoundUp
<1>5. CASE k + 1 <= q
  <2>1. (k + 1) * unit <= q * unit  BY <1>2, <1>5, Monotone
  <2>2. (k + 1) * unit = k * unit + unit  OBVIOUS
  <2>3. k * unit \in Nat /\ q * unit \in Nat  BY <1>2, Monotone
  <2> QED BY <1>3, <2>1, <2>2, <2>3
<1> QED BY <1>2, <1>4, <1>5

LEMMA PaddedFits ==
  ASSUME NEW n \in 0 .. Chunk, NEW unit \in {1, Packet}
  PROVE  RoundUp(n, unit) \in n .. Chunk
<1>1. /\ Chunk \div unit \in Nat
      /\ Chunk = unit * (Chunk \div unit) + (Chunk % unit)
  BY DivFacts
<1>2. Chunk % unit = 0  OBVIOUS
<1>3. Chunk = (Chunk \div unit) * unit  BY <1>1, <1>2
<1>4. RoundUp(n, unit) <= Chunk  BY <1>1, <1>3, RoundUpWithin
<1>5. n \in Nat /\ unit \in Nat \ {0}  OBVIOUS
<1>6. RoundUp(n, unit) \in Nat /\ n <= RoundUp(n, unit)  BY <1>5, RoundUpNat
<1> QED BY <1>4, <1>5, <1>6

LEMMA ChunkInFlash == Chunk <= FlashSize
<1>1. /\ FlashSize \div Chunk \in Nat
      /\ FlashSize = Chunk * (FlashSize \div Chunk) + (FlashSize % Chunk)
  BY DivFacts
<1>2. FlashSize = (FlashSize \div Chunk) * Chunk  BY <1>1
<1>3. FlashSize \div Chunk # 0  BY <1>1, <1>2
<1>4. 1 * Chunk <= (FlashSize \div Chunk) * Chunk  BY <1>1, <1>3, Monotone
<1> QED BY <1>2, <1>4

LEMMA PageBelow ==
  ASSUME NEW b \in Nat
  PROVE  Page(b) \in Nat /\ Page(b) <= b /\ b < Page(b) + Packet
<1>1. /\ b \div Packet \in Nat /\ b % Packet \in 0 .. Packet - 1
      /\ b = Packet * (b \div Packet) + (b % Packet)
  BY DivFacts
<1>2. (b \div Packet) * Packet \in Nat  BY <1>1, Monotone
<1>3. Packet * (b \div Packet) = (b \div Packet) * Packet  BY <1>1
<1> QED BY <1>1, <1>2, <1>3 DEF Page

\* A word in the page of an address of the first sector is in the first sector.
LEMMA PageInSector ==
  ASSUME NEW a \in Nat, NEW b \in Nat, Page(a) = Page(b), Sector(b) = 0
  PROVE  a < Chunk
<1>1. b \div Chunk = 0
  <2>1. b \div Chunk \in Nat  BY DivFacts
  <2>2. CASE 1 <= b \div Chunk
    <3>1. 1 * Chunk <= (b \div Chunk) * Chunk  BY <2>1, <2>2, Monotone
    <3> QED BY <3>1 DEF Sector
  <2> QED BY <2>1, <2>2
<1>2. b < Chunk  BY <1>1, DivFacts
<1> DEFINE k == Chunk \div Packet
           p == b \div Packet
<1>3. k \in Nat /\ Chunk = k * Packet  BY DivFacts
<1>4. p \in Nat  BY DivFacts
<1>5. p < k
  <2>1. CASE k <= p
    <3>1. k * Packet <= p * Packet  BY <1>3, <1>4, <2>1, Monotone
    <3>2. p * Packet <= b  BY PageBelow DEF Page
    <3>3. p * Packet \in Nat  BY <1>4, Monotone
    <3> QED BY <1>2, <1>3, <3>1, <3>2, <3>3
  <2> QED BY <1>3, <1>4, <2>1
<1>6. (p + 1) * Packet <= k * Packet  BY <1>3, <1>4, <1>5, Monotone
<1>7. (p + 1) * Packet = p * Packet + Packet  BY <1>4
<1>8. p * Packet \in Nat  BY <1>4, Monotone
<1>9. a < p * Packet + Packet  BY PageBelow DEF Page
<1> QED BY <1>3, <1>6, <1>7, <1>8, <1>9

LEMMA ErasedNat == Erased \in Nat /\ Erased + 3 \in Nat
<1>1. MaxImage * MaxLength \in Nat  BY Monotone
<1> QED BY <1>1 DEF Erased

LEMMA WordValue ==
  ASSUME NEW m \in 1 .. MaxImage, NEW k \in 0 .. MaxLength - 1
  PROVE  Word(m, k) \in 0 .. Erased
<1>1. /\ (m - 1) * MaxLength <= (MaxImage - 1) * MaxLength
      /\ (m - 1) * MaxLength \in Nat
  BY Monotone
<1>2. (MaxImage - 1) * MaxLength = MaxImage * MaxLength - MaxLength
  OBVIOUS
<1>3. MaxImage * MaxLength \in Nat  BY Monotone
<1> QED BY <1>1, <1>2, <1>3 DEF Word, Erased

-----------------------------------------------------------------------------
(* A packet of an image *)

LEMMA FunctionSeq ==
  ASSUME NEW S, NEW m \in Nat, NEW f \in [1 .. m -> S]
  PROVE  f \in Seq(S) /\ Len(f) = m
OBVIOUS

LEMMA Concat ==
  ASSUME NEW S, NEW s \in Seq(S), NEW t \in Seq(S)
  PROVE  s \o t \in Seq(S) /\ Len(s \o t) = Len(s) + Len(t)
OBVIOUS

\* In a flash phase with work left.
Flashing == out_state = "flash" /\ write_remaining # 0

\* The packet stays within the transfer, and the words stored follow it up to
\* the end of the chunk.
LEMMA PacketFacts ==
  ASSUME Inv, Flashing, NEW n \in 1 .. Packet
  PROVE  /\ TransferLength(n) \in Nat /\ Taken(n) \in Nat /\ Fresh(n) \in Nat
         /\ flash_transfer_received + Taken(n) <= TransferLength(n)
         /\ DataReceived(n) = Smaller(flash_transfer_received + Taken(n),
                                      flash_chunk_length)
<1>1. /\ flash_chunk_length \in Nat /\ flash_data_received \in Nat
      /\ flash_transfer_received \in Nat /\ flash_transfer_length \in Nat
  BY DEF Inv, TypeOK, CursorType
<1>2. /\ flash_data_received = Smaller(flash_transfer_received, flash_chunk_length)
      /\ flash_transfer_received < flash_transfer_length \/ flash_transfer_received = 0
  BY DEF Inv, ChunkOnImage, Flashing
<1>3. TransferLength(n) \in Nat
  <2>1. RoundUp(flash_chunk_length, n) \in Nat  BY <1>1, RoundUpNat
  <2> QED BY <1>1, <2>1 DEF TransferLength
<1>4. flash_transfer_received <= TransferLength(n)
  BY <1>1, <1>2, <1>3 DEF TransferLength
<1>5. /\ Taken(n) \in Nat
      /\ flash_transfer_received + Taken(n) <= TransferLength(n)
  BY <1>1, <1>3, <1>4 DEF Taken, Smaller
<1>6. Fresh(n) \in Nat  BY <1>1, <1>5 DEF Fresh, Smaller
<1>7. DataReceived(n) = Smaller(flash_transfer_received + Taken(n), flash_chunk_length)
  BY <1>1, <1>2, <1>5 DEF DataReceived, Fresh, Smaller
<1> QED BY <1>3, <1>5, <1>6, <1>7

LEMMA FlashValues ==
  /\ Erased \in Value /\ Filler \in Value /\ Patch \in Value /\ Old \in Value
BY ErasedNat DEF Value, Filler, Patch, Old

LEMMA HostWordValue ==
  ASSUME Inv, Flashing, NEW k \in Nat
  PROVE  HostWord(k) \in Value
<1>1. image \in 1 .. MaxImage /\ image_length \in 0 .. MaxLength
  BY DEF Inv, TypeOK, HostType, RangeInv, Flashing
<1>2. CASE k < image_length
  <2>1. k \in 0 .. MaxLength - 1  BY <1>1, <1>2
  <2>2. Word(image, k) \in 0 .. Erased  BY <1>1, <2>1, WordValue
  <2> QED BY <1>2, <2>2, ErasedNat DEF HostWord, Value, Patch
<1>3. CASE ~(k < image_length)  BY <1>3, FlashValues DEF HostWord
<1> QED BY <1>2, <1>3

LEMMA PutType ==
  ASSUME Inv, Flashing, NEW n \in 1 .. Packet, NEW offset \in Nat,
         NEW buffer \in [Slot -> Value]
  PROVE  Put(buffer, offset, n) \in [Slot -> Value]
<1>1. chunk_base \in Nat /\ chunk_sent \in Nat  BY DEF Inv, TypeOK, HostType
<1>2. ASSUME NEW i \in Slot, offset <= i
      PROVE  HostWord(chunk_base + chunk_sent + (i - offset)) \in Value
  <2>1. chunk_base + chunk_sent + (i - offset) \in Nat  BY <1>1, <1>2 DEF Slot
  <2> QED BY <2>1, HostWordValue
<1> QED BY <1>2 DEF Put

LEMMA AfterTypes ==
  ASSUME Inv, Flashing, NEW n \in 1 .. Packet
  PROVE  ChunkAfter(n) \in [Slot -> Value] /\ WorkAfter(n) \in [Slot -> Value]
<1>1. /\ transfer_chunk \in [Slot -> Value] /\ work \in [Slot -> Value]
      /\ flash_transfer_received \in Nat
      /\ write_address + flash_transfer_received \in Nat
  BY DEF Inv, TypeOK, CursorType, TargetType
<1> QED BY <1>1, PutType DEF ChunkAfter, WorkAfter

LEMMA SumType ==
  ASSUME Inv, Flashing, NEW n \in 1 .. Packet
  PROVE  /\ SumAfter(n) \in Seq(Value)
         /\ Len(SumAfter(n)) = DataReceived(n)
<1> DEFINE t == [i \in 1 .. Fresh(n) |-> HostWord(chunk_base + chunk_sent + i - 1)]
<1>1. chunk_base \in Nat /\ chunk_sent \in Nat  BY DEF Inv, TypeOK, HostType
<1>2. Fresh(n) \in Nat  BY PacketFacts
<1>3. ASSUME NEW i \in 1 .. Fresh(n)
      PROVE  HostWord(chunk_base + chunk_sent + i - 1) \in Value
  <2>1. chunk_base + chunk_sent + i - 1 \in Nat  BY <1>1, <1>2
  <2> QED BY <2>1, HostWordValue
<1>4. t \in [1 .. Fresh(n) -> Value]  BY <1>3
<1>5. t \in Seq(Value) /\ Len(t) = Fresh(n)  BY <1>2, <1>4, FunctionSeq
<1>6. flash_checksum \in Seq(Value) /\ flash_data_received = Len(flash_checksum)
  BY DEF Inv, TypeOK, CursorType, ChunkOnImage, Flashing
<1>7. SumAfter(n) = flash_checksum \o t  BY DEF SumAfter
<1> HIDE DEF t
<1> QED BY <1>5, <1>6, <1>7, Concat DEF DataReceived

\* What the run reads fits the chunk buffer.
LEMMA RunTypes ==
  ASSUME Inv, Flashing, NEW n \in 1 .. Packet
  PROVE  /\ DataReceived(n) \in 0 .. flash_chunk_length
         /\ Padded \in flash_chunk_length .. Chunk
         /\ RunWork(n) \in [Slot -> Value]
         /\ RunSum(n) \in Seq(Value)
<1>1. /\ flash_chunk_length \in 0 .. Chunk /\ flash_transfer_received \in Nat
      /\ flash_data_received \in Nat
  BY DEF Inv, TypeOK, CursorType
<1>2. DataReceived(n) \in 0 .. flash_chunk_length
  BY <1>1, PacketFacts, SmallerFacts DEF DataReceived
<1>3. profile.page \in {1, Packet}
  BY DEF Inv, TypeOK, PhaseType, Profile
<1>4. Padded \in flash_chunk_length .. Chunk
  BY <1>1, <1>3, PaddedFits DEF Padded
<1>5. RunWork(n) \in [Slot -> Value]  BY AfterTypes, FlashValues DEF RunWork
<1> DEFINE m == Padded - DataReceived(n)
           t == [i \in 1 .. m |-> Erased]
<1>6. m \in Nat  BY <1>1, <1>2, <1>4
<1>7. t \in [1 .. m -> Value]  BY FlashValues
<1>8. t \in Seq(Value)  BY <1>6, <1>7, FunctionSeq
<1>9. RunSum(n) = SumAfter(n) \o t  BY DEF RunSum
<1> HIDE DEF t
<1>10. RunSum(n) \in Seq(Value)  BY <1>8, <1>9, SumType, Concat
<1> QED BY <1>2, <1>4, <1>5, <1>10

LEMMA SlotInFlash == Slot \subseteq Address
BY ChunkInFlash DEF Slot, Address

\* The rewritten page holds words, from the cache or from the target.
LEMMA RewrittenType ==
  ASSUME Inv
  PROVE  RewrittenFlash \in [Address -> Value]
<1>1. /\ flash \in [Address -> Value] /\ transfer_chunk \in [Slot -> Value]
      /\ partial_write_address \in Nat
  BY DEF Inv, TypeOK, PhaseType, TargetType, Address
<1>2. ASSUME NEW x \in Address, InPage(x), FromCache
      PROVE  x \in Slot
  BY <1>1, <1>2, PageInSector DEF InPage, FromCache, Address, Slot
<1> QED BY <1>1, <1>2, FlashValues DEF RewrittenFlash

-----------------------------------------------------------------------------
(* Steps *)

LEMMA SessionReset_Inv ==
  ASSUME Inv, SessionReset
  PROVE  Inv'
<1> USE DEF Inv, TypeOK, SessionReset, ClearOperation, ClearPhases, ReadNothing, WriteNothing,
        ResetChunkCursor, HostStops,
        vars, session, readCursor, writeCursor, loaderState, chunkCursor,
        flashMode, partialWrite, cache, reply, target, hostImage, hostCursor
<1>1. BoolType'  BY DEF BoolType
<1>2. PhaseType'  BY DEF PhaseType, LoaderOperation, Status, Address
<1>3. CursorType'  BY DEF CursorType
<1>4. TargetType'  BY DEF TargetType
<1>5. HostType'  BY DEF HostType
<1>6. RangeInv'  BY DEF RangeInv
<1>7. ChunkOnImage'  BY DEF ChunkOnImage
<1>8. LoaderInv'  BY DEF LoaderInv, ReadyLoaderIsWhole
<1>9. WorkspaceExclusive'  BY DEF WorkspaceExclusive
<1> QED BY <1>1, <1>2, <1>3, <1>4, <1>5, <1>6, <1>7, <1>8, <1>9

LEMMA PowerOff_Inv ==
  ASSUME Inv, PowerOff
  PROVE  Inv'
<1> USE DEF Inv, TypeOK, PowerOff, ClearOperation, ClearPhases, ReadNothing, WriteNothing,
        ResetChunkCursor, HostStops,
        vars, session, readCursor, writeCursor, loaderState, chunkCursor,
        flashMode, partialWrite, cache, reply, target, hostImage, hostCursor
<1>1. BoolType'  BY DEF BoolType
<1>2. PhaseType'  BY DEF PhaseType, LoaderOperation, Status, Address
<1>3. CursorType'  BY DEF CursorType
<1>4. TargetType'  BY DEF TargetType
<1>5. HostType'  BY DEF HostType
<1>6. RangeInv'  BY DEF RangeInv
<1>7. ChunkOnImage'  BY DEF ChunkOnImage
<1>8. LoaderInv'  BY DEF LoaderInv, ReadyLoaderIsWhole
<1>9. WorkspaceExclusive'  BY DEF WorkspaceExclusive
<1> QED BY <1>1, <1>2, <1>3, <1>4, <1>5, <1>6, <1>7, <1>8, <1>9

LEMMA ProgramEnd_Inv ==
  ASSUME Inv, ProgramEnd
  PROVE  Inv'
<1> USE DEF Inv, TypeOK, ProgramEnd, ClearOperation, ClearPhases, ReadNothing, WriteNothing,
        ResetChunkCursor, HostStops,
        vars, session, readCursor, writeCursor, loaderState, chunkCursor,
        flashMode, partialWrite, cache, reply, target, hostImage, hostCursor
<1>1. BoolType'  BY DEF BoolType
<1>2. PhaseType'  BY DEF PhaseType, LoaderOperation, Status, Address
<1>3. CursorType'  BY DEF CursorType
<1>4. TargetType'  BY DEF TargetType
<1>5. HostType'  BY DEF HostType
<1>6. RangeInv'  BY DEF RangeInv
<1>7. ChunkOnImage'  BY DEF ChunkOnImage
<1>8. LoaderInv'  BY DEF LoaderInv, ReadyLoaderIsWhole
<1>9. WorkspaceExclusive'  BY DEF WorkspaceExclusive
<1> QED BY <1>1, <1>2, <1>3, <1>4, <1>5, <1>6, <1>7, <1>8, <1>9

LEMMA AbandonData_Inv ==
  ASSUME Inv, AbandonData
  PROVE  Inv'
<1> USE DEF Inv, TypeOK, AbandonData, ClearOperation, ClearPhases, ReadNothing, WriteNothing,
        ResetChunkCursor, HostStops,
        vars, session, readCursor, writeCursor, loaderState, chunkCursor,
        flashMode, partialWrite, cache, reply, target, hostImage, hostCursor
<1>1. BoolType'  BY DEF BoolType
<1>2. PhaseType'  BY DEF PhaseType, LoaderOperation, Status, Address
<1>3. CursorType'  BY DEF CursorType
<1>4. TargetType'  BY DEF TargetType
<1>5. HostType'  BY DEF HostType
<1>6. RangeInv'  BY DEF RangeInv
<1>7. ChunkOnImage'  BY DEF ChunkOnImage
<1>8. LoaderInv'  BY DEF LoaderInv, ReadyLoaderIsWhole
<1>9. WorkspaceExclusive'  BY DEF WorkspaceExclusive
<1> QED BY <1>1, <1>2, <1>3, <1>4, <1>5, <1>6, <1>7, <1>8, <1>9

LEMMA MarkPrepare_Inv ==
  ASSUME Inv, MarkPrepare
  PROVE  Inv'
<1> USE DEF Inv, TypeOK, MarkPrepare,
        vars, session, readCursor, writeCursor, loaderState, chunkCursor,
        flashMode, partialWrite, cache, reply, target, hostImage, hostCursor
<1>1. BoolType'  BY DEF BoolType
<1>2. PhaseType'  BY DEF PhaseType, LoaderOperation, Status
<1>3. CursorType'  BY DEF CursorType
<1>4. TargetType'  BY DEF TargetType
<1>5. HostType'  BY DEF HostType
<1>6. RangeInv'  BY DEF RangeInv
<1>7. ChunkOnImage'  BY DEF ChunkOnImage
<1>8. LoaderInv'  BY DEF LoaderInv, ReadyLoaderIsWhole
<1>9. WorkspaceExclusive'  BY DEF WorkspaceExclusive
<1> QED BY <1>1, <1>2, <1>3, <1>4, <1>5, <1>6, <1>7, <1>8, <1>9

LEMMA BeginRead_Inv ==
  ASSUME Inv, BeginRead
  PROVE  Inv'
<1> USE DEF Inv, TypeOK, BeginRead,
        vars, session, readCursor, writeCursor, loaderState, chunkCursor,
        flashMode, partialWrite, cache, reply, target, hostImage, hostCursor
<1>1. BoolType'  BY DEF BoolType
<1>2. PhaseType'  BY DEF PhaseType, LoaderOperation, Status
<1>3. CursorType'  BY DEF CursorType
<1>4. TargetType'  BY DEF TargetType
<1>5. HostType'  BY DEF HostType
<1>6. RangeInv'  BY DEF RangeInv
<1>7. ChunkOnImage'  BY DEF ChunkOnImage
<1>8. LoaderInv'  BY DEF LoaderInv, ReadyLoaderIsWhole
<1>9. WorkspaceExclusive'  BY DEF WorkspaceExclusive
<1> QED BY <1>1, <1>2, <1>3, <1>4, <1>5, <1>6, <1>7, <1>8, <1>9

LEMMA StartLoader_Inv ==
  ASSUME Inv, StartLoader
  PROVE  Inv'
<1> USE DEF Inv, TypeOK, StartLoader, HostAt,
        vars, session, readCursor, writeCursor, loaderState, chunkCursor,
        flashMode, partialWrite, cache, reply, target, hostImage, hostCursor
<1>1. BoolType'  BY DEF BoolType
<1>2. PhaseType'  BY DEF PhaseType, LoaderOperation, Status
<1>3. CursorType'  BY DEF CursorType
<1>4. TargetType'  BY DEF TargetType
<1>5. HostType'  BY DEF HostType
<1>6. RangeInv'  BY DEF RangeInv
<1>7. ChunkOnImage'  BY DEF ChunkOnImage
<1>8. LoaderInv'  BY DEF LoaderInv, ReadyLoaderIsWhole
<1>9. WorkspaceExclusive'  BY DEF WorkspaceExclusive
<1> QED BY <1>1, <1>2, <1>3, <1>4, <1>5, <1>6, <1>7, <1>8, <1>9

LEMMA FinishLoaderRefused_Inv ==
  ASSUME Inv, FinishLoaderRefused
  PROVE  Inv'
<1> USE DEF Inv, TypeOK, FinishLoaderRefused, HostAt,
        vars, session, readCursor, writeCursor, loaderState, chunkCursor,
        flashMode, partialWrite, cache, reply, target, hostImage, hostCursor
<1>1. BoolType'  BY DEF BoolType
<1>2. PhaseType'  BY DEF PhaseType, LoaderOperation, Status
<1>3. CursorType'  BY DEF CursorType
<1>4. TargetType'  BY DEF TargetType
<1>5. HostType'  BY DEF HostType
<1>6. RangeInv'  BY DEF RangeInv
<1>7. ChunkOnImage'  BY DEF ChunkOnImage
<1>8. LoaderInv'  BY DEF LoaderInv, ReadyLoaderIsWhole
<1>9. WorkspaceExclusive'  BY DEF WorkspaceExclusive
<1> QED BY <1>1, <1>2, <1>3, <1>4, <1>5, <1>6, <1>7, <1>8, <1>9

LEMMA FinishLoaderFailed_Inv ==
  ASSUME Inv, FinishLoaderFailed
  PROVE  Inv'
<1> USE DEF Inv, TypeOK, FinishLoaderFailed, HostAt,
        vars, session, readCursor, writeCursor, loaderState, chunkCursor,
        flashMode, partialWrite, cache, reply, target, hostImage, hostCursor
<1>1. BoolType'  BY DEF BoolType
<1>2. PhaseType'  BY DEF PhaseType, LoaderOperation, Status
<1>3. CursorType'  BY DEF CursorType
<1>4. TargetType'  BY DEF TargetType
<1>5. HostType'  BY DEF HostType
<1>6. RangeInv'  BY DEF RangeInv
<1>7. ChunkOnImage'  BY DEF ChunkOnImage
<1>8. LoaderInv'  BY DEF LoaderInv, ReadyLoaderIsWhole
<1>9. WorkspaceExclusive'  BY DEF WorkspaceExclusive
<1> QED BY <1>1, <1>2, <1>3, <1>4, <1>5, <1>6, <1>7, <1>8, <1>9

LEMMA TakeReply_Inv ==
  ASSUME Inv, TakeReply
  PROVE  Inv'
<1> USE DEF Inv, TypeOK, TakeReply, Smaller,
        vars, session, readCursor, writeCursor, loaderState, chunkCursor,
        flashMode, partialWrite, cache, reply, target, hostImage, hostCursor
<1>1. BoolType'  BY DEF BoolType
<1>2. PhaseType'  BY DEF PhaseType, LoaderOperation, Status
<1>3. CursorType'  BY DEF CursorType
<1>4. TargetType'  BY DEF TargetType
<1>5. HostType'  BY DEF HostType
<1>6. RangeInv'  BY DEF RangeInv
<1>7. ChunkOnImage'  BY DEF ChunkOnImage
<1>8. LoaderInv'  BY DEF LoaderInv, ReadyLoaderIsWhole
<1>9. WorkspaceExclusive'  BY DEF WorkspaceExclusive
<1> QED BY <1>1, <1>2, <1>3, <1>4, <1>5, <1>6, <1>7, <1>8, <1>9

LEMMA Connect_Inv ==
  ASSUME NEW ok \in BOOLEAN, Inv, Connect(ok)
  PROVE  Inv'
<1> USE DEF Inv, TypeOK, Connect, ClearOperation, ClearPhases, ReadNothing, WriteNothing,
        ResetChunkCursor, HostStops,
        vars, session, readCursor, writeCursor, loaderState, chunkCursor,
        flashMode, partialWrite, cache, reply, target, hostImage, hostCursor
<1>1. BoolType'  BY DEF BoolType
<1>2. PhaseType'  BY DEF PhaseType, LoaderOperation, Status, Address
<1>3. CursorType'  BY DEF CursorType
<1>4. TargetType'  BY DEF TargetType
<1>5. HostType'  BY DEF HostType
<1>6. RangeInv'  BY DEF RangeInv
<1>7. ChunkOnImage'  BY DEF ChunkOnImage
<1>8. LoaderInv'  BY DEF LoaderInv, ReadyLoaderIsWhole
<1>9. WorkspaceExclusive'  BY DEF WorkspaceExclusive
<1> QED BY <1>1, <1>2, <1>3, <1>4, <1>5, <1>6, <1>7, <1>8, <1>9

LEMMA SetChipType_Inv ==
  ASSUME NEW ok \in BOOLEAN, Inv, SetChipType(ok)
  PROVE  Inv'
<1> USE DEF Inv, TypeOK, SetChipType,
        vars, session, readCursor, writeCursor, loaderState, chunkCursor,
        flashMode, partialWrite, cache, reply, target, hostImage, hostCursor
<1>1. BoolType'  BY DEF BoolType
<1>2. PhaseType'  BY DEF PhaseType, LoaderOperation, Status
<1>3. CursorType'  BY DEF CursorType
<1>4. TargetType'  BY DEF TargetType
<1>5. HostType'  BY DEF HostType
<1>6. RangeInv'  BY DEF RangeInv
<1>7. ChunkOnImage'  BY DEF ChunkOnImage
<1>8. LoaderInv'  BY DEF LoaderInv, ReadyLoaderIsWhole
<1>9. WorkspaceExclusive'  BY DEF WorkspaceExclusive
<1> QED BY <1>1, <1>2, <1>3, <1>4, <1>5, <1>6, <1>7, <1>8, <1>9

LEMMA EraseAll_Inv ==
  ASSUME NEW ok \in BOOLEAN, Inv, EraseAll(ok)
  PROVE  Inv'
<1> USE DEF Inv, TypeOK, EraseAll, ClearOperation, ClearPhases, ReadNothing, WriteNothing,
        ResetChunkCursor, HostStops, EraseTarget,
        vars, session, readCursor, writeCursor, loaderState, chunkCursor,
        flashMode, partialWrite, cache, reply, target, hostImage, hostCursor
<1>a. ErasedFlash \in [Address -> Value]  BY FlashValues DEF ErasedFlash
<1>1. BoolType'  BY DEF BoolType
<1>2. PhaseType'  BY DEF PhaseType, LoaderOperation, Status, Address
<1>3. CursorType'  BY DEF CursorType
<1>4. TargetType'  BY <1>a DEF TargetType
<1>5. HostType'  BY DEF HostType
<1>6. RangeInv'  BY DEF RangeInv
<1>7. ChunkOnImage'  BY DEF ChunkOnImage
<1>8. LoaderInv'  BY DEF LoaderInv, ReadyLoaderIsWhole
<1>9. WorkspaceExclusive'  BY DEF WorkspaceExclusive
<1> QED BY <1>1, <1>2, <1>3, <1>4, <1>5, <1>6, <1>7, <1>8, <1>9

LEMMA ClearCodeFlash_Inv ==
  ASSUME NEW ok \in BOOLEAN, Inv, ClearCodeFlash(ok)
  PROVE  Inv'
<1> USE DEF Inv, TypeOK, ClearCodeFlash, ClearOperation, ClearPhases, ReadNothing, WriteNothing,
        ResetChunkCursor, HostStops, EraseTarget,
        vars, session, readCursor, writeCursor, loaderState, chunkCursor,
        flashMode, partialWrite, cache, reply, target, hostImage, hostCursor
<1>a. ErasedFlash \in [Address -> Value]  BY FlashValues DEF ErasedFlash
<1>1. BoolType'  BY DEF BoolType
<1>2. PhaseType'
  <2>1. CASE ok  BY <2>1 DEF PhaseType, LoaderOperation, Status, Address
  <2>2. CASE ~ok  BY <2>2 DEF PhaseType, LoaderOperation, Status, Address
  <2> QED BY <2>1, <2>2
<1>3. CursorType'
  <2>1. CASE ok  BY <2>1 DEF CursorType
  <2>2. CASE ~ok  BY <2>2 DEF CursorType
  <2> QED BY <2>1, <2>2
<1>4. TargetType'  BY <1>a DEF TargetType
<1>5. HostType'  BY DEF HostType
<1>6. RangeInv'  BY DEF RangeInv
<1>7. ChunkOnImage'  BY DEF ChunkOnImage
<1>8. LoaderInv'  BY DEF LoaderInv, ReadyLoaderIsWhole
<1>9. WorkspaceExclusive'  BY DEF WorkspaceExclusive
<1> QED BY <1>1, <1>2, <1>3, <1>4, <1>5, <1>6, <1>7, <1>8, <1>9

LEMMA ReadData_Inv ==
  ASSUME NEW ok \in BOOLEAN, Inv, ReadData(ok)
  PROVE  Inv'
<1> USE DEF Inv, TypeOK, ReadData, Smaller,
        vars, session, readCursor, writeCursor, loaderState, chunkCursor,
        flashMode, partialWrite, cache, reply, target, hostImage, hostCursor
<1>1. BoolType'  BY DEF BoolType
<1>2. PhaseType'  BY DEF PhaseType, LoaderOperation, Status
<1>3. CursorType'  BY DEF CursorType
<1>4. TargetType'  BY DEF TargetType
<1>5. HostType'  BY DEF HostType
<1>6. RangeInv'  BY DEF RangeInv
<1>7. ChunkOnImage'  BY DEF ChunkOnImage
<1>8. LoaderInv'  BY DEF LoaderInv, ReadyLoaderIsWhole
<1>9. WorkspaceExclusive'  BY DEF WorkspaceExclusive
<1> QED BY <1>1, <1>2, <1>3, <1>4, <1>5, <1>6, <1>7, <1>8, <1>9

LEMMA PrepareRead_Inv ==
  ASSUME NEW n \in 0 .. Packet + 1, NEW ragged \in BOOLEAN, Inv, PrepareRead(n, ragged)
  PROVE  Inv'
<1> USE DEF Inv, TypeOK, PrepareRead, ClearOperation, ClearPhases, ReadNothing, WriteNothing,
        ResetChunkCursor, HostStops,
        vars, session, readCursor, writeCursor, loaderState, chunkCursor,
        flashMode, partialWrite, cache, reply, target, hostImage, hostCursor
<1>1. BoolType'  BY DEF BoolType
<1>2. PhaseType'  BY DEF PhaseType, LoaderOperation, Status, Address
<1>3. CursorType'  BY DEF CursorType
<1>4. TargetType'  BY DEF TargetType
<1>5. HostType'  BY DEF HostType
<1>6. RangeInv'  BY DEF RangeInv
<1>7. ChunkOnImage'  BY DEF ChunkOnImage
<1>8. LoaderInv'  BY DEF LoaderInv, ReadyLoaderIsWhole
<1>9. WorkspaceExclusive'  BY DEF WorkspaceExclusive
<1> QED BY <1>1, <1>2, <1>3, <1>4, <1>5, <1>6, <1>7, <1>8, <1>9

LEMMA StartPartialWrite_Inv ==
  ASSUME NEW a \in Address, NEW n \in 1 .. Packet, Inv, StartPartialWrite(a, n)
  PROVE  Inv'
<1> USE DEF Inv, TypeOK, StartPartialWrite,
        vars, session, readCursor, writeCursor, loaderState, chunkCursor,
        flashMode, partialWrite, cache, reply, target, hostImage, hostCursor
<1>1. BoolType'  BY DEF BoolType
<1>2. PhaseType'  BY DEF PhaseType, LoaderOperation, Status, Address
<1>3. CursorType'  BY DEF CursorType
<1>4. TargetType'  BY DEF TargetType
<1>5. HostType'  BY DEF HostType
<1>6. RangeInv'  BY DEF RangeInv
<1>7. ChunkOnImage'  BY DEF ChunkOnImage
<1>8. LoaderInv'  BY DEF LoaderInv, ReadyLoaderIsWhole
<1>9. WorkspaceExclusive'  BY DEF WorkspaceExclusive
<1> QED BY <1>1, <1>2, <1>3, <1>4, <1>5, <1>6, <1>7, <1>8, <1>9

LEMMA PartialData_Inv ==
  ASSUME NEW ok \in BOOLEAN, NEW n \in 1 .. Packet, Inv, PartialData(n, ok)
  PROVE  Inv'
<1> USE DEF Inv, TypeOK, PartialData,
        vars, session, readCursor, writeCursor, loaderState, chunkCursor,
        flashMode, partialWrite, cache, reply, target, hostImage, hostCursor
<1>a. RewrittenFlash \in [Address -> Value]  BY RewrittenType
<1>b. /\ [x \in Address |-> IF InPage(x) THEN Erased ELSE flash[x]] \in [Address -> Value]
      /\ [i \in Slot |-> IF InPage(i) THEN RewrittenFlash[i] ELSE transfer_chunk[i]]
           \in [Slot -> Value]
  BY <1>a, FlashValues, SlotInFlash DEF TargetType
<1>1. BoolType'  BY DEF BoolType, Reply
<1>2. PhaseType'  BY DEF PhaseType, Status, ReplyPatched, ReplyError, Reply
<1>3. CursorType'  BY DEF CursorType
<1>4. TargetType'  BY <1>a, <1>b DEF TargetType
<1>5. HostType'  BY DEF HostType
<1>6. RangeInv'  BY DEF RangeInv
<1>7. ChunkOnImage'  BY DEF ChunkOnImage
<1>8. LoaderInv'  BY DEF LoaderInv, ReadyLoaderIsWhole
<1>9. WorkspaceExclusive'  BY DEF WorkspaceExclusive
<1> QED BY <1>1, <1>2, <1>3, <1>4, <1>5, <1>6, <1>7, <1>8, <1>9

LEMMA PrepareWrite_Inv ==
  ASSUME NEW a \in {Page(b) : b \in Address}, NEW n \in 1 .. MaxLength, Inv, PrepareWrite(a, n)
  PROVE  Inv'
<1> USE DEF Inv, TypeOK, PrepareWrite, ClearOperation, ClearPhases, ReadNothing, WriteNothing,
        ResetChunkCursor, HostStops,
        vars, session, readCursor, writeCursor, loaderState, chunkCursor,
        flashMode, partialWrite, cache, reply, target, hostImage, hostCursor
<1>a. a \in Nat /\ a + n <= FlashSize
  BY PageBelow DEF Address
<1>b. flash_chunk_length' \in 0 .. Chunk /\ flash_chunk_length' = FirstChunk(write_remaining')
  BY DEF FirstChunk, Smaller
<1>c. Blank \in [Slot -> Value]  BY FlashValues DEF Blank
<1>1. BoolType'  BY DEF BoolType
<1>2. PhaseType'  BY DEF PhaseType, LoaderOperation, Status, Address, Address
<1>3. CursorType'  BY <1>a, <1>b DEF CursorType
<1>4. TargetType'  BY <1>c DEF TargetType
<1>5. HostType'  BY <1>a DEF HostType
<1>6. RangeInv'  BY <1>a, <1>b DEF RangeInv, HostType
<1>7. ChunkOnImage'  BY DEF ChunkOnImage
<1>8. LoaderInv'  BY DEF LoaderInv, ReadyLoaderIsWhole
<1>9. WorkspaceExclusive'  BY DEF WorkspaceExclusive
<1> QED BY <1>1, <1>2, <1>3, <1>4, <1>5, <1>6, <1>7, <1>8, <1>9

LEMMA FinishLoader_Inv ==
  ASSUME NEW command \in {"0x07", "0x0b"}, Inv, FinishLoader(command)
  PROVE  Inv'
<1> USE DEF Inv, TypeOK, FinishLoader, ResetChunkCursor, LoaderComplete, HostAt,
        vars, session, readCursor, writeCursor, loaderState, chunkCursor,
        flashMode, partialWrite, cache, reply, target, hostImage, hostCursor
<1>1. BoolType'  BY DEF BoolType
<1>2. PhaseType'  BY DEF PhaseType, LoaderOperation, Status
<1>3. CursorType'  BY DEF CursorType
<1>4. TargetType'  BY DEF TargetType
<1>5. HostType'  BY DEF HostType
<1>6. RangeInv'  BY DEF RangeInv
<1>7. ChunkOnImage'  BY DEF ChunkOnImage, RangeInv, CursorType, Smaller
<1>8. LoaderInv'  BY DEF LoaderInv, ReadyLoaderIsWhole
<1>9. WorkspaceExclusive'  BY DEF WorkspaceExclusive
<1> QED BY <1>1, <1>2, <1>3, <1>4, <1>5, <1>6, <1>7, <1>8, <1>9

LEMMA StartFlash_Inv ==
  ASSUME NEW operation \in LoaderOperation \ {"initialize"}, Inv, StartFlash(operation)
  PROVE  Inv'
<1> USE DEF Inv, TypeOK, StartFlash, ResetChunkCursor, HostAt,
        vars, session, readCursor, writeCursor, loaderState, chunkCursor,
        flashMode, partialWrite, cache, reply, target, hostImage, hostCursor
<1>1. BoolType'  BY DEF BoolType
<1>2. PhaseType'  BY DEF PhaseType, LoaderOperation, Status
<1>3. CursorType'  BY DEF CursorType
<1>4. TargetType'  BY DEF TargetType
<1>5. HostType'  BY DEF HostType
<1>6. RangeInv'  BY DEF RangeInv
<1>7. ChunkOnImage'  BY DEF ChunkOnImage, RangeInv, CursorType, Smaller
<1>8. LoaderInv'  BY DEF LoaderInv, ReadyLoaderIsWhole
<1>9. WorkspaceExclusive'  BY DEF WorkspaceExclusive
<1> QED BY <1>1, <1>2, <1>3, <1>4, <1>5, <1>6, <1>7, <1>8, <1>9

LEMMA LoaderData_Inv ==
  ASSUME NEW n \in 1 .. Packet, NEW ok \in BOOLEAN, Inv, LoaderData(n, ok)
  PROVE  Inv'
<1> USE DEF Inv, TypeOK, LoaderData, HostAt,
        vars, session, readCursor, writeCursor, loaderState, chunkCursor,
        flashMode, partialWrite, cache, reply, target, hostImage, hostCursor
<1>1. BoolType'  BY DEF BoolType
<1>2. PhaseType'  BY DEF PhaseType, LoaderOperation, Status
<1>3. CursorType'  BY DEF CursorType
<1>4. TargetType'  BY DEF TargetType, LoaderInv, Smaller
<1>5. HostType'  BY DEF HostType
<1>6. RangeInv'  BY DEF RangeInv
<1>7. ChunkOnImage'  BY DEF ChunkOnImage
<1>8. LoaderInv'
  <2> DEFINE full == ~profile.variable /\ loader_received + n >= LoaderSize
  <2>1. /\ loader_received \in 0 .. LoaderSize /\ code \in 0 .. LoaderSize
        /\ ~loader_ready /\ code <= loader_received
        /\ ~loader_error => code = loader_received
    BY DEF TargetType, LoaderInv
  <2>2. CASE ok
    <3>1. /\ ~loader_error /\ code' = loader_received + n
          /\ loader_received' = loader_received + n
          /\ loader_received + n <= LoaderSize
      BY <2>1, <2>2 DEF Smaller
    <3>2. CASE full  BY <2>1, <3>1, <3>2 DEF LoaderInv, ReadyLoaderIsWhole
    <3>3. CASE ~full  BY <2>1, <3>1, <3>3 DEF LoaderInv, ReadyLoaderIsWhole
    <3> QED BY <3>2, <3>3
  <2>3. CASE ~ok
    <3>1. loader_error' = TRUE  BY <2>3
    <3>2. code' = code /\ code <= loader_received'
      BY <2>1, <2>3 DEF Smaller
    <3>3. loader_ready' = FALSE  BY <2>1, <2>3, <3>1 DEF BoolType
    <3> QED BY <3>1, <3>2, <3>3 DEF LoaderInv, ReadyLoaderIsWhole
  <2> QED BY <2>2, <2>3
<1>9. WorkspaceExclusive'  BY DEF WorkspaceExclusive
<1> QED BY <1>1, <1>2, <1>3, <1>4, <1>5, <1>6, <1>7, <1>8, <1>9

LEMMA FlashLost_Inv ==
  ASSUME NEW n \in 1 .. Packet, Inv, FlashLost(n)
  PROVE  Inv'
<1> USE DEF Inv, TypeOK, FlashLost, FlashPacket,
        vars, session, readCursor, writeCursor, loaderState, chunkCursor,
        flashMode, partialWrite, cache, reply, target, hostImage, hostCursor
<1> USE DEF Flashing, Reply
<1>a. /\ TransferLength(n) \in Nat /\ Taken(n) \in Nat /\ Fresh(n) \in Nat
      /\ flash_transfer_received + Taken(n) <= TransferLength(n)
      /\ DataReceived(n) = Smaller(flash_transfer_received + Taken(n), flash_chunk_length)
  BY PacketFacts
<1>b. /\ SumAfter(n) \in Seq(Value) /\ Len(SumAfter(n)) = DataReceived(n)
  BY SumType
<1>c. /\ ChunkAfter(n) \in [Slot -> Value] /\ WorkAfter(n) \in [Slot -> Value]
  BY AfterTypes
<1>d. /\ DataReceived(n) \in 0 .. flash_chunk_length
      /\ RunWork(n) \in [Slot -> Value]
  BY RunTypes
<1>1. BoolType'  BY DEF BoolType
<1>2. PhaseType'  BY DEF PhaseType, Status, ReplyError
<1>3. CursorType'  BY <1>a, <1>b, <1>d DEF CursorType, DataReceived
<1>4. TargetType'  BY <1>c, <1>d DEF TargetType
<1>5. HostType'  BY DEF HostType
<1>6. RangeInv'  BY DEF RangeInv
<1>7. ChunkOnImage'  BY DEF ChunkOnImage
<1>8. LoaderInv'  BY DEF LoaderInv, ReadyLoaderIsWhole
<1>9. WorkspaceExclusive'  BY DEF WorkspaceExclusive
<1> QED BY <1>1, <1>2, <1>3, <1>4, <1>5, <1>6, <1>7, <1>8, <1>9

LEMMA FlashStored_Inv ==
  ASSUME NEW n \in 1 .. Packet, Inv, FlashStored(n)
  PROVE  Inv'
<1> USE DEF Inv, TypeOK, FlashStored, FlashPacket,
        vars, session, readCursor, writeCursor, loaderState, chunkCursor,
        flashMode, partialWrite, cache, reply, target, hostImage, hostCursor
<1> USE DEF Flashing, Reply
<1>a. /\ TransferLength(n) \in Nat /\ Taken(n) \in Nat /\ Fresh(n) \in Nat
      /\ flash_transfer_received + Taken(n) <= TransferLength(n)
      /\ DataReceived(n) = Smaller(flash_transfer_received + Taken(n), flash_chunk_length)
  BY PacketFacts
<1>b. /\ SumAfter(n) \in Seq(Value) /\ Len(SumAfter(n)) = DataReceived(n)
  BY SumType
<1>c. /\ ChunkAfter(n) \in [Slot -> Value] /\ WorkAfter(n) \in [Slot -> Value]
  BY AfterTypes
<1>d. /\ DataReceived(n) \in 0 .. flash_chunk_length
      /\ RunWork(n) \in [Slot -> Value]
  BY RunTypes
<1>1. BoolType'  BY DEF BoolType
<1>2. PhaseType'  BY DEF PhaseType, Status, ReplyError
<1>3. CursorType'
  <2>1. flash_data_received' = DataReceived(n)  BY DEF DataReceived
  <2>2. DataReceived(n) \in 0 .. Chunk  BY <1>d DEF CursorType
  <2>3. flash_transfer_received' \in Nat  BY <1>a DEF CursorType
  <2> QED BY <1>a, <1>b, <2>1, <2>2, <2>3 DEF CursorType
<1>4. TargetType'  BY <1>c, <1>d DEF TargetType
<1>5. HostType'  BY DEF HostType
<1>6. RangeInv'  BY DEF RangeInv
<1>7. ChunkOnImage'  BY <1>a, <1>b, <1>d DEF ChunkOnImage, EndsTransfer, DataReceived, CursorType
<1>8. LoaderInv'  BY DEF LoaderInv, ReadyLoaderIsWhole
<1>9. WorkspaceExclusive'  BY DEF WorkspaceExclusive
<1> QED BY <1>1, <1>2, <1>3, <1>4, <1>5, <1>6, <1>7, <1>8, <1>9

LEMMA ChunkLost_Inv ==
  ASSUME NEW n \in 1 .. Packet, Inv, ChunkLost(n)
  PROVE  Inv'
<1> USE DEF Inv, TypeOK, ChunkLost, FlashPacket,
        vars, session, readCursor, writeCursor, loaderState, chunkCursor,
        flashMode, partialWrite, cache, reply, target, hostImage, hostCursor
<1> USE DEF Flashing, Reply
<1>a. /\ TransferLength(n) \in Nat /\ Taken(n) \in Nat /\ Fresh(n) \in Nat
      /\ flash_transfer_received + Taken(n) <= TransferLength(n)
      /\ DataReceived(n) = Smaller(flash_transfer_received + Taken(n), flash_chunk_length)
  BY PacketFacts
<1>b. /\ SumAfter(n) \in Seq(Value) /\ Len(SumAfter(n)) = DataReceived(n)
  BY SumType
<1>c. /\ ChunkAfter(n) \in [Slot -> Value] /\ WorkAfter(n) \in [Slot -> Value]
  BY AfterTypes
<1>d. /\ DataReceived(n) \in 0 .. flash_chunk_length
      /\ RunWork(n) \in [Slot -> Value]
  BY RunTypes
<1>1. BoolType'  BY DEF BoolType
<1>2. PhaseType'  BY DEF PhaseType, Status, ReplyError
<1>3. CursorType'
  <2>1. flash_data_received' = DataReceived(n)  OBVIOUS
  <2>2. DataReceived(n) \in 0 .. Chunk  BY <1>d DEF CursorType
  <2>3. flash_transfer_received' \in Nat  BY <1>a DEF CursorType
  <2>4. flash_transfer_length' \in Nat /\ flash_checksum' \in Seq(Value)
    BY <1>a, <1>b
  <2>5. UNCHANGED <<write_address, write_remaining, flash_chunk_length>>  OBVIOUS
  <2> QED BY <2>1, <2>2, <2>3, <2>4, <2>5 DEF CursorType
<1>4. TargetType'  BY <1>c, <1>d DEF TargetType
<1>5. HostType'  BY DEF HostType
<1>6. RangeInv'  BY DEF RangeInv
<1>7. ChunkOnImage'  BY DEF ChunkOnImage
<1>8. LoaderInv'  BY DEF LoaderInv, ReadyLoaderIsWhole
<1>9. WorkspaceExclusive'  BY DEF WorkspaceExclusive
<1> QED BY <1>1, <1>2, <1>3, <1>4, <1>5, <1>6, <1>7, <1>8, <1>9

\* A run of the loader leaves the flash as it was or programmed.
LEMMA RunResult ==
  ASSUME NEW w, NEW success, NEW f \in LoaderRun(w, success)
  PROVE  f = flash \/ f = ProgrammedFlash(w)
BY DEF LoaderRun

LEMMA ProgrammedType ==
  ASSUME Inv, NEW w \in [Slot -> Value]
  PROVE  ProgrammedFlash(w) \in [Address -> Value]
<1>1. /\ write_address \in Nat /\ flash_chunk_length \in 0 .. Chunk
      /\ flash \in [Address -> Value]
  BY DEF Inv, TypeOK, CursorType, TargetType
<1>2. ASSUME NEW x \in Address, write_address <= x,
             x < write_address + flash_chunk_length
      PROVE  x - write_address \in Slot
  BY <1>1, <1>2 DEF Address, Slot
<1> QED BY <1>1, <1>2 DEF ProgrammedFlash

\* The status of a run is a byte; it is that of a chunk done only for a run that
\* returned 0, if the loader's complaints differ in their low byte.
LEMMA StatusOfRun ==
  ASSUME NEW outcome \in Outcome
  PROVE  /\ DataStatus(outcome) \in Status
         /\ ComplaintsDiffer /\ DataStatus(outcome) = ReplyDone => Success(outcome)
<1>1. CASE outcome \in [ok : {TRUE}, value : LoaderValues]
  <2>1. outcome.ok = TRUE /\ outcome.value \in LoaderValues /\ outcome.value \in Nat
    BY <1>1, LoaderAssumption
  <2> DEFINE v == outcome.value
  <2>2. v % 256 \in 0 .. 255  BY <2>1
  <2>3. DataStatus(outcome) \in {4, 3, 5, v % 256}
    BY <2>1 DEF DataStatus, ReplyDone
  <2>4. v # 0 /\ v # 8 /\ v # 16 => DataStatus(outcome) = v % 256
    BY <2>1 DEF DataStatus
  <2>5. (v = 8 => DataStatus(outcome) = 3) /\ (v = 16 => DataStatus(outcome) = 5)
    BY <2>1 DEF DataStatus
  <2> QED BY <2>1, <2>2, <2>3, <2>4, <2>5
          DEF Status, ComplaintsDiffer, Success, ReplyDone
<1>2. CASE outcome \in [ok : {FALSE}, value : FailureValues]
  <2>1. outcome.ok = FALSE /\ outcome.value \in FailureValues  BY <1>2
  <2>2. DataStatus(outcome) = outcome.value % 256  BY <2>1 DEF DataStatus
  <2>3. DataStatus(outcome) \in {21, 3}  BY <2>1, <2>2 DEF FailureValues
  <2> QED BY <2>3 DEF Status, ReplyDone
<1> QED BY <1>1, <1>2 DEF Outcome

LEMMA ChunkRun_Inv ==
  ASSUME NEW n \in 1 .. Packet, NEW outcome \in Outcome, Inv, ChunkRun(n, outcome)
  PROVE  Inv'
<1> USE DEF Inv, TypeOK, ChunkRun,
        vars, session, readCursor, writeCursor, loaderState, chunkCursor,
        flashMode, partialWrite, cache, reply, target, hostImage, hostCursor
<1>1. Flashing  BY DEF Flashing
<1>2. /\ TransferLength(n) \in Nat /\ Taken(n) \in Nat
      /\ DataReceived(n) \in 0 .. flash_chunk_length
      /\ Padded \in flash_chunk_length .. Chunk
      /\ RunWork(n) \in [Slot -> Value] /\ RunSum(n) \in Seq(Value)
      /\ ChunkAfter(n) \in [Slot -> Value]
  BY <1>1, PacketFacts, RunTypes, AfterTypes
<1>3. NextChunk \/ LastChunk(n)  OBVIOUS
<1>4. /\ flash_chunk_length \in 1 .. Chunk /\ flash_chunk_length <= write_remaining
      /\ write_address \in Nat /\ write_remaining \in Nat
      /\ image_base + image_length <= FlashSize
      /\ write_address + write_remaining = image_base + image_length
  BY <1>1 DEF RangeInv, Flashing, CursorType, FirstChunk, Smaller
<1>5. ASSUME NextChunk
      PROVE  /\ write_address' \in 0 .. FlashSize
             /\ write_remaining' \in 0 .. FlashSize
             /\ write_address' + write_remaining' = image_base' + image_length'
             /\ image_base' <= write_address'
             /\ flash_chunk_length' \in 0 .. Chunk
             /\ flash_chunk_length' = FirstChunk(write_remaining')
  <2>1. /\ write_address' = write_address + flash_chunk_length
        /\ write_remaining' = write_remaining - flash_chunk_length
        /\ flash_chunk_length' = FirstChunk(write_remaining')
    BY <1>5 DEF NextChunk
  <2>2. image_base' = image_base /\ image_length' = image_length  OBVIOUS
  <2>3. /\ image_base \in Nat /\ image_length \in Nat
        /\ image_base <= write_address
    BY <1>1 DEF HostType, RangeInv, Flashing
  <2>4. write_address' + write_remaining' = write_address + write_remaining
    BY <1>4, <2>1
  <2> QED BY <1>4, <2>1, <2>2, <2>3, <2>4 DEF FirstChunk, Smaller, CursorType
<1>6. BoolType'
  <2>1. checksum_covers' \in BOOLEAN  OBVIOUS
  <2>2. data_reply_pending' \in BOOLEAN  BY DEF Reply
  <2> QED BY <2>1, <2>2 DEF BoolType
<1>7. PhaseType'
  <2>1. data_reply_status' \in Status  BY StatusOfRun DEF Reply
  <2>2. out_state' \in {"idle", "flash"}
    BY <1>3 DEF NextChunk, LastChunk
  <2> QED BY <2>1, <2>2 DEF PhaseType
<1>8. CursorType'
  <2>1. CASE NextChunk  BY <1>5, <2>1 DEF CursorType, NextChunk, ResetChunkCursor
  <2>2. CASE LastChunk(n)  BY <1>2, <1>4, <2>2 DEF CursorType, LastChunk
  <2> QED BY <1>3, <2>1, <2>2
<1>9. TargetType'
  <2>1. flash' \in [Address -> Value]
    BY <1>2, RunResult, ProgrammedType DEF TargetType
  <2> QED BY <1>2, <2>1 DEF TargetType
<1>10. HostType'
  <2>1. chunk_sent' \in Nat  BY DEF HostType
  <2> QED BY <2>1 DEF HostType
<1>11. RangeInv'
  <2>1. CASE NextChunk  BY <1>5, <2>1, <1>1 DEF RangeInv, Flashing
  <2>2. CASE LastChunk(n)  BY <2>2 DEF RangeInv, LastChunk
  <2> QED BY <1>3, <2>1, <2>2
<1>12. ChunkOnImage'
  <2>1. CASE NextChunk
    <3>1. /\ flash_data_received' = 0 /\ flash_transfer_received' = 0
          /\ flash_checksum' = <<>>
      BY <2>1 DEF NextChunk, ResetChunkCursor
    <3> QED BY <1>5, <2>1, <3>1 DEF ChunkOnImage, Smaller
  <2>2. CASE LastChunk(n)  BY <2>2 DEF ChunkOnImage, LastChunk
  <2> QED BY <1>3, <2>1, <2>2
<1>13. LoaderInv'
  BY <1>3 DEF LoaderInv, ReadyLoaderIsWhole, NextChunk, LastChunk
<1>14. WorkspaceExclusive'  BY <1>3 DEF WorkspaceExclusive, NextChunk, LastChunk
<1> QED BY <1>6, <1>7, <1>8, <1>9, <1>10, <1>11, <1>12, <1>13, <1>14

-----------------------------------------------------------------------------
(* The invariant *)

LEMMA InitInv == Init => Inv
<1> SUFFICES ASSUME Init PROVE Inv  OBVIOUS
<1> USE DEF Init
<1>1. BoolType  BY DEF BoolType
<1>2. PhaseType  BY DEF PhaseType, LoaderOperation, Status, Address
<1>3. CursorType  BY DEF CursorType
<1>4. TargetType
  <2>1. Blank \in [Slot -> Value]  BY FlashValues DEF Blank
  <2>2. flash \in [Address -> Value]  BY FlashValues
  <2> QED BY <2>1, <2>2 DEF TargetType
<1>5. HostType  BY DEF HostType
<1>6. RangeInv /\ ChunkOnImage /\ LoaderInv /\ WorkspaceExclusive
  BY DEF RangeInv, ChunkOnImage, LoaderInv, ReadyLoaderIsWhole, WorkspaceExclusive
<1> QED BY <1>1, <1>2, <1>3, <1>4, <1>5, <1>6 DEF Inv, TypeOK

LEMMA StutterInv == ASSUME Inv, UNCHANGED vars PROVE Inv'
<1> USE DEF Inv, TypeOK, vars, session, readCursor, writeCursor, loaderState,
        chunkCursor, flashMode, partialWrite, cache, reply, target, hostImage,
        hostCursor
<1>1. BoolType'  BY DEF BoolType
<1>2. PhaseType' /\ CursorType'  BY DEF PhaseType, CursorType
<1>3. TargetType' /\ HostType'  BY DEF TargetType, HostType
<1>4. RangeInv' /\ ChunkOnImage'  BY DEF RangeInv, ChunkOnImage
<1>5. LoaderInv' /\ WorkspaceExclusive'
  BY DEF LoaderInv, ReadyLoaderIsWhole, WorkspaceExclusive
<1> QED BY <1>1, <1>2, <1>3, <1>4, <1>5

\* Every step of the program keeps the invariant.
LEMMA StepInv == ASSUME Inv, [Next]_vars PROVE Inv'
<1>1. CASE SessionReset \/ PowerOff \/ ProgramEnd \/ AbandonData
  BY <1>1, SessionReset_Inv, PowerOff_Inv, ProgramEnd_Inv, AbandonData_Inv
<1>2. CASE MarkPrepare \/ BeginRead \/ StartLoader
  BY <1>2, MarkPrepare_Inv, BeginRead_Inv, StartLoader_Inv
<1>3. CASE FinishLoaderRefused \/ FinishLoaderFailed \/ TakeReply
  BY <1>3, FinishLoaderRefused_Inv, FinishLoaderFailed_Inv, TakeReply_Inv
<1>4. CASE \E ok \in BOOLEAN :
             Connect(ok) \/ SetChipType(ok) \/ EraseAll(ok) \/ ClearCodeFlash(ok) \/ ReadData(ok)
  BY <1>4, Connect_Inv, SetChipType_Inv, EraseAll_Inv, ClearCodeFlash_Inv, ReadData_Inv
<1>5. CASE \E n \in 0 .. Packet + 1, ragged \in BOOLEAN : PrepareRead(n, ragged)
  BY <1>5, PrepareRead_Inv
<1>6. CASE \E a \in Address, n \in 1 .. Packet : StartPartialWrite(a, n)
  BY <1>6, StartPartialWrite_Inv
<1>7. CASE \E a \in {Page(b) : b \in Address}, n \in 1 .. MaxLength : PrepareWrite(a, n)
  BY <1>7, PrepareWrite_Inv
<1>8. CASE \E command \in {"0x07", "0x0b"} : FinishLoader(command)
  BY <1>8, FinishLoader_Inv
<1>9. CASE \E operation \in LoaderOperation \ {"initialize"} : StartFlash(operation)
  BY <1>9, StartFlash_Inv
<1>10. CASE \E n \in 1 .. Packet, ok \in BOOLEAN : LoaderData(n, ok) \/ PartialData(n, ok)
  BY <1>10, LoaderData_Inv, PartialData_Inv
<1>11. CASE \E n \in 1 .. Packet : FlashLost(n) \/ FlashStored(n) \/ ChunkLost(n)
  BY <1>11, FlashLost_Inv, FlashStored_Inv, ChunkLost_Inv
<1>12. CASE \E n \in 1 .. Packet, outcome \in Outcome : ChunkRun(n, outcome)
  BY <1>12, ChunkRun_Inv
<1>13. CASE UNCHANGED vars  BY <1>13, StutterInv
<1> QED
  BY <1>1, <1>2, <1>3, <1>4, <1>5, <1>6, <1>7, <1>8, <1>9, <1>10, <1>11, <1>12,
     <1>13 DEF Next

\* The inductive invariant holds in every reachable state, for every size of
\* packet, chunk, loader, flash and image, and for hosts in any order.
THEOREM Invariance == Spec => []Inv
<1>1. Inv /\ [Next]_vars => Inv'  BY StepInv
<1> QED BY InitInv, <1>1, PTL DEF Spec

\* Every variable stays within its type: no packet length makes a chunk exceed
\* the chunk buffer or the flash.
THEOREM TypeCorrect == Spec => []TypeOK
<1>1. Inv => TypeOK  BY DEF Inv
<1> QED BY Invariance, <1>1, PTL

\* While chunks are sent, the cursors of write_data stay on the image.
THEOREM CursorsStayOnImage == Spec => []ChunkOnImage
<1>1. Inv => ChunkOnImage  BY DEF Inv
<1> QED BY Invariance, <1>1, PTL

\* A loader of fixed length with a lost packet is never taken for ready.
THEOREM ReadyIsWhole == Spec => []ReadyLoaderIsWhole
<1>1. Inv => ReadyLoaderIsWhole  BY DEF Inv, LoaderInv
<1> QED BY Invariance, <1>1, PTL

\* The page cache is never trusted while the buffer it shares collects chunks.
THEOREM OneUser == Spec => []WorkspaceExclusive
<1>1. Inv => WorkspaceExclusive  BY DEF Inv
<1> QED BY Invariance, <1>1, PTL

-----------------------------------------------------------------------------
(* Where the flash changes *)

LEMMA StepWritesImage ==
  ASSUME Inv, [Next]_vars, NEW x \in Address, flash'[x] # flash[x]
  PROVE  \/ image_base <= x /\ x < image_base + image_length
         \/ flash'[x] = Erased
         \/ out_state = "partial" /\ InPage(x)
<1>1. CASE \E n \in 1 .. Packet, outcome \in Outcome : ChunkRun(n, outcome)
  <2>1. PICK n \in 1 .. Packet, outcome \in Outcome : ChunkRun(n, outcome)  BY <1>1
  <2>2. flash' = ProgrammedFlash(RunWork(n))  BY <2>1, RunResult DEF ChunkRun
  <2>3. write_address <= x /\ x < write_address + flash_chunk_length
    BY <2>2 DEF ProgrammedFlash
  <2>4. out_state = "flash" /\ write_remaining # 0  BY <2>1 DEF ChunkRun
  <2>5. /\ image_base \in Nat /\ image_length \in Nat
        /\ write_address \in Nat /\ write_remaining \in Nat
    BY DEF Inv, TypeOK, CursorType, HostType
  <2>6. /\ write_address + write_remaining = image_base + image_length
        /\ flash_chunk_length = FirstChunk(write_remaining)
    BY <2>4 DEF Inv, ChunkOnImage
  <2>7. flash_chunk_length <= write_remaining
    BY <2>5, <2>6 DEF FirstChunk, Smaller
  <2>8. flash_chunk_length \in Nat  BY DEF Inv, TypeOK, CursorType
  <2>9. x < image_base + image_length
    BY <2>3, <2>5, <2>6, <2>7, <2>8 DEF Address
  <2>10. image_base <= x  BY <2>3, <2>4, <2>5 DEF Inv, RangeInv, Address
  <2> QED BY <2>9, <2>10
<1>2. CASE \E n \in 1 .. Packet, ok \in BOOLEAN : PartialData(n, ok)
  BY <1>2 DEF PartialData, RewrittenFlash
<1>3. CASE \E ok \in BOOLEAN : EraseAll(ok) \/ ClearCodeFlash(ok)
  BY <1>3 DEF EraseAll, ClearCodeFlash, EraseTarget, ErasedFlash
<1>4. ASSUME ~\E n \in 1 .. Packet, outcome \in Outcome : ChunkRun(n, outcome),
             ~\E n \in 1 .. Packet, ok \in BOOLEAN : PartialData(n, ok),
             ~\E ok \in BOOLEAN : EraseAll(ok) \/ ClearCodeFlash(ok)
      PROVE  flash' = flash
  BY <1>4 DEF Next, vars, target, SessionReset, PowerOff, ProgramEnd, AbandonData,
     MarkPrepare, BeginRead, StartLoader, FinishLoaderRefused, FinishLoaderFailed,
     TakeReply, Connect, SetChipType, ReadData, PrepareRead, StartPartialWrite,
     PrepareWrite, FinishLoader, StartFlash, LoaderData, FlashLost, FlashStored,
     ChunkLost
<1> QED BY <1>1, <1>2, <1>3, <1>4

\* The flash changes only where the announced image goes, by an erase, or in
\* the page of a partial write, for every image, packet and loader outcome.
THEOREM FlashKept == Spec => OnlyImageWritten
<1>1. Inv /\ [Next]_vars => [WritesImage]_vars
  BY StepWritesImage DEF WritesImage
<1> QED BY Invariance, <1>1, PTL DEF Spec, OnlyImageWritten

-----------------------------------------------------------------------------
(* The order of the phases, for a host that keeps to it *)

\* What an orderly host relies on: it sends a loader only to a target, and
\* what it takes for a loader that waits for data has been initialised.
HostInv ==
  /\ stage \in {"loading", "ready", "flashing"} => connected
  /\ stage \in {"ready", "flashing"} => initialized

\* No chunk step touches the host's stage, the connection or the loader's state,
\* or opens the flash phase.
LEMMA ChunkStepsKeepStage ==
  ASSUME NEW n \in 1 .. Packet,
         \/ FlashLost(n) \/ FlashStored(n) \/ ChunkLost(n)
         \/ \E outcome \in Outcome : ChunkRun(n, outcome)
  PROVE  UNCHANGED <<stage, connected, initialized>> /\ out_state = "flash"
<1>1. CASE FlashLost(n) \/ FlashStored(n) \/ ChunkLost(n)
  BY <1>1 DEF FlashLost, FlashStored, ChunkLost, FlashPacket, session, target
<1>2. CASE \E outcome \in Outcome : ChunkRun(n, outcome)
  BY <1>2 DEF ChunkRun, session
<1> QED BY <1>1, <1>2

LEMMA StepHostInv ==
  ASSUME Orderly, HostInv, [Next]_vars
  PROVE  HostInv' /\ (out_state # "flash" /\ out_state' = "flash" => initialized')
<1> USE DEF HostInv, session, target
<1>1. CASE SessionReset \/ PowerOff \/ ProgramEnd \/ AbandonData
  BY <1>1 DEF SessionReset, PowerOff, ProgramEnd, AbandonData, HostStops,
       ClearOperation, ClearPhases
<1>2. CASE MarkPrepare \/ BeginRead \/ StartLoader
  BY <1>2 DEF MarkPrepare, BeginRead, StartLoader
<1>3. CASE FinishLoaderRefused \/ FinishLoaderFailed \/ TakeReply
  BY <1>3 DEF FinishLoaderRefused, FinishLoaderFailed, TakeReply
<1>4. CASE \E ok \in BOOLEAN : \/ Connect(ok) \/ SetChipType(ok) \/ EraseAll(ok)
                               \/ ClearCodeFlash(ok) \/ ReadData(ok)
  BY <1>4 DEF Connect, SetChipType, EraseAll, ClearCodeFlash, ReadData,
       EraseTarget, HostStops, ClearOperation, ClearPhases
<1>5. CASE \E n \in 0 .. Packet + 1, ragged \in BOOLEAN : PrepareRead(n, ragged)
  BY <1>5 DEF PrepareRead, HostStops, ClearPhases
<1>6. CASE \E a \in Address, n \in 1 .. Packet : StartPartialWrite(a, n)
  BY <1>6 DEF StartPartialWrite
<1>7. CASE \E a \in {Page(b) : b \in Address}, n \in 1 .. MaxLength :
             PrepareWrite(a, n)
  BY <1>7 DEF PrepareWrite, ClearPhases
<1>8. CASE \E command \in {"0x07", "0x0b"} : FinishLoader(command)
  <2>1. /\ stage = "loading" /\ stage' = "ready" /\ initialized'
        /\ connected' = connected
    BY <1>8 DEF FinishLoader, HostAt
  <2> QED BY <2>1
<1>9. CASE \E operation \in LoaderOperation \ {"initialize"} : StartFlash(operation)
  <2>1. /\ stage = "ready" /\ stage' = "flashing"
        /\ initialized' = initialized /\ connected' = connected
    BY <1>9 DEF StartFlash, HostAt
  <2> QED BY <2>1
<1>10. CASE \E n \in 1 .. Packet, ok \in BOOLEAN : LoaderData(n, ok) \/ PartialData(n, ok)
  BY <1>10 DEF LoaderData, PartialData
<1>11. CASE \E n \in 1 .. Packet : \/ FlashLost(n) \/ FlashStored(n) \/ ChunkLost(n)
                                   \/ \E outcome \in Outcome : ChunkRun(n, outcome)
  BY <1>11, ChunkStepsKeepStage
<1>12. CASE UNCHANGED vars
  BY <1>12 DEF vars
<1> QED BY <1>1, <1>2, <1>3, <1>4, <1>5, <1>6, <1>7, <1>8, <1>9, <1>10, <1>11,
           <1>12 DEF Next

\* With a host that keeps to the order of the phases, data enters the flash
\* phase only after the loader that runs it was initialised, through every
\* reconnection, erase, power loss and abort in between.
THEOREM FlashIsInitialized == Orderly => (Spec => FlashAfterInitialize)
<1> SUFFICES ASSUME Orderly PROVE Spec => FlashAfterInitialize
  OBVIOUS
<1>1. Init => HostInv  BY DEF Init, HostInv
<1>2. HostInv /\ [Next]_vars => HostInv'  BY StepHostInv
<1>3. HostInv /\ [Next]_vars
        => [out_state # "flash" /\ out_state' = "flash" => initialized']_vars
  BY StepHostInv
<1> QED BY <1>1, <1>2, <1>3, PTL DEF Spec, FlashAfterInitialize

-----------------------------------------------------------------------------
(***************************************************************************)
(* Proofs about the image: the words of a chunk are those the host sent,   *)
(* the checksum is that of the words the loader reads, and what the host   *)
(* has been told is programmed is in the flash.                            *)
(***************************************************************************)

-----------------------------------------------------------------------------
(* The words of a chunk, for hosts in any order *)

\* Where the words of the chunk are until the loader runs.
Collected(i) == IF profile.streaming THEN transfer_chunk[i] ELSE work[i]
CollectedAfter(n) == IF profile.streaming THEN ChunkAfter(n) ELSE WorkAfter(n)

\* The checksum so far is that of the words collected so far, and a transfer of
\* known length is at least as long as its chunk.
CollectInv ==
  Flashing =>
    /\ flash_transfer_length = 0 \/ flash_chunk_length <= flash_transfer_length
    /\ \A i \in 0 .. flash_data_received - 1 : Collected(i) = flash_checksum[i + 1]

\* The last packet of a transfer completes its chunk.
LEMMA TransferCoversChunk ==
  ASSUME Inv, Flashing, CollectInv, NEW n \in 1 .. Packet
  PROVE  flash_chunk_length <= TransferLength(n)
<1>1. flash_chunk_length \in 0 .. Chunk /\ flash_transfer_length \in Nat
  BY DEF Inv, TypeOK, CursorType
<1>2. flash_chunk_length <= RoundUp(flash_chunk_length, n)
  BY <1>1, RoundUpNat
<1> QED BY <1>1, <1>2 DEF CollectInv, TransferLength

LEMMA EndCompletesChunk ==
  ASSUME Inv, Flashing, CollectInv, NEW n \in 1 .. Packet, EndsTransfer(n)
  PROVE  DataReceived(n) = flash_chunk_length
<1>1. flash_chunk_length \in Nat /\ flash_transfer_received \in Nat
  BY DEF Inv, TypeOK, CursorType
<1> QED BY <1>1, TransferCoversChunk, PacketFacts DEF EndsTransfer, Smaller

LEMMA ConcatElement ==
  ASSUME NEW S, NEW s \in Seq(S), NEW t \in Seq(S), NEW i \in 1 .. Len(s) + Len(t)
  PROVE  (s \o t)[i] = IF i <= Len(s) THEN s[i] ELSE t[i - Len(s)]
OBVIOUS

\* The words summed after a packet: those before it, then its fresh words.
LEMMA SumElement ==
  ASSUME Inv, Flashing, NEW n \in 1 .. Packet, NEW i \in 0 .. DataReceived(n) - 1
  PROVE  SumAfter(n)[i + 1] =
           IF i < flash_data_received THEN flash_checksum[i + 1]
           ELSE HostWord(chunk_base + chunk_sent + (i - flash_data_received))
<1> DEFINE t == [j \in 1 .. Fresh(n) |-> HostWord(chunk_base + chunk_sent + j - 1)]
<1>1. /\ chunk_base \in Nat /\ chunk_sent \in Nat /\ flash_data_received \in Nat
      /\ flash_checksum \in Seq(Value)
  BY DEF Inv, TypeOK, HostType, CursorType
<1>2. Fresh(n) \in Nat  BY PacketFacts
<1>3. ASSUME NEW j \in 1 .. Fresh(n)
      PROVE  HostWord(chunk_base + chunk_sent + j - 1) \in Value
  <2>1. chunk_base + chunk_sent + j - 1 \in Nat  BY <1>1, <1>2
  <2> QED BY <2>1, HostWordValue
<1>4. t \in [1 .. Fresh(n) -> Value]  BY <1>3
<1>5. t \in Seq(Value) /\ Len(t) = Fresh(n)  BY <1>2, <1>4, FunctionSeq
<1>6. flash_data_received = Len(flash_checksum)
  BY DEF Inv, ChunkOnImage, Flashing
<1>7. SumAfter(n) = flash_checksum \o t  BY DEF SumAfter
<1>8. ASSUME NEW j \in 1 .. Fresh(n)
      PROVE  t[j] = HostWord(chunk_base + chunk_sent + j - 1)
  BY <1>8
<1> HIDE DEF t
<1>9. i + 1 \in 1 .. Len(flash_checksum) + Len(t)
  BY <1>1, <1>2, <1>5, <1>6 DEF DataReceived
<1>10. SumAfter(n)[i + 1] = IF i + 1 <= Len(flash_checksum) THEN flash_checksum[i + 1]
                            ELSE t[i + 1 - Len(flash_checksum)]
  BY <1>1, <1>5, <1>7, <1>9, ConcatElement
<1>11. CASE i < flash_data_received  BY <1>1, <1>6, <1>10, <1>11
<1>12. CASE ~(i < flash_data_received)
  <2>1. /\ i + 1 - flash_data_received \in 1 .. Fresh(n)
        /\ i + 1 - flash_data_received - 1 = i - flash_data_received
    BY <1>1, <1>2, <1>12 DEF DataReceived
  <2>2. t[i + 1 - flash_data_received]
          = HostWord(chunk_base + chunk_sent + (i + 1 - flash_data_received) - 1)
    BY <1>8, <2>1
  <2>3. chunk_base + chunk_sent + (i + 1 - flash_data_received) - 1
          = chunk_base + chunk_sent + (i - flash_data_received)
    BY <1>1
  <2> QED BY <1>1, <1>6, <1>10, <1>12, <2>2, <2>3
<1> QED BY <1>11, <1>12

\* A packet appends the same words to the buffer and to the checksum.
LEMMA PacketCollected ==
  ASSUME Inv, Flashing, CollectInv, NEW n \in 1 .. Packet,
         NEW i \in 0 .. DataReceived(n) - 1
  PROVE  CollectedAfter(n)[i] = SumAfter(n)[i + 1]
<1> DEFINE r == flash_transfer_received
           buffer == IF profile.streaming THEN transfer_chunk ELSE work
<1>1. /\ r \in Nat /\ flash_chunk_length \in 0 .. Chunk
      /\ flash_data_received \in Nat /\ DataReceived(n) \in 0 .. flash_chunk_length
      /\ Fresh(n) \in Nat
  BY PacketFacts, RunTypes DEF Inv, TypeOK, CursorType
<1>2. flash_data_received = Smaller(r, flash_chunk_length)
  BY DEF Inv, ChunkOnImage, Flashing
<1>3. i \in Slot /\ i \in Nat  BY <1>1 DEF Slot
<1>4. CollectedAfter(n) = Put(buffer, r, n)
  BY DEF CollectedAfter, ChunkAfter, WorkAfter
<1>5. CollectedAfter(n)[i] = IF r <= i /\ i < r + Fresh(n)
                             THEN HostWord(chunk_base + chunk_sent + (i - r))
                             ELSE buffer[i]
  BY <1>3, <1>4 DEF Put
<1>6. CASE i < flash_data_received
  <2>1. i < r  BY <1>1, <1>2, <1>3, <1>6 DEF Smaller
  <2>2. CollectedAfter(n)[i] = buffer[i]  BY <1>1, <1>3, <1>5, <2>1
  <2>3. buffer[i] = flash_checksum[i + 1]
    BY <1>1, <1>3, <1>6 DEF CollectInv, Collected
  <2> QED BY <1>6, <2>2, <2>3, SumElement
<1>7. CASE ~(i < flash_data_received)
  <2>1. Fresh(n) # 0 /\ i < flash_data_received + Fresh(n)
    BY <1>1, <1>3, <1>7 DEF DataReceived
  <2>2. r < flash_chunk_length  BY <2>1 DEF Fresh
  <2>3. flash_data_received = r  BY <1>1, <1>2, <2>2 DEF Smaller
  <2>4. CollectedAfter(n)[i] = HostWord(chunk_base + chunk_sent + (i - r))
    BY <1>1, <1>3, <1>5, <1>7, <2>1, <2>3
  <2> QED BY <1>7, <2>3, <2>4, SumElement
<1> QED BY <1>6, <1>7

\* The run reads the words collected, then the filling.
LEMMA RunReads ==
  ASSUME Inv, Flashing, CollectInv, NEW n \in 1 .. Packet, EndsTransfer(n),
         NEW i \in Slot
  PROVE  RunWork(n)[i] = IF i < flash_chunk_length THEN CollectedAfter(n)[i]
                         ELSE IF i < Padded THEN Erased ELSE WorkAfter(n)[i]
<1>1. DataReceived(n) = flash_chunk_length  BY EndCompletesChunk
<1>2. flash_chunk_length \in Nat /\ i \in Nat
  BY DEF Inv, TypeOK, CursorType, Slot
<1>3. RunWork(n)[i] = IF DataReceived(n) <= i /\ i < Padded THEN Erased
                      ELSE IF profile.streaming /\ i < flash_chunk_length
                      THEN ChunkAfter(n)[i] ELSE WorkAfter(n)[i]
  BY DEF RunWork
<1>4. Padded \in flash_chunk_length .. Chunk  BY RunTypes
<1> QED BY <1>1, <1>2, <1>3, <1>4 DEF CollectedAfter

LEMMA RunSumElement ==
  ASSUME Inv, Flashing, CollectInv, NEW n \in 1 .. Packet, EndsTransfer(n)
  PROVE  /\ RunSum(n) \in Seq(Value) /\ Len(RunSum(n)) = Padded
         /\ \A i \in 1 .. Padded :
              RunSum(n)[i] = IF i <= flash_chunk_length THEN SumAfter(n)[i] ELSE Erased
<1> DEFINE m == Padded - DataReceived(n)
           t == [i \in 1 .. m |-> Erased]
<1>1. DataReceived(n) = flash_chunk_length  BY EndCompletesChunk
<1>2. flash_chunk_length \in Nat /\ Padded \in flash_chunk_length .. Chunk
  BY RunTypes DEF Inv, TypeOK, CursorType
<1>3. m \in Nat  BY <1>1, <1>2
<1>4. t \in [1 .. m -> Value]  BY FlashValues
<1>5. t \in Seq(Value) /\ Len(t) = m  BY <1>3, <1>4, FunctionSeq
<1>6. \A i \in 1 .. m : t[i] = Erased  OBVIOUS
<1>7. RunSum(n) = SumAfter(n) \o t  BY DEF RunSum
<1> HIDE DEF t
<1>8. SumAfter(n) \in Seq(Value) /\ Len(SumAfter(n)) = flash_chunk_length
  BY <1>1, SumType
<1>9. RunSum(n) \in Seq(Value) /\ Len(RunSum(n)) = flash_chunk_length + m
  BY <1>5, <1>7, <1>8, Concat
<1>10. ASSUME NEW i \in 1 .. Padded
       PROVE  RunSum(n)[i] = IF i <= flash_chunk_length THEN SumAfter(n)[i] ELSE Erased
  <2>1. i \in 1 .. Len(SumAfter(n)) + Len(t)  BY <1>1, <1>2, <1>5, <1>8
  <2>2. RunSum(n)[i] = IF i <= Len(SumAfter(n)) THEN SumAfter(n)[i]
                       ELSE t[i - Len(SumAfter(n))]
    BY <1>5, <1>7, <1>8, <2>1, ConcatElement
  <2>3. CASE i <= flash_chunk_length  BY <1>8, <2>2, <2>3
  <2>4. CASE ~(i <= flash_chunk_length)
    <3>1. i - flash_chunk_length \in 1 .. m  BY <1>1, <1>2, <2>4
    <3> QED BY <1>6, <1>8, <2>2, <2>4, <3>1
  <2> QED BY <2>3, <2>4
<1> QED BY <1>1, <1>2, <1>9, <1>10

\* The checksum of a run is the sum of the words that the run reads.
LEMMA RunSumIsRunWork ==
  ASSUME Inv, Flashing, CollectInv, NEW n \in 1 .. Packet, EndsTransfer(n)
  PROVE  RunSum(n) = [i \in 1 .. Padded |-> RunWork(n)[i - 1]]
<1>1. flash_chunk_length \in Nat /\ Padded \in flash_chunk_length .. Chunk
      /\ DataReceived(n) = flash_chunk_length
  BY RunTypes, EndCompletesChunk DEF Inv, TypeOK, CursorType
<1>2. ASSUME NEW i \in 1 .. Padded
      PROVE  RunSum(n)[i] = RunWork(n)[i - 1]
  <2>1. i - 1 \in Slot /\ i - 1 + 1 = i  BY <1>1 DEF Slot
  <2>2. CASE i <= flash_chunk_length
    <3>1. i - 1 \in 0 .. DataReceived(n) - 1  BY <1>1, <2>2
    <3>2. CollectedAfter(n)[i - 1] = SumAfter(n)[i - 1 + 1]  BY <3>1, PacketCollected
    <3>3. RunWork(n)[i - 1] = CollectedAfter(n)[i - 1]  BY <1>1, <2>1, <2>2, RunReads
    <3> QED BY <2>1, <2>2, <3>2, <3>3, RunSumElement
  <2>3. CASE ~(i <= flash_chunk_length)
    <3>1. ~(i - 1 < flash_chunk_length) /\ i - 1 < Padded  BY <1>1, <2>3
    <3>2. RunWork(n)[i - 1] = Erased  BY <2>1, <3>1, RunReads
    <3> QED BY <2>3, <3>2, RunSumElement
  <2> QED BY <2>2, <2>3
<1>3. RunSum(n) \in Seq(Value) /\ Len(RunSum(n)) = Padded  BY RunSumElement
<1> HIDE DEF RunSum, RunWork, Padded
<1>4. RunSum(n) = [i \in 1 .. Padded |-> RunSum(n)[i]]  BY <1>3
<1> QED BY <1>2, <1>4

\* Other steps leave the chunk alone, begin it afresh or end the phase.
LEMMA OtherStepsKeepChunk ==
  ASSUME Inv, [Next]_vars,
         ~ \E n \in 1 .. Packet : \/ FlashLost(n) \/ FlashStored(n) \/ ChunkLost(n)
                                  \/ \E outcome \in Outcome : ChunkRun(n, outcome)
  PROVE  /\ checksum_covers' = checksum_covers
         /\ \/ ~Flashing'
            \/ /\ Flashing'
               /\ flash_transfer_length' = 0 /\ flash_data_received' = 0
               /\ flash_transfer_received' = 0
            \/ /\ Flashing
               /\ UNCHANGED <<profile, writeCursor, chunkCursor, transfer_chunk, work>>
<1> USE DEF Flashing, session, readCursor, writeCursor, loaderState, chunkCursor,
        flashMode, partialWrite, cache, reply, target, hostImage, hostCursor
<1>1. CASE SessionReset \/ PowerOff \/ ProgramEnd \/ AbandonData
  BY <1>1 DEF SessionReset, PowerOff, ProgramEnd, AbandonData, ClearOperation,
       ClearPhases
<1>2. CASE MarkPrepare \/ BeginRead \/ StartLoader
  BY <1>2 DEF MarkPrepare, BeginRead, StartLoader
<1>3. CASE FinishLoaderRefused \/ FinishLoaderFailed \/ TakeReply
  BY <1>3 DEF FinishLoaderRefused, FinishLoaderFailed, TakeReply
<1>4. CASE \E ok \in BOOLEAN : Connect(ok) \/ EraseAll(ok)
  BY <1>4 DEF Connect, EraseAll, EraseTarget, ClearOperation, ClearPhases
<1>5. CASE \E ok \in BOOLEAN : SetChipType(ok) \/ ReadData(ok)
  BY <1>5 DEF SetChipType, ReadData
<1>6. CASE \E ok \in BOOLEAN : ClearCodeFlash(ok)
  <2>1. PICK ok \in BOOLEAN : ClearCodeFlash(ok)  BY <1>6
  <2>2. UNCHANGED <<profile, transfer_chunk, work, checksum_covers>>
    BY <2>1 DEF ClearCodeFlash, EraseTarget
  <2>3. CASE ok
    BY <2>1, <2>2, <2>3 DEF ClearCodeFlash, ClearOperation, ClearPhases
  <2>4. CASE ~ok  BY <2>1, <2>2, <2>4 DEF ClearCodeFlash
  <2> QED BY <2>3, <2>4
<1>7. CASE \E n \in 0 .. Packet + 1, ragged \in BOOLEAN : PrepareRead(n, ragged)
  BY <1>7 DEF PrepareRead, ClearPhases
<1>8. CASE \E a \in Address, n \in 1 .. Packet : StartPartialWrite(a, n)
  BY <1>8 DEF StartPartialWrite
<1>9. CASE \E a \in {Page(b) : b \in Address}, n \in 1 .. MaxLength :
             PrepareWrite(a, n)
  BY <1>9 DEF PrepareWrite, ClearPhases
<1>10. CASE \E command \in {"0x07", "0x0b"} : FinishLoader(command)
  BY <1>10 DEF FinishLoader, ResetChunkCursor
<1>11. CASE \E operation \in LoaderOperation \ {"initialize"} : StartFlash(operation)
  BY <1>11 DEF StartFlash, ResetChunkCursor
<1>12. CASE \E n \in 1 .. Packet, ok \in BOOLEAN : LoaderData(n, ok) \/ PartialData(n, ok)
  BY <1>12 DEF LoaderData, PartialData
<1>13. CASE UNCHANGED vars
  BY <1>13 DEF vars
<1> QED BY <1>1, <1>2, <1>3, <1>4, <1>5, <1>6, <1>7, <1>8, <1>9, <1>10, <1>11,
           <1>12, <1>13 DEF Next

SumInv == CollectInv /\ ChecksumCovers

LEMMA StepSumInv == ASSUME Inv, SumInv, [Next]_vars PROVE SumInv'
<1> USE DEF SumInv
<1>1. CASE \E n \in 1 .. Packet : FlashLost(n) \/ ChunkLost(n)
  BY <1>1 DEF FlashLost, ChunkLost, CollectInv, Flashing, ChecksumCovers
<1>2. CASE \E n \in 1 .. Packet : FlashStored(n)
  <2>1. PICK n \in 1 .. Packet : FlashStored(n)  BY <1>2
  <2>2. Flashing  BY <2>1 DEF FlashStored, FlashPacket, Flashing
  <2>3. /\ flash_data_received' = DataReceived(n)
        /\ flash_checksum' = SumAfter(n) /\ flash_transfer_length' = TransferLength(n)
        /\ flash_chunk_length' = flash_chunk_length
        /\ transfer_chunk' = ChunkAfter(n) /\ work' = WorkAfter(n)
        /\ profile' = profile /\ checksum_covers' = checksum_covers
    BY <2>1 DEF FlashStored, FlashPacket, DataReceived, session, writeCursor
  <2>4. flash_chunk_length' <= flash_transfer_length'
    BY <2>2, <2>3, TransferCoversChunk
  <2>5. \A i \in 0 .. DataReceived(n) - 1 : CollectedAfter(n)[i] = SumAfter(n)[i + 1]
    BY <2>2, PacketCollected
  <2>6. \A i \in 0 .. flash_data_received' - 1 : Collected(i)' = flash_checksum'[i + 1]
    BY <2>3, <2>5 DEF Collected, CollectedAfter
  <2> QED BY <2>3, <2>4, <2>6 DEF CollectInv, ChecksumCovers
<1>3. CASE \E n \in 1 .. Packet, outcome \in Outcome : ChunkRun(n, outcome)
  <2>1. PICK n \in 1 .. Packet, outcome \in Outcome : ChunkRun(n, outcome)  BY <1>3
  <2>2. Flashing /\ EndsTransfer(n)  BY <2>1 DEF ChunkRun, Flashing
  <2>3. checksum_covers' = TRUE  BY <2>1, <2>2, RunSumIsRunWork DEF ChunkRun
  <2>4. NextChunk \/ LastChunk(n)  BY <2>1 DEF ChunkRun
  <2>5. CASE NextChunk
    BY <2>3, <2>5 DEF NextChunk, ResetChunkCursor, CollectInv, ChecksumCovers
  <2>6. CASE LastChunk(n)
    BY <2>3, <2>6 DEF LastChunk, CollectInv, Flashing, ChecksumCovers
  <2> QED BY <2>4, <2>5, <2>6
<1>4. CASE ~ \E n \in 1 .. Packet :
                \/ FlashLost(n) \/ FlashStored(n) \/ ChunkLost(n)
                \/ \E outcome \in Outcome : ChunkRun(n, outcome)
  <2>1. ChecksumCovers'  BY <1>4, OtherStepsKeepChunk DEF ChecksumCovers
  <2>2. CASE ~Flashing'  BY <2>1, <2>2 DEF CollectInv
  <2>3. CASE flash_transfer_length' = 0 /\ flash_data_received' = 0
    <3>1. 0 .. flash_data_received' - 1 = {}  BY <2>3
    <3> QED BY <2>1, <2>3, <3>1 DEF CollectInv
  <2>4. CASE /\ Flashing
             /\ UNCHANGED <<profile, writeCursor, chunkCursor, transfer_chunk, work>>
    <3>1. CollectInv'
      BY <2>4 DEF CollectInv, Collected, writeCursor, chunkCursor
    <3> QED BY <2>1, <3>1
  <2> QED BY <1>4, <2>2, <2>3, <2>4, OtherStepsKeepChunk
<1> QED BY <1>1, <1>2, <1>3, <1>4

LEMMA SumInvariance == Spec => []SumInv
<1>1. Init => SumInv  BY DEF Init, SumInv, CollectInv, ChecksumCovers, Flashing
<1>2. Inv /\ SumInv /\ [Next]_vars => SumInv'  BY StepSumInv
<1> QED BY Invariance, <1>1, <1>2, PTL DEF Spec

\* The checksum that a run of the loader is given is the sum of exactly the
\* words that run reads, for every length of packets, chunks, pages and images,
\* for a loader that gets its data in one stream or packet by packet, and for
\* hosts that abandon, repeat or mix the phases.
THEOREM ChecksumOfRun == Spec => []ChecksumCovers
<1>1. SumInv => ChecksumCovers  BY DEF SumInv
<1> QED BY SumInvariance, <1>1, PTL

-----------------------------------------------------------------------------
(* What is answered is programmed, for a host in the order of the phases *)

\* The host sends chunks.
Sending == stage \in {"ready", "flashing"}
DonePending == data_reply_pending /\ data_reply_status = ReplyDone
\* Also the chunk that the host has just sent is programmed.
NextProgrammed ==
  \A k \in Nat : k < image_length /\ k < chunk_base + Chunk
                   => flash[image_base + k] = Word(image, k)

\* Before the first chunk: host and probe are at the start of the image.
StartInv ==
  stage \in {"prepared", "loading"} =>
    chunk_base = 0 /\ answered = 0 /\ write_address = image_base /\ ~DonePending

\* While chunks are sent: the probe is where the host is, or one chunk ahead,
\* which is then programmed, while a good reply waits to be read.
AheadInv ==
  Sending =>
    /\ loader_ready /\ answered = chunk_base
    /\ write_remaining # 0 /\ ~data_reply_pending =>
         write_address = image_base + chunk_base
    /\ write_remaining # 0 /\ DonePending =>
         write_address = image_base + chunk_base + Chunk
    /\ DonePending => NextProgrammed

\* The words summed are those of the image, in their order; there are none of
\* the next chunk before the reply to the last one is read.
SentInv ==
  Sending /\ Flashing =>
    /\ DonePending => flash_transfer_received = 0
    /\ ~data_reply_pending =>
         /\ chunk_sent = flash_transfer_received
         /\ \A i \in 0 .. flash_data_received - 1 :
              flash_checksum[i + 1] = HostWord(chunk_base + i)

ImageInv ==
  /\ AnsweredIsProgrammed /\ answered <= image_length
  /\ out_state = "partial" => stage = "none"
  /\ StartInv /\ AheadInv /\ SentInv

\* A step that stops the host keeps the answered words, or forgets them.
LEMMA StoppedImage ==
  ASSUME Inv, ImageInv, stage' = "none", UNCHANGED hostImage,
         answered' = 0 \/ UNCHANGED <<answered, flash>>
  PROVE  ImageInv'
<1> USE DEF hostImage
<1>1. StartInv' /\ AheadInv' /\ SentInv'
  BY DEF StartInv, AheadInv, SentInv, Sending
<1>2. image_length \in Nat /\ answered \in Nat  BY DEF Inv, TypeOK, HostType
<1>3. CASE answered' = 0
  <2>1. 0 .. answered' - 1 = {}  BY <1>3
  <2> QED BY <1>1, <1>2, <1>3, <2>1 DEF ImageInv, AnsweredIsProgrammed
<1>4. CASE UNCHANGED <<answered, flash>>
  BY <1>1, <1>2, <1>4 DEF ImageInv, AnsweredIsProgrammed, Word
<1> QED BY <1>3, <1>4

\* A step that touches nothing of all this keeps it.
LEMMA KeptImage ==
  ASSUME Inv, ImageInv,
         UNCHANGED <<stage, out_state, writeCursor, chunkCursor, loader_ready,
                     reply, flash, hostImage, hostCursor>>
  PROVE  ImageInv'
<1> USE DEF writeCursor, chunkCursor, reply, hostImage, hostCursor
<1>1. StartInv'  BY DEF ImageInv, StartInv, DonePending
<1>2. AheadInv'
  BY DEF ImageInv, AheadInv, DonePending, Sending, NextProgrammed, Word
<1>3. SentInv'
  BY DEF ImageInv, SentInv, Sending, Flashing, DonePending, HostWord, Word, Filler
<1>4. AnsweredIsProgrammed'  BY DEF ImageInv, AnsweredIsProgrammed, Word
<1> QED BY <1>1, <1>2, <1>3, <1>4 DEF ImageInv

LEMMA CommandsKeepImage ==
  ASSUME Inv, ImageInv,
         \/ SessionReset \/ PowerOff \/ ProgramEnd \/ AbandonData
         \/ \E ok \in BOOLEAN : Connect(ok) \/ EraseAll(ok) \/ ClearCodeFlash(ok)
         \/ \E n \in 0 .. Packet + 1, ragged \in BOOLEAN : PrepareRead(n, ragged)
         \/ FinishLoaderRefused \/ FinishLoaderFailed
  PROVE  ImageInv'
<1>1. stage' = "none" /\ UNCHANGED hostImage
  BY DEF SessionReset, PowerOff, ProgramEnd, AbandonData, Connect, EraseAll,
         ClearCodeFlash, EraseTarget, PrepareRead, FinishLoaderRefused,
         FinishLoaderFailed, HostStops
<1>2. answered' = 0 \/ UNCHANGED <<answered, flash>>
  BY DEF SessionReset, PowerOff, ProgramEnd, AbandonData, Connect, EraseAll,
         ClearCodeFlash, EraseTarget, PrepareRead, FinishLoaderRefused,
         FinishLoaderFailed, target, hostCursor
<1> QED BY <1>1, <1>2, StoppedImage

LEMMA AsideStepsKeepImage ==
  ASSUME Inv, ImageInv,
         \/ MarkPrepare \/ BeginRead \/ UNCHANGED vars
         \/ \E ok \in BOOLEAN : SetChipType(ok) \/ ReadData(ok)
  PROVE  ImageInv'
<1>1. UNCHANGED <<stage, out_state, writeCursor, chunkCursor, loader_ready,
                  reply, flash, hostImage, hostCursor>>
  BY DEF MarkPrepare, BeginRead, SetChipType, ReadData, vars, loaderState, target
<1> QED BY <1>1, KeptImage

LEMMA PartialStepsKeepImage ==
  ASSUME Orderly, Inv, ImageInv,
         \/ \E a \in Address, n \in 1 .. Packet : StartPartialWrite(a, n)
         \/ \E n \in 1 .. Packet, ok \in BOOLEAN : PartialData(n, ok)
  PROVE  ImageInv'
<1>1. stage = "none"
  BY DEF StartPartialWrite, PartialData, HostAt, ImageInv
<1>2. stage' = "none" /\ UNCHANGED hostImage
  BY <1>1 DEF StartPartialWrite, PartialData
<1>3. answered' = 0 \/ UNCHANGED <<answered, flash>>
  BY DEF StartPartialWrite, PartialData, target, hostCursor
<1> QED BY <1>2, <1>3, StoppedImage

\* The steps before the first chunk.
LEMMA LoaderStepsKeepImage ==
  ASSUME Orderly, Inv, ImageInv,
         StartLoader \/ \E n \in 1 .. Packet, ok \in BOOLEAN : LoaderData(n, ok)
  PROVE  ImageInv'
<1>1. /\ stage \in {"prepared", "loading"} /\ stage' = "loading"
      /\ out_state' \in {"loader", "idle"}
      /\ UNCHANGED <<writeCursor, reply, flash, hostImage, hostCursor>>
  BY DEF StartLoader, LoaderData, HostAt, target
<1>2. StartInv'
  BY <1>1 DEF ImageInv, StartInv, DonePending, writeCursor, reply, hostImage, hostCursor
<1>3. AheadInv' /\ SentInv'  BY <1>1 DEF AheadInv, SentInv, Sending
<1>4. AnsweredIsProgrammed' /\ answered' <= image_length'
  BY <1>1 DEF ImageInv, AnsweredIsProgrammed, Word, hostImage, hostCursor
<1> QED BY <1>1, <1>2, <1>3, <1>4 DEF ImageInv

LEMMA PrepareWriteKeepsImage ==
  ASSUME Inv, NEW a \in {Page(b) : b \in Address}, NEW n \in 1 .. MaxLength,
         PrepareWrite(a, n)
  PROVE  ImageInv'
<1>1. /\ stage' = "prepared" /\ out_state' = "idle" /\ answered' = 0
      /\ chunk_base' = 0 /\ write_address' = a /\ image_base' = a
      /\ data_reply_pending' = FALSE /\ image_length' = n
  BY DEF PrepareWrite, ClearPhases
<1>2. 0 .. answered' - 1 = {}  BY <1>1
<1> QED BY <1>1, <1>2 DEF ImageInv, AnsweredIsProgrammed, StartInv, DonePending,
           AheadInv, SentInv, Sending

\* The phase opens at the start of the image, or again at the same chunk.
LEMMA OpeningKeepsImage ==
  ASSUME Orderly, Inv, ImageInv,
         \/ \E command \in {"0x07", "0x0b"} : FinishLoader(command)
         \/ \E operation \in LoaderOperation \ {"initialize"} : StartFlash(operation)
  PROVE  ImageInv'
<1> USE DEF writeCursor, reply, target, hostImage, loaderState
<1>1. /\ Sending' /\ out_state' = "flash" /\ chunk_sent' = 0
      /\ flash_data_received' = 0 /\ flash_transfer_received' = 0
      /\ UNCHANGED <<writeCursor, reply, flash, hostImage, chunk_base, answered>>
  BY DEF FinishLoader, StartFlash, ResetChunkCursor, Sending
<1>2. 0 .. flash_data_received' - 1 = {}  BY <1>1
<1>3. SentInv'  BY <1>1, <1>2 DEF SentInv
<1>4. StartInv'  BY <1>1 DEF StartInv, Sending
<1>5. AnsweredIsProgrammed' /\ answered' <= image_length'
  BY <1>1 DEF ImageInv, AnsweredIsProgrammed, Word
<1>6. AheadInv'
  <2>1. CASE \E command \in {"0x07", "0x0b"} : FinishLoader(command)
    <3>1. stage = "loading" /\ loader_ready'  BY <2>1 DEF FinishLoader, HostAt
    <3>2. /\ chunk_base = 0 /\ answered = 0 /\ write_address = image_base
          /\ ~DonePending
      BY <3>1 DEF ImageInv, StartInv
    <3>3. image_base \in Nat  BY DEF Inv, TypeOK, HostType
    <3>4. ~DonePending'  BY <1>1, <3>2 DEF DonePending
    <3> QED BY <1>1, <3>1, <3>2, <3>3, <3>4 DEF AheadInv
  <2>2. CASE \E operation \in LoaderOperation \ {"initialize"} : StartFlash(operation)
    <3>1. Sending /\ loader_ready'  BY <2>2 DEF StartFlash, HostAt, Sending
    <3> QED BY <1>1, <3>1 DEF ImageInv, AheadInv, DonePending, NextProgrammed, Word
  <2> QED BY <2>1, <2>2
<1> QED BY <1>1, <1>3, <1>4, <1>5, <1>6 DEF ImageInv

LEMMA TakeReplyKeepsImage == ASSUME Inv, ImageInv, TakeReply PROVE ImageInv'
<1> USE DEF writeCursor, target, hostImage, loaderState, chunkCursor
<1>1. CASE ~(data_reply_status = ReplyDone /\ Sending)
  BY <1>1, StoppedImage DEF TakeReply, Sending
<1>2. CASE data_reply_status = ReplyDone /\ Sending
  <2>1. /\ answered' = Smaller(chunk_base + Chunk, image_length)
        /\ chunk_base' = answered' /\ stage' = stage /\ chunk_sent' = 0
        /\ data_reply_pending' = FALSE
        /\ UNCHANGED <<out_state, writeCursor, chunkCursor, loader_ready, flash,
                       hostImage>>
    BY <1>2 DEF TakeReply, Sending
  <2>2. DonePending  BY <1>2 DEF TakeReply, DonePending
  <2>3. /\ loader_ready /\ answered = chunk_base
        /\ write_remaining # 0 => write_address = image_base + chunk_base + Chunk
        /\ NextProgrammed
    BY <1>2, <2>2 DEF ImageInv, AheadInv
  <2>4. /\ image_base \in Nat /\ image_length \in Nat /\ chunk_base \in Nat
        /\ write_address \in Nat /\ write_remaining \in Nat
        /\ flash_data_received \in Nat /\ flash_transfer_received \in Nat
    BY DEF Inv, TypeOK, HostType, CursorType
  <2>5. AnsweredIsProgrammed' /\ answered' <= image_length'
    BY <2>1, <2>3, <2>4 DEF AnsweredIsProgrammed, NextProgrammed, Word, Smaller
  <2>6. AheadInv'
    <3>1. ASSUME write_remaining # 0
          PROVE  write_address' = image_base' + chunk_base'
      <4>1. write_address + write_remaining = image_base + image_length
        BY <3>1 DEF Inv, RangeInv
      <4>2. chunk_base + Chunk < image_length  BY <2>3, <2>4, <3>1, <4>1
      <4>3. chunk_base' = chunk_base + Chunk  BY <2>1, <2>4, <4>2 DEF Smaller
      <4> QED BY <2>1, <2>3, <2>4, <3>1, <4>3
    <3> QED BY <2>1, <2>3, <3>1 DEF AheadInv, DonePending
  <2>7. StartInv'  BY <1>2, <2>1 DEF StartInv, Sending
  <2>8. out_state' = "partial" => stage' = "none"  BY <2>1 DEF ImageInv
  <2>9. SentInv'
    <3>1. SUFFICES ASSUME Flashing'
                   PROVE  flash_transfer_received = 0 /\ flash_data_received = 0
      <4>1. ASSUME flash_data_received = 0
            PROVE  0 .. flash_data_received' - 1 = {}
        BY <2>1, <4>1
      <4> QED BY <2>1, <4>1 DEF SentInv, DonePending
    <3>2. Flashing  BY <2>1, <3>1 DEF Flashing
    <3>3. flash_transfer_received = 0  BY <1>2, <2>2, <3>2 DEF ImageInv, SentInv
    <3>4. flash_data_received = Smaller(flash_transfer_received, flash_chunk_length)
      BY <3>2 DEF Inv, ChunkOnImage, Flashing
    <3> QED BY <3>3, <3>4 DEF Smaller, Inv, TypeOK, CursorType
  <2> QED BY <2>1, <2>5, <2>6, <2>7, <2>8, <2>9 DEF ImageInv
<1> QED BY <1>1, <1>2

\* The words that one packet adds are the next ones of the image.
LEMMA PacketSent ==
  ASSUME Inv, ImageInv, Sending, Flashing, ~data_reply_pending,
         NEW n \in 1 .. Packet, NEW i \in 0 .. DataReceived(n) - 1
  PROVE  SumAfter(n)[i + 1] = HostWord(chunk_base + i)
<1>1. /\ flash_data_received \in Nat /\ flash_transfer_received \in Nat
      /\ flash_chunk_length \in Nat /\ chunk_base \in Nat
      /\ Fresh(n) \in Nat
  BY PacketFacts DEF Inv, TypeOK, CursorType, HostType
<1>2. /\ chunk_sent = flash_transfer_received
      /\ \A j \in 0 .. flash_data_received - 1 :
           flash_checksum[j + 1] = HostWord(chunk_base + j)
  BY DEF ImageInv, SentInv
<1>3. CASE i < flash_data_received  BY <1>1, <1>2, <1>3, SumElement
<1>4. CASE ~(i < flash_data_received)
  <2>1. Fresh(n) # 0  BY <1>1, <1>4 DEF DataReceived
  <2>2. flash_transfer_received < flash_chunk_length  BY <2>1 DEF Fresh
  <2>3. flash_data_received = flash_transfer_received
    BY <1>1, <2>2 DEF Inv, ChunkOnImage, Flashing, Smaller
  <2>4. chunk_base + chunk_sent + (i - flash_data_received) = chunk_base + i
    BY <1>1, <1>2, <2>3
  <2> QED BY <1>4, <2>4, SumElement
<1> QED BY <1>3, <1>4

\* A failed packet or chunk: the reply will stop the host.
LEMMA LossKeepsImage ==
  ASSUME Inv, ImageInv, NEW n \in 1 .. Packet, FlashLost(n) \/ ChunkLost(n)
  PROVE  ImageInv'
<1> USE DEF writeCursor, hostImage, loaderState
<1>1. /\ out_state' = "idle" /\ data_reply_pending' = TRUE
      /\ data_reply_status' = ReplyError
      /\ UNCHANGED <<stage, flash, writeCursor, loader_ready, hostImage,
                     chunk_base, answered>>
  BY DEF FlashLost, ChunkLost, Reply
<1>2. AnsweredIsProgrammed' /\ answered' <= image_length'
  BY <1>1 DEF ImageInv, AnsweredIsProgrammed, Word
<1>3. ~DonePending' /\ ~Flashing'
  BY <1>1 DEF DonePending, Flashing, ReplyDone, ReplyError
<1>4. StartInv'  BY <1>1, <1>3 DEF ImageInv, StartInv
<1>5. AheadInv'  BY <1>1, <1>3 DEF ImageInv, AheadInv, Sending
<1> QED BY <1>1, <1>2, <1>3, <1>4, <1>5 DEF ImageInv, SentInv

LEMMA StoredKeepsImage ==
  ASSUME Orderly, Inv, ImageInv, NEW n \in 1 .. Packet, FlashStored(n)
  PROVE  ImageInv'
<1> USE DEF writeCursor, hostImage, loaderState, reply
<1>1. /\ Sending /\ Flashing /\ ~data_reply_pending
  BY DEF FlashStored, FlashPacket, HostAt, Sending, Flashing
<1>2. /\ flash_data_received' = DataReceived(n)
      /\ flash_checksum' = SumAfter(n)
      /\ flash_transfer_received' = flash_transfer_received + Taken(n)
      /\ chunk_sent' = chunk_sent + n
      /\ UNCHANGED <<stage, out_state, reply, flash, writeCursor, loader_ready,
                     hostImage, chunk_base, answered>>
  BY DEF FlashStored, DataReceived
<1>3. Taken(n) = n
  <2>1. ~(flash_transfer_received + Taken(n) >= TransferLength(n))
    BY DEF FlashStored, EndsTransfer
  <2>2. /\ flash_transfer_received \in Nat /\ TransferLength(n) \in Nat
        /\ Taken(n) \in Nat
    BY <1>1, PacketFacts DEF Inv, TypeOK, CursorType
  <2> QED BY <2>1, <2>2 DEF Taken, Smaller
<1>4. chunk_sent' = flash_transfer_received'
  BY <1>1, <1>2, <1>3 DEF ImageInv, SentInv
<1>5. \A i \in 0 .. flash_data_received' - 1 :
        flash_checksum'[i + 1] = HostWord(chunk_base + i)
  BY <1>1, <1>2, PacketSent
<1>6. SentInv'
  BY <1>1, <1>2, <1>4, <1>5 DEF SentInv, DonePending, HostWord, Word, Filler
<1>7. AnsweredIsProgrammed' /\ answered' <= image_length'
  BY <1>2 DEF ImageInv, AnsweredIsProgrammed, Word
<1>8. StartInv' /\ AheadInv'
  BY <1>1, <1>2 DEF ImageInv, StartInv, AheadInv, Sending, DonePending
<1> QED BY <1>1, <1>2, <1>6, <1>7, <1>8 DEF ImageInv, Flashing

LEMMA SoundRun ==
  ASSUME NEW w, Sound, NEW f \in LoaderRun(w, TRUE)
  PROVE  f = ProgrammedFlash(w)
<1>1. CASE Programs  BY <1>1, Zenon DEF LoaderRun
<1>2. CASE ~Programs  BY <1>2, Zenon DEF LoaderRun
<1> QED BY <1>1, <1>2

\* A run that returns 0 leaves the words of the chunk in the flash, whether it
\* has programmed or compared them; any other leaves them or the old ones.
LEMMA RunFlash ==
  ASSUME Inv, initialized, loader_ready, NEW n \in 1 .. Packet,
         NEW outcome \in Outcome, ChunkRun(n, outcome)
  PROVE  /\ flash' = flash \/ flash' = ProgrammedFlash(RunWork(n))
         /\ Success(outcome) => flash' = ProgrammedFlash(RunWork(n))
<1>1. Sound  BY DEF Sound, Inv, LoaderInv, ReadyLoaderIsWhole
<1>2. PICK f \in LoaderRun(RunWork(n), Success(outcome)) : flash' = f  BY DEF ChunkRun
<1> HIDE DEF ChunkRun
<1>3. CASE ~Success(outcome)  BY <1>2, <1>3, RunResult
<1>4. CASE Success(outcome)
  <2>1. f = ProgrammedFlash(RunWork(n))  BY <1>1, <1>2, <1>4, SoundRun
  <2> QED BY <1>2, <2>1
<1> QED BY <1>3, <1>4

LEMMA RunKeepsImage ==
  ASSUME Orderly, ComplaintsDiffer, Inv, HostInv, SumInv, ImageInv, NEW n \in 1 .. Packet,
         NEW outcome \in Outcome, ChunkRun(n, outcome)
  PROVE  ImageInv'
<1> USE DEF hostImage, loaderState
<1> DEFINE c == flash_chunk_length
<1>1. /\ Sending /\ Flashing /\ ~data_reply_pending /\ EndsTransfer(n)
  BY DEF ChunkRun, HostAt, Sending, Flashing
<1>2. /\ data_reply_pending' = TRUE /\ data_reply_status' = DataStatus(outcome)
      /\ UNCHANGED <<stage, loader_ready, hostImage, chunk_base, answered>>
  BY DEF ChunkRun, Reply
<1>3. /\ initialized /\ loader_ready /\ answered = chunk_base
      /\ write_address = image_base + chunk_base
  BY <1>1 DEF HostInv, ImageInv, AheadInv, Sending, Flashing
<1>4. /\ image_base \in Nat /\ image_length \in Nat /\ chunk_base \in Nat
      /\ write_address \in Nat /\ write_remaining \in Nat /\ c \in 0 .. Chunk
      /\ write_address + write_remaining = image_base + image_length
      /\ c = Smaller(write_remaining, Chunk) /\ write_remaining # 0
      /\ image_base + image_length <= FlashSize
  BY <1>1 DEF Inv, TypeOK, HostType, CursorType, RangeInv, Flashing, FirstChunk
<1>5. chunk_base + c <= image_length /\ chunk_base + write_remaining = image_length
  BY <1>3, <1>4 DEF Smaller
<1>6. /\ flash' = flash \/ flash' = ProgrammedFlash(RunWork(n))
      /\ Success(outcome) => flash' = ProgrammedFlash(RunWork(n))
  BY <1>3, RunFlash
\* What is answered lies before the words that the run may change.
<1>7. ASSUME NEW k \in 0 .. answered - 1
      PROVE  flash'[image_base + k] = Word(image, k)
  <2>1. flash[image_base + k] = Word(image, k)
    BY DEF ImageInv, AnsweredIsProgrammed
  <2>2. image_base + k \in Address /\ image_base + k < write_address
    BY <1>3, <1>4, <1>5 DEF Address
  <2>3. ProgrammedFlash(RunWork(n))[image_base + k] = flash[image_base + k]
    BY <1>4, <2>2 DEF ProgrammedFlash, Address
  <2> QED BY <1>6, <2>1, <2>3
<1>8. AnsweredIsProgrammed' /\ answered' <= image_length'
  BY <1>2, <1>7 DEF ImageInv, AnsweredIsProgrammed, Word
\* The words that it programs are those of the image.
<1>9. ASSUME Success(outcome), NEW i \in 0 .. c - 1
      PROVE  flash'[write_address + i] = Word(image, chunk_base + i)
  <2>1. i \in Slot /\ i < c /\ chunk_base + i < image_length
    BY <1>4, <1>5 DEF Slot
  <2>2. RunWork(n)[i] = CollectedAfter(n)[i]
    BY <1>1, <2>1, RunReads DEF SumInv
  <2>3. i \in 0 .. DataReceived(n) - 1
    BY <1>1, EndCompletesChunk DEF SumInv
  <2>4. CollectedAfter(n)[i] = SumAfter(n)[i + 1]
    BY <1>1, <2>3, PacketCollected DEF SumInv
  <2>5. SumAfter(n)[i + 1] = HostWord(chunk_base + i)
    BY <1>1, <2>3, PacketSent
  <2>6. HostWord(chunk_base + i) = Word(image, chunk_base + i)
    BY <2>1 DEF HostWord
  <2> DEFINE x == write_address + i
  <2>7. /\ x \in Address /\ write_address <= x
        /\ x < write_address + flash_chunk_length /\ x - write_address = i
    BY <1>3, <1>4, <1>5 DEF Address
  <2> HIDE DEF x
  <2>8. ProgrammedFlash(RunWork(n))[x] = RunWork(n)[i]
    BY <2>7 DEF ProgrammedFlash
  <2> QED BY <1>6, <1>9, <2>2, <2>4, <2>5, <2>6, <2>8 DEF x
<1>10. ASSUME DonePending'
       PROVE  NextProgrammed'
  <2>1. Success(outcome)  BY <1>2, <1>10, StatusOfRun DEF DonePending
  <2>3. ASSUME NEW k \in Nat, k < image_length, k < chunk_base + Chunk
        PROVE  flash'[image_base + k] = Word(image, k)
    <3>1. CASE k < answered  BY <1>3, <1>4, <1>7, <3>1
    <3>2. CASE ~(k < answered)
      <4>1. /\ k - chunk_base \in 0 .. c - 1
            /\ write_address + (k - chunk_base) = image_base + k
            /\ chunk_base + (k - chunk_base) = k
        BY <1>3, <1>4, <1>5, <2>3, <3>2 DEF Smaller
      <4>2. flash'[write_address + (k - chunk_base)] = Word(image, chunk_base + (k - chunk_base))
        BY <1>9, <2>1, <4>1
      <4> QED BY <4>1, <4>2
    <3> QED BY <3>1, <3>2
  <2> QED BY <1>2, <2>3 DEF NextProgrammed, Word
<1>11. NextChunk \/ LastChunk(n)  BY DEF ChunkRun
<1>12. ASSUME write_remaining' # 0
       PROVE  write_address' = image_base' + chunk_base' + Chunk
  <2>1. write_remaining > c
    BY <1>12 DEF ChunkRun, LastChunk
  <2>2. c = Chunk  BY <1>4, <2>1 DEF Smaller
  <2>3. write_address' = write_address + c  BY <1>11, <1>12 DEF NextChunk, LastChunk
  <2> QED BY <1>2, <1>3, <1>4, <2>2, <2>3
<1>13. AheadInv'
  BY <1>2, <1>3, <1>10, <1>12 DEF AheadInv, DonePending
<1>14. SentInv'
  BY <1>2, <1>11 DEF SentInv, NextChunk, LastChunk, ResetChunkCursor, Flashing
<1>15. StartInv'  BY <1>1, <1>2 DEF StartInv, Sending
<1>16. out_state' # "partial"
  BY <1>1, <1>11 DEF NextChunk, LastChunk, Flashing
<1> QED BY <1>8, <1>13, <1>14, <1>15, <1>16 DEF ImageInv

LEMMA StepImageInv ==
  ASSUME Orderly, ComplaintsDiffer, Inv, HostInv, SumInv, ImageInv, [Next]_vars
  PROVE  ImageInv'
<1>1. CASE \/ SessionReset \/ PowerOff \/ ProgramEnd \/ AbandonData
           \/ \E ok \in BOOLEAN : Connect(ok) \/ EraseAll(ok) \/ ClearCodeFlash(ok)
           \/ \E n \in 0 .. Packet + 1, ragged \in BOOLEAN : PrepareRead(n, ragged)
           \/ FinishLoaderRefused \/ FinishLoaderFailed
  BY <1>1, CommandsKeepImage
<1>2. CASE \/ MarkPrepare \/ BeginRead \/ UNCHANGED vars
           \/ \E ok \in BOOLEAN : SetChipType(ok) \/ ReadData(ok)
  BY <1>2, AsideStepsKeepImage
<1>3. CASE \/ \E a \in Address, n \in 1 .. Packet : StartPartialWrite(a, n)
           \/ \E n \in 1 .. Packet, ok \in BOOLEAN : PartialData(n, ok)
  BY <1>3, PartialStepsKeepImage
<1>4. CASE StartLoader \/ \E n \in 1 .. Packet, ok \in BOOLEAN : LoaderData(n, ok)
  BY <1>4, LoaderStepsKeepImage
<1>5. CASE \E a \in {Page(b) : b \in Address}, n \in 1 .. MaxLength :
             PrepareWrite(a, n)
  BY <1>5, PrepareWriteKeepsImage
<1>6. CASE \/ \E command \in {"0x07", "0x0b"} : FinishLoader(command)
           \/ \E operation \in LoaderOperation \ {"initialize"} : StartFlash(operation)
  BY <1>6, OpeningKeepsImage
<1>7. CASE TakeReply  BY <1>7, TakeReplyKeepsImage
<1>8. CASE \E n \in 1 .. Packet : FlashLost(n) \/ ChunkLost(n)
  BY <1>8, LossKeepsImage
<1>9. CASE \E n \in 1 .. Packet : FlashStored(n)  BY <1>9, StoredKeepsImage
<1>10. CASE \E n \in 1 .. Packet, outcome \in Outcome : ChunkRun(n, outcome)
  BY <1>10, RunKeepsImage
<1> QED BY <1>1, <1>2, <1>3, <1>4, <1>5, <1>6, <1>7, <1>8, <1>9, <1>10 DEF Next

LEMMA InitImageInv == Init => ImageInv
<1> SUFFICES ASSUME Init PROVE ImageInv  OBVIOUS
<1>1. 0 .. answered - 1 = {}  BY DEF Init
<1> QED BY <1>1 DEF Init, ImageInv, AnsweredIsProgrammed, StartInv, AheadInv,
           SentInv, Sending

\* Every word of the image that the host has been told is programmed is in the
\* flash, at its place, for every image, every cut of it into packets and every
\* loader profile, through failing target calls, aborts, power losses and
\* reconnections, for a host that keeps to the order of the phases and a loader
\* whose complaints cannot be mistaken for success.  (The code sends the low
\* byte of a complaint: a loader that returns 4 is answered like one that
\* returns 0, and the run transfer_result_byte shows what comes of it.)
THEOREM AnsweredStaysProgrammed ==
  Orderly /\ ComplaintsDiffer => (Spec => []AnsweredIsProgrammed)
<1> SUFFICES ASSUME Orderly, ComplaintsDiffer PROVE Spec => []AnsweredIsProgrammed
  OBVIOUS
<1>1. Init => HostInv /\ ImageInv  BY InitImageInv DEF Init, HostInv
<1>2. Inv /\ SumInv /\ HostInv /\ ImageInv /\ [Next]_vars => HostInv' /\ ImageInv'
  BY StepHostInv, StepImageInv
<1>3. ImageInv => AnsweredIsProgrammed  BY DEF ImageInv
<1> QED BY Invariance, SumInvariance, <1>1, <1>2, <1>3, PTL DEF Spec

-----------------------------------------------------------------------------
(* Partial writes, for hosts in any order *)

\* The step that answers a partial write as done has rewritten the page, or it
\* is another that leaves the flash alone and the answer is an older one.
LEMMA AnsweredStep ==
  ASSUME [Next]_vars, PartialAnswered
  PROVE  flash' = RewrittenFlash \/ flash' = flash
<1> USE DEF PartialAnswered, session, readCursor, writeCursor, loaderState,
        chunkCursor, flashMode, partialWrite, cache, reply, target, hostImage,
        hostCursor
<1>1. CASE SessionReset \/ PowerOff \/ ProgramEnd \/ AbandonData
  BY <1>1 DEF SessionReset, PowerOff, ProgramEnd, AbandonData, ClearOperation,
       ClearPhases
<1>2. CASE \/ MarkPrepare \/ BeginRead \/ StartLoader \/ FinishLoaderRefused
           \/ FinishLoaderFailed \/ TakeReply
  BY <1>2 DEF MarkPrepare, BeginRead, StartLoader, FinishLoaderRefused,
       FinishLoaderFailed, TakeReply
<1>3. CASE \E ok \in BOOLEAN : Connect(ok) \/ SetChipType(ok) \/ ReadData(ok)
  BY <1>3 DEF Connect, SetChipType, ReadData, ClearOperation, ClearPhases
<1>4. CASE \E ok \in BOOLEAN : EraseAll(ok) \/ ClearCodeFlash(ok)
  <2>1. ASSUME NEW ok \in BOOLEAN, EraseAll(ok)
        PROVE  FALSE
    BY <2>1 DEF EraseAll, ClearOperation, ClearPhases
  <2>2. ASSUME NEW ok \in BOOLEAN, ClearCodeFlash(ok)
        PROVE  FALSE
    <3>1. CASE ok  BY <2>2, <3>1 DEF ClearCodeFlash, ClearOperation, ClearPhases
    <3>2. CASE ~ok  BY <2>2, <3>2 DEF ClearCodeFlash
    <3> QED BY <3>1, <3>2
  <2> QED BY <1>4, <2>1, <2>2
<1>5. CASE \E n \in 0 .. Packet + 1, ragged \in BOOLEAN : PrepareRead(n, ragged)
  BY <1>5 DEF PrepareRead, ClearPhases
<1>6. CASE \E a \in Address, n \in 1 .. Packet : StartPartialWrite(a, n)
  BY <1>6 DEF StartPartialWrite
<1>7. CASE \E a \in {Page(b) : b \in Address}, n \in 1 .. MaxLength :
             PrepareWrite(a, n)
  BY <1>7 DEF PrepareWrite, ClearPhases
<1>8. CASE \/ \E command \in {"0x07", "0x0b"} : FinishLoader(command)
           \/ \E operation \in LoaderOperation \ {"initialize"} : StartFlash(operation)
  BY <1>8 DEF FinishLoader, StartFlash
<1>9. CASE \E n \in 1 .. Packet, ok \in BOOLEAN : LoaderData(n, ok)
  BY <1>9 DEF LoaderData
<1>10. CASE \E n \in 1 .. Packet, ok \in BOOLEAN : PartialData(n, ok)
  BY <1>10 DEF PartialData, Reply, ReplyPatched, ReplyError
<1>11. CASE \E n \in 1 .. Packet : \/ FlashLost(n) \/ FlashStored(n) \/ ChunkLost(n)
                                   \/ \E outcome \in Outcome : ChunkRun(n, outcome)
  BY <1>11 DEF FlashLost, FlashStored, ChunkLost, FlashPacket, ChunkRun
<1>12. CASE UNCHANGED vars  BY <1>12 DEF vars
<1> QED BY <1>1, <1>2, <1>3, <1>4, <1>5, <1>6, <1>7, <1>8, <1>9, <1>10, <1>11,
           <1>12 DEF Next

\* A partial write answered as done keeps the rest of a page that it has read
\* from the target, for every page, length and host.
THEOREM PatchKeepsPage == Spec => ReadPageIsKept
<1>1. ASSUME Inv, [Next]_vars, PartialAnswered, ~FromCache, NEW a \in Address
      PROVE  InPatch(a) \/ flash'[a] = flash[a]
  <2>1. flash' = RewrittenFlash \/ flash' = flash  BY <1>1, AnsweredStep
  <2> QED BY <1>1, <2>1 DEF RewrittenFlash
<1>2. Inv /\ [Next]_vars
        => [PartialAnswered /\ ~FromCache
              => \A a \in Address : InPatch(a) \/ flash'[a] = flash[a]]_vars
  BY <1>1
<1> QED BY Invariance, <1>2, PTL DEF Spec, ReadPageIsKept
=============================================================================
