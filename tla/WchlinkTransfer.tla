---------------------------- MODULE WchlinkTransfer ----------------------------
(***************************************************************************)
(* The data phases of the session (src/wchlink/session/wchlink_transfer.c) *)
(* with the commands that drive them (wchlink_command_transfer.c and the   *)
(* erase, power and session commands of wchlink_command_target.c): loading *)
(* the flash loader into the target's RAM, programming and verifying an    *)
(* image chunk by chunk, rewriting part of a page for a breakpoint, and    *)
(* reading memory.  The main loop runs a command or a data packet to its   *)
(* end before it takes the next, so each is one action.                    *)
(*                                                                         *)
(* Lengths and addresses are in words of four bytes; a packet, a chunk and *)
(* the loader are a few words long.  A word of data is its position in the *)
(* image it belongs to, so that a word lost, repeated or misplaced shows.  *)
(* Every call of the target may fail.                                      *)
(*                                                                         *)
(* The host is the flash tool: it sends the words of its image in order,   *)
(* reads the reply of a chunk before it sends the next chunk, and counts   *)
(* the words answered as programmed.                                       *)
(***************************************************************************)
EXTENDS Naturals, Sequences

CONSTANTS
  Packet,     \* WCHLINK_TRANSFER_PACKET_CAPACITY, also the rewritten page
  Chunk,      \* WCHLINK_TRANSFER_CHUNK_CAPACITY, also the cached sector
  LoaderSize, \* download_limit of the loader
  FlashSize,  \* words of the target's flash
  MaxLength,  \* bound: words of an image
  MaxImage,   \* bound: images the host announces
  MaxPatch,   \* bound: partial writes
  Profiles,   \* the loader profiles of the target families
  LoaderValues, \* what a loader may return: 0 for success, or a complaint
  Orderly     \* TRUE: the host follows the order of the flash tools

\* A profile: the unit the loader reads data in, whether a chunk is written to
\* the target in one stream, whether the loader has no fixed length, whether
\* pages can be rewritten.
Profile == [page : {1, Packet}, streaming : BOOLEAN, variable : BOOLEAN,
            partial : BOOLEAN]

ASSUME TransferAssumption ==
  /\ Packet \in Nat \ {0} /\ Chunk \in Nat \ {0} /\ Chunk % Packet = 0
  /\ LoaderSize \in Nat \ {0}
  /\ FlashSize \in Nat \ {0} /\ FlashSize % Chunk = 0
  /\ MaxLength \in 1 .. FlashSize /\ MaxImage \in Nat /\ MaxPatch \in Nat
  /\ Profiles \subseteq Profile
  /\ Orderly \in BOOLEAN

ASSUME LoaderAssumption == LoaderValues \subseteq Nat

VARIABLES
  profile, connected,
  \* struct wchlink_transfer
  in_state, out_state, read_remaining, read_ragged,
  write_address, write_remaining,
  loader_received, loader_error, loader_ready,
  flash_data_received, flash_transfer_received, flash_transfer_length,
  flash_checksum, flash_chunk_length, flash_loader_operation,
  flash_openocd_mode, flash_prepare_seen,
  partial_write_address, partial_write_length,
  transfer_chunk, partial_cache_valid,
  data_reply_pending, data_reply_status,
  \* the target: words of the loader in its RAM, whether that loader has been
  \* initialised, the loader's data buffer, the flash
  code, initialized, work, flash,
  \* the host: its step, partial writes begun, number of the image, where it
  \* goes, words sent of the chunk, words before the chunk, words answered
  stage, patches, image, image_base, image_length,
  chunk_sent, chunk_base, answered,
  \* whether the checksum given to the last run of the loader was the sum of
  \* the words that run read
  checksum_covers

session == <<profile, connected>>
readCursor == <<read_remaining, read_ragged>>
writeCursor == <<write_address, write_remaining, flash_chunk_length>>
loaderState == <<loader_received, loader_error, loader_ready>>
chunkCursor == <<flash_data_received, flash_transfer_received,
                 flash_transfer_length, flash_checksum>>
flashMode == <<flash_loader_operation, flash_openocd_mode>>
partialWrite == <<partial_write_address, partial_write_length>>
cache == <<transfer_chunk, partial_cache_valid>>
reply == <<data_reply_pending, data_reply_status>>
target == <<code, initialized, work, flash>>
hostImage == <<image, image_base, image_length>>
hostCursor == <<chunk_sent, chunk_base, answered>>
vars == <<session, in_state, out_state, readCursor, writeCursor, loaderState,
          chunkCursor, flashMode, flash_prepare_seen, partialWrite, cache,
          reply, target, stage, patches, hostImage, hostCursor,
          checksum_covers>>

-----------------------------------------------------------------------------
(* Values *)

Address == 0 .. FlashSize - 1
Slot == 0 .. Chunk - 1                  \* words of a chunk

\* Words of data: word k of image m, erased flash and padding, what the host
\* sends after the end of its image, what the flash held before.
Word(m, k) == (m - 1) * MaxLength + k
Erased == MaxImage * MaxLength
Filler == Erased + 1
Old == Erased + 2
Patch == Erased + 3                     \* data of a partial write
Value == 0 .. Patch

LoaderOperation == {"initialize", "program", "verify", "program_verify"}

\* What a run of the loader returns: a value of the loader; or the run fails,
\* and the value is the code of the step that did (0x15 for a write or the
\* preparation before the run, 0xe103 for a result that cannot be read).
FailureValues == {21, 57603}
Outcome == [ok : {TRUE}, value : LoaderValues]
             \cup [ok : {FALSE}, value : FailureValues]
Success(outcome) == outcome.ok /\ outcome.value = 0

\* The status bytes of the data endpoint that have a meaning of their own.
ReplyPatched == 2      \* WCHLINK_PARTIAL_WRITE_REPLY_OK
ReplyDone == 4         \* a chunk is programmed or verified
ReplyError == 21       \* 0x15, for the codes of accesses: none has a byte 0x04
Status == 0 .. 255

\* Fault: a run that ended is a chunk done, whatever its value.
DataStatus_ValueIgnored(outcome) ==
  IF outcome.ok THEN ReplyDone ELSE outcome.value % 256

\* The status byte of a run: three values of the loader have one, of every
\* other value the low byte is sent.
DataStatus(outcome) ==
  IF outcome.ok /\ outcome.value = 0 THEN ReplyDone
  ELSE IF outcome.ok /\ outcome.value = 8 THEN 3
  ELSE IF outcome.ok /\ outcome.value = 16 THEN 5
  ELSE outcome.value % 256

\* No complaint of the loader has the low byte that means success.
ComplaintsDiffer == \A v \in LoaderValues : v # 0 => v % 256 # ReplyDone

Smaller(a, b) == IF a < b THEN a ELSE b
RoundUp(n, unit) == ((n + unit - 1) \div unit) * unit
Sector(a) == (a \div Chunk) * Chunk
Page(a) == (a \div Packet) * Packet

Blank == [i \in Slot |-> Erased]

Init ==
  /\ profile \in Profiles /\ connected = FALSE
  /\ in_state = "idle" /\ out_state = "idle"
  /\ read_remaining = 0 /\ read_ragged = FALSE
  /\ write_address = 0 /\ write_remaining = 0 /\ flash_chunk_length = 0
  /\ loader_received = 0 /\ loader_error = FALSE /\ loader_ready = FALSE
  /\ flash_data_received = 0 /\ flash_transfer_received = 0
  /\ flash_transfer_length = 0 /\ flash_checksum = <<>>
  /\ flash_loader_operation = "initialize" /\ flash_openocd_mode = FALSE
  /\ flash_prepare_seen = FALSE
  /\ partial_write_address = 0 /\ partial_write_length = 0
  /\ transfer_chunk = Blank /\ partial_cache_valid = FALSE
  /\ data_reply_pending = FALSE /\ data_reply_status = 0
  /\ code = 0 /\ initialized = FALSE /\ work = Blank
  /\ flash = [a \in Address |-> Old]
  /\ stage = "none" /\ patches = 0
  /\ image = 0 /\ image_base = 0 /\ image_length = 0
  /\ chunk_sent = 0 /\ chunk_base = 0 /\ answered = 0
  /\ checksum_covers = TRUE

-----------------------------------------------------------------------------
(* Parts of the operations *)

ResetChunkCursor ==
  /\ flash_data_received' = 0 /\ flash_transfer_received' = 0
  /\ flash_transfer_length' = 0 /\ flash_checksum' = <<>>

Reply(status) == data_reply_pending' = TRUE /\ data_reply_status' = status

\* wchlink_transfer_clear_operation but for the read and write cursors, which
\* the caller sets.
ClearPhases ==
  /\ in_state' = "idle" /\ out_state' = "idle"
  /\ loader_received' = 0 /\ loader_error' = FALSE /\ loader_ready' = FALSE
  /\ ResetChunkCursor
  /\ flash_loader_operation' = "initialize" /\ flash_openocd_mode' = FALSE
  /\ partial_write_address' = 0 /\ partial_write_length' = 0
  /\ data_reply_pending' = FALSE /\ data_reply_status' = 0

ReadNothing == read_remaining' = 0 /\ read_ragged' = FALSE
WriteNothing ==
  write_address' = 0 /\ write_remaining' = 0 /\ flash_chunk_length' = 0
ClearOperation == ClearPhases /\ ReadNothing /\ WriteNothing

\* The host leaves the image it was sending.
HostStops == stage' = "none" /\ chunk_sent' = 0

\* The host takes this step at these stages, or at any time when it is not
\* held to the order of the tools.
HostAt(stages) == Orderly => stage \in stages

\* Fault: the first chunk is as long as the image.
FirstChunk_Unbounded(n) == n

FirstChunk(n) == Smaller(n, Chunk)

-----------------------------------------------------------------------------
(* Commands of the session *)

\* wchlink_command_reset: IDENTIFY, STOP, a USB reset.
SessionReset ==
  /\ connected' = FALSE
  /\ ClearOperation /\ flash_prepare_seen' = FALSE
  /\ HostStops
  /\ UNCHANGED <<profile, cache, target, patches, hostImage, chunk_base,
                 answered, checksum_covers>>

\* CONNECT: a session reset, then the connection succeeds or not; the target
\* is halted after a reset, and its loader has lost what it had set up.
Connect(ok) ==
  /\ connected' = ok
  /\ ClearOperation /\ flash_prepare_seen' = FALSE
  /\ HostStops /\ initialized' = FALSE
  /\ UNCHANGED <<profile, cache, code, work, flash, patches, hostImage,
                 chunk_base, answered, checksum_covers>>

\* SET_CHIP_TYPE without a target connects and leaves the transfer alone.
SetChipType(ok) ==
  /\ ~connected /\ connected' = ok
  /\ initialized' = FALSE
  /\ UNCHANGED <<profile, in_state, out_state, readCursor, writeCursor,
                 loaderState, chunkCursor, flashMode, flash_prepare_seen,
                 partialWrite, cache, reply, code, work, flash, stage, patches,
                 hostImage, hostCursor, checksum_covers>>

\* POWER_OFF: the cache goes before the session; the target loses its RAM.
PowerOff ==
  /\ connected' = FALSE
  /\ partial_cache_valid' = FALSE
  /\ ClearOperation /\ flash_prepare_seen' = FALSE
  /\ HostStops /\ code' = 0 /\ initialized' = FALSE
  /\ UNCHANGED <<profile, transfer_chunk, work, flash, patches, hostImage,
                 chunk_base, answered, checksum_covers>>

ErasedFlash == [a \in Address |-> Erased]

\* Both erase commands connect first when there is no target; an erase that
\* fails may have erased the flash all the same.
EraseTarget(ok) ==
  /\ \E c \in BOOLEAN :
       /\ connected => c
       /\ ok => c
       /\ connected' = c
       /\ IF ok THEN flash' = ErasedFlash
          ELSE IF c THEN flash' \in {flash, ErasedFlash} ELSE flash' = flash
  /\ initialized' = FALSE
  /\ HostStops /\ answered' = 0
  /\ UNCHANGED <<profile, flash_prepare_seen, cache, code, work, patches,
                 hostImage, chunk_base, checksum_covers>>

\* Flash command 0x01 clears the operation before it erases ...
EraseAll(ok) == EraseTarget(ok) /\ ClearOperation

\* ... CLEAR_CODE_FLASH after, and only when the erase succeeded.
ClearCodeFlash(ok) ==
  /\ EraseTarget(ok)
  /\ IF ok THEN ClearOperation
     ELSE UNCHANGED <<in_state, out_state, readCursor, writeCursor,
                      loaderState, chunkCursor, flashMode, partialWrite, reply>>

\* Flash command 0x08, Program End: the target is reset and halted, whether
\* that succeeds or not the transfer is aborted.
ProgramEnd ==
  /\ ClearOperation /\ flash_prepare_seen' = FALSE
  /\ HostStops /\ initialized' = FALSE
  /\ UNCHANGED <<session, cache, code, work, flash, patches, hostImage,
                 chunk_base, answered, checksum_covers>>

\* The USB adapter gives up data the host did not read.
AbandonData ==
  /\ data_reply_pending \/ in_state = "reading"
  /\ ClearOperation /\ flash_prepare_seen' = FALSE
  /\ HostStops
  /\ UNCHANGED <<session, cache, target, patches, hostImage, chunk_base,
                 answered, checksum_covers>>

-----------------------------------------------------------------------------
(* Reading memory *)

\* ragged: the length is not a whole number of words.
PrepareRead(n, ragged) ==
  /\ ClearPhases /\ WriteNothing
  /\ read_remaining' = n /\ read_ragged' = ragged
  /\ HostStops
  /\ UNCHANGED <<session, flash_prepare_seen, cache, target, patches,
                 hostImage, chunk_base, answered, checksum_covers>>

BeginRead ==
  /\ connected /\ (read_remaining # 0 \/ read_ragged)
  /\ in_state' = "reading"
  /\ UNCHANGED <<session, out_state, readCursor, writeCursor, loaderState,
                 chunkCursor, flashMode, flash_prepare_seen, partialWrite,
                 cache, reply, target, stage, patches, hostImage, hostCursor,
                 checksum_covers>>

\* A poll for data IN when no reply waits; the read of a word may fail.
ReadData(ok) ==
  /\ in_state = "reading" /\ ~data_reply_pending
  /\ ok \/ read_remaining > 0
  /\ read_remaining' = IF ok THEN read_remaining - Smaller(read_remaining, Packet) ELSE 0
  /\ read_ragged' = (read_ragged /\ ok)
  /\ in_state' = IF read_remaining' = 0 /\ ~read_ragged' THEN "idle" ELSE "reading"
  /\ UNCHANGED <<session, out_state, writeCursor, loaderState, chunkCursor,
                 flashMode, flash_prepare_seen, partialWrite, cache, reply,
                 target, stage, patches, hostImage, hostCursor,
                 checksum_covers>>

-----------------------------------------------------------------------------
(* Rewriting part of a page *)

StartPartialWrite(a, n) ==
  /\ HostAt({"none"})
  /\ connected /\ n # 0 /\ patches < MaxPatch
  /\ out_state' = "partial"
  /\ partial_write_address' = a /\ partial_write_length' = n
  /\ patches' = patches + 1
  /\ UNCHANGED <<session, in_state, readCursor, writeCursor, loaderState,
                 chunkCursor, flashMode, flash_prepare_seen, cache, reply,
                 target, stage, hostImage, hostCursor, checksum_covers>>

FromCache == partial_cache_valid /\ Sector(partial_write_address) = 0

InPage(a) == Page(a) = Page(partial_write_address)
InPatch(a) == /\ partial_write_address <= a
              /\ a < partial_write_address + partial_write_length

\* Fault: the rest of the page is not read.
RewrittenFlash_Unread ==
  [a \in Address |->
     IF ~InPage(a) THEN flash[a] ELSE IF InPatch(a) THEN Patch ELSE Erased]

\* The flash with the page rewritten: the rest of the page comes from the
\* cache of sector 0 when that is valid, from the target otherwise.
RewrittenFlash ==
  [a \in Address |->
     IF ~InPage(a) THEN flash[a]
     ELSE IF InPatch(a) THEN Patch
     ELSE IF FromCache THEN transfer_chunk[a] ELSE flash[a]]

CanRewrite ==
  /\ profile.partial
  /\ (partial_write_address % Packet) + partial_write_length <= Packet

\* The data of a partial write, n words: refused, or the page is read, merged
\* and rewritten.  A rewrite that fails may have erased or written the page.
PartialData(n, ok) ==
  /\ out_state = "partial"
  /\ out_state' = "idle"
  /\ ok => n = partial_write_length /\ CanRewrite
  /\ Reply(IF ok THEN ReplyPatched ELSE ReplyError)
  /\ answered' = 0
  /\ IF ok THEN flash' = RewrittenFlash
     ELSE IF n = partial_write_length /\ CanRewrite
     THEN flash' \in {flash, RewrittenFlash,
                      [a \in Address |-> IF InPage(a) THEN Erased ELSE flash[a]]}
     ELSE flash' = flash
  /\ transfer_chunk' = IF ok /\ FromCache
                       THEN [i \in Slot |-> IF InPage(i) THEN RewrittenFlash[i]
                                        ELSE transfer_chunk[i]]
                       ELSE transfer_chunk
  /\ UNCHANGED <<session, in_state, readCursor, writeCursor, loaderState,
                 chunkCursor, flashMode, flash_prepare_seen, partialWrite,
                 partial_cache_valid, code, initialized, work, stage, patches,
                 hostImage, chunk_sent, chunk_base, checksum_covers>>

-----------------------------------------------------------------------------
(* Programming an image: the commands *)

\* The host announces n words at a, a page boundary: the address frame.
PrepareWrite(a, n) ==
  /\ image < MaxImage /\ a + n <= FlashSize
  /\ ClearPhases /\ ReadNothing
  /\ transfer_chunk' = Blank /\ partial_cache_valid' = TRUE
  /\ write_address' = a /\ write_remaining' = n
  /\ flash_chunk_length' = FirstChunk(n)
  /\ image' = image + 1 /\ image_base' = a /\ image_length' = n
  /\ stage' = "prepared" /\ chunk_sent' = 0 /\ chunk_base' = 0 /\ answered' = 0
  /\ UNCHANGED <<session, flash_prepare_seen, target, patches, checksum_covers>>

MarkPrepare ==
  /\ flash_prepare_seen' = TRUE
  /\ UNCHANGED <<session, in_state, out_state, readCursor, writeCursor,
                 loaderState, chunkCursor, flashMode, partialWrite, cache,
                 reply, target, stage, patches, hostImage, hostCursor,
                 checksum_covers>>

\* 0x05; a second one begins the loader again.
StartLoader ==
  /\ HostAt({"prepared", "loading"})
  /\ connected /\ write_remaining # 0
  /\ out_state' = "loader"
  /\ loader_received' = 0 /\ loader_error' = FALSE /\ loader_ready' = FALSE
  /\ code' = 0 /\ initialized' = FALSE
  /\ stage' = "loading"
  /\ UNCHANGED <<session, in_state, readCursor, writeCursor, chunkCursor,
                 flashMode, flash_prepare_seen, partialWrite, cache, reply,
                 work, flash, patches, hostImage, hostCursor, checksum_covers>>

\* Fault: the last packet makes the loader ready whatever happened before it.
LoaderData_IgnoresError(n, ok) ==
  LET full == ~profile.variable /\ loader_received + n >= LoaderSize
  IN
  /\ out_state = "loader"
  /\ HostAt({"loading"})
  /\ ok => loader_received + n <= LoaderSize
  /\ code' = IF ok THEN code + n ELSE code
  /\ loader_error' = (loader_error \/ ~ok)
  /\ loader_received' = Smaller(loader_received + n, LoaderSize)
  /\ out_state' = IF full THEN "idle" ELSE "loader"
  /\ loader_ready' = IF full THEN ok ELSE loader_ready
  /\ UNCHANGED <<session, in_state, readCursor, writeCursor, chunkCursor,
                 flashMode, flash_prepare_seen, partialWrite, cache, reply,
                 initialized, work, flash, stage, patches, hostImage,
                 hostCursor, checksum_covers>>

\* n words of the loader.  A packet that does not fit is an error without a
\* write; after an error nothing more is written.
LoaderData(n, ok) ==
  LET error == loader_error \/ ~ok
      full == ~profile.variable /\ loader_received + n >= LoaderSize
  IN
  /\ out_state = "loader"
  /\ HostAt({"loading"})
  /\ ok => ~loader_error /\ loader_received + n <= LoaderSize
  /\ code' = IF ok THEN code + n ELSE code
  /\ loader_error' = error
  /\ loader_received' = Smaller(loader_received + n, LoaderSize)
  /\ out_state' = IF full THEN "idle" ELSE "loader"
  /\ loader_ready' = IF full THEN ~error ELSE loader_ready
  /\ UNCHANGED <<session, in_state, readCursor, writeCursor, chunkCursor,
                 flashMode, flash_prepare_seen, partialWrite, cache, reply,
                 initialized, work, flash, stage, patches, hostImage,
                 hostCursor, checksum_covers>>

LoaderComplete ==
  ~loader_error /\ (IF profile.variable THEN loader_received # 0 ELSE loader_ready)

\* 0x07 and 0x0b end the loader: it is refused when an error was seen or the
\* loader is not complete ...
FinishLoaderRefused ==
  /\ HostAt({"loading"})
  /\ ~LoaderComplete
  /\ out_state' = "idle"
  /\ stage' = "none"
  /\ UNCHANGED <<session, in_state, readCursor, writeCursor, loaderState,
                 chunkCursor, flashMode, flash_prepare_seen, partialWrite,
                 cache, reply, target, patches, hostImage, hostCursor,
                 checksum_covers>>

\* Fault: the value of the second initialisation is not looked at.
FinishLoaderFailed_Unchecked ==
  /\ HostAt({"loading"})
  /\ LoaderComplete
  /\ out_state' = "flash" /\ loader_ready' = TRUE
  /\ partial_cache_valid' = FALSE
  /\ initialized' = FALSE
  /\ stage' = "ready"
  /\ UNCHANGED <<session, in_state, readCursor, writeCursor, loader_received,
                 loader_error, chunkCursor, flashMode, flash_prepare_seen,
                 partialWrite, transfer_chunk, reply, code, work, flash,
                 patches, hostImage, hostCursor, checksum_covers>>

\* ... it fails when one of its initialisations does ...
FinishLoaderFailed ==
  /\ HostAt({"loading"})
  /\ LoaderComplete
  /\ out_state' = "idle" /\ loader_ready' = FALSE
  /\ initialized' = FALSE
  /\ stage' = "none"
  /\ UNCHANGED <<session, in_state, readCursor, writeCursor, loader_received,
                 loader_error, chunkCursor, flashMode, flash_prepare_seen,
                 partialWrite, cache, reply, code, work, flash, patches,
                 hostImage, hostCursor, checksum_covers>>

\* ... and otherwise the flash phase opens at once, for the hosts that send
\* data with no further command.
FinishLoader(command) ==
  /\ HostAt({"loading"})
  /\ LoaderComplete
  /\ loader_ready' = TRUE /\ initialized' = TRUE
  /\ flash_loader_operation' = IF command = "0x0b" THEN "verify"
                               ELSE IF flash_prepare_seen THEN "program_verify"
                               ELSE "program"
  /\ out_state' = "flash" /\ flash_openocd_mode' = TRUE
  /\ partial_cache_valid' = FALSE
  /\ ResetChunkCursor
  /\ flash_prepare_seen' = FALSE
  /\ stage' = "ready" /\ chunk_sent' = 0
  /\ UNCHANGED <<session, in_state, readCursor, writeCursor, loader_received,
                 loader_error, partialWrite, transfer_chunk, reply, code, work,
                 flash, patches, hostImage, chunk_base, answered,
                 checksum_covers>>

\* Fault: the cache is left valid.
StartFlash_KeepsCache(operation) ==
  /\ HostAt({"ready"})
  /\ loader_ready /\ write_remaining # 0
  /\ out_state' = "flash" /\ flash_openocd_mode' = FALSE
  /\ ResetChunkCursor
  /\ flash_loader_operation' = operation
  /\ stage' = "flashing" /\ chunk_sent' = 0
  /\ UNCHANGED <<session, in_state, readCursor, writeCursor, loaderState,
                 flash_prepare_seen, partialWrite, cache, reply,
                 target, patches, hostImage, chunk_base, answered,
                 checksum_covers>>

\* 0x02, 0x03 and 0x04, for the hosts that name the operation after 0x07.
StartFlash(operation) ==
  /\ HostAt({"ready"})
  /\ loader_ready /\ write_remaining # 0
  /\ out_state' = "flash" /\ flash_openocd_mode' = FALSE
  /\ ResetChunkCursor
  /\ partial_cache_valid' = FALSE
  /\ flash_loader_operation' = operation
  /\ stage' = "flashing" /\ chunk_sent' = 0
  /\ UNCHANGED <<session, in_state, readCursor, writeCursor, loaderState,
                 flash_prepare_seen, partialWrite, transfer_chunk, reply,
                 target, patches, hostImage, chunk_base, answered,
                 checksum_covers>>

-----------------------------------------------------------------------------
(* Programming an image: the data *)

HostWord(k) == IF k < image_length THEN Word(image, k) ELSE Filler

\* Words the host must send for this chunk: fixed by the mode, or by the length
\* of the first packet.
TransferLength(n) ==
  IF flash_transfer_length # 0 THEN flash_transfer_length
  ELSE IF ~flash_openocd_mode THEN RoundUp(flash_chunk_length, n)
  ELSE IF flash_chunk_length % Packet = 0 THEN flash_chunk_length ELSE Chunk

\* Of a packet of n words, those of this chunk's transfer, and of these the
\* ones that belong to the image.
Taken(n) == Smaller(n, TransferLength(n) - flash_transfer_received)
Fresh(n) == IF flash_transfer_received < flash_chunk_length
            THEN Smaller(flash_chunk_length - flash_transfer_received, Taken(n))
            ELSE 0

\* Buffer with the fresh words of the packet put at offset.
Put(buffer, offset, n) ==
  [i \in Slot |-> IF offset <= i /\ i < offset + Fresh(n)
                  THEN HostWord(chunk_base + chunk_sent + (i - offset))
                  ELSE buffer[i]]

\* Where the fresh words go: a streaming target has them collected in the chunk
\* buffer, another gets them now and the buffer keeps those of sector 0.
ChunkAfter(n) ==
  IF profile.streaming THEN Put(transfer_chunk, flash_transfer_received, n)
  ELSE Put(transfer_chunk, write_address + flash_transfer_received, n)
WorkAfter(n) ==
  IF profile.streaming THEN work ELSE Put(work, flash_transfer_received, n)
SumAfter(n) ==
  flash_checksum \o [i \in 1 .. Fresh(n) |-> HostWord(chunk_base + chunk_sent + i - 1)]

EndsTransfer(n) == flash_transfer_received + Taken(n) >= TransferLength(n)

\* A packet of n words, taken in the flash phase.
FlashPacket(n) ==
  /\ out_state = "flash" /\ write_remaining # 0
  /\ HostAt({"ready", "flashing"}) /\ ~data_reply_pending
  /\ flash_transfer_length' = TransferLength(n)

\* The words do not reach the target.
FlashLost(n) ==
  /\ FlashPacket(n) /\ ~profile.streaming /\ Fresh(n) # 0
  /\ out_state' = "idle" /\ Reply(ReplyError)
  /\ work' \in {work, WorkAfter(n)}
  /\ chunk_sent' = chunk_sent + n
  /\ UNCHANGED <<session, in_state, readCursor, writeCursor, loaderState,
                 flash_data_received, flash_transfer_received, flash_checksum,
                 flashMode, flash_prepare_seen, partialWrite, cache, code,
                 initialized, flash, stage, patches, hostImage, chunk_base,
                 answered, checksum_covers>>

\* The packet is stored and the chunk goes on.
FlashStored(n) ==
  /\ FlashPacket(n) /\ ~EndsTransfer(n)
  /\ transfer_chunk' = ChunkAfter(n) /\ work' = WorkAfter(n)
  /\ flash_checksum' = SumAfter(n)
  /\ flash_data_received' = flash_data_received + Fresh(n)
  /\ flash_transfer_received' = flash_transfer_received + Taken(n)
  /\ chunk_sent' = chunk_sent + n
  /\ UNCHANGED <<session, in_state, out_state, readCursor, writeCursor,
                 loaderState, flashMode, flash_prepare_seen, partialWrite,
                 partial_cache_valid, reply, code, initialized, flash, stage,
                 patches, hostImage, chunk_base, answered, checksum_covers>>

\* The chunk is written in one stream, then the tail of its last page is
\* filled, and the checksum covers the filling.
DataReceived(n) == flash_data_received + Fresh(n)
Padded == RoundUp(flash_chunk_length, profile.page)
RunWork(n) ==
  [i \in Slot |-> IF DataReceived(n) <= i /\ i < Padded THEN Erased
                  ELSE IF profile.streaming /\ i < flash_chunk_length
                  THEN ChunkAfter(n)[i] ELSE WorkAfter(n)[i]]

\* Fault: the filling is left out of the checksum.
RunSum_NoFilling(n) == SumAfter(n)

RunSum(n) == SumAfter(n) \o [i \in 1 .. Padded - DataReceived(n) |-> Erased]

\* The stream or the filling fails.
ChunkLost(n) ==
  /\ FlashPacket(n) /\ EndsTransfer(n)
  /\ profile.streaming \/ DataReceived(n) < Padded
  /\ out_state' = "idle" /\ Reply(ReplyError)
  /\ transfer_chunk' = ChunkAfter(n)
  /\ work' \in {WorkAfter(n), RunWork(n)}
  /\ flash_checksum' = SumAfter(n)
  /\ flash_data_received' = DataReceived(n)
  /\ flash_transfer_received' = flash_transfer_received + Taken(n)
  /\ chunk_sent' = chunk_sent + n
  /\ UNCHANGED <<session, in_state, readCursor, writeCursor, loaderState,
                 flashMode, flash_prepare_seen, partialWrite,
                 partial_cache_valid, code, initialized, flash, stage, patches,
                 hostImage, chunk_base, answered, checksum_covers>>

\* The target's loader: what a run over the words w may leave in the flash.
\* An initialised loader that returns 0 has programmed or compared every word;
\* any other run may or may not have.
Sound == initialized /\ (profile.variable \/ code = LoaderSize)
Programs == flash_loader_operation \in {"program", "program_verify"}

ProgrammedFlash(w) ==
  [a \in Address |-> IF write_address <= a /\ a < write_address + flash_chunk_length
                     THEN w[a - write_address] ELSE flash[a]]
LoaderRun(w, success) ==
  CASE ~Sound -> {flash, ProgrammedFlash(w)}
    [] Sound /\ Programs /\ success -> {ProgrammedFlash(w)}
    [] Sound /\ Programs /\ ~success -> {flash, ProgrammedFlash(w)}
    [] Sound /\ ~Programs /\ success -> {flash} \cap {ProgrammedFlash(w)}
    [] Sound /\ ~Programs /\ ~success -> {flash}

\* Fault: the next chunk goes where the last one went.
NextChunk_SameAddress ==
  /\ write_address' = write_address
  /\ write_remaining' = write_remaining - flash_chunk_length
  /\ flash_chunk_length' = FirstChunk(write_remaining')
  /\ ResetChunkCursor
  /\ out_state' = out_state

\* Fault: the words stored of the last chunk still count.
NextChunk_StaleCursor ==
  /\ write_address' = write_address + flash_chunk_length
  /\ write_remaining' = write_remaining - flash_chunk_length
  /\ flash_chunk_length' = FirstChunk(write_remaining')
  /\ flash_data_received' = 0 /\ flash_transfer_received' = 0
  /\ flash_transfer_length' = 0 /\ UNCHANGED flash_checksum
  /\ out_state' = out_state

\* Fault: the last chunk is as long as the others.
NextChunk_FullLength ==
  /\ write_address' = write_address + flash_chunk_length
  /\ write_remaining' = write_remaining - flash_chunk_length
  /\ flash_chunk_length' = flash_chunk_length
  /\ ResetChunkCursor
  /\ out_state' = out_state

\* What the next chunk is, when the image goes on; the phase ends otherwise.
NextChunk ==
  /\ write_address' = write_address + flash_chunk_length
  /\ write_remaining' = write_remaining - flash_chunk_length
  /\ flash_chunk_length' = FirstChunk(write_remaining')
  /\ ResetChunkCursor
  /\ out_state' = out_state

\* Fault: the phase stays open.
LastChunk_StaysOpen(n) ==
  /\ write_address' = 0 /\ write_remaining' = 0
  /\ flash_chunk_length' = flash_chunk_length
  /\ flash_data_received' = Padded
  /\ flash_transfer_received' = flash_transfer_received + Taken(n)
  /\ flash_transfer_length' = TransferLength(n)
  /\ flash_checksum' = RunSum(n)
  /\ out_state' = out_state

LastChunk(n) ==
  /\ write_address' = 0 /\ write_remaining' = 0
  /\ flash_chunk_length' = flash_chunk_length
  /\ flash_data_received' = Padded
  /\ flash_transfer_received' = flash_transfer_received + Taken(n)
  /\ flash_transfer_length' = TransferLength(n)
  /\ flash_checksum' = RunSum(n)
  /\ out_state' = "idle"

\* The last packet of the chunk: the loader runs, its value makes the reply,
\* and the phase goes on with the next chunk whatever the value was, unless the
\* run itself failed.
ChunkRun(n, outcome) ==
  /\ out_state = "flash" /\ write_remaining # 0
  /\ HostAt({"ready", "flashing"}) /\ ~data_reply_pending
  /\ EndsTransfer(n)
  /\ transfer_chunk' = ChunkAfter(n) /\ work' = RunWork(n)
  /\ \E f \in LoaderRun(RunWork(n), Success(outcome)) : flash' = f
  /\ checksum_covers' = (RunSum(n) = [i \in 1 .. Padded |-> RunWork(n)[i - 1]])
  /\ Reply(DataStatus(outcome))
  /\ IF outcome.ok /\ write_remaining > flash_chunk_length
     THEN NextChunk ELSE LastChunk(n)
  /\ chunk_sent' = chunk_sent + n
  /\ UNCHANGED <<session, in_state, readCursor, loaderState, flashMode,
                 flash_prepare_seen, partialWrite, partial_cache_valid, code,
                 initialized, stage, patches, hostImage, chunk_base, answered>>

\* The host reads the reply: a chunk done is counted and the next one begun,
\* anything else makes the host leave the image.
TakeReply ==
  /\ data_reply_pending
  /\ data_reply_pending' = FALSE
  /\ IF data_reply_status = ReplyDone /\ stage \in {"ready", "flashing"}
     THEN /\ answered' = Smaller(chunk_base + Chunk, image_length)
          /\ chunk_base' = answered'
          /\ stage' = stage
     ELSE stage' = "none" /\ UNCHANGED <<chunk_base, answered>>
  /\ chunk_sent' = 0
  /\ UNCHANGED <<session, in_state, out_state, readCursor, writeCursor,
                 loaderState, chunkCursor, flashMode, flash_prepare_seen,
                 partialWrite, cache, data_reply_status, target, patches,
                 hostImage, checksum_covers>>

-----------------------------------------------------------------------------
Next ==
  \/ SessionReset \/ PowerOff \/ ProgramEnd \/ AbandonData
  \/ MarkPrepare \/ BeginRead \/ StartLoader
  \/ FinishLoaderRefused \/ FinishLoaderFailed \/ TakeReply
  \/ \E ok \in BOOLEAN :
       Connect(ok) \/ SetChipType(ok) \/ EraseAll(ok) \/ ClearCodeFlash(ok) \/ ReadData(ok)
  \/ \E n \in 0 .. Packet + 1, ragged \in BOOLEAN : PrepareRead(n, ragged)
  \/ \E a \in Address, n \in 1 .. Packet : StartPartialWrite(a, n)
  \/ \E a \in {Page(b) : b \in Address}, n \in 1 .. MaxLength : PrepareWrite(a, n)
  \/ \E command \in {"0x07", "0x0b"} : FinishLoader(command)
  \/ \E operation \in LoaderOperation \ {"initialize"} : StartFlash(operation)
  \/ \E n \in 1 .. Packet :
       \/ \E ok \in BOOLEAN : LoaderData(n, ok) \/ PartialData(n, ok)
       \/ FlashLost(n) \/ FlashStored(n) \/ ChunkLost(n)
       \/ \E outcome \in Outcome : ChunkRun(n, outcome)

Spec == Init /\ [][Next]_vars

-----------------------------------------------------------------------------
(* Properties *)

BoolType ==
  /\ connected \in BOOLEAN /\ read_ragged \in BOOLEAN
  /\ loader_error \in BOOLEAN /\ loader_ready \in BOOLEAN
  /\ flash_openocd_mode \in BOOLEAN /\ flash_prepare_seen \in BOOLEAN
  /\ partial_cache_valid \in BOOLEAN /\ data_reply_pending \in BOOLEAN
  /\ initialized \in BOOLEAN /\ checksum_covers \in BOOLEAN

PhaseType ==
  /\ profile \in Profiles
  /\ in_state \in {"idle", "reading"}
  /\ out_state \in {"idle", "loader", "partial", "flash"}
  /\ read_remaining \in Nat
  /\ flash_loader_operation \in LoaderOperation
  /\ partial_write_address \in Address /\ partial_write_length \in Nat
  /\ data_reply_status \in Status

CursorType ==
  /\ write_address \in 0 .. FlashSize /\ write_remaining \in 0 .. FlashSize
  /\ flash_chunk_length \in 0 .. Chunk
  /\ flash_data_received \in 0 .. Chunk /\ flash_transfer_received \in Nat
  /\ flash_transfer_length \in Nat /\ flash_checksum \in Seq(Value)

TargetType ==
  /\ loader_received \in 0 .. LoaderSize /\ code \in 0 .. LoaderSize
  /\ transfer_chunk \in [Slot -> Value] /\ work \in [Slot -> Value]
  /\ flash \in [Address -> Value]

HostType ==
  /\ stage \in {"none", "prepared", "loading", "ready", "flashing"}
  /\ patches \in 0 .. MaxPatch
  /\ image \in 0 .. MaxImage /\ image_base \in 0 .. FlashSize
  /\ image_length \in 0 .. MaxLength
  /\ chunk_sent \in Nat /\ chunk_base \in Nat /\ answered \in Nat

\* Every cursor stays within the buffer or the range it walks: a chunk never
\* exceeds the chunk buffer, whatever the packets were.
TypeOK == BoolType /\ PhaseType /\ CursorType /\ TargetType /\ HostType

\* Every word of the image that the host has been told is programmed is in the
\* flash where the host wanted it, through every later chunk, abort, power loss
\* and reconnection, until the host erases or patches the flash.  It takes a
\* loader whose complaints cannot be mistaken for success (ComplaintsDiffer):
\* of a value other than 0, 8 and 16 the code sends the low byte.
AnsweredIsProgrammed ==
  \A k \in 0 .. answered - 1 : flash[image_base + k] = Word(image, k)

\* The checksum handed to the loader is the sum of exactly the words the run
\* reads, the filling of the last page included.
ChecksumCovers == checksum_covers

\* A loader of fixed length is taken for ready only when every word of it has
\* reached the target.
ReadyLoaderIsWhole ==
  loader_ready /\ ~profile.variable => code = LoaderSize

\* The chunk buffer and the page cache share storage: while chunks are being
\* collected nobody may trust the cache.
WorkspaceExclusive == out_state = "flash" => ~partial_cache_valid

\* While chunks are being sent the cursors stay on the image: what remains ends
\* where the image ends, and the chunk is as long as it can be.
ChunkOnImage ==
  out_state = "flash" /\ write_remaining # 0 =>
    /\ write_address + write_remaining = image_base + image_length
    /\ flash_chunk_length = FirstChunk(write_remaining)
    /\ flash_data_received = Len(flash_checksum)
    /\ flash_data_received = Smaller(flash_transfer_received, flash_chunk_length)
    /\ flash_transfer_received < flash_transfer_length \/ flash_transfer_received = 0

WritesImage ==
  \A a \in Address :
    flash'[a] # flash[a] =>
      \/ image_base <= a /\ a < image_base + image_length
      \/ flash'[a] = Erased
      \/ out_state = "partial" /\ InPage(a)

\* Flash changes only where the announced image goes, by an erase, or in the
\* page of a partial write: no run of the loader reaches beyond the image.
OnlyImageWritten == [][WritesImage]_vars

\* The partial write ends, answered as done.
PartialAnswered ==
  /\ out_state = "partial" /\ out_state' # "partial"
  /\ data_reply_pending' /\ data_reply_status' = ReplyPatched

\* A partial write that is answered as done changes nothing but its own words:
\* the rest of the page is written back as it was.
PartialKeepsRest ==
  [][PartialAnswered => \A a \in Address : InPatch(a) \/ flash'[a] = flash[a]]_vars

\* The same, when the page was read from the target.
ReadPageIsKept ==
  [][PartialAnswered /\ ~FromCache => \A a \in Address : InPatch(a) \/ flash'[a] = flash[a]]_vars

\* Data enters the flash phase only after the loader in the target was
\* initialised.
FlashAfterInitialize ==
  [][out_state # "flash" /\ out_state' = "flash" => initialized']_vars

-----------------------------------------------------------------------------
(* The inductive invariant behind TypeOK, ChunkOnImage, ReadyLoaderIsWhole, *)
(* WorkspaceExclusive and OnlyImageWritten (proved in                       *)
(* WchlinkTransferProofs).                                                  *)

\* What remains of an image ends where the image ends, in every phase.
RangeInv ==
  /\ image_base + image_length <= FlashSize
  /\ write_remaining # 0 =>
       /\ image # 0 /\ image_base <= write_address
       /\ write_address + write_remaining = image_base + image_length
       /\ flash_chunk_length = FirstChunk(write_remaining)

\* While the loader is sent it is not ready, and without an error every word
\* received is in the target.
LoaderInv ==
  /\ out_state = "loader" =>
       /\ ~loader_ready /\ code <= loader_received
       /\ ~loader_error => code = loader_received
  /\ ReadyLoaderIsWhole

Inv == TypeOK /\ RangeInv /\ ChunkOnImage /\ LoaderInv /\ WorkspaceExclusive

-----------------------------------------------------------------------------
(* Progress: the host keeps sending and reading *)

HostGoesOn ==
  \/ TakeReply \/ (\E ok \in BOOLEAN : ReadData(ok))
  \/ \E n \in 1 .. Packet :
       \/ \E ok \in BOOLEAN : LoaderData(n, ok) \/ PartialData(n, ok)
       \/ FlashLost(n) \/ FlashStored(n) \/ ChunkLost(n)
       \/ \E outcome \in Outcome : ChunkRun(n, outcome)

FairSpec == Spec /\ WF_vars(HostGoesOn)

\* A flash phase ends: the image is programmed or given up, no packet length
\* leaves the chunk one word short of its end.
FlashPhaseEnds == (out_state = "flash") ~> (out_state # "flash" \/ stage = "none")

=============================================================================
