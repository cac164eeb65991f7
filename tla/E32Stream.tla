---------------------------- MODULE E32Stream ----------------------------
(* How frames are cut out of the bytes of the E32 radio's UART              *)
(* (lora_e32_receive_raw and lora_e32_flush_rx, src/main/lora.c; the frame   *)
(* itself: lora_send_frame_air, src/main/main.c).  A frame is a header that *)
(* starts with the preamble and holds the payload's length, the payload and *)
(* a checksum.  Bytes come in chunks that have nothing to do with frames,   *)
(* with noise between them, and stay in g_rx_stream from one call to the    *)
(* next.  MutexLora keeps every other user of the stream out of a call.     *)
EXTENDS Integers, Sequences

CONSTANTS
  Bytes,         \* values of a byte
  Preamble,      \* LORA_PREAMBLE
  HeaderLen,     \* LORA_STREAM_HEADER_LEN
  LenOffset,     \* LORA_STREAM_LEN_OFFSET, counted from 0
  MaxPayload,    \* LORA_STREAM_MAX_PAYLOAD
  CrcLen,        \* LORA_STREAM_CRC_LEN
  Checksum(_),   \* stream_crc16 and lora_crc16, as CrcLen bytes
  MaxLen,        \* the caller's buffer, sizeof(lora_app_frame_t)
  StreamSize,    \* sizeof(g_rx_stream)
  ChunkSize,     \* sizeof(chunk)
  TimeoutMs,     \* GTW_LORA_RX_TIMEOUT_MS, the length of a call that finds nothing
  StaleMs,       \* RX_STALE_BUFFER_MS
  MaxBytes       \* BOUND: bytes between two moments the stream is emptied

ASSUME ByteAssumption ==
  /\ Preamble \in Bytes
  /\ Bytes \subseteq Nat
ASSUME FrameAssumption ==
  /\ HeaderLen \in Nat /\ LenOffset \in 1 .. HeaderLen - 1
  /\ MaxPayload \in Nat
  /\ CrcLen \in Nat \ {0}
  /\ MaxLen = HeaderLen + MaxPayload + CrcLen
ASSUME SizeAssumption ==
  /\ ChunkSize \in Nat \ {0}
  /\ StreamSize \in Nat
  /\ MaxLen - 1 + ChunkSize <= StreamSize
ASSUME TimeAssumption ==
  /\ TimeoutMs \in Nat \ {0}
  /\ StaleMs \in Nat
  /\ TimeoutMs < StaleMs
ASSUME ChecksumAssumption ==
  \A s \in UNION {[1 .. n -> Bytes] : n \in HeaderLen .. HeaderLen + MaxPayload} :
    Checksum(s) \in [1 .. CrcLen -> Bytes]

VARIABLES
  stream,    \* g_rx_stream and its length
  stage,     \* lora_e32_receive_raw: not called, in its loop, or at the read
  late,      \* the deadline of the call has passed
  fresh,     \* a byte was read in this call
  age,       \* calls that timed out since the last byte, up to the limit
  silent,    \* history: no more bytes will come
  heard,     \* history: bytes read since the stream was last emptied
  frames     \* history: where in heard the returned frames are

streamVars == <<stream, stage, late, fresh, age, silent, heard, frames>>

Drop(s, n) == SubSeq(s, n + 1, Len(s))

\* sizeof(lora_app_frame_t) for the payload length that byte LenOffset announces.
FrameLen(s) == HeaderLen + s[LenOffset + 1] + CrcLen
BadLength(s) == s[LenOffset + 1] > MaxPayload \/ FrameLen(s) > MaxLen

GoodChecksum(s, n) ==
  SubSeq(s, n - CrcLen + 1, n) = Checksum(SubSeq(s, 1, n - CrcLen))

\* lora_send_frame_air: the header, with its length byte, the payload and the
\* checksum of both.
Encode(header, payload) ==
  header \o payload \o Checksum(header \o payload)

StreamInit ==
  /\ stream = <<>>
  /\ stage = "idle"
  /\ late = FALSE
  /\ fresh = FALSE
  /\ age = 0
  /\ silent = FALSE
  /\ heard = <<>>
  /\ frames = {}

-----------------------------------------------------------------------------
Call ==
  /\ stage = "idle"
  /\ stage' = "loop"
  /\ late' = FALSE
  /\ fresh' = FALSE
  /\ UNCHANGED <<stream, age, silent, heard, frames>>

\* The bytes before the first preamble are dropped.
FromPreamble(s) ==
  LET found == {i \in DOMAIN s : s[i] = Preamble}
  IN IF found = {} THEN <<>>
     ELSE Drop(s, (CHOOSE i \in found : \A j \in found : i <= j) - 1)

HeaderComplete(s) == Len(s) >= HeaderLen
\* More bytes are needed to tell whether s begins with a frame.
Undecided(s) ==
  HeaderComplete(s) => ~BadLength(s) /\ Len(s) < FrameLen(s)
WholeFrame(s) ==
  /\ HeaderComplete(s)
  /\ ~BadLength(s)
  /\ Len(s) >= FrameLen(s)
  /\ GoodChecksum(s, FrameLen(s))

\* The bytes dropped or returned so far: the rest is the stream.
Consumed == Len(heard) - Len(stream)

\* read_more.
Waits(s) ==
  /\ Undecided(s)
  /\ stream' = s
  /\ stage' = "read"
  /\ UNCHANGED frames

\* Mutant: a frame whose checksum is wrong is dropped whole.
ResyncsFar(s) ==
  /\ ~Undecided(s) /\ ~WholeFrame(s)
  /\ stream' = IF BadLength(s) THEN Tail(s) ELSE Drop(s, FrameLen(s))
  /\ UNCHANGED <<stage, frames>>

\* Mutant: a wrong checksum is found again and again.
ResyncsNowhere(s) ==
  /\ ~Undecided(s) /\ ~WholeFrame(s)
  /\ stream' = IF BadLength(s) THEN Tail(s) ELSE s
  /\ UNCHANGED <<stage, frames>>

\* No frame starts here: drop one byte and look again.
Resyncs(s) ==
  /\ ~Undecided(s) /\ ~WholeFrame(s)
  /\ stream' = Tail(s)
  /\ UNCHANGED <<stage, frames>>

Returns(s) ==
  /\ WholeFrame(s)
  /\ stream' = Drop(s, FrameLen(s))
  /\ frames' = frames \cup {[at |-> Len(heard) - Len(s) + 1, len |-> FrameLen(s)]}
  /\ stage' = "idle"

\* Mutant: the loop ends with the deadline.
GoesOnInTime == ~late

\* The loop's condition: past the deadline it goes on as long as a header is at
\* hand.
GoesOn == ~late \/ Len(stream) >= HeaderLen

\* One round of the loop up to its read, its `continue` or its return.
Scan ==
  /\ stage = "loop"
  /\ GoesOn
  /\ LET s == FromPreamble(stream) IN Waits(s) \/ Resyncs(s) \/ Returns(s)
  /\ UNCHANGED <<late, fresh, age, silent, heard>>

\* The oldest bytes make room for the chunk.
WithRoom(s, r) == IF Len(s) + r > StreamSize THEN Drop(s, Len(s) + r - StreamSize)
                  ELSE s

ReadAppends(chunk) == stream' = WithRoom(stream, Len(chunk)) \o chunk

\* uart_read_bytes, up to 100 ms.
Read ==
  /\ stage = "read"
  /\ ~late
  /\ ~silent
  /\ stage' = "loop"
  /\ \E n \in 1 .. ChunkSize : \E chunk \in [1 .. n -> Bytes] :
       /\ Len(heard) + n <= MaxBytes
       /\ ReadAppends(chunk)
       /\ heard' = heard \o chunk
  /\ fresh' = TRUE
  /\ age' = 0
  /\ UNCHANGED <<late, silent, frames>>

ReadsNothing ==
  /\ stage = "read"
  /\ ~late
  /\ stage' = "loop"
  /\ UNCHANGED <<stream, late, fresh, age, silent, heard, frames>>

\* uart_read_bytes reports an error, and the call returns it.
ReadFails ==
  /\ stage = "read"
  /\ ~late
  /\ ~silent
  /\ stage' = "idle"
  /\ UNCHANGED <<stream, late, fresh, age, silent, heard, frames>>

\* The stream is emptied: a later frame cannot begin in what was before.
Emptied ==
  /\ stream' = <<>>
  /\ heard' = <<>>
  /\ frames' = {}
  /\ age' = 0

\* Mutant: the check for stale bytes looks at the present call only.
StaleNever ==
  /\ age' = 0
  /\ UNCHANGED <<stream, heard, frames>>

\* Bytes are stale when the last one came StaleMs ago: not in the call that read
\* it, certainly after enough calls of TimeoutMs, and possibly in between, since
\* any time may pass between two calls.
Stale ==
  LET calls == IF fresh THEN 0 ELSE age + 1
  IN \/ /\ stream # <<>> /\ ~fresh
        /\ Emptied
     \/ /\ stream = <<>> \/ calls * TimeoutMs < StaleMs
        /\ age' = IF stream = <<>> THEN 0 ELSE calls
        /\ UNCHANGED <<stream, heard, frames>>

\* The deadline has passed and there is no header to look at, or the frame of the
\* one at hand is not complete.
TimesOut ==
  /\ late
  /\ stage = "read" \/ (stage = "loop" /\ ~GoesOn)
  /\ stage' = "idle"
  /\ Stale
  /\ UNCHANGED <<late, fresh, silent>>

Deadline ==
  /\ stage # "idle"
  /\ late' = TRUE
  /\ UNCHANGED <<stream, stage, fresh, age, silent, heard, frames>>

\* lora_e32_flush_rx before an attempt, or a new configuration of the radio.
Flush ==
  /\ stage = "idle"
  /\ Emptied
  /\ UNCHANGED <<stage, late, fresh, silent>>

\* The tanks stop sending, and the UART works from now on.
FallSilent ==
  /\ silent' = TRUE
  /\ UNCHANGED <<stream, stage, late, fresh, age, heard, frames>>

StreamNext ==
  \/ Call \/ Scan \/ Read \/ ReadsNothing \/ ReadFails \/ TimesOut \/ Deadline
  \/ Flush \/ FallSilent

StreamSpec == StreamInit /\ [][StreamNext]_streamVars

(* The steps inside a call are taken and time passes.  Whether there is     *)
(* another call is up to gtw_lora_rx_task: RX_ONLY calls again for ever,    *)
(* TX_ONLY makes no call while no ACK is awaited (main.c:1680-1685).        *)
FairStreamSpec ==
  /\ StreamSpec
  /\ WF_streamVars(Scan) /\ WF_streamVars(TimesOut) /\ WF_streamVars(Deadline)
  /\ WF_streamVars(ReadsNothing)

-----------------------------------------------------------------------------
(* Properties.                                                              *)

\* A frame, as a sender builds it, stands in s from position p on.
FrameAt(s, p) ==
  s[p] = Preamble /\ WholeFrame(Drop(s, p - 1))

Inside(f) == f.at .. f.at + f.len - 1

\* Every variable has its type, and the stream never outgrows its array.
StreamTypeOK ==
  /\ stream \in Seq(Bytes) /\ Len(stream) <= StreamSize
  /\ stage \in {"idle", "loop", "read"}
  /\ late \in BOOLEAN
  /\ fresh \in BOOLEAN
  /\ age \in Nat
  /\ silent \in BOOLEAN
  /\ heard \in Seq(Bytes)
  /\ frames \subseteq [at : Nat \ {0}, len : HeaderLen .. MaxLen]

StreamIsTail ==
  /\ Len(stream) <= Len(heard)
  /\ stream = Drop(heard, Consumed)

\* A read adds its chunk to what is there and discards nothing: before a read
\* less than a frame is left, so that the overflow branch (lora.c:346-353) never
\* drops a byte.
ReadKeepsAll ==
  [][Len(heard') > Len(heard) => stream' = stream \o Drop(heard', Len(heard))]_streamVars

\* What is returned is a frame with its checksum, each byte is returned at most
\* once, and no frame is overlooked: wherever one starts in the bytes already
\* consumed, it lies at or inside a frame that was returned.  So what is found
\* depends on the bytes alone, not on how the UART and the calls cut them.
FramesFound ==
  /\ StreamTypeOK
  /\ StreamIsTail
  /\ \A f \in frames : FrameAt(heard, f.at) /\ f.at + f.len - 1 <= Consumed
  /\ \A f, g \in frames : f # g => Inside(f) \cap Inside(g) = {}
  /\ \A p \in 1 .. Consumed :
       FrameAt(heard, p) => \E f \in frames : p \in Inside(f)

\* A whole frame at the head of the stream is never thrown away as "RX buffer
\* incompleto" (lora.c:369): the deadline is looked at after the frame.
OnlyPartsGoStale ==
  [][stream # <<>> /\ stream' = <<>> /\ stage # "idle" /\ stage' = "idle"
       /\ frames' = {}
     => LET s == FromPreamble(stream) IN ~WholeFrame(s)]_streamVars

\* Bytes are given up only when they cannot be a frame.
KeepsWholeFrames == ReadKeepsAll /\ OnlyPartsGoStale

\* Every call returns, whatever the bytes: no round of the loop leaves the stream
\* as it was and starts again past the deadline.
CallReturns == stage # "idle" ~> stage = "idle"

\* As long as gtw_lora_rx_task goes on calling, what is left of a frame when the
\* channel falls silent is forgotten: it is not there to be joined with the frames
\* of an hour later.  RX_ONLY always goes on; a TX_ONLY gateway that awaits no ACK
\* keeps the rest until the flush of its next attempt (main.c:2087).
CallsGoOn == []<>(stage # "idle")
LeftoverForgotten == CallsGoOn => (silent ~> stream = <<>>)

=============================================================================
