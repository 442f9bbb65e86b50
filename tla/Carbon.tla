------------------------------- MODULE Carbon -------------------------------
(***************************************************************************)
(* A carbon backend (backends/carbon.c) under the ticks of backend.c: the  *)
(* connection, the samples of a tick, and the pickle buffer they are       *)
(* batched in, and the loop that writes a message in pieces.  A message is *)
(* abstracted to its length and the number of samples in it.               *)
(***************************************************************************)
EXTENDS Naturals

CONSTANTS
  PICKLE_BUFFER_SIZE,
  KeyLength,           \* strlen() of the keys that are sampled
  Value,               \* values that are sampled
  LineRest,            \* length of the rest of a plain text line: the numbers and separators
  Chunk,               \* bound: how many bytes a write() may take short of all of them
  MaxSamples,          \* bound: samples in a behaviour ...
  MaxLines             \* ... of the plain text protocol

(* room for the lead and one sample with the longest key; pos is 16 bits wide *)
ASSUME BufferAssumption ==
  PICKLE_BUFFER_SIZE \in Nat /\ 296 <= PICKLE_BUFFER_SIZE /\ PICKLE_BUFFER_SIZE < 65536
ASSUME CarbonAssumption ==
  /\ KeyLength \subseteq Nat /\ LineRest \in [Value -> Nat \ {0}] /\ Chunk \subseteq Nat \ {0}
  /\ MaxSamples \in Nat /\ MaxLines \in Nat

VARIABLES
  pickle,     \* the "pickle" setting, which picks the sample and flush callbacks
  value,      \* the value of the metrics, the same throughout a behaviour
  bpc,        \* backend__thread: "sleep", "walk" (inside a tick) or "write" (write_in_full)
  connected,  \* out_sock >= 0
  pos, pt,    \* carbon->pickler, both uint16_t
  sent,       \* carbon->sent
  size, left, \* write_in_full: the length of the message, and `count'
  then,       \* what its caller does next: "push" a sample, "walk" on, or "sleep"
  key_len,    \* local of pickle1_each across its flush, uint8_t
  torn,       \* history: does what the connection has taken end inside a message?
  offered,    \* history: calls of the sample callback
  delivered,  \* history: samples of completely written messages
  lost        \* history: samples dropped

buffer  == <<pos, pt>>
writing == <<size, left, then, key_len>>
settings == <<pickle, value>>
vars == <<settings, bpc, connected, buffer, sent, writing, torn, offered, delivered, lost>>

U16(n) == n % 65536
U8(n)  == n % 256

PICKLE1_SIZE(len) == 32 + len
LeadSize  == 8    \* the length prefix and `lead'
TrailSize == 2

Buffered == IF pickle THEN (pt - 1) \div 3 ELSE 0

(* The sample its callback has not stored yet: it waits for a flush, or is being
   written itself. *)
InHand == IF bpc = "write" /\ (then = "push" \/ ~pickle) THEN 1 ELSE 0

Init ==
  /\ pickle \in BOOLEAN /\ value \in Value
  /\ bpc = "sleep" /\ connected = FALSE
  /\ IF pickle THEN pos = LeadSize /\ pt = 1 ELSE pos = 0 /\ pt = 0
  /\ size = 0 /\ left = 0 /\ then = "walk" /\ key_len = 0
  /\ sent = 0 /\ torn = FALSE /\ offered = 0 /\ delivered = 0 /\ lost = 0
-----------------------------------------------------------------------------
(* backend__thread wakes up and calls carbon_connect, which keeps an open
   connection and otherwise tries to open one. *)
CarbonConnect ==
  /\ bpc = "sleep"
  /\ \/ bpc' = "walk" /\ connected' = TRUE /\ torn' = (connected /\ torn)
     \/ ~connected /\ UNCHANGED <<bpc, connected, torn>>
  /\ UNCHANGED <<settings, buffer, sent, writing, offered, delivered, lost>>

(* carbon_disconnect.  Mutant: the broken connection is kept. *)
KeepConnection == UNCHANGED connected
CarbonDisconnect == connected' = FALSE

(* pickle1_push: 26 bytes around the key, and three memo slots. *)
PushedPos(p, len) == U16(p + 26 + len)
PushedPt(n) == U16(n + 3)

(* When pickle1_each makes room.  Mutant: the test leaves out the new sample. *)
RoomForTrailOnly(p, len) == p + TrailSize >= PICKLE_BUFFER_SIZE
MustFlush(p, len) == p + PICKLE1_SIZE(len) >= PICKLE_BUFFER_SIZE

(* write_in_full(n bytes) is called; its caller goes on with `next' and `len'. *)
BeginWrite(n, next, len) ==
  /\ bpc' = "write"
  /\ size' = n /\ left' = n /\ then' = next /\ key_len' = len

(* pickle1_flush appends the trail and writes the buffer. *)
BeginFlush(next, len) ==
  /\ pos' = U16(pos + TrailSize)
  /\ BeginWrite(pos', next, len)
  /\ UNCHANGED <<connected, pt, lost>>

PickleEach(len) ==
  LET full == MustFlush(pos, U8(len)) /\ pt # 1 IN
  /\ pickle /\ bpc = "walk" /\ offered < MaxSamples
  /\ offered' = offered + 1
  /\ \/ /\ connected /\ ~full
        /\ pos' = PushedPos(pos, U8(len)) /\ pt' = PushedPt(pt)
        /\ UNCHANGED <<bpc, connected, writing, lost>>
     \/ /\ connected /\ full
        /\ BeginFlush("push", U8(len))
     \/ /\ ~connected
        /\ lost' = lost + 1
        /\ UNCHANGED <<bpc, connected, buffer, writing>>
  /\ UNCHANGED <<settings, sent, torn, delivered>>

(* A line is taken to fit the 1024 bytes that it is put together in: what plaintext_each
   does with a longer one is undefined. *)
PlaintextEach(len) ==
  /\ ~pickle /\ bpc = "walk" /\ offered < MaxLines
  /\ offered' = offered + 1
  /\ \/ /\ connected
        /\ BeginWrite(len + LineRest[value], "walk", 0)
        /\ UNCHANGED lost
     \/ /\ ~connected
        /\ lost' = lost + 1
        /\ UNCHANGED <<bpc, writing>>
  /\ UNCHANGED <<settings, connected, buffer, sent, torn, delivered>>

(* The end of the tick: flush, if the backend has one, and sleep. *)
TickEnd ==
  /\ bpc = "walk"
  /\ \/ /\ ~pickle \/ pt = 1 \/ ~connected
        /\ bpc' = "sleep"
        /\ UNCHANGED <<connected, buffer, writing, lost>>
     \/ /\ pickle /\ pt # 1 /\ connected
        /\ BeginFlush("sleep", 0)
  /\ UNCHANGED <<settings, sent, torn, offered, delivered>>
-----------------------------------------------------------------------------
(* write() takes some of the bytes; EAGAIN and EINTR are retried. *)
WritePart(n) ==
  /\ bpc = "write" /\ n < left
  /\ left' = left - n /\ torn' = TRUE
  /\ UNCHANGED <<settings, bpc, connected, buffer, sent, size, then, key_len, offered, delivered, lost>>

(* write_in_full returns to its caller. *)
Return ==
  /\ bpc' = IF then = "sleep" THEN "sleep" ELSE "walk"
  /\ size' = 0 /\ left' = 0 /\ then' = "walk" /\ key_len' = 0
  /\ UNCHANGED <<settings, offered>>

(* pickle1_init, called whether or not the write succeeded.  Mutants: the memo counter
   is not reset after a write; the buffer is not reset after a failure. *)
PtKept == <<LeadSize, pt>>
AfterWrite == <<LeadSize, 1>>
KeptOnError == <<pos, pt>>
AfterError == <<LeadSize, 1>>

(* write() takes the last byte: the message is complete. *)
WriteAll ==
  /\ bpc = "write" /\ Return
  /\ sent' = sent + size /\ torn' = FALSE
  /\ delivered' = delivered + (IF pickle THEN Buffered ELSE 1)
  /\ \/ ~pickle /\ UNCHANGED buffer
     \/ /\ pickle /\ then = "push"
        /\ pos' = PushedPos(AfterWrite[1], key_len) /\ pt' = PushedPt(AfterWrite[2])
     \/ pickle /\ then # "push" /\ pos' = AfterWrite[1] /\ pt' = AfterWrite[2]
  /\ UNCHANGED <<connected, lost>>

(* write() fails or takes nothing: the connection is given up, with every sample of the
   message and the one that waited for the flush. *)
WriteFails ==
  /\ bpc = "write" /\ Return
  /\ CarbonDisconnect
  /\ lost' = lost + Buffered + InHand
  /\ \/ ~pickle /\ UNCHANGED buffer
     \/ pickle /\ pos' = AfterError[1] /\ pt' = AfterError[2]
  /\ UNCHANGED <<sent, torn, delivered>>

Next ==
  \/ CarbonConnect
  \/ \E len \in KeyLength : PickleEach(len) \/ PlaintextEach(len)
  \/ \E n \in Chunk : WritePart(n)
  \/ WriteAll \/ WriteFails
  \/ TickEnd

Spec == Init /\ [][Next]_vars
-----------------------------------------------------------------------------
TypeOK ==
  /\ pickle \in BOOLEAN /\ value \in Value /\ bpc \in {"sleep", "walk", "write"} /\ connected \in BOOLEAN
  /\ pos \in Nat /\ pos < 65536
  /\ pt \in Nat /\ pt < 65536 /\ (pickle => 1 <= pt)
  /\ size \in Nat /\ left \in Nat /\ left <= size
  /\ then \in {"push", "walk", "sleep"} /\ key_len \in 0 .. 255
  /\ sent \in Nat /\ torn \in BOOLEAN
  /\ offered \in Nat /\ delivered \in Nat /\ lost \in Nat

(* The pickle buffer is never overrun: there is always room for the two bytes
   the flush appends, whatever lengths the keys have and whether or not the
   flush before a push could write.  So pos and pt never wrap around. *)
PickleInBounds == pickle =>
  /\ pos + (IF bpc = "write" THEN 0 ELSE TrailSize) <= PICKLE_BUFFER_SIZE
  /\ pt = 1 + 3 * Buffered /\ pos >= LeadSize + 26 * Buffered
  /\ pt = 1 => pos = LeadSize

(* Between ticks, and while there is no connection, the buffer is empty: a
   sample is never sent with a later tick, nor twice, after a failed write. *)
NoStaleSamples ==
  pickle /\ (bpc = "sleep" \/ ~connected) => pos = LeadSize /\ pt = 1

(* Every sample handed to the backend was written, is in the buffer or in the hands of
   its callback, or was dropped: none is sent twice and none disappears silently. *)
SamplesAccounted == offered = delivered + Buffered + InHand + lost

(* A new message is never appended to a torn one: when write_in_full gives up between
   two write()s, the connection that took the first part is not used again, so that
   carbon only ever parses whole lines and whole pickles. *)
StreamFramed == connected /\ bpc # "write" => ~torn

(* plaintext_each and pickle1_flush drop samples only together with the
   connection, so that the next tick opens a new one. *)
LossBreaksConnection == [][lost' # lost => ~connected']_vars
=============================================================================
