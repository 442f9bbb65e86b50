---------------------------- MODULE CarbonProofs ----------------------------
(***************************************************************************)
(* The pickle buffer and the stream are safe for every buffer size, every  *)
(* set of key lengths, and any number of samples, partial writes and       *)
(* failures.                                                               *)
(***************************************************************************)
EXTENDS PlainText, DataLemmas, TLAPS

(* A message is only written to an open connection. *)
WriteConnected == bpc = "write" => connected

CInv ==
  /\ TypeOK /\ PickleInBounds /\ NoStaleSamples /\ SamplesAccounted
  /\ WriteConnected /\ StreamFramed

LEMMA CInvInit == Init => CInv
<1> SUFFICES ASSUME Init PROVE CInv
  OBVIOUS
<1>1. /\ connected \in BOOLEAN /\ pickle \in BOOLEAN /\ torn \in BOOLEAN /\ ~torn
      /\ value \in Value /\ bpc = "sleep"
  BY DEF Init
<1>2. /\ sent = 0 /\ offered = 0 /\ delivered = 0 /\ lost = 0
      /\ size = 0 /\ left = 0 /\ then = "walk" /\ key_len = 0
      /\ (pickle => pos = 8 /\ pt = 1) /\ (~pickle => pos = 0 /\ pt = 0)
  BY DEF Init, LeadSize
<1>3. Buffered = 0 /\ InHand = 0
  BY <1>1, <1>2 DEF Buffered, InHand
<1>4. TypeOK
  BY <1>1, <1>2 DEF TypeOK
<1>5. PickleInBounds /\ NoStaleSamples /\ SamplesAccounted
  BY <1>1, <1>2, <1>3, BufferAssumption
  DEF PickleInBounds, NoStaleSamples, SamplesAccounted, LeadSize, TrailSize
<1> QED
  BY <1>1, <1>4, <1>5 DEF CInv, WriteConnected, StreamFramed

(* A push that leaves room for the trail does not wrap around. *)
LEMMA PushFits ==
  ASSUME NEW p \in Nat, NEW k \in Nat, p + 28 + k <= PICKLE_BUFFER_SIZE
  PROVE PushedPos(p, k) = p + 26 + k
BY BufferAssumption DEF PushedPos, U16

LEMMA MemoFits ==
  ASSUME NEW n \in Nat, n < 65533 PROVE PushedPt(n) = n + 3
BY DEF PushedPt, U16

LEMMA TrailFits ==
  ASSUME NEW p \in Nat, p + 2 <= PICKLE_BUFFER_SIZE PROVE U16(p + TrailSize) = p + 2
BY BufferAssumption DEF U16, TrailSize

(* What CInv says of the numbers, for the steps that need arithmetic. *)
LEMMA Numbers ==
  ASSUME CInv
  PROVE /\ pos \in Nat /\ pt \in Nat /\ pos < 65536 /\ pt < 65536
        /\ size \in Nat /\ left \in Nat /\ left <= size /\ key_len \in 0 .. 255
        /\ sent \in Nat /\ offered \in Nat /\ delivered \in Nat /\ lost \in Nat
        /\ offered = delivered + Buffered + InHand + lost
        /\ InHand \in 0 .. 1 /\ (bpc # "write" => InHand = 0)
        /\ (bpc = "write" /\ then # "push" /\ pickle => InHand = 0)
        /\ (bpc = "write" /\ (then = "push" \/ ~pickle) => InHand = 1)
BY DEF CInv, TypeOK, SamplesAccounted, InHand

LEMMA PickleNumbers ==
  ASSUME CInv, pickle
  PROVE /\ Buffered \in Nat /\ 1 <= pt
        /\ pos <= PICKLE_BUFFER_SIZE /\ (bpc # "write" => pos + 2 <= PICKLE_BUFFER_SIZE)
        /\ pt = 1 + 3 * Buffered /\ pos >= 8 + 26 * Buffered /\ (pt = 1 => pos = 8)
<1>1. pos \in Nat /\ pt \in Nat /\ 1 <= pt
  BY DEF CInv, TypeOK
<1>2. Buffered \in Nat
  BY <1>1 DEF Buffered
<1>3. /\ pos + (IF bpc = "write" THEN 0 ELSE 2) <= PICKLE_BUFFER_SIZE
      /\ pt = 1 + 3 * Buffered /\ pos >= 8 + 26 * Buffered /\ (pt = 1 => pos = 8)
  BY DEF CInv, PickleInBounds, TrailSize, LeadSize
<1>4. pos <= PICKLE_BUFFER_SIZE /\ (bpc # "write" => pos + 2 <= PICKLE_BUFFER_SIZE)
  BY <1>1, <1>3, BufferAssumption
<1> QED
  BY <1>1, <1>2, <1>3, <1>4

LEMMA Flags ==
  ASSUME CInv
  PROVE /\ pickle \in BOOLEAN /\ value \in Value /\ connected \in BOOLEAN /\ torn \in BOOLEAN
        /\ bpc \in {"sleep", "walk", "write"} /\ then \in {"push", "walk", "sleep"}
        /\ (bpc = "write" => connected) /\ (connected /\ bpc # "write" => ~torn)
        /\ (pickle /\ (bpc = "sleep" \/ ~connected) => pos = LeadSize /\ pt = 1)
BY DEF CInv, TypeOK, WriteConnected, StreamFramed, NoStaleSamples

(* The buffer of a pickle backend after a step that leaves s samples in it. *)
LEMMA Buffer ==
  ASSUME pos' \in Nat, pos' < 65536, pt' \in Nat, NEW s \in Nat,
         pos' + (IF bpc' = "write" THEN 0 ELSE 2) <= PICKLE_BUFFER_SIZE,
         pt' = 1 + 3 * s, pos' >= 8 + 26 * s, pt' = 1 => pos' = 8, pickle'
  PROVE PickleInBounds' /\ Buffered' = s
<1>1. Buffered' = s
  BY DEF Buffered
<1> QED
  BY <1>1 DEF PickleInBounds, TrailSize, LeadSize

LEMMA EmptyBuffer ==
  ASSUME pos' = LeadSize, pt' = 1, pickle'
  PROVE /\ PickleInBounds' /\ Buffered' = 0 /\ NoStaleSamples'
        /\ pos' \in Nat /\ pos' < 65536 /\ pt' \in Nat /\ pt' < 65536 /\ 1 <= pt'
<1>1. Buffered' = 0
  BY DEF Buffered
<1> QED
  BY <1>1, BufferAssumption DEF PickleInBounds, NoStaleSamples, TrailSize, LeadSize

(* The buffer of a plain text backend is not used. *)
LEMMA NoBuffer ==
  ASSUME CInv, ~pickle, UNCHANGED <<settings, buffer>>
  PROVE /\ PickleInBounds' /\ NoStaleSamples' /\ Buffered' = 0 /\ Buffered = 0
        /\ pos' \in Nat /\ pos' < 65536 /\ pt' \in Nat /\ pt' < 65536 /\ ~pickle'
<1>1. pos' = pos /\ pt' = pt /\ ~pickle'
  BY DEF settings, buffer
<1> QED
  BY <1>1, Numbers DEF PickleInBounds, NoStaleSamples, Buffered

(* CInv from its parts. *)
LEMMA Assemble ==
  ASSUME CInv, UNCHANGED settings, bpc' \in {"sleep", "walk", "write"},
         connected' \in BOOLEAN, torn' \in BOOLEAN, then' \in {"push", "walk", "sleep"},
         pos' \in Nat, pos' < 65536, pt' \in Nat, pt' < 65536, pickle => 1 <= pt',
         size' \in Nat, left' \in Nat, left' <= size', key_len' \in 0 .. 255,
         sent' \in Nat, offered' \in Nat, delivered' \in Nat, lost' \in Nat,
         PickleInBounds', NoStaleSamples', WriteConnected', StreamFramed',
         offered' = delivered' + Buffered' + InHand' + lost'
  PROVE CInv'
<1>1. pickle' = pickle /\ value' = value /\ pickle \in BOOLEAN /\ value \in Value
  BY Flags DEF settings
<1>2. TypeOK'
  BY <1>1 DEF TypeOK
<1> QED
  BY <1>2 DEF CInv, SamplesAccounted
-----------------------------------------------------------------------------
LEMMA PickleEachStep == ASSUME CInv, NEW len \in KeyLength, PickleEach(len) PROVE CInv'
<1> DEFINE k == U8(len)
<1>1. k \in 0 .. 255
  BY CarbonAssumption DEF U8
<1>2. /\ pickle /\ UNCHANGED settings /\ bpc = "walk" /\ offered' = offered + 1
      /\ sent' = sent /\ torn' = torn /\ delivered' = delivered
  BY DEF PickleEach
<1>3. pickle' = pickle
  BY <1>2 DEF settings
<1>4. \/ /\ connected /\ ~(MustFlush(pos, k) /\ pt # 1)
         /\ pos' = PushedPos(pos, k) /\ pt' = PushedPt(pt)
         /\ UNCHANGED <<bpc, connected, writing, lost>>
      \/ connected /\ BeginFlush("push", k)
      \/ ~connected /\ lost' = lost + 1 /\ UNCHANGED <<bpc, connected, buffer, writing>>
  BY DEF PickleEach
<1> HIDE DEF k
<1>5. /\ pos \in Nat /\ pos + 2 <= PICKLE_BUFFER_SIZE /\ Buffered \in Nat /\ InHand = 0
      /\ pt = 1 + 3 * Buffered /\ pos >= 8 + 26 * Buffered /\ (pt = 1 => pos = 8)
  BY <1>2, Numbers, PickleNumbers
<1>6. CASE /\ connected /\ ~(MustFlush(pos, k) /\ pt # 1)
           /\ pos' = PushedPos(pos, k) /\ pt' = PushedPt(pt)
           /\ UNCHANGED <<bpc, connected, writing, lost>>
  <2>0. UNCHANGED <<size, left, then, key_len>> /\ bpc' = "walk" /\ connected'
    BY <1>2, <1>6 DEF writing
  <2>1. pos + 28 + k <= PICKLE_BUFFER_SIZE
    <3>1. pos + 32 + k < PICKLE_BUFFER_SIZE \/ pos = 8
      BY <1>1, <1>5, <1>6, BufferAssumption DEF MustFlush, PICKLE1_SIZE
    <3> QED
      BY <1>1, <1>5, <3>1, BufferAssumption
  <2>2. pos' = pos + 26 + k
    BY <1>1, <1>5, <1>6, <2>1, PushFits
  <2>3. pt < 65533
    BY <1>5, BufferAssumption
  <2>4. pt' = pt + 3
    BY <1>5, <1>6, <2>3, MemoFits
  <2>5. /\ pos' \in Nat /\ pos' < 65536 /\ pos' + 2 <= PICKLE_BUFFER_SIZE
        /\ pt' \in Nat /\ pt' < 65536 /\ 1 <= pt' /\ pt' # 1
        /\ pt' = 1 + 3 * (Buffered + 1) /\ pos' >= 8 + 26 * (Buffered + 1)
    BY <1>1, <1>5, <2>1, <2>2, <2>3, <2>4, BufferAssumption
  <2>6. PickleInBounds' /\ Buffered' = Buffered + 1
    BY <1>2, <1>3, <1>5, <2>0, <2>5, Buffer
  <2>7. InHand' = 0
    BY <2>0 DEF InHand
  <2>8. /\ sent' \in Nat /\ offered' \in Nat /\ delivered' \in Nat /\ lost' \in Nat /\ lost' = lost
        /\ size' \in Nat /\ left' \in Nat /\ left' <= size' /\ key_len' \in 0 .. 255
    BY <1>2, <1>6, <2>0, Numbers
  <2>9. offered' = delivered' + Buffered' + InHand' + lost'
    BY <1>2, <1>5, <2>6, <2>7, <2>8, Numbers
  <2>10. /\ NoStaleSamples' /\ WriteConnected' /\ StreamFramed'
         /\ connected' \in BOOLEAN /\ torn' \in BOOLEAN /\ then' \in {"push", "walk", "sleep"}
    BY <1>2, <1>6, <2>0, Flags DEF NoStaleSamples, WriteConnected, StreamFramed
  <2> QED
    BY <1>2, <2>0, <2>5, <2>6, <2>8, <2>9, <2>10, Assemble
<1>7. CASE connected /\ BeginFlush("push", k)
  <2>1. /\ pos' = U16(pos + TrailSize) /\ pt' = pt /\ connected' = connected /\ lost' = lost
        /\ bpc' = "write" /\ size' = pos' /\ left' = pos' /\ then' = "push" /\ key_len' = k
    BY <1>7 DEF BeginFlush, BeginWrite
  <2>2. pos' = pos + 2
    BY <1>5, <2>1, TrailFits
  <2>3. /\ pos' \in Nat /\ pos' < 65536 /\ pos' <= PICKLE_BUFFER_SIZE /\ pt' \in Nat
        /\ pt' < 65536 /\ 1 <= pt' /\ pos' >= 8 + 26 * Buffered /\ pt' # 1
    <3>1. pt # 1
      BY <1>7, <1>2 DEF PickleEach, BeginFlush, BeginWrite
    <3> QED
      BY <1>5, <2>1, <2>2, <3>1, Numbers, BufferAssumption
  <2>4. PickleInBounds' /\ Buffered' = Buffered
    BY <1>2, <1>3, <1>5, <2>1, <2>3, Buffer
  <2>5. InHand' = 1
    BY <2>1 DEF InHand
  <2>6. /\ sent' \in Nat /\ offered' \in Nat /\ delivered' \in Nat /\ lost' \in Nat
        /\ size' \in Nat /\ left' \in Nat /\ left' <= size' /\ key_len' \in 0 .. 255
        /\ offered' = delivered' + Buffered' + InHand' + lost'
    BY <1>1, <1>2, <1>5, <2>1, <2>3, <2>4, <2>5, Numbers
  <2>7. /\ NoStaleSamples' /\ WriteConnected' /\ StreamFramed'
        /\ connected' \in BOOLEAN /\ torn' \in BOOLEAN /\ then' \in {"push", "walk", "sleep"}
    BY <1>2, <1>7, <2>1, Flags DEF NoStaleSamples, WriteConnected, StreamFramed
  <2> QED
    BY <1>2, <2>1, <2>3, <2>4, <2>6, <2>7, Assemble
<1>8. CASE ~connected /\ lost' = lost + 1 /\ UNCHANGED <<bpc, connected, buffer, writing>>
  <2>1. UNCHANGED <<bpc, connected, pos, pt, size, left, then, key_len>>
    BY <1>8 DEF buffer, writing
  <2>2. pos' = LeadSize /\ pt' = 1 /\ pickle'
    BY <1>2, <1>3, <1>8, <2>1, Flags
  <2>3. Buffered = 0 /\ InHand' = 0
    BY <1>2, <2>1, <2>2 DEF Buffered, InHand
  <2>4. /\ sent' \in Nat /\ offered' \in Nat /\ delivered' \in Nat /\ lost' \in Nat
        /\ size' \in Nat /\ left' \in Nat /\ left' <= size' /\ key_len' \in 0 .. 255
        /\ offered' = delivered' + Buffered' + InHand' + lost'
    BY <1>2, <1>5, <1>8, <2>1, <2>2, <2>3, Numbers, EmptyBuffer
  <2>5. /\ WriteConnected' /\ StreamFramed' /\ bpc' \in {"sleep", "walk", "write"}
        /\ connected' \in BOOLEAN /\ torn' \in BOOLEAN /\ then' \in {"push", "walk", "sleep"}
    BY <1>2, <1>8, <2>1, Flags DEF WriteConnected, StreamFramed
  <2> QED
    BY <1>2, <2>2, <2>4, <2>5, EmptyBuffer, Assemble
<1> QED
  BY <1>4, <1>6, <1>7, <1>8

LEMMA PlaintextEachStep == ASSUME CInv, NEW len \in KeyLength, PlaintextEach(len) PROVE CInv'
<1>1. /\ ~pickle /\ UNCHANGED settings /\ bpc = "walk" /\ offered' = offered + 1
      /\ UNCHANGED <<connected, buffer, sent, torn, delivered>>
  BY DEF PlaintextEach
<1>2. len \in Nat /\ value \in Value /\ LineRest[value] \in Nat
  BY CarbonAssumption, Flags
<1>3. /\ InHand = 0 /\ PickleInBounds' /\ NoStaleSamples' /\ Buffered' = 0 /\ Buffered = 0
      /\ pos' \in Nat /\ pos' < 65536 /\ pt' \in Nat /\ pt' < 65536 /\ ~pickle'
  BY <1>1, Numbers, NoBuffer
<1>4. \/ /\ connected /\ lost' = lost /\ bpc' = "write" /\ then' = "walk" /\ key_len' = 0
         /\ size' = len + LineRest[value] /\ left' = size'
      \/ /\ ~connected /\ lost' = lost + 1 /\ bpc' = bpc
         /\ UNCHANGED <<size, left, then, key_len>>
  BY DEF PlaintextEach, BeginWrite, writing
<1>5. \/ InHand' = 1 /\ lost' = lost
      \/ InHand' = 0 /\ lost' = lost + 1
  BY <1>1, <1>3, <1>4 DEF InHand
<1>6. /\ sent' \in Nat /\ offered' \in Nat /\ delivered' \in Nat /\ lost' \in Nat
      /\ offered' = delivered' + Buffered' + InHand' + lost'
  BY <1>1, <1>3, <1>5, Numbers
<1>7. size' \in Nat /\ left' \in Nat /\ left' <= size' /\ key_len' \in 0 .. 255
  BY <1>2, <1>4, Numbers
<1>8. /\ WriteConnected' /\ StreamFramed' /\ bpc' \in {"sleep", "walk", "write"}
      /\ connected' \in BOOLEAN /\ torn' \in BOOLEAN /\ then' \in {"push", "walk", "sleep"}
  BY <1>1, <1>4, Flags DEF WriteConnected, StreamFramed
<1> QED
  BY <1>1, <1>3, <1>6, <1>7, <1>8, Assemble

LEMMA TickEndStep == ASSUME CInv, TickEnd PROVE CInv'
<1>1. /\ UNCHANGED settings /\ bpc = "walk"
      /\ UNCHANGED <<sent, torn, offered, delivered>> /\ pickle' = pickle
  BY DEF TickEnd, settings
<1>2. InHand = 0
  BY <1>1, Numbers
<1>3. CASE /\ ~pickle \/ pt = 1 \/ ~connected
           /\ bpc' = "sleep" /\ UNCHANGED <<connected, buffer, writing, lost>>
  <2>1. UNCHANGED <<pos, pt, size, left, then, key_len>>
    BY <1>3 DEF buffer, writing
  <2>2. /\ InHand' = 0 /\ WriteConnected' /\ StreamFramed'
        /\ connected' \in BOOLEAN /\ torn' \in BOOLEAN /\ then' \in {"push", "walk", "sleep"}
    BY <1>1, <1>3, <2>1, Flags DEF InHand, WriteConnected, StreamFramed
  <2>3. CASE ~pickle
    <3>1. /\ PickleInBounds' /\ NoStaleSamples' /\ Buffered' = 0 /\ Buffered = 0
          /\ pos' \in Nat /\ pos' < 65536 /\ pt' \in Nat /\ pt' < 65536
      BY <1>1, <1>3, <2>3, NoBuffer
    <3> QED
      BY <1>1, <1>2, <1>3, <2>1, <2>2, <2>3, <3>1, Numbers, Assemble
  <2>4. CASE pickle
    <3>1. pos' = LeadSize /\ pt' = 1 /\ pickle'
      BY <1>1, <1>3, <2>1, <2>4, Flags, PickleNumbers DEF LeadSize
    <3>2. Buffered = 0
      BY <2>1, <3>1 DEF Buffered
    <3>3. /\ PickleInBounds' /\ Buffered' = 0 /\ NoStaleSamples'
          /\ pos' \in Nat /\ pos' < 65536 /\ pt' \in Nat /\ pt' < 65536 /\ 1 <= pt'
      BY <3>1, EmptyBuffer
    <3> QED
      BY <1>1, <1>2, <1>3, <2>1, <2>2, <3>2, <3>3, Numbers, Assemble
  <2> QED
    BY <2>3, <2>4
<1>4. CASE pickle /\ pt # 1 /\ connected /\ BeginFlush("sleep", 0)
  <2>1. /\ pos' = U16(pos + TrailSize) /\ pt' = pt /\ connected' = connected /\ lost' = lost
        /\ bpc' = "write" /\ size' = pos' /\ left' = pos' /\ then' = "sleep" /\ key_len' = 0
    BY <1>4 DEF BeginFlush, BeginWrite
  <2>2. /\ pos \in Nat /\ pos + 2 <= PICKLE_BUFFER_SIZE /\ Buffered \in Nat
        /\ pt = 1 + 3 * Buffered /\ pos >= 8 + 26 * Buffered
    BY <1>1, <1>4, Numbers, PickleNumbers
  <2>3. pos' = pos + 2
    BY <2>1, <2>2, TrailFits
  <2>4. /\ pos' \in Nat /\ pos' < 65536 /\ pos' <= PICKLE_BUFFER_SIZE /\ pt' \in Nat
        /\ pt' < 65536 /\ 1 <= pt' /\ pos' >= 8 + 26 * Buffered /\ pt' # 1
    BY <1>4, <2>1, <2>2, <2>3, Numbers, BufferAssumption
  <2>5. PickleInBounds' /\ Buffered' = Buffered
    BY <1>1, <1>4, <2>1, <2>2, <2>4, Buffer
  <2>6. InHand' = 0
    BY <1>1, <1>4, <2>1 DEF InHand
  <2>7. /\ sent' \in Nat /\ offered' \in Nat /\ delivered' \in Nat /\ lost' \in Nat
        /\ size' \in Nat /\ left' \in Nat /\ left' <= size' /\ key_len' \in 0 .. 255
        /\ offered' = delivered' + Buffered' + InHand' + lost'
    BY <1>1, <1>2, <2>1, <2>4, <2>5, <2>6, Numbers
  <2>8. /\ NoStaleSamples' /\ WriteConnected' /\ StreamFramed'
        /\ connected' \in BOOLEAN /\ torn' \in BOOLEAN /\ then' \in {"push", "walk", "sleep"}
    BY <1>1, <1>4, <2>1, Flags DEF NoStaleSamples, WriteConnected, StreamFramed
  <2> QED
    BY <1>1, <2>1, <2>4, <2>5, <2>7, <2>8, Assemble
<1> QED
  BY <1>3, <1>4 DEF TickEnd

(* The two ways write_in_full returns. *)
LEMMA WriteAllStep == ASSUME CInv, WriteAll PROVE CInv'
<1>1. /\ bpc = "write" /\ UNCHANGED <<settings, offered>> /\ UNCHANGED <<connected, lost>>
      /\ bpc' \in {"sleep", "walk"} /\ (then = "push" => bpc' = "walk")
      /\ size' = 0 /\ left' = 0 /\ then' = "walk" /\ key_len' = 0
      /\ sent' = sent + size /\ torn' = FALSE /\ pickle' = pickle
  BY DEF WriteAll, Return, settings
<1>2. /\ connected /\ InHand' = 0 /\ WriteConnected' /\ StreamFramed'
      /\ connected' \in BOOLEAN /\ torn' \in BOOLEAN
  BY <1>1, Flags DEF InHand, WriteConnected, StreamFramed
<1>3. CASE ~pickle
  <2>1. UNCHANGED buffer /\ delivered' = delivered + 1 /\ InHand = 1
    BY <1>1, <1>3, Numbers DEF WriteAll
  <2>2. /\ PickleInBounds' /\ NoStaleSamples' /\ Buffered' = 0 /\ Buffered = 0
        /\ pos' \in Nat /\ pos' < 65536 /\ pt' \in Nat /\ pt' < 65536
    BY <1>1, <1>3, <2>1, NoBuffer
  <2>3. /\ sent' \in Nat /\ offered' \in Nat /\ delivered' \in Nat /\ lost' \in Nat
        /\ offered' = delivered' + Buffered' + InHand' + lost'
    BY <1>1, <1>2, <2>1, <2>2, Numbers
  <2> QED
    BY <1>1, <1>2, <1>3, <2>2, <2>3, Assemble
<1>4. CASE pickle /\ then # "push"
  <2>1. pos' = LeadSize /\ pt' = 1 /\ delivered' = delivered + Buffered /\ InHand = 0 /\ pickle'
    BY <1>1, <1>4, Numbers DEF WriteAll, AfterWrite
  <2>2. /\ PickleInBounds' /\ Buffered' = 0 /\ NoStaleSamples'
        /\ pos' \in Nat /\ pos' < 65536 /\ pt' \in Nat /\ pt' < 65536 /\ 1 <= pt'
    BY <2>1, EmptyBuffer
  <2>3. /\ sent' \in Nat /\ offered' \in Nat /\ delivered' \in Nat /\ lost' \in Nat
        /\ offered' = delivered' + Buffered' + InHand' + lost'
    BY <1>1, <1>2, <1>4, <2>1, <2>2, Numbers, PickleNumbers
  <2> QED
    BY <1>1, <1>2, <2>2, <2>3, Assemble
<1>5. CASE pickle /\ then = "push"
  <2>1. /\ pos' = PushedPos(LeadSize, key_len) /\ pt' = PushedPt(1)
        /\ delivered' = delivered + Buffered /\ InHand = 1 /\ pickle'
    BY <1>1, <1>5, Numbers DEF WriteAll, AfterWrite
  <2>2. key_len \in Nat /\ key_len <= 255 /\ LeadSize \in Nat
        /\ LeadSize + 28 + key_len <= PICKLE_BUFFER_SIZE
    BY Numbers, BufferAssumption DEF LeadSize
  <2>3. pos' = 34 + key_len /\ pt' = 4
    BY <2>1, <2>2, PushFits, MemoFits DEF LeadSize
  <2>4. /\ pos' \in Nat /\ pos' < 65536 /\ pos' + 2 <= PICKLE_BUFFER_SIZE
        /\ pt' \in Nat /\ pt' < 65536 /\ 1 <= pt' /\ pt' # 1
        /\ pt' = 1 + 3 * 1 /\ pos' >= 8 + 26 * 1
    BY <2>2, <2>3, BufferAssumption
  <2>5. PickleInBounds' /\ Buffered' = 1
    BY <1>1, <2>1, <2>4, Buffer
  <2>6. NoStaleSamples'
    BY <1>1, <1>2, <1>5 DEF NoStaleSamples
  <2>7. /\ sent' \in Nat /\ offered' \in Nat /\ delivered' \in Nat /\ lost' \in Nat
        /\ offered' = delivered' + Buffered' + InHand' + lost'
    BY <1>1, <1>2, <1>5, <2>1, <2>5, Numbers, PickleNumbers
  <2> QED
    BY <1>1, <1>2, <2>4, <2>5, <2>6, <2>7, Assemble
<1> QED
  BY <1>3, <1>4, <1>5, Flags

LEMMA WriteFailsStep == ASSUME CInv, WriteFails PROVE CInv'
<1>1. /\ bpc = "write" /\ UNCHANGED <<settings, offered>> /\ UNCHANGED <<sent, torn, delivered>>
      /\ bpc' \in {"sleep", "walk"} /\ connected' = FALSE
      /\ size' = 0 /\ left' = 0 /\ then' = "walk" /\ key_len' = 0
      /\ lost' = lost + Buffered + InHand /\ pickle' = pickle
  BY DEF WriteFails, Return, settings, CarbonDisconnect
<1>2. /\ InHand' = 0 /\ WriteConnected' /\ StreamFramed' /\ connected' \in BOOLEAN /\ torn' \in BOOLEAN
  BY <1>1, Flags DEF InHand, WriteConnected, StreamFramed
<1>3. CASE ~pickle
  <2>1. /\ PickleInBounds' /\ NoStaleSamples' /\ Buffered' = 0 /\ Buffered = 0
        /\ pos' \in Nat /\ pos' < 65536 /\ pt' \in Nat /\ pt' < 65536
    BY <1>1, <1>3, NoBuffer DEF WriteFails
  <2>2. /\ sent' \in Nat /\ offered' \in Nat /\ delivered' \in Nat /\ lost' \in Nat
        /\ offered' = delivered' + Buffered' + InHand' + lost'
    BY <1>1, <1>2, <2>1, Numbers
  <2> QED
    BY <1>1, <1>2, <1>3, <2>1, <2>2, Assemble
<1>4. CASE pickle
  <2>1. pos' = LeadSize /\ pt' = 1 /\ pickle'
    BY <1>1, <1>4 DEF WriteFails, AfterError
  <2>2. /\ PickleInBounds' /\ Buffered' = 0 /\ NoStaleSamples'
        /\ pos' \in Nat /\ pos' < 65536 /\ pt' \in Nat /\ pt' < 65536 /\ 1 <= pt'
    BY <2>1, EmptyBuffer
  <2>3. /\ sent' \in Nat /\ offered' \in Nat /\ delivered' \in Nat /\ lost' \in Nat
        /\ offered' = delivered' + Buffered' + InHand' + lost'
    BY <1>1, <1>2, <1>4, <2>1, <2>2, Numbers, PickleNumbers
  <2> QED
    BY <1>1, <1>2, <2>2, <2>3, Assemble
<1> QED
  BY <1>3, <1>4, Flags
-----------------------------------------------------------------------------
LEMMA CInvStep == CInv /\ [Next]_vars => CInv'
<1> SUFFICES ASSUME CInv, [Next]_vars PROVE CInv'
  OBVIOUS
<1>1. CASE CarbonConnect
  <2>1. /\ UNCHANGED <<settings, pickle, pos, pt, sent, size, left, then, key_len,
                       offered, delivered, lost>>
        /\ bpc = "sleep" /\ bpc' \in {"sleep", "walk"}
        /\ connected' \in BOOLEAN /\ torn' \in BOOLEAN /\ (connected' => ~torn')
        /\ (bpc' = "sleep" \/ ~connected' => ~connected)
    <3>1. /\ UNCHANGED <<settings, pickle, pos, pt, sent, size, left, then, key_len,
                         offered, delivered, lost>>
          /\ bpc = "sleep"
      BY <1>1 DEF CarbonConnect, settings, buffer, writing
    <3>2. CASE bpc' = "walk" /\ connected' = TRUE /\ torn' = (connected /\ torn)
      BY <3>1, <3>2, Flags
    <3>3. CASE ~connected /\ UNCHANGED <<bpc, connected, torn>>
      BY <3>1, <3>3, Flags
    <3> QED
      BY <1>1, <3>2, <3>3 DEF CarbonConnect
  <2>2. PickleInBounds' /\ Buffered' = Buffered /\ InHand' = 0 /\ InHand = 0
    BY <2>1, Numbers DEF CInv, PickleInBounds, Buffered, InHand
  <2>3. NoStaleSamples' /\ WriteConnected' /\ StreamFramed' /\ then' \in {"push", "walk", "sleep"}
    BY <2>1, Flags DEF NoStaleSamples, WriteConnected, StreamFramed
  <2>4. pickle => 1 <= pt'
    BY <2>1, PickleNumbers
  <2> QED
    BY <2>1, <2>2, <2>3, <2>4, Numbers, Assemble
<1>2. ASSUME NEW n \in Chunk, WritePart(n) PROVE CInv'
  <2>1. /\ UNCHANGED <<settings, pickle, pos, pt, bpc, connected, sent, size, then, key_len,
                       offered, delivered, lost>>
        /\ bpc = "write" /\ n < left /\ left' = left - n /\ torn' = TRUE
    BY <1>2 DEF WritePart, settings, buffer
  <2>2. n \in Nat /\ left' \in Nat /\ left' <= size'
    BY <2>1, Numbers, CarbonAssumption
  <2>3. PickleInBounds' /\ Buffered' = Buffered /\ InHand' = InHand
    BY <2>1 DEF CInv, PickleInBounds, Buffered, InHand
  <2>4. /\ NoStaleSamples' /\ WriteConnected' /\ StreamFramed' /\ bpc' \in {"sleep", "walk", "write"}
        /\ connected' \in BOOLEAN /\ torn' \in BOOLEAN /\ then' \in {"push", "walk", "sleep"}
    BY <2>1, Flags DEF NoStaleSamples, WriteConnected, StreamFramed
  <2>5. pickle => 1 <= pt'
    BY <2>1, PickleNumbers
  <2> QED
    BY <2>1, <2>2, <2>3, <2>4, <2>5, Numbers, Assemble
<1>3. CASE UNCHANGED vars
  BY <1>3 DEF vars, settings, buffer, writing, CInv, TypeOK, PickleInBounds, NoStaleSamples,
     SamplesAccounted, Buffered, InHand, WriteConnected, StreamFramed
<1> QED
  BY <1>1, <1>2, <1>3, PickleEachStep, PlaintextEachStep, TickEndStep, WriteAllStep,
     WriteFailsStep DEF Next

LEMMA Inductive == Spec => []CInv
BY CInvInit, CInvStep, PTL DEF Spec

(* For every buffer size, every key length and every sequence of failed, partial and
   complete writes, the variables keep their types: the 16-bit position and memo counter
   of the pickler never wrap around to an invalid value. *)
THEOREM TypeCorrect == Spec => []TypeOK
<1>1. CInv => TypeOK
  BY DEF CInv
<1> QED
  BY <1>1, Inductive, PTL

(* The pickler never writes outside its buffer. *)
THEOREM PicklerInBounds == Spec => []PickleInBounds
<1>1. CInv => PickleInBounds
  BY DEF CInv
<1> QED
  BY <1>1, Inductive, PTL

(* It keeps no sample for a later tick or a later connection. *)
THEOREM NothingStale == Spec => []NoStaleSamples
<1>1. CInv => NoStaleSamples
  BY DEF CInv
<1> QED
  BY <1>1, Inductive, PTL

(* No sample is sent twice and none disappears without being counted as lost. *)
THEOREM AllAccounted == Spec => []SamplesAccounted
<1>1. CInv => SamplesAccounted
  BY DEF CInv
<1> QED
  BY <1>1, Inductive, PTL

(* Whatever write() takes and wherever it fails, a message is never appended to the
   torn rest of another. *)
THEOREM FramesIntact == Spec => []StreamFramed
<1>1. CInv => StreamFramed
  BY DEF CInv
<1> QED
  BY <1>1, Inductive, PTL

(* Samples are dropped only when there is no connection, or together with it. *)
THEOREM LossDisconnects == Spec => LossBreaksConnection
<1>1. [Next]_vars => [lost' # lost => ~connected']_vars
  <2>1. ASSUME Next PROVE lost' # lost => ~connected'
    BY <2>1 DEF Next, CarbonConnect, PickleEach, PlaintextEach, BeginFlush, WritePart, WriteAll,
       WriteFails, CarbonDisconnect, TickEnd
  <2> QED
    BY <2>1
<1> QED
  BY <1>1, PTL DEF Spec, LossBreaksConnection
-----------------------------------------------------------------------------
(* What the digits of n are, by the loop of brubeck_itoa. *)
LowStep(f, n) == <<n % 10>> \o (IF n < 10 THEN <<>> ELSE f[n \div 10])

(* A digit less is a smaller number. *)
LEMMA Tenth ==
  ASSUME NEW n \in Nat
  PROVE  /\ n % 10 \in 0 .. 9 /\ n \div 10 \in Nat /\ 10 * (n \div 10) + (n % 10) = n
         /\ n < 10 => n % 10 = n
         /\ n >= 10 => n \div 10 < n /\ n \div 10 > 0
<1>1. n \div 10 \in Nat /\ n % 10 \in Nat /\ n % 10 < 10 /\ 10 * (n \div 10) + (n % 10) = n
  BY DivMod
<1> QED BY <1>1

(* Two functions with that recursion agree where both are defined. *)
LEMMA LowAgree ==
  ASSUME NEW f, NEW g, NEW N \in Nat, \A n \in 0 .. N : f[n] = LowStep(f, n),
         \A n \in 0 .. N : g[n] = LowStep(g, n)
  PROVE  \A n \in 0 .. N : f[n] = g[n]
<1> DEFINE X == {n \in Nat : n <= N => f[n] = g[n]}
<1>1. ASSUME NEW n \in Nat, \A m \in 0 .. (n - 1) : m \in X PROVE n \in X
  <2> SUFFICES ASSUME n <= N PROVE f[n] = g[n]
    OBVIOUS
  <2>1. f[n] = LowStep(f, n) /\ g[n] = LowStep(g, n)
    OBVIOUS
  <2>2. n >= 10 => f[n \div 10] = g[n \div 10]
    <3>1. n >= 10 => n \div 10 \in 0 .. (n - 1)
      BY Tenth
    <3> QED BY <1>1, <3>1
  <2> QED BY <2>1, <2>2 DEF LowStep
<1>2. Nat \subseteq X
  <2> HIDE DEF X
  <2> QED BY <1>1, StrongInduction
<1> QED BY <1>2

(* The loop ends, so that the recursion has a solution up to every number ... *)
LEMMA LowUpTo ==
  ASSUME NEW N \in Nat
  PROVE  \E f \in [0 .. N -> Seq(0 .. 9)] : \A n \in 0 .. N : f[n] = LowStep(f, n)
<1> DEFINE Good(f, k) == \A n \in 0 .. k : f[n] = LowStep(f, n)
           X == {k \in Nat : \E f \in [0 .. k -> Seq(0 .. 9)] : Good(f, k)}
<1>1. 0 \in X
  <2> DEFINE f == [n \in 0 .. 0 |-> <<0>>]
  <2>1. f \in [0 .. 0 -> Seq(0 .. 9)] /\ f[0] = <<0>>
    OBVIOUS
  <2>2. LowStep(f, 0) = <<0>>
    BY DEF LowStep
  <2>3. Good(f, 0)
    BY <2>1, <2>2
  <2> QED BY <2>1, <2>3
<1>2. ASSUME NEW k \in Nat, k \in X PROVE k + 1 \in X
  <2>1. PICK f \in [0 .. k -> Seq(0 .. 9)] : Good(f, k)
    BY <1>2
  <2> DEFINE g == [n \in 0 .. (k + 1) |-> IF n <= k THEN f[n] ELSE LowStep(f, k + 1)]
  <2>2. LowStep(f, k + 1) \in Seq(0 .. 9)
    <3>1. (k + 1) % 10 \in 0 .. 9
      BY Tenth
    <3>2. k + 1 >= 10 => (k + 1) \div 10 \in 0 .. k
      BY Tenth
    <3>3. k + 1 >= 10 => f[(k + 1) \div 10] \in Seq(0 .. 9)
      BY <3>2, <2>1
    <3> QED BY <3>1, <3>3 DEF LowStep
  <2>3. g \in [0 .. (k + 1) -> Seq(0 .. 9)]
    BY <2>2
  <2>4. ASSUME NEW n \in 0 .. (k + 1) PROVE g[n] = LowStep(g, n)
    <3>1. n >= 10 => n \div 10 \in 0 .. k
      BY Tenth
    <3>2. n >= 10 => g[n \div 10] = f[n \div 10]
      BY <3>1
    <3>3. LowStep(g, n) = LowStep(f, n)
      BY <3>2 DEF LowStep
    <3>4. g[n] = LowStep(f, n)
      BY <2>1
    <3> QED BY <3>3, <3>4
  <2> HIDE DEF g
  <2>5. Good(g, k + 1) /\ k + 1 \in Nat
    BY <2>4
  <2> HIDE DEF Good
  <2> QED BY <2>3, <2>5
<1>3. Nat \subseteq X
  <2> HIDE DEF X
  <2> QED BY <1>1, <1>2, SetInduction
<1> QED BY <1>3

(* ... and LowDigits is one. *)
LEMMA LowRecursion ==
  ASSUME NEW n \in Nat
  PROVE  LowDigits[n] \in Seq(0 .. 9) /\ LowDigits[n] = LowStep(LowDigits, n)
<1> DEFINE Good(f, k) == f \in [0 .. k -> Seq(0 .. 9)] /\ \A m \in 0 .. k : f[m] = LowStep(f, m)
           G(k) == CHOOSE f : Good(f, k)
           L == [k \in Nat |-> G(k)[k]]
           Solves(f) == f = [k \in Nat |-> LowStep(f, k)]
<1>1. ASSUME NEW k \in Nat PROVE Good(G(k), k)
  <2>1. \E f : Good(f, k)
    BY LowUpTo
  <2> HIDE DEF Good
  <2> QED BY <2>1, Zenon
<1> HIDE DEF G
<1>2. ASSUME NEW k \in Nat PROVE L[k] = LowStep(L, k) /\ L[k] \in Seq(0 .. 9)
  <2>1. L[k] = LowStep(G(k), k) /\ L[k] \in Seq(0 .. 9)
    <3>1. L[k] = G(k)[k]
      OBVIOUS
    <3>2. Good(G(k), k)
      BY <1>1
    <3> HIDE DEF L
    <3> QED BY <3>1, <3>2
  <2>2. k >= 10 => L[k \div 10] = G(k)[k \div 10]
    <3> SUFFICES ASSUME k >= 10 PROVE L[k \div 10] = G(k)[k \div 10]
      OBVIOUS
    <3> DEFINE j == k \div 10
    <3>1. j \in Nat /\ j < k
      BY Tenth
    <3> HIDE DEF j
    <3>2. \A m \in 0 .. j : G(j)[m] = LowStep(G(j), m)
      BY <1>1, <3>1
    <3>3. \A m \in 0 .. j : G(k)[m] = LowStep(G(k), m)
      BY <1>1, <3>1
    <3>4. G(j)[j] = G(k)[j]
      BY <3>1, <3>2, <3>3, LowAgree
    <3>5. L[j] = G(k)[j]
      BY <3>1, <3>4
    <3> QED BY <3>5 DEF j
  <2> QED BY <2>1, <2>2 DEF LowStep
<1>3. Solves(L)
  BY <1>2
<1>4. LowDigits = CHOOSE f : Solves(f)
  BY DEF LowDigits, LowStep
<1> HIDE DEF L
<1>5. Solves(LowDigits)
  <2> HIDE DEF Solves
  <2> QED BY <1>3, <1>4, Zenon
<1>6. \A k \in 0 .. n : LowDigits[k] = LowStep(LowDigits, k)
  BY <1>5
<1>7. \A k \in 0 .. n : L[k] = LowStep(L, k)
  BY <1>2
<1>8. LowDigits[n] = L[n]
  BY <1>6, <1>7, LowAgree
<1> QED BY <1>2, <1>6, <1>8

(* The reversal of the digits, one digit at a time. *)
LEMMA SwappedDigits ==
  ASSUME NEW s \in Seq(0 .. 9), NEW d \in 0 .. 9
  PROVE  /\ Swapped(s) \in Seq(0 .. 9) /\ Len(Swapped(s)) = Len(s)
         /\ s # <<>> => Head(Swapped(s)) = s[Len(s)]
         /\ Swapped(<<d>> \o s) = Append(Swapped(s), d)
<1>1. Swapped(s) = [i \in 1 .. Len(s) |-> s[Len(s) - i + 1]]
  BY DEF Swapped
<1>2. Swapped(s) \in Seq(0 .. 9) /\ Len(Swapped(s)) = Len(s)
  <2>1. \A i \in 1 .. Len(s) : s[Len(s) - i + 1] \in 0 .. 9
    OBVIOUS
  <2> QED BY <1>1, <2>1
<1>3. s # <<>> => Head(Swapped(s)) = s[Len(s)]
  BY <1>1, <1>2
<1>4. Swapped(<<d>> \o s) = Append(Swapped(s), d)
  <2> DEFINE t == <<d>> \o s
  <2>1. t \in Seq(0 .. 9) /\ Len(t) = Len(s) + 1 /\ t[1] = d
        /\ \A i \in 1 .. Len(s) : t[i + 1] = s[i]
    OBVIOUS
  <2>2. Swapped(t) = [i \in 1 .. Len(t) |-> t[Len(t) - i + 1]]
    BY DEF Swapped
  <2> HIDE DEF t
  <2>3. \A i \in 1 .. Len(s) : t[Len(t) - i + 1] = s[Len(s) - i + 1]
    <3> TAKE i \in 1 .. Len(s)
    <3>1. Len(s) - i + 1 \in 1 .. Len(s)
      OBVIOUS
    <3>2. t[(Len(s) - i + 1) + 1] = s[Len(s) - i + 1]
      BY <2>1, <3>1
    <3> QED BY <2>1, <3>2
  <2> DEFINE a == Append(Swapped(s), d)
             b == Swapped(t)
  <2>4. a \in Seq(0 .. 9) /\ Len(a) = Len(s) + 1 /\ a[Len(s) + 1] = d
        /\ \A i \in 1 .. Len(s) : a[i] = Swapped(s)[i]
    BY <1>2
  <2>5. b \in Seq(0 .. 9) /\ Len(b) = Len(s) + 1
    <3>1. \A i \in 1 .. Len(t) : t[Len(t) - i + 1] \in 0 .. 9
      BY <2>1
    <3> QED BY <2>1, <2>2, <3>1
  <2>6. b[Len(s) + 1] = d /\ \A i \in 1 .. Len(s) : b[i] = s[Len(s) - i + 1]
    BY <2>1, <2>2, <2>3
  <2>7. \A i \in 1 .. (Len(s) + 1) : a[i] = b[i]
    BY <1>1, <2>4, <2>6
  <2> HIDE DEF a, b
  <2>8. a = b
    BY <2>4, <2>5, <2>7
  <2> QED BY <2>8 DEF t, a, b
<1> QED BY <1>2, <1>3, <1>4

(* brubeck_itoa prints the number, without leading zeros. *)
Prints(n) == LET ds == Swapped(LowDigits[n]) IN
  /\ ds \in Seq(0 .. 9) /\ Len(ds) >= 1 /\ Decimal(ds) = n
  /\ n > 0 => Head(ds) # 0
  /\ n < 10 => Len(ds) = 1

(* brubeck_itoa prints every number of its width. *)
LEMMA ItoaPrints == \A n \in Nat : Prints(n)
<1> DEFINE X == {n \in Nat : Prints(n)}
<1>1. ASSUME NEW n \in Nat, \A m \in 0 .. (n - 1) : m \in X PROVE n \in X
  <2> DEFINE d == n % 10
             m == n \div 10
             s == IF n < 10 THEN <<>> ELSE LowDigits[m]
  <2>1. d \in 0 .. 9 /\ m \in Nat /\ 10 * m + d = n /\ (n < 10 => d = n)
        /\ (n >= 10 => m < n /\ m > 0)
    BY Tenth
  <2>2. LowDigits[n] = <<d>> \o s
    BY LowRecursion DEF LowStep
  <2> HIDE DEF d, m
  <2>3. s \in Seq(0 .. 9)
    BY <2>1, LowRecursion
  <2>4. Swapped(LowDigits[n]) = Append(Swapped(s), d)
    <3> HIDE DEF s
    <3> QED BY <2>1, <2>2, <2>3, SwappedDigits
  <2>5. Swapped(s) \in Seq(0 .. 9) /\ Len(Swapped(s)) = Len(s)
    <3> HIDE DEF s
    <3> QED BY <2>1, <2>3, SwappedDigits
  <2>6. CASE n < 10
    <3>1. s = <<>> /\ Len(s) = 0
      BY <2>6
    <3>2. Swapped(s) = <<>>
      BY <2>5, <3>1
    <3> DEFINE ds == Append(<<>>, d)
    <3>3. Swapped(LowDigits[n]) = ds
      BY <2>4, <3>2
    <3>4. Decimal(ds) = 10 * Decimal(<<>>) + d /\ Decimal(<<>>) = 0
      <4>1. <<>> \in Seq(Int) /\ d \in Int
        BY <2>1
      <4> QED BY <4>1, DecimalNext
    <3>5. ds \in Seq(0 .. 9) /\ Len(ds) = 1 /\ Head(ds) = d
      BY <2>1
    <3> HIDE DEF ds
    <3>6. Decimal(ds) = n
      BY <2>1, <2>6, <3>4
    <3> QED BY <2>1, <2>6, <3>3, <3>5, <3>6 DEF Prints
  <2>7. CASE n >= 10
    <3>1. Prints(m) /\ s = LowDigits[m]
      BY <1>1, <2>1, <2>7
    <3> DEFINE ds == Swapped(s)
    <3>2. ds \in Seq(0 .. 9) /\ Len(ds) >= 1 /\ Decimal(ds) = m /\ Head(ds) # 0
      BY <2>1, <2>7, <3>1 DEF Prints
    <3> HIDE DEF ds
    <3>3. Decimal(Append(ds, d)) = 10 * Decimal(ds) + d
      <4>1. ds \in Seq(Int) /\ d \in Int
        BY <2>1, <3>2
      <4> QED BY <4>1, DecimalNext
    <3>4. Append(ds, d) \in Seq(0 .. 9) /\ Len(Append(ds, d)) >= 1 /\ Head(Append(ds, d)) # 0
      BY <2>1, <3>2
    <3>5. Swapped(LowDigits[n]) = Append(ds, d)
      BY <2>4 DEF ds
    <3>6. Decimal(Append(ds, d)) = n
      BY <2>1, <3>2, <3>3
    <3> DEFINE e == Append(ds, d)
    <3>7. Swapped(LowDigits[n]) = e /\ e \in Seq(0 .. 9) /\ Len(e) >= 1 /\ Decimal(e) = n /\ Head(e) # 0
      BY <3>4, <3>5, <3>6
    <3> HIDE DEF e
    <3> QED BY <2>7, <3>7 DEF Prints
  <2> QED BY <2>6, <2>7
<1>2. Nat \subseteq X
  <2> HIDE DEF X
  <2> QED BY <1>1, StrongInduction
<1> QED BY <1>2
-----------------------------------------------------------------------------
(* A power of two is a positive number. *)
LEMMA PowOfTwo ==
  ASSUME NEW n \in Nat
  PROVE  Pow(2, n) \in Nat \ {0}
<1>1. 2 \in Nat \ {0} /\ 0 \in Nat
  OBVIOUS
<1> QED BY <1>1, PowFacts

(* One turn of the loop over the fraction: nothing is lost. *)
LEMMA FracTurn ==
  ASSUME NEW sc \in Nat, 10 * Pow(2, sc) <= Pow(2, LongBits),
         NEW x \in Nat, x < Pow(2, sc)
  PROVE  /\ TimesTen(x) \div Pow(2, sc) \in 0 .. 9
         /\ NextFrac(TimesTen(x), sc) \in Nat /\ NextFrac(TimesTen(x), sc) < Pow(2, sc)
         /\ 10 * x = Pow(2, sc) * (TimesTen(x) \div Pow(2, sc)) + NextFrac(TimesTen(x), sc)
<1> DEFINE P == Pow(2, sc)
           W == Pow(2, LongBits)
           T == 10 * x
           q == T \div P
           r == T % P
<1>1. P \in Nat \ {0} /\ W \in Nat \ {0}
  BY PowFacts, WidthAssumption
<1>2. 10 * P <= W /\ x < P
  OBVIOUS
<1>3. T \in Nat /\ T = 10 * x
  OBVIOUS
<1>4. TimesTen(x) = T % W /\ NextFrac(T, sc) = r
  BY DEF TimesTen, NextFrac
<1> HIDE DEF P, W, T
<1>5. T < W /\ T < 10 * P
  BY <1>1, <1>2, <1>3
<1>6. T % W = T
  BY <1>1, <1>3, <1>5
<1>7. q \in Nat /\ r \in Nat /\ r < P /\ P * q + r = T
  BY <1>1, <1>3, DivMod
<1> HIDE DEF q, r
<1>8. q <= 9
  <2> SUFFICES ASSUME q >= 10 PROVE FALSE
    BY <1>7
  <2>1. PICK k \in Nat : q = 10 + k
    <3>1. q - 10 \in Nat /\ q = 10 + (q - 10)
      BY <1>7
    <3> QED BY <3>1
  <2>2. P * q = 10 * P + P * k /\ P * k \in Nat
    BY <1>1, <2>1
  <2> QED BY <1>1, <1>3, <1>5, <1>7, <2>2
<1>9. TimesTen(x) = T
  BY <1>4, <1>6
<1>10. q \in 0 .. 9 /\ 10 * x = P * q + r
  BY <1>3, <1>7, <1>8
<1> QED BY <1>4, <1>7, <1>9, <1>10 DEF P, q, r

(* What is left of the fraction after each turn. *)
Remains(rest, frac, sc) ==
  rest = [m \in 0 .. FLOAT_PRECISION |->
            IF m = 0 THEN frac ELSE NextFrac(TimesTen(rest[m - 1]), sc)]

(* The digits of the fraction, and what they leave. *)
Expands(ds, frac, P) ==
  /\ ds \in Seq(0 .. 9) /\ Len(ds) = 4
  /\ \E r \in Nat : /\ r < P
                    /\ 10000 * frac = P * (1000 * ds[1] + 100 * ds[2] + 10 * ds[3] + ds[4]) + r

(* The turns of the loop expand a fraction in decimal. *)
LEMMA FracExpands ==
  ASSUME NEW sc \in Nat, 10 * Pow(2, sc) <= Pow(2, LongBits),
         NEW frac \in Nat, frac < Pow(2, sc)
  PROVE  Expands(FracDigits(frac, sc), frac, Pow(2, sc))
<1> DEFINE P == Pow(2, sc)
           N(x) == NextFrac(TimesTen(x), sc)
           D(x) == TimesTen(x) \div P
           rest == CHOOSE rest : Remains(rest, frac, sc)
           x1 == N(frac)
           x2 == N(x1)
           x3 == N(x2)
           x4 == N(x3)
           q == [m \in 0 .. 4 |-> IF m = 0 THEN frac ELSE IF m = 1 THEN x1 ELSE
                                  IF m = 2 THEN x2 ELSE IF m = 3 THEN x3 ELSE x4]
           ds == [m \in 1 .. 4 |-> D(rest[m - 1])]
<1>0. P \in Nat \ {0}
  BY PowFacts
<1>1. ASSUME NEW x \in Nat, x < P
      PROVE  D(x) \in 0 .. 9 /\ N(x) \in Nat /\ N(x) < P /\ 10 * x = P * D(x) + N(x)
  BY <1>1, FracTurn
<1>2. Remains(q, frac, sc)
  BY DEF Remains, FLOAT_PRECISION
<1>3. Remains(rest, frac, sc)
  BY <1>2, Zenon
<1>4. FracDigits(frac, sc) = ds
  BY DEF FracDigits, Remains, FLOAT_PRECISION
<1> HIDE DEF N, D, rest, P
<1>5. rest[0] = frac /\ rest[1] = N(rest[0]) /\ rest[2] = N(rest[1]) /\ rest[3] = N(rest[2])
  BY <1>3 DEF Remains, FLOAT_PRECISION, N
<1>6. ds[1] = D(frac) /\ ds[2] = D(x1) /\ ds[3] = D(x2) /\ ds[4] = D(x3)
  BY <1>5
<1>7. D(frac) \in 0 .. 9 /\ x1 \in Nat /\ x1 < P /\ 10 * frac = P * D(frac) + x1
  BY <1>1 DEF P
<1> HIDE DEF x1
<1>8. D(x1) \in 0 .. 9 /\ x2 \in Nat /\ x2 < P /\ 10 * x1 = P * D(x1) + x2
  BY <1>1, <1>7
<1> HIDE DEF x2
<1>9. D(x2) \in 0 .. 9 /\ x3 \in Nat /\ x3 < P /\ 10 * x2 = P * D(x2) + x3
  BY <1>1, <1>8
<1> HIDE DEF x3
<1>10. D(x3) \in 0 .. 9 /\ x4 \in Nat /\ x4 < P /\ 10 * x3 = P * D(x3) + x4
  BY <1>1, <1>9
<1> HIDE DEF x4
<1>11. ds \in Seq(0 .. 9) /\ Len(ds) = 4
  <2>1. \A m \in 1 .. 4 : ds[m] \in 0 .. 9
    BY <1>6, <1>7, <1>8, <1>9, <1>10
  <2>2. ds = [m \in 1 .. 4 |-> ds[m]]
    OBVIOUS
  <2> HIDE DEF ds
  <2> QED BY <2>1, <2>2
<1> HIDE DEF ds
<1>12. 10000 * frac = P * (1000 * ds[1] + 100 * ds[2] + 10 * ds[3] + ds[4]) + x4
  <2> DEFINE a == P * D(frac)
             b == P * D(x1)
             c == P * D(x2)
             d == P * D(x3)
  <2>1. a \in Nat /\ b \in Nat /\ c \in Nat /\ d \in Nat
    <3>1. \A k \in Nat : P * k \in Nat
      BY <1>0
    <3>2. D(frac) \in Nat /\ D(x1) \in Nat /\ D(x2) \in Nat /\ D(x3) \in Nat
      BY <1>7, <1>8, <1>9, <1>10
    <3> HIDE DEF D
    <3> QED BY <3>1, <3>2
  <2>2. P * (1000 * ds[1] + 100 * ds[2] + 10 * ds[3] + ds[4]) = 1000 * a + 100 * b + 10 * c + d
    <3>1. D(frac) \in Nat /\ D(x1) \in Nat /\ D(x2) \in Nat /\ D(x3) \in Nat
      BY <1>7, <1>8, <1>9, <1>10
    <3>2. P * (1000 * D(frac) + 100 * D(x1) + 10 * D(x2) + D(x3)) = 1000 * a + 100 * b + 10 * c + d
      <4> DEFINE e1 == D(frac)
                 e2 == D(x1)
                 e3 == D(x2)
                 e4 == D(x3)
      <4>1. e1 \in Nat /\ e2 \in Nat /\ e3 \in Nat /\ e4 \in Nat
        BY <3>1
      <4> HIDE DEF e1, e2, e3, e4
      <4>2. P * (1000 * e1 + 100 * e2 + 10 * e3 + e4)
              = 1000 * (P * e1) + 100 * (P * e2) + 10 * (P * e3) + P * e4
        BY ONLY <1>0, <4>1
      <4> QED BY <4>2 DEF e1, e2, e3, e4
    <3> QED BY <1>6, <3>2
  <2>3. 10 * frac = a + x1 /\ 10 * x1 = b + x2 /\ 10 * x2 = c + x3 /\ 10 * x3 = d + x4
    BY <1>7, <1>8, <1>9, <1>10
  <2> HIDE DEF a, b, c, d
  <2>4. 10000 * frac = 1000 * a + 100 * b + 10 * c + d + x4
    BY <1>7, <1>8, <1>9, <1>10, <2>1, <2>3
  <2> QED BY <2>2, <2>4
<1>13. Expands(ds, frac, P)
  BY <1>10, <1>11, <1>12 DEF Expands
<1> QED BY <1>4, <1>13 DEF P

(* The zeros that are dropped do not change the number that is read. *)
Keeps(ds, n) == (\A i \in n + 1 .. Len(ds) : ds[i] = 0) /\ (n = 0 \/ ds[n] # 0)

(* Trimming zeros does not change what the decimals stand for. *)
LEMMA TrimmedReads ==
  ASSUME NEW int \in Seq(Int), NEW ds \in Seq(Int), Len(ds) = 4
  PROVE  /\ Trimmed(ds) \in Seq(Int) /\ Len(Trimmed(ds)) \in 0 .. 4
         /\ Trimmed(ds) # <<>> => Trimmed(ds)[Len(Trimmed(ds))] # 0
         /\ Decimal(int \o Trimmed(ds)) * Pow(10, 4 - Len(Trimmed(ds)))
              = 10000 * Decimal(int) + (1000 * ds[1] + 100 * ds[2] + 10 * ds[3] + ds[4])
<1> DEFINE n == CHOOSE n \in 0 .. Len(ds) : Keeps(ds, n)
           V(k) == Decimal(int \o SubSeq(ds, 1, k))
<1>0. ds[1] \in Int /\ ds[2] \in Int /\ ds[3] \in Int /\ ds[4] \in Int
  <2>1. 1 \in 1 .. Len(ds) /\ 2 \in 1 .. Len(ds) /\ 3 \in 1 .. Len(ds) /\ 4 \in 1 .. Len(ds)
    OBVIOUS
  <2> QED BY <2>1, SeqElement
<1>1. \E k \in 0 .. Len(ds) : Keeps(ds, k)
  <2>1. ds[4] # 0 => Keeps(ds, 4)
    BY DEF Keeps
  <2>2. ds[4] = 0 /\ ds[3] # 0 => Keeps(ds, 3)
    BY DEF Keeps
  <2>3. ds[4] = 0 /\ ds[3] = 0 /\ ds[2] # 0 => Keeps(ds, 2)
    BY DEF Keeps
  <2>4. ds[4] = 0 /\ ds[3] = 0 /\ ds[2] = 0 /\ ds[1] # 0 => Keeps(ds, 1)
    BY DEF Keeps
  <2>5. ds[4] = 0 /\ ds[3] = 0 /\ ds[2] = 0 /\ ds[1] = 0 => Keeps(ds, 0)
    BY DEF Keeps
  <2> QED BY <2>1, <2>2, <2>3, <2>4, <2>5
<1>2. n \in 0 .. Len(ds) /\ Keeps(ds, n)
  BY <1>1, Zenon
<1>3. Trimmed(ds) = SubSeq(ds, 1, n)
  BY DEF Trimmed, Keeps
<1> HIDE DEF n
<1>4. n \in 0 .. 4 /\ n \in Nat
  BY <1>2
<1>5. SubSeq(ds, 1, n) \in Seq(Int) /\ Len(SubSeq(ds, 1, n)) = n
      /\ \A i \in 1 .. n : SubSeq(ds, 1, n)[i] = ds[i]
  BY <1>2, SeqPrefix
<1>6. SubSeq(ds, 1, n) # <<>> => SubSeq(ds, 1, n)[Len(SubSeq(ds, 1, n))] # 0
  <2> SUFFICES ASSUME SubSeq(ds, 1, n) # <<>> PROVE SubSeq(ds, 1, n)[Len(SubSeq(ds, 1, n))] # 0
    OBVIOUS
  <2>1. n # 0
    BY <1>5
  <2>2. SubSeq(ds, 1, n)[Len(SubSeq(ds, 1, n))] = ds[n]
    BY <1>4, <1>5, <2>1
  <2> QED BY <1>2, <2>1, <2>2 DEF Keeps
<1>7. V(0) = Decimal(int) /\ Decimal(int) \in Int
  <2>1. int \o SubSeq(ds, 1, 0) = int
    <3>1. 0 \in 0 .. (Len(ds) - 1)
      OBVIOUS
    <3>2. Grows(Int, int, ds, 0)
      BY <3>1, PrefixNext
    <3> QED BY <3>2 DEF Grows
  <2>2. int \in Seq(Int)
    OBVIOUS
  <2> QED BY <2>1, <2>2, DecimalNext
<1>8. ASSUME NEW k \in 0 .. 3 PROVE V(k + 1) = 10 * V(k) + ds[k + 1]
  <2> DEFINE a == int \o SubSeq(ds, 1, k)
  <2>1. a \in Seq(Int) /\ ds[k + 1] \in Int
        /\ int \o SubSeq(ds, 1, k + 1) = Append(a, ds[k + 1])
    <3>1. k \in 0 .. (Len(ds) - 1)
      OBVIOUS
    <3>2. Grows(Int, int, ds, k)
      BY <3>1, PrefixNext
    <3> QED BY <3>2 DEF Grows
  <2> HIDE DEF a
  <2>2. Decimal(Append(a, ds[k + 1])) = 10 * Decimal(a) + ds[k + 1]
    BY <2>1, DecimalNext
  <2> QED BY <2>1, <2>2 DEF a
<1> DEFINE D == 1000 * ds[1] + 100 * ds[2] + 10 * ds[3] + ds[4]
<1>9. V(n) * Pow(10, 4 - n) = 10000 * Decimal(int) + D
  <2> HIDE DEF V
  <2>1. V(0) \in Int /\ V(1) = 10 * V(0) + ds[1] /\ V(2) = 10 * V(1) + ds[2]
        /\ V(3) = 10 * V(2) + ds[3] /\ V(4) = 10 * V(3) + ds[4]
    <3>1. V(0 + 1) = 10 * V(0) + ds[0 + 1] /\ V(1 + 1) = 10 * V(1) + ds[1 + 1]
          /\ V(2 + 1) = 10 * V(2) + ds[2 + 1] /\ V(3 + 1) = 10 * V(3) + ds[3 + 1]
      BY <1>8
    <3> QED BY <1>7, <3>1
  <2>2. /\ V(4) * 1 = 10000 * V(0) + D
        /\ ds[4] = 0 => V(3) * 10 = V(4) * 1
        /\ ds[4] = 0 /\ ds[3] = 0 => V(2) * 100 = V(4) * 1
        /\ ds[4] = 0 /\ ds[3] = 0 /\ ds[2] = 0 => V(1) * 1000 = V(4) * 1
        /\ ds[4] = 0 /\ ds[3] = 0 /\ ds[2] = 0 /\ ds[1] = 0 => V(0) * 10000 = V(4) * 1
    <3> DEFINE v0 == V(0)
               v1 == V(1)
               v2 == V(2)
               v3 == V(3)
               v4 == V(4)
               d1 == ds[1]
               d2 == ds[2]
               d3 == ds[3]
               d4 == ds[4]
    <3>1. v0 \in Int /\ d1 \in Int /\ d2 \in Int /\ d3 \in Int /\ d4 \in Int
          /\ v1 = 10 * v0 + d1 /\ v2 = 10 * v1 + d2 /\ v3 = 10 * v2 + d3 /\ v4 = 10 * v3 + d4
      BY <1>0, <2>1
    <3> HIDE DEF v0, v1, v2, v3, v4, d1, d2, d3, d4
    <3>2. /\ v4 * 1 = 10000 * v0 + (1000 * d1 + 100 * d2 + 10 * d3 + d4)
          /\ d4 = 0 => v3 * 10 = v4 * 1
          /\ d4 = 0 /\ d3 = 0 => v2 * 100 = v4 * 1
          /\ d4 = 0 /\ d3 = 0 /\ d2 = 0 => v1 * 1000 = v4 * 1
          /\ d4 = 0 /\ d3 = 0 /\ d2 = 0 /\ d1 = 0 => v0 * 10000 = v4 * 1
      BY ONLY <3>1
    <3> QED BY <3>2 DEF v0, v1, v2, v3, v4, d1, d2, d3, d4
  <2>3. \A i \in n + 1 .. 4 : ds[i] = 0
    BY <1>2 DEF Keeps
  <2>4. V(n) * Pow(10, 4 - n) = V(4) * 1
    <3>1. CASE n = 0
      BY <2>2, <2>3, <3>1, PowersOfTen
    <3>2. CASE n = 1
      BY <2>2, <2>3, <3>2, PowersOfTen
    <3>3. CASE n = 2
      BY <2>2, <2>3, <3>3, PowersOfTen
    <3>4. CASE n = 3
      BY <2>2, <2>3, <3>4, PowersOfTen
    <3>5. CASE n = 4
      BY <2>2, <3>5, PowersOfTen
    <3> QED BY <1>4, <3>1, <3>2, <3>3, <3>4, <3>5
  <2> QED BY <1>7, <2>2, <2>4
<1> HIDE DEF D
<1>10. Decimal(int \o SubSeq(ds, 1, n)) * Pow(10, 4 - n) = 10000 * Decimal(int) + D
  BY <1>9
<1> DEFINE t == SubSeq(ds, 1, n)
<1>11. Trimmed(ds) = t /\ t \in Seq(Int) /\ Len(t) = n /\ (t # <<>> => t[Len(t)] # 0)
       /\ Decimal(int \o t) * Pow(10, 4 - n) = 10000 * Decimal(int) + D
  BY <1>3, <1>5, <1>6, <1>10
<1> HIDE DEF t
<1> QED BY <1>4, <1>11 DEF D
-----------------------------------------------------------------------------
(* The text of the integer part. *)
IntText(n) == IF n = 0 THEN <<0>> ELSE brubeck_itoa(n)

(* The digits before the point. *)
LEMMA IntReads ==
  ASSUME NEW n \in Nat
  PROVE  /\ IntText(n) \in Seq(Int) /\ Decimal(IntText(n)) = n % Pow(2, IntBits)
         /\ Len(IntText(n)) > 1 => Head(IntText(n)) # 0
<1> DEFINE W == Pow(2, IntBits)
           x == n % W
           ds == Swapped(LowDigits[x])
<1>1. W \in Nat \ {0}
  BY PowOfTwo, WidthAssumption
<1>2. x \in Nat
  <2> HIDE DEF W
  <2> QED BY <1>1, DivMod
<1>3. Prints(x)
  <2> HIDE DEF x
  <2> QED BY <1>2, ItoaPrints
<1>4. /\ ds \in Seq(0 .. 9) /\ Decimal(ds) = x /\ (x > 0 => Head(ds) # 0)
      /\ (x < 10 => Len(ds) = 1)
  BY <1>3 DEF Prints
<1>5. CASE n = 0
  <2> DEFINE z == Append(<<>>, 0)
  <2>1. IntText(n) = z /\ z \in Seq(Int) /\ Len(z) = 1
    BY <1>5 DEF IntText
  <2>2. Decimal(z) = 10 * Decimal(<<>>) + 0 /\ Decimal(<<>>) = 0
    <3>1. <<>> \in Seq(Int) /\ 0 \in Int
      OBVIOUS
    <3> QED BY <3>1, DecimalNext
  <2> HIDE DEF z
  <2>3. Decimal(z) = 0
    BY <2>2
  <2>4. ~ (Len(IntText(n)) > 1)
    BY <2>1
  <2>5. x = 0
    <3> HIDE DEF W
    <3> QED BY <1>1, <1>5
  <2> HIDE DEF x
  <2> QED BY <2>1, <2>3, <2>4, <2>5 DEF x
<1>6. CASE n # 0
  <2>1. IntText(n) = ds
    BY <1>6 DEF IntText, brubeck_itoa
  <2> HIDE DEF ds, x
  <2>2. Len(ds) > 1 => Head(ds) # 0
    <3>1. CASE x < 10
      <4>1. Len(ds) = 1
        BY <1>4, <3>1
      <4> QED BY <4>1
    <3>2. CASE ~ (x < 10)
      <4>1. x > 0
        BY <1>2, <3>2
      <4> QED BY <1>4, <4>1
    <3> QED BY <3>1, <3>2
  <2> QED BY <1>4, <2>1, <2>2 DEF x
<1> QED BY <1>5, <1>6

(* What a reader makes of a text, with the four decimals in one number. *)
LEMMA ReadsAs ==
  ASSUME NEW t, t.int \in Seq(Int), t.frac = <<>>
  PROVE  Read(t) = 10000 * Decimal(t.int)
<1> DEFINE int == t.int
<1>1. int \o <<>> = int /\ Len(<<>>) = 0
  OBVIOUS
<1>2. Read(t) = Decimal(int \o <<>>) * Pow(10, 4 - 0)
  BY <1>1 DEF Read, FLOAT_PRECISION
<1>3. Decimal(int) \in Int
  BY DecimalNext
<1> HIDE DEF int
<1>4. Read(t) = Decimal(int) * 10000
  BY <1>1, <1>2, PowersOfTen
<1>5. Read(t) = 10000 * Decimal(int)
  BY <1>3, <1>4
<1> QED BY <1>5 DEF int

(* A value with P parts to the unit, q whole units and D ten thousandths, is cut. *)
LEMMA CutAt ==
  ASSUME NEW m \in Nat, NEW P \in Nat, NEW q \in Nat, NEW r \in Nat, P * q + r = m,
         NEW D \in Int, NEW x \in Nat, x < P, 10000 * r = P * D + x
  PROVE  /\ (10000 * q + D) * P <= m * 10000
         /\ m * 10000 < ((10000 * q + D) + 1) * P
<1> DEFINE a == P * q
           b == P * D
<1>1. a \in Int /\ b \in Int
  OBVIOUS
<1>2. (10000 * q + D) * P = 10000 * a + b
  OBVIOUS
<1>3. ((10000 * q + D) + 1) * P = 10000 * a + b + P
  OBVIOUS
<1>4. a + r = m /\ 10000 * r = b + x
  OBVIOUS
<1> HIDE DEF a, b
<1>5. m * 10000 = 10000 * a + b + x
  BY <1>1, <1>4
<1> QED BY <1>1, <1>2, <1>3, <1>5

(* The largest power the code's widths allow for. *)
LEMMA Widths ==
  ASSUME NEW n \in Nat, NEW k \in Nat, n <= k
  PROVE  Pow(2, n) \in Nat \ {0} /\ Pow(2, n) <= Pow(2, k) /\ Pow(2, k) = Pow(2, n) * Pow(2, k - n)
<1> DEFINE j == k - n
<1>1. j \in Nat /\ n + j = k
  OBVIOUS
<1> HIDE DEF j
<1>2. 2 \in Nat \ {0}
  OBVIOUS
<1>3. Pow(2, n + j) = Pow(2, n) * Pow(2, j) /\ Pow(2, n) <= Pow(2, n + j)
  BY <1>1, <1>2, PowFacts
<1>4. Pow(2, n) \in Nat \ {0}
  BY PowOfTwo
<1> QED BY <1>1, <1>3, <1>4 DEF j

(* The parts of a bit pattern. *)
LEMMA FloatParts ==
  ASSUME NEW f \in Float
  PROVE  /\ f.exp2 \in Int /\ f.mantissa \in Nat
         /\ f.mantissa < Pow(2, MantissaBits) /\ Pow(2, MantissaBits) \in Nat \ {0}
<1> DEFINE L == Pow(2, MantissaBits - 1)
           M == Pow(2, MantissaBits)
<1>1. MantissaBits \in Nat /\ MantissaBits - 1 \in Nat /\ Tiny \in Nat /\ MaxExp \in Nat
  BY WidthAssumption
<1>2. M \in Nat \ {0} /\ L \in Nat \ {0}
  BY <1>1, PowOfTwo
<1>3. f.exp2 \in (0 - Tiny - 2) .. MaxExp /\ f.mantissa \in L .. M - 1
  BY DEF Float
<1> HIDE DEF L, M
<1>4. f.exp2 \in Int /\ f.mantissa \in Nat /\ f.mantissa < M /\ M \in Nat \ {0}
  BY <1>1, <1>2, <1>3
<1> QED BY <1>4 DEF M

(* The four decimals of a text with a fraction are a number. *)
ReadsInt(f) == Scale(f) >= 0 => Read(brubeck_ftoa(f)) \in Int

(* brubeck_ftoa prints 0 for what is small. *)
LEMMA TinyReads ==
  ASSUME NEW f \in Float, f.exp2 < 0 - Tiny
  PROVE  LET t == brubeck_ftoa(f) IN t.int = <<0>> /\ t.frac = <<>> /\ Read(t) = 0
<1> DEFINE t == brubeck_ftoa(f)
<1>1. t = [neg |-> f.neg, int |-> <<0>>, frac |-> <<>>]
  BY FloatParts, WidthAssumption DEF brubeck_ftoa
<1>2. t.int = IntText(0) /\ t.int = <<0>> /\ t.frac = <<>>
  BY <1>1 DEF IntText
<1>3. 0 % Pow(2, IntBits) = 0
  <2>1. Pow(2, IntBits) \in Nat \ {0}
    BY PowOfTwo, WidthAssumption
  <2> QED BY <2>1
<1>4. t.int \in Seq(Int) /\ Decimal(t.int) = 0
  BY <1>2, <1>3, IntReads
<1>5. Read(t) = 10000 * Decimal(t.int)
  <2> HIDE DEF t
  <2> QED BY <1>2, <1>4, ReadsAs
<1>6. Read(t) = 0
  BY <1>4, <1>5
<1> HIDE DEF t
<1> QED BY <1>2, <1>6 DEF t

(* What is printed as 0 has no digit among the first four decimals. *)
LEMMA TinyBound ==
  ASSUME NEW k \in Nat, NEW sc \in Nat, k + Tiny <= sc, NEW m \in Nat, m < Pow(2, k)
  PROVE  m * 10000 < Pow(2, sc)
<1> DEFINE M == Pow(2, k)
           T == Pow(2, Tiny)
           P == Pow(2, sc)
<1>1. M \in Nat \ {0} /\ T \in Nat \ {0} /\ 10000 <= T /\ Tiny \in Nat /\ m < M
  <2>1. 10000 <= T
    BY WidthAssumption, PowersOfTen DEF FLOAT_PRECISION
  <2> QED BY <2>1, PowOfTwo, WidthAssumption
<1>2. M * T <= P /\ P \in Nat
  <2>1. Pow(2, k + Tiny) = M * T
    BY <1>1, PowFacts
  <2>2. Pow(2, k + Tiny) <= P /\ P \in Nat
    <3>1. k + Tiny \in Nat
      BY <1>1
    <3> QED BY <3>1, Widths, PowOfTwo
  <2> QED BY <2>1, <2>2
<1> HIDE DEF M, T, P
<1>3. m * 10000 <= m * T
  <2>1. \A a, b, c \in Nat : b <= c => a * b <= a * c
    OBVIOUS
  <2> QED BY <1>1, <2>1
<1>4. m * T < M * T
  <2>1. PICK j \in Nat : M = m + 1 + j
    <3>1. M - m - 1 \in Nat /\ M = m + 1 + (M - m - 1)
      BY <1>1
    <3> QED BY <3>1
  <2>2. M * T = m * T + T + j * T /\ j * T \in Nat /\ m * T \in Nat
    BY <1>1, <2>1
  <2> QED BY <1>1, <2>2
<1>5. m * 10000 \in Nat /\ m * T \in Nat /\ M * T \in Nat
  BY <1>1
<1>6. m * 10000 < P
  BY <1>2, <1>3, <1>4, <1>5
<1> QED BY <1>6 DEF P

LEMMA TinyCut ==
  ASSUME NEW f \in Float, f.exp2 < 0 - Tiny
  PROVE  Truncated(f) /\ ReadsInt(f)
<1> DEFINE t == brubeck_ftoa(f)
           m == f.mantissa
           sc == Scale(f)
           P == Pow(2, sc)
<1>1. f.exp2 \in Int /\ m \in Nat /\ m < Pow(2, MantissaBits) /\ MantissaBits \in Nat /\ Tiny \in Nat
  BY FloatParts, WidthAssumption
<1>2. sc \in Nat /\ MantissaBits + Tiny <= sc
  BY <1>1 DEF Scale
<1>3. m * 10000 < P /\ P \in Nat
  <2> HIDE DEF sc, m
  <2> QED BY <1>1, <1>2, TinyBound, PowOfTwo
<1>4. t.int = <<0>> /\ t.frac = <<>> /\ Read(t) = 0 /\ Len(<<0>>) = 1
  BY TinyReads
<1>5. 0 * P <= m * 10000 /\ m * 10000 < (0 + 1) * P
  <2> HIDE DEF m, P
  <2> QED BY SMTT(30), <1>1, <1>3
<1>6. Scale(f) >= 0 /\ ~ (Scale(f) < 0) /\ ~ (f.exp2 >= LongBits)
  BY <1>1, <1>2, WidthAssumption
<1>7. ReadsInt(f)
  BY <1>4 DEF ReadsInt
<1> HIDE DEF t
<1> QED BY <1>4, <1>5, <1>6, <1>7, PowersOfTen DEF Truncated, FLOAT_PRECISION, t

(* A value with a fraction. *)
LEMMA FractionCut ==
  ASSUME NEW f \in Float, f.exp2 >= 0 - Tiny, f.exp2 < MantissaBits - 1
  PROVE  Truncated(f) /\ ReadsInt(f)
<1> DEFINE t == brubeck_ftoa(f)
           e == f.exp2
           m == f.mantissa
           sc == Scale(f)
           M == Pow(2, MantissaBits)
           P == Pow(2, sc)
           q == m \div P
           r == m % P
<1>1. /\ e \in Int /\ m \in Nat /\ m < M /\ M \in Nat \ {0}
      /\ MantissaBits \in Nat /\ Tiny \in Nat /\ LongBits \in Nat /\ IntBits \in Nat
      /\ MantissaBits + Tiny - 1 + 4 <= LongBits /\ MantissaBits <= IntBits
  BY FloatParts, WidthAssumption
<1>2. sc \in Nat /\ sc = MantissaBits - 1 - e /\ 4 + sc <= LongBits /\ e < IntBits
      /\ e < MantissaBits - 1
  BY <1>1 DEF Scale
<1>3. P \in Nat \ {0}
  BY <1>2, PowOfTwo
<1>4. q \in Nat /\ r \in Nat /\ r < P /\ P * q + r = m
  <2> HIDE DEF m, P
  <2> QED BY <1>1, <1>3, DivMod
<1>5. 10 * P <= Pow(2, LongBits)
  <2>1. Pow(2, 4) = 16
    <3>1. Pow(2, 0) = 1 /\ Pow(2, 0 + 1) = 2 * Pow(2, 0) /\ Pow(2, 1 + 1) = 2 * Pow(2, 1)
          /\ Pow(2, 2 + 1) = 2 * Pow(2, 2) /\ Pow(2, 3 + 1) = 2 * Pow(2, 3)
      BY PowNext
    <3> QED BY <3>1
  <2>2. Pow(2, 4 + sc) = Pow(2, 4) * P
    <3>1. 2 \in Nat \ {0} /\ 4 \in Nat
      OBVIOUS
    <3> HIDE DEF sc
    <3> QED BY <1>2, <3>1, PowFacts
  <2>3. Pow(2, 4 + sc) <= Pow(2, LongBits) /\ Pow(2, LongBits) \in Nat
    <3>1. 4 + sc \in Nat
      BY <1>2
    <3> HIDE DEF sc
    <3> QED BY <1>1, <1>2, <3>1, Widths, PowOfTwo
  <2> HIDE DEF P
  <2> QED BY <1>3, <2>1, <2>2, <2>3
<1>6. IntPart(f) = q /\ q < Pow(2, IntBits)
  <2>1. CASE e < 0
    <3>1. M <= P
      <4>1. MantissaBits <= sc
        BY <1>1, <1>2, <2>1
      <4> HIDE DEF sc
      <4> QED BY <1>1, <1>2, <4>1, Widths
    <3>2. q = 0
      <4> HIDE DEF m, P, M
      <4> QED BY <1>1, <1>3, <3>1
    <3>3. IntPart(f) = 0
      BY <1>1, <1>2, <2>1 DEF IntPart
    <3>4. 0 < Pow(2, IntBits)
      BY <1>1, PowOfTwo
    <3> HIDE DEF q
    <3> QED BY <3>2, <3>3, <3>4
  <2>2. CASE e >= 0
    <3>1. IntPart(f) = q
      BY <1>1, <1>2, <2>2 DEF IntPart, Scale
    <3> DEFINE E == Pow(2, e + 1)
    <3>2. M = P * E /\ E \in Nat \ {0}
      <4>1. sc <= MantissaBits /\ MantissaBits - sc = e + 1 /\ e + 1 \in Nat
        BY <1>1, <1>2, <2>2
      <4> HIDE DEF sc
      <4>2. M = P * Pow(2, MantissaBits - sc)
        BY <1>1, <1>2, <4>1, Widths
      <4> QED BY <4>1, <4>2, PowOfTwo
    <3>3. E <= Pow(2, IntBits) /\ Pow(2, IntBits) \in Nat
      <4>1. e + 1 \in Nat /\ e + 1 <= IntBits
        BY <1>1, <1>2, <2>2
      <4> HIDE DEF e
      <4> QED BY <1>1, <4>1, Widths, PowOfTwo
    <3>4. q < E
      <4> HIDE DEF q, r, m, M, P, E
      <4> SUFFICES ASSUME q >= E PROVE FALSE
        BY <1>4, <3>2
      <4>1. PICK k \in Nat : q = E + k
        <5>1. q - E \in Nat /\ q = E + (q - E)
          BY <1>4, <3>2
        <5> QED BY <5>1
      <4>2. P * q = P * E + P * k /\ P * k \in Nat /\ P * E \in Nat
        BY <1>3, <3>2, <4>1
      <4> QED BY <1>1, <1>4, <3>2, <4>2
    <3> HIDE DEF q, E
    <3> QED BY <1>4, <3>1, <3>2, <3>3, <3>4
  <2> QED BY <1>1, <2>1, <2>2
<1>7. FracPart(f) = r
  BY <1>1, <1>2 DEF FracPart, Scale
<1> DEFINE int == IntText(q)
           ds == FracDigits(r, sc)
           frac == IF r = 0 THEN <<>> ELSE Trimmed(ds)
<1>8. t.int = int /\ t.frac = frac
  <2>1. t = [neg  |-> f.neg, int  |-> IF IntPart(f) = 0 THEN <<0>> ELSE brubeck_itoa(IntPart(f)),
             frac |-> IF FracPart(f) = 0 THEN <<>> ELSE Trimmed(FracDigits(FracPart(f), Scale(f)))]
    BY <1>1 DEF brubeck_ftoa
  <2> HIDE DEF t, q, r
  <2> QED BY <1>6, <1>7, <2>1 DEF IntText
<1> HIDE DEF t
<1>9. int \in Seq(Int) /\ Decimal(int) = q /\ (Len(int) > 1 => Head(int) # 0)
  <2> DEFINE W == Pow(2, IntBits)
  <2>1. W \in Nat \ {0} /\ q < W
    BY <1>1, <1>6, PowOfTwo
  <2> HIDE DEF q
  <2>2. q % W = q
    <3> HIDE DEF W
    <3> QED BY <1>4, <2>1
  <2> QED BY <1>4, <2>2, IntReads
<1>10. (t.frac # <<>> => t.frac[Len(t.frac)] # 0)
       /\ \E D \in Int, x \in Nat : x < P /\ 10000 * r = P * D + x /\ Read(t) = 10000 * q + D
  <2> HIDE DEF int, q, r, P
  <2>1. CASE r = 0
    <3>1. t.frac = <<>>
      BY <1>8, <2>1
    <3>2. Read(t) = 10000 * q
      BY <1>8, <1>9, <3>1, ReadsAs
    <3>3. 0 \in Int /\ 0 \in Nat /\ 0 < P /\ 10000 * r = P * 0 + 0 /\ Read(t) = 10000 * q + 0
      BY <1>3, <1>4, <2>1, <3>2
    <3> QED BY <3>1, <3>3
  <2>2. CASE r # 0
    <3>1. Expands(ds, r, P)
      <4> HIDE DEF sc
      <4> QED BY <1>2, <1>4, <1>5, FracExpands DEF P
    <3> HIDE DEF ds
    <3>2. ds \in Seq(0 .. 9) /\ Len(ds) = 4
      BY <3>1 DEF Expands
    <3>3. ds \in Seq(Int)
      BY <3>2
    <3> DEFINE D == 1000 * ds[1] + 100 * ds[2] + 10 * ds[3] + ds[4]
    <3>4. PICK x \in Nat : x < P /\ 10000 * r = P * D + x
      BY <3>1 DEF Expands
    <3>5. D \in Int
      <4>1. ds[1] \in Int /\ ds[2] \in Int /\ ds[3] \in Int /\ ds[4] \in Int
        <5>1. 1 \in 1 .. Len(ds) /\ 2 \in 1 .. Len(ds) /\ 3 \in 1 .. Len(ds) /\ 4 \in 1 .. Len(ds)
          BY <3>2
        <5> QED BY <3>3, <5>1, SeqElement
      <4> QED BY <4>1
    <3>6. t.frac = Trimmed(ds)
      BY <1>8, <2>2
    <3>7. /\ Trimmed(ds) \in Seq(Int) /\ Len(Trimmed(ds)) \in 0 .. 4
          /\ Trimmed(ds) # <<>> => Trimmed(ds)[Len(Trimmed(ds))] # 0
          /\ Decimal(int \o Trimmed(ds)) * Pow(10, 4 - Len(Trimmed(ds))) = 10000 * Decimal(int) + D
      BY <1>9, <3>2, <3>3, TrimmedReads
    <3>8. Read(t) = 10000 * q + D
      BY <1>8, <1>9, <3>6, <3>7 DEF Read, FLOAT_PRECISION
    <3> HIDE DEF D
    <3> QED BY <3>4, <3>5, <3>6, <3>7, <3>8
  <2> QED BY <2>1, <2>2
<1>11. Read(t) * P <= m * 10000 /\ m * 10000 < (Read(t) + 1) * P
  <2>1. PICK D \in Int, x \in Nat : x < P /\ 10000 * r = P * D + x /\ Read(t) = 10000 * q + D
    BY <1>10
  <2> HIDE DEF m, P, q, r
  <2>2. /\ (10000 * q + D) * P <= m * 10000
        /\ m * 10000 < ((10000 * q + D) + 1) * P
    BY SMTT(30), <1>1, <1>3, <1>4, <2>1, CutAt
  <2> QED BY <2>1, <2>2
<1>12. Len(t.int) > 1 => Head(t.int) # 0
  BY <1>8, <1>9
<1>13. Scale(f) >= 0 /\ ~ (Scale(f) < 0) /\ ~ (f.exp2 >= LongBits)
  BY <1>1, <1>2
<1>14. ReadsInt(f)
  <2>1. PICK D \in Int : Read(t) = 10000 * q + D
    BY <1>10
  <2> HIDE DEF q
  <2> QED BY <1>4, <2>1 DEF ReadsInt, t
<1> QED BY <1>10, <1>11, <1>12, <1>13, <1>14, PowersOfTen DEF Truncated, FLOAT_PRECISION, t

(* A whole number that fits the 64 bits. *)
LEMMA WholeCut ==
  ASSUME NEW f \in Float, f.exp2 >= MantissaBits - 1, f.exp2 < LongBits
  PROVE  Truncated(f) /\ ReadsInt(f)
<1> DEFINE t == brubeck_ftoa(f)
           e == f.exp2
           m == f.mantissa
           sc == Scale(f)
           M == Pow(2, MantissaBits)
           W == Pow(2, IntBits)
           E == Pow(2, 0 - sc)
           v == m * E
<1>1. /\ e \in Int /\ m \in Nat /\ m < M /\ M \in Nat \ {0}
      /\ MantissaBits \in Nat \ {0} /\ Tiny \in Nat /\ LongBits \in Nat /\ IntBits \in Nat
      /\ MantissaBits <= IntBits
  BY FloatParts, WidthAssumption
<1>2. /\ 0 - sc \in Nat /\ 0 - sc = e - MantissaBits + 1 /\ sc \in Int
  BY <1>1 DEF Scale
<1>3. E \in Nat \ {0} /\ W \in Nat \ {0} /\ M <= W
  BY <1>1, <1>2, PowOfTwo, Widths
<1>4. v \in Nat
  <2> HIDE DEF m, E
  <2> QED BY <1>1, <1>3
<1>5. IntPart(f) = v /\ FracPart(f) = 0
  <2>1. e >= MantissaBits - 1 /\ e < LongBits
    BY <1>1
  <2>2. IntPart(f) = m * Pow(2, e - MantissaBits + 1)
    BY <1>1, <2>1 DEF IntPart
  <2>3. FracPart(f) = 0
    BY <2>1 DEF FracPart
  <2> HIDE DEF sc
  <2> QED BY <1>2, <2>2, <2>3
<1>6. t.int = IntText(v) /\ t.frac = <<>>
  <2>1. t = [neg  |-> f.neg, int  |-> IF IntPart(f) = 0 THEN <<0>> ELSE brubeck_itoa(IntPart(f)),
             frac |-> IF FracPart(f) = 0 THEN <<>> ELSE Trimmed(FracDigits(FracPart(f), Scale(f)))]
    BY <1>1, WidthAssumption DEF brubeck_ftoa
  <2> HIDE DEF t, v
  <2> QED BY <1>5, <2>1 DEF IntText
<1>7. t.int \in Seq(Int) /\ Decimal(t.int) = v % W /\ (Len(t.int) > 1 => Head(t.int) # 0)
  <2> HIDE DEF t, v
  <2> QED BY <1>4, <1>6, IntReads
<1>8. CASE sc >= 0
  <2>1. sc = 0 /\ 0 - sc = 0
    BY <1>2, <1>8
  <2>2. Pow(2, sc) = 1 /\ E = 1
    <3>1. Pow(2, 0) = 1
      BY PowNext
    <3> HIDE DEF sc
    <3> QED BY <2>1, <3>1
  <2>3. v = m /\ v % W = m
    <3> HIDE DEF m, E, W, M
    <3> QED BY <1>1, <1>3, <2>2
  <2>4. Read(t) = 10000 * m
    <3> HIDE DEF t, v, m
    <3> QED BY SMTT(30), <1>6, <1>7, <2>3, ReadsAs
  <2>5. Read(t) * Pow(2, sc) <= m * 10000 /\ m * 10000 < (Read(t) + 1) * Pow(2, sc)
    <3> HIDE DEF t, m, sc, v
    <3> QED BY SMTT(30), <1>1, <2>2, <2>4
  <2>6. ~ (Scale(f) < 0) /\ ~ (f.exp2 >= LongBits)
    BY <1>1, <1>2, <1>8
  <2>7. ReadsInt(f)
    BY <1>1, <2>4 DEF ReadsInt
  <2> HIDE DEF t, v, E
  <2> QED BY <1>6, <1>7, <1>8, <2>5, <2>6, <2>7, PowersOfTen DEF Truncated, FLOAT_PRECISION, t
<1>9. CASE ~ (sc >= 0)
  <2>1. - sc = 0 - sc
    BY <1>2
  <2>2. Decimal(t.int) = (m * Pow(2, - sc)) % W
    <3> HIDE DEF sc, t
    <3> QED BY <1>7, <2>1
  <2>3. sc < 0 /\ f.exp2 < LongBits /\ ~ (f.exp2 >= LongBits)
    BY <1>1, <1>2, <1>9
  <2> HIDE DEF t, v, E
  <2> QED BY <1>6, <1>7, <1>9, <2>2, <2>3 DEF Truncated, ReadsInt, t
<1> QED BY <1>8, <1>9

(* Division has one remainder. *)
LEMMA OneRemainder ==
  ASSUME NEW w \in Nat \ {0}, NEW a \in Nat, NEW b \in Nat, NEW x \in Nat, NEW y \in Nat,
         x < w, y < w, w * a + x = w * b + y
  PROVE  x = y
<1>1. CASE a = b
  <2>1. w * a = w * b /\ w * a \in Nat
    BY <1>1
  <2> QED BY <2>1
<1>2. ASSUME NEW c \in Nat, NEW d \in Nat, NEW p \in Nat, NEW q \in Nat,
             c < d, p < w, w * c + p = w * d + q
      PROVE  FALSE
  <2>1. PICK k \in Nat : d = c + 1 + k
    <3>1. d - c - 1 \in Nat /\ d = c + 1 + (d - c - 1)
      BY <1>2
    <3> QED BY <3>1
  <2>2. w * d = w * c + w + w * k /\ w * k \in Nat /\ w * c \in Nat
    BY <2>1
  <2> QED BY <1>2, <2>2
<1>3. CASE a < b
  BY <1>2, <1>3
<1>4. CASE b < a
  BY <1>2, <1>4
<1> QED BY <1>1, <1>3, <1>4

(* A number beyond the 64 bits. *)
LEMMA HugeCut ==
  ASSUME NEW f \in Float, f.exp2 >= LongBits
  PROVE  Truncated(f) /\ ReadsInt(f)
<1> DEFINE t == brubeck_ftoa(f)
           W == Pow(2, IntBits)
           K == Pow(2, LongBits - IntBits)
           v == Pow(2, LongBits) - 1
<1>1. /\ f.exp2 \in Int /\ MantissaBits \in Nat \ {0} /\ Tiny \in Nat /\ LongBits \in Nat
      /\ IntBits \in Nat /\ IntBits <= LongBits /\ LongBits - IntBits \in Nat
      /\ MantissaBits <= IntBits
  BY FloatParts, WidthAssumption
<1>2. W \in Nat \ {0} /\ K \in Nat \ {0} /\ Pow(2, LongBits) = W * K
  BY <1>1, PowOfTwo, Widths
<1>3. v \in Nat /\ v % W = W - 1
  <2> DEFINE k == K - 1
  <2>1. k \in Nat /\ K = k + 1
    BY <1>2
  <2> HIDE DEF W, K, k
  <2>2. v = W * k + (W - 1) /\ W * k \in Nat
    BY <1>2, <2>1
  <2> HIDE DEF v
  <2>3. v \in Nat
    BY <1>2, <2>2
  <2>4. v \div W \in Nat /\ v % W \in Nat /\ v % W < W /\ W * (v \div W) + (v % W) = v
    BY <1>2, <2>3, DivMod
  <2> QED BY <1>2, <2>1, <2>2, <2>3, <2>4, OneRemainder
<1>4. t.int = IntText(v) /\ t.frac = <<>>
  <2>1. t = [neg  |-> f.neg, int  |-> IF IntPart(f) = 0 THEN <<0>> ELSE brubeck_itoa(IntPart(f)),
             frac |-> IF FracPart(f) = 0 THEN <<>> ELSE Trimmed(FracDigits(FracPart(f), Scale(f)))]
    BY <1>1 DEF brubeck_ftoa
  <2>2. IntPart(f) = v /\ FracPart(f) = 0
    BY <1>1 DEF IntPart, FracPart
  <2> HIDE DEF t, v
  <2> QED BY <2>1, <2>2 DEF IntText
<1>5. t.int \in Seq(Int) /\ Decimal(t.int) = W - 1 /\ (Len(t.int) > 1 => Head(t.int) # 0)
  <2> HIDE DEF t, v
  <2> QED BY <1>3, <1>4, IntReads
<1>6. ~ (Scale(f) >= 0) /\ ~ (f.exp2 < LongBits)
  BY <1>1 DEF Scale
<1> HIDE DEF t, v
<1> QED BY <1>4, <1>5, <1>6 DEF Truncated, ReadsInt, t

LEMMA FloatsCut ==
  ASSUME NEW f \in Float PROVE Truncated(f) /\ ReadsInt(f)
<1>1. f.exp2 \in Int /\ Tiny \in Nat /\ MantissaBits \in Nat /\ LongBits \in Nat
  BY FloatParts, WidthAssumption
<1>2. CASE f.exp2 < 0 - Tiny
  BY <1>2, TinyCut
<1>3. CASE f.exp2 >= 0 - Tiny /\ f.exp2 < MantissaBits - 1
  BY <1>3, FractionCut
<1>4. CASE f.exp2 >= MantissaBits - 1 /\ f.exp2 < LongBits
  BY <1>4, WholeCut
<1>5. CASE f.exp2 >= LongBits
  BY <1>5, HugeCut
<1> QED BY <1>1, <1>2, <1>3, <1>4, <1>5

(* The text of every float reads back as the float cut to four decimals and to the
   width of brubeck_itoa, and has no superfluous zero. *)
THEOREM FtoaCuts == \A f \in Float : Truncated(f)
BY FloatsCut
-----------------------------------------------------------------------------
(* Half a unit of the float. *)
Half == Pow(2, DoubleBits - MantissaBits - 1)

LEMMA Units ==
  /\ Half \in Nat \ {0} /\ Unit \in Nat \ {0} /\ Unit = 2 * Half
  /\ Pow(2, DoubleBits) = Pow(2, MantissaBits) * Unit
  /\ Pow(2, DoubleBits - 1) = Pow(2, MantissaBits - 1) * Unit
  /\ Pow(2, MantissaBits) = 2 * Pow(2, MantissaBits - 1)
<1> DEFINE k == DoubleBits - MantissaBits - 1
           j == MantissaBits - 1
           u == DoubleBits - MantissaBits
           D == DoubleBits - 1
<1>1. /\ k \in Nat /\ j \in Nat /\ u \in Nat /\ D \in Nat /\ u = k + 1 /\ MantissaBits = j + 1
      /\ DoubleBits = MantissaBits + u /\ D = j + u /\ MantissaBits \in Nat /\ 2 \in Nat \ {0}
  BY WidthAssumption
<1>2. Half = Pow(2, k) /\ Unit = Pow(2, u)
  BY DEF Half, Unit
<1> HIDE DEF k, j, u, D
<1>3. Half \in Nat \ {0} /\ Unit \in Nat \ {0}
  BY <1>1, <1>2, PowOfTwo
<1>4. Pow(2, k + 1) = 2 * Pow(2, k) /\ Pow(2, j + 1) = 2 * Pow(2, j)
  BY <1>1, PowNext
<1>5. Pow(2, MantissaBits + u) = Pow(2, MantissaBits) * Pow(2, u) /\ Pow(2, j + u) = Pow(2, j) * Pow(2, u)
  BY <1>1, PowFacts
<1>6. Pow(2, D) = Pow(2, j) * Unit
  BY <1>1, <1>2, <1>5
<1>7. Pow(2, DoubleBits) = Pow(2, MantissaBits) * Unit
  BY <1>1, <1>2, <1>5
<1>8. Unit = 2 * Half /\ Pow(2, MantissaBits) = 2 * Pow(2, j)
  BY <1>1, <1>2, <1>4
<1> QED BY <1>3, <1>6, <1>7, <1>8 DEF j, D

(* Dividing by a positive number keeps the order. *)
LEMMA Quotients ==
  ASSUME NEW u \in Nat \ {0}, NEW a \in Nat, NEW q \in Nat, NEW x \in Nat, x < u
  PROVE  /\ a * u <= u * q + x => a <= q
         /\ u * q + x < a * u => q < a
<1>1. ASSUME a * u <= u * q + x, ~ (a <= q) PROVE FALSE
  <2>1. PICK k \in Nat : a = q + 1 + k
    <3>1. a - q - 1 \in Nat /\ a = q + 1 + (a - q - 1)
      BY <1>1
    <3> QED BY <3>1
  <2>2. a * u = u * q + u + u * k /\ u * k \in Nat /\ u * q \in Nat
    BY <2>1
  <2> QED BY <1>1, <2>2
<1>2. ASSUME u * q + x < a * u, ~ (q < a) PROVE FALSE
  <2>1. PICK k \in Nat : q = a + k
    <3>1. q - a \in Nat /\ q = a + (q - a)
      BY <1>2
    <3> QED BY <3>1
  <2>2. u * q = a * u + u * k /\ u * k \in Nat /\ a * u \in Nat
    BY <2>1
  <2> QED BY <1>2, <2>2
<1> QED BY <1>1, <1>2

(* Rounding to the nearest float is off by at most half a unit. *)
LEMMA NearestIs ==
  ASSUME NEW D \in Pow(2, DoubleBits - 1) .. Pow(2, DoubleBits) - 1
  PROVE  /\ Nearest(D) \in Nat
         /\ Pow(2, MantissaBits - 1) <= Nearest(D) /\ Nearest(D) <= Pow(2, MantissaBits)
         /\ D - Half <= Nearest(D) * Unit /\ Nearest(D) * Unit <= D + Half
<1> DEFINE L == Pow(2, MantissaBits - 1)
           M == Pow(2, MantissaBits)
           low == D \div Unit
           rest == D % Unit
           m == Nearest(D)
<1>1. Half \in Nat \ {0} /\ Unit \in Nat \ {0} /\ Unit = 2 * Half /\ L \in Nat \ {0} /\ M \in Nat \ {0}
  BY Units, PowOfTwo, WidthAssumption
<1>2. D \in Nat /\ L * Unit <= D /\ D < M * Unit
  <2> DEFINE l == L * Unit
             h == M * Unit
  <2>1. D \in l .. h - 1 /\ l \in Nat /\ h \in Nat
    BY <1>1, Units
  <2> HIDE DEF l, h
  <2>2. D \in Nat /\ l <= D /\ D < h
    BY <2>1
  <2> QED BY <2>2 DEF l, h
<1>3. low \in Nat /\ rest \in Nat /\ rest < Unit /\ Unit * low + rest = D
  BY <1>1, <1>2, DivMod
<1>4. /\ m = low \/ m = low + 1
      /\ m = low => 2 * rest <= Unit
      /\ m = low + 1 => 2 * rest >= Unit
  <2>1. m = IF 2 * rest > Unit \/ (2 * rest = Unit /\ low % 2 = 1) THEN low + 1 ELSE low
    BY DEF Nearest
  <2> HIDE DEF m, low, rest
  <2> QED BY <1>1, <1>3, <2>1
<1> HIDE DEF m, low, rest, L, M
<1>5. L <= low /\ low < M
  BY <1>1, <1>2, <1>3, Quotients
<1>6. m \in Nat /\ L <= m /\ m <= M
  BY <1>1, <1>3, <1>4, <1>5
<1> DEFINE a == Unit * low
<1>7. a \in Nat /\ (m = low => m * Unit = a) /\ (m = low + 1 => m * Unit = a + Unit)
  BY <1>1, <1>3
<1> HIDE DEF a
<1>8. a + rest = D
  BY <1>3 DEF a
<1>9. D - Half <= m * Unit /\ m * Unit <= D + Half
  <2>1. CASE m = low
    BY <1>1, <1>3, <1>4, <1>7, <1>8, <2>1
  <2>2. CASE m = low + 1
    BY <1>1, <1>3, <1>4, <1>7, <1>8, <2>2
  <2> QED BY <1>4, <2>1, <2>2
<1> QED BY <1>6, <1>9 DEF m, L, M

(* The conversion yields a float; where it neither underflows nor overflows, one that
   differs from the double by at most half a unit, also when the rounding carries into
   the exponent. *)
LEMMA ToFloatIs ==
  ASSUME NEW d \in Double
  PROVE  /\ ToFloat(d) \in Float
         /\ d.exp2 >= 0 - Tiny - 2 /\ d.exp2 < MaxExp =>
              \E c \in {0, 1} :
                LET B == Pow(2, DoubleBits - MantissaBits + c) IN
                /\ ToFloat(d).exp2 = d.exp2 + c
                /\ d.mantissa - Half <= ToFloat(d).mantissa * B
                /\ ToFloat(d).mantissa * B <= d.mantissa + Half
<1> DEFINE f == ToFloat(d)
           e == d.exp2
           D == d.mantissa
           L == Pow(2, MantissaBits - 1)
           M == Pow(2, MantissaBits)
           m == Nearest(D)
           lo == 0 - Tiny - 2
<1>1. /\ e \in Int /\ lo \in Int /\ MaxExp \in Nat /\ lo <= MaxExp
      /\ D \in Pow(2, DoubleBits - 1) .. Pow(2, DoubleBits) - 1 /\ d.neg \in BOOLEAN
  <2>1. e \in (0 - Tiny - 3) .. (MaxExp + 1) /\ D \in Pow(2, DoubleBits - 1) .. Pow(2, DoubleBits) - 1
        /\ d.neg \in BOOLEAN
    BY DEF Double
  <2> QED BY <2>1, WidthAssumption
<1>2. L \in Nat \ {0} /\ M \in Nat \ {0} /\ M = 2 * L /\ L \in L .. M - 1
  <2>1. L \in Nat \ {0} /\ M \in Nat \ {0} /\ M = 2 * L
    BY Units, PowOfTwo, WidthAssumption
  <2> HIDE DEF L, M
  <2> QED BY <2>1
<1>3. m \in Nat /\ L <= m /\ m <= M /\ D - Half <= m * Unit /\ m * Unit <= D + Half
  <2> HIDE DEF D
  <2> QED BY <1>1, NearestIs
<1>4. CASE e < lo
  <2>1. f = [neg |-> d.neg, exp2 |-> lo, mantissa |-> L]
    BY <1>4, <1>1 DEF ToFloat
  <2>2. lo \in lo .. MaxExp
    BY <1>1
  <2> HIDE DEF f, L, M
  <2>3. f \in Float
    BY <1>1, <1>2, <2>1, <2>2 DEF Float, L, M
  <2> QED BY <1>1, <1>4, <2>3 DEF f
<1>5. CASE e >= MaxExp
  <2>1. f = [neg |-> d.neg, exp2 |-> MaxExp, mantissa |-> L]
    BY <1>5, <1>1 DEF ToFloat
  <2>2. MaxExp \in lo .. MaxExp
    BY <1>1
  <2> HIDE DEF f, L, M
  <2>3. f \in Float
    BY <1>1, <1>2, <2>1, <2>2 DEF Float, L, M
  <2> QED BY <1>1, <1>5, <2>3 DEF f
<1>6. CASE e >= lo /\ e < MaxExp
  <2>1. f = IF m = M THEN [neg |-> d.neg, exp2 |-> e + 1, mantissa |-> L]
                     ELSE [neg |-> d.neg, exp2 |-> e, mantissa |-> m]
    BY <1>6, <1>1 DEF ToFloat
  <2>2. CASE m = M
    <3>1. f.exp2 = e + 1 /\ f.mantissa = L /\ f.neg = d.neg
      BY <2>1, <2>2
    <3>2. f = [neg |-> d.neg, exp2 |-> e + 1, mantissa |-> L] /\ e + 1 \in lo .. MaxExp
      BY <1>1, <1>6, <2>1, <2>2
    <3>3. f \in Float
      <4> HIDE DEF f, L, M
      <4> QED BY <1>1, <1>2, <3>2 DEF Float, L, M
    <3> DEFINE B == Pow(2, DoubleBits - MantissaBits + 1)
    <3>4. B = 2 * Unit /\ Unit \in Nat
      <4> DEFINE u == DoubleBits - MantissaBits
      <4>1. u \in Nat
        BY WidthAssumption
      <4>2. Unit = Pow(2, u)
        BY DEF Unit
      <4> HIDE DEF u
      <4>3. Pow(2, u + 1) = 2 * Pow(2, u) /\ Pow(2, u) \in Nat
        BY <4>1, PowNext
      <4> QED BY <4>2, <4>3 DEF u
    <3>5. L * B = m * Unit
      <4> HIDE DEF L, B, M, m
      <4> QED BY <1>2, <2>2, <3>4
    <3> HIDE DEF f, L, B, m
    <3> QED BY <1>3, <3>1, <3>3, <3>5 DEF f, B
  <2>3. CASE m # M
    <3>1. f.exp2 = e /\ f.mantissa = m /\ f.neg = d.neg
      BY <2>1, <2>3
    <3>2. f = [neg |-> d.neg, exp2 |-> e, mantissa |-> m] /\ e \in lo .. MaxExp /\ m \in L .. M - 1
      <4>1. f = [neg |-> d.neg, exp2 |-> e, mantissa |-> m]
        BY <2>1, <2>3
      <4>2. e \in lo .. MaxExp
        BY <1>1, <1>6
      <4>3. m \in L .. M - 1
        <5> HIDE DEF m, L, M
        <5> QED BY <1>2, <1>3, <2>3
      <4> QED BY <4>1, <4>2, <4>3
    <3>3. f \in Float
      <4> HIDE DEF f, L, M, m
      <4> QED BY <1>1, <3>2 DEF Float, L, M
    <3> DEFINE B == Pow(2, DoubleBits - MantissaBits + 0)
    <3>4. B = Unit
      <4>1. DoubleBits - MantissaBits + 0 = DoubleBits - MantissaBits
        BY WidthAssumption
      <4> QED BY <4>1 DEF Unit
    <3>5. f.exp2 = e + 0
      BY <1>1, <3>1
    <3> HIDE DEF f, B, m
    <3> QED BY <1>3, <3>1, <3>3, <3>4, <3>5 DEF f, B
  <2> QED BY <2>2, <2>3
<1> QED BY <1>1, <1>4, <1>5, <1>6

(* What is cut from a number q near X .. Y is cut from a number near it. *)
LEMMA CutNear ==
  ASSUME NEW n \in Int, NEW q \in Int, NEW A \in Nat \ {0}, NEW B \in Nat \ {0},
         NEW X \in Int, NEW Y \in Int, X <= q * B, q * B <= Y,
         n * A <= q * 10000, q * 10000 < (n + 1) * A
  PROVE  n * (A * B) <= Y * 10000 /\ X * 10000 < (n + 1) * (A * B)
<1> DEFINE a == n * A
           b == (n + 1) * A
           x == q * 10000
           y == q * B
<1>1. a \in Int /\ b \in Int /\ x \in Int /\ y \in Int /\ a <= x /\ x < b /\ X <= y /\ y <= Y
  OBVIOUS
<1>2. n * (A * B) = a * B /\ (n + 1) * (A * B) = b * B /\ y * 10000 = x * B
  OBVIOUS
<1> HIDE DEF a, b, x, y
<1>3. a * B <= x * B
  <2>1. PICK k \in Nat : x = a + k
    <3>1. x - a \in Nat /\ x = a + (x - a)
      BY <1>1
    <3> QED BY <3>1
  <2>2. x * B = a * B + k * B /\ k * B \in Nat /\ a * B \in Int
    BY <1>1, <2>1
  <2> QED BY <2>2
<1>4. x * B < b * B
  <2>1. PICK k \in Nat : b = x + 1 + k
    <3>1. b - x - 1 \in Nat /\ b = x + 1 + (b - x - 1)
      BY <1>1
    <3> QED BY <3>1
  <2>2. b * B = x * B + B + k * B /\ k * B \in Nat /\ x * B \in Int
    BY <1>1, <2>1
  <2> QED BY <2>2
<1>5. a * B \in Int /\ b * B \in Int /\ x * B \in Int
  BY <1>1
<1> QED BY <1>1, <1>2, <1>3, <1>4, <1>5

(* The text of a double with a fraction is close to it. *)
LEMMA AllClose == \A d \in Double : Close(d)
<1> SUFFICES ASSUME NEW d \in Double, d.exp2 < MantissaBits - 1 PROVE Close(d)
  BY DEF Close
<1> DEFINE f == ToFloat(d)
           n == Read(brubeck_ftoa(f))
           e == d.exp2
           D == d.mantissa
           X == D - Half
           Y == D + Half
           s == DoubleBits - 1 - e
           one == Pow(2, s)
<1>1. /\ e \in Int /\ MantissaBits \in Nat \ {0} /\ DoubleBits \in Nat /\ Tiny \in Nat
      /\ MantissaBits < DoubleBits /\ MantissaBits <= MaxExp /\ MaxExp \in Nat
      /\ e < MantissaBits - 1 /\ D \in Nat /\ D < Pow(2, DoubleBits) /\ Half \in Nat \ {0}
  <2>1. e \in (0 - Tiny - 3) .. (MaxExp + 1) /\ D \in Pow(2, DoubleBits - 1) .. Pow(2, DoubleBits) - 1
    BY DEF Double
  <2>2. DoubleBits \in Nat /\ DoubleBits - 1 \in Nat
    BY WidthAssumption
  <2>3. Pow(2, DoubleBits - 1) \in Nat /\ Pow(2, DoubleBits) \in Nat
    BY <2>2, PowOfTwo
  <2>4. D \in Nat /\ D < Pow(2, DoubleBits)
    <3> DEFINE l == Pow(2, DoubleBits - 1)
               h == Pow(2, DoubleBits)
    <3>1. D \in l .. h - 1 /\ l \in Nat /\ h \in Nat
      BY <2>1, <2>3
    <3> HIDE DEF l, h, D
    <3>2. D \in Nat /\ D < h
      BY <3>1
    <3> QED BY <3>2 DEF h
  <2> QED BY <2>1, <2>4, Units, WidthAssumption
<1>2. s \in Nat /\ one \in Nat \ {0}
  <2>1. s \in Nat
    BY <1>1
  <2> HIDE DEF s
  <2> QED BY <2>1, PowOfTwo
<1>3. f \in Float
  BY ToFloatIs
<1>4. n * one <= Y * 10000 /\ X * 10000 < (n + 1) * one
  <2>1. CASE e < 0 - Tiny - 2
    <3>1. f.exp2 = 0 - Tiny - 2
      BY <1>1, <2>1 DEF ToFloat
    <3>2. n = 0
      <4>1. f.exp2 < 0 - Tiny
        BY <1>1, <3>1
      <4> HIDE DEF f
      <4> QED BY <1>3, <4>1, TinyReads
    <3>3. D * 10000 < one
      <4>1. DoubleBits + Tiny <= s
        BY <1>1, <2>1
      <4> HIDE DEF s, D
      <4> QED BY <1>1, <1>2, <4>1, TinyBound
    <3> HIDE DEF n, one, D
    <3> QED BY SMTT(30), <1>1, <1>2, <3>2, <3>3
  <2>2. CASE e >= 0 - Tiny - 2
    <3>1. PICK c \in {0, 1} :
            LET B == Pow(2, DoubleBits - MantissaBits + c) IN
            /\ f.exp2 = e + c /\ X <= f.mantissa * B /\ f.mantissa * B <= Y
      BY <1>1, <2>2, ToFloatIs
    <3> DEFINE q == f.mantissa
               k == DoubleBits - MantissaBits + c
               B == Pow(2, k)
               A == Pow(2, Scale(f))
    <3>2. /\ Scale(f) \in Nat /\ k \in Nat /\ s = Scale(f) + k
      <4>1. f.exp2 = e + c /\ (c = 0 \/ c = 1)
        BY <3>1
      <4>2. Scale(f) = MantissaBits - 1 - (e + c)
        BY <4>1 DEF Scale
      <4> QED BY <1>1, <4>1, <4>2
    <3>3. one = A * B /\ A \in Nat \ {0} /\ B \in Nat \ {0}
      <4>1. 2 \in Nat \ {0}
        OBVIOUS
      <4> HIDE DEF k, s
      <4> QED BY <3>2, <4>1, PowFacts
    <3>4. n * A <= q * 10000 /\ q * 10000 < (n + 1) * A
      <4> HIDE DEF f
      <4>1. Truncated(f)
        BY <1>3, FtoaCuts
      <4>2. Scale(f) >= 0
        BY <3>2
      <4>3. /\ Read(brubeck_ftoa(f)) * Pow(2, Scale(f)) <= f.mantissa * Pow(10, FLOAT_PRECISION)
            /\ f.mantissa * Pow(10, FLOAT_PRECISION) < (Read(brubeck_ftoa(f)) + 1) * Pow(2, Scale(f))
        BY Zenon, <4>1, <4>2 DEF Truncated
      <4>4. Pow(10, FLOAT_PRECISION) = 10000
        BY PowersOfTen DEF FLOAT_PRECISION
      <4> QED BY <4>3, <4>4
    <3>5. q \in Int /\ X \in Int /\ Y \in Int /\ X <= q * B /\ q * B <= Y
      <4>1. q \in Int
        BY <1>3, FloatParts
      <4> HIDE DEF f
      <4> QED BY <1>1, <3>1, <4>1
    <3>6. n \in Int
      <4> HIDE DEF f
      <4> QED BY <1>3, <3>2, FloatsCut DEF ReadsInt
    <3> HIDE DEF n, A, B, X, Y, q, one
    <3> QED BY <3>3, <3>4, <3>5, <3>6, CutNear
  <2> QED BY <1>1, <2>1, <2>2
<1> HIDE DEF n
<1> QED BY <1>4, PowersOfTen DEF Close, FLOAT_PRECISION, n, Half

(* Whatever doubles plaintext_each is given to send, what it writes reads as the nearest
   float, cut to four decimals and to the width of brubeck_itoa, and is no further from
   the sample than half a unit of the float and the digits that were cut. *)
THEOREM TextsClose == Spec => []TextCloseToSample
<1>1. TypeOK => TextCloseToSample
  BY FtoaCuts, ToFloatIs, AllClose, ValueAssumption DEF TypeOK, TextCloseToSample
<1> QED BY <1>1, TypeCorrect, PTL
=============================================================================
