---------------------------- MODULE StatsdProofs ----------------------------
(***************************************************************************)
(* A buffer that the statsd worker has parsed yields nothing when it is    *)
(* parsed again, and the parser reads every line as the grammar does, for  *)
(* any datagrams and any number of buffers.                                *)
(***************************************************************************)
EXTENDS Statsd, DataLemmas, TLAPS

Text == Seq(Char)

LEMMA Characters == "nul" \in Char
BY DEF Char

(* A text is what its characters are. *)
LEMMA TextOf ==
  ASSUME NEW n \in Nat, NEW f \in [1 .. n -> Char]
  PROVE  f \in Text /\ Len(f) = n
BY DEF Text

(* The first and the last element of a finite set of positions. *)
LEMMA MinFacts ==
  ASSUME NEW S \in SUBSET Nat, S # {}
  PROVE  Min(S) \in S /\ \A n \in S : Min(S) <= n
<1>1. \E m \in S : \A n \in S : m =< n
  BY LeastNumber
<1> QED
  BY Zenon, <1>1 DEF Min

LEMMA MaxFacts ==
  ASSUME NEW S \in SUBSET Nat, S # {}, NEW k \in Nat, \A n \in S : n <= k
  PROVE  Max(S) \in S /\ \A n \in S : n <= Max(S)
<1> DEFINE T == {j \in Nat : \A n \in S : n <= j}
<1>1. PICK m \in T : \A j \in T : m <= j
  BY LeastNumber
<1>2. m \in S
  <2> SUFFICES ASSUME m \notin S PROVE FALSE
    OBVIOUS
  <2>1. \A n \in S : n \in Nat /\ n <= m - 1 /\ m - 1 \in Nat
    BY <1>1
  <2>2. m - 1 \in T
    BY Zenon, <1>1, <2>1
  <2> QED
    BY <1>1, <2>2
<1>3. \E x \in S : \A y \in S : x >= y
  BY <1>1, <1>2
<1>4. Max(S) \in S /\ \A y \in S : Max(S) >= y
  BY <1>3 DEF Max
<1> QED
  BY <1>4

(* Where the key of a text ends. *)
Stops == {":", " ", "nul"}

LEMMA KeyEndFacts ==
  ASSUME NEW s \in Text
  PROVE  /\ KeyEnd(s) \in 1 .. (Len(s) + 1)
         /\ At(s, KeyEnd(s)) \in Stops
         /\ \A n \in 1 .. (KeyEnd(s) - 1) : s[n] \notin Stops
<1> DEFINE S == {j \in 1 .. (Len(s) + 1) : At(s, j) \in Stops}
<1>1. Len(s) \in Nat /\ DOMAIN s = 1 .. Len(s)
  BY DEF Text
<1>2. KeyEnd(s) = Min(S)
  <2>1. KeyEnd(s) = First(s, 1, Stops)
    BY DEF KeyEnd, Stops
  <2> QED
    BY <2>1 DEF First
<1>3. Len(s) + 1 \in S
  <2>1. Len(s) + 1 \notin DOMAIN s
    BY <1>1
  <2>2. At(s, Len(s) + 1) \in Stops
    BY <2>1 DEF At, Stops
  <2> QED
    BY <1>1, <2>2
<1>4. S \in SUBSET Nat
  BY <1>1
<1>5. Min(S) \in S /\ \A n \in S : Min(S) <= n
  BY <1>3, <1>4, MinFacts
<1>6. ASSUME NEW n \in 1 .. (KeyEnd(s) - 1) PROVE s[n] \notin Stops
  <2>1. n \in DOMAIN s /\ n \in Nat /\ n < Min(S)
    BY <1>1, <1>2, <1>5
  <2>2. At(s, n) \notin Stops
    BY <1>1, <1>5, <2>1
  <2> QED
    BY <2>1, <2>2 DEF At
<1> QED
  BY <1>2, <1>5, <1>6

(* Where a line ends, and what it holds. *)
LEMMA LineFacts ==
  ASSUME NEW s \in Text, NEW b \in Starts(s)
  PROVE  LET e == StatEnd(s, b) IN
         /\ e \in b .. (Len(s) + 1) /\ (e = Len(s) + 1 \/ s[e] = "nl")
         /\ \A n \in b .. (e - 1) : s[n] # "nl"
         /\ Line(s, b) \in Text /\ Len(Line(s, b)) = e - b
         /\ \A n \in 1 .. (e - b) : Line(s, b)[n] = s[b + n - 1]
<1> DEFINE S == {n \in b .. (Len(s) + 1) : n = Len(s) + 1 \/ s[n] = "nl"}
           e == StatEnd(s, b)
<1>1. Len(s) \in Nat /\ DOMAIN s = 1 .. Len(s) /\ b \in 1 .. Len(s)
  BY DEF Text, Starts
<1>2. e = Min(S)
  BY DEF StatEnd
<1>3. Len(s) + 1 \in S /\ S \in SUBSET Nat
  BY <1>1
<1>4. e \in S /\ \A n \in S : e <= n
  BY <1>2, <1>3, MinFacts
<1> HIDE DEF e
<1>5. e \in b .. (Len(s) + 1) /\ (e = Len(s) + 1 \/ s[e] = "nl")
  BY <1>4
<1>6. ASSUME NEW n \in b .. (e - 1) PROVE s[n] # "nl"
  <2>1. n \in b .. (Len(s) + 1) /\ n < e /\ n # Len(s) + 1
    BY <1>1, <1>5
  <2>2. n \notin S
    BY <1>4, <1>5, <2>1
  <2> QED
    BY <2>1, <2>2
<1>7. Line(s, b) = SubSeq(s, b, e - 1)
  BY DEF Line, e
<1>8. /\ SubSeq(s, b, e - 1) \in Text /\ Len(SubSeq(s, b, e - 1)) = e - b
      /\ \A n \in 1 .. (e - b) : SubSeq(s, b, e - 1)[n] = s[b + n - 1]
  BY <1>1, <1>5 DEF Text
<1> QED
  BY <1>5, <1>6, <1>7, <1>8 DEF e

(* What the parser leaves of a line: its key is cut off, and nothing else changes. *)
LEMMA AfterParseFacts ==
  ASSUME NEW s \in Text
  PROVE  /\ AfterParse(s) \in Text /\ Len(AfterParse(s)) = Len(s)
         /\ \A n \in 1 .. Len(s) : AfterParse(s)[n] \in {s[n], "nul"}
         /\ \A n \in 1 .. (KeyEnd(s) - 1) : AfterParse(s)[n] \notin Stops
         /\ KeyEnd(s) <= Len(s) => AfterParse(s)[KeyEnd(s)] \in {" ", "nul"}
<1> DEFINE k == KeyEnd(s)
<1>1. Len(s) \in Nat /\ DOMAIN s = 1 .. Len(s) /\ s \in [1 .. Len(s) -> Char]
  BY DEF Text
<1>2. /\ k \in 1 .. (Len(s) + 1) /\ At(s, k) \in Stops
      /\ \A n \in 1 .. (k - 1) : s[n] \notin Stops
  BY KeyEndFacts
<1> HIDE DEF k
<1>3. CASE At(s, k) = ":"
  <2>1. k \in DOMAIN s /\ AfterParse(s) = [s EXCEPT ![k] = "nul"]
    BY <1>3 DEF At, AfterParse, k
  <2>2. AfterParse(s) \in Text /\ Len(AfterParse(s)) = Len(s)
    <3>1. AfterParse(s) \in [1 .. Len(s) -> Char]
      BY <1>1, <2>1, Characters
    <3> QED
      BY <1>1, <3>1, TextOf
  <2>3. /\ \A n \in 1 .. Len(s) : AfterParse(s)[n] \in {s[n], "nul"}
        /\ AfterParse(s)[k] = "nul"
    BY <1>1, <2>1
  <2>4. ASSUME NEW n \in 1 .. (k - 1) PROVE AfterParse(s)[n] \notin Stops
    <3>1. n \in DOMAIN s /\ n # k
      BY <1>1, <1>2
    <3> QED
      BY <1>2, <2>1, <3>1
  <2> QED
    BY <2>2, <2>3, <2>4 DEF k
<1>4. CASE At(s, k) # ":"
  <2>1. AfterParse(s) = s
    BY <1>4 DEF AfterParse, k
  <2>2. k <= Len(s) => s[k] \in {" ", "nul"}
    <3> SUFFICES ASSUME k <= Len(s) PROVE s[k] \in {" ", "nul"}
      OBVIOUS
    <3>1. k \in DOMAIN s
      BY <1>1, <1>2
    <3>2. At(s, k) = s[k]
      BY <3>1 DEF At
    <3> QED
      BY <1>2, <1>4, <3>2 DEF Stops
  <2> QED
    BY <1>2, <2>1, <2>2 DEF k
<1> QED
  BY <1>3, <1>4

(* The line that a position other than a '\n' belongs to. *)
LEMMA LineOf ==
  ASSUME NEW s \in Text, NEW n \in DOMAIN s, s[n] # "nl"
  PROVE  LET b == Max({x \in Starts(s) : x <= n}) IN
         /\ b \in Starts(s) /\ b <= n /\ n < StatEnd(s, b)
         /\ \A x \in Starts(s) : x <= n => x <= b
<1> DEFINE S == {x \in Starts(s) : x <= n}
           b == Max(S)
<1>1. Len(s) \in Nat /\ DOMAIN s = 1 .. Len(s)
  BY DEF Text
<1>2. 1 \in S /\ S \in SUBSET Nat
  BY <1>1 DEF Starts
<1>3. b \in S /\ \A x \in S : x <= b
  <2>1. n \in Nat /\ \A x \in S : x <= n
    BY <1>1
  <2>2. S # {} /\ S \in SUBSET Nat
    BY <1>2
  <2> HIDE DEF S
  <2> QED
    BY <2>1, <2>2, MaxFacts
<1> HIDE DEF b
<1>4. b \in Starts(s) /\ b <= n /\ \A x \in Starts(s) : x <= n => x <= b
  BY <1>3
<1> DEFINE e == StatEnd(s, b)
<1>5. /\ e \in b .. (Len(s) + 1) /\ (e = Len(s) + 1 \/ s[e] = "nl")
  BY <1>4, LineFacts
<1> HIDE DEF e
<1>6. n < e
  <2> SUFFICES ASSUME e <= n PROVE FALSE
    BY <1>1, <1>5
  <2>1. b \in Nat /\ e \in 1 .. Len(s) /\ s[e] = "nl" /\ e < n
    BY <1>1, <1>4, <1>5 DEF Starts
  <2>2. e + 1 \in Starts(s) /\ e + 1 <= n
    BY <1>1, <2>1 DEF Starts
  <2> QED
    BY <1>4, <1>5, <2>1, <2>2
<1> QED
  BY <1>4, <1>6 DEF b, e
-----------------------------------------------------------------------------
(* A text without messages: it is one line, in which no ':' ends a key. *)
Spent(s) ==
  /\ s \in Text
  /\ \A n \in DOMAIN s : s[n] # "nl"
  /\ \A n \in DOMAIN s : s[n] = ":" => \E j \in 1 .. (n - 1) : s[j] \in {" ", "nul"}

(* What is left of any text once it is parsed has no messages. *)
LEMMA CutSpent == ASSUME NEW s \in Text PROVE Spent(Cut(s))
<1> DEFINE c == Cut(s)
           Begin(n) == Max({x \in Starts(s) : x <= n})
           Part(n) == AfterParse(Line(s, Begin(n)))[n - Begin(n) + 1]
<1>1. Len(s) \in Nat /\ DOMAIN s = 1 .. Len(s) /\ s \in [1 .. Len(s) -> Char]
  BY DEF Text
<1>2. DOMAIN c = DOMAIN s /\ \A n \in DOMAIN s : c[n] = IF s[n] = "nl" THEN "nul" ELSE Part(n)
  BY DEF Cut
<1> HIDE DEF c
<1>3. ASSUME NEW n \in DOMAIN s, s[n] # "nl"
      PROVE  LET b == Begin(n) IN
             /\ b \in Starts(s) /\ b \in Nat /\ Line(s, b) \in Text
             /\ n - b + 1 \in 1 .. Len(Line(s, b)) /\ Line(s, b)[n - b + 1] = s[n]
  <2> DEFINE b == Begin(n)
             e == StatEnd(s, b)
  <2>1. b \in Starts(s) /\ b <= n /\ n < e
    BY <1>3, LineOf
  <2>2. /\ e \in b .. (Len(s) + 1) /\ Line(s, b) \in Text /\ Len(Line(s, b)) = e - b
        /\ \A j \in 1 .. (e - b) : Line(s, b)[j] = s[b + j - 1]
    BY <2>1, LineFacts
  <2> HIDE DEF b, e
  <2>3. b \in Nat /\ n \in Nat /\ e \in Nat
    BY <1>1, <2>1, <2>2 DEF Starts
  <2>4. n - b + 1 \in 1 .. (e - b) /\ b + (n - b + 1) - 1 = n
    BY <2>1, <2>2, <2>3
  <2> QED
    BY <2>1, <2>2, <2>3, <2>4 DEF b, e
<1>4. ASSUME NEW n \in DOMAIN s PROVE c[n] \in Char /\ c[n] # "nl"
  <2>1. CASE s[n] = "nl"
    BY <1>2, <2>1, Characters
  <2>2. CASE s[n] # "nl"
    <3>1. Part(n) \in {s[n], "nul"}
      BY <1>3, <2>2, AfterParseFacts
    <3> QED
      BY <1>1, <1>2, <2>2, <3>1, Characters
  <2> QED
    BY <2>1, <2>2
<1>5. c \in Text
  <2>1. c \in [1 .. Len(s) -> Char]
    <3>1. c = [n \in DOMAIN s |-> c[n]]
      BY DEF c, Cut
    <3> QED
      BY <1>1, <1>4, <3>1
  <2> QED
    BY <1>1, <2>1, TextOf
<1>6. ASSUME NEW n \in DOMAIN s, c[n] = ":"
      PROVE  \E j \in 1 .. (n - 1) : c[j] \in {" ", "nul"}
  <2> DEFINE l == Line(s, 1)
             k == KeyEnd(l)
             e == StatEnd(s, 1)
  <2>1. 1 \in Starts(s)
    BY <1>1 DEF Starts
  <2>2. /\ e \in 1 .. (Len(s) + 1) /\ (e = Len(s) + 1 \/ s[e] = "nl")
        /\ \A j \in 1 .. (e - 1) : s[j] # "nl"
        /\ l \in Text /\ Len(l) = e - 1
    BY <2>1, LineFacts
  <2> HIDE DEF l, e
  <2>3. ASSUME NEW j \in 1 .. (e - 1) PROVE c[j] = AfterParse(l)[j] /\ j \in DOMAIN s
    <3>1. j \in DOMAIN s /\ s[j] # "nl"
      BY <1>1, <2>2
    <3>2. Begin(j) \in Starts(s) /\ Begin(j) <= j
      BY <3>1, LineOf
    <3>3. Begin(j) = 1
      <4> HIDE DEF Begin
      <4> SUFFICES ASSUME Begin(j) # 1 PROVE FALSE
        OBVIOUS
      <4>1. Begin(j) \in 1 .. Len(s) /\ s[Begin(j) - 1] = "nl"
        BY <1>1, <3>2 DEF Starts
      <4>2. Begin(j) - 1 \in 1 .. (e - 1)
        BY <1>1, <2>2, <3>1, <3>2, <4>1
      <4> QED
        BY <2>2, <4>1, <4>2
    <3>4. c[j] = Part(j)
      BY <1>2, <3>1
    <3>5. j - 1 + 1 = j
      OBVIOUS
    <3> QED
      BY <3>1, <3>3, <3>4, <3>5 DEF l
  <2>4. /\ k \in 1 .. e
        /\ \A j \in 1 .. (k - 1) : AfterParse(l)[j] \notin Stops
        /\ k < e => AfterParse(l)[k] \in {" ", "nul"}
    <3>1. k \in 1 .. (Len(l) + 1) /\ Len(l) + 1 = e
      BY <2>2, KeyEndFacts
    <3>2. k < e => k <= Len(l)
      BY <2>2, <3>1
    <3> QED
      BY <2>2, <3>1, <3>2, AfterParseFacts
  <2> HIDE DEF k
  <2> DEFINE z == Len(s)
  <2>9. /\ k \in Nat /\ e \in Nat /\ n \in Nat /\ z \in Nat /\ DOMAIN s = 1 .. z
        /\ 1 <= k /\ k <= e /\ e <= z + 1 /\ 1 <= n /\ n <= z
    <3>1. z \in Nat /\ DOMAIN s = 1 .. z /\ n \in 1 .. z
      BY <1>1
    <3>2. e \in 1 .. (z + 1) /\ k \in 1 .. e
      BY <2>2, <2>4
    <3> HIDE DEF z
    <3> QED
      BY ONLY <3>1, <3>2
  <2> HIDE DEF z
  <2>5. k < e \/ e \in DOMAIN s => k \in DOMAIN s /\ c[k] \in {" ", "nul"}
    <3>1. CASE k < e
      <4>1. k \in 1 .. (e - 1)
        BY <2>9, <3>1
      <4> QED
        BY <2>3, <2>4, <3>1, <4>1
    <3>2. CASE ~(k < e) /\ e \in DOMAIN s
      <4>1. k = e
        BY <2>9, <3>2
      <4>2. s[e] = "nl"
        BY <2>2, <2>9, <3>2 DEF z
      <4> QED
        BY <1>2, <3>2, <4>1, <4>2
    <3> QED
      BY <3>1, <3>2
  <2>6. n >= k
    <3> SUFFICES ASSUME n < k PROVE FALSE
      BY <2>9
    <3>1. n \in 1 .. (e - 1) /\ n \in 1 .. (k - 1)
      BY <2>9
    <3> QED
      BY <1>6, <2>3, <2>4, <3>1 DEF Stops
  <2>7. k < e \/ e \in DOMAIN s
    BY <2>6, <2>9
  <2>8. n # k
    BY <1>6, <2>5, <2>7
  <2>10. k \in 1 .. (n - 1)
    BY <2>6, <2>8, <2>9
  <2> QED
    BY <2>5, <2>7, <2>10
<1> QED
  BY <1>2, <1>4, <1>5, <1>6 DEF Spent, c

(* A text without messages is at most one line, which is not a message. *)
LEMMA SpentYieldsNothing ==
  ASSUME NEW s, Spent(s)
  PROVE  Starts(s) \subseteq {1} /\ \A b \in Starts(s) : MsgParse(Line(s, b)) = <<>>
<1>1. /\ s \in Text /\ Len(s) \in Nat /\ DOMAIN s = 1 .. Len(s)
      /\ \A n \in DOMAIN s : s[n] # "nl"
      /\ \A n \in DOMAIN s : s[n] = ":" => \E j \in 1 .. (n - 1) : s[j] \in {" ", "nul"}
  <2>1. s \in Text
    BY DEF Spent
  <2>2. Len(s) \in Nat /\ DOMAIN s = 1 .. Len(s)
    BY <2>1 DEF Text
  <2> QED
    BY <2>1, <2>2, Zenon DEF Spent
<1>2. Starts(s) \subseteq {1}
  <2> SUFFICES ASSUME NEW b \in Starts(s), b # 1 PROVE FALSE
    OBVIOUS
  <2>1. b \in 1 .. Len(s) /\ s[b - 1] = "nl"
    BY <1>1 DEF Starts
  <2>2. b - 1 \in DOMAIN s
    <3> DEFINE z == Len(s)
    <3>1. z \in Nat /\ b \in 1 .. z /\ DOMAIN s = 1 .. z
      BY <1>1, <2>1
    <3> HIDE DEF z
    <3> QED
      BY ONLY <3>1, b # 1
  <2> QED
    BY <1>1, <2>1, <2>2
<1>3. ASSUME NEW b \in Starts(s) PROVE MsgParse(Line(s, b)) = <<>>
  <2> DEFINE l == Line(s, 1)
             e == StatEnd(s, 1)
             k == KeyEnd(l)
  <2>1. b = 1 /\ 1 \in Starts(s)
    BY <1>2
  <2>2. /\ e \in 1 .. (Len(s) + 1) /\ l \in Text /\ Len(l) = e - 1
        /\ \A n \in 1 .. (e - 1) : l[n] = s[1 + n - 1]
    BY <1>1, <2>1, LineFacts
  <2>3. k \in 1 .. (Len(l) + 1) /\ \A n \in 1 .. (k - 1) : l[n] \notin Stops
    BY <2>2, KeyEndFacts
  <2> HIDE DEF l, e
  <2>4. ASSUME NEW n \in 1 .. (e - 1) PROVE l[n] = s[n] /\ n \in DOMAIN s
    <3> DEFINE z == Len(s)
    <3>1. n \in 1 .. z /\ 1 + n - 1 = n
      <4>1. z \in Nat /\ e \in 1 .. (z + 1)
        BY <1>1, <2>2
      <4> HIDE DEF z
      <4> QED
        BY ONLY <4>1, n \in 1 .. (e - 1)
    <3> QED
      BY <1>1, <2>2, <3>1
  <2>5. At(l, k) # ":"
    <3> HIDE DEF k
    <3> SUFFICES ASSUME At(l, k) = ":" PROVE FALSE
      OBVIOUS
    <3>1. k \in DOMAIN l /\ l[k] = ":"
      BY DEF At
    <3>2. k \in 1 .. (e - 1)
      BY <2>2, <3>1 DEF Text
    <3>3. PICK j \in 1 .. (k - 1) : s[j] \in {" ", "nul"}
      BY <1>1, <2>4, <3>1, <3>2
    <3>4. j \in 1 .. (e - 1)
      BY <2>2, <3>2
    <3> QED
      BY <2>3, <2>4, <3>3, <3>4 DEF Stops
  <2>6. MsgParse(l) = <<>>
    BY <2>5 DEF MsgParse, k
  <2> QED
    BY <2>1, <2>6 DEF l
<1> QED
  BY <1>2, <1>3
-----------------------------------------------------------------------------
(* The buffers that are not waiting to be parsed hold no message. *)
SlotsInv ==
  /\ SIM_PACKETS \in Multimsg /\ slots \in [Slot -> Text]
  /\ i \in 0 .. SIM_PACKETS /\ fresh \in Nat
  /\ \A n \in Slot : i = 0 \/ n < i \/ n > fresh => Spent(slots[n])

CountInv == metrics \in Nat /\ errors \in Nat /\ metrics = sent

WorkerInv == SlotsInv /\ CountInv

(* What the first parse of a buffer, and every other one, does. *)
LEMMA ParseFacts ==
  ASSUME SlotsInv, i > 0, NEW good \in SUBSET Starts(slots[i]),
         \A b \in good : MsgParse(Line(slots[i], b)) # <<>>
  PROVE  /\ i \in Slot /\ slots[i] \in Text
         /\ Cardinality(good) \in Nat /\ Cardinality(Starts(slots[i]) \ good) \in Nat
         /\ i > fresh => /\ Cardinality(good) = 0
                         /\ Cardinality(Starts(slots[i]) \ good) <= 1
                         /\ Cardinality(Starts(slots[i])) <= 1
<1> DEFINE s == slots[i]
           bad == Starts(s) \ good
<1>1. i \in Slot /\ s \in Text
  BY StatsdAssumption DEF SlotsInv, Slot
<1>2. Starts(s) \subseteq 1 .. Len(s) /\ Len(s) \in Nat
  BY <1>1 DEF Starts, Text
<1>3. IsFiniteSet(Starts(s)) /\ IsFiniteSet(good) /\ IsFiniteSet(bad)
  <2>1. IsFiniteSet(1 .. Len(s))
    BY <1>2, FS_Interval
  <2> QED
    BY <1>2, <2>1, FS_Subset
<1>4. Cardinality(good) \in Nat /\ Cardinality(bad) \in Nat
  BY <1>3, FS_CardinalityType
<1>5. ASSUME i > fresh
      PROVE  Cardinality(good) = 0 /\ Cardinality(bad) <= 1 /\ Cardinality(Starts(s)) <= 1
  <2>1. Spent(s)
    BY <1>1, <1>5 DEF SlotsInv
  <2>2. Starts(s) \subseteq {1} /\ good = {} /\ bad \subseteq {1}
    BY <2>1, SpentYieldsNothing
  <2>3. IsFiniteSet({1}) /\ Cardinality({1}) = 1
    BY FS_Singleton
  <2> QED
    BY <2>2, <2>3, FS_EmptySet, FS_Subset
<1> QED
  BY <1>1, <1>4, <1>5

LEMMA WorkerStart == Init => WorkerInv
<1> SUFFICES ASSUME Init PROVE WorkerInv
  OBVIOUS
<1>1. SIM_PACKETS \in Nat /\ SIM_PACKETS \in Multimsg
  BY StatsdAssumption DEF Init
<1>2. Spent(<<>>)
  BY DEF Spent, Text
<1>3. slots \in [Slot -> Text] /\ \A n \in Slot : slots[n] = <<>>
  BY <1>2 DEF Init, Spent
<1> QED
  BY <1>1, <1>2, <1>3 DEF Init, WorkerInv, SlotsInv, CountInv

(* A read fills the first buffers, and leaves the others as they were. *)
LEMMA ReadStep ==
  ASSUME WorkerInv,
         \/ \E n \in Slot : \E ds \in [1 .. n -> Datagram[SIM_PACKETS]] : RecvMmsg(ds)
         \/ \E d \in Datagram[SIM_PACKETS] : RecvFrom(d)
  PROVE  WorkerInv'
<1>1. /\ SIM_PACKETS \in Multimsg /\ slots \in [Slot -> Text]
      /\ SIM_PACKETS \in Nat /\ SIM_PACKETS > 0
      /\ Datagram[SIM_PACKETS] \subseteq Text
  BY StatsdAssumption DEF WorkerInv, SlotsInv, Text
<1>2. UNCHANGED <<SIM_PACKETS, metrics, errors, sent>> /\ i = 0 /\ i' = 1
  BY DEF RecvMmsg, RecvFrom
<1>3. CountInv'
  BY <1>2 DEF WorkerInv, CountInv
<1>4. \A n \in Slot : Spent(slots[n])
  BY <1>2 DEF WorkerInv, SlotsInv
<1>5. CASE \E n \in Slot : \E ds \in [1 .. n -> Datagram[SIM_PACKETS]] : RecvMmsg(ds)
  <2>0. PICK m \in Slot : \E ds \in [1 .. m -> Datagram[SIM_PACKETS]] : RecvMmsg(ds)
    BY <1>5
  <2>1. PICK ds \in [1 .. m -> Datagram[SIM_PACKETS]] : RecvMmsg(ds)
    BY <2>0
  <2>2. m \in Nat /\ Len(ds) = m
    BY <1>1 DEF Slot
  <2>3. slots' = [n \in Slot |-> IF n <= m THEN ds[n] ELSE slots[n]] /\ fresh' = m
    BY <2>1, <2>2 DEF RecvMmsg
  <2>4. ASSUME NEW n \in Slot PROVE slots'[n] \in Text /\ (n > m => Spent(slots'[n]))
    <3>1. n \in Nat /\ n >= 1
      BY <1>1 DEF Slot
    <3>2. CASE n <= m
      BY <1>1, <2>2, <2>3, <3>1, <3>2
    <3>3. CASE ~(n <= m)
      BY <1>1, <1>4, <2>2, <2>3, <3>1, <3>3
    <3> QED
      BY <3>2, <3>3
  <2>5. Slot' = Slot /\ slots' \in [Slot -> Text]
    BY <1>2, <2>3, <2>4 DEF Slot
  <2>6. \A n \in Slot : n < 1 \/ n > m => Spent(slots'[n])
    BY <1>1, <2>4 DEF Slot
  <2>7. SlotsInv'
    BY <1>1, <1>2, <2>2, <2>3, <2>5, <2>6 DEF SlotsInv
  <2> QED
    BY <1>3, <2>7 DEF WorkerInv
<1>6. CASE \E d \in Datagram[SIM_PACKETS] : RecvFrom(d)
  <2>1. PICK d \in Datagram[SIM_PACKETS] : RecvFrom(d)
    BY <1>6
  <2>2. slots' = [slots EXCEPT ![1] = d] /\ fresh' = 1 /\ SIM_PACKETS = 1 /\ d \in Text
    BY <1>1, <2>1 DEF RecvFrom
  <2>3. Slot' = Slot /\ slots' \in [Slot -> Text]
    BY <1>1, <1>2, <2>2 DEF Slot
  <2>4. \A n \in Slot : ~(n < 1 \/ n > 1)
    BY <2>2 DEF Slot
  <2>5. SlotsInv'
    BY <1>1, <1>2, <2>2, <2>3, <2>4 DEF SlotsInv
  <2> QED
    BY <1>3, <2>5 DEF WorkerInv
<1> QED
  BY <1>5, <1>6

(* A parse, of a filled buffer or of an old one. *)
LEMMA ParseStep ==
  ASSUME WorkerInv, NEW before, PacketParse(before)
  PROVE  /\ WorkerInv'
         /\ i > fresh => errors' <= errors + 1 /\ Cardinality(DOMAIN parsed') <= 1
<1> DEFINE starts == Starts(slots[i])
           Result(x) == LineParse(IF x = 1 THEN before ELSE "nul", Line(slots[i], x))
           good == {x \in starts : Result(x) # <<>>}
           g == Cardinality(good)
           b == Cardinality(starts \ good)
<1>1. SlotsInv /\ CountInv
  BY DEF WorkerInv
<1>2. i > 0 /\ i \in Nat /\ fresh \in Nat /\ SIM_PACKETS \in Nat /\ i <= SIM_PACKETS
  BY <1>1, StatsdAssumption DEF PacketParse, SlotsInv
<1>3. /\ i \in Slot /\ slots[i] \in Text /\ g \in Nat /\ b \in Nat
      /\ i > fresh => g = 0 /\ b <= 1 /\ Cardinality(starts) <= 1
  <2>1. \A x \in good : MsgParse(Line(slots[i], x)) # <<>>
    BY DEF LineParse
  <2> HIDE DEF Result
  <2> QED
    BY <1>1, <1>2, <2>1, ParseFacts
<1>4. /\ metrics' = metrics + g /\ errors' = errors + b
      /\ sent' = sent + (IF i <= fresh THEN g ELSE 0)
      /\ slots' = [slots EXCEPT ![i] = Cut(slots[i])]
      /\ i' = (IF i = SIM_PACKETS THEN 0 ELSE i + 1)
      /\ UNCHANGED <<SIM_PACKETS, fresh>>
      /\ DOMAIN parsed' = starts
  BY DEF PacketParse
<1> HIDE DEF starts, Result, good, g, b
<1>5. CountInv'
  BY <1>1, <1>2, <1>3, <1>4 DEF CountInv
<1>6. Spent(Cut(slots[i])) /\ Cut(slots[i]) \in Text
  BY <1>3, CutSpent DEF Spent
<1>7. SlotsInv'
  <2>1. Slot' = Slot /\ slots' \in [Slot -> Text]
    BY <1>1, <1>3, <1>4, <1>6 DEF SlotsInv, Slot
  <2>2. i' \in 0 .. SIM_PACKETS
    BY <1>2, <1>4
  <2>3. ASSUME NEW n \in Slot, i' = 0 \/ n < i' \/ n > fresh PROVE Spent(slots'[n])
    <3>1. n \in Nat /\ n <= SIM_PACKETS
      BY <1>2 DEF Slot
    <3>2. CASE n = i
      BY <1>1, <1>3, <1>4, <1>6, <3>2 DEF SlotsInv
    <3>3. CASE n # i
      <4>1. n < i \/ n > fresh
        BY <1>2, <1>4, <2>3, <3>1, <3>3
      <4> QED
        BY <1>1, <1>3, <1>4, <3>3, <4>1 DEF SlotsInv
    <3> QED
      BY <3>2, <3>3
  <2> QED
    BY <1>1, <1>4, <2>1, <2>2, <2>3 DEF SlotsInv
<1> QED
  BY <1>1, <1>3, <1>4, <1>5, <1>7 DEF WorkerInv, CountInv

(* Every step keeps the invariant, and an old buffer costs at most one error. *)
LEMMA WorkerStep ==
  WorkerInv /\ [Next]_vars =>
    /\ WorkerInv'
    /\ [i > fresh => errors' <= errors + 1 /\ Cardinality(DOMAIN parsed') <= 1]_vars
<1> SUFFICES ASSUME WorkerInv, [Next]_vars
             PROVE  /\ WorkerInv'
                    /\ \/ UNCHANGED vars
                       \/ i > fresh => errors' <= errors + 1 /\ Cardinality(DOMAIN parsed') <= 1
  OBVIOUS
<1>1. i = 0 => ~(i > fresh)
  BY DEF WorkerInv, SlotsInv
<1>2. CASE \/ \E n \in Slot : \E ds \in [1 .. n -> Datagram[SIM_PACKETS]] : RecvMmsg(ds)
           \/ \E d \in Datagram[SIM_PACKETS] : RecvFrom(d)
  BY <1>1, <1>2, ReadStep DEF RecvMmsg, RecvFrom
<1>3. CASE RecvFails
  <2>1. /\ UNCHANGED <<SIM_PACKETS, slots, i, metrics, fresh, sent>> /\ i = 0
        /\ errors' = errors + 1 \/ errors' = errors
    BY <1>3 DEF RecvFails
  <2> QED
    BY <1>1, <2>1 DEF WorkerInv, SlotsInv, CountInv, Slot
<1>4. CASE \E before \in Preceding : PacketParse(before)
  BY <1>4, ParseStep
<1>5. CASE UNCHANGED vars
  BY <1>5 DEF vars, WorkerInv, SlotsInv, CountInv, Slot
<1> QED
  BY <1>2, <1>3, <1>4, <1>5 DEF Next

(* Whatever clients send and however few of its buffers recvmmsg fills: no message is
   recorded a second time. *)
THEOREM RecordedOnceAlways == Spec => []RecordedOnce
<1>1. WorkerInv => RecordedOnce
  BY DEF WorkerInv, CountInv, RecordedOnce
<1> QED
  BY WorkerStart, WorkerStep, <1>1, PTL DEF Spec

(* A buffer that was not filled costs at most one error, however many lines it had. *)
THEOREM StaleBounded == Spec => StaleCostsOneError
BY WorkerStart, WorkerStep, PTL DEF Spec, StaleCostsOneError
-----------------------------------------------------------------------------
(***************************************************************************)
(* The scanner against the grammar.                                        *)
(***************************************************************************)
LEMMA DigitFacts ==
  /\ \A c \in Digit : Digitval(c) \in 0 .. 9
  /\ "nul" \notin Digit /\ "|" \notin Digit /\ "." \notin Digit /\ "-" \notin Digit /\ "+" \notin Digit
  /\ "1" \in Digit /\ Digitval("1") = 1
<1> DEFINE N == Numeral
<1>1. DOMAIN N = 1 .. 10
  BY DEF Numeral
<1>2. Digit = {N[n] : n \in 1 .. 10}
  BY <1>1 DEF Digit, Range
<1>3. N[1] = "0" /\ N[2] = "1" /\ N[3] = "2" /\ N[4] = "3" /\ N[5] = "4" /\ N[6] = "5"
      /\ N[7] = "6" /\ N[8] = "7" /\ N[9] = "8" /\ N[10] = "9"
  BY DEF Numeral
<1> HIDE DEF N
<1>4. ASSUME NEW c \in Digit PROVE Digitval(c) \in 0 .. 9 /\ N[Digitval(c) + 1] = c
  <2>1. PICK n \in 1 .. 10 : c = N[n]
    BY <1>2
  <2>2. n - 1 \in 0 .. 9 /\ N[(n - 1) + 1] = c
    BY <2>1
  <2>3. \E d \in 0 .. 9 : N[d + 1] = c
    BY <2>2
  <2>4. Digitval(c) = CHOOSE d \in 0 .. 9 : N[d + 1] = c
    BY DEF Digitval, N
  <2> QED BY <2>3, <2>4
<1>5. \A n \in 1 .. 10 : N[n] \in {"0", "1", "2", "3", "4", "5", "6", "7", "8", "9"}
  BY <1>3
<1>6. "1" \in Digit
  BY <1>2, <1>3
<1>7. Digitval("1") = 1
  <2>1. Digitval("1") \in 0 .. 9 /\ N[Digitval("1") + 1] = "1"
    BY <1>4, <1>6
  <2> QED BY <1>3, <2>1
<1>8. Digit \subseteq {"0", "1", "2", "3", "4", "5", "6", "7", "8", "9"}
  BY <1>2, <1>5
<1> QED BY <1>4, <1>6, <1>7, <1>8

(* Reading a text at a position, also past its end. *)
LEMMA AtFacts ==
  ASSUME NEW s \in Text
  PROVE  /\ Len(s) \in Nat /\ DOMAIN s = 1 .. Len(s) /\ At(s, Len(s) + 1) = "nul" /\ At(s, 0) = "nul"
         /\ \A n \in 1 .. Len(s) : At(s, n) = s[n] /\ s[n] \in Char
         /\ \A n \in Int : At(s, n) # "nul" => n \in 1 .. Len(s)
<1>1. Len(s) \in Nat /\ DOMAIN s = 1 .. Len(s) /\ \A n \in 1 .. Len(s) : s[n] \in Char
  BY DEF Text
<1> QED BY <1>1 DEF At

(* The first position from a on that is not in cs, when '\0' is not. *)
Skipped(s, a, cs, k) ==
  k \in a .. (Len(s) + 1) /\ At(s, k) \notin cs /\ \A n \in a .. (k - 1) : At(s, n) \in cs

(* SkipAll returns that position, and only that. *)
LEMMA SkipFacts ==
  ASSUME NEW s \in Text, NEW a \in 1 .. (Len(s) + 1), NEW cs, "nul" \notin cs
  PROVE  /\ Skipped(s, a, cs, SkipAll(s, a, cs))
         /\ \A k : Skipped(s, a, cs, k) => SkipAll(s, a, cs) = k
<1> DEFINE S == {n \in a .. (Len(s) + 1) : At(s, n) \notin cs}
           m == SkipAll(s, a, cs)
<1>1. Len(s) \in Nat /\ At(s, Len(s) + 1) = "nul"
  BY AtFacts
<1>2. Len(s) + 1 \in S /\ S \in SUBSET Nat
  BY <1>1
<1>3. m = Min(S)
  BY DEF SkipAll
<1>4. m \in S /\ \A n \in S : m <= n
  <2> HIDE DEF S, m
  <2> QED BY <1>2, <1>3, MinFacts
<1> HIDE DEF m
<1>5. ASSUME NEW n \in a .. (m - 1) PROVE At(s, n) \in cs
  <2>1. n \in a .. (Len(s) + 1) /\ ~ (m <= n)
    BY <1>1, <1>4
  <2> QED BY <1>4, <2>1
<1>6. ASSUME NEW k, Skipped(s, a, cs, k) PROVE m = k
  <2>1. k \in S /\ m <= k /\ k \in Int /\ m \in Int
    BY <1>1, <1>4, <1>6 DEF Skipped
  <2>2. ~ (m < k)
    <3> SUFFICES ASSUME m < k PROVE FALSE
      OBVIOUS
    <3>1. m \in a .. (k - 1)
      BY <1>1, <1>4, <2>1
    <3> QED BY <1>4, <1>6, <3>1 DEF Skipped
  <2> QED BY <2>1, <2>2
<1> QED BY <1>4, <1>5, <1>6 DEF m, Skipped

(* The same for a position in cs. *)
Found(s, a, cs, k) ==
  k \in a .. (Len(s) + 1) /\ At(s, k) \in cs /\ \A n \in a .. (k - 1) : At(s, n) \notin cs

(* First returns that position, and only that. *)
LEMMA FoundFacts ==
  ASSUME NEW s \in Text, NEW a \in 1 .. (Len(s) + 1), NEW cs
  PROVE  /\ "nul" \in cs => Found(s, a, cs, First(s, a, cs))
         /\ \A k : Found(s, a, cs, k) => First(s, a, cs) = k
<1> DEFINE S == {n \in a .. (Len(s) + 1) : At(s, n) \in cs}
           m == First(s, a, cs)
<1>1. Len(s) \in Nat /\ At(s, Len(s) + 1) = "nul"
  BY AtFacts
<1>2. S \in SUBSET Nat /\ ("nul" \in cs => Len(s) + 1 \in S)
  BY <1>1
<1>3. m = Min(S)
  BY DEF First
<1>4. S # {} => m \in S /\ \A n \in S : m <= n
  <2> HIDE DEF S, m
  <2> QED BY <1>2, <1>3, MinFacts
<1> HIDE DEF m
<1>5. ASSUME "nul" \in cs PROVE Found(s, a, cs, m)
  <2>1. m \in S /\ \A n \in S : m <= n
    BY <1>2, <1>4, <1>5
  <2>2. ASSUME NEW n \in a .. (m - 1) PROVE At(s, n) \notin cs
    <3>1. n \in a .. (Len(s) + 1) /\ ~ (m <= n)
      BY <1>1, <2>1
    <3> QED BY <2>1, <3>1
  <2> QED BY <2>1, <2>2 DEF Found
<1>6. ASSUME NEW k, Found(s, a, cs, k) PROVE m = k
  <2>1. k \in S
    BY <1>6 DEF Found
  <2>2. m \in S /\ m <= k /\ k \in Int /\ m \in Int
    BY <1>1, <1>4, <2>1
  <2>3. ~ (m < k)
    <3> SUFFICES ASSUME m < k PROVE FALSE
      OBVIOUS
    <3>1. m \in a .. (k - 1)
      BY <1>1, <2>2
    <3> QED BY <1>6, <2>2, <3>1 DEF Found
  <2> QED BY <2>2, <2>3
<1> QED BY <1>5, <1>6 DEF m
-----------------------------------------------------------------------------
(* The number that digits in order stand for. *)
LEMMA NumberFront ==
  ASSUME NEW u \in Seq(Digit), NEW c \in Digit
  PROVE  /\ <<c>> \o u \in Seq(Digit) /\ Len(<<c>> \o u) = Len(u) + 1
         /\ Number(u) \in Int
         /\ Number(<<c>> \o u) = Digitval(c) * Pow(10, Len(u)) + Number(u)
<1> DEFINE w == <<c>> \o u
           n == Len(u)
           vu == [k \in DOMAIN u |-> Digitval(u[k])]
           vw == [k \in DOMAIN w |-> Digitval(w[k])]
           v == <<Digitval(c)>> \o vu
<1>1. w \in Seq(Digit) /\ Len(w) = n + 1 /\ w[1] = c /\ \A k \in 1 .. n : w[k + 1] = u[k]
  BY SeqFront
<1>2. n \in Nat /\ DOMAIN u = 1 .. n /\ \A k \in 1 .. n : u[k] \in Digit
  OBVIOUS
<1>3. DOMAIN w = 1 .. (n + 1) /\ \A k \in 1 .. (n + 1) : w[k] \in Digit
  <2> HIDE DEF w, n
  <2> QED BY <1>1
<1>4. vu \in Seq(Int) /\ Len(vu) = n /\ \A k \in 1 .. n : vu[k] = Digitval(u[k])
  <2>1. \A k \in 1 .. n : Digitval(u[k]) \in Int
    BY <1>2, DigitFacts
  <2> HIDE DEF n
  <2> QED BY <1>2, <2>1
<1>5. vw \in Seq(Int) /\ Len(vw) = n + 1 /\ \A k \in 1 .. (n + 1) : vw[k] = Digitval(w[k])
  <2>1. \A k \in 1 .. (n + 1) : Digitval(w[k]) \in Int
    BY <1>3, DigitFacts
  <2> HIDE DEF n, w
  <2> QED BY <1>2, <1>3, <2>1
<1>6. Digitval(c) \in Int
  BY DigitFacts
<1> HIDE DEF vu
<1>7. v \in Seq(Int) /\ Len(v) = n + 1 /\ v[1] = Digitval(c) /\ \A k \in 1 .. n : v[k + 1] = vu[k]
  <2>1. v \in Seq(Int) /\ Len(v) = Len(vu) + 1 /\ v[1] = Digitval(c) /\ \A k \in 1 .. Len(vu) : v[k + 1] = vu[k]
    BY <1>4, <1>6, SeqFront
  <2> HIDE DEF v, n
  <2> QED BY <1>4, <2>1
<1> HIDE DEF vw, v, w, n
<1>8. ASSUME NEW k \in 1 .. Len(vw) PROVE vw[k] = v[k]
  <2>1. k \in 1 .. (n + 1)
    BY <1>5
  <2>2. CASE k = 1
    BY <1>1, <1>5, <1>7, <2>1, <2>2
  <2>3. CASE k # 1
    <3> DEFINE m == k - 1
    <3>1. m \in 1 .. n /\ k = m + 1
      BY <1>2, <2>1, <2>3
    <3> HIDE DEF m
    <3>2. v[m + 1] = vu[m] /\ w[m + 1] = u[m] /\ vu[m] = Digitval(u[m])
      BY <1>1, <1>4, <1>7, <3>1
    <3> QED BY <1>5, <2>1, <3>1, <3>2
  <2> QED BY <2>2, <2>3
<1>9. vw = v
  BY <1>5, <1>7, <1>8, SeqSame
<1>10. Decimal(v) = Digitval(c) * Pow(10, Len(vu)) + Decimal(vu) /\ Decimal(vu) \in Int
  BY <1>4, <1>6, DecimalFront, DecimalNext DEF v
<1>11. Number(u) = Decimal(vu) /\ Number(w) = Decimal(vw)
  BY DEF Number, vu, vw
<1> QED BY <1>1, <1>4, <1>9, <1>10, <1>11 DEF w, n

(* The digits of t from m on: their number, and what they are worth in t. *)
Weights(t) == [x \in Digits(t, 1) |-> Digitval(t[x]) * Pow(10, Cardinality(Digits(t, x + 1)))]
Worth(t, m, u) ==
  /\ u \in Seq(Digit) /\ Len(u) = Cardinality(Digits(t, m))
  /\ Number(u) = SumFunctionOnSet(Weights(t), Digits(t, m))

LEMMA DigitsFinite ==
  ASSUME NEW t \in Text, NEW m \in Nat
  PROVE  IsFiniteSet(Digits(t, m)) /\ Cardinality(Digits(t, m)) \in Nat
<1>1. IsFiniteSet(m .. Len(t))
  BY AtFacts, FS_Interval
<1>2. Digits(t, m) \subseteq m .. Len(t)
  BY DEF Digits
<1> QED BY <1>1, <1>2, FS_Subset, FS_CardinalityType

(* Behind the last character there is no digit. *)
LEMMA WorthNone == ASSUME NEW t \in Text PROVE Worth(t, Len(t) + 1, <<>>)
<1> DEFINE e == <<>>
<1>1. Digits(t, Len(t) + 1) = {}
  BY AtFacts DEF Digits
<1>2. Cardinality({}) = 0
  BY FS_EmptySet
<1>3. SumFunctionOnSet(Weights(t), {}) = 0
  BY SumOfNone
<1>4. Number(e) = 0
  <2>1. [k \in DOMAIN e |-> Digitval(e[k])] = <<>>
    OBVIOUS
  <2>2. Number(e) = Decimal(<<>>)
    BY <2>1 DEF Number
  <2> QED BY <2>2, DecimalNext
<1>5. e \in Seq(Digit) /\ Len(e) = 0
  OBVIOUS
<1> HIDE DEF e
<1>6. Worth(t, Len(t) + 1, e)
  BY <1>1, <1>2, <1>3, <1>4, <1>5 DEF Worth
<1> QED BY <1>6 DEF e

(* A sign or a dot is worth nothing. *)
LEMMA WorthOther ==
  ASSUME NEW t \in Text, NEW m \in 1 .. Len(t), t[m] \notin Digit, NEW u, Worth(t, m + 1, u)
  PROVE  Worth(t, m, u)
<1>1. Digits(t, m) = Digits(t, m + 1)
  BY AtFacts DEF Digits
<1> QED BY <1>1 DEF Worth

(* A digit in front is worth as much in the grammar as for parse_float. *)
LEMMA WorthDigit ==
  ASSUME NEW t \in Text, NEW m \in 1 .. Len(t), t[m] \in Digit, NEW u, Worth(t, m + 1, u)
  PROVE  Worth(t, m, <<t[m]>> \o u)
<1> DEFINE D == Digits(t, m)
           E == Digits(t, m + 1)
           W == Weights(t)
<1>0. Len(t) \in Nat /\ m \in Nat /\ m + 1 \in Nat
  BY AtFacts
<1>1. D = E \cup {m} /\ m \notin E /\ m \in D /\ E = D \ {m}
  BY <1>0 DEF Digits
<1>2. IsFiniteSet(D) /\ IsFiniteSet(E) /\ Cardinality(E) \in Nat
  BY <1>0, DigitsFinite
<1>3. Cardinality(D) = Cardinality(E) + 1
  <2> HIDE DEF D, E
  <2> QED BY <1>1, <1>2, FS_AddElement
<1>4. D \subseteq Digits(t, 1)
  BY <1>0 DEF Digits
<1>5. \A x \in D : W[x] \in Int
  <2> SUFFICES ASSUME NEW x \in D PROVE W[x] \in Int
    OBVIOUS
  <2>1. x \in Digits(t, 1) /\ x + 1 \in Nat /\ t[x] \in Digit
    BY <1>0, <1>4 DEF Digits
  <2>2. W[x] = Digitval(t[x]) * Pow(10, Cardinality(Digits(t, x + 1)))
    BY <2>1 DEF Weights
  <2>3. Digitval(t[x]) \in Int
    BY <2>1, DigitFacts
  <2>4. Pow(10, Cardinality(Digits(t, x + 1))) \in Int
    <3>1. Cardinality(Digits(t, x + 1)) \in Nat /\ 10 \in Nat
      BY <2>1, DigitsFinite
    <3> QED BY <3>1, PowNext
  <2> QED BY <2>2, <2>3, <2>4
<1>6. W[m] = Digitval(t[m]) * Pow(10, Cardinality(E))
  BY <1>1, <1>4 DEF Weights
<1>7. u \in Seq(Digit) /\ Len(u) = Cardinality(E) /\ Number(u) = SumFunctionOnSet(W, E)
  BY DEF Worth
<1> HIDE DEF D, E, W
<1>8. SumFunctionOnSet(W, D) = W[m] + SumFunctionOnSet(W, E)
  <2>1. m \in D /\ IsFiniteSet(D) /\ \A x \in D : W[x] \in Int
    BY <1>1, <1>2, <1>5
  <2>2. SumFunctionOnSet(W, D) = W[m] + SumFunctionOnSet(W, D \ {m})
    BY ONLY <2>1, SumTake
  <2>3. E = D \ {m}
    BY <1>1
  <2> QED BY ONLY <2>2, <2>3
<1>9. /\ <<t[m]>> \o u \in Seq(Digit) /\ Len(<<t[m]>> \o u) = Len(u) + 1
      /\ Number(<<t[m]>> \o u) = Digitval(t[m]) * Pow(10, Len(u)) + Number(u)
  BY <1>7, NumberFront
<1>10. Number(<<t[m]>> \o u) = SumFunctionOnSet(W, D)
  BY <1>6, <1>7, <1>8, <1>9
<1> QED BY <1>3, <1>7, <1>9, <1>10 DEF Worth, D, W

(* A run of digits of t, in front of what follows it. *)
LEMMA WorthRun ==
  ASSUME NEW t \in Text, NEW hi \in 0 .. Len(t), NEW lo \in 1 .. (hi + 1),
         \A x \in lo .. hi : t[x] \in Digit, NEW u, Worth(t, hi + 1, u)
  PROVE  Worth(t, lo, SubSeq(t, lo, hi) \o u)
<1> DEFINE P(m) == SubSeq(t, m, hi) \o u
           X == {k \in Nat : k <= hi + 1 - lo => Worth(t, hi + 1 - k, P(hi + 1 - k))}
<1>0. t \in Seq(Char) /\ Len(t) \in Nat /\ hi \in Nat /\ lo \in Nat
  BY AtFacts DEF Text
<1>1. u \in Seq(Digit) /\ u \in Seq(Char)
  <2>1. u \in Seq(Digit) /\ Digit \subseteq Char
    BY DEF Worth, Char
  <2> QED BY <2>1
<1>2. P(hi + 1) = u
  BY <1>0, <1>1
<1> HIDE DEF P
<1>3. 0 \in X
  <2>1. hi + 1 - 0 = hi + 1
    BY <1>0
  <2> QED BY <1>2, <2>1
<1>4. ASSUME NEW k \in X PROVE k + 1 \in X
  <2> SUFFICES ASSUME k + 1 <= hi + 1 - lo PROVE Worth(t, hi + 1 - (k + 1), P(hi + 1 - (k + 1)))
    OBVIOUS
  <2> DEFINE m == hi - k
  <2>1. m \in lo .. hi /\ m \in 1 .. hi /\ m \in 1 .. Len(t) /\ hi \in 1 .. Len(t)
        /\ hi + 1 - k = m + 1 /\ hi + 1 - (k + 1) = m /\ k <= hi + 1 - lo
    BY <1>0
  <2> HIDE DEF m
  <2>2. Worth(t, m + 1, P(m + 1)) /\ t[m] \in Digit
    BY <2>1
  <2>3. Worth(t, m, <<t[m]>> \o P(m + 1))
    BY <2>1, <2>2, WorthDigit
  <2>4. PartFirst(t, u, m, hi)
    BY <1>0, <1>1, <2>1, PartFront
  <2>5. P(m) = <<t[m]>> \o P(m + 1)
    BY <2>4 DEF PartFirst, P
  <2> QED BY <2>1, <2>3, <2>5
<1>5. X = Nat
  <2>1. X \subseteq Nat
    OBVIOUS
  <2> HIDE DEF X
  <2> QED BY Zenon, <1>3, <1>4, <2>1, SetInduction
<1>6. hi + 1 - lo \in X
  <2>1. hi + 1 - lo \in Nat
    BY <1>0
  <2> QED BY <1>5, <2>1
<1>7. Worth(t, hi + 1 - (hi + 1 - lo), P(hi + 1 - (hi + 1 - lo)))
  BY <1>0, <1>6
<1>8. hi + 1 - (hi + 1 - lo) = lo
  BY <1>0
<1> QED BY <1>7, <1>8 DEF P

(* A number with p characters of sign, whose digits go up to q, and on after a dot. *)
Num(t, p, q) ==
  /\ p \in 0 .. 1 /\ q \in 0 .. Len(t) /\ p <= q
  /\ p = 1 => t[1] \in {"-", "+"}
  /\ \A x \in (p + 1) .. q : t[x] \in Digit
  /\ q < Len(t) => t[q + 1] = "."
  /\ \A x \in (q + 2) .. Len(t) : t[x] \in Digit

(* What it stands for in the grammar. *)
Value(t, p, q) ==
  LET frac == SubSeq(t, q + 2, Len(t))
      abs  == Number(SubSeq(t, p + 1, q) \o frac) IN
  /\ NumberOf(t) = IF p = 1 /\ t[1] = "-" THEN 0 - abs ELSE abs
  /\ ScaleOf(t) = Len(frac)
  /\ (t # <<>> /\ t[1] \in {"-", "+"}) <=> p = 1

(* The weights of the grammar give the number its digits stand for in order. *)
LEMMA NumValue ==
  ASSUME NEW t \in Text, NEW p, NEW q, Num(t, p, q)
  PROVE  Value(t, p, q)
<1> DEFINE n == Len(t)
           F == SubSeq(t, q + 2, n)
           I == SubSeq(t, p + 1, q)
           e == <<>>
<1>0. n \in Nat /\ q \in 0 .. n /\ p \in 0 .. 1 /\ p <= q
  BY AtFacts DEF Num
<1>a. t \in Seq(Char) /\ Len(t) = n
  BY DEF Text
<1>b. t = <<>> <=> n = 0
  BY DEF Text
<1>c. q # n => q < n /\ q + 1 \in 1 .. n /\ q + 2 \in 1 .. (n + 1)
  <2> HIDE DEF n
  <2> QED BY <1>0
<1>d. q # n => t[q + 1] = "."
  BY <1>c DEF Num
<1>e. \A x \in 1 .. n : At(t, x) = t[x]
  BY AtFacts
<1>f. Range(t) = {t[x] : x \in 1 .. n}
  <2>1. DOMAIN t = 1 .. n
    BY AtFacts
  <2> QED BY <2>1 DEF Range
<1>g. p = 1 => t[1] \in {"-", "+"}
  BY DEF Num
<1>h. \A x \in (p + 1) .. q : t[x] \in Digit
  BY DEF Num
<1>i. \A x \in (q + 2) .. n : t[x] \in Digit
  BY DEF Num
<1>1. Worth(t, n + 1, e)
  BY WorthNone
<1>2. Worth(t, q + 1, F) /\ (q = n => F = e)
  <2>1. CASE q = n
    <3>1. F = e
      BY <1>0, <1>a, <2>1
    <3> QED BY <1>1, <2>1, <3>1
  <2>2. CASE q # n
    <3>1. q + 1 \in 1 .. n /\ n \in 0 .. n /\ q + 2 \in 1 .. (n + 1)
      <4> HIDE DEF n
      <4> QED BY <1>0, <1>c, <2>2
    <3>3. Worth(t, q + 2, F \o e)
      <4> HIDE DEF e
      <4> QED BY <1>1, <1>i, <3>1, WorthRun
    <3>4. F \o e = F
      <4>1. F \in Seq(Char)
        BY <1>a, <3>1
      <4> HIDE DEF F
      <4> QED BY <4>1
    <3>5. t[q + 1] \notin Digit
      <4>1. t[q + 1] = "."
        BY <1>d, <2>2
      <4> QED BY <4>1, DigitFacts
    <3>6. q + 1 + 1 = q + 2
      <4> HIDE DEF n
      <4> QED BY <1>0
    <3> HIDE DEF F, n, e
    <3>7. Worth(t, q + 1 + 1, F)
      BY <3>3, <3>4, <3>6
    <3>8. Worth(t, q + 1, F)
      BY <3>1, <3>5, <3>7, WorthOther DEF n
    <3> QED BY <2>2, <3>8
  <2> QED BY <2>1, <2>2
<1> HIDE DEF F, n
<1>3. Worth(t, p + 1, I \o F)
  <2>1. p + 1 \in 1 .. (q + 1) /\ q \in 0 .. n
    BY <1>0
  <2> QED BY <1>2, <1>h, <2>1, WorthRun DEF n
<1> HIDE DEF I
<1>4. Worth(t, 1, I \o F)
  <2>1. CASE p = 0
    BY <1>3, <2>1
  <2>2. CASE p = 1
    <3>1. 1 \in 1 .. n /\ p + 1 = 2 /\ 1 + 1 = 2
      BY <1>0, <2>2
    <3>2. t[1] \notin Digit
      BY <1>g, <2>2, DigitFacts
    <3> QED BY <1>3, <3>1, <3>2, WorthOther DEF n
  <2> QED BY <1>0, <2>1, <2>2
<1>5. Number(I \o F) = SumFunction(Weights(t))
  <2>1. DOMAIN Weights(t) = Digits(t, 1)
    BY DEF Weights
  <2>2. SumFunction(Weights(t)) = SumFunctionOnSet(Weights(t), Digits(t, 1))
    BY <2>1 DEF SumFunction
  <2> QED BY <1>4, <2>2 DEF Worth
<1>6. (t # <<>> /\ t[1] \in {"-", "+"}) <=> p = 1
  <2>1. CASE p = 1
    <3>1. n # 0
      BY <1>0, <2>1
    <3> QED BY <1>b, <1>g, <2>1, <3>1
  <2>2. CASE p = 0
    <3>1. n # 0 => (q # n /\ q + 1 = 1) \/ 1 \in (p + 1) .. q
      BY <1>0, <2>2
    <3>2. t # <<>> => t[1] = "." \/ t[1] \in Digit
      BY <1>b, <1>d, <1>h, <3>1
    <3> QED BY <2>2, <3>2, DigitFacts
  <2> QED BY <1>0, <2>1, <2>2
<1>7. (t # <<>> /\ t[1] = "-") <=> (p = 1 /\ t[1] = "-")
  BY <1>6
<1>8. NumberOf(t) = IF p = 1 /\ t[1] = "-" THEN 0 - Number(I \o F) ELSE Number(I \o F)
  <2>1. NumberOf(t) = IF t # <<>> /\ t[1] = "-" THEN 0 - SumFunction(Weights(t)) ELSE SumFunction(Weights(t))
    BY DEF NumberOf, Weights
  <2> QED BY <1>5, <1>7, <2>1
<1>9. ScaleOf(t) = Len(F)
  <2>1. \A x \in 1 .. q : t[x] # "."
    <3> SUFFICES ASSUME NEW x \in 1 .. q PROVE t[x] # "."
      OBVIOUS
    <3>1. (x = 1 /\ p = 1) \/ x \in (p + 1) .. q
      BY <1>0
    <3> QED BY <1>g, <1>h, <3>1, DigitFacts
  <2>2. CASE q = n
    <3>1. "." \notin Range(t)
      BY <1>f, <2>1, <2>2
    <3>2. Len(F) = 0
      BY <1>2, <2>2
    <3> QED BY <3>1, <3>2 DEF ScaleOf
  <2>3. CASE q # n
    <3>1. q + 1 \in 1 .. n /\ t[q + 1] = "."
      BY <1>c, <1>d, <2>3
    <3>2. "." \in Range(t)
      BY <1>f, <3>1
    <3>3. Found(t, 1, {"."}, q + 1)
      <4> DEFINE k == q + 1
      <4>1. k \in 1 .. (n + 1) /\ k \in 1 .. n /\ \A x \in 1 .. (k - 1) : x \in 1 .. q /\ x \in 1 .. n
        BY <1>0, <3>1
      <4>2. t[k] = "."
        BY <3>1
      <4> HIDE DEF k
      <4>3. At(t, k) \in {"."}
        BY <1>e, <4>1, <4>2
      <4>4. \A x \in 1 .. (k - 1) : At(t, x) \notin {"."}
        BY <1>e, <2>1, <4>1
      <4>5. k \in 1 .. (Len(t) + 1)
        BY <4>1 DEF n
      <4>7. Found(t, 1, {"."}, k)
        BY <4>3, <4>4, <4>5 DEF Found
      <4> QED BY <4>7 DEF k
    <3>4. First(t, 1, {"."}) = q + 1
      <4>1. 1 \in 1 .. (n + 1)
        BY <1>0
      <4> QED BY <3>3, <4>1, FoundFacts DEF n
    <3> QED BY <1>2, <3>2, <3>4 DEF ScaleOf, Worth
  <2> QED BY <2>2, <2>3
<1> QED BY <1>6, <1>8, <1>9 DEF Value, I, F, n
-----------------------------------------------------------------------------
(* How parse_float walks over a number that begins at a: p characters of sign,
   digits up to d, and, if there is a dot at d, digits up to j. *)
Scan(s, a, p, d, j) ==
  /\ p = IF At(s, a) \in {"-", "+"} THEN 1 ELSE 0
  /\ Skipped(s, a + p, Digit, d)
  /\ IF At(s, d) = "." THEN Skipped(s, d + 1, Digit, j) ELSE j = d

(* What it returns. *)
Gives(s, a, p, d, j) ==
  LET frac == SubSeq(s, d + 1, j - 1)
      abs  == Number(SubSeq(s, a + p, d - 1) \o frac) IN
  ParseFloat(s, a) =
    [num |-> IF At(s, a) = "-" THEN 0 - abs ELSE abs, scale |-> Len(frac),
     relative |-> At(s, a) \in {"-", "+"}, stop |-> j]

(* There is exactly one such walk, and it is what is returned. *)
LEMMA ScanFacts ==
  ASSUME NEW s \in Text, NEW a \in 1 .. (Len(s) + 1)
  PROVE  /\ \E p, d, j : Scan(s, a, p, d, j)
         /\ \A p, d, j : Scan(s, a, p, d, j) =>
              /\ Gives(s, a, p, d, j) /\ p \in 0 .. 1
              /\ a + p \in 1 .. (Len(s) + 1) /\ d \in (a + p) .. (Len(s) + 1) /\ j \in d .. (Len(s) + 1)
<1> DEFINE sign  == At(s, a) \in {"-", "+"}
           start == IF sign THEN a + 1 ELSE a
           dot   == SkipAll(s, start, Digit)
           stop  == IF At(s, dot) = "." THEN SkipAll(s, dot + 1, Digit) ELSE dot
           o     == IF sign THEN 1 ELSE 0
           n     == Len(s)
<1>0. n \in Nat /\ a \in 1 .. (n + 1) /\ "nul" \notin Digit
  BY AtFacts, DigitFacts
<1>1. \A k \in Int : At(s, k) # "nul" => k \in 1 .. n
  BY AtFacts
<1> HIDE DEF n
<1>2. o \in 0 .. 1 /\ start = a + o /\ start \in 1 .. (n + 1) /\ a + o \in 1 .. (n + 1)
  <2>1. CASE sign
    <3>1. a \in Int /\ At(s, a) # "nul"
      BY <1>0, <2>1
    <3>2. a \in 1 .. n
      BY <1>1, <3>1
    <3> QED BY <1>0, <2>1, <3>2
  <2>2. CASE ~ sign
    BY <1>0, <2>2
  <2> QED BY <2>1, <2>2
<1> HIDE DEF start
<1>3. Skipped(s, start, Digit, dot) /\ \A k : Skipped(s, start, Digit, k) => dot = k
  BY <1>0, <1>2, SkipFacts DEF n
<1> HIDE DEF dot
<1>4. dot \in start .. (n + 1)
  BY <1>3 DEF Skipped, n
<1>5. At(s, dot) = "." => dot + 1 \in 1 .. (n + 1)
  <2>1. dot \in Int
    BY <1>2, <1>4
  <2>2. At(s, dot) = "." => dot \in 1 .. n
    BY <1>1, <2>1
  <2> QED BY <1>0, <2>2
<1>6. At(s, dot) = "." =>
        Skipped(s, dot + 1, Digit, stop) /\ \A k : Skipped(s, dot + 1, Digit, k) => stop = k
  <2> SUFFICES ASSUME At(s, dot) = "." PROVE
        Skipped(s, dot + 1, Digit, stop) /\ \A k : Skipped(s, dot + 1, Digit, k) => stop = k
    OBVIOUS
  <2>1. stop = SkipAll(s, dot + 1, Digit)
    OBVIOUS
  <2>2. dot + 1 \in 1 .. (Len(s) + 1)
    BY <1>5 DEF n
  <2> HIDE DEF stop
  <2> DEFINE h == dot + 1
  <2> HIDE DEF h
  <2>3. stop = SkipAll(s, h, Digit) /\ h \in 1 .. (Len(s) + 1)
    BY <2>1, <2>2 DEF h
  <2>4. Skipped(s, h, Digit, stop) /\ \A k : Skipped(s, h, Digit, k) => stop = k
    BY <1>0, <2>3, SkipFacts
  <2> QED BY <2>4 DEF h
<1>7. At(s, dot) # "." => stop = dot
  OBVIOUS
<1>8. Gives(s, a, o, dot, stop)
  <2>1. ParseFloat(s, a) =
          [num |-> IF At(s, a) = "-" THEN 0 - Number(SubSeq(s, start, dot - 1) \o SubSeq(s, dot + 1, stop - 1))
                                     ELSE Number(SubSeq(s, start, dot - 1) \o SubSeq(s, dot + 1, stop - 1)),
           scale |-> Len(SubSeq(s, dot + 1, stop - 1)), relative |-> sign, stop |-> stop]
    BY DEF ParseFloat, start, dot
  <2> HIDE DEF stop, o
  <2> QED BY SMTT(30), <1>2, <2>1 DEF Gives
<1> HIDE DEF stop
<1>9. stop \in dot .. (n + 1)
  <2>1. CASE At(s, dot) = "."
    <3>1. stop \in (dot + 1) .. (n + 1)
      BY <1>6, <2>1 DEF Skipped, n
    <3> QED BY <1>0, <1>2, <1>4, <3>1
  <2>2. CASE At(s, dot) # "."
    BY <1>0, <1>2, <1>4, <1>7, <2>2
  <2> QED BY <2>1, <2>2
<1>10. Scan(s, a, o, dot, stop)
  BY <1>2, <1>3, <1>6, <1>7 DEF Scan, o
<1>11. ASSUME NEW p, NEW d, NEW j, Scan(s, a, p, d, j) PROVE p = o /\ d = dot /\ j = stop
  <2>1. p = o
    BY <1>11 DEF Scan, o
  <2>2. d = dot
    BY <1>2, <1>3, <1>11, <2>1 DEF Scan
  <2>3. j = stop
    BY <1>6, <1>7, <1>11, <2>2 DEF Scan
  <2> QED BY <2>1, <2>2, <2>3
<1> HIDE DEF o
<1>12. ASSUME NEW p, NEW d, NEW j, Scan(s, a, p, d, j)
       PROVE  /\ Gives(s, a, p, d, j) /\ p \in 0 .. 1
              /\ a + p \in 1 .. (Len(s) + 1) /\ d \in (a + p) .. (Len(s) + 1) /\ j \in d .. (Len(s) + 1)
  BY <1>2, <1>4, <1>8, <1>9, <1>11, <1>12 DEF n
<1> QED BY <1>10, <1>12

(* A field of s: its characters. *)
LEMMA FieldFacts ==
  ASSUME NEW s \in Text, NEW a \in 1 .. (Len(s) + 1), NEW j \in a .. (Len(s) + 1)
  PROVE  /\ SubSeq(s, a, j - 1) \in Text /\ Len(SubSeq(s, a, j - 1)) = j - a
         /\ \A x \in 1 .. (j - a) : SubSeq(s, a, j - 1)[x] = At(s, a + x - 1)
<1> DEFINE n == Len(s)
           t == SubSeq(s, a, j - 1)
<1>0. n \in Nat /\ s \in Seq(Char) /\ \A x \in 1 .. n : At(s, x) = s[x]
  BY AtFacts DEF Text
<1>1. j - 1 \in (a - 1) .. n /\ (j - 1) - a + 1 = j - a
  <2> HIDE DEF n
  <2> QED BY <1>0 DEF n
<1>2. t \in Seq(Char) /\ Len(t) = (j - 1) - a + 1 /\ \A k \in 1 .. ((j - 1) - a + 1) : t[k] = s[a + k - 1]
  BY <1>0, <1>1, SeqPart
<1> HIDE DEF t
<1>3. ASSUME NEW x \in 1 .. (j - a) PROVE t[x] = At(s, a + x - 1)
  <2>1. a + x - 1 \in 1 .. n
    <3> HIDE DEF n
    <3> QED BY <1>0 DEF n
  <2>2. t[x] = s[a + x - 1]
    BY <1>1, <1>2
  <2> QED BY <1>0, <2>1, <2>2
<1> QED BY <1>1, <1>2, <1>3 DEF t, Text

(* What the scanner walks over is a number of the grammar. *)
LEMMA ScanNum ==
  ASSUME NEW s \in Text, NEW a \in 1 .. (Len(s) + 1), NEW p, NEW d, NEW j, Scan(s, a, p, d, j)
  PROVE  /\ Num(SubSeq(s, a, j - 1), p, d - a)
         /\ \A x \in a .. (j - 1) : At(s, x) \in Digit \cup {"-", "+", "."}
<1> DEFINE n == Len(s)
           t == SubSeq(s, a, j - 1)
           q == d - a
<1>0. /\ n \in Nat /\ a \in 1 .. (n + 1) /\ p \in 0 .. 1
      /\ a + p \in 1 .. (n + 1) /\ d \in (a + p) .. (n + 1) /\ j \in d .. (n + 1)
  BY AtFacts, ScanFacts
<1> HIDE DEF n
<1>1. j \in a .. (n + 1) /\ q \in 0 .. (j - a) /\ p <= q
  BY <1>0
<1>2. Len(t) = j - a /\ \A x \in 1 .. (j - a) : t[x] = At(s, a + x - 1)
  BY <1>1, FieldFacts DEF n
<1> HIDE DEF t
<1>3. p = 1 => At(s, a) \in {"-", "+"}
  BY DEF Scan
<1>4. \A x \in (a + p) .. (d - 1) : At(s, x) \in Digit
  BY DEF Scan, Skipped
<1>5. \A x \in (d + 1) .. (j - 1) : At(s, x) \in Digit
  <2>1. CASE At(s, d) = "."
    BY <2>1 DEF Scan, Skipped
  <2>2. CASE At(s, d) # "."
    BY <1>0, <2>2 DEF Scan
  <2> QED BY <2>1, <2>2
<1>6. d # j => At(s, d) = "."
  BY DEF Scan
<1>7. p = 1 => t[1] \in {"-", "+"}
  <2> SUFFICES ASSUME p = 1 PROVE t[1] \in {"-", "+"}
    OBVIOUS
  <2>1. 1 \in 1 .. (j - a) /\ a + 1 - 1 = a
    BY <1>0
  <2>2. t[1] = At(s, a + 1 - 1)
    BY <1>2, <2>1
  <2> QED BY <1>3, <2>1, <2>2
<1>8. ASSUME NEW x \in (p + 1) .. q PROVE t[x] \in Digit
  <2>1. x \in 1 .. (j - a) /\ a + x - 1 \in (a + p) .. (d - 1)
    BY <1>0
  <2> QED BY <1>2, <1>4, <2>1
<1>9. q < j - a => t[q + 1] = "."
  <2> SUFFICES ASSUME q < j - a PROVE t[q + 1] = "."
    OBVIOUS
  <2>1. q + 1 \in 1 .. (j - a) /\ a + (q + 1) - 1 = d /\ d # j
    BY <1>0
  <2>2. t[q + 1] = At(s, a + (q + 1) - 1)
    BY <1>2, <2>1
  <2> QED BY <1>6, <2>1, <2>2
<1>10. ASSUME NEW x \in (q + 2) .. (j - a) PROVE t[x] \in Digit
  <2>1. x \in 1 .. (j - a) /\ a + x - 1 \in (d + 1) .. (j - 1)
    BY <1>0
  <2> QED BY <1>2, <1>5, <2>1
<1>11. Num(t, p, q)
  <2> HIDE DEF q
  <2> QED BY <1>0, <1>1, <1>2, <1>7, <1>8, <1>9, <1>10 DEF Num
<1>12. ASSUME NEW x \in a .. (j - 1) PROVE At(s, x) \in Digit \cup {"-", "+", "."}
  <2>1. (x = a /\ p = 1) \/ x \in (a + p) .. (d - 1) \/ (x = d /\ d # j) \/ x \in (d + 1) .. (j - 1)
    BY <1>0
  <2> QED BY <1>3, <1>4, <1>5, <1>6, <2>1
<1> QED BY <1>11, <1>12 DEF t, q

(* And a number of the grammar with '|' or the end behind it is walked over to its end. *)
LEMMA NumScan ==
  ASSUME NEW s \in Text, NEW a \in 1 .. (Len(s) + 1), NEW j \in a .. (Len(s) + 1), NEW p, NEW q,
         Num(SubSeq(s, a, j - 1), p, q), At(s, j) \in {"|", "nul"}
  PROVE  Scan(s, a, p, a + q, j)
<1> DEFINE n == Len(s)
           t == SubSeq(s, a, j - 1)
           d == a + q
           l == j - a
<1>0. n \in Nat /\ a \in 1 .. (n + 1) /\ j \in a .. (n + 1) /\ l \in Nat /\ j = a + l
  BY AtFacts
<1>1. Len(t) = l /\ \A x \in 1 .. l : t[x] = At(s, a + x - 1)
  BY FieldFacts
<1>2. /\ p \in 0 .. 1 /\ q \in 0 .. Len(t) /\ p <= q
      /\ p = 1 => t[1] \in {"-", "+"}
      /\ \A x \in (p + 1) .. q : t[x] \in Digit
      /\ q < Len(t) => t[q + 1] = "."
      /\ \A x \in (q + 2) .. Len(t) : t[x] \in Digit
  BY Zenon DEF Num
<1> HIDE DEF n, t, l
<1>3. p \in 0 .. 1 /\ q \in 0 .. l /\ p <= q /\ d \in (a + p) .. (n + 1) /\ j \in d .. (n + 1)
  BY <1>0, <1>1, <1>2
<1>4. ASSUME NEW y \in a .. (j - 1) PROVE At(s, y) = t[y - a + 1] /\ y - a + 1 \in 1 .. l
  <2>1. y - a + 1 \in 1 .. l /\ a + (y - a + 1) - 1 = y
    BY <1>0
  <2>2. t[y - a + 1] = At(s, a + (y - a + 1) - 1)
    BY <1>1, <2>1
  <2> QED BY <2>1, <2>2
<1>5. ASSUME NEW y \in (a + p) .. (d - 1) PROVE At(s, y) \in Digit
  <2>1. y \in a .. (j - 1) /\ y - a + 1 \in (p + 1) .. q
    BY <1>0, <1>3
  <2> QED BY <1>2, <1>4, <2>1
<1>6. ASSUME NEW y \in (d + 1) .. (j - 1) PROVE At(s, y) \in Digit
  <2>1. y \in a .. (j - 1) /\ y - a + 1 \in (q + 2) .. l
    BY <1>0, <1>3
  <2>2. \A x \in (q + 2) .. l : t[x] \in Digit
    BY <1>1, <1>2
  <2> QED BY <1>4, <2>1, <2>2
<1>7. (d # j => At(s, d) = ".") /\ (d = j => At(s, d) \in {"|", "nul"})
  <2>1. CASE d = j
    BY <2>1
  <2>2. CASE d # j
    <3>1. d \in a .. (j - 1) /\ d - a + 1 = q + 1 /\ q < l
      BY <1>0, <1>3, <2>2
    <3>2. t[q + 1] = "."
      BY <1>1, <1>2, <3>1
    <3>3. At(s, d) = t[d - a + 1]
      BY <1>4, <3>1
    <3> QED BY <2>2, <3>1, <3>2, <3>3
  <2> QED BY <2>1, <2>2
<1>8. p = IF At(s, a) \in {"-", "+"} THEN 1 ELSE 0
  <2>1. CASE p = 1
    <3>1. a \in a .. (j - 1) /\ a - a + 1 = 1
      BY <1>0, <1>3, <2>1
    <3>2. At(s, a) = t[a - a + 1]
      BY <1>4, <3>1
    <3> QED BY <1>2, <2>1, <3>1, <3>2
  <2>2. CASE p = 0
    <3>1. a = d \/ a \in (a + p) .. (d - 1)
      BY <1>0, <1>3, <2>2
    <3>2. At(s, a) \in Digit \cup {".", "|", "nul"}
      BY <1>5, <1>7, <3>1
    <3> QED BY <2>2, <3>2, DigitFacts
  <2> QED BY <1>3, <2>1, <2>2
<1>9. At(s, d) \notin Digit /\ At(s, j) \notin Digit
  BY <1>7, DigitFacts
<1> HIDE DEF d
<1>10. Skipped(s, a + p, Digit, d)
  BY <1>3, <1>5, <1>9 DEF Skipped, n
<1>11. CASE d = j
  BY <1>7, <1>8, <1>10, <1>11 DEF Scan, d
<1>12. CASE d # j
  <2>1. j \in (d + 1) .. (n + 1)
    BY <1>0, <1>3, <1>12
  <2>2. Skipped(s, d + 1, Digit, j)
    BY <1>6, <1>9, <2>1 DEF Skipped, n
  <2> QED BY <1>7, <1>8, <1>10, <1>12, <2>2 DEF Scan, d
<1> QED BY <1>11, <1>12

(* The field of s from a up to j - 1 is a number, and parse_float reads it as the
   grammar does. *)
Reads(s, a, j) ==
  LET t == SubSeq(s, a, j - 1)
      v == ParseFloat(s, a) IN
  /\ IsNumber(t) /\ v.stop = j
  /\ v.num = NumberOf(t) /\ v.scale = ScaleOf(t)
  /\ v.relative = (t # <<>> /\ t[1] \in {"-", "+"})

(* A walk of parse_float reads the field as the grammar does. *)
LEMMA ScanReads ==
  ASSUME NEW s \in Text, NEW a \in 1 .. (Len(s) + 1), NEW p, NEW d, NEW j, Scan(s, a, p, d, j)
  PROVE  Reads(s, a, j)
<1> DEFINE n == Len(s)
           t == SubSeq(s, a, j - 1)
           q == d - a
           F == SubSeq(s, d + 1, j - 1)
           I == SubSeq(s, a + p, d - 1)
           v == ParseFloat(s, a)
<1>0. /\ n \in Nat /\ a \in 1 .. (n + 1) /\ p \in 0 .. 1
      /\ a + p \in 1 .. (n + 1) /\ d \in (a + p) .. (n + 1) /\ j \in d .. (n + 1)
  BY AtFacts, ScanFacts
<1>1. Gives(s, a, p, d, j) /\ Num(t, p, q)
  BY ScanFacts, ScanNum
<1> HIDE DEF n
<1>2. j \in a .. (n + 1) /\ p + 1 \in Nat \ {0} /\ q \in 0 .. (j - a) /\ q + 2 \in Nat \ {0} /\ j - a \in 0 .. (j - a)
  BY <1>0
<1>3. t \in Text /\ Len(t) = j - a /\ \A x \in 1 .. (j - a) : t[x] = At(s, a + x - 1)
  BY Zenon, <1>2, FieldFacts DEF n
<1>4. s \in Seq(Char)
  BY DEF Text
<1>5. SubSeq(t, p + 1, q) = I
  <2>1. Within(s, a, j, p + 1, q)
    <3> HIDE DEF q
    <3> QED BY <1>2, <1>4, PartOfPart DEF n
  <2>2. a + (p + 1) - 1 = a + p /\ a + q - 1 = d - 1
    BY <1>0
  <2> QED BY <2>1, <2>2 DEF Within
<1>6. SubSeq(t, q + 2, Len(t)) = F
  <2> DEFINE y == j - a
  <2>1. Within(s, a, j, q + 2, y)
    <3> HIDE DEF q, y
    <3>1. y \in 0 .. (j - a)
      BY <1>2 DEF y
    <3> QED BY <1>2, <1>4, <3>1, PartOfPart DEF n
  <2>2. a + (q + 2) - 1 = d + 1 /\ a + y - 1 = j - 1
    BY <1>0
  <2>3. Len(t) = y
    BY Zenon, <1>3
  <2> HIDE DEF y
  <2> QED BY <2>1, <2>2, <2>3 DEF Within
<1> HIDE DEF t, q
<1>7. Value(t, p, q)
  BY <1>1, <1>3, NumValue
<1>8. /\ NumberOf(t) = IF p = 1 /\ t[1] = "-" THEN 0 - Number(I \o F) ELSE Number(I \o F)
      /\ ScaleOf(t) = Len(F) /\ ((t # <<>> /\ t[1] \in {"-", "+"}) <=> p = 1)
  BY Zenon, <1>5, <1>6, <1>7 DEF Value
<1>9. v = [num |-> IF At(s, a) = "-" THEN 0 - Number(I \o F) ELSE Number(I \o F), scale |-> Len(F),
           relative |-> At(s, a) \in {"-", "+"}, stop |-> j]
  BY <1>1 DEF Gives
<1> HIDE DEF v, I, F
<1>10. At(s, a) \in {"-", "+"} <=> p = 1
  BY DEF Scan
<1>11. (p = 1 /\ t[1] = "-") <=> At(s, a) = "-"
  <2>1. CASE p = 1
    <3>1. 1 \in 1 .. (j - a) /\ a + 1 - 1 = a
      BY <1>0, <2>1
    <3>2. t[1] = At(s, a + 1 - 1)
      BY <1>3, <3>1
    <3> QED BY <2>1, <3>1, <3>2
  <2>2. CASE p # 1
    BY <1>10, <2>2
  <2> QED BY <2>1, <2>2
<1>12. v.num = NumberOf(t) /\ v.scale = ScaleOf(t) /\ v.stop = j
  BY <1>8, <1>9, <1>11
<1>13. v.relative = (t # <<>> /\ t[1] \in {"-", "+"})
  <2>1. v.relative = (At(s, a) \in {"-", "+"})
    BY <1>9
  <2> QED BY <1>8, <1>10, <2>1
<1>14. IsNumber(t)
  BY <1>1 DEF IsNumber, Num
<1> QED BY <1>12, <1>13, <1>14 DEF Reads, t, v

(* Whatever follows, the scanner reads a number. *)
LEMMA FieldRead ==
  ASSUME NEW s \in Text, NEW a \in 1 .. (Len(s) + 1)
  PROVE  LET j == ParseFloat(s, a).stop IN
         /\ j \in a .. (Len(s) + 1) /\ Reads(s, a, j)
         /\ \A x \in a .. (j - 1) : At(s, x) \notin {"nul", "|"}
<1>1. PICK p, d, j : Scan(s, a, p, d, j)
  BY ScanFacts
<1>2. Reads(s, a, j)
  BY <1>1, ScanReads
<1>3. ParseFloat(s, a).stop = j
  BY <1>2 DEF Reads
<1>4. j \in a .. (Len(s) + 1)
  <2>1. p \in 0 .. 1 /\ d \in (a + p) .. (Len(s) + 1) /\ j \in d .. (Len(s) + 1)
    BY <1>1, ScanFacts
  <2> QED BY <2>1
<1>5. \A x \in a .. (j - 1) : At(s, x) \in Digit \cup {"-", "+", "."}
  BY <1>1, ScanNum
<1>6. \A x \in a .. (j - 1) : At(s, x) \notin {"nul", "|"}
  BY <1>5, DigitFacts
<1> QED BY <1>2, <1>3, <1>4, <1>6

(* And it reads the whole of a number that '|' or the end follows. *)
LEMMA NumberRead ==
  ASSUME NEW s \in Text, NEW a \in 1 .. (Len(s) + 1), NEW j \in a .. (Len(s) + 1),
         IsNumber(SubSeq(s, a, j - 1)), At(s, j) \in {"|", "nul"}
  PROVE  Reads(s, a, j)
<1> DEFINE t == SubSeq(s, a, j - 1)
<1>1. \E p, q : Num(t, p, q)
  <2> HIDE DEF t
  <2>1. IsNumber(t)
    BY DEF t
  <2> QED BY <2>1 DEF IsNumber, Num
<1>2. PICK p, q : Num(t, p, q)
  BY <1>1
<1>3. Scan(s, a, p, a + q, j)
  BY <1>2, NumScan
<1> QED BY <1>3, ScanReads
-----------------------------------------------------------------------------
(* The type of a message stands between b and e. *)
Typed(s, b, e) ==
  \/ e = b + 1 /\ At(s, e) \in {"g", "c", "C", "h"}
  \/ e = b + 2 /\ At(s, b + 1) = "m" /\ At(s, b + 2) = "s"

(* The types of the grammar, by their characters. *)
LEMMA TypeSpan ==
  ASSUME NEW s \in Text, NEW b \in 1 .. Len(s), NEW e \in (b + 1) .. Len(s)
  PROVE  SubSeq(s, b + 1, e) \in Types <=> Typed(s, b, e)
<1> DEFINE n == Len(s)
           t == SubSeq(s, b + 1, e)
           j == e + 1
<1>0. n \in Nat /\ b \in 1 .. n /\ e \in (b + 1) .. n
  BY AtFacts
<1> HIDE DEF n
<1>1. b + 1 \in 1 .. (n + 1) /\ j \in (b + 1) .. (n + 1) /\ j - 1 = e /\ j - (b + 1) = e - b
  BY <1>0
<1>2. t \in Text /\ Len(t) = e - b /\ \A x \in 1 .. (e - b) : t[x] = At(s, b + 1 + x - 1)
  <2> HIDE DEF j
  <2>1. /\ SubSeq(s, b + 1, j - 1) \in Text /\ Len(SubSeq(s, b + 1, j - 1)) = j - (b + 1)
        /\ \A x \in 1 .. (j - (b + 1)) : SubSeq(s, b + 1, j - 1)[x] = At(s, b + 1 + x - 1)
    BY <1>1, FieldFacts DEF n
  <2> QED BY <1>1, <2>1
<1> HIDE DEF t
<1>3. t \in Seq(Char)
  BY <1>2 DEF Text
<1>4. t \in Types <=> \/ Len(t) = 1 /\ t[1] \in {"g", "c", "C", "h"}
                      \/ Len(t) = 2 /\ t[1] = "m" /\ t[2] = "s"
  BY <1>3 DEF Types
<1>5. CASE e = b + 1
  <2>1. Len(t) = 1 /\ t[1] = At(s, b + 1 + 1 - 1) /\ b + 1 + 1 - 1 = b + 1 /\ e # b + 2
    <3>1. e - b = 1 /\ 1 \in 1 .. (e - b) /\ b + 1 + 1 - 1 = b + 1 /\ e # b + 2
      BY <1>0, <1>5
    <3> QED BY <1>2, <3>1
  <2>2. t[1] = At(s, e)
    BY <1>5, <2>1
  <2>3. t \in Types <=> t[1] \in {"g", "c", "C", "h"}
    BY <1>4, <2>1
  <2>4. Typed(s, b, e) <=> At(s, e) \in {"g", "c", "C", "h"}
    BY <1>5, <2>1 DEF Typed
  <2> QED BY ONLY <2>2, <2>3, <2>4 DEF t
<1>6. CASE e = b + 2
  <2>1. e - b = 2 /\ 1 \in 1 .. (e - b) /\ 2 \in 1 .. (e - b) /\ b + 1 + 1 - 1 = b + 1 /\ b + 1 + 2 - 1 = b + 2 /\ e # b + 1
    BY <1>0, <1>6
  <2>2. Len(t) = 2 /\ t[1] = At(s, b + 1) /\ t[2] = At(s, b + 2)
    BY <1>2, <2>1
  <2>3. t \in Types <=> t[1] = "m" /\ t[2] = "s"
    BY <1>4, <2>2
  <2>4. Typed(s, b, e) <=> At(s, b + 1) = "m" /\ At(s, b + 2) = "s"
    BY <1>6, <2>1 DEF Typed
  <2> QED BY ONLY <2>2, <2>3, <2>4 DEF t
<1>7. CASE e # b + 1 /\ e # b + 2
  <2>1. e - b # 1 /\ e - b # 2
    BY <1>0, <1>7
  <2>2. t \notin Types
    BY <1>2, <1>4, <2>1
  <2>3. ~ Typed(s, b, e)
    BY <1>7 DEF Typed
  <2> QED BY ONLY <2>2, <2>3 DEF t
<1> QED BY <1>5, <1>6, <1>7

(* The switch of brubeck_statsd_msg_parse reads exactly these types. *)
LEMMA TypeRead ==
  ASSUME NEW s \in Text, NEW b \in Nat
  PROVE  /\ \A e : Typed(s, b, e) =>
              MessageType(s, b + 1) = [type |-> IF e = b + 2 THEN "ms" ELSE At(s, e), stop |-> e + 1]
         /\ MessageType(s, b + 1).type # "none" =>
              \E e \in Nat : Typed(s, b, e) /\ MessageType(s, b + 1).stop = e + 1
<1>0. b + 1 \in Nat /\ b + 2 \in Nat /\ b + 1 + 1 = b + 2 /\ b + 2 + 1 = b + 1 + 2 /\ b + 1 # b + 2
  OBVIOUS
<1>1. CASE At(s, b + 1) \in {"g", "c", "C", "h"}
  <2>1. MessageType(s, b + 1) = [type |-> At(s, b + 1), stop |-> b + 1 + 1]
    BY <1>1 DEF MessageType
  <2>2. Typed(s, b, b + 1) /\ \A e : Typed(s, b, e) => e = b + 1
    BY <1>0, <1>1 DEF Typed
  <2> QED BY <1>0, <2>1, <2>2
<1>2. CASE At(s, b + 1) \notin {"g", "c", "C", "h"} /\ At(s, b + 1) = "m" /\ At(s, b + 2) = "s"
  <2>1. MessageType(s, b + 1) = [type |-> "ms", stop |-> b + 1 + 2]
    BY <1>0, <1>2 DEF MessageType
  <2>2. Typed(s, b, b + 2) /\ \A e : Typed(s, b, e) => e = b + 2
    BY <1>0, <1>2 DEF Typed
  <2> QED BY <1>0, <2>1, <2>2
<1>3. CASE At(s, b + 1) \notin {"g", "c", "C", "h"} /\ ~ (At(s, b + 1) = "m" /\ At(s, b + 2) = "s")
  <2>1. MessageType(s, b + 1) = [type |-> "none", stop |-> b + 1]
    BY <1>0, <1>3 DEF MessageType
  <2>2. \A e : ~ Typed(s, b, e)
    BY <1>3 DEF Typed
  <2> QED BY <2>1, <2>2
<1> QED BY <1>1, <1>2, <1>3

(* The rate of a message without one. *)
LEMMA NoRate == NumberOf(<<"1">>) = 1 /\ ScaleOf(<<"1">>) = 0 /\ Pow(10, 0) = 1
<1> DEFINE t == <<"1">>
           e == <<>>
<1>0. "1" \in Char
  BY DigitFacts DEF Char
<1>1. t \in Seq(Char) /\ t \in Text /\ Len(t) = 1 /\ t[1] = "1"
  BY <1>0 DEF Text
<1>2. SubSeq(t, 1, 1) = t /\ SubSeq(t, 3, 1) = e /\ t \o e = t
  <2> HIDE DEF t
  <2>1. SubSeq(t, 1, Len(t)) = t
    <3>1. t \in Seq(Char)
      BY <1>1
    <3> QED BY ONLY <3>1
  <2>2. t \o e = t
    <3>1. t \in Seq(Char)
      BY <1>1
    <3> QED BY ONLY <3>1 DEF e
  <2>3. SubSeq(t, 3, 1) = e
    <3>1. t \in Seq(Char)
      BY <1>1
    <3> QED BY ONLY <3>1 DEF e
  <2> QED BY <1>1, <2>1, <2>2, <2>3
<1>3. e \in Seq(Digit) /\ Len(e) = 0 /\ <<"1">> \o e = t
  OBVIOUS
<1>4. Number(e) = 0
  <2>1. [k \in DOMAIN e |-> Digitval(e[k])] = <<>>
    OBVIOUS
  <2>2. Number(e) = Decimal(<<>>)
    BY <2>1 DEF Number
  <2> QED BY <2>2, DecimalNext
<1>5. Pow(10, 0) = 1
  <2>1. 10 \in Nat /\ 0 \in Nat
    OBVIOUS
  <2> QED BY <2>1, PowNext
<1>6. Number(t) = 1
  <2> HIDE DEF e
  <2>1. Number(<<"1">> \o e) = Digitval("1") * Pow(10, Len(e)) + Number(e)
    BY <1>3, NumberFront, DigitFacts
  <2> QED BY <1>3, <1>4, <1>5, <2>1, DigitFacts
<1>7. Num(t, 0, 1)
  <2> HIDE DEF t
  <2> QED BY <1>1, DigitFacts DEF Num
<1>8. Value(t, 0, 1)
  BY <1>1, <1>7, NumValue
<1> HIDE DEF t, e
<1>9. NumberOf(t) = Number(SubSeq(t, 0 + 1, 1) \o SubSeq(t, 1 + 2, Len(t))) /\ ScaleOf(t) = Len(SubSeq(t, 1 + 2, Len(t)))
  BY <1>8 DEF Value
<1>10. 0 + 1 = 1 /\ 1 + 2 = 3
  OBVIOUS
<1>11. NumberOf(t) = Number(t \o e) /\ ScaleOf(t) = Len(e)
  BY <1>1, <1>2, <1>9, <1>10
<1> QED BY <1>2, <1>3, <1>5, <1>6, <1>11 DEF t
-----------------------------------------------------------------------------
(* The fields of a line whose first '\0' is at l + 1: the key up to the ':' at c, the
   value up to the '|' at b, the type up to e and the rate, if there is one, up to l. *)
RateGood(t) == IsNumber(t) /\ 0 < NumberOf(t) /\ NumberOf(t) <= Pow(10, ScaleOf(t))
Split(s, c, b, e, l) ==
  /\ l \in Nat /\ Found(s, 1, {"nul"}, l + 1)
  /\ c \in 1 .. l /\ b \in (c + 1) .. l /\ e \in (b + 1) .. l
  /\ Found(s, 1, {":", " ", "nul"}, c) /\ At(s, c) = ":" /\ At(s, c - 1) # "."
  /\ At(s, b) = "|" /\ IsNumber(SubSeq(s, c + 1, b - 1))
  /\ Typed(s, b, e)
  /\ \/ e = l
     \/ e + 2 <= l /\ At(s, e + 1) = "|" /\ At(s, e + 2) = "@" /\ RateGood(SubSeq(s, e + 3, l))

Reading(s, c, b, e, l) ==
  LET v == SubSeq(s, c + 1, b - 1)
      r == IF e = l THEN <<"1">> ELSE SubSeq(s, e + 3, l) IN
  [key |-> SubSeq(s, 1, c - 1), relative |-> v # <<>> /\ v[1] \in {"-", "+"},
   type |-> IF e = b + 2 THEN "ms" ELSE At(s, e),
   num |-> NumberOf(v), scale |-> ScaleOf(v), rate |-> <<NumberOf(r), ScaleOf(r)>>]

(* brubeck_statsd_msg_parse step by step: what it has read when it accepts. *)
RateAt(s, k) ==
  IF At(s, k) = "|" /\ At(s, k + 1) = "@" THEN ParseFloat(s, k + 2) ELSE [num |-> 1, scale |-> 0, stop |-> k]
Accepts(s, c, v, t) ==
  /\ At(s, c) = ":" /\ At(s, c - 1) # "." /\ At(s, v.stop) = "|" /\ t.type # "none"
  /\ RateInRange(RateAt(s, t.stop)) /\ At(s, RateAt(s, t.stop).stop) = "nul"

(* MsgParse is made of these steps. *)
LEMMA MsgParseSteps ==
  ASSUME NEW s \in Text
  PROVE  LET c == KeyEnd(s)
             v == ParseFloat(s, c + 1)
             t == MessageType(s, v.stop + 1)
             r == RateAt(s, t.stop) IN
         MsgParse(s) = IF Accepts(s, c, v, t)
                         THEN <<[key |-> SubSeq(s, 1, c - 1), type |-> t.type, relative |-> v.relative,
                                 num |-> v.num, scale |-> v.scale, rate |-> <<r.num, r.scale>>]>>
                         ELSE <<>>
BY Zenon DEF MsgParse, Accepts, RateAt

(* A line with such fields is accepted, with the reading of its fields. *)
LEMMA SplitParses ==
  ASSUME NEW s \in Text, NEW c, NEW b, NEW e, NEW l, Split(s, c, b, e, l)
  PROVE  MsgParse(s) = <<Reading(s, c, b, e, l)>>
<1> DEFINE n == Len(s)
           v == ParseFloat(s, c + 1)
           t == MessageType(s, v.stop + 1)
           r == RateAt(s, t.stop)
           w == IF e = l THEN <<"1">> ELSE SubSeq(s, e + 3, l)
           f == SubSeq(s, c + 1, b - 1)
<1>0. n \in Nat /\ l \in Nat /\ l + 1 \in 1 .. (n + 1) /\ c \in 1 .. l /\ b \in (c + 1) .. l /\ e \in (b + 1) .. l
  BY Zenon, AtFacts DEF Split, Found
<1> HIDE DEF n
<1>1. KeyEnd(s) = c
  <2>0. Found(s, 1, {":", " ", "nul"}, c)
    BY Zenon DEF Split
  <2>1. 1 \in 1 .. (n + 1)
    BY <1>0
  <2> DEFINE cs == {":", " ", "nul"}
  <2>2. First(s, 1, cs) = c
    <3> HIDE DEF cs
    <3>1. Found(s, 1, cs, c)
      BY <2>0 DEF cs
    <3> QED BY <2>1, <3>1, FoundFacts DEF n
  <2> QED BY <2>2 DEF KeyEnd
<1>2. Reads(s, c + 1, b)
  <2>1. c + 1 \in 1 .. (n + 1) /\ b \in (c + 1) .. (n + 1)
    BY <1>0
  <2>2. IsNumber(SubSeq(s, c + 1, b - 1)) /\ At(s, b) \in {"|", "nul"}
    BY Zenon DEF Split
  <2> QED BY <2>1, <2>2, NumberRead DEF n
<1>3. /\ v.stop = b /\ v.num = NumberOf(f) /\ v.scale = ScaleOf(f)
      /\ v.relative = (f # <<>> /\ f[1] \in {"-", "+"})
  BY <1>2 DEF Reads
<1> HIDE DEF v, f
<1>4. t = [type |-> IF e = b + 2 THEN "ms" ELSE At(s, e), stop |-> e + 1]
  <2>0. Typed(s, b, e)
    BY Zenon DEF Split
  <2>1. b \in Nat
    BY <1>0
  <2>2. MessageType(s, b + 1) = [type |-> IF e = b + 2 THEN "ms" ELSE At(s, e), stop |-> e + 1]
    BY <2>0, <2>1, TypeRead
  <2> QED BY <1>3, <2>2
<1>5. t.stop = e + 1 /\ t.type = (IF e = b + 2 THEN "ms" ELSE At(s, e)) /\ t.type # "none"
  <2> HIDE DEF t
  <2>1. t.stop = e + 1 /\ t.type = (IF e = b + 2 THEN "ms" ELSE At(s, e))
    BY <1>4
  <2>2. e # b + 2 => At(s, e) # "none"
    BY Zenon DEF Split, Typed
  <2> QED BY <2>1, <2>2
<1> HIDE DEF t
<1>6. At(s, l + 1) = "nul"
  BY Zenon DEF Split, Found
<1>7. r.num = NumberOf(w) /\ r.scale = ScaleOf(w) /\ r.stop = l + 1 /\ RateInRange(r)
  <2>1. CASE e = l
    <3>1. r = [num |-> 1, scale |-> 0, stop |-> e + 1]
      BY <1>5, <1>6, <2>1 DEF RateAt
    <3>2. w = <<"1">>
      BY <2>1
    <3> HIDE DEF r, w
    <3>3. r.num = 1 /\ r.scale = 0 /\ r.stop = l + 1
      BY <2>1, <3>1
    <3> QED BY <3>2, <3>3, NoRate DEF RateInRange
  <2>2. CASE e # l
    <3>1. /\ e + 2 <= l /\ At(s, e + 1) = "|" /\ At(s, e + 2) = "@"
      BY Zenon, <2>2 DEF Split
    <3>2. RateGood(w)
      BY Zenon, <2>2 DEF Split
    <3>3. e + 1 + 1 = e + 2 /\ e + 1 + 2 = e + 3 /\ e + 3 \in 1 .. (n + 1) /\ l + 1 \in (e + 3) .. (n + 1)
          /\ (l + 1) - 1 = l
      BY <1>0, <3>1
    <3>4. r = ParseFloat(s, e + 3)
      BY <1>5, <3>1, <3>3 DEF RateAt
    <3> DEFINE a == e + 3
               j == l + 1
    <3>5. w = SubSeq(s, a, j - 1) /\ a \in 1 .. (n + 1) /\ j \in a .. (n + 1) /\ r = ParseFloat(s, a)
      BY <2>2, <3>3, <3>4
    <3>6. At(s, j) \in {"|", "nul"}
      BY <1>6
    <3> HIDE DEF r, w, a, j
    <3>7. Reads(s, a, j)
      BY <3>2, <3>5, <3>6, NumberRead DEF RateGood, n
    <3>8. r.num = NumberOf(w) /\ r.scale = ScaleOf(w) /\ r.stop = j
      BY <3>5, <3>7 DEF Reads
    <3> QED BY <3>2, <3>8 DEF RateInRange, RateGood, j
  <2> QED BY <2>1, <2>2
<1>8. At(s, c) = ":" /\ At(s, c - 1) # "." /\ At(s, b) = "|"
  BY Zenon DEF Split
<1>9. Accepts(s, c, v, t)
  BY <1>3, <1>5, <1>6, <1>7, <1>8 DEF Accepts
<1>10. MsgParse(s) = IF Accepts(s, c, v, t)
                         THEN <<[key |-> SubSeq(s, 1, c - 1), type |-> t.type, relative |-> v.relative,
                                 num |-> v.num, scale |-> v.scale, rate |-> <<r.num, r.scale>>]>>
                         ELSE <<>>
  BY Zenon, <1>1, MsgParseSteps DEF v, t
<1> HIDE DEF r, w
<1>11. MsgParse(s) = <<[key |-> SubSeq(s, 1, c - 1), type |-> t.type, relative |-> v.relative,
                        num |-> v.num, scale |-> v.scale, rate |-> <<r.num, r.scale>>]>>
  BY Zenon, <1>9, <1>10
<1>12. Reading(s, c, b, e, l) =
         [key |-> SubSeq(s, 1, c - 1), relative |-> f # <<>> /\ f[1] \in {"-", "+"},
          type |-> IF e = b + 2 THEN "ms" ELSE At(s, e),
          num |-> NumberOf(f), scale |-> ScaleOf(f), rate |-> <<NumberOf(w), ScaleOf(w)>>]
  BY DEF Reading, f, w
<1>13. Reading(s, c, b, e, l) =
         [key |-> SubSeq(s, 1, c - 1), type |-> t.type, relative |-> v.relative,
          num |-> v.num, scale |-> v.scale, rate |-> <<r.num, r.scale>>]
  BY Zenon, <1>3, <1>5, <1>7, <1>12
<1> QED BY <1>11, <1>13

(* Whatever the parser accepts has such fields: it stops at the first '\0'. *)
LEMMA ParseSplits ==
  ASSUME NEW s \in Text, MsgParse(s) # <<>>
  PROVE  \E c, b, e, l : Split(s, c, b, e, l)
<1> DEFINE n == Len(s)
           c == KeyEnd(s)
           v == ParseFloat(s, c + 1)
           b == v.stop
           t == MessageType(s, b + 1)
           r == RateAt(s, t.stop)
           l == r.stop - 1
           ks == {":", " ", "nul"}
<1>0. n \in Nat /\ \A x \in Int : At(s, x) # "nul" => x \in 1 .. n
  BY AtFacts
<1>1. Accepts(s, c, v, t)
  BY MsgParseSteps
<1>2. Found(s, 1, ks, c)
  <2>1. 1 \in 1 .. (Len(s) + 1)
    BY <1>0
  <2>2. "nul" \in ks /\ c = First(s, 1, ks)
    BY DEF KeyEnd
  <2> HIDE DEF ks, c
  <2> QED BY <2>1, <2>2, FoundFacts
<1> HIDE DEF n, c
<1>3. At(s, c) = ":" /\ At(s, c - 1) # "."
  BY <1>1 DEF Accepts
<1>4. c \in 1 .. n /\ \A x \in 1 .. (c - 1) : At(s, x) # "nul"
  <2>1. c \in 1 .. (n + 1) /\ \A x \in 1 .. (c - 1) : At(s, x) \notin ks
    <3> HIDE DEF ks
    <3> QED BY <1>2 DEF Found, n
  <2>2. c \in Int
    <3>1. c \in 1 .. (n + 1)
      BY <2>1
    <3> QED BY <3>1
  <2> QED BY <1>0, <1>3, <2>1, <2>2
<1>5. b \in (c + 1) .. (n + 1) /\ Reads(s, c + 1, b) /\ \A x \in (c + 1) .. (b - 1) : At(s, x) # "nul"
  <2> DEFINE a == c + 1
  <2>1. a \in 1 .. (n + 1)
    BY <1>0, <1>4
  <2> HIDE DEF a
  <2>2. LET j == ParseFloat(s, a).stop IN
         /\ j \in a .. (Len(s) + 1) /\ Reads(s, a, j)
         /\ \A x \in a .. (j - 1) : At(s, x) \notin {"nul", "|"}
    BY <2>1, FieldRead DEF n
  <2>3. b = ParseFloat(s, a).stop
    BY DEF a
  <2> HIDE DEF b
  <2>4. b \in a .. (n + 1) /\ Reads(s, a, b) /\ \A x \in a .. (b - 1) : At(s, x) # "nul"
    BY <2>2, <2>3 DEF n
  <2> QED BY <2>4 DEF a
<1>6. At(s, b) = "|" /\ t.type # "none" /\ RateInRange(r) /\ At(s, r.stop) = "nul"
  BY <1>1 DEF Accepts
<1> HIDE DEF b
<1>7. b \in (c + 1) .. n /\ b \in Nat
  <2>1. b \in Int
    BY <1>0, <1>4, <1>5
  <2>2. b \in 1 .. n
    BY <1>0, <1>6, <2>1
  <2> QED BY <1>0, <1>4, <1>5, <2>2
<1>8. PICK e \in Nat : Typed(s, b, e) /\ t.stop = e + 1
  BY <1>6, <1>7, TypeRead
<1> HIDE DEF t
<1>9. e \in (b + 1) .. n /\ \A x \in (b + 1) .. e : At(s, x) # "nul"
  <2>1. CASE e = b + 1 /\ At(s, e) \in {"g", "c", "C", "h"}
    <3>1. e \in 1 .. n
      <4>1. e \in Int /\ At(s, e) # "nul"
        BY <2>1
      <4> QED BY <1>0, <4>1
    <3>2. \A x \in (b + 1) .. e : x = e
      BY <1>7, <2>1
    <3> QED BY <1>0, <1>7, <2>1, <3>1, <3>2
  <2>2. CASE e = b + 2 /\ At(s, b + 1) = "m" /\ At(s, b + 2) = "s"
    <3>1. e \in 1 .. n
      <4>1. e \in Int /\ At(s, e) # "nul"
        BY <2>2
      <4> QED BY <1>0, <4>1
    <3>2. \A x \in (b + 1) .. e : x = b + 1 \/ x = b + 2
      BY <1>7, <2>2
    <3>3. e \in (b + 1) .. n
      BY <1>0, <1>7, <2>2, <3>1
    <3> QED BY <2>2, <3>2, <3>3
  <2> QED BY <1>8, <2>1, <2>2 DEF Typed
<1>10. ASSUME NEW x \in 1 .. e PROVE At(s, x) # "nul"
  <2>1. x \in 1 .. (c - 1) \/ x = c \/ x \in (c + 1) .. (b - 1) \/ x = b \/ x \in (b + 1) .. e
    BY <1>0, <1>4, <1>7, <1>9
  <2>2. x = c \/ x = b => At(s, x) # "nul"
    BY <1>3, <1>6
  <2> QED BY <1>4, <1>5, <1>9, <2>1, <2>2
<1>11. IsNumber(SubSeq(s, c + 1, b - 1))
  BY <1>5 DEF Reads
<1> DEFINE rated == At(s, e + 1) = "|" /\ At(s, e + 2) = "@"
<1>12. CASE ~ rated
  <2>1. r = [num |-> 1, scale |-> 0, stop |-> e + 1]
    <3>1. e + 1 + 1 = e + 2
      OBVIOUS
    <3> QED BY <1>8, <1>12, <3>1 DEF RateAt
  <2>2. r.stop = e + 1
    BY <2>1
  <2>3. Found(s, 1, {"nul"}, e + 1)
    <3> DEFINE k == e + 1
    <3>1. k \in 1 .. (n + 1) /\ \A x \in 1 .. (k - 1) : x \in 1 .. e
      BY <1>0, <1>7, <1>9
    <3>2. At(s, k) = "nul"
      BY <1>6, <2>2
    <3> HIDE DEF k
    <3>3. At(s, k) \in {"nul"} /\ \A x \in 1 .. (k - 1) : At(s, x) \notin {"nul"}
      BY <1>10, <3>1, <3>2
    <3>4. Found(s, 1, {"nul"}, k)
      BY <3>1, <3>3 DEF Found, n
    <3> QED BY <3>4 DEF k
  <2>4. c \in 1 .. e /\ b \in (c + 1) .. e /\ e \in (b + 1) .. e
    BY <1>0, <1>4, <1>7, <1>9
  <2>5. Split(s, c, b, e, e)
    BY Zenon, <1>2, <1>3, <1>6, <1>8, <1>11, <2>3, <2>4 DEF Split
  <2> QED BY <2>5
<1>13. CASE rated
  <2> DEFINE a == e + 3
  <2>1. r = ParseFloat(s, a)
    <3>1. e + 1 + 1 = e + 2 /\ e + 1 + 2 = a
      OBVIOUS
    <3> HIDE DEF a
    <3> QED BY <1>8, <1>13, <3>1 DEF RateAt
  <2>2. e + 2 \in 1 .. n /\ a \in 1 .. (n + 1)
    <3>1. e + 2 \in Int /\ At(s, e + 2) # "nul"
      BY <1>13
    <3>2. e + 2 \in 1 .. n
      BY <1>0, <3>1
    <3> QED BY <1>0, <3>2
  <2> HIDE DEF a, r
  <2> DEFINE j == r.stop
  <2>3. LET h == ParseFloat(s, a).stop IN
         /\ h \in a .. (Len(s) + 1) /\ Reads(s, a, h)
         /\ \A x \in a .. (h - 1) : At(s, x) \notin {"nul", "|"}
    BY <2>2, FieldRead DEF n
  <2>4. j = ParseFloat(s, a).stop
    BY <2>1
  <2>a. At(s, j) = "nul" /\ l = j - 1
    BY <1>6
  <2> HIDE DEF j, l
  <2>5. j \in a .. (n + 1) /\ Reads(s, a, j) /\ \A x \in a .. (j - 1) : At(s, x) # "nul"
    BY <2>3, <2>4 DEF n
  <2>6. r.num = NumberOf(SubSeq(s, a, j - 1)) /\ r.scale = ScaleOf(SubSeq(s, a, j - 1)) /\ IsNumber(SubSeq(s, a, j - 1))
    BY <2>1, <2>5 DEF Reads
  <2>7. RateGood(SubSeq(s, a, j - 1))
    BY <1>6, <2>6 DEF RateGood, RateInRange
  <2>8. l \in Nat /\ j = l + 1 /\ e + 2 <= l /\ c \in 1 .. l /\ b \in (c + 1) .. l /\ e \in (b + 1) .. l
    BY <1>0, <1>4, <1>7, <1>9, <2>2, <2>5, <2>a DEF a
  <2>9. ASSUME NEW x \in 1 .. (j - 1) PROVE At(s, x) # "nul"
    <3>1. x \in 1 .. e \/ x = e + 1 \/ x = e + 2 \/ x \in a .. (j - 1)
      BY <1>0, <1>9, <2>2, <2>5 DEF a
    <3> QED BY <1>10, <1>13, <2>5, <3>1
  <2>10. Found(s, 1, {"nul"}, j)
    <3>1. At(s, j) \in {"nul"} /\ \A x \in 1 .. (j - 1) : At(s, x) \notin {"nul"}
      BY <2>9, <2>a
    <3>2. j \in 1 .. (n + 1)
      BY <1>0, <2>2, <2>5
    <3> QED BY <3>1, <3>2 DEF Found, n
  <2>11. RateGood(SubSeq(s, e + 3, l)) /\ Found(s, 1, {"nul"}, l + 1)
    BY <2>7, <2>8, <2>10, <2>a DEF a
  <2>12. Split(s, c, b, e, l)
    BY Zenon, <1>2, <1>3, <1>6, <1>8, <1>11, <1>13, <2>8, <2>11 DEF Split
  <2> QED BY <2>12
<1> QED BY <1>12, <1>13

(* The places of the grammar are those fields. *)
Chars(z, c) == {n \in DOMAIN z : z[n] = c}
Fitting(z) ==
  {p \in Chars(z, ":") \X Chars(z, "|") \X DOMAIN z :
     p[1] < p[2] /\ p[2] < p[3] /\ Fits(z, p[1], p[2], p[3])}
Sense(z, p) ==
  LET v == SubSeq(z, p[1] + 1, p[2] - 1)
      r == IF p[3] = Len(z) THEN <<"1">> ELSE SubSeq(z, p[3] + 3, Len(z)) IN
  [key |-> SubSeq(z, 1, p[1] - 1), relative |-> v # <<>> /\ v[1] \in {"-", "+"},
   type |-> IF p[3] = p[2] + 2 THEN "ms" ELSE z[p[3]],
   num |-> NumberOf(v), scale |-> ScaleOf(v), rate |-> <<NumberOf(r), ScaleOf(r)>>]
Upto(s) == SubSeq(s, 1, First(s, 1, {"nul"}) - 1)

LEMMA ReadingsAre ==
  ASSUME NEW s PROVE Readings(s) = {Sense(Upto(s), p) : p \in Fitting(Upto(s))}
BY DEF Readings, Sense, Upto, Fitting, Chars

(* The part of a line before its first '\0'. *)
LEMMA UptoFacts ==
  ASSUME NEW s \in Text
  PROVE  LET z == Upto(s)
             l == Len(z) IN
         /\ z \in Text /\ l \in 0 .. Len(s) /\ DOMAIN z = 1 .. l /\ Found(s, 1, {"nul"}, l + 1)
         /\ \A x \in 1 .. l : z[x] = At(s, x) /\ At(s, x) # "nul"
         /\ \A x \in Nat \ {0}, y \in 0 .. l : SubSeq(z, x, y) = SubSeq(s, x, y)
<1> DEFINE n == Len(s)
           k == First(s, 1, {"nul"})
           z == SubSeq(s, 1, k - 1)
           l == Len(z)
<1>0. n \in Nat /\ 1 \in 1 .. (n + 1) /\ s \in Seq(Char)
  BY AtFacts DEF Text
<1>1. Found(s, 1, {"nul"}, k)
  BY <1>0, FoundFacts
<1> HIDE DEF k, n
<1>2. k \in 1 .. (n + 1) /\ \A x \in 1 .. (k - 1) : At(s, x) # "nul"
  BY <1>1 DEF Found, n
<1>3. z \in Text /\ Len(z) = k - 1 /\ \A x \in 1 .. (k - 1) : z[x] = At(s, 1 + x - 1)
  BY <1>0, <1>2, FieldFacts DEF n
<1>4. l + 1 = k /\ l \in 0 .. n /\ l = k - 1
  <2>1. k - 1 + 1 = k /\ k - 1 \in 0 .. n
    BY <1>0, <1>2
  <2> QED BY <1>3, <2>1
<1>5. ASSUME NEW x \in Nat \ {0}, NEW y \in 0 .. l PROVE SubSeq(z, x, y) = SubSeq(s, x, y)
  <2>1. y \in 0 .. (k - 1)
    BY Zenon, <1>4, <1>5
  <2>2. Within(s, 1, k, x, y)
    BY <1>0, <1>2, <2>1, PartOfPart DEF n
  <2>3. 1 + x - 1 = x /\ 1 + y - 1 = y
    BY <1>0, <1>2, <2>1
  <2> QED BY <2>2, <2>3 DEF Within
<1> HIDE DEF z
<1>6. ASSUME NEW x \in 1 .. l PROVE z[x] = At(s, x) /\ At(s, x) # "nul"
  <2> HIDE DEF l
  <2>1. x \in 1 .. (k - 1) /\ 1 + x - 1 = x
    BY <1>4
  <2> QED BY <1>2, <1>3, <2>1
<1>7. DOMAIN z = 1 .. l
  BY <1>3, AtFacts
<1> QED BY <1>1, <1>3, <1>4, <1>5, <1>6, <1>7 DEF Upto, z, k, n

(* A key of the grammar ends where the parser finds the end of the key. *)
LEMMA KeyFits ==
  ASSUME NEW s \in Text, NEW c \in 1 .. Len(s), At(s, c) = ":", \A x \in 1 .. c : At(s, x) # "nul"
  PROVE  LET key == SubSeq(s, 1, c - 1) IN
         /\ Range(key) \cap {":", " "} = {} <=> Found(s, 1, {":", " ", "nul"}, c)
         /\ (key # <<>> => key[Len(key)] # ".") <=> At(s, c - 1) # "."
<1> DEFINE n == Len(s)
           key == SubSeq(s, 1, c - 1)
           ks == {":", " ", "nul"}
<1>0. n \in Nat /\ c \in 1 .. n /\ 1 \in 1 .. (n + 1) /\ c \in 1 .. (n + 1)
  BY AtFacts
<1> HIDE DEF n
<1>1. key \in Text /\ Len(key) = c - 1 /\ \A x \in 1 .. (c - 1) : key[x] = At(s, 1 + x - 1)
  BY <1>0, FieldFacts DEF n
<1> HIDE DEF key
<1>2. \A x \in 1 .. (c - 1) : key[x] = At(s, x)
  <2> SUFFICES ASSUME NEW x \in 1 .. (c - 1) PROVE key[x] = At(s, x)
    OBVIOUS
  <2>1. 1 + x - 1 = x
    BY <1>0
  <2> QED BY <1>1, <2>1
<1>3. DOMAIN key = 1 .. (c - 1) /\ (key = <<>> <=> c - 1 = 0)
  <2>1. DOMAIN key = 1 .. Len(key) /\ (key = <<>> <=> Len(key) = 0)
    <3>1. key \in Seq(Char)
      BY <1>1 DEF Text
    <3> QED BY ONLY <3>1
  <2> QED BY <1>1, <2>1
<1>4. Range(key) \cap {":", " "} = {} <=> \A x \in 1 .. (c - 1) : At(s, x) \notin {":", " "}
  <2>1. Range(key) = {key[x] : x \in 1 .. (c - 1)}
    BY <1>3 DEF Range
  <2> QED BY Zenon, <1>2, <2>1
<1>5. (\A x \in 1 .. (c - 1) : At(s, x) \notin {":", " "}) <=> \A x \in 1 .. (c - 1) : At(s, x) \notin ks
  <2>1. \A x \in 1 .. (c - 1) : At(s, x) # "nul"
    BY <1>0
  <2> QED BY <2>1
<1>6. Found(s, 1, ks, c) <=> \A x \in 1 .. (c - 1) : At(s, x) \notin ks
  <2>1. At(s, c) \in ks
    OBVIOUS
  <2> HIDE DEF ks
  <2> QED BY <1>0, <2>1 DEF Found, n
<1>7. (key # <<>> => key[Len(key)] # ".") <=> At(s, c - 1) # "."
  <2>1. CASE c = 1
    <3>1. c - 1 = 0
      BY <2>1
    <3>2. At(s, c - 1) = "nul"
      BY <3>1, AtFacts
    <3> QED BY <1>3, <3>1, <3>2
  <2>2. CASE c # 1
    <3>1. c - 1 # 0 /\ c - 1 \in 1 .. (c - 1)
      BY <1>0, <2>2
    <3>2. key # <<>> /\ key[Len(key)] = At(s, c - 1)
      BY <1>1, <1>2, <1>3, <3>1
    <3> QED BY <3>2
  <2> QED BY <2>1, <2>2
<1> QED BY Zenon, <1>4, <1>5, <1>6, <1>7 DEF key

(* The two characters that announce a rate. *)
LEMMA RateFits ==
  ASSUME NEW s \in Text, NEW e \in Nat, e + 2 <= Len(s)
  PROVE  SubSeq(s, e + 1, e + 2) = <<"|", "@">> <=> At(s, e + 1) = "|" /\ At(s, e + 2) = "@"
<1> DEFINE t == SubSeq(s, e + 1, e + 2)
           j == e + 3
<1>0. Len(s) \in Nat
  BY AtFacts
<1>1. e + 1 \in 1 .. (Len(s) + 1) /\ j \in (e + 1) .. (Len(s) + 1) /\ j - 1 = e + 2 /\ j - (e + 1) = 2
      /\ 1 \in 1 .. 2 /\ 2 \in 1 .. 2 /\ e + 1 + 1 - 1 = e + 1 /\ e + 1 + 2 - 1 = e + 2
  BY <1>0
<1>2. t \in Text /\ Len(t) = 2 /\ \A x \in 1 .. 2 : t[x] = At(s, e + 1 + x - 1)
  <2> HIDE DEF j
  <2>1. /\ SubSeq(s, e + 1, j - 1) \in Text /\ Len(SubSeq(s, e + 1, j - 1)) = j - (e + 1)
        /\ \A x \in 1 .. (j - (e + 1)) : SubSeq(s, e + 1, j - 1)[x] = At(s, e + 1 + x - 1)
    BY <1>1, FieldFacts
  <2> QED BY <1>1, <2>1
<1> HIDE DEF t
<1>3. t[1] = At(s, e + 1) /\ t[2] = At(s, e + 2)
  BY <1>1, <1>2
<1>4. t = <<"|", "@">> <=> t[1] = "|" /\ t[2] = "@"
  <2>1. t \in Seq(Char) /\ Len(t) = 2
    BY <1>2 DEF Text
  <2> QED BY ONLY <2>1
<1> QED BY ONLY <1>3, <1>4 DEF t

(* A line fits the grammar at some positions exactly if its fields are there. *)
LEMMA FitSplits ==
  ASSUME NEW s \in Text, NEW c \in Nat, NEW b \in Nat, NEW e \in Nat
  PROVE  LET z == Upto(s) IN
         /\ <<c, b, e>> \in Fitting(z) <=> Split(s, c, b, e, Len(z))
         /\ <<c, b, e>> \in Fitting(z) => Sense(z, <<c, b, e>>) = Reading(s, c, b, e, Len(z))
<1> DEFINE z == Upto(s)
           l == Len(z)
           Places == c \in 1 .. l /\ b \in (c + 1) .. l /\ e \in (b + 1) .. l /\ At(s, c) = ":" /\ At(s, b) = "|"
<1>0. /\ z \in Text /\ l \in 0 .. Len(s) /\ DOMAIN z = 1 .. l /\ Found(s, 1, {"nul"}, l + 1)
      /\ \A x \in 1 .. l : z[x] = At(s, x) /\ At(s, x) # "nul"
      /\ \A x \in Nat \ {0}, y \in 0 .. l : SubSeq(z, x, y) = SubSeq(s, x, y)
  BY UptoFacts
<1> DEFINE p == <<c, b, e>>
<1>1. p \in Fitting(z) <=> Places /\ Fits(z, c, b, e)
  <2>1. p[1] = c /\ p[2] = b /\ p[3] = e
    OBVIOUS
  <2>2. p \in Fitting(z) <=> /\ p \in Chars(z, ":") \X Chars(z, "|") \X DOMAIN z
                             /\ c < b /\ b < e /\ Fits(z, c, b, e)
    BY <2>1 DEF Fitting
  <2>3. p \in Chars(z, ":") \X Chars(z, "|") \X DOMAIN z <=> c \in Chars(z, ":") /\ b \in Chars(z, "|") /\ e \in DOMAIN z
    OBVIOUS
  <2>4. \A x, k : x \in Chars(z, k) <=> x \in 1 .. l /\ z[x] = k
    BY <1>0 DEF Chars
  <2>5. (c \in 1 .. l /\ b \in 1 .. l /\ e \in 1 .. l /\ c < b /\ b < e)
        <=> (c \in 1 .. l /\ b \in (c + 1) .. l /\ e \in (b + 1) .. l)
    <3>1. l \in Nat
      BY <1>0
    <3> HIDE DEF l
    <3> QED BY <3>1
  <2>6. c \in 1 .. l /\ b \in 1 .. l => z[c] = At(s, c) /\ z[b] = At(s, b)
    BY <1>0
  <2>7. DOMAIN z = 1 .. l
    BY <1>0
  <2> HIDE DEF p, z, l
  <2> QED BY <2>2, <2>3, <2>4, <2>5, <2>6, <2>7
<1> HIDE DEF z
<1>2. ASSUME Places PROVE Fits(z, c, b, e) <=> Split(s, c, b, e, l)
  <2> DEFINE n == Len(s)
  <2>0. l \in Nat /\ n \in Nat /\ l <= n
    BY <1>0, AtFacts
  <2> HIDE DEF l, n
  <2>1. c \in 1 .. l /\ b \in (c + 1) .. l /\ e \in (b + 1) .. l /\ At(s, c) = ":" /\ At(s, b) = "|"
    BY <1>2
  <2>2. /\ c \in 1 .. n /\ b \in 1 .. n /\ e \in (b + 1) .. n
        /\ 1 \in Nat \ {0} /\ c + 1 \in Nat \ {0} /\ b + 1 \in Nat \ {0} /\ e + 1 \in Nat \ {0} /\ e + 3 \in Nat \ {0}
        /\ c - 1 \in 0 .. l /\ b - 1 \in 0 .. l /\ e \in 0 .. l /\ l \in 0 .. l
        /\ \A x \in 1 .. c : x \in 1 .. l
    BY <2>0, <2>1
  <2>3. /\ SubSeq(z, 1, c - 1) = SubSeq(s, 1, c - 1) /\ SubSeq(z, c + 1, b - 1) = SubSeq(s, c + 1, b - 1)
        /\ SubSeq(z, b + 1, e) = SubSeq(s, b + 1, e) /\ SubSeq(z, e + 3, l) = SubSeq(s, e + 3, l)
    BY <1>0, <2>2
  <2>4. \A x \in 1 .. c : At(s, x) # "nul"
    BY <1>0, <2>2
  <2> DEFINE key == SubSeq(s, 1, c - 1)
  <2>5. /\ Range(key) \cap {":", " "} = {} <=> Found(s, 1, {":", " ", "nul"}, c)
        /\ (key # <<>> => key[Len(key)] # ".") <=> At(s, c - 1) # "."
    BY Zenon, <2>1, <2>2, <2>4, KeyFits DEF n
  <2>6. SubSeq(s, b + 1, e) \in Types <=> Typed(s, b, e)
    BY <2>2, TypeSpan DEF n
  <2>7. ASSUME e + 2 <= l PROVE SubSeq(z, e + 1, e + 2) = <<"|", "@">> <=> At(s, e + 1) = "|" /\ At(s, e + 2) = "@"
    <3>1. e + 2 \in 0 .. l /\ e + 2 <= n
      BY <2>0, <2>7
    <3>2. SubSeq(z, e + 1, e + 2) = SubSeq(s, e + 1, e + 2)
      BY <1>0, <2>2, <3>1
    <3> QED BY Zenon, <3>1, <3>2, RateFits DEF n
  <2> DEFINE rate == SubSeq(s, e + 3, l)
  <2>8. Fits(z, c, b, e) <=>
          /\ Range(key) \cap {":", " "} = {} /\ (key # <<>> => key[Len(key)] # ".")
          /\ IsNumber(SubSeq(s, c + 1, b - 1))
          /\ SubSeq(s, b + 1, e) \in Types
          /\ \/ e = l
             \/ e + 2 <= l /\ SubSeq(z, e + 1, e + 2) = <<"|", "@">> /\ RateGood(rate)
    BY Zenon, <2>3 DEF Fits, RateGood, l
  <2>9. Split(s, c, b, e, l) <=>
          /\ Found(s, 1, {":", " ", "nul"}, c) /\ At(s, c - 1) # "."
          /\ IsNumber(SubSeq(s, c + 1, b - 1))
          /\ Typed(s, b, e)
          /\ \/ e = l
             \/ e + 2 <= l /\ At(s, e + 1) = "|" /\ At(s, e + 2) = "@" /\ RateGood(rate)
    BY Zenon, <1>0, <2>0, <2>1 DEF Split, l
  <2> HIDE DEF key, rate
  <2> QED BY Zenon, <2>5, <2>6, <2>7, <2>8, <2>9
<1>3. Split(s, c, b, e, l) => Places
  BY Zenon DEF Split
<1>4. p \in Fitting(z) <=> Split(s, c, b, e, l)
  <2> HIDE DEF Places, l, p
  <2> QED BY <1>1, <1>2, <1>3
<1>5. ASSUME p \in Fitting(z) PROVE Sense(z, p) = Reading(s, c, b, e, l)
  <2>0. l \in Nat
    BY <1>0
  <2>1. Places
    BY <1>1, <1>5
  <2>2. p[1] = c /\ p[2] = b /\ p[3] = e
    OBVIOUS
  <2> HIDE DEF p, l
  <2>3. /\ 1 \in Nat \ {0} /\ c + 1 \in Nat \ {0} /\ e + 3 \in Nat \ {0}
        /\ c - 1 \in 0 .. l /\ b - 1 \in 0 .. l /\ l \in 0 .. l /\ e \in 1 .. l
    BY <2>0, <2>1
  <2>4. /\ SubSeq(z, 1, c - 1) = SubSeq(s, 1, c - 1) /\ SubSeq(z, c + 1, b - 1) = SubSeq(s, c + 1, b - 1)
        /\ SubSeq(z, e + 3, l) = SubSeq(s, e + 3, l) /\ z[e] = At(s, e)
    BY <1>0, <2>3
  <2> QED BY Zenon, <2>2, <2>4 DEF Sense, Reading, l
<1> QED BY <1>4, <1>5 DEF p, z, l

(* For every line, brubeck_statsd_msg_parse accepts exactly what the grammar can read,
   and with that reading; a line has at most one. *)
THEOREM ParserReads == \A s \in Text : Readings(s) = Range(MsgParse(s))
<1> SUFFICES ASSUME NEW s \in Text PROVE Readings(s) = Range(MsgParse(s))
  OBVIOUS
<1> DEFINE z == Upto(s)
           l == Len(z)
<1>0. l \in Nat
  <2>1. l \in 0 .. Len(s) /\ Len(s) \in Nat
    BY UptoFacts, AtFacts
  <2> QED BY <2>1
<1>1. Readings(s) = {Sense(z, p) : p \in Fitting(z)}
  BY ReadingsAre
<1>2. ASSUME NEW p \in Fitting(z) PROVE Range(MsgParse(s)) = {Sense(z, p)}
  <2>1. PICK c \in Nat, b \in Nat, e \in Nat : p = <<c, b, e>>
    <3>1. DOMAIN z = 1 .. l
      BY UptoFacts
    <3>2. p \in Chars(z, ":") \X Chars(z, "|") \X DOMAIN z
      BY DEF Fitting
    <3>3. Chars(z, ":") \subseteq Nat /\ Chars(z, "|") \subseteq Nat /\ DOMAIN z \subseteq Nat
      BY <1>0, <3>1 DEF Chars
    <3> QED BY <3>2, <3>3
  <2>2. Split(s, c, b, e, l) /\ Sense(z, p) = Reading(s, c, b, e, l)
    BY <1>2, <2>1, FitSplits
  <2>3. MsgParse(s) = <<Sense(z, p)>>
    BY <2>2, SplitParses
  <2> DEFINE m == Sense(z, p)
             q == <<m>>
  <2>4. DOMAIN q = {1} /\ q[1] = m
    <3> HIDE DEF m
    <3> QED OBVIOUS
  <2>5. Range(q) = {m}
    <3> HIDE DEF q, m
    <3> QED BY <2>4 DEF Range
  <2> QED BY <2>3, <2>5
<1>3. ASSUME MsgParse(s) # <<>> PROVE Fitting(z) # {}
  <2>1. PICK c, b, e, k : Split(s, c, b, e, k)
    BY <1>3, ParseSplits
  <2>2. c \in Nat /\ b \in Nat /\ e \in Nat
    <3>1. k \in Nat /\ c \in 1 .. k /\ b \in (c + 1) .. k /\ e \in (b + 1) .. k
      BY Zenon, <2>1 DEF Split
    <3> QED BY <3>1
  <2>3. k = l
    <3>1. Found(s, 1, {"nul"}, k + 1) /\ Found(s, 1, {"nul"}, l + 1) /\ k \in Nat
      BY Zenon, <2>1, UptoFacts DEF Split
    <3>2. 1 \in 1 .. (Len(s) + 1)
      BY AtFacts
    <3>3. First(s, 1, {"nul"}) = k + 1 /\ First(s, 1, {"nul"}) = l + 1
      BY <3>1, <3>2, FoundFacts
    <3> HIDE DEF l
    <3> QED BY <1>0, <3>1, <3>3
  <2>4. <<c, b, e>> \in Fitting(z)
    BY <2>1, <2>2, <2>3, FitSplits
  <2> QED BY <2>4
<1>4. CASE Fitting(z) = {}
  <2>1. MsgParse(s) = <<>>
    BY <1>3, <1>4
  <2>2. Range(<<>>) = {}
    BY DEF Range
  <2> QED BY <1>1, <1>4, <2>1, <2>2
<1>5. CASE Fitting(z) # {}
  <2>1. PICK p \in Fitting(z) : TRUE
    BY <1>5
  <2>2. \A x \in Fitting(z) : Sense(z, x) = Sense(z, p)
    BY <1>2, <2>1
  <2> HIDE DEF z
  <2>3. {Sense(z, x) : x \in Fitting(z)} = {Sense(z, p)}
    BY <2>1, <2>2
  <2> QED BY <1>1, <1>2, <2>1, <2>3
<1> QED BY <1>4, <1>5

(* ParserExact: in every execution, each line of a fresh datagram is accepted exactly when
   the grammar has a reading of it, and recorded with the key, type, value, modifier and
   rate of that reading, whatever the datagrams hold and however the reads go.  Only a
   first line with an empty key may be refused because of the byte before it. *)
THEOREM ParserExactAlways == Spec => ParserExact
<1> DEFINE Exact == 0 < i /\ i <= fresh =>
                      \A b \in Starts(slots[i]) :
                        \/ Readings(Line(slots[i], b)) = Range(parsed'[b])
                        \/ b = 1 /\ At(Line(slots[i], b), 1) = ":" /\ parsed'[b] = <<>>
<1>1. ASSUME WorkerInv, [Next]_vars PROVE [Exact]_vars
  <2> SUFFICES ASSUME Next, 0 < i, i <= fresh, NEW b \in Starts(slots[i])
               PROVE  \/ Readings(Line(slots[i], b)) = Range(parsed'[b])
                      \/ b = 1 /\ At(Line(slots[i], b), 1) = ":" /\ parsed'[b] = <<>>
    BY <1>1
  <2>1. PICK before \in Preceding : PacketParse(before)
    BY DEF Next, RecvMmsg, RecvFrom, RecvFails
  <2>2. \/ parsed'[b] = MsgParse(Line(slots[i], b))
        \/ b = 1 /\ At(Line(slots[i], b), 1) = ":" /\ parsed'[b] = <<>>
    <3>1. parsed'[b] = LineParse(IF b = 1 THEN before ELSE "nul", Line(slots[i], b))
      BY <2>1 DEF PacketParse
    <3> QED BY <3>1 DEF LineParse
  <2>3. slots[i] \in Text
    BY <1>1, StatsdAssumption DEF WorkerInv, SlotsInv, Slot
  <2>4. Line(slots[i], b) \in Text
    BY <2>3, LineFacts
  <2> QED BY <2>2, <2>4, ParserReads
<1>2. WorkerInv /\ [Next]_vars => [Exact]_vars
  BY <1>1
<1> QED BY <1>2, WorkerStart, WorkerStep, PTL DEF Spec, ParserExact
=============================================================================
